----------------------------- MODULE LocalStore -----------------------------
(***************************************************************************)
(* The local content-addressed store and its garbage collection            *)
(* (src/rust/engine/fs/store/src/local.rs on sharded_lmdb), with the       *)
(* service of the daemon that extends leases and collects                  *)
(* (src/python/pants/pantsd/service/store_gc_service.py).                  *)
(*                                                                         *)
(* The store is shared by all processes of a user.  Every action is one    *)
(* LMDB transaction: the scans of shrink are one read transaction per kind *)
(* of entry (the shards of a kind are taken together), and each deletion   *)
(* is a write transaction of its own.                                      *)
(***************************************************************************)
EXTENDS Naturals, FiniteSets

CONSTANTS
    Key,            \* fingerprints
    FileKey,        \* those of files; the others are directories
    Size,           \* the length of each blob
    Process,        \* the daemons that share the store
    Target,         \* target_bytes of shrink
    LeaseTerm,      \* default_lease_until: 2 hours
    LeaseEvery,     \* _LEASE_EXTENSION_INTERVAL_SECONDS: half an hour
    CollectEvery,   \* _GARBAGE_COLLECTION_INTERVAL_SECONDS: 4 hours
    MaxTime         \* bound: the clock stops here

ASSUME KeyAssumption ==
    /\ IsFiniteSet(Key)
    /\ FileKey \subseteq Key
    /\ Size \in [Key -> Nat]

ASSUME TimeAssumption ==
    /\ Target \in Nat
    /\ LeaseTerm \in Nat
    /\ LeaseEvery \in Nat
    /\ CollectEvery \in Nat
    /\ MaxTime \in Nat

VARIABLES
    now,            \* the clock, in units coarser than a second
    blobs,          \* the keys of the content databases
    lease,          \* the lease databases; 0 is NotFound
    inUse,          \* the file digests in the graph of each process
    gc,             \* each process's progress through shrink
    nextLease,      \* StoreGCService._next_lease_extension
    nextCollect,    \* StoreGCService._next_gc
    taken           \* not in the code: what others deleted of each one's plan

vars == <<now, blobs, lease, inUse, gc, nextLease, nextCollect, taken>>

(* A blob as shrink remembers it: how long ago its lease expired.         *)
AgedFingerprint == [key : Key, ago : Nat]

Idle == [pc |-> "idle", heap |-> {}, used |-> 0]

(* The keys shrink has in its heap. *)
Planned(p) == {a.key : a \in gc[p].heap}

(* The bytes of the blobs in S, counted one by one. *)
Bytes(S) == Cardinality(UNION {{k} \X (1..Size[k]) : k \in S})

(* Time passes.  The service wakes up every 10 seconds, far less than the *)
(* unit of time here, so an extension that is due happens first, unless   *)
(* its thread is still collecting.                                        *)
Tick ==
    /\ now < MaxTime
    /\ \A p \in Process : now < nextLease[p] \/ gc[p].pc # "idle"
    /\ now' = now + 1
    /\ UNCHANGED <<blobs, lease, inUse, gc, nextLease, nextCollect, taken>>

(* ShardedLmdb::store_bytes.  The put does not overwrite, and when the    *)
(* key exists the transaction ends there, before the lease.               *)
StoreBytes(k, initialLease) ==
    /\ blobs' = blobs \cup {k}
    /\ lease' = IF k \notin blobs /\ initialLease
                THEN [lease EXCEPT ![k] = now + LeaseTerm]
                ELSE lease
    /\ UNCHANGED <<now, gc, nextLease, nextCollect, taken>>

(* A DigestFile node runs: it stores the file, and the graph then holds   *)
(* the digest.                                                            *)
DigestFile(p, k) ==
    /\ StoreBytes(k, TRUE)
    /\ inUse' = [inUse EXCEPT ![p] = @ \cup {k}]

(* Any other blob: a directory, the output of a process, a download.      *)
Record(k, initialLease) ==
    /\ StoreBytes(k, initialLease)
    /\ UNCHANGED inUse

(* The node is invalidated: Graph::all_digests no longer lists it.        *)
Invalidate(p, k) ==
    /\ k \in inUse[p]
    /\ inUse' = [inUse EXCEPT ![p] = @ \ {k}]
    /\ UNCHANGED <<now, blobs, lease, gc, nextLease, nextCollect, taken>>

(* What is left of the lease database after lease_all put a lease for     *)
(* each digest in a transaction of its own: the RwTransaction is dropped  *)
(* without a commit, which aborts it.                                     *)
LeaseAll(digests) == lease

(* StoreGCService._maybe_extend_lease. The service's thread collects too, *)
(* so it does not do both at once.                                        *)
MaybeExtendLease(p) ==
    /\ gc[p].pc = "idle"
    /\ now >= nextLease[p]
    /\ lease' = LeaseAll(inUse[p])
    /\ nextLease' = [nextLease EXCEPT ![p] = now + LeaseEvery]
    /\ UNCHANGED <<now, blobs, inUse, gc, nextCollect, taken>>

(* StoreGCService._maybe_garbage_collect calls shrink. *)
MaybeGarbageCollect(p) ==
    /\ gc[p].pc = "idle"
    /\ now >= nextCollect[p]
    /\ gc' = [gc EXCEPT ![p].pc = "files"]
    /\ UNCHANGED <<now, blobs, lease, inUse, nextLease, nextCollect, taken>>

(* Fault: a lease that ends now counts as expired. *)
ExpiredAgoOrNow(k) == IF now >= lease[k] THEN 1 + now - lease[k] ELSE 0

(* aged_fingerprints: 0 indicates leased. *)
ExpiredAgo(k) == IF now > lease[k] THEN now - lease[k] ELSE 0

Aged(S) == {[key |-> k, ago |-> ExpiredAgo(k)] : k \in S}

Scan(p, pc, next, keys) ==
    /\ gc[p].pc = pc
    /\ gc' = [gc EXCEPT ![p] =
                [pc |-> next,
                 heap |-> @.heap \cup Aged(blobs \cap keys),
                 used |-> @.used + Bytes(blobs \cap keys)]]
    /\ UNCHANGED <<now, blobs, lease, inUse, nextLease, nextCollect, taken>>

(* The two calls of aged_fingerprints. *)
ScanFiles(p) == Scan(p, "files", "directories", FileKey)

ScanDirectories(p) == Scan(p, "directories", "delete", Key \ FileKey)

(* shrink returns, and the service plans the next collection. *)
Finish(p) ==
    /\ gc' = [gc EXCEPT ![p] = Idle]
    /\ nextCollect' = [nextCollect EXCEPT ![p] = now + CollectEvery]
    /\ taken' = [taken EXCEPT ![p] = {}]
    /\ UNCHANGED <<now, blobs, lease, inUse, nextLease>>

(* The store is small enough. *)
ShrinkDone(p) ==
    /\ gc[p].pc = "delete"
    /\ gc[p].used <= Target
    /\ Finish(p)

(* BinaryHeap::pop: the longest expired. *)
IsOldest(a, heap) == a \in heap /\ \A b \in heap : b.ago <= a.ago

(* Everything that remains is leased. *)
ShrinkGivesUp(p) ==
    /\ gc[p].pc = "delete"
    /\ gc[p].used > Target
    /\ \E a \in gc[p].heap : IsOldest(a, gc[p].heap) /\ a.ago = 0
    /\ Finish(p)

(* Fault: what was deleted stays in the heap. *)
DeleteOldestButKeep(p) ==
    /\ gc[p].pc = "delete"
    /\ gc[p].used > Target
    /\ \E a \in gc[p].heap :
        /\ IsOldest(a, gc[p].heap)
        /\ a.ago # 0
        /\ a.key \in blobs
        /\ blobs' = blobs \ {a.key}
        /\ lease' = [lease EXCEPT ![a.key] = 0]
        /\ gc' = [gc EXCEPT ![p].used = @ - Size[a.key]]
        /\ taken' = [q \in Process |->
             IF q # p /\ a.key \in Planned(q) THEN taken[q] \cup {a.key} ELSE taken[q]]
    /\ UNCHANGED <<now, inUse, nextLease, nextCollect>>

(* One deletion of shrink.                                                *)
DeleteOldest(p) ==
    /\ gc[p].pc = "delete"
    /\ gc[p].used > Target
    /\ \E a \in gc[p].heap :
        /\ IsOldest(a, gc[p].heap)
        /\ a.ago # 0
        /\ a.key \in blobs
        /\ blobs' = blobs \ {a.key}
        /\ lease' = [lease EXCEPT ![a.key] = 0]
        /\ gc' = [gc EXCEPT ![p] =
                    [pc |-> "delete", heap |-> @.heap \ {a}, used |-> @.used - Size[a.key]]]
        /\ taken' = [q \in Process |->
             IF q # p /\ a.key \in Planned(q) THEN taken[q] \cup {a.key} ELSE taken[q]]
    /\ UNCHANGED <<now, inUse, nextLease, nextCollect>>

(* The blob is gone already: NotFound ends the collection with an error,  *)
(* which the service logs.                                                *)
DeleteFails(p) ==
    /\ gc[p].pc = "delete"
    /\ gc[p].used > Target
    /\ \E a \in gc[p].heap :
        IsOldest(a, gc[p].heap) /\ a.ago # 0 /\ a.key \notin blobs
    /\ Finish(p)

Init ==
    /\ now = 1
    /\ blobs = {}
    /\ lease = [k \in Key |-> 0]
    /\ inUse = [p \in Process |-> {}]
    /\ gc = [p \in Process |-> Idle]
    /\ nextLease = [p \in Process |-> 1 + LeaseEvery]
    /\ nextCollect = [p \in Process |-> 1 + CollectEvery]
    /\ taken = [p \in Process |-> {}]

Collect(p) ==
    \/ MaybeGarbageCollect(p)
    \/ ScanFiles(p)
    \/ ScanDirectories(p)
    \/ ShrinkDone(p)
    \/ ShrinkGivesUp(p)
    \/ DeleteOldest(p)
    \/ DeleteFails(p)

Next ==
    \/ Tick
    \/ \E p \in Process, k \in FileKey : DigestFile(p, k) \/ Invalidate(p, k)
    \/ \E k \in Key, initialLease \in BOOLEAN : Record(k, initialLease)
    \/ \E p \in Process : MaybeExtendLease(p) \/ Collect(p)

Spec == Init /\ [][Next]_vars

-----------------------------------------------------------------------------
(* No step removes a blob whose lease has not expired, although shrink    *)
(* decides by ages it read in earlier transactions, unless two processes  *)
(* collect: then one may delete what the other had deleted already and    *)
(* somebody stored and leased anew.                                       *)
LeasedSurvive ==
    [][\A k \in blobs \ blobs' :
          lease[k] < now
          \/ \E p \in Process : k \in taken[p] /\ k \in Planned(p) /\ k \notin Planned(p)']_vars

(* What shrink counts is what it can still delete, so that popping its    *)
(* heap while too many bytes are used finds something ("lmdb corruption   *)
(* detected" is not raised), also when another process deletes.           *)
HeapCoversUsed ==
    \A p \in Process : gc[p].used = Bytes(Planned(p))

(* What a process plans to delete is still there, unless another deleted  *)
(* it: one collector alone never ends with "Error garbage collecting".    *)
PlanStillValid ==
    \A p \in Process : Planned(p) \subseteq blobs \cup taken[p]

(* "in-use files continue to be present in the engine's Store".           *)
InUsePresent == \A p \in Process : inUse[p] \subseteq blobs

=============================================================================
