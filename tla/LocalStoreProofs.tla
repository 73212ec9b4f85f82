-------------------------- MODULE LocalStoreProofs --------------------------
(***************************************************************************)
(* What the collection of the local store may delete, for every number of  *)
(* processes, keys and every timing.  shrink decides by ages that it read  *)
(* in earlier transactions; PlanInv says in which sense they stay true     *)
(* until the entry is popped: as long as nobody else deletes the blob,     *)
(* nothing can lease it again, because StoreBytes leases only what it adds *)
(* and LeaseAll is never committed.  That needs the heap to hold a key     *)
(* only once, which follows from the order of the two scans.  From the     *)
(* same fact follows that the byte count of a collection is exact, and so  *)
(* that it does not run out of blobs to delete.                            *)
(***************************************************************************)
EXTENDS LocalStore, FiniteSetTheorems, TLAPS

Stage == {"idle", "files", "directories", "delete"}

(* The types the argument about plans needs: all but those of the byte     *)
(* counts.                                                                 *)
StoreTypes ==
    /\ now \in Nat
    /\ blobs \in SUBSET Key
    /\ lease \in [Key -> Nat]
    /\ gc = [p \in Process |-> gc[p]]
    /\ \A p \in Process : gc[p] = [pc |-> gc[p].pc, heap |-> gc[p].heap, used |-> gc[p].used]
    /\ \A p \in Process : gc[p].pc \in Stage /\ gc[p].heap \in SUBSET AgedFingerprint
    /\ taken \in [Process -> SUBSET Key]

(* The heap of a process that scans holds what was scanned already. *)
ScanOrder ==
    \A p \in Process :
        /\ gc[p].pc \in {"idle", "files"} => gc[p].heap = {}
        /\ gc[p].pc = "directories" => \A a \in gc[p].heap : a.key \in FileKey
        /\ \A a, b \in gc[p].heap : a.key = b.key => a = b

(* What is planned is there and, unless it was leased when scanned, its    *)
(* lease has expired.                                                      *)
PlanInv ==
    \A p \in Process : \A a \in gc[p].heap : a.key \notin taken[p] =>
        a.key \in blobs /\ (a.ago # 0 => lease[a.key] < now)

StoreInv == StoreTypes /\ ScanOrder /\ PlanInv

(* The store starts empty and nobody collects. *)
LEMMA StoreInvInit == Init => StoreInv
<1> SUFFICES ASSUME Init PROVE StoreInv
  OBVIOUS
<1>1. StoreTypes
  BY KeyAssumption DEF Init, StoreTypes, Idle, Stage
<1>2. ScanOrder
  BY DEF Init, ScanOrder, Idle
<1>3. PlanInv
  BY DEF Init, PlanInv, Idle
<1> QED
  BY <1>1, <1>2, <1>3 DEF StoreInv

(* Time only makes more leases expire. *)
LEMMA TickStep == ASSUME StoreInv, Tick PROVE StoreInv'
<1>1. StoreTypes'
  BY DEF StoreInv, StoreTypes, Tick
<1>2. ScanOrder'
  BY DEF StoreInv, ScanOrder, Tick
<1>3. PlanInv'
  BY DEF StoreInv, StoreTypes, PlanInv, Tick, AgedFingerprint
<1> QED
  BY <1>1, <1>2, <1>3 DEF StoreInv

(* Storing a blob leases it only if it was not there, so it was not        *)
(* planned.                                                                *)
LEMMA StoreBytesStep ==
    ASSUME StoreInv, NEW k \in Key, NEW initialLease \in BOOLEAN, StoreBytes(k, initialLease)
    PROVE  StoreInv'
<1> USE DEF StoreBytes
<1>1. StoreTypes'
  <2>1. lease' \in [Key -> Nat]
    BY TimeAssumption DEF StoreInv, StoreTypes
  <2> QED
    BY <2>1 DEF StoreInv, StoreTypes
<1>2. ScanOrder'
  BY DEF StoreInv, ScanOrder
<1>3. PlanInv'
  <2> SUFFICES ASSUME NEW p \in Process, NEW a \in gc[p].heap, a.key \notin taken[p]
               PROVE  a.key \in blobs' /\ (a.ago # 0 => lease'[a.key] < now)
    BY DEF PlanInv
  <2>1. a.key \in blobs /\ (a.ago # 0 => lease[a.key] < now)
    BY DEF StoreInv, PlanInv
  <2>2. lease'[a.key] = lease[a.key]
    BY <2>1 DEF StoreInv, StoreTypes
  <2> QED
    BY <2>1, <2>2
<1> QED
  BY <1>1, <1>2, <1>3 DEF StoreInv

(* Steps that touch neither the blobs nor a heap. *)
LEMMA BookkeepingStep ==
    ASSUME StoreInv, UNCHANGED <<now, blobs, lease, gc, taken>>
    PROVE  StoreInv'
  BY DEF StoreInv, StoreTypes, ScanOrder, PlanInv

(* A collection starts with an empty heap. *)
LEMMA MaybeGarbageCollectStep ==
    ASSUME StoreInv, NEW p \in Process, MaybeGarbageCollect(p)
    PROVE  StoreInv'
<1> USE DEF MaybeGarbageCollect
<1>0. /\ gc' = [gc EXCEPT ![p].pc = "files"]
      /\ UNCHANGED <<now, blobs, lease, taken>>
  OBVIOUS
<1>1. \A q \in Process : /\ gc'[q].heap = gc[q].heap
                         /\ gc'[q].pc = IF q = p THEN "files" ELSE gc[q].pc
                         /\ gc'[q] = [pc |-> gc'[q].pc, heap |-> gc'[q].heap, used |-> gc'[q].used]
  BY <1>0 DEF StoreInv, StoreTypes
<1>2. StoreTypes'
  BY <1>0, <1>1 DEF StoreInv, StoreTypes, Stage
<1>3. ScanOrder'
  BY <1>0, <1>1 DEF StoreInv, ScanOrder
<1>4. PlanInv'
  BY <1>0, <1>1 DEF StoreInv, PlanInv
<1> QED
  BY <1>2, <1>3, <1>4 DEF StoreInv

(* A scan adds blobs that are there, with the ages of their leases. *)
LEMMA ScanStep ==
    ASSUME StoreInv, NEW p \in Process, ScanFiles(p) \/ ScanDirectories(p)
    PROVE  StoreInv'
<1>1. PICK pc \in {"files", "directories"}, next \in {"directories", "delete"},
           keys \in SUBSET Key :
          /\ Scan(p, pc, next, keys)
          /\ pc = "files" => keys = FileKey /\ next = "directories"
          /\ pc = "directories" => keys = Key \ FileKey /\ next = "delete"
  BY KeyAssumption DEF ScanFiles, ScanDirectories
<1> DEFINE new == Aged(blobs \cap keys)
<1>2. /\ gc[p].pc = pc
      /\ gc' = [gc EXCEPT ![p] = [pc |-> next, heap |-> @.heap \cup new,
                                  used |-> @.used + Bytes(blobs \cap keys)]]
      /\ UNCHANGED <<now, blobs, lease, taken>>
  BY <1>1 DEF Scan
<1>3. \A a \in new : /\ a \in AgedFingerprint /\ a.key \in blobs \cap keys
                     /\ a.ago = ExpiredAgo(a.key)
  BY DEF Aged, AgedFingerprint, ExpiredAgo, StoreInv, StoreTypes
<1>4. \A a, b \in new : a.key = b.key => a = b
  BY DEF Aged
<1>5. \A a \in new : a.ago # 0 => lease[a.key] < now
  BY <1>3 DEF ExpiredAgo, StoreInv, StoreTypes
<1> HIDE DEF new
<1>6. /\ gc'[p].heap = gc[p].heap \cup new
      /\ gc'[p].pc = next
      /\ gc'[p] = [pc |-> gc'[p].pc, heap |-> gc'[p].heap, used |-> gc'[p].used]
      /\ \A q \in Process \ {p} : gc'[q] = gc[q]
      /\ gc' = [q \in Process |-> gc'[q]]
  BY <1>2 DEF StoreInv, StoreTypes
<1>7. \A a \in gc[p].heap, b \in new : a.key # b.key
  BY <1>1, <1>2, <1>3 DEF StoreInv, ScanOrder
<1>8. StoreTypes'
  BY <1>2, <1>3, <1>6 DEF StoreInv, StoreTypes, Stage
<1>9. ScanOrder'
  <2>1. \A a, b \in gc'[p].heap : a.key = b.key => a = b
    BY <1>4, <1>6, <1>7 DEF StoreInv, ScanOrder
  <2>2. gc'[p].pc = "directories" => \A a \in gc'[p].heap : a.key \in FileKey
    BY <1>1, <1>2, <1>3, <1>6 DEF StoreInv, ScanOrder
  <2> QED
    BY <1>6, <2>1, <2>2 DEF StoreInv, ScanOrder
<1>10. PlanInv'
  BY <1>2, <1>3, <1>5, <1>6 DEF StoreInv, PlanInv
<1> QED
  BY <1>8, <1>9, <1>10 DEF StoreInv

(* The end of a collection empties the heap. *)
LEMMA FinishStep == ASSUME StoreInv, NEW p \in Process, Finish(p) PROVE StoreInv'
<1>1. /\ gc' = [gc EXCEPT ![p] = Idle]
      /\ taken' = [taken EXCEPT ![p] = {}]
      /\ UNCHANGED <<now, blobs, lease>>
  BY DEF Finish
<1>2. /\ gc'[p] = Idle /\ Idle.heap = {} /\ Idle.pc = "idle"
      /\ \A q \in Process \ {p} : gc'[q] = gc[q] /\ taken'[q] = taken[q]
  BY <1>1 DEF Idle, StoreInv, StoreTypes
<1>3. StoreTypes'
  BY <1>1 DEF StoreInv, StoreTypes, Stage, Idle
<1>4. ScanOrder'
  BY <1>2 DEF StoreInv, ScanOrder
<1>5. PlanInv'
  BY <1>1, <1>2 DEF StoreInv, PlanInv
<1> QED
  BY <1>3, <1>4, <1>5 DEF StoreInv

(* One deletion of shrink: the entry that is popped is the only one for    *)
(* its key, and the deletion is remembered in taken for the others that    *)
(* plan it too.                                                            *)
LEMMA DeletionFacts ==
    ASSUME StoreInv, NEW p \in Process, DeleteOldest(p)
    PROVE  \E a \in gc[p].heap :
              /\ a.ago # 0 /\ a.key \in blobs
              /\ blobs' = blobs \ {a.key}
              /\ lease' = [lease EXCEPT ![a.key] = 0]
              /\ gc' = [q \in Process |-> gc'[q]]
              /\ \A q \in Process : gc'[q] = [pc |-> gc[q].pc, heap |-> gc'[q].heap,
                                              used |-> gc'[q].used]
              /\ gc'[p].heap = gc[p].heap \ {a}
              /\ \A q \in Process \ {p} : gc'[q].heap = gc[q].heap
              /\ taken' \in [Process -> SUBSET Key]
              /\ taken'[p] = taken[p]
              /\ \A q \in Process \ {p} :
                    taken'[q] = IF a.key \in Planned(q) THEN taken[q] \cup {a.key} ELSE taken[q]
              /\ now' = now
<1>1. PICK a \in gc[p].heap :
        /\ a.ago # 0 /\ a.key \in blobs
        /\ blobs' = blobs \ {a.key}
        /\ lease' = [lease EXCEPT ![a.key] = 0]
        /\ gc' = [gc EXCEPT ![p] =
                    [pc |-> "delete", heap |-> @.heap \ {a}, used |-> @.used - Size[a.key]]]
        /\ taken' = [q \in Process |->
             IF q # p /\ a.key \in Planned(q) THEN taken[q] \cup {a.key} ELSE taken[q]]
  BY DEF DeleteOldest
<1>2. now' = now
  BY DEF DeleteOldest
<1>3. /\ gc' = [q \in Process |-> gc'[q]]
      /\ \A q \in Process : gc'[q] = [pc |-> gc[q].pc, heap |-> gc'[q].heap,
                                      used |-> gc'[q].used]
      /\ gc'[p].heap = gc[p].heap \ {a}
      /\ \A q \in Process \ {p} : gc'[q].heap = gc[q].heap
  <2>1. gc[p].pc = "delete"
    BY DEF DeleteOldest
  <2> QED
    BY <1>1, <2>1 DEF StoreInv, StoreTypes
<1>4. a.key \in Key
  BY <1>1 DEF StoreInv, StoreTypes
<1>5. /\ taken' \in [Process -> SUBSET Key]
      /\ taken'[p] = taken[p]
      /\ \A q \in Process \ {p} :
            taken'[q] = IF a.key \in Planned(q) THEN taken[q] \cup {a.key} ELSE taken[q]
  <2> HIDE DEF Planned
  <2> QED
    BY <1>1, <1>4 DEF StoreInv, StoreTypes
<1> QED
  BY <1>1, <1>2, <1>3, <1>5

(* A deletion invalidates no other entry of a plan that nobody took. *)
LEMMA DeleteOldestStep ==
    ASSUME StoreInv, NEW p \in Process, DeleteOldest(p)
    PROVE  StoreInv'
<1>1. PICK a \in gc[p].heap :
              /\ a.ago # 0 /\ a.key \in blobs
              /\ blobs' = blobs \ {a.key}
              /\ lease' = [lease EXCEPT ![a.key] = 0]
              /\ gc' = [q \in Process |-> gc'[q]]
              /\ \A q \in Process : gc'[q] = [pc |-> gc[q].pc, heap |-> gc'[q].heap,
                                              used |-> gc'[q].used]
              /\ gc'[p].heap = gc[p].heap \ {a}
              /\ \A q \in Process \ {p} : gc'[q].heap = gc[q].heap
              /\ taken' \in [Process -> SUBSET Key]
              /\ taken'[p] = taken[p]
              /\ \A q \in Process \ {p} :
                    taken'[q] = IF a.key \in Planned(q) THEN taken[q] \cup {a.key} ELSE taken[q]
              /\ now' = now
  BY DeletionFacts
<1>2. \A q \in Process : gc'[q].pc = gc[q].pc /\ gc'[q].heap \subseteq gc[q].heap
  BY <1>1
<1>3. StoreTypes'
  BY <1>1, <1>2 DEF StoreInv, StoreTypes
<1>4. ScanOrder'
  BY <1>2 DEF StoreInv, ScanOrder
<1>5. PlanInv'
  <2> SUFFICES ASSUME NEW q \in Process, NEW b \in gc'[q].heap, b.key \notin taken'[q]
               PROVE  b.key \in blobs' /\ (b.ago # 0 => lease'[b.key] < now')
    BY DEF PlanInv
  <2>1. b \in gc[q].heap
    BY <1>2
  <2>2. b.key # a.key
    <3>1. CASE q = p
      BY <1>1, <2>1, <3>1 DEF StoreInv, ScanOrder
    <3>2. CASE q # p
      BY <1>1, <2>1, <3>2 DEF Planned
    <3> QED
      BY <3>1, <3>2
  <2>3. b.key \notin taken[q]
    BY <1>1
  <2>4. b.key \in blobs /\ (b.ago # 0 => lease[b.key] < now)
    BY <2>1, <2>3 DEF StoreInv, PlanInv
  <2>5. lease'[b.key] = lease[b.key]
    BY <1>1, <2>2, <2>4 DEF StoreInv, StoreTypes
  <2> QED
    BY <1>1, <2>2, <2>4, <2>5
<1> QED
  BY <1>3, <1>4, <1>5 DEF StoreInv

(* Every step preserves the invariant. *)
LEMMA StoreInvStep == StoreInv /\ [Next]_vars => StoreInv'
<1> SUFFICES ASSUME StoreInv, [Next]_vars PROVE StoreInv'
  OBVIOUS
<1>1. CASE UNCHANGED vars
  BY <1>1, BookkeepingStep DEF vars
<1>2. CASE Tick
  BY <1>2, TickStep
<1>3. ASSUME NEW p \in Process, NEW k \in FileKey, DigestFile(p, k) \/ Invalidate(p, k)
      PROVE  StoreInv'
  <2>1. k \in Key
    BY KeyAssumption
  <2>2. CASE DigestFile(p, k)
    BY <2>1, <2>2, StoreBytesStep DEF DigestFile
  <2>3. CASE Invalidate(p, k)
    BY <2>3, BookkeepingStep DEF Invalidate
  <2> QED
    BY <1>3, <2>2, <2>3
<1>4. ASSUME NEW k \in Key, NEW initialLease \in BOOLEAN, Record(k, initialLease)
      PROVE  StoreInv'
  BY <1>4, StoreBytesStep DEF Record
<1>5. ASSUME NEW p \in Process, MaybeExtendLease(p) PROVE StoreInv'
  BY <1>5, BookkeepingStep DEF MaybeExtendLease, LeaseAll
<1>6. ASSUME NEW p \in Process, Collect(p) PROVE StoreInv'
  BY <1>6, MaybeGarbageCollectStep, ScanStep, FinishStep, DeleteOldestStep
     DEF Collect, ShrinkDone, ShrinkGivesUp, DeleteFails
<1> QED
  BY <1>1, <1>2, <1>3, <1>4, <1>5, <1>6 DEF Next

(* Whatever the processes that share the store do, a plan of shrink stays  *)
(* true until it is carried out.                                           *)
THEOREM StoreInvHolds == Spec => []StoreInv
  BY StoreInvInit, StoreInvStep, PTL DEF Spec

(* A planned deletion finds its blob unless another process deleted it:    *)
(* with one collector, shrink never fails with NotFound.                   *)
THEOREM PlanAlwaysValid == Spec => []PlanStillValid
<1>1. StoreInv => PlanStillValid
  BY DEF StoreInv, PlanInv, PlanStillValid, Planned
<1> QED
  BY <1>1, StoreInvHolds, PTL

(* No step deletes a blob whose lease has not expired, except one that     *)
(* another collector had deleted in the meantime.                          *)
THEOREM LeasedBlobsSurvive == Spec => LeasedSurvive
<1> DEFINE Survives == \A k \in blobs \ blobs' :
              lease[k] < now
              \/ \E p \in Process : k \in taken[p] /\ k \in Planned(p) /\ k \notin Planned(p)'
<1>1. ASSUME StoreInv, Next, NEW k \in blobs \ blobs'
      PROVE  lease[k] < now
             \/ \E p \in Process : k \in taken[p] /\ k \in Planned(p) /\ k \notin Planned(p)'
  <2>1. PICK p \in Process : DeleteOldest(p)
    BY <1>1 DEF Next, Tick, DigestFile, Invalidate, Record, StoreBytes, MaybeExtendLease,
                Collect, MaybeGarbageCollect, ScanFiles, ScanDirectories, Scan,
                ShrinkDone, ShrinkGivesUp, DeleteFails, Finish
  <2>2. PICK a \in gc[p].heap :
          a.ago # 0 /\ blobs' = blobs \ {a.key} /\ gc'[p].heap = gc[p].heap \ {a}
    BY <1>1, <2>1, DeletionFacts
  <2>3. a.key = k
    BY <1>1, <2>2
  <2>4. k \in Planned(p) /\ k \notin Planned(p)'
    BY <1>1, <2>2, <2>3 DEF Planned, StoreInv, ScanOrder
  <2> QED
    BY <1>1, <2>2, <2>3, <2>4 DEF StoreInv, PlanInv
<1>2. StoreInv /\ [Next]_vars => [Survives]_vars
  BY <1>1
<1>3. Spec => [][Survives]_vars
  <2> HIDE DEF Survives
  <2> QED
    BY <1>2, StoreInvHolds, PTL DEF Spec
<1> QED
  BY <1>3 DEF LeasedSurvive

-----------------------------------------------------------------------------
(* Sums of sizes. *)

BytesIn(S) == UNION {{k} \X (1..Size[k]) : k \in S}

LEMMA BytesInMember ==
    ASSUME NEW S, NEW b
    PROVE  b \in BytesIn(S) <=> \E k \in S : b \in {k} \X (1..Size[k])
  BY DEF BytesIn

LEMMA BytesFinite ==
    ASSUME NEW S \in SUBSET Key
    PROVE  IsFiniteSet(BytesIn(S)) /\ Bytes(S) = Cardinality(BytesIn(S)) /\ Bytes(S) \in Nat
<1>1. IsFiniteSet(S)
  BY KeyAssumption, FS_Subset
<1> DEFINE T == {{k} \X (1..Size[k]) : k \in S}
           f == [k \in S |-> {k} \X (1..Size[k])]
<1>2. f \in Surjection(S, T)
  BY DEF Surjection
<1>3. IsFiniteSet(T)
  <2> HIDE DEF T, f
  <2> QED
    BY <1>1, <1>2, FS_Surjection
<1>4. ASSUME NEW k \in S PROVE IsFiniteSet({k} \X (1..Size[k]))
  <2>1. 1 \in Int /\ Size[k] \in Int
    BY KeyAssumption
  <2>2. IsFiniteSet({k}) /\ IsFiniteSet(1..Size[k])
    BY <2>1, FS_Singleton, FS_Interval
  <2> QED
    BY <2>2, FS_Product
<1>5. \A t \in T : IsFiniteSet(t)
  BY <1>4
<1>6. IsFiniteSet(UNION T)
  <2> HIDE DEF T
  <2> QED
    BY <1>3, <1>5, FS_UNION
<1>7. IsFiniteSet(BytesIn(S)) /\ Bytes(S) = Cardinality(BytesIn(S))
  BY <1>6 DEF BytesIn, Bytes
<1> QED
  BY <1>7, FS_CardinalityType

(* The bytes of different blobs add up. *)
LEMMA BytesAdd ==
    ASSUME NEW S \in SUBSET Key, NEW T \in SUBSET Key, S \cap T = {}
    PROVE  Bytes(S \cup T) = Bytes(S) + Bytes(T)
<1>1. BytesIn(S \cup T) = BytesIn(S) \cup BytesIn(T)
  BY DEF BytesIn
<1>2. BytesIn(S) \cap BytesIn(T) = {}
  <2> SUFFICES ASSUME NEW b \in BytesIn(S), b \in BytesIn(T) PROVE FALSE
    OBVIOUS
  <2>1. PICK k \in S : b \in {k} \X (1..Size[k])
    BY BytesInMember
  <2>2. PICK j \in T : b \in {j} \X (1..Size[j])
    BY BytesInMember
  <2>3. b[1] = k /\ b[1] = j
    BY <2>1, <2>2
  <2> QED
    BY <2>3
<1>3. S \cup T \in SUBSET Key
  OBVIOUS
<1>4. Cardinality(BytesIn(S) \cup BytesIn(T)) =
        Cardinality(BytesIn(S)) + Cardinality(BytesIn(T)) - Cardinality(BytesIn(S) \cap BytesIn(T))
  BY BytesFinite, FS_Union
<1>5. Cardinality(BytesIn(S) \cap BytesIn(T)) = 0
  BY <1>2, FS_EmptySet
<1>6. /\ Bytes(S) = Cardinality(BytesIn(S)) /\ Bytes(S) \in Nat
      /\ Bytes(T) = Cardinality(BytesIn(T)) /\ Bytes(T) \in Nat
      /\ Bytes(S \cup T) = Cardinality(BytesIn(S \cup T))
  BY <1>3, BytesFinite
<1>7. PICK m \in Nat, n \in Nat : m = Cardinality(BytesIn(S)) /\ n = Cardinality(BytesIn(T))
  BY <1>6
<1>8. Cardinality(BytesIn(S) \cup BytesIn(T)) = m + n
  BY <1>4, <1>5, <1>7
<1>9. Bytes(S \cup T) = m + n
  BY <1>1, <1>6, <1>8
<1> QED
  BY <1>6, <1>7, <1>9

LEMMA BytesOfOne ==
    ASSUME NEW k \in Key
    PROVE  Bytes({k}) = Size[k]
<1>1. Size[k] \in Nat /\ Size[k] \in Int /\ 1 \in Int
  BY KeyAssumption
<1>2. BytesIn({k}) = {k} \X (1..Size[k])
  BY DEF BytesIn
<1>3. IsFiniteSet({k}) /\ Cardinality({k}) = 1
  BY FS_Singleton
<1>4. IsFiniteSet(1..Size[k]) /\ Cardinality(1..Size[k]) = IF 1 > Size[k] THEN 0 ELSE Size[k] - 1 + 1
  BY <1>1, FS_Interval
<1>5. Cardinality(1..Size[k]) = Size[k]
  BY <1>1, <1>4
<1>6. Cardinality({k} \X (1..Size[k])) = Cardinality({k}) * Cardinality(1..Size[k])
  BY <1>3, <1>4, FS_Product
<1>7. Cardinality({k} \X (1..Size[k])) = Size[k]
  BY <1>1, <1>3, <1>5, <1>6
<1> QED
  BY <1>2, <1>7, BytesFinite

(* What shrink has counted is what its heap holds. *)
CountInv == StoreInv /\ HeapCoversUsed

LEMMA PlannedKeys ==
    ASSUME StoreInv, NEW p \in Process
    PROVE  Planned(p) \in SUBSET Key
  BY DEF StoreInv, StoreTypes, Planned, AgedFingerprint

(* A process whose collection does not move. *)
LEMMA CountKept ==
    ASSUME HeapCoversUsed, NEW p \in Process, gc'[p].heap = gc[p].heap, gc'[p].used = gc[p].used
    PROVE  gc'[p].used = Bytes(Planned(p)')
  BY DEF HeapCoversUsed, Planned

LEMMA CountInit == Init => HeapCoversUsed
<1> SUFFICES ASSUME Init, NEW p \in Process PROVE gc[p].used = Bytes(Planned(p))
  BY DEF HeapCoversUsed
<1>1. gc[p].used = 0 /\ Planned(p) = {}
  BY DEF Init, Idle, Planned
<1>2. Bytes({}) = 0
  <2>1. BytesIn({}) = {}
    BY DEF BytesIn
  <2> QED
    BY <2>1, BytesFinite, FS_EmptySet
<1> QED
  BY <1>1, <1>2

LEMMA CountScan ==
    ASSUME CountInv, NEW p \in Process, ScanFiles(p) \/ ScanDirectories(p)
    PROVE  HeapCoversUsed'
<1>1. PICK keys \in SUBSET Key, next \in Stage :
        /\ gc' = [gc EXCEPT ![p] = [pc |-> next, heap |-> @.heap \cup Aged(blobs \cap keys),
                                    used |-> @.used + Bytes(blobs \cap keys)]]
        /\ \A a \in gc[p].heap : a.key \notin keys
  <2>1. CASE ScanFiles(p)
    <3>1. gc[p].heap = {} /\ FileKey \in SUBSET Key
      BY <2>1, KeyAssumption DEF CountInv, StoreInv, ScanOrder, ScanFiles, Scan
    <3> QED
      BY <2>1, <3>1 DEF ScanFiles, Scan, Stage
  <2>2. CASE ScanDirectories(p)
    <3>1. \A a \in gc[p].heap : a.key \in FileKey
      BY <2>2 DEF CountInv, StoreInv, ScanOrder, ScanDirectories, Scan
    <3>2. PICK keys \in SUBSET Key : keys = Key \ FileKey
      OBVIOUS
    <3>3. gc' = [gc EXCEPT ![p] = [pc |-> "delete", heap |-> @.heap \cup Aged(blobs \cap keys),
                                   used |-> @.used + Bytes(blobs \cap keys)]]
      BY <2>2, <3>2 DEF ScanDirectories, Scan
    <3>4. \A a \in gc[p].heap : a.key \notin keys
      BY <3>1, <3>2
    <3> QED
      BY <3>3, <3>4 DEF Stage
  <2> QED
    BY <2>1, <2>2
<1> DEFINE S == blobs \cap keys
<1>2. /\ gc'[p].heap = gc[p].heap \cup Aged(S) /\ gc'[p].used = gc[p].used + Bytes(S)
      /\ \A q \in Process \ {p} : gc'[q] = gc[q]
  <2>1. DOMAIN gc = Process
    <3>1. PICK g : g = gc
      OBVIOUS
    <3>2. g = [q \in Process |-> g[q]]
      BY <3>1 DEF CountInv, StoreInv, StoreTypes
    <3> QED
      BY <3>1, <3>2
  <2> QED
    BY <1>1, <2>1
<1>3. Planned(p)' = Planned(p) \cup S
  <2>1. {a.key : a \in Aged(S)} = S
    <3>1. ASSUME NEW k \in S PROVE \E a \in Aged(S) : a.key = k
      <4>1. [key |-> k, ago |-> ExpiredAgo(k)] \in Aged(S)
        BY DEF Aged
      <4> QED
        BY <4>1
    <3>2. ASSUME NEW a \in Aged(S) PROVE a.key \in S
      BY DEF Aged
    <3> QED
      BY <3>1, <3>2
  <2>2. Planned(p)' = {a.key : a \in gc[p].heap} \cup {a.key : a \in Aged(S)}
    <3> HIDE DEF S
    <3> QED
      BY <1>2 DEF Planned
  <2> QED
    BY <2>1, <2>2 DEF Planned
<1>4. Planned(p) \cap S = {}
  BY <1>1 DEF Planned
<1>5. S \in SUBSET Key /\ Planned(p) \in SUBSET Key
  BY PlannedKeys DEF CountInv
<1>6. Bytes(Planned(p) \cup S) = Bytes(Planned(p)) + Bytes(S)
  BY <1>4, <1>5, BytesAdd
<1>7. gc'[p].used = Bytes(Planned(p)')
  BY <1>2, <1>3, <1>6 DEF CountInv, HeapCoversUsed
<1>8. \A q \in Process \ {p} : gc'[q].used = Bytes(Planned(q)')
  BY <1>2, CountKept DEF CountInv
<1> QED
  BY <1>7, <1>8 DEF HeapCoversUsed, Bytes

LEMMA CountDelete ==
    ASSUME CountInv, NEW p \in Process, DeleteOldest(p)
    PROVE  HeapCoversUsed'
<1>1. PICK a \in gc[p].heap :
        gc' = [gc EXCEPT ![p] = [pc |-> "delete", heap |-> @.heap \ {a}, used |-> @.used - Size[a.key]]]
  BY DEF DeleteOldest
<1>2. /\ gc'[p].heap = gc[p].heap \ {a} /\ gc'[p].used = gc[p].used - Size[a.key]
      /\ \A q \in Process \ {p} : gc'[q] = gc[q]
  <2>1. DOMAIN gc = Process
    <3>1. PICK g : g = gc
      OBVIOUS
    <3>2. g = [q \in Process |-> g[q]]
      BY <3>1 DEF CountInv, StoreInv, StoreTypes
    <3> QED
      BY <3>1, <3>2
  <2> QED
    BY <1>1, <2>1
<1>3. PICK k \in Planned(p) : k = a.key
  BY DEF Planned
<1>4. Planned(p)' = Planned(p) \ {k}
  <2>1. \A b \in gc[p].heap : b.key = k => b = a
    BY <1>3 DEF CountInv, StoreInv, ScanOrder
  <2> QED
    BY <1>2, <1>3, <2>1 DEF Planned
<1>5. Planned(p) \in SUBSET Key /\ k \in Key /\ Size[k] \in Nat
  BY PlannedKeys, KeyAssumption DEF CountInv
<1>6. PICK P \in SUBSET Key : P = Planned(p)
  BY <1>5
<1>7. Bytes(P) = Bytes(P \ {k}) + Bytes({k})
  <2>1. (P \ {k}) \cup {k} = P /\ (P \ {k}) \cap {k} = {}
    BY <1>3, <1>6
  <2>2. P \ {k} \in SUBSET Key /\ {k} \in SUBSET Key
    BY <1>5
  <2>3. Bytes((P \ {k}) \cup {k}) = Bytes(P \ {k}) + Bytes({k})
    BY <2>1, <2>2, BytesAdd
  <2> QED
    BY <2>1, <2>3
<1>8. Bytes(P) \in Nat /\ Bytes(P \ {k}) \in Nat /\ Bytes({k}) = Size[k]
  <2>1. P \ {k} \in SUBSET Key
    OBVIOUS
  <2> QED
    BY <1>5, <2>1, BytesFinite, BytesOfOne
<1>9. gc'[p].used = Bytes(Planned(p)')
  <2>1. gc[p].used = Bytes(P)
    BY <1>6 DEF CountInv, HeapCoversUsed
  <2>2. gc'[p].used = Bytes(P) - Size[k]
    BY <1>2, <1>3, <2>1
  <2>3. gc'[p].used = Bytes(P \ {k})
    BY <1>5, <1>7, <1>8, <2>2
  <2> QED
    BY <1>4, <1>6, <2>3
<1>10. \A q \in Process \ {p} : gc'[q].used = Bytes(Planned(q)')
  BY <1>2, CountKept DEF CountInv
<1> QED
  BY <1>9, <1>10 DEF HeapCoversUsed, Bytes

LEMMA CountStart ==
    ASSUME CountInv, NEW p \in Process, MaybeGarbageCollect(p)
    PROVE  HeapCoversUsed'
<1>1. \A q \in Process : gc'[q].heap = gc[q].heap /\ gc'[q].used = gc[q].used
  BY DEF CountInv, StoreInv, StoreTypes, MaybeGarbageCollect
<1>2. \A q \in Process : gc'[q].used = Bytes(Planned(q)')
  BY <1>1, CountKept DEF CountInv
<1> QED
  BY <1>2 DEF HeapCoversUsed, Bytes

LEMMA CountFinish ==
    ASSUME CountInv, NEW p \in Process, Finish(p)
    PROVE  HeapCoversUsed'
<1>1. /\ gc'[p].heap = {} /\ gc'[p].used = 0
      /\ \A q \in Process \ {p} : gc'[q] = gc[q]
  BY DEF CountInv, StoreInv, StoreTypes, Finish, Idle
<1>2. Bytes({}) = 0
  <2>1. BytesIn({}) = {}
    BY DEF BytesIn
  <2> QED
    BY <2>1, BytesFinite, FS_EmptySet
<1>3. Planned(p)' = {}
  BY <1>1 DEF Planned
<1>4. \A q \in Process \ {p} : gc'[q].used = Bytes(Planned(q)')
  BY <1>1, CountKept DEF CountInv
<1> QED
  BY <1>1, <1>2, <1>3, <1>4 DEF HeapCoversUsed, Bytes

LEMMA CountStep == CountInv /\ [Next]_vars => HeapCoversUsed'
<1> SUFFICES ASSUME CountInv, [Next]_vars PROVE HeapCoversUsed'
  OBVIOUS
<1>1. ASSUME gc' = gc PROVE HeapCoversUsed'
  BY <1>1 DEF CountInv, HeapCoversUsed, Planned, Bytes
<1>2. ASSUME NEW p \in Process, Collect(p) PROVE HeapCoversUsed'
  BY <1>2, CountStart, CountScan, CountDelete, CountFinish
     DEF Collect, ShrinkDone, ShrinkGivesUp, DeleteFails
<1>3. CASE UNCHANGED vars
  BY <1>1, <1>3 DEF vars
<1>4. CASE Tick
  BY <1>1, <1>4 DEF Tick
<1>5. ASSUME NEW p \in Process, NEW k \in FileKey, DigestFile(p, k) \/ Invalidate(p, k) PROVE HeapCoversUsed'
  BY <1>1, <1>5 DEF DigestFile, Invalidate, StoreBytes
<1>6. ASSUME NEW k \in Key, NEW initialLease \in BOOLEAN, Record(k, initialLease) PROVE HeapCoversUsed'
  BY <1>1, <1>6 DEF Record, StoreBytes
<1>7. ASSUME NEW p \in Process, MaybeExtendLease(p) PROVE HeapCoversUsed'
  BY <1>1, <1>7 DEF MaybeExtendLease
<1> QED
  BY <1>2, <1>3, <1>4, <1>5, <1>6, <1>7 DEF Next

(* used_bytes of shrink is the size of what is left in its heap, whatever  *)
(* other processes store and delete meanwhile.                             *)
THEOREM UsedIsExact == Spec => []HeapCoversUsed
<1>1. StoreInv /\ HeapCoversUsed /\ [Next]_vars => HeapCoversUsed'
  BY CountStep DEF CountInv
<1> QED
  BY <1>1, CountInit, StoreInvHolds, PTL DEF Spec

(* Therefore heap.pop() finds an entry while more than the target is used: *)
(* the error "lmdb corruption detected" of shrink is never raised.         *)
THEOREM HeapNeverRunsOut == Spec => [](\A p \in Process : gc[p].used > Target => gc[p].heap # {})
<1>1. ASSUME HeapCoversUsed, NEW p \in Process, gc[p].used > Target PROVE gc[p].heap # {}
  <2> SUFFICES ASSUME gc[p].heap = {} PROVE FALSE
    OBVIOUS
  <2>1. Planned(p) = {}
    BY DEF Planned
  <2>2. Bytes({}) = 0
    <3>1. BytesIn({}) = {}
      BY DEF BytesIn
    <3> QED
      BY <3>1, BytesFinite, FS_EmptySet
  <2>3. gc[p].used = 0
    BY <1>1, <2>1, <2>2 DEF HeapCoversUsed
  <2> QED
    BY <1>1, <2>3, TimeAssumption
<1>2. HeapCoversUsed => \A p \in Process : gc[p].used > Target => gc[p].heap # {}
  BY <1>1
<1> QED
  BY <1>2, UsedIsExact, PTL

=============================================================================
