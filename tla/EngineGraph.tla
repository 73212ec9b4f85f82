---------------------------- MODULE EngineGraph ----------------------------
(***************************************************************************)
(* The memoizing graph of the Pants engine (src/rust/engine/graph) and the *)
(* request loop that drives it (src/rust/engine/src/scheduler.rs).         *)
(*                                                                         *)
(* Every node of the graph is a memoized computation.  Filesystem nodes    *)
(* read the disk; the others request other nodes while they run, and each  *)
(* request records an edge.  When files change the filesystem nodes are    *)
(* cleared and everything that transitively depends on them is dirtied;    *)
(* a dirty node is "cleaned" without running when the generations of its   *)
(* dependencies did not change.  All of it happens concurrently: runs are  *)
(* never cancelled, and only part of the work is done under a lock.        *)
(*                                                                         *)
(* One action is one critical section of the code (or one callback of a    *)
(* future).  A receiver waiting on a node is answered in the step in which *)
(* that node stops Running: that is when the oneshot senders are sent to   *)
(* or dropped.                                                             *)
(***************************************************************************)
EXTENDS Naturals, FiniteSets, Sequences

CONSTANTS
    Node,               \* the keys of the graph
    FsNode,             \* those with an fs_subject: DigestFile, ReadLink, Scandir
    Cacheable,          \* those whose result may be reused
    Root,               \* those a client may ask for
    Client,             \* callers of Scheduler::execute
    Value,              \* what a node can produce, and a file contain
    None,               \* Rust's None
    Invalidated, Cyclic, Throw, \* the errors a request can return
    Wanted(_, _),       \* the dependencies node n asks for, given what it got
    Compute(_, _),      \* what node n returns once it got all it wanted
    Disk0,              \* the files at the start
    Retries,            \* attempts left to a request that is invalidated
    CycleAttempts,      \* how often report_cycle clears a dirty cycle
    Budget              \* how many external events of each kind may happen

Failure == {Invalidated, Cyclic, Throw}
Persisted == Value \cup {Cyclic, Throw}
Outcome == Value \cup Failure
Answers == [Node -> Outcome \cup {None}]

(***************************************************************************)
(* What the environment can do a bounded number of times: edit a file, ask *)
(* for roots, invalidate every path or clear the graph, flip draining.     *)
(* A "lap" is the scheduling accident described at Lap below.              *)
(***************************************************************************)
Events == {"write", "request", "flush", "drain", "lap"}

ASSUME NodeAssumption ==
    /\ IsFiniteSet(Node)
    /\ FsNode \subseteq Node
    /\ Cacheable \subseteq Node
    /\ Root \subseteq Node
    /\ FsNode \subseteq Cacheable

ASSUME OutcomeAssumption ==
    /\ None \notin Outcome
    /\ Failure \cap Value = {}
    /\ Invalidated \notin {Cyclic, Throw}
    /\ Cyclic # Throw

(* The answers in g from the nodes in S, and the nodes that answered with  *)
(* a value.                                                                *)
Only(g, S) == [d \in Node |-> IF d \in S THEN g[d] ELSE None]
Values(g) == {d \in Node : g[d] \in Value}

ASSUME CodeAssumption ==
    \A n \in Node, g \in Answers :
        /\ Wanted(n, g) \subseteq Node
        /\ Wanted(n, g) \subseteq Wanted(n, Only(g, Values(g)))
        /\ n \in FsNode => Wanted(n, g) = {}
        /\ Compute(n, g) \in Value \cup {Throw}

(* Entry::get drops the value of a node that is not cacheable: "this works *)
(* because, in practice, the only uncacheable nodes are Select nodes and   *)
(* @console_rule Task nodes".  A Select has a node only where it is the    *)
(* root of a request, and no rule asks for a Goal.                         *)
ASSUME ReuseAssumption ==
    \A n \in Cacheable, g \in Answers : Wanted(n, g) \subseteq Cacheable

ASSUME BoundAssumption ==
    /\ Disk0 \in [FsNode -> Value]
    /\ Retries \in Nat
    /\ CycleAttempts \in Nat
    /\ Budget \in [Events -> Nat]

VARIABLES
    nodes,      \* the keys that have an Entry
    entry,      \* each key's EntryState
    edges,      \* each key's dependencies, in the order they were added
    runs,       \* the futures spawned by Entry::run that have not returned
    client,     \* the state of each Scheduler::execute call
    draining,   \* InnerGraph.draining
    disk,       \* the files
    pending,    \* files edited since they were last invalidated
    budget      \* the environment's events left

vars == <<nodes, entry, edges, runs, client, draining, disk, pending, budget>>

NoAnswers == [n \in Node |-> None]

-----------------------------------------------------------------------------
(* EntryState.  res and clean are previous_result (NotStarted, Running) or *)
(* result (Completed) with its EntryResult tag.  used is not in the code:  *)
(* it remembers the answers from which res was computed.                   *)

EntryState ==
    [phase : {"NotStarted", "Running", "Completed"},
     token : Nat, gen : Nat,
     res : Persisted \cup {None}, clean : BOOLEAN,
     dirty : BOOLEAN, depGens : Seq(Nat),
     used : Answers]

InitialEntry ==
    [phase |-> "NotStarted", token |-> 0, gen |-> 0, res |-> None,
     clean |-> FALSE, dirty |-> FALSE, depGens |-> <<>>, used |-> NoAnswers]

(* Entry::clear: whatever the node was doing is abandoned by moving on to *)
(* the next RunToken.  Its value is kept to compare the next one with.    *)
Cleared(e, edgesRemain) ==
    [e EXCEPT !.phase = "NotStarted", !.token = @ + 1,
              !.clean = @ /\ ~edgesRemain,
              !.dirty = FALSE, !.depGens = <<>>, !.used = NoAnswers]

(* Fault: a node that is Running is not told. *)
DirtiedIfCompleted(e) ==
    IF e.phase = "Completed" THEN [e EXCEPT !.clean = FALSE] ELSE e

(* Entry::dirty. *)
Dirtied(e) ==
    CASE e.phase = "Running"    -> [e EXCEPT !.dirty = TRUE]
      [] e.phase = "Completed"  -> [e EXCEPT !.clean = FALSE]
      [] e.phase = "NotStarted" -> e

(* Entry::may_have_dirty_edges: looks at the value's tag only. *)
MayHaveDirtyEdges(n) == entry[n].res # None /\ ~entry[n].clean

(* Fault: dirty values are handed out too. *)
IsReadyEvenDirty(n) == entry[n].phase = "Completed" /\ n \in Cacheable

(* The value a caller may take without waiting. *)
IsReady(n) == entry[n].phase = "Completed" /\ entry[n].clean /\ n \in Cacheable

(* A caller that finds the node like this starts it. *)
IsStartable(n) == entry[n].phase # "Running" /\ ~IsReady(n)

(* A Completed node that may be cleaned instead of run. *)
IsCleanable(n) == entry[n].phase = "Completed" /\ n \in Cacheable

(* The state Entry::run leaves a node in.  A node that is not cacheable   *)
(* forgets its value, a cacheable one that had completed keeps it Dirty.  *)
Started(n) ==
    LET e == entry[n] IN
    [e EXCEPT !.phase = "Running", !.token = @ + 1, !.dirty = FALSE,
              !.depGens = <<>>,
              !.res = IF e.phase = "NotStarted" \/ n \in Cacheable THEN @ ELSE None,
              !.clean = @ /\ e.phase = "NotStarted",
              !.used = IF IsCleanable(n) THEN @ ELSE NoAnswers]

-----------------------------------------------------------------------------
(* The spawned futures. pc is "check" before dep_generations, "checking"  *)
(* while its join_all waits, "run" during Node::run, "finished" when the  *)
(* result is known, "collected" between the two halves of Graph::complete.*)

RunState ==
    [node : Node, token : Nat,
     pc : {"check", "checking", "run", "finished", "collected"},
     prev : Seq(Nat),            \* previous_dep_generations
     deps : Seq(Node),           \* what dep_generations is waiting for
     got : Answers,              \* the answers to its requests
     gens : [Node -> Nat],       \* and their generations, while checking
     claim : SUBSET Node,        \* edge added, Entry::get not yet done
     wait : SUBSET Node,         \* receivers
     cyc : Node \cup {None},     \* inside report_cycle, holding the lock
     tries : Nat,                \* its counter
     out : Outcome \cup {None},  \* the result; None is "clean"
     depGens : Seq(Nat)]

NewRun(n, token, pc, prev) ==
    [node |-> n, token |-> token, pc |-> pc, prev |-> prev, deps |-> <<>>,
     got |-> NoAnswers, gens |-> [m \in Node |-> 0], claim |-> {}, wait |-> {},
     cyc |-> None, tries |-> 0, out |-> None, depGens |-> <<>>]

(* The future Entry::run spawns for a node a caller starts. *)
StartedRun(n) ==
    IF IsCleanable(n)
    THEN NewRun(n, entry[n].token + 1, "check", entry[n].depGens)
    ELSE NewRun(n, entry[n].token + 1, "run", <<>>)

(* Fault: the RunToken is not compared. *)
LiveWithAnyToken(r) == entry[r.node].phase = "Running"

(* A run whose result will be taken.  The others are never stopped. *)
Live(r) == entry[r.node].phase = "Running" /\ entry[r.node].token = r.token

(* The InnerGraph lock, as far as it is held across steps. *)
LockFree(r) == \A q \in runs : q.cyc # None => q = r
LockIsFree == \A q \in runs : q.cyc = None

(* An answer reaches a receiver: q is a run or a client. *)
Answer(q, n, res) ==
    IF n \in q.wait THEN [q EXCEPT !.wait = @ \ {n}, !.got[n] = res] ELSE q

AnswerRun(q, n, res, gen) ==
    [Answer(q, n, res) EXCEPT
        !.gens[n] = IF n \in q.wait /\ q.pc = "checking" THEN gen ELSE @]

(* Fault: the senders are kept, and never used. *)
CancelNothing(q, S) == q

(* The senders of the nodes in S are dropped. *)
Cancel(q, S) ==
    [q EXCEPT !.wait = @ \ S,
              !.got = [n \in Node |-> IF n \in q.wait \cap S THEN Invalidated ELSE @[n]]]

CancelClients(S) == client' = [c \in Client |-> Cancel(client[c], S)]

-----------------------------------------------------------------------------
(* The shape of the graph. *)

Out(n) == {edges[n][i] : i \in DOMAIN edges[n]}
In(n) == {m \in Node : n \in Out(m)}
Outgoing == [n \in Node |-> Out(n)]
Incoming == [n \in Node |-> In(n)]

(* InnerGraph::walk: the least set that holds the roots and is closed     *)
(* under the step.                                                        *)
Walk(roots, step) ==
    {m \in Node : \A C \in SUBSET Node :
        (roots \subseteq C /\ \A x \in C : step[x] \subseteq C) => m \in C}

(* Fault: only a node that asks for itself is noticed. *)
WouldCycleAtOnce(src, dst) == src = dst

(* InnerGraph::detect_cycle. *)
WouldCycle(src, dst) == src \in Walk({dst}, Outgoing)

(* InnerGraph::report_cycle: the nodes of one shortest path.              *)
Paths(a, b) ==
    {p \in UNION {[1..k -> nodes] : k \in 1..Cardinality(nodes)} :
        /\ p[1] = a /\ p[Len(p)] = b
        /\ \A i \in 1..(Len(p) - 1) : p[i + 1] \in Out(p[i])}

CyclePaths(src, dst) ==
    LET all == Paths(dst, src) IN
    {{p[i] : i \in DOMAIN p} :
        p \in {p \in all : \A q \in all : Len(p) <= Len(q)}}

(* InnerGraph::invalidate_from_roots, while the futures are rs. *)
InvalidateFromRoots(S, rs) ==
    LET roots == S \cap nodes
        dirtied == Walk(roots, Incoming) \ roots
    IN /\ entry' = [n \in Node |->
                      IF n \in roots THEN Cleared(entry[n], FALSE)
                      ELSE IF n \in dirtied THEN Dirtied(entry[n])
                      ELSE entry[n]]
       /\ edges' = [n \in Node |-> IF n \in roots THEN <<>> ELSE edges[n]]
       /\ runs' = {Cancel(q, roots) : q \in rs}
       /\ CancelClients(roots)

-----------------------------------------------------------------------------
(* The environment. *)

Spend(kind) ==
    /\ budget[kind] > 0
    /\ budget' = [budget EXCEPT ![kind] = @ - 1]

(* Entry::get starts a node, releases the lock and looks again.  If the   *)
(* node stops Running in that window with nothing to return, the caller   *)
(* starts it once more: how often the engine itself does that to one of   *)
(* the nodes in S is bounded here.                                        *)
Lap(S) ==
    IF \E n \in S : entry[n].phase = "Running"
                      /\ \/ \E q \in runs : n \in q.claim
                         \/ \E c \in Client : n \in client[c].claim
    THEN Spend("lap")
    ELSE UNCHANGED budget

(* A file is edited. *)
Write(f) ==
    /\ Spend("write")
    /\ \E v \in Value \ {disk[f]} : disk' = [disk EXCEPT ![f] = v]
    /\ pending' = pending \cup {f}
    /\ client' = [c \in Client |-> [client[c] EXCEPT !.quiet = FALSE]]
    /\ UNCHANGED <<nodes, entry, edges, runs, draining>>

(* Scheduler::invalidate, for edits that the file watcher noticed. *)
Invalidate(S) ==
    /\ LockIsFree
    /\ InvalidateFromRoots(S, runs)
    /\ pending' = pending \ S
    /\ UNCHANGED <<nodes, draining, disk, budget>>

(* Scheduler::invalidate_all_paths. *)
InvalidateAllPaths ==
    /\ Spend("flush")
    /\ LockIsFree
    /\ InvalidateFromRoots(FsNode, runs)
    /\ pending' = {}
    /\ UNCHANGED <<nodes, draining, disk>>

(* Graph::clear. *)
ClearGraph ==
    /\ Spend("flush")
    /\ LockIsFree
    /\ entry' = [n \in Node |-> IF n \in nodes THEN Cleared(entry[n], TRUE) ELSE entry[n]]
    /\ runs' = {Cancel(q, nodes) : q \in runs}
    /\ CancelClients(nodes)
    /\ pending' = {}
    /\ UNCHANGED <<nodes, edges, draining, disk>>

(* Graph::mark_draining, when it does not fail. *)
MarkDraining ==
    /\ Spend("drain")
    /\ LockIsFree
    /\ draining' = ~draining
    /\ UNCHANGED <<nodes, entry, edges, runs, client, disk, pending>>

-----------------------------------------------------------------------------
(* Scheduler::execute and execute_helper: a client asks for a set of      *)
(* roots, and asks again for all of them when one was invalidated.        *)
(* quiet is not in the code: it says that when the request was made every *)
(* edit had been invalidated, and that no file was edited since.          *)

ClientState ==
    [busy : BOOLEAN, quiet : BOOLEAN, roots : SUBSET Node, count : Nat,
     claim : SUBSET Node, wait : SUBSET Node, got : Answers]

IdleClient ==
    [busy |-> FALSE, quiet |-> FALSE, roots |-> {}, count |-> 0,
     claim |-> {}, wait |-> {}, got |-> NoAnswers]

Execute(c, roots) ==
    /\ ~client[c].busy
    /\ Spend("request")
    /\ client' = [client EXCEPT ![c] =
                    [IdleClient EXCEPT !.busy = TRUE, !.roots = roots, !.count = Retries,
                                       !.quiet = (pending = {})]]
    /\ UNCHANGED <<nodes, entry, edges, runs, draining, disk, pending>>

Asked(q, n) == n \in q.claim \/ n \in q.wait \/ q.got[n] # None

(* Graph::create. *)
Create(c, n) ==
    /\ client[c].busy
    /\ n \in client[c].roots /\ ~Asked(client[c], n)
    /\ LockIsFree
    /\ IF draining
       THEN /\ client' = [client EXCEPT ![c].got[n] = Invalidated]
            /\ UNCHANGED nodes
       ELSE /\ nodes' = nodes \cup {n}
            /\ client' = [client EXCEPT ![c].claim = @ \cup {n}]
    /\ UNCHANGED <<entry, edges, runs, draining, disk, pending, budget>>

(* Entry::get by a client: one pass of the recursion. *)
ClientGet(c, n) ==
    /\ n \in client[c].claim
    /\ \/ /\ IsStartable(n)
          /\ entry' = [entry EXCEPT ![n] = Started(n)]
          /\ runs' = runs \cup {StartedRun(n)}
          /\ UNCHANGED client
       \/ /\ ~IsStartable(n)
          /\ client' = [client EXCEPT ![c] =
                IF IsReady(n)
                THEN [client[c] EXCEPT !.claim = @ \ {n}, !.got[n] = entry[n].res]
                ELSE [client[c] EXCEPT !.claim = @ \ {n}, !.wait = @ \cup {n}]]
          /\ UNCHANGED <<entry, runs>>
    /\ UNCHANGED <<nodes, edges, draining, disk, pending, budget>>

RootsAsked(c) == \A n \in client[c].roots : n \notin client[c].claim /\ Asked(client[c], n)

(* join_all failed with Invalidated and attempts are left. *)
Retry(c) ==
    /\ client[c].busy /\ RootsAsked(c)
    /\ client[c].count > 0
    /\ \E n \in client[c].roots : client[c].got[n] = Invalidated
    /\ client' = [client EXCEPT ![c] =
                    [client[c] EXCEPT !.count = @ - 1, !.wait = {}, !.got = NoAnswers]]
    /\ UNCHANGED <<nodes, entry, edges, runs, draining, disk, pending, budget>>

(* All roots are answered: the results are sent to the caller. *)
Respond(c) ==
    /\ client[c].busy /\ RootsAsked(c)
    /\ client[c].wait = {}
    /\ client[c].count = 0 \/ \A n \in client[c].roots : client[c].got[n] # Invalidated
    /\ client' = [client EXCEPT ![c].busy = FALSE]
    /\ UNCHANGED <<nodes, entry, edges, runs, draining, disk, pending, budget>>

-----------------------------------------------------------------------------
(* The futures spawned by Entry::run.                                     *)

Replace(r, new) == runs' = (runs \ {r}) \cup {new}

(* Graph::dep_generations: Entry::get on every dependency, under the      *)
(* graph lock, so that none of them can complete in between.              *)
DepGenerations(r) ==
    /\ r.pc = "check"
    /\ LockIsFree
    /\ LET deps == Out(r.node)
           start == {d \in deps : IsStartable(d)}
           ready == {d \in deps : IsReady(d)}
       IN /\ entry' = [n \in Node |-> IF n \in start THEN Started(n) ELSE entry[n]]
          /\ runs' = (runs \ {r})
                \cup {StartedRun(d) : d \in start}
                \cup {[r EXCEPT
                        !.pc = "checking", !.deps = edges[r.node],
                        !.wait = deps \ ready,
                        !.got = [d \in Node |-> IF d \in ready THEN entry[d].res ELSE None],
                        !.gens = [d \in Node |-> IF d \in ready THEN entry[d].gen ELSE 0]]}
    /\ UNCHANGED <<nodes, edges, client, draining, disk, pending, budget>>

CheckFailed(r) == \E d \in Node : r.got[d] \in Failure

(* Fault: only the number of dependencies is compared. *)
DepsMatchInNumber(r) == Len(r.deps) = Len(r.prev)

DepsMatch(r) == [i \in DOMAIN r.deps |-> r.gens[r.deps[i]]] = r.prev

(* No dependency changed: the previous value is clean. *)
FoundClean(r) ==
    /\ r.pc = "checking"
    /\ r.wait = {} /\ ~CheckFailed(r) /\ DepsMatch(r)
    /\ Replace(r, NewRun(r.node, r.token, "finished", <<>>))
    /\ UNCHANGED <<nodes, entry, edges, client, draining, disk, pending, budget>>

(* Fault: a run that was overtaken clears too. *)
ClearDepsAlways(r) ==
    /\ r.pc = "checking"
    /\ LockIsFree
    /\ CheckFailed(r) \/ (r.wait = {} /\ ~DepsMatch(r))
    /\ edges' = [edges EXCEPT ![r.node] = <<>>]
    /\ Replace(r, NewRun(r.node, r.token, "run", <<>>))
    /\ UNCHANGED <<nodes, entry, client, draining, disk, pending, budget>>

(* Otherwise Graph::clear_deps forgets the dependencies, unless the run   *)
(* was overtaken, and the node runs.                                      *)
ClearDeps(r) ==
    /\ r.pc = "checking"
    /\ LockIsFree
    /\ CheckFailed(r) \/ (r.wait = {} /\ ~DepsMatch(r))
    /\ edges' = [edges EXCEPT ![r.node] =
                    IF entry[r.node].token = r.token THEN <<>> ELSE @]
    /\ Replace(r, NewRun(r.node, r.token, "run", <<>>))
    /\ UNCHANGED <<nodes, entry, client, draining, disk, pending, budget>>

(* Graph::get, up to the release of the lock. *)
Requests(r, d) ==
    /\ r.pc = "run"
    /\ d \in Wanted(r.node, r.got) /\ ~Asked(r, d)
    /\ r.cyc \in {None, d}
    /\ LockFree(r)

GetWhileDraining(r, d) ==
    /\ Requests(r, d)
    /\ draining
    /\ Replace(r, [r EXCEPT !.got[d] = Invalidated])
    /\ UNCHANGED <<nodes, entry, edges, client, draining, disk, pending, budget>>

GetAddsEdge(r, d) ==
    /\ Requests(r, d)
    /\ ~draining
    /\ ~WouldCycle(r.node, d)
    /\ nodes' = nodes \cup {d}
    /\ edges' = [edges EXCEPT ![r.node] = Append(@, d)]
    /\ Replace(r, [r EXCEPT !.claim = @ \cup {d}, !.cyc = None, !.tries = 0])
    /\ UNCHANGED <<entry, client, draining, disk, pending, budget>>

(* Graph::report_cycle found dirty nodes on a cycle: it clears them and   *)
(* looks again, still holding the lock.                                   *)
GetBreaksCycle(r, d) ==
    /\ Requests(r, d)
    /\ ~draining
    /\ WouldCycle(r.node, d)
    /\ r.tries < CycleAttempts
    /\ \E path \in CyclePaths(r.node, d) :
        LET dirtyNodes == {n \in path : MayHaveDirtyEdges(n)} IN
        /\ dirtyNodes # {}
        /\ InvalidateFromRoots(dirtyNodes,
              (runs \ {r}) \cup {[r EXCEPT !.cyc = d, !.tries = @ + 1]})
        /\ Lap(dirtyNodes)
    /\ UNCHANGED <<nodes, draining, disk, pending>>

GetFindsCycle(r, d) ==
    /\ Requests(r, d)
    /\ ~draining
    /\ WouldCycle(r.node, d)
    /\ \E path \in CyclePaths(r.node, d) :
        r.tries = CycleAttempts \/ \A n \in path : ~MayHaveDirtyEdges(n)
    /\ Replace(r, [r EXCEPT !.got[d] = Cyclic, !.cyc = None, !.tries = 0])
    /\ UNCHANGED <<nodes, entry, edges, client, draining, disk, pending, budget>>

(* Graph::get, after the lock: Entry::get on the dependency.              *)
RunGet(r, d) ==
    /\ d \in r.claim
    /\ \/ /\ IsStartable(d)
          /\ entry' = [entry EXCEPT ![d] = Started(d)]
          /\ runs' = runs \cup {StartedRun(d)}
       \/ /\ IsReady(d)
          /\ Replace(r, [r EXCEPT !.claim = @ \ {d}, !.got[d] = entry[d].res])
          /\ UNCHANGED entry
       \/ /\ entry[d].phase = "Running"
          /\ Replace(r, [r EXCEPT !.claim = @ \ {d}, !.wait = @ \cup {d}])
          /\ UNCHANGED entry
    /\ UNCHANGED <<nodes, edges, client, draining, disk, pending, budget>>

(* Node::run returns: a failed dependency fails it at once, a filesystem  *)
(* node reads its file, any other computes from what it got.  (Snapshots  *)
(* turn every failure into a Throw, which differs while draining.)        *)
Finish(r) ==
    /\ r.pc = "run"
    /\ r.claim = {} /\ r.cyc = None
    /\ \E out \in Outcome :
        /\ \/ \E d \in Node : r.got[d] \in Failure /\ out = r.got[d]
           \/ /\ \A d \in Node : r.got[d] \notin Failure
              /\ r.node \in FsNode
              /\ out = disk[r.node]
           \/ /\ \A d \in Node : r.got[d] \notin Failure
              /\ r.node \notin FsNode
              /\ \A d \in Wanted(r.node, r.got) : r.got[d] # None
              /\ out = Compute(r.node, r.got)
        /\ Replace(r, [r EXCEPT !.pc = "finished", !.wait = {}, !.out = out])
    /\ UNCHANGED <<nodes, entry, edges, client, draining, disk, pending, budget>>

(* Graph::complete, the first critical section. *)
CollectGenerations(r) ==
    /\ r.pc = "finished"
    /\ LockIsFree
    /\ Replace(r, [r EXCEPT !.pc = "collected",
                     !.depGens = [i \in DOMAIN edges[r.node] |-> entry[edges[r.node][i]].gen]])
    /\ UNCHANGED <<nodes, entry, edges, client, draining, disk, pending, budget>>

(* Graph::complete, the second: Entry::complete.                          *)
Completes(r) ==
    /\ r.pc = "collected"
    /\ LockIsFree

(* The run was overtaken: its result is dropped. *)
CompleteStale(r) ==
    /\ Completes(r)
    /\ ~Live(r)
    /\ runs' = runs \ {r}
    /\ UNCHANGED <<nodes, entry, edges, client, draining, disk, pending, budget>>

(* Fault: Invalidated is stored like any other error. *)
CompleteWithInvalidated(r) ==
    /\ Completes(r)
    /\ Live(r)
    /\ r.out = Invalidated
    /\ entry' = [entry EXCEPT ![r.node] =
                    [@ EXCEPT !.phase = "Completed", !.clean = TRUE, !.res = Invalidated]]
    /\ runs' = {Cancel(q, {r.node}) : q \in runs \ {r}}
    /\ CancelClients({r.node})
    /\ Lap({r.node})
    /\ UNCHANGED <<nodes, edges, draining, disk, pending>>

(* Invalidation is not stored: the node goes back, its waiters too. *)
CompleteInvalidated(r) ==
    /\ Completes(r)
    /\ Live(r)
    /\ r.out = Invalidated
    /\ entry' = [entry EXCEPT ![r.node] = Cleared(@, TRUE)]
    /\ runs' = {Cancel(q, {r.node}) : q \in runs \ {r}}
    /\ CancelClients({r.node})
    /\ Lap({r.node})
    /\ UNCHANGED <<nodes, edges, draining, disk, pending>>

(* Dirtied while it ran: runs again, with new waiters. *)
CompleteDirty(r) ==
    /\ Completes(r)
    /\ Live(r)
    /\ r.out # Invalidated
    /\ entry[r.node].dirty
    /\ entry' = [entry EXCEPT ![r.node] =
                    [entry[r.node] EXCEPT !.token = @ + 1, !.clean = FALSE, !.dirty = FALSE,
                                          !.used = NoAnswers]]
    /\ runs' = {Cancel(q, {r.node}) : q \in runs \ {r}}
                \cup {NewRun(r.node, r.token + 1, "run", <<>>)}
    /\ CancelClients({r.node})
    /\ UNCHANGED <<nodes, edges, draining, disk, pending, budget>>

(* Fault: the generation only counts the first value. *)
PublishedSameGeneration(r) ==
    LET e == entry[r.node]
        done == [e EXCEPT !.phase = "Completed", !.clean = TRUE, !.depGens = r.depGens]
    IN IF r.out = None
       THEN done
       ELSE [done EXCEPT !.res = r.out, !.used = r.got,
                         !.gen = IF e.res = None THEN @ + 1 ELSE @]

(* The result is stored and sent to the waiters. *)
Published(r) ==
    LET e == entry[r.node]
        done == [e EXCEPT !.phase = "Completed", !.clean = TRUE, !.depGens = r.depGens]
    IN IF r.out = None
       THEN done
       ELSE [done EXCEPT !.res = r.out, !.used = r.got,
                         !.gen = IF r.out = e.res THEN @ ELSE @ + 1]

CompletePublish(r) ==
    /\ Completes(r)
    /\ Live(r)
    /\ r.out # Invalidated
    /\ ~entry[r.node].dirty
    /\ LET n == r.node
           new == Published(r)
       IN /\ entry' = [entry EXCEPT ![n] = new]
          /\ runs' = {AnswerRun(q, n, new.res, new.gen) : q \in runs \ {r}}
          /\ client' = [c \in Client |-> Answer(client[c], n, new.res)]
    /\ IF r.node \in Cacheable THEN UNCHANGED budget ELSE Lap({r.node})
    /\ UNCHANGED <<nodes, edges, draining, disk, pending>>

-----------------------------------------------------------------------------
Init ==
    /\ nodes = {}
    /\ entry = [n \in Node |-> InitialEntry]
    /\ edges = [n \in Node |-> <<>>]
    /\ runs = {}
    /\ client = [c \in Client |-> IdleClient]
    /\ draining = FALSE
    /\ disk = Disk0
    /\ pending = {}
    /\ budget = Budget

Environment ==
    \/ \E f \in FsNode : Write(f)
    \/ InvalidateAllPaths
    \/ ClearGraph
    \/ MarkDraining
    \/ \E c \in Client, roots \in SUBSET Root \ {{}} : Execute(c, roots)

Watcher == \E S \in SUBSET pending \ {{}} : Invalidate(S)

ClientStep(c) ==
    \/ \E n \in Node : Create(c, n) \/ ClientGet(c, n)
    \/ Retry(c)
    \/ Respond(c)

RunStep(r) ==
    \/ DepGenerations(r)
    \/ FoundClean(r)
    \/ ClearDeps(r)
    \/ \E d \in Node :
        \/ GetWhileDraining(r, d)
        \/ GetAddsEdge(r, d)
        \/ GetBreaksCycle(r, d)
        \/ GetFindsCycle(r, d)
        \/ RunGet(r, d)
    \/ Finish(r)
    \/ CollectGenerations(r)
    \/ CompleteStale(r)
    \/ CompleteInvalidated(r)
    \/ CompleteDirty(r)
    \/ CompletePublish(r)

Engine == (\E c \in Client : ClientStep(c)) \/ (\E r \in runs : RunStep(r))

Next == Environment \/ Watcher \/ Engine

Spec == Init /\ [][Next]_vars

(* The executor does not idle while a future can make progress.           *)
FairSpec == Spec /\ WF_vars(Engine)

-----------------------------------------------------------------------------
(* Properties.                                                            *)

(* The shape of every variable; in particular Invalidated is never stored *)
(* in an entry ("the only type of Err that we do not persist").           *)
TypeOK ==
    /\ nodes \in SUBSET Node
    /\ entry \in [Node -> EntryState]
    /\ edges \in [Node -> Seq(Node)]
    /\ \A r \in runs : r \in RunState
    /\ client \in [Client -> ClientState]
    /\ draining \in BOOLEAN
    /\ disk \in [FsNode -> Value]
    /\ pending \in SUBSET FsNode
    /\ budget \in [Events -> Nat]

(* The graph is "a DAG (enforced on mutation)": every nonempty set of     *)
(* nodes has a member without a dependency inside the set, although edges *)
(* are added by runs that were overtaken and removed while others wait.   *)
Acyclic ==
    \A S \in SUBSET Node : S # {} => \E n \in S : Out(n) \cap S = {}

(* A Running entry has exactly one run that will complete it, however     *)
(* often it was cleared, dirtied and restarted: no waiter is orphaned and *)
(* no two runs can both publish.                                          *)
OneLiveRun ==
    \A n \in Node : entry[n].phase = "Running" =>
        /\ \E r \in runs : r.node = n /\ Live(r)
        /\ \A r, q \in runs :
              r.node = n /\ q.node = n /\ Live(r) /\ Live(q) => r = q

(* What a live run asked for has an edge, so that an invalidation reaches *)
(* the run; and it waits for a node that is itself Running.               *)
WaitsFollowEdges ==
    \A r \in runs : Live(r) =>
        /\ r.claim \cup r.wait \subseteq Out(r.node)
        /\ \A d \in r.wait : entry[d].phase = "Running"

(* No deadlock: in every set of nodes there is one whose live run waits   *)
(* for nothing in the set.                                                *)
NoWaitCycle ==
    \A S \in SUBSET Node : S # {} =>
        \E n \in S : \A r \in runs : r.node = n /\ Live(r) => r.wait \cap S = {}

IsClean(n) == entry[n].phase = "Completed" /\ entry[n].clean

(* An answer that told the run something of the dependency.  A refused    *)
(* request (Cyclic) leaves no edge.  An invalidated one may leave none,   *)
(* and a run that stores a result in spite of it stores the error of      *)
(* another request.                                                       *)
Obtained(x) == x \in Value \cup {Throw}

(* "If the value is Clean, the consumer can simply use the value as-is":  *)
(* a clean value was computed from values that its dependencies still     *)
(* have, and these are clean too.                                         *)
UsedFresh ==
    \A n \in Node : IsClean(n) =>
        \A d \in Cacheable : Obtained(entry[n].used[d]) =>
            /\ d \in Out(n)
            /\ IsClean(d)
            /\ entry[d].res = entry[n].used[d]

(* Why comparing generations is enough to clean a node: as long as the    *)
(* generation recorded for a dependency is its current one, its value is  *)
(* the one that was used, also while the node is dirty.                   *)
GenerationsTellValues ==
    \A n \in Cacheable : entry[n].phase = "Completed" =>
        \A i \in DOMAIN entry[n].depGens :
            LET d == edges[n][i] IN
            d \in Cacheable /\ Obtained(entry[n].used[d])
              /\ entry[d].gen = entry[n].depGens[i]
            => entry[d].res = entry[n].used[d]

-----------------------------------------------------------------------------
(* What the files give, without any graph: a node asks for nodes by the   *)
(* values of those it has asked before, fails if one of them failed, and  *)
(* computes its value when it has all it wants.                           *)

AsksFor(n, g, d) == \E C \in SUBSET (Values(g) \ {d}) : d \in Wanted(n, Only(g, C))

Returns(n, g, x) ==
    /\ \A d \in Node : g[d] # None => AsksFor(n, g, d)
    /\ \/ x = Throw /\ \E d \in Node : g[d] = Throw
       \/ /\ \A d \in Node : g[d] # Throw
          /\ \A d \in Wanted(n, g) : g[d] # None
          /\ x = Compute(n, g)

(* What the nodes may have together: each has what it returns by the      *)
(* answers of the others; None, if anything, has a node that asks for     *)
(* itself.                                                                *)
Truths ==
    {T \in {Only(g, S) : g \in [Node -> Value \cup {Throw}], S \in SUBSET Node} :
        \A n \in Node \ FsNode, S \in SUBSET Node, x \in Value \cup {Throw} :
            Returns(n, Only(T, S), x) => T[n] = x}

(* By the files that are on disk. *)
OnDisk(T) == \A n \in FsNode : T[n] = disk[n]

(* The nodes that may come to ask for themselves.                         *)
AskedBy(n) == UNION {Wanted(n, g) : g \in Answers}
CanCycle == UNION {C \in SUBSET Node : \A n \in C : AskedBy(n) \cap C # {}}

(* A cycle may be reported that is not there by the files: report_cycle   *)
(* does not see that a node was dirtied in its first run.                 *)
Agrees(n, x, T) == x = T[n] \/ (x = Cyclic /\ n \in CanCycle)

(* A value the graph would hand out is the one the files give, once every *)
(* edit has been invalidated.                                             *)
CleanIsTrue ==
    pending = {} =>
        \A T \in Truths : OnDisk(T) =>
            \A n \in Node : IsReady(n) => Agrees(n, entry[n].res, T)

(* A request made after every edit was invalidated, and not overtaken by  *)
(* an edit, is answered with what the files give, or told that it was     *)
(* invalidated until its retries ran out; never with an older value.      *)
AnswersFresh ==
    \A c \in Client : ~client[c].busy /\ client[c].quiet =>
        \A T \in Truths : OnDisk(T) =>
            \A n \in client[c].roots :
                client[c].got[n] = Invalidated \/ Agrees(n, client[c].got[n], T)

(* Every request is eventually answered, whatever was edited, cleared or  *)
(* drained while it ran.                                                  *)
Answered == \A c \in Client : client[c].busy ~> ~client[c].busy

=============================================================================
