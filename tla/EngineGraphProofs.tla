------------------------- MODULE EngineGraphProofs -------------------------
(***************************************************************************)
(* The safety of the graph, for every set of nodes, clients and values,    *)
(* every program and every budget of external events: the types of its     *)
(* state and the uniqueness of live runs, that it stays acyclic, that      *)
(* nobody waits in a circle, and that what is clean was computed from what *)
(* is still there.                                                         *)
(***************************************************************************)
EXTENDS EngineGraph, TLAPS


(* An update of a sequence of answers stays one. *)
LEMMA AnswersUpdate ==
    ASSUME NEW g \in Answers, NEW n, NEW x \in Outcome \cup {None}
    PROVE  [g EXCEPT ![n] = x] \in Answers
  BY DEF Answers

(* Initially nothing is answered. *)
LEMMA NoAnswersType == NoAnswers \in Answers
  BY DEF NoAnswers, Answers

(* The errors and values that an entry keeps can be answered. *)
LEMMA PersistedOutcome == Persisted \cup {None} \subseteq Outcome \cup {None}
  BY DEF Persisted, Outcome, Failure

(* Entry::clear keeps the type of an entry, whatever it was doing. *)
LEMMA ClearedType ==
    ASSUME NEW e \in EntryState, NEW b \in BOOLEAN
    PROVE  /\ Cleared(e, b) \in EntryState
           /\ Cleared(e, b).phase = "NotStarted" /\ Cleared(e, b).token = e.token + 1
<1>1. <<>> \in Seq(Nat) /\ e.token + 1 \in Nat
  BY DEF EntryState
<1>2. (e.clean /\ ~b) \in BOOLEAN
  OBVIOUS
<1> QED
  BY <1>1, <1>2, NoAnswersType DEF Cleared, EntryState

(* Entry::dirty never changes the phase or the token. *)
LEMMA DirtiedType ==
    ASSUME NEW e \in EntryState
    PROVE  /\ Dirtied(e) \in EntryState
           /\ Dirtied(e).phase = e.phase /\ Dirtied(e).token = e.token
<1>1. CASE e.phase = "Running"
  BY <1>1 DEF Dirtied, EntryState
<1>2. CASE e.phase = "Completed"
  BY <1>2 DEF Dirtied, EntryState
<1>3. CASE e.phase = "NotStarted"
  BY <1>3 DEF Dirtied, EntryState
<1> QED
  BY <1>1, <1>2, <1>3 DEF EntryState

(* Entry::run moves on to the next token. *)
LEMMA StartedType ==
    ASSUME TypeOK, NEW n \in Node
    PROVE  /\ Started(n) \in EntryState
           /\ Started(n).phase = "Running" /\ Started(n).token = entry[n].token + 1
<1> DEFINE e == entry[n]
           res == IF e.phase = "NotStarted" \/ n \in Cacheable THEN e.res ELSE None
           clean == e.clean /\ e.phase = "NotStarted"
           used == IF IsCleanable(n) THEN e.used ELSE NoAnswers
<1>1. e \in EntryState
  BY DEF TypeOK
<1>2. <<>> \in Seq(Nat) /\ e.token + 1 \in Nat
  BY <1>1 DEF EntryState
<1>3. res \in Persisted \cup {None} /\ used \in Answers
  BY <1>1, NoAnswersType DEF EntryState
<1>4. clean \in BOOLEAN
  OBVIOUS
<1>5. Started(n) = [e EXCEPT !.phase = "Running", !.token = @ + 1, !.dirty = FALSE,
                             !.depGens = <<>>, !.res = res, !.clean = clean, !.used = used]
  BY DEF Started
<1> HIDE DEF e, res, clean, used
<1>6. /\ Started(n) \in EntryState
      /\ Started(n).phase = "Running" /\ Started(n).token = e.token + 1
  BY <1>1, <1>2, <1>3, <1>4, <1>5 DEF EntryState
<1> QED
  BY <1>6 DEF e

(* A future that was just spawned. *)
LEMMA NewRunType ==
    ASSUME NEW n \in Node, NEW token \in Nat,
           NEW pc \in {"check", "checking", "run", "finished", "collected"},
           NEW prev \in Seq(Nat)
    PROVE  /\ NewRun(n, token, pc, prev) \in RunState
           /\ NewRun(n, token, pc, prev).node = n /\ NewRun(n, token, pc, prev).token = token
<1>1. <<>> \in Seq(Nat) /\ <<>> \in Seq(Node)
  OBVIOUS
<1> QED
  BY <1>1, NoAnswersType DEF NewRun, RunState

(* The future Entry::run spawns carries the token of the entry it started. *)
LEMMA StartedRunType ==
    ASSUME TypeOK, NEW n \in Node
    PROVE  /\ StartedRun(n) \in RunState
           /\ StartedRun(n).node = n /\ StartedRun(n).token = entry[n].token + 1
<1>1. /\ entry[n].token + 1 \in Nat /\ entry[n].depGens \in Seq(Nat) /\ <<>> \in Seq(Nat)
  BY DEF TypeOK, EntryState
<1>2. CASE IsCleanable(n)
  <2>1. StartedRun(n) = NewRun(n, entry[n].token + 1, "check", entry[n].depGens)
    BY <1>2 DEF StartedRun
  <2> QED
    BY <1>1, <2>1, NewRunType
<1>3. CASE ~IsCleanable(n)
  <2>0. PICK prev \in Seq(Nat) : prev = <<>>
    BY <1>1
  <2>1. StartedRun(n) = NewRun(n, entry[n].token + 1, "run", prev)
    BY <1>3, <2>0 DEF StartedRun
  <2> QED
    BY <1>1, <2>1, NewRunType
<1> QED
  BY <1>2, <1>3

(* Dropping the senders of some nodes only touches the answers. *)
LEMMA CancelRunType ==
    ASSUME NEW q \in RunState, NEW S
    PROVE  /\ Cancel(q, S) \in RunState
           /\ Cancel(q, S).node = q.node /\ Cancel(q, S).token = q.token
<1>1. [n \in Node |-> IF n \in q.wait \cap S THEN Invalidated ELSE q.got[n]] \in Answers
  BY DEF RunState, Answers, Outcome, Failure
<1> QED
  BY <1>1 DEF Cancel, RunState

(* The same for a client. *)
LEMMA CancelClientType ==
    ASSUME NEW q \in ClientState, NEW S
    PROVE  Cancel(q, S) \in ClientState
<1>1. [n \in Node |-> IF n \in q.wait \cap S THEN Invalidated ELSE q.got[n]] \in Answers
  BY DEF ClientState, Answers, Outcome, Failure
<1> QED
  BY <1>1 DEF Cancel, ClientState

(* A result that is sent to a run. *)
LEMMA AnswerRunType ==
    ASSUME NEW q \in RunState, NEW n \in Node, NEW res \in Outcome \cup {None}, NEW gen \in Nat
    PROVE  /\ AnswerRun(q, n, res, gen) \in RunState
           /\ AnswerRun(q, n, res, gen).node = q.node
           /\ AnswerRun(q, n, res, gen).token = q.token
<1>1. /\ Answer(q, n, res) \in RunState
      /\ Answer(q, n, res).node = q.node /\ Answer(q, n, res).token = q.token
  <2>1. [q.got EXCEPT ![n] = res] \in Answers
    BY AnswersUpdate DEF RunState
  <2> QED
    BY <2>1 DEF Answer, RunState
<1> DEFINE a == Answer(q, n, res)
           gens == [a.gens EXCEPT ![n] = IF n \in q.wait /\ q.pc = "checking" THEN gen ELSE @]
<1>2. gens \in [Node -> Nat]
  BY <1>1 DEF RunState
<1>3. AnswerRun(q, n, res, gen) = [a EXCEPT !.gens = gens]
  BY DEF AnswerRun
<1> HIDE DEF gens
<1> QED
  BY <1>1, <1>2, <1>3 DEF RunState

(* A result that is sent to a client. *)
LEMMA AnswerClientType ==
    ASSUME NEW q \in ClientState, NEW n \in Node, NEW res \in Outcome \cup {None}
    PROVE  Answer(q, n, res) \in ClientState
<1>1. [q.got EXCEPT ![n] = res] \in Answers
  BY AnswersUpdate DEF ClientState
<1> QED
  BY <1>1 DEF Answer, ClientState

(* Entry::complete stores what may be stored. *)
LEMMA PublishedType ==
    ASSUME TypeOK, NEW r \in RunState, r.out # Invalidated
    PROVE  /\ Published(r) \in EntryState
           /\ Published(r).phase = "Completed" /\ Published(r).token = entry[r.node].token
<1> DEFINE e == entry[r.node]
           done == [e EXCEPT !.phase = "Completed", !.clean = TRUE, !.depGens = r.depGens]
           gen == IF r.out = e.res THEN e.gen ELSE e.gen + 1
<1>1. e \in EntryState /\ r.depGens \in Seq(Nat) /\ r.got \in Answers
  BY DEF TypeOK, RunState
<1>2. /\ done \in EntryState /\ done.phase = "Completed" /\ done.token = e.token
      /\ done.gen = e.gen
  BY <1>1 DEF EntryState
<1>3. gen \in Nat
  BY <1>1 DEF EntryState
<1>4. CASE r.out = None
  BY <1>2, <1>4 DEF Published
<1>5. CASE r.out # None
  <2>1. r.out \in Persisted \cup {None}
    BY <1>5 DEF RunState, Outcome, Failure, Persisted
  <2>2. Published(r) = [done EXCEPT !.res = r.out, !.used = r.got, !.gen = gen]
    BY <1>2, <1>5 DEF Published
  <2> HIDE DEF done, gen
  <2> QED
    BY <1>1, <1>2, <1>3, <2>1, <2>2 DEF EntryState
<1> QED
  BY <1>4, <1>5

-----------------------------------------------------------------------------
(* Runs are told apart by their node and token.  A run's token is never    *)
(* ahead of its entry's, and a Running entry has the run that carries its  *)
(* token.                                                                  *)
SameTag(a, b) == a.node = b.node /\ a.token = b.token

TokenInv ==
    /\ \A r \in runs : r.token <= entry[r.node].token
    /\ \A r, q \in runs : SameTag(r, q) => r = q
    /\ \A n \in Node : entry[n].phase = "Running" =>
          \E r \in runs : r.node = n /\ r.token = entry[n].token

RunInv == TypeOK /\ TokenInv

(* The runs of new are those of old, with the same tags. *)
SameTags(old, new) ==
    /\ \A a \in new : \E b \in old : SameTag(a, b)
    /\ \A b \in old : \E a \in new : SameTag(a, b)
    /\ (\A a, b \in old : SameTag(a, b) => a = b) => (\A a, b \in new : SameTag(a, b) => a = b)

(* The first clause of OneLiveRun is the last one of TokenInv, its second  *)
(* follows from the uniqueness of tags.                                    *)
LEMMA RunInvImplies == RunInv => TypeOK /\ OneLiveRun
  BY DEF RunInv, TokenInv, OneLiveRun, Live, SameTag

(* Replacing a run by its next state keeps the tags. *)
LEMMA ReplaceTags ==
    ASSUME NEW rs, NEW r \in rs, NEW new, SameTag(new, r)
    PROVE  SameTags(rs, (rs \ {r}) \cup {new})
  BY DEF SameTags, SameTag

(* So does cancelling receivers. *)
LEMMA CancelTags ==
    ASSUME NEW rs, \A q \in rs : q \in RunState, NEW S
    PROVE  SameTags(rs, {Cancel(q, S) : q \in rs})
<1>1. \A q \in rs : SameTag(Cancel(q, S), q)
  BY CancelRunType DEF SameTag
<1> QED
  BY <1>1 DEF SameTags, SameTag

(* And answering them. *)
LEMMA AnswerTags ==
    ASSUME NEW rs, \A q \in rs : q \in RunState,
           NEW n \in Node, NEW res \in Outcome \cup {None}, NEW gen \in Nat
    PROVE  SameTags(rs, {AnswerRun(q, n, res, gen) : q \in rs})
<1>1. \A q \in rs : SameTag(AnswerRun(q, n, res, gen), q)
  BY AnswerRunType DEF SameTag
<1> QED
  BY <1>1 DEF SameTags, SameTag

(* The effect of a step on the tokens: the entries in N are started, each  *)
(* with a run of new; the others do not start Running; the runs that are   *)
(* dropped are not live any more.                                          *)
TokenEffect(N, old, kept, new) ==
    /\ N \subseteq Node /\ old \subseteq runs
    /\ runs' = kept \cup new /\ SameTags(old, kept)
    /\ \A a \in new : a.node \in N /\ a.token = entry[a.node].token + 1
    /\ \A a, b \in new : a.node = b.node => a = b
    /\ \A n \in N : /\ \E a \in new : a.node = n
                    /\ entry'[n].token = entry[n].token + 1
    /\ \A n \in Node \ N :
          /\ entry'[n].token >= entry[n].token
          /\ entry'[n].phase = "Running" =>
                entry[n].phase = "Running" /\ entry'[n].token = entry[n].token
    /\ \A r \in runs \ old :
          r.node \in N \/ entry'[r.node].phase # "Running" \/ entry'[r.node].token # r.token

(* Such a step preserves the invariant: a new token is ahead of all those  *)
(* that runs of the node carry.                                            *)
LEMMA TokenStep ==
    ASSUME RunInv, TypeOK', NEW N, NEW old, NEW kept, NEW new, TokenEffect(N, old, kept, new)
    PROVE  RunInv'
<1> USE DEF TokenEffect
<1>0. /\ \A n \in Node : entry[n].token \in Nat /\ entry'[n].token \in Nat
      /\ \A r \in runs : r.node \in Node /\ r.token \in Nat
      /\ \A r \in runs' : r.node \in Node /\ r.token \in Nat
  BY DEF RunInv, TypeOK, EntryState, RunState
<1>1. ASSUME NEW a \in kept PROVE a.node \in Node /\ a.token <= entry[a.node].token
  <2>1. PICK b \in old : SameTag(a, b)
    BY DEF SameTags
  <2>2. b.node \in Node /\ b.token <= entry[b.node].token
    BY <1>0 DEF RunInv, TokenInv
  <2> QED
    BY <2>1, <2>2 DEF SameTag
<1>2. \A r \in runs' : r.token <= entry'[r.node].token
  <2>1. ASSUME NEW r \in kept PROVE r.token <= entry'[r.node].token
    <3>1. r.node \in Node /\ r.token <= entry[r.node].token /\ r.token \in Nat
      BY <1>0, <1>1
    <3>2. entry'[r.node].token >= entry[r.node].token
      BY <1>0, <3>1
    <3> QED
      BY <1>0, <3>1, <3>2
  <2>2. ASSUME NEW r \in new PROVE r.token <= entry'[r.node].token
    BY <1>0
  <2> QED
    BY <2>1, <2>2
<1>3. \A r, q \in runs' : SameTag(r, q) => r = q
  <2>1. \A r, q \in kept : SameTag(r, q) => r = q
    BY DEF RunInv, TokenInv, SameTags
  <2>2. \A r \in kept, q \in new : ~SameTag(r, q) /\ ~SameTag(q, r)
    BY <1>0, <1>1 DEF SameTag
  <2>3. \A r, q \in new : SameTag(r, q) => r = q
    BY DEF SameTag
  <2> QED
    BY <2>1, <2>2, <2>3
<1>4. ASSUME NEW n \in Node, entry'[n].phase = "Running"
      PROVE  \E r \in runs' : r.node = n /\ r.token = entry'[n].token
  <2>1. CASE n \in N
    BY <2>1
  <2>2. CASE n \notin N
    <3>1. entry[n].phase = "Running" /\ entry'[n].token = entry[n].token
      BY <1>4, <2>2
    <3>2. PICK r \in runs : r.node = n /\ r.token = entry[n].token
      BY <3>1 DEF RunInv, TokenInv
    <3>3. r \in old
      BY <1>4, <2>2, <3>1, <3>2
    <3> QED
      BY <3>1, <3>2, <3>3 DEF SameTags, SameTag
  <2> QED
    BY <2>1, <2>2
<1> QED
  BY <1>2, <1>3, <1>4 DEF RunInv, TokenInv

(* A step that starts nothing and drops no run. *)
LEMMA AdvanceStep ==
    ASSUME RunInv, TypeOK', SameTags(runs, runs'),
           \A n \in Node :
              /\ entry'[n].token >= entry[n].token
              /\ entry'[n].phase = "Running" =>
                    entry[n].phase = "Running" /\ entry'[n].token = entry[n].token
    PROVE  RunInv'
<1>1. TokenEffect({}, runs, runs', {})
  BY DEF TokenEffect
<1> QED
  BY <1>1, TokenStep

(* A step that leaves the entries alone. *)
LEMMA QuietStep ==
    ASSUME RunInv, TypeOK', entry' = entry, SameTags(runs, runs')
    PROVE  RunInv'
<1>1. \A n \in Node : entry[n].token \in Nat
  BY DEF RunInv, TypeOK, EntryState
<1>2. \A n \in Node : entry'[n].token >= entry[n].token
  BY <1>1
<1> QED
  BY <1>2, AdvanceStep

-----------------------------------------------------------------------------
(* The environment's events are counted down. *)
LEMMA SpendType ==
    ASSUME TypeOK, NEW kind \in Events, Spend(kind)
    PROVE  budget' \in [Events -> Nat]
  BY DEF TypeOK, Spend

(* Also by the engine itself, for laps. *)
LEMMA LapType ==
    ASSUME TypeOK, NEW S, Lap(S)
    PROVE  budget' \in [Events -> Nat]
<1>1. CASE Spend("lap")
  BY <1>1, SpendType DEF Events
<1>2. CASE UNCHANGED budget
  BY <1>2 DEF TypeOK
<1> QED
  BY <1>1, <1>2 DEF Lap

(* A step of one run that leaves the entries alone. *)
LEMMA ReplaceStep ==
    ASSUME RunInv, NEW r \in runs, NEW new \in RunState,
           new.node = r.node, new.token = r.token, Replace(r, new),
           nodes' \in SUBSET Node, edges' \in [Node -> Seq(Node)],
           UNCHANGED <<entry, client, draining, disk, pending, budget>>
    PROVE  RunInv'
<1>1. \A q \in runs' : q \in RunState
  BY DEF RunInv, TypeOK, Replace
<1>2. TypeOK'
  BY <1>1 DEF RunInv, TypeOK
<1>3. SameTags(runs, runs')
  BY ReplaceTags DEF Replace, SameTag
<1> QED
  BY <1>2, <1>3, QuietStep

(* The senders of S are dropped. *)
LEMMA CancelClientsType ==
    ASSUME TypeOK, NEW S, CancelClients(S)
    PROVE  client' \in [Client -> ClientState]
  BY CancelClientType DEF TypeOK, CancelClients

(* InnerGraph::invalidate_from_roots: cleared entries abandon their runs,  *)
(* dirtied ones keep them.                                                 *)
LEMMA InvalidateFromRootsStep ==
    ASSUME RunInv, NEW S, NEW rs, InvalidateFromRoots(S, rs),
           \A q \in rs : q \in RunState, SameTags(runs, rs),
           UNCHANGED <<nodes, draining, disk>>, pending' \in SUBSET FsNode,
           budget' \in [Events -> Nat]
    PROVE  RunInv'
<1> DEFINE roots == S \cap nodes
           dirtied == Walk(roots, Incoming) \ roots
<1>0. TypeOK
  BY DEF RunInv
<1>1. /\ entry' = [n \in Node |->
                      IF n \in roots THEN Cleared(entry[n], FALSE)
                      ELSE IF n \in dirtied THEN Dirtied(entry[n])
                      ELSE entry[n]]
      /\ edges' = [n \in Node |-> IF n \in roots THEN <<>> ELSE edges[n]]
      /\ runs' = {Cancel(q, roots) : q \in rs}
      /\ CancelClients(roots)
  BY DEF InvalidateFromRoots
<1> HIDE DEF roots, dirtied
<1>2. ASSUME NEW n \in Node
      PROVE  /\ entry'[n] \in EntryState
             /\ \/ entry'[n].phase = "NotStarted" /\ entry'[n].token = entry[n].token + 1
                \/ entry'[n].phase = entry[n].phase /\ entry'[n].token = entry[n].token
  <2>1. entry[n] \in EntryState
    BY <1>0 DEF TypeOK
  <2>2. CASE n \in roots
    <3>1. entry'[n] = Cleared(entry[n], FALSE)
      BY <1>1, <2>2
    <3> QED
      BY <2>1, <3>1, ClearedType
  <2>3. CASE n \notin roots /\ n \in dirtied
    <3>1. entry'[n] = Dirtied(entry[n])
      BY <1>1, <2>3
    <3> QED
      BY <2>1, <3>1, DirtiedType
  <2>4. CASE n \notin roots /\ n \notin dirtied
    BY <1>1, <2>1, <2>4
  <2> QED
    BY <2>2, <2>3, <2>4
<1>3. entry' \in [Node -> EntryState]
  <2>1. entry' = [n \in Node |-> entry'[n]]
    BY <1>1
  <2> QED
    BY <1>2, <2>1
<1>4. edges' \in [Node -> Seq(Node)]
  <2>1. <<>> \in Seq(Node)
    OBVIOUS
  <2> QED
    BY <1>0, <1>1, <2>1 DEF TypeOK
<1>5. \A q \in runs' : q \in RunState
  BY <1>1, CancelRunType
<1>6. client' \in [Client -> ClientState]
  BY <1>0, <1>1, CancelClientsType
<1>7. TypeOK'
  BY <1>0, <1>3, <1>4, <1>5, <1>6 DEF TypeOK
<1>8. SameTags(runs, runs')
  <2>1. SameTags(rs, runs')
    BY <1>1, CancelTags
  <2> QED
    BY <2>1 DEF SameTags, SameTag
<1>9. \A n \in Node : entry[n].token \in Nat
  BY <1>0 DEF TypeOK, EntryState
<1>10. \A n \in Node : /\ entry'[n].token >= entry[n].token
                       /\ entry'[n].phase = "Running" =>
                             entry[n].phase = "Running" /\ entry'[n].token = entry[n].token
  BY <1>2, <1>9
<1> QED
  BY <1>7, <1>8, <1>10, AdvanceStep

(* Graph::clear. *)
LEMMA ClearGraphStep == ASSUME RunInv, ClearGraph PROVE RunInv'
<1>0. TypeOK
  BY DEF RunInv
<1>1. /\ entry' = [n \in Node |-> IF n \in nodes THEN Cleared(entry[n], TRUE) ELSE entry[n]]
      /\ runs' = {Cancel(q, nodes) : q \in runs}
      /\ CancelClients(nodes)
      /\ pending' = {}
      /\ Spend("flush")
      /\ UNCHANGED <<nodes, edges, draining, disk>>
  BY DEF ClearGraph
<1>2. ASSUME NEW n \in Node
      PROVE  /\ entry'[n] \in EntryState
             /\ \/ entry'[n].phase = "NotStarted" /\ entry'[n].token = entry[n].token + 1
                \/ entry'[n].phase = entry[n].phase /\ entry'[n].token = entry[n].token
  <2>1. entry[n] \in EntryState
    BY <1>0 DEF TypeOK
  <2>2. CASE n \in nodes
    <3>1. entry'[n] = Cleared(entry[n], TRUE)
      BY <1>1, <2>2
    <3> QED
      BY <2>1, <3>1, ClearedType
  <2>3. CASE n \notin nodes
    BY <1>1, <2>1, <2>3
  <2> QED
    BY <2>2, <2>3
<1>3. entry' \in [Node -> EntryState]
  <2>1. entry' = [n \in Node |-> entry'[n]]
    BY <1>1
  <2> QED
    BY <1>2, <2>1
<1>4. (\A q \in runs' : q \in RunState) /\ (\A q \in runs : q \in RunState)
  BY <1>0, <1>1, CancelRunType DEF TypeOK
<1>5. client' \in [Client -> ClientState]
  BY <1>0, <1>1, CancelClientsType
<1>6. budget' \in [Events -> Nat]
  BY <1>0, <1>1, SpendType DEF Events
<1>7. TypeOK'
  BY <1>0, <1>1, <1>3, <1>4, <1>5, <1>6 DEF TypeOK
<1>8. SameTags(runs, runs')
  BY <1>1, <1>4, CancelTags
<1>9. \A n \in Node : entry[n].token \in Nat
  BY <1>0 DEF TypeOK, EntryState
<1>10. \A n \in Node : /\ entry'[n].token >= entry[n].token
                       /\ entry'[n].phase = "Running" =>
                             entry[n].phase = "Running" /\ entry'[n].token = entry[n].token
  BY <1>2, <1>9
<1> QED
  BY <1>7, <1>8, <1>10, AdvanceStep

(* Editing a file touches no entry and no run. *)
LEMMA WriteStep == ASSUME RunInv, NEW f \in FsNode, Write(f) PROVE RunInv'
<1>0. TypeOK
  BY DEF RunInv
<1>1. PICK v \in Value : disk' = [disk EXCEPT ![f] = v]
  BY DEF Write
<1>2. /\ pending' = pending \cup {f}
      /\ client' = [c \in Client |-> [client[c] EXCEPT !.quiet = FALSE]]
      /\ UNCHANGED <<nodes, entry, edges, runs, draining>>
      /\ Spend("write")
  BY DEF Write
<1>3. disk' \in [FsNode -> Value] /\ pending' \in SUBSET FsNode
  BY <1>0, <1>1, <1>2 DEF TypeOK
<1>4. client' \in [Client -> ClientState]
  <2>1. \A q \in ClientState : [q EXCEPT !.quiet = FALSE] \in ClientState
    BY DEF ClientState
  <2> QED
    BY <1>0, <1>2, <2>1 DEF TypeOK
<1>5. budget' \in [Events -> Nat]
  BY <1>0, <1>2, SpendType DEF Events
<1>6. TypeOK'
  BY <1>0, <1>2, <1>3, <1>4, <1>5 DEF TypeOK
<1>7. SameTags(runs, runs')
  BY <1>2 DEF SameTags, SameTag
<1> QED
  BY <1>2, <1>6, <1>7, QuietStep

(* A step of a client that neither starts nor stops anything. *)
LEMMA ClientOnlyStep ==
    ASSUME RunInv, nodes' \in SUBSET Node, client' \in [Client -> ClientState],
           draining' \in BOOLEAN, budget' \in [Events -> Nat],
           UNCHANGED <<entry, edges, runs, disk, pending>>
    PROVE  RunInv'
<1>1. TypeOK'
  BY DEF RunInv, TypeOK
<1>2. SameTags(runs, runs')
  BY DEF SameTags, SameTag
<1> QED
  BY <1>1, <1>2, QuietStep

(* Scheduler::execute. *)
LEMMA ExecuteStep ==
    ASSUME RunInv, NEW c \in Client, NEW roots \in SUBSET Root, Execute(c, roots)
    PROVE  RunInv'
<1>0. TypeOK
  BY DEF RunInv
<1> DEFINE quiet == pending = {}
           new == [IdleClient EXCEPT !.busy = TRUE, !.roots = roots, !.count = Retries,
                                     !.quiet = quiet]
<1>1. client' = [client EXCEPT ![c] = new]
  BY DEF Execute
<1>2. quiet \in BOOLEAN
  OBVIOUS
<1>3. roots \in SUBSET Node
  BY NodeAssumption
<1> HIDE DEF quiet
<1>4. new \in ClientState
  BY <1>2, <1>3, NoAnswersType, BoundAssumption DEF IdleClient, ClientState
<1> HIDE DEF new
<1>5. client' \in [Client -> ClientState]
  BY <1>0, <1>1, <1>4 DEF TypeOK
<1>6. budget' \in [Events -> Nat]
  BY <1>0, SpendType DEF Events, Execute
<1>7. UNCHANGED <<nodes, entry, edges, runs, draining, disk, pending>>
  BY DEF Execute
<1> QED
  BY <1>0, <1>5, <1>6, <1>7, ClientOnlyStep DEF TypeOK

(* The external events. *)
LEMMA EnvironmentStep == ASSUME RunInv, Environment \/ Watcher PROVE RunInv'
<1>0. TypeOK /\ \A q \in runs : q \in RunState
  BY DEF RunInv, TypeOK
<1>1. SameTags(runs, runs)
  BY DEF SameTags, SameTag
<1>2. CASE InvalidateAllPaths
  <2>1. budget' \in [Events -> Nat]
    BY <1>0, <1>2, SpendType DEF Events, InvalidateAllPaths
  <2>2. /\ InvalidateFromRoots(FsNode, runs)
        /\ pending' \in SUBSET FsNode
        /\ UNCHANGED <<nodes, draining, disk>>
    BY <1>2 DEF InvalidateAllPaths
  <2> QED
    BY <1>0, <1>1, <2>1, <2>2, InvalidateFromRootsStep
<1>3. ASSUME NEW S \in SUBSET pending, Invalidate(S) PROVE RunInv'
  <2>1. /\ InvalidateFromRoots(S, runs)
        /\ pending' \in SUBSET FsNode /\ budget' \in [Events -> Nat]
        /\ UNCHANGED <<nodes, draining, disk>>
    BY <1>0, <1>3 DEF Invalidate, TypeOK
  <2> QED
    BY <1>0, <1>1, <2>1, InvalidateFromRootsStep
<1>4. CASE MarkDraining
  <2>1. budget' \in [Events -> Nat]
    BY <1>0, <1>4, SpendType DEF Events, MarkDraining
  <2>2. /\ nodes' \in SUBSET Node /\ client' \in [Client -> ClientState]
        /\ UNCHANGED <<entry, edges, runs, disk, pending>>
    BY <1>0, <1>4 DEF MarkDraining, TypeOK
  <2>3. draining' \in BOOLEAN
    BY <1>4 DEF MarkDraining
  <2> QED
    BY <2>1, <2>2, <2>3, ClientOnlyStep
<1> QED
  BY <1>2, <1>3, <1>4, WriteStep, ClearGraphStep, ExecuteStep DEF Environment, Watcher

-----------------------------------------------------------------------------
(* Entry::get starts the nodes of N while the runs step to kept. *)
LEMMA StartStep ==
    ASSUME RunInv, NEW N \in SUBSET Node, NEW kept,
           entry' = [n \in Node |-> IF n \in N THEN Started(n) ELSE entry[n]],
           runs' = kept \cup {StartedRun(n) : n \in N},
           \A q \in kept : q \in RunState, SameTags(runs, kept),
           UNCHANGED <<nodes, edges, client, draining, disk, pending, budget>>
    PROVE  RunInv'
<1> DEFINE new == {StartedRun(n) : n \in N}
<1>0. TypeOK
  BY DEF RunInv
<1>1. \A a \in new : /\ a \in RunState
                     /\ a.node \in N /\ a.token = entry[a.node].token + 1
                     /\ a = StartedRun(a.node)
  BY <1>0, StartedRunType
<1>2. \A n \in N : \E a \in new : a.node = n
  BY <1>0, StartedRunType
<1>3. \A n \in N : /\ entry'[n] \in EntryState
                   /\ entry'[n].token = entry[n].token + 1
  BY <1>0, StartedType
<1>4. \A n \in Node \ N : entry'[n] = entry[n] /\ entry'[n] \in EntryState
  BY <1>0 DEF TypeOK
<1>5. entry' \in [Node -> EntryState]
  <2>1. entry' = [n \in Node |-> entry'[n]]
    OBVIOUS
  <2> QED
    BY <1>3, <1>4, <2>1
<1> HIDE DEF new
<1>6. runs' = kept \cup new
  BY DEF new
<1>7. \A q \in runs' : q \in RunState
  BY <1>1, <1>6
<1>8. TypeOK'
  BY <1>0, <1>5, <1>7 DEF TypeOK
<1>9. \A n \in Node : entry[n].token \in Nat
  BY <1>0 DEF TypeOK, EntryState
<1>10. \A n \in Node \ N :
          /\ entry'[n].token >= entry[n].token
          /\ entry'[n].phase = "Running" =>
                entry[n].phase = "Running" /\ entry'[n].token = entry[n].token
  BY <1>4, <1>9
<1>11. /\ runs \in SUBSET runs
       /\ \A r \in runs \ runs :
             r.node \in N \/ entry'[r.node].phase # "Running" \/ entry'[r.node].token # r.token
  OBVIOUS
<1>12. \A a, b \in new : a.node = b.node => a = b
  BY <1>1
<1>13. \A a \in new : a.node \in N /\ a.token = entry[a.node].token + 1
  BY <1>1
<1>14. \A n \in N : (\E a \in new : a.node = n) /\ entry'[n].token = entry[n].token + 1
  BY <1>2, <1>3
<1>15. TokenEffect(N, runs, kept, new)
  BY <1>6, <1>10, <1>11, <1>12, <1>13, <1>14 DEF TokenEffect
<1> QED
  BY <1>8, <1>15, TokenStep

(* One node is started. *)
LEMMA StartOneStep ==
    ASSUME RunInv, NEW n \in Node,
           entry' = [entry EXCEPT ![n] = Started(n)],
           runs' = runs \cup {StartedRun(n)},
           UNCHANGED <<nodes, edges, client, draining, disk, pending, budget>>
    PROVE  RunInv'
<1>1. entry' = [m \in Node |-> IF m \in {n} THEN Started(m) ELSE entry[m]]
  BY DEF RunInv, TypeOK
<1>2. runs' = runs \cup {StartedRun(m) : m \in {n}}
  OBVIOUS
<1>3. (\A q \in runs : q \in RunState) /\ SameTags(runs, runs)
  BY DEF RunInv, TypeOK, SameTags, SameTag
<1>4. {n} \in SUBSET Node
  OBVIOUS
<1> QED
  BY <1>1, <1>2, <1>3, <1>4, StartStep

(* The steps of a client. *)
LEMMA ClientTypes ==
    ASSUME NEW q \in ClientState, NEW n \in Node, NEW x \in Outcome \cup {None}
    PROVE  /\ [q EXCEPT !.got[n] = x] \in ClientState
           /\ [q EXCEPT !.claim = @ \cup {n}] \in ClientState
           /\ [q EXCEPT !.claim = @ \ {n}, !.got[n] = x] \in ClientState
           /\ [q EXCEPT !.claim = @ \ {n}, !.wait = @ \cup {n}] \in ClientState
           /\ [q EXCEPT !.busy = FALSE] \in ClientState
<1>1. [q.got EXCEPT ![n] = x] \in Answers
  BY AnswersUpdate DEF ClientState
<1> QED
  BY <1>1 DEF ClientState

(* Graph::create. *)
LEMMA CreateStep ==
    ASSUME RunInv, NEW c \in Client, NEW n \in Node, Create(c, n)
    PROVE  RunInv'
<1>0. TypeOK /\ client[c] \in ClientState /\ client \in [Client -> ClientState]
  BY DEF RunInv, TypeOK
<1>1. UNCHANGED <<entry, edges, runs, draining, disk, pending, budget>>
  BY DEF Create
<1>2. CASE draining
  <2>1. client' = [client EXCEPT ![c] = [client[c] EXCEPT !.got[n] = Invalidated]]
    BY <1>0, <1>2 DEF Create
  <2>2. Invalidated \in Outcome \cup {None}
    BY DEF Outcome, Failure
  <2>3. client' \in [Client -> ClientState]
    BY <1>0, <2>1, <2>2, ClientTypes
  <2>4. nodes' \in SUBSET Node
    BY <1>0, <1>2 DEF Create, TypeOK
  <2> QED
    BY <1>0, <1>1, <2>3, <2>4, ClientOnlyStep DEF TypeOK
<1>3. CASE ~draining
  <2>1. client' = [client EXCEPT ![c] = [client[c] EXCEPT !.claim = @ \cup {n}]]
    BY <1>0, <1>3 DEF Create
  <2>2. None \in Outcome \cup {None}
    OBVIOUS
  <2>3. client' \in [Client -> ClientState]
    BY <1>0, <2>1, <2>2, ClientTypes
  <2>4. nodes' \in SUBSET Node
    BY <1>0, <1>3 DEF Create, TypeOK
  <2> QED
    BY <1>0, <1>1, <2>3, <2>4, ClientOnlyStep DEF TypeOK
<1> QED
  BY <1>2, <1>3

(* Entry::get by a client. *)
LEMMA ClientGetStep ==
    ASSUME RunInv, NEW c \in Client, NEW n \in Node, ClientGet(c, n)
    PROVE  RunInv'
<1>0. TypeOK /\ client[c] \in ClientState /\ client \in [Client -> ClientState]
  BY DEF RunInv, TypeOK
<1>1. CASE IsStartable(n)
  BY <1>1, StartOneStep DEF ClientGet
<1>2. CASE ~IsStartable(n)
  <2>1. entry[n].res \in Outcome \cup {None}
    BY <1>0, PersistedOutcome DEF TypeOK, EntryState
  <2>2. /\ client' = [client EXCEPT ![c] =
                IF IsReady(n)
                THEN [client[c] EXCEPT !.claim = @ \ {n}, !.got[n] = entry[n].res]
                ELSE [client[c] EXCEPT !.claim = @ \ {n}, !.wait = @ \cup {n}]]
        /\ UNCHANGED <<nodes, entry, edges, runs, draining, disk, pending, budget>>
    BY <1>0, <1>2 DEF ClientGet
  <2>3. client' \in [Client -> ClientState]
    <3>1. CASE IsReady(n)
      BY <1>0, <2>1, <2>2, <3>1, ClientTypes
    <3>2. CASE ~IsReady(n)
      BY <1>0, <2>1, <2>2, <3>2, ClientTypes
    <3> QED
      BY <3>1, <3>2
  <2> QED
    BY <1>0, <2>2, <2>3, ClientOnlyStep DEF TypeOK
<1> QED
  BY <1>1, <1>2

(* Retry and Respond touch only the client. *)
LEMMA ClientStepStep == ASSUME RunInv, NEW c \in Client, ClientStep(c) PROVE RunInv'
<1>0. TypeOK /\ client[c] \in ClientState /\ client \in [Client -> ClientState]
  BY DEF RunInv, TypeOK
<1>1. CASE Retry(c)
  <2> DEFINE new == [client[c] EXCEPT !.count = @ - 1, !.wait = {}, !.got = NoAnswers]
  <2>1. client' = [client EXCEPT ![c] = new]
    BY <1>0, <1>1 DEF Retry
  <2>2. client[c].count - 1 \in Nat
    BY <1>0, <1>1 DEF Retry, ClientState
  <2>3. new \in ClientState
    BY <1>0, <2>2, NoAnswersType DEF ClientState
  <2> HIDE DEF new
  <2>4. client' \in [Client -> ClientState]
    BY <1>0, <2>1, <2>3
  <2>5. UNCHANGED <<nodes, entry, edges, runs, draining, disk, pending, budget>>
    BY <1>1 DEF Retry
  <2> QED
    BY <1>0, <2>4, <2>5, ClientOnlyStep DEF TypeOK
<1>2. CASE Respond(c)
  <2>1. client' = [client EXCEPT ![c] = [client[c] EXCEPT !.busy = FALSE]]
    BY <1>0, <1>2 DEF Respond
  <2>2. [client[c] EXCEPT !.busy = FALSE] \in ClientState
    BY <1>0 DEF ClientState
  <2>3. client' \in [Client -> ClientState]
    BY <1>0, <2>1, <2>2
  <2>4. UNCHANGED <<nodes, entry, edges, runs, draining, disk, pending, budget>>
    BY <1>2 DEF Respond
  <2> QED
    BY <1>0, <2>3, <2>4, ClientOnlyStep DEF TypeOK
<1> QED
  BY <1>1, <1>2, CreateStep, ClientGetStep DEF ClientStep

-----------------------------------------------------------------------------
(* The successors of a run are runs of the same node and token. *)
Successor(r, new) == new \in RunState /\ new.node = r.node /\ new.token = r.token

(* Every update a step makes to a run is a successor of it. *)
LEMMA SuccessorTypes ==
    ASSUME NEW r \in RunState, NEW d \in Node, NEW x \in Outcome \cup {None}
    PROVE  /\ Successor(r, [r EXCEPT !.got[d] = x])
           /\ Successor(r, [r EXCEPT !.got[d] = x, !.cyc = None, !.tries = 0])
           /\ Successor(r, [r EXCEPT !.claim = @ \cup {d}, !.cyc = None, !.tries = 0])
           /\ Successor(r, [r EXCEPT !.cyc = d, !.tries = @ + 1])
           /\ Successor(r, [r EXCEPT !.claim = @ \ {d}, !.got[d] = x])
           /\ Successor(r, [r EXCEPT !.claim = @ \ {d}, !.wait = @ \cup {d}])
           /\ Successor(r, [r EXCEPT !.pc = "finished", !.wait = {}, !.out = x])
<1>1. [r.got EXCEPT ![d] = x] \in Answers
  BY AnswersUpdate DEF RunState
<1>2. Successor(r, [r EXCEPT !.got[d] = x])
  BY <1>1 DEF RunState, Successor
<1>3. Successor(r, [r EXCEPT !.got[d] = x, !.cyc = None, !.tries = 0])
  BY <1>1 DEF RunState, Successor
<1>4. Successor(r, [r EXCEPT !.claim = @ \cup {d}, !.cyc = None, !.tries = 0])
  BY <1>1 DEF RunState, Successor
<1>5. Successor(r, [r EXCEPT !.cyc = d, !.tries = @ + 1])
  <2>1. PICK k \in Nat : k = r.tries + 1
    BY DEF RunState
  <2>2. [r EXCEPT !.cyc = d, !.tries = @ + 1] = [r EXCEPT !.cyc = d, !.tries = k]
    BY <2>1
  <2>3. Successor(r, [r EXCEPT !.cyc = d, !.tries = k])
    BY DEF RunState, Successor
  <2> QED
    BY <2>2, <2>3
<1>6. Successor(r, [r EXCEPT !.claim = @ \ {d}, !.got[d] = x])
  BY <1>1 DEF RunState, Successor
<1>7. Successor(r, [r EXCEPT !.claim = @ \ {d}, !.wait = @ \cup {d}])
  BY <1>1 DEF RunState, Successor
<1>8. Successor(r, [r EXCEPT !.pc = "finished", !.wait = {}, !.out = x])
  BY <1>1 DEF RunState, Successor
<1> QED
  BY <1>2, <1>3, <1>4, <1>5, <1>6, <1>7, <1>8

(* A run that starts over. *)
LEMMA RestartedType ==
    ASSUME NEW r \in RunState, NEW pc \in {"run", "finished"}
    PROVE  Successor(r, NewRun(r.node, r.token, pc, <<>>))
<1>0. <<>> \in Seq(Nat)
  OBVIOUS
<1>1. PICK prev \in Seq(Nat) : prev = <<>>
  BY <1>0
<1>2. r.node \in Node /\ r.token \in Nat
  BY DEF RunState
<1>3. Successor(r, NewRun(r.node, r.token, pc, prev))
  BY <1>2, NewRunType DEF Successor
<1> QED
  BY <1>1, <1>3

(* The steps of a run that only replace it. *)
LEMMA SuccessorStep ==
    ASSUME RunInv, NEW r \in runs, NEW new, Successor(r, new), Replace(r, new),
           nodes' \in SUBSET Node, edges' \in [Node -> Seq(Node)],
           UNCHANGED <<entry, client, draining, disk, pending, budget>>
    PROVE  RunInv'
  BY ReplaceStep DEF Successor

(* Graph::get, under the lock. *)
LEMMA GetStep ==
    ASSUME RunInv, NEW r \in runs, NEW d \in Node,
           GetWhileDraining(r, d) \/ GetAddsEdge(r, d) \/ GetFindsCycle(r, d)
    PROVE  RunInv'
<1>0. /\ TypeOK /\ r \in RunState /\ nodes \in SUBSET Node /\ edges \in [Node -> Seq(Node)]
      /\ Invalidated \in Outcome \cup {None} /\ Cyclic \in Outcome \cup {None}
  BY DEF RunInv, TypeOK, Outcome, Failure
<1>1. CASE GetWhileDraining(r, d)
  BY <1>0, <1>1, SuccessorTypes, SuccessorStep DEF GetWhileDraining
<1>2. CASE GetFindsCycle(r, d)
  BY <1>0, <1>2, SuccessorTypes, SuccessorStep DEF GetFindsCycle
<1>3. CASE GetAddsEdge(r, d)
  <2>1. nodes' \in SUBSET Node
    BY <1>0, <1>3 DEF GetAddsEdge
  <2>2. r.node \in Node
    BY <1>0 DEF RunState
  <2>3. Append(edges[r.node], d) \in Seq(Node)
    BY <1>0, <2>2
  <2>4. edges' \in [Node -> Seq(Node)]
    BY <1>0, <1>3, <2>3 DEF GetAddsEdge
  <2>5. Successor(r, [r EXCEPT !.claim = @ \cup {d}, !.cyc = None, !.tries = 0])
    BY <1>0, SuccessorTypes
  <2> QED
    BY <1>3, <2>1, <2>4, <2>5, SuccessorStep DEF GetAddsEdge
<1> QED
  BY <1>1, <1>2, <1>3

(* Graph::report_cycle clears dirty nodes. *)
LEMMA GetBreaksCycleStep ==
    ASSUME RunInv, NEW r \in runs, NEW d \in Node, GetBreaksCycle(r, d)
    PROVE  RunInv'
<1> DEFINE new == [r EXCEPT !.cyc = d, !.tries = @ + 1]
           rs == (runs \ {r}) \cup {new}
<1>0. TypeOK /\ r \in RunState /\ \A q \in runs : q \in RunState
  BY DEF RunInv, TypeOK
<1>1. PICK path : /\ InvalidateFromRoots({n \in path : MayHaveDirtyEdges(n)}, rs)
                  /\ Lap({n \in path : MayHaveDirtyEdges(n)})
  BY DEF GetBreaksCycle
<1>2. Successor(r, new)
  <2>1. None \in Outcome \cup {None}
    OBVIOUS
  <2> QED
    BY <1>0, <2>1, SuccessorTypes
<1> HIDE DEF new
<1>3. SameTags(runs, rs) /\ \A q \in rs : q \in RunState
  BY <1>0, <1>2, ReplaceTags DEF Successor, SameTag
<1>4. budget' \in [Events -> Nat]
  BY <1>0, <1>1, LapType
<1>5. UNCHANGED <<nodes, draining, disk>> /\ pending' \in SUBSET FsNode
  BY <1>0 DEF GetBreaksCycle, TypeOK
<1> HIDE DEF rs
<1> QED
  BY <1>1, <1>3, <1>4, <1>5, InvalidateFromRootsStep

(* Graph::get, after the lock. *)
LEMMA RunGetStep ==
    ASSUME RunInv, NEW r \in runs, NEW d \in Node, RunGet(r, d)
    PROVE  RunInv'
<1>0. /\ TypeOK /\ r \in RunState /\ nodes \in SUBSET Node /\ edges \in [Node -> Seq(Node)]
      /\ entry[d].res \in Outcome \cup {None}
  BY PersistedOutcome DEF RunInv, TypeOK, EntryState
<1>1. UNCHANGED <<nodes, edges, client, draining, disk, pending, budget>>
  BY DEF RunGet
<1>2. CASE entry' = [entry EXCEPT ![d] = Started(d)] /\ runs' = runs \cup {StartedRun(d)}
  BY <1>1, <1>2, StartOneStep
<1>3. CASE /\ Replace(r, [r EXCEPT !.claim = @ \ {d}, !.got[d] = entry[d].res])
           /\ UNCHANGED entry
  BY <1>0, <1>1, <1>3, SuccessorTypes, SuccessorStep
<1>4. CASE /\ Replace(r, [r EXCEPT !.claim = @ \ {d}, !.wait = @ \cup {d}])
           /\ UNCHANGED entry
  BY <1>0, <1>1, <1>4, SuccessorTypes, SuccessorStep
<1> QED
  BY <1>2, <1>3, <1>4 DEF RunGet

(* The generations of a sequence of nodes. *)
LEMMA GenerationsType ==
    ASSUME TypeOK, NEW n \in Node
    PROVE  [i \in DOMAIN edges[n] |-> entry[edges[n][i]].gen] \in Seq(Nat)
<1>1. edges[n] \in Seq(Node) /\ \A m \in Node : entry[m].gen \in Nat
  BY DEF TypeOK, EntryState
<1>2. /\ Len(edges[n]) \in Nat /\ DOMAIN edges[n] = 1..Len(edges[n])
      /\ \A i \in 1..Len(edges[n]) : edges[n][i] \in Node
  BY <1>1
<1> QED
  BY <1>1, <1>2

(* The end of Node::run, and the checks before it. *)
LEMMA LocalStep ==
    ASSUME RunInv, NEW r \in runs,
           FoundClean(r) \/ ClearDeps(r) \/ Finish(r) \/ CollectGenerations(r)
    PROVE  RunInv'
<1>0. /\ TypeOK /\ r \in RunState /\ nodes \in SUBSET Node /\ edges \in [Node -> Seq(Node)]
      /\ r.node \in Node
  BY DEF RunInv, TypeOK, RunState
<1>1. CASE FoundClean(r)
  BY <1>0, <1>1, RestartedType, SuccessorStep DEF FoundClean
<1>2. CASE ClearDeps(r)
  <2>1. <<>> \in Seq(Node)
    OBVIOUS
  <2>2. edges' = edges \/ edges' = [edges EXCEPT ![r.node] = <<>>]
    BY <1>0, <1>2 DEF ClearDeps
  <2>3. edges' \in [Node -> Seq(Node)]
    BY <1>0, <2>1, <2>2
  <2>4. Successor(r, NewRun(r.node, r.token, "run", <<>>))
    BY <1>0, RestartedType
  <2> QED
    BY <1>0, <1>2, <2>3, <2>4, SuccessorStep DEF ClearDeps
<1>3. CASE Finish(r)
  <2>1. PICK out \in Outcome : Replace(r, [r EXCEPT !.pc = "finished", !.wait = {}, !.out = out])
    BY <1>3 DEF Finish
  <2>2. Successor(r, [r EXCEPT !.pc = "finished", !.wait = {}, !.out = out])
    BY <1>0, SuccessorTypes
  <2> QED
    BY <1>0, <1>3, <2>1, <2>2, SuccessorStep DEF Finish
<1>4. CASE CollectGenerations(r)
  <2> DEFINE gens == [i \in DOMAIN edges[r.node] |-> entry[edges[r.node][i]].gen]
             new == [r EXCEPT !.pc = "collected", !.depGens = gens]
  <2>1. gens \in Seq(Nat)
    BY <1>0, GenerationsType
  <2>2. Replace(r, new)
    BY <1>4 DEF CollectGenerations
  <2> HIDE DEF gens
  <2>3. Successor(r, new)
    BY <1>0, <2>1 DEF Successor, RunState
  <2> HIDE DEF new
  <2> QED
    BY <1>0, <1>4, <2>2, <2>3, SuccessorStep DEF CollectGenerations
<1> QED
  BY <1>1, <1>2, <1>3, <1>4

(* Graph::dep_generations starts all dependencies that are not available. *)
LEMMA DepGenerationsStep == ASSUME RunInv, NEW r \in runs, DepGenerations(r) PROVE RunInv'
<1> DEFINE deps == Out(r.node)
           start == {d \in deps : IsStartable(d)}
           ready == {d \in deps : IsReady(d)}
           wait == deps \ ready
           got == [d \in Node |-> IF d \in ready THEN entry[d].res ELSE None]
           gens == [d \in Node |-> IF d \in ready THEN entry[d].gen ELSE 0]
           seq == edges[r.node]
           new == [r EXCEPT !.pc = "checking", !.deps = seq, !.wait = wait,
                            !.got = got, !.gens = gens]
<1>0. /\ TypeOK /\ r \in RunState /\ r.node \in Node /\ seq \in Seq(Node)
      /\ \A q \in runs : q \in RunState
  BY DEF RunInv, TypeOK, RunState
<1>1. deps \subseteq Node
  BY <1>0 DEF Out
<1>2. got \in Answers /\ gens \in [Node -> Nat]
  <2>1. \A d \in Node : entry[d].res \in Outcome \cup {None} /\ entry[d].gen \in Nat
    BY <1>0, PersistedOutcome DEF TypeOK, EntryState
  <2> QED
    BY <2>1 DEF Answers
<1>3. /\ entry' = [n \in Node |-> IF n \in start THEN Started(n) ELSE entry[n]]
      /\ runs' = (runs \ {r}) \cup {StartedRun(d) : d \in start} \cup {new}
      /\ UNCHANGED <<nodes, edges, client, draining, disk, pending, budget>>
  BY DEF DepGenerations
<1>4. start \in SUBSET Node /\ wait \in SUBSET Node
  BY <1>1
<1> HIDE DEF start, wait, got, gens, seq
<1>5. Successor(r, new)
  BY <1>0, <1>2, <1>4 DEF Successor, RunState
<1> HIDE DEF new
<1> DEFINE kept == (runs \ {r}) \cup {new}
<1>6. SameTags(runs, kept) /\ \A q \in kept : q \in RunState
  BY <1>0, <1>5, ReplaceTags DEF Successor, SameTag
<1>7. runs' = kept \cup {StartedRun(d) : d \in start}
  BY <1>3
<1> HIDE DEF kept
<1> QED
  BY <1>3, <1>4, <1>6, <1>7, StartStep

(* Entry::complete drops the result of a run that was overtaken. *)
LEMMA CompleteStaleStep == ASSUME RunInv, NEW r \in runs, CompleteStale(r) PROVE RunInv'
<1>0. /\ ~Live(r) /\ runs' = runs \ {r}
      /\ UNCHANGED <<nodes, entry, edges, client, draining, disk, pending, budget>>
  BY DEF CompleteStale
<1>1. TypeOK'
  BY <1>0 DEF RunInv, TypeOK
<1>2. SameTags(runs \ {r}, runs')
  BY <1>0 DEF SameTags, SameTag
<1>3. \A n \in Node : entry'[n].token >= entry[n].token
  BY <1>0 DEF RunInv, TypeOK, EntryState
<1>4. TokenEffect({}, runs \ {r}, runs', {})
  BY <1>0, <1>2, <1>3 DEF TokenEffect, Live
<1> QED
  BY <1>1, <1>4, TokenStep

(* A live run ends without a successor: its entry stops Running. *)
LEMMA EndOfRun ==
    ASSUME RunInv, TypeOK', NEW r \in runs, NEW e \in EntryState,
           entry' = [entry EXCEPT ![r.node] = e],
           e.phase # "Running", e.token >= entry[r.node].token,
           SameTags(runs \ {r}, runs')
    PROVE  RunInv'
<1>0. /\ r.node \in Node /\ entry \in [Node -> EntryState]
      /\ \A n \in Node : entry[n].token \in Nat
  BY DEF RunInv, TypeOK, RunState, EntryState
<1>1. entry'[r.node] = e /\ \A n \in Node \ {r.node} : entry'[n] = entry[n]
  BY <1>0
<1>2. \A n \in Node :
          /\ entry'[n].token >= entry[n].token
          /\ entry'[n].phase = "Running" =>
                entry[n].phase = "Running" /\ entry'[n].token = entry[n].token
  <2> SUFFICES ASSUME NEW n \in Node
               PROVE  /\ entry'[n].token >= entry[n].token
                      /\ entry'[n].phase = "Running" =>
                            entry[n].phase = "Running" /\ entry'[n].token = entry[n].token
    OBVIOUS
  <2>1. CASE n = r.node
    BY <1>1, <2>1
  <2>2. CASE n # r.node
    BY <1>0, <1>1, <2>2
  <2> QED
    BY <2>1, <2>2
<1>3. TokenEffect({}, runs \ {r}, runs', {})
  BY <1>1, <1>2 DEF TokenEffect
<1> QED
  BY <1>3, TokenStep

(* Entry::complete of an invalidated run. *)
LEMMA CompleteInvalidatedStep ==
    ASSUME RunInv, NEW r \in runs, CompleteInvalidated(r)
    PROVE  RunInv'
<1> DEFINE n == r.node
           e == Cleared(entry[n], TRUE)
<1>0. /\ TypeOK /\ n \in Node /\ entry[n] \in EntryState /\ entry \in [Node -> EntryState]
      /\ \A q \in runs \ {r} : q \in RunState
  BY DEF RunInv, TypeOK, RunState
<1>1. /\ entry' = [entry EXCEPT ![n] = e]
      /\ runs' = {Cancel(q, {n}) : q \in runs \ {r}}
      /\ CancelClients({n})
      /\ Lap({n})
      /\ UNCHANGED <<nodes, edges, draining, disk, pending>>
  BY DEF CompleteInvalidated
<1>2. e \in EntryState /\ e.phase # "Running" /\ e.token >= entry[n].token
  <2>1. e \in EntryState /\ e.phase = "NotStarted" /\ e.token = entry[n].token + 1
    BY <1>0, ClearedType
  <2>2. entry[n].token \in Nat
    BY <1>0 DEF EntryState
  <2> HIDE DEF e
  <2> QED
    BY <2>1, <2>2
<1> HIDE DEF e
<1>3. budget' \in [Events -> Nat] /\ client' \in [Client -> ClientState]
  BY <1>0, <1>1, LapType, CancelClientsType
<1>4. \A q \in runs' : q \in RunState
  BY <1>0, <1>1, CancelRunType
<1>5. TypeOK'
  BY <1>0, <1>1, <1>2, <1>3, <1>4 DEF TypeOK
<1>6. SameTags(runs \ {r}, runs')
  BY <1>0, <1>1, CancelTags
<1> QED
  BY <1>1, <1>2, <1>5, <1>6, EndOfRun

(* Entry::complete of a run whose result is taken. *)
LEMMA CompletePublishStep ==
    ASSUME RunInv, NEW r \in runs, CompletePublish(r)
    PROVE  RunInv'
<1> DEFINE n == r.node
           e == Published(r)
<1>0. /\ TypeOK /\ n \in Node /\ entry[n] \in EntryState /\ entry \in [Node -> EntryState]
      /\ r \in RunState /\ client \in [Client -> ClientState]
      /\ \A q \in runs \ {r} : q \in RunState
  BY DEF RunInv, TypeOK, RunState
<1>1. /\ r.out # Invalidated
      /\ entry' = [entry EXCEPT ![n] = e]
      /\ runs' = {AnswerRun(q, n, e.res, e.gen) : q \in runs \ {r}}
      /\ client' = [c \in Client |-> Answer(client[c], n, e.res)]
      /\ UNCHANGED budget \/ Lap({n})
      /\ UNCHANGED <<nodes, edges, draining, disk, pending>>
  BY DEF CompletePublish
<1>2. e \in EntryState /\ e.phase = "Completed" /\ e.token = entry[n].token
  BY <1>0, <1>1, PublishedType
<1> HIDE DEF e
<1>3. e.res \in Outcome \cup {None} /\ e.gen \in Nat /\ e.token >= entry[n].token
  BY <1>0, <1>2, PersistedOutcome DEF EntryState
<1>4. client' \in [Client -> ClientState]
  BY <1>0, <1>1, <1>3, AnswerClientType
<1>5. budget' \in [Events -> Nat]
  BY <1>0, <1>1, LapType DEF TypeOK
<1>6. \A q \in runs' : q \in RunState
  BY <1>0, <1>1, <1>3, AnswerRunType
<1>7. TypeOK'
  BY <1>0, <1>1, <1>2, <1>4, <1>5, <1>6 DEF TypeOK
<1>8. SameTags(runs \ {r}, runs')
  BY <1>0, <1>1, <1>3, AnswerTags
<1> QED
  BY <1>1, <1>2, <1>3, <1>7, <1>8, EndOfRun

(* Entry::complete of a run that was dirtied: the entry moves on to a new  *)
(* token with a run of its own.                                            *)
LEMMA CompleteDirtyStep == ASSUME RunInv, NEW r \in runs, CompleteDirty(r) PROVE RunInv'
<1> DEFINE n == r.node
           e == [entry[n] EXCEPT !.token = @ + 1, !.clean = FALSE, !.dirty = FALSE,
                                 !.used = NoAnswers]
           next == NewRun(n, r.token + 1, "run", <<>>)
           kept == {Cancel(q, {n}) : q \in runs \ {r}}
<1>0. /\ TypeOK /\ n \in Node /\ entry[n] \in EntryState /\ entry \in [Node -> EntryState]
      /\ \A q \in runs \ {r} : q \in RunState
      /\ r.token \in Nat
  BY DEF RunInv, TypeOK, RunState
<1>1. /\ entry' = [entry EXCEPT ![n] = e]
      /\ runs' = kept \cup {next}
      /\ CancelClients({n})
      /\ entry[n].token = r.token
      /\ UNCHANGED <<nodes, edges, draining, disk, pending, budget>>
  BY DEF CompleteDirty, Live
<1>2. e \in EntryState /\ e.token = entry[n].token + 1
  <2>1. entry[n].token + 1 \in Nat
    BY <1>0 DEF EntryState
  <2> QED
    BY <1>0, <2>1, NoAnswersType DEF EntryState
<1>3. next \in RunState /\ next.node = n /\ next.token = r.token + 1
  <2>0. <<>> \in Seq(Nat) /\ r.token + 1 \in Nat
    BY <1>0
  <2>1. PICK prev \in Seq(Nat) : prev = <<>>
    BY <2>0
  <2>2. next = NewRun(n, r.token + 1, "run", prev)
    BY <2>1
  <2> HIDE DEF next
  <2> QED
    BY <1>0, <2>0, <2>2, NewRunType
<1>4. SameTags(runs \ {r}, kept) /\ \A q \in kept : q \in RunState
  BY <1>0, CancelTags, CancelRunType
<1> HIDE DEF e, next, kept
<1>5. client' \in [Client -> ClientState]
  BY <1>0, <1>1, CancelClientsType
<1>6. TypeOK'
  BY <1>0, <1>1, <1>2, <1>3, <1>4, <1>5 DEF TypeOK
<1>7. entry'[n] = e /\ \A m \in Node \ {n} : entry'[m] = entry[m]
  BY <1>0, <1>1
<1>8. \A m \in Node \ {n} : entry'[m].token >= entry[m].token
  BY <1>0, <1>7 DEF EntryState
<1>9. TokenEffect({n}, runs \ {r}, kept, {next})
  BY <1>0, <1>1, <1>2, <1>3, <1>4, <1>7, <1>8 DEF TokenEffect
<1> QED
  BY <1>6, <1>9, TokenStep

(* The empty graph. *)
LEMMA RunInvInit == Init => RunInv
<1> SUFFICES ASSUME Init PROVE RunInv
  OBVIOUS
<1>0. <<>> \in Seq(Nat) /\ <<>> \in Seq(Node)
  OBVIOUS
<1>1. InitialEntry \in EntryState /\ InitialEntry.phase = "NotStarted"
  BY <1>0, NoAnswersType DEF InitialEntry, EntryState
<1>2. IdleClient \in ClientState
  BY NoAnswersType DEF IdleClient, ClientState
<1>3. TypeOK
  BY <1>0, <1>1, <1>2, BoundAssumption DEF Init, TypeOK
<1>4. TokenInv
  BY <1>1 DEF Init, TokenInv
<1> QED
  BY <1>3, <1>4 DEF RunInv

(* Every step of the engine and of its environment. *)
LEMMA RunInvStep == RunInv /\ [Next]_vars => RunInv'
<1> SUFFICES ASSUME RunInv, [Next]_vars PROVE RunInv'
  OBVIOUS
<1>1. CASE UNCHANGED vars
  BY <1>1 DEF vars, RunInv, TypeOK, TokenInv
<1>2. ASSUME NEW r \in runs, RunStep(r) PROVE RunInv'
  BY <1>2, DepGenerationsStep, LocalStep, GetStep, GetBreaksCycleStep, RunGetStep,
     CompleteStaleStep, CompleteInvalidatedStep, CompleteDirtyStep, CompletePublishStep
     DEF RunStep
<1> QED
  BY <1>1, <1>2, EnvironmentStep, ClientStepStep DEF Next, Engine

(* However runs are overtaken, invalidated, dirtied and restarted, tokens  *)
(* tell them apart.                                                        *)
THEOREM RunInvHolds == Spec => []RunInv
  BY RunInvInit, RunInvStep, PTL DEF Spec

(* Every variable of the graph keeps its type; Invalidated is never stored *)
(* in an entry.                                                            *)
THEOREM GraphTypeCorrect == Spec => []TypeOK
  BY RunInvHolds, RunInvImplies, PTL

(* A Running entry has exactly one run that Entry::complete will listen    *)
(* to.                                                                     *)
THEOREM AlwaysOneLiveRun == Spec => []OneLiveRun
  BY RunInvHolds, RunInvImplies, PTL

-----------------------------------------------------------------------------

(***************************************************************************)
(* The graph stays acyclic.  What is needed of the state is only that the  *)
(* edges are sequences of nodes.                                           *)
(***************************************************************************)
GraphInv == edges \in [Node -> Seq(Node)] /\ Acyclic

(* What Walk returns holds the roots and is closed under the edges. *)
LEMMA WalkFacts ==
    ASSUME edges \in [Node -> Seq(Node)], NEW d \in Node
    PROVE  /\ Walk({d}, Outgoing) \subseteq Node
           /\ d \in Walk({d}, Outgoing)
           /\ \A x \in Walk({d}, Outgoing) : Out(x) \subseteq Walk({d}, Outgoing)
<1>1. \A x \in Node : Out(x) \subseteq Node
  BY DEF Out
<1>2. \A x \in Node : Outgoing[x] = Out(x)
  BY DEF Outgoing
<1> QED
  BY <1>1, <1>2 DEF Walk

(* Forgetting edges keeps the graph acyclic. *)
LEMMA FewerEdges ==
    ASSUME GraphInv, edges' \in [Node -> Seq(Node)],
           \A n \in Node : edges'[n] = edges[n] \/ edges'[n] = <<>>
    PROVE  GraphInv'
<1>1. ASSUME NEW n \in Node PROVE Out(n)' \subseteq Out(n)
  <2>1. CASE edges'[n] = edges[n]
    BY <2>1 DEF Out
  <2>2. CASE edges'[n] = <<>>
    <3>1. DOMAIN edges'[n] = {}
      BY <2>2
    <3> QED
      BY <3>1 DEF Out
  <2> QED
    BY <2>1, <2>2
<1>2. ASSUME NEW S \in SUBSET Node, S # {}
      PROVE  \E n \in S : Out(n)' \cap S = {}
  <2>1. PICK n \in S : Out(n) \cap S = {}
    BY <1>2 DEF GraphInv, Acyclic
  <2> QED
    BY <1>1, <2>1
<1> QED
  BY <1>2 DEF GraphInv, Acyclic

(* Graph::get adds an edge only when its source cannot be reached from its *)
(* target.  A set that meets what can be reached from the target has its   *)
(* sink in there, where nothing changed; any other set kept its sink.      *)
LEMMA NewEdge ==
    ASSUME GraphInv, NEW src, NEW d \in Node, ~WouldCycle(src, d),
           edges' = [edges EXCEPT ![src] = Append(@, d)]
    PROVE  GraphInv'
<1> DEFINE W == Walk({d}, Outgoing)
<1>1. /\ W \subseteq Node /\ d \in W /\ src \notin W
      /\ \A x \in W : Out(x) \subseteq W
  BY WalkFacts DEF WouldCycle, GraphInv
<1> HIDE DEF W
<1>2. edges' \in [Node -> Seq(Node)]
  <2>1. edges \in [Node -> Seq(Node)]
    BY DEF GraphInv
  <2>2. CASE src \in Node
    <3>1. Append(edges[src], d) \in Seq(Node)
      BY <2>1, <2>2
    <3> QED
      BY <2>1, <2>2, <3>1
  <2>3. CASE src \notin Node
    BY <2>1, <2>3
  <2> QED
    BY <2>2, <2>3
<1>3. \A n \in Node : n # src => Out(n)' = Out(n)
  BY DEF Out, GraphInv
<1>4. \A n \in Node : Out(n)' \subseteq Out(n) \cup {d}
  <2> SUFFICES ASSUME NEW n \in Node, n = src PROVE Out(n)' \subseteq Out(n) \cup {d}
    BY <1>3
  <2>1. edges'[n] = Append(edges[n], d) /\ edges[n] \in Seq(Node)
    BY DEF GraphInv
  <2>2. /\ DOMAIN edges'[n] = 1..(Len(edges[n]) + 1)
        /\ Len(edges[n]) \in Nat /\ DOMAIN edges[n] = 1..Len(edges[n])
        /\ edges'[n][Len(edges[n]) + 1] = d
        /\ \A i \in 1..Len(edges[n]) : edges'[n][i] = edges[n][i]
    BY <2>1
  <2>3. ASSUME NEW i \in 1..(Len(edges[n]) + 1)
        PROVE  i \in 1..Len(edges[n]) \/ i = Len(edges[n]) + 1
    BY <2>2
  <2> QED
    BY <2>2, <2>3 DEF Out
<1>5. ASSUME NEW S \in SUBSET Node, S # {}
      PROVE  \E n \in S : Out(n)' \cap S = {}
  <2>1. CASE S \cap W = {}
    <3>1. PICK n \in S : Out(n) \cap S = {}
      BY <1>5 DEF GraphInv, Acyclic
    <3>2. d \notin S
      BY <1>1, <2>1
    <3> QED
      BY <1>4, <3>1, <3>2
  <2>2. CASE S \cap W # {}
    <3>1. PICK n \in S \cap W : Out(n) \cap (S \cap W) = {}
      BY <2>2, <1>1 DEF GraphInv, Acyclic
    <3>2. Out(n)' = Out(n) /\ Out(n) \subseteq W
      BY <1>1, <1>3, <3>1
    <3> QED
      BY <3>1, <3>2
  <2> QED
    BY <2>1, <2>2
<1> QED
  BY <1>2, <1>5 DEF GraphInv, Acyclic

(* Clearing nodes forgets their edges. *)
LEMMA InvalidationForgets ==
    ASSUME GraphInv, NEW S, NEW rs, InvalidateFromRoots(S, rs)
    PROVE  GraphInv'
<1>1. edges' = [n \in Node |-> IF n \in S \cap nodes THEN <<>> ELSE edges[n]]
  BY DEF InvalidateFromRoots
<1>2. edges' \in [Node -> Seq(Node)]
  BY <1>1 DEF GraphInv
<1>3. \A n \in Node : edges'[n] = edges[n] \/ edges'[n] = <<>>
  BY <1>1
<1> QED
  BY <1>2, <1>3, FewerEdges

(* Of all steps, only Graph::get adds edges. *)
LEMMA GraphInvStep == GraphInv /\ [Next]_vars => GraphInv'
<1> SUFFICES ASSUME GraphInv, [Next]_vars PROVE GraphInv'
  OBVIOUS
<1>0. CASE UNCHANGED edges
  BY <1>0, FewerEdges DEF GraphInv
<1>1. CASE UNCHANGED vars
  BY <1>0, <1>1 DEF vars
<1>2. CASE Environment
  BY <1>0, <1>2, InvalidationForgets
     DEF Environment, Write, InvalidateAllPaths, ClearGraph, MarkDraining, Execute
<1>3. CASE Watcher
  BY <1>3, InvalidationForgets DEF Watcher, Invalidate
<1>4. ASSUME NEW c \in Client, ClientStep(c) PROVE GraphInv'
  BY <1>0, <1>4 DEF ClientStep, Create, ClientGet, Retry, Respond
<1>5. ASSUME NEW r \in runs, RunStep(r) PROVE GraphInv'
  <2>1. CASE ClearDeps(r)
    <3>1. edges' = [edges EXCEPT ![r.node] =
                      IF entry[r.node].token = r.token THEN <<>> ELSE @]
      BY <2>1 DEF ClearDeps
    <3>2. edges' \in [Node -> Seq(Node)]
      <4>1. edges' = edges \/ edges' = [edges EXCEPT ![r.node] = <<>>]
        BY <3>1 DEF GraphInv
      <4>2. <<>> \in Seq(Node) /\ edges \in [Node -> Seq(Node)]
        BY DEF GraphInv
      <4> QED
        BY <4>1, <4>2
    <3>3. \A n \in Node : edges'[n] = edges[n] \/ edges'[n] = <<>>
      BY <3>1 DEF GraphInv
    <3> QED
      BY <3>2, <3>3, FewerEdges
  <2>2. ASSUME NEW d \in Node, GetAddsEdge(r, d) PROVE GraphInv'
    BY <2>2, NewEdge DEF GetAddsEdge
  <2>3. ASSUME NEW d \in Node, GetBreaksCycle(r, d) PROVE GraphInv'
    BY <2>3, InvalidationForgets DEF GetBreaksCycle
  <2>4. CASE \/ DepGenerations(r) \/ FoundClean(r)
             \/ \E d \in Node : GetWhileDraining(r, d) \/ GetFindsCycle(r, d) \/ RunGet(r, d)
             \/ Finish(r) \/ CollectGenerations(r) \/ CompleteStale(r)
             \/ CompleteInvalidated(r) \/ CompleteDirty(r) \/ CompletePublish(r)
    BY <1>0, <2>4 DEF DepGenerations, FoundClean, GetWhileDraining, GetFindsCycle, RunGet,
       Finish, CollectGenerations, CompleteStale, CompleteInvalidated, CompleteDirty,
       CompletePublish
  <2> QED
    BY <1>5, <2>1, <2>2, <2>3, <2>4 DEF RunStep
<1> QED
  BY <1>1, <1>2, <1>3, <1>4, <1>5 DEF Next, Engine

(* The graph is a DAG in every reachable state, whatever runs were         *)
(* overtaken, invalidated or restarted while they added edges.             *)
THEOREM AlwaysAcyclic == Spec => []Acyclic
<1>1. Init => GraphInv
  BY DEF Init, GraphInv, Acyclic, Out
<1>2. GraphInv => Acyclic
  BY DEF GraphInv
<1> QED
  BY <1>1, <1>2, GraphInvStep, PTL DEF Spec

-----------------------------------------------------------------------------
(***************************************************************************)
(* Freshness.  FreshInv says of a run that will be listened to that what   *)
(* it asked for has an edge and that it waits for Running nodes; that,     *)
(* unless its node was dirtied, the values it holds are those its          *)
(* dependencies still have; and that the generations it compares with, or  *)
(* has collected, tell whether the values were the same.  Of an entry that *)
(* is Completed it says the same about the values it was computed from.    *)
(***************************************************************************)

(* The answers ans to requests of node n are what the dependencies have.   *)
Fresh(n, ans) ==
    \A d \in Cacheable : Obtained(ans[d]) =>
        d \in Out(n) /\ IsClean(d) /\ entry[d].res = ans[d]

(* gens are generations of n's dependencies from which one can tell that   *)
(* they still have the values in ans.                                      *)
Covers(n, gens, ans) ==
    \A d \in Cacheable : Obtained(ans[d]) => \E i \in 1..Len(gens) : edges[n][i] = d

Tells(d, gen, x) ==
    /\ gen <= entry[d].gen
    /\ d \in Cacheable /\ Obtained(x) /\ entry[d].gen = gen => entry[d].res = x

GensTell(n, gens, ans) ==
    /\ Len(gens) <= Len(edges[n])
    /\ \A i \in 1..Len(gens) : Tells(edges[n][i], gens[i], ans[edges[n][i]])
    /\ Covers(n, gens, ans)

Begins(s, u) == Len(s) <= Len(u) /\ \A i \in 1..Len(s) : u[i] = s[i]

Waiting(r) ==
    /\ r.claim \cup r.wait \subseteq Out(r.node)
    /\ \A d \in r.wait : entry[d].phase = "Running"
    /\ r.pc # "run" => r.claim = {}
    /\ r.pc \in {"finished", "collected"} => r.wait = {}

HoldsFresh(r) == ~entry[r.node].dirty => Fresh(r.node, r.got)

(* Before and while the generations are compared. *)
MayFindClean(r) ==
    r.pc \in {"check", "checking"} =>
        entry[r.node].res # None /\ GensTell(r.node, r.prev, entry[r.node].used)

Compares(r) ==
    r.pc = "checking" =>
        /\ Begins(r.deps, edges[r.node])
        /\ \A i \in 1..Len(r.deps) : r.deps[i] \in r.wait \/ r.got[r.deps[i]] # None
        /\ ~entry[r.node].dirty =>
              \A d \in Cacheable : Obtained(r.got[d]) => r.gens[d] = entry[d].gen

(* After they were found equal. *)
WasFoundClean(r) ==
    r.pc \in {"finished", "collected"} /\ r.out = None =>
        /\ entry[r.node].res # None
        /\ ~entry[r.node].dirty => Fresh(r.node, entry[r.node].used)

(* Between the halves of Graph::complete. *)
UsedBy(r) == IF r.out = None THEN entry[r.node].used ELSE r.got

HasCollected(r) ==
    r.pc = "collected" /\ ~entry[r.node].dirty => GensTell(r.node, r.depGens, UsedBy(r))

RunFresh(r) ==
    Waiting(r) /\ HoldsFresh(r) /\ MayFindClean(r) /\ Compares(r) /\ WasFoundClean(r) /\ HasCollected(r)

EntryFresh(n) ==
    /\ entry[n].phase = "Completed" => entry[n].res # None /\ GensTell(n, entry[n].depGens, entry[n].used)
    /\ IsClean(n) => Fresh(n, entry[n].used)

(* What is in use has an Entry. *)
NodesInv ==
    /\ \A n \in Node : Out(n) \subseteq nodes /\ (entry[n].phase # "NotStarted" => n \in nodes)
    /\ \A c \in Client : client[c].claim \subseteq nodes

(* A run that has its entry's token is the one the entry is Running for.   *)
Current(r) == r.token = entry[r.node].token

RunGood(r) ==
    /\ r.claim \subseteq nodes
    /\ Current(r) => entry[r.node].phase = "Running" /\ RunFresh(r)

RunsGood == \A r \in runs : RunGood(r)
EntriesFresh == \A n \in Node : EntryFresh(n)

FreshInv == RunInv /\ NodesInv /\ RunsGood /\ EntriesFresh

(* FreshInv gives the three properties. *)
LEMMA FreshInvImplies == FreshInv => WaitsFollowEdges /\ UsedFresh /\ GenerationsTellValues
<1> SUFFICES ASSUME FreshInv PROVE WaitsFollowEdges /\ UsedFresh /\ GenerationsTellValues
  OBVIOUS
<1>1. WaitsFollowEdges
  BY DEF FreshInv, RunsGood, RunGood, Current, Live, RunFresh, Waiting, WaitsFollowEdges
<1>2. UsedFresh
  BY DEF FreshInv, EntriesFresh, EntryFresh, Fresh, UsedFresh
<1>3. GenerationsTellValues
  <2> SUFFICES ASSUME NEW n \in Cacheable, entry[n].phase = "Completed", NEW i \in DOMAIN entry[n].depGens,
                      edges[n][i] \in Cacheable, Obtained(entry[n].used[edges[n][i]]),
                      entry[edges[n][i]].gen = entry[n].depGens[i]
               PROVE  entry[edges[n][i]].res = entry[n].used[edges[n][i]]
    BY DEF GenerationsTellValues
  <2>1. n \in Node /\ entry[n].depGens \in Seq(Nat)
    BY NodeAssumption DEF FreshInv, RunInv, TypeOK, EntryState
  <2>2. i \in 1..Len(entry[n].depGens)
    BY <2>1
  <2>3. GensTell(n, entry[n].depGens, entry[n].used)
    BY <2>1 DEF FreshInv, EntriesFresh, EntryFresh
  <2> QED
    BY <2>2, <2>3 DEF GensTell, Tells
<1> QED
  BY <1>1, <1>2, <1>3

(* A node whose dependencies are all outside a set of nodes waits for      *)
(* nothing in it: an acyclic graph has no wait cycle.                      *)
LEMMA NoCycleOfWaits == WaitsFollowEdges /\ Acyclic => NoWaitCycle
  BY DEF WaitsFollowEdges, Acyclic, NoWaitCycle

-----------------------------------------------------------------------------
(* What steps keep. *)

(* Values change only together with generations, which only grow. *)
GenMove(d) ==
    /\ entry[d].gen \in Nat /\ entry'[d].gen \in Nat /\ entry'[d].gen >= entry[d].gen
    /\ d \in Cacheable /\ entry'[d].gen = entry[d].gen => entry'[d].res = entry[d].res

(* A value that can be used as it is stays so. *)
StaysClean(d) == IsClean(d) => IsClean(d)' /\ entry'[d].res = entry[d].res /\ entry'[d].gen = entry[d].gen

LEMMA BeginsOut ==
    ASSUME TypeOK, TypeOK', NEW n \in Node, Begins(edges[n], edges'[n])
    PROVE  Out(n) \subseteq Out(n)'
<1>1. edges[n] \in Seq(Node) /\ edges'[n] \in Seq(Node)
  BY DEF TypeOK
<1>2. /\ DOMAIN edges[n] = 1..Len(edges[n]) /\ DOMAIN edges'[n] = 1..Len(edges'[n])
      /\ Len(edges[n]) \in Nat /\ Len(edges'[n]) \in Nat
  BY <1>1
<1>3. \A i \in 1..Len(edges[n]) : i \in 1..Len(edges'[n]) /\ edges'[n][i] = edges[n][i]
  BY <1>2 DEF Begins
<1> QED
  BY <1>2, <1>3 DEF Out

LEMMA FreshKept ==
    ASSUME NEW n, NEW ans, Fresh(n, ans), Out(n) \subseteq Out(n)',
           \A d \in Cacheable \cap Out(n) : StaysClean(d)
    PROVE  Fresh(n, ans)'
  BY DEF Fresh, StaysClean

LEMMA GensTellKept ==
    ASSUME TypeOK, TypeOK', NEW n \in Node, NEW gens \in Seq(Nat), NEW ans, GensTell(n, gens, ans),
           Begins(edges[n], edges'[n]), \A d \in Node : GenMove(d)
    PROVE  GensTell(n, gens, ans)'
<1>1. edges[n] \in Seq(Node) /\ edges'[n] \in Seq(Node)
  BY DEF TypeOK
<1>2. Len(edges[n]) \in Nat /\ Len(edges'[n]) \in Nat /\ Len(gens) \in Nat /\ Len(gens) <= Len(edges[n])
  BY <1>1 DEF GensTell
<1>3. \A i \in 1..Len(gens) : i \in 1..Len(edges[n]) /\ edges'[n][i] = edges[n][i] /\ edges[n][i] \in Node /\ gens[i] \in Nat
  BY <1>1, <1>2 DEF Begins
<1>4. ASSUME NEW d \in Node, NEW gen \in Nat, NEW x, Tells(d, gen, x) PROVE Tells(d, gen, x)'
  <2>1. GenMove(d)
    OBVIOUS
  <2> QED
    BY <1>4, <2>1 DEF Tells, GenMove
<1>5. ASSUME NEW i \in 1..Len(gens) PROVE Tells(edges[n][i], gens[i], ans[edges[n][i]])'
  <2>1. Tells(edges[n][i], gens[i], ans[edges[n][i]])
    BY DEF GensTell
  <2>2. edges'[n][i] = edges[n][i] /\ edges[n][i] \in Node /\ gens[i] \in Nat
    BY <1>3
  <2> QED
    BY <1>4, <2>1, <2>2 DEF Tells
<1>6. Covers(n, gens, ans)'
  BY <1>3 DEF GensTell, Covers
<1>7. (Len(gens) <= Len(edges[n]))'
  BY <1>2 DEF Begins
<1> QED
  BY <1>5, <1>6, <1>7 DEF GensTell

(* What the steps of others make of a run: some of its receivers are       *)
(* answered with what was just published, others are dropped.              *)
AnswerMove(q, a, d) ==
    \/ a.got[d] = q.got[d] /\ a.gens[d] = q.gens[d]
    \/ d \in q.wait \ a.wait /\ a.got[d] = Invalidated
    \/ /\ d \in q.wait \ a.wait /\ IsClean(d)' /\ a.got[d] = entry'[d].res
       /\ q.pc = "checking" => a.gens[d] = entry'[d].gen

RunMove(q, a) ==
    /\ a.node = q.node /\ a.token = q.token /\ a.pc = q.pc /\ a.prev = q.prev /\ a.deps = q.deps
    /\ a.out = q.out /\ a.depGens = q.depGens /\ a.claim = q.claim /\ a.wait \subseteq q.wait
    /\ \A d \in Node : (d \in q.wait /\ d \notin a.wait) \/ q.got[d] # None => a.got[d] # None
    /\ \A d \in Node : AnswerMove(q, a, d)

(* And of its node. *)
EntryStays(n) ==
    /\ entry'[n].phase = entry[n].phase /\ entry'[n].token = entry[n].token
    /\ entry'[n].used = entry[n].used /\ entry'[n].res = entry[n].res
    /\ entry[n].dirty => entry'[n].dirty
    /\ Begins(edges[n], edges'[n])
    /\ ~entry'[n].dirty => \A d \in Cacheable \cap Out(n) : StaysClean(d)

LEMMA RunKept ==
    ASSUME TypeOK, TypeOK', NEW q \in runs, NEW a \in RunState, RunMove(q, a), RunGood(q), nodes \subseteq nodes',
           a.token = entry'[q.node].token => EntryStays(q.node), \A d \in Node : GenMove(d),
           \A d \in a.wait : entry[d].phase = "Running" => entry'[d].phase = "Running"
    PROVE  RunGood(a)'
<1> SUFFICES ASSUME a.token = entry'[q.node].token
             PROVE  entry'[q.node].phase = "Running" /\ RunFresh(a)'
  BY DEF RunGood, RunMove, Current
<1>0. q \in RunState /\ q.node \in Node
  BY DEF TypeOK, RunState
<1> PICK n \in Node : n = q.node
  BY <1>0
<1>1. /\ a.node = n /\ a.token = q.token /\ a.pc = q.pc /\ a.prev = q.prev /\ a.deps = q.deps
      /\ a.out = q.out /\ a.depGens = q.depGens /\ a.claim = q.claim /\ a.wait \subseteq q.wait
      /\ \A d \in Node : (d \in q.wait /\ d \notin a.wait) \/ q.got[d] # None => a.got[d] # None
  BY DEF RunMove
<1>2. EntryStays(n)
  OBVIOUS
<1>3. Current(q)
  BY <1>1, <1>2 DEF Current, EntryStays
<1>4. RunFresh(q) /\ entry'[n].phase = "Running"
  BY <1>2, <1>3 DEF RunGood, EntryStays
<1>5. /\ entry'[n].used = entry[n].used /\ entry'[n].res = entry[n].res
      /\ ~entry'[n].dirty => ~entry[n].dirty
      /\ Begins(edges[n], edges'[n])
      /\ ~entry'[n].dirty => \A d \in Cacheable \cap Out(n) : StaysClean(d)
  BY <1>2 DEF EntryStays
<1>6. Out(n) \subseteq Out(n)'
  BY <1>5, BeginsOut
<1>7. a.wait \subseteq Node /\ a.prev \in Seq(Nat) /\ a.depGens \in Seq(Nat) /\ a.deps \in Seq(Node)
  BY DEF RunState
<1>8. Waiting(a)'
  BY <1>1, <1>4, <1>6 DEF RunFresh, Waiting
<1>9. ASSUME ~entry'[n].dirty, NEW d \in Cacheable, Obtained(a.got[d])
      PROVE  /\ d \in Out(n)' /\ IsClean(d)' /\ entry'[d].res = a.got[d]
             /\ q.pc = "checking" => a.gens[d] = entry'[d].gen
  <2>0. d \in Node /\ ~entry[n].dirty /\ a.got[d] # Invalidated
    BY <1>5, <1>9, NodeAssumption, OutcomeAssumption DEF Obtained, Failure
  <2>1. CASE a.got[d] = q.got[d] /\ a.gens[d] = q.gens[d]
    <3>1. d \in Out(n) /\ IsClean(d) /\ entry[d].res = a.got[d]
      BY <1>4, <1>9, <2>0, <2>1 DEF RunFresh, HoldsFresh, Fresh
    <3>2. StaysClean(d)
      BY <1>5, <1>9, <3>1
    <3>3. q.pc = "checking" => a.gens[d] = entry[d].gen
      BY <1>4, <1>9, <2>0, <2>1 DEF RunFresh, Compares
    <3> QED
      BY <1>6, <3>1, <3>2, <3>3 DEF StaysClean
  <2>2. CASE d \in q.wait /\ IsClean(d)' /\ a.got[d] = entry'[d].res /\ (q.pc = "checking" => a.gens[d] = entry'[d].gen)
    <3>1. d \in Out(n)
      BY <1>4, <2>2 DEF RunFresh, Waiting
    <3> QED
      BY <1>6, <2>2, <3>1
  <2> QED
    BY <2>0, <2>1, <2>2 DEF RunMove, AnswerMove
<1>10. HoldsFresh(a)'
  BY <1>1, <1>9 DEF HoldsFresh, Fresh
<1>11. MayFindClean(a)'
  <2> SUFFICES ASSUME a.pc \in {"check", "checking"}
               PROVE  (entry[n].res # None)' /\ GensTell(n, a.prev, entry[n].used)'
    BY <1>1 DEF MayFindClean
  <2>1. entry[n].res # None /\ GensTell(n, a.prev, entry[n].used)
    BY <1>1, <1>4 DEF RunFresh, MayFindClean
  <2>2. PICK u : u = entry[n].used
    OBVIOUS
  <2>3. GensTell(n, a.prev, u)'
    BY <1>5, <1>7, <2>1, <2>2, GensTellKept
  <2> QED
    BY <1>5, <2>1, <2>2, <2>3
<1>12. Compares(a)'
  <2> SUFFICES ASSUME a.pc = "checking"
               PROVE  /\ Begins(a.deps, edges'[n])
                      /\ \A i \in 1..Len(a.deps) : a.deps[i] \in a.wait \/ a.got[a.deps[i]] # None
                      /\ ~entry'[n].dirty =>
                            \A d \in Cacheable : Obtained(a.got[d]) => a.gens[d] = entry'[d].gen
    BY <1>1 DEF Compares
  <2>1. /\ Begins(a.deps, edges[n])
        /\ \A i \in 1..Len(a.deps) : a.deps[i] \in q.wait \/ q.got[a.deps[i]] # None
    BY <1>1, <1>4 DEF RunFresh, Compares
  <2>2. Begins(a.deps, edges'[n])
    <3>1. edges[n] \in Seq(Node) /\ edges'[n] \in Seq(Node)
      BY DEF TypeOK
    <3>2. Len(a.deps) \in Nat /\ Len(edges[n]) \in Nat /\ Len(edges'[n]) \in Nat
      BY <1>7, <3>1
    <3> QED
      BY <1>5, <2>1, <3>2 DEF Begins
  <2>3. \A i \in 1..Len(a.deps) : a.deps[i] \in a.wait \/ a.got[a.deps[i]] # None
    <3>1. \A i \in 1..Len(a.deps) : a.deps[i] \in Node
      BY <1>7
    <3> QED
      BY <1>1, <2>1, <3>1
  <2> QED
    BY <1>1, <1>9, <2>2, <2>3
<1>13. WasFoundClean(a)'
  <2> SUFFICES ASSUME a.pc \in {"finished", "collected"}, a.out = None
               PROVE  entry'[n].res # None /\ (~entry'[n].dirty => Fresh(n, entry[n].used)')
    BY <1>1 DEF WasFoundClean
  <2>1. entry[n].res # None /\ (~entry[n].dirty => Fresh(n, entry[n].used))
    BY <1>1, <1>4 DEF RunFresh, WasFoundClean
  <2>2. PICK u : u = entry[n].used
    OBVIOUS
  <2>3. ~entry'[n].dirty => Fresh(n, u)'
    BY <1>5, <1>6, <2>1, <2>2, FreshKept
  <2> QED
    BY <1>5, <2>1, <2>2, <2>3
<1>14. HasCollected(a)'
  <2> SUFFICES ASSUME a.pc = "collected", ~entry'[n].dirty
               PROVE  GensTell(n, a.depGens, UsedBy(a))'
    BY <1>1 DEF HasCollected
  <2>1. GensTell(n, a.depGens, UsedBy(q))
    BY <1>1, <1>4, <1>5 DEF RunFresh, HasCollected
  <2>2. PICK u : u = UsedBy(q)
    OBVIOUS
  <2>3. GensTell(n, a.depGens, u)'
    BY <1>5, <1>7, <2>1, <2>2, GensTellKept
  <2>4. a.got = q.got
    <3>1. q.wait = {}
      BY <1>1, <1>4 DEF RunFresh, Waiting
    <3>2. \A d \in Node : a.got[d] = q.got[d]
      BY <3>1 DEF RunMove, AnswerMove
    <3>3. a.got \in Answers /\ q.got \in Answers
      BY <1>0 DEF RunState
    <3> QED
      BY <3>2, <3>3 DEF Answers
  <2>5. UsedBy(a)' = u
    BY <1>1, <1>5, <2>2, <2>4 DEF UsedBy
  <2> QED
    BY <2>3, <2>5
<1> QED
  BY <1>4, <1>8, <1>10, <1>11, <1>12, <1>13, <1>14 DEF RunFresh

(* The same for an entry that stays Completed. *)
ValueStays(n) ==
    /\ entry[n].phase = "Completed" /\ entry'[n].used = entry[n].used /\ entry'[n].res = entry[n].res
    /\ entry'[n].depGens = entry[n].depGens /\ Begins(edges[n], edges'[n])
    /\ IsClean(n)' => IsClean(n) /\ \A d \in Cacheable \cap Out(n) : StaysClean(d)

LEMMA EntryKept ==
    ASSUME TypeOK, TypeOK', NEW n \in Node, EntryFresh(n), \A d \in Node : GenMove(d),
           entry'[n].phase = "Completed" => ValueStays(n)
    PROVE  EntryFresh(n)'
<1> SUFFICES ASSUME entry'[n].phase = "Completed", ValueStays(n) PROVE EntryFresh(n)'
  BY DEF EntryFresh, IsClean
<1>1. /\ entry[n].phase = "Completed" /\ entry'[n].used = entry[n].used /\ entry'[n].res = entry[n].res
      /\ entry'[n].depGens = entry[n].depGens /\ Begins(edges[n], edges'[n])
      /\ IsClean(n)' => IsClean(n) /\ \A d \in Cacheable \cap Out(n) : StaysClean(d)
  BY DEF ValueStays
<1>2. entry[n].depGens \in Seq(Nat)
  BY DEF TypeOK, EntryState
<1>3. Out(n) \subseteq Out(n)'
  BY <1>1, BeginsOut
<1>4. /\ entry[n].res # None /\ GensTell(n, entry[n].depGens, entry[n].used)
      /\ IsClean(n) => Fresh(n, entry[n].used)
  BY <1>1 DEF EntryFresh
<1>5. PICK u, gens : u = entry[n].used /\ gens = entry[n].depGens
  OBVIOUS
<1>6. GensTell(n, gens, u)'
  BY <1>1, <1>2, <1>4, <1>5, GensTellKept
<1>7. IsClean(n)' => Fresh(n, u)'
  BY <1>1, <1>3, <1>4, <1>5, FreshKept
<1> QED
  BY <1>1, <1>4, <1>5, <1>6, <1>7 DEF EntryFresh

(* Nothing that is in use loses its Entry. *)
LEMMA NodesKept ==
    ASSUME NodesInv, nodes \subseteq nodes',
           \A n \in Node : Out(n)' \subseteq Out(n) \cup nodes',
           \A n \in Node : entry'[n].phase # "NotStarted" => entry[n].phase # "NotStarted" \/ n \in nodes',
           \A c \in Client : client'[c].claim \subseteq client[c].claim \cup nodes'
    PROVE  NodesInv'
  BY DEF NodesInv

LEMMA SameOut ==
    ASSUME NEW n, edges'[n] = edges[n] \/ edges'[n] = <<>>
    PROVE  Out(n)' \subseteq Out(n)
<1>1. CASE edges'[n] = edges[n]
  BY <1>1 DEF Out
<1>2. CASE edges'[n] = <<>>
  <2>1. DOMAIN edges'[n] = {}
    BY <1>2
  <2> QED
    BY <2>1 DEF Out
<1> QED
  BY <1>1, <1>2

LEMMA BeginsSelf == ASSUME TypeOK, NEW n \in Node PROVE Begins(edges[n], edges[n])
<1>1. Len(edges[n]) \in Nat
  BY DEF TypeOK
<1> QED
  BY <1>1 DEF Begins

(* What happens to a run that is not told anything, and to one whose       *)
(* receivers are dropped.                                                  *)
LEMMA SameRun == ASSUME NEW q PROVE RunMove(q, q)
  BY DEF RunMove, AnswerMove

LEMMA CancelMove == ASSUME NEW q \in RunState, NEW S PROVE RunMove(q, Cancel(q, S))
<1> DEFINE a == Cancel(q, S)
           got == [n \in Node |-> IF n \in q.wait \cap S THEN Invalidated ELSE q.got[n]]
<1>1. a = [q EXCEPT !.wait = q.wait \ S, !.got = got]
  BY DEF Cancel, RunState
<1> HIDE DEF got, a
<1>2. /\ a.node = q.node /\ a.token = q.token /\ a.pc = q.pc /\ a.prev = q.prev /\ a.deps = q.deps
      /\ a.out = q.out /\ a.depGens = q.depGens /\ a.claim = q.claim /\ a.wait = q.wait \ S
      /\ a.gens = q.gens /\ a.got = got
  BY <1>1 DEF RunState
<1>3. Invalidated # None
  BY OutcomeAssumption DEF Outcome, Failure
<1>4. RunMove(q, a)
  BY <1>2, <1>3 DEF RunMove, AnswerMove, got
<1> QED
  BY <1>4 DEF a

(* A step that leaves the entries alone and adds edges at most, by a run   *)
(* that goes from r to new.                                                *)
LEMMA QuietFresh ==
    ASSUME FreshInv, RunInv', entry' = entry, nodes \subseteq nodes',
           \A n \in Node : Begins(edges[n], edges'[n]), NodesInv',
           \A a \in runs' : a \in runs \/ RunGood(a)'
    PROVE  FreshInv'
<1>0. TypeOK /\ TypeOK' /\ RunsGood /\ EntriesFresh
  BY DEF FreshInv, RunInv
<1>1. \A d \in Node : GenMove(d)
  BY <1>0 DEF TypeOK, EntryState, GenMove
<1>2. \A d \in Node : StaysClean(d)
  BY DEF StaysClean, IsClean
<1>3. ASSUME NEW n \in Node PROVE EntryStays(n) /\ (entry'[n].phase = "Completed" => ValueStays(n))
  <2>1. Cacheable \subseteq Node
    BY NodeAssumption
  <2>2. IsClean(n)' = IsClean(n)
    BY DEF IsClean
  <2> QED
    BY <1>2, <2>1, <2>2 DEF EntryStays, ValueStays
<1>4. ASSUME NEW a \in runs, a \in runs' PROVE RunGood(a)'
  <2>1. a \in RunState /\ a.node \in Node /\ RunGood(a)
    BY <1>0 DEF TypeOK, RunState, RunsGood
  <2> QED
    BY <1>0, <1>1, <1>3, <2>1, SameRun, RunKept
<1>5. RunsGood'
  BY <1>4 DEF RunsGood
<1>6. EntriesFresh'
  BY <1>0, <1>1, <1>3, EntryKept DEF EntriesFresh
<1> QED
  BY <1>5, <1>6 DEF FreshInv

(* Steps of which the runs know nothing. *)
LEMMA OutsideFresh ==
    ASSUME FreshInv, RunInv', UNCHANGED <<entry, edges, runs>>, nodes \subseteq nodes',
           \A c \in Client : client'[c].claim \subseteq client[c].claim \cup nodes'
    PROVE  FreshInv'
<1>0. TypeOK
  BY DEF FreshInv, RunInv
<1>1. NodesInv'
  <2>1. \A n \in Node : Out(n)' = Out(n)
    BY DEF Out
  <2> QED
    BY <2>1, NodesKept DEF FreshInv
<1>2. \A n \in Node : Begins(edges[n], edges'[n])
  BY <1>0, BeginsSelf
<1> QED
  BY <1>1, <1>2, QuietFresh

LEMMA OutsideSteps ==
    ASSUME FreshInv, RunInv',
           \/ \E f \in FsNode : Write(f)
           \/ MarkDraining
           \/ \E c \in Client, roots \in SUBSET Root \ {{}} : Execute(c, roots)
           \/ \E c \in Client, n \in Node : Create(c, n)
           \/ \E c \in Client : Retry(c) \/ Respond(c)
    PROVE  FreshInv'
<1>0. client \in [Client -> ClientState] /\ \A c \in Client : client[c] \in ClientState
  BY DEF FreshInv, RunInv, TypeOK
<1>1. ASSUME NEW f \in FsNode, Write(f) PROVE FreshInv'
  <2>1. \A c \in Client : client'[c].claim = client[c].claim
    BY <1>0, <1>1 DEF Write, ClientState
  <2> QED
    BY <1>1, <2>1, OutsideFresh DEF Write
<1>2. CASE MarkDraining
  BY <1>2, OutsideFresh DEF MarkDraining
<1>3. ASSUME NEW c \in Client, NEW roots \in SUBSET Root \ {{}}, Execute(c, roots) PROVE FreshInv'
  <2> DEFINE new == [IdleClient EXCEPT !.busy = TRUE, !.roots = roots, !.count = Retries,
                                       !.quiet = (pending = {})]
  <2>1. client' = [client EXCEPT ![c] = new] /\ UNCHANGED <<nodes, entry, edges, runs>>
    BY <1>3 DEF Execute
  <2>2. new.claim = {}
    BY DEF IdleClient
  <2> HIDE DEF new
  <2>3. \A x \in Client : client'[x].claim \subseteq client[x].claim
    BY <1>0, <2>1, <2>2
  <2> QED
    BY <2>1, <2>3, OutsideFresh
<1>4. ASSUME NEW c \in Client, NEW n \in Node, Create(c, n) PROVE FreshInv'
  <2>1. UNCHANGED <<entry, edges, runs>> /\ nodes \subseteq nodes'
    BY <1>4 DEF Create
  <2>2. CASE draining
    <3>1. client' = [client EXCEPT ![c] = [client[c] EXCEPT !.got[n] = Invalidated]]
      BY <1>0, <1>4, <2>2 DEF Create
    <3>2. [client[c] EXCEPT !.got[n] = Invalidated].claim = client[c].claim
      BY <1>0 DEF ClientState
    <3>3. \A x \in Client : client'[x].claim = client[x].claim
      BY <1>0, <3>1, <3>2
    <3> QED
      BY <2>1, <3>3, OutsideFresh
  <2>3. CASE ~draining
    <3>1. /\ client' = [client EXCEPT ![c] = [client[c] EXCEPT !.claim = @ \cup {n}]]
          /\ nodes' = nodes \cup {n}
      BY <1>0, <1>4, <2>3 DEF Create
    <3>2. [client[c] EXCEPT !.claim = @ \cup {n}].claim = client[c].claim \cup {n}
      BY <1>0 DEF ClientState
    <3>3. \A x \in Client : client'[x].claim \subseteq client[x].claim \cup {n}
      BY <1>0, <3>1, <3>2
    <3> QED
      BY <2>1, <3>1, <3>3, OutsideFresh
  <2> QED
    BY <2>2, <2>3
<1>5. ASSUME NEW c \in Client, Retry(c) PROVE FreshInv'
  <2> DEFINE new == [client[c] EXCEPT !.count = @ - 1, !.wait = {}, !.got = NoAnswers]
  <2>1. client' = [client EXCEPT ![c] = new] /\ UNCHANGED <<nodes, entry, edges, runs>>
    BY <1>0, <1>5 DEF Retry
  <2>2. new.claim = client[c].claim
    BY <1>0 DEF ClientState
  <2> HIDE DEF new
  <2>3. \A x \in Client : client'[x].claim \subseteq client[x].claim
    BY <1>0, <2>1, <2>2
  <2> QED
    BY <2>1, <2>3, OutsideFresh
<1>6. ASSUME NEW c \in Client, Respond(c) PROVE FreshInv'
  <2>1. client' = [client EXCEPT ![c] = [client[c] EXCEPT !.busy = FALSE]] /\ UNCHANGED <<nodes, entry, edges, runs>>
    BY <1>0, <1>6 DEF Respond
  <2>2. [client[c] EXCEPT !.busy = FALSE].claim = client[c].claim
    BY <1>0 DEF ClientState
  <2>3. \A x \in Client : client'[x].claim \subseteq client[x].claim
    BY <1>0, <2>1, <2>2
  <2> QED
    BY <2>1, <2>3, OutsideFresh
<1> QED
  BY <1>1, <1>2, <1>3, <1>4, <1>5, <1>6

-----------------------------------------------------------------------------
(* Invalidation. *)
LEMMA ClearedEffect ==
    ASSUME NEW e \in EntryState, NEW b \in BOOLEAN
    PROVE  /\ Cleared(e, b).phase = "NotStarted" /\ Cleared(e, b).token = e.token + 1
           /\ Cleared(e, b).gen = e.gen /\ Cleared(e, b).res = e.res
  BY DEF Cleared, EntryState

LEMMA DirtiedEffect ==
    ASSUME NEW e \in EntryState
    PROVE  /\ Dirtied(e).phase = e.phase /\ Dirtied(e).token = e.token
           /\ Dirtied(e).gen = e.gen /\ Dirtied(e).res = e.res
           /\ Dirtied(e).used = e.used /\ Dirtied(e).depGens = e.depGens
           /\ e.phase = "Running" => Dirtied(e).dirty = TRUE
           /\ e.phase = "Completed" => Dirtied(e).clean = FALSE
<1>1. CASE e.phase = "Running"
  BY <1>1 DEF Dirtied, EntryState
<1>2. CASE e.phase = "Completed"
  BY <1>2 DEF Dirtied, EntryState
<1>3. CASE e.phase = "NotStarted"
  BY <1>3 DEF Dirtied, EntryState
<1> QED
  BY <1>1, <1>2, <1>3 DEF EntryState

(* What invalidate_from_roots reaches is closed under dependees. *)
LEMMA WalkDependees ==
    ASSUME TypeOK, NEW roots \in SUBSET Node
    PROVE  /\ Walk(roots, Incoming) \subseteq Node /\ roots \subseteq Walk(roots, Incoming)
           /\ \A n \in Node : \A d \in Out(n) : d \in Walk(roots, Incoming) => n \in Walk(roots, Incoming)
<1>1. \A x \in Node : Incoming[x] = In(x) /\ In(x) \subseteq Node
  BY DEF Incoming, In
<1>2. \A n \in Node : \A d \in Out(n) : d \in Node /\ n \in In(d)
  <2>1. \A n \in Node : edges[n] \in Seq(Node)
    BY DEF TypeOK
  <2>2. \A n \in Node : \A d \in Out(n) : d \in Node
    BY <2>1 DEF Out
  <2> QED
    BY <2>2 DEF In
<1>3. Walk(roots, Incoming) \subseteq Node /\ roots \subseteq Walk(roots, Incoming)
  BY DEF Walk
<1>4. ASSUME NEW n \in Node, NEW d \in Out(n), d \in Walk(roots, Incoming) PROVE n \in Walk(roots, Incoming)
  <2> SUFFICES ASSUME NEW C \in SUBSET Node, roots \subseteq C, \A x \in C : Incoming[x] \subseteq C
               PROVE  n \in C
    BY DEF Walk
  <2>1. d \in C
    BY <1>4 DEF Walk
  <2> QED
    BY <1>1, <1>2, <2>1
<1> QED
  BY <1>3, <1>4

(* A run that differs in nothing but what report_cycle counts. *)
Alike(q, b) ==
    /\ b.node = q.node /\ b.token = q.token /\ b.pc = q.pc /\ b.prev = q.prev /\ b.deps = q.deps
    /\ b.out = q.out /\ b.depGens = q.depGens /\ b.claim = q.claim /\ b.wait = q.wait
    /\ b.got = q.got /\ b.gens = q.gens

LEMMA InvalidationFresh ==
    ASSUME FreshInv, RunInv', NEW S, NEW rs, InvalidateFromRoots(S, rs), nodes' = nodes,
           \A b \in rs : b \in RunState /\ \E q \in runs : Alike(q, b)
    PROVE  FreshInv'
<1> DEFINE roots == S \cap nodes
           D == Walk(roots, Incoming)
<1>0. TypeOK /\ TypeOK' /\ RunsGood /\ EntriesFresh /\ NodesInv /\ TokenInv /\ Cacheable \subseteq Node
  BY NodeAssumption DEF FreshInv, RunInv
<1>1. /\ entry' = [n \in Node |->
                      IF n \in roots THEN Cleared(entry[n], FALSE)
                      ELSE IF n \in D \ roots THEN Dirtied(entry[n])
                      ELSE entry[n]]
      /\ edges' = [n \in Node |-> IF n \in roots THEN <<>> ELSE edges[n]]
      /\ runs' = {Cancel(b, roots) : b \in rs}
      /\ client' = [c \in Client |-> Cancel(client[c], roots)]
  BY DEF InvalidateFromRoots, CancelClients
<1>2. /\ roots \subseteq D
      /\ \A n \in Node : \A d \in Out(n) : d \in D => n \in D
  <2>1. roots \in SUBSET Node
    BY <1>0 DEF TypeOK
  <2> QED
    BY <1>0, <2>1, WalkDependees
<1> HIDE DEF roots, D
<1>3. \A n \in Node : entry[n] \in EntryState /\ entry[n].token \in Nat /\ entry[n].gen \in Nat
  BY <1>0 DEF TypeOK, EntryState
<1>4. ASSUME NEW n \in Node, n \in roots
      PROVE  /\ entry'[n].phase = "NotStarted" /\ entry'[n].token = entry[n].token + 1
             /\ entry'[n].gen = entry[n].gen /\ entry'[n].res = entry[n].res
  <2>1. entry'[n] = Cleared(entry[n], FALSE)
    BY <1>1, <1>4
  <2>2. entry[n] \in EntryState
    BY <1>3, <1>4
  <2> QED
    BY <2>1, <2>2, ClearedEffect
<1>5. ASSUME NEW n \in Node, n \in D, n \notin roots
      PROVE  /\ entry'[n].phase = entry[n].phase /\ entry'[n].token = entry[n].token
             /\ entry'[n].gen = entry[n].gen /\ entry'[n].res = entry[n].res
             /\ entry'[n].used = entry[n].used /\ entry'[n].depGens = entry[n].depGens
             /\ entry[n].phase = "Running" => entry'[n].dirty = TRUE
             /\ entry[n].phase = "Completed" => entry'[n].clean = FALSE
  <2>1. entry'[n] = Dirtied(entry[n])
    BY <1>1, <1>5
  <2>2. entry[n] \in EntryState
    BY <1>3, <1>5
  <2> QED
    BY <2>1, <2>2, DirtiedEffect
<1>6. \A n \in Node \ D : entry'[n] = entry[n]
  BY <1>1, <1>2
<1>7. \A d \in Node : GenMove(d)
  <2> TAKE d \in Node
  <2>1. entry'[d].gen = entry[d].gen /\ entry'[d].res = entry[d].res
    BY <1>4, <1>5, <1>6
  <2> QED
    BY <1>3, <2>1 DEF GenMove
<1>8. ASSUME NEW n \in Node \ D PROVE \A d \in Cacheable \cap Out(n) : StaysClean(d)
  BY <1>0, <1>2, <1>6 DEF StaysClean, IsClean
<1>9. \A n \in Node \ roots : Begins(edges[n], edges'[n])
  BY <1>0, <1>1, BeginsSelf
<1>10. ASSUME NEW n \in Node \ roots, entry[n].phase = "Running" PROVE EntryStays(n)
  <2>1. CASE n \in D
    BY <1>5, <1>9, <1>10, <2>1 DEF EntryStays
  <2>2. CASE n \notin D
    BY <1>6, <1>8, <1>9, <2>2 DEF EntryStays
  <2> QED
    BY <2>1, <2>2
<1>11. ASSUME NEW n \in Node, entry'[n].phase = "Completed" PROVE ValueStays(n)
  <2>1. n \notin roots
    BY <1>4, <1>11
  <2>2. CASE n \in D
    BY <1>5, <1>9, <1>11, <2>1, <2>2 DEF ValueStays, IsClean
  <2>3. CASE n \notin D
    BY <1>6, <1>8, <1>9, <1>11, <2>1, <2>3 DEF ValueStays, IsClean
  <2> QED
    BY <2>2, <2>3
<1>12. ASSUME NEW a \in runs' PROVE RunGood(a)'
  <2>0. PICK b \in rs : a = Cancel(b, roots)
    BY <1>1
  <2>1. PICK q \in runs : Alike(q, b)
    BY <2>0
  <2>2. q \in RunState /\ q.node \in Node /\ RunGood(q) /\ q.token \in Nat /\ b \in RunState
    BY <1>0, <2>0 DEF TypeOK, RunState, RunsGood
  <2>3. RunMove(b, a) /\ a \in RunState
    BY <1>0, <2>0, <2>2, CancelMove DEF TypeOK
  <2>4. RunMove(q, a)
    BY <2>1, <2>3 DEF RunMove, AnswerMove, Alike
  <2>5. a.wait \cap roots = {} /\ a.wait \subseteq Node
    <3>1. a.wait = b.wait \ roots /\ b.wait \subseteq Node
      BY <2>0, <2>2 DEF Cancel, RunState
    <3> QED
      BY <3>1
  <2>6. a.token = entry'[q.node].token => EntryStays(q.node)
    <3> SUFFICES ASSUME a.token = entry'[q.node].token PROVE EntryStays(q.node)
      OBVIOUS
    <3>1. a.token = q.token /\ q.token <= entry[q.node].token
      BY <1>0, <2>4 DEF RunMove, TokenInv
    <3>2. q.node \notin roots
      <4> SUFFICES ASSUME q.node \in roots PROVE FALSE
        OBVIOUS
      <4>1. PICK k \in Nat : k = entry[q.node].token
        BY <1>3, <2>2
      <4>2. entry'[q.node].token = k + 1
        BY <1>4, <2>2, <4>1
      <4>3. a.token = k + 1 /\ a.token <= k
        BY <3>1, <4>1, <4>2
      <4> QED
        BY <4>3
    <3>3. entry'[q.node].token = entry[q.node].token
      BY <1>5, <1>6, <2>2, <3>2
    <3>4. entry[q.node].phase = "Running"
      BY <2>2, <3>1, <3>3 DEF RunGood, Current
    <3> QED
      BY <1>10, <2>2, <3>2, <3>4
  <2>7. \A d \in a.wait : entry[d].phase = "Running" => entry'[d].phase = "Running"
    BY <1>5, <1>6, <2>5
  <2> QED
    BY <1>0, <1>7, <2>2, <2>3, <2>4, <2>6, <2>7, RunKept
<1>13. RunsGood'
  BY <1>1, <1>12 DEF RunsGood
<1>14. EntriesFresh'
  BY <1>0, <1>7, <1>11, EntryKept DEF EntriesFresh
<1>15. NodesInv'
  <2>1. \A n \in Node : Out(n)' \subseteq Out(n)
    BY <1>1, SameOut
  <2>2. \A n \in Node : entry'[n].phase # "NotStarted" => entry[n].phase # "NotStarted"
    BY <1>4, <1>5, <1>6
  <2>3. \A c \in Client : client'[c].claim = client[c].claim
    BY <1>0, <1>1 DEF TypeOK, ClientState, Cancel
  <2> QED
    BY <1>0, <2>1, <2>2, <2>3, NodesKept
<1> QED
  BY <1>13, <1>14, <1>15 DEF FreshInv

(* Graph::clear: nothing is left that could be stale. *)
LEMMA ClearGraphFresh == ASSUME FreshInv, RunInv', ClearGraph PROVE FreshInv'
<1>0. TypeOK /\ TypeOK' /\ RunsGood /\ NodesInv /\ TokenInv
  BY DEF FreshInv, RunInv
<1>1. /\ entry' = [n \in Node |-> IF n \in nodes THEN Cleared(entry[n], TRUE) ELSE entry[n]]
      /\ runs' = {Cancel(q, nodes) : q \in runs}
      /\ client' = [c \in Client |-> Cancel(client[c], nodes)]
      /\ UNCHANGED <<nodes, edges>>
  BY DEF ClearGraph, CancelClients
<1>2. \A n \in Node : entry[n] \in EntryState /\ entry[n].token \in Nat
  BY <1>0 DEF TypeOK, EntryState
<1>3. ASSUME NEW n \in Node
      PROVE  /\ entry'[n].phase = "NotStarted"
             /\ entry'[n].token = entry[n].token + 1 \/ (entry[n].phase = "NotStarted" /\ entry'[n].token = entry[n].token)
  <2>1. CASE n \in nodes
    <3>1. entry'[n] = Cleared(entry[n], TRUE) /\ entry[n] \in EntryState
      BY <1>1, <1>2, <2>1
    <3>2. Cleared(entry[n], TRUE).phase = "NotStarted" /\ Cleared(entry[n], TRUE).token = entry[n].token + 1
      BY <3>1, ClearedEffect
    <3> QED
      BY <3>1, <3>2
  <2>2. CASE n \notin nodes
    BY <1>0, <1>1, <2>2 DEF NodesInv
  <2> QED
    BY <2>1, <2>2
<1>4. EntriesFresh'
  BY <1>3 DEF EntriesFresh, EntryFresh, IsClean
<1>5. ASSUME NEW q \in runs PROVE RunGood(Cancel(q, nodes))'
  <2>1. q \in RunState /\ q.node \in Node /\ RunGood(q) /\ q.token \in Nat /\ q.token <= entry[q.node].token
    BY <1>0 DEF TypeOK, RunState, RunsGood, TokenInv
  <2>2. /\ Cancel(q, nodes).node = q.node /\ Cancel(q, nodes).token = q.token
        /\ Cancel(q, nodes).claim = q.claim
    BY <2>1 DEF Cancel, RunState
  <2>3. q.token # entry'[q.node].token
    <3>1. CASE entry'[q.node].token = entry[q.node].token + 1
      BY <1>2, <2>1, <3>1
    <3>2. CASE entry[q.node].phase = "NotStarted" /\ entry'[q.node].token = entry[q.node].token
      BY <2>1, <3>2 DEF RunGood, Current
    <3> QED
      BY <1>3, <2>1, <3>1, <3>2
  <2> QED
    BY <1>1, <2>1, <2>2, <2>3 DEF RunGood, Current
<1>6. RunsGood'
  BY <1>1, <1>5 DEF RunsGood
<1>7. NodesInv'
  <2>1. \A n \in Node : Out(n)' = Out(n)
    BY <1>1 DEF Out
  <2>2. \A c \in Client : client'[c].claim = client[c].claim
    BY <1>0, <1>1 DEF TypeOK, ClientState, Cancel
  <2> QED
    BY <1>0, <1>1, <1>3, <2>1, <2>2, NodesKept
<1> QED
  BY <1>4, <1>6, <1>7 DEF FreshInv

(* The three ways a part of the graph is invalidated. *)
LEMMA InvalidationSteps ==
    ASSUME FreshInv, RunInv',
           \/ InvalidateAllPaths
           \/ \E S \in SUBSET pending \ {{}} : Invalidate(S)
           \/ \E r \in runs, d \in Node : GetBreaksCycle(r, d)
    PROVE  FreshInv'
<1>0. TypeOK /\ \A b \in runs : b \in RunState /\ \E q \in runs : Alike(q, b)
  BY DEF FreshInv, RunInv, TypeOK, Alike
<1>1. CASE InvalidateAllPaths
  <2>1. InvalidateFromRoots(FsNode, runs) /\ nodes' = nodes
    BY <1>1 DEF InvalidateAllPaths
  <2> QED
    BY <1>0, <2>1, InvalidationFresh
<1>2. ASSUME NEW S, Invalidate(S) PROVE FreshInv'
  <2>1. InvalidateFromRoots(S, runs) /\ nodes' = nodes
    BY <1>2 DEF Invalidate
  <2> QED
    BY <1>0, <2>1, InvalidationFresh
<1>3. ASSUME NEW r \in runs, NEW d \in Node, GetBreaksCycle(r, d) PROVE FreshInv'
  <2> DEFINE new == [r EXCEPT !.cyc = d, !.tries = @ + 1]
             rs == (runs \ {r}) \cup {new}
  <2>1. PICK path : InvalidateFromRoots({n \in path : MayHaveDirtyEdges(n)}, rs)
    BY <1>3 DEF GetBreaksCycle
  <2>2. r \in RunState /\ nodes' = nodes
    BY <1>0, <1>3 DEF GetBreaksCycle
  <2>3. new \in RunState
    <3>1. None \in Outcome \cup {None}
      OBVIOUS
    <3> QED
      BY <2>2, <3>1, SuccessorTypes DEF Successor
  <2>4. Alike(r, new)
    BY <2>2 DEF Alike, RunState
  <2> HIDE DEF new
  <2>5. \A b \in rs : b \in RunState /\ \E q \in runs : Alike(q, b)
    BY <1>0, <2>3, <2>4
  <2> HIDE DEF rs
  <2>6. PICK S : S = {n \in path : MayHaveDirtyEdges(n)}
    OBVIOUS
  <2> QED
    BY <2>1, <2>2, <2>5, <2>6, InvalidationFresh
<1> QED
  BY <1>1, <1>2, <1>3

-----------------------------------------------------------------------------
(* Starting nodes. *)
LEMMA StartedEffect ==
    ASSUME TypeOK, NEW n \in Node
    PROVE  /\ Started(n).phase = "Running" /\ Started(n).token = entry[n].token + 1
           /\ Started(n).gen = entry[n].gen
           /\ n \in Cacheable => Started(n).res = entry[n].res
           /\ Started(n).res \in {entry[n].res, None}
           /\ IsCleanable(n) => Started(n).used = entry[n].used
<1> DEFINE e == entry[n]
           res == IF e.phase = "NotStarted" \/ n \in Cacheable THEN e.res ELSE None
           clean == e.clean /\ e.phase = "NotStarted"
           used == IF IsCleanable(n) THEN e.used ELSE NoAnswers
<1>1. e \in EntryState
  BY DEF TypeOK
<1>2. (n \in Cacheable => res = e.res) /\ res \in {e.res, None} /\ (IsCleanable(n) => used = e.used)
  OBVIOUS
<1>3. Started(n) = [e EXCEPT !.phase = "Running", !.token = @ + 1, !.dirty = FALSE,
                             !.depGens = <<>>, !.res = res, !.clean = clean, !.used = used]
  BY DEF Started
<1> HIDE DEF e, res, clean, used
<1>4. /\ Started(n).phase = "Running" /\ Started(n).token = e.token + 1
      /\ Started(n).gen = e.gen /\ Started(n).res = res /\ Started(n).used = used
  BY <1>1, <1>3 DEF EntryState
<1> QED
  BY <1>2, <1>4 DEF e

LEMMA NothingObtained == ~Obtained(None)
  BY OutcomeAssumption DEF Obtained, Outcome, Failure

(* A run that has not asked for anything yet. *)
LEMMA NewRunGood ==
    ASSUME NEW n \in Node, NEW token, NEW pc \in {"check", "run"}, NEW prev,
           token = entry'[n].token => entry'[n].phase = "Running",
           pc = "check" => entry'[n].res # None /\ GensTell(n, prev, entry[n].used)'
    PROVE  RunGood(NewRun(n, token, pc, prev))'
<1>1. PICK a : a = NewRun(n, token, pc, prev)
  OBVIOUS
<1>2. /\ a.node = n /\ a.token = token /\ a.pc = pc /\ a.prev = prev /\ a.claim = {} /\ a.wait = {}
      /\ \A d \in Node : a.got[d] = None
  BY <1>1 DEF NewRun, NoAnswers
<1>3. Waiting(a)'
  BY <1>2 DEF Waiting
<1>4. HoldsFresh(a)'
  BY <1>2, NothingObtained, NodeAssumption DEF HoldsFresh, Fresh
<1>5. MayFindClean(a)'
  BY <1>2 DEF MayFindClean
<1>6. Compares(a)' /\ WasFoundClean(a)' /\ HasCollected(a)'
  BY <1>2 DEF Compares, WasFoundClean, HasCollected
<1>7. RunGood(a)'
  BY <1>2, <1>3, <1>4, <1>5, <1>6 DEF RunGood, RunFresh, Current
<1> QED
  BY <1>1, <1>7

(* Entry::run on the nodes of N: a value that could be used as it is is    *)
(* not touched, and the generations a cleanable node recorded go to the    *)
(* run that will compare them.                                             *)
StartEffect(N) ==
    /\ N \subseteq nodes /\ \A n \in N : IsStartable(n)
    /\ entry' = [n \in Node |-> IF n \in N THEN Started(n) ELSE entry[n]]
    /\ UNCHANGED <<nodes, edges, client>>

LEMMA StartFacts ==
    ASSUME TypeOK, NEW N, StartEffect(N)
    PROVE  /\ \A d \in Node : GenMove(d)
           /\ \A d \in Cacheable : StaysClean(d)
           /\ \A n \in Node : Begins(edges[n], edges'[n])
           /\ \A n \in N : /\ n \in Node /\ entry'[n].phase = "Running"
                           /\ entry'[n].token = entry[n].token + 1
           /\ \A n \in Node \ N : entry'[n] = entry[n]
<1>0. /\ N \subseteq Node /\ Cacheable \subseteq Node
      /\ \A n \in Node : entry[n].gen \in Nat
  BY NodeAssumption DEF TypeOK, EntryState, StartEffect
<1>1. /\ \A n \in N : entry'[n] = Started(n)
      /\ \A n \in Node \ N : entry'[n] = entry[n]
  BY <1>0 DEF StartEffect
<1>2. ASSUME NEW n \in N
      PROVE  /\ n \in Node /\ entry'[n].phase = "Running" /\ entry'[n].token = entry[n].token + 1
             /\ entry'[n].gen = entry[n].gen /\ (n \in Cacheable => entry'[n].res = entry[n].res)
  BY <1>0, <1>1, StartedEffect
<1>3. ASSUME NEW d \in Node PROVE GenMove(d)
  <2>1. entry'[d].gen = entry[d].gen /\ (d \in Cacheable => entry'[d].res = entry[d].res)
    BY <1>1, <1>2
  <2> QED
    BY <1>0, <2>1 DEF GenMove
<1>4. ASSUME NEW d \in Cacheable PROVE StaysClean(d)
  <2>1. CASE d \in N
    BY <2>1 DEF StaysClean, StartEffect, IsStartable, IsReady, IsClean
  <2>2. CASE d \notin N
    BY <1>0, <1>1, <2>2 DEF StaysClean, IsClean
  <2> QED
    BY <2>1, <2>2
<1>5. \A n \in Node : Begins(edges[n], edges'[n])
  BY BeginsSelf DEF StartEffect
<1> QED
  BY <1>1, <1>2, <1>3, <1>4, <1>5

LEMMA StartFresh ==
    ASSUME FreshInv, RunInv', NEW N, StartEffect(N),
           \A a \in runs' : a \in runs \/ (\E n \in N : a = StartedRun(n)) \/ RunGood(a)'
    PROVE  FreshInv'
<1>0. TypeOK /\ TypeOK' /\ TokenInv /\ RunsGood /\ EntriesFresh /\ NodesInv /\ Cacheable \subseteq Node /\ nodes' = nodes
  BY NodeAssumption DEF FreshInv, RunInv, StartEffect
<1>1. /\ \A d \in Node : GenMove(d)
      /\ \A d \in Cacheable : StaysClean(d)
      /\ \A n \in Node : Begins(edges[n], edges'[n])
      /\ \A n \in N : /\ n \in Node /\ entry'[n].phase = "Running"
                      /\ entry'[n].token = entry[n].token + 1
      /\ \A n \in Node \ N : entry'[n] = entry[n]
  BY <1>0, StartFacts
<1>2. \A n \in Node : entry[n] \in EntryState /\ entry[n].token \in Nat /\ entry[n].depGens \in Seq(Nat)
  BY <1>0 DEF TypeOK, EntryState
<1>3. ASSUME NEW n \in Node \ N PROVE EntryStays(n) /\ (entry'[n].phase = "Completed" => ValueStays(n))
  BY <1>1 DEF EntryStays, ValueStays, IsClean
<1>4. ASSUME NEW a \in runs, a \in runs' PROVE RunGood(a)'
  <2>1. a \in RunState /\ a.node \in Node /\ a.token \in Nat /\ RunGood(a) /\ a.token <= entry[a.node].token
    BY <1>0 DEF TypeOK, RunState, RunsGood, TokenInv
  <2>2. a.token = entry'[a.node].token => EntryStays(a.node)
    BY <1>1, <1>2, <1>3, <2>1
  <2>3. a.wait \subseteq Node
    BY <2>1 DEF RunState
  <2>4. \A d \in a.wait : entry[d].phase = "Running" => entry'[d].phase = "Running"
    BY <1>1, <2>3
  <2> QED
    BY <1>0, <1>1, <2>1, <2>2, <2>4, SameRun, RunKept
<1>5. ASSUME NEW n \in N, NEW a \in runs', a = StartedRun(n) PROVE RunGood(a)'
  <2>1. n \in Node /\ entry'[n].phase = "Running"
    BY <1>1
  <2>2. CASE IsCleanable(n)
    <3>1. PICK prev, token, u : prev = entry[n].depGens /\ token = entry[n].token + 1 /\ u = entry[n].used
      OBVIOUS
    <3>2. a = NewRun(n, token, "check", prev)
      BY <1>5, <2>2, <3>1 DEF StartedRun
    <3>3. entry'[n] = Started(n)
      BY <2>1 DEF StartEffect
    <3>4. entry'[n].res = entry[n].res /\ entry'[n].used = u
      BY <1>0, <2>1, <2>2, <3>1, <3>3, StartedEffect DEF IsCleanable
    <3>5. entry[n].res # None /\ GensTell(n, prev, u)
      BY <1>0, <2>1, <2>2, <3>1 DEF IsCleanable, EntriesFresh, EntryFresh
    <3>6. GensTell(n, prev, u)'
      BY <1>0, <1>1, <1>2, <2>1, <3>1, <3>5, GensTellKept
    <3>7. RunGood(NewRun(n, token, "check", prev))'
      BY <2>1, <3>4, <3>5, <3>6, NewRunGood
    <3> QED
      BY <3>2, <3>7
  <2>3. CASE ~IsCleanable(n)
    <3>1. PICK token : token = entry[n].token + 1
      OBVIOUS
    <3>2. a = NewRun(n, token, "run", <<>>)
      BY <1>5, <2>3, <3>1 DEF StartedRun
    <3>3. RunGood(NewRun(n, token, "run", <<>>))'
      BY <2>1, NewRunGood
    <3> QED
      BY <3>2, <3>3
  <2> QED
    BY <2>2, <2>3
<1>6. RunsGood'
  BY <1>4, <1>5 DEF RunsGood
<1>7. EntriesFresh'
  <2> SUFFICES ASSUME NEW n \in Node PROVE EntryFresh(n)'
    BY DEF EntriesFresh
  <2>1. entry'[n].phase = "Completed" => ValueStays(n)
    BY <1>1, <1>3
  <2> QED
    BY <1>0, <1>1, <2>1, EntryKept DEF EntriesFresh
<1>8. NodesInv'
  <2>1. \A n \in Node : Out(n)' \subseteq Out(n)
    BY SameOut DEF StartEffect
  <2>2. \A n \in Node : entry'[n].phase # "NotStarted" => entry[n].phase # "NotStarted" \/ n \in nodes'
    BY <1>0, <1>1 DEF StartEffect
  <2> QED
    BY <1>0, <2>1, <2>2, NodesKept DEF StartEffect
<1> QED
  BY <1>6, <1>7, <1>8 DEF FreshInv

(* Entry::get by a client. *)
LEMMA ClientGetFresh ==
    ASSUME FreshInv, RunInv', NEW c \in Client, NEW n \in Node, ClientGet(c, n)
    PROVE  FreshInv'
<1>0. TypeOK /\ NodesInv /\ client \in [Client -> ClientState] /\ client[c] \in ClientState
  BY DEF FreshInv, RunInv, TypeOK
<1>1. CASE /\ IsStartable(n) /\ entry' = [entry EXCEPT ![n] = Started(n)]
           /\ runs' = runs \cup {StartedRun(n)} /\ UNCHANGED client
  <2>1. entry' = [m \in Node |-> IF m \in {n} THEN Started(m) ELSE entry[m]]
    BY <1>0, <1>1 DEF TypeOK
  <2>2. n \in nodes
    BY <1>0 DEF ClientGet, NodesInv
  <2>3. StartEffect({n})
    BY <1>1, <2>1, <2>2 DEF StartEffect, ClientGet
  <2> QED
    BY <1>1, <2>3, StartFresh
<1>2. CASE /\ UNCHANGED <<entry, runs>>
           /\ client' = [client EXCEPT ![c] =
                IF IsReady(n)
                THEN [client[c] EXCEPT !.claim = @ \ {n}, !.got[n] = entry[n].res]
                ELSE [client[c] EXCEPT !.claim = @ \ {n}, !.wait = @ \cup {n}]]
  <2>1. \A x \in Client : client'[x].claim \subseteq client[x].claim
    <3>1. /\ [client[c] EXCEPT !.claim = @ \ {n}, !.got[n] = entry[n].res].claim = client[c].claim \ {n}
          /\ [client[c] EXCEPT !.claim = @ \ {n}, !.wait = @ \cup {n}].claim = client[c].claim \ {n}
      BY <1>0 DEF ClientState
    <3>2. client'[c].claim = client[c].claim \ {n}
      BY <1>0, <1>2, <3>1
    <3>3. \A x \in Client \ {c} : client'[x] = client[x]
      BY <1>0, <1>2
    <3> QED
      BY <3>2, <3>3
  <2> QED
    BY <1>2, <2>1, OutsideFresh DEF ClientGet
<1> QED
  BY <1>1, <1>2 DEF ClientGet

(* Graph::dep_generations. *)
LEMMA DepGenerationsFresh == ASSUME FreshInv, RunInv', NEW r \in runs, DepGenerations(r) PROVE FreshInv'
<1> DEFINE n == r.node
           deps == Out(n)
           start == {d \in deps : IsStartable(d)}
           ready == {d \in deps : IsReady(d)}
           wait == deps \ ready
           got == [d \in Node |-> IF d \in ready THEN entry[d].res ELSE None]
           gens == [d \in Node |-> IF d \in ready THEN entry[d].gen ELSE 0]
           new == [r EXCEPT !.pc = "checking", !.deps = edges[n], !.wait = wait,
                            !.got = got, !.gens = gens]
<1>0. /\ TypeOK /\ TypeOK' /\ TokenInv /\ EntriesFresh /\ NodesInv /\ RunGood(r)
      /\ r \in RunState /\ n \in Node /\ r.token \in Nat /\ edges[n] \in Seq(Node)
      /\ Cacheable \subseteq Node
  BY NodeAssumption DEF FreshInv, RunInv, TypeOK, RunState, RunsGood
<1>1. /\ entry' = [m \in Node |-> IF m \in start THEN Started(m) ELSE entry[m]]
      /\ runs' = (runs \ {r}) \cup {StartedRun(d) : d \in start} \cup {new}
      /\ UNCHANGED <<nodes, edges, client>>
  BY DEF DepGenerations
<1>2. PICK N, W, g, k, s, a : N = start /\ W = wait /\ g = got /\ k = gens /\ s = edges[n] /\ a = new
  OBVIOUS
<1>3. /\ a.node = n /\ a.token = r.token /\ a.pc = "checking" /\ a.prev = r.prev /\ a.deps = s
      /\ a.claim = r.claim /\ a.wait = W /\ a.got = g /\ a.gens = k
  BY <1>0, <1>2 DEF RunState
<1>4. StartEffect(N)
  BY <1>0, <1>1, <1>2 DEF StartEffect, NodesInv
<1>5. /\ \A d \in Node : GenMove(d)
      /\ \A d \in Cacheable : StaysClean(d)
      /\ \A m \in Node : Begins(edges[m], edges'[m])
      /\ \A m \in N : /\ m \in Node /\ entry'[m].phase = "Running"
                      /\ entry'[m].token = entry[m].token + 1
      /\ \A m \in Node \ N : entry'[m] = entry[m]
  BY <1>0, <1>4, StartFacts
<1>6. /\ W \subseteq Out(n) /\ Out(n) \subseteq Node
      /\ \A d \in W : d \in N \/ entry[d].phase = "Running"
  BY <1>0, <1>2 DEF IsStartable, Out
<1>7. \A d \in Node : g[d] # None => d \in Out(n) /\ IsReady(d) /\ g[d] = entry[d].res /\ k[d] = entry[d].gen
  BY <1>2
<1>8. \A d \in Out(n) : d \in W \/ g[d] # None
  <2>1. \A d \in Node : IsReady(d) => entry[d].res # None
    BY <1>0 DEF IsReady, EntriesFresh, EntryFresh
  <2> QED
    BY <1>2, <1>6, <2>1
<1> HIDE DEF deps, start, ready, wait, got, gens, new, n
<1>9. RunGood(a)'
  <2>1. r.claim \subseteq nodes'
    BY <1>0, <1>1 DEF RunGood
  <2> SUFFICES ASSUME r.token = entry'[n].token
               PROVE  entry'[n].phase = "Running" /\ RunFresh(a)'
    BY <1>3, <2>1 DEF RunGood, Current
  <2>2. n \notin N
    <3>1. r.token <= entry[n].token /\ entry[n].token \in Nat
      BY <1>0 DEF TokenInv, TypeOK, EntryState, n
    <3> QED
      BY <1>0, <1>5, <3>1
  <2>3. entry'[n] = entry[n]
    BY <1>0, <1>5, <2>2
  <2>4. entry[n].phase = "Running" /\ RunFresh(r)
    BY <1>0, <2>3 DEF RunGood, Current, n
  <2>5. Out(n)' = Out(n)
    BY <1>1 DEF Out
  <2>6. Waiting(a)'
    <3>1. r.claim = {}
      BY <2>4 DEF RunFresh, Waiting, DepGenerations
    <3>2. \A d \in W : entry'[d].phase = "Running"
      BY <1>5, <1>6
    <3> QED
      BY <1>3, <1>6, <2>5, <3>1, <3>2 DEF Waiting
  <2>7. ASSUME NEW d \in Cacheable, Obtained(g[d])
        PROVE  d \in Out(n)' /\ IsClean(d)' /\ entry'[d].res = g[d] /\ k[d] = entry'[d].gen
    <3>1. d \in Out(n) /\ IsReady(d) /\ g[d] = entry[d].res /\ k[d] = entry[d].gen
      BY <1>0, <1>7, <2>7, NothingObtained
    <3>2. IsClean(d)
      BY <3>1 DEF IsReady, IsClean
    <3> QED
      BY <1>5, <2>5, <3>1, <3>2 DEF StaysClean
  <2>8. HoldsFresh(a)'
    BY <1>3, <2>7 DEF HoldsFresh, Fresh
  <2>9. MayFindClean(a)'
    <3>1. PICK u, prev : u = entry[n].used /\ prev = r.prev
      OBVIOUS
    <3>2. r.pc = "check" /\ prev \in Seq(Nat)
      BY <1>0, <3>1 DEF DepGenerations, RunState
    <3>3. entry[n].res # None /\ GensTell(n, prev, u)
      BY <2>4, <3>1, <3>2 DEF RunFresh, MayFindClean, n
    <3>4. GensTell(n, prev, u)'
      BY <1>0, <1>5, <3>2, <3>3, GensTellKept
    <3> QED
      BY <1>3, <2>3, <3>1, <3>3, <3>4 DEF MayFindClean
  <2>10. Compares(a)'
    <3>1. Begins(s, edges'[n])
      BY <1>0, <1>2, <1>5
    <3>2. \A i \in 1..Len(s) : s[i] \in W \/ g[s[i]] # None
      <4>1. \A i \in 1..Len(s) : s[i] \in Out(n)
        BY <1>0, <1>2 DEF Out
      <4> QED
        BY <1>8, <4>1
    <3> QED
      BY <1>3, <2>7, <3>1, <3>2 DEF Compares
  <2>11. WasFoundClean(a)' /\ HasCollected(a)'
    BY <1>3 DEF WasFoundClean, HasCollected
  <2> QED
    BY <2>3, <2>4, <2>6, <2>8, <2>9, <2>10, <2>11 DEF RunFresh
<1>10. \A b \in runs' : b \in runs \/ (\E m \in N : b = StartedRun(m)) \/ b = a
  BY <1>1, <1>2
<1> QED
  BY <1>4, <1>9, <1>10, StartFresh

-----------------------------------------------------------------------------
(* The steps of a run that leave the entries and the edges alone. *)
LEMMA ReplaceFresh ==
    ASSUME FreshInv, RunInv', NEW r \in runs, NEW new, Replace(r, new),
           UNCHANGED <<nodes, entry, edges, client>>,
           new.node = r.node, new.token = r.token, new.claim \subseteq r.claim,
           RunFresh(r) => RunFresh(new)
    PROVE  FreshInv'
<1>0. TypeOK /\ NodesInv /\ RunGood(r)
  BY DEF FreshInv, RunInv, RunsGood
<1>1. RunGood(new)
  BY <1>0 DEF RunGood, Current
<1>2. /\ Waiting(new) = Waiting(new)' /\ HoldsFresh(new) = HoldsFresh(new)'
      /\ MayFindClean(new) = MayFindClean(new)' /\ Compares(new) = Compares(new)'
      /\ WasFoundClean(new) = WasFoundClean(new)'
      /\ HasCollected(new) = HasCollected(new)'
  BY DEF Waiting, HoldsFresh, MayFindClean, Compares, WasFoundClean, HasCollected, UsedBy,
         Out, IsClean, Fresh, GensTell, Tells, Covers
<1>3. RunGood(new)'
  BY <1>1, <1>2 DEF RunGood, RunFresh, Current
<1>4. NodesInv'
  BY <1>0 DEF NodesInv, Out
<1>5. \A n \in Node : Begins(edges[n], edges'[n])
  BY <1>0, BeginsSelf
<1> QED
  BY <1>3, <1>4, <1>5, QuietFresh DEF Replace

(* No dependency changed: by MayFindClean the values are those used.       *)
LEMMA FoundCleanFresh == ASSUME FreshInv, RunInv', NEW r \in runs, FoundClean(r) PROVE FreshInv'
<1>0. TypeOK /\ r \in RunState /\ r.node \in Node /\ r.pc = "checking" /\ Cacheable \subseteq Node
  BY NodeAssumption DEF FreshInv, RunInv, TypeOK, RunState, FoundClean
<1>1. PICK new : new = NewRun(r.node, r.token, "finished", <<>>)
  OBVIOUS
<1>2. /\ new.node = r.node /\ new.token = r.token /\ new.pc = "finished" /\ new.claim = {} /\ new.wait = {}
      /\ new.out = None /\ \A d \in Node : new.got[d] = None
  BY <1>1 DEF NewRun, NoAnswers
<1>3. ASSUME RunFresh(r) PROVE RunFresh(new)
  <2>1. Waiting(new) /\ MayFindClean(new) /\ Compares(new) /\ HasCollected(new)
    BY <1>2 DEF Waiting, MayFindClean, Compares, HasCollected
  <2>2. HoldsFresh(new)
    BY <1>0, <1>2, NothingObtained DEF HoldsFresh, Fresh
  <2> DEFINE n == r.node
             u == entry[n].used
  <2>3. entry[n].res # None /\ GensTell(n, r.prev, u)
    BY <1>0, <1>3 DEF RunFresh, MayFindClean
  <2>4. ASSUME ~entry[n].dirty, NEW d \in Cacheable, Obtained(u[d])
        PROVE  d \in Out(n) /\ IsClean(d) /\ entry[d].res = u[d]
    <3>1. PICK i \in 1..Len(r.prev) : edges[n][i] = d
      BY <2>3, <2>4 DEF GensTell, Covers
    <3>2. r.prev \in Seq(Nat) /\ r.deps \in Seq(Node) /\ [j \in DOMAIN r.deps |-> r.gens[r.deps[j]]] = r.prev
      BY <1>0 DEF RunState, FoundClean, DepsMatch
    <3>3. DOMAIN r.deps = 1..Len(r.deps) /\ DOMAIN r.prev = 1..Len(r.prev) /\ DOMAIN r.prev = DOMAIN r.deps
      BY <3>2
    <3>4. i \in 1..Len(r.deps) /\ r.prev[i] = r.gens[r.deps[i]]
      BY <3>2, <3>3
    <3>5. r.deps[i] = d
      BY <1>0, <1>3, <3>1, <3>4 DEF RunFresh, Compares, Begins
    <3>6. r.got[d] # None /\ r.got[d] \notin Failure
      BY <1>0, <1>3, <3>4, <3>5 DEF RunFresh, Compares, FoundClean, CheckFailed
    <3>7. Obtained(r.got[d])
      BY <1>0, <3>6 DEF RunState, Answers, Outcome, Obtained
    <3>8. d \in Out(n) /\ IsClean(d)
      BY <1>3, <2>4, <3>7 DEF RunFresh, HoldsFresh, Fresh
    <3>9. r.gens[d] = entry[d].gen
      BY <1>0, <1>3, <2>4, <3>7 DEF RunFresh, Compares
    <3>10. Tells(d, r.prev[i], u[d])
      BY <2>3, <3>1 DEF GensTell
    <3>11. entry[d].res = u[d]
      BY <2>4, <3>4, <3>5, <3>9, <3>10 DEF Tells
    <3> QED
      BY <3>8, <3>11
  <2>5. WasFoundClean(new)
    BY <1>2, <2>3, <2>4 DEF WasFoundClean, Fresh
  <2> QED
    BY <2>1, <2>2, <2>5 DEF RunFresh
<1>4. Replace(r, new) /\ UNCHANGED <<nodes, entry, edges, client>>
  BY <1>1 DEF FoundClean
<1> QED
  BY <1>2, <1>3, <1>4, ReplaceFresh

(* A run that is inside Node::run compares nothing. *)
LEMMA RunningFresh ==
    ASSUME NEW r, r.pc = "run", Waiting(r), HoldsFresh(r)
    PROVE  RunFresh(r)
  BY DEF RunFresh, MayFindClean, Compares, WasFoundClean, HasCollected

(* An answer that gives the run no value: the request is refused. *)
LEMMA GetRefusedFresh ==
    ASSUME FreshInv, RunInv', NEW r \in runs, NEW d \in Node, GetWhileDraining(r, d) \/ GetFindsCycle(r, d)
    PROVE  FreshInv'
<1>0. r \in RunState /\ r.pc = "run" /\ Cacheable \subseteq Node
  BY NodeAssumption DEF FreshInv, RunInv, TypeOK, GetWhileDraining, GetFindsCycle, Requests
<1>1. ~Obtained(Invalidated) /\ ~Obtained(Cyclic)
  BY OutcomeAssumption DEF Obtained, Failure
<1>2. PICK x, new : /\ ~Obtained(x) /\ Replace(r, new)
                    /\ new = [r EXCEPT !.got[d] = x] \/ new = [r EXCEPT !.got[d] = x, !.cyc = None, !.tries = 0]
  BY <1>1 DEF GetWhileDraining, GetFindsCycle
<1>3. /\ new.node = r.node /\ new.token = r.token /\ new.pc = "run" /\ new.claim = r.claim /\ new.wait = r.wait
      /\ new.got = [r.got EXCEPT ![d] = x]
  BY <1>0, <1>2 DEF RunState
<1>4. \A e \in Node : Obtained(new.got[e]) => new.got[e] = r.got[e]
  BY <1>0, <1>2, <1>3 DEF RunState, Answers
<1>5. ASSUME RunFresh(r) PROVE RunFresh(new)
  <2>1. Waiting(new)
    BY <1>3, <1>5 DEF RunFresh, Waiting
  <2>2. HoldsFresh(new)
    BY <1>0, <1>3, <1>4, <1>5 DEF RunFresh, HoldsFresh, Fresh
  <2> QED
    BY <1>3, <2>1, <2>2, RunningFresh
<1> QED
  BY <1>2, <1>3, <1>5, ReplaceFresh DEF GetWhileDraining, GetFindsCycle

(* An edge is added before the dependency is asked. *)
LEMMA GetAddsEdgeFresh ==
    ASSUME FreshInv, RunInv', NEW r \in runs, NEW d \in Node, GetAddsEdge(r, d)
    PROVE  FreshInv'
<1> DEFINE n == r.node
<1>0. /\ TypeOK /\ TypeOK' /\ r \in RunState /\ n \in Node /\ r.pc = "run" /\ NodesInv /\ RunGood(r)
      /\ edges[n] \in Seq(Node)
  BY DEF FreshInv, RunInv, TypeOK, RunState, RunsGood, GetAddsEdge, Requests
<1>1. PICK new : new = [r EXCEPT !.claim = @ \cup {d}, !.cyc = None, !.tries = 0]
  OBVIOUS
<1>2. /\ new.node = n /\ new.token = r.token /\ new.pc = "run" /\ new.claim = r.claim \cup {d}
      /\ new.wait = r.wait /\ new.got = r.got
  BY <1>0, <1>1 DEF RunState
<1>3. /\ nodes' = nodes \cup {d} /\ edges' = [edges EXCEPT ![n] = Append(edges[n], d)]
      /\ Replace(r, new) /\ UNCHANGED <<entry, client>>
  BY <1>0, <1>1 DEF GetAddsEdge
<1>4. edges'[n] = Append(edges[n], d) /\ \A m \in Node \ {n} : edges'[m] = edges[m]
  BY <1>0, <1>3 DEF TypeOK
<1>5. Begins(edges[n], edges'[n]) /\ Out(n)' = Out(n) \cup {d}
  <2>1. /\ Len(edges'[n]) = Len(edges[n]) + 1 /\ Len(edges[n]) \in Nat
        /\ \A i \in 1..Len(edges[n]) : edges'[n][i] = edges[n][i]
        /\ edges'[n][Len(edges[n]) + 1] = d
        /\ DOMAIN edges[n] = 1..Len(edges[n]) /\ DOMAIN edges'[n] = 1..(Len(edges[n]) + 1)
    BY <1>0, <1>4
  <2>2. Begins(edges[n], edges'[n])
    BY <2>1 DEF Begins
  <2>3. \A i \in DOMAIN edges'[n] : i \in DOMAIN edges[n] \/ i = Len(edges[n]) + 1
    BY <2>1
  <2>4. DOMAIN edges[n] \subseteq DOMAIN edges'[n] /\ Len(edges[n]) + 1 \in DOMAIN edges'[n]
    BY <2>1
  <2>5. Out(n)' = Out(n) \cup {d}
    BY <2>1, <2>3, <2>4 DEF Out
  <2> QED
    BY <2>2, <2>5
<1>6. \A m \in Node : Begins(edges[m], edges'[m])
  BY <1>0, <1>4, <1>5, BeginsSelf
<1>7. NodesInv'
  <2>1. \A m \in Node \ {n} : Out(m)' = Out(m)
    BY <1>4 DEF Out
  <2>2. \A m \in Node : Out(m)' \subseteq Out(m) \cup nodes'
    BY <1>3, <1>5, <2>1
  <2> QED
    BY <1>0, <1>3, <2>2, NodesKept
<1> HIDE DEF n
<1>8. RunGood(new)'
  <2> SUFFICES ASSUME r.token = entry[n].token PROVE entry[n].phase = "Running" /\ RunFresh(new)'
    BY <1>0, <1>2, <1>3 DEF RunGood, Current
  <2>1. entry[n].phase = "Running" /\ RunFresh(r)
    BY <1>0 DEF RunGood, Current, n
  <2>2. Waiting(new)'
    BY <1>2, <1>3, <1>5, <2>1 DEF RunFresh, Waiting, n
  <2>3. HoldsFresh(new)'
    BY <1>2, <1>3, <1>5, <2>1 DEF RunFresh, HoldsFresh, Fresh, IsClean, n
  <2> QED
    BY <1>2, <2>1, <2>2, <2>3 DEF RunFresh, MayFindClean, Compares, WasFoundClean, HasCollected
<1> QED
  BY <1>3, <1>6, <1>7, <1>8, QuietFresh DEF Replace

(* Graph::get, after the lock. *)
LEMMA RunGetFresh ==
    ASSUME FreshInv, RunInv', NEW r \in runs, NEW d \in Node, RunGet(r, d)
    PROVE  FreshInv'
<1>0. TypeOK /\ r \in RunState /\ d \in r.claim /\ RunGood(r) /\ UNCHANGED <<nodes, edges, client>>
  BY DEF FreshInv, RunInv, TypeOK, RunsGood, RunGet
<1>1. CASE IsStartable(d) /\ entry' = [entry EXCEPT ![d] = Started(d)] /\ runs' = runs \cup {StartedRun(d)}
  <2>1. entry' = [m \in Node |-> IF m \in {d} THEN Started(m) ELSE entry[m]]
    BY <1>0, <1>1 DEF TypeOK
  <2>2. StartEffect({d})
    BY <1>0, <1>1, <2>1 DEF StartEffect, RunGood
  <2> QED
    BY <1>1, <2>2, StartFresh
<1>2. CASE /\ IsReady(d) /\ UNCHANGED entry
           /\ Replace(r, [r EXCEPT !.claim = @ \ {d}, !.got[d] = entry[d].res])
  <2>1. PICK new : new = [r EXCEPT !.claim = @ \ {d}, !.got[d] = entry[d].res]
    OBVIOUS
  <2>2. /\ new.node = r.node /\ new.token = r.token /\ new.pc = r.pc /\ new.claim = r.claim \ {d} /\ new.wait = r.wait
        /\ new.got = [r.got EXCEPT ![d] = entry[d].res] /\ r.got \in Answers
    BY <1>0, <2>1 DEF RunState
  <2>3. new.got[d] = entry[d].res /\ \A e \in Node \ {d} : new.got[e] = r.got[e]
    BY <2>2 DEF Answers
  <2>4. ASSUME RunFresh(r) PROVE RunFresh(new)
    <3>1. r.pc = "run" /\ d \in Out(r.node)
      BY <1>0, <2>4 DEF RunFresh, Waiting
    <3>2. Waiting(new)
      BY <2>2, <2>4 DEF RunFresh, Waiting
    <3>3. HoldsFresh(new)
      BY <1>2, <2>2, <2>3, <2>4, <3>1, NodeAssumption DEF RunFresh, HoldsFresh, Fresh, IsReady, IsClean
    <3> QED
      BY <2>2, <3>1, <3>2, <3>3, RunningFresh
  <2> QED
    BY <1>0, <1>2, <2>1, <2>2, <2>4, ReplaceFresh
<1>3. CASE /\ entry[d].phase = "Running" /\ UNCHANGED entry
           /\ Replace(r, [r EXCEPT !.claim = @ \ {d}, !.wait = @ \cup {d}])
  <2>1. PICK new : new = [r EXCEPT !.claim = @ \ {d}, !.wait = @ \cup {d}]
    OBVIOUS
  <2>2. /\ new.node = r.node /\ new.token = r.token /\ new.pc = r.pc /\ new.claim = r.claim \ {d}
        /\ new.wait = r.wait \cup {d} /\ new.got = r.got
    BY <1>0, <2>1 DEF RunState
  <2>3. ASSUME RunFresh(r) PROVE RunFresh(new)
    <3>1. r.pc = "run"
      BY <1>0, <2>3 DEF RunFresh, Waiting
    <3>2. Waiting(new)
      BY <1>0, <1>3, <2>2, <2>3, <3>1 DEF RunFresh, Waiting
    <3>3. HoldsFresh(new)
      BY <2>2, <2>3 DEF RunFresh, HoldsFresh
    <3> QED
      BY <2>2, <3>1, <3>2, <3>3, RunningFresh
  <2> QED
    BY <1>0, <1>3, <2>1, <2>2, <2>3, ReplaceFresh
<1> QED
  BY <1>1, <1>2, <1>3 DEF RunGet

(* Node::run returns. *)
LEMMA FinishFresh == ASSUME FreshInv, RunInv', NEW r \in runs, Finish(r) PROVE FreshInv'
<1>0. r \in RunState /\ r.claim = {} /\ UNCHANGED <<nodes, entry, edges, client>>
  BY DEF FreshInv, RunInv, TypeOK, Finish
<1>1. PICK out \in Outcome : Replace(r, [r EXCEPT !.pc = "finished", !.wait = {}, !.out = out])
  BY DEF Finish
<1>2. PICK new : new = [r EXCEPT !.pc = "finished", !.wait = {}, !.out = out]
  OBVIOUS
<1>3. /\ new.node = r.node /\ new.token = r.token /\ new.pc = "finished" /\ new.claim = {} /\ new.wait = {}
      /\ new.out # None /\ new.got = r.got
  BY <1>0, <1>2, OutcomeAssumption DEF RunState
<1>4. ASSUME RunFresh(r) PROVE RunFresh(new)
  <2>1. HoldsFresh(new)
    BY <1>3, <1>4 DEF RunFresh, HoldsFresh
  <2> QED
    BY <1>3, <2>1 DEF RunFresh, Waiting, MayFindClean, Compares, WasFoundClean, HasCollected
<1> QED
  BY <1>0, <1>1, <1>2, <1>3, <1>4, ReplaceFresh

(* The generations of dependencies whose values are those that were used.  *)
LEMMA FreshGenerations ==
    ASSUME TypeOK, NEW n \in Node, NEW ans, Fresh(n, ans)
    PROVE  GensTell(n, [i \in DOMAIN edges[n] |-> entry[edges[n][i]].gen], ans)
<1>1. edges[n] \in Seq(Node) /\ \A m \in Node : entry[m].gen \in Nat
  BY DEF TypeOK, EntryState
<1>2. PICK gens : gens = [i \in DOMAIN edges[n] |-> entry[edges[n][i]].gen]
  OBVIOUS
<1>3. /\ Len(edges[n]) \in Nat /\ DOMAIN edges[n] = 1..Len(edges[n])
      /\ \A i \in 1..Len(edges[n]) : edges[n][i] \in Node
  BY <1>1
<1>4. gens \in Seq(Nat) /\ Len(gens) = Len(edges[n])
  <2>1. gens \in Seq(Nat)
    BY <1>2, GenerationsType
  <2>2. DOMAIN gens = 1..Len(edges[n])
    BY <1>2, <1>3
  <2> QED
    BY <1>3, <2>1, <2>2
<1>5. \A i \in 1..Len(gens) : Tells(edges[n][i], gens[i], ans[edges[n][i]])
  <2> TAKE i \in 1..Len(gens)
  <2>1. edges[n][i] \in Node /\ gens[i] = entry[edges[n][i]].gen /\ entry[edges[n][i]].gen \in Nat
    BY <1>1, <1>2, <1>3, <1>4
  <2> QED
    BY <2>1 DEF Tells, Fresh
<1>6. Covers(n, gens, ans)
  BY <1>3, <1>4 DEF Covers, Fresh, Out
<1>7. Len(gens) <= Len(edges[n])
  BY <1>3, <1>4
<1>8. GensTell(n, gens, ans)
  BY <1>5, <1>6, <1>7 DEF GensTell
<1> QED
  BY <1>2, <1>8

LEMMA UsedByFresh ==
    ASSUME NEW r, RunFresh(r), r.pc \in {"finished", "collected"}, ~entry[r.node].dirty
    PROVE  Fresh(r.node, UsedBy(r))
  BY DEF RunFresh, HoldsFresh, WasFoundClean, UsedBy

LEMMA CollectGenerationsFresh ==
    ASSUME FreshInv, RunInv', NEW r \in runs, CollectGenerations(r)
    PROVE  FreshInv'
<1>0. /\ TypeOK /\ r \in RunState /\ r.node \in Node /\ r.pc = "finished"
      /\ UNCHANGED <<nodes, entry, edges, client>>
  BY DEF FreshInv, RunInv, TypeOK, RunState, CollectGenerations
<1>1. PICK gens : gens = [i \in DOMAIN edges[r.node] |-> entry[edges[r.node][i]].gen]
  OBVIOUS
<1>2. PICK new : new = [r EXCEPT !.pc = "collected", !.depGens = gens]
  OBVIOUS
<1>3. /\ new.node = r.node /\ new.token = r.token /\ new.pc = "collected" /\ new.claim = r.claim
      /\ new.wait = r.wait /\ new.out = r.out /\ new.got = r.got /\ new.depGens = gens
  BY <1>0, <1>2 DEF RunState
<1>4. ASSUME RunFresh(r) PROVE RunFresh(new)
  <2>1. Waiting(new) /\ HoldsFresh(new) /\ MayFindClean(new) /\ Compares(new) /\ WasFoundClean(new)
    BY <1>0, <1>3, <1>4 DEF RunFresh, Waiting, HoldsFresh, MayFindClean, Compares, WasFoundClean
  <2>2. UsedBy(new) = UsedBy(r)
    BY <1>3 DEF UsedBy
  <2>3. ~entry[r.node].dirty => GensTell(r.node, gens, UsedBy(r))
    BY <1>0, <1>1, <1>4, UsedByFresh, FreshGenerations
  <2>4. HasCollected(new)
    BY <1>3, <2>2, <2>3 DEF HasCollected
  <2> QED
    BY <2>1, <2>4 DEF RunFresh
<1> QED
  BY <1>0, <1>1, <1>2, <1>3, <1>4, ReplaceFresh DEF CollectGenerations

-----------------------------------------------------------------------------
(* The steps by which a live run ends, or starts over. *)
EndEffect(r) ==
    /\ Live(r)
    /\ entry'[r.node].token \in {r.token, r.token + 1}
    /\ entry'[r.node].phase = "NotStarted" \/ r.node \in nodes
    /\ \A m \in Node \ {r.node} : entry'[m] = entry[m] /\ edges'[m] = edges[m]
    /\ edges'[r.node] = edges[r.node] \/ edges'[r.node] = <<>>
    /\ nodes' = nodes
    /\ \A c \in Client : client'[c].claim = client[c].claim

LEMMA EndFacts ==
    ASSUME FreshInv, NEW r \in runs, EndEffect(r)
    PROVE  /\ \A d \in Node : StaysClean(d)
           /\ \A m \in Node \ {r.node} : Begins(edges[m], edges'[m]) /\ (GenMove(r.node) => GenMove(m))
<1>0. TypeOK /\ \A m \in Node : entry[m].gen \in Nat
  BY DEF FreshInv, RunInv, TypeOK, EntryState
<1>1. \A d \in Node : StaysClean(d)
  BY DEF StaysClean, IsClean, EndEffect, Live
<1>2. \A m \in Node \ {r.node} : Begins(edges[m], edges'[m]) /\ GenMove(m)
  BY <1>0, BeginsSelf DEF EndEffect, GenMove
<1> QED
  BY <1>1, <1>2

LEMMA EndFresh ==
    ASSUME FreshInv, RunInv', NEW r \in runs, EndEffect(r), GenMove(r.node), EntryFresh(r.node)',
           \A a \in runs' :
              \/ /\ \E q \in runs \ {r} : RunMove(q, a)
                 /\ r.node \in a.wait => entry'[r.node].phase = "Running"
              \/ RunGood(a)'
    PROVE  FreshInv'
<1> DEFINE n == r.node
<1>0. /\ TypeOK /\ TypeOK' /\ TokenInv /\ RunsGood /\ EntriesFresh /\ NodesInv /\ Cacheable \subseteq Node
      /\ nodes' = nodes /\ r \in RunState /\ n \in Node /\ r.token \in Nat
  BY NodeAssumption DEF FreshInv, RunInv, TypeOK, RunState, EndEffect
<1>1. /\ \A d \in Node : GenMove(d) /\ StaysClean(d)
      /\ \A m \in Node \ {n} : /\ entry'[m] = entry[m] /\ edges'[m] = edges[m]
                               /\ Begins(edges[m], edges'[m])
  BY EndFacts DEF EndEffect
<1>2. /\ Live(r) /\ entry'[n].token \in {r.token, r.token + 1}
      /\ edges'[n] = edges[n] \/ edges'[n] = <<>>
      /\ entry'[n].phase # "NotStarted" => n \in nodes
      /\ \A c \in Client : client'[c].claim = client[c].claim
  BY DEF EndEffect
<1> HIDE DEF n
<1>3. ASSUME NEW m \in Node \ {n} PROVE EntryStays(m) /\ (entry'[m].phase = "Completed" => ValueStays(m))
  BY <1>0, <1>1 DEF EntryStays, ValueStays, IsClean
<1>4. ASSUME NEW a \in runs', NEW q \in runs \ {r}, RunMove(q, a), n \in a.wait => entry'[n].phase = "Running"
      PROVE  RunGood(a)'
  <2>1. /\ a \in RunState /\ a.wait \subseteq Node /\ a.token = q.token
        /\ q \in RunState /\ q.node \in Node /\ q.token \in Nat /\ RunGood(q) /\ q.token <= entry[q.node].token
    BY <1>0, <1>4 DEF TypeOK, RunState, RunsGood, TokenInv, RunMove
  <2>2. a.token = entry'[q.node].token => EntryStays(q.node)
    <3> SUFFICES ASSUME q.token = entry'[q.node].token PROVE q.node # n
      BY <1>3, <2>1
    <3> SUFFICES ASSUME q.node = n PROVE FALSE
      OBVIOUS
    <3>1. q.token = r.token
      BY <1>0, <1>2, <2>1 DEF Live, n
    <3> QED
      BY <1>0, <3>1 DEF TokenInv, SameTag, n
  <2>3. \A d \in a.wait : entry[d].phase = "Running" => entry'[d].phase = "Running"
    BY <1>1, <1>4, <2>1
  <2> QED
    BY <1>0, <1>1, <1>4, <2>1, <2>2, <2>3, RunKept
<1>5. RunsGood'
  BY <1>4 DEF RunsGood, n
<1>6. EntriesFresh'
  <2> SUFFICES ASSUME NEW m \in Node PROVE EntryFresh(m)'
    BY DEF EntriesFresh
  <2>1. CASE m = n
    BY <2>1 DEF n
  <2>2. CASE m # n
    BY <1>0, <1>1, <1>3, <2>2, EntryKept DEF EntriesFresh
  <2> QED
    BY <2>1, <2>2
<1>7. NodesInv'
  <2>1. \A m \in Node : Out(m)' \subseteq Out(m)
    BY <1>1, <1>2, SameOut
  <2>2. \A m \in Node : entry'[m].phase # "NotStarted" => entry[m].phase # "NotStarted" \/ m \in nodes'
    BY <1>0, <1>1, <1>2
  <2> QED
    BY <1>0, <1>2, <2>1, <2>2, NodesKept
<1> QED
  BY <1>5, <1>6, <1>7 DEF FreshInv

(* Graph::clear_deps: only the live run clears, and no other run of the    *)
(* node is listened to.                                                    *)
LEMMA ClearDepsFresh == ASSUME FreshInv, RunInv', NEW r \in runs, ClearDeps(r) PROVE FreshInv'
<1> DEFINE n == r.node
<1>0. /\ TypeOK /\ NodesInv /\ RunGood(r) /\ r \in RunState /\ n \in Node /\ r.token \in Nat
      /\ edges \in [Node -> Seq(Node)] /\ entry[n].gen \in Nat
  BY DEF FreshInv, RunInv, TypeOK, RunState, RunsGood, EntryState
<1>1. PICK new : new = NewRun(n, r.token, "run", <<>>)
  OBVIOUS
<1>2. /\ runs' = (runs \ {r}) \cup {new} /\ UNCHANGED <<nodes, entry, client>>
      /\ edges' = [edges EXCEPT ![n] = IF entry[n].token = r.token THEN <<>> ELSE @]
  BY <1>1 DEF ClearDeps, Replace
<1>3. RunGood(new)'
  <2>1. r.token = entry'[n].token => entry'[n].phase = "Running"
    BY <1>0, <1>2 DEF RunGood, Current
  <2>2. RunGood(NewRun(n, r.token, "run", <<>>))'
    BY <1>0, <2>1, NewRunGood
  <2> QED
    BY <1>1, <2>2
<1>4. CASE entry[n].token = r.token
  <2>1. entry[n].phase = "Running" /\ Live(r)
    BY <1>0, <1>4 DEF RunGood, Current, Live
  <2>2. edges'[n] = <<>> /\ \A m \in Node \ {n} : edges'[m] = edges[m]
    BY <1>0, <1>2, <1>4
  <2>3. EndEffect(r)
    BY <1>0, <1>2, <1>4, <2>1, <2>2 DEF EndEffect, NodesInv
  <2>4. GenMove(n)
    BY <1>0, <1>2 DEF GenMove
  <2>5. EntryFresh(n)'
    BY <1>2, <2>1 DEF EntryFresh, IsClean
  <2>6. \A a \in runs' : (\E q \in runs \ {r} : RunMove(q, a)) \/ RunGood(a)'
    BY <1>2, <1>3, SameRun
  <2> QED
    BY <1>2, <2>1, <2>3, <2>4, <2>5, <2>6, EndFresh
<1>5. CASE entry[n].token # r.token
  <2>1. edges' = edges
    BY <1>0, <1>2, <1>5
  <2>2. \A m \in Node : Begins(edges[m], edges'[m])
    BY <1>0, <2>1, BeginsSelf
  <2>3. NodesInv'
    BY <1>0, <1>2, <2>1 DEF NodesInv, Out
  <2> QED
    BY <1>2, <1>3, <2>2, <2>3, QuietFresh
<1> QED
  BY <1>4, <1>5

(* The result of a run that was overtaken is dropped. *)
LEMMA CompleteStaleFresh == ASSUME FreshInv, RunInv', NEW r \in runs, CompleteStale(r) PROVE FreshInv'
<1>0. /\ TypeOK /\ NodesInv /\ runs' = runs \ {r}
      /\ UNCHANGED <<nodes, entry, edges, client>>
  BY DEF FreshInv, RunInv, CompleteStale
<1>1. \A m \in Node : Begins(edges[m], edges'[m])
  BY <1>0, BeginsSelf
<1>2. NodesInv'
  BY <1>0 DEF NodesInv, Out
<1> QED
  BY <1>0, <1>1, <1>2, QuietFresh

(* The others after a run of n ended without a result. *)
LEMMA CancelOthers ==
    ASSUME TypeOK, NEW n, NEW r, NEW q \in runs \ {r}, NEW a, a = Cancel(q, {n})
    PROVE  (\E b \in runs \ {r} : RunMove(b, a)) /\ n \notin a.wait
<1>1. q \in RunState
  BY DEF TypeOK
<1>2. RunMove(q, a)
  BY <1>1, CancelMove
<1>3. a.wait = q.wait \ {n}
  BY <1>1 DEF Cancel, RunState
<1> QED
  BY <1>2, <1>3

LEMMA CancelClientsClaims ==
    ASSUME TypeOK, NEW S, CancelClients(S)
    PROVE  \A c \in Client : client'[c].claim = client[c].claim
  BY DEF TypeOK, ClientState, Cancel, CancelClients

(* An invalidated run: the node goes back to the start. *)
LEMMA CompleteInvalidatedFresh ==
    ASSUME FreshInv, RunInv', NEW r \in runs, CompleteInvalidated(r)
    PROVE  FreshInv'
<1> DEFINE n == r.node
<1>0. /\ TypeOK /\ n \in Node /\ entry \in [Node -> EntryState] /\ entry[n] \in EntryState
      /\ entry[n].gen \in Nat
  BY DEF FreshInv, RunInv, TypeOK, RunState, EntryState
<1>1. /\ Live(r) /\ entry' = [entry EXCEPT ![n] = Cleared(entry[n], TRUE)]
      /\ runs' = {Cancel(q, {n}) : q \in runs \ {r}}
      /\ CancelClients({n})
      /\ UNCHANGED <<nodes, edges>>
  BY DEF CompleteInvalidated
<1>2. PICK e : e = Cleared(entry[n], TRUE)
  OBVIOUS
<1>3. entry'[n] = e /\ \A m \in Node \ {n} : entry'[m] = entry[m]
  BY <1>0, <1>1, <1>2
<1>4. e.phase = "NotStarted" /\ e.token = entry[n].token + 1 /\ e.gen = entry[n].gen /\ e.res = entry[n].res
  BY <1>0, <1>2, ClearedEffect
<1>5. \A c \in Client : client'[c].claim = client[c].claim
  BY <1>0, <1>1, CancelClientsClaims
<1>6. EndEffect(r)
  BY <1>1, <1>3, <1>4, <1>5 DEF EndEffect, Live
<1>7. GenMove(n)
  BY <1>0, <1>3, <1>4 DEF GenMove
<1>8. EntryFresh(n)'
  BY <1>3, <1>4 DEF EntryFresh, IsClean
<1>9. \A a \in runs' : (\E q \in runs \ {r} : RunMove(q, a)) /\ n \notin a.wait
  BY <1>0, <1>1, CancelOthers
<1> QED
  BY <1>6, <1>7, <1>8, <1>9, EndFresh

(* A dirtied run: the node starts over, for new waiters. *)
LEMMA CompleteDirtyFresh == ASSUME FreshInv, RunInv', NEW r \in runs, CompleteDirty(r) PROVE FreshInv'
<1> DEFINE n == r.node
           e == [entry[n] EXCEPT !.token = @ + 1, !.clean = FALSE, !.dirty = FALSE, !.used = NoAnswers]
<1>0. /\ TypeOK /\ NodesInv /\ n \in Node /\ entry \in [Node -> EntryState] /\ entry[n] \in EntryState
      /\ entry[n].gen \in Nat /\ r.token \in Nat
  BY DEF FreshInv, RunInv, TypeOK, RunState, EntryState
<1>1. PICK new : new = NewRun(n, r.token + 1, "run", <<>>)
  OBVIOUS
<1>2. /\ Live(r) /\ entry' = [entry EXCEPT ![n] = e]
      /\ runs' = {Cancel(q, {n}) : q \in runs \ {r}} \cup {new}
      /\ CancelClients({n})
      /\ UNCHANGED <<nodes, edges>>
  BY <1>1 DEF CompleteDirty
<1>3. e.phase = "Running" /\ e.token = r.token + 1 /\ e.gen = entry[n].gen /\ e.res = entry[n].res
  BY <1>0, <1>2 DEF EntryState, Live
<1> HIDE DEF e
<1>4. entry'[n] = e /\ \A m \in Node \ {n} : entry'[m] = entry[m]
  BY <1>0, <1>2
<1>5. \A c \in Client : client'[c].claim = client[c].claim
  BY <1>0, <1>2, CancelClientsClaims
<1>6. EndEffect(r)
  BY <1>0, <1>2, <1>3, <1>4, <1>5 DEF EndEffect, Live, NodesInv
<1>7. GenMove(n)
  BY <1>0, <1>3, <1>4 DEF GenMove
<1>8. EntryFresh(n)'
  BY <1>3, <1>4 DEF EntryFresh, IsClean
<1>9. RunGood(new)'
  <2>1. PICK token : token = r.token + 1
    OBVIOUS
  <2>2. RunGood(NewRun(n, token, "run", <<>>))'
    BY <1>0, <1>3, <1>4, NewRunGood
  <2> QED
    BY <1>1, <2>1, <2>2
<1>10. \A a \in runs' : ((\E q \in runs \ {r} : RunMove(q, a)) /\ n \notin a.wait) \/ a = new
  BY <1>0, <1>2, CancelOthers
<1> QED
  BY <1>6, <1>7, <1>8, <1>9, <1>10, EndFresh

(* What Entry::complete stores. *)
LEMMA PublishedEffect ==
    ASSUME TypeOK, NEW r \in RunState
    PROVE  LET e == entry[r.node] IN
           /\ Published(r).phase = "Completed" /\ Published(r).clean = TRUE
           /\ Published(r).token = e.token /\ Published(r).depGens = r.depGens
           /\ Published(r).used = UsedBy(r)
           /\ r.out = None => Published(r).res = e.res /\ Published(r).gen = e.gen
           /\ r.out # None => /\ Published(r).res = r.out
                              /\ Published(r).gen = IF r.out = e.res THEN e.gen ELSE e.gen + 1
<1> DEFINE e == entry[r.node]
           done == [e EXCEPT !.phase = "Completed", !.clean = TRUE, !.depGens = r.depGens]
           gen == IF r.out = e.res THEN e.gen ELSE e.gen + 1
<1>1. e \in EntryState
  BY DEF TypeOK, RunState
<1>2. /\ done.phase = "Completed" /\ done.clean = TRUE /\ done.token = e.token /\ done.gen = e.gen
      /\ done.res = e.res /\ done.used = e.used /\ done.depGens = r.depGens
      /\ DOMAIN done = DOMAIN e
  BY <1>1 DEF EntryState
<1>3. CASE r.out = None
  BY <1>2, <1>3 DEF Published, UsedBy
<1>4. CASE r.out # None
  <2>1. Published(r) = [done EXCEPT !.res = r.out, !.used = r.got, !.gen = gen]
    BY <1>2, <1>4 DEF Published
  <2>2. DOMAIN done = {"phase", "token", "gen", "res", "clean", "dirty", "depGens", "used"}
    BY <1>1, <1>2 DEF EntryState
  <2> HIDE DEF done, gen
  <2>3. /\ Published(r).phase = "Completed" /\ Published(r).clean = TRUE
        /\ Published(r).token = e.token /\ Published(r).depGens = r.depGens
        /\ Published(r).used = r.got /\ Published(r).res = r.out /\ Published(r).gen = gen
    BY <1>2, <2>1, <2>2
  <2> QED
    BY <1>4, <2>3 DEF UsedBy, gen
<1> QED
  BY <1>3, <1>4

(* The waiters are told what was stored. *)
LEMMA AnswerRunMove ==
    ASSUME NEW q \in RunState, NEW n \in Node, NEW res, NEW gen, NEW a, a = AnswerRun(q, n, res, gen),
           res # None, IsClean(n)', res = entry'[n].res, gen = entry'[n].gen
    PROVE  RunMove(q, a) /\ n \notin a.wait
<1>1. q.got \in [Node -> Outcome \cup {None}] /\ q.gens \in [Node -> Nat]
  BY DEF RunState, Answers
<1>2. CASE n \notin q.wait
  <2>1. a = [q EXCEPT !.gens[n] = q.gens[n]]
    BY <1>2 DEF AnswerRun, Answer
  <2>2. [q.gens EXCEPT ![n] = q.gens[n]] = q.gens
    BY <1>1
  <2>3. a = [q EXCEPT !.gens = q.gens]
    BY <2>1, <2>2
  <2>4. /\ a.node = q.node /\ a.token = q.token /\ a.pc = q.pc /\ a.prev = q.prev /\ a.deps = q.deps
        /\ a.out = q.out /\ a.depGens = q.depGens /\ a.claim = q.claim /\ a.wait = q.wait
        /\ a.got = q.got /\ a.gens = q.gens
    BY <2>3 DEF RunState
  <2> QED
    BY <1>2, <2>4 DEF RunMove, AnswerMove
<1>3. CASE n \in q.wait
  <2> DEFINE got == [q.got EXCEPT ![n] = res]
             gens == [q.gens EXCEPT ![n] = IF q.pc = "checking" THEN gen ELSE q.gens[n]]
             b == [q EXCEPT !.wait = q.wait \ {n}, !.got = got]
  <2>1. b = Answer(q, n, res) /\ b.gens = q.gens
    BY <1>3 DEF Answer, RunState
  <2>2. a = [b EXCEPT !.gens = gens]
    BY <1>3, <2>1 DEF AnswerRun
  <2>3. /\ got[n] = res /\ \A d \in Node \ {n} : got[d] = q.got[d] /\ gens[d] = q.gens[d]
        /\ q.pc = "checking" => gens[n] = gen
    BY <1>1
  <2> HIDE DEF got, gens
  <2>4. /\ b.node = q.node /\ b.token = q.token /\ b.pc = q.pc /\ b.prev = q.prev /\ b.deps = q.deps
        /\ b.out = q.out /\ b.depGens = q.depGens /\ b.claim = q.claim /\ b.wait = q.wait \ {n} /\ b.got = got
        /\ DOMAIN b = DOMAIN q
    BY DEF RunState
  <2>5. DOMAIN b = {"node", "token", "pc", "prev", "deps", "got", "gens", "claim", "wait", "cyc", "tries", "out", "depGens"}
    BY <2>4 DEF RunState
  <2> HIDE DEF b
  <2>6. /\ a.node = q.node /\ a.token = q.token /\ a.pc = q.pc /\ a.prev = q.prev /\ a.deps = q.deps
        /\ a.out = q.out /\ a.depGens = q.depGens /\ a.claim = q.claim /\ a.wait = q.wait \ {n} /\ a.got = got
        /\ a.gens = gens
    BY <2>2, <2>4, <2>5
  <2>7. \A d \in Node : AnswerMove(q, a, d)
    BY <1>3, <2>3, <2>6 DEF AnswerMove
  <2>8. \A d \in Node : (d \in q.wait /\ d \notin a.wait) \/ q.got[d] # None => a.got[d] # None
    BY <1>3, <2>3, <2>6
  <2> QED
    BY <2>6, <2>7, <2>8 DEF RunMove
<1> QED
  BY <1>2, <1>3

(* Entry::complete: the generation moves with the value, so whoever        *)
(* recorded the old one can tell.                                          *)
LEMMA CompletePublishFresh ==
    ASSUME FreshInv, RunInv', NEW r \in runs, CompletePublish(r)
    PROVE  FreshInv'
<1> DEFINE n == r.node
<1>0. /\ TypeOK /\ TypeOK' /\ NodesInv /\ RunGood(r) /\ r \in RunState /\ n \in Node
      /\ entry \in [Node -> EntryState] /\ entry[n].gen \in Nat /\ r.depGens \in Seq(Nat)
      /\ Cacheable \subseteq Node
  BY NodeAssumption DEF FreshInv, RunInv, TypeOK, RunState, RunsGood, EntryState
<1>1. PICK e : e = Published(r)
  OBVIOUS
<1>2. /\ Live(r) /\ r.pc = "collected" /\ ~entry[n].dirty
      /\ entry' = [entry EXCEPT ![n] = e]
      /\ runs' = {AnswerRun(q, n, e.res, e.gen) : q \in runs \ {r}}
      /\ client' = [c \in Client |-> Answer(client[c], n, e.res)]
      /\ UNCHANGED <<nodes, edges>>
  BY <1>1 DEF CompletePublish, Completes
<1>3. PICK u : u = UsedBy(r)
  OBVIOUS
<1>4. /\ e.phase = "Completed" /\ e.clean = TRUE /\ e.token = entry[n].token
      /\ e.depGens = r.depGens /\ e.used = u
      /\ r.out = None => e.res = entry[n].res /\ e.gen = entry[n].gen
      /\ r.out # None => /\ e.res = r.out
                         /\ e.gen = IF r.out = entry[n].res THEN entry[n].gen ELSE entry[n].gen + 1
  BY <1>0, <1>1, <1>3, PublishedEffect
<1>5. entry'[n] = e /\ \A m \in Node \ {n} : entry'[m] = entry[m]
  BY <1>0, <1>2
<1>6. RunFresh(r)
  BY <1>0, <1>2 DEF RunGood, Current, Live
<1>7. e.res # None
  BY <1>2, <1>4, <1>6 DEF RunFresh, WasFoundClean
<1>8. \A c \in Client : client'[c].claim = client[c].claim
  <2> TAKE c \in Client
  <2>1. client[c] \in ClientState /\ client'[c] = Answer(client[c], n, e.res)
    BY <1>0, <1>2 DEF TypeOK
  <2>2. PICK q \in ClientState : q = client[c]
    BY <2>1
  <2>3. Answer(q, n, e.res).claim = q.claim
    BY DEF Answer, ClientState
  <2> QED
    BY <2>1, <2>2, <2>3
<1>9. EndEffect(r)
  BY <1>0, <1>2, <1>4, <1>5, <1>8 DEF EndEffect, Live, NodesInv
<1>10. GenMove(n)
  BY <1>0, <1>4, <1>5 DEF GenMove
<1>11. /\ \A d \in Node : StaysClean(d) /\ GenMove(d)
       /\ \A m \in Node : Begins(edges[m], edges'[m])
  BY <1>0, <1>2, <1>9, <1>10, EndFacts, BeginsSelf
<1>12. EntryFresh(n)'
  <2>1. GensTell(n, r.depGens, u) /\ Fresh(n, u)
    BY <1>2, <1>3, <1>6, UsedByFresh DEF RunFresh, HasCollected
  <2>2. Out(n)' = Out(n)
    BY <1>2 DEF Out
  <2>3. PICK m \in Node : m = n
    BY <1>0
  <2>4. GensTell(m, r.depGens, u)'
    BY <1>0, <1>11, <2>1, <2>3, GensTellKept
  <2>5. Fresh(m, u)'
    BY <1>0, <1>11, <2>1, <2>2, <2>3, FreshKept
  <2> QED
    BY <1>4, <1>5, <1>7, <2>3, <2>4, <2>5 DEF EntryFresh
<1>13. IsClean(n)'
  BY <1>4, <1>5 DEF IsClean
<1>14. ASSUME NEW a \in runs' PROVE (\E q \in runs \ {r} : RunMove(q, a)) /\ n \notin a.wait
  <2>1. PICK q \in runs \ {r} : a = AnswerRun(q, n, e.res, e.gen)
    BY <1>2
  <2>2. q \in RunState
    BY <1>0 DEF TypeOK
  <2>3. RunMove(q, a) /\ n \notin a.wait
    BY <1>0, <1>5, <1>7, <1>13, <2>1, <2>2, AnswerRunMove
  <2> QED
    BY <2>3
<1> QED
  BY <1>9, <1>10, <1>12, <1>14, EndFresh

-----------------------------------------------------------------------------
(* The empty graph. *)
LEMMA FreshInvInit == Init => FreshInv
<1> SUFFICES ASSUME Init PROVE FreshInv
  OBVIOUS
<1>1. \A n \in Node : entry[n].phase = "NotStarted" /\ edges[n] = <<>>
  BY DEF Init, InitialEntry
<1>2. \A n \in Node : Out(n) = {}
  BY <1>1 DEF Out
<1>3. \A c \in Client : client[c].claim = {}
  BY DEF Init, IdleClient
<1>4. NodesInv
  BY <1>1, <1>2, <1>3 DEF NodesInv
<1>5. RunsGood /\ EntriesFresh
  BY <1>1 DEF Init, RunsGood, EntriesFresh, EntryFresh, IsClean
<1> QED
  BY <1>4, <1>5, RunInvInit DEF FreshInv

(* Every step preserves the invariant. *)
LEMMA FreshInvStep == FreshInv /\ [Next]_vars => FreshInv'
<1> SUFFICES ASSUME FreshInv, [Next]_vars PROVE FreshInv'
  OBVIOUS
<1>0. RunInv'
  BY RunInvStep DEF FreshInv
<1>1. CASE Environment \/ Watcher
  BY <1>0, <1>1, OutsideSteps, InvalidationSteps, ClearGraphFresh DEF Environment, Watcher
<1>2. ASSUME NEW c \in Client, ClientStep(c) PROVE FreshInv'
  BY <1>0, <1>2, OutsideSteps, ClientGetFresh DEF ClientStep
<1>3. ASSUME NEW r \in runs, RunStep(r) PROVE FreshInv'
  <2>1. CASE DepGenerations(r) \/ FoundClean(r) \/ ClearDeps(r) \/ Finish(r) \/ CollectGenerations(r)
    BY <1>0, <2>1, DepGenerationsFresh, FoundCleanFresh, ClearDepsFresh, FinishFresh, CollectGenerationsFresh
  <2>2. ASSUME NEW d \in Node,
               \/ GetWhileDraining(r, d) \/ GetFindsCycle(r, d) \/ GetAddsEdge(r, d)
               \/ GetBreaksCycle(r, d) \/ RunGet(r, d)
        PROVE  FreshInv'
    BY <1>0, <2>2, GetRefusedFresh, GetAddsEdgeFresh, InvalidationSteps, RunGetFresh
  <2>3. CASE CompleteStale(r) \/ CompleteInvalidated(r) \/ CompleteDirty(r) \/ CompletePublish(r)
    BY <1>0, <2>3, CompleteStaleFresh, CompleteInvalidatedFresh, CompleteDirtyFresh, CompletePublishFresh
  <2> QED
    BY <1>3, <2>1, <2>2, <2>3 DEF RunStep
<1>4. CASE UNCHANGED vars
  <2>1. NodesInv' /\ \A m \in Node : Begins(edges[m], edges'[m])
    BY <1>4, BeginsSelf DEF vars, FreshInv, RunInv, NodesInv, Out
  <2> QED
    BY <1>0, <1>4, <2>1, QuietFresh DEF vars
<1> QED
  BY <1>1, <1>2, <1>3, <1>4 DEF Next, Engine

LEMMA FreshInvariant == Spec => []FreshInv
  BY FreshInvInit, FreshInvStep, PTL DEF Spec

(* What a live run asked for has an edge, through which an invalidation    *)
(* reaches it, and what it waits for is Running.                           *)
THEOREM WaitsHaveEdges == Spec => []WaitsFollowEdges
  BY FreshInvariant, FreshInvImplies, PTL

(* The engine cannot deadlock on its own graph: in every set of nodes      *)
(* there is one whose live run waits for nothing in the set.               *)
THEOREM NoDeadlock == Spec => []NoWaitCycle
  BY WaitsHaveEdges, AlwaysAcyclic, NoCycleOfWaits, PTL

(* A value that Entry::get hands out without running was computed from     *)
(* what its dependencies still have, however invalidations, runs that were *)
(* overtaken and both halves of Graph::complete interleaved.               *)
THEOREM CleanMeansFresh == Spec => []UsedFresh
  BY FreshInvariant, FreshInvImplies, PTL

(* Entry::run may clean a node by comparing the generations of its         *)
(* dependencies: equal generations mean equal values.                      *)
THEOREM GenerationsSuffice == Spec => []GenerationsTellValues
  BY FreshInvariant, FreshInvImplies, PTL

(***************************************************************************)
(* Truth.  FreshInv says that a clean value was computed from what the     *)
(* dependencies have; here it is shown that this is what the files give.   *)
(* SoundInv says that every run, also one that was overtaken, asks as its  *)
(* node does and returns what its node returns by the answers it got, and  *)
(* that a file that was read is on disk or its edit is still pending.      *)
(* Clean values are then true because the graph has no cycle: among those  *)
(* that were not there would be one that depends on none of them.          *)
(* RightInv says the same of the answers of nodes that are not cached,     *)
(* which a run has only until an invalidation reaches it; ClientInv of     *)
(* what the clients were told.                                             *)
(***************************************************************************)

(* The answers that told something. *)
Told(g) == Only(g, {d \in Node : Obtained(g[d])})

InCheck(r) == r.pc \in {"check", "checking"}
IsOver(r) == r.pc \in {"finished", "collected"}

(* The value of the node may yet be found clean, or was. *)
Keeps(r) == InCheck(r) \/ (IsOver(r) /\ r.out = None)

(* A run asks as its node does, and what it returns it has computed.  This *)
(* is so for every run, also for one that was overtaken.                   *)
RunSound(r) ==
    /\ \A d \in Node : Asked(r, d) => d \in AskedBy(r.node)
    /\ ~InCheck(r) => \A d \in Node : Asked(r, d) => AsksFor(r.node, r.got, d)
    /\ \A d \in r.claim \cup r.wait : r.got[d] = None
    /\ r.claim \cap r.wait = {} /\ (r.pc # "run" => r.claim = {}) /\ (IsOver(r) => r.wait = {})
    /\ Keeps(r) => r.node \in Cacheable
    /\ IsOver(r) /\ r.node \notin FsNode /\ Obtained(r.out) => Returns(r.node, Told(r.got), r.out)
    /\ r.out = Cyclic \/ (\E d \in Node : r.got[d] = Cyclic) => r.node \in CanCycle

(* x was read from n, as it is or as it was before an edit that is still   *)
(* to be invalidated.                                                      *)
Read(n, x) == x = disk[n] \/ n \in pending

Made(n) ==
    /\ n \in FsNode => Read(n, entry[n].res)
    /\ n \notin FsNode /\ Obtained(entry[n].res) => Returns(n, Told(entry[n].used), entry[n].res)

(* A run that will be listened to, and its node.                           *)
RunMade(r) ==
    /\ Keeps(r) => Made(r.node)
    /\ IsOver(r) /\ r.node \in FsNode /\ r.out # None => Read(r.node, r.out)

SoundInv ==
    /\ \A r \in runs : RunSound(r) /\ (Current(r) => RunMade(r))
    /\ \A n \in Node :
          /\ Out(n) \subseteq AskedBy(n)
          /\ entry[n].res = Cyclic => n \in CanCycle
          /\ entry[n].phase = "Completed" => Made(n)

(* The files on which what d answers depends: those that can be reached    *)
(* from d over clean nodes, and nodes that are not cached.                 *)
CleanOut == [k \in Node |-> {e \in Out(k) : e \in Cacheable => IsClean(e)}]
Basis(d) == Walk({d}, CleanOut) \cap FsNode

(* By those files d has x. *)
Right(d, x) == \A T \in Truths : (\A z \in Basis(d) : T[z] = entry[z].res) => T[d] = x

(* The answers of nodes that are not cached, of which FreshInv says        *)
(* nothing.                                                                *)
HoldsRight(r) ==
    ~entry[r.node].dirty =>
        \A d \in Node \ Cacheable : Obtained(r.got[d]) => d \in Out(r.node) /\ Right(d, r.got[d])

RightInv == \A r \in runs : Current(r) => HoldsRight(r)

(* What a client was told. *)
ToldTruth(n, x) == \A T \in Truths : OnDisk(T) => Agrees(n, x, T)

ClientInv ==
    \A c \in Client : client[c].quiet =>
        /\ pending = {}
        /\ \A n \in Node : client[c].got[n] \in {None, Invalidated} \/ ToldTruth(n, client[c].got[n])
        /\ ~client[c].busy => \A n \in client[c].roots : client[c].got[n] # None

-----------------------------------------------------------------------------
(* What a node asks for. *)
LEMMA OnlyFacts ==
    ASSUME NEW g \in Answers, NEW S
    PROVE  Only(g, S) \in Answers /\ Values(g) \subseteq Node
  BY DEF Only, Answers, Values

(* More answers do not take back what was asked for. *)
LEMMA AsksForMore ==
    ASSUME NEW n \in Node, NEW g, NEW h, NEW d \in Node, AsksFor(n, g, d),
           \A x \in Node : g[x] \in Value => h[x] = g[x]
    PROVE  AsksFor(n, h, d)
<1>1. PICK C \in SUBSET (Values(g) \ {d}) : d \in Wanted(n, Only(g, C))
  BY DEF AsksFor
<1>2. C \in SUBSET (Values(h) \ {d})
  BY DEF Values
<1>3. Only(h, C) = Only(g, C)
  BY DEF Only, Values
<1> QED
  BY <1>1, <1>2, <1>3 DEF AsksFor

LEMMA AsksForAskedBy ==
    ASSUME NEW n \in Node, NEW g \in Answers, NEW d \in Node, AsksFor(n, g, d)
    PROVE  d \in AskedBy(n)
<1>1. PICK C \in SUBSET (Values(g) \ {d}) : d \in Wanted(n, Only(g, C))
  BY DEF AsksFor
<1> QED
  BY <1>1, OnlyFacts DEF AskedBy

LEMMA WantedAsks ==
    ASSUME NEW n \in Node, NEW g \in Answers, NEW d \in Wanted(n, g), g[d] = None
    PROVE  d \in Node /\ AsksFor(n, g, d)
<1>1. d \in Node /\ d \in Wanted(n, Only(g, Values(g)))
  BY CodeAssumption
<1>2. d \notin Values(g)
  BY OutcomeAssumption DEF Values, Outcome
<1>3. Values(g) \in SUBSET (Values(g) \ {d})
  BY <1>2
<1> QED
  BY <1>1, <1>3 DEF AsksFor

LEMMA AskedByNode == ASSUME NEW n \in Node PROVE AskedBy(n) \subseteq Node
  BY CodeAssumption DEF AskedBy

(* Who asks for a node that may come to ask for itself may do so, too. *)
LEMMA CanCycleUp ==
    ASSUME NEW n \in Node, NEW d \in CanCycle, d \in AskedBy(n)
    PROVE  n \in CanCycle
<1>1. PICK C \in SUBSET Node : d \in C /\ \A x \in C : AskedBy(x) \cap C # {}
  BY DEF CanCycle
<1>2. C \cup {n} \in SUBSET Node /\ \A x \in C \cup {n} : AskedBy(x) \cap (C \cup {n}) # {}
  BY <1>1
<1> QED
  BY <1>2 DEF CanCycle

(* detect_cycle finds only cycles of what nodes may ask for.               *)
LEMMA WouldCycleCan ==
    ASSUME edges \in [Node -> Seq(Node)], \A x \in Node : Out(x) \subseteq AskedBy(x),
           NEW n \in Node, NEW d \in Node, d \in AskedBy(n), WouldCycle(n, d)
    PROVE  n \in CanCycle
<1> DEFINE W(x) == Walk({x}, Outgoing)
           C == {x \in Node : n \in W(x)}
<1>1. \A x \in Node : W(x) \subseteq Node /\ x \in W(x) /\ \A y \in W(x) : Out(y) \subseteq W(x)
  BY WalkFacts
<1>2. \A x \in Node : Outgoing[x] = Out(x) /\ Out(x) \subseteq Node
  BY DEF Outgoing, Out
<1>3. n \in C /\ d \in C
  BY <1>1 DEF WouldCycle
<1>4. ASSUME NEW x \in C PROVE AskedBy(x) \cap C # {}
  <2>1. CASE x = n
    BY <1>3, <2>1
  <2>2. CASE x # n
    <3> DEFINE K == {x} \cup UNION {W(y) : y \in Out(x)}
    <3> HIDE DEF W
    <3>1. K \in SUBSET Node /\ {x} \subseteq K
      BY <1>1, <1>2
    <3>2. \A z \in K : Outgoing[z] \subseteq K
      BY <1>1, <1>2
    <3> HIDE DEF K
    <3>3. n \in K
      BY <3>1, <3>2 DEF Walk, W
    <3>4. PICK y \in Out(x) : n \in W(y)
      BY <2>2, <3>3 DEF K
    <3> QED
      BY <1>2, <3>4
  <2> QED
    BY <2>1, <2>2
<1>5. C \in SUBSET Node
  OBVIOUS
<1> HIDE DEF C
<1> QED
  BY <1>3, <1>4, <1>5 DEF CanCycle

-----------------------------------------------------------------------------
(* Runs stay sound. *)
LEMMA MovedSound ==
    ASSUME NEW q \in RunState, NEW a \in RunState, RunSound(q), RunMove(q, a),
           \A d \in Node : entry'[d].res = Cyclic => d \in CanCycle
    PROVE  RunSound(a)
<1>0. /\ q.node \in Node /\ q.got \in Answers /\ a.got \in Answers
      /\ q.wait \subseteq Node /\ q.claim \subseteq Node
  BY DEF RunState
<1>1. /\ a.node = q.node /\ a.pc = q.pc /\ a.out = q.out /\ a.claim = q.claim /\ a.wait \subseteq q.wait
      /\ \A d \in Node : AnswerMove(q, a, d)
  BY DEF RunMove
<1>2. \A d \in Node : a.got[d] = q.got[d] \/ (d \in q.wait \ a.wait /\ a.got[d] \in {Invalidated, entry'[d].res})
  BY <1>1 DEF AnswerMove
<1>3. \A d \in Node : Asked(a, d) => Asked(q, d)
  BY <1>1, <1>2 DEF Asked
<1>4. \A d \in Node : q.got[d] \in Value => a.got[d] = q.got[d]
  BY <1>2, OutcomeAssumption DEF RunSound, Outcome
<1>5. ~InCheck(a) => \A d \in Node : Asked(a, d) => AsksFor(a.node, a.got, d)
  BY <1>0, <1>1, <1>3, <1>4, AsksForMore DEF RunSound, InCheck
<1>6. ASSUME NEW d \in a.claim \cup a.wait PROVE a.got[d] = None
  <2>1. d \in Node /\ q.got[d] = None
    BY <1>0, <1>1 DEF RunSound
  <2> QED
    BY <1>1, <1>2, <2>1 DEF RunSound
<1>7. IsOver(a) => Told(a.got) = Told(q.got)
  <2> SUFFICES ASSUME IsOver(a) PROVE Told(a.got) = Told(q.got)
    OBVIOUS
  <2>1. q.wait = {}
    BY <1>1 DEF RunSound, IsOver
  <2>2. \A d \in Node : a.got[d] = q.got[d]
    BY <1>2, <2>1
  <2> QED
    BY <2>2 DEF Told, Only
<1>8. ASSUME NEW d \in Node, a.got[d] = Cyclic PROVE a.node \in CanCycle
  <2>1. CASE a.got[d] = q.got[d]
    BY <1>1, <1>8, <2>1 DEF RunSound
  <2>2. CASE d \in q.wait /\ a.got[d] = entry'[d].res
    <3>1. d \in CanCycle /\ d \in AskedBy(q.node)
      BY <1>8, <2>2 DEF RunSound, Asked
    <3> QED
      BY <1>0, <1>1, <3>1, CanCycleUp
  <2> QED
    BY <1>2, <1>8, <2>1, <2>2, OutcomeAssumption DEF Failure
<1> QED
  BY <1>1, <1>3, <1>5, <1>6, <1>7, <1>8 DEF RunSound, InCheck, IsOver, Keeps

LEMMA NewRunSound ==
    ASSUME NEW n \in Node, NEW token, NEW pc, NEW prev, pc = "run" \/ n \in Cacheable
    PROVE  LET a == NewRun(n, token, pc, prev) IN
           /\ RunSound(a) /\ a.node = n /\ a.token = token /\ a.pc = pc /\ a.out = None
           /\ \A d \in Node : a.got[d] = None
<1>1. PICK a : a = NewRun(n, token, pc, prev)
  OBVIOUS
<1>2. /\ a.node = n /\ a.token = token /\ a.pc = pc /\ a.out = None /\ a.claim = {} /\ a.wait = {}
      /\ \A d \in Node : a.got[d] = None
  BY <1>1 DEF NewRun, NoAnswers
<1>3. ~Obtained(None) /\ None # Cyclic
  BY NothingObtained, OutcomeAssumption DEF Outcome, Failure
<1>4. RunSound(a)
  BY <1>2, <1>3 DEF RunSound, Asked, Keeps, InCheck, IsOver
<1> QED
  BY <1>1, <1>2, <1>4

LEMMA StartedRunSound ==
    ASSUME NEW n \in Node
    PROVE  LET a == StartedRun(n) IN
           /\ RunSound(a) /\ a.node = n /\ ~IsOver(a) /\ (InCheck(a) => IsCleanable(n))
           /\ \A d \in Node : a.got[d] = None
<1>1. CASE IsCleanable(n)
  <2>1. PICK token, prev : token = entry[n].token + 1 /\ prev = entry[n].depGens
    OBVIOUS
  <2>2. StartedRun(n) = NewRun(n, token, "check", prev) /\ n \in Cacheable
    BY <1>1, <2>1 DEF StartedRun, IsCleanable
  <2> QED
    BY <1>1, <2>2, NewRunSound DEF IsOver
<1>2. CASE ~IsCleanable(n)
  <2>1. PICK token, prev : token = entry[n].token + 1 /\ prev = <<>>
    OBVIOUS
  <2>2. StartedRun(n) = NewRun(n, token, "run", prev)
    BY <1>2, <2>1 DEF StartedRun
  <2> QED
    BY <2>2, NewRunSound DEF IsOver, InCheck
<1> QED
  BY <1>1, <1>2

(* A running node goes on with one of the nodes it asks for. *)
GoesOn(r, a, d) ==
    /\ a.node = r.node /\ a.token = r.token /\ r.pc = "run" /\ a.pc = "run" /\ a.out = r.out
    /\ \A x \in Node \ {d} : a.got[x] = r.got[x]
    /\ a.claim \ {d} = r.claim \ {d} /\ a.wait \ {d} = r.wait \ {d}
    /\ ~(d \in a.claim /\ d \in a.wait)
    /\ d \in a.claim \cup a.wait => a.got[d] = None

LEMMA GoesOnSound ==
    ASSUME NEW r \in RunState, NEW a \in RunState, NEW d \in Node, RunSound(r), GoesOn(r, a, d),
           r.got[d] = None, AsksFor(r.node, r.got, d), a.got[d] = Cyclic => r.node \in CanCycle
    PROVE  RunSound(a)
<1>0. r.node \in Node /\ r.got \in Answers /\ a.got \in Answers /\ r.claim \subseteq Node /\ r.wait \subseteq Node
  BY DEF RunState
<1>1. /\ a.node = r.node /\ r.pc = "run" /\ a.pc = "run" /\ a.out = r.out
      /\ \A x \in Node \ {d} : a.got[x] = r.got[x]
      /\ a.claim \ {d} = r.claim \ {d} /\ a.wait \ {d} = r.wait \ {d}
  BY DEF GoesOn
<1>2. \A x \in Node : r.got[x] \in Value => a.got[x] = r.got[x]
  BY <1>1, OutcomeAssumption DEF Outcome
<1>3. ASSUME NEW x \in Node, Asked(a, x) PROVE AsksFor(a.node, a.got, x)
  <2>1. AsksFor(r.node, r.got, x)
    <3>1. CASE x = d
      BY <3>1
    <3>2. CASE x # d
      <4>1. Asked(r, x)
        BY <1>1, <1>3, <3>2 DEF Asked
      <4> QED
        BY <1>1, <4>1 DEF RunSound, InCheck
    <3> QED
      BY <3>1, <3>2
  <2> QED
    BY <1>0, <1>1, <1>2, <2>1, AsksForMore
<1>4. \A x \in Node : Asked(a, x) => x \in AskedBy(a.node)
  BY <1>0, <1>1, <1>3, AsksForAskedBy
<1>5. ASSUME NEW x \in a.claim \cup a.wait PROVE a.got[x] = None
  <2>1. CASE x = d
    BY <2>1 DEF GoesOn
  <2>2. CASE x # d
    <3>1. x \in r.claim \cup r.wait
      BY <1>1, <2>2
    <3> QED
      BY <1>0, <1>1, <2>2, <3>1 DEF RunSound
  <2> QED
    BY <2>1, <2>2
<1>6. a.claim \cap a.wait = {}
  <2> SUFFICES ASSUME NEW x \in a.claim, x \in a.wait PROVE FALSE
    OBVIOUS
  <2>1. x # d
    BY DEF GoesOn
  <2> QED
    BY <1>1, <2>1 DEF RunSound
<1>7. a.out = Cyclic \/ (\E x \in Node : a.got[x] = Cyclic) => a.node \in CanCycle
  BY <1>1 DEF RunSound
<1> QED
  BY <1>1, <1>3, <1>4, <1>5, <1>6, <1>7 DEF RunSound, Keeps, InCheck, IsOver

(* Node::run returns. *)
LEMMA FinishSound ==
    ASSUME TypeOK, NEW r \in runs, RunSound(r), Finish(r)
    PROVE  \E a : /\ Replace(r, a) /\ RunSound(a) /\ a.node = r.node /\ a.token = r.token /\ a.got = r.got
                  /\ a.pc = "finished" /\ a.out # None
                  /\ a.node \in FsNode => a.out = disk[a.node]
<1>0. r \in RunState /\ r.node \in Node /\ r.got \in Answers /\ r.pc = "run" /\ r.claim = {}
  BY DEF TypeOK, RunState, Finish
<1>1. PICK out \in Outcome :
        /\ \/ \E d \in Node : r.got[d] \in Failure /\ out = r.got[d]
           \/ /\ \A d \in Node : r.got[d] \notin Failure
              /\ r.node \in FsNode
              /\ out = disk[r.node]
           \/ /\ \A d \in Node : r.got[d] \notin Failure
              /\ r.node \notin FsNode
              /\ \A d \in Wanted(r.node, r.got) : r.got[d] # None
              /\ out = Compute(r.node, r.got)
        /\ Replace(r, [r EXCEPT !.pc = "finished", !.wait = {}, !.out = out])
  BY DEF Finish
<1>2. PICK a : a = [r EXCEPT !.pc = "finished", !.wait = {}, !.out = out]
  OBVIOUS
<1>3. /\ a.node = r.node /\ a.token = r.token /\ a.got = r.got /\ a.claim = {} /\ a.wait = {}
      /\ a.pc = "finished" /\ a.out = out
  BY <1>0, <1>2 DEF RunState
<1>4. None \notin Failure /\ out # None /\ Failure \cap Value = {}
  BY OutcomeAssumption DEF Outcome
<1>5. \A d \in Node : r.got[d] # None => AsksFor(r.node, r.got, d) /\ d \in AskedBy(r.node)
  BY <1>0 DEF RunSound, Asked, InCheck
<1>6. ASSUME r.node \in FsNode PROVE out = disk[r.node]
  <2>1. AskedBy(r.node) = {}
    BY <1>0, <1>6, CodeAssumption DEF AskedBy
  <2>2. \A d \in Node : r.got[d] = None
    BY <1>5, <2>1
  <2> QED
    BY <1>1, <1>4, <1>6, <2>2
<1>7. ASSUME r.node \notin FsNode, Obtained(out) PROVE Returns(r.node, Told(r.got), out)
  <2> DEFINE g == Told(r.got)
  <2>1. \A d \in Node : g[d] = IF Obtained(r.got[d]) THEN r.got[d] ELSE None
    BY DEF Told, Only
  <2>2. \A d \in Node : r.got[d] \in Value => g[d] = r.got[d]
    BY <2>1 DEF Obtained
  <2> HIDE DEF g
  <2>3. ASSUME NEW d \in Node, g[d] # None PROVE AsksFor(r.node, g, d)
    <3>1. AsksFor(r.node, r.got, d)
      BY <1>5, <2>1, <2>3, NothingObtained
    <3> QED
      BY <1>0, <2>2, <3>1, AsksForMore
  <2>4. CASE \E d \in Node : r.got[d] \in Failure /\ out = r.got[d]
    <3>1. PICK d \in Node : r.got[d] \in Failure /\ out = r.got[d]
      BY <2>4
    <3>2. out = Throw
      BY <1>4, <1>7, <3>1 DEF Obtained
    <3>3. g[d] = Throw
      BY <1>7, <2>1, <3>1, <3>2
    <3> QED
      BY <2>3, <3>2, <3>3 DEF Returns, g
  <2>5. CASE /\ \A d \in Node : r.got[d] \notin Failure
             /\ \A d \in Wanted(r.node, r.got) : r.got[d] # None
             /\ out = Compute(r.node, r.got)
    <3>1. \A d \in Node : r.got[d] \in Value \cup {None}
      BY <1>0, <2>5 DEF Answers, Outcome
    <3>2. \A d \in Node : g[d] = r.got[d]
      BY <2>1, <3>1 DEF Obtained
    <3>3. g = r.got
      BY <1>0, <3>2 DEF g, Told, Only, Answers
    <3>4. Throw \in Failure
      BY DEF Failure
    <3> QED
      BY <2>3, <2>5, <3>3, <3>4 DEF Returns, g
  <2> QED
    BY <1>1, <1>7, <2>4, <2>5
<1>8. out = Cyclic => r.node \in CanCycle
  <2> SUFFICES ASSUME out = Cyclic PROVE r.node \in CanCycle
    OBVIOUS
  <2>1. Cyclic \notin Value \cup {Throw}
    BY OutcomeAssumption DEF Failure
  <2>2. r.node \in FsNode => disk[r.node] # Cyclic
    BY <2>1 DEF TypeOK
  <2>3. Compute(r.node, r.got) # Cyclic
    BY <1>0, <2>1, CodeAssumption
  <2> QED
    BY <1>1, <2>2, <2>3 DEF RunSound
<1>9. RunSound(a)
  <2>1. \A d \in Node : Asked(a, d) => r.got[d] # None
    BY <1>3 DEF Asked
  <2> QED
    BY <1>3, <1>4, <1>5, <1>7, <1>8, <2>1 DEF RunSound, Keeps, InCheck, IsOver
<1> QED
  BY <1>1, <1>2, <1>3, <1>4, <1>6, <1>9

-----------------------------------------------------------------------------
(* What a step may do, as far as the truth of values is concerned. *)

(* To an entry: it stays as it is, starts over, or a result is stored. *)
StaysPut(n) ==
    /\ entry'[n].token = entry[n].token /\ entry'[n].phase = entry[n].phase
    /\ entry'[n].res = entry[n].res /\ entry'[n].used = entry[n].used
    /\ entry[n].dirty => entry'[n].dirty

StartsOver(n) ==
    /\ entry'[n].token = entry[n].token + 1 /\ entry'[n].phase # "Completed"
    /\ entry'[n].res \in {entry[n].res, None}

EntryMoves(n) == StaysPut(n) \/ StartsOver(n) \/ \E r \in runs : r.node = n /\ CompletePublish(r)

(* To the runs: a is what became of another, or begins.                    *)
Becomes(q, a) ==
    /\ a.node = q.node /\ a.token = q.token
    /\ Keeps(a) => Keeps(q)
    /\ IsOver(a) /\ a.out # None => \/ IsOver(q) /\ q.out = a.out
                                    \/ a.node \in FsNode => a.out = disk[a.node]
    /\ \A d \in Node \ Cacheable : Obtained(a.got[d]) =>
          \/ a.got[d] = q.got[d]
          \/ d \in q.wait /\ IsClean(d)' /\ a.got[d] = entry'[d].res

Begun(a) ==
    /\ a.node \in Node /\ ~IsOver(a) /\ \A d \in Node : a.got[d] = None
    /\ InCheck(a) => /\ IsCleanable(a.node)
                     /\ entry'[a.node].res = entry[a.node].res
                     /\ entry'[a.node].used = entry[a.node].used

RunComes(a) == RunSound(a) /\ (Begun(a) \/ \E q \in runs : Becomes(q, a))

(* To the files: an edit is pending until what was read is forgotten. *)
FileStays(n) == n \in pending' \/ (n \notin pending /\ disk'[n] = disk[n])

(* To the graph: clean nodes stay clean and keep their edges, or all that  *)
(* depends on a node that does not is told, or everything is forgotten.    *)
Calm ==
    /\ \A m \in Cacheable : StaysClean(m)
    /\ \A m \in Node : Out(m) \subseteq Out(m)' \/ (m \in Cacheable /\ ~IsClean(m))

Dirties ==
    \E D \in SUBSET Node :
        /\ \A n \in Node : Out(n) \cap D # {} => n \in D
        /\ \A n \in Node \ D : entry'[n] = entry[n] /\ edges'[n] = edges[n]
        /\ \A n \in D : entry'[n].phase # "Running" \/ entry'[n].dirty

Forgets == \A n \in Node : entry'[n].phase = "NotStarted"

StepFacts ==
    /\ \A n \in Node : EntryMoves(n) /\ Out(n)' \subseteq AskedBy(n)
    /\ \A a \in runs' : RunComes(a)
    /\ \A n \in FsNode : FileStays(n) \/ entry'[n].phase = "NotStarted"
    /\ Calm \/ Dirties \/ Forgets

(* An entry that stores a result. *)
LEMMA PublishFacts ==
    ASSUME FreshInv, NEW r \in runs, CompletePublish(r)
    PROVE  /\ r.node \in Node /\ Current(r) /\ r.pc = "collected" /\ ~entry[r.node].dirty
           /\ entry'[r.node].phase = "Completed" /\ entry'[r.node].used = UsedBy(r)
           /\ r.out = None => entry'[r.node].res = entry[r.node].res
           /\ r.out # None => entry'[r.node].res = r.out
           /\ UNCHANGED <<edges, disk, pending>>
<1>0. TypeOK /\ r \in RunState /\ r.node \in Node /\ entry \in [Node -> EntryState]
  BY DEF FreshInv, RunInv, TypeOK, RunState
<1>1. /\ Live(r) /\ r.pc = "collected" /\ ~entry[r.node].dirty
      /\ entry' = [entry EXCEPT ![r.node] = Published(r)] /\ UNCHANGED <<edges, disk, pending>>
  BY DEF CompletePublish, Completes
<1>2. entry'[r.node] = Published(r)
  BY <1>0, <1>1
<1> QED
  BY <1>0, <1>1, <1>2, PublishedEffect DEF Live, Current

(* The run that a run that will be listened to comes from was listened to. *)
LEMMA StillCurrent ==
    ASSUME FreshInv, FreshInv', NEW q \in runs, NEW a \in runs', a.node = q.node, a.token = q.token,
           EntryMoves(q.node), Current(a)'
    PROVE  Current(q) /\ StaysPut(q.node) /\ entry'[q.node].phase = "Running"
<1>0. /\ q.node \in Node /\ q.token \in Nat /\ entry[q.node].token \in Nat /\ q.token <= entry[q.node].token
      /\ entry'[q.node].token = q.token
  BY DEF FreshInv, RunInv, TypeOK, RunState, EntryState, TokenInv, Current
<1>1. entry'[q.node].phase = "Running"
  BY DEF FreshInv, RunsGood, RunGood
<1>2. ~StartsOver(q.node)
  BY <1>0 DEF StartsOver
<1>3. \A r \in runs : r.node = q.node => ~CompletePublish(r)
  BY <1>1, PublishFacts
<1> QED
  BY <1>0, <1>1, <1>2, <1>3 DEF EntryMoves, StaysPut, Current

LEMMA CyclicKept ==
    ASSUME FreshInv, SoundInv, NEW n \in Node, EntryMoves(n), entry'[n].res = Cyclic
    PROVE  n \in CanCycle
<1>1. None # Cyclic
  BY OutcomeAssumption DEF Outcome, Failure
<1>2. CASE entry'[n].res \in {entry[n].res, None}
  BY <1>1, <1>2 DEF SoundInv
<1>3. ASSUME NEW r \in runs, r.node = n, CompletePublish(r) PROVE n \in CanCycle
  <2>1. entry'[n].res \in {entry[n].res, r.out}
    BY <1>3, PublishFacts
  <2> QED
    BY <1>3, <2>1 DEF SoundInv, RunSound
<1> QED
  BY <1>2, <1>3 DEF EntryMoves, StaysPut, StartsOver

LEMMA SoundKept ==
    ASSUME FreshInv, FreshInv', SoundInv, StepFacts
    PROVE  SoundInv'
<1>0. FsNode \subseteq Node
  BY NodeAssumption
<1>1. ASSUME NEW n \in Node, Made(n), entry'[n].res = entry[n].res, entry'[n].used = entry[n].used,
             entry'[n].phase # "NotStarted"
      PROVE  Made(n)'
  <2>1. n \in FsNode => FileStays(n)
    BY <1>1 DEF StepFacts
  <2> QED
    BY <1>1, <2>1 DEF Made, Read, FileStays
<1>2. ASSUME NEW n \in Node, entry'[n].phase = "Completed" PROVE Made(n)'
  <2>1. CASE StaysPut(n)
    <3>1. Made(n)
      BY <1>2, <2>1 DEF StaysPut, SoundInv
    <3> QED
      BY <1>1, <1>2, <2>1, <3>1 DEF StaysPut
  <2>2. ASSUME NEW r \in runs, r.node = n, CompletePublish(r) PROVE Made(n)'
    <3>1. /\ Current(r) /\ IsOver(r) /\ entry'[n].used = UsedBy(r)
          /\ r.out = None => entry'[n].res = entry[n].res
          /\ r.out # None => entry'[n].res = r.out
          /\ disk' = disk /\ pending' = pending
      BY <2>2, PublishFacts DEF IsOver
    <3>2. RunMade(r) /\ RunSound(r)
      BY <3>1 DEF SoundInv
    <3>3. CASE r.out = None
      <4>1. Made(n) /\ entry'[n].used = entry[n].used
        BY <2>2, <3>1, <3>2, <3>3 DEF RunMade, Keeps, UsedBy
      <4> QED
        BY <1>1, <1>2, <3>1, <3>3, <4>1
    <3>4. CASE r.out # None
      <4>1. entry'[n].used = r.got /\ entry'[n].res = r.out
        BY <3>1, <3>4 DEF UsedBy
      <4> QED
        BY <2>2, <3>1, <3>2, <3>4, <4>1 DEF RunMade, RunSound, Made, Read
    <3> QED
      BY <3>3, <3>4
  <2> QED
    BY <1>2, <2>1, <2>2 DEF StepFacts, EntryMoves, StartsOver
<1>3. ASSUME NEW a \in runs', Current(a)' PROVE RunMade(a)'
  <2>1. entry'[a.node].phase = "Running"
    BY <1>3 DEF FreshInv, RunsGood, RunGood
  <2>2. CASE Begun(a)
    <3>1. InCheck(a) => Made(a.node)
      BY <2>2 DEF Begun, IsCleanable, SoundInv
    <3>2. InCheck(a) => Made(a.node)'
      BY <1>1, <2>1, <2>2, <3>1 DEF Begun
    <3> QED
      BY <2>2, <3>2 DEF Begun, RunMade, Keeps
  <2>3. ASSUME NEW q \in runs, Becomes(q, a) PROVE RunMade(a)'
    <3>1. a.node = q.node /\ a.token = q.token /\ q.node \in Node
      BY <2>3 DEF Becomes, FreshInv, RunInv, TypeOK, RunState
    <3>2. Current(q) /\ StaysPut(q.node)
      BY <1>3, <3>1, StillCurrent DEF StepFacts
    <3>3. RunMade(q)
      BY <3>2 DEF SoundInv
    <3>4. Keeps(a) => Made(a.node)'
      BY <1>1, <2>1, <2>3, <3>1, <3>2, <3>3 DEF Becomes, RunMade, StaysPut
    <3>5. ASSUME IsOver(a), a.node \in FsNode, a.out # None PROVE Read(a.node, a.out)'
      <4>1. FileStays(a.node)
        BY <2>1, <3>5 DEF StepFacts
      <4>2. Read(a.node, a.out)
        BY <2>3, <3>1, <3>3, <3>5 DEF Becomes, RunMade, Read
      <4> QED
        BY <4>1, <4>2 DEF Read, FileStays
    <3> QED
      BY <3>4, <3>5 DEF RunMade
  <2> QED
    BY <2>2, <2>3 DEF StepFacts, RunComes
<1>4. \A n \in Node : entry'[n].res = Cyclic => n \in CanCycle
  BY CyclicKept DEF StepFacts
<1>5. \A a \in runs' : RunSound(a)
  BY DEF StepFacts, RunComes
<1>6. \A n \in Node : Out(n)' \subseteq AskedBy(n)
  BY DEF StepFacts
<1> QED
  BY <1>2, <1>3, <1>4, <1>5, <1>6 DEF SoundInv

-----------------------------------------------------------------------------
(* What the files give. *)

LEMMA CleanWalk ==
    ASSUME edges \in [Node -> Seq(Node)], NEW d \in Node
    PROVE  /\ Walk({d}, CleanOut) \subseteq Node
           /\ d \in Walk({d}, CleanOut)
           /\ \A x \in Walk({d}, CleanOut) : CleanOut[x] \subseteq Walk({d}, CleanOut)
           /\ \A x \in Walk({d}, CleanOut) : x = d \/ x \notin Cacheable \/ IsClean(x)
<1>1. \A x \in Node : Out(x) \subseteq Node
  BY DEF Out
<1>2. \A x \in Node : CleanOut[x] = {e \in Out(x) : e \in Cacheable => IsClean(e)}
  BY DEF CleanOut
<1>3. /\ Walk({d}, CleanOut) \subseteq Node /\ d \in Walk({d}, CleanOut)
      /\ \A x \in Walk({d}, CleanOut) : CleanOut[x] \subseteq Walk({d}, CleanOut)
  BY <1>1, <1>2 DEF Walk
<1>4. ASSUME NEW x \in Walk({d}, CleanOut) PROVE x = d \/ x \notin Cacheable \/ IsClean(x)
  <2> DEFINE C == {y \in Node : y = d \/ y \notin Cacheable \/ IsClean(y)}
  <2>1. C \in SUBSET Node /\ {d} \subseteq C /\ \A y \in C : CleanOut[y] \subseteq C
    BY <1>1, <1>2
  <2> HIDE DEF C
  <2>2. x \in C
    BY <2>1 DEF Walk
  <2> QED
    BY <2>2 DEF C
<1> QED
  BY <1>3, <1>4

(* What depends on d has the files of d in its basis. *)
LEMMA BasisGrows ==
    ASSUME edges \in [Node -> Seq(Node)], NEW n \in Node, NEW d \in Out(n), d \in Cacheable => IsClean(d)
    PROVE  Basis(d) \subseteq Basis(n)
<1>1. d \in Node
  BY DEF Out
<1> DEFINE W == Walk({n}, CleanOut)
<1>2. W \in SUBSET Node /\ {d} \subseteq W /\ \A x \in W : CleanOut[x] \subseteq W
  <2>1. /\ W \subseteq Node /\ n \in W /\ \A x \in W : CleanOut[x] \subseteq W
    BY CleanWalk
  <2>2. d \in CleanOut[n]
    BY DEF CleanOut
  <2> QED
    BY <2>1, <2>2
<1> HIDE DEF W
<1>3. Walk({d}, CleanOut) \subseteq W
  BY <1>2 DEF Walk
<1> QED
  BY <1>3 DEF Basis, W

(* A result that was computed from what is right is right. *)
LEMMA RightReturns ==
    ASSUME edges \in [Node -> Seq(Node)], NEW n \in Node \ FsNode, NEW g, NEW x, Obtained(x), Returns(n, Told(g), x),
           \A d \in Node : Obtained(g[d]) =>
              d \in Out(n) /\ (d \in Cacheable => IsClean(d)) /\ Right(d, g[d])
    PROVE  Right(n, x)
<1> SUFFICES ASSUME NEW T \in Truths, \A z \in Basis(n) : T[z] = entry[z].res PROVE T[n] = x
  BY DEF Right
<1> DEFINE S == {d \in Node : Obtained(g[d])}
<1>1. ASSUME NEW d \in S PROVE T[d] = g[d]
  <2>1. Basis(d) \subseteq Basis(n)
    BY BasisGrows
  <2> QED
    BY <2>1 DEF Right
<1>2. Told(g) = Only(T, S)
  BY <1>1 DEF Told, Only
<1>3. S \in SUBSET Node
  OBVIOUS
<1> HIDE DEF S
<1>4. Returns(n, Only(T, S), x)
  BY <1>2
<1> QED
  BY <1>3, <1>4 DEF Truths, Obtained

(* A clean value is right. *)
LEMMA CleanRight ==
    ASSUME FreshInv, SoundInv, Acyclic, NEW n \in Cacheable, IsClean(n), Obtained(entry[n].res)
    PROVE  Right(n, entry[n].res)
<1>0. edges \in [Node -> Seq(Node)] /\ entry \in [Node -> EntryState] /\ Cacheable \subseteq Node
  BY NodeAssumption DEF FreshInv, RunInv, TypeOK
<1> DEFINE B == {d \in Cacheable : IsClean(d) /\ Obtained(entry[d].res) /\ ~Right(d, entry[d].res)}
<1> SUFFICES ASSUME B # {} PROVE FALSE
  OBVIOUS
<1>1. B \in SUBSET Node
  BY <1>0
<1> HIDE DEF B
<1>2. PICK d \in B : Out(d) \cap B = {}
  BY <1>1 DEF Acyclic
<1>3. d \in Cacheable /\ d \in Node /\ IsClean(d) /\ Obtained(entry[d].res) /\ ~Right(d, entry[d].res)
  BY <1>0 DEF B
<1>4. Made(d) /\ Fresh(d, entry[d].used) /\ entry[d].used \in Answers
  BY <1>0, <1>3 DEF SoundInv, FreshInv, EntriesFresh, EntryFresh, IsClean, EntryState
<1>5. CASE d \in FsNode
  <2>1. d \in Basis(d)
    BY <1>0, <1>3, <1>5, CleanWalk DEF Basis
  <2> QED
    BY <1>3, <2>1 DEF Right
<1>6. CASE d \notin FsNode
  <2> DEFINE g == entry[d].used
  <2>1. Returns(d, Told(g), entry[d].res)
    BY <1>3, <1>4, <1>6 DEF Made
  <2> HIDE DEF g
  <2>2. ASSUME NEW e \in Node, Obtained(g[e])
        PROVE  e \in Out(d) /\ (e \in Cacheable => IsClean(e)) /\ Right(e, g[e])
    <3>1. Told(g)[e] = g[e] /\ g[e] # None
      BY <2>2, NothingObtained DEF Told, Only
    <3>2. AsksFor(d, Told(g), e)
      BY <2>1, <3>1 DEF Returns
    <3>3. Told(g) \in Answers
      BY <1>4, OnlyFacts DEF Told, g
    <3>4. PICK C \in SUBSET (Values(Told(g)) \ {e}) : e \in Wanted(d, Only(Told(g), C))
      BY <3>2 DEF AsksFor
    <3>5. e \in Cacheable
      BY <1>3, <3>3, <3>4, OnlyFacts, ReuseAssumption
    <3>6. e \in Out(d) /\ IsClean(e) /\ entry[e].res = g[e]
      BY <1>4, <2>2, <3>5 DEF Fresh, g
    <3>7. Right(e, g[e])
      BY <1>2, <2>2, <3>5, <3>6 DEF B
    <3> QED
      BY <3>6, <3>7
  <2>3. Right(d, entry[d].res)
    BY <1>0, <1>3, <1>6, <2>1, <2>2, RightReturns
  <2> QED
    BY <1>3, <2>3
<1> QED
  BY <1>5, <1>6

(* What a live run that was not dirtied returns is right. *)
LEMMA ResultRight ==
    ASSUME FreshInv, SoundInv, RightInv, Acyclic, NEW r \in runs, Current(r), IsOver(r),
           ~entry[r.node].dirty, r.node \notin FsNode, Obtained(r.out)
    PROVE  Right(r.node, r.out)
<1>0. edges \in [Node -> Seq(Node)] /\ Cacheable \subseteq Node /\ r.node \in Node
  BY NodeAssumption DEF FreshInv, RunInv, TypeOK, RunState
<1>1. RunFresh(r) /\ HoldsRight(r) /\ RunSound(r)
  BY DEF FreshInv, RunsGood, RunGood, RightInv, SoundInv
<1>2. ASSUME NEW d \in Node, Obtained(r.got[d])
      PROVE  d \in Out(r.node) /\ (d \in Cacheable => IsClean(d)) /\ Right(d, r.got[d])
  <2>1. CASE d \in Cacheable
    <3>1. d \in Out(r.node) /\ IsClean(d) /\ entry[d].res = r.got[d]
      BY <1>1, <1>2, <2>1 DEF RunFresh, HoldsFresh, Fresh
    <3> QED
      BY <1>2, <2>1, <3>1, CleanRight
  <2>2. CASE d \notin Cacheable
    BY <1>1, <1>2, <2>2 DEF HoldsRight
  <2> QED
    BY <2>1, <2>2
<1>3. Returns(r.node, Told(r.got), r.out)
  BY <1>1 DEF RunSound
<1> QED
  BY <1>0, <1>2, <1>3, RightReturns

LEMMA WalkClosed ==
    ASSUME NEW step \in [Node -> SUBSET Node], NEW d \in Node
    PROVE  d \in Walk({d}, step) /\ \A x \in Walk({d}, step) : step[x] \subseteq Walk({d}, step)
  BY DEF Walk

(* An answer stays right as long as nothing it rests on is disturbed. *)
LEMMA RightStays ==
    ASSUME TypeOK, TypeOK', NEW d \in Node \ Cacheable, NEW x, Right(d, x),
           \A k \in Walk({d}, CleanOut) : Out(k) \subseteq Out(k)' /\ (k \in Cacheable => StaysClean(k))
    PROVE  Right(d, x)'
<1> DEFINE W == Walk({d}, CleanOut)
<1>0. FsNode \subseteq Cacheable /\ Cacheable \subseteq Node /\ edges \in [Node -> Seq(Node)] /\ edges' \in [Node -> Seq(Node)]
  BY NodeAssumption DEF TypeOK
<1>1. /\ W \subseteq Node /\ d \in W /\ \A y \in W : CleanOut[y] \subseteq W
      /\ \A y \in W : y = d \/ y \notin Cacheable \/ IsClean(y)
  BY <1>0, CleanWalk
<1>2. PICK step : step = CleanOut'
  OBVIOUS
<1>3. step \in [Node -> SUBSET Node] /\ \A y \in Node : step[y] = {e \in Out(y)' : e \in Cacheable => IsClean(e)'}
  <2>1. \A y \in Node : Out(y)' \subseteq Node
    BY <1>0 DEF Out
  <2> QED
    BY <1>2, <2>1 DEF CleanOut
<1> DEFINE V == Walk({d}, step)
<1>4. d \in V /\ \A y \in V : step[y] \subseteq V
  BY <1>3, WalkClosed
<1>5. W \subseteq V
  <2> DEFINE C == W \cap V
  <2>1. \A y \in W : \A e \in CleanOut[y] : e \in step[y]
    <3> TAKE y \in W
    <3> TAKE e \in CleanOut[y]
    <3>1. e \in Out(y) /\ (e \in Cacheable => IsClean(e)) /\ e \in W
      BY <1>1 DEF CleanOut
    <3>2. e \in Cacheable => IsClean(e)'
      BY <3>1 DEF StaysClean
    <3> QED
      BY <1>1, <1>3, <3>1, <3>2
  <2>2. C \in SUBSET Node /\ {d} \subseteq C /\ \A y \in C : CleanOut[y] \subseteq C
    BY <1>1, <1>4, <2>1
  <2> HIDE DEF C
  <2>3. W \subseteq C
    BY <2>2 DEF Walk
  <2> QED
    BY <2>3 DEF C
<1>6. Basis(d)' = V \cap FsNode
  BY <1>2 DEF Basis, Walk
<1>7. \A z \in Basis(d) : z \in Basis(d)' /\ entry'[z].res = entry[z].res
  <2> TAKE z \in Basis(d)
  <2>1. z \in W /\ z \in Cacheable /\ z \in FsNode
    BY <1>0 DEF Basis
  <2>2. IsClean(z)
    BY <1>1, <2>1
  <2> QED
    BY <1>5, <1>6, <2>1, <2>2 DEF StaysClean
<1> QED
  BY <1>7 DEF Right

LEMMA RightKept ==
    ASSUME FreshInv, FreshInv', SoundInv, Acyclic, RightInv, StepFacts
    PROVE  RightInv'
<1>0. /\ TypeOK /\ TypeOK' /\ edges \in [Node -> Seq(Node)]
      /\ FsNode \subseteq Cacheable /\ Cacheable \subseteq Node
  BY NodeAssumption DEF FreshInv, RunInv, TypeOK
<1> SUFFICES ASSUME NEW a \in runs', Current(a)', ~entry'[a.node].dirty,
                    NEW d \in Node \ Cacheable, Obtained(a.got[d])
             PROVE  d \in Out(a.node)' /\ Right(d, a.got[d])'
  BY DEF RightInv, HoldsRight
<1>1. PICK q \in runs : Becomes(q, a)
  <2>1. ~Begun(a)
    BY NothingObtained DEF Begun
  <2> QED
    BY <2>1 DEF StepFacts, RunComes
<1>2. PICK n \in Node : n = a.node /\ n = q.node
  BY <1>0, <1>1 DEF Becomes, TypeOK, RunState
<1>3. Current(q) /\ StaysPut(n) /\ entry'[n].phase = "Running" /\ ~entry[n].dirty
  <2>1. Current(q) /\ StaysPut(n) /\ entry'[n].phase = "Running"
    BY <1>1, <1>2, StillCurrent DEF Becomes, StepFacts
  <2> QED
    BY <1>2, <2>1 DEF StaysPut
<1>4. RunSound(q) /\ RunFresh(q) /\ HoldsRight(q)
  BY <1>3 DEF SoundInv, RightInv, FreshInv, RunsGood, RunGood
<1>5. PICK x : x = a.got[d]
  OBVIOUS
<1>6. d \in Out(n) /\ Right(d, x) /\ Asked(q, d)
  <2>1. CASE x = q.got[d]
    <3>1. d \in Out(n) /\ Right(d, x)
      BY <1>2, <1>3, <1>4, <1>5, <2>1 DEF HoldsRight
    <3> QED
      BY <1>5, <2>1, <3>1, NothingObtained DEF Asked
  <2>2. CASE d \in q.wait /\ IsClean(d)' /\ x = entry'[d].res
    <3>1. d \in Out(n) /\ entry[d].phase = "Running" /\ Asked(q, d)
      BY <1>2, <1>4, <2>2 DEF RunFresh, Waiting, Asked
    <3>2. entry'[d].phase = "Completed"
      BY <2>2 DEF IsClean
    <3>3. PICK r \in runs : r.node = d /\ CompletePublish(r)
      BY <3>1, <3>2 DEF StepFacts, EntryMoves, StaysPut, StartsOver
    <3>4. /\ Current(r) /\ IsOver(r) /\ ~entry[d].dirty
          /\ r.out # None => entry'[d].res = r.out
      BY <3>3, PublishFacts DEF IsOver
    <3>5. r.out # None
      BY <3>3, <3>4 DEF SoundInv, RunSound, Keeps
    <3>6. Right(d, x)
      BY <1>0, <1>5, <2>2, <3>3, <3>4, <3>5, ResultRight
    <3> QED
      BY <3>1, <3>6
  <2> QED
    BY <1>1, <1>5, <2>1, <2>2 DEF Becomes
<1>7. n \notin Cacheable
  <2>1. d \in AskedBy(n)
    BY <1>2, <1>4, <1>6 DEF RunSound
  <2> QED
    BY <2>1, ReuseAssumption DEF AskedBy
<1> DEFINE W == Walk({d}, CleanOut)
<1>8. /\ W \subseteq Node /\ d \in W
      /\ \A y \in W : y = d \/ y \notin Cacheable \/ IsClean(y)
  BY <1>0, CleanWalk
<1>9. Out(n) \subseteq Out(n)' /\ \A k \in W : Out(k) \subseteq Out(k)' /\ (k \in Cacheable => StaysClean(k))
  <2>1. CASE Calm
    BY <1>7, <1>8, <2>1 DEF Calm
  <2>2. CASE Dirties
    <3>1. PICK D \in SUBSET Node :
            /\ \A m \in Node : Out(m) \cap D # {} => m \in D
            /\ \A m \in Node \ D : entry'[m] = entry[m] /\ edges'[m] = edges[m]
            /\ \A m \in D : entry'[m].phase # "Running" \/ entry'[m].dirty
      BY <2>2 DEF Dirties
    <3>2. n \notin D /\ d \notin D
      BY <1>2, <1>3, <1>6, <3>1
    <3> DEFINE C == Node \ D
    <3>3. C \in SUBSET Node /\ {d} \subseteq C /\ \A y \in C : CleanOut[y] \subseteq C
      <4>1. \A y \in Node : Out(y) \subseteq Node
        BY <1>0 DEF Out
      <4> QED
        BY <3>1, <3>2, <4>1 DEF CleanOut
    <3> HIDE DEF C
    <3>4. W \subseteq C
      BY <3>3 DEF Walk
    <3>5. \A k \in C : Out(k)' = Out(k) /\ StaysClean(k)
      BY <3>1 DEF C, Out, StaysClean, IsClean
    <3>6. n \in C
      BY <3>2 DEF C
    <3> QED
      BY <3>4, <3>5, <3>6
  <2>3. ~Forgets
    BY <1>3 DEF Forgets
  <2> QED
    BY <2>1, <2>2, <2>3 DEF StepFacts
<1>10. Right(d, x)'
  BY <1>0, <1>6, <1>9, RightStays
<1> QED
  BY <1>2, <1>5, <1>6, <1>9, <1>10

-----------------------------------------------------------------------------
(* Every step does only that. *)
LEMMA SameComes == ASSUME SoundInv, NEW a \in runs PROVE RunComes(a)
<1>1. Becomes(a, a)
  BY DEF Becomes
<1> QED
  BY <1>1 DEF RunComes, SoundInv

LEMMA MovedComes ==
    ASSUME TypeOK, SoundInv, NEW q \in runs, NEW a \in RunState, RunMove(q, a),
           \A d \in Node : entry'[d].res = Cyclic => d \in CanCycle
    PROVE  RunComes(a)
<1>0. q \in RunState /\ RunSound(q) /\ ~Obtained(Invalidated)
  BY OutcomeAssumption DEF TypeOK, SoundInv, Obtained, Failure
<1>1. RunSound(a)
  BY <1>0, MovedSound
<1>2. Becomes(q, a)
  BY <1>0, NodeAssumption DEF RunMove, AnswerMove, Becomes, Keeps, InCheck, IsOver
<1> QED
  BY <1>1, <1>2 DEF RunComes

LEMMA GoesOnComes ==
    ASSUME NEW r \in runs, r \in RunState, NEW a \in RunState, NEW d \in Node, RunSound(r), GoesOn(r, a, d),
           r.got[d] = None, AsksFor(r.node, r.got, d), a.got[d] = Cyclic => r.node \in CanCycle,
           Obtained(a.got[d]) => d \in Cacheable
    PROVE  RunComes(a)
<1>1. RunSound(a)
  BY GoesOnSound
<1>2. Becomes(r, a)
  BY NodeAssumption DEF GoesOn, Becomes, Keeps, InCheck, IsOver
<1> QED
  BY <1>1, <1>2 DEF RunComes

(* Steps that leave the entries alone. *)
LEMMA QuietFacts ==
    ASSUME FreshInv, SoundInv, entry' = entry, \A n \in FsNode : FileStays(n),
           \A n \in Node : /\ Out(n)' \subseteq AskedBy(n)
                           /\ Out(n) \subseteq Out(n)' \/ (n \in Cacheable /\ ~IsClean(n)),
           \A a \in runs' : a \in runs \/ RunComes(a)
    PROVE  StepFacts
<1>1. \A n \in Node : EntryMoves(n)
  BY DEF EntryMoves, StaysPut
<1>2. Calm
  BY NodeAssumption DEF Calm, StaysClean, IsClean
<1> QED
  BY <1>1, <1>2, SameComes DEF StepFacts

LEMMA OutsideFacts ==
    ASSUME FreshInv, SoundInv, UNCHANGED <<entry, edges, runs>>, \A n \in FsNode : FileStays(n)
    PROVE  StepFacts
<1>1. \A n \in Node : Out(n)' = Out(n) /\ Out(n) \subseteq AskedBy(n)
  BY DEF Out, SoundInv
<1> QED
  BY <1>1, QuietFacts

LEMMA WriteFacts == ASSUME FreshInv, SoundInv, NEW f \in FsNode, Write(f) PROVE StepFacts
<1>1. \A n \in FsNode : FileStays(n)
  BY DEF Write, FileStays, FreshInv, RunInv, TypeOK
<1> QED
  BY <1>1, OutsideFacts DEF Write

(* Steps of a run that goes from r to a. *)
LEMMA ReplaceFacts ==
    ASSUME FreshInv, SoundInv, NEW r \in runs, NEW a, Replace(r, a), RunComes(a),
           UNCHANGED <<entry, edges, disk, pending>>
    PROVE  StepFacts
<1>1. \A n \in Node : Out(n)' = Out(n) /\ Out(n) \subseteq AskedBy(n)
  BY DEF Out, SoundInv
<1>2. \A n \in FsNode : FileStays(n)
  BY DEF FileStays
<1> QED
  BY <1>1, <1>2, QuietFacts DEF Replace

LEMMA FoundCleanFacts == ASSUME FreshInv, SoundInv, NEW r \in runs, FoundClean(r) PROVE StepFacts
<1>0. RunSound(r) /\ r.node \in Node /\ InCheck(r) /\ r.node \in Cacheable
  BY DEF SoundInv, FreshInv, RunInv, TypeOK, RunState, FoundClean, InCheck, RunSound, Keeps
<1>1. PICK a, token, prev : a = NewRun(r.node, token, "finished", prev) /\ token = r.token /\ prev = <<>>
  OBVIOUS
<1>2. RunSound(a) /\ a.node = r.node /\ a.token = r.token /\ a.out = None /\ \A d \in Node : a.got[d] = None
  BY <1>0, <1>1, NewRunSound
<1>3. RunComes(a)
  BY <1>0, <1>2, NothingObtained DEF RunComes, Becomes, Keeps
<1> QED
  BY <1>1, <1>3, ReplaceFacts DEF FoundClean

LEMMA ClearDepsFacts == ASSUME FreshInv, SoundInv, NEW r \in runs, ClearDeps(r) PROVE StepFacts
<1>0. /\ RunSound(r) /\ r.node \in Node /\ InCheck(r) /\ r.node \in Cacheable /\ RunGood(r)
      /\ edges \in [Node -> Seq(Node)]
  BY DEF SoundInv, FreshInv, RunInv, TypeOK, RunState, ClearDeps, InCheck, RunSound, Keeps, RunsGood
<1>1. PICK a, token, prev : a = NewRun(r.node, token, "run", prev) /\ token = r.token /\ prev = <<>>
  OBVIOUS
<1>2. /\ RunSound(a) /\ a.node = r.node /\ a.token = r.token /\ a.out = None /\ a.pc = "run"
      /\ \A d \in Node : a.got[d] = None
  BY <1>0, <1>1, NewRunSound
<1>3. RunComes(a)
  BY <1>0, <1>2, NothingObtained DEF RunComes, Becomes, Keeps, InCheck, IsOver
<1>4. /\ runs' = (runs \ {r}) \cup {a} /\ UNCHANGED <<entry, disk, pending>>
      /\ edges' = [edges EXCEPT ![r.node] = IF entry[r.node].token = r.token THEN <<>> ELSE @]
  BY <1>1 DEF ClearDeps, Replace
<1>5. ASSUME NEW n \in Node
      PROVE  /\ Out(n)' \subseteq AskedBy(n)
             /\ Out(n) \subseteq Out(n)' \/ (n \in Cacheable /\ ~IsClean(n))
  <2>1. edges'[n] = edges[n] \/ edges'[n] = <<>>
    BY <1>0, <1>4
  <2>2. Out(n)' \subseteq AskedBy(n)
    BY <2>1, SameOut DEF SoundInv
  <2>3. edges'[n] = edges[n] \/ (n = r.node /\ entry[n].phase = "Running")
    BY <1>0, <1>4 DEF RunGood, Current
  <2> QED
    BY <1>0, <2>2, <2>3 DEF Out, IsClean
<1>6. \A n \in FsNode : FileStays(n)
  BY <1>4 DEF FileStays
<1> QED
  BY <1>3, <1>4, <1>5, <1>6, QuietFacts

LEMMA FinishFacts == ASSUME FreshInv, SoundInv, NEW r \in runs, Finish(r) PROVE StepFacts
<1>1. TypeOK /\ RunSound(r)
  BY DEF FreshInv, RunInv, SoundInv
<1>2. PICK a : /\ Replace(r, a) /\ RunSound(a) /\ a.node = r.node /\ a.token = r.token /\ a.got = r.got
               /\ a.pc = "finished" /\ a.out # None
               /\ a.node \in FsNode => a.out = disk[a.node]
  BY <1>1, FinishSound
<1>3. RunComes(a)
  BY <1>2 DEF RunComes, Becomes, Keeps, InCheck
<1> QED
  BY <1>2, <1>3, ReplaceFacts DEF Finish

LEMMA CollectGenerationsFacts ==
    ASSUME FreshInv, SoundInv, NEW r \in runs, CollectGenerations(r)
    PROVE  StepFacts
<1>0. r \in RunState /\ r.pc = "finished" /\ RunSound(r)
  BY DEF FreshInv, RunInv, TypeOK, CollectGenerations, SoundInv
<1>1. PICK gens : gens = [i \in DOMAIN edges[r.node] |-> entry[edges[r.node][i]].gen]
  OBVIOUS
<1>2. PICK a : a = [r EXCEPT !.pc = "collected", !.depGens = gens]
  OBVIOUS
<1>3. /\ a.node = r.node /\ a.token = r.token /\ a.pc = "collected" /\ a.claim = r.claim
      /\ a.wait = r.wait /\ a.out = r.out /\ a.got = r.got
  BY <1>0, <1>2 DEF RunState
<1>4. RunSound(a)
  BY <1>0, <1>3 DEF RunSound, Asked, Keeps, InCheck, IsOver
<1>5. RunComes(a)
  BY <1>0, <1>3, <1>4 DEF RunComes, Becomes, Keeps, InCheck, IsOver
<1> QED
  BY <1>1, <1>2, <1>5, ReplaceFacts DEF CollectGenerations

LEMMA CompleteStaleFacts == ASSUME FreshInv, SoundInv, NEW r \in runs, CompleteStale(r) PROVE StepFacts
<1>1. \A n \in Node : Out(n)' = Out(n) /\ Out(n) \subseteq AskedBy(n)
  BY DEF Out, SoundInv, CompleteStale
<1>2. \A n \in FsNode : FileStays(n)
  BY DEF FileStays, CompleteStale
<1> QED
  BY <1>1, <1>2, QuietFacts DEF CompleteStale

(* Graph::get refuses a request. *)
LEMMA GetRefusedFacts ==
    ASSUME FreshInv, FreshInv', SoundInv, NEW r \in runs, NEW d \in Node,
           GetWhileDraining(r, d) \/ GetFindsCycle(r, d)
    PROVE  StepFacts
<1>0. /\ r \in RunState /\ r.node \in Node /\ r.got \in Answers /\ RunSound(r)
      /\ edges \in [Node -> Seq(Node)] /\ TypeOK'
  BY DEF FreshInv, RunInv, TypeOK, RunState, SoundInv
<1>1. /\ r.pc = "run" /\ d \in Wanted(r.node, r.got) /\ ~Asked(r, d)
      /\ UNCHANGED <<entry, edges, disk, pending>>
  BY DEF GetWhileDraining, GetFindsCycle, Requests
<1>2. r.got[d] = None /\ d \notin r.claim /\ d \notin r.wait /\ AsksFor(r.node, r.got, d)
  BY <1>0, <1>1, WantedAsks DEF Asked
<1>3. WouldCycle(r.node, d) => r.node \in CanCycle
  BY <1>0, <1>2, AsksForAskedBy, WouldCycleCan DEF SoundInv
<1>4. ~Obtained(Invalidated) /\ ~Obtained(Cyclic) /\ Invalidated # Cyclic
  BY OutcomeAssumption DEF Obtained, Failure
<1>5. PICK x, a : /\ ~Obtained(x) /\ Replace(r, a) /\ (x = Cyclic => r.node \in CanCycle)
                  /\ a = [r EXCEPT !.got[d] = x] \/ a = [r EXCEPT !.got[d] = x, !.cyc = None, !.tries = 0]
  BY <1>3, <1>4 DEF GetWhileDraining, GetFindsCycle
<1>6. /\ a.node = r.node /\ a.token = r.token /\ a.pc = r.pc /\ a.claim = r.claim /\ a.wait = r.wait
      /\ a.out = r.out /\ a.got = [r.got EXCEPT ![d] = x]
  BY <1>0, <1>5 DEF RunState
<1>7. a.got[d] = x /\ \A e \in Node \ {d} : a.got[e] = r.got[e]
  BY <1>0, <1>6 DEF Answers
<1>8. a \in RunState
  BY <1>0, <1>5 DEF Replace, TypeOK
<1>9. GoesOn(r, a, d)
  BY <1>1, <1>2, <1>6, <1>7 DEF GoesOn
<1>10. RunComes(a)
  BY <1>0, <1>2, <1>5, <1>7, <1>8, <1>9, GoesOnComes
<1> QED
  BY <1>1, <1>5, <1>10, ReplaceFacts

LEMMA GetAddsEdgeFacts ==
    ASSUME FreshInv, FreshInv', SoundInv, NEW r \in runs, NEW d \in Node, GetAddsEdge(r, d)
    PROVE  StepFacts
<1> DEFINE n == r.node
<1>0. /\ r \in RunState /\ n \in Node /\ r.got \in Answers /\ RunSound(r)
      /\ edges \in [Node -> Seq(Node)] /\ TypeOK'
  BY DEF FreshInv, RunInv, TypeOK, RunState, SoundInv
<1>1. /\ r.pc = "run" /\ d \in Wanted(n, r.got) /\ ~Asked(r, d)
      /\ edges' = [edges EXCEPT ![n] = Append(edges[n], d)]
      /\ UNCHANGED <<entry, disk, pending>>
  BY <1>0 DEF GetAddsEdge, Requests
<1>2. r.got[d] = None /\ d \notin r.claim /\ d \notin r.wait /\ AsksFor(n, r.got, d) /\ d \in AskedBy(n)
  BY <1>0, <1>1, WantedAsks, AsksForAskedBy DEF Asked
<1>3. PICK a : a = [r EXCEPT !.claim = @ \cup {d}, !.cyc = None, !.tries = 0] /\ Replace(r, a)
  BY DEF GetAddsEdge
<1>4. /\ a.node = r.node /\ a.token = r.token /\ a.pc = r.pc /\ a.claim = r.claim \cup {d} /\ a.wait = r.wait
      /\ a.out = r.out /\ a.got = r.got
  BY <1>0, <1>3 DEF RunState
<1>5. a \in RunState
  BY <1>0, <1>3 DEF Replace, TypeOK
<1>6. GoesOn(r, a, d)
  BY <1>1, <1>2, <1>4 DEF GoesOn
<1>7. None # Cyclic
  BY OutcomeAssumption DEF Outcome, Failure
<1>8. RunComes(a)
  BY <1>0, <1>2, <1>4, <1>5, <1>6, <1>7, NothingObtained, GoesOnComes
<1>9. Out(n)' = Out(n) \cup {d}
  <2>1. edges'[n] = Append(edges[n], d) /\ edges[n] \in Seq(Node)
    BY <1>0, <1>1
  <2>2. /\ Len(edges[n]) \in Nat /\ DOMAIN edges[n] = 1..Len(edges[n])
        /\ DOMAIN edges'[n] = 1..(Len(edges[n]) + 1)
        /\ \A i \in 1..Len(edges[n]) : edges'[n][i] = edges[n][i]
        /\ edges'[n][Len(edges[n]) + 1] = d
    BY <2>1
  <2>3. /\ \A i \in DOMAIN edges'[n] : i \in DOMAIN edges[n] \/ i = Len(edges[n]) + 1
        /\ DOMAIN edges[n] \subseteq DOMAIN edges'[n] /\ Len(edges[n]) + 1 \in DOMAIN edges'[n]
    BY <2>2
  <2> QED
    BY <2>2, <2>3 DEF Out
<1>10. \A m \in Node \ {n} : Out(m)' = Out(m)
  BY <1>0, <1>1 DEF Out
<1>11. \A m \in Node : Out(m)' \subseteq AskedBy(m) /\ Out(m) \subseteq Out(m)'
  BY <1>2, <1>9, <1>10 DEF SoundInv
<1>12. \A m \in FsNode : FileStays(m)
  BY <1>1 DEF FileStays
<1> QED
  BY <1>1, <1>3, <1>8, <1>11, <1>12, QuietFacts DEF Replace

-----------------------------------------------------------------------------
(* Nodes are started. *)
LEMMA StartedFacts ==
    ASSUME FreshInv, SoundInv, NEW N, StartEffect(N), UNCHANGED <<disk, pending>>,
           \A a \in runs' : a \in runs \/ (\E n \in N : a = StartedRun(n)) \/ RunComes(a)
    PROVE  StepFacts
<1>0. TypeOK /\ N \subseteq Node /\ Cacheable \subseteq Node /\ edges' = edges
  BY NodeAssumption DEF FreshInv, RunInv, TypeOK, StartEffect
<1>1. /\ \A d \in Cacheable : StaysClean(d)
      /\ \A n \in Node \ N : entry'[n] = entry[n]
  BY <1>0, StartFacts
<1>2. ASSUME NEW n \in N
      PROVE  /\ entry'[n].phase = "Running" /\ entry'[n].token = entry[n].token + 1
             /\ entry'[n].res \in {entry[n].res, None}
             /\ IsCleanable(n) => entry'[n].res = entry[n].res /\ entry'[n].used = entry[n].used
  <2>1. entry'[n] = Started(n) /\ n \in Node
    BY <1>0 DEF StartEffect
  <2> QED
    BY <1>0, <2>1, StartedEffect DEF IsCleanable
<1>3. \A n \in Node : EntryMoves(n)
  BY <1>1, <1>2 DEF EntryMoves, StaysPut, StartsOver
<1>4. \A n \in Node : Out(n)' = Out(n) /\ Out(n) \subseteq AskedBy(n)
  BY <1>0 DEF Out, SoundInv
<1>5. ASSUME NEW n \in N, NEW a, a = StartedRun(n) PROVE RunComes(a)
  <2>1. /\ RunSound(a) /\ a.node = n /\ ~IsOver(a) /\ (InCheck(a) => IsCleanable(n))
        /\ \A d \in Node : a.got[d] = None
    BY <1>0, <1>5, StartedRunSound
  <2> QED
    BY <1>0, <1>2, <2>1 DEF RunComes, Begun
<1>6. \A n \in FsNode : FileStays(n)
  BY DEF FileStays
<1>7. Calm
  BY <1>1, <1>4 DEF Calm
<1> QED
  BY <1>3, <1>4, <1>5, <1>6, <1>7, SameComes DEF StepFacts

LEMMA StartOneFacts ==
    ASSUME FreshInv, SoundInv, NEW n \in Node, n \in nodes, IsStartable(n),
           entry' = [entry EXCEPT ![n] = Started(n)], runs' = runs \cup {StartedRun(n)},
           UNCHANGED <<nodes, edges, client, disk, pending>>
    PROVE  StepFacts
<1>1. entry' = [m \in Node |-> IF m \in {n} THEN Started(m) ELSE entry[m]]
  BY DEF FreshInv, RunInv, TypeOK
<1>2. StartEffect({n})
  BY <1>1 DEF StartEffect
<1> QED
  BY <1>2, StartedFacts

LEMMA ClientGetFacts ==
    ASSUME FreshInv, SoundInv, NEW c \in Client, NEW n \in Node, ClientGet(c, n)
    PROVE  StepFacts
<1>1. n \in nodes
  BY DEF FreshInv, NodesInv, ClientGet
<1>2. \A m \in FsNode : UNCHANGED <<disk, pending>> => FileStays(m)
  BY DEF FileStays
<1>3. CASE IsStartable(n)
  BY <1>1, <1>3, StartOneFacts DEF ClientGet
<1>4. CASE ~IsStartable(n)
  BY <1>2, <1>4, OutsideFacts DEF ClientGet
<1> QED
  BY <1>3, <1>4

LEMMA RunGetFacts ==
    ASSUME FreshInv, FreshInv', SoundInv, NEW r \in runs, NEW d \in Node, RunGet(r, d)
    PROVE  StepFacts
<1>0. /\ r \in RunState /\ r.node \in Node /\ r.got \in Answers /\ RunSound(r) /\ RunGood(r) /\ TypeOK'
      /\ d \in r.claim /\ UNCHANGED <<nodes, edges, client, disk, pending>>
  BY DEF FreshInv, RunInv, TypeOK, RunState, SoundInv, RunsGood, RunGet
<1>1. r.pc = "run" /\ r.got[d] = None /\ d \notin r.wait /\ AsksFor(r.node, r.got, d) /\ d \in AskedBy(r.node)
  BY <1>0 DEF RunSound, InCheck, Asked
<1>2. CASE IsStartable(d) /\ entry' = [entry EXCEPT ![d] = Started(d)] /\ runs' = runs \cup {StartedRun(d)}
  BY <1>0, <1>2, StartOneFacts DEF RunGood
<1>3. CASE /\ IsReady(d) /\ UNCHANGED entry
           /\ Replace(r, [r EXCEPT !.claim = @ \ {d}, !.got[d] = entry[d].res])
  <2>1. PICK a : a = [r EXCEPT !.claim = @ \ {d}, !.got[d] = entry[d].res]
    OBVIOUS
  <2>2. /\ a.node = r.node /\ a.token = r.token /\ a.pc = r.pc /\ a.claim = r.claim \ {d} /\ a.wait = r.wait
        /\ a.out = r.out /\ a.got = [r.got EXCEPT ![d] = entry[d].res]
    BY <1>0, <2>1 DEF RunState
  <2>3. a.got[d] = entry[d].res /\ \A e \in Node \ {d} : a.got[e] = r.got[e]
    BY <1>0, <2>2 DEF Answers
  <2>4. a \in RunState
    BY <1>0, <1>3, <2>1 DEF Replace, TypeOK
  <2>5. GoesOn(r, a, d)
    BY <1>1, <2>2, <2>3 DEF GoesOn
  <2>6. entry[d].res = Cyclic => r.node \in CanCycle
    BY <1>0, <1>1, CanCycleUp DEF SoundInv
  <2>7. d \in Cacheable
    BY <1>3 DEF IsReady
  <2>8. RunComes(a)
    BY <1>0, <1>1, <2>3, <2>4, <2>5, <2>6, <2>7, GoesOnComes
  <2> QED
    BY <1>0, <1>3, <2>1, <2>8, ReplaceFacts
<1>4. CASE /\ entry[d].phase = "Running" /\ UNCHANGED entry
           /\ Replace(r, [r EXCEPT !.claim = @ \ {d}, !.wait = @ \cup {d}])
  <2>1. PICK a : a = [r EXCEPT !.claim = @ \ {d}, !.wait = @ \cup {d}]
    OBVIOUS
  <2>2. /\ a.node = r.node /\ a.token = r.token /\ a.pc = r.pc /\ a.claim = r.claim \ {d}
        /\ a.wait = r.wait \cup {d} /\ a.out = r.out /\ a.got = r.got
    BY <1>0, <2>1 DEF RunState
  <2>3. a \in RunState
    BY <1>0, <1>4, <2>1 DEF Replace, TypeOK
  <2>4. GoesOn(r, a, d)
    BY <1>1, <2>2 DEF GoesOn
  <2>5. None # Cyclic
    BY OutcomeAssumption DEF Outcome, Failure
  <2>6. RunComes(a)
    BY <1>0, <1>1, <2>2, <2>3, <2>4, <2>5, NothingObtained, GoesOnComes
  <2> QED
    BY <1>0, <1>4, <2>1, <2>6, ReplaceFacts
<1> QED
  BY <1>2, <1>3, <1>4 DEF RunGet

LEMMA DepGenerationsFacts == ASSUME FreshInv, SoundInv, NEW r \in runs, DepGenerations(r) PROVE StepFacts
<1> DEFINE n == r.node
           deps == Out(n)
           start == {d \in deps : IsStartable(d)}
           ready == {d \in deps : IsReady(d)}
           wait == deps \ ready
           got == [d \in Node |-> IF d \in ready THEN entry[d].res ELSE None]
           gens == [d \in Node |-> IF d \in ready THEN entry[d].gen ELSE 0]
           new == [r EXCEPT !.pc = "checking", !.deps = edges[n], !.wait = wait,
                            !.got = got, !.gens = gens]
<1>0. /\ NodesInv /\ r \in RunState /\ n \in Node /\ edges[n] \in Seq(Node) /\ RunSound(r) /\ r.pc = "check"
  BY DEF FreshInv, RunInv, TypeOK, RunState, SoundInv, DepGenerations
<1>1. /\ entry' = [m \in Node |-> IF m \in start THEN Started(m) ELSE entry[m]]
      /\ runs' = (runs \ {r}) \cup {StartedRun(d) : d \in start} \cup {new}
      /\ UNCHANGED <<nodes, edges, client, disk, pending>>
  BY DEF DepGenerations
<1>2. PICK N, W, g, k, s, a : N = start /\ W = wait /\ g = got /\ k = gens /\ s = edges[n] /\ a = new
  OBVIOUS
<1>3. /\ a.node = n /\ a.token = r.token /\ a.pc = "checking" /\ a.out = r.out
      /\ a.claim = r.claim /\ a.wait = W /\ a.got = g
  BY <1>0, <1>2 DEF RunState
<1>4. StartEffect(N)
  BY <1>0, <1>1, <1>2 DEF StartEffect, NodesInv
<1>5. /\ W \subseteq Out(n) /\ Out(n) \subseteq Node /\ Out(n) \subseteq AskedBy(n)
      /\ \A d \in W : g[d] = None
  BY <1>0, <1>2 DEF Out, SoundInv
<1>6. \A d \in Node : g[d] # None => d \in Out(n) /\ IsReady(d) /\ g[d] = entry[d].res
  BY <1>2
<1>7. r.claim = {} /\ n \in Cacheable /\ ~Obtained(Cyclic)
  BY <1>0, OutcomeAssumption DEF RunSound, Keeps, InCheck, Obtained, Failure
<1>8. ASSUME NEW d \in Node, g[d] = Cyclic PROVE n \in CanCycle
  <2>1. None # Cyclic
    BY OutcomeAssumption DEF Outcome, Failure
  <2>2. entry[d].res = Cyclic /\ d \in AskedBy(n)
    BY <1>5, <1>6, <1>8, <2>1
  <2> QED
    BY <1>0, <2>2, CanCycleUp DEF SoundInv
<1>9. RunSound(a)
  <2>1. \A d \in Node : Asked(a, d) => d \in AskedBy(n)
    BY <1>3, <1>5, <1>6, <1>7 DEF Asked
  <2>2. a.out = Cyclic \/ (\E d \in Node : a.got[d] = Cyclic) => n \in CanCycle
    BY <1>0, <1>3, <1>8 DEF RunSound
  <2> QED
    BY <1>3, <1>5, <1>7, <2>1, <2>2 DEF RunSound, Keeps, InCheck, IsOver
<1>10. Becomes(r, a)
  <2>1. \A d \in Node \ Cacheable : ~Obtained(a.got[d])
    BY <1>3, <1>6, NothingObtained DEF IsReady
  <2> QED
    BY <1>0, <1>3, <2>1 DEF Becomes, Keeps, InCheck, IsOver
<1>11. RunComes(a)
  BY <1>9, <1>10 DEF RunComes
<1> QED
  BY <1>1, <1>2, <1>4, <1>11, StartedFacts

-----------------------------------------------------------------------------
(* Invalidation: what depends on a node that is cleared is dirtied. *)
LEMMA InvalidationFacts ==
    ASSUME FreshInv, FreshInv', SoundInv, NEW S, NEW rs, InvalidateFromRoots(S, rs), disk' = disk,
           \A n \in FsNode : n \in S \/ (n \in pending <=> n \in pending'),
           \A b \in rs : b \in RunState /\ \E q \in runs : Alike(q, b)
    PROVE  StepFacts
<1> DEFINE roots == S \cap nodes
           D == Walk(roots, Incoming)
<1>0. TypeOK /\ TypeOK' /\ NodesInv /\ FsNode \subseteq Node
  BY NodeAssumption DEF FreshInv, RunInv
<1>1. /\ entry' = [n \in Node |->
                      IF n \in roots THEN Cleared(entry[n], FALSE)
                      ELSE IF n \in D \ roots THEN Dirtied(entry[n])
                      ELSE entry[n]]
      /\ edges' = [n \in Node |-> IF n \in roots THEN <<>> ELSE edges[n]]
      /\ runs' = {Cancel(b, roots) : b \in rs}
  BY DEF InvalidateFromRoots
<1>2. /\ roots \subseteq D /\ D \subseteq Node
      /\ \A n \in Node : \A d \in Out(n) : d \in D => n \in D
  <2>1. roots \in SUBSET Node
    BY <1>0 DEF TypeOK
  <2> QED
    BY <1>0, <2>1, WalkDependees
<1>3. \A n \in S : n \in roots \/ n \notin nodes
  OBVIOUS
<1> HIDE DEF roots, D
<1>4. ASSUME NEW n \in Node, n \in roots
      PROVE  /\ entry'[n].phase = "NotStarted" /\ entry'[n].token = entry[n].token + 1
             /\ entry'[n].res = entry[n].res
  <2>1. entry'[n] = Cleared(entry[n], FALSE) /\ entry[n] \in EntryState
    BY <1>0, <1>1, <1>4 DEF TypeOK
  <2> QED
    BY <2>1, ClearedEffect
<1>5. ASSUME NEW n \in Node, n \in D, n \notin roots
      PROVE  /\ StaysPut(n)
             /\ entry[n].phase = "Running" => entry'[n].dirty
  <2>1. entry'[n] = Dirtied(entry[n]) /\ entry[n] \in EntryState
    BY <1>0, <1>1, <1>5 DEF TypeOK
  <2>2. /\ entry'[n].phase = entry[n].phase /\ entry'[n].token = entry[n].token
        /\ entry'[n].res = entry[n].res /\ entry'[n].used = entry[n].used
        /\ entry[n].phase = "Running" => entry'[n].dirty = TRUE
    BY <2>1, DirtiedEffect
  <2>3. entry[n].phase # "Running" => entry'[n].dirty = entry[n].dirty
    BY <2>1 DEF Dirtied, EntryState
  <2> QED
    BY <2>2, <2>3 DEF StaysPut
<1>6. \A n \in Node \ D : entry'[n] = entry[n] /\ edges'[n] = edges[n]
  BY <1>1, <1>2
<1>7. \A n \in Node : EntryMoves(n)
  <2> TAKE n \in Node
  <2>1. CASE n \in roots
    BY <1>4, <2>1 DEF EntryMoves, StartsOver
  <2>2. CASE n \in D /\ n \notin roots
    BY <1>5, <2>2 DEF EntryMoves
  <2>3. CASE n \notin D
    BY <1>6, <2>3 DEF EntryMoves, StaysPut
  <2> QED
    BY <1>2, <2>1, <2>2, <2>3
<1>8. \A n \in Node : Out(n)' \subseteq AskedBy(n)
  <2> TAKE n \in Node
  <2>1. edges'[n] = edges[n] \/ edges'[n] = <<>>
    BY <1>1
  <2> QED
    BY <2>1, SameOut DEF SoundInv
<1>9. \A d \in Node : entry'[d].res = Cyclic => d \in CanCycle
  BY <1>7, CyclicKept
<1>10. ASSUME NEW a \in runs' PROVE RunComes(a)
  <2>1. PICK b \in rs : a = Cancel(b, roots)
    BY <1>1
  <2>2. PICK q \in runs : Alike(q, b)
    OBVIOUS
  <2>3. RunMove(b, a) /\ a \in RunState
    BY <1>0, <2>1, CancelMove DEF TypeOK
  <2>4. RunMove(q, a)
    BY <2>2, <2>3 DEF RunMove, AnswerMove, Alike
  <2> QED
    BY <1>0, <1>9, <2>3, <2>4, MovedComes
<1>11. ASSUME NEW n \in FsNode PROVE FileStays(n) \/ entry'[n].phase = "NotStarted"
  <2>1. CASE n \notin S
    BY <2>1 DEF FileStays
  <2>2. CASE n \in roots
    BY <1>0, <1>4, <2>2
  <2>3. CASE n \notin nodes
    <3>1. entry[n].phase = "NotStarted" /\ n \in Node
      BY <1>0, <2>3 DEF NodesInv
    <3>2. n \in roots \/ entry'[n].phase = entry[n].phase
      BY <1>5, <1>6, <3>1 DEF StaysPut
    <3> QED
      BY <1>4, <3>1, <3>2
  <2> QED
    BY <1>3, <2>1, <2>2, <2>3
<1>12. Dirties
  <2>1. \A n \in D : entry'[n].phase # "Running" \/ entry'[n].dirty
    BY <1>2, <1>4, <1>5 DEF StaysPut
  <2>2. \A n \in Node : Out(n) \cap D # {} => n \in D
    BY <1>2
  <2>3. D \in SUBSET Node
    BY <1>2
  <2> QED
    BY <1>6, <2>1, <2>2, <2>3 DEF Dirties
<1> QED
  BY <1>7, <1>8, <1>10, <1>11, <1>12 DEF StepFacts

LEMMA InvalidationStepFacts ==
    ASSUME FreshInv, FreshInv', SoundInv,
           \/ InvalidateAllPaths
           \/ \E S \in SUBSET pending \ {{}} : Invalidate(S)
           \/ \E r \in runs, d \in Node : GetBreaksCycle(r, d)
    PROVE  StepFacts
<1>0. TypeOK /\ \A b \in runs : b \in RunState /\ \E q \in runs : Alike(q, b)
  BY DEF FreshInv, RunInv, TypeOK, Alike
<1>1. CASE InvalidateAllPaths
  <2>1. InvalidateFromRoots(FsNode, runs) /\ disk' = disk
    BY <1>1 DEF InvalidateAllPaths
  <2> QED
    BY <1>0, <2>1, InvalidationFacts
<1>2. ASSUME NEW S, Invalidate(S) PROVE StepFacts
  <2>1. InvalidateFromRoots(S, runs) /\ disk' = disk /\ pending' = pending \ S
    BY <1>2 DEF Invalidate
  <2> QED
    BY <1>0, <2>1, InvalidationFacts
<1>3. ASSUME NEW r \in runs, NEW d \in Node, GetBreaksCycle(r, d) PROVE StepFacts
  <2> DEFINE new == [r EXCEPT !.cyc = d, !.tries = @ + 1]
             rs == (runs \ {r}) \cup {new}
  <2>1. PICK path : InvalidateFromRoots({n \in path : MayHaveDirtyEdges(n)}, rs)
    BY <1>3 DEF GetBreaksCycle
  <2>2. r \in RunState /\ disk' = disk /\ pending' = pending
    BY <1>0, <1>3 DEF GetBreaksCycle
  <2>3. new \in RunState
    <3>1. None \in Outcome \cup {None}
      OBVIOUS
    <3> QED
      BY <2>2, <3>1, SuccessorTypes DEF Successor
  <2>4. Alike(r, new)
    BY <2>2 DEF Alike, RunState
  <2> HIDE DEF new
  <2>5. \A b \in rs : b \in RunState /\ \E q \in runs : Alike(q, b)
    BY <1>0, <2>3, <2>4
  <2> HIDE DEF rs
  <2>6. PICK S : S = {n \in path : MayHaveDirtyEdges(n)}
    OBVIOUS
  <2> QED
    BY <2>1, <2>2, <2>5, <2>6, InvalidationFacts
<1> QED
  BY <1>1, <1>2, <1>3

LEMMA ClearGraphFacts == ASSUME FreshInv, FreshInv', SoundInv, ClearGraph PROVE StepFacts
<1>0. TypeOK /\ TypeOK' /\ NodesInv /\ FsNode \subseteq Node
  BY NodeAssumption DEF FreshInv, RunInv
<1>1. /\ entry' = [n \in Node |-> IF n \in nodes THEN Cleared(entry[n], TRUE) ELSE entry[n]]
      /\ runs' = {Cancel(q, nodes) : q \in runs}
      /\ UNCHANGED edges
  BY DEF ClearGraph
<1>2. ASSUME NEW n \in Node PROVE entry'[n].phase = "NotStarted" /\ EntryMoves(n)
  <2>1. CASE n \in nodes
    <3>1. entry'[n] = Cleared(entry[n], TRUE) /\ entry[n] \in EntryState
      BY <1>0, <1>1, <2>1 DEF TypeOK
    <3> QED
      BY <3>1, ClearedEffect DEF EntryMoves, StartsOver
  <2>2. CASE n \notin nodes
    BY <1>0, <1>1, <2>2 DEF NodesInv, EntryMoves, StaysPut
  <2> QED
    BY <2>1, <2>2
<1>3. \A d \in Node : entry'[d].res = Cyclic => d \in CanCycle
  BY <1>2, CyclicKept
<1>4. ASSUME NEW a \in runs' PROVE RunComes(a)
  <2>1. PICK q \in runs : a = Cancel(q, nodes)
    BY <1>1
  <2>2. RunMove(q, a) /\ a \in RunState
    BY <1>0, <2>1, CancelMove DEF TypeOK
  <2> QED
    BY <1>0, <1>3, <2>2, MovedComes
<1>5. \A n \in Node : Out(n)' \subseteq AskedBy(n)
  BY <1>1 DEF Out, SoundInv
<1> QED
  BY <1>0, <1>2, <1>4, <1>5 DEF StepFacts, Forgets

-----------------------------------------------------------------------------
(* The steps by which a live run ends. *)
LEMMA EndStepFacts ==
    ASSUME FreshInv, FreshInv', SoundInv, NEW r \in runs, Live(r), EntryMoves(r.node),
           \A m \in Node \ {r.node} : entry'[m] = entry[m], UNCHANGED <<edges, disk, pending>>,
           \A a \in runs' : (\E q \in runs : RunMove(q, a)) \/ RunComes(a)
    PROVE  StepFacts
<1>0. TypeOK /\ TypeOK'
  BY DEF FreshInv, RunInv
<1>1. \A n \in Node : EntryMoves(n)
  BY DEF EntryMoves, StaysPut
<1>2. \A d \in Node : entry'[d].res = Cyclic => d \in CanCycle
  BY <1>1, CyclicKept
<1>3. \A a \in runs' : RunComes(a)
  BY <1>0, <1>2, MovedComes DEF TypeOK
<1>4. \A n \in Node : Out(n)' = Out(n) /\ Out(n) \subseteq AskedBy(n)
  BY DEF Out, SoundInv
<1>5. \A n \in FsNode : FileStays(n)
  BY DEF FileStays
<1>6. Calm
  BY <1>4, NodeAssumption DEF Calm, StaysClean, IsClean, Live
<1> QED
  BY <1>1, <1>3, <1>4, <1>5, <1>6 DEF StepFacts

LEMMA CompleteInvalidatedFacts ==
    ASSUME FreshInv, FreshInv', SoundInv, NEW r \in runs, CompleteInvalidated(r)
    PROVE  StepFacts
<1> DEFINE n == r.node
<1>0. /\ TypeOK /\ n \in Node /\ entry \in [Node -> EntryState] /\ entry[n] \in EntryState
  BY DEF FreshInv, RunInv, TypeOK, RunState
<1>1. /\ Live(r) /\ entry' = [entry EXCEPT ![n] = Cleared(entry[n], TRUE)]
      /\ runs' = {Cancel(q, {n}) : q \in runs \ {r}} /\ UNCHANGED <<edges, disk, pending>>
  BY DEF CompleteInvalidated
<1>2. entry'[n] = Cleared(entry[n], TRUE) /\ \A m \in Node \ {n} : entry'[m] = entry[m]
  BY <1>0, <1>1
<1>3. EntryMoves(n)
  BY <1>0, <1>2, ClearedEffect DEF EntryMoves, StartsOver
<1>4. \A a \in runs' : \E q \in runs : RunMove(q, a)
  BY <1>0, <1>1, CancelOthers
<1> QED
  BY <1>1, <1>2, <1>3, <1>4, EndStepFacts

LEMMA CompleteDirtyFacts ==
    ASSUME FreshInv, FreshInv', SoundInv, NEW r \in runs, CompleteDirty(r)
    PROVE  StepFacts
<1> DEFINE n == r.node
           e == [entry[n] EXCEPT !.token = @ + 1, !.clean = FALSE, !.dirty = FALSE, !.used = NoAnswers]
<1>0. /\ TypeOK /\ n \in Node /\ entry \in [Node -> EntryState] /\ entry[n] \in EntryState
  BY DEF FreshInv, RunInv, TypeOK, RunState
<1>1. PICK new, token, prev : new = NewRun(n, token, "run", prev) /\ token = r.token + 1 /\ prev = <<>>
  OBVIOUS
<1>2. /\ Live(r) /\ entry' = [entry EXCEPT ![n] = e]
      /\ runs' = {Cancel(q, {n}) : q \in runs \ {r}} \cup {new} /\ UNCHANGED <<edges, disk, pending>>
  BY <1>1 DEF CompleteDirty
<1>3. e.phase = "Running" /\ e.token = entry[n].token + 1 /\ e.res = entry[n].res
  BY <1>0, <1>2 DEF EntryState, Live
<1> HIDE DEF e
<1>4. entry'[n] = e /\ \A m \in Node \ {n} : entry'[m] = entry[m]
  BY <1>0, <1>2
<1>5. EntryMoves(n)
  BY <1>3, <1>4 DEF EntryMoves, StartsOver
<1>6. RunComes(new)
  BY <1>0, <1>1, NewRunSound DEF RunComes, Begun, IsOver, InCheck
<1>7. \A a \in runs' : (\E q \in runs : RunMove(q, a)) \/ RunComes(a)
  BY <1>0, <1>2, <1>6, CancelOthers
<1> QED
  BY <1>2, <1>4, <1>5, <1>7, EndStepFacts

LEMMA CompletePublishFacts ==
    ASSUME FreshInv, FreshInv', SoundInv, NEW r \in runs, CompletePublish(r)
    PROVE  StepFacts
<1> DEFINE n == r.node
<1>0. /\ TypeOK /\ r \in RunState /\ n \in Node /\ entry \in [Node -> EntryState] /\ RunGood(r)
  BY DEF FreshInv, RunInv, TypeOK, RunState, RunsGood
<1>1. PICK e : e = Published(r)
  OBVIOUS
<1>2. /\ Live(r) /\ r.pc = "collected" /\ entry' = [entry EXCEPT ![n] = e]
      /\ runs' = {AnswerRun(q, n, e.res, e.gen) : q \in runs \ {r}}
      /\ UNCHANGED <<edges, disk, pending>>
  BY <1>1 DEF CompletePublish, Completes
<1>3. entry'[n] = e /\ \A m \in Node \ {n} : entry'[m] = entry[m]
  BY <1>0, <1>2
<1>4. IsClean(n)' /\ e.res # None
  <2>1. /\ e.phase = "Completed" /\ e.clean = TRUE
        /\ r.out = None => e.res = entry[n].res
        /\ r.out # None => e.res = r.out
    BY <1>0, <1>1, PublishedEffect
  <2>2. RunFresh(r)
    BY <1>0, <1>2 DEF RunGood, Current, Live
  <2> QED
    BY <1>2, <1>3, <2>1, <2>2 DEF IsClean, RunFresh, WasFoundClean
<1>5. ASSUME NEW a \in runs' PROVE \E q \in runs : RunMove(q, a)
  <2>1. PICK q \in runs : a = AnswerRun(q, n, e.res, e.gen)
    BY <1>2
  <2>2. q \in RunState
    BY <1>0 DEF TypeOK
  <2>3. RunMove(q, a)
    BY <1>0, <1>3, <1>4, <2>1, <2>2, AnswerRunMove
  <2> QED
    BY <2>3
<1>6. EntryMoves(n)
  BY DEF EntryMoves
<1> QED
  BY <1>2, <1>3, <1>5, <1>6, EndStepFacts

LEMMA StepFactsHold == ASSUME FreshInv, FreshInv', SoundInv, [Next]_vars PROVE StepFacts
<1>0. UNCHANGED <<disk, pending>> => \A n \in FsNode : FileStays(n)
  BY DEF FileStays
<1>1. CASE Environment \/ Watcher
  <2>1. ASSUME NEW c \in Client, NEW roots, Execute(c, roots) PROVE StepFacts
    BY <1>0, <2>1, OutsideFacts DEF Execute
  <2>2. CASE MarkDraining
    BY <1>0, <2>2, OutsideFacts DEF MarkDraining
  <2> QED
    BY <1>1, <2>1, <2>2, WriteFacts, InvalidationStepFacts, ClearGraphFacts DEF Environment, Watcher
<1>2. ASSUME NEW c \in Client, ClientStep(c) PROVE StepFacts
  <2>1. ASSUME NEW n \in Node, Create(c, n) PROVE StepFacts
    BY <1>0, <2>1, OutsideFacts DEF Create
  <2>2. CASE Retry(c) \/ Respond(c)
    BY <1>0, <2>2, OutsideFacts DEF Retry, Respond
  <2> QED
    BY <1>2, <2>1, <2>2, ClientGetFacts DEF ClientStep
<1>3. ASSUME NEW r \in runs, RunStep(r) PROVE StepFacts
  <2>1. CASE DepGenerations(r) \/ FoundClean(r) \/ ClearDeps(r) \/ Finish(r) \/ CollectGenerations(r)
    BY <2>1, DepGenerationsFacts, FoundCleanFacts, ClearDepsFacts, FinishFacts, CollectGenerationsFacts
  <2>2. ASSUME NEW d \in Node,
               \/ GetWhileDraining(r, d) \/ GetFindsCycle(r, d) \/ GetAddsEdge(r, d)
               \/ GetBreaksCycle(r, d) \/ RunGet(r, d)
        PROVE  StepFacts
    BY <2>2, GetRefusedFacts, GetAddsEdgeFacts, InvalidationStepFacts, RunGetFacts
  <2>3. CASE CompleteStale(r) \/ CompleteInvalidated(r) \/ CompleteDirty(r) \/ CompletePublish(r)
    BY <2>3, CompleteStaleFacts, CompleteInvalidatedFacts, CompleteDirtyFacts, CompletePublishFacts
  <2> QED
    BY <1>3, <2>1, <2>2, <2>3 DEF RunStep
<1>4. CASE UNCHANGED vars
  BY <1>0, <1>4, OutsideFacts DEF vars
<1> QED
  BY <1>1, <1>2, <1>3, <1>4 DEF Next, Engine

-----------------------------------------------------------------------------
LEMMA SoundInit == Init => SoundInv /\ RightInv
<1> SUFFICES ASSUME Init PROVE SoundInv /\ RightInv
  OBVIOUS
<1>1. \A n \in Node : entry[n].phase = "NotStarted" /\ entry[n].res = None /\ edges[n] = <<>>
  BY DEF Init, InitialEntry
<1>2. \A n \in Node : Out(n) = {}
  BY <1>1 DEF Out
<1>3. None # Cyclic /\ runs = {}
  BY OutcomeAssumption DEF Init, Outcome, Failure
<1> QED
  BY <1>1, <1>2, <1>3 DEF SoundInv, RightInv

LEMMA SoundInvariant == Spec => []SoundInv
<1>1. SoundInv /\ FreshInv /\ FreshInv' /\ [Next]_vars => SoundInv'
  BY StepFactsHold, SoundKept
<1> QED
  BY <1>1, SoundInit, FreshInvariant, PTL DEF Spec

LEMMA RightInvariant == Spec => []RightInv
<1>1. RightInv /\ SoundInv /\ Acyclic /\ FreshInv /\ FreshInv' /\ [Next]_vars => RightInv'
  BY StepFactsHold, RightKept
<1> QED
  BY <1>1, SoundInit, SoundInvariant, FreshInvariant, AlwaysAcyclic, PTL DEF Spec

(* What is right by the files that were read is so by those on disk, once  *)
(* every edit has been invalidated.                                        *)
LEMMA RightIsTrue ==
    ASSUME FreshInv, SoundInv, pending = {}, NEW n \in Node, n \in FsNode => IsClean(n), NEW x, Right(n, x)
    PROVE  ToldTruth(n, x)
<1>0. FsNode \subseteq Cacheable /\ Cacheable \subseteq Node /\ edges \in [Node -> Seq(Node)]
  BY NodeAssumption DEF FreshInv, RunInv, TypeOK
<1> SUFFICES ASSUME NEW T \in Truths, OnDisk(T) PROVE T[n] = x
  BY DEF ToldTruth, Agrees
<1>1. ASSUME NEW z \in Basis(n) PROVE T[z] = entry[z].res
  <2>1. z \in FsNode /\ IsClean(z)
    BY <1>0, CleanWalk DEF Basis
  <2>2. Made(z)
    BY <1>0, <2>1 DEF SoundInv, IsClean
  <2> QED
    BY <2>1, <2>2 DEF Made, Read, OnDisk
<1> QED
  BY <1>1 DEF Right

LEMMA CleanTruth ==
    ASSUME FreshInv, SoundInv, Acyclic, pending = {}, NEW n \in Cacheable, IsClean(n)
    PROVE  ToldTruth(n, entry[n].res)
<1>0. n \in Node /\ entry[n] \in EntryState /\ entry[n].res # None
  BY NodeAssumption DEF FreshInv, RunInv, TypeOK, EntriesFresh, EntryFresh, IsClean
<1>1. entry[n].res = Cyclic \/ Obtained(entry[n].res)
  BY <1>0 DEF EntryState, Persisted, Obtained
<1>2. CASE entry[n].res = Cyclic
  <2>1. n \in CanCycle
    BY <1>0, <1>2 DEF SoundInv
  <2> QED
    BY <1>2, <2>1 DEF ToldTruth, Agrees
<1>3. CASE Obtained(entry[n].res)
  BY <1>0, <1>3, CleanRight, RightIsTrue
<1> QED
  BY <1>1, <1>2, <1>3

LEMMA FreshIsTrue == FreshInv /\ SoundInv /\ Acyclic => CleanIsTrue
<1> SUFFICES ASSUME FreshInv, SoundInv, Acyclic, pending = {}, NEW T \in Truths, OnDisk(T),
                    NEW n \in Node, IsReady(n)
             PROVE  Agrees(n, entry[n].res, T)
  BY DEF CleanIsTrue
<1>1. n \in Cacheable /\ IsClean(n)
  BY DEF IsReady, IsClean
<1> QED
  BY <1>1, CleanTruth DEF ToldTruth

(* A value that the graph hands out is the one the files give, whatever    *)
(* was edited, invalidated, dirtied and cleaned before.                    *)
THEOREM CleanValuesAreTrue == Spec => []CleanIsTrue
  BY FreshInvariant, SoundInvariant, AlwaysAcyclic, FreshIsTrue, PTL

-----------------------------------------------------------------------------
(* What clients are told. *)
ClientMove(q, b) ==
    /\ b.busy = q.busy /\ b.quiet = q.quiet /\ b.roots = q.roots
    /\ \A n \in Node : \/ b.got[n] = q.got[n]
                       \/ b.got[n] = Invalidated
                       \/ b.got[n] # None /\ (pending = {} => ToldTruth(n, b.got[n]))

LEMMA ClientKept ==
    ASSUME TypeOK, ClientInv, disk' = disk, pending' \subseteq pending,
           \A c \in Client : ClientMove(client[c], client'[c])
    PROVE  ClientInv'
<1> SUFFICES ASSUME NEW c \in Client, client'[c].quiet
             PROVE  /\ pending' = {}
                    /\ \A n \in Node : \/ client'[c].got[n] \in {None, Invalidated}
                                       \/ ToldTruth(n, client[c].got[n])'
                    /\ ~client'[c].busy => \A n \in client'[c].roots : client'[c].got[n] # None
  BY DEF ClientInv
<1>0. client[c].roots \subseteq Node /\ Invalidated # None
  BY OutcomeAssumption DEF TypeOK, ClientState, Outcome, Failure
<1>1. /\ client'[c].busy = client[c].busy /\ client[c].quiet /\ client'[c].roots = client[c].roots
      /\ \A n \in Node : \/ client'[c].got[n] = client[c].got[n]
                         \/ client'[c].got[n] = Invalidated
                         \/ client'[c].got[n] # None /\ (pending = {} => ToldTruth(n, client'[c].got[n]))
  BY DEF ClientMove
<1>2. /\ pending = {}
      /\ \A n \in Node : client[c].got[n] \in {None, Invalidated} \/ ToldTruth(n, client[c].got[n])
      /\ ~client[c].busy => \A n \in client[c].roots : client[c].got[n] # None
  BY <1>1 DEF ClientInv
<1>3. \A n \in Node : \A x : ToldTruth(n, x) => ToldTruth(n, x)'
  BY DEF ToldTruth, OnDisk
<1>4. ASSUME NEW n \in Node
      PROVE  client'[c].got[n] \in {None, Invalidated} \/ ToldTruth(n, client[c].got[n])'
  <2>1. PICK x : x = client'[c].got[n]
    OBVIOUS
  <2>2. x \in {None, Invalidated} \/ ToldTruth(n, x)
    BY <1>1, <1>2, <2>1
  <2>3. x \in {None, Invalidated} \/ ToldTruth(n, x)'
    BY <1>3, <2>2
  <2> QED
    BY <2>1, <2>3 DEF ToldTruth, OnDisk, Agrees
<1> QED
  BY <1>0, <1>1, <1>2, <1>4

LEMMA SameClient == ASSUME NEW q PROVE ClientMove(q, q)
  BY DEF ClientMove

LEMMA CancelClientMove == ASSUME NEW q \in ClientState, NEW S PROVE ClientMove(q, Cancel(q, S))
<1> DEFINE b == Cancel(q, S)
           got == [n \in Node |-> IF n \in q.wait \cap S THEN Invalidated ELSE q.got[n]]
<1>1. b = [q EXCEPT !.wait = q.wait \ S, !.got = got]
  BY DEF Cancel, ClientState
<1> HIDE DEF got, b
<1>2. b.busy = q.busy /\ b.quiet = q.quiet /\ b.roots = q.roots /\ b.got = got
  BY <1>1 DEF ClientState
<1>3. ClientMove(q, b)
  BY <1>2 DEF ClientMove, got
<1> QED
  BY <1>3 DEF b

LEMMA AnswerClientMove ==
    ASSUME NEW q \in ClientState, NEW n \in Node, NEW x, x # None, pending = {} => ToldTruth(n, x)
    PROVE  ClientMove(q, Answer(q, n, x))
<1>1. CASE n \notin q.wait
  BY <1>1, SameClient DEF Answer
<1>2. CASE n \in q.wait
  <2>1. PICK b : b = [q EXCEPT !.wait = q.wait \ {n}, !.got[n] = x]
    OBVIOUS
  <2>2. b.busy = q.busy /\ b.quiet = q.quiet /\ b.roots = q.roots /\ b.got = [q.got EXCEPT ![n] = x] /\ q.got \in Answers
    BY <2>1 DEF ClientState
  <2>3. b.got[n] = x /\ \A d \in Node \ {n} : b.got[d] = q.got[d]
    BY <2>2 DEF Answers
  <2>4. ClientMove(q, b)
    BY <2>2, <2>3 DEF ClientMove
  <2> QED
    BY <1>2, <2>1, <2>4 DEF Answer
<1> QED
  BY <1>1, <1>2

(* Steps of which the clients know nothing, and those that drop some of    *)
(* their receivers.                                                        *)
LEMMA DroppedClients ==
    ASSUME TypeOK, ClientInv, disk' = disk, pending' \subseteq pending,
           client' = client \/ \E S : CancelClients(S)
    PROVE  ClientInv'
<1>1. CASE client' = client
  BY <1>1, SameClient, ClientKept
<1>2. ASSUME NEW S, CancelClients(S) PROVE ClientInv'
  <2>1. ASSUME NEW c \in Client PROVE ClientMove(client[c], client'[c])
    <3>1. client[c] \in ClientState /\ client'[c] = Cancel(client[c], S)
      BY <1>2 DEF TypeOK, CancelClients
    <3>2. PICK q \in ClientState : q = client[c]
      BY <3>1
    <3> QED
      BY <3>1, <3>2, CancelClientMove
  <2> QED
    BY <2>1, ClientKept
<1> QED
  BY <1>1, <1>2

(* What is published is what the files give. *)
LEMMA PublishedTruth ==
    ASSUME FreshInv, FreshInv', SoundInv, RightInv, Acyclic, CleanIsTrue', NEW r \in runs, CompletePublish(r),
           pending = {}
    PROVE  ToldTruth(r.node, entry'[r.node].res)
<1> DEFINE n == r.node
<1>0. /\ n \in Node /\ r.out \in Outcome \cup {None} /\ FsNode \subseteq Cacheable
      /\ RunSound(r) /\ r.out # Invalidated
  BY NodeAssumption DEF FreshInv, RunInv, TypeOK, RunState, SoundInv, CompletePublish
<1>1. /\ Current(r) /\ IsOver(r) /\ ~entry[n].dirty /\ entry'[n].phase = "Completed"
      /\ r.out # None => entry'[n].res = r.out
      /\ disk' = disk /\ pending' = pending
  BY PublishFacts DEF IsOver
<1>2. CASE n \in Cacheable
  <2>1. entry'[n].clean
    <3>1. entry'[n] = Published(r) /\ r \in RunState /\ TypeOK
      BY <1>0 DEF CompletePublish, FreshInv, RunInv, TypeOK
    <3> QED
      BY <3>1, PublishedEffect
  <2>2. IsReady(n)' /\ pending' = {}
    BY <1>1, <1>2, <2>1 DEF IsReady
  <2> QED
    BY <1>0, <1>1, <2>2 DEF CleanIsTrue, ToldTruth, OnDisk, Agrees
<1>3. CASE n \notin Cacheable
  <2>1. r.out # None /\ n \notin FsNode
    BY <1>0, <1>1, <1>3 DEF RunSound, Keeps
  <2>2. CASE r.out = Cyclic
    BY <1>0, <1>1, <2>1, <2>2 DEF RunSound, ToldTruth, Agrees
  <2>3. CASE r.out # Cyclic
    <3>1. Obtained(r.out)
      BY <1>0, <2>1, <2>3 DEF Outcome, Failure, Obtained
    <3>2. Right(n, r.out)
      BY <1>1, <2>1, <3>1, ResultRight
    <3>3. ToldTruth(n, r.out)
      BY <1>0, <2>1, <3>2, RightIsTrue
    <3> QED
      BY <1>1, <2>1, <3>3
  <2> QED
    BY <2>2, <2>3
<1> QED
  BY <1>2, <1>3

LEMMA PublishTellsTruth ==
    ASSUME FreshInv, FreshInv', SoundInv, RightInv, Acyclic, CleanIsTrue', ClientInv,
           NEW r \in runs, CompletePublish(r)
    PROVE  ClientInv'
<1>0. TypeOK /\ r \in RunState /\ r.node \in Node
  BY DEF FreshInv, RunInv, TypeOK, RunState
<1>1. PICK x : x = Published(r).res
  OBVIOUS
<1>2. /\ entry'[r.node] = Published(r) /\ client' = [c \in Client |-> Answer(client[c], r.node, x)]
      /\ disk' = disk /\ pending' = pending
  BY <1>0, <1>1 DEF CompletePublish, TypeOK
<1>3. x # None
  BY <1>0, <1>1, <1>2, PublishedEffect DEF FreshInv, EntriesFresh, EntryFresh
<1>4. pending = {} => ToldTruth(r.node, x)
  BY <1>1, <1>2, PublishedTruth
<1>5. ASSUME NEW c \in Client PROVE ClientMove(client[c], client'[c])
  <2>1. client[c] \in ClientState /\ client'[c] = Answer(client[c], r.node, x)
    BY <1>0, <1>2 DEF TypeOK
  <2>2. PICK q \in ClientState : q = client[c]
    BY <2>1
  <2> QED
    BY <1>0, <1>3, <1>4, <2>1, <2>2, AnswerClientMove
<1> QED
  BY <1>0, <1>2, <1>5, ClientKept

(* One client is told something. *)
LEMMA OneClient ==
    ASSUME TypeOK, ClientInv, NEW c \in Client, NEW b, client' = [client EXCEPT ![c] = b],
           ClientMove(client[c], b), UNCHANGED <<disk, pending>>
    PROVE  ClientInv'
<1>1. \A x \in Client : client'[x] = IF x = c THEN b ELSE client[x]
  BY DEF TypeOK
<1> QED
  BY <1>1, SameClient, ClientKept

LEMMA CreateTells ==
    ASSUME TypeOK, ClientInv, NEW c \in Client, NEW n \in Node, Create(c, n)
    PROVE  ClientInv'
<1>0. client \in [Client -> ClientState] /\ client[c] \in ClientState /\ UNCHANGED <<disk, pending>>
  BY DEF TypeOK, Create
<1>1. CASE draining
  <2>1. PICK b : b = [client[c] EXCEPT !.got[n] = Invalidated]
    OBVIOUS
  <2>2. client' = [client EXCEPT ![c] = b]
    BY <1>0, <1>1, <2>1 DEF Create
  <2>3. /\ b.busy = client[c].busy /\ b.quiet = client[c].quiet /\ b.roots = client[c].roots
        /\ b.got = [client[c].got EXCEPT ![n] = Invalidated] /\ client[c].got \in Answers
    BY <1>0, <2>1 DEF ClientState
  <2>4. ClientMove(client[c], b)
    BY <2>3 DEF ClientMove, Answers
  <2> QED
    BY <1>0, <2>2, <2>4, OneClient
<1>2. CASE ~draining
  <2>1. PICK b : b = [client[c] EXCEPT !.claim = @ \cup {n}]
    OBVIOUS
  <2>2. client' = [client EXCEPT ![c] = b]
    BY <1>0, <1>2, <2>1 DEF Create
  <2>3. b.busy = client[c].busy /\ b.quiet = client[c].quiet /\ b.roots = client[c].roots /\ b.got = client[c].got
    BY <1>0, <2>1 DEF ClientState
  <2>4. ClientMove(client[c], b)
    BY <2>3 DEF ClientMove
  <2> QED
    BY <1>0, <2>2, <2>4, OneClient
<1> QED
  BY <1>1, <1>2

LEMMA ClientGetTells ==
    ASSUME FreshInv, SoundInv, Acyclic, ClientInv, NEW c \in Client, NEW n \in Node, ClientGet(c, n)
    PROVE  ClientInv'
<1>0. TypeOK /\ client \in [Client -> ClientState] /\ client[c] \in ClientState /\ UNCHANGED <<disk, pending>>
  BY DEF FreshInv, RunInv, TypeOK, ClientGet
<1>1. CASE IsStartable(n)
  BY <1>0, <1>1, DroppedClients DEF ClientGet
<1>2. CASE ~IsStartable(n) /\ IsReady(n)
  <2>1. PICK b : b = [client[c] EXCEPT !.claim = @ \ {n}, !.got[n] = entry[n].res]
    OBVIOUS
  <2>2. client' = [client EXCEPT ![c] = b]
    BY <1>0, <1>2, <2>1 DEF ClientGet
  <2>3. /\ b.busy = client[c].busy /\ b.quiet = client[c].quiet /\ b.roots = client[c].roots
        /\ b.got = [client[c].got EXCEPT ![n] = entry[n].res] /\ client[c].got \in Answers
    BY <1>0, <2>1 DEF ClientState
  <2>4. n \in Cacheable /\ IsClean(n) /\ entry[n].res # None
    BY <1>2 DEF IsReady, IsClean, FreshInv, EntriesFresh, EntryFresh
  <2>5. pending = {} => ToldTruth(n, entry[n].res)
    BY <2>4, CleanTruth
  <2>6. b.got[n] = entry[n].res /\ \A d \in Node \ {n} : b.got[d] = client[c].got[d]
    BY <2>3 DEF Answers
  <2>7. ClientMove(client[c], b)
    BY <2>3, <2>4, <2>5, <2>6 DEF ClientMove
  <2> QED
    BY <1>0, <2>2, <2>7, OneClient
<1>3. CASE ~IsStartable(n) /\ ~IsReady(n)
  <2>1. PICK b : b = [client[c] EXCEPT !.claim = @ \ {n}, !.wait = @ \cup {n}]
    OBVIOUS
  <2>2. client' = [client EXCEPT ![c] = b]
    BY <1>0, <1>3, <2>1 DEF ClientGet
  <2>3. b.busy = client[c].busy /\ b.quiet = client[c].quiet /\ b.roots = client[c].roots /\ b.got = client[c].got
    BY <1>0, <2>1 DEF ClientState
  <2>4. ClientMove(client[c], b)
    BY <2>3 DEF ClientMove
  <2> QED
    BY <1>0, <2>2, <2>4, OneClient
<1> QED
  BY <1>1, <1>2, <1>3

(* A request is made, made again, or answered; a file is edited. *)
LEMMA RequestTells ==
    ASSUME TypeOK, ClientInv, NEW c \in Client,
           (\E roots : Execute(c, roots)) \/ Retry(c) \/ Respond(c)
    PROVE  ClientInv'
<1>0. /\ client \in [Client -> ClientState] /\ client[c] \in ClientState
      /\ UNCHANGED <<disk, pending>>
  BY DEF TypeOK, Execute, Retry, Respond
<1>1. \A n \in Node : \A x : ToldTruth(n, x) <=> ToldTruth(n, x)'
  BY <1>0 DEF ToldTruth, OnDisk
<1>2. PICK b : /\ client' = [client EXCEPT ![c] = b]
               /\ b.quiet => pending = {}
               /\ \A n \in Node : b.got[n] = None \/ (b.quiet = client[c].quiet /\ b.got[n] = client[c].got[n])
               /\ ~b.busy => \A n \in b.roots : b.got[n] # None
  <2>1. ASSUME NEW roots, Execute(c, roots)
        PROVE  \E b : /\ client' = [client EXCEPT ![c] = b]
                      /\ b.quiet => pending = {}
                      /\ b.busy /\ \A n \in Node : b.got[n] = None
    <3>1. PICK b : b = [IdleClient EXCEPT !.busy = TRUE, !.roots = roots, !.count = Retries,
                                          !.quiet = (pending = {})]
      OBVIOUS
    <3>2. b.busy /\ (b.quiet => pending = {}) /\ b.got = NoAnswers
      BY <3>1 DEF IdleClient
    <3> QED
      BY <2>1, <3>1, <3>2 DEF Execute, NoAnswers
  <2>2. CASE Retry(c)
    <3>1. PICK b : b = [client[c] EXCEPT !.count = @ - 1, !.wait = {}, !.got = NoAnswers]
      OBVIOUS
    <3>2. b.busy /\ b.quiet = client[c].quiet /\ b.got = NoAnswers
      BY <1>0, <2>2, <3>1 DEF Retry, ClientState
    <3>3. client' = [client EXCEPT ![c] = b]
      BY <1>0, <2>2, <3>1 DEF Retry
    <3> QED
      BY <3>2, <3>3 DEF NoAnswers, ClientInv
  <2>3. CASE Respond(c)
    <3>1. PICK b : b = [client[c] EXCEPT !.busy = FALSE]
      OBVIOUS
    <3>2. b.quiet = client[c].quiet /\ b.got = client[c].got /\ b.roots = client[c].roots
      BY <1>0, <3>1 DEF ClientState
    <3>3. client' = [client EXCEPT ![c] = b]
      BY <1>0, <2>3, <3>1 DEF Respond
    <3>4. \A n \in b.roots : b.got[n] # None
      BY <2>3, <3>2 DEF Respond, RootsAsked, Asked
    <3> QED
      BY <3>2, <3>3, <3>4 DEF ClientInv
  <2> QED
    BY <2>1, <2>2, <2>3
<1>3. \A x \in Client : client'[x] = IF x = c THEN b ELSE client[x]
  BY <1>0, <1>2
<1>4. ASSUME b.quiet, NEW n \in Node PROVE b.got[n] \in {None, Invalidated} \/ ToldTruth(n, b.got[n])'
  BY <1>1, <1>2, <1>4 DEF ClientInv
<1>5. ASSUME NEW x \in Client \ {c}, client[x].quiet, NEW n \in Node
      PROVE  client[x].got[n] \in {None, Invalidated} \/ ToldTruth(n, client[x].got[n])'
  <2>1. client'[x] = client[x]
    BY <1>3
  <2> QED
    BY <1>0, <1>5, <2>1 DEF ClientInv, ToldTruth, OnDisk
<1>6. ASSUME NEW x \in Client, client'[x].quiet
      PROVE  /\ pending' = {}
             /\ \A n \in Node : client'[x].got[n] \in {None, Invalidated} \/ ToldTruth(n, client[x].got[n])'
             /\ ~client'[x].busy => \A n \in client'[x].roots : client'[x].got[n] # None
  <2>1. CASE x = c
    <3>1. client'[x] = b
      BY <1>3, <2>1
    <3> QED
      BY <1>0, <1>2, <1>4, <1>6, <3>1 DEF ToldTruth, OnDisk
  <2>2. CASE x # c
    BY <1>0, <1>3, <1>5, <1>6, <2>2 DEF ClientInv
  <2> QED
    BY <2>1, <2>2
<1> QED
  BY <1>6 DEF ClientInv

LEMMA WriteTells == ASSUME TypeOK, NEW f \in FsNode, Write(f) PROVE ClientInv'
<1>1. \A c \in Client : client'[c].quiet = FALSE
  BY DEF TypeOK, ClientState, Write
<1> QED
  BY <1>1 DEF ClientInv

LEMMA ClientInvStep ==
    ASSUME FreshInv, FreshInv', SoundInv, RightInv, Acyclic, CleanIsTrue', ClientInv, [Next]_vars
    PROVE  ClientInv'
<1>0. TypeOK
  BY DEF FreshInv, RunInv
<1>1. CASE Environment \/ Watcher
  <2>1. ASSUME NEW S, Invalidate(S) PROVE ClientInv'
    BY <1>0, <2>1, DroppedClients DEF Invalidate, InvalidateFromRoots
  <2>2. CASE InvalidateAllPaths \/ ClearGraph \/ MarkDraining
    BY <1>0, <2>2, DroppedClients DEF InvalidateAllPaths, InvalidateFromRoots, ClearGraph, MarkDraining
  <2> QED
    BY <1>0, <1>1, <2>1, <2>2, WriteTells, RequestTells DEF Environment, Watcher
<1>2. ASSUME NEW c \in Client, ClientStep(c) PROVE ClientInv'
  BY <1>0, <1>2, CreateTells, ClientGetTells, RequestTells DEF ClientStep
<1>3. ASSUME NEW r \in runs, RunStep(r) PROVE ClientInv'
  <2>1. CASE DepGenerations(r) \/ FoundClean(r) \/ ClearDeps(r) \/ Finish(r) \/ CollectGenerations(r)
    BY <1>0, <2>1, DroppedClients DEF DepGenerations, FoundClean, ClearDeps, Finish, CollectGenerations
  <2>2. ASSUME NEW d \in Node,
               GetWhileDraining(r, d) \/ GetFindsCycle(r, d) \/ GetAddsEdge(r, d) \/ RunGet(r, d)
        PROVE  ClientInv'
    BY <1>0, <2>2, DroppedClients DEF GetWhileDraining, GetFindsCycle, GetAddsEdge, RunGet
  <2>3. ASSUME NEW d \in Node, GetBreaksCycle(r, d) PROVE ClientInv'
    BY <1>0, <2>3, DroppedClients DEF GetBreaksCycle, InvalidateFromRoots
  <2>4. CASE CompleteStale(r) \/ CompleteInvalidated(r) \/ CompleteDirty(r)
    BY <1>0, <2>4, DroppedClients DEF CompleteStale, CompleteInvalidated, CompleteDirty
  <2>5. CASE CompletePublish(r)
    BY <2>5, PublishTellsTruth
  <2> QED
    BY <1>3, <2>1, <2>2, <2>3, <2>4, <2>5 DEF RunStep
<1>4. CASE UNCHANGED vars
  BY <1>0, <1>4, DroppedClients DEF vars
<1> QED
  BY <1>1, <1>2, <1>3, <1>4 DEF Next, Engine

LEMMA ClientInvariant == Spec => []ClientInv
<1>1. Init => ClientInv
  BY DEF Init, ClientInv, IdleClient
<1>2. /\ ClientInv /\ FreshInv /\ FreshInv' /\ SoundInv /\ RightInv /\ Acyclic /\ CleanIsTrue'
      /\ [Next]_vars
      => ClientInv'
  BY ClientInvStep
<1> QED
  BY <1>1, <1>2, FreshInvariant, SoundInvariant, RightInvariant, AlwaysAcyclic, CleanValuesAreTrue, PTL DEF Spec

LEMMA ToldIsFresh == FreshInv /\ ClientInv => AnswersFresh
<1> SUFFICES ASSUME FreshInv, ClientInv, NEW c \in Client, ~client[c].busy, client[c].quiet,
                    NEW T \in Truths, OnDisk(T), NEW n \in client[c].roots
             PROVE  client[c].got[n] = Invalidated \/ Agrees(n, client[c].got[n], T)
  BY DEF AnswersFresh
<1>1. n \in Node
  BY DEF FreshInv, RunInv, TypeOK, ClientState
<1> QED
  BY <1>1 DEF ClientInv, ToldTruth

(* A request that no edit overtook is answered with what the files give,   *)
(* or told that it was invalidated; never with an older value, whatever    *)
(* runs and invalidations were under way when it was made.                 *)
THEOREM AnswersAreTrue == Spec => []AnswersFresh
  BY ClientInvariant, FreshInvariant, ToldIsFresh, PTL
=============================================================================
