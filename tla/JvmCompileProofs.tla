-------------------------- MODULE JvmCompileProofs --------------------------
(***************************************************************************)
(* Proofs that a key file names results that are complete, that artifacts  *)
(* are right and that a successful invocation leaves every target valid,   *)
(* for every set of targets, dependencies, workflows and versions of the   *)
(* sources, whatever fails, is edited or killed.                           *)
(***************************************************************************)
EXTENDS JvmCompile, TLAPS

(* What a results directory, or an artifact, can be. *)
Content == SUBSET {"nodir", "noartifact", "unreadable", "rsc", "zinc", "bad"}

KeyOrNone(t) == Keys(t) \cup {NoKey}
AnyKey == (UNION {Keys(t) : t \in Target}) \cup {NoKey}

Store(f) == f = [t \in Target |-> f[t]] /\ \A t \in Target : f[t] \in [Keys(t) -> Content]

JobState == {"waiting", "running", "ok", "failed", "canceled"}
Bad == {"failed", "canceled"}

(* The targets the jobs of the call are for. *)
Listed == {t \in Target : CheckKey(t) \in jobs}

TaskType ==
  /\ src = [t \in Target |-> src[t]] /\ \A t \in Target : src[t] \in Version[t]
  /\ workflow \in [Target -> Workflow]
  /\ sha \in [Target -> AnyKey] /\ \A t \in Target : sha[t] \in KeyOrNone(t)
  /\ Store(dir) /\ Store(local) /\ Store(remote)
  /\ vt \in [Target -> [valid : BOOLEAN, previous : AnyKey, incremental : BOOLEAN]]
  /\ todo \subseteq Target /\ hits \subseteq Target
  /\ background \subseteq Target \X AnyKey
  /\ phase \in {"idle", "cache", "prepare", "compile", "done", "failed"}

ScheduleType ==
  /\ state \in [Job -> JobState] /\ call \in {"none", "active", "returned", "raised"}
  /\ dependencies = CompileJobs(Listed)

(* The calls of execute() and the phases of the task. *)
PhaseInv ==
  /\ phase \in {"idle", "cache", "prepare"} => call = "none" /\ Listed = {} /\ state = [j \in Job |-> "waiting"]
  /\ Working => phase \in {"compile", "failed"}
  /\ phase = "idle" => background = {} /\ Invalid = Target
  /\ phase = "compile" => Working
  /\ phase = "done" => Invalid = {}

(* The key file of a target says what its VersionedTarget says. *)
KeysInv ==
  \A t \in Target : /\ vt[t].valid => sha[t] = Key(t)
                    /\ ~vt[t].valid /\ phase # "idle" => sha[t] # Key(t)

(* What the cache check and copy_previous_results leave. *)
CacheInv ==
  phase \in {"cache", "prepare"} =>
    /\ todo \subseteq Invalid /\ hits \subseteq Invalid \ todo
    /\ phase = "prepare" => hits = {}
    /\ \A t \in hits : Current(t) = Parts(t)
    /\ \A t \in Invalid \ hits : Current(t) \in {{}, NoDir}

(* A job that was started has all it depends on; one that is canceled does not. *)
JobsInv ==
  \A j \in jobs : /\ state[j] \in {"running", "ok", "failed"} => \A d \in dependencies[j] : state[d] = "ok"
                  /\ state[j] = "canceled" => \E d \in dependencies[j] : state[d] \in Bad

(* The parts of the results of t that were made. *)
MadeParts(t) == {k[1] : k \in {w \in WorkOf(t) : state[w] = "ok"}}

(* A target the call is for. *)
ListedInv(t) ==
  /\ vt[t].valid => state[CheckKey(t)] \in {"ok", "failed"} /\ \A w \in WorkOf(t) : state[w] # "failed"
  /\ state[WriteKey(t)] = "ok" => vt[t].valid
  /\ ~vt[t].valid /\ state[CheckKey(t)] # "failed" =>
        Current(t) = MadeParts(t) \/ (Current(t) = NoDir /\ MadeParts(t) = {})

CompileInv ==
  Working => \A t \in Target : IF t \in Listed THEN ListedInv(t) ELSE vt[t].valid

(* What is to be cached is complete and nobody will change it. *)
BackgroundInv ==
  \A t \in Target, k \in AnyKey : <<t, k>> \in background =>
    /\ k = Key(t) /\ dir[t][k] = Parts(t)
    /\ vt[t].valid \/ (t \in Listed /\ state[CheckKey(t)] = "failed")
    /\ t \in Listed => state[CheckKey(t)] \in {"ok", "failed"}

BuiltInv ==
  /\ TaskType /\ ScheduleType /\ PhaseInv /\ KeysInv /\ CacheInv /\ JobsInv /\ CompileInv
  /\ BackgroundInv /\ ValidIsBuilt /\ CachedIsRight

-----------------------------------------------------------------------------
(* Keys, stores and jobs. *)

(* No key of a target is the missing one. *)
LEMMA KeyFacts ==
    ASSUME TaskType, NEW t \in Target
    PROVE  Key(t) \in Keys(t) /\ Key(t) # NoKey /\ NoKey \notin Keys(t) /\ Keys(t) \subseteq AnyKey
<1>1. t \in Closure[t] /\ Closure[t] \subseteq Target
  BY TargetAssumption
<1>2. \A u \in Closure[t] : src[u] \in Version[u]
  BY <1>1 DEF TaskType
<1>3. Key(t) \in Keys(t)
  BY <1>1, <1>2 DEF Key, Keys
<1>4. NoKey \notin Keys(t)
  <2>1. \A k \in Keys(t) : DOMAIN k = Closure[t]
    BY DEF Keys
  <2>2. DOMAIN NoKey = {}
    BY DEF NoKey
  <2> QED
    BY <1>1, <2>1, <2>2
<1> QED
  BY <1>3, <1>4 DEF AnyKey

(* A complete results directory is none of the marks. *)
LEMMA PartsFacts ==
    ASSUME NEW t
    PROVE  /\ Parts(t) \in Content /\ "bad" \notin Parts(t) /\ "zinc" \in Parts(t)
           /\ Parts(t) \notin {{}, NoDir, NoArtifact, Unreadable}
           /\ workflow[t] = "rsc_and_zinc" => "rsc" \in Parts(t)
           /\ {} \in Content /\ NoDir \in Content /\ NoArtifact \in Content /\ Unreadable \in Content
           /\ NoArtifact # Unreadable
<1>1. CASE workflow[t] = "rsc_and_zinc"
  BY <1>1 DEF Parts, Content, NoDir, NoArtifact, Unreadable
<1>2. CASE workflow[t] # "rsc_and_zinc"
  BY <1>2 DEF Parts, Content, NoDir, NoArtifact, Unreadable
<1> QED
  BY <1>1, <1>2

(* One directory, or artifact, is replaced. *)
Replaced(f, t, k, c) == [f EXCEPT ![t][k] = c]

LEMMA SetAt ==
    ASSUME NEW f, Store(f), NEW t \in Target, NEW k \in Keys(t), NEW c \in Content,
           NEW g, g = Replaced(f, t, k, c)
    PROVE  /\ Store(g) /\ g[t][k] = c
           /\ \A u \in Target : \A j \in Keys(u) : u # t \/ j # k => g[u][j] = f[u][j]
<1>1. DOMAIN f = Target /\ \A u \in Target : f[u] \in [Keys(u) -> Content]
  <2>1. PICK h : h = f
    OBVIOUS
  <2>2. f = [u \in Target |-> h[u]]
    BY <2>1 DEF Store
  <2> QED
    BY <2>2 DEF Store
<1>2. PICK ft : ft = [f[t] EXCEPT ![k] = c]
  OBVIOUS
<1>3. g = [u \in Target |-> IF u = t THEN ft ELSE f[u]]
  BY <1>1, <1>2 DEF Replaced
<1>4. ft \in [Keys(t) -> Content] /\ ft[k] = c /\ \A j \in Keys(t) \ {k} : ft[j] = f[t][j]
  BY <1>1, <1>2
<1>5. \A u \in Target : g[u] = IF u = t THEN ft ELSE f[u]
  BY <1>3
<1>6. g = [u \in Target |-> g[u]]
  BY <1>3
<1>7. \A u \in Target : g[u] \in [Keys(u) -> Content]
  BY <1>1, <1>4, <1>5
<1> QED
  BY <1>4, <1>5, <1>6, <1>7 DEF Store

LEMMA StoreType ==
    ASSUME NEW f, Store(f), NEW t \in Target, NEW k \in Keys(t)
    PROVE  f[t][k] \in Content
  BY DEF Store

(* The jobs of the targets in I. *)
LEMMA JobsOf ==
    ASSUME NEW I \in SUBSET Target
    PROVE  /\ \A k \in DOMAIN CompileJobs(I) : \E t \in I : k \in WorkOf(t) \cup {CheckKey(t), WriteKey(t)}
           /\ \A t \in I :
                /\ CheckKey(t) \in DOMAIN CompileJobs(I) /\ CompileJobs(I)[CheckKey(t)] = DepKeys(t, I)
                /\ WriteKey(t) \in DOMAIN CompileJobs(I) /\ CompileJobs(I)[WriteKey(t)] = WorkOf(t)
                /\ \A w \in WorkOf(t) : /\ w \in DOMAIN CompileJobs(I)
                                        /\ CompileJobs(I)[w] = {CheckKey(t)} \cup DepKeys(t, I)
           /\ {t \in Target : CheckKey(t) \in DOMAIN CompileJobs(I)} = I
<1> DEFINE D == UNION {WorkOf(t) \cup {CheckKey(t), WriteKey(t)} : t \in I}
           F(k) == CASE k = CheckKey(k[2]) -> DepKeys(k[2], I)
                     [] k = WriteKey(k[2]) -> WriteDeps(k[2])
                     [] OTHER -> {CheckKey(k[2])} \cup DepKeys(k[2], I)
<1>1. CompileJobs(I) = [k \in D |-> F(k)]
  BY DEF CompileJobs
<1>2. ASSUME NEW t
      PROVE  /\ CheckKey(t)[2] = t /\ WriteKey(t)[2] = t /\ CheckKey(t) # WriteKey(t)
             /\ \A w \in WorkOf(t) : w[2] = t /\ w # CheckKey(t) /\ w # WriteKey(t)
  BY DEF CheckKey, WriteKey, WorkOf, RscKey, ZincKey
<1>3. ASSUME NEW t \in I
      PROVE  /\ CheckKey(t) \in D /\ WriteKey(t) \in D /\ WorkOf(t) \subseteq D
             /\ F(CheckKey(t)) = DepKeys(t, I) /\ F(WriteKey(t)) = WorkOf(t)
             /\ \A w \in WorkOf(t) : F(w) = {CheckKey(t)} \cup DepKeys(t, I)
  <2>1. CheckKey(t) \in D /\ WriteKey(t) \in D /\ WorkOf(t) \subseteq D
    OBVIOUS
  <2>2. F(CheckKey(t)) = DepKeys(t, I)
    BY <1>2
  <2>3. F(WriteKey(t)) = WorkOf(t)
    BY <1>2 DEF WriteDeps
  <2>4. ASSUME NEW w \in WorkOf(t) PROVE F(w) = {CheckKey(t)} \cup DepKeys(t, I)
    <3>1. w[2] = t /\ w # CheckKey(t) /\ w # WriteKey(t)
      BY <1>2
    <3> QED
      BY <3>1
  <2> QED
    BY <2>1, <2>2, <2>3, <2>4
<1>4. \A k \in D : \E t \in I : k \in WorkOf(t) \cup {CheckKey(t), WriteKey(t)}
  OBVIOUS
<1>5. \A t \in Target : CheckKey(t) \in D => t \in I
  <2> SUFFICES ASSUME NEW t \in Target, NEW u \in I, CheckKey(t) \in WorkOf(u) \cup {CheckKey(u), WriteKey(u)}
               PROVE  t = u
    BY <1>4
  <2> QED
    BY DEF CheckKey, WriteKey, WorkOf, RscKey, ZincKey
<1> HIDE DEF D, F
<1>6. DOMAIN CompileJobs(I) = D /\ \A k \in D : CompileJobs(I)[k] = F(k)
  BY <1>1
<1>7. {t \in Target : CheckKey(t) \in D} = I
  BY <1>3, <1>5
<1> QED
  BY <1>3, <1>4, <1>6, <1>7

(* Nothing about keys and jobs changes unless sources are edited. *)
LEMMA SameKeys ==
    ASSUME UNCHANGED <<src, workflow>>
    PROVE  \A t : /\ Key(t)' = Key(t) /\ Parts(t)' = Parts(t) /\ WorkOf(t)' = WorkOf(t)
                  /\ \A u : PartRead(t, u)' = PartRead(t, u)
  BY DEF Key, Parts, WorkOf, PartRead

LEMMA SameJobs ==
    ASSUME UNCHANGED <<workflow, dependencies>>
    PROVE  Listed' = Listed /\ (dependencies = CompileJobs(Listed) => (dependencies = CompileJobs(Listed))')
<1>1. Listed' = Listed
  BY DEF Listed, jobs
<1>2. \A I : CompileJobs(I)' = CompileJobs(I)
  BY DEF CompileJobs, WorkOf, DepKeys, AsDep, WriteDeps
<1> QED
  BY <1>1, <1>2

LEMMA JobFacts ==
    ASSUME ScheduleType
    PROVE  /\ Listed \subseteq Target /\ jobs \subseteq Job
           /\ \A k \in jobs : \E t \in Listed : k \in WorkOf(t) \cup {CheckKey(t), WriteKey(t)}
           /\ \A t \in Listed :
                /\ CheckKey(t) \in jobs /\ dependencies[CheckKey(t)] = DepKeys(t, Listed)
                /\ WriteKey(t) \in jobs /\ dependencies[WriteKey(t)] = WorkOf(t)
                /\ \A w \in WorkOf(t) : w \in jobs /\ dependencies[w] = {CheckKey(t)} \cup DepKeys(t, Listed)
<1>1. Listed \in SUBSET Target
  BY DEF Listed
<1>2. PICK I \in SUBSET Target : I = Listed
  BY <1>1
<1>3. dependencies = CompileJobs(I) /\ jobs = DOMAIN CompileJobs(I)
  BY <1>2 DEF ScheduleType, jobs
<1>4. /\ \A k \in jobs : \E t \in I : k \in WorkOf(t) \cup {CheckKey(t), WriteKey(t)}
      /\ \A t \in I :
                /\ CheckKey(t) \in jobs /\ dependencies[CheckKey(t)] = DepKeys(t, I)
                /\ WriteKey(t) \in jobs /\ dependencies[WriteKey(t)] = WorkOf(t)
                /\ \A w \in WorkOf(t) : w \in jobs /\ dependencies[w] = {CheckKey(t)} \cup DepKeys(t, I)
  BY <1>3, JobsOf
<1>5. jobs \subseteq Job
  BY <1>4, JobAssumption DEF WorkOf
<1> QED
  BY <1>1, <1>2, <1>4, <1>5

(* A job moves on: those it depends on, or that depend on it, keep what    *)
(* was known of them.                                                      *)
LEMMA MoveJob ==
    ASSUME ScheduleType, JobsInv, UNCHANGED <<workflow, dependencies>>,
           call' \in {"none", "active", "returned", "raised"},
           NEW j \in jobs, NEW s \in JobState, state' = [state EXCEPT ![j] = s],
           state[j] \in {"waiting", "running"}, s # "waiting",
           s # "canceled" => \A d \in dependencies[j] : state[d] = "ok",
           s = "canceled" => \E d \in dependencies[j] : state[d] \in Bad
    PROVE  /\ ScheduleType' /\ JobsInv' /\ Listed' = Listed
           /\ state'[j] = s /\ \A i \in Job \ {j} : state'[i] = state[i]
<1>1. j \in Job /\ state \in [Job -> JobState] /\ jobs' = jobs
  BY JobFacts DEF ScheduleType, jobs
<1>2. state' \in [Job -> JobState] /\ state'[j] = s /\ \A i \in Job \ {j} : state'[i] = state[i]
  BY <1>1
<1>3. Listed' = Listed /\ ScheduleType'
  BY <1>2, SameJobs DEF ScheduleType
<1>4. \A i \in jobs : i \in Job /\ \A d \in dependencies[i] : d \in jobs
  <2>1. jobs \subseteq Job
    BY JobFacts
  <2>2. ASSUME NEW t \in Listed PROVE DepKeys(t, Listed) \subseteq jobs
    <3>1. ASSUME NEW u \in Listed PROVE AsDep(u) \in jobs /\ ZincKey(u) \in jobs
      BY JobFacts DEF AsDep, WorkOf
    <3> QED
      BY <3>1 DEF DepKeys
  <2>3. ASSUME NEW i \in jobs, NEW d \in dependencies[i] PROVE d \in jobs
    <3>1. PICK t \in Listed : i \in WorkOf(t) \cup {CheckKey(t), WriteKey(t)}
      BY JobFacts
    <3> QED
      BY <2>2, <3>1, JobFacts
  <2> QED
    BY <2>1, <2>3
<1>5. ASSUME NEW i \in jobs
      PROVE  /\ state'[i] \in {"running", "ok", "failed"} => \A d \in dependencies[i] : state'[d] = "ok"
             /\ state'[i] = "canceled" => \E d \in dependencies[i] : state'[d] \in Bad
  <2>1. \A d \in dependencies[i] : /\ state[d] = "ok" => state'[d] = "ok"
                                   /\ state[d] \in Bad => state'[d] \in Bad
    BY <1>2, <1>4 DEF Bad
  <2>2. CASE i = j
    BY <1>2, <2>1, <2>2
  <2>3. CASE i # j
    BY <1>2, <1>4, <2>1, <2>3 DEF JobsInv
  <2> QED
    BY <2>2, <2>3
<1>6. JobsInv'
  BY <1>1, <1>5 DEF JobsInv
<1> QED
  BY <1>2, <1>3, <1>6

LEMMA SameSchedule ==
    ASSUME ScheduleType, JobsInv, UNCHANGED <<workflow, scheduleVars>>
    PROVE  ScheduleType' /\ JobsInv' /\ Listed' = Listed /\ Working' = Working
<1>1. UNCHANGED <<workflow, dependencies, state, call>>
  BY DEF scheduleVars
<1>2. Listed' = Listed /\ ScheduleType'
  BY <1>1, SameJobs DEF ScheduleType
<1>3. JobsInv'
  BY <1>1 DEF JobsInv, jobs
<1> QED
  BY <1>1, <1>2, <1>3 DEF Working

-----------------------------------------------------------------------------
(* Artifacts and results directories. *)

(* A lookup finds what building the key gives, or nothing. *)
LEMMA LookupFacts ==
    ASSUME TaskType, CachedIsRight, NEW t \in Target, NEW r \in Lookup(t)
    PROVE  /\ r.hit \in BOOLEAN /\ r.dir \in Content /\ r.local \in {NoArtifact, Parts(t)}
           /\ r.hit => r.dir = Parts(t)
           /\ ~r.hit => r.dir \in {{}, NoDir, Current(t)}
<1> DEFINE k == Key(t)
<1>1. k \in Keys(t) /\ Current(t) \in Content
  BY KeyFacts, StoreType DEF TaskType, Current
<1>2. local[t][k] \in {NoArtifact, Unreadable, Parts(t)} /\ remote[t][k] \in {NoArtifact, Unreadable, Parts(t)}
  BY <1>1 DEF CachedIsRight
<1>3. CASE local[t][k] = Unreadable
  <2>1. \E c \in {NoDir, {}} : r = [hit |-> FALSE, dir |-> c, local |-> NoArtifact]
    <3>1. Lookup(t) = {[hit |-> FALSE, dir |-> c, local |-> NoArtifact] : c \in {NoDir, {}}}
      BY <1>3, PartsFacts DEF Lookup
    <3> QED
      BY <3>1
  <2> QED
    BY <2>1, PartsFacts
<1>4. CASE local[t][k] \notin {Unreadable, NoArtifact}
  <2>1. r = [hit |-> TRUE, dir |-> local[t][k], local |-> local[t][k]]
    BY <1>4 DEF Lookup
  <2> QED
    BY <1>2, <1>4, <2>1, PartsFacts
<1>5. CASE local[t][k] = NoArtifact /\ remote[t][k] \in {NoArtifact, Unreadable}
  <2>1. \E c \in {Current(t), {}} : r = [hit |-> FALSE, dir |-> c, local |-> NoArtifact]
    BY <1>5, PartsFacts DEF Lookup
  <2> QED
    BY <1>1, <2>1, PartsFacts
<1>6. CASE local[t][k] = NoArtifact /\ remote[t][k] \notin {NoArtifact, Unreadable}
  <2>1. \/ r = [hit |-> TRUE, dir |-> remote[t][k], local |-> remote[t][k]]
        \/ r = [hit |-> FALSE, dir |-> Current(t), local |-> NoArtifact]
    BY <1>6, PartsFacts DEF Lookup
  <2>2. CASE r = [hit |-> TRUE, dir |-> remote[t][k], local |-> remote[t][k]]
    <3>1. remote[t][k] = Parts(t)
      BY <1>2, <1>6
    <3> QED
      BY <2>2, <3>1, PartsFacts
  <2>3. CASE r = [hit |-> FALSE, dir |-> Current(t), local |-> NoArtifact]
    BY <1>1, <2>3
  <2> QED
    BY <2>1, <2>2, <2>3
<1> QED
  BY <1>3, <1>4, <1>5, <1>6

(* The results of an invalid target change: no key file names them. *)
LEMMA DirChange ==
    ASSUME BuiltInv, NEW t \in Target, NEW c \in Content, SetDir(t, c),
           ~vt[t].valid, phase # "idle", UNCHANGED <<src, workflow>>
    PROVE  /\ Store(dir)' /\ Current(t)' = c
           /\ \A u \in Target \ {t} : \A k \in Keys(u) : dir'[u][k] = dir[u][k]
           /\ \A u \in Target \ {t} : Current(u)' = Current(u)
           /\ \A u \in Target : sha[u] # NoKey => dir'[u][sha[u]] = Parts(u)
<1>0. TaskType /\ Store(dir) /\ KeysInv /\ ValidIsBuilt /\ \A u \in Target : Key(u) \in Keys(u) /\ Key(u)' = Key(u)
  BY KeyFacts, SameKeys DEF BuiltInv, TaskType
<1>1. /\ Store(dir') /\ dir'[t][Key(t)] = c
      /\ \A u \in Target : \A j \in Keys(u) : u # t \/ j # Key(t) => dir'[u][j] = dir[u][j]
  <2>1. PICK k \in Keys(t) : k = Key(t)
    BY <1>0
  <2>2. PICK f, g : f = dir /\ g = dir'
    OBVIOUS
  <2>3. Store(f) /\ g = Replaced(f, t, k, c)
    BY <1>0, <2>1, <2>2 DEF SetDir, Replaced
  <2>4. /\ Store(g) /\ g[t][k] = c
        /\ \A u \in Target : \A j \in Keys(u) : u # t \/ j # k => g[u][j] = f[u][j]
    BY <2>3, SetAt
  <2> QED
    BY <2>1, <2>2, <2>4
<1>2. Store(dir)'
  BY <1>1 DEF Store
<1>3. \A u \in Target : sha[u] # NoKey => dir'[u][sha[u]] = Parts(u)
  <2> SUFFICES ASSUME NEW u \in Target, sha[u] # NoKey PROVE dir'[u][sha[u]] = dir[u][sha[u]]
    BY <1>0 DEF ValidIsBuilt
  <2>1. sha[u] \in Keys(u)
    BY <1>0 DEF TaskType, KeyOrNone
  <2>2. u = t => sha[u] # Key(t)
    BY <1>0 DEF KeysInv
  <2> QED
    BY <1>1, <2>1, <2>2
<1> QED
  BY <1>0, <1>1, <1>2, <1>3 DEF Current

Right(f) == \A t \in Target : \A k \in Keys(t) : f[t][k] \in {NoArtifact, Unreadable, Parts(t)}

(* An artifact is deleted, or written with what building its key gives. *)
LEMMA RightChange ==
    ASSUME NEW f, Store(f), Right(f), NEW t \in Target, NEW k \in Keys(t),
           NEW a \in {NoArtifact, Unreadable, Parts(t)}, NEW g, g = Replaced(f, t, k, a)
    PROVE  Store(g) /\ Right(g)
<1>1. a \in Content
  BY PartsFacts
<1>2. /\ Store(g) /\ g[t][k] = a
      /\ \A u \in Target : \A j \in Keys(u) : u # t \/ j # k => g[u][j] = f[u][j]
  BY <1>1, SetAt
<1> QED
  BY <1>2 DEF Right

LEMMA LocalChange ==
    ASSUME TaskType, CachedIsRight, NEW t \in Target, NEW k \in Keys(t),
           NEW a \in {NoArtifact, Unreadable, Parts(t)},
           local' = [local EXCEPT ![t][k] = a], UNCHANGED workflow
    PROVE  Store(local)' /\ Right(local')
<1>1. Store(local) /\ Right(local)
  BY DEF TaskType, CachedIsRight, Right
<1>2. PICK f, g : f = local /\ g = local'
  OBVIOUS
<1>3. Store(f) /\ Right(f) /\ g = Replaced(f, t, k, a)
  BY <1>1, <1>2 DEF Replaced
<1>4. Store(g) /\ Right(g)
  BY <1>3, RightChange
<1> QED
  BY <1>2, <1>4 DEF Store

LEMMA RemoteChange ==
    ASSUME TaskType, CachedIsRight, NEW t \in Target, NEW k \in Keys(t),
           NEW a \in {NoArtifact, Unreadable, Parts(t)},
           remote' = [remote EXCEPT ![t][k] = a], UNCHANGED workflow
    PROVE  Store(remote)' /\ Right(remote')
<1>1. Store(remote) /\ Right(remote)
  BY DEF TaskType, CachedIsRight, Right
<1>2. PICK f, g : f = remote /\ g = remote'
  OBVIOUS
<1>3. Store(f) /\ Right(f) /\ g = Replaced(f, t, k, a)
  BY <1>1, <1>2 DEF Replaced
<1>4. Store(g) /\ Right(g)
  BY <1>3, RightChange
<1> QED
  BY <1>2, <1>4 DEF Store

(* The caches after a step. *)
LEMMA CachesRight ==
    ASSUME TaskType, CachedIsRight, UNCHANGED workflow,
           UNCHANGED local \/ (Store(local)' /\ Right(local')),
           UNCHANGED remote \/ (Store(remote)' /\ Right(remote'))
    PROVE  Store(local)' /\ Store(remote)' /\ CachedIsRight'
<1>1. Right(local) /\ Right(remote) /\ Store(local) /\ Store(remote)
  BY DEF TaskType, CachedIsRight, Right
<1>2. Store(local)' /\ Store(remote)'
  BY <1>1 DEF Store
<1>3. Right(local') /\ Right(remote')
  BY <1>1
<1>4. \A t : Parts(t)' = Parts(t)
  BY DEF Parts
<1> QED
  BY <1>2, <1>3, <1>4 DEF CachedIsRight, Right

(* The caches are not written. *)
LEMMA SameCaches ==
    ASSUME TaskType, CachedIsRight, UNCHANGED <<workflow, local, remote>>
    PROVE  CachedIsRight'
  BY DEF CachedIsRight, Parts

-----------------------------------------------------------------------------
(* Before the compilation. *)

(* What stays when the call of execute() does. *)
LEMMA Quiet ==
    ASSUME BuiltInv, UNCHANGED <<workflow, scheduleVars>>
    PROVE  /\ ScheduleType' /\ JobsInv' /\ Listed' = Listed /\ Working' = Working
           /\ UNCHANGED <<dependencies, state, call>>
           /\ phase \in {"idle", "cache", "prepare"} =>
                ~Working /\ Listed = {} /\ call = "none" /\ state = [j \in Job |-> "waiting"]
<1>1. ScheduleType /\ JobsInv /\ PhaseInv
  BY DEF BuiltInv
<1>2. ScheduleType' /\ JobsInv' /\ Listed' = Listed /\ Working' = Working
  BY <1>1, SameSchedule
<1>3. phase \in {"idle", "cache", "prepare"} =>
        ~Working /\ Listed = {} /\ call = "none" /\ state = [j \in Job |-> "waiting"]
  BY <1>1 DEF PhaseInv, Working
<1> QED
  BY <1>2, <1>3 DEF scheduleVars

(* What is to be cached, while no job runs, is of valid targets. *)
LEMMA BackgroundValid ==
    ASSUME BuiltInv, NEW t \in Target, NEW k, <<t, k>> \in background
    PROVE  /\ k = Key(t) /\ k \in Keys(t) /\ k \in AnyKey /\ dir[t][k] = Parts(t) /\ phase # "idle"
           /\ vt[t].valid \/ (t \in Listed /\ state[CheckKey(t)] = "failed")
           /\ t \in Listed => state[CheckKey(t)] \in {"ok", "failed"}
<1>1. k \in AnyKey
  BY DEF BuiltInv, TaskType
<1>2. k = Key(t) /\ dir[t][k] = Parts(t) /\ (vt[t].valid \/ (t \in Listed /\ state[CheckKey(t)] = "failed"))
      /\ (t \in Listed => state[CheckKey(t)] \in {"ok", "failed"})
  BY <1>1 DEF BuiltInv, BackgroundInv
<1>3. phase # "idle"
  BY DEF BuiltInv, PhaseInv
<1> QED
  BY <1>1, <1>2, <1>3, KeyFacts DEF BuiltInv

LEMMA InvalidationCheckStep ==
    ASSUME BuiltInv, DoInvalidationCheck, UNCHANGED scheduleVars
    PROVE  BuiltInv'
<1> DEFINE invalid == {t \in Target : sha[t] # Key(t)}
<1>1. /\ phase = "idle" /\ phase' = "cache" /\ hits' = {}
      /\ UNCHANGED <<src, workflow, sha, local, remote, background>>
  BY DEF DoInvalidationCheck
<1>2. /\ vt' = [t \in Target |-> [valid |-> sha[t] = Key(t), previous |-> sha[t], incremental |-> FALSE]]
      /\ todo' = invalid
      /\ dir' = [t \in Target |-> IF t \in invalid THEN [dir[t] EXCEPT ![Key(t)] = {}] ELSE dir[t]]
  BY DEF DoInvalidationCheck
<1>3. /\ TaskType /\ PhaseInv /\ KeysInv /\ ValidIsBuilt /\ CachedIsRight /\ background = {}
      /\ \A t : Key(t)' = Key(t) /\ Parts(t)' = Parts(t)
  BY <1>1, SameKeys DEF BuiltInv, PhaseInv
<1>4. /\ ScheduleType' /\ JobsInv' /\ Listed' = {} /\ ~Working' /\ call' = "none"
      /\ state' = [j \in Job |-> "waiting"]
  BY <1>1, Quiet
<1>5. ASSUME NEW t \in Target
      PROVE  /\ vt'[t] \in [valid : BOOLEAN, previous : AnyKey, incremental : BOOLEAN]
             /\ vt'[t].valid <=> sha[t] = Key(t)
  BY <1>2, <1>3 DEF TaskType
<1>6. Invalid' = invalid
  BY <1>5 DEF Invalid
<1>7. ASSUME NEW t \in Target
      PROVE  /\ dir'[t] \in [Keys(t) -> Content]
             /\ t \in invalid => dir'[t][Key(t)] = {}
             /\ \A k \in Keys(t) : k # Key(t) \/ t \notin invalid => dir'[t][k] = dir[t][k]
  <2>1. dir[t] \in [Keys(t) -> Content] /\ Key(t) \in Keys(t) /\ {} \in Content
    BY <1>3, KeyFacts, PartsFacts DEF TaskType, Store
  <2>2. dir'[t] = IF t \in invalid THEN [dir[t] EXCEPT ![Key(t)] = {}] ELSE dir[t]
    BY <1>2
  <2> QED
    BY <2>1, <2>2
<1>8. Store(dir)'
  <2>1. PICK g : g = dir'
    OBVIOUS
  <2>2. g = [t \in Target |-> g[t]]
    BY <1>2, <2>1
  <2> QED
    BY <1>7, <2>1, <2>2 DEF Store
<1>9. TaskType'
  <2>1. vt' \in [Target -> [valid : BOOLEAN, previous : AnyKey, incremental : BOOLEAN]]
    <3>1. vt' = [t \in Target |-> vt'[t]]
      BY <1>2
    <3> QED
      BY <1>5, <3>1
  <2>2. todo' \subseteq Target /\ hits' \subseteq Target
    BY <1>1, <1>2
  <2>3. Store(local)' /\ Store(remote)'
    BY <1>1, <1>3 DEF TaskType, Store
  <2> QED
    BY <1>1, <1>3, <1>8, <2>1, <2>2, <2>3 DEF TaskType, KeyOrNone
<1>10. PhaseInv'
  BY <1>1, <1>4 DEF PhaseInv
<1>11. KeysInv'
  BY <1>1, <1>3, <1>5 DEF KeysInv
<1>12. CacheInv'
  BY <1>1, <1>2, <1>3, <1>6, <1>7 DEF CacheInv, Current
<1>13. CompileInv' /\ BackgroundInv'
  BY <1>1, <1>3, <1>4 DEF CompileInv, BackgroundInv
<1>14. ValidIsBuilt'
  <2> SUFFICES ASSUME NEW t \in Target, sha[t] # NoKey PROVE dir'[t][sha[t]] = Parts(t)
    BY <1>1, <1>3 DEF ValidIsBuilt
  <2>1. sha[t] \in Keys(t) /\ dir[t][sha[t]] = Parts(t)
    BY <1>3 DEF TaskType, KeyOrNone, ValidIsBuilt
  <2> QED
    BY <1>7, <2>1
<1>15. CachedIsRight'
  BY <1>1, <1>3, SameCaches
<1> QED
  BY <1>4, <1>9, <1>10, <1>11, <1>12, <1>13, <1>14, <1>15 DEF BuiltInv

(* A lookup of an invalid target. *)
LEMMA LookedFacts ==
    ASSUME BuiltInv, NEW t \in Target, ~vt[t].valid, phase # "idle",
           NEW r \in Lookup(t), Looked(t, r), UNCHANGED <<src, workflow, remote>>
    PROVE  /\ Store(dir)' /\ Store(local)' /\ Store(remote)' /\ CachedIsRight' /\ Current(t)' = r.dir
           /\ r.hit \in BOOLEAN /\ (r.hit => r.dir = Parts(t)) /\ (~r.hit => r.dir \in {{}, NoDir, Current(t)})
           /\ \A u \in Target \ {t} : \A k \in Keys(u) : dir'[u][k] = dir[u][k]
           /\ \A u \in Target \ {t} : Current(u)' = Current(u)
           /\ \A u \in Target : sha[u] # NoKey => dir'[u][sha[u]] = Parts(u)
<1>1. TaskType /\ CachedIsRight
  BY DEF BuiltInv
<1>2. /\ r.hit \in BOOLEAN /\ r.dir \in Content /\ r.local \in {NoArtifact, Parts(t)}
      /\ r.hit => r.dir = Parts(t)
      /\ ~r.hit => r.dir \in {{}, NoDir, Current(t)}
  BY <1>1, LookupFacts
<1>3. PICK c \in Content : c = r.dir
  BY <1>2
<1>4. PICK a \in {NoArtifact, Unreadable, Parts(t)} : a = r.local
  BY <1>2
<1>5. SetDir(t, c) /\ local' = [local EXCEPT ![t][Key(t)] = a]
  BY <1>3, <1>4 DEF Looked
<1>6. Store(local)' /\ Right(local')
  <2>1. PICK k \in Keys(t) : k = Key(t)
    BY <1>1, KeyFacts
  <2>2. local' = [local EXCEPT ![t][k] = a]
    BY <1>5, <2>1
  <2> QED
    BY <1>1, <2>2, LocalChange
<1>7. Store(remote)' /\ CachedIsRight'
  BY <1>1, <1>6, CachesRight
<1>8. /\ Store(dir)' /\ Current(t)' = c
      /\ \A u \in Target \ {t} : \A k \in Keys(u) : dir'[u][k] = dir[u][k]
      /\ \A u \in Target \ {t} : Current(u)' = Current(u)
      /\ \A u \in Target : sha[u] # NoKey => dir'[u][sha[u]] = Parts(u)
  BY <1>5, DirChange
<1> QED
  BY <1>2, <1>3, <1>6, <1>7, <1>8

LEMMA CheckArtifactCacheStep ==
    ASSUME BuiltInv, NEW t \in Target, CheckArtifactCache(t), UNCHANGED scheduleVars
    PROVE  BuiltInv'
<1>1. PICK r \in Lookup(t) : Looked(t, r) /\ hits' = IF r.hit THEN hits \cup {t} ELSE hits
  BY DEF CheckArtifactCache
<1>2. /\ phase = "cache" /\ t \in todo /\ todo' = todo \ {t} /\ phase' = phase
      /\ UNCHANGED <<src, workflow, sha, remote, vt, background>>
  BY DEF CheckArtifactCache
<1>3. /\ TaskType /\ PhaseInv /\ KeysInv /\ CacheInv /\ CachedIsRight
      /\ \A u : Key(u)' = Key(u) /\ Parts(u)' = Parts(u)
  BY <1>2, SameKeys DEF BuiltInv
<1>4. /\ ScheduleType' /\ JobsInv' /\ Listed = {} /\ Listed' = {} /\ ~Working' /\ call' = "none"
      /\ state' = [j \in Job |-> "waiting"]
  BY <1>2, Quiet
<1>5. /\ t \in Invalid /\ ~vt[t].valid /\ t \notin hits /\ Current(t) \in {{}, NoDir}
      /\ Invalid' = Invalid
  BY <1>2, <1>3 DEF CacheInv, Invalid
<1>6. /\ Store(dir)' /\ Store(local)' /\ Store(remote)' /\ CachedIsRight' /\ Current(t)' = r.dir
      /\ r.hit \in BOOLEAN /\ (r.hit => r.dir = Parts(t)) /\ (~r.hit => r.dir \in {{}, NoDir, Current(t)})
      /\ \A u \in Target \ {t} : \A k \in Keys(u) : dir'[u][k] = dir[u][k]
      /\ \A u \in Target \ {t} : Current(u)' = Current(u)
      /\ \A u \in Target : sha[u] # NoKey => dir'[u][sha[u]] = Parts(u)
  BY <1>1, <1>2, <1>5, LookedFacts
<1>7. TaskType'
  BY <1>1, <1>2, <1>3, <1>6 DEF TaskType, KeyOrNone
<1>8. PhaseInv' /\ KeysInv' /\ CompileInv'
  BY <1>2, <1>3, <1>4 DEF PhaseInv, KeysInv, CompileInv
<1>9. CacheInv'
  <2>1. Invalid \subseteq Target
    BY DEF Invalid
  <2>2. todo' \subseteq Invalid /\ hits' \subseteq Invalid \ todo'
    BY <1>1, <1>2, <1>3, <1>5 DEF CacheInv
  <2>3. ASSUME NEW u \in hits' PROVE Current(u)' = Parts(u)
    BY <1>1, <1>2, <1>3, <1>5, <1>6, <2>1, <2>2 DEF CacheInv
  <2>4. ASSUME NEW u \in Invalid \ hits' PROVE Current(u)' \in {{}, NoDir}
    BY <1>1, <1>2, <1>3, <1>5, <1>6, <2>1, <2>2 DEF CacheInv
  <2> QED
    BY <1>2, <1>3, <1>5, <2>2, <2>3, <2>4 DEF CacheInv
<1>10. BackgroundInv'
  <2> SUFFICES ASSUME NEW u \in Target, NEW k \in AnyKey, <<u, k>> \in background
               PROVE  k = Key(u) /\ dir'[u][k] = Parts(u) /\ vt[u].valid
    BY <1>2, <1>3, <1>4 DEF BackgroundInv
  <2>1. k = Key(u) /\ k \in Keys(u) /\ dir[u][k] = Parts(u) /\ vt[u].valid
    BY <1>4, BackgroundValid
  <2> QED
    BY <1>5, <1>6, <2>1
<1>11. ValidIsBuilt'
  BY <1>2, <1>3, <1>6 DEF ValidIsBuilt
<1> QED
  BY <1>4, <1>6, <1>7, <1>8, <1>9, <1>10, <1>11 DEF BuiltInv

(* A target is marked valid, for results that are complete. *)
LEMMA UpdateFacts ==
    ASSUME BuiltInv, NEW t \in Target, Update(t), phase # "idle", phase' # "idle", UNCHANGED <<src, workflow>>,
           vt[t].valid \/ dir'[t][Key(t)] = Parts(t),
           \A u \in Target : sha[u] # NoKey => dir'[u][sha[u]] = Parts(u)
    PROVE  /\ sha' \in [Target -> AnyKey] /\ \A u \in Target : sha'[u] \in KeyOrNone(u)
           /\ vt' \in [Target -> [valid : BOOLEAN, previous : AnyKey, incremental : BOOLEAN]]
           /\ background' \subseteq Target \X AnyKey
           /\ background \subseteq background' /\ background' \subseteq background \cup {<<t, Key(t)>>}
           /\ vt'[t].valid /\ \A u \in Target \ {t} : vt'[u] = vt[u]
           /\ Invalid' = Invalid \ {t}
           /\ KeysInv' /\ ValidIsBuilt' /\ dir'[t][Key(t)] = Parts(t)
<1>1. /\ TaskType /\ KeysInv /\ ValidIsBuilt /\ Key(t) \in Keys(t) /\ Key(t) \in AnyKey /\ Key(t) # NoKey
      /\ \A u : Key(u)' = Key(u) /\ Parts(u)' = Parts(u)
  BY SameKeys, KeyFacts DEF BuiltInv
<1>2. /\ sha \in [Target -> AnyKey] /\ \A u \in Target : sha[u] \in KeyOrNone(u)
      /\ vt \in [Target -> [valid : BOOLEAN, previous : AnyKey, incremental : BOOLEAN]]
      /\ background \subseteq Target \X AnyKey
  BY <1>1 DEF TaskType
<1>3. /\ vt' \in [Target -> [valid : BOOLEAN, previous : AnyKey, incremental : BOOLEAN]]
      /\ vt'[t].valid /\ \A u \in Target \ {t} : vt'[u] = vt[u]
  BY <1>2 DEF Update
<1>4. /\ sha' \in [Target -> AnyKey] /\ sha'[t] = Key(t) /\ \A u \in Target \ {t} : sha'[u] = sha[u]
  BY <1>1, <1>2 DEF Update, KeysInv
<1>5. /\ background' \subseteq Target \X AnyKey
      /\ background \subseteq background' /\ background' \subseteq background \cup {<<t, Key(t)>>}
  BY <1>1, <1>2 DEF Update
<1>6. \A u \in Target : sha'[u] \in KeyOrNone(u)
  BY <1>1, <1>2, <1>4 DEF KeyOrNone
<1>7. KeysInv'
  BY <1>1, <1>3, <1>4 DEF KeysInv
<1>8. dir'[t][Key(t)] = Parts(t)
  BY <1>1 DEF KeysInv
<1>9. ValidIsBuilt'
  BY <1>1, <1>4, <1>8 DEF ValidIsBuilt
<1>10. Invalid' = Invalid \ {t}
  BY <1>3 DEF Invalid
<1> QED
  BY <1>3, <1>4, <1>5, <1>6, <1>7, <1>8, <1>9, <1>10

LEMMA UpdateCachedStep ==
    ASSUME BuiltInv, NEW t \in Target, UpdateCached(t), UNCHANGED scheduleVars
    PROVE  BuiltInv'
<1>1. /\ phase = "cache" /\ todo = {} /\ t \in hits /\ hits' = hits \ {t} /\ Update(t)
      /\ UNCHANGED <<src, workflow, dir, local, remote, phase, todo>>
  BY DEF UpdateCached
<1>2. /\ TaskType /\ PhaseInv /\ KeysInv /\ CacheInv /\ ValidIsBuilt /\ CachedIsRight
      /\ \A u : Key(u)' = Key(u) /\ Parts(u)' = Parts(u)
  BY <1>1, SameKeys DEF BuiltInv
<1>3. /\ ScheduleType' /\ JobsInv' /\ Listed = {} /\ Listed' = {} /\ ~Working' /\ call' = "none"
      /\ state' = [j \in Job |-> "waiting"]
  BY <1>1, Quiet
<1>4. Current(t) = Parts(t) /\ \A u : Current(u)' = Current(u)
  BY <1>1, <1>2 DEF CacheInv, Current
<1>5. /\ sha' \in [Target -> AnyKey] /\ \A u \in Target : sha'[u] \in KeyOrNone(u)
      /\ vt' \in [Target -> [valid : BOOLEAN, previous : AnyKey, incremental : BOOLEAN]]
      /\ background' \subseteq Target \X AnyKey
      /\ background \subseteq background' /\ background' \subseteq background \cup {<<t, Key(t)>>}
      /\ vt'[t].valid /\ \A u \in Target \ {t} : vt'[u] = vt[u]
      /\ Invalid' = Invalid \ {t}
      /\ KeysInv' /\ ValidIsBuilt' /\ dir'[t][Key(t)] = Parts(t)
  <2>1. \A u \in Target : sha[u] # NoKey => dir'[u][sha[u]] = Parts(u)
    BY <1>1, <1>2 DEF ValidIsBuilt
  <2>2. dir'[t][Key(t)] = Parts(t)
    BY <1>1, <1>4 DEF Current
  <2> QED
    BY <1>1, <2>1, <2>2, UpdateFacts
<1>6. TaskType'
  <2>1. Store(dir)' /\ Store(local)' /\ Store(remote)'
    BY <1>1, <1>2 DEF TaskType, Store
  <2> QED
    BY <1>1, <1>2, <1>5, <2>1 DEF TaskType, KeyOrNone
<1>7. PhaseInv' /\ CompileInv'
  BY <1>1, <1>3 DEF PhaseInv, CompileInv
<1>8. CacheInv'
  BY <1>1, <1>2, <1>4, <1>5 DEF CacheInv
<1>9. BackgroundInv'
  <2> SUFFICES ASSUME NEW u \in Target, NEW k \in AnyKey, <<u, k>> \in background'
               PROVE  k = Key(u) /\ dir'[u][k] = Parts(u) /\ vt'[u].valid
    BY <1>2, <1>3 DEF BackgroundInv
  <2>1. CASE u = t /\ k = Key(t)
    BY <1>5, <2>1
  <2>2. CASE <<u, k>> \in background
    <3>1. k = Key(u) /\ dir[u][k] = Parts(u) /\ vt[u].valid
      BY <1>3, <2>2, BackgroundValid
    <3> QED
      BY <1>1, <1>5, <3>1
  <2> QED
    BY <1>5, <2>1, <2>2
<1>10. CachedIsRight'
  BY <1>1, <1>2, SameCaches
<1> QED
  BY <1>3, <1>5, <1>6, <1>7, <1>8, <1>9, <1>10 DEF BuiltInv

LEMMA CacheCheckedStep ==
    ASSUME BuiltInv, CacheChecked, UNCHANGED scheduleVars
    PROVE  BuiltInv'
<1>1. /\ phase = "cache" /\ todo = {} /\ hits = {} /\ phase' = "prepare" /\ todo' = Invalid
      /\ UNCHANGED <<src, workflow, sha, dir, local, remote, vt, hits, background>>
  BY DEF CacheChecked
<1>2. /\ TaskType /\ PhaseInv /\ KeysInv /\ CacheInv /\ ValidIsBuilt /\ CachedIsRight /\ BackgroundInv
      /\ \A u : Key(u)' = Key(u) /\ Parts(u)' = Parts(u)
  BY <1>1, SameKeys DEF BuiltInv
<1>3. /\ ScheduleType' /\ JobsInv' /\ Listed = {} /\ Listed' = {} /\ ~Working' /\ call' = "none"
      /\ state' = [j \in Job |-> "waiting"]
  BY <1>1, Quiet
<1>4. TaskType'
  <2>1. Store(dir)' /\ Store(local)' /\ Store(remote)'
    BY <1>1, <1>2 DEF TaskType, Store
  <2>2. Invalid \subseteq Target
    BY DEF Invalid
  <2> QED
    BY <1>1, <1>2, <2>1, <2>2 DEF TaskType, KeyOrNone
<1>5. PhaseInv' /\ CompileInv' /\ KeysInv' /\ ValidIsBuilt'
  BY <1>1, <1>2, <1>3 DEF PhaseInv, CompileInv, KeysInv, ValidIsBuilt
<1>6. CacheInv'
  <2>1. Invalid' = Invalid /\ \A u : Current(u)' = Current(u)
    BY <1>1, <1>2 DEF Invalid, Current
  <2> QED
    BY <1>1, <1>2, <2>1 DEF CacheInv
<1>7. BackgroundInv'
  BY <1>1, <1>2, <1>3 DEF BackgroundInv
<1>8. CachedIsRight'
  BY <1>1, <1>2, SameCaches
<1> QED
  BY <1>3, <1>4, <1>5, <1>6, <1>7, <1>8 DEF BuiltInv

LEMMA PrepareStep ==
    ASSUME BuiltInv, NEW t \in Target, Prepare(t), UNCHANGED scheduleVars
    PROVE  BuiltInv'
<1> DEFINE old == vt[t].previous
           copied == old # NoKey /\ dir[t][old] # NoDir
<1>1. /\ phase = "prepare" /\ t \in todo /\ todo' = todo \ {t}
      /\ SetDir(t, IF old # NoKey THEN {} ELSE Current(t))
      /\ sha' = [sha EXCEPT ![t] = NoKey]
      /\ vt' = [vt EXCEPT ![t].incremental = copied, ![t].valid = FALSE]
      /\ UNCHANGED <<src, workflow, local, remote, hits, background, phase>>
  BY DEF Prepare
<1>2. /\ TaskType /\ PhaseInv /\ KeysInv /\ CacheInv /\ ValidIsBuilt /\ CachedIsRight
      /\ \A u : Key(u)' = Key(u) /\ Parts(u)' = Parts(u)
  BY <1>1, SameKeys DEF BuiltInv
<1>3. /\ ScheduleType' /\ JobsInv' /\ Listed = {} /\ Listed' = {} /\ ~Working' /\ call' = "none"
      /\ state' = [j \in Job |-> "waiting"]
  BY <1>1, Quiet
<1>4. t \in Invalid /\ ~vt[t].valid /\ t \notin hits /\ Current(t) \in {{}, NoDir} /\ hits = {}
  BY <1>1, <1>2 DEF CacheInv, Invalid
<1>5. PICK c \in {{}, NoDir} : c = IF old # NoKey THEN {} ELSE Current(t)
  BY <1>4
<1>6. /\ Store(dir)' /\ Current(t)' = c
      /\ \A u \in Target \ {t} : \A k \in Keys(u) : dir'[u][k] = dir[u][k]
      /\ \A u \in Target \ {t} : Current(u)' = Current(u)
      /\ \A u \in Target : sha[u] # NoKey => dir'[u][sha[u]] = Parts(u)
  <2>1. c \in Content /\ SetDir(t, c)
    BY <1>1, <1>5, PartsFacts
  <2> QED
    BY <1>1, <1>4, <2>1, DirChange
<1>7. /\ sha' \in [Target -> AnyKey] /\ sha'[t] = NoKey /\ \A u \in Target \ {t} : sha'[u] = sha[u]
      /\ \A u \in Target : sha'[u] \in KeyOrNone(u)
  <2>1. NoKey \in AnyKey /\ NoKey \in KeyOrNone(t)
    BY Zenon DEF AnyKey, KeyOrNone
  <2> QED
    BY <1>1, <1>2, <2>1 DEF TaskType
<1>8. /\ vt' \in [Target -> [valid : BOOLEAN, previous : AnyKey, incremental : BOOLEAN]]
      /\ ~vt'[t].valid /\ \A u \in Target \ {t} : vt'[u] = vt[u]
  <2>1. PICK b \in BOOLEAN : b = copied
    OBVIOUS
  <2>2. vt' = [vt EXCEPT ![t].incremental = b, ![t].valid = FALSE]
    BY <1>1, <2>1
  <2> QED
    BY <1>2, <2>2 DEF TaskType
<1>9. Invalid' = Invalid
  BY <1>4, <1>8 DEF Invalid
<1>10. TaskType'
  <2>1. Store(local)' /\ Store(remote)'
    BY <1>1, <1>2 DEF TaskType, Store
  <2> QED
    BY <1>1, <1>2, <1>6, <1>7, <1>8, <2>1 DEF TaskType, KeyOrNone
<1>11. PhaseInv' /\ CompileInv'
  BY <1>1, <1>3 DEF PhaseInv, CompileInv
<1>12. KeysInv'
  <2>1. Key(t) # NoKey
    BY <1>2, KeyFacts
  <2> QED
    BY <1>1, <1>2, <1>7, <1>8, <2>1 DEF KeysInv
<1>13. CacheInv'
  <2>1. \A u \in Invalid : Current(u)' \in {{}, NoDir}
    BY <1>1, <1>2, <1>4, <1>6 DEF CacheInv, Invalid
  <2> QED
    BY <1>1, <1>2, <1>4, <1>9, <2>1 DEF CacheInv
<1>14. BackgroundInv'
  <2> SUFFICES ASSUME NEW u \in Target, NEW k \in AnyKey, <<u, k>> \in background
               PROVE  k = Key(u) /\ dir'[u][k] = Parts(u) /\ vt'[u].valid
    BY <1>1, <1>2, <1>3 DEF BackgroundInv
  <2>1. k = Key(u) /\ k \in Keys(u) /\ dir[u][k] = Parts(u) /\ vt[u].valid
    BY <1>3, BackgroundValid
  <2> QED
    BY <1>4, <1>6, <1>8, <2>1
<1>15. ValidIsBuilt'
  BY <1>2, <1>6, <1>7 DEF ValidIsBuilt
<1>16. CachedIsRight'
  BY <1>1, <1>2, SameCaches
<1> QED
  BY <1>3, <1>10, <1>11, <1>12, <1>13, <1>14, <1>15, <1>16 DEF BuiltInv

-----------------------------------------------------------------------------
(* Caches, edits and the end of the process. *)

LEMMA InsertStep ==
    ASSUME BuiltInv, NEW b \in background, Insert(b[1], b[2]), UNCHANGED scheduleVars
    PROVE  BuiltInv'
<1>1. PICK t \in Target, k \in AnyKey : b = <<t, k>> /\ t = b[1] /\ k = b[2]
  BY DEF BuiltInv, TaskType
<1>2. /\ background' = background \ {<<t, k>>}
      /\ UNCHANGED <<src, workflow, sha, dir, vt, hits, phase, todo>>
      /\ \/ UNCHANGED <<local, remote>>
         \/ /\ local' = [local EXCEPT ![t][k] = dir[t][k]]
            /\ remote' \in {remote, [remote EXCEPT ![t][k] = dir[t][k]]}
  BY <1>1 DEF Insert
<1>3. /\ TaskType /\ PhaseInv /\ KeysInv /\ CacheInv /\ ValidIsBuilt /\ CachedIsRight /\ BackgroundInv
      /\ CompileInv /\ \A u : Key(u)' = Key(u) /\ Parts(u)' = Parts(u) /\ WorkOf(u)' = WorkOf(u)
  BY <1>2, SameKeys DEF BuiltInv
<1>4. /\ ScheduleType' /\ JobsInv' /\ Listed' = Listed /\ Working' = Working
      /\ UNCHANGED <<dependencies, state, call>>
  BY <1>2, Quiet
<1>5. k \in Keys(t) /\ dir[t][k] = Parts(t)
  BY <1>1, BackgroundValid
<1>6. Store(local)' /\ Store(remote)' /\ CachedIsRight'
  <2>1. PICK a \in {NoArtifact, Unreadable, Parts(t)} : a = dir[t][k]
    BY <1>5
  <2>2. UNCHANGED local \/ local' = [local EXCEPT ![t][k] = a]
    BY <1>2, <2>1
  <2>3. UNCHANGED remote \/ remote' = [remote EXCEPT ![t][k] = a]
    BY <1>2, <2>1
  <2>4. UNCHANGED local \/ (Store(local)' /\ Right(local'))
    BY <1>2, <1>3, <1>5, <2>2, LocalChange
  <2>5. UNCHANGED remote \/ (Store(remote)' /\ Right(remote'))
    BY <1>2, <1>3, <1>5, <2>3, RemoteChange
  <2> QED
    BY <1>2, <1>3, <2>4, <2>5, CachesRight
<1>7. TaskType'
  <2>1. Store(dir)'
    BY <1>2, <1>3 DEF TaskType, Store
  <2> QED
    BY <1>2, <1>3, <1>6, <2>1 DEF TaskType, KeyOrNone
<1>8. Invalid' = Invalid /\ \A u : Current(u)' = Current(u)
  BY <1>2, <1>3 DEF Invalid, Current
<1>9. PhaseInv' /\ KeysInv' /\ ValidIsBuilt'
  BY <1>2, <1>3, <1>4, <1>8 DEF PhaseInv, KeysInv, ValidIsBuilt
<1>10. CacheInv'
  BY <1>2, <1>3, <1>8 DEF CacheInv
<1>11. CompileInv'
  <2>1. \A u : MadeParts(u)' = MadeParts(u)
    BY <1>3, <1>4 DEF MadeParts
  <2>2. \A u : ListedInv(u)' <=> ListedInv(u)
    BY <1>2, <1>3, <1>4, <1>8, <2>1 DEF ListedInv
  <2> QED
    BY <1>2, <1>3, <1>4, <2>2 DEF CompileInv
<1>12. BackgroundInv'
  BY <1>2, <1>3, <1>4 DEF BackgroundInv
<1> QED
  BY <1>4, <1>6, <1>7, <1>9, <1>10, <1>11, <1>12 DEF BuiltInv

LEMMA OtherInsertsStep ==
    ASSUME BuiltInv, NEW t \in Target, OtherInserts(t), UNCHANGED scheduleVars
    PROVE  BuiltInv'
<1>1. PICK a \in {Parts(t), Unreadable} :
        \/ UNCHANGED local /\ remote' = [remote EXCEPT ![t][Key(t)] = a]
        \/ UNCHANGED remote /\ local' = [local EXCEPT ![t][Key(t)] = a]
  BY DEF OtherInserts
<1>2. UNCHANGED <<src, workflow, sha, dir, vt, hits, background, phase, todo>>
  BY DEF OtherInserts
<1>3. /\ TaskType /\ PhaseInv /\ KeysInv /\ CacheInv /\ ValidIsBuilt /\ CachedIsRight /\ BackgroundInv
      /\ CompileInv /\ \A u : Key(u)' = Key(u) /\ Parts(u)' = Parts(u) /\ WorkOf(u)' = WorkOf(u)
  BY <1>2, SameKeys DEF BuiltInv
<1>4. /\ ScheduleType' /\ JobsInv' /\ Listed' = Listed /\ Working' = Working
      /\ UNCHANGED <<dependencies, state, call>>
  BY <1>2, Quiet
<1>5. PICK k \in Keys(t) : k = Key(t)
  BY <1>3, KeyFacts
<1>6. Store(local)' /\ Store(remote)' /\ CachedIsRight'
  <2>1. PICK c \in {NoArtifact, Unreadable, Parts(t)} : c = a
    OBVIOUS
  <2>2. UNCHANGED local \/ local' = [local EXCEPT ![t][k] = c]
    BY <1>1, <1>5, <2>1
  <2>3. UNCHANGED remote \/ remote' = [remote EXCEPT ![t][k] = c]
    BY <1>1, <1>5, <2>1
  <2>4. UNCHANGED local \/ (Store(local)' /\ Right(local'))
    BY <1>2, <1>3, <1>5, <2>2, LocalChange
  <2>5. UNCHANGED remote \/ (Store(remote)' /\ Right(remote'))
    BY <1>2, <1>3, <1>5, <2>3, RemoteChange
  <2> QED
    BY <1>2, <1>3, <2>4, <2>5, CachesRight
<1>7. TaskType'
  <2>1. Store(dir)'
    BY <1>2, <1>3 DEF TaskType, Store
  <2> QED
    BY <1>2, <1>3, <1>6, <2>1 DEF TaskType, KeyOrNone
<1>8. Invalid' = Invalid /\ \A u : Current(u)' = Current(u)
  BY <1>2, <1>3 DEF Invalid, Current
<1>9. PhaseInv' /\ KeysInv' /\ ValidIsBuilt'
  BY <1>2, <1>3, <1>4, <1>8 DEF PhaseInv, KeysInv, ValidIsBuilt
<1>10. CacheInv'
  BY <1>2, <1>3, <1>8 DEF CacheInv
<1>11. CompileInv'
  <2>1. \A u : MadeParts(u)' = MadeParts(u)
    BY <1>3, <1>4 DEF MadeParts
  <2>2. \A u : ListedInv(u)' <=> ListedInv(u)
    BY <1>2, <1>3, <1>4, <1>8, <2>1 DEF ListedInv
  <2> QED
    BY <1>2, <1>3, <1>4, <2>2 DEF CompileInv
<1>12. BackgroundInv'
  BY <1>2, <1>3, <1>4 DEF BackgroundInv
<1> QED
  BY <1>4, <1>6, <1>7, <1>9, <1>10, <1>11, <1>12 DEF BuiltInv

LEMMA EditStep ==
    ASSUME BuiltInv, NEW t \in Target, Edit(t), UNCHANGED scheduleVars
    PROVE  BuiltInv'
<1>1. PICK v \in Version[t] : src' = [src EXCEPT ![t] = v]
  BY DEF Edit
<1>2. /\ phase = "idle"
      /\ UNCHANGED <<workflow, sha, dir, local, remote, vt, hits, background, phase, todo>>
  BY DEF Edit
<1>3. /\ TaskType /\ PhaseInv /\ ValidIsBuilt /\ CachedIsRight /\ background = {} /\ Invalid = Target
      /\ \A u : Parts(u)' = Parts(u)
  BY <1>2 DEF BuiltInv, PhaseInv, Parts
<1>4. /\ ScheduleType' /\ JobsInv' /\ Listed' = {} /\ ~Working' /\ call' = "none"
      /\ state' = [j \in Job |-> "waiting"]
  BY <1>2, Quiet
<1>5. src' = [u \in Target |-> src'[u]] /\ \A u \in Target : src'[u] \in Version[u]
  <2>1. PICK f, g : f = src /\ g = src'
    OBVIOUS
  <2>2. f = [u \in Target |-> f[u]] /\ \A u \in Target : f[u] \in Version[u]
    BY <1>3, <2>1 DEF TaskType
  <2>3. g = [u \in Target |-> IF u = t THEN v ELSE f[u]]
    BY <1>1, <2>1, <2>2
  <2>4. g = [u \in Target |-> g[u]] /\ \A u \in Target : g[u] \in Version[u]
    BY <2>2, <2>3
  <2> QED
    BY <2>1, <2>4
<1>6. TaskType'
  <2>1. Store(dir)' /\ Store(local)' /\ Store(remote)'
    BY <1>2, <1>3 DEF TaskType, Store
  <2> QED
    BY <1>2, <1>3, <1>5, <2>1 DEF TaskType, KeyOrNone
<1>7. Invalid' = Target
  BY <1>2, <1>3 DEF Invalid
<1>8. PhaseInv' /\ CompileInv' /\ CacheInv'
  BY <1>2, <1>3, <1>4, <1>7 DEF PhaseInv, CompileInv, CacheInv
<1>9. KeysInv'
  BY <1>2, <1>7 DEF KeysInv, Invalid
<1>10. BackgroundInv' /\ ValidIsBuilt'
  BY <1>2, <1>3 DEF BackgroundInv, ValidIsBuilt
<1>11. CachedIsRight'
  BY <1>2, <1>3, SameCaches
<1> QED
  BY <1>4, <1>6, <1>8, <1>9, <1>10, <1>11 DEF BuiltInv

LEMMA CleanupStep ==
    ASSUME BuiltInv, NEW t \in Target, NEW k \in Keys(t), Cleanup(t, k), UNCHANGED scheduleVars
    PROVE  BuiltInv'
<1>1. /\ phase = "done" /\ k # Key(t) /\ dir' = [dir EXCEPT ![t][k] = NoDir]
      /\ UNCHANGED <<src, workflow, sha, local, remote, vt, hits, background, phase, todo>>
  BY DEF Cleanup
<1>2. /\ TaskType /\ PhaseInv /\ KeysInv /\ ValidIsBuilt /\ CachedIsRight /\ BackgroundInv
      /\ Invalid = {} /\ ~Working /\ \A u : Key(u)' = Key(u) /\ Parts(u)' = Parts(u)
  BY <1>1, SameKeys DEF BuiltInv, PhaseInv
<1>3. /\ ScheduleType' /\ JobsInv' /\ Listed' = Listed /\ ~Working'
      /\ UNCHANGED <<dependencies, state, call>>
  BY <1>1, <1>2, Quiet
<1>4. /\ Store(dir)'
      /\ \A u \in Target : \A j \in Keys(u) : u # t \/ j # k => dir'[u][j] = dir[u][j]
  <2>1. PICK f, g : f = dir /\ g = dir'
    OBVIOUS
  <2>2. Store(f) /\ g = Replaced(f, t, k, NoDir) /\ NoDir \in Content
    BY <1>1, <1>2, <2>1, PartsFacts DEF Replaced, TaskType
  <2>3. Store(g) /\ \A u \in Target : \A j \in Keys(u) : u # t \/ j # k => g[u][j] = f[u][j]
    BY <2>2, SetAt
  <2> QED
    BY <2>1, <2>3 DEF Store
<1>5. \A u \in Target : sha[u] = Key(u) /\ Key(u) \in Keys(u) /\ dir'[u][Key(u)] = dir[u][Key(u)]
  BY <1>1, <1>2, <1>4, KeyFacts DEF KeysInv, Invalid
<1>6. TaskType'
  <2>1. Store(local)' /\ Store(remote)'
    BY <1>1, <1>2 DEF TaskType, Store
  <2> QED
    BY <1>1, <1>2, <1>4, <2>1 DEF TaskType, KeyOrNone
<1>7. Invalid' = Invalid
  BY <1>1 DEF Invalid
<1>8. PhaseInv' /\ CompileInv' /\ CacheInv' /\ KeysInv'
  BY <1>1, <1>2, <1>3, <1>7 DEF PhaseInv, CompileInv, CacheInv, KeysInv
<1>9. ValidIsBuilt'
  BY <1>1, <1>2, <1>5 DEF ValidIsBuilt
<1>10. BackgroundInv'
  BY <1>1, <1>2, <1>3, <1>5 DEF BackgroundInv
<1>11. CachedIsRight'
  BY <1>1, <1>2, SameCaches
<1> QED
  BY <1>3, <1>6, <1>8, <1>9, <1>10, <1>11 DEF BuiltInv

(* No job. *)
LEMMA NoJobs ==
    ASSUME dependencies = <<>>
    PROVE  Listed = {} /\ jobs = {} /\ dependencies = CompileJobs(Listed)
<1>1. jobs = {} /\ Listed = {}
  BY DEF jobs, Listed
<1>2. CompileJobs({}) = <<>>
  BY DEF CompileJobs
<1> QED
  BY <1>1, <1>2

LEMMA GoneStep ==
    ASSUME BuiltInv, Gone
    PROVE  BuiltInv'
<1>1. /\ dependencies' = <<>> /\ state' = [j \in Job |-> "waiting"] /\ call' = "none"
      /\ vt' = NoTargets /\ background' = {} /\ phase' = "idle" /\ todo' = {} /\ hits' = {}
      /\ UNCHANGED <<src, workflow, sha, dir, local, remote>>
  BY DEF Gone, persistent
<1>2. TaskType /\ ValidIsBuilt /\ CachedIsRight /\ \A u : Key(u)' = Key(u) /\ Parts(u)' = Parts(u)
  BY <1>1, SameKeys DEF BuiltInv
<1>3. Listed' = {} /\ jobs' = {} /\ (dependencies = CompileJobs(Listed))'
  <2>1. jobs' = {} /\ Listed' = {}
    BY <1>1 DEF jobs, Listed
  <2>2. CompileJobs({})' = <<>>
    BY DEF CompileJobs
  <2> QED
    BY <1>1, <2>1, <2>2
<1>4. ScheduleType' /\ JobsInv' /\ ~Working'
  BY <1>1, <1>3 DEF ScheduleType, JobsInv, Working, JobState
<1>5. /\ vt' \in [Target -> [valid : BOOLEAN, previous : AnyKey, incremental : BOOLEAN]]
      /\ \A t \in Target : ~vt'[t].valid
  <2>1. NoKey \in AnyKey
    BY Zenon DEF AnyKey
  <2> QED
    BY <1>1, <2>1 DEF NoTargets
<1>6. TaskType'
  <2>1. Store(dir)' /\ Store(local)' /\ Store(remote)'
    BY <1>1, <1>2 DEF TaskType, Store
  <2> QED
    BY <1>1, <1>2, <1>5, <2>1 DEF TaskType, KeyOrNone
<1>7. Invalid' = Target
  BY <1>5 DEF Invalid
<1>8. PhaseInv' /\ KeysInv' /\ CacheInv' /\ CompileInv' /\ BackgroundInv'
  BY <1>1, <1>3, <1>4, <1>5, <1>7 DEF PhaseInv, KeysInv, CacheInv, CompileInv, BackgroundInv
<1>9. ValidIsBuilt'
  BY <1>1, <1>2 DEF ValidIsBuilt
<1>10. CachedIsRight'
  BY <1>1, <1>2, SameCaches
<1> QED
  BY <1>4, <1>6, <1>8, <1>9, <1>10 DEF BuiltInv

LEMMA BuiltInit == Init => BuiltInv
<1> SUFFICES ASSUME Init PROVE BuiltInv
  OBVIOUS
<1>1. /\ src = [t \in Target |-> CHOOSE v \in Version[t] : TRUE] /\ workflow \in Workflows
      /\ sha = [t \in Target |-> NoKey]
      /\ dir = [t \in Target |-> [k \in Keys(t) |-> NoDir]]
      /\ local = [t \in Target |-> [k \in Keys(t) |-> NoArtifact]] /\ remote = local
      /\ vt = NoTargets
      /\ background = {} /\ hits = {} /\ phase = "idle" /\ todo = {}
      /\ dependencies = <<>> /\ state = [j \in Job |-> "waiting"] /\ call = "none"
  BY DEF Init, Idle, TaskInit
<1>2. Listed = {} /\ jobs = {} /\ dependencies = CompileJobs(Listed)
  BY <1>1, NoJobs
<1>3. ScheduleType /\ JobsInv /\ ~Working
  BY <1>1, <1>2 DEF ScheduleType, JobsInv, Working, JobState
<1>4. /\ vt \in [Target -> [valid : BOOLEAN, previous : AnyKey, incremental : BOOLEAN]]
      /\ \A t \in Target : ~vt[t].valid
  <2>1. NoKey \in AnyKey
    BY Zenon DEF AnyKey
  <2> QED
    BY <1>1, <2>1 DEF NoTargets
<1>5. TaskType
  <2>1. src = [t \in Target |-> src[t]] /\ \A t \in Target : src[t] \in Version[t]
    BY <1>1, TargetAssumption
  <2>2. sha \in [Target -> AnyKey] /\ \A t \in Target : sha[t] \in KeyOrNone(t)
    <3>1. NoKey \in AnyKey /\ \A t : NoKey \in KeyOrNone(t)
      BY Zenon DEF AnyKey, KeyOrNone
    <3> QED
      BY <1>1, <3>1
  <2>3. Store(dir) /\ Store(local) /\ Store(remote)
    BY <1>1, PartsFacts DEF Store
  <2>4. workflow \in [Target -> Workflow]
    BY <1>1, WorkflowsAssumption
  <2> QED
    BY <1>1, <1>4, <2>1, <2>2, <2>3, <2>4 DEF TaskType
<1>6. Invalid = Target
  BY <1>4 DEF Invalid
<1>7. PhaseInv /\ KeysInv /\ CacheInv /\ CompileInv /\ BackgroundInv
  BY <1>1, <1>2, <1>3, <1>4, <1>6 DEF PhaseInv, KeysInv, CacheInv, CompileInv, BackgroundInv
<1>8. ValidIsBuilt /\ CachedIsRight
  BY <1>1 DEF ValidIsBuilt, CachedIsRight
<1> QED
  BY <1>3, <1>5, <1>7, <1>8 DEF BuiltInv

-----------------------------------------------------------------------------
(* The jobs of the compilation. *)

KeysOf(t) == WorkOf(t) \cup {CheckKey(t), WriteKey(t)}

(* Every job belongs to one target the call is for. *)
LEMMA JobOwner ==
    ASSUME ScheduleType, NEW k \in jobs
    PROVE  k[2] \in Listed /\ k[2] \in Target /\ k \in KeysOf(k[2]) /\ k \in Job
<1>1. PICK t \in Listed : k \in KeysOf(t)
  BY JobFacts DEF KeysOf
<1>2. k[2] = t
  BY <1>1 DEF KeysOf, WorkOf, CheckKey, WriteKey, RscKey, ZincKey
<1> QED
  BY <1>1, <1>2, JobFacts

LEMMA KeyNames ==
    /\ \A t : /\ CheckKey(t)[2] = t /\ WriteKey(t)[2] = t /\ RscKey(t)[2] = t /\ ZincKey(t)[2] = t
              /\ CheckKey(t)[1] = "double_check_cache" /\ WriteKey(t)[1] = "write_to_cache"
              /\ RscKey(t)[1] = "rsc" /\ ZincKey(t)[1] = "zinc"
              /\ CheckKey(t) # WriteKey(t)
    /\ \A t : \A w \in WorkOf(t) : w[2] = t /\ w # CheckKey(t) /\ w # WriteKey(t) /\ w[1] \in {"rsc", "zinc"}
    /\ \A t : \A k \in KeysOf(t) : k[2] = t
  BY DEF KeysOf, WorkOf, CheckKey, WriteKey, RscKey, ZincKey

(* The keys of a target the call is for are jobs. *)
LEMMA KeysAreJobs ==
    ASSUME ScheduleType, NEW t \in Listed
    PROVE  KeysOf(t) \subseteq jobs /\ KeysOf(t) \subseteq Job /\ t \in Target
  BY JobFacts DEF KeysOf

(* A step that leaves a target alone, except that jobs of it are started   *)
(* or canceled.                                                            *)
Kept(u) ==
  /\ vt'[u] = vt[u] /\ dir'[u][Key(u)] = dir[u][Key(u)]
  /\ \A i \in KeysOf(u) : state'[i] = state[i] \/ (state[i] = "waiting" /\ state'[i] \in {"running", "canceled"})

LEMMA KeptListed ==
    ASSUME BuiltInv, Working, Listed' = Listed, UNCHANGED <<src, workflow>>, NEW u \in Target, Kept(u)
    PROVE  IF u \in Listed THEN ListedInv(u)' ELSE vt'[u].valid
<1>1. IF u \in Listed THEN ListedInv(u) ELSE vt[u].valid
  BY DEF BuiltInv, CompileInv
<1>2. WorkOf(u)' = WorkOf(u) /\ Key(u)' = Key(u)
  BY SameKeys
<1>3. Current(u)' = Current(u)
  BY <1>2 DEF Kept, Current
<1>4. MadeParts(u)' = MadeParts(u)
  <2>1. \A w \in WorkOf(u) : state'[w] = "ok" <=> state[w] = "ok"
    BY DEF Kept, KeysOf
  <2> QED
    BY <1>2, <2>1 DEF MadeParts
<1>5. CheckKey(u) \in KeysOf(u) /\ WriteKey(u) \in KeysOf(u) /\ WorkOf(u) \subseteq KeysOf(u)
  BY DEF KeysOf
<1>6. ASSUME ListedInv(u) PROVE ListedInv(u)'
  BY <1>2, <1>3, <1>4, <1>5, <1>6 DEF ListedInv, Kept
<1> QED
  BY <1>1, <1>6 DEF Kept

LEMMA KeptBackground ==
    ASSUME BuiltInv, Listed' = Listed, UNCHANGED <<src, workflow>>,
           NEW u \in Target, NEW k, <<u, k>> \in background, Kept(u)
    PROVE  /\ k = Key(u) /\ dir'[u][k] = Parts(u)
           /\ vt'[u].valid \/ (u \in Listed /\ state'[CheckKey(u)] = "failed")
           /\ u \in Listed => state'[CheckKey(u)] \in {"ok", "failed"}
<1>1. /\ k = Key(u) /\ dir[u][k] = Parts(u)
      /\ vt[u].valid \/ (u \in Listed /\ state[CheckKey(u)] = "failed")
      /\ u \in Listed => state[CheckKey(u)] \in {"ok", "failed"}
  BY BackgroundValid
<1>2. state[CheckKey(u)] \in {"ok", "failed"} => state'[CheckKey(u)] = state[CheckKey(u)]
  BY DEF Kept, KeysOf
<1> QED
  BY <1>1, <1>2 DEF Kept

LEMMA DoCompileStep ==
    ASSUME BuiltInv, DoCompile
    PROVE  BuiltInv'
<1>1. /\ phase = "prepare" /\ todo = {} /\ UNCHANGED <<src, workflow, sha, dir, local, remote, vt, background, todo, hits>>
      /\ \/ UNCHANGED scheduleVars /\ Invalid = {} /\ phase' = "done"
         \/ UNCHANGED scheduleVars /\ phase' = "failed"
         \/ Call(CompileJobs(Invalid)) /\ phase' = "compile"
  BY DEF DoCompile, persistent
<1>2. /\ TaskType /\ PhaseInv /\ KeysInv /\ CacheInv /\ ValidIsBuilt /\ CachedIsRight /\ BackgroundInv
      /\ Listed = {} /\ ~Working
      /\ \A u : Key(u)' = Key(u) /\ Parts(u)' = Parts(u) /\ WorkOf(u)' = WorkOf(u)
  BY <1>1, SameKeys DEF BuiltInv, PhaseInv, Working
<1>3. TaskType'
  <2>1. Store(dir)' /\ Store(local)' /\ Store(remote)'
    BY <1>1, <1>2 DEF TaskType, Store
  <2> QED
    BY <1>1, <1>2, <2>1 DEF TaskType, KeyOrNone
<1>4. Invalid' = Invalid /\ Invalid \subseteq Target /\ \A u : Current(u)' = Current(u)
  BY <1>1, <1>2 DEF Invalid, Current
<1>5. KeysInv' /\ ValidIsBuilt' /\ CacheInv'
  BY <1>1, <1>2 DEF KeysInv, ValidIsBuilt, CacheInv
<1>6. CachedIsRight'
  BY <1>1, <1>2, SameCaches
<1>7. CASE UNCHANGED scheduleVars
  <2>1. /\ ScheduleType' /\ JobsInv' /\ Listed' = {} /\ ~Working' /\ UNCHANGED <<dependencies, state, call>>
    BY <1>1, <1>2, <1>7, Quiet
  <2>2. phase' \in {"done", "failed"} /\ (phase' = "done" => Invalid = {})
    BY <1>1, <1>2, <2>1 DEF Call, Working
  <2>3. PhaseInv' /\ CompileInv'
    BY <1>4, <2>1, <2>2 DEF PhaseInv, CompileInv
  <2>4. BackgroundInv'
    BY <1>1, <1>2, <2>1 DEF BackgroundInv
  <2> QED
    BY <1>3, <1>5, <1>6, <2>1, <2>3, <2>4 DEF BuiltInv
<1>8. CASE Call(CompileJobs(Invalid)) /\ phase' = "compile"
  <2>1. PICK I \in SUBSET Target : I = Invalid
    BY <1>4
  <2>2. /\ call' = "active" /\ dependencies' = CompileJobs(I) /\ state' = [j \in Job |-> "waiting"]
    BY <1>8, <2>1 DEF Call
  <2>3. Listed' = I
    BY <2>2, JobsOf DEF Listed, jobs
  <2>4. CompileJobs(I)' = CompileJobs(I)
    BY <1>1 DEF CompileJobs, WorkOf, DepKeys, AsDep, WriteDeps
  <2>5. ScheduleType' /\ Working'
    BY <2>2, <2>3, <2>4 DEF ScheduleType, JobState, Working
  <2>6. \A t \in Target : \A k \in KeysOf(t) : k \in Job /\ state'[k] = "waiting"
    BY <2>2, JobAssumption DEF KeysOf, WorkOf
  <2>7. JobsInv'
    <3>1. ASSUME NEW j \in jobs' PROVE state'[j] = "waiting"
      <4>1. j \in DOMAIN CompileJobs(I)
        BY <2>2 DEF jobs
      <4>2. PICK t \in I : j \in KeysOf(t)
        BY <4>1, JobsOf DEF KeysOf
      <4> QED
        BY <2>6, <4>2
    <3> QED
      BY <3>1 DEF JobsInv
  <2>8. CompileInv'
    <3>1. ASSUME NEW t \in I PROVE ListedInv(t)'
      <4>1. Current(t)' \in {{}, NoDir} /\ ~vt'[t].valid
        BY <1>1, <1>2, <1>4, <2>1 DEF CacheInv, Invalid
      <4>2. \A w \in WorkOf(t) : state'[w] = "waiting"
        BY <2>6 DEF KeysOf
      <4>3. MadeParts(t)' = {}
        BY <1>2, <4>2 DEF MadeParts
      <4>4. state'[CheckKey(t)] = "waiting" /\ state'[WriteKey(t)] = "waiting"
        BY <2>6 DEF KeysOf
      <4> QED
        BY <4>1, <4>3, <4>4 DEF ListedInv
    <3>2. ASSUME NEW t \in Target \ I PROVE vt'[t].valid
      BY <1>1, <2>1 DEF Invalid
    <3> QED
      BY <2>3, <3>1, <3>2 DEF CompileInv
  <2>9. PhaseInv'
    BY <1>8, <2>5 DEF PhaseInv
  <2>10. BackgroundInv'
    <3>1. ASSUME NEW t \in Target, NEW k \in AnyKey, <<t, k>> \in background
          PROVE  k = Key(t) /\ dir[t][k] = Parts(t) /\ vt[t].valid /\ t \notin I
      BY <1>2, <2>1, BackgroundValid, <3>1 DEF Invalid
    <3> QED
      BY <1>1, <1>2, <2>3, <3>1 DEF BackgroundInv
  <2> QED
    BY <1>3, <1>5, <1>6, <2>5, <2>7, <2>8, <2>9, <2>10 DEF BuiltInv
<1> QED
  BY <1>1, <1>7, <1>8

(* Steps of a job that leave the task's files alone. *)
LEMMA TaskUnchanged ==
    ASSUME BuiltInv, Working, Working', UNCHANGED taskVars,
           ScheduleType', JobsInv', Listed' = Listed, \A u \in Target : Kept(u)
    PROVE  BuiltInv'
<1>1. UNCHANGED <<src, workflow, sha, dir, local, remote, vt, background, phase, todo, hits>>
  BY DEF taskVars, persistent
<1>2. /\ TaskType /\ PhaseInv /\ KeysInv /\ ValidIsBuilt /\ CachedIsRight
      /\ phase \in {"compile", "failed"}
      /\ \A u : Key(u)' = Key(u) /\ Parts(u)' = Parts(u)
  BY <1>1, SameKeys DEF BuiltInv, PhaseInv
<1>3. TaskType'
  <2>1. Store(dir)' /\ Store(local)' /\ Store(remote)'
    BY <1>1, <1>2 DEF TaskType, Store
  <2> QED
    BY <1>1, <1>2, <2>1 DEF TaskType, KeyOrNone
<1>4. PhaseInv' /\ KeysInv' /\ ValidIsBuilt' /\ CacheInv'
  BY <1>1, <1>2 DEF PhaseInv, KeysInv, ValidIsBuilt, CacheInv
<1>5. CachedIsRight'
  BY <1>1, <1>2, SameCaches
<1>6. CompileInv'
  BY <1>1, KeptListed DEF CompileInv
<1>7. BackgroundInv'
  <2> SUFFICES ASSUME NEW u \in Target, NEW k \in AnyKey, <<u, k>> \in background
               PROVE  /\ k = Key(u) /\ dir'[u][k] = Parts(u)
                      /\ vt'[u].valid \/ (u \in Listed /\ state'[CheckKey(u)] = "failed")
                      /\ u \in Listed => state'[CheckKey(u)] \in {"ok", "failed"}
    BY <1>1, <1>2 DEF BackgroundInv
  <2> QED
    BY <1>1, KeptBackground
<1> QED
  BY <1>3, <1>4, <1>5, <1>6, <1>7 DEF BuiltInv

(* A job is started or canceled. *)
LEMMA WaitingMoves ==
    ASSUME BuiltInv, NEW j \in jobs, state[j] = "waiting", NEW s \in {"running", "canceled"},
           state' = [state EXCEPT ![j] = s], UNCHANGED <<workflow, dependencies>>,
           call' \in {"active", "raised"},
           s # "canceled" => \A d \in dependencies[j] : state[d] = "ok",
           s = "canceled" => \E d \in dependencies[j] : state[d] \in Bad
    PROVE  /\ ScheduleType' /\ JobsInv' /\ Listed' = Listed /\ Working'
           /\ state'[j] = s /\ \A i \in Job \ {j} : state'[i] = state[i]
           /\ \A u \in Target : \A i \in KeysOf(u) :
                 state'[i] = state[i] \/ (state[i] = "waiting" /\ state'[i] \in {"running", "canceled"})
<1>1. ScheduleType /\ JobsInv
  BY DEF BuiltInv
<1>2. s \in JobState /\ s # "waiting" /\ call' \in {"none", "active", "returned", "raised"}
  BY DEF JobState
<1>3. /\ ScheduleType' /\ JobsInv' /\ Listed' = Listed
      /\ state'[j] = s /\ \A i \in Job \ {j} : state'[i] = state[i]
  BY <1>1, <1>2, MoveJob
<1>4. \A u \in Target : KeysOf(u) \subseteq Job
  BY JobAssumption DEF KeysOf, WorkOf
<1> QED
  BY <1>3, <1>4 DEF Working

LEMMA StartStep ==
    ASSUME BuiltInv, NEW k \in jobs, Start(k), UNCHANGED taskVars
    PROVE  BuiltInv'
<1>1. /\ Working /\ state[k] = "waiting" /\ \A d \in dependencies[k] : state[d] = "ok"
      /\ state' = [state EXCEPT ![k] = "running"] /\ UNCHANGED <<dependencies, call>>
  BY DEF Start
<1>2. UNCHANGED <<workflow, src, dir, vt>>
  BY DEF taskVars, persistent
<1>3. /\ ScheduleType' /\ JobsInv' /\ Listed' = Listed /\ Working'
      /\ \A u \in Target : \A i \in KeysOf(u) :
            state'[i] = state[i] \/ (state[i] = "waiting" /\ state'[i] \in {"running", "canceled"})
  <2>1. call' \in {"active", "raised"}
    BY <1>1 DEF Working
  <2> QED
    BY <1>1, <1>2, <2>1, WaitingMoves
<1>4. \A u \in Target : Kept(u)
  BY <1>2, <1>3 DEF Kept
<1> QED
  BY <1>1, <1>3, <1>4, TaskUnchanged

LEMMA CallbackRaisesStep ==
    ASSUME BuiltInv, NEW t, WriteKey(t) \in jobs, CallbackRaises(t)
    PROVE  BuiltInv'
<1>1. /\ call = "active" /\ call' = "raised" /\ state[WriteKey(t)] = "waiting"
      /\ \E d \in dependencies[WriteKey(t)] : state[d] \in Bad
      /\ state' = [state EXCEPT ![WriteKey(t)] = "canceled"] /\ UNCHANGED <<dependencies, taskVars>>
  BY DEF CallbackRaises, EndAndRaise, Bad
<1>2. UNCHANGED <<workflow, src, dir, vt>>
  BY <1>1 DEF taskVars, persistent
<1>3. /\ ScheduleType' /\ JobsInv' /\ Listed' = Listed /\ Working'
      /\ \A u \in Target : \A i \in KeysOf(u) :
            state'[i] = state[i] \/ (state[i] = "waiting" /\ state'[i] \in {"running", "canceled"})
  BY <1>1, <1>2, WaitingMoves
<1>4. \A u \in Target : Kept(u)
  BY <1>2, <1>3 DEF Kept
<1> QED
  BY <1>1, <1>3, <1>4, TaskUnchanged DEF Working

(* A running job ends: those of other targets are as they were. *)
LEMMA RunningEnds ==
    ASSUME BuiltInv, NEW j \in jobs, NEW s \in {"ok", "failed"}, End(j, s), UNCHANGED workflow
    PROVE  /\ ScheduleType' /\ JobsInv' /\ Listed' = Listed /\ Working /\ Working'
           /\ phase \in {"compile", "failed"} /\ state[j] = "running"
           /\ state'[j] = s /\ \A i \in Job \ {j} : state'[i] = state[i]
           /\ \A d \in dependencies[j] : state[d] = "ok"
           /\ \A u \in Target \ {j[2]} : \A i \in KeysOf(u) : state'[i] = state[i]
<1>1. ScheduleType /\ JobsInv /\ PhaseInv
  BY DEF BuiltInv
<1>2. Working /\ state[j] = "running" /\ state' = [state EXCEPT ![j] = s] /\ UNCHANGED <<dependencies, call>>
  BY DEF End
<1>3. s \in JobState /\ s # "waiting" /\ s # "canceled" /\ call' \in {"none", "active", "returned", "raised"} /\ Working'
  BY <1>2 DEF JobState, Working
<1>4. \A d \in dependencies[j] : state[d] = "ok"
  BY <1>1, <1>2 DEF JobsInv
<1>5. /\ ScheduleType' /\ JobsInv' /\ Listed' = Listed
      /\ state'[j] = s /\ \A i \in Job \ {j} : state'[i] = state[i]
  BY <1>1, <1>2, <1>3, <1>4, MoveJob
<1>6. \A u \in Target : \A i \in KeysOf(u) : i \in Job /\ i[2] = u
  BY JobAssumption, KeyNames DEF KeysOf, WorkOf
<1>7. phase \in {"compile", "failed"}
  BY <1>1, <1>2 DEF PhaseInv
<1> QED
  BY <1>2, <1>3, <1>4, <1>5, <1>6, <1>7

(* What remains to be shown of a step that ends a job of t. *)
LEMMA JobStepEnds ==
    ASSUME BuiltInv, NEW t \in Listed, Working, phase \in {"compile", "failed"},
           ScheduleType', JobsInv', Listed' = Listed, Working',
           UNCHANGED <<src, workflow, phase, todo, hits>>,
           sha' \in [Target -> AnyKey], \A u \in Target : sha'[u] \in KeyOrNone(u),
           vt' \in [Target -> [valid : BOOLEAN, previous : AnyKey, incremental : BOOLEAN]],
           background' \subseteq Target \X AnyKey,
           Store(dir)', Store(local)', Store(remote)', CachedIsRight',
           background' \subseteq background \cup {<<t, Key(t)>>},
           \A u \in Target \ {t} : Kept(u),
           KeysInv', ValidIsBuilt', ListedInv(t)',
           \A k \in AnyKey : <<t, k>> \in background' =>
              /\ k = Key(t) /\ dir'[t][k] = Parts(t)
              /\ vt'[t].valid \/ state'[CheckKey(t)] = "failed"
              /\ state'[CheckKey(t)] \in {"ok", "failed"}
    PROVE  BuiltInv'
<1>1. /\ TaskType /\ PhaseInv /\ \A u : Key(u)' = Key(u) /\ Parts(u)' = Parts(u)
  BY SameKeys DEF BuiltInv
<1>2. TaskType'
  BY <1>1 DEF TaskType, KeyOrNone
<1>3. PhaseInv' /\ CacheInv'
  BY <1>1 DEF PhaseInv, CacheInv
<1>4. CompileInv'
  <2>1. ASSUME NEW u \in Target, u # t PROVE IF u \in Listed THEN ListedInv(u)' ELSE vt'[u].valid
    BY <2>1, KeptListed
  <2> QED
    BY <2>1 DEF CompileInv
<1>5. BackgroundInv'
  <2> SUFFICES ASSUME NEW u \in Target, NEW k \in AnyKey, <<u, k>> \in background'
               PROVE  /\ k = Key(u) /\ dir'[u][k] = Parts(u)
                      /\ vt'[u].valid \/ (u \in Listed /\ state'[CheckKey(u)] = "failed")
                      /\ u \in Listed => state'[CheckKey(u)] \in {"ok", "failed"}
    BY <1>1 DEF BackgroundInv
  <2>1. CASE u = t
    BY <2>1
  <2>2. CASE u # t
    <3>1. <<u, k>> \in background
      BY <2>2
    <3> QED
      BY <2>2, <3>1, KeptBackground
  <2> QED
    BY <2>1, <2>2
<1> QED
  BY <1>2, <1>3, <1>4, <1>5 DEF BuiltInv

(* A target whose cache check has not ended has no results. *)
LEMMA NotMade ==
    ASSUME ScheduleType, JobsInv, NEW t \in Listed, state[CheckKey(t)] # "ok"
    PROVE  MadeParts(t) = {} /\ \A w \in WorkOf(t) : state[w] \in {"waiting", "canceled"}
<1>1. ASSUME NEW w \in WorkOf(t) PROVE state[w] \in {"waiting", "canceled"}
  <2>1. w \in jobs /\ w \in Job /\ CheckKey(t) \in dependencies[w]
    BY JobFacts
  <2>2. state[w] \in JobState
    BY <2>1 DEF ScheduleType
  <2> QED
    BY <2>1, <2>2 DEF JobsInv, JobState
<1> QED
  BY <1>1 DEF MadeParts

LEMMA DoubleCheckStep ==
    ASSUME BuiltInv, NEW t, CheckKey(t) \in jobs, DoubleCheck(t)
    PROVE  BuiltInv'
<1>1. PICK r \in Lookup(t) :
        /\ Looked(t, r)
        /\ \/ r.hit /\ Update(t) /\ \E result \in {"ok", "failed"} : End(CheckKey(t), result)
           \/ ~r.hit /\ End(CheckKey(t), "ok") /\ UNCHANGED <<sha, vt, background>>
  BY DEF DoubleCheck
<1>2. UNCHANGED <<src, workflow, remote, phase, todo, hits>>
  BY DEF DoubleCheck
<1>3. /\ TaskType /\ ScheduleType /\ JobsInv /\ KeysInv /\ CompileInv /\ t \in Listed /\ t \in Target
      /\ \A u : Key(u)' = Key(u) /\ Parts(u)' = Parts(u) /\ WorkOf(u)' = WorkOf(u)
  BY <1>2, SameKeys, JobOwner, KeyNames DEF BuiltInv
<1>4. PICK s \in {"ok", "failed"} : End(CheckKey(t), s) /\ (~r.hit => s = "ok")
  BY <1>1
<1>5. /\ ScheduleType' /\ JobsInv' /\ Listed' = Listed /\ Working /\ Working'
      /\ phase \in {"compile", "failed"} /\ state[CheckKey(t)] = "running"
      /\ state'[CheckKey(t)] = s /\ \A i \in Job \ {CheckKey(t)} : state'[i] = state[i]
      /\ \A u \in Target \ {t} : \A i \in KeysOf(u) : state'[i] = state[i]
  BY <1>2, <1>4, RunningEnds, KeyNames
<1>6. ListedInv(t) /\ ~vt[t].valid
  BY <1>3, <1>5 DEF CompileInv, ListedInv
<1>7. MadeParts(t) = {} /\ \A w \in WorkOf(t) : state[w] \in {"waiting", "canceled"}
  BY <1>3, <1>5, NotMade
<1>8. /\ Store(dir)' /\ Store(local)' /\ Store(remote)' /\ CachedIsRight' /\ Current(t)' = r.dir
      /\ r.hit \in BOOLEAN /\ (r.hit => r.dir = Parts(t)) /\ (~r.hit => r.dir \in {{}, NoDir, Current(t)})
      /\ \A u \in Target \ {t} : \A k \in Keys(u) : dir'[u][k] = dir[u][k]
      /\ \A u \in Target \ {t} : Current(u)' = Current(u)
      /\ \A u \in Target : sha[u] # NoKey => dir'[u][sha[u]] = Parts(u)
  BY <1>1, <1>2, <1>3, <1>5, <1>6, LookedFacts
<1>9. \A w \in WorkOf(t) : state'[w] = state[w]
  <2>1. \A w \in WorkOf(t) : w \in Job \ {CheckKey(t)}
    BY <1>3, KeysAreJobs, KeyNames DEF KeysOf
  <2> QED
    BY <1>5, <2>1
<1>10. state'[WriteKey(t)] # "ok"
  <2>1. WriteKey(t) \in Job \ {CheckKey(t)} /\ WriteKey(t) \in jobs /\ dependencies[WriteKey(t)] = WorkOf(t)
    BY <1>3, JobFacts, KeyNames
  <2>2. ZincKey(t) \in WorkOf(t)
    BY DEF WorkOf
  <2>3. state[WriteKey(t)] # "ok"
    BY <1>3, <1>7, <2>1, <2>2 DEF JobsInv
  <2> QED
    BY <1>5, <2>1, <2>3
<1>11. \A k : <<t, k>> \notin background
  BY <1>3, <1>5, <1>6, BackgroundValid
<1>12. \A u \in Target \ {t} : Key(u) \in Keys(u)
  BY <1>3, KeyFacts
<1>13. CASE r.hit
  <2>1. Update(t)
    BY <1>1, <1>13
  <2>2. dir'[t][Key(t)] = Parts(t)
    BY <1>3, <1>8, <1>13 DEF Current
  <2>3. /\ sha' \in [Target -> AnyKey] /\ \A u \in Target : sha'[u] \in KeyOrNone(u)
        /\ vt' \in [Target -> [valid : BOOLEAN, previous : AnyKey, incremental : BOOLEAN]]
        /\ background' \subseteq Target \X AnyKey
        /\ background \subseteq background' /\ background' \subseteq background \cup {<<t, Key(t)>>}
        /\ vt'[t].valid /\ \A u \in Target \ {t} : vt'[u] = vt[u]
        /\ KeysInv' /\ ValidIsBuilt'
    BY <1>2, <1>3, <1>5, <1>8, <2>1, <2>2, UpdateFacts
  <2>4. \A u \in Target \ {t} : Kept(u)
    BY <1>5, <1>8, <1>12, <2>3 DEF Kept
  <2>5. ListedInv(t)'
    BY <1>3, <1>5, <1>7, <1>9, <2>3 DEF ListedInv
  <2>6. \A k \in AnyKey : <<t, k>> \in background' =>
              /\ k = Key(t) /\ dir'[t][k] = Parts(t)
              /\ vt'[t].valid \/ state'[CheckKey(t)] = "failed"
              /\ state'[CheckKey(t)] \in {"ok", "failed"}
    BY <1>5, <1>11, <2>2, <2>3
  <2> QED
    BY <1>2, <1>3, <1>5, <1>8, <2>3, <2>4, <2>5, <2>6, JobStepEnds
<1>14. CASE ~r.hit
  <2>1. s = "ok" /\ UNCHANGED <<sha, vt, background>>
    BY <1>1, <1>4, <1>14
  <2>2. \A u \in Target \ {t} : Kept(u)
    BY <1>5, <1>8, <1>12, <2>1 DEF Kept
  <2>3. MadeParts(t)' = {}
    BY <1>3, <1>7, <1>9 DEF MadeParts
  <2>4. Current(t)' \in {{}, NoDir}
    BY <1>5, <1>6, <1>7, <1>8, <1>14 DEF ListedInv
  <2>5. ListedInv(t)'
    BY <1>6, <1>10, <2>1, <2>3, <2>4 DEF ListedInv
  <2>6. KeysInv' /\ ValidIsBuilt'
    BY <1>2, <1>3, <1>8, <2>1 DEF KeysInv, ValidIsBuilt
  <2>7. /\ sha' \in [Target -> AnyKey] /\ \A u \in Target : sha'[u] \in KeyOrNone(u)
        /\ vt' \in [Target -> [valid : BOOLEAN, previous : AnyKey, incremental : BOOLEAN]]
        /\ background' \subseteq Target \X AnyKey
        /\ background' \subseteq background \cup {<<t, Key(t)>>}
    BY <1>3, <2>1 DEF TaskType
  <2>8. \A k \in AnyKey : <<t, k>> \notin background'
    BY <1>11, <2>1
  <2> QED
    BY <1>2, <1>3, <1>5, <1>8, <2>2, <2>5, <2>6, <2>7, <2>8, JobStepEnds
<1> QED
  BY <1>8, <1>13, <1>14

(* What a compiler reads of a dependency is there. *)
LEMMA DependencyMade ==
    ASSUME BuiltInv, Working, NEW t \in Listed, NEW u \in Closure[t] \ {t},
           \A d \in DepKeys(t, Listed) : state[d] = "ok"
    PROVE  PartRead(t, u) \in Current(u) /\ "bad" \notin Current(u)
<1>1. /\ TaskType /\ ScheduleType /\ JobsInv /\ KeysInv /\ CompileInv /\ ValidIsBuilt /\ t \in Target
      /\ u \in Target
  BY TargetAssumption DEF BuiltInv, Listed
<1>2. PartRead(t, u) \in Parts(u) /\ "bad" \notin Parts(u)
  BY PartsFacts DEF PartRead
<1>3. CASE vt[u].valid
  <2>1. sha[u] = Key(u) /\ Key(u) # NoKey
    BY <1>1, <1>3, KeyFacts DEF KeysInv
  <2>2. Current(u) = Parts(u)
    BY <1>1, <2>1 DEF ValidIsBuilt, Current
  <2> QED
    BY <1>2, <2>2
<1>4. CASE ~vt[u].valid
  <2>1. u \in Listed /\ ListedInv(u)
    BY <1>1, <1>4 DEF CompileInv
  <2> DEFINE d == IF workflow[t] = "zinc_java" THEN ZincKey(u) ELSE AsDep(u)
  <2>2. d \in DepKeys(t, Listed)
    BY <2>1 DEF DepKeys
  <2>3. state[d] = "ok"
    BY <2>2
  <2>4. d \in WorkOf(u) /\ d[1] = PartRead(t, u)
    BY KeyNames DEF AsDep, WorkOf, PartRead
  <2> HIDE DEF d
  <2>5. PartRead(t, u) \in MadeParts(u)
    BY <2>3, <2>4 DEF MadeParts
  <2>6. state[CheckKey(u)] = "ok"
    BY <1>1, <2>1, <2>5, NotMade
  <2>7. Current(u) = MadeParts(u)
    BY <1>4, <2>1, <2>5, <2>6 DEF ListedInv
  <2>8. \A p \in MadeParts(u) : p \in {"rsc", "zinc"}
    BY KeyNames DEF MadeParts
  <2> QED
    BY <2>5, <2>7, <2>8
<1> QED
  BY <1>3, <1>4

LEMMA DoWorkStep ==
    ASSUME BuiltInv, NEW k \in jobs, k \in {RscKey(k[2]), ZincKey(k[2])}, DoWork(k)
    PROVE  BuiltInv'
<1>1. PICK t : t = k[2]
  OBVIOUS
<1>2. /\ \/ vt[t].valid /\ End(k, "ok") /\ UNCHANGED dir
         \/ ~vt[t].valid /\ Current(t) # NoDir /\ End(k, "ok") /\ SetDir(t, Made(t, k[1]))
         \/ ~vt[t].valid /\ End(k, "failed") /\ UNCHANGED dir
      /\ UNCHANGED <<src, workflow, sha, local, remote, vt, background, phase, todo, hits>>
  BY <1>1 DEF DoWork
<1>3. /\ TaskType /\ ScheduleType /\ JobsInv /\ KeysInv /\ CompileInv /\ ValidIsBuilt /\ CachedIsRight
      /\ t \in Listed /\ t \in Target /\ k \in KeysOf(t) /\ k \in Job
      /\ \A u : Key(u)' = Key(u) /\ Parts(u)' = Parts(u) /\ WorkOf(u)' = WorkOf(u)
  BY <1>1, <1>2, SameKeys, JobOwner DEF BuiltInv
<1>4. k \in WorkOf(t)
  BY <1>1, <1>3, KeyNames DEF KeysOf
<1>5. PICK s \in {"ok", "failed"} : End(k, s) /\ (vt[t].valid => s = "ok")
  BY <1>2
<1>6. /\ ScheduleType' /\ JobsInv' /\ Listed' = Listed /\ Working /\ Working'
      /\ phase \in {"compile", "failed"} /\ state[k] = "running"
      /\ state'[k] = s /\ \A i \in Job \ {k} : state'[i] = state[i]
      /\ \A d \in dependencies[k] : state[d] = "ok"
      /\ \A u \in Target \ {t} : \A i \in KeysOf(u) : state'[i] = state[i]
  BY <1>1, <1>2, <1>5, RunningEnds
<1>7. dependencies[k] = {CheckKey(t)} \cup DepKeys(t, Listed)
  BY <1>3, <1>4, JobFacts
<1>8. /\ state[CheckKey(t)] = "ok" /\ state'[CheckKey(t)] = "ok" /\ state'[WriteKey(t)] = state[WriteKey(t)]
      /\ \A w \in WorkOf(t) \ {k} : state'[w] = state[w]
  <2>1. KeysOf(t) \subseteq Job /\ k # CheckKey(t) /\ k # WriteKey(t)
    BY <1>3, <1>4, KeysAreJobs, KeyNames
  <2> QED
    BY <1>6, <1>7, <2>1 DEF KeysOf
<1>9. ListedInv(t)
  BY <1>3, <1>6 DEF CompileInv
<1>10. ~vt[t].valid => \A j : <<t, j>> \notin background
  BY <1>3, <1>8, BackgroundValid
<1>11. /\ sha' \in [Target -> AnyKey] /\ \A u \in Target : sha'[u] \in KeyOrNone(u)
       /\ vt' \in [Target -> [valid : BOOLEAN, previous : AnyKey, incremental : BOOLEAN]]
       /\ background' \subseteq Target \X AnyKey
       /\ background' \subseteq background \cup {<<t, Key(t)>>}
       /\ Store(local)' /\ Store(remote)'
  BY <1>2, <1>3 DEF TaskType, Store
<1>12. CachedIsRight' /\ KeysInv'
  BY <1>2, <1>3, SameCaches DEF KeysInv
<1>13. MadeParts(t)' = IF s = "ok" THEN MadeParts(t) \cup {k[1]} ELSE MadeParts(t)
  <2>1. MadeParts(t)' = {w[1] : w \in {x \in WorkOf(t) : state'[x] = "ok"}}
    BY <1>3 DEF MadeParts
  <2>2. CASE s = "ok"
    <3>1. {x \in WorkOf(t) : state'[x] = "ok"} = {x \in WorkOf(t) : state[x] = "ok"} \cup {k}
      BY <1>4, <1>6, <1>8, <2>2
    <3> QED
      BY <2>1, <2>2, <3>1 DEF MadeParts
  <2>3. CASE s = "failed"
    <3>1. {x \in WorkOf(t) : state'[x] = "ok"} = {x \in WorkOf(t) : state[x] = "ok"}
      BY <1>4, <1>6, <1>8, <2>3
    <3> QED
      BY <2>1, <2>3, <3>1 DEF MadeParts
  <2> QED
    BY <2>2, <2>3
<1>14. CASE UNCHANGED dir /\ (vt[t].valid \/ s = "failed")
  <2>1. Store(dir)' /\ ValidIsBuilt'
    BY <1>2, <1>3, <1>14 DEF TaskType, Store, ValidIsBuilt
  <2>2. \A u \in Target \ {t} : Kept(u)
    BY <1>2, <1>6, <1>14 DEF Kept
  <2>3. ListedInv(t)'
    <3>1. Current(t)' = Current(t)
      BY <1>3, <1>14 DEF Current
    <3>2. CASE vt[t].valid
      BY <1>2, <1>3, <1>5, <1>6, <1>8, <1>9, <3>2 DEF ListedInv
    <3>3. CASE ~vt[t].valid
      BY <1>2, <1>3, <1>8, <1>9, <1>13, <1>14, <3>1, <3>3 DEF ListedInv
    <3> QED
      BY <3>2, <3>3
  <2>4. \A j \in AnyKey : <<t, j>> \in background' =>
              /\ j = Key(t) /\ dir'[t][j] = Parts(t)
              /\ vt'[t].valid \/ state'[CheckKey(t)] = "failed"
              /\ state'[CheckKey(t)] \in {"ok", "failed"}
    <3>1. ASSUME NEW j \in AnyKey, <<t, j>> \in background
          PROVE  j = Key(t) /\ dir[t][j] = Parts(t) /\ vt[t].valid
      BY <1>3, <1>10, <3>1, BackgroundValid
    <3> QED
      BY <1>2, <1>8, <1>14, <3>1
  <2> QED
    BY <1>2, <1>3, <1>6, <1>11, <1>12, <2>1, <2>2, <2>3, <2>4, JobStepEnds
<1>15. CASE ~vt[t].valid /\ Current(t) # NoDir /\ s = "ok" /\ SetDir(t, Made(t, k[1]))
  <2>1. Made(t, k[1]) = Current(t) \cup {k[1]}
    BY <1>3, <1>6, <1>7, DependencyMade DEF Made
  <2>2. Current(t) = MadeParts(t)
    BY <1>8, <1>9, <1>15 DEF ListedInv
  <2>3. \A p \in MadeParts(t) \cup {k[1]} : p \in {"rsc", "zinc"}
    BY <1>4, KeyNames DEF MadeParts
  <2>4. PICK c \in Content : c = MadeParts(t) \cup {k[1]}
    BY <2>3 DEF Content
  <2>5. SetDir(t, c)
    BY <1>15, <2>1, <2>2, <2>4
  <2>6. /\ Store(dir)' /\ Current(t)' = c
        /\ \A u \in Target \ {t} : \A j \in Keys(u) : dir'[u][j] = dir[u][j]
        /\ \A u \in Target : sha[u] # NoKey => dir'[u][sha[u]] = Parts(u)
    BY <1>2, <1>3, <1>6, <1>15, <2>5, DirChange
  <2>7. ValidIsBuilt'
    BY <1>2, <1>3, <2>6 DEF ValidIsBuilt
  <2>8. \A u \in Target \ {t} : Kept(u)
    <3>1. \A u \in Target : Key(u) \in Keys(u)
      BY <1>3, KeyFacts
    <3> QED
      BY <1>2, <1>6, <2>6, <3>1 DEF Kept
  <2>9. Current(t)' = MadeParts(t)'
    BY <1>13, <1>15, <2>4, <2>6
  <2>10. ListedInv(t)'
    BY <1>2, <1>8, <1>9, <1>15, <2>9 DEF ListedInv
  <2>11. \A j \in AnyKey : <<t, j>> \notin background'
    BY <1>2, <1>10, <1>15
  <2> QED
    BY <1>2, <1>3, <1>6, <1>11, <1>12, <2>6, <2>7, <2>8, <2>10, <2>11, JobStepEnds
<1>16. \/ UNCHANGED dir /\ (vt[t].valid \/ s = "failed")
       \/ ~vt[t].valid /\ Current(t) # NoDir /\ s = "ok" /\ SetDir(t, Made(t, k[1]))
  <2>1. ASSUME NEW r \in {"ok", "failed"}, End(k, r) PROVE r = s
    <3>1. state' = [state EXCEPT ![k] = r] /\ state \in [Job -> JobState]
      BY <1>3, <2>1 DEF End, ScheduleType
    <3> QED
      BY <1>3, <1>6, <3>1
  <2> QED
    BY <1>2, <2>1
<1> QED
  BY <1>14, <1>15, <1>16

LEMMA WriteStep ==
    ASSUME BuiltInv, NEW t, WriteKey(t) \in jobs, Write(t)
    PROVE  BuiltInv'
<1>1. /\ End(WriteKey(t), "ok") /\ Update(t)
      /\ UNCHANGED <<src, workflow, dir, local, remote, phase, todo, hits>>
  BY DEF Write
<1>2. /\ TaskType /\ ScheduleType /\ JobsInv /\ KeysInv /\ CompileInv /\ ValidIsBuilt /\ CachedIsRight
      /\ t \in Listed /\ t \in Target
      /\ \A u : Key(u)' = Key(u) /\ Parts(u)' = Parts(u) /\ WorkOf(u)' = WorkOf(u)
  BY <1>1, SameKeys, JobOwner, KeyNames DEF BuiltInv
<1>3. /\ ScheduleType' /\ JobsInv' /\ Listed' = Listed /\ Working /\ Working'
      /\ phase \in {"compile", "failed"} /\ state[WriteKey(t)] = "running"
      /\ state'[WriteKey(t)] = "ok" /\ \A i \in Job \ {WriteKey(t)} : state'[i] = state[i]
      /\ \A d \in dependencies[WriteKey(t)] : state[d] = "ok"
      /\ \A u \in Target \ {t} : \A i \in KeysOf(u) : state'[i] = state[i]
  BY <1>1, RunningEnds, KeyNames
<1>4. \A w \in WorkOf(t) : state[w] = "ok" /\ state'[w] = "ok"
  <2>1. \A w \in WorkOf(t) : w \in Job \ {WriteKey(t)}
    BY <1>2, KeysAreJobs, KeyNames DEF KeysOf
  <2>2. \A w \in WorkOf(t) : state[w] = "ok"
    BY <1>2, <1>3, JobFacts
  <2> QED
    BY <1>3, <2>1, <2>2
<1>5. state[CheckKey(t)] = "ok" /\ state'[CheckKey(t)] = "ok"
  <2>1. CheckKey(t) \in Job \ {WriteKey(t)} /\ ZincKey(t) \in WorkOf(t)
    BY <1>2, KeysAreJobs, KeyNames DEF KeysOf, WorkOf
  <2>2. state[CheckKey(t)] = "ok"
    BY <1>2, <1>4, <2>1, NotMade
  <2> QED
    BY <1>3, <2>1, <2>2
<1>6. ListedInv(t)
  BY <1>2, <1>3 DEF CompileInv
<1>7. vt[t].valid \/ Current(t) = Parts(t)
  <2>1. MadeParts(t) = {w[1] : w \in WorkOf(t)}
    BY <1>4 DEF MadeParts
  <2>2. MadeParts(t) = Parts(t)
    <3>1. CASE workflow[t] = "rsc_and_zinc"
      <4>1. WorkOf(t) = {RscKey(t), ZincKey(t)} /\ Parts(t) = {"rsc", "zinc"}
        BY <3>1 DEF WorkOf, Parts
      <4> QED
        BY <2>1, <4>1, KeyNames
    <3>2. CASE workflow[t] # "rsc_and_zinc"
      <4>1. WorkOf(t) = {ZincKey(t)} /\ Parts(t) = {"zinc"}
        BY <3>2 DEF WorkOf, Parts
      <4> QED
        BY <2>1, <4>1, KeyNames
    <3> QED
      BY <3>1, <3>2
  <2> QED
    BY <1>5, <1>6, <2>2, PartsFacts DEF ListedInv
<1>8. vt[t].valid \/ dir'[t][Key(t)] = Parts(t)
  BY <1>1, <1>7 DEF Current
<1>9. \A u \in Target : sha[u] # NoKey => dir'[u][sha[u]] = Parts(u)
  BY <1>1, <1>2 DEF ValidIsBuilt
<1>10. /\ sha' \in [Target -> AnyKey] /\ \A u \in Target : sha'[u] \in KeyOrNone(u)
       /\ vt' \in [Target -> [valid : BOOLEAN, previous : AnyKey, incremental : BOOLEAN]]
       /\ background' \subseteq Target \X AnyKey
       /\ background \subseteq background' /\ background' \subseteq background \cup {<<t, Key(t)>>}
       /\ vt'[t].valid /\ \A u \in Target \ {t} : vt'[u] = vt[u]
       /\ KeysInv' /\ ValidIsBuilt' /\ dir'[t][Key(t)] = Parts(t)
  BY <1>1, <1>2, <1>3, <1>8, <1>9, UpdateFacts
<1>11. Store(dir)' /\ Store(local)' /\ Store(remote)' /\ CachedIsRight'
  BY <1>1, <1>2, SameCaches DEF TaskType, Store
<1>12. \A u \in Target \ {t} : Kept(u)
  BY <1>1, <1>3, <1>10 DEF Kept
<1>13. ListedInv(t)'
  BY <1>2, <1>4, <1>5, <1>10 DEF ListedInv
<1>14. \A k \in AnyKey : <<t, k>> \in background' =>
              /\ k = Key(t) /\ dir'[t][k] = Parts(t)
              /\ vt'[t].valid \/ state'[CheckKey(t)] = "failed"
              /\ state'[CheckKey(t)] \in {"ok", "failed"}
  <2>1. ASSUME NEW k \in AnyKey, <<t, k>> \in background PROVE k = Key(t)
    BY <1>2, <2>1, BackgroundValid
  <2> QED
    BY <1>5, <1>10, <2>1
<1> QED
  BY <1>1, <1>2, <1>3, <1>10, <1>11, <1>12, <1>13, <1>14, JobStepEnds

LEMMA WriteFailsStep ==
    ASSUME BuiltInv, NEW t, WriteKey(t) \in jobs, WriteFails(t)
    PROVE  BuiltInv'
<1>1. /\ ~vt[t].valid /\ End(WriteKey(t), "failed")
      /\ sha' = [sha EXCEPT ![t] = NoKey] /\ vt' = [vt EXCEPT ![t].valid = FALSE]
      /\ UNCHANGED <<src, workflow, dir, local, remote, background, phase, todo, hits>>
  BY DEF WriteFails, ForceInvalidate
<1>2. /\ TaskType /\ ScheduleType /\ JobsInv /\ KeysInv /\ CompileInv /\ ValidIsBuilt /\ CachedIsRight
      /\ t \in Listed /\ t \in Target /\ Key(t) \in Keys(t) /\ Key(t) # NoKey
      /\ \A u : Key(u)' = Key(u) /\ Parts(u)' = Parts(u) /\ WorkOf(u)' = WorkOf(u)
  BY <1>1, SameKeys, JobOwner, KeyNames, KeyFacts DEF BuiltInv
<1>3. /\ ScheduleType' /\ JobsInv' /\ Listed' = Listed /\ Working /\ Working'
      /\ phase \in {"compile", "failed"} /\ state[WriteKey(t)] = "running"
      /\ state'[WriteKey(t)] = "failed" /\ \A i \in Job \ {WriteKey(t)} : state'[i] = state[i]
      /\ \A d \in dependencies[WriteKey(t)] : state[d] = "ok"
      /\ \A u \in Target \ {t} : \A i \in KeysOf(u) : state'[i] = state[i]
  BY <1>1, RunningEnds, KeyNames
<1>4. /\ CheckKey(t) \in Job \ {WriteKey(t)} /\ ZincKey(t) \in WorkOf(t)
      /\ \A w \in WorkOf(t) : w \in Job \ {WriteKey(t)} /\ state[w] = "ok"
  <2>1. /\ CheckKey(t) \in Job \ {WriteKey(t)} /\ ZincKey(t) \in WorkOf(t)
        /\ \A w \in WorkOf(t) : w \in Job \ {WriteKey(t)}
    BY <1>2, KeysAreJobs, KeyNames DEF KeysOf, WorkOf
  <2>2. \A w \in WorkOf(t) : state[w] = "ok"
    BY <1>2, <1>3, JobFacts
  <2> QED
    BY <2>1, <2>2
<1>5. /\ state[CheckKey(t)] = "ok" /\ state'[CheckKey(t)] = "ok"
      /\ \A w \in WorkOf(t) : state'[w] = state[w]
  <2>1. state[CheckKey(t)] = "ok"
    BY <1>2, <1>4, NotMade
  <2> QED
    BY <1>3, <1>4, <2>1
<1>6. /\ sha' \in [Target -> AnyKey] /\ \A u \in Target : sha'[u] \in KeyOrNone(u)
      /\ sha'[t] = NoKey /\ \A u \in Target \ {t} : sha'[u] = sha[u]
  <2>1. NoKey \in AnyKey /\ NoKey \in KeyOrNone(t)
    BY Zenon DEF AnyKey, KeyOrNone
  <2> QED
    BY <1>1, <1>2, <2>1 DEF TaskType
<1>7. /\ vt' \in [Target -> [valid : BOOLEAN, previous : AnyKey, incremental : BOOLEAN]]
      /\ ~vt'[t].valid /\ \A u \in Target \ {t} : vt'[u] = vt[u]
  BY <1>1, <1>2 DEF TaskType
<1>8. KeysInv'
  BY <1>1, <1>2, <1>6, <1>7 DEF KeysInv
<1>9. ValidIsBuilt'
  BY <1>1, <1>2, <1>6 DEF ValidIsBuilt
<1>10. Store(dir)' /\ Store(local)' /\ Store(remote)' /\ CachedIsRight'
  BY <1>1, <1>2, SameCaches DEF TaskType, Store
<1>11. \A u \in Target \ {t} : Kept(u)
  BY <1>1, <1>3, <1>7 DEF Kept
<1>12. ListedInv(t)'
  <2>1. ListedInv(t) /\ Current(t)' = Current(t) /\ MadeParts(t)' = MadeParts(t)
    BY <1>1, <1>2, <1>3, <1>5 DEF CompileInv, Current, MadeParts
  <2> QED
    BY <1>1, <1>3, <1>5, <1>7, <2>1 DEF ListedInv
<1>13. \A k \in AnyKey : <<t, k>> \notin background'
  BY <1>1, <1>2, <1>5, BackgroundValid
<1>14. background' \subseteq Target \X AnyKey /\ background' \subseteq background \cup {<<t, Key(t)>>}
  BY <1>1, <1>2 DEF TaskType
<1> QED
  BY <1>1, <1>2, <1>3, <1>6, <1>7, <1>8, <1>9, <1>10, <1>11, <1>12, <1>13, <1>14, JobStepEnds

(* A target that was valid is invalidated only because its check failed. *)
LEMMA CanceledWrite ==
    ASSUME BuiltInv, Working, NEW t \in Listed, vt[t].valid,
           \E d \in dependencies[WriteKey(t)] : state[d] \in Bad
    PROVE  state[CheckKey(t)] = "failed"
<1>1. ScheduleType /\ JobsInv /\ ListedInv(t)
  BY DEF BuiltInv, CompileInv, Listed
<1>2. PICK w \in WorkOf(t) : state[w] \in Bad
  BY <1>1, JobFacts
<1>3. state[w] = "canceled" /\ state[CheckKey(t)] \in {"ok", "failed"}
  BY <1>1, <1>2 DEF ListedInv, Bad
<1>4. w \in jobs /\ dependencies[w] = {CheckKey(t)} \cup DepKeys(t, Listed)
      /\ CheckKey(t) \in jobs /\ dependencies[CheckKey(t)] = DepKeys(t, Listed)
  BY <1>1, JobFacts
<1>5. PICK d \in {CheckKey(t)} \cup DepKeys(t, Listed) : state[d] \in Bad
  BY <1>1, <1>3, <1>4 DEF JobsInv
<1>6. \A e \in DepKeys(t, Listed) : state[e] = "ok"
  BY <1>1, <1>3, <1>4 DEF JobsInv
<1>7. d = CheckKey(t)
  BY <1>5, <1>6 DEF Bad
<1> QED
  BY <1>3, <1>5, <1>7 DEF Bad

LEMMA CancelJobStep ==
    ASSUME BuiltInv, NEW k \in jobs, CancelJob(k)
    PROVE  BuiltInv'
<1>1. /\ call = "active" /\ call' = call /\ state[k] = "waiting" /\ \E d \in dependencies[k] : state[d] \in Bad
      /\ state' = [state EXCEPT ![k] = "canceled"] /\ UNCHANGED dependencies
      /\ \/ k[1] # "write_to_cache" /\ UNCHANGED <<sha, vt>>
         \/ k[1] = "write_to_cache" /\ ForceInvalidate(k[2])
      /\ UNCHANGED <<src, workflow, dir, local, remote, runs, faults, background, phase, todo, hits>>
  BY DEF CancelJob, Cancel, Bad
<1>2. /\ ScheduleType' /\ JobsInv' /\ Listed' = Listed /\ Working /\ Working'
      /\ state'[k] = "canceled" /\ \A i \in Job \ {k} : state'[i] = state[i]
      /\ \A u \in Target : \A i \in KeysOf(u) :
            state'[i] = state[i] \/ (state[i] = "waiting" /\ state'[i] \in {"running", "canceled"})
  BY <1>1, WaitingMoves DEF Working
<1>3. CASE k[1] # "write_to_cache"
  <2>1. UNCHANGED taskVars
    BY <1>1, <1>3 DEF taskVars, persistent
  <2>2. \A u \in Target : Kept(u)
    BY <1>1, <1>2, <1>3 DEF Kept
  <2> QED
    BY <1>2, <2>1, <2>2, TaskUnchanged
<1>4. CASE k[1] = "write_to_cache"
  <2>1. PICK t : t = k[2]
    OBVIOUS
  <2>2. /\ TaskType /\ ScheduleType /\ JobsInv /\ KeysInv /\ CompileInv /\ ValidIsBuilt /\ CachedIsRight
        /\ PhaseInv /\ t \in Listed /\ t \in Target /\ k \in KeysOf(t) /\ k \in Job
        /\ Key(t) \in Keys(t) /\ Key(t) # NoKey
        /\ \A u : Key(u)' = Key(u) /\ Parts(u)' = Parts(u) /\ WorkOf(u)' = WorkOf(u)
    BY <1>1, <2>1, SameKeys, JobOwner, KeyFacts DEF BuiltInv
  <2>3. k = WriteKey(t) /\ phase \in {"compile", "failed"}
    BY <1>2, <1>4, <2>2, KeyNames DEF KeysOf, PhaseInv
  <2>4. /\ sha' \in [Target -> AnyKey] /\ \A u \in Target : sha'[u] \in KeyOrNone(u)
        /\ sha'[t] = NoKey /\ \A u \in Target \ {t} : sha'[u] = sha[u]
    <3>1. NoKey \in AnyKey /\ NoKey \in KeyOrNone(t)
      BY Zenon DEF AnyKey, KeyOrNone
    <3>2. sha' = [sha EXCEPT ![t] = NoKey]
      BY <1>1, <1>4, <2>1 DEF ForceInvalidate
    <3> QED
      BY <2>2, <3>1, <3>2 DEF TaskType
  <2>5. /\ vt' \in [Target -> [valid : BOOLEAN, previous : AnyKey, incremental : BOOLEAN]]
        /\ ~vt'[t].valid /\ \A u \in Target \ {t} : vt'[u] = vt[u]
    <3>1. vt' = [vt EXCEPT ![t].valid = FALSE]
      BY <1>1, <1>4, <2>1 DEF ForceInvalidate
    <3> QED
      BY <2>2, <3>1 DEF TaskType
  <2>6. KeysInv' /\ ValidIsBuilt'
    <3>1. KeysInv'
      BY <1>1, <2>2, <2>4, <2>5 DEF KeysInv
    <3>2. ValidIsBuilt'
      BY <1>1, <2>2, <2>4 DEF ValidIsBuilt
    <3> QED
      BY <3>1, <3>2
  <2>7. Store(dir)' /\ Store(local)' /\ Store(remote)' /\ CachedIsRight'
    BY <1>1, <2>2, SameCaches DEF TaskType, Store
  <2>8. \A u \in Target \ {t} : Kept(u)
    BY <1>1, <1>2, <2>5 DEF Kept
  <2>9. ListedInv(t) /\ (vt[t].valid => state[CheckKey(t)] = "failed")
    BY <1>1, <1>2, <2>2, <2>3, CanceledWrite DEF CompileInv
  <2>10. state'[CheckKey(t)] = state[CheckKey(t)] /\ \A w \in WorkOf(t) : state'[w] = state[w]
    <3>1. CheckKey(t) \in Job \ {k} /\ \A w \in WorkOf(t) : w \in Job \ {k}
      BY <2>2, <2>3, KeysAreJobs, KeyNames DEF KeysOf
    <3> QED
      BY <1>2, <3>1
  <2>11. ListedInv(t)'
    <3>1. Current(t)' = Current(t)
      BY <1>1, <2>2 DEF Current
    <3>2. MadeParts(t)' = MadeParts(t)
      BY <2>2, <2>10 DEF MadeParts
    <3> QED
      BY <1>2, <2>3, <2>5, <2>9, <2>10, <3>1, <3>2 DEF ListedInv
  <2>12. \A j \in AnyKey : <<t, j>> \in background' =>
              /\ j = Key(t) /\ dir'[t][j] = Parts(t)
              /\ vt'[t].valid \/ state'[CheckKey(t)] = "failed"
              /\ state'[CheckKey(t)] \in {"ok", "failed"}
    <3>1. ASSUME NEW j \in AnyKey, <<t, j>> \in background
          PROVE  j = Key(t) /\ dir[t][j] = Parts(t) /\ state[CheckKey(t)] = "failed"
      BY <2>2, <2>9, <3>1, BackgroundValid
    <3> QED
      BY <1>1, <2>10, <3>1
  <2>13. background' \subseteq Target \X AnyKey /\ background' \subseteq background \cup {<<t, Key(t)>>}
    BY <1>1, <2>2 DEF TaskType
  <2> QED
    BY <1>1, <1>2, <2>2, <2>3, <2>4, <2>5, <2>6, <2>7, <2>8, <2>11, <2>12, <2>13, JobStepEnds
<1> QED
  BY <1>3, <1>4

LEMMA LeaveStep ==
    ASSUME BuiltInv, Leave
    PROVE  BuiltInv'
<1>1. /\ phase = "compile" /\ UNCHANGED <<dependencies, state>>
      /\ UNCHANGED <<src, workflow, sha, dir, local, remote, vt, background, todo, hits>>
      /\ \/ /\ call = "active" /\ (\A j \in jobs : state[j] = "ok")
            /\ call' = "returned" /\ phase' = "done"
         \/ call' = "raised" /\ phase' = "failed"
  BY DEF Leave, Return, Raise, scheduleVars
<1>2. /\ TaskType /\ ScheduleType /\ JobsInv /\ PhaseInv /\ KeysInv /\ CompileInv /\ ValidIsBuilt
      /\ CachedIsRight /\ BackgroundInv /\ Working
      /\ \A u : Key(u)' = Key(u) /\ Parts(u)' = Parts(u) /\ WorkOf(u)' = WorkOf(u)
  BY <1>1, SameKeys DEF BuiltInv, PhaseInv
<1>3. TaskType'
  <2>1. Store(dir)' /\ Store(local)' /\ Store(remote)'
    BY <1>1, <1>2 DEF TaskType, Store
  <2> QED
    BY <1>1, <1>2, <2>1 DEF TaskType, KeyOrNone
<1>4. ScheduleType' /\ JobsInv' /\ Listed' = Listed
  <2>1. Listed' = Listed /\ (dependencies = CompileJobs(Listed))'
    BY <1>1, <1>2, SameJobs DEF ScheduleType
  <2>2. ScheduleType'
    BY <1>1, <1>2, <2>1 DEF ScheduleType
  <2>3. JobsInv'
    BY <1>1, <1>2 DEF JobsInv, jobs
  <2> QED
    BY <2>1, <2>2, <2>3
<1>5. Invalid' = Invalid /\ \A u : Current(u)' = Current(u) /\ MadeParts(u)' = MadeParts(u)
  BY <1>1, <1>2 DEF Invalid, Current, MadeParts
<1>6. \A t \in Target : IF t \in Listed THEN ListedInv(t) ELSE vt[t].valid
  BY <1>2 DEF CompileInv
<1>7. PhaseInv'
  <2>1. ASSUME \A j \in jobs : state[j] = "ok" PROVE Invalid = {}
    <3>1. ASSUME NEW t \in Target PROVE vt[t].valid
      <4>1. ASSUME t \in Listed PROVE vt[t].valid
        <5>1. WriteKey(t) \in jobs
          BY <1>2, <4>1, JobFacts
        <5> QED
          BY <1>6, <2>1, <4>1, <5>1 DEF ListedInv
      <4> QED
        BY <1>6, <4>1
    <3> QED
      BY <3>1 DEF Invalid
  <2> QED
    BY <1>1, <1>5, <2>1 DEF PhaseInv, Working
<1>8. CompileInv'
  <2>1. \A t : ListedInv(t)' <=> ListedInv(t)
    BY <1>1, <1>2, <1>5 DEF ListedInv
  <2> QED
    BY <1>1, <1>4, <1>6, <2>1 DEF CompileInv
<1>9. KeysInv' /\ ValidIsBuilt' /\ CacheInv'
  BY <1>1, <1>2 DEF KeysInv, ValidIsBuilt, CacheInv
<1>10. CachedIsRight'
  BY <1>1, <1>2, SameCaches
<1>11. BackgroundInv'
  BY <1>1, <1>2, <1>4 DEF BackgroundInv
<1> QED
  BY <1>3, <1>4, <1>7, <1>8, <1>9, <1>10, <1>11 DEF BuiltInv

-----------------------------------------------------------------------------

LEMMA JobStepStep ==
    ASSUME BuiltInv, NEW k \in jobs, JobStep(k)
    PROVE  BuiltInv'
<1>1. PICK t : t = k[2]
  OBVIOUS
<1>2. CASE Start(k) /\ UNCHANGED taskVars
  BY <1>2, StartStep
<1>3. CASE k = CheckKey(t) /\ DoubleCheck(t)
  BY <1>3, DoubleCheckStep
<1>4. CASE k = WriteKey(t) /\ Write(t)
  BY <1>4, WriteStep
<1>5. CASE k = WriteKey(t) /\ CallbackRaises(t)
  BY <1>5, CallbackRaisesStep
<1>6. CASE k \in {RscKey(t), ZincKey(t)} /\ DoWork(k)
  BY <1>1, <1>6, DoWorkStep
<1>7. CASE CancelJob(k)
  BY <1>7, CancelJobStep
<1>8. CASE k = WriteKey(t) /\ WriteFails(t)
  BY <1>8, WriteFailsStep
<1> QED
  BY <1>1, <1>2, <1>3, <1>4, <1>5, <1>6, <1>7, <1>8 DEF JobStep

LEMMA BuiltStep == BuiltInv /\ [CompileNext]_vars => BuiltInv'
<1> SUFFICES ASSUME BuiltInv, [CompileNext]_vars PROVE BuiltInv'
  OBVIOUS
<1>1. ASSUME NEW k \in jobs, JobStep(k) PROVE BuiltInv'
  BY <1>1, JobStepStep
<1>2. ASSUME NEW t \in Target, CheckArtifactCache(t) \/ UpdateCached(t) \/ Prepare(t), UNCHANGED scheduleVars
      PROVE  BuiltInv'
  BY <1>2, CheckArtifactCacheStep, UpdateCachedStep, PrepareStep
<1>3. ASSUME NEW b \in background, Insert(b[1], b[2]), UNCHANGED scheduleVars PROVE BuiltInv'
  BY <1>3, InsertStep
<1>4. ASSUME CacheChecked, UNCHANGED scheduleVars PROVE BuiltInv'
  BY <1>4, CacheCheckedStep
<1>5. CASE DoCompile
  BY <1>5, DoCompileStep
<1>6. CASE Leave
  BY <1>6, LeaveStep
<1>7. CASE Exit \/ Crash
  BY <1>7, GoneStep DEF Exit, Crash
<1>8. ASSUME DoInvalidationCheck, UNCHANGED scheduleVars PROVE BuiltInv'
  BY <1>8, InvalidationCheckStep
<1>9. ASSUME NEW t \in Target, Edit(t) \/ OtherInserts(t), UNCHANGED scheduleVars PROVE BuiltInv'
  BY <1>9, EditStep, OtherInsertsStep
<1>10. ASSUME NEW t \in Target, NEW k \in Keys(t), Cleanup(t, k), UNCHANGED scheduleVars PROVE BuiltInv'
  BY <1>10, CleanupStep
<1>11. CASE UNCHANGED vars
  <2>1. UNCHANGED <<scheduleVars, taskVars>>
    BY <1>11 DEF vars
  <2>2. UNCHANGED <<src, workflow, sha, dir, local, remote, vt, background, phase, todo, hits>>
    BY <2>1 DEF taskVars, persistent
  <2>3. UNCHANGED <<dependencies, state, call>>
    BY <2>1 DEF scheduleVars
  <2>4. TaskType' /\ ScheduleType'
    <3>1. TaskType /\ ScheduleType'
      BY <2>1, <2>2, Quiet DEF BuiltInv
    <3>2. Store(dir)' /\ Store(local)' /\ Store(remote)'
      BY <2>2, <3>1 DEF TaskType, Store
    <3> QED
      BY <2>2, <3>1, <3>2 DEF TaskType, KeyOrNone
  <2>5. PhaseInv' /\ KeysInv' /\ CacheInv'
    BY <2>2, <2>3 DEF BuiltInv, PhaseInv, KeysInv, CacheInv, Working, Listed, jobs, Invalid, Key, Current, Parts
  <2>6. JobsInv' /\ CompileInv'
    BY <2>2, <2>3 DEF BuiltInv, JobsInv, CompileInv, ListedInv, MadeParts, Working, Listed, jobs, Key,
                      Current, WorkOf
  <2>7. BackgroundInv' /\ ValidIsBuilt' /\ CachedIsRight'
    BY <2>2, <2>3 DEF BuiltInv, BackgroundInv, ValidIsBuilt, CachedIsRight, Key, Parts, Listed, jobs
  <2> QED
    BY <2>4, <2>5, <2>6, <2>7 DEF BuiltInv
<1> QED
  BY <1>1, <1>2, <1>3, <1>4, <1>5, <1>6, <1>7, <1>8, <1>9, <1>10, <1>11 DEF CompileNext, Pants, Environment

(* The invariant of the key files, the jobs and the caches that the        *)
(* theorems below follow from.                                             *)
THEOREM CompileIsInductive == CompileSpec => []BuiltInv
<1>1. Init => BuiltInv
  BY BuiltInit
<1>2. BuiltInv /\ [CompileNext]_vars => BuiltInv'
  BY BuiltStep
<1> QED
  BY <1>1, <1>2, PTL DEF CompileSpec

(* BuildInvalidator's key files can be believed: whatever was interrupted, *)
(* failed, edited or reverted, the results directory of the key a file     *)
(* names is complete and built from the sources of that key.               *)
THEOREM KeyFilesAreTrue == CompileSpec => []ValidIsBuilt
<1>1. BuiltInv => ValidIsBuilt
  BY DEF BuiltInv
<1> QED
  BY <1>1, CompileIsInductive, PTL

(* What ArtifactCache.insert stored for a key is what building the key     *)
(* gives: an artifact never holds a partial or a wrong result.             *)
THEOREM ArtifactsAreRight == CompileSpec => []CachedIsRight
<1>1. BuiltInv => CachedIsRight
  BY DEF BuiltInv
<1> QED
  BY <1>1, CompileIsInductive, PTL

(* execute() returns, and Task.invalidated with it, only when every target *)
(* is valid for its sources and has its complete results.                  *)
THEOREM SuccessMeansBuilt == CompileSpec => []SuccessIsComplete
<1>1. BuiltInv => SuccessIsComplete
  <2> SUFFICES ASSUME BuiltInv, phase = "done", NEW t \in Target PROVE sha[t] = Key(t) /\ Current(t) = Parts(t)
    BY DEF SuccessIsComplete
  <2>1. vt[t].valid
    BY DEF BuiltInv, PhaseInv, Invalid
  <2>2. sha[t] = Key(t) /\ Key(t) # NoKey
    BY <2>1, KeyFacts DEF BuiltInv, KeysInv
  <2> QED
    BY <2>2 DEF BuiltInv, ValidIsBuilt, Current
<1> QED
  BY <1>1, CompileIsInductive, PTL
=============================================================================
