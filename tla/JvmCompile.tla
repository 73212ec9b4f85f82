----------------------------- MODULE JvmCompile -----------------------------
(***************************************************************************)
(* RscCompile: the jobs create_compile_jobs makes of the invalid targets   *)
(* and what they do to the results directories, key files and caches.      *)
(* Composes TaskInvalidation, which decides what has to be compiled, with  *)
(* JobSchedule, the specification of the execution graph that runs the     *)
(* jobs; a job's work and the end of the job are one step here, as no      *)
(* other job looks at its results before.                                  *)
(***************************************************************************)
EXTENDS JobSchedule, TaskInvalidation

vars == <<scheduleVars, taskVars>>

CheckKey(t) == <<"double_check_cache", t>>
RscKey(t) == <<"rsc", t>>
ZincKey(t) == <<"zinc", t>>
WriteKey(t) == <<"write_to_cache", t>>

ASSUME JobAssumption ==
  \A t \in Target : {CheckKey(t), RscKey(t), ZincKey(t), WriteKey(t)} \subseteq Job

\* _key_for_target_as_dep, and the part of its results that stands on the classpath.
AsDep(t) == IF workflow[t] = "rsc_and_zinc" THEN RscKey(t) ELSE ZincKey(t)
DepKeysOutline(t, invalid) == {AsDep(u) : u \in (Closure[t] \ {t}) \cap invalid}

DepKeys(t, invalid) ==
  {IF workflow[t] = "zinc_java" THEN ZincKey(u) ELSE AsDep(u) : u \in (Closure[t] \ {t}) \cap invalid}
PartRead(t, u) == IF workflow[t] # "zinc_java" /\ workflow[u] = "rsc_and_zinc" THEN "rsc" ELSE "zinc"

\* create_compile_jobs: for each target a cache check, an outline, a compile and a write job.
WorkOf(t) == IF workflow[t] = "rsc_and_zinc" THEN {RscKey(t), ZincKey(t)} ELSE {ZincKey(t)}
WriteDepsOutline(t) == {AsDep(t)}
WriteDeps(t) == WorkOf(t)

CompileJobs(invalid) ==
  [k \in UNION {WorkOf(t) \cup {CheckKey(t), WriteKey(t)} : t \in invalid} |->
     LET t == k[2] IN
     CASE k = CheckKey(t) -> DepKeys(t, invalid)
       [] k = WriteKey(t) -> WriteDeps(t)
       [] OTHER -> {CheckKey(t)} \cup DepKeys(t, invalid)]

\* do_compile: nothing to do, or the class directories are made and the jobs run.  Making one
\* below a results_dir that is a dangling link raises.
DoCompile ==
  /\ phase = "prepare" /\ todo = {}
  /\ \/ Invalid = {} /\ phase' = "done" /\ UNCHANGED scheduleVars
     \/ (\E t \in Invalid : Current(t) = NoDir) /\ phase' = "failed" /\ UNCHANGED scheduleVars
     \/ /\ Invalid # {} /\ \A t \in Invalid : Current(t) # NoDir
        /\ Call(CompileJobs(Invalid)) /\ phase' = "compile"
  /\ UNCHANGED <<persistent, vt, background, todo, hits>>

\* _double_check_cache_for_vts: a last look at the caches before the work.  On a hit the target
\* is valid before the job ends, even when the snapshot taken after it raises.
DoubleCheck(t) ==
  /\ \E r \in Lookup(t) :
       /\ Looked(t, r)
       /\ \/ r.hit /\ Update(t) /\ \E result \in {"ok", "failed"} : End(CheckKey(t), result)
          \/ ~r.hit /\ End(CheckKey(t), "ok") /\ UNCHANGED <<sha, vt, background>>
  /\ UNCHANGED <<src, workflow, remote, runs, faults, phase, todo, hits>>

(***************************************************************************)
(* work_for_vts_rsc and _default_work_for_vts: nothing to do for a target  *)
(* the double check found, else one part of the results is made from those *)
(* parts of the dependencies that are on the classpath.  What a job that   *)
(* failed has written is no part: the next one to make it starts anew.     *)
(***************************************************************************)
Made(t, part) ==
  IF \A u \in Closure[t] \ {t} : PartRead(t, u) \in Current(u) /\ "bad" \notin Current(u)
  THEN Current(t) \cup {part} ELSE {"bad"}

DoWork(k) ==
  LET t == k[2] IN
  /\ \/ vt[t].valid /\ End(k, "ok") /\ UNCHANGED dir
     \/ ~vt[t].valid /\ Current(t) # NoDir /\ End(k, "ok") /\ SetDir(t, Made(t, k[1]))
     \/ ~vt[t].valid /\ End(k, "failed") /\ UNCHANGED dir
  /\ UNCHANGED <<src, workflow, sha, local, remote, runs, faults, vt, background, phase, todo, hits>>

\* write_to_cache: ivts.update.
Write(t) ==
  /\ End(WriteKey(t), "ok") /\ Update(t)
  /\ UNCHANGED <<src, workflow, dir, local, remote, runs, faults, phase, todo, hits>>

\* Only write_to_cache jobs have a callback, on_failure: ivts.force_invalidate.  It is called when
\* the key file could not be written ...
WriteFails(t) ==
  /\ ~vt[t].valid /\ End(WriteKey(t), "failed") /\ ForceInvalidate(t)
  /\ UNCHANGED <<src, workflow, dir, local, remote, runs, faults, background, phase, todo, hits>>

\* ... and when the job is canceled.
CancelJobOfFailed(k) ==
  /\ \E d \in dependencies[k] : state[d] = "failed"
  /\ Cancel(k) /\ UNCHANGED taskVars

CancelJob(k) ==
  /\ Cancel(k)
  /\ \/ k[1] # "write_to_cache" /\ UNCHANGED <<sha, vt>>
     \/ k[1] = "write_to_cache" /\ ForceInvalidate(k[2])
  /\ UNCHANGED <<src, workflow, dir, local, remote, runs, faults, background, phase, todo, hits>>

\* It raises, when the key file is there and cannot be removed.
CallbackRaises(t) ==
  /\ sha[t] # NoKey /\ state[WriteKey(t)] = "waiting"
  /\ \E d \in dependencies[WriteKey(t)] : state[d] \in {"failed", "canceled"}
  /\ EndAndRaise(WriteKey(t), "canceled")
  /\ UNCHANGED taskVars

AllEnded == \A j \in jobs : state[j] \in {"ok", "failed", "canceled"}

\* The end of execute(), and Task.invalidated after its block: an exception skips the vt.update
\* of what the block left invalid.
Leave ==
  /\ phase = "compile"
  /\ \/ Return /\ phase' = "done" /\ UNCHANGED <<sha, vt, background>>
     \/ AllEnded /\ (\E j \in jobs : state[j] = "failed") /\ Raise
        /\ phase' = "failed" /\ UNCHANGED <<sha, vt, background>>
     \/ call = "raised" /\ phase' = "failed" /\ UNCHANGED <<scheduleVars, sha, vt, background>>
  /\ UNCHANGED <<src, workflow, dir, local, remote, runs, faults, todo, hits>>

\* The process ends, and with it the threads of its pools: it has waited for the background
\* workers (RunTracker.end), or it was killed, or interrupted, when it does not wait for them.
Gone ==
  /\ dependencies' = <<>> /\ state' = [j \in Job |-> "waiting"] /\ call' = "none"
  /\ vt' = NoTargets /\ background' = {} /\ phase' = "idle" /\ todo' = {} /\ hits' = {}
  /\ UNCHANGED persistent

Exit == phase \in {"done", "failed"} /\ background = {} /\ Gone

Crash == phase # "idle" /\ Gone

Init == Idle /\ TaskInit

JobStep(k) ==
  LET t == k[2] IN
  \/ Start(k) /\ UNCHANGED taskVars
  \/ k = CheckKey(t) /\ DoubleCheck(t)
  \/ k = WriteKey(t) /\ (Write(t) \/ WriteFails(t) \/ CallbackRaises(t))
  \/ k \in {RscKey(t), ZincKey(t)} /\ DoWork(k)
  \/ CancelJob(k)

Pants ==
  \/ \E k \in jobs : JobStep(k)
  \/ \E t \in Target : (CheckArtifactCache(t) \/ UpdateCached(t) \/ Prepare(t)) /\ UNCHANGED scheduleVars
  \/ \E b \in background : Insert(b[1], b[2]) /\ UNCHANGED scheduleVars
  \/ CacheChecked /\ UNCHANGED scheduleVars
  \/ DoCompile \/ Leave \/ Exit

Environment ==
  \/ DoInvalidationCheck /\ UNCHANGED scheduleVars
  \/ \E t \in Target : \/ (Edit(t) \/ OtherInserts(t)) /\ UNCHANGED scheduleVars
                       \/ \E k \in Keys(t) : Cleanup(t, k) /\ UNCHANGED scheduleVars
  \/ Crash

CompileNext == Pants \/ Environment

\* Threads run and compilers end; nobody has to invoke pants.
CompileSpec == Init /\ [][CompileNext]_vars /\ WF_vars(Pants)

-----------------------------------------------------------------------------

\* An invocation that ends without an error leaves every target valid for its current sources.
SuccessIsComplete ==
  phase = "done" => \A t \in Target : sha[t] = Key(t) /\ Current(t) = Parts(t)

\* Every invocation ends, by itself or because it is killed.
InvocationEnds == (phase # "idle") ~> (phase = "idle")
=============================================================================
