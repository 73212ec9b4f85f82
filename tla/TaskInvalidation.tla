-------------------------- MODULE TaskInvalidation --------------------------
(***************************************************************************)
(* How a v1 task decides what is up to date: Task.invalidated, the         *)
(* VersionedTargets of InvalidationCacheManager, the key files of          *)
(* BuildInvalidator, the results directories of the workdir and the        *)
(* artifact caches (a local one in front of a remote one).                 *)
(*                                                                         *)
(* A target's key is the transitive fingerprint of its sources; a results  *)
(* directory belongs to one target and one key.  Its content is abstracted *)
(* to the parts that are complete in it, "bad" being anything built from   *)
(* parts that were not there, and NoDir a directory that does not exist.   *)
(* Files of an earlier build, of an artifact that could not be extracted   *)
(* to its end or of a job that failed are no part.                         *)
(***************************************************************************)
EXTENDS Naturals, FiniteSets

CONSTANTS
  Target,
  Closure,      \* each target with all it transitively depends on, itself included
  Version,      \* the versions the sources of a target take
  MaxRuns,      \* bound: pants invocations
  MaxFaults,    \* bound: artifacts written by other workdirs
  Workflows     \* the combinations of workflows to start from

VARIABLES
  src,          \* the version of each target's sources
  workflow,     \* RscCompileContext.workflow of each target
  sha,          \* BuildInvalidator: the hash in a target's key file, or NoKey
  dir,          \* results_dir of a target and key: the parts in it
  local, remote,\* the artifacts, by target and key
  vt,           \* the VersionedTargets of the current invocation
  background,   \* artifact writes handed to the background worker pool
  phase,        \* where Task.invalidated is
  todo,         \* targets the current phase has still to visit
  hits,         \* cached_vts that are not yet marked valid
  runs, faults

persistent == <<src, workflow, sha, dir, local, remote, runs, faults>>
taskVars == <<persistent, vt, background, phase, todo, hits>>

NoKey == <<>>
NoDir == {"nodir"}
NoArtifact == {"noartifact"}
Unreadable == {"unreadable"}

\* key_for_target(transitive=True): hash of the sources of the closure.
Keys(t) == {k \in [Closure[t] -> UNION {Version[u] : u \in Target}] :
              \A u \in Closure[t] : k[u] \in Version[u]}
Key(t) == [u \in Closure[t] |-> src[u]]

\* JvmCompileWorkflowType: what a complete results directory holds.
Parts(t) == IF workflow[t] = "rsc_and_zinc" THEN {"rsc", "zinc"} ELSE {"zinc"}
Current(t) == dir[t][Key(t)]
SetDir(t, content) == dir' = [dir EXCEPT ![t][Key(t)] = content]

Invalid == {t \in Target : ~vt[t].valid}

\* An invocation of the task: the key files are compared with the keys
\* (InvalidationCacheManager.check), and results directories of invalid targets are cleaned.
DoInvalidationCheck ==
  LET checked == [t \in Target |-> [valid |-> sha[t] = Key(t), previous |-> sha[t],
                                    incremental |-> FALSE]]
      invalid == {t \in Target : ~checked[t].valid}
  IN /\ phase = "idle" /\ runs < MaxRuns
     /\ runs' = runs + 1 /\ phase' = "cache" /\ todo' = invalid /\ hits' = {}
     /\ vt' = checked
     /\ dir' = [t \in Target |-> IF t \in invalid THEN [dir[t] EXCEPT ![Key(t)] = {}] ELSE dir[t]]
     /\ UNCHANGED <<src, workflow, sha, local, remote, background, faults>>

\* (an unreadable artifact taken for a hit)
LookupTruthy(t) == 
  {[hit |-> Unreadable \in {local[t][Key(t)], remote[t][Key(t)]}, dir |-> {},
    local |-> NoArtifact]}

(***************************************************************************)
(* RESTfulArtifactCache.use_cached_files in front of a LocalArtifactCache: *)
(* what one lookup may leave behind.  An unreadable local artifact is      *)
(* deleted after the results directory was, or was filled to some point;   *)
(* an unreadable remote one leaves the directory empty and no local copy.  *)
(***************************************************************************)
Lookup(t) ==
  LET k == Key(t)
      found(content, l) == [hit |-> TRUE, dir |-> content, local |-> l]
      missed(content, l) == [hit |-> FALSE, dir |-> content, local |-> l]
  IN CASE local[t][k] = Unreadable -> {missed(c, NoArtifact) : c \in {NoDir, {}}}
       [] local[t][k] \notin {Unreadable, NoArtifact} -> {found(local[t][k], local[t][k])}
       [] local[t][k] = NoArtifact /\ remote[t][k] = NoArtifact -> {missed(Current(t), NoArtifact)}
       [] local[t][k] = NoArtifact /\ remote[t][k] = Unreadable ->
            {missed({}, NoArtifact), missed(Current(t), NoArtifact)}
       [] OTHER -> {found(remote[t][k], remote[t][k]), missed(Current(t), NoArtifact)}

Looked(t, r) == SetDir(t, r.dir) /\ local' = [local EXCEPT ![t][Key(t)] = r.local]

\* InvalidationCacheManager.update, with Task.maybe_write_artifact as its callback: the key file
\* is written, and unless the results come from an incremental build they are to be cached
\* (--incremental-caching, which caches them too, is off).
Update(t) ==
  /\ sha' = IF vt[t].valid THEN sha ELSE [sha EXCEPT ![t] = Key(t)]
  /\ vt' = [vt EXCEPT ![t].valid = TRUE]
  /\ background' = IF vt[t].valid \/ vt[t].incremental THEN background
                   ELSE background \cup {<<t, Key(t)>>}

\* InvalidationCacheManager.force_invalidate: the key file is removed.
ForceInvalidate(t) ==
  /\ sha' = [sha EXCEPT ![t] = NoKey]
  /\ vt' = [vt EXCEPT ![t].valid = FALSE]

\* do_check_artifact_cache: the lookups run in the foreground pool ...
CheckArtifactCache(t) ==
  /\ phase = "cache" /\ t \in todo
  /\ todo' = todo \ {t}
  /\ \E r \in Lookup(t) : Looked(t, r) /\ hits' = IF r.hit THEN hits \cup {t} ELSE hits
  /\ UNCHANGED <<src, workflow, sha, remote, vt, background, phase, runs, faults>>

\* ... and when all have returned, the targets found are marked valid one after the other.
UpdateCached(t) ==
  /\ phase = "cache" /\ todo = {} /\ t \in hits
  /\ hits' = hits \ {t} /\ Update(t)
  /\ UNCHANGED <<src, workflow, dir, local, remote, phase, todo, runs, faults>>

\* The rest is still invalid: copy_previous_results and force_invalidate visit it.
CacheChecked ==
  /\ phase = "cache" /\ todo = {} /\ hits = {}
  /\ phase' = "prepare" /\ todo' = Invalid
  /\ UNCHANGED <<src, workflow, sha, dir, local, remote, vt, hits, background, runs, faults>>

\* copy_previous_results: what an earlier build left is only a start, no part of this key.
Prepare(t) ==
  LET old == vt[t].previous
      copied == old # NoKey /\ dir[t][old] # NoDir
  IN /\ phase = "prepare" /\ t \in todo
     /\ todo' = todo \ {t}
     /\ SetDir(t, IF old # NoKey THEN {} ELSE Current(t))
     /\ sha' = [sha EXCEPT ![t] = NoKey]
     /\ vt' = [vt EXCEPT ![t].incremental = copied, ![t].valid = FALSE]
     /\ UNCHANGED <<src, workflow, local, remote, hits, background, phase, runs, faults>>

(***************************************************************************)
(* ArtifactCache.insert in a background worker, without --cache-overwrite. *)
(* An unreadable artifact is not overwritten either: update(key) adds the  *)
(* fields of the key to _cache_key_errors, not the key.  A failed PUT      *)
(* leaves the local copy.                                                  *)
(***************************************************************************)
Insert(t, k) ==
  /\ <<t, k>> \in background
  /\ background' = background \ {<<t, k>>}
  /\ \/ UNCHANGED <<local, remote>>   \* it exists, or the request or the packing failed
     \/ /\ dir[t][k] # NoDir /\ local[t][k] = NoArtifact /\ remote[t][k] = NoArtifact
        /\ local' = [local EXCEPT ![t][k] = dir[t][k]]
        /\ remote' \in {remote, [remote EXCEPT ![t][k] = dir[t][k]]}
  /\ UNCHANGED <<src, workflow, sha, dir, vt, hits, phase, todo, runs, faults>>

\* The task returned; _cleanup_workdir_stale_builds removes directories of other keys than the
\* live ones, and RunTracker.end waits for the background workers.  The previous one is live
\* if its results were copied.
Cleanup(t, k) ==
  /\ phase = "done" /\ k # Key(t) /\ dir[t][k] # NoDir
  /\ ~(vt[t].incremental /\ k = vt[t].previous)
  /\ dir' = [dir EXCEPT ![t][k] = NoDir]
  /\ UNCHANGED <<src, workflow, sha, local, remote, vt, hits, background, phase, todo, runs, faults>>

\* Between invocations: sources are edited, ...
Edit(t) ==
  /\ phase = "idle" /\ runs < MaxRuns
  /\ \E v \in Version[t] \ {src[t]} : src' = [src EXCEPT ![t] = v]
  /\ UNCHANGED <<workflow, sha, dir, local, remote, vt, hits, background, phase, todo, runs, faults>>

\* ... and another workdir writes to a shared cache, which this one sees in its first or, when
\* the write comes during the invocation, in its second check.  The artifact may be unreadable.
OtherInserts(t) ==
  /\ (phase = "idle" /\ runs < MaxRuns) \/ phase = "compile"
  /\ faults < MaxFaults /\ faults' = faults + 1
  /\ \E artifact \in {Parts(t), Unreadable} :
       \/ /\ remote[t][Key(t)] = NoArtifact /\ UNCHANGED local
          /\ remote' = [remote EXCEPT ![t][Key(t)] = artifact]
       \/ /\ local[t][Key(t)] = NoArtifact /\ UNCHANGED remote
          /\ local' = [local EXCEPT ![t][Key(t)] = artifact]
  /\ UNCHANGED <<src, workflow, sha, dir, vt, hits, background, phase, todo, runs>>

\* _classify_target_compile_workflow; outline_and_zinc is scheduled as rsc_and_zinc is.
Workflow == {"zinc_only", "zinc_java", "rsc_and_zinc"}

ASSUME WorkflowsAssumption == Workflows \subseteq [Target -> Workflow]

ASSUME TargetAssumption ==
  /\ Closure \in [Target -> SUBSET Target]
  /\ \A t \in Target : t \in Closure[t] /\ Version[t] # {}

NoTargets == [t \in Target |-> [valid |-> FALSE, previous |-> NoKey, incremental |-> FALSE]]

TaskInit ==
  /\ src = [t \in Target |-> CHOOSE v \in Version[t] : TRUE] /\ workflow \in Workflows
  /\ sha = [t \in Target |-> NoKey]
  /\ dir = [t \in Target |-> [k \in Keys(t) |-> NoDir]]
  /\ local = [t \in Target |-> [k \in Keys(t) |-> NoArtifact]] /\ remote = local
  /\ vt = NoTargets
  /\ background = {} /\ hits = {} /\ phase = "idle" /\ todo = {} /\ runs = 0 /\ faults = 0

-----------------------------------------------------------------------------

\* The key file of a target names a key whose results directory is complete and was built from
\* the sources the key stands for: Task.invalidated may believe it, whatever was interrupted,
\* failed or reverted before, as long as sources are edited only between invocations: the key is
\* computed before the compiler reads them, and nobody compares again.
ValidIsBuilt == \A t \in Target : sha[t] # NoKey => dir[t][sha[t]] = Parts(t)

\* An artifact that can be read is what building its key gives, if sources are edited only
\* between invocations.
CachedIsRight ==
  \A t \in Target : \A k \in Keys(t) :
    {local[t][k], remote[t][k]} \subseteq {NoArtifact, Unreadable, Parts(t)}
=============================================================================
