------------------------------ MODULE SceneCache ------------------------------
(***************************************************************************)
(* The static worlds of See's point cloud: ensure_scene() of               *)
(* pipeline/d4rt_service.py builds a clip's world once, under a build lock *)
(* and then the GPU lock, or restores it from an .npz file                 *)
(* (d4rt_backend/scene_cache.py); live streams take the GPU lock one       *)
(* window at a time.  A world is there or not; its content is left out.    *)
(***************************************************************************)
EXTENDS Naturals

CONSTANTS Sockets,        \* d4rt-stream sockets, each a pool thread while it ensures
          ClipOf,         \* the clip each socket was opened on
          NoSocket,       \* a lock nobody holds
          MaxSceneFaults  \* bound: analyses and writes that fail, and crashes

ASSUME SceneAssumption == NoSocket \notin Sockets /\ MaxSceneFaults \in Nat

VARIABLES step,        \* where each socket's request is
          buildLock,   \* _build_lock
          gpuLock,     \* engine.gpu_lock
          scenes,      \* clips with a scene in memory
          files,       \* the .npz of each clip: absent, torn or whole
          sceneFaults

sceneVars == <<step, buildLock, gpuLock, scenes, files, sceneFaults>>

Clips == {ClipOf[s] : s \in Sockets}
Step(s, from, to) == step[s] = from /\ step' = [step EXCEPT ![s] = to]
Fault == sceneFaults < MaxSceneFaults /\ sceneFaults' = sceneFaults + 1

SceneInit ==
  /\ step = [s \in Sockets |-> "closed"] /\ buildLock = NoSocket /\ gpuLock = NoSocket
  /\ scenes = {} /\ files = [c \in Clips |-> "absent"] /\ sceneFaults = 0

(* ensure_scene(): a scene in memory is returned without a lock.            *)
Ensure(s) ==
  /\ Step(s, "closed", IF ClipOf[s] \in scenes THEN "streams" ELSE "wants-build")
  /\ UNCHANGED <<buildLock, gpuLock, scenes, files, sceneFaults>>

(* Mutated: the second look, under the lock, is left out.                   *)
StillMissingAnyway(c) == TRUE
StillMissing(c) == c \notin scenes

TakeBuildLock(s) ==
  /\ buildLock = NoSocket
  /\ IF StillMissing(ClipOf[s])
     THEN Step(s, "wants-build", "wants-gpu") /\ buildLock' = s
     ELSE Step(s, "wants-build", "streams") /\ UNCHANGED buildLock
  /\ UNCHANGED <<gpuLock, scenes, files, sceneFaults>>

TakeGpuLock(s) ==
  /\ gpuLock = NoSocket /\ gpuLock' = s
  /\ \/ Step(s, "wants-gpu", "looks") \/ Step(s, "streams", "window")
  /\ UNCHANGED <<buildLock, scenes, files, sceneFaults>>

(* analyse(): a file that can be read is the scene; a torn one cannot.      *)
Restorable(c) == files[c] = "whole"

Look(s) ==
  /\ LET c == ClipOf[s] IN
       IF Restorable(c)
       THEN Step(s, "looks", "done") /\ scenes' = scenes \cup {c}
       ELSE Step(s, "looks", "builds") /\ UNCHANGED scenes
  /\ UNCHANGED <<buildLock, gpuLock, files, sceneFaults>>

(* The masks and the world; an exception is logged, and there is no scene.  *)
Build(s) ==
  /\ \/ Step(s, "builds", "stores") /\ scenes' = scenes \cup {ClipOf[s]} /\ UNCHANGED sceneFaults
     \/ Step(s, "builds", "done") /\ Fault /\ UNCHANGED scenes
  /\ UNCHANGED <<buildLock, gpuLock, files>>

(* _store(), after the scene is in memory; a write that fails is logged     *)
(* too, and leaves what it wrote.                                           *)
Store(s) ==
  /\ Step(s, "stores", "done")
  /\ \/ files' = [files EXCEPT ![ClipOf[s]] = "whole"] /\ UNCHANGED sceneFaults
     \/ files' = [files EXCEPT ![ClipOf[s]] = "torn"] /\ Fault
  /\ UNCHANGED <<buildLock, gpuLock, scenes>>

ReleaseLocks(s) ==
  /\ gpuLock' = NoSocket
  /\ \/ Step(s, "done", "streams") /\ buildLock' = NoSocket
     \/ Step(s, "window", "streams") /\ UNCHANGED buildLock
  /\ UNCHANGED <<scenes, files, sceneFaults>>

(* The socket is closed between two windows, and may be opened again.       *)
Close(s) ==
  /\ Step(s, "streams", "closed")
  /\ UNCHANGED <<buildLock, gpuLock, scenes, files, sceneFaults>>

(* The process goes down; a write under way leaves a torn file.             *)
CrashBackend ==
  /\ Fault
  /\ files' = [c \in Clips |->
       IF \E s \in Sockets : step[s] = "stores" /\ ClipOf[s] = c THEN "torn" ELSE files[c]]
  /\ step' = [s \in Sockets |-> "closed"] /\ buildLock' = NoSocket /\ gpuLock' = NoSocket
  /\ scenes' = {}

SceneNext ==
  \/ \E s \in Sockets : \/ Ensure(s) \/ TakeBuildLock(s) \/ TakeGpuLock(s) \/ Look(s)
                        \/ Build(s) \/ Store(s) \/ ReleaseLocks(s) \/ Close(s)
  \/ CrashBackend
SceneSpec == SceneInit /\ [][SceneNext]_sceneVars

(* A world is built only when there is none, in memory or on disk: two      *)
(* viewers of one clip, a failed build, and a restart after the file was    *)
(* written do not cost a second build (ensure_scene(): built once, then     *)
(* cached).                                                                 *)
NeverRebuilt ==
  \A s \in Sockets :
    step[s] = "builds" => ClipOf[s] \notin scenes /\ files[ClipOf[s]] # "whole"
=============================================================================
