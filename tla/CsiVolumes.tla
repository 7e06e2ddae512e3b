------------------------------ MODULE CsiVolumes ------------------------------
(***************************************************************************)
(* The volumes of a task: the node engine, whose creation routines publish   *)
(* them over RPC before the container starts and unpublish them afterwards,  *)
(* and the hostpath plugin with its mount tracker, the file the tracker      *)
(* keeps, its start-up and its cleanup worker.                               *)
(*                                                                         *)
(* Simplifications.                                                         *)
(* - A volume stands for its target path: publishDir makes the path of the   *)
(*   driver, the service, the instance and the volume.  The deployments are  *)
(*   those of one task, so they share the targets, the entry in killQueue    *)
(*   and the one in mountedVolumes.                                          *)
(* - The hostpath plugin advertises no STAGE_UNSTAGE_VOLUME, so the staging  *)
(*   branches of mountSingle and unmountSingle are not taken.                *)
(* - AddMount saves while it holds the tracker's lock, so nothing changes    *)
(*   the records between its snapshot and its write: it is one step.  The    *)
(*   other saves hold no lock: snapshot and write are two steps.             *)
(* - A data race on the records map ends the Go process: that is Crash.      *)
(***************************************************************************)
EXTENDS Naturals, FiniteSets, Sequences

CONSTANTS
  Volumes,     \* the volumes of the service
  Deployments, \* the creation routines that are started for the task
  Slots,       \* RPC handlers that may be at work at the same time
  QueueCap,    \* capacity of cleanupCh
  Backoff,     \* the number of ticks after which a failed unmount is retried
  GiveUp,      \* the number of attempts after which the worker gives up
  MaxCrashes,  \* bound on the ends of the plugin
  None         \* no call, no volume, no readable file

ASSUME CsiAssumption ==
  /\ QueueCap \in Nat \ {0}
  /\ Backoff \in Nat /\ GiveUp \in Nat /\ 0 < Backoff /\ Backoff < GiveUp
  /\ MaxCrashes \in Nat
  /\ Volumes # {}
  /\ None \notin Volumes \cup Slots \cup Nat \cup {"worker", "main"}
  /\ \A S \in SUBSET Volumes : S # None
  /\ "worker" \notin Slots /\ "main" \notin Slots

VARIABLES
  \* the node engine
  registered, \* is the plugin in the registry
  engine,     \* deployment -> what its routine is doing
  left,       \* deployment -> volumes the loop of Mount- or UnmountVolumes has left
  call,       \* deployment -> handler of the RPC its routine waits for
  recorded,   \* has the task an entry, of all its volumes, in mountedVolumes
  \* the plugin
  up,         \* does it run
  orphans,    \* the volumes the loop of CleanupOrphanedMounts has left
  mounts,     \* MountTracker.mounts
  queue,      \* cleanupCh
  retry,      \* the worker's retryQueue: volume -> attempts, None if not in it
  todo,       \* the volumes its range loop has left
  hpc, vol, snap, \* actor -> step, volume, snapshot of the records
  crashes,    \* number of ends of the plugin so far
  \* the machine
  file,       \* the records in mounts.json, None if it cannot be parsed
  dir,        \* the target directories that exist
  depth,      \* volume -> number of mounts on its target
  \* what has happened
  wiped,      \* the volumes whose host directory RemoveAll has emptied
  cutOff,     \* those a handler publishes that nobody waits for, or unchecked
  dropped,    \* those whose retry was given up or did not fit the queue
  disowned    \* those the engine lost without an unpublish, until mounted again

engineVars  == <<registered, engine, left, call, recorded, disowned>>
pluginVars  == <<up, orphans, crashes>>
trackerVars == <<mounts, queue, retry, todo>>
handlerVars == <<hpc, vol, snap>>
kernelVars  == <<dir, depth, wiped>>
vars == <<engineVars, pluginVars, trackerVars, handlerVars, file, kernelVars,
          cutOff, dropped>>

Worker == "worker"
Main   == "main"
Actors == Slots \cup {Worker, Main}
PublishSteps   == {"publish", "probe", "mount", "add"}
UnpublishSteps == {"unpublish", "unmount", "remove", "delete", "write"}
Steps == {"idle", "clean", "ok", "error"} \cup PublishSteps \cup UnpublishSteps

\* What a routine does: while it is entered in killQueue, and after that.
Entered  == {"mounting", "reverting", "running"}
Routines == {"new", "exited", "unmounting", "done"} \cup Entered

TypeOK ==
  /\ registered \in BOOLEAN /\ recorded \in BOOLEAN /\ up \in BOOLEAN
  /\ engine \in [Deployments -> Routines]
  /\ left \in [Deployments -> SUBSET Volumes]
  /\ call \in [Deployments -> Slots \cup {None}]
  /\ crashes \in 0 .. MaxCrashes
  /\ orphans \subseteq Volumes /\ mounts \subseteq Volumes
  /\ queue \in Seq(Volumes) /\ Len(queue) <= QueueCap
  /\ retry \in [Volumes -> (0 .. GiveUp - 1) \cup {None}]
  /\ todo \subseteq {v \in Volumes : retry[v] # None}
  /\ hpc \in [Actors -> Steps]
  /\ vol \in [Actors -> Volumes \cup {None}]
  /\ snap \in [Actors -> SUBSET Volumes]
  /\ file \in (SUBSET Volumes) \cup {None}
  /\ dir \subseteq Volumes
  /\ depth \in [Volumes -> Nat]
  /\ wiped \subseteq Volumes /\ cutOff \subseteq Volumes
  /\ dropped \subseteq Volumes /\ disowned \subseteq Volumes

Init ==
  /\ registered = TRUE /\ recorded = FALSE
  /\ engine = [d \in Deployments |-> "new"]
  /\ left = [d \in Deployments |-> {}] /\ call = [d \in Deployments |-> None]
  /\ up = TRUE /\ orphans = {} /\ crashes = 0
  /\ mounts = {} /\ queue = <<>> /\ retry = [v \in Volumes |-> None] /\ todo = {}
  /\ hpc = [a \in Actors |-> "idle"] /\ vol = [a \in Actors |-> None]
  /\ snap = [a \in Actors |-> {}]
  /\ file = {} /\ dir = {} /\ depth = [v \in Volumes |-> 0]
  /\ wiped = {} /\ cutOff = {} /\ dropped = {} /\ disowned = {}

Goto(a, step) == hpc' = [hpc EXCEPT ![a] = step]

\* An actor is done with its volume.
Done(a) == Goto(a, "idle") /\ vol' = [vol EXCEPT ![a] = None]

\* The plugin listens once its main has cleaned up.
Serving == up /\ hpc[Main] = "idle"

\* The loops of the engine go through the service's list of volumes in its order.
NextOf(S) == CHOOSE v \in S : TRUE

-----------------------------------------------------------------------------
(* The node engine.                                                          *)

EngineGoto(d, pc) == engine' = [engine EXCEPT ![d] = pc]

\* A routine starts, at MountVolumes: killQueue had no entry of the task.
Deploy(d) ==
  /\ engine[d] = "new"
  /\ \A e \in Deployments : engine[e] \notin Entered
  /\ EngineGoto(d, "mounting") /\ left' = [left EXCEPT ![d] = Volumes]
  /\ UNCHANGED <<registered, call, recorded, pluginVars, trackerVars, handlerVars, file,
                 kernelVars, cutOff, dropped, disowned>>

\* MountVolumes fails: the routine unmounts what was mounted so far.
MountFails(d) ==
  EngineGoto(d, "reverting") /\ left' = [left EXCEPT ![d] = Volumes \ @]

\* An RPC begins, in a handler of its own.
Send(d, s, v, step) ==
  /\ hpc[s] = "idle"
  /\ call' = [call EXCEPT ![d] = s]
  /\ hpc' = [hpc EXCEPT ![s] = step]
  /\ vol' = [vol EXCEPT ![s] = v]
  /\ UNCHANGED snap

\* mountSingle up to the RPC: no such plugin, no connection, or the call.
MountNext(d) ==
  /\ engine[d] = "mounting" /\ call[d] = None
  /\ LET v == NextOf(left[d]) IN
       \/ /\ ~registered
          /\ MountFails(d)
          /\ UNCHANGED <<call, handlerVars, dir>>
       \/ /\ registered /\ ~Serving
          /\ MountFails(d)
          /\ dir' = dir \cup {v}
          /\ UNCHANGED <<call, handlerVars>>
       \/ /\ registered /\ Serving
          /\ dir' = dir \cup {v}
          /\ \E s \in Slots : Send(d, s, v, "publish")
          /\ UNCHANGED <<engine, left>>
  /\ UNCHANGED <<registered, recorded, pluginVars, trackerVars, file, depth, wiped,
                 cutOff, dropped, disowned>>

\* The rest of mountSingle.  With the last volume mounted, the routine enters
\* them all in mountedVolumes and goes on to start the container.
MountAnswered(d) ==
  /\ engine[d] = "mounting" /\ call[d] # None
  /\ \/ /\ hpc[call[d]] = "ok"
        /\ left' = [left EXCEPT ![d] = @ \ {vol[call[d]]}]
        /\ EngineGoto(d, IF left'[d] = {} THEN "running" ELSE "mounting")
        /\ recorded' = (recorded \/ left'[d] = {})
        /\ disowned' = disowned \ {vol[call[d]]}
     \/ /\ hpc[call[d]] = "error"
        /\ MountFails(d) /\ UNCHANGED <<recorded, disowned>>
  /\ Done(call[d]) /\ call' = [call EXCEPT ![d] = None]
  /\ UNCHANGED <<registered, pluginVars, trackerVars, snap, file, kernelVars, cutOff,
                 dropped>>

\* The container is killed, or cannot be made or started: the routine leaves
\* killQueue and ends.  It does not unmount; the entry in mountedVolumes stays.
EndMounted(d) ==
  /\ engine[d] = "running"
  /\ EngineGoto(d, "done")
  /\ UNCHANGED <<registered, left, call, recorded, pluginVars, trackerVars, handlerVars,
                 file, kernelVars, cutOff, dropped, disowned>>

\* The container ends by itself: the routine leaves killQueue first.
ContainerExits(d) ==
  /\ engine[d] = "running"
  /\ EngineGoto(d, "exited")
  /\ UNCHANGED <<registered, left, call, recorded, pluginVars, trackerVars, handlerVars,
                 file, kernelVars, cutOff, dropped, disowned>>

\* Then it takes the task's entry in mountedVolumes, whoever made it, and unmounts.
TakeVolumes(d) ==
  /\ engine[d] = "exited"
  /\ recorded' = FALSE
  /\ IF recorded
     THEN EngineGoto(d, "unmounting") /\ left' = [left EXCEPT ![d] = Volumes]
     ELSE EngineGoto(d, "done") /\ UNCHANGED left
  /\ UNCHANGED <<registered, call, pluginVars, trackerVars, handlerVars, file,
                 kernelVars, cutOff, dropped, disowned>>

\* os.Remove(TargetPath): removes the directory unless something is mounted there.
EngineRemove(v) == dir' = IF depth[v] = 0 THEN dir \ {v} ELSE dir

\* unmountSingle up to the RPC.  An unmount that cannot be asked for is skipped.
UnmountNext(d) ==
  /\ engine[d] \in {"reverting", "unmounting"} /\ call[d] = None /\ left[d] # {}
  /\ LET v == NextOf(left[d]) IN
       \/ /\ ~registered
          /\ left' = [left EXCEPT ![d] = @ \ {v}] /\ disowned' = disowned \cup {v}
          /\ UNCHANGED <<call, handlerVars, dir>>
       \/ /\ registered /\ ~Serving
          /\ left' = [left EXCEPT ![d] = @ \ {v}]
          /\ EngineRemove(v)
          /\ UNCHANGED <<call, handlerVars, disowned>>
       \/ /\ registered /\ Serving
          /\ \E s \in Slots : Send(d, s, v, "unpublish")
          /\ UNCHANGED <<left, dir, disowned>>
  /\ UNCHANGED <<registered, engine, recorded, pluginVars, trackerVars, file, depth,
                 wiped, cutOff, dropped>>

\* The rest of unmountSingle; errors are only logged.
UnmountAnswered(d) ==
  /\ engine[d] \in {"reverting", "unmounting"} /\ call[d] # None
  /\ hpc[call[d]] \in {"ok", "error"}
  /\ left' = [left EXCEPT ![d] = @ \ {vol[call[d]]}]
  /\ EngineRemove(vol[call[d]])
  /\ Done(call[d]) /\ call' = [call EXCEPT ![d] = None]
  /\ UNCHANGED <<registered, engine, recorded, pluginVars, trackerVars, snap, file,
                 depth, wiped, cutOff, dropped, disowned>>

\* UnmountVolumes is done and the routine ends, after revert if mounting failed.
Unmounted(d) ==
  /\ engine[d] \in {"reverting", "unmounting"} /\ call[d] = None /\ left[d] = {}
  /\ EngineGoto(d, "done")
  /\ UNCHANGED <<registered, left, call, recorded, pluginVars, trackerVars, handlerVars,
                 file, kernelVars, cutOff, dropped, disowned>>

\* Nobody waits any more for the handlers in S.  Those in lost never get their
\* request; the others, which ignore their context, go on.
Abandon(S, lost) ==
  /\ \A s \in lost : hpc[s] \in {"publish", "unpublish"}
  /\ hpc' = [a \in Actors |-> IF a \in lost THEN "idle" ELSE hpc[a]]
  /\ vol' = [a \in Actors |-> IF a \in lost THEN None ELSE vol[a]]
  /\ cutOff' = cutOff \cup {vol[s] : s \in {r \in S \ lost : hpc[r] \in PublishSteps}}
  /\ UNCHANGED snap

\* The two minutes of the context pass, or StopAll closes the connection: the
\* routine goes on with an error.
CallTimesOut(d) ==
  /\ call[d] # None /\ hpc[call[d]] \notin {"ok", "error"}
  /\ \E lost \in SUBSET {call[d]} :
       /\ Abandon({call[d]}, lost)
       /\ IF engine[d] = "mounting"
          THEN MountFails(d) /\ UNCHANGED <<dir, disowned>>
          ELSE /\ left' = [left EXCEPT ![d] = @ \ {vol[call[d]]}]
               /\ EngineRemove(vol[call[d]])
               /\ disowned' = disowned \cup {vol[s] : s \in lost}
               /\ UNCHANGED engine
  /\ call' = [call EXCEPT ![d] = None]
  /\ UNCHANGED <<registered, recorded, pluginVars, trackerVars, file, depth, wiped,
                 dropped>>

\* A handler nobody waits for returns.
LateReturn(s) ==
  /\ hpc[s] \in {"ok", "error"} /\ \A d \in Deployments : call[d] # s
  /\ Done(s)
  /\ UNCHANGED <<engineVars, pluginVars, trackerVars, snap, file, kernelVars, cutOff,
                 dropped>>

\* The volumes the engine has in mountedVolumes or in a routine's list.
Known ==
  {v \in Volumes :
     \/ recorded
     \/ \E d \in Deployments :
          \/ engine[d] = "mounting" /\ v \notin left[d]
          \/ engine[d] \in {"reverting", "unmounting"} /\ v \in left[d]}

\* The engine is told to stop: StopAll empties the registry before the runtimes'
\* Stop ends the containers.
EngineStop ==
  /\ registered
  /\ registered' = FALSE
  /\ UNCHANGED <<engine, left, call, recorded, pluginVars, trackerVars, handlerVars,
                 file, kernelVars, cutOff, dropped, disowned>>

\* The process ends, after its stop or by a crash, and a new one starts:
\* InitFromConfig registers the plugin if it answers.
EngineRestart ==
  LET waited == {call[d] : d \in {e \in Deployments : call[e] # None}} IN
  /\ registered' \in {Serving, FALSE}
  /\ engine' = [d \in Deployments |-> IF engine[d] = "new" THEN "new" ELSE "done"]
  /\ left' = [d \in Deployments |-> {}]
  /\ call' = [d \in Deployments |-> None]
  /\ recorded' = FALSE
  /\ \E lost \in SUBSET waited : Abandon(waited, lost)
  /\ disowned' = disowned \cup Known \cup {vol[s] : s \in waited}
  /\ UNCHANGED <<pluginVars, trackerVars, file, kernelVars, dropped>>

-----------------------------------------------------------------------------
(* Unmounting and saving, by a handler or by the worker.                     *)

\* syscall.Unmount: fails with EINVAL where nothing is mounted, may fail with
\* EBUSY; a path that does not exist counts as unmounted.
UnmountOk(v) ==
  \/ v \notin dir /\ UNCHANGED depth
  \/ v \in dir /\ depth[v] > 0 /\ depth' = [depth EXCEPT ![v] = @ - 1]
UnmountErr(v) == v \in dir /\ UNCHANGED depth

\* os.RemoveAll: where something is still mounted it empties the mounted host
\* directory and then fails on the mount point.
RemoveOk(v)  == depth[v] = 0 /\ dir' = dir \ {v} /\ UNCHANGED wiped
RemoveErr(v) == depth[v] > 0 /\ wiped' = wiped \cup {v} /\ UNCHANGED dir

\* The record goes, and save takes its snapshot.
DeleteRecord(a, v) ==
  /\ mounts' = mounts \ {v}
  /\ snap' = [snap EXCEPT ![a] = mounts']
  /\ Goto(a, "write")

\* What a save may leave in the file: the records, the old content if it fails,
\* garbage if another save writes the same temporary file.
Saved(a, records) ==
  {records, file} \cup (IF \E b \in Actors \ {a} : hpc[b] = "write" THEN {None} ELSE {})

\* The mutation of Enqueue: the queue takes whatever comes.
EnqueueAlways(v) == queue' = Append(queue, v) /\ UNCHANGED dropped

\* The select on the full queue drops the volume.
Enqueue(v) ==
  IF Len(queue) < QueueCap THEN queue' = Append(queue, v) /\ UNCHANGED dropped
                           ELSE dropped' = dropped \cup {v} /\ UNCHANGED queue

-----------------------------------------------------------------------------
(* The RPC handlers of the plugin.                                           *)

\* What the tracker and the mount table know of a volume.
IsMounted(v)    == v \in mounts
IsMountPoint(v) == depth[v] > 0

\* NodePublishVolume: the directories, and the look into the tracker.
Publish(s) ==
  /\ hpc[s] = "publish"
  /\ \/ Goto(s, "error") /\ UNCHANGED dir
     \/ /\ dir' = dir \cup {vol[s]}
        /\ Goto(s, IF IsMounted(vol[s]) THEN "ok" ELSE "probe")
  /\ UNCHANGED <<engineVars, pluginVars, trackerVars, vol, snap, file, depth, wiped,
                 cutOff, dropped>>

\* The mutation of Probe: the mount table is not looked at.
ProbeSkipped(s) ==
  /\ hpc[s] = "probe"
  /\ Goto(s, "mount")
  /\ UNCHANGED <<engineVars, pluginVars, trackerVars, vol, snap, file, kernelVars,
                 cutOff, dropped>>

\* isMountPoint: a mount that is not tracked is adopted; if the mount table
\* cannot be read the volume is mounted all the same.
Probe(s) ==
  /\ hpc[s] = "probe"
  /\ \/ /\ IsMountPoint(vol[s])
        /\ mounts' = mounts \cup {vol[s]}
        /\ file' \in Saved(s, mounts')
        /\ Goto(s, "ok")
        /\ UNCHANGED cutOff
     \/ /\ ~IsMountPoint(vol[s])
        /\ Goto(s, "mount")
        /\ UNCHANGED <<mounts, file, cutOff>>
     \/ /\ Goto(s, "mount")
        /\ cutOff' = cutOff \cup {vol[s]}
        /\ UNCHANGED <<mounts, file>>
  /\ UNCHANGED <<engineVars, pluginVars, queue, retry, todo, vol, snap, kernelVars,
                 dropped>>

\* syscall.Mount, which needs the target directory.
Mount(s) ==
  /\ hpc[s] = "mount"
  /\ \/ Goto(s, "error") /\ UNCHANGED depth
     \/ /\ vol[s] \in dir
        /\ depth' = [depth EXCEPT ![vol[s]] = @ + 1]
        /\ Goto(s, "add")
  /\ UNCHANGED <<engineVars, pluginVars, trackerVars, vol, snap, file, dir, wiped,
                 cutOff, dropped>>

\* AddMount, with its save.
AddMount(s) ==
  /\ hpc[s] = "add"
  /\ mounts' = mounts \cup {vol[s]}
  /\ file' \in Saved(s, mounts')
  /\ Goto(s, "ok")
  /\ UNCHANGED <<engineVars, pluginVars, queue, retry, todo, vol, snap, kernelVars,
                 cutOff, dropped>>

\* RemoveMount: nothing to do without a record.
RemoveMount(s) ==
  /\ hpc[s] = "unpublish"
  /\ Goto(s, IF IsMounted(vol[s]) THEN "unmount" ELSE "ok")
  /\ UNCHANGED <<engineVars, pluginVars, trackerVars, vol, snap, file, kernelVars,
                 cutOff, dropped>>

\* The mutation of HandlerUnmount: a failed unmount is only logged.
HandlerUnmountOnce(s) ==
  /\ hpc[s] = "unmount"
  /\ \/ UnmountOk(vol[s]) /\ Goto(s, "remove")
     \/ UnmountErr(vol[s]) /\ Goto(s, "ok")
  /\ UNCHANGED <<engineVars, pluginVars, trackerVars, vol, snap, file, dir, wiped,
                 cutOff, dropped>>

\* attemptUnmount for a handler; if it fails the worker is to retry, and the RPC
\* succeeds all the same.
HandlerUnmount(s) ==
  /\ hpc[s] = "unmount"
  /\ \/ UnmountOk(vol[s]) /\ Goto(s, "remove") /\ UNCHANGED <<queue, dropped>>
     \/ UnmountErr(vol[s]) /\ Enqueue(vol[s]) /\ Goto(s, "ok")
  /\ UNCHANGED <<engineVars, pluginVars, mounts, retry, todo, vol, snap, file, dir,
                 wiped, cutOff>>

HandlerRemove(s) ==
  /\ hpc[s] = "remove"
  /\ \/ RemoveOk(vol[s]) /\ Goto(s, "delete") /\ UNCHANGED <<queue, dropped>>
     \/ RemoveErr(vol[s]) /\ Enqueue(vol[s]) /\ Goto(s, "ok")
  /\ UNCHANGED <<engineVars, pluginVars, mounts, retry, todo, vol, snap, file, depth,
                 cutOff>>

HandlerDelete(s) ==
  /\ hpc[s] = "delete"
  /\ DeleteRecord(s, vol[s])
  /\ UNCHANGED <<engineVars, pluginVars, queue, retry, todo, vol, file, kernelVars,
                 cutOff, dropped>>

HandlerSave(s) ==
  /\ hpc[s] = "write"
  /\ file' \in Saved(s, snap[s])
  /\ Goto(s, "ok") /\ snap' = [snap EXCEPT ![s] = {}]
  /\ UNCHANGED <<engineVars, pluginVars, trackerVars, vol, kernelVars, cutOff,
                 dropped>>

-----------------------------------------------------------------------------
(* The cleanup worker.                                                       *)

WorkerIdle == up /\ hpc[Worker] = "idle"

\* A volume comes out of cleanupCh.
WorkerReceive ==
  /\ WorkerIdle /\ todo = {} /\ queue # <<>>
  /\ retry' = [retry EXCEPT ![Head(queue)] = 0]
  /\ queue' = Tail(queue)
  /\ UNCHANGED <<engineVars, pluginVars, mounts, todo, handlerVars, file, kernelVars,
                 cutOff, dropped>>

\* The ticker: the loop over retryQueue begins.
WorkerTick ==
  /\ WorkerIdle /\ todo = {}
  /\ todo' = {v \in Volumes : retry[v] # None}
  /\ todo' # {}
  /\ UNCHANGED <<engineVars, pluginVars, mounts, queue, retry, handlerVars, file,
                 kernelVars, cutOff, dropped>>

\* After a failed attempt the ticks up to Backoff only count.
Waiting(v) == 0 < retry[v] /\ retry[v] < Backoff

\* A failed attempt: counted, and given up in the end.
AttemptFailed(v) ==
  /\ todo' = todo \ {v}
  /\ IF retry[v] + 1 >= GiveUp
     THEN retry' = [retry EXCEPT ![v] = None] /\ dropped' = dropped \cup {v}
     ELSE retry' = [retry EXCEPT ![v] = @ + 1] /\ UNCHANGED dropped

WorkerBackoff ==
  /\ WorkerIdle
  /\ \E v \in todo :
       /\ Waiting(v)
       /\ retry' = [retry EXCEPT ![v] = @ + 1]
       /\ todo' = todo \ {v}
  /\ UNCHANGED <<engineVars, pluginVars, mounts, queue, handlerVars, file, kernelVars,
                 cutOff, dropped>>

WorkerUnmount ==
  /\ WorkerIdle
  /\ \E v \in todo :
       /\ ~Waiting(v)
       /\ \/ /\ UnmountOk(v)
             /\ Goto(Worker, "remove") /\ vol' = [vol EXCEPT ![Worker] = v]
             /\ UNCHANGED <<retry, todo, dropped>>
          \/ UnmountErr(v) /\ AttemptFailed(v) /\ UNCHANGED <<hpc, vol>>
  /\ UNCHANGED <<engineVars, pluginVars, mounts, queue, snap, file, dir, wiped, cutOff>>

WorkerRemove ==
  /\ hpc[Worker] = "remove"
  /\ \/ /\ RemoveOk(vol[Worker])
        /\ Goto(Worker, "delete")
        /\ retry' = [retry EXCEPT ![vol[Worker]] = None]
        /\ todo' = todo \ {vol[Worker]}
        /\ UNCHANGED <<vol, dropped>>
     \/ RemoveErr(vol[Worker]) /\ AttemptFailed(vol[Worker]) /\ Done(Worker)
  /\ UNCHANGED <<engineVars, pluginVars, mounts, queue, snap, file, depth, cutOff>>

WorkerDelete ==
  /\ hpc[Worker] = "delete"
  /\ DeleteRecord(Worker, vol[Worker])
  /\ UNCHANGED <<engineVars, pluginVars, queue, retry, todo, vol, file, kernelVars,
                 cutOff, dropped>>

WorkerSave ==
  /\ hpc[Worker] = "write"
  /\ file' \in Saved(Worker, snap[Worker])
  /\ Done(Worker)
  /\ snap' = [snap EXCEPT ![Worker] = {}]
  /\ UNCHANGED <<engineVars, pluginVars, trackerVars, kernelVars, cutOff,
                 dropped>>

-----------------------------------------------------------------------------
(* The plugin ends and starts.                                               *)

\* Memory and handlers are gone; the calls that were waiting fail.
Lost ==
  LET waited == {call[d] : d \in Deployments} IN
  /\ up' = FALSE /\ orphans' = {}
  /\ mounts' = {} /\ queue' = <<>> /\ retry' = [v \in Volumes |-> None] /\ todo' = {}
  /\ hpc' = [a \in Actors |-> IF a \notin waited THEN "idle"
                             ELSE IF hpc[a] = "ok" THEN "ok" ELSE "error"]
  /\ vol' = [a \in Actors |-> IF a \in waited THEN vol[a] ELSE None]
  /\ snap' = [a \in Actors |-> {}]
  /\ UNCHANGED <<engineVars, kernelVars, cutOff, dropped>>

Crash ==
  /\ up /\ crashes < MaxCrashes
  /\ crashes' = crashes + 1
  /\ UNCHANGED file
  /\ Lost

\* SIGTERM: GracefulStop lets the handlers finish, Close the worker, and saves.
Shutdown ==
  /\ Serving /\ crashes < MaxCrashes
  /\ \A s \in Slots : hpc[s] = "idle"
  /\ hpc[Worker] = "idle" /\ todo = {}
  /\ crashes' = crashes + 1
  /\ file' \in {mounts, file}
  /\ Lost

\* load: a file that cannot be read or parsed counts as none.
Loaded == IF file = None THEN {} ELSE file

\* main: NewMountTracker loads the records and starts the worker, then
\* CleanupOrphanedMounts begins, which has nothing to do without records.
Restart ==
  /\ ~up
  /\ up' = TRUE
  /\ mounts' = Loaded /\ orphans' = Loaded
  /\ Goto(Main, IF Loaded = {} THEN "idle" ELSE "clean")
  /\ UNCHANGED <<engineVars, crashes, queue, retry, todo, vol, snap, file, kernelVars,
                 cutOff, dropped>>

\* One round of the loop of CleanupOrphanedMounts: attemptUnmount, in one step as
\* nobody else mounts or unmounts this volume now.  The target is gone, or its
\* only mount goes; or the unmount fails; or RemoveAll does, on a mount below.
CleanupOrphan ==
  \E v \in orphans :
    /\ orphans' = orphans \ {v}
    /\ \/ /\ v \notin dir \/ depth[v] = 1
          /\ depth' = [depth EXCEPT ![v] = IF v \in dir THEN 0 ELSE @]
          /\ dir' = dir \ {v}
          /\ mounts' = mounts \ {v}
          /\ UNCHANGED <<queue, dropped, wiped>>
       \/ /\ v \in dir
          /\ \/ UNCHANGED <<depth, wiped>>
             \/ /\ depth[v] > 1
                /\ depth' = [depth EXCEPT ![v] = @ - 1]
                /\ wiped' = wiped \cup {v}
          /\ Enqueue(v)
          /\ UNCHANGED <<dir, mounts>>
    /\ UNCHANGED <<engineVars, up, crashes, retry, todo, handlerVars, file, cutOff>>

\* Its save at the end, the snapshot and the write; then the plugin serves.
CleanupDone ==
  /\ hpc[Main] = "clean" /\ orphans = {}
  /\ snap' = [snap EXCEPT ![Main] = mounts]
  /\ Goto(Main, "write")
  /\ UNCHANGED <<engineVars, pluginVars, trackerVars, vol, file, kernelVars, cutOff,
                 dropped>>

CleanupSave ==
  /\ hpc[Main] = "write"
  /\ file' \in Saved(Main, snap[Main])
  /\ Goto(Main, "idle") /\ snap' = [snap EXCEPT ![Main] = {}]
  /\ UNCHANGED <<engineVars, pluginVars, trackerVars, vol, kernelVars, cutOff, dropped>>

-----------------------------------------------------------------------------
RoutineStep(d) ==
  \/ Deploy(d) \/ MountNext(d) \/ MountAnswered(d) \/ EndMounted(d)
  \/ ContainerExits(d) \/ TakeVolumes(d) \/ UnmountNext(d) \/ UnmountAnswered(d)
  \/ Unmounted(d) \/ CallTimesOut(d)

HandlerStep(s) ==
  \/ Publish(s) \/ Probe(s) \/ Mount(s) \/ AddMount(s) \/ RemoveMount(s)
  \/ HandlerUnmount(s) \/ HandlerRemove(s) \/ HandlerDelete(s) \/ HandlerSave(s)
  \/ LateReturn(s)

WorkerStep ==
  \/ WorkerReceive \/ WorkerTick \/ WorkerBackoff \/ WorkerUnmount \/ WorkerRemove
  \/ WorkerDelete \/ WorkerSave

MainStep == Restart \/ CleanupOrphan \/ CleanupDone \/ CleanupSave

Next ==
  \/ \E d \in Deployments : RoutineStep(d)
  \/ EngineStop \/ EngineRestart
  \/ \E s \in Slots : HandlerStep(s)
  \/ WorkerStep \/ MainStep
  \/ Crash \/ Shutdown

Spec == Init /\ [][Next]_vars

-----------------------------------------------------------------------------
\* NodePublishVolume asks the tracker and the mount table "to prevent duplicate
\* mounts": there are never two mounts on a target, with the unmounts of an
\* earlier deployment, the worker's retries, the start-up's clean-up and ends of
\* the plugin between a mount and its record going on meanwhile; unless a publish
\* nobody waits for goes on, or the table could not be read.
OneMountPerTarget == \A v \in Volumes : depth[v] > 1 => v \in cutOff

\* NodeUnpublishVolume "unmounts the bind-mount at TargetPath and removes the
\* now-empty directory": RemoveAll never runs while the host directory is mounted
\* at the target, as it would delete the files of the host.  Not so: the worker
\* keeps a retry for a volume that was unpublished in the meantime, takes the
\* missing path for unmounted, and removes what a new deployment just mounted.
HostDataKept == wiped \subseteq cutOff

\* The volumes some call, the worker or the start-up is still busy with.
OnItsWay ==
  orphans \cup {queue[i] : i \in DOMAIN queue}
    \cup {v \in Volumes : retry[v] # None}
    \cup {vol[a] : a \in {b \in Actors \ {Main} : hpc[b] # "idle"}}

\* A mount the tracker has is known to the engine or on its way to be unmounted,
\* unless the worker gave up on it, the queue was full, a publish nobody waited
\* for made it, or the engine ended or could not ask for its unmount.  Known to
\* the engine is not unmounted by the engine: the entry a killed or failed routine
\* leaves in mountedVolumes is taken by a later routine of the task whose
\* container ends by itself, and by nobody if there is none.
NothingForgotten ==
  mounts \subseteq Known \cup OnItsWay \cup dropped \cup cutOff \cup disowned
===============================================================================
