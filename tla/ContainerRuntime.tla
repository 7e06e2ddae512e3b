--------------------------- MODULE ContainerRuntime ---------------------------
(***************************************************************************)
(* The containerd runtime of a worker's node engine: the MQTT handlers that *)
(* start a deployment or an undeployment, ContainerRuntime.Deploy and       *)
(* Undeploy, the creation routine that accompanies a container through its  *)
(* lifetime, the part of ResourceMonitoring that changes state, Stop, and a *)
(* crash and restart of the engine.                                         *)
(*                                                                         *)
(* Every deployment message is one goroutine plus, once it is registered,   *)
(* one creation routine; every undeployment message is one goroutine.  A    *)
(* step is what one goroutine does between two accesses to state that the   *)
(* others share: the kill queue, the CSI map, containerd, the network and   *)
(* the published volumes.                                                   *)
(*                                                                         *)
(* Simplifications.                                                         *)
(* - A task id stands for the service name and instance it is made from;    *)
(*   the container id is a function of it, so containerd's objects are      *)
(*   indexed by task.                                                       *)
(* - A call to containerd, to a CSI plugin or to the NetManager may fail    *)
(*   while a container is being created.  Clean-up calls only fail when     *)
(*   their object is gone.                                                  *)
(* - Snapshots, log files, GPU selection and OCI options are left out: they *)
(*   are further reasons for a creation to fail.                            *)
(***************************************************************************)
EXTENDS Naturals

CONSTANTS
  Tasks,         \* task ids (service name and instance number)
  Deployments,   \* deploy messages received from the cluster
  Undeployments, \* delete messages received from the cluster
  TaskOf,        \* the task a message is about
  Volumes,       \* the tasks whose service asks for CSI volumes
  OneShot,       \* the tasks whose service is one-shot
  CustomRuntime, \* the tasks that ask for an additional OCI runtime
  Overlay,       \* is the overlay network enabled
  MaxRestarts,   \* bound on the restarts of the node engine
  None           \* no deployment

ASSUME RuntimeAssumption ==
  /\ TaskOf \in [Deployments \cup Undeployments -> Tasks]
  /\ Deployments \cap Undeployments = {}
  /\ Volumes \subseteq Tasks
  /\ OneShot \subseteq Tasks
  /\ CustomRuntime \subseteq Tasks
  /\ Overlay \in BOOLEAN
  /\ MaxRestarts \in Nat
  /\ None \notin Deployments \cup Undeployments \cup Tasks

VARIABLES
  killQueue,      \* task -> the deployment whose kill channel is registered
  killChannel,    \* deployment -> does its one-place kill channel hold a value
  mountedVolumes, \* the tasks with an entry in the CSI map
  instantiating,  \* the tasks in the registry of services being instantiated
  hpc,            \* where the deploy handler of a deployment is
  rpc,            \* where its creation routine is
  upc,            \* where the delete handler of an undeployment is
  target,         \* the kill channel an undeployment, or Stop, writes to
  spc,            \* where Stop is
  toStop,         \* the tasks Stop still has to undeploy, later to remove
  atStop,         \* history: the deployments that had run when Stop ended its wait
  doomed,         \* the task whose container ResourceMonitoring is to remove
  sent,           \* message -> the service statuses reported for it
  last,           \* message -> the one reported last
  container,      \* containerd: task -> the deployment that made its container
  ctask,          \* containerd: task -> state of the container's task
  aged,           \* the tasks whose container is older than ten seconds
  published,      \* the tasks whose volumes are published on the host
  attached,       \* the tasks with a network attachment
  restarts        \* how often the engine was restarted

goVars   == <<killQueue, killChannel, mountedVolumes, instantiating>>
hostVars == <<container, ctask, aged, published, attached>>
stopVars == <<spc, toStop, atStop>>
reports  == <<sent, last>>
others   == <<doomed, restarts>>
vars == <<goVars, hostVars, stopVars, hpc, rpc, upc, target, reports, others>>

Status == {"INSTANTIATION", "CREATED", "FAILED", "DEAD", "COMPLETED", "UNDEPLOYED"}

HandlerPc == {"idle", "pull", "register", "await", "started", "failed", "done"}
RoutinePc == {"none", "mount", "create", "task", "attach", "start", "run",
              "killed", "k_remove", "exited", "x_remove", "x_take",
              "x_unmount", "report_dead", "report_done",
              "revert", "revert_task", "unregister", "unregister_task",
              "defer", "done"}
UndeployPc == {"idle", "send", "done", "error"}
StopPc == {"idle", "undeploy", "send", "wait", "force", "close", "closed",
           "crashed"}

\* The engine's process is running.
Up == spc \notin {"closed", "crashed"}

\* The routine of d holds the kill queue entry of its task.
Registered(d) ==
  rpc[d] \in {"mount", "create", "task", "attach", "start", "run", "killed",
              "exited", "revert", "revert_task", "unregister", "unregister_task"}

\* The routine of d has begun and has not run its deferred calls to the end.
Live(d) == rpc[d] \notin {"none", "done"}

DeploymentsOf(t) == {d \in Deployments : TaskOf[d] = t}

Init ==
  /\ killQueue = [t \in Tasks |-> None]
  /\ killChannel = [d \in Deployments |-> FALSE]
  /\ mountedVolumes = {}
  /\ instantiating = {}
  /\ hpc = [d \in Deployments |-> "idle"]
  /\ rpc = [d \in Deployments |-> "none"]
  /\ upc = [u \in Undeployments |-> "idle"]
  /\ target = [u \in Undeployments \cup {None} |-> None]
  /\ spc = "idle"
  /\ toStop = {}
  /\ atStop = {}
  /\ doomed = None
  /\ sent = [m \in Deployments \cup Undeployments |-> {}]
  /\ last = [m \in Deployments \cup Undeployments |-> "none"]
  /\ container = [t \in Tasks |-> None]
  /\ ctask = [t \in Tasks |-> "none"]
  /\ aged = {}
  /\ published = {}
  /\ attached = {}
  /\ restarts = 0

-------------------------------------------------------------------------------
(* The deploy handler and ContainerRuntime.Deploy *)

Goto(pc, d, l) == pc' = [pc EXCEPT ![d] = l]

\* ReportServiceStatus publishes the status; the broker is outside the model.
Send(m, status) ==
  /\ sent' = [sent EXCEPT ![m] = @ \cup {status}]
  /\ last' = [last EXCEPT ![m] = status]

\* The callback accepts the message: it reports INSTANTIATION, tracks the
\* service and leaves the rest to a goroutine.
ReceiveDeploy(d) ==
  /\ Up /\ hpc[d] = "idle"
  /\ Goto(hpc, d, "pull")
  /\ Send(d, "INSTANTIATION")
  /\ instantiating' = instantiating \cup {TaskOf[d]}
  /\ UNCHANGED <<killQueue, killChannel, mountedVolumes, hostVars, stopVars,
                 rpc, upc, target, others>>

\* The image is found locally or pulled, which may take long or fail.
PullImage(d) ==
  /\ Up /\ hpc[d] = "pull"
  /\ \E l \in {"register", "failed"} : Goto(hpc, d, l)
  /\ UNCHANGED <<goVars, hostVars, stopVars, rpc, upc, target, reports,
                 others>>

\* MUTANT of RegisterTask: the check for an earlier deployment is missing.
RegisterTaskUnchecked(d) ==
  /\ Up /\ hpc[d] = "register"
  /\ killQueue' = [killQueue EXCEPT ![TaskOf[d]] = d]
  /\ Goto(hpc, d, "await")
  /\ Goto(rpc, d, "mount")
  /\ UNCHANGED <<killChannel, mountedVolumes, instantiating, hostVars,
                 stopVars, upc, target, reports, others>>

\* Under the lock: a task that has a kill channel is refused, another one gets
\* one and a creation routine.
RegisterTask(d) ==
  LET t == TaskOf[d] IN
  /\ Up /\ hpc[d] = "register"
  /\ \/ /\ killQueue[t] # None
        /\ Goto(hpc, d, "failed")
        /\ UNCHANGED <<killQueue, rpc>>
     \/ /\ killQueue[t] = None
        /\ killQueue' = [killQueue EXCEPT ![t] = d]
        /\ Goto(hpc, d, "await")
        /\ Goto(rpc, d, "mount")
  /\ UNCHANGED <<killChannel, mountedVolumes, instantiating, hostVars,
                 stopVars, upc, target, reports, others>>

\* The handler's goroutine reports how Deploy ended; its deferred call takes
\* the service out of the registry.
ReportDeploy(d) ==
  /\ Up /\ hpc[d] \in {"started", "failed"}
  /\ Send(d, IF hpc[d] = "started" THEN "CREATED" ELSE "FAILED")
  /\ instantiating' = instantiating \ {TaskOf[d]}
  /\ Goto(hpc, d, "done")
  /\ UNCHANGED <<killQueue, killChannel, mountedVolumes, hostVars, stopVars,
                 rpc, upc, target, others>>

-------------------------------------------------------------------------------
(* containerCreationRoutine *)

\* CSI volumes are staged and published and recorded in the map.  When
\* a mount fails those before it are undone; when the resolv.conf file cannot be
\* written nothing is.
MountVolumes(d) ==
  LET t == TaskOf[d] IN
  /\ Up /\ rpc[d] = "mount"
  /\ \/ /\ t \in Volumes
        /\ Goto(rpc, d, "revert")
        /\ published' \in {published, published \ {t}}
        /\ UNCHANGED mountedVolumes
     \/ /\ \E l \in {"create", "revert"} : Goto(rpc, d, l)
        /\ published' = published \cup ({t} \cap Volumes)
        /\ mountedVolumes' = mountedVolumes \cup ({t} \cap Volumes)
  /\ UNCHANGED <<killQueue, killChannel, instantiating, container, ctask, aged,
                 attached, stopVars, hpc, upc, target, reports, others>>

\* NewContainer: containerd refuses a second container with the same id.
NewContainer(d) ==
  LET t == TaskOf[d] IN
  /\ Up /\ rpc[d] = "create"
  /\ \/ /\ container[t] = None
        /\ container' = [container EXCEPT ![t] = d]
        /\ ctask' = [ctask EXCEPT ![t] = "none"]
        /\ aged' = aged \ {t}
        /\ Goto(rpc, d, "task")
     \/ /\ Goto(rpc, d, "revert")
        /\ UNCHANGED <<container, ctask, aged>>
  /\ UNCHANGED <<goVars, published, attached, stopVars, hpc, upc, target,
                 reports, others>>

\* containerd deletes the container of t; what names it is its id, whoever
\* created it.
DeleteContainer(t) ==
  /\ container' = [container EXCEPT ![t] = None]
  /\ ctask' = [ctask EXCEPT ![t] = "none"]
  /\ aged' = aged \ {t}

\* NewTask, which needs the container.  If the log file cannot be opened the
\* container stays; if the task cannot be created it is deleted.
NewTask(d) ==
  LET t == TaskOf[d] IN
  /\ Up /\ rpc[d] = "task"
  /\ \/ /\ container[t] # None /\ ctask[t] = "none"
        /\ ctask' = [ctask EXCEPT ![t] = "created"]
        /\ Goto(rpc, d, "attach")
        /\ UNCHANGED <<container, aged>>
     \/ /\ Goto(rpc, d, "revert")
        /\ UNCHANGED <<container, ctask, aged>>
     \/ /\ Goto(rpc, d, "revert")
        /\ ctask[t] = "none"
        /\ DeleteContainer(t)
  /\ UNCHANGED <<goVars, published, attached, stopVars, hpc, upc, target,
                 reports, others>>

\* task.Wait and, in overlay mode, the attachment of the network.
AttachNetwork(d) ==
  /\ Up /\ rpc[d] = "attach"
  /\ \/ /\ Goto(rpc, d, "start")
        /\ attached' = IF Overlay THEN attached \cup {TaskOf[d]} ELSE attached
     \/ /\ Goto(rpc, d, "revert_task")
        /\ UNCHANGED attached
  /\ UNCHANGED <<goVars, container, ctask, aged, published, stopVars, hpc, upc,
                 target, reports, others>>

\* The task starts and Deploy, which is waiting, is told so.
StartTask(d) ==
  LET t == TaskOf[d] IN
  /\ Up /\ rpc[d] = "start"
  /\ \/ /\ ctask[t] = "created"
        /\ ctask' = [ctask EXCEPT ![t] = "running"]
        /\ Goto(rpc, d, "run")
        /\ Goto(hpc, d, "started")
     \/ /\ Goto(rpc, d, "revert_task")
        /\ UNCHANGED <<ctask, hpc>>
  /\ UNCHANGED <<goVars, container, aged, published, attached, stopVars, upc,
                 target, reports, others>>

\* MUTANT of HandOverError: the error is dropped and Deploy left waiting.
HandOverErrorDropped(d) ==
  /\ Up /\ rpc[d] \in {"revert", "revert_task"}
  /\ Goto(rpc, d, IF rpc[d] = "revert" THEN "unregister" ELSE "unregister_task")
  /\ UNCHANGED <<goVars, hostVars, stopVars, hpc, upc, target, reports, others>>

\* revert: the unbuffered startup and error channels are handed to Deploy.
HandOverError(d) ==
  /\ Up /\ rpc[d] \in {"revert", "revert_task"}
  /\ hpc[d] = "await"
  /\ Goto(hpc, d, "failed")
  /\ Goto(rpc, d, IF rpc[d] = "revert" THEN "unregister" ELSE "unregister_task")
  /\ UNCHANGED <<goVars, hostVars, stopVars, upc, target, reports, others>>

\* MUTANT of RevertUnregister: the task of a failed creation is not killed.
RevertUnregisterNoKill(d) ==
  /\ Up /\ rpc[d] \in {"unregister", "unregister_task"}
  /\ killQueue' = [killQueue EXCEPT ![TaskOf[d]] = None]
  /\ Goto(rpc, d, "done")
  /\ UNCHANGED <<killChannel, mountedVolumes, instantiating, hostVars,
                 stopVars, hpc, upc, target, reports, others>>

\* MUTANT of RevertUnregister: the status change handler is called as well.
RevertUnregisterReports(d) ==
  /\ Up /\ rpc[d] \in {"unregister", "unregister_task"}
  /\ killQueue' = [killQueue EXCEPT ![TaskOf[d]] = None]
  /\ Goto(rpc, d, "report_dead")
  /\ UNCHANGED <<killChannel, mountedVolumes, instantiating, hostVars,
                 stopVars, hpc, upc, target, reports, others>>

\* revert: under the lock the kill queue entry goes.
RevertUnregister(d) ==
  /\ Up /\ rpc[d] \in {"unregister", "unregister_task"}
  /\ killQueue' = [killQueue EXCEPT ![TaskOf[d]] = None]
  /\ Goto(rpc, d, IF rpc[d] = "unregister" THEN "done" ELSE "defer")
  /\ UNCHANGED <<killChannel, mountedVolumes, instantiating, hostVars,
                 stopVars, hpc, upc, target, reports, others>>

\* MUTANT of TakeKill: the value is received and the routine goes on waiting.
TakeKillIgnored(d) ==
  /\ Up /\ rpc[d] = "run" /\ killChannel[d]
  /\ killChannel' = [killChannel EXCEPT ![d] = FALSE]
  /\ UNCHANGED <<killQueue, mountedVolumes, instantiating, hostVars, stopVars,
                 hpc, rpc, upc, target, reports, others>>

\* The select of a started routine: its kill channel holds a value ...
TakeKill(d) ==
  /\ Up /\ rpc[d] = "run" /\ killChannel[d]
  /\ killChannel' = [killChannel EXCEPT ![d] = FALSE]
  /\ Goto(rpc, d, "killed")
  /\ UNCHANGED <<killQueue, mountedVolumes, instantiating, hostVars, stopVars,
                 hpc, upc, target, reports, others>>

\* ... or its task is over.
TakeExit(d) ==
  LET t == TaskOf[d] IN
  /\ Up /\ rpc[d] = "run"
  /\ container[t] # d \/ ctask[t] # "running"
  /\ Goto(rpc, d, "exited")
  /\ UNCHANGED <<goVars, hostVars, stopVars, hpc, upc, target, reports,
                 others>>

\* The network is detached and, under the lock, the kill queue entry goes.
Unregister(d) ==
  /\ Up /\ rpc[d] \in {"killed", "exited"}
  /\ attached' = IF Overlay THEN attached \ {TaskOf[d]} ELSE attached
  /\ killQueue' = [killQueue EXCEPT ![TaskOf[d]] = None]
  /\ Goto(rpc, d, IF rpc[d] = "killed" THEN "k_remove" ELSE "x_remove")
  /\ UNCHANGED <<killChannel, mountedVolumes, instantiating, container, ctask,
                 aged, published, stopVars, hpc, upc, target, reports, others>>

\* MUTANT of RemoveContainer: the network is detached after the unlock.
RemoveContainerDetach(d) ==
  /\ Up /\ rpc[d] \in {"k_remove", "x_remove"}
  /\ DeleteContainer(TaskOf[d])
  /\ attached' = attached \ {TaskOf[d]}
  /\ Goto(rpc, d, IF rpc[d] = "k_remove" THEN "report_dead" ELSE "x_take")
  /\ UNCHANGED <<goVars, published, stopVars, hpc, upc, target, reports, others>>

\* removeContainer: the task, if any, is killed and the container deleted.
\* A killed routine is done but for its report.
RemoveContainer(d) ==
  /\ Up /\ rpc[d] \in {"k_remove", "x_remove"}
  /\ DeleteContainer(TaskOf[d])
  /\ Goto(rpc, d, IF rpc[d] = "k_remove" THEN "report_dead" ELSE "x_take")
  /\ UNCHANGED <<goVars, published, attached, stopVars, hpc, upc, target,
                 reports, others>>

\* CSI teardown after a natural exit: the map entry is taken under the lock ...
TakeVolumes(d) ==
  LET t == TaskOf[d]
      \* COMPLETED needs exit code 0 and a one-shot service.
      report == {"report_dead"} \cup (IF t \in OneShot THEN {"report_done"} ELSE {})
  IN
  /\ Up /\ rpc[d] = "x_take"
  /\ mountedVolumes' = mountedVolumes \ {t}
  /\ \E l \in (IF t \in mountedVolumes THEN {"x_unmount"} ELSE report) : Goto(rpc, d, l)
  /\ UNCHANGED <<killQueue, killChannel, instantiating, hostVars, stopVars,
                 hpc, upc, target, reports, others>>

\* ... and the volumes are unpublished and unstaged after it.
UnmountVolumes(d) ==
  LET t == TaskOf[d]
      report == {"report_dead"} \cup (IF t \in OneShot THEN {"report_done"} ELSE {})
  IN
  /\ Up /\ rpc[d] = "x_unmount"
  /\ published' = published \ {t}
  /\ \E l \in report : Goto(rpc, d, l)
  /\ UNCHANGED <<goVars, container, ctask, aged, attached, stopVars, hpc, upc,
                 target, reports, others>>

\* The status change handler: DEAD or COMPLETED.
ReportExit(d) ==
  /\ Up /\ rpc[d] \in {"report_dead", "report_done"}
  /\ Send(d, IF rpc[d] = "report_dead" THEN "DEAD" ELSE "COMPLETED")
  /\ Goto(rpc, d, "defer")
  /\ UNCHANGED <<goVars, hostVars, stopVars, hpc, upc, target, others>>

\* The deferred killTask of a routine that had a task: it addresses the task by
\* the container's id and stops at the first error.
DeferredKillTask(d) ==
  LET t == TaskOf[d] IN
  /\ Up /\ rpc[d] = "defer"
  /\ IF ctask[t] # "none" THEN DeleteContainer(t)
                          ELSE UNCHANGED <<container, ctask, aged>>
  /\ Goto(rpc, d, "done")
  /\ UNCHANGED <<goVars, published, attached, stopVars, hpc, upc, target,
                 reports, others>>

Routine(d) ==
  \/ MountVolumes(d) \/ NewContainer(d) \/ NewTask(d) \/ AttachNetwork(d)
  \/ StartTask(d) \/ HandOverError(d) \/ RevertUnregister(d) \/ TakeKill(d)
  \/ TakeExit(d) \/ Unregister(d) \/ RemoveContainer(d) \/ TakeVolumes(d)
  \/ UnmountVolumes(d) \/ ReportExit(d) \/ DeferredKillTask(d)

Handler(d) ==
  \/ PullImage(d) \/ RegisterTask(d) \/ ReportDeploy(d)

-------------------------------------------------------------------------------
(* The delete handler and Undeploy *)

\* MUTANT of LookUp: the entry is used without asking whether it was found.
LookUpUnchecked(u) ==
  /\ Up /\ upc[u] = "idle"
  /\ Goto(upc, u, "send")
  /\ target' = [target EXCEPT ![u] = killQueue[TaskOf[u]]]
  /\ UNCHANGED <<goVars, hostVars, stopVars, hpc, rpc, reports, others>>

\* The kill channel of the task is looked up under the read lock.
LookUp(u) ==
  LET ch == killQueue[TaskOf[u]] IN
  /\ Up /\ upc[u] = "idle"
  /\ \/ /\ ch # None
        /\ Goto(upc, u, "send")
        /\ target' = [target EXCEPT ![u] = ch]
     \/ /\ ch = None
        /\ Goto(upc, u, "error")
        /\ UNCHANGED target
  /\ UNCHANGED <<goVars, hostVars, stopVars, hpc, rpc, reports, others>>

\* The channel has room for one value: a second sender blocks.
SendKill(u) ==
  /\ Up /\ upc[u] = "send" /\ ~killChannel[target[u]]
  /\ killChannel' = [killChannel EXCEPT ![target[u]] = TRUE]
  /\ Goto(upc, u, "done")
  /\ Send(u, "UNDEPLOYED")
  /\ UNCHANGED <<killQueue, mountedVolumes, instantiating, hostVars, stopVars,
                 hpc, rpc, target, others>>

-------------------------------------------------------------------------------
(* Stop, called when the process is told to terminate *)

\* The registered tasks are copied under the lock.
StopBegin ==
  /\ spc = "idle"
  /\ spc' = "undeploy"
  /\ toStop' = {t \in Tasks : killQueue[t] # None}
  /\ UNCHANGED <<goVars, hostVars, atStop, hpc, rpc, upc, target, reports,
                 others>>

\* Undeploy of the next one, in the order of the map.
StopLookUp ==
  /\ spc = "undeploy"
  /\ \/ \E t \in toStop :
          /\ toStop' = toStop \ {t}
          /\ target' = [target EXCEPT ![None] = killQueue[t]]
          /\ spc' = IF killQueue[t] = None THEN "undeploy" ELSE "send"
     \/ /\ toStop = {}
        /\ spc' = "wait"
        /\ UNCHANGED <<toStop, target>>
  /\ UNCHANGED <<goVars, hostVars, atStop, hpc, rpc, upc, reports, others>>

StopSend ==
  /\ spc = "send" /\ ~killChannel[target[None]]
  /\ killChannel' = [killChannel EXCEPT ![target[None]] = TRUE]
  /\ spc' = "undeploy"
  /\ UNCHANGED <<killQueue, mountedVolumes, instantiating, hostVars, toStop,
                 atStop, hpc, rpc, upc, target, reports, others>>

\* The deployments whose container has a task, and those that have begun.
OwnersOfTasks ==
  {d \in Deployments : \E t \in Tasks : container[t] = d /\ ctask[t] # "none"}
Begun == {d \in Deployments : rpc[d] # "none"}

\* MUTANT of StopWait: a timeout is only logged.
StopWaitNoCleanup ==
  /\ spc = "wait"
  /\ spc' = "close"
  /\ atStop' = OwnersOfTasks
  /\ UNCHANGED <<goVars, hostVars, toStop, hpc, rpc, upc, target, reports, others>>

\* The routines are awaited: the wait group empties, or after CLEANUP_TIMEOUT
\* the containers that are there are listed.  Deploy messages are handled and
\* routines begin and go on during the wait and all that follows it.
StopWait ==
  /\ spc = "wait"
  /\ \/ /\ \A d \in Deployments : ~Live(d)
        /\ spc' = "close"
        /\ atStop' = Begun
        /\ UNCHANGED toStop
     \/ /\ spc' = "force"
        /\ atStop' = OwnersOfTasks
        /\ toStop' = {t \in Tasks : container[t] # None}
  /\ UNCHANGED <<goVars, hostVars, hpc, rpc, upc, target, reports, others>>

\* forceContainerCleanup: the listed containers are removed one after the other.
\* A routine that creates its task after removeContainer looked for one keeps
\* its container, which containerd does not delete with a task in it.
ForceRemove ==
  /\ spc = "force"
  /\ \/ \E t \in toStop :
          /\ toStop' = toStop \ {t}
          /\ spc' = spc
          /\ \/ DeleteContainer(t)
             \/ /\ ctask[t] = "none"
                /\ \E d \in DeploymentsOf(t) : rpc[d] = "task"
                /\ UNCHANGED <<container, ctask, aged>>
     \/ /\ toStop = {}
        /\ spc' = "close"
        /\ UNCHANGED <<toStop, container, ctask, aged>>
  /\ UNCHANGED <<goVars, published, attached, atStop, hpc, rpc, upc, target,
                 reports, others>>

\* The client is closed and the process ends, with every goroutine left in it.
StopClose ==
  /\ spc = "close"
  /\ spc' = "closed"
  /\ UNCHANGED <<goVars, hostVars, toStop, atStop, hpc, rpc, upc, target,
                 reports, others>>

-------------------------------------------------------------------------------
(* The environment: containerd, the clock, the node *)

\* The process of a container ends by itself.
TaskExits(t) ==
  /\ ctask[t] = "running"
  /\ ctask' = [ctask EXCEPT ![t] = "stopped"]
  /\ UNCHANGED <<goVars, container, aged, published, attached, stopVars, hpc,
                 rpc, upc, target, reports, others>>

\* The clock: the container of t is ten seconds old.
TenSecondsPass(t) ==
  /\ container[t] # None /\ t \notin aged
  /\ aged' = aged \cup {t}
  /\ UNCHANGED <<goVars, container, ctask, published, attached, stopVars, hpc,
                 rpc, upc, target, reports, others>>

\* What ResourceMonitoring reports: the containers that have a task, and the
\* services being instantiated whose runtime is the default one.
Heartbeat == {t \in Tasks : ctask[t] # "none"} \cup (instantiating \ CustomRuntime)

\* MUTANT of FindDoomed: the age test is the wrong way round.
FindDoomedYoung(t) ==
  /\ Up /\ doomed = None
  /\ container[t] # None /\ ctask[t] = "none" /\ t \notin aged
  /\ doomed' = t
  /\ UNCHANGED <<goVars, hostVars, stopVars, hpc, rpc, upc, target, reports,
                 restarts>>

\* ResourceMonitoring removes a container without a task once it is old enough.
\* It looks for the task first ...
FindDoomed(t) ==
  /\ Up /\ doomed = None
  /\ container[t] # None /\ ctask[t] = "none" /\ t \in aged
  /\ doomed' = t
  /\ UNCHANGED <<goVars, hostVars, stopVars, hpc, rpc, upc, target,
                 reports, restarts>>

\* ... and then removes what has the container's id.
ReapContainer ==
  /\ Up /\ doomed # None
  /\ DeleteContainer(doomed)
  /\ doomed' = None
  /\ UNCHANGED <<goVars, published, attached, stopVars, hpc, rpc, upc, target,
                 reports, restarts>>

\* The process dies: its goroutines are gone, containerd's objects, published
\* volumes and network attachments stay.
Crash ==
  /\ Up
  /\ restarts < MaxRestarts
  /\ spc' = "crashed"
  /\ UNCHANGED <<goVars, hostVars, toStop, atStop, hpc, rpc, upc, target,
                 reports, others>>

\* newContainerdRuntime in a new process: empty maps, and every container that
\* is still there is removed.
Restart ==
  /\ ~Up
  /\ restarts < MaxRestarts
  /\ restarts' = restarts + 1
  /\ spc' = "idle"
  /\ toStop' = {}
  /\ atStop' = {}
  /\ killQueue' = [t \in Tasks |-> None]
  /\ killChannel' = [d \in Deployments |-> FALSE]
  /\ mountedVolumes' = {}
  /\ instantiating' = {}
  /\ hpc' = [d \in Deployments |-> IF hpc[d] = "idle" THEN "idle" ELSE "done"]
  /\ rpc' = [d \in Deployments |-> IF rpc[d] = "none" THEN "none" ELSE "done"]
  /\ upc' = [u \in Undeployments |-> IF upc[u] = "send" THEN "error" ELSE upc[u]]
  /\ target' = [u \in Undeployments \cup {None} |-> None]
  /\ container' = [t \in Tasks |-> None]
  /\ ctask' = [t \in Tasks |-> "none"]
  /\ aged' = {}
  /\ doomed' = None
  /\ UNCHANGED <<reports, published, attached>>

-------------------------------------------------------------------------------
Next ==
  \/ \E d \in Deployments : ReceiveDeploy(d) \/ Handler(d) \/ Routine(d)
  \/ \E u \in Undeployments : LookUp(u) \/ SendKill(u)
  \/ StopBegin \/ StopLookUp \/ StopSend \/ StopWait \/ ForceRemove \/ StopClose
  \/ \E t \in Tasks : TaskExits(t) \/ TenSecondsPass(t) \/ FindDoomed(t)
  \/ ReapContainer
  \/ Crash \/ Restart

\* Go runs every runnable goroutine, a select whose kill case stays ready takes
\* it, and the monitoring ticker and the clock go on.  Messages, signals, exits
\* and crashes need not happen.
Fairness ==
  /\ \A d \in Deployments : WF_vars(Handler(d)) /\ WF_vars(Routine(d))
  /\ \A u \in Undeployments : SF_vars(SendKill(u))
  /\ WF_vars(StopLookUp) /\ SF_vars(StopSend) /\ WF_vars(StopWait)
  /\ WF_vars(ForceRemove) /\ WF_vars(StopClose)
  /\ \A t \in Tasks : WF_vars(TenSecondsPass(t)) /\ SF_vars(FindDoomed(t))
  /\ WF_vars(ReapContainer)

Spec == Init /\ [][Next]_vars /\ Fairness

-------------------------------------------------------------------------------
(* Properties that hold *)

\* Every variable has its type, and whoever is about to write to a kill channel
\* (Undeploy of a delete message, or of Stop) has found one.
TypeOK ==
  /\ killQueue \in [Tasks -> Deployments \cup {None}]
  /\ killChannel \in [Deployments -> BOOLEAN]
  /\ mountedVolumes \subseteq Tasks
  /\ instantiating \subseteq Tasks
  /\ hpc \in [Deployments -> HandlerPc]
  /\ rpc \in [Deployments -> RoutinePc]
  /\ upc \in [Undeployments -> UndeployPc]
  /\ target \in [Undeployments \cup {None} -> Deployments \cup {None}]
  /\ \A u \in Undeployments : upc[u] = "send" => target[u] # None
  /\ spc \in StopPc
  /\ spc = "send" => target[None] # None
  /\ toStop \subseteq Tasks
  /\ atStop \subseteq Deployments
  /\ doomed \in Tasks \cup {None}
  /\ sent \in [Deployments \cup Undeployments -> SUBSET Status]
  /\ last \in [Deployments \cup Undeployments -> Status \cup {"none"}]
  /\ container \in [Tasks -> Deployments \cup {None}]
  /\ ctask \in [Tasks -> {"none", "created", "running", "stopped"}]
  /\ aged \subseteq Tasks
  /\ published \subseteq Tasks
  /\ attached \subseteq Tasks
  /\ restarts \in Nat

\* The kill queue and the creation routines agree: a routine between its
\* registration and its unregistration is the one the queue names for its task,
\* and the queue names no other.  So a task has one such routine at most, and
\* Undeploy reaches it.
KillEntryOwned ==
  /\ \A d \in Deployments : Registered(d) => killQueue[TaskOf[d]] = d
  /\ \A t \in Tasks : killQueue[t] # None =>
       Registered(killQueue[t]) /\ TaskOf[killQueue[t]] = t

\* The states of a routine after its task was made and before its last attempt
\* to kill it.
Tending(d) ==
  rpc[d] \in {"attach", "start", "run", "killed", "k_remove", "exited",
              "x_remove", "x_take", "x_unmount", "report_dead", "report_done",
              "revert_task", "unregister_task", "defer"}

\* While the engine runs, Stop included, every containerd task has a creation
\* routine that will still try to kill it: no failed creation, lost race or
\* removal by a sibling leaves a workload nobody tends.
NoUnmanagedTask ==
  Up => \A t \in Tasks : ctask[t] # "none" => \E d \in DeploymentsOf(t) : Tending(d)

\* Whatever ran when Stop ended its wait is gone when the process ends: every
\* task that was there is removed although routines and deploy messages go on
\* meanwhile, and what is left on the node was begun after that moment.
StopEndsWhatRan ==
  spc = "closed" => \A t \in Tasks : ctask[t] # "none" => container[t] \notin atStop

\* In overlay mode a deployment that is started has its network: the detachment
\* by the routine of an earlier deployment comes before its unregistration, and
\* so before the next attachment.
NetworkWhileRunning ==
  Overlay => \A d \in Deployments : rpc[d] \in {"start", "run"} => TaskOf[d] \in attached

\* What the handler and the routine of one deployment report fits together:
\* FAILED is reported by a handler whose routine has nothing to report, and an
\* exit only for a deployment that was started.
ReportsCoherent ==
  \A d \in Deployments :
    /\ "FAILED" \in sent[d] => sent[d] \cap {"CREATED", "DEAD", "COMPLETED"} = {}
    /\ "CREATED" \in sent[d] => hpc[d] = "done"
    /\ sent[d] \cap {"DEAD", "COMPLETED"} # {} => hpc[d] \in {"started", "done"}

\* An undeployment that was accepted, and reported as UNDEPLOYED, ends the
\* routine it was sent to, wherever in the creation it arrives.
AcceptedUndeployStops ==
  \A u \in Undeployments, d \in Deployments :
    (upc[u] = "done" /\ target[u] = d) ~> (rpc[d] = "done" \/ ~Up)

\* Every deployment that was received is answered with CREATED or FAILED, unless
\* the engine ends first.
EveryDeployAnswered ==
  \A d \in Deployments : (hpc[d] = "pull") ~> (hpc[d] = "done" \/ ~Up)

\* A container without a task and without a routine is removed, or taken by a
\* new routine, unless the engine ends first.
OrphanReaped ==
  \A t \in Tasks :
    (container[t] # None /\ \A d \in DeploymentsOf(t) : ~Live(d))
      ~> (container[t] = None \/ ~Up \/ \E d \in DeploymentsOf(t) : Live(d))

-------------------------------------------------------------------------------
(* Statements of comments in the code that the code does not keep *)

\* "Track them here so each runtime can report its own in-flight instantiations":
\* while Deploy runs for a service, image pull included, the periodic resource
\* report names the service.
HeartbeatCovers ==
  Up => \A d \in Deployments :
          hpc[d] \in {"pull", "register", "await", "started", "failed"}
            => TaskOf[d] \in Heartbeat

\* "All containers stopped cleanly" or "forcing cleanup": no workload is left
\* when Stop is through.
StopLeavesNoTask ==
  spc = "closed" => \A t \in Tasks : ctask[t] = "none"

\* "SERVICE_DEAD means the service exited without being undeployed/stopped":
\* a routine that took a kill request never reports DEAD.
DeadMeansNotUndeployed ==
  \A d \in Deployments : [](rpc[d] = "killed" => []("DEAD" \notin sent[d]))

\* "Store mounted volumes so they can be cleaned up when the container stops":
\* when the end of a deployment was reported and no other routine of its task is
\* about, its volumes are not published any more.
VolumesCleanedUp ==
  Up /\ restarts = 0 =>
    \A d \in Deployments :
      /\ rpc[d] = "done" /\ sent[d] \cap {"DEAD", "COMPLETED"} # {}
      /\ \A e \in DeploymentsOf(TaskOf[d]) : ~Live(e)
      => TaskOf[d] \notin published

\* "unpublish + unstage volumes after the container has been removed": a running
\* deployment keeps its volumes.
VolumesWhileRunning ==
  \A d \in Deployments :
    rpc[d] = "run" /\ TaskOf[d] \in Volumes => TaskOf[d] \in published

\* "Only one interaction at a time as we have no guarantee the runtime will
\* handle more": two routines of one task never work on its container together.
OneInteractionAtATime ==
  \A d, e \in Deployments :
    d # e /\ TaskOf[d] = TaskOf[e] => ~(Live(d) /\ Live(e))

\* "Max container cleanup duration": Stop ends.
StopTerminates == (spc = "undeploy") ~> ~Up

\* "The exit watcher in startContainer() emits the authoritative terminal
\* status": nothing is reported for a deployment after its exit.
ExitIsLastReport ==
  [][\A d \in Deployments : last[d] \in {"DEAD", "COMPLETED"} => last'[d] = last[d]]_vars
===============================================================================
