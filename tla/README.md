# Oakestra: a TLA+ verification project

Oakestra orchestrates containers on edge hardware. A **root** knows applications, services
and clusters; a **cluster** knows its workers and the instances of services it was given; a
**node engine** on every worker runs the instances. Each level keeps its own picture of the
same instances, in databases and maps written by several threads, and the pictures are kept
together by requests and periodic reports that may be lost, late or repeated. This project
models that chain, the runtimes and the volumes at its lower end and the scheduler beside it,
and states what must hold of them.

| module | models | state |
|---|---|---|
| `ContainerRuntime` | node engine: containerd runtime and MQTT handlers | kill queue, kill channels, CSI map, program counters of handlers and routines, containerd's objects |
| `ClusterJobs` | cluster manager: everything that touches a job document | job document, program counter and copies of each thread, messages, workers |
| `RootJobs` | root system manager: life of a service and its instances | job document, application list, HTTP worker, clusters' lists, reports, late requests |
| `CrosvmRuntime` | node engine: crosvm runtime, instances and their goroutines | instance map, exit channels, locks, VM processes, directories and namespaces |
| `VmLifecycle` | what an instance of the crosvm runtime promises (abstract) | phase of each instance |
| `ImageStore` | crosvm runtime: image retrieval and cache | index and cache directories, temporary directories, registry |
| `UnikernelRuntime` | node engine: unikernel runtime | kill queue, domains, lock, kernel archive, instance directories, namespaces, QEMU |
| `CsiVolumes` | node engine's CSI manager and registry; hostpath plugin | mounts, tracker's records, file and queue, RPC under way |
| `Scheduler` | scheduler of root and clusters | tasks of the queue, candidates, decisions, answers |
| `MC…` | small instances for TLC | |
| `…Proofs` | one per module but `VmLifecycle`: theorems, checked by TLAPS (section 6) | |

To run: `tlc -config <run>.cfg MC<Module>` and `tlapm <Module>Proofs.tla`. The runs and the
module each belongs to are in `PROJECT.json`.

## 1. Inventory

**Root system manager** (`root_orchestrator/system-manager-python`). State: nothing of its
own; jobs, applications and clusters are documents of the resource abstractor. Operations:
create, delete a service; scale up, scale down; take a scheduling result; take a cluster's
report; register a cluster (gRPC). gunicorn runs one synchronous worker, so requests are
served one at a time, and kills a worker after 30 s. Talks to: resource abstractor, scheduler
(thread, fire and forget), clusters (HTTP, 10 s timeout, errors logged), network plugin.
*Hard*: a handler is a sequence of calls each of which may fail or be the last one; the
scheduler repeats results; reports arrive for things that are gone. *Correct if*: numbers
denote one instance, a deleted service stops, nothing else is stopped, no job is orphaned.

**Cluster manager** (`cluster_orchestrator/cluster-manager`). State: job documents. Threads:
one HTTP worker (deploy, delete, scheduling result), the MQTT loop (status, resource report),
the aggregation job (marks silent instances FAILED, reports to the root), the re-deploy job
and the threads it starts. *Hard*: the threads share documents without locks; `update_status`
reads a document and writes the whole list back; commands are MQTT messages without
acknowledgement. *Correct if*: a deleted job stays deleted, an erased instance ends up
running nowhere, a silent worker is noticed, a completed one-shot is not restarted.

**Node engine** (`go_node_engine`). State: `killQueue`, CSI map, registry of services being
instantiated, containerd's containers and tasks, volumes, network attachments. Operations:
`Deploy`, `Undeploy`, `Stop`, `ResourceMonitoring`, start-up clean-up; the other runtimes and
the CSI manager are below; configuration, telemetry. *Hard*: one
goroutine per message and one per container; the entry that excludes a second deployment is
removed before the container is; a kill channel with one place; crash and restart. *Correct
if*: one routine per registered task, no workload nobody tends, nothing that ran when `Stop`
ended its wait left after it, every message answered, every accepted undeployment carried out.

**Crosvm runtime** (`virtualization/internal/crosvm`). State: the map of instances under the
runtime's lock, which is held over a whole `Deploy`, `Undeploy` or `Stop`; in each instance a
lock, the running process, a one-place `exitChan`; a state directory, a namespace. Goroutines:
one that waits for a VM to end, one that claims an exit nobody asked for and restarts or
reports. *Hard*: an exit is taken either by `Close` or by the claiming goroutine, and `Close`
gives up after a timeout; a restart races a `Close`. *Correct if*: one VM at a time, none
without its directory or namespace, each exit dealt with once, the lock is given back.
Its **image store** fetches an image into a temporary directory, hands it out and moves it into
a cache behind the caller's back. *Hard*: several calls fetch one reference while it is pushed
again; a move between file systems is a copy that may be cut off; restarts. *Correct if*:
files of two versions never mix, nothing temporary is left, a call ends.

**Unikernel runtime** (`virtualization/internal/unikernel`). State: kill queue and domains under
`channelLock`, a kernel archive per service, instance directories, namespaces. *Hard*:
`Undeploy` keeps the lock while it waits for the routine, and the routine needs the lock to
clean up after itself when its VM ends by itself; a download without a timeout; an archive that
is no gzip file, which makes the engine panic. *Correct if*: the queue leads to live
routines only, nobody waits for ever, the remains of a VM that ended are removed.

**CSI** (`go_node_engine/csi`, `csi/hostpath`). State: the registry's plugins;
the volumes a service's routine has mounted; in the plugin the records of the
mount tracker, the file they are saved in, a clean-up queue with retries, the
mounts and directories of the host. *Hard*: the old routine of a task
unpublishes while the next one publishes, and a killed one does not unpublish at
all; calls are cut off by a timeout while the plugin goes on; saves take their
snapshot without a lock; failed unmounts are retried later, when the path may be
in use again; crash and restart. *Correct if*: a target is mounted once, no
tracked mount is lost sight of, files of the host are never deleted.

**Scheduler** (`scheduler`, Go, at root and clusters). State: the tasks in asynq's queue.
Operations: take a job, ask the resource abstractor for candidates, filter and rank them, post
the result, try again. *Hard*: an answer may be taken although its sender sees an error;
payloads with missing or strange fields; candidates change between tries. *Correct if*: an
answer fits what was seen and nothing seen is better, every job is answered or archived.

**Resource abstractor** (`resource-abstractor`): documents, freshness of candidates, hooks.
**Add-ons engine and marketplace**, **authentication**, **dashboards**: see `PROJECT.json`,
which lists every component with its status, and every hazard with the line where it bites.

Interactions, downwards and back:

    user -> root -> scheduler -> root -> cluster -> scheduler -> cluster -> worker (MQTT)
    worker -> status, resource report -> cluster -> aggregated report -> root

## 2. Plan

1. (done) `ContainerRuntime`, `ClusterJobs`, `RootJobs`, each with runs and proofs.
2. (done) `CrosvmRuntime`, shown to implement the abstract `VmLifecycle`; `ImageStore`;
   `UnikernelRuntime`; `CsiVolumes`, with the order of the node engine's shutdown; `Scheduler`,
   whose choice is compared with a reference definition.
3. (done) Proofs of every invariant the runs check, in the eight modules, and of the safety
   part of the refinement of `VmLifecycle` by `CrosvmRuntime`.
4. (left) An abstract specification of an instance (asked for, placed, running, gone) that
   `RootJobs` composed with `ClusterJobs` implements.
5. (left) Cluster and worker registration, aggregation of figures; hooks of the resource
   abstractor; add-ons monitor.

## 3. The modules and the code

**ContainerRuntime.** A deployment message is a goroutine `hpc` (`deployHandler`, `Deploy`)
and, once registered, a routine `rpc` (`containerCreationRoutine`); a delete message is a
goroutine `upc`; `Stop` is `spc`. A step is what one goroutine does between two accesses to
shared state. `ReceiveDeploy`, `PullImage`, `RegisterTask`, `ReportDeploy` are the handler;
`MountVolumes` to `StartTask` the creation, each of which may fail into `HandOverError` and
`RevertUnregister`; `TakeKill` and `TakeExit` the two branches of the select; `Unregister`,
`RemoveContainer`, `TakeVolumes`, `UnmountVolumes`, `ReportExit`, `DeferredKillTask` its end.
`Stop` is `StopBegin`, `StopLookUp` and `StopSend` for each entry, `StopWait` (the wait group
empties, or the timeout passes and the containers are listed), `ForceRemove` for each of the
list, `StopClose`; handlers and routines go on until the last of these, and a routine that
creates its task while its container is being removed keeps it. The history variable `atStop`
has the deployments that had a task when the wait ended.
`FindDoomed` and `ReapContainer` are the part of `ResourceMonitoring` that removes containers,
split where the lock is not held. `Crash` empties the process and keeps the host; `Restart`
removes all containers, as `newContainerdRuntime` does.

**ClusterJobs.** A step is one call to the resource abstractor. `Receive…`,
`Deploy…`, `Delete…`, `Result…` are the HTTP worker; `Mqtt…` the MQTT loop;
`Agg…` the aggregation; `Red…` the re-deploy threads. A thread's `snap` is the
copy it read; `PatchJob` and `PatchInstance` are the two writes the resource
abstractor offers, on the whole list and on one record. Re-deploy threads
started in one round share the job's dictionary (`mates`, `path`), as in the
code. A round of the aggregation ends at the first instance whose timestamp is
null, so `AggRead` may reach any part of those that are stale. Workers obey and
report through `Node…`; they are the environment.

**RootJobs.** A step is one call to the resource abstractor, the plugin or a cluster.
`CreateService`, `ListService`, `NotifyService` are `create_services_of_app`;
`DeleteService`, `UnlistService`, `DropJob` are `delete_service`; `Down`, `DownRequest`,
`DownWrite` are `request_scale_down_instance`, called by both; `ScaleUp`, `ReceiveResult`,
`PlaceInstance`, `TellNetwork`, `SendDeploy`, `AnswerResult` a scale-up and its result;
`ReceiveReport`, `Undeploy` a report. `Request` is served, lost, or served after the root's
timeout (`LateRequest`). `Outage` is a call of the resource abstractor that returns `None`: in a
report either before the jobs are looked at, which answers 400, or during the look-up of one.
`KillWorker` drops the handler wherever it is.

**CrosvmRuntime.** `op` is the operation that holds the runtime's lock. `Deploy`, `DeployStart`
are `Runtime.Deploy` (`NewInstance`, which may fail at any of its steps, then `Start`);
`Undeploy`, `UndeployEnd`, `Stop`, `StopEnd` the other two. `CloseLock`, `CloseExit`,
`CloseTimeout`, `CloseTeardown` are `Instance.Close`; `WaitForExit`, `HandleUnclaimedExit`,
`Restart` the goroutines of an instance; `MachinedExec`, `VmEnds` the process. `LifePhase` maps
an object to a phase of `VmLifecycle`: it is *new* until it is created, its own status
otherwise, except that an object whose status is still *running* after its VM has ended is
*exited*. `LifecycleKept` is `VmLifecycle`'s specification under this mapping, the
fairness of its `Claim` included; `VmLifecycle!Safety` is the same without fairness, and is
what is proved.

**ImageStore.** `RetrieveFromCache`, `RetrieveTempDir`, `RetrieveFromSource`, `RetrieveDeliver`
and, where one of the last two fails, `RetrieveDrop` are `Retrieve`;
`MoveLock`, `MoveRename`, `MoveCopyDir`, `MoveCopyFile`, `MoveCopyEnd` the goroutine
`moveIntoCache`, file by file where a copy replaces the rename; `Restart` with `NewStore` is the
index read back from the directories. `Push` and `DeleteFile` are the registry and whoever has
access to the cache directory.

**UnikernelRuntime.** `DeployCheck`, `DeployRegister` are `Deploy`; `ImageStat`
to `ImageFiles` are `GetKernelImage`, where `ImageGunzip` on a bad archive ends
the engine (`up`), since the code only logs the error and then reads from a nil
reader; `Network` to `Answer` the creation routine with its reverts and its
deferred clean-up; `UndeployLock`, `UndeploySend`, `UndeployAwait` are
`Undeploy`, which keeps `holder`. `namespace` tells a namespace whose default
address is free from one whose address is taken, which `GenerateArgs` treats
alike.

**CsiVolumes.** A deployment is a creation routine of the task, as far as its volumes go.
`Deploy`, `MountNext`, `MountAnswered` are `MountVolumes`; a routine that fails there unmounts
what it has. With all mounted it enters them in `mountedVolumes` (`recorded`) and runs.
`EndMounted` is the kill branch and every revert after the mounting: the routine ends and
unmounts nothing. `ContainerExits` is the end of a container by itself: the routine leaves the
kill queue, and from then on the next deployment may mount; `TakeVolumes` takes the entry of
`mountedVolumes`, whoever made it, and `UnmountNext`, `UnmountAnswered`, `Unmounted` are
`UnmountVolumes`. Each call has a handler of its own; `CallTimesOut` leaves it at work,
`LateReturn` is its end. `Publish`, `Probe`, `Mount`, `AddMount` and `RemoveMount`, `Handler…`
are the two RPC handlers; `Worker…` the clean-up worker with its back-off; `Crash`, `Shutdown`
and `Restart` the plugin's process, whose start goes through the records one by one
(`CleanupOrphan`, `CleanupDone`, `CleanupSave`) while the worker already runs. `EngineStop`
stops the registry before the runtimes, as the daemon does, so that the volumes in use are not
unpublished; `EngineRestart` is the end of the engine, orderly or not, and its next start. The
history variables serve the properties: `cutOff` (a publish for which nobody waits any more went
on, or the mount table could not be read), `dropped` (given up or refused by the full queue,
which the code logs), `disowned` (the engine ended or could not ask for the unmount) and `wiped`
(targets removed while mounted).

**Scheduler.** `Enqueue` is the API; `Decide` is the handler up to its decision (payload,
`FormatQuery`, `FilterRequirements`, `SortedOrders`, `Calculate`), `Answer` the post of the
result; `Failed` counts a try. `Suits` is the reference definition the answers are compared
with: what a candidate must have, written from the request and not from the filters.

## 4. Runs that pass

Bounds are constants in the `.cfg`. Deadlock is not checked: each system may come to rest,
when no message or request is left.

| run | instance | shows |
|---|---|---|
| `runtime_safety` | 2 deployments and 1 undeployment of one one-shot task, 1 restart; 4.3 million states | `KillEntryOwned`, `NetworkWhileRunning`, `ReportsCoherent`, `NoUnmanagedTask`, `StopEndsWhatRan`, `TypeOK` |
| `runtime_liveness` | 1 deployment with a volume, 2 undeployments, 1 restart; 121 thousand states | `AcceptedUndeployStops`, `EveryDeployAnswered`, `OrphanReaped` |
| `cluster_losses` | 1 instance, 1 loss or repetition, silent worker; 139 thousand states | `ErasedStops`, `SilenceNoticed` |
| `cluster_redeploy` | 1 instance, 1 re-deploy thread, nothing lost; 347 thousand states | `ErasedStops`, `HttpSeesExistence`, `JobStaysDeleted`, `TypeOK` |
| `root_jobs` | 2 clusters, 2 instance numbers, 1 creation, 2 faults of any kind; 0.4 million states | `NumbersUnique`, `OnlyOutdatedWiped`, `NoOrphan`, `DeletedStops`, `StatusFollows`, `TypeOK` |
| `crosvm` | 1 task, 2 instance objects (one of them one-shot), 2 starts each; 31 thousand states | `OneVmAtATime`, `VmAccountedFor`, `LifecycleKept`, `OperationsEnd`, `TypeOK` |
| `image_store` | 2 calls for one reference with 2 versions, 2 restarts; 30 thousand states | `FilesOfOneVersion`, `NoTemporaryLeft`, `EveryRetrieveEnds`, `TypeOK` |
| `unikernel` | 2 deployments and 1 undeployment of one task; 37 thousand states | `KillQueueSound`, `EveryCallReturns`, `DeathHandled`, `TypeOK` |
| `csi` | 1 volume, 2 deployments, 2 handlers, queue of 1, 1 crash or shutdown; 0.4 million states | `OneMountPerTarget`, `NothingForgotten`, `TypeOK` |
| `scheduler` | 1 job of every kind, 2 candidates that change twice, 2 retries; 41 thousand states | `AnswersRight`, `EveryTaskSettles` |

Why the bounds are enough to meet the hard cases. Two deployments of one task
are what it takes for one routine to end while the next one begins, and a third
would be refused or start after one of them is done; the same goes for the two
objects of `crosvm` and the two deployments of `unikernel` and `csi`. One
instance in the cluster is enough for a job to be deleted while any of the
threads holds a copy of it, which is what those runs are about; what a
whole-list write does to *another* instance is in section 5. Two clusters and
two numbers are what it takes for a repeated scheduling result to be placed
elsewhere than the first. Two faults allow a lost request followed by a killed
worker, or a late one together with a failed call. Two starts of an object are a
start and a restart. Two calls of `Retrieve` wait for one another, fetch
different versions, or one finds what the other left; of what both left together
the property speaks directly, as it is also about the cache. One volume reaches
a full queue of one place, which stands for the code's larger one, when its
unmount is asked for twice, by the start-up and by a routine or by two routines;
different volumes share nothing but the queue, the file and the loops. Two
handlers are an unpublish and a publish that overlap. A back-off of 2 ticks and
3 attempts stand for 7 and 20, the worker's behaviour being the same between the
two limits. Two candidates are what it takes to rank, two changes let both
differ from what the first try saw, and two retries stand for asynq's 25. The
invariants and `JobStaysDeleted` are, besides, proved without bounds (section
6).

**Fairness.** *ContainerRuntime*: runnable goroutines run (weak fairness on
handlers and routines); a sender on a channel that gets room again and again
succeeds (strong fairness: Go queues blocked senders); the monitoring ticker
finds an old orphan (strong, as containers come and go between ticks). Messages,
exits, signals and crashes are not fair. *ClusterJobs*: threads go on; the
background jobs are periodic; the scheduler's queue repeats a result until it is
taken; workers obey commands that reach them and report periodically (strong
where the bounded inbox could starve a worker, which in reality it cannot).
*RootJobs*: the worker goes on, a waiting report is eventually served (strong:
the worker is busy in between), clusters report periodically. User requests are
not fair. *CrosvmRuntime*: an operation under way, a `Close` and a waiting
goroutine go on (weak); a restart and a claim wait for a lock that is taken and
given back meanwhile (strong: Go's mutex grants a lock to a waiter that has been
starved). A VM need not end. *ImageStore*: calls and moves, strong for the same
reason: a `RWMutex` passes neither waiting readers nor a waiting writer for
ever. The fetch itself has no timeout in this code: that it ends is an
assumption about the registry. *UnikernelRuntime*: strong for those who wait for
`channelLock`, weak for an `Undeploy` that has it, none for the download of a
kernel, which has no timeout; `EveryCallReturns` promises the return of `Deploy`
only if its download ends, and all of it only while the engine does not panic.
*Scheduler*: weak, as the queue's workers run and every request ends after 10 s
at the latest. *CsiVolumes* has safety properties only and no fairness.

## 5. Statements the code does not keep

Two runs end in a violation.

The run `viol_host_data` checks `HostDataKept` of `CsiVolumes`: a clean-up never
deletes what is in a mounted host directory. `csi/hostpath/node.go:149` says
that the handler removes "the now-empty directory". TLC finds the following. The
plugin is started again, fails to unmount a mount its file lists and leaves it
to the worker; the engine unpublishes the volume, which succeeds and does not
take the retry out of the worker's hands; the worker finds the path missing and
takes it for unmounted; before it goes on, the service is deployed again and the
host directory is mounted at the path; the worker calls `RemoveAll`, which
deletes the files of the host through the mount.

`viol_volumes` checks `VolumesCleanedUp` of `ContainerRuntime`: once the end of a deployment was
reported and no other routine of its task is about, its volumes are not published any more.
`ContainersManagement.go:357` says "Store mounted volumes so they can be cleaned up when the
container stops." An ordinary undeployment is enough: the kill branch returns before the CSI
teardown. `CsiVolumes` models the same (`EndMounted`), and `NothingForgotten` there says
accordingly that the mount is still *known* to the engine, not that somebody will unmount it.

The following statements are defined in the modules with the comment or the expectation they
come from; put into a configuration of their module, TLC refutes each.

| module | statement | what happens |
|---|---|---|
| `ContainerRuntime` | `VolumesWhileRunning` | the routine of an exited container unpublishes the volume of the next deployment of the task |
| `ContainerRuntime` | `HeartbeatCovers` | with two deploy messages for one task the end of the first takes the second, which still pulls its image, out of the report, although `InstantiatingServices.go:20` promises it "until the corresponding UntrackInstantiating call"; a task with a custom runtime is never in the report |
| `ContainerRuntime` | `StopLeavesNoTask` | a routine makes its container after the forced clean-up has listed the containers, or after the wait group was empty |
| `ContainerRuntime` | `StopTerminates` | `Stop` blocks on a full kill channel whose routine has left; its time limit starts later |
| `ClusterJobs` | `ErasedStaysErased` | a whole-list write from an older read puts a deleted instance back |
| `ClusterJobs` | `CompletedStays` | the aggregation writes FAILED over COMPLETED from an older read, and the one-shot is scheduled again |
| `ClusterJobs` | `RedeployAsksOwn` | two re-deploy threads share the job's `_id`, and one asks for the other's instance |
| `RootJobs` | `WipeMeansOutdated` | one failed call during a report makes the root delete a running service from the cluster |
| `ImageStore` | `CachedUnderKey` | an image that was moved into the cache is entered under the name of its temporary directory, so that it is found only after a restart |

`ErasedStops` holds, and is checked, for an instance whose job is deleted with
it: the runs of `ClusterJobs` have one instance. `ErasedStaysErased` fails only
with two, when the job stays and a write about the other instance brings the
deleted one back. `ErasedStops` then fails too: TLC finds that an instance is
deleted before its scheduling result is in; while the HTTP worker applies the
result, the MQTT loop writes its older copy back; the worker is told to deploy,
its reports are found in the list, and nobody deletes the instance again. (The
fairness of `NodeReport` has to be strong for this to mean anything: with two
instances the bounded inbox could starve one.)

And further, in the same way: in `ContainerRuntime`, `DeadMeansNotUndeployed` (an undeployed service
is reported DEAD), `OneInteractionAtATime` and `ExitIsLastReport` (CREATED may be sent after
DEAD); in `ClusterJobs`, `ScheduledNotStuck` (needs a loss), `AppendedStays`,
`OutdatedStops` (needs two workers), `RunningAgreed`; in `RootJobs`, `RemovedStops` (a lost
delete of one instance is never repeated) and, without its assumption of one creation,
`NumbersUnique`.

## 6. Proofs

Each theorem has the form `Spec => []P`, but for `NoResurrection`, which states an action
property, and `LifecycleImplemented`, which states a refinement. They hold for every value of
the constants, so for any number of tasks, messages, instances, workers, faults and restarts,
under the assumptions named in the module. These say that constants have their type and that
null values are no members of the sets, and a little more in two places. `CsiAssumption` has a
queue with room, and a back-off that is positive and below the number of attempts after which
the worker gives up, as in the code (7 and 20). `PlacementAssumption` has finitely many candidates,
whose names are no statuses, with figures that are integers; the `virtualization` field of a
payload is a string, a list of strings, absent, or something the decoder refuses. The bounds of
the runs (`MaxRestarts`, `MaxStarts`, ...) are constants too: a theorem holds whatever their value.

Each proof follows one plan. The property is made part of an inductive invariant; a lemma per
action or group of actions shows that the step keeps it; the last lemma puts them together, and
each theorem follows from the invariant. Each of the invariants was first checked by TLC on the
instance of the module's run.

`ContainerRuntimeProofs`. `TypeCorrect`; `KillQueueSound` (inductive with `TypeOK`: queue and
routines agree in both directions, so a registration that finds no entry makes the only one);
`NetworkSound` (from the former: a detachment is by a registered routine, so not while another
one of the task is started); `ReportsSound` (from `Lifecycle`, which relates where the handler
and the routine of a deployment are and what was sent: the handler waits exactly while the
routine has not yet handed over a result); `TasksTended` (from `TaskOwned`: a task's container
belongs to a deployment whose routine is before its last kill, and a routine about to create its
task finds its own container or none); `StopSound`. `TaskOwned` is inductive with `TypeOK`,
`KillEntryOwned` and `Lifecycle`, also during the clean-up of `Stop`. `StopSound` needs
`Cleared`, which follows that clean-up: what ran when the wait ended cannot make a task again,
and its tasks are on the list until they are removed.

`ClusterJobsProofs`. The invariant `JobInv` is `TypeOK` with `Serving` (a thread knows what it
works on), `ReadsReal` (whoever will write a whole document has read an existing one) and
`HttpSeesExistence`. `ReadsReal` is what makes it inductive: an old copy can only be written
by PATCH, which does not create. There is one lemma per thread. `JobsTyped`,
`ExistenceSound`, `NoResurrection` follow.

`RootJobsProofs`. The invariant `RootInv` is `TypeOK`, `Serving` (a handler's copy is the
document until it writes), `NothingBefore`, `NumbersBelow` and the three properties.
`NumbersUnique` is not inductive alone: a number about to be given out must be in no cluster
and in no late request, which `NumbersBelow` says by keeping all numbers in use below the next
one. `QuietStep` covers every action that gives no number out. `RootTyped`, `NumbersSound`,
`WipesSound`, `OrphansSound` follow.

`CrosvmRuntimeProofs`. The invariant `CrosvmInv` has eight parts. `OneVmAtATime` needs
`VmTracked` (a process has a waiting goroutine, and only the latest start of an instance that
counts as running has one, while the exit channel is empty) and `ExitKept` (an exit in the
channel is that of the latest start): together they say that the VM, its waiter, the exit and
the claim are four stages of one thing that is at one of them. `TypeOK` is not inductive
alone, as each claimed exit may add a restart goroutine: `RestartsEarned` bounds those pending
by the starts. `VmAccountedFor` needs `EntriesOwned`, `ClosesEntries` and `OpenHeld`:
whatever may have a VM is in the map, and `Close` lets go of the entry only when the object is
closed. `CrosvmTyped`, `OneVmSound`, `VmsAccountedFor` follow. `LifecycleImplemented` is the
refinement step by step: `PhaseIsLifePhase` reduces the mapping to one object, and one lemma per
group of actions shows that a step moves one object along `VmLifecycle` or none.

`UnikernelRuntimeProofs`. `QueueInv` is `TypeOK`, `Begun` (a routine runs only once it was
registered), `Entries` (what the queue and the domains name has not cleared its entry),
`LockKept` (who sends or waits holds the lock, and so the routine it talks to, which needs the
lock to leave, is still there) and `ChannelUse` (a value in a channel is from the holder of the
lock, or the routine's answer). `TypeOK` itself needs `LockKept`. `UnikernelTyped` and
`KillQueueProved` follow.

`CsiVolumesProofs`. `CsiInv` is `TypeOK`, `ActorsBusy`, `OneEntered` (one routine of the task
at a time is in the kill queue; any number may be unmounting), `CallsServed` (a routine waits
for a handler of its own that does what it asked for), `PublishAwaited`, `StartState`,
`ProbeTrue`, `OneMountPerTarget` and `Covered`. The argument for the mounts: a handler that
publishes is waited for by a routine that mounts, unless its volume is in `cutOff`
(`PublishAwaited`), and there is one such routine; so no second handler mounts between the look
at the mount table and the mount, and the unmounts of other routines and of the worker only make
the depth smaller (`ProbeTrue`). A crash between mount and record needs no exception: the next
publish finds the mount in the table. `Covered` is the inductive form of `NothingForgotten`:
every record is with the plugin's start-up or worker (`WithPlugin`), a handler before the end of
its unmount (`WithHandler`), a routine, the publication whose answer it has not taken yet
included (`WithRoutine`), or in `mountedVolumes`, and while the plugin does not serve it is with
the plugin. There are lemmas for the types, for who is at work, for the mounts and for the
records, each for routines, engine, handlers, worker and start-up. `CsiTyped`, `OneMountSound`,
`NothingForgottenProved` follow.

`ImageStoreProofs`. `ImageInv` is `TypeOK`, `Fetched` (what is delivered or moved is a whole
version), `NotYetMoving` (a call that fetches has no mover yet),
`OneWriter`, `CopyUnderWay` (while a goroutine copies, the directory has only files of what it
copies), `RenamedWhole`, and the two properties. `FilesOfOneVersion` is not inductive alone: a
copy adds a file to what is there, which must be of its own version. `ImageTyped`,
`OneVersionSound`, `TemporariesRemoved` follow.

`SchedulerProofs`. `FitSuits` shows that the filters let through what the reference definition
`Suits` says, `LastIsBest` that the end of the sorted order has the best score, `CalculateRight`
that the decision is right for the candidates read. `SchedulerInv` carries this over the post
and the retries: a decision about to be posted was right when it was made (`ChoicesRight`),
whatever became of the candidates since. `AnswersRightProved` follows.

Only model-checked: everything temporal beyond `[]` (`AcceptedUndeployStops`,
`EveryDeployAnswered`, `OrphanReaped`, `ErasedStops`, `SilenceNoticed`, `DeletedStops`,
`StatusFollows`, `OperationsEnd`, `EveryRetrieveEnds`, `EveryCallReturns`, `DeathHandled`,
`EveryTaskSettles`, and the fairness in `LifecycleKept`), since liveness under fairness is out
of the prover's reach.

## 7. Not modelled

Within the modelled parts: CPU and memory figures, logs, OCI options, the job's own status at
the root, applications other than as a list, failing calls of the resource abstractor at the
cluster, several jobs (they do not interact in this code). Calls that clean up in the node
engine fail only because their object is gone.

- Crosvm: `Instance.Stop`, `WaitForExit` and `Store.Remove`, which have no caller; configuration
  files, logs, metrics.
- Unikernel: `Stop` and the monitoring read a map without the lock; the race is not modelled.
  The engine does not start again after a panic: what it leaves on the node is not followed.
- CSI: staging, which no plugin of the repository asks for; several tasks, whose targets differ.
- Scheduler: the random algorithm, which nothing selects; the delay between two tries.

Seen in these parts and not stated as a property: a `NewInstance` that fails leaves the
instance's state directory behind; the scheduler reserves nothing, so two jobs decided on the
same report may overcommit a candidate; of several direct constraints the last one counts, and
if it has no name it lifts the restriction; the cluster manager's answer to a scheduling failure
raises in its log statement before it marks the job.

Not yet modelled, and planned: registration, aggregation of figures, hooks, add-ons monitor.

Left out for good: dashboards, compose files, command lines, mail and token handling, which
are user interface, descriptions or calls of libraries.
