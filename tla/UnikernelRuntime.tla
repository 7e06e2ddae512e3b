--------------------------- MODULE UnikernelRuntime ---------------------------
(***************************************************************************)
(* The unikernel runtime of a worker's node engine: Deploy, Undeploy, the    *)
(* routine that creates a virtual machine and stays with it, GetKernelImage  *)
(* and the kernel archive it keeps, and the QEMU process.                    *)
(*                                                                         *)
(* A step is what a goroutine does between two accesses to what others use:  *)
(* the kill queue and the domains under channelLock, the kill channels, the  *)
(* instance directories, the archive and the namespaces.                     *)
(*                                                                         *)
(* Simplifications.                                                         *)
(* - All tasks are instances of one service, so there is one kernel archive. *)
(* - Deploy waits on two unbuffered channels that only its own routine uses: *)
(*   sending the result and returning it is one step.                        *)
(* - Stop calls Undeploy for one registered task after the other and counts  *)
(*   among the undeployments; periodic reports change nothing.  Both read a  *)
(*   map without the lock, which is not modelled.                            *)
(* - The engine ends when a routine panics; what a new engine makes of the    *)
(*   VMs and files it finds is not modelled.                                  *)
(***************************************************************************)
EXTENDS Naturals

CONSTANTS
  Tasks,         \* hostnames: service name and instance number
  Deployments,   \* calls of Deploy
  Undeployments, \* calls of Undeploy
  TaskOf,        \* the task a call is about
  Overlay,       \* is the overlay network enabled
  None

ASSUME UnikernelAssumption ==
  /\ TaskOf \in [Deployments \cup Undeployments -> Tasks]
  /\ Overlay \in BOOLEAN
  /\ None \notin Deployments \cup Undeployments

VARIABLES
  up,          \* is the node engine running
  killQueue,   \* task -> the deployment whose kill channel is entered
  qemuDomains, \* task -> the deployment whose VM is entered
  holder,      \* the Undeploy that holds channelLock while it waits
  hpc,         \* deployment -> where Deploy is
  rpc,         \* deployment -> where its creation routine is
  killChannel, \* deployment -> does its one-place kill channel hold a value
  reported,    \* the deployments whose VM was reported DEAD
  upc,         \* undeployment -> where Undeploy is
  target,      \* undeployment -> the deployment whose channel it uses
  vm,          \* deployment -> its QEMU process
  instDir,     \* the tasks that have an instance directory
  namespace,   \* task -> its network namespace: "none", "fresh", or "taken" when a
               \* VM has been given the address in it
  archive,     \* is the kernel archive there
  kernel       \* the kernel unpacked from it: "none", "cut" or "whole"

mapVars  == <<killQueue, qemuDomains>>
callVars == <<upc, target, holder>>
fileVars == <<instDir, archive, kernel>>
vars == <<up, mapVars, hpc, rpc, killChannel, reported, callVars, vm, fileVars, namespace>>

TypeOK ==
  /\ up \in BOOLEAN
  /\ killQueue \in [Tasks -> Deployments \cup {None}]
  /\ qemuDomains \in [Tasks -> Deployments \cup {None}]
  /\ holder \in Undeployments \cup {None}
  /\ hpc \in [Deployments -> {"idle", "register", "wait", "refused", "failed", "ok"}]
  /\ rpc \in [Deployments -> {"none", "stat", "mkdir", "archive", "download", "gunzip",
       "unpack", "files", "network", "args", "start", "dial", "revert", "revertKill",
       "clearFailed", "clearKill", "abort", "domain", "started", "select", "quit", "clear",
       "cleanup", "answer", "done"}]
  /\ killChannel \in [Deployments -> BOOLEAN]
  /\ reported \subseteq Deployments
  /\ upc \in [Undeployments -> {"idle", "send", "await", "missing", "ok"}]
  /\ target \in [Undeployments -> Deployments \cup {None}]
  /\ vm \in [Deployments -> {"none", "alive", "exited"}]
  /\ instDir \subseteq Tasks
  /\ namespace \in [Tasks -> {"none", "fresh", "taken"}]
  /\ archive \in BOOLEAN
  /\ kernel \in {"none", "cut", "whole"}

Init ==
  /\ up = TRUE
  /\ killQueue = [t \in Tasks |-> None]
  /\ qemuDomains = [t \in Tasks |-> None]
  /\ holder = None
  /\ hpc = [d \in Deployments |-> "idle"]
  /\ rpc = [d \in Deployments |-> "none"]
  /\ killChannel = [d \in Deployments |-> FALSE]
  /\ reported = {}
  /\ upc = [u \in Undeployments |-> "idle"]
  /\ target = [u \in Undeployments |-> None]
  /\ vm = [d \in Deployments |-> "none"]
  /\ instDir = {}
  /\ namespace = [t \in Tasks |-> "none"]
  /\ archive = FALSE
  /\ kernel = "none"

\* The routine of d goes on, which it does while the engine runs.
Goto(d, from, to) ==
  /\ up
  /\ rpc[d] = from
  /\ rpc' = [rpc EXCEPT ![d] = to]

Unlocked == holder = None

-------------------------------------------------------------------------------
(* Deploy *)

\* Deploy looks the task up under the read lock ...
DeployCheck(d) ==
  /\ up /\ hpc[d] = "idle"
  /\ Unlocked
  /\ hpc' = [hpc EXCEPT ![d] = IF killQueue[TaskOf[d]] = None THEN "register" ELSE "refused"]
  /\ UNCHANGED <<up, mapVars, rpc, killChannel, reported, callVars, vm, fileVars, namespace>>

\* ... and enters its kill channel under the write lock, whatever is there now.
DeployRegister(d) ==
  /\ hpc[d] = "register"
  /\ Unlocked
  /\ hpc' = [hpc EXCEPT ![d] = "wait"]
  /\ killQueue' = [killQueue EXCEPT ![TaskOf[d]] = d]
  /\ Goto(d, "none", "stat")
  /\ UNCHANGED <<up, qemuDomains, killChannel, reported, callVars, vm, fileVars, namespace>>

-------------------------------------------------------------------------------
(* GetKernelImage *)

\* An instance directory that is there already ends the deployment.
ImageStat(d) ==
  /\ Goto(d, "stat", IF TaskOf[d] \in instDir THEN "revert" ELSE "mkdir")
  /\ UNCHANGED <<up, mapVars, hpc, killChannel, reported, callVars, vm, fileVars, namespace>>

\* That somebody else made it meanwhile is only logged.
ImageMkdir(d) ==
  /\ Goto(d, "mkdir", "archive")
  /\ instDir' = instDir \cup {TaskOf[d]}
  /\ UNCHANGED <<up, mapVars, hpc, killChannel, reported, callVars, vm, archive, kernel, namespace>>

\* An archive that is there is taken to be complete and unpacked.
ImageArchive(d) ==
  /\ \/ archive /\ Goto(d, "archive", "files") /\ UNCHANGED archive
     \/ ~archive /\ Goto(d, "archive", "download") /\ archive' = TRUE
     \/ ~archive /\ Goto(d, "archive", "revert") /\ UNCHANGED archive
  /\ UNCHANGED <<up, mapVars, hpc, killChannel, reported, callVars, vm, instDir, kernel, namespace>>

\* The download has no timeout, and whatever the server answers, an error page
\* too, becomes the archive.  Only a failing transfer removes the archive.
ImageDownload(d) ==
  /\ \/ Goto(d, "download", "gunzip") /\ UNCHANGED archive
     \/ Goto(d, "download", "revert") /\ archive' = FALSE
  /\ UNCHANGED <<up, mapVars, hpc, killChannel, reported, callVars, vm, instDir, kernel, namespace>>

\* The archive is opened.  That it is no gzip file is only logged: reading on
\* through the nil reader panics, and the node engine is gone.
ImageGunzip(d) ==
  /\ \/ Goto(d, "gunzip", "unpack") /\ UNCHANGED up
     \/ up /\ rpc[d] = "gunzip" /\ up' = FALSE /\ UNCHANGED rpc
  /\ UNCHANGED <<mapVars, hpc, killChannel, reported, callVars, vm, fileVars, namespace>>

\* The kernel is created and then filled; an entry that cannot be read ends
\* the deployment, a file that cannot be filled does not.
ImageUnpack(d) ==
  /\ \/ Goto(d, "unpack", "unpack") /\ kernel' = "cut"
     \/ Goto(d, "unpack", "files") /\ kernel' = IF kernel = "cut" THEN "whole" ELSE kernel
     \/ Goto(d, "unpack", "files") /\ UNCHANGED kernel
     \/ Goto(d, "unpack", "revert") /\ UNCHANGED kernel
  /\ UNCHANGED <<up, mapVars, hpc, killChannel, reported, callVars, vm, instDir, archive, namespace>>

ImageFiles(d) ==
  /\ Goto(d, "files", IF kernel = "none" THEN "revert" ELSE "network")
  /\ UNCHANGED <<up, mapVars, hpc, killChannel, reported, callVars, vm, fileVars, namespace>>

-------------------------------------------------------------------------------
(* VirtualMachineCreationRoutine *)

Network(d) ==
  /\ \/ /\ Goto(d, "network", "args")
        /\ namespace' = [namespace EXCEPT ![TaskOf[d]] = IF Overlay THEN "fresh" ELSE @]
     \/ Overlay /\ Goto(d, "network", "revert") /\ UNCHANGED namespace
  /\ UNCHANGED <<up, mapVars, hpc, killChannel, reported, callVars, vm, fileVars>>

\* The address of the namespace is read and removed from it.  That it is gone
\* already is no error: the VM gets none.
DeleteDefaultIpGwMask(t) ==
  /\ namespace[t] # "none"
  /\ namespace' = [namespace EXCEPT ![t] = "taken"]

\* The arguments of QEMU, those of its network among them; the namespace stays
\* when they cannot be made.
GenerateArgs(d) ==
  /\ \/ /\ Goto(d, "args", "start")
        /\ IF Overlay THEN DeleteDefaultIpGwMask(TaskOf[d]) ELSE UNCHANGED namespace
     \/ Overlay /\ Goto(d, "args", "revert") /\ UNCHANGED namespace
  /\ UNCHANGED <<up, mapVars, hpc, killChannel, reported, callVars, vm, fileVars>>

\* The mutation of StartQemu: the process is entered before it is there.
StartQemuAsync(d) ==
  /\ Goto(d, "start", "dial")
  /\ vm' = [vm EXCEPT ![d] = "starting"]
  /\ UNCHANGED <<up, mapVars, hpc, killChannel, reported, callVars, fileVars, namespace>>

\* QEMU is started or not; the namespace stays when it is not.
StartQemu(d) ==
  /\ \/ Goto(d, "start", "dial") /\ vm' = [vm EXCEPT ![d] = "alive"]
     \/ Goto(d, "start", "revert") /\ UNCHANGED vm
  /\ UNCHANGED <<up, mapVars, hpc, killChannel, reported, callVars, fileVars, namespace>>

\* The QMP monitor is connected or not.
DialQmp(d) ==
  /\ Goto(d, "dial", "domain") \/ Goto(d, "dial", "revertKill")
  /\ UNCHANGED <<up, mapVars, hpc, killChannel, reported, callVars, vm, fileVars, namespace>>

\* revert hands the error to Deploy ...
Revert(d) ==
  /\ Goto(d, "revert", "clearFailed") \/ Goto(d, "revertKill", "clearKill")
  /\ hpc' = [hpc EXCEPT ![d] = "failed"]
  /\ UNCHANGED <<up, mapVars, killChannel, reported, callVars, vm, fileVars, namespace>>

\* ... and clears the kill queue and the instance directory under the lock.
RevertClear(d) ==
  /\ Unlocked
  /\ Goto(d, "clearFailed", "done") \/ Goto(d, "clearKill", "abort")
  /\ killQueue' = [killQueue EXCEPT ![TaskOf[d]] = None]
  /\ instDir' = instDir \ {TaskOf[d]}
  /\ UNCHANGED <<up, qemuDomains, hpc, killChannel, reported, callVars, vm, archive, kernel, namespace>>

\* The namespace is deleted, or it is only logged that it cannot be.
DeleteNamespace(t) ==
  namespace' = [namespace EXCEPT ![t] = "none"] \/ UNCHANGED namespace

\* Without a monitor the namespace is deleted and the process killed.
Abort(d) ==
  /\ Goto(d, "abort", "done")
  /\ DeleteNamespace(TaskOf[d])
  /\ vm' = [vm EXCEPT ![d] = "exited"]
  /\ UNCHANGED <<up, mapVars, hpc, killChannel, reported, callVars, fileVars>>

AddDomain(d) ==
  /\ Unlocked
  /\ Goto(d, "domain", "started")
  /\ qemuDomains' = [qemuDomains EXCEPT ![TaskOf[d]] = d]
  /\ UNCHANGED <<up, killQueue, hpc, killChannel, reported, callVars, vm, fileVars, namespace>>

\* Deploy returns and the routine waits for the VM's end or a kill.
Started(d) ==
  /\ Goto(d, "started", "select")
  /\ hpc' = [hpc EXCEPT ![d] = "ok"]
  /\ UNCHANGED <<up, mapVars, killChannel, reported, callVars, vm, fileVars, namespace>>

\* The mutation of Select: the end of the VM does not end the wait.
SelectKillOnly(d) ==
  /\ killChannel[d]
  /\ killChannel' = [killChannel EXCEPT ![d] = FALSE]
  /\ Goto(d, "select", "quit")
  /\ reported' = reported \cup {d}
  /\ UNCHANGED <<up, mapVars, hpc, callVars, vm, fileVars, namespace>>

\* Either ends the wait; the service is reported DEAD.
Select(d) ==
  /\ \/ vm[d] = "exited" /\ UNCHANGED killChannel
     \/ killChannel[d] /\ killChannel' = [killChannel EXCEPT ![d] = FALSE]
  /\ Goto(d, "select", "quit")
  /\ reported' = reported \cup {d}
  /\ UNCHANGED <<up, mapVars, hpc, callVars, vm, fileVars, namespace>>

\* The deferred clean-up: QEMU is asked to quit, which may fail.
Quit(d) ==
  /\ Goto(d, "quit", "clear")
  /\ vm' = [vm EXCEPT ![d] = "exited"] \/ UNCHANGED vm
  /\ UNCHANGED <<up, mapVars, hpc, killChannel, reported, callVars, fileVars, namespace>>

\* The mutation of Clear: the entry of the domain stays.
ClearQueueOnly(d) ==
  /\ Unlocked
  /\ Goto(d, "clear", "cleanup")
  /\ killQueue' = [killQueue EXCEPT ![TaskOf[d]] = None]
  /\ UNCHANGED <<up, qemuDomains, hpc, killChannel, reported, callVars, vm, fileVars, namespace>>

\* The entries of the task go, also when they are those of another deployment.
Clear(d) ==
  /\ Unlocked
  /\ Goto(d, "clear", "cleanup")
  /\ killQueue' = [killQueue EXCEPT ![TaskOf[d]] = None]
  /\ qemuDomains' = [qemuDomains EXCEPT ![TaskOf[d]] = None]
  /\ UNCHANGED <<up, hpc, killChannel, reported, callVars, vm, fileVars, namespace>>

Cleanup(d) ==
  /\ Goto(d, "cleanup", "answer")
  /\ DeleteNamespace(TaskOf[d])
  /\ instDir' = instDir \ {TaskOf[d]}
  /\ UNCHANGED <<up, mapVars, hpc, killChannel, reported, callVars, vm, archive, kernel>>

\* The answer to Undeploy goes into the kill channel.
Answer(d) ==
  /\ ~killChannel[d]
  /\ Goto(d, "answer", "done")
  /\ killChannel' = [killChannel EXCEPT ![d] = TRUE]
  /\ UNCHANGED <<up, mapVars, hpc, reported, callVars, vm, fileVars, namespace>>

-------------------------------------------------------------------------------
(* Undeploy *)

\* Undeploy takes the lock and keeps it until it returns.
UndeployLock(u) ==
  LET d == killQueue[TaskOf[u]] IN
  /\ up /\ upc[u] = "idle"
  /\ Unlocked
  /\ \/ d = None /\ upc' = [upc EXCEPT ![u] = "missing"] /\ UNCHANGED <<holder, target>>
     \/ /\ d # None
        /\ upc' = [upc EXCEPT ![u] = "send"]
        /\ target' = [target EXCEPT ![u] = d]
        /\ holder' = u
  /\ UNCHANGED <<up, mapVars, hpc, rpc, killChannel, reported, vm, fileVars, namespace>>

\* The value goes to the routine when that is parked in its select, else into
\* the channel.
UndeploySend(u) ==
  LET d == target[u] IN
  /\ up /\ upc[u] = "send"
  /\ ~killChannel[d]
  /\ \/ /\ Goto(d, "select", "quit")
        /\ reported' = reported \cup {d}
        /\ UNCHANGED killChannel
     \/ /\ killChannel' = [killChannel EXCEPT ![d] = TRUE]
        /\ UNCHANGED <<rpc, reported>>
  /\ upc' = [upc EXCEPT ![u] = "await"]
  /\ UNCHANGED <<up, mapVars, hpc, target, holder, vm, fileVars, namespace>>

\* The mutation of UndeployAwait: nothing bounds the wait for the answer.
UndeployAwaitAnswer(u) ==
  LET d == target[u] IN
  /\ up /\ upc[u] = "await"
  /\ killChannel[d]
  /\ killChannel' = [killChannel EXCEPT ![d] = FALSE]
  /\ upc' = [upc EXCEPT ![u] = "ok"]
  /\ holder' = None
  /\ killQueue' = [killQueue EXCEPT ![TaskOf[u]] = None]
  /\ UNCHANGED <<up, qemuDomains, hpc, rpc, reported, target, vm, fileVars, namespace>>

\* Undeploy takes what is in the channel, its own value if nobody took that,
\* and else returns after five seconds; the entry goes in either case.
UndeployAwait(u) ==
  LET d == target[u] IN
  /\ up /\ upc[u] = "await"
  /\ killChannel' = [killChannel EXCEPT ![d] = FALSE]
  /\ upc' = [upc EXCEPT ![u] = "ok"]
  /\ holder' = None
  /\ killQueue' = [killQueue EXCEPT ![TaskOf[u]] = None]
  /\ UNCHANGED <<up, qemuDomains, hpc, rpc, reported, target, vm, fileVars, namespace>>

-------------------------------------------------------------------------------
QemuExits(d) ==
  /\ vm[d] = "alive"
  /\ vm' = [vm EXCEPT ![d] = "exited"]
  /\ UNCHANGED <<up, mapVars, hpc, rpc, killChannel, reported, callVars, fileVars, namespace>>

GetKernelImage(d) ==
  \/ ImageStat(d) \/ ImageMkdir(d) \/ ImageArchive(d)
  \/ ImageDownload(d) \/ ImageGunzip(d) \/ ImageUnpack(d) \/ ImageFiles(d)

Routine(d) ==
  \/ GetKernelImage(d) \/ Network(d) \/ GenerateArgs(d) \/ StartQemu(d) \/ DialQmp(d)
  \/ Revert(d) \/ RevertClear(d) \/ Abort(d)
  \/ AddDomain(d) \/ Started(d) \/ Select(d)
  \/ Quit(d) \/ Clear(d) \/ Cleanup(d) \/ Answer(d)

Undeploy(u) == UndeployLock(u) \/ UndeploySend(u) \/ UndeployAwait(u)

Next ==
  \/ \E d \in Deployments : DeployCheck(d) \/ DeployRegister(d) \/ Routine(d) \/ QemuExits(d)
  \/ \E u \in Undeployments : Undeploy(u)

\* Goroutines go on, and who waits for channelLock gets it in the end.  Nothing
\* makes a download end.
Fairness ==
  /\ \A d \in Deployments :
       SF_vars(DeployRegister(d)) /\ SF_vars(rpc[d] # "download" /\ Routine(d))
  /\ \A u \in Undeployments : WF_vars(UndeploySend(u)) /\ WF_vars(UndeployAwait(u))

Spec == Init /\ [][Next]_vars /\ Fairness

-------------------------------------------------------------------------------
(* Properties *)

\* The kill queue is sound although deployments of one task clear each other's
\* entries: it and the domains never lead to a routine that has cleaned up
\* already, and no send into a one-place kill channel finds it full, so that
\* Undeploy, which sends with channelLock held, and the routine, which needs that
\* lock before it answers, cannot wait for each other.
KillQueueSound ==
  /\ \A u \in Undeployments : upc[u] = "send" => ~killChannel[target[u]]
  /\ \A d \in Deployments : rpc[d] = "answer" => ~killChannel[d]
  /\ \A t \in Tasks :
       /\ killQueue[t] # None =>
            /\ hpc[killQueue[t]] # "idle"
            /\ rpc[killQueue[t]] \notin {"abort", "cleanup", "answer", "done"}
       /\ qemuDomains[t] # None => rpc[qemuDomains[t]] \in {"started", "select", "quit", "clear"}

\* Unless the engine ends, every Undeploy that sends returns, and so does every
\* Deploy that registered and is not left in an endless download.
EveryCallReturns ==
  /\ \A d \in Deployments :
       []<>(rpc[d] # "download") => (hpc[d] = "register" ~> hpc[d] \in {"failed", "ok"} \/ ~up)
  /\ \A u \in Undeployments : upc[u] = "send" ~> upc[u] = "ok" \/ ~up

\* Unless the engine ends, a VM that has ended is reported and its routine cleans
\* up and ends, whether or not an Undeploy is waiting for an answer.
DeathHandled ==
  \A d \in Deployments :
    rpc[d] = "select" /\ vm[d] = "exited" ~> (d \in reported /\ rpc[d] = "done") \/ ~up
===============================================================================
