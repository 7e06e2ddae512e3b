----------------------------- MODULE CrosvmRuntime -----------------------------
(***************************************************************************)
(* The crosvm runtime of a worker's node engine: Runtime.Deploy, Undeploy    *)
(* and Stop, the Instance objects they create, start and close, and the      *)
(* goroutines of an instance that wait for its VM, claim an exit nobody      *)
(* asked for and restart the VM.                                             *)
(*                                                                         *)
(* The runtime's lock is held over a whole Deploy, Undeploy or Stop, so one  *)
(* operation is under way at a time; the goroutines of the instances run     *)
(* beside it and meet it at the instance's lock and its one-place exitChan.  *)
(*                                                                         *)
(* Simplifications.                                                         *)
(* - An instance object is a number; owner gives the task id it is for.  The *)
(*   n-th start of an object is one VM process, 1 <= n <= MaxStarts.         *)
(* - Creating the state directory, retrieving the image, the network and the *)
(*   configuration files happen under the runtime's lock and touch only the  *)
(*   new object's files: they are one step with every way it can fail.       *)
(* - Instance.Stop and WaitForExit have no caller and are left out, as are   *)
(*   logs, metrics and the periodic report, which change nothing.            *)
(***************************************************************************)
EXTENDS Naturals

CONSTANTS
  Ids,        \* task ids
  MaxObjects, \* bound on the Instance objects that are created
  OneShot,    \* the objects created for a one-shot service
  Overlay,    \* is the overlay network enabled
  MaxStarts,  \* bound on the starts of one object
  None        \* no object, no task

ASSUME CrosvmAssumption ==
  /\ Overlay \in BOOLEAN
  /\ MaxStarts \in Nat
  /\ MaxObjects \in Nat
  /\ None \notin Ids \cup Nat

Objects == 1 .. MaxObjects
Starts  == 1 .. MaxStarts
Exits   == {"success", "error"}

ASSUME OneShotAssumption == OneShot \subseteq Objects

VARIABLES
  instances,   \* Runtime.instances: task id -> object or None
  op,          \* the operation that holds the runtime's lock, and its task
  owner,       \* object -> the task it was created for, None before that
  status,      \* Instance.status
  startCount,  \* Instance.startCount
  exitChan,    \* Instance.exitChan, "empty" or the exit it holds
  waiter,      \* object -> start -> where its waitForExit goroutine is
  restarting,  \* object -> restart goroutines that have not run yet
  lastReport,  \* object -> the last status change it notified
  closer,      \* object -> where the Close of it that is under way is
  vm,          \* object -> start -> the VM process
  stateDir,    \* the tasks that have a state directory
  namespace    \* the tasks that have a network namespace

rtVars   == <<instances, op>>
instVars == <<owner, status, startCount, exitChan, waiter, restarting, lastReport>>
envVars  == <<stateDir, namespace>>
vars     == <<rtVars, instVars, closer, vm, envVars>>

TypeOK ==
  /\ instances \in [Ids -> Objects \cup {None}]
  /\ op \in [kind : {"none", "deploy", "undeploy", "stop"}, id : Ids \cup {None}]
  /\ owner \in [Objects -> Ids \cup {None}]
  /\ status \in [Objects -> {"stopped", "running", "closed"}]
  /\ startCount \in [Objects -> 0 .. MaxStarts]
  /\ exitChan \in [Objects -> Exits \cup {"empty"}]
  /\ waiter \in [Objects -> [Starts -> {"none", "wait", "claim", "done", "dropped"}]]
  /\ restarting \in [Objects -> 0 .. MaxStarts]
  /\ lastReport \in [Objects -> {"none", "COMPLETED", "DEAD"}]
  /\ closer \in [Objects -> {"idle", "lock", "wait", "teardown", "ok", "failed"}]
  /\ vm \in [Objects -> [Starts -> {"none", "setup", "up"} \cup Exits]]
  /\ stateDir \subseteq Ids
  /\ namespace \subseteq Ids

NoOp == [kind |-> "none", id |-> None]

Init ==
  /\ instances = [id \in Ids |-> None]
  /\ op = NoOp
  /\ owner = [o \in Objects |-> None]
  /\ status = [o \in Objects |-> "stopped"]
  /\ startCount = [o \in Objects |-> 0]
  /\ exitChan = [o \in Objects |-> "empty"]
  /\ waiter = [o \in Objects |-> [n \in Starts |-> "none"]]
  /\ restarting = [o \in Objects |-> 0]
  /\ lastReport = [o \in Objects |-> "none"]
  /\ closer = [o \in Objects |-> "idle"]
  /\ vm = [o \in Objects |-> [n \in Starts |-> "none"]]
  /\ stateDir = {}
  /\ namespace = {}

Alive(o, n) == vm[o][n] \in {"setup", "up"}
Exited(o, n) == vm[o][n] \in Exits

\* Close keeps the instance's lock while it waits for the exit and tears down.
Unlocked(o) == closer[o] \notin {"wait", "teardown"}

-------------------------------------------------------------------------------
(* The Runtime's operations *)

\* The steps of NewInstance that can fail, with what they leave behind: the
\* state directory, which nothing removes on a failure, and the namespace.
\* Only a failure to write the configuration files closes the object again.
NewInstanceFails(id) ==
  \/ UNCHANGED envVars
  \/ /\ stateDir' = stateDir \cup {id}
     /\ UNCHANGED namespace
  \/ /\ Overlay
     /\ stateDir' = stateDir \cup {id}
     /\ namespace' = namespace \cup {id}
  \/ /\ stateDir' = stateDir \ {id}
     /\ namespace' = namespace \ {id}

NewInstance(o, id) ==
  /\ owner[o] = None
  /\ \A p \in Objects : owner[p] = None => o <= p
  /\ owner' = [owner EXCEPT ![o] = id]
  /\ stateDir' = stateDir \cup {id}
  /\ namespace' = IF Overlay THEN namespace \cup {id} ELSE namespace

\* Deploy takes the lock; an unknown task gets a new Instance.
Deploy(id) ==
  /\ op = NoOp
  /\ \/ /\ instances[id] # None
        /\ op' = [kind |-> "deploy", id |-> id]
        /\ UNCHANGED <<instances, owner, envVars>>
     \/ /\ instances[id] = None
        /\ \E o \in Objects :
             /\ NewInstance(o, id)
             /\ instances' = [instances EXCEPT ![id] = o]
        /\ op' = [kind |-> "deploy", id |-> id]
     \/ /\ instances[id] = None
        /\ NewInstanceFails(id)
        /\ UNCHANGED <<instances, op, owner>>
  /\ UNCHANGED <<status, startCount, exitChan, waiter, restarting, lastReport, closer, vm>>

\* Instance.Start, under the instance's lock: it does nothing unless the VM is
\* stopped, and otherwise runs the VM or fails to.
Start(o) ==
  /\ Unlocked(o)
  /\ \/ UNCHANGED <<startCount, status, vm, waiter>>
     \/ /\ status[o] = "stopped"
        /\ startCount[o] < MaxStarts
        /\ startCount' = [startCount EXCEPT ![o] = @ + 1]
        /\ status' = [status EXCEPT ![o] = "running"]
        /\ vm' = [vm EXCEPT ![o][startCount[o] + 1] = "setup"]
        /\ waiter' = [waiter EXCEPT ![o][startCount[o] + 1] = "wait"]

DeployStart ==
  /\ op.kind = "deploy"
  /\ Start(instances[op.id])
  /\ op' = NoOp
  /\ UNCHANGED <<instances, owner, exitChan, restarting, lastReport, closer, envVars>>

\* Undeploy takes the lock; a task without an instance is done at once.
Undeploy(id) ==
  /\ op = NoOp
  /\ instances[id] # None
  /\ op' = [kind |-> "undeploy", id |-> id]
  /\ closer' = [closer EXCEPT ![instances[id]] = "lock"]
  /\ UNCHANGED <<instances, instVars, vm, envVars>>

\* The mutation of UndeployEnd: the entry goes whatever Close returned.
UndeployEndForgets ==
  /\ op.kind = "undeploy"
  /\ LET o == instances[op.id]
     IN  /\ closer[o] \in {"ok", "failed"}
         /\ instances' = [instances EXCEPT ![op.id] = None]
         /\ closer' = [closer EXCEPT ![o] = "idle"]
  /\ op' = NoOp
  /\ UNCHANGED <<instVars, vm, envVars>>

\* The entry goes only when Close succeeded.
UndeployEnd ==
  /\ op.kind = "undeploy"
  /\ LET o == instances[op.id]
     IN  /\ closer[o] \in {"ok", "failed"}
         /\ instances' = [instances EXCEPT ![op.id] = IF closer[o] = "ok" THEN None ELSE o]
         /\ closer' = [closer EXCEPT ![o] = "idle"]
  /\ op' = NoOp
  /\ UNCHANGED <<instVars, vm, envVars>>

Registered(o) == \E id \in Ids : instances[id] = o

\* Stop closes all instances side by side, waits for all of them and forgets
\* them, the ones it could not close too.
Stop ==
  /\ op = NoOp
  /\ op' = [kind |-> "stop", id |-> None]
  /\ closer' = [o \in Objects |-> IF Registered(o) THEN "lock" ELSE closer[o]]
  /\ UNCHANGED <<instances, instVars, vm, envVars>>

StopEnd ==
  /\ op.kind = "stop"
  /\ \A o \in Objects : Registered(o) => closer[o] \in {"ok", "failed"}
  /\ instances' = [id \in Ids |-> None]
  /\ op' = NoOp
  /\ UNCHANGED <<instVars, closer, vm, envVars>>

-------------------------------------------------------------------------------
(* Instance.Close *)

\* Close gets the lock.  It asks a running VM to stop (a VM that is not up yet
\* cannot be asked, which is only logged) and waits for its exit.
CloseLock(o) ==
  /\ closer[o] = "lock"
  /\ \/ /\ status[o] = "closed"
        /\ closer' = [closer EXCEPT ![o] = "ok"]
        /\ UNCHANGED status
     \/ /\ status[o] = "running"
        /\ closer' = [closer EXCEPT ![o] = "wait"]
        /\ UNCHANGED status
     \/ /\ status[o] = "stopped"
        /\ status' = [status EXCEPT ![o] = "closed"]
        /\ closer' = [closer EXCEPT ![o] = "teardown"]
  /\ UNCHANGED <<rtVars, owner, startCount, exitChan, waiter, restarting, lastReport, vm, envVars>>

CloseExit(o) ==
  /\ closer[o] = "wait"
  /\ exitChan[o] # "empty"
  /\ exitChan' = [exitChan EXCEPT ![o] = "empty"]
  /\ status' = [status EXCEPT ![o] = "closed"]
  /\ closer' = [closer EXCEPT ![o] = "teardown"]
  /\ UNCHANGED <<rtVars, owner, startCount, waiter, restarting, lastReport, vm, envVars>>

\* The mutation of CloseTimeout: the instance counts as closed all the same.
CloseTimeoutGoesOn(o) ==
  /\ closer[o] = "wait"
  /\ status' = [status EXCEPT ![o] = "closed"]
  /\ closer' = [closer EXCEPT ![o] = "teardown"]
  /\ UNCHANGED <<rtVars, owner, startCount, exitChan, waiter, restarting, lastReport, vm, envVars>>

\* The mutation of CloseTimeout: Close waits as long as the VM lives.
CloseTimeoutAfterExit(o) ==
  /\ closer[o] = "wait"
  /\ \A n \in Starts : ~Alive(o, n)
  /\ closer' = [closer EXCEPT ![o] = "failed"]
  /\ UNCHANGED <<rtVars, instVars, vm, envVars>>

\* Ten seconds later Close gives up and the instance is running as before.
CloseTimeout(o) ==
  /\ closer[o] = "wait"
  /\ closer' = [closer EXCEPT ![o] = "failed"]
  /\ UNCHANGED <<rtVars, instVars, vm, envVars>>

\* The network and the state directory are removed, the network first: when
\* that fails the object is closed and both stay.
CloseTeardown(o) ==
  /\ closer[o] = "teardown"
  /\ \/ /\ closer' = [closer EXCEPT ![o] = "ok"]
        /\ namespace' = namespace \ {owner[o]}
        /\ stateDir' = stateDir \ {owner[o]}
     \/ /\ Overlay
        /\ closer' = [closer EXCEPT ![o] = "failed"]
        /\ UNCHANGED envVars
  /\ UNCHANGED <<rtVars, instVars, vm>>

-------------------------------------------------------------------------------
(* The goroutines of an instance *)

\* The mutation of WaitForExit: it looks at the VM once instead of waiting.
PollExit(o, n) ==
  /\ waiter[o][n] = "wait"
  /\ exitChan[o] = "empty"
  /\ exitChan' = [exitChan EXCEPT ![o] = vm[o][n]]
  /\ waiter' = [waiter EXCEPT ![o][n] = "claim"]
  /\ UNCHANGED <<rtVars, owner, status, startCount, restarting, lastReport, closer, vm, envVars>>

\* waitForExit: the VM has ended and its exit goes into the channel.
WaitForExit(o, n) ==
  /\ waiter[o][n] = "wait"
  /\ Exited(o, n)
  /\ \/ /\ exitChan[o] = "empty"
        /\ exitChan' = [exitChan EXCEPT ![o] = vm[o][n]]
        /\ waiter' = [waiter EXCEPT ![o][n] = "claim"]
     \/ /\ exitChan[o] # "empty"
        /\ waiter' = [waiter EXCEPT ![o][n] = "dropped"]
        /\ UNCHANGED exitChan
  /\ vm' = [vm EXCEPT ![o][n] = "none"]
  /\ UNCHANGED <<rtVars, owner, status, startCount, restarting, lastReport, closer, envVars>>

\* A one-shot service has completed or died.  Any other counts as dead and is
\* restarted by a goroutine of its own.
Report(o, exit) ==
  /\ lastReport' = [lastReport EXCEPT ![o] =
       IF o \in OneShot /\ exit = "success" THEN "COMPLETED" ELSE "DEAD"]
  /\ restarting' = [restarting EXCEPT ![o] = IF o \in OneShot THEN @ ELSE @ + 1]

\* The mutation of HandleUnclaimedExit: an exit that Close has taken is claimed
\* a second time.
ClaimAnyExit(o, n) ==
  /\ waiter[o][n] = "claim"
  /\ Unlocked(o)
  /\ waiter' = [waiter EXCEPT ![o][n] = "done"]
  /\ n = startCount[o]
  /\ exitChan' = [exitChan EXCEPT ![o] = "empty"]
  /\ status' = [status EXCEPT ![o] = "stopped"]
  /\ Report(o, exitChan[o])
  /\ UNCHANGED <<rtVars, owner, startCount, closer, vm, envVars>>

\* handleUnclaimedExit: nothing to do after another start or when Close took
\* the exit; else the VM ended by itself.
HandleUnclaimedExit(o, n) ==
  /\ waiter[o][n] = "claim"
  /\ Unlocked(o)
  /\ waiter' = [waiter EXCEPT ![o][n] = "done"]
  /\ \/ /\ n # startCount[o] \/ exitChan[o] = "empty"
        /\ UNCHANGED <<exitChan, status, restarting, lastReport>>
     \/ /\ n = startCount[o] /\ exitChan[o] # "empty"
        /\ exitChan' = [exitChan EXCEPT ![o] = "empty"]
        /\ status' = [status EXCEPT ![o] = "stopped"]
        /\ Report(o, exitChan[o])
  /\ UNCHANGED <<rtVars, owner, startCount, closer, vm, envVars>>

Restart(o) ==
  /\ restarting[o] > 0
  /\ Start(o)
  /\ restarting' = [restarting EXCEPT ![o] = @ - 1]
  /\ UNCHANGED <<rtVars, owner, exitChan, lastReport, closer, envVars>>

-------------------------------------------------------------------------------
(* The VM process *)

\* machinedExec registers a machine named after the task with systemd, which
\* has one machine of a name, moves into its cgroup and becomes crosvm.
MachinedExec(o, n) ==
  /\ vm[o][n] = "setup"
  /\ \A p \in Objects, m \in Starts : vm[p][m] = "up" => owner[p] # owner[o]
  /\ vm' = [vm EXCEPT ![o][n] = "up"]
  /\ UNCHANGED <<rtVars, instVars, closer, envVars>>

\* A panic of machinedExec, or the end of crosvm.
VmEnds(o, n) ==
  /\ Alive(o, n)
  /\ \E e \in Exits :
       /\ vm[o][n] = "setup" => e = "error"
       /\ vm' = [vm EXCEPT ![o][n] = e]
  /\ UNCHANGED <<rtVars, instVars, closer, envVars>>

-------------------------------------------------------------------------------
CloseStep(o) ==
  CloseLock(o) \/ CloseExit(o) \/ CloseTimeout(o) \/ CloseTeardown(o)

Next ==
  \/ \E id \in Ids : Deploy(id) \/ Undeploy(id)
  \/ DeployStart \/ UndeployEnd \/ Stop \/ StopEnd
  \/ \E o \in Objects : CloseStep(o) \/ Restart(o)
  \/ \E o \in Objects, n \in Starts :
       \/ WaitForExit(o, n) \/ HandleUnclaimedExit(o, n)
       \/ MachinedExec(o, n) \/ VmEnds(o, n)

\* Goroutines that can go on do; whether a VM ever ends is up to the VM.
Fairness ==
  /\ WF_vars(DeployStart) /\ WF_vars(UndeployEnd) /\ WF_vars(StopEnd)
  /\ \A o \in Objects : WF_vars(CloseStep(o)) /\ SF_vars(Restart(o))
  /\ \A o \in Objects, n \in Starts :
       WF_vars(WaitForExit(o, n)) /\ SF_vars(HandleUnclaimedExit(o, n))

Spec == Init /\ [][Next]_vars /\ Fairness

-------------------------------------------------------------------------------
(* Properties *)

\* The phase of the machine as Instance's users see it.
LifePhase == [o \in Objects |->
  CASE owner[o] = None -> "new"
    [] owner[o] # None /\ status[o] = "running" ->
         IF Alive(o, startCount[o]) THEN "running" ELSE "exited"
    [] OTHER -> status[o]]

Life == INSTANCE VmLifecycle WITH Instances <- Objects, phase <- LifePhase

\* Instance implements VmLifecycle: starts and exits alternate, every exit is
\* taken note of exactly once, and a closed instance stays closed although
\* restart goroutines, claims and closes run in any order (instance.go, lock
\* and exitChan of Instance).
LifecycleKept == Life!Spec

\* A VM process that is alive is the one of the latest start of an instance
\* that is running: no instance has two VMs, a closed one has none.  So
\* waitForExit never finds the one-place exitChan taken, which the code calls
\* impossible: the exit of one start is claimed before the next start.
OneVmAtATime ==
  \A o \in Objects, n \in Starts :
    /\ Alive(o, n) => n = startCount[o] /\ status[o] = "running"
    /\ waiter[o][n] = "wait" => exitChan[o] = "empty"
    /\ waiter[o][n] # "dropped"

\* A VM process belongs to an instance the runtime can still undeploy and has its
\* state directory and, with the overlay network, its namespace, unless Stop gave
\* up on closing it: no Close, and no failed Deploy of the same task, removes
\* them under it.  (After such a Stop a later instance of the task may share them.)
VmAccountedFor ==
  \A o \in Objects, n \in Starts :
    Alive(o, n) =>
      \/ closer[o] = "failed"
      \/ /\ Registered(o)
         /\ owner[o] \in stateDir
         /\ Overlay => owner[o] \in namespace

\* Whoever waits for the runtime's lock gets it: no VM that does not end, and
\* no exit that somebody else took, keeps an operation from ending.
OperationsEnd == []<>(op = NoOp)
===============================================================================
