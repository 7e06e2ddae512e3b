-------------------------- MODULE CrosvmRuntimeProofs --------------------------
(***************************************************************************)
(* Proofs of the safety properties of CrosvmRuntime and of the safety part of *)
(* its refinement of VmLifecycle, for any number of tasks, objects and starts.*)
(***************************************************************************)
EXTENDS CrosvmRuntime, TLAPS

-------------------------------------------------------------------------------
(* The inductive invariant *)

\* A VM process has a waiter, and only the latest start of a running instance
\* has one, while the exit channel is empty.
VmTracked ==
  \A o \in Objects, n \in Starts :
    /\ vm[o][n] # "none" <=> waiter[o][n] = "wait"
    /\ waiter[o][n] = "wait" =>
         n = startCount[o] /\ status[o] = "running" /\ exitChan[o] = "empty"
    /\ waiter[o][n] # "dropped"

\* An exit in the channel is that of the latest start, of an instance that still
\* counts as running, and the goroutine that may claim it is there.
ExitKept ==
  \A o \in Objects :
    exitChan[o] # "empty" =>
      /\ status[o] = "running"
      /\ startCount[o] \in Starts
      /\ waiter[o][startCount[o]] = "claim"

\* A restart goroutine stands for a start whose exit was claimed.
RestartsEarned ==
  \A o \in Objects :
    /\ restarting[o] <= startCount[o]
    /\ status[o] = "running" => restarting[o] < startCount[o]

\* An object that has not been created is as Init left it.
Untouched ==
  \A o \in Objects :
    owner[o] = None => status[o] = "stopped" /\ startCount[o] = 0

\* An entry of the runtime's map is the object that was created for the task,
\* and an operation works on an entry.
EntriesOwned ==
  /\ \A id \in Ids : instances[id] # None => owner[instances[id]] = id
  /\ op.kind \in {"deploy", "undeploy"} => op.id \in Ids /\ instances[op.id] # None

\* Close works on an object of the map, and is past the wait only when the object
\* is closed.
ClosesEntries ==
  \A o \in Objects :
    /\ closer[o] \in {"lock", "wait", "teardown"} => Registered(o)
    /\ closer[o] \in {"teardown", "ok"} => status[o] = "closed"

\* An object that may have a VM is in the map, with its state directory and its
\* namespace, unless Stop gave up on it.
OpenHeld ==
  \A o \in Objects :
    owner[o] # None /\ status[o] # "closed" =>
      /\ Registered(o) \/ closer[o] = "failed"
      /\ Registered(o) => owner[o] \in stateDir /\ (Overlay => owner[o] \in namespace)

CrosvmInv ==
  /\ TypeOK
  /\ VmTracked /\ ExitKept /\ RestartsEarned
  /\ Untouched /\ EntriesOwned /\ ClosesEntries /\ OpenHeld

-------------------------------------------------------------------------------
(* The invariant is inductive *)

\* An object in the map is there under the task it was created for.
LEMMA RegisteredOwner ==
  ASSUME TypeOK, EntriesOwned, NEW o \in Objects, Registered(o)
  PROVE  owner[o] \in Ids /\ owner[o] # None /\ instances[owner[o]] = o /\ o # None
<1>1. o # None
  BY CrosvmAssumption DEF Objects
<1>2. PICK id \in Ids : instances[id] = o
  BY DEF Registered
<1>3. QED
  BY <1>1, <1>2, CrosvmAssumption DEF EntriesOwned

\* The operations of the runtime.
LEMMA RuntimeStep ==
  ASSUME CrosvmInv,
         \/ \E id \in Ids : Deploy(id) \/ Undeploy(id)
         \/ UndeployEnd \/ Stop \/ StopEnd
  PROVE  CrosvmInv'
<1> USE CrosvmAssumption DEF CrosvmInv, Objects, rtVars, instVars, envVars, NoOp
<1>1. ASSUME NEW id \in Ids, Deploy(id) PROVE CrosvmInv'
  <2> USE DEF TypeOK
  <2>0. UNCHANGED <<status, startCount, exitChan, waiter, restarting, lastReport, closer, vm>>
    BY <1>1 DEF Deploy
  <2>1. VmTracked' /\ ExitKept' /\ RestartsEarned'
    BY <2>0 DEF VmTracked, ExitKept, RestartsEarned
  <2>2. CASE /\ instances[id] # None
             /\ op' = [kind |-> "deploy", id |-> id]
             /\ UNCHANGED <<instances, owner, envVars>>
    <3>1. TypeOK'
      BY <2>0, <2>2
    <3>2. Untouched' /\ EntriesOwned'
      BY <2>0, <2>2 DEF Untouched, EntriesOwned
    <3>3. ClosesEntries' /\ OpenHeld'
      BY <2>0, <2>2 DEF ClosesEntries, OpenHeld, Registered
    <3>4. QED
      BY <2>1, <3>1, <3>2, <3>3
  <2>3. ASSUME NEW o \in Objects, instances[id] = None, NewInstance(o, id),
               instances' = [instances EXCEPT ![id] = o],
               op' = [kind |-> "deploy", id |-> id]
        PROVE  CrosvmInv'
    <3>1. TypeOK' /\ Untouched'
      BY <2>0, <2>3 DEF NewInstance, Untouched
    <3>2. EntriesOwned'
      BY <2>3 DEF NewInstance, EntriesOwned
    <3>3. \A p \in Objects : p # o => (Registered(p) <=> Registered(p)')
      BY <2>3 DEF Registered
    <3>4. ClosesEntries'
      BY <2>0, <2>3, <3>3 DEF ClosesEntries, Registered
    <3>5. OpenHeld'
      <4>1. /\ owner'[o] = id /\ id \in stateDir' /\ (Overlay => id \in namespace')
            /\ stateDir \subseteq stateDir' /\ namespace \subseteq namespace'
            /\ \A p \in Objects \ {o} : owner'[p] = owner[p]
        BY <2>3 DEF NewInstance
      <4>2. Registered(o)'
        BY <2>3 DEF Registered
      <4>3. QED
        BY <2>0, <3>3, <4>1, <4>2 DEF OpenHeld
    <3>6. QED
      BY <2>1, <3>1, <3>2, <3>4, <3>5
  <2>4. CASE instances[id] = None /\ NewInstanceFails(id) /\ UNCHANGED <<instances, op, owner>>
    <3>1. stateDir' \subseteq Ids /\ namespace' \subseteq Ids
      BY <2>4 DEF NewInstanceFails
    <3>2. \A i \in Ids : i # id => /\ i \in stateDir <=> i \in stateDir'
                                   /\ i \in namespace <=> i \in namespace'
      BY <2>4 DEF NewInstanceFails
    <3>3. OpenHeld'
      <4>1. \A o \in Objects : Registered(o)' <=> Registered(o)
        BY <2>4 DEF Registered
      <4>2. \A o \in Objects : Registered(o) => owner[o] \in Ids /\ owner[o] # id
        <5> SUFFICES ASSUME NEW o \in Objects, Registered(o) PROVE owner[o] \in Ids /\ owner[o] # id
          OBVIOUS
        <5>1. owner[o] \in Ids /\ instances[owner[o]] = o /\ o # None
          BY RegisteredOwner
        <5>2. QED
          BY <2>4, <5>1
      <4>3. QED
        BY <2>0, <2>4, <3>2, <4>1, <4>2 DEF OpenHeld
    <3>4. QED
      BY <2>0, <2>1, <2>4, <3>1, <3>3 DEF Untouched, EntriesOwned, ClosesEntries, Registered
  <2>5. QED
    BY <1>1, <2>2, <2>3, <2>4 DEF Deploy
<1>2. ASSUME NEW id \in Ids, Undeploy(id) PROVE CrosvmInv'
  <2>1. TypeOK'
    BY <1>2 DEF TypeOK, Undeploy
  <2>2. VmTracked' /\ ExitKept' /\ RestartsEarned' /\ Untouched'
    BY <1>2 DEF VmTracked, ExitKept, RestartsEarned, Untouched, Undeploy
  <2>3. EntriesOwned'
    BY <1>2 DEF EntriesOwned, TypeOK, Undeploy
  <2>4. ClosesEntries'
    BY <1>2 DEF ClosesEntries, Registered, EntriesOwned, TypeOK, Undeploy
  <2>5. OpenHeld'
    BY <1>2 DEF OpenHeld, Registered, EntriesOwned, ClosesEntries, Untouched, TypeOK, Undeploy
  <2>6. QED
    BY <2>1, <2>2, <2>3, <2>4, <2>5
<1>3. CASE UndeployEnd
  <2>1. TypeOK'
    BY <1>3 DEF TypeOK, EntriesOwned, UndeployEnd
  <2>2. VmTracked' /\ ExitKept' /\ RestartsEarned' /\ Untouched'
    BY <1>3 DEF VmTracked, ExitKept, RestartsEarned, Untouched, UndeployEnd
  <2>3. EntriesOwned'
    BY <1>3 DEF EntriesOwned, TypeOK, UndeployEnd
  <2>4. ClosesEntries'
    BY <1>3 DEF ClosesEntries, Registered, EntriesOwned, TypeOK, UndeployEnd
  <2>5. OpenHeld'
    <3>0. PICK o \in Objects : o = instances[op.id]
      BY <1>3 DEF UndeployEnd, EntriesOwned, TypeOK
    <3>1. op.id \in Ids /\ instances[op.id] = o /\ Registered(o)
      BY <1>3, <3>0 DEF UndeployEnd, EntriesOwned, Registered
    <3>2. /\ \A p \in Objects \ {o} : closer'[p] = closer[p] /\ (Registered(p)' <=> Registered(p))
          /\ UNCHANGED <<owner, status, stateDir, namespace>>
      BY <1>3, <3>1 DEF UndeployEnd, TypeOK, Registered
    <3>3. status[o] = "closed" \/ Registered(o)'
      BY <1>3, <3>1 DEF UndeployEnd, ClosesEntries, TypeOK, Registered
    <3>4. QED
      BY <3>1, <3>2, <3>3 DEF OpenHeld
  <2>6. QED
    BY <2>1, <2>2, <2>3, <2>4, <2>5
<1>4. CASE Stop
  <2>1. TypeOK'
    BY <1>4 DEF TypeOK, Stop
  <2>2. VmTracked' /\ ExitKept' /\ RestartsEarned' /\ Untouched'
    BY <1>4 DEF VmTracked, ExitKept, RestartsEarned, Untouched, Stop
  <2>3. EntriesOwned'
    BY <1>4 DEF EntriesOwned, TypeOK, Stop
  <2>4. ClosesEntries'
    BY <1>4 DEF ClosesEntries, Registered, EntriesOwned, TypeOK, Stop
  <2>5. OpenHeld'
    BY <1>4 DEF OpenHeld, Registered, EntriesOwned, ClosesEntries, Untouched, TypeOK, Stop
  <2>6. QED
    BY <2>1, <2>2, <2>3, <2>4, <2>5
<1>5. CASE StopEnd
  <2>1. TypeOK'
    BY <1>5 DEF TypeOK, StopEnd
  <2>2. VmTracked' /\ ExitKept' /\ RestartsEarned' /\ Untouched'
    BY <1>5 DEF VmTracked, ExitKept, RestartsEarned, Untouched, StopEnd
  <2>3. EntriesOwned'
    BY <1>5 DEF EntriesOwned, TypeOK, StopEnd
  <2>4. ClosesEntries'
    BY <1>5 DEF ClosesEntries, Registered, EntriesOwned, TypeOK, StopEnd
  <2>5. OpenHeld'
    <3>1. \A o \in Objects : ~Registered(o)'
      BY <1>5 DEF StopEnd, Registered
    <3>2. UNCHANGED <<owner, status, closer>>
      BY <1>5 DEF StopEnd
    <3>3. \A o \in Objects : Registered(o) /\ status[o] # "closed" => closer[o] = "failed"
      BY <1>5 DEF StopEnd, ClosesEntries
    <3>4. QED
      BY <3>1, <3>2, <3>3 DEF OpenHeld
  <2>6. QED
    BY <2>1, <2>2, <2>3, <2>4, <2>5
<1>6. QED
  BY <1>1, <1>2, <1>3, <1>4, <1>5

\* Start, whoever calls it, on an object that was created: what it does to the
\* parts of the invariant that are about the instance.
LEMMA StartKeeps ==
  ASSUME CrosvmInv, NEW o \in Objects, Start(o), owner[o] # None,
         UNCHANGED <<instances, owner, exitChan, closer, envVars>>
  PROVE  /\ status' \in [Objects -> {"stopped", "running", "closed"}]
         /\ startCount' \in [Objects -> 0 .. MaxStarts]
         /\ waiter' \in [Objects -> [Starts -> {"none", "wait", "claim", "done", "dropped"}]]
         /\ vm' \in [Objects -> [Starts -> {"none", "setup", "up"} \cup Exits]]
         /\ VmTracked' /\ ExitKept' /\ Untouched' /\ ClosesEntries' /\ OpenHeld'
         /\ \A p \in Objects :
              \/ UNCHANGED <<status[p], startCount[p]>>
              \/ startCount'[p] = startCount[p] + 1 /\ status[p] = "stopped"
<1> USE CrosvmAssumption DEF CrosvmInv, TypeOK, envVars
<1>1. CASE UNCHANGED <<startCount, status, vm, waiter>>
  BY <1>1 DEF VmTracked, ExitKept, Untouched, ClosesEntries, OpenHeld, Registered
<1>2. CASE /\ status[o] = "stopped" /\ startCount[o] < MaxStarts
           /\ startCount' = [startCount EXCEPT ![o] = @ + 1]
           /\ status' = [status EXCEPT ![o] = "running"]
           /\ vm' = [vm EXCEPT ![o][startCount[o] + 1] = "setup"]
           /\ waiter' = [waiter EXCEPT ![o][startCount[o] + 1] = "wait"]
  <2>1. startCount[o] + 1 \in Starts /\ startCount[o] + 1 \in 0 .. MaxStarts
    BY <1>2 DEF Starts
  <2>2. VmTracked'
    BY <1>2, <2>1 DEF VmTracked, ExitKept
  <2>3. ExitKept'
    BY <1>2, <2>1 DEF ExitKept
  <2>4. Untouched' /\ ClosesEntries' /\ OpenHeld'
    BY <1>2 DEF Untouched, ClosesEntries, OpenHeld, Registered
  <2>5. QED
    BY <1>2, <2>1, <2>2, <2>3, <2>4
<1>3. QED
  BY <1>1, <1>2 DEF Start

\* Starting an instance, by Deploy or by a restart goroutine.
LEMMA StartStep ==
  ASSUME CrosvmInv, DeployStart \/ \E o \in Objects : Restart(o)
  PROVE  CrosvmInv'
<1> USE CrosvmAssumption DEF rtVars, envVars
<1>1. CASE DeployStart
  <2>1. instances[op.id] \in Objects /\ owner[instances[op.id]] # None
    BY <1>1 DEF DeployStart, CrosvmInv, TypeOK, EntriesOwned
  <2>2. /\ Start(instances[op.id]) /\ op' = NoOp
        /\ UNCHANGED <<instances, owner, exitChan, restarting, lastReport, closer, envVars>>
    BY <1>1 DEF DeployStart
  <2>3. TypeOK'
    BY <2>1, <2>2, StartKeeps DEF CrosvmInv, TypeOK, NoOp
  <2>4. RestartsEarned'
    BY <2>1, <2>2, StartKeeps DEF CrosvmInv, TypeOK, RestartsEarned
  <2>5. EntriesOwned'
    BY <2>2 DEF CrosvmInv, EntriesOwned, NoOp
  <2>6. QED
    BY <2>1, <2>2, <2>3, <2>4, <2>5, StartKeeps DEF CrosvmInv
<1>2. ASSUME NEW o \in Objects, Restart(o) PROVE CrosvmInv'
  <2>1. owner[o] # None
    BY <1>2 DEF Restart, CrosvmInv, TypeOK, RestartsEarned, Untouched
  <2>2. /\ Start(o) /\ restarting[o] > 0
        /\ restarting' = [restarting EXCEPT ![o] = @ - 1]
        /\ UNCHANGED <<rtVars, owner, exitChan, lastReport, closer, envVars>>
    BY <1>2 DEF Restart
  <2>3. TypeOK'
    BY <2>1, <2>2, StartKeeps DEF CrosvmInv, TypeOK
  <2>4. RestartsEarned'
    <3>1. \A p \in Objects :
            /\ restarting'[p] = (IF p = o THEN restarting[p] - 1 ELSE restarting[p])
            /\ restarting[p] \in Nat /\ startCount[p] \in Nat
      BY <2>2 DEF CrosvmInv, TypeOK
    <3>2. \A p \in Objects :
            \/ UNCHANGED <<status[p], startCount[p]>>
            \/ startCount'[p] = startCount[p] + 1 /\ status[p] = "stopped"
      BY <2>1, <2>2, StartKeeps
    <3>3. QED
      BY <2>2, <3>1, <3>2 DEF CrosvmInv, RestartsEarned
  <2>5. EntriesOwned'
    BY <2>2 DEF CrosvmInv, EntriesOwned
  <2>6. QED
    BY <2>1, <2>2, <2>3, <2>4, <2>5, StartKeeps DEF CrosvmInv
<1>3. QED
  BY <1>1, <1>2

\* Close, from the lock to the teardown.
LEMMA CloseInvStep ==
  ASSUME CrosvmInv, NEW o \in Objects, CloseStep(o)
  PROVE  CrosvmInv'
<1> USE CrosvmAssumption DEF CrosvmInv, Objects, rtVars, instVars, envVars
<1>1. CASE CloseLock(o)
  <2> USE DEF TypeOK
  <2>1. /\ UNCHANGED <<rtVars, owner, startCount, exitChan, waiter, restarting, lastReport,
                       vm, envVars>>
        /\ \/ closer' = [closer EXCEPT ![o] = "ok"] /\ status[o] = "closed" /\ UNCHANGED status
           \/ closer' = [closer EXCEPT ![o] = "wait"] /\ UNCHANGED status
           \/ /\ closer' = [closer EXCEPT ![o] = "teardown"]
              /\ status' = [status EXCEPT ![o] = "closed"] /\ status[o] = "stopped"
    BY <1>1 DEF CloseLock
  <2>2. Registered(o) /\ owner[o] # None /\ closer[o] = "lock"
    BY <1>1, RegisteredOwner DEF CloseLock, ClosesEntries
  <2>10. TypeOK'
    <3>1. closer' \in [Objects -> {"idle", "lock", "wait", "teardown", "ok", "failed"}]
      <4>1. \E c \in {"ok", "wait", "teardown"} : closer' = [closer EXCEPT ![o] = c]
        BY <2>1
      <4>2. QED
        BY <4>1
    <3>2. status' \in [Objects -> {"stopped", "running", "closed"}]
      <4>1. UNCHANGED status \/ status' = [status EXCEPT ![o] = "closed"]
        BY <2>1
      <4>2. QED
        BY <4>1
    <3>3. QED
      BY <2>1, <3>1, <3>2
  <2>3. RestartsEarned'
    BY <2>1 DEF RestartsEarned
  <2>8. VmTracked'
    BY <2>1 DEF VmTracked
  <2>9. ExitKept'
    BY <2>1 DEF ExitKept
  <2>4. Untouched' /\ EntriesOwned'
    BY <2>1, <2>2 DEF Untouched, EntriesOwned
  <2>5. ClosesEntries'
    <3>1. \A p \in Objects : Registered(p)' <=> Registered(p)
      BY <2>1 DEF Registered
    <3>2. \A p \in Objects \ {o} : closer'[p] = closer[p] /\ status'[p] = status[p]
      BY <2>1
    <3>3. closer'[o] \in {"teardown", "ok"} => status'[o] = "closed"
      BY <2>1
    <3>4. QED
      BY <2>2, <3>1, <3>2, <3>3 DEF ClosesEntries
  <2>6. OpenHeld'
    <3>1. \A p \in Objects : Registered(p)' <=> Registered(p)
      BY <2>1 DEF Registered
    <3>2. \A p \in Objects \ {o} : closer'[p] = closer[p] /\ status'[p] = status[p]
      BY <2>1
    <3>3. status'[o] # "closed" => status[o] # "closed"
      BY <2>1
    <3>4. QED
      BY <2>1, <2>2, <3>1, <3>2, <3>3 DEF OpenHeld
  <2>7. QED
    BY <2>3, <2>10, <2>8, <2>9, <2>4, <2>5, <2>6
<1>2. CASE CloseExit(o)
  <2>1. TypeOK'
    BY <1>2 DEF TypeOK, CloseExit
  <2>2. VmTracked'
    BY <1>2 DEF VmTracked, ExitKept, Starts, TypeOK, CloseExit
  <2>3. ExitKept'
    BY <1>2 DEF ExitKept, VmTracked, TypeOK, CloseExit
  <2>4. Untouched'
    BY <1>2 DEF Untouched, ClosesEntries, EntriesOwned, Registered, TypeOK, CloseExit
  <2>5. RestartsEarned' /\ EntriesOwned'
    BY <1>2 DEF RestartsEarned, EntriesOwned, CloseExit
  <2>6. ClosesEntries'
    BY <1>2 DEF ClosesEntries, Registered, EntriesOwned, TypeOK, CloseExit
  <2>7. OpenHeld'
    <3>1. \A p \in Objects : Registered(p)' <=> Registered(p)
      BY <1>2 DEF CloseExit, Registered
    <3>2. /\ \A p \in Objects \ {o} : closer'[p] = closer[p] /\ status'[p] = status[p]
          /\ status'[o] = "closed" /\ UNCHANGED <<owner, stateDir, namespace>>
      BY <1>2 DEF CloseExit, TypeOK
    <3>3. QED
      BY <3>1, <3>2 DEF OpenHeld
  <2>8. QED
    BY <2>1, <2>2, <2>3, <2>4, <2>5, <2>6, <2>7
<1>3. CASE CloseTimeout(o)
  <2>1. TypeOK'
    BY <1>3 DEF TypeOK, CloseTimeout
  <2>2. VmTracked' /\ ExitKept' /\ RestartsEarned' /\ Untouched' /\ EntriesOwned'
    BY <1>3 DEF VmTracked, ExitKept, RestartsEarned, Untouched, EntriesOwned, CloseTimeout
  <2>3. ClosesEntries'
    BY <1>3 DEF ClosesEntries, Registered, EntriesOwned, TypeOK, CloseTimeout
  <2>4. OpenHeld'
    BY <1>3 DEF OpenHeld, Registered, EntriesOwned, ClosesEntries, Untouched, TypeOK, CloseTimeout
  <2>5. QED
    BY <2>1, <2>2, <2>3, <2>4
<1>4. CASE CloseTeardown(o)
  <2>1. TypeOK'
    BY <1>4 DEF TypeOK, CloseTeardown
  <2>2. VmTracked' /\ ExitKept' /\ RestartsEarned' /\ Untouched' /\ EntriesOwned'
    BY <1>4 DEF VmTracked, ExitKept, RestartsEarned, Untouched, EntriesOwned, CloseTeardown
  <2>3. ClosesEntries'
    <3>1. \A p \in Objects : Registered(p)' <=> Registered(p)
      BY <1>4 DEF CloseTeardown, Registered
    <3>2. status' = status /\ \A p \in Objects \ {o} : closer'[p] = closer[p]
      BY <1>4 DEF CloseTeardown, TypeOK
    <3>3. Registered(o) /\ status[o] = "closed"
      BY <1>4 DEF ClosesEntries, CloseTeardown
    <3>4. QED
      BY <3>1, <3>2, <3>3 DEF ClosesEntries
  <2>4. OpenHeld'
    <3>1. Registered(o) /\ status[o] = "closed" /\ closer[o] = "teardown"
      BY <1>4 DEF ClosesEntries, CloseTeardown
    <3>2. \A p \in Objects : p # o /\ Registered(p) => owner[p] # owner[o]
      BY <3>1, RegisteredOwner
    <3>3. \A p \in Objects : Registered(p)' <=> Registered(p)
      BY <1>4 DEF CloseTeardown, Registered
    <3>4. QED
      BY <1>4, <3>1, <3>2, <3>3 DEF CloseTeardown, OpenHeld, TypeOK
  <2>5. QED
    BY <2>1, <2>2, <2>3, <2>4
<1>5. QED
  BY <1>1, <1>2, <1>3, <1>4 DEF CloseStep

\* The goroutines that wait for a VM and claim its exit, and the VM itself.
LEMMA VmStep ==
  ASSUME CrosvmInv, NEW o \in Objects, NEW n \in Starts,
         \/ WaitForExit(o, n) \/ HandleUnclaimedExit(o, n)
         \/ MachinedExec(o, n) \/ VmEnds(o, n)
  PROVE  CrosvmInv'
<1> USE CrosvmAssumption DEF CrosvmInv, Objects, Starts, Exits, rtVars, instVars, envVars
<1>1. CASE WaitForExit(o, n)
  <2>1. TypeOK'
    <3>1. exitChan' \in [Objects -> Exits \cup {"empty"}]
      <4>1. UNCHANGED exitChan \/ \E e \in Exits : exitChan' = [exitChan EXCEPT ![o] = e]
        BY <1>1 DEF WaitForExit, Exited
      <4>2. QED
        BY <4>1 DEF TypeOK
    <3>2. waiter' \in [Objects -> [Starts -> {"none", "wait", "claim", "done", "dropped"}]]
      <4>1. \E w \in {"claim", "dropped"} : waiter' = [waiter EXCEPT ![o][n] = w]
        BY <1>1 DEF WaitForExit
      <4>2. QED
        BY <4>1 DEF TypeOK
    <3>3. vm' \in [Objects -> [Starts -> {"none", "setup", "up"} \cup Exits]]
      BY <1>1 DEF WaitForExit, TypeOK
    <3>4. QED
      BY <1>1, <3>1, <3>2, <3>3 DEF WaitForExit, TypeOK
  <2>6. /\ exitChan[o] = "empty" /\ n = startCount[o] /\ status[o] = "running"
        /\ \A m \in Starts \ {n} : waiter[o][m] # "wait"
    BY <1>1 DEF WaitForExit, VmTracked
  <2>7. /\ waiter'[o][n] = "claim" /\ vm'[o][n] = "none"
        /\ \A m \in Starts \ {n} : waiter'[o][m] = waiter[o][m] /\ vm'[o][m] = vm[o][m]
        /\ \A q \in Objects \ {o} :
             waiter'[q] = waiter[q] /\ vm'[q] = vm[q] /\ exitChan'[q] = exitChan[q]
        /\ UNCHANGED <<status, startCount>>
    <3>1. /\ exitChan' = [exitChan EXCEPT ![o] = vm[o][n]]
          /\ waiter' = [waiter EXCEPT ![o][n] = "claim"]
          /\ vm' = [vm EXCEPT ![o][n] = "none"]
          /\ UNCHANGED <<status, startCount>>
      BY <1>1, <2>6 DEF WaitForExit
    <3>2. /\ waiter'[o][n] = "claim" /\ \A m \in Starts \ {n} : waiter'[o][m] = waiter[o][m]
          /\ \A q \in Objects \ {o} : waiter'[q] = waiter[q]
      BY <3>1 DEF TypeOK
    <3>3. /\ vm'[o][n] = "none" /\ \A m \in Starts \ {n} : vm'[o][m] = vm[o][m]
          /\ \A q \in Objects \ {o} : vm'[q] = vm[q]
      BY <3>1 DEF TypeOK
    <3>4. \A q \in Objects \ {o} : exitChan'[q] = exitChan[q]
      BY <3>1 DEF TypeOK
    <3>5. QED
      BY <3>1, <3>2, <3>3, <3>4
  <2>2. VmTracked'
    <3>1. ASSUME NEW q \in Objects \ {o}, NEW m \in Starts
          PROVE  /\ vm'[q][m] # "none" <=> waiter'[q][m] = "wait"
                 /\ waiter'[q][m] = "wait" =>
                      m = startCount'[q] /\ status'[q] = "running" /\ exitChan'[q] = "empty"
                 /\ waiter'[q][m] # "dropped"
      BY <2>7 DEF VmTracked
    <3>2. ASSUME NEW m \in Starts
          PROVE  /\ vm'[o][m] # "none" <=> waiter'[o][m] = "wait"
                 /\ waiter'[o][m] # "wait" /\ waiter'[o][m] # "dropped"
      BY <2>6, <2>7 DEF VmTracked
    <3>3. QED
      BY <3>1, <3>2 DEF VmTracked
  <2>3. ExitKept'
    BY <2>6, <2>7 DEF ExitKept
  <2>4. RestartsEarned' /\ Untouched' /\ EntriesOwned' /\ ClosesEntries' /\ OpenHeld'
    BY <1>1 DEF RestartsEarned, Untouched, EntriesOwned, ClosesEntries, OpenHeld, Registered, WaitForExit
  <2>5. QED
    BY <2>1, <2>2, <2>3, <2>4
<1>2. CASE HandleUnclaimedExit(o, n)
  <2>1. TypeOK'
    <3>1. restarting' \in [Objects -> 0 .. MaxStarts]
      <4>1. CASE UNCHANGED restarting
        BY <4>1 DEF TypeOK
      <4>2. CASE exitChan[o] # "empty" /\ Report(o, exitChan[o])
        <5>1. restarting[o] + 1 \in 0 .. MaxStarts
          BY <4>2 DEF ExitKept, RestartsEarned, TypeOK
        <5>2. QED
          BY <4>2, <5>1 DEF Report, TypeOK
      <4>3. QED
        BY <1>2, <4>1, <4>2 DEF HandleUnclaimedExit
    <3>2. waiter' \in [Objects -> [Starts -> {"none", "wait", "claim", "done", "dropped"}]]
      BY <1>2 DEF HandleUnclaimedExit, TypeOK
    <3>3. lastReport' \in [Objects -> {"none", "COMPLETED", "DEAD"}]
      <4>1. UNCHANGED lastReport \/ \E r \in {"COMPLETED", "DEAD"} : lastReport' = [lastReport EXCEPT ![o] = r]
        BY <1>2 DEF HandleUnclaimedExit, Report
      <4>2. QED
        BY <4>1 DEF TypeOK
    <3>4. /\ exitChan' \in [Objects -> Exits \cup {"empty"}]
          /\ status' \in [Objects -> {"stopped", "running", "closed"}]
      <4>1. CASE UNCHANGED <<exitChan, status>>
        BY <4>1 DEF TypeOK
      <4>2. CASE /\ exitChan' = [exitChan EXCEPT ![o] = "empty"]
                 /\ status' = [status EXCEPT ![o] = "stopped"]
        BY <4>2 DEF TypeOK
      <4>3. QED
        BY <1>2, <4>1, <4>2 DEF HandleUnclaimedExit
    <3>5. QED
      BY <1>2, <3>1, <3>2, <3>3, <3>4 DEF HandleUnclaimedExit, TypeOK
  <2>10. /\ waiter'[o][n] = "done" /\ waiter[o][n] = "claim" /\ vm' = vm
         /\ \A m \in Starts \ {n} : waiter'[o][m] = waiter[o][m]
         /\ \A q \in Objects \ {o} :
              waiter'[q] = waiter[q] /\ status'[q] = status[q] /\ exitChan'[q] = exitChan[q]
         /\ UNCHANGED <<instances, op, owner, startCount, closer, stateDir, namespace>>
    <3>1. /\ waiter[o][n] = "claim" /\ vm' = vm /\ waiter' = [waiter EXCEPT ![o][n] = "done"]
          /\ UNCHANGED <<instances, op, owner, startCount, closer, stateDir, namespace>>
      BY <1>2 DEF HandleUnclaimedExit
    <3>2. /\ waiter'[o][n] = "done" /\ \A m \in Starts \ {n} : waiter'[o][m] = waiter[o][m]
          /\ \A q \in Objects \ {o} : waiter'[q] = waiter[q]
      BY <3>1 DEF TypeOK
    <3>3. \A q \in Objects \ {o} : status'[q] = status[q] /\ exitChan'[q] = exitChan[q]
      BY <1>2 DEF HandleUnclaimedExit, TypeOK
    <3>4. QED
      BY <3>1, <3>2, <3>3
  <2>11. \/ /\ UNCHANGED <<exitChan, status>>
            /\ n # startCount[o] \/ exitChan[o] = "empty"
         \/ /\ exitChan'[o] = "empty" /\ status'[o] = "stopped"
            /\ n = startCount[o] /\ status[o] = "running"
    BY <1>2 DEF HandleUnclaimedExit, ExitKept, TypeOK
  <2>2. VmTracked'
    <3>1. ASSUME NEW q \in Objects, NEW m \in Starts
          PROVE  waiter'[q][m] = "wait" <=> waiter[q][m] = "wait"
      BY <2>10
    <3>2. \A m \in Starts : waiter[o][m] = "wait" => UNCHANGED <<exitChan, status>>
      BY <2>10, <2>11 DEF VmTracked
    <3>3. ASSUME NEW q \in Objects, NEW m \in Starts, waiter'[q][m] = "wait"
          PROVE  m = startCount'[q] /\ status'[q] = "running" /\ exitChan'[q] = "empty"
      BY <2>10, <3>1, <3>2, <3>3 DEF VmTracked
    <3>4. ASSUME NEW q \in Objects, NEW m \in Starts
          PROVE  waiter'[q][m] # "dropped"
      BY <2>10 DEF VmTracked
    <3>5. QED
      BY <2>10, <3>1, <3>3, <3>4 DEF VmTracked
  <2>3. ExitKept'
    BY <2>10, <2>11 DEF ExitKept
  <2>4. RestartsEarned'
    <3>1. CASE UNCHANGED <<status, restarting>>
      BY <1>2, <3>1 DEF RestartsEarned, HandleUnclaimedExit
    <3>2. CASE exitChan[o] # "empty" /\ status' = [status EXCEPT ![o] = "stopped"] /\ Report(o, exitChan[o])
      <4>1. restarting[o] < startCount[o]
        BY <3>2 DEF ExitKept, RestartsEarned
      <4>2. restarting'[o] <= startCount[o] /\ \A p \in Objects : p # o => restarting'[p] = restarting[p]
        BY <3>2, <4>1 DEF Report, TypeOK
      <4>3. QED
        BY <1>2, <3>2, <4>2 DEF RestartsEarned, HandleUnclaimedExit, TypeOK
    <3>3. QED
      BY <1>2, <3>1, <3>2 DEF HandleUnclaimedExit
  <2>5. Untouched'
    BY <1>2 DEF Untouched, ExitKept, TypeOK, HandleUnclaimedExit, Report
  <2>6. EntriesOwned'
    BY <1>2 DEF EntriesOwned, TypeOK, HandleUnclaimedExit, Report
  <2>7. ClosesEntries'
    BY <2>10, <2>11 DEF ClosesEntries, Registered
  <2>8. OpenHeld'
    BY <2>10, <2>11 DEF OpenHeld, Registered
  <2>9. QED
    BY <2>1, <2>2, <2>3, <2>4, <2>5, <2>6, <2>7, <2>8
<1>3. CASE MachinedExec(o, n)
  <2>1. TypeOK'
    BY <1>3 DEF TypeOK, RestartsEarned, ExitKept, MachinedExec
  <2>5. /\ vm[o][n] # "none" /\ vm'[o][n] # "none"
        /\ \A m \in Starts \ {n} : vm'[o][m] = vm[o][m]
        /\ \A q \in Objects \ {o} : vm'[q] = vm[q]
        /\ UNCHANGED <<waiter, status, startCount, exitChan>>
    BY <1>3 DEF MachinedExec, TypeOK
  <2>2. VmTracked'
    BY <2>5 DEF VmTracked
  <2>3. ExitKept' /\ RestartsEarned' /\ Untouched' /\ EntriesOwned' /\ ClosesEntries' /\ OpenHeld'
    BY <1>3 DEF ExitKept, RestartsEarned, Untouched, EntriesOwned, ClosesEntries, OpenHeld, Registered, MachinedExec
  <2>4. QED
    BY <2>1, <2>2, <2>3
<1>4. CASE VmEnds(o, n)
  <2>1. TypeOK'
    <3>1. PICK e \in Exits : vm' = [vm EXCEPT ![o][n] = e]
      BY <1>4 DEF VmEnds
    <3>2. vm' \in [Objects -> [Starts -> {"none", "setup", "up"} \cup Exits]]
      BY <3>1 DEF TypeOK
    <3>3. QED
      BY <1>4, <3>2 DEF TypeOK, VmEnds
  <2>5. /\ vm[o][n] # "none" /\ vm'[o][n] # "none"
        /\ \A m \in Starts \ {n} : vm'[o][m] = vm[o][m]
        /\ \A q \in Objects \ {o} : vm'[q] = vm[q]
        /\ UNCHANGED <<waiter, status, startCount, exitChan>>
    BY <1>4 DEF VmEnds, Alive, TypeOK
  <2>2. VmTracked'
    BY <2>5 DEF VmTracked
  <2>3. ExitKept' /\ RestartsEarned' /\ Untouched' /\ EntriesOwned' /\ ClosesEntries' /\ OpenHeld'
    BY <1>4 DEF ExitKept, RestartsEarned, Untouched, EntriesOwned, ClosesEntries, OpenHeld, Registered, VmEnds
  <2>4. QED
    BY <2>1, <2>2, <2>3
<1>5. QED
  BY <1>1, <1>2, <1>3, <1>4

\* Every step keeps the invariant.
LEMMA CrosvmStep == CrosvmInv /\ [Next]_vars => CrosvmInv'
<1> SUFFICES ASSUME CrosvmInv, [Next]_vars PROVE CrosvmInv'
  OBVIOUS
<1>1. CASE UNCHANGED vars
  BY <1>1 DEF CrosvmInv, TypeOK, VmTracked, ExitKept, RestartsEarned, Untouched,
       EntriesOwned, ClosesEntries, OpenHeld, Registered, vars, rtVars, instVars, envVars
<1>2. CASE Next
  BY <1>2, RuntimeStep, StartStep, CloseInvStep, VmStep DEF Next
<1>3. QED
  BY <1>1, <1>2

\* The invariant holds in every execution of the runtime.
LEMMA CrosvmInvariant == Spec => []CrosvmInv
<1>1. Init => CrosvmInv
  BY CrosvmAssumption DEF Init, CrosvmInv, TypeOK, VmTracked, ExitKept, RestartsEarned,
       Untouched, EntriesOwned, ClosesEntries, OpenHeld, Registered, Objects, Starts, NoOp
<1>2. QED
  BY <1>1, CrosvmStep, PTL DEF Spec

-------------------------------------------------------------------------------
(* What follows *)

\* Every variable keeps its type; there are never more restart goroutines of an
\* instance than starts it had.
THEOREM CrosvmTyped == Spec => []TypeOK
  BY CrosvmInvariant, PTL DEF CrosvmInv

\* An instance has one VM at a time, a closed one has none, and no exit is
\* dropped because the exit channel is taken.
THEOREM OneVmSound == Spec => []OneVmAtATime
<1>1. CrosvmInv => OneVmAtATime
  BY DEF CrosvmInv, VmTracked, OneVmAtATime, Alive
<1>2. QED
  BY <1>1, CrosvmInvariant, PTL

\* No VM loses its entry, its state directory or its namespace, unless Stop gave
\* up on closing it.
THEOREM VmsAccountedFor == Spec => []VmAccountedFor
<1>1. CrosvmInv => VmAccountedFor
  BY CrosvmAssumption DEF CrosvmInv, TypeOK, VmTracked, Untouched, OpenHeld, VmAccountedFor, Alive,
       Starts, Objects
<1>2. QED
  BY <1>1, CrosvmInvariant, PTL

-------------------------------------------------------------------------------
(* The refinement of VmLifecycle *)

\* The phase of one instance, as LifePhase gives it.
Phase(o) ==
  IF owner[o] = None THEN "new"
  ELSE IF status[o] # "running" THEN status[o]
  ELSE IF Alive(o, startCount[o]) THEN "running" ELSE "exited"

\* LifePhase is a function of the parts of the state that Phase looks at.
LEMMA PhaseIsLifePhase ==
  /\ LifePhase = [o \in Objects |-> Phase(o)]
  /\ LifePhase' = [o \in Objects |-> Phase(o)']
  BY DEF LifePhase, Phase

\* A step that moves one instance from a phase to another moves LifePhase so.
LEMMA MoveIsMove ==
  ASSUME NEW o \in Objects, NEW from, NEW to, Phase(o) = from, Phase(o)' = to,
         \A p \in Objects : p # o => Phase(p)' = Phase(p)
  PROVE  Life!Move(o, from, to)
  BY PhaseIsLifePhase DEF Life!Move

\* A step that moves no instance is a stutter of VmLifecycle.
LEMMA StutterIsStutter ==
  ASSUME \A o \in Objects : Phase(o)' = Phase(o)
  PROVE  UNCHANGED LifePhase
  BY PhaseIsLifePhase

\* Deploying creates an instance or moves none; the other operations of the
\* runtime move none.
LEMMA RuntimeRefines ==
  ASSUME CrosvmInv,
         \/ \E id \in Ids : Deploy(id) \/ Undeploy(id)
         \/ UndeployEnd \/ Stop \/ StopEnd
  PROVE  [Life!Next]_LifePhase
<1>1. ASSUME NEW id \in Ids, Deploy(id) PROVE [Life!Next]_LifePhase
  <2>1. UNCHANGED <<status, startCount, vm>>
    BY <1>1 DEF Deploy
  <2>2. CASE UNCHANGED owner
    <3>1. \A o \in Objects : Phase(o)' = Phase(o)
      BY <2>1, <2>2 DEF Phase, Alive
    <3>2. QED
      BY <3>1, StutterIsStutter
  <2>3. ASSUME NEW o \in Objects, NewInstance(o, id) PROVE Life!Next
    <3>1. \A p \in Objects : p # o => Phase(p)' = Phase(p)
      BY <2>1, <2>3 DEF NewInstance, Phase, Alive
    <3>2. Phase(o) = "new" /\ Phase(o)' = "stopped"
      BY <2>1, <2>3, CrosvmAssumption DEF NewInstance, Phase, CrosvmInv, TypeOK, Untouched
    <3>3. Life!Move(o, "new", "stopped")
      BY <3>1, <3>2, MoveIsMove
    <3>4. QED
      BY <3>3 DEF Life!Next, Life!Create
  <2>4. QED
    BY <1>1, <2>2, <2>3 DEF Deploy
<1>2. CASE (\E id \in Ids : Undeploy(id)) \/ UndeployEnd \/ Stop \/ StopEnd
  <2>1. UNCHANGED <<owner, status, startCount, vm>>
    BY <1>2 DEF Undeploy, UndeployEnd, Stop, StopEnd, instVars
  <2>2. \A o \in Objects : Phase(o)' = Phase(o)
    BY <2>1 DEF Phase, Alive
  <2>3. QED
    BY <2>2, StutterIsStutter
<1>3. QED
  BY <1>1, <1>2

\* Start moves a stopped instance to running, or nothing.
LEMMA StartRefines ==
  ASSUME CrosvmInv, NEW o \in Objects, Start(o), owner[o] # None, UNCHANGED owner
  PROVE  [Life!Next]_LifePhase
<1>1. CASE UNCHANGED <<startCount, status, vm, waiter>>
  <2>1. \A p \in Objects : Phase(p)' = Phase(p)
    BY <1>1 DEF Phase, Alive
  <2>2. QED
    BY <2>1, StutterIsStutter
<1>2. CASE /\ status[o] = "stopped" /\ startCount[o] < MaxStarts
           /\ startCount' = [startCount EXCEPT ![o] = @ + 1]
           /\ status' = [status EXCEPT ![o] = "running"]
           /\ vm' = [vm EXCEPT ![o][startCount[o] + 1] = "setup"]
  <2>1. startCount[o] + 1 \in Starts
    BY <1>2, CrosvmAssumption DEF CrosvmInv, TypeOK, Starts
  <2>2. Phase(o) = "stopped" /\ Phase(o)' = "running"
    BY <1>2, <2>1 DEF Phase, Alive, CrosvmInv, TypeOK
  <2>3. \A p \in Objects : p # o => Phase(p)' = Phase(p)
    BY <1>2 DEF Phase, Alive, CrosvmInv, TypeOK
  <2>4. Life!Move(o, "stopped", "running")
    BY <2>2, <2>3, MoveIsMove
  <2>5. QED
    BY <2>4 DEF Life!Next, Life!Start
<1>3. QED
  BY <1>1, <1>2 DEF Start

\* Close moves a stopped or exited instance to closed, or nothing.
LEMMA CloseRefines ==
  ASSUME CrosvmInv, NEW o \in Objects, CloseStep(o)
  PROVE  [Life!Next]_LifePhase
<1>0. closer[o] \in {"lock", "wait"} => owner[o] # None
  BY RegisteredOwner DEF CrosvmInv, ClosesEntries
<1>1. CASE UNCHANGED status
  <2>1. UNCHANGED <<owner, startCount, vm>>
    BY <1>1 DEF CloseStep, CloseLock, CloseExit, CloseTimeout, CloseTeardown, instVars
  <2>2. \A p \in Objects : Phase(p)' = Phase(p)
    BY <1>1, <2>1 DEF Phase, Alive
  <2>3. QED
    BY <2>2, StutterIsStutter
<1>2. CASE /\ closer[o] = "lock" /\ status[o] = "stopped"
           /\ status' = [status EXCEPT ![o] = "closed"]
           /\ UNCHANGED <<owner, startCount, vm>>
  <2>1. Phase(o) = "stopped" /\ Phase(o)' = "closed"
    BY <1>0, <1>2 DEF Phase, CrosvmInv, TypeOK
  <2>2. \A p \in Objects : p # o => Phase(p)' = Phase(p)
    BY <1>2 DEF Phase, Alive, CrosvmInv, TypeOK
  <2>3. Life!Move(o, "stopped", "closed")
    BY <2>1, <2>2, MoveIsMove
  <2>4. QED
    BY <2>3 DEF Life!Next, Life!Close
<1>3. CASE CloseExit(o)
  <2>1. Phase(o) = "exited"
    <3>1. /\ status[o] = "running" /\ owner[o] # None /\ startCount[o] \in Starts
          /\ waiter[o][startCount[o]] = "claim"
      BY <1>0, <1>3 DEF CloseExit, CrosvmInv, ExitKept
    <3>2. vm[o][startCount[o]] = "none"
      BY <3>1 DEF CrosvmInv, VmTracked
    <3>3. QED
      BY <3>1, <3>2 DEF Phase, Alive
  <2>2. Phase(o)' = "closed"
    BY <1>0, <1>3 DEF CloseExit, Phase, CrosvmInv, TypeOK
  <2>3. \A p \in Objects : p # o => Phase(p)' = Phase(p)
    BY <1>3 DEF CloseExit, Phase, Alive, CrosvmInv, TypeOK
  <2>4. Life!Move(o, "exited", "closed")
    BY <2>1, <2>2, <2>3, MoveIsMove
  <2>5. QED
    BY <2>4 DEF Life!Next, Life!Claim
<1>4. QED
  BY <1>1, <1>2, <1>3 DEF CloseStep, CloseLock, CloseTimeout, CloseTeardown, instVars

\* A VM that ends moves its instance from running to exited, a claimed exit from
\* exited to stopped.
LEMMA VmRefines ==
  ASSUME CrosvmInv, NEW o \in Objects, NEW n \in Starts,
         \/ WaitForExit(o, n) \/ HandleUnclaimedExit(o, n)
         \/ MachinedExec(o, n) \/ VmEnds(o, n)
  PROVE  [Life!Next]_LifePhase
<1>1. CASE WaitForExit(o, n) \/ MachinedExec(o, n)
  <2>1. UNCHANGED <<owner, status, startCount>>
    BY <1>1 DEF WaitForExit, MachinedExec, instVars
  <2>2. \A p \in Objects, m \in Starts : Alive(p, m)' <=> Alive(p, m)
    <3>1. PICK x \in {"none", "up"} :
            vm' = [vm EXCEPT ![o][n] = x] /\ (x = "up" <=> Alive(o, n))
      BY <1>1 DEF WaitForExit, MachinedExec, Exited, Exits, Alive
    <3>2. QED
      BY <3>1 DEF Alive, CrosvmInv, TypeOK
  <2>3. \A p \in Objects : status[p] = "running" => startCount[p] \in Starts
    BY CrosvmAssumption DEF CrosvmInv, TypeOK, RestartsEarned, Starts
  <2>4. \A p \in Objects : Phase(p)' = Phase(p)
    BY <2>1, <2>2, <2>3 DEF Phase, Alive
  <2>5. QED
    BY <2>4, StutterIsStutter
<1>2. CASE VmEnds(o, n)
  <2>1. UNCHANGED <<owner, status, startCount>>
    BY <1>2 DEF VmEnds, instVars
  <2>2. n = startCount[o] /\ status[o] = "running" /\ owner[o] # None
    BY <1>2 DEF VmEnds, Alive, CrosvmInv, VmTracked, Untouched
  <2>3. ~Alive(o, n)' /\ Alive(o, n) /\ \A p \in Objects : p # o => vm'[p] = vm[p]
    BY <1>2 DEF VmEnds, Alive, Exits, CrosvmInv, TypeOK
  <2>4. Phase(o) = "running" /\ Phase(o)' = "exited"
    BY <2>1, <2>2, <2>3 DEF Phase, Alive
  <2>5. \A p \in Objects : p # o => Phase(p)' = Phase(p)
    BY <2>1, <2>3 DEF Phase, Alive
  <2>6. Life!Move(o, "running", "exited")
    BY <2>4, <2>5, MoveIsMove
  <2>7. QED
    BY <2>6 DEF Life!Next, Life!Exit
<1>3. CASE HandleUnclaimedExit(o, n)
  <2>1. UNCHANGED <<owner, startCount, vm>>
    BY <1>3 DEF HandleUnclaimedExit
  <2>2. CASE UNCHANGED status
    <3>1. \A p \in Objects : Phase(p)' = Phase(p)
      BY <2>1, <2>2 DEF Phase, Alive
    <3>2. QED
      BY <3>1, StutterIsStutter
  <2>3. CASE /\ n = startCount[o] /\ exitChan[o] # "empty"
             /\ status' = [status EXCEPT ![o] = "stopped"]
    <3>1. status[o] = "running" /\ waiter[o][n] = "claim"
      BY <2>3 DEF CrosvmInv, ExitKept
    <3>2. vm[o][n] = "none" /\ owner[o] # None
      BY <3>1 DEF CrosvmInv, VmTracked, Untouched
    <3>3. Phase(o) = "exited" /\ Phase(o)' = "stopped"
      BY <2>1, <2>3, <3>1, <3>2 DEF Phase, Alive, CrosvmInv, TypeOK
    <3>4. \A p \in Objects : p # o => Phase(p)' = Phase(p)
      BY <2>1, <2>3 DEF Phase, Alive, CrosvmInv, TypeOK
    <3>5. Life!Move(o, "exited", "stopped")
      BY <3>3, <3>4, MoveIsMove
    <3>6. QED
      BY <3>5 DEF Life!Next, Life!Claim
  <2>4. QED
    BY <1>3, <2>2, <2>3 DEF HandleUnclaimedExit
<1>4. QED
  BY <1>1, <1>2, <1>3

\* Every step of the runtime is a step of VmLifecycle or a stutter.
LEMMA StepRefines == CrosvmInv /\ [Next]_vars => [Life!Next]_LifePhase
<1> SUFFICES ASSUME CrosvmInv, [Next]_vars PROVE [Life!Next]_LifePhase
  OBVIOUS
<1>1. CASE DeployStart
  <2>1. instances[op.id] \in Objects /\ owner[instances[op.id]] # None
    BY <1>1, CrosvmAssumption DEF DeployStart, CrosvmInv, TypeOK, EntriesOwned
  <2>2. QED
    BY <1>1, <2>1, StartRefines DEF DeployStart
<1>2. ASSUME NEW o \in Objects, Restart(o) PROVE [Life!Next]_LifePhase
  <2>1. owner[o] # None
    BY <1>2, CrosvmAssumption DEF Restart, CrosvmInv, TypeOK, RestartsEarned, Untouched
  <2>2. QED
    BY <1>2, <2>1, StartRefines DEF Restart
<1>3. CASE UNCHANGED vars
  <2>1. \A o \in Objects : Phase(o)' = Phase(o)
    BY <1>3 DEF vars, instVars, Phase, Alive
  <2>2. QED
    BY <2>1, StutterIsStutter
<1>4. QED
  BY <1>1, <1>2, <1>3, RuntimeRefines, CloseRefines, VmRefines DEF Next

\* The runtime implements what VmLifecycle allows: starts and exits alternate,
\* every exit is taken note of at most once, and a closed instance stays closed,
\* whatever the order of restarts, claims, closes and ends of VMs.
THEOREM LifecycleImplemented == Spec => Life!Safety
<1>1. Init => Life!Init
  BY PhaseIsLifePhase DEF Init, Life!Init, Phase
<1>2. QED
  BY <1>1, CrosvmInvariant, StepRefines, PTL DEF Spec, Life!Safety
===============================================================================
