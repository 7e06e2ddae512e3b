------------------------ MODULE ContainerRuntimeProofs ------------------------
(***************************************************************************)
(* Proofs of the safety properties of ContainerRuntime, for any number of   *)
(* tasks, messages and restarts.                                            *)
(***************************************************************************)
EXTENDS ContainerRuntime, TLAPS

-------------------------------------------------------------------------------
(* Type correctness *)

\* A step of a handler or of a creation routine keeps the types.
LEMMA DeployTyped ==
  ASSUME TypeOK, NEW d \in Deployments,
         ReceiveDeploy(d) \/ Handler(d) \/ Routine(d)
  PROVE  TypeOK'
<1> USE RuntimeAssumption DEF TypeOK, Status, HandlerPc, RoutinePc, Goto, Send,
          goVars, hostVars, stopVars, reports, others, DeleteContainer
<1>1. CASE ReceiveDeploy(d)
  BY <1>1 DEF ReceiveDeploy
<1>2. CASE PullImage(d)
  BY <1>2 DEF PullImage
<1>3. CASE RegisterTask(d)
  BY <1>3 DEF RegisterTask
<1>4. CASE ReportDeploy(d)
  BY <1>4 DEF ReportDeploy
<1>5. CASE MountVolumes(d)
  BY <1>5 DEF MountVolumes
<1>6. CASE NewContainer(d)
  BY <1>6 DEF NewContainer
<1>7. CASE NewTask(d)
  BY <1>7 DEF NewTask
<1>8. CASE AttachNetwork(d)
  BY <1>8 DEF AttachNetwork
<1>9. CASE StartTask(d)
  BY <1>9 DEF StartTask
<1>10. CASE HandOverError(d)
  BY <1>10 DEF HandOverError
<1>11. CASE RevertUnregister(d)
  BY <1>11 DEF RevertUnregister
<1>12. CASE TakeKill(d)
  BY <1>12 DEF TakeKill
<1>13. CASE TakeExit(d)
  BY <1>13 DEF TakeExit
<1>14. CASE Unregister(d)
  BY <1>14 DEF Unregister
<1>15. CASE RemoveContainer(d)
  BY <1>15 DEF RemoveContainer
<1>16. CASE TakeVolumes(d)
  BY <1>16 DEF TakeVolumes
<1>17. CASE UnmountVolumes(d)
  BY <1>17 DEF UnmountVolumes
<1>18. CASE ReportExit(d)
  BY <1>18 DEF ReportExit
<1>19. CASE DeferredKillTask(d)
  BY <1>19 DEF DeferredKillTask
<1>20. QED
  BY <1>1, <1>2, <1>3, <1>4, <1>5, <1>6, <1>7, <1>8, <1>9, <1>10, <1>11, <1>12,
     <1>13, <1>14, <1>15, <1>16, <1>17, <1>18, <1>19 DEF Handler, Routine

\* The type invariant is inductive.
LEMMA TypeStep == TypeOK /\ [Next]_vars => TypeOK'
<1> SUFFICES ASSUME TypeOK, [Next]_vars PROVE TypeOK'
  OBVIOUS
<1>1. CASE \E d \in Deployments : ReceiveDeploy(d) \/ Handler(d) \/ Routine(d)
  BY <1>1, DeployTyped
<1> USE RuntimeAssumption DEF TypeOK, Status, UndeployPc, StopPc, Goto, Send,
          goVars, hostVars, stopVars, reports, others, DeleteContainer
<1>2. ASSUME NEW u \in Undeployments, LookUp(u) PROVE TypeOK'
  BY <1>2 DEF LookUp
<1>3. ASSUME NEW u \in Undeployments, SendKill(u) PROVE TypeOK'
  BY <1>3 DEF SendKill
<1>4. CASE StopBegin
  BY <1>4 DEF StopBegin
<1>5. CASE StopLookUp
  BY <1>5 DEF StopLookUp
<1>6. CASE StopSend
  BY <1>6 DEF StopSend
<1>7. CASE StopWait \/ ForceRemove \/ StopClose
  BY <1>7 DEF StopWait, ForceRemove, StopClose, Begun, OwnersOfTasks
<1>8. ASSUME NEW t \in Tasks, TaskExits(t) \/ TenSecondsPass(t) \/ FindDoomed(t)
      PROVE  TypeOK'
  BY <1>8 DEF TaskExits, TenSecondsPass, FindDoomed
<1>9. CASE ReapContainer
  BY <1>9 DEF ReapContainer
<1>10. CASE Crash
  BY <1>10 DEF Crash
<1>11. CASE Restart
  BY <1>11 DEF Restart, HandlerPc, RoutinePc
<1>12. CASE UNCHANGED vars
  BY <1>12 DEF vars
<1>13. QED
  BY <1>1, <1>2, <1>3, <1>4, <1>5, <1>6, <1>7, <1>8, <1>9, <1>10, <1>11, <1>12
     DEF Next

\* Every variable keeps its type, and no sender uses a kill channel it did not
\* find, in every execution of the runtime.
THEOREM TypeCorrect == Spec => []TypeOK
<1>1. Init => TypeOK
  BY RuntimeAssumption DEF Init, TypeOK, HandlerPc, RoutinePc, UndeployPc, StopPc
<1>2. QED
  BY <1>1, TypeStep, PTL DEF Spec

-------------------------------------------------------------------------------
(* The kill queue *)

\* The kill queue and the routines go on agreeing: registration needs a free
\* entry, and only the routine an entry belongs to removes it.
LEMMA KillEntryStep ==
  TypeOK /\ KillEntryOwned /\ [Next]_vars => KillEntryOwned'
<1> SUFFICES ASSUME TypeOK, KillEntryOwned, [Next]_vars PROVE KillEntryOwned'
  OBVIOUS
<1> USE RuntimeAssumption DEF KillEntryOwned, Registered, goVars, TypeOK
<1>1. ASSUME NEW d \in Deployments, RegisterTask(d) PROVE KillEntryOwned'
  BY <1>1 DEF RegisterTask, Goto
<1>2. ASSUME NEW d \in Deployments, RevertUnregister(d) PROVE KillEntryOwned'
  BY <1>2 DEF RevertUnregister, Goto
<1>3. ASSUME NEW d \in Deployments, Unregister(d) PROVE KillEntryOwned'
  BY <1>3 DEF Unregister, Goto
<1>4. ASSUME NEW d \in Deployments,
             \/ MountVolumes(d) \/ NewContainer(d) \/ NewTask(d) \/ AttachNetwork(d)
             \/ StartTask(d) \/ HandOverError(d) \/ TakeKill(d) \/ TakeExit(d)
      PROVE  KillEntryOwned'
  BY <1>4 DEF MountVolumes, NewContainer, NewTask, AttachNetwork, StartTask,
              HandOverError, TakeKill, TakeExit, Goto
<1>5. ASSUME NEW d \in Deployments,
             \/ RemoveContainer(d) \/ TakeVolumes(d) \/ UnmountVolumes(d)
             \/ ReportExit(d) \/ DeferredKillTask(d)
      PROVE  KillEntryOwned'
  BY <1>5 DEF RemoveContainer, TakeVolumes, UnmountVolumes, ReportExit,
              DeferredKillTask, Goto
<1>6. ASSUME NEW d \in Deployments, ReceiveDeploy(d) \/ PullImage(d) \/ ReportDeploy(d)
      PROVE  KillEntryOwned'
  BY <1>6 DEF ReceiveDeploy, PullImage, ReportDeploy
<1>7. ASSUME NEW u \in Undeployments, LookUp(u) \/ SendKill(u) PROVE KillEntryOwned'
  BY <1>7 DEF LookUp, SendKill
<1>8. CASE StopBegin \/ StopLookUp \/ StopSend \/ StopWait \/ ForceRemove \/ StopClose
  BY <1>8 DEF StopBegin, StopLookUp, StopSend, StopWait, ForceRemove, StopClose
<1>9. ASSUME NEW t \in Tasks, TaskExits(t) \/ TenSecondsPass(t) \/ FindDoomed(t)
      PROVE  KillEntryOwned'
  BY <1>9 DEF TaskExits, TenSecondsPass, FindDoomed
<1>10. CASE ReapContainer \/ Crash
  BY <1>10 DEF ReapContainer, Crash
<1>11. CASE Restart
  BY <1>11 DEF Restart
<1>12. CASE UNCHANGED vars
  BY <1>12 DEF vars
<1>13. QED
  BY <1>1, <1>2, <1>3, <1>4, <1>5, <1>6, <1>7, <1>8, <1>9, <1>10, <1>11, <1>12
     DEF Next, Handler, Routine

\* In every execution the kill queue names, for each task, the one routine that
\* is registered for it, and no other.
THEOREM KillQueueSound == Spec => []KillEntryOwned
<1>1. Init => KillEntryOwned
  BY RuntimeAssumption DEF Init, KillEntryOwned, Registered
<1>2. QED
  BY <1>1, TypeCorrect, KillEntryStep, PTL DEF Spec

-------------------------------------------------------------------------------
(* The overlay network *)

\* Whoever detaches the network of a task is the one routine registered for it.
LEMMA NetworkStep ==
  TypeOK /\ KillEntryOwned /\ NetworkWhileRunning /\ [Next]_vars
    => NetworkWhileRunning'
<1> SUFFICES ASSUME TypeOK, KillEntryOwned, NetworkWhileRunning, [Next]_vars
             PROVE  NetworkWhileRunning'
  OBVIOUS
<1> USE RuntimeAssumption DEF NetworkWhileRunning, hostVars, TypeOK
<1>1. ASSUME NEW d \in Deployments, Unregister(d) PROVE NetworkWhileRunning'
  BY <1>1 DEF Unregister, Goto, KillEntryOwned, Registered
<1>2. ASSUME NEW d \in Deployments, AttachNetwork(d) \/ StartTask(d)
      PROVE  NetworkWhileRunning'
  BY <1>2 DEF AttachNetwork, StartTask, Goto
<1>3. ASSUME NEW d \in Deployments,
             \/ RegisterTask(d) \/ MountVolumes(d) \/ NewContainer(d) \/ NewTask(d)
             \/ HandOverError(d) \/ RevertUnregister(d) \/ TakeKill(d) \/ TakeExit(d)
      PROVE  NetworkWhileRunning'
  BY <1>3 DEF RegisterTask, MountVolumes, NewContainer, NewTask, HandOverError,
              RevertUnregister, TakeKill, TakeExit, Goto
<1>4. ASSUME NEW d \in Deployments,
             \/ RemoveContainer(d) \/ TakeVolumes(d) \/ UnmountVolumes(d)
             \/ ReportExit(d) \/ DeferredKillTask(d)
      PROVE  NetworkWhileRunning'
  BY <1>4 DEF RemoveContainer, TakeVolumes, UnmountVolumes, ReportExit,
              DeferredKillTask, Goto
<1>5. ASSUME NEW d \in Deployments, ReceiveDeploy(d) \/ PullImage(d) \/ ReportDeploy(d)
      PROVE  NetworkWhileRunning'
  BY <1>5 DEF ReceiveDeploy, PullImage, ReportDeploy
<1>6. ASSUME NEW u \in Undeployments, LookUp(u) \/ SendKill(u)
      PROVE  NetworkWhileRunning'
  BY <1>6 DEF LookUp, SendKill
<1>7. CASE StopBegin \/ StopLookUp \/ StopSend \/ StopWait \/ ForceRemove \/ StopClose
  BY <1>7 DEF StopBegin, StopLookUp, StopSend, StopWait, ForceRemove, StopClose
<1>8. ASSUME NEW t \in Tasks, TaskExits(t) \/ TenSecondsPass(t) \/ FindDoomed(t)
      PROVE  NetworkWhileRunning'
  BY <1>8 DEF TaskExits, TenSecondsPass, FindDoomed
<1>9. CASE ReapContainer \/ Crash
  BY <1>9 DEF ReapContainer, Crash
<1>10. CASE Restart
  BY <1>10 DEF Restart
<1>11. CASE UNCHANGED vars
  BY <1>11 DEF vars
<1>12. QED
  BY <1>1, <1>2, <1>3, <1>4, <1>5, <1>6, <1>7, <1>8, <1>9, <1>10, <1>11
     DEF Next, Handler, Routine

\* In every execution a started deployment keeps its network attachment.
THEOREM NetworkSound == Spec => []NetworkWhileRunning
<1>1. Init => NetworkWhileRunning
  BY DEF Init, NetworkWhileRunning
<1>2. QED
  BY <1>1, TypeCorrect, KillQueueSound, NetworkStep, PTL DEF Spec

-------------------------------------------------------------------------------
(* The handler and the routine of one deployment *)

\* The states of a routine until it has told Deploy how the creation ended.
Creating == {"mount", "create", "task", "attach", "start", "revert", "revert_task"}

\* The states of a routine whose task was started, until it has reported the end.
Started == {"run", "killed", "k_remove", "exited", "x_remove", "x_take",
            "x_unmount", "report_dead", "report_done"}

\* How far a handler is tells how far its routine can be and what was reported:
\* the inductive form of ReportsCoherent.
Lifecycle ==
  \A d \in Deployments :
    /\ hpc[d] \in {"idle", "pull", "register"} => rpc[d] = "none"
    /\ rpc[d] \in Creating => hpc[d] = "await"
    /\ rpc[d] \in Started => hpc[d] \in {"started", "done"} /\ "FAILED" \notin sent[d]
    /\ hpc[d] \in {"idle", "pull", "register", "await", "failed"} =>
         {"CREATED", "FAILED", "DEAD", "COMPLETED"} \cap sent[d] = {}
    /\ hpc[d] = "started" => {"CREATED", "FAILED"} \cap sent[d] = {}
    /\ "FAILED" \in sent[d] => {"CREATED", "DEAD", "COMPLETED"} \cap sent[d] = {}

\* The lifecycle is kept by every step.
LEMMA LifecycleStep == TypeOK /\ Lifecycle /\ [Next]_vars => Lifecycle'
<1> SUFFICES ASSUME TypeOK, Lifecycle, [Next]_vars PROVE Lifecycle'
  OBVIOUS
<1> USE RuntimeAssumption DEF Lifecycle, Creating, Started, TypeOK, reports, Status
<1>1. ASSUME NEW d \in Deployments, ReceiveDeploy(d) \/ PullImage(d)
      PROVE  Lifecycle'
  BY <1>1 DEF ReceiveDeploy, PullImage, Goto, Send
<1>2. ASSUME NEW d \in Deployments, RegisterTask(d) PROVE Lifecycle'
  BY <1>2 DEF RegisterTask, Goto
<1>3. ASSUME NEW d \in Deployments, ReportDeploy(d) PROVE Lifecycle'
  BY <1>3 DEF ReportDeploy, Goto, Send
<1>4. ASSUME NEW d \in Deployments, MountVolumes(d) \/ NewContainer(d) \/ NewTask(d)
      PROVE  Lifecycle'
  BY <1>4 DEF MountVolumes, NewContainer, NewTask, Goto
<1>5. ASSUME NEW d \in Deployments, AttachNetwork(d) \/ StartTask(d) PROVE Lifecycle'
  BY <1>5 DEF AttachNetwork, StartTask, Goto
<1>6. ASSUME NEW d \in Deployments, HandOverError(d) \/ RevertUnregister(d)
      PROVE  Lifecycle'
  BY <1>6 DEF HandOverError, RevertUnregister, Goto
<1>7. ASSUME NEW d \in Deployments,
             TakeKill(d) \/ TakeExit(d) \/ Unregister(d) \/ RemoveContainer(d)
      PROVE  Lifecycle'
  BY <1>7 DEF TakeKill, TakeExit, Unregister, RemoveContainer, Goto
<1>8. ASSUME NEW d \in Deployments,
             TakeVolumes(d) \/ UnmountVolumes(d) \/ DeferredKillTask(d)
      PROVE  Lifecycle'
  BY <1>8 DEF TakeVolumes, UnmountVolumes, DeferredKillTask, Goto
<1>9. ASSUME NEW d \in Deployments, ReportExit(d) PROVE Lifecycle'
  BY <1>9 DEF ReportExit, Goto, Send
<1>10. ASSUME NEW u \in Undeployments, LookUp(u) PROVE Lifecycle'
  BY <1>10 DEF LookUp
<1>11. ASSUME NEW u \in Undeployments, SendKill(u) PROVE Lifecycle'
  <2>1. \A d \in Deployments : sent'[d] = sent[d]
    BY <1>11 DEF SendKill, Send
  <2>2. hpc' = hpc /\ rpc' = rpc
    BY <1>11 DEF SendKill
  <2>3. QED
    BY <2>1, <2>2
<1>12. CASE StopBegin \/ StopLookUp \/ StopSend \/ StopWait \/ ForceRemove \/ StopClose
  BY <1>12 DEF StopBegin, StopLookUp, StopSend, StopWait, ForceRemove, StopClose
<1>13. ASSUME NEW t \in Tasks, TaskExits(t) \/ TenSecondsPass(t) \/ FindDoomed(t)
       PROVE  Lifecycle'
  BY <1>13 DEF TaskExits, TenSecondsPass, FindDoomed
<1>14. CASE ReapContainer \/ Crash
  BY <1>14 DEF ReapContainer, Crash
<1>15. CASE Restart
  BY <1>15 DEF Restart
<1>16. CASE UNCHANGED vars
  BY <1>16 DEF vars
<1>17. QED
  BY <1>1, <1>2, <1>3, <1>4, <1>5, <1>6, <1>7, <1>8, <1>9, <1>10, <1>11, <1>12,
     <1>13, <1>14, <1>15, <1>16 DEF Next, Handler, Routine

\* Handler and routine keep to the lifecycle in every execution.
LEMMA LifecycleHolds == Spec => []Lifecycle
<1>1. Init => Lifecycle
  BY RuntimeAssumption DEF Init, Lifecycle, Creating, Started
<1>2. QED
  BY <1>1, TypeCorrect, LifecycleStep, PTL DEF Spec

\* In every execution the reports of a handler and of its routine fit together.
THEOREM ReportsSound == Spec => []ReportsCoherent
<1>1. TypeOK /\ Lifecycle => ReportsCoherent
  BY DEF Lifecycle, ReportsCoherent, TypeOK, HandlerPc
<1>2. QED
  BY <1>1, TypeCorrect, LifecycleHolds, PTL

-------------------------------------------------------------------------------
(* No workload without a routine *)

\* A container is its maker's: a routine about to create its task finds its own
\* container or none, and a task's maker still tends it.
TaskOwned ==
  /\ \A t \in Tasks : container[t] # None => TaskOf[container[t]] = t
  /\ \A d \in Deployments : rpc[d] = "task" => container[TaskOf[d]] \in {d, None}
  /\ \A t \in Tasks : ctask[t] # "none" => container[t] # None /\ Tending(container[t])

\* Only the routine registered for a task makes its container and its task, and a
\* routine that stops tending its task has just killed what has its id.
LEMMA OwnedStep ==
  TypeOK /\ KillEntryOwned /\ Lifecycle /\ TaskOwned /\ [Next]_vars => TaskOwned'
<1> SUFFICES ASSUME TypeOK, KillEntryOwned, Lifecycle, TaskOwned, [Next]_vars
             PROVE  TaskOwned'
  OBVIOUS
<1> USE RuntimeAssumption DEF TaskOwned, Tending, hostVars, TypeOK
<1>1. ASSUME NEW d \in Deployments, NewContainer(d) PROVE TaskOwned'
  BY <1>1 DEF NewContainer, Goto, KillEntryOwned, Registered
<1>2. ASSUME NEW d \in Deployments, NewTask(d) PROVE TaskOwned'
  BY <1>2 DEF NewTask, DeleteContainer, Goto
<1>3. ASSUME NEW d \in Deployments, MountVolumes(d) \/ AttachNetwork(d) \/ StartTask(d)
      PROVE  TaskOwned'
  BY <1>3 DEF MountVolumes, AttachNetwork, StartTask, Goto
<1>4. ASSUME NEW d \in Deployments,
             RegisterTask(d) \/ HandOverError(d) \/ RevertUnregister(d)
      PROVE  TaskOwned'
  BY <1>4 DEF RegisterTask, HandOverError, RevertUnregister, Goto, Lifecycle
<1>5. ASSUME NEW d \in Deployments, TakeKill(d) \/ TakeExit(d) \/ Unregister(d)
      PROVE  TaskOwned'
  BY <1>5 DEF TakeKill, TakeExit, Unregister, Goto
<1>6. ASSUME NEW d \in Deployments,
             RemoveContainer(d) \/ TakeVolumes(d) \/ UnmountVolumes(d) \/ ReportExit(d)
      PROVE  TaskOwned'
  BY <1>6 DEF RemoveContainer, TakeVolumes, UnmountVolumes, ReportExit,
              DeleteContainer, Goto
<1>7. ASSUME NEW d \in Deployments, DeferredKillTask(d) PROVE TaskOwned'
  BY <1>7 DEF DeferredKillTask, DeleteContainer, Goto
<1>8. ASSUME NEW d \in Deployments, ReceiveDeploy(d) \/ PullImage(d) \/ ReportDeploy(d)
      PROVE  TaskOwned'
  BY <1>8 DEF ReceiveDeploy, PullImage, ReportDeploy
<1>9. ASSUME NEW u \in Undeployments, LookUp(u) \/ SendKill(u) PROVE TaskOwned'
  BY <1>9 DEF LookUp, SendKill
<1>10. CASE StopBegin \/ StopLookUp \/ StopSend \/ StopWait \/ StopClose \/ Crash
  BY <1>10 DEF StopBegin, StopLookUp, StopSend, StopWait, StopClose, Crash
<1>11. CASE ForceRemove \/ ReapContainer
  BY <1>11 DEF ForceRemove, ReapContainer, DeleteContainer
<1>12. ASSUME NEW t \in Tasks, TaskExits(t) \/ TenSecondsPass(t) \/ FindDoomed(t)
       PROVE  TaskOwned'
  BY <1>12 DEF TaskExits, TenSecondsPass, FindDoomed
<1>13. CASE Restart
  BY <1>13 DEF Restart
<1>14. CASE UNCHANGED vars
  BY <1>14 DEF vars
<1>15. QED
  BY <1>1, <1>2, <1>3, <1>4, <1>5, <1>6, <1>7, <1>8, <1>9, <1>10, <1>11, <1>12,
     <1>13, <1>14 DEF Next, Handler, Routine

\* In every execution each containerd task belongs to a routine that tends it.
LEMMA OwnedHolds == Spec => []TaskOwned
<1>1. Init => TaskOwned
  BY DEF Init, TaskOwned
<1>2. QED
  BY <1>1, TypeCorrect, KillQueueSound, LifecycleHolds, OwnedStep, PTL DEF Spec

\* In every execution a containerd task has a routine that will still kill it
\* while the engine runs.
THEOREM TasksTended == Spec => []NoUnmanagedTask
<1>1. TypeOK /\ TaskOwned => NoUnmanagedTask
  BY DEF TypeOK, TaskOwned, NoUnmanagedTask, DeploymentsOf
<1>2. QED
  BY <1>1, TypeCorrect, OwnedHolds, PTL

-------------------------------------------------------------------------------
(* Stop *)

\* From the end of Stop's wait on, what ran then cannot make a task again; while
\* the listed containers are removed its tasks are on the list, and then gone.
Cleared ==
  /\ spc \in {"force", "close", "closed"} =>
       \A d \in atStop : rpc[d] \notin {"none", "mount", "create", "task"}
  /\ spc = "force" =>
       \A t \in Tasks : ctask[t] # "none" /\ container[t] \in atStop => t \in toStop
  /\ spc \in {"close", "closed"} =>
       \A t \in Tasks : ctask[t] # "none" => container[t] \notin atStop

\* A step that leaves Stop alone, makes no task of a deployment that ran and takes
\* no routine back to its beginning keeps Cleared.
LEMMA ClearedKept ==
  ASSUME TypeOK, Cleared, UNCHANGED stopVars,
         \A e \in Deployments : rpc[e] \notin {"none", "mount", "create", "task"}
           => rpc'[e] \notin {"none", "mount", "create", "task"},
         \A t \in Tasks : ctask'[t] # "none" =>
           \/ ctask[t] # "none" /\ container'[t] = container[t]
           \/ container'[t] \notin atStop
  PROVE  Cleared'
BY DEF Cleared, TypeOK, stopVars

\* Cleared is kept by every step.
LEMMA ClearedStep ==
  TypeOK /\ Lifecycle /\ TaskOwned /\ Cleared /\ [Next]_vars => Cleared'
<1> SUFFICES ASSUME TypeOK, Lifecycle, TaskOwned, Cleared, [Next]_vars
             PROVE  Cleared'
  OBVIOUS
<1> USE RuntimeAssumption DEF TypeOK, hostVars
<1>1. ASSUME NEW d \in Deployments,
             \/ MountVolumes(d) \/ NewContainer(d) \/ AttachNetwork(d)
             \/ StartTask(d) \/ RegisterTask(d)
      PROVE  Cleared'
  BY <1>1, ClearedKept DEF MountVolumes, NewContainer, AttachNetwork, StartTask,
       RegisterTask, Goto, Lifecycle
<1>2. ASSUME NEW d \in Deployments, NewTask(d) PROVE Cleared'
  <2>1. \A t \in Tasks : ctask'[t] # "none" =>
          \/ ctask[t] # "none" /\ container'[t] = container[t]
          \/ container'[t] = d
    BY <1>2 DEF NewTask, DeleteContainer, TaskOwned
  <2>2. CASE d \in atStop /\ spc \in {"force", "close", "closed"}
    BY <1>2, <2>2 DEF NewTask, Cleared
  <2>3. CASE d \notin atStop
    BY <1>2, <2>1, <2>3, ClearedKept DEF NewTask, Goto
  <2>4. CASE spc \notin {"force", "close", "closed"}
    BY <1>2, <2>4 DEF NewTask, Cleared, stopVars
  <2>5. QED
    BY <2>2, <2>3, <2>4
<1>3. ASSUME NEW d \in Deployments,
             \/ HandOverError(d) \/ RevertUnregister(d) \/ TakeKill(d) \/ TakeExit(d)
             \/ Unregister(d)
      PROVE  Cleared'
  BY <1>3, ClearedKept DEF HandOverError, RevertUnregister, TakeKill, TakeExit,
       Unregister, Goto
<1>4. ASSUME NEW d \in Deployments,
             \/ RemoveContainer(d) \/ TakeVolumes(d) \/ UnmountVolumes(d)
             \/ ReportExit(d) \/ DeferredKillTask(d)
      PROVE  Cleared'
  BY <1>4, ClearedKept DEF RemoveContainer, TakeVolumes, UnmountVolumes,
       ReportExit, DeferredKillTask, DeleteContainer, Goto
<1>5. ASSUME NEW d \in Deployments, ReceiveDeploy(d) \/ PullImage(d) \/ ReportDeploy(d)
      PROVE  Cleared'
  BY <1>5, ClearedKept DEF ReceiveDeploy, PullImage, ReportDeploy
<1>6. ASSUME NEW u \in Undeployments, LookUp(u) \/ SendKill(u) PROVE Cleared'
  BY <1>6, ClearedKept DEF LookUp, SendKill
<1>7. ASSUME NEW t \in Tasks, TaskExits(t) \/ TenSecondsPass(t) \/ FindDoomed(t)
      PROVE  Cleared'
  BY <1>7, ClearedKept DEF TaskExits, TenSecondsPass, FindDoomed
<1>8. CASE ReapContainer
  BY <1>8, ClearedKept DEF ReapContainer, DeleteContainer
<1>9. CASE StopBegin \/ StopLookUp \/ StopSend \/ Crash \/ Restart
  BY <1>9 DEF StopBegin, StopLookUp, StopSend, Crash, Restart, Cleared
<1>10. CASE StopWait
  <2>1. ASSUME \A d \in Deployments : ~Live(d), spc' = "close", atStop' = Begun
        PROVE  Cleared'
    BY <1>10, <2>1 DEF StopWait, Cleared, Begun, Live, TaskOwned, Tending
  <2>2. ASSUME spc' = "force", atStop' = OwnersOfTasks,
               toStop' = {t \in Tasks : container[t] # None}
        PROVE  Cleared'
    BY <1>10, <2>2 DEF StopWait, Cleared, OwnersOfTasks, TaskOwned, Tending
  <2>3. QED
    BY <1>10, <2>1, <2>2 DEF StopWait
<1>11. CASE ForceRemove
  BY <1>11 DEF ForceRemove, DeleteContainer, Cleared
<1>12. CASE StopClose
  BY <1>12 DEF StopClose, Cleared
<1>13. CASE UNCHANGED vars
  BY <1>13, ClearedKept DEF vars
<1>14. QED
  BY <1>1, <1>2, <1>3, <1>4, <1>5, <1>6, <1>7, <1>8, <1>9, <1>10, <1>11, <1>12,
     <1>13 DEF Next, Handler, Routine

\* In every execution what ran when Stop ended its wait is gone when the process
\* ends, by its routine or by force.
THEOREM StopSound == Spec => []StopEndsWhatRan
<1>1. Init => Cleared
  BY DEF Init, Cleared
<1>2. Spec => []Cleared
  BY <1>1, TypeCorrect, LifecycleHolds, OwnedHolds, ClearedStep, PTL DEF Spec
<1>3. Cleared => StopEndsWhatRan
  BY DEF Cleared, StopEndsWhatRan
<1>4. QED
  BY <1>2, <1>3, PTL
===============================================================================
