------------------------ MODULE UnikernelRuntimeProofs ------------------------
(***************************************************************************)
(* Proofs of the safety properties of UnikernelRuntime, for any number of    *)
(* tasks, deployments and undeployments.                                     *)
(***************************************************************************)
EXTENDS UnikernelRuntime, TLAPS

-------------------------------------------------------------------------------
(* The inductive invariant *)

\* The places of a routine that is not there yet, or has left the kill queue.
Absent == {"none", "abort", "cleanup", "answer", "done"}

\* A routine runs only once its Deploy has registered it.
Begun ==
  \A d \in Deployments : rpc[d] # "none" => hpc[d] \notin {"idle", "register"}

\* An entry is that of a deployment of the task, whose routine has not cleared
\* the entry yet.
Entries ==
  \A t \in Tasks :
    /\ killQueue[t] # None => TaskOf[killQueue[t]] = t /\ rpc[killQueue[t]] \notin Absent
    /\ qemuDomains[t] # None =>
         /\ TaskOf[qemuDomains[t]] = t
         /\ rpc[qemuDomains[t]] \in {"started", "select", "quit", "clear"}

\* The Undeploy that sends or waits is the one that has the lock.  The routine it
\* talks to needs the lock to leave, and so is still there.
LockKept ==
  /\ \A u \in Undeployments :
       upc[u] \in {"send", "await"} =>
         holder = u /\ target[u] # None /\ rpc[target[u]] \notin Absent
  /\ holder # None => upc[holder] \in {"send", "await"}

\* A value in a kill channel is the last answer of a routine, or was sent by the
\* Undeploy that has the lock.
ChannelUse ==
  \A d \in Deployments :
    killChannel[d] =>
      \/ rpc[d] = "done"
      \/ holder # None /\ upc[holder] = "await" /\ target[holder] = d

QueueInv == TypeOK /\ Begun /\ Entries /\ LockKept /\ ChannelUse

-------------------------------------------------------------------------------
(* Type correctness *)

\* A step of Deploy or of a creation routine keeps the types.
LEMMA DeployTyped ==
  ASSUME TypeOK, NEW d \in Deployments, DeployCheck(d) \/ DeployRegister(d) \/ Routine(d)
  PROVE  TypeOK'
<1> USE UnikernelAssumption DEF TypeOK, Goto, mapVars, callVars, fileVars
<1>1. CASE DeployCheck(d) \/ DeployRegister(d)
  BY <1>1 DEF DeployCheck, DeployRegister
<1>2. CASE ImageStat(d) \/ ImageMkdir(d)
  BY <1>2 DEF ImageStat, ImageMkdir
<1>11. CASE ImageArchive(d)
  BY <1>11 DEF ImageArchive
<1>3. CASE ImageDownload(d)
  BY <1>3 DEF ImageDownload
<1>15. CASE ImageUnpack(d)
  <2>1. kernel' \in {"none", "cut", "whole"}
    BY <1>15 DEF ImageUnpack
  <2>2. QED
    BY <1>15, <2>1 DEF ImageUnpack
<1>16. CASE ImageGunzip(d)
  <2>1. up' \in BOOLEAN
    BY <1>16, Zenon DEF ImageGunzip
  <2>2. QED
    BY <1>16, <2>1 DEF ImageGunzip
<1>14. CASE ImageFiles(d)
  BY <1>14 DEF ImageFiles
<1>4. CASE Network(d)
  BY <1>4 DEF Network
<1>5. CASE GenerateArgs(d)
  BY <1>5 DEF GenerateArgs, DeleteDefaultIpGwMask
<1>6. CASE StartQemu(d) \/ DialQmp(d) \/ Revert(d) \/ RevertClear(d)
  BY <1>6 DEF StartQemu, DialQmp, Revert, RevertClear
<1>7. CASE Abort(d) \/ Cleanup(d)
  BY <1>7 DEF Abort, Cleanup, DeleteNamespace
<1>8. CASE AddDomain(d) \/ Started(d)
  BY <1>8 DEF AddDomain, Started
<1>12. CASE Select(d)
  <2>1. killChannel' \in [Deployments -> BOOLEAN]
    BY <1>12 DEF Select
  <2>2. QED
    BY <1>12, <2>1 DEF Select
<1>9. CASE Quit(d) \/ Clear(d)
  BY <1>9 DEF Quit, Clear
<1>13. CASE Answer(d)
  <2>1. killChannel' \in [Deployments -> BOOLEAN]
    BY <1>13 DEF Answer
  <2>2. QED
    BY <1>13, <2>1 DEF Answer
<1>10. QED
  BY <1>1, <1>2, <1>3, <1>4, <1>5, <1>6, <1>7, <1>8, <1>9, <1>11, <1>12, <1>13, <1>14, <1>15,
     <1>16 DEF Routine, GetKernelImage

\* Every step keeps the types; that Undeploy has a target when it sends is needed.
LEMMA TypeStep == TypeOK /\ LockKept /\ [Next]_vars => TypeOK'
<1> SUFFICES ASSUME TypeOK, LockKept, [Next]_vars PROVE TypeOK'
  OBVIOUS
<1> USE UnikernelAssumption DEF mapVars, callVars, fileVars
<1>1. ASSUME NEW d \in Deployments, QemuExits(d) PROVE TypeOK'
  BY <1>1 DEF QemuExits, TypeOK
<1>2. ASSUME NEW u \in Undeployments, UndeployLock(u) PROVE TypeOK'
  BY <1>2 DEF UndeployLock, TypeOK
<1>3. ASSUME NEW u \in Undeployments, UndeploySend(u) PROVE TypeOK'
  <2>1. killChannel' \in [Deployments -> BOOLEAN]
    BY <1>3 DEF UndeploySend, TypeOK
  <2>2. rpc' = rpc \/ \E d \in Deployments \cup {None} : rpc' = [rpc EXCEPT ![d] = "quit"]
    BY <1>3 DEF UndeploySend, TypeOK, Goto
  <2>3. reported' \subseteq Deployments
    <3>1. target[u] \in Deployments
      BY <1>3 DEF UndeploySend, LockKept, TypeOK
    <3>2. QED
      BY <1>3, <3>1 DEF UndeploySend, TypeOK
  <2>4. QED
    BY <1>3, <2>1, <2>2, <2>3 DEF UndeploySend, TypeOK
<1>4. ASSUME NEW u \in Undeployments, UndeployAwait(u) PROVE TypeOK'
  BY <1>4 DEF UndeployAwait, TypeOK
<1>5. CASE UNCHANGED vars
  BY <1>5 DEF vars, TypeOK
<1>6. QED
  BY <1>1, <1>2, <1>3, <1>4, <1>5, DeployTyped DEF Next, Undeploy

-------------------------------------------------------------------------------
(* The kill queue *)

\* A routine that goes on without leaving the queue, the domains or a channel
\* changes nothing the invariant is about.
LEMMA QuietStep ==
  ASSUME QueueInv, NEW d \in Deployments, NEW to,
         rpc[d] \notin Absent, to \notin Absent, rpc' = [rpc EXCEPT ![d] = to],
         rpc[d] \in {"started", "select", "quit", "clear"} =>
           to \in {"started", "select", "quit", "clear"},
         hpc'[d] \notin {"idle", "register"},
         \A e \in Deployments : e # d => hpc'[e] = hpc[e],
         \A e \in Deployments : killChannel'[e] => killChannel[e],
         UNCHANGED <<mapVars, callVars>>
  PROVE  Begun' /\ Entries' /\ LockKept' /\ ChannelUse'
<1> USE UnikernelAssumption DEF QueueInv, TypeOK, mapVars, callVars
<1>1. \A e \in Deployments : e # d => rpc'[e] = rpc[e]
  OBVIOUS
<1>2. rpc'[d] = to
  OBVIOUS
<1> HIDE DEF TypeOK
<1>3. Begun'
  BY <1>1, <1>2 DEF Begun, Absent
<1>4. Entries'
  BY <1>1, <1>2 DEF Entries, TypeOK
<1>5. LockKept'
  BY <1>1, <1>2 DEF LockKept, TypeOK
<1>6. ChannelUse'
  BY <1>1, <1>2 DEF ChannelUse, Absent
<1>7. QED
  BY <1>3, <1>4, <1>5, <1>6

\* The steps of a creation routine.
LEMMA RoutineStep ==
  ASSUME QueueInv, NEW d \in Deployments, Routine(d)
  PROVE  Begun' /\ Entries' /\ LockKept' /\ ChannelUse'
<1> USE UnikernelAssumption DEF Goto, mapVars, callVars, Absent
<1>0. rpc[d] # "none" => hpc[d] \notin {"idle", "register"}
  BY DEF QueueInv, Begun
<1>1. CASE GetKernelImage(d)
  <2>1. /\ UNCHANGED <<mapVars, hpc, killChannel, callVars>>
        /\ rpc[d] \in {"stat", "mkdir", "archive", "download", "gunzip", "unpack", "files"}
        /\ \E to \in {"mkdir", "archive", "download", "gunzip", "unpack", "files", "network",
                     "revert"} : rpc' = [rpc EXCEPT ![d] = to]
    BY <1>1 DEF GetKernelImage, ImageStat, ImageMkdir, ImageArchive, ImageDownload, ImageGunzip,
         ImageUnpack, ImageFiles, QueueInv, TypeOK
  <2>2. QED
    BY <1>0, <2>1, QuietStep
<1>2. CASE Network(d) \/ GenerateArgs(d) \/ StartQemu(d) \/ DialQmp(d)
  <2>1. /\ UNCHANGED <<mapVars, hpc, killChannel, callVars>>
        /\ rpc[d] \in {"network", "args", "start", "dial"}
        /\ \E to \in {"args", "start", "dial", "domain", "revert", "revertKill"} :
             rpc' = [rpc EXCEPT ![d] = to]
    BY <1>2 DEF Network, GenerateArgs, StartQemu, DialQmp
  <2>2. QED
    BY <1>0, <2>1, QuietStep
<1>3. CASE Revert(d) \/ Started(d)
  <2>1. /\ UNCHANGED <<mapVars, killChannel, callVars>>
        /\ \/ rpc[d] \in {"revert", "revertKill"}
              /\ \E to \in {"clearFailed", "clearKill"} : rpc' = [rpc EXCEPT ![d] = to]
           \/ rpc[d] = "started" /\ rpc' = [rpc EXCEPT ![d] = "select"]
        /\ \E to \in {"failed", "ok"} : hpc' = [hpc EXCEPT ![d] = to]
    BY <1>3 DEF Revert, Started
  <2>2. hpc'[d] \notin {"idle", "register"} /\ \A e \in Deployments : e # d => hpc'[e] = hpc[e]
    BY <2>1 DEF QueueInv, TypeOK
  <2>3. QED
    BY <2>1, <2>2, QuietStep
<1>4. CASE Select(d) \/ Quit(d)
  <2>1. /\ UNCHANGED <<mapVars, hpc, callVars>>
        /\ \/ rpc[d] = "select" /\ rpc' = [rpc EXCEPT ![d] = "quit"]
           \/ rpc[d] = "quit" /\ rpc' = [rpc EXCEPT ![d] = "clear"]
    BY <1>4 DEF Select, Quit
  <2>2. \A e \in Deployments : killChannel'[e] => killChannel[e]
    BY <1>4 DEF Select, Quit, QueueInv, TypeOK
  <2>3. QED
    BY <1>0, <2>1, <2>2, QuietStep
<1> USE DEF QueueInv
<1>5. CASE AddDomain(d)
  <2>1. Begun' /\ LockKept' /\ ChannelUse'
    BY <1>5 DEF AddDomain, Begun, LockKept, ChannelUse, Unlocked, TypeOK
  <2>2. Entries'
    BY <1>5 DEF AddDomain, Entries, TypeOK
  <2>3. QED
    BY <2>1, <2>2
<1>6. CASE RevertClear(d) \/ Clear(d)
  <2>1. /\ holder = None /\ UNCHANGED <<hpc, killChannel, callVars>>
        /\ rpc[d] \in {"clearFailed", "clearKill", "clear"}
        /\ \E to \in {"done", "abort", "cleanup"} : rpc' = [rpc EXCEPT ![d] = to]
        /\ killQueue' = [killQueue EXCEPT ![TaskOf[d]] = None]
        /\ \/ rpc[d] # "clear" /\ UNCHANGED qemuDomains
           \/ qemuDomains' = [qemuDomains EXCEPT ![TaskOf[d]] = None]
    BY <1>6 DEF RevertClear, Clear, Unlocked
  <2>2. Begun' /\ LockKept' /\ ChannelUse'
    BY <2>1 DEF Begun, LockKept, ChannelUse, TypeOK
  <2>3. Entries'
    BY <2>1 DEF Entries, TypeOK
  <2>4. QED
    BY <2>2, <2>3
<1>7. CASE Abort(d) \/ Cleanup(d) \/ Answer(d)
  <2>1. /\ UNCHANGED <<mapVars, hpc, callVars>>
        /\ rpc[d] \in {"abort", "cleanup", "answer"}
        /\ \E to \in {"answer", "done"} : rpc' = [rpc EXCEPT ![d] = to]
        /\ \A e \in Deployments : killChannel'[e] => killChannel[e] \/ (e = d /\ rpc'[d] = "done")
    BY <1>7 DEF Abort, Cleanup, Answer, TypeOK
  <2>2. Begun' /\ LockKept' /\ ChannelUse'
    BY <2>1 DEF Begun, LockKept, ChannelUse, TypeOK
  <2>3. Entries'
    BY <2>1 DEF Entries, TypeOK
  <2>4. QED
    BY <2>2, <2>3
<1>8. QED
  BY <1>1, <1>2, <1>3, <1>4, <1>5, <1>6, <1>7 DEF Routine

\* The steps of Undeploy.
LEMMA UndeployStep ==
  ASSUME QueueInv, NEW u \in Undeployments, Undeploy(u)
  PROVE  Begun' /\ Entries' /\ LockKept' /\ ChannelUse'
<1> USE UnikernelAssumption DEF Goto, mapVars, callVars, Absent, QueueInv
<1>1. CASE UndeployLock(u)
  BY <1>1 DEF UndeployLock, Unlocked, Begun, Entries, LockKept, ChannelUse, TypeOK
<1>2. CASE UndeploySend(u)
  <2>1. target[u] \in Deployments /\ holder = u /\ rpc[target[u]] # "none"
    BY <1>2 DEF UndeploySend, LockKept, TypeOK
  <2>2. Begun' /\ Entries'
    BY <1>2, <2>1 DEF UndeploySend, Begun, Entries, TypeOK
  <2>3. LockKept'
    BY <1>2, <2>1 DEF UndeploySend, LockKept, TypeOK
  <2>4. ChannelUse'
    BY <1>2, <2>1 DEF UndeploySend, ChannelUse, TypeOK
  <2>5. QED
    BY <2>2, <2>3, <2>4
<1>3. CASE UndeployAwait(u)
  <2>1. target[u] \in Deployments /\ holder = u
    BY <1>3 DEF UndeployAwait, LockKept, TypeOK
  <2>2. Begun' /\ Entries'
    BY <1>3, <2>1 DEF UndeployAwait, Begun, Entries, TypeOK
  <2>3. LockKept'
    BY <1>3, <2>1 DEF UndeployAwait, LockKept, TypeOK
  <2>4. ChannelUse'
    BY <1>3, <2>1 DEF UndeployAwait, ChannelUse, TypeOK
  <2>5. QED
    BY <2>2, <2>3, <2>4
<1>4. QED
  BY <1>1, <1>2, <1>3 DEF Undeploy

\* Every step keeps the invariant.
LEMMA QueueStep == QueueInv /\ [Next]_vars => QueueInv'
<1> SUFFICES ASSUME QueueInv, [Next]_vars PROVE QueueInv'
  OBVIOUS
<1>1. TypeOK'
  BY TypeStep DEF QueueInv
<1>2. ASSUME NEW d \in Deployments, DeployCheck(d)
      PROVE  Begun' /\ Entries' /\ LockKept' /\ ChannelUse'
  BY <1>2 DEF DeployCheck, QueueInv, TypeOK, Begun, Entries, LockKept, ChannelUse, mapVars, callVars
<1>3. ASSUME NEW d \in Deployments, DeployRegister(d)
      PROVE  Begun' /\ Entries' /\ LockKept' /\ ChannelUse'
  <2> USE UnikernelAssumption DEF DeployRegister, Goto, Unlocked, Absent, QueueInv, TypeOK, callVars
  <2>1. Begun'
    BY <1>3 DEF Begun
  <2>2. Entries'
    BY <1>3 DEF Entries
  <2>3. LockKept'
    BY <1>3 DEF LockKept
  <2>4. ChannelUse'
    BY <1>3 DEF ChannelUse
  <2>5. QED
    BY <2>1, <2>2, <2>3, <2>4
<1>4. ASSUME NEW d \in Deployments, QemuExits(d)
      PROVE  Begun' /\ Entries' /\ LockKept' /\ ChannelUse'
  BY <1>4 DEF QemuExits, QueueInv, Begun, Entries, LockKept, ChannelUse, mapVars, callVars
<1>5. CASE UNCHANGED vars
  BY <1>1, <1>5 DEF QueueInv, Begun, Entries, LockKept, ChannelUse, vars, mapVars, callVars
<1>6. QED
  BY <1>1, <1>2, <1>3, <1>4, <1>5, RoutineStep, UndeployStep DEF Next, QueueInv

\* The invariant holds in every execution of the runtime.
LEMMA QueueInvariant == Spec => []QueueInv
<1>1. Init => QueueInv
  <2>1. Init => archive \in BOOLEAN /\ up \in BOOLEAN
    BY Zenon DEF Init
  <2>2. Init => TypeOK
    BY <2>1, UnikernelAssumption DEF Init, TypeOK
  <2>3. Init => Begun /\ Entries /\ LockKept /\ ChannelUse
    BY UnikernelAssumption DEF Init, Begun, Entries, LockKept, ChannelUse
  <2>4. QED
    BY <2>2, <2>3 DEF QueueInv
<1>2. QED
  BY <1>1, QueueStep, PTL DEF Spec

\* Every variable keeps its type in every execution of the runtime.
THEOREM UnikernelTyped == Spec => []TypeOK
  BY QueueInvariant, PTL DEF QueueInv

\* The kill queue leads to live routines only and no send finds a kill channel
\* full: Undeploy, which keeps the lock, and the routine, which needs it, never
\* wait for each other, however many of them there are.
THEOREM KillQueueProved == Spec => []KillQueueSound
<1>1. QueueInv => KillQueueSound
  <2> SUFFICES ASSUME QueueInv PROVE KillQueueSound
    OBVIOUS
  <2> USE UnikernelAssumption DEF QueueInv, TypeOK, Absent
  <2>1. \A u \in Undeployments : upc[u] = "send" => ~killChannel[target[u]]
    BY DEF LockKept, ChannelUse
  <2>2. \A d \in Deployments : rpc[d] = "answer" => ~killChannel[d]
    BY DEF LockKept, ChannelUse
  <2>3. \A t \in Tasks :
          /\ killQueue[t] # None =>
               /\ hpc[killQueue[t]] # "idle"
               /\ rpc[killQueue[t]] \notin {"abort", "cleanup", "answer", "done"}
          /\ qemuDomains[t] # None =>
               rpc[qemuDomains[t]] \in {"started", "select", "quit", "clear"}
    <3> SUFFICES ASSUME NEW t \in Tasks, killQueue[t] # None
                 PROVE  /\ hpc[killQueue[t]] # "idle"
                        /\ rpc[killQueue[t]] \notin {"abort", "cleanup", "answer", "done"}
      BY DEF Entries
    <3>1. killQueue[t] \in Deployments /\ rpc[killQueue[t]] \notin Absent
      BY DEF Entries
    <3>2. QED
      BY <3>1 DEF Begun
  <2>4. QED
    BY <2>1, <2>2, <2>3 DEF KillQueueSound
<1>2. QED
  BY <1>1, QueueInvariant, PTL
===============================================================================
