--------------------------- MODULE CsiVolumesProofs ---------------------------
(***************************************************************************)
(* Proofs of the safety properties of CsiVolumes, for any number of volumes, *)
(* handlers, deployments and ends of the plugin, any capacity of the         *)
(* clean-up queue and any limits of the worker.                              *)
(***************************************************************************)
EXTENDS CsiVolumes, TLAPS

-----------------------------------------------------------------------------
(* The inductive invariant *)

Unmounting == {"reverting", "unmounting"}
Answers    == {"ok", "error"}

\* An actor has a volume exactly while it is at work on one.
ActorsBusy ==
  /\ \A s \in Slots : hpc[s] # "clean" /\ (hpc[s] = "idle" <=> vol[s] = None)
  /\ hpc[Worker] \in {"idle", "remove", "delete", "write"}
  /\ hpc[Worker] = "idle" <=> vol[Worker] = None
  /\ hpc[Worker] = "remove" => vol[Worker] \in todo
  /\ hpc[Main] \in {"idle", "clean", "write"}

\* One routine at a time is entered in killQueue, and mounts while a volume is left.
OneEntered ==
  /\ \A d, e \in Deployments : engine[d] \in Entered /\ engine[e] \in Entered => d = e
  /\ \A d \in Deployments : engine[d] = "mounting" => left[d] # {}

\* A routine waits for a handler of its own that does what it asked for.
CallsServed ==
  /\ \A d \in Deployments : call[d] # None =>
       \/ engine[d] = "mounting" /\ hpc[call[d]] \in PublishSteps \cup Answers
       \/ engine[d] \in Unmounting /\ hpc[call[d]] \in UnpublishSteps \cup Answers
  /\ \A d, e \in Deployments : call[d] # None /\ call[d] = call[e] => d = e

\* A handler that publishes is waited for, unless its volume is in cutOff.
PublishAwaited ==
  \A s \in Slots : hpc[s] \in PublishSteps /\ vol[s] \notin cutOff =>
    \E d \in Deployments : engine[d] = "mounting" /\ call[d] = s

\* Before the plugin serves no handler is at work; when it is down nobody is.
StartState ==
  /\ ~Serving => \A s \in Slots : hpc[s] \in {"idle"} \cup Answers
  /\ orphans # {} => up /\ hpc[Main] = "clean"
  /\ ~up =>
       /\ mounts = {} /\ queue = <<>> /\ todo = {}
       /\ \A v \in Volumes : retry[v] = None
       /\ hpc[Worker] = "idle" /\ hpc[Main] = "idle"

\* What a handler found in the mount table is still so when it mounts.
ProbeTrue ==
  \A s \in Slots : hpc[s] = "mount" /\ vol[s] \notin cutOff => depth[vol[s]] = 0

\* The start-up or the worker has the volume, or it has been dropped.
WithPlugin(v) ==
  \/ v \in orphans \cup dropped
  \/ \E i \in DOMAIN queue : queue[i] = v
  \/ retry[v] # None
  \/ hpc[Worker] = "delete" /\ vol[Worker] = v

\* A routine has mounted the volume, or is about to learn that it has; or it is to
\* unmount it, and has not yet done so.
WithRoutine(d, v) ==
  \/ engine[d] = "mounting" /\ v \notin left[d]
  \/ engine[d] = "mounting" /\ call[d] # None /\ hpc[call[d]] = "ok" /\ vol[call[d]] = v
  \/ /\ engine[d] \in Unmounting /\ v \in left[d]
     /\ ~(call[d] # None /\ vol[call[d]] = v /\ hpc[call[d]] \in {"write"} \cup Answers)

\* A handler is about to unmount the volume and to delete its record.
WithHandler(v) ==
  \E s \in Slots : vol[s] = v /\ hpc[s] \in UnpublishSteps \ {"write"}

Tended(v) ==
  \/ WithPlugin(v) \/ WithHandler(v)
  \/ recorded \/ \E d \in Deployments : WithRoutine(d, v)
  \/ v \in cutOff \cup disowned

\* Somebody has every volume on record: the plugin itself while it starts.
Covered ==
  \A v \in mounts : Tended(v) /\ (~Serving => WithPlugin(v))

CsiInv ==
  /\ TypeOK /\ ActorsBusy /\ OneEntered /\ CallsServed /\ PublishAwaited /\ StartState
  /\ ProbeTrue /\ OneMountPerTarget /\ Covered

-----------------------------------------------------------------------------
(* Facts the steps share *)

\* None is no volume, no actor and no number, and neither the worker nor main is
\* a handler.
LEMMA Distinct ==
  /\ None \notin Volumes /\ None \notin Actors /\ Slots \subseteq Actors
  /\ Worker \in Actors /\ Worker \notin Slots /\ Main \in Actors /\ Main \notin Slots
  /\ Worker # Main
  BY CsiAssumption DEF Actors, Worker, Main

\* The volume a loop takes next is one of those it has left.
LEMMA NextIsLeft ==
  ASSUME NEW S \in SUBSET Volumes, S # {}
  PROVE  NextOf(S) \in S
  BY DEF NextOf

\* A handler at work has a volume.
LEMMA BusyVolume ==
  ASSUME TypeOK, ActorsBusy, NEW s \in Slots, hpc[s] # "idle"
  PROVE  vol[s] \in Volumes
  BY Distinct DEF TypeOK, ActorsBusy

\* A routine that waits does so for a handler at work on a volume.
LEMMA CallVolume ==
  ASSUME TypeOK, ActorsBusy, CallsServed, NEW d \in Deployments, call[d] # None
  PROVE  /\ call[d] \in Slots /\ vol[call[d]] \in Volumes
         /\ hpc[call[d]] \in PublishSteps \cup UnpublishSteps \cup Answers
<1>1. /\ call[d] \in Slots
      /\ hpc[call[d]] \in PublishSteps \cup UnpublishSteps \cup Answers
  BY DEF TypeOK, CallsServed
<1>2. hpc[call[d]] # "idle"
  BY <1>1 DEF PublishSteps, UnpublishSteps, Answers
<1>3. QED
  BY <1>1, <1>2, BusyVolume

-----------------------------------------------------------------------------
(* Type correctness *)

\* An actor goes to a step.
LEMMA GotoTyped ==
  ASSUME TypeOK, NEW a \in Actors, NEW step \in Steps, hpc' = [hpc EXCEPT ![a] = step]
  PROVE  hpc' \in [Actors -> Steps]
  BY DEF TypeOK

\* An actor is done.
LEMMA DoneTyped ==
  ASSUME TypeOK, NEW a \in Actors, Done(a)
  PROVE  hpc' \in [Actors -> Steps] /\ vol' \in [Actors -> Volumes \cup {None}]
  BY DEF TypeOK, Done, Goto, Steps

\* A call begins.
LEMMA SendTyped ==
  ASSUME TypeOK, NEW d \in Deployments, NEW s \in Slots, NEW v \in Volumes, NEW step \in Steps,
         Send(d, s, v, step)
  PROVE  /\ hpc' \in [Actors -> Steps] /\ vol' \in [Actors -> Volumes \cup {None}]
         /\ snap' = snap /\ call' \in [Deployments -> Slots \cup {None}]
  BY Distinct DEF TypeOK, Send

\* Calls are given up.
LEMMA AbandonTyped ==
  ASSUME TypeOK, ActorsBusy, NEW S \in SUBSET Slots, NEW lost \in SUBSET S, Abandon(S, lost)
  PROVE  /\ hpc' \in [Actors -> Steps] /\ vol' \in [Actors -> Volumes \cup {None}]
         /\ snap' = snap /\ cutOff' \subseteq Volumes /\ cutOff \subseteq cutOff'
<1>1. hpc' \in [Actors -> Steps] /\ vol' \in [Actors -> Volumes \cup {None}] /\ snap' = snap
  BY DEF TypeOK, Abandon, Steps
<1>2. \A s \in S : hpc[s] \in PublishSteps => vol[s] \in Volumes
  BY BusyVolume DEF PublishSteps
<1>3. cutOff' \subseteq Volumes /\ cutOff \subseteq cutOff'
  BY <1>2 DEF TypeOK, Abandon
<1>4. QED
  BY <1>1, <1>3

\* A routine goes on.
LEMMA EngineSet ==
  ASSUME TypeOK, NEW d \in Deployments, NEW pc \in Routines, engine' = [engine EXCEPT ![d] = pc]
  PROVE  engine' \in [Deployments -> Routines]
  BY DEF TypeOK

\* What a routine has left changes.
LEMMA LeftSet ==
  ASSUME TypeOK, NEW d \in Deployments, NEW S \in SUBSET Volumes, left' = [left EXCEPT ![d] = S]
  PROVE  left' \in [Deployments -> SUBSET Volumes]
  BY DEF TypeOK

\* The steps of a routine keep the types.
LEMMA EngineTyped ==
  ASSUME CsiInv, NEW d \in Deployments, RoutineStep(d)
  PROVE  TypeOK'
<1> USE Distinct DEF CsiInv, MountFails, EngineGoto, engineVars, pluginVars, trackerVars,
          handlerVars, kernelVars, Routines, Entered
<1>0. call[d] # None => call[d] \in Slots /\ vol[call[d]] \in Volumes
  BY CallVolume
<1>1. CASE Deploy(d)
  BY <1>1 DEF Deploy, TypeOK
<1>2. CASE MountNext(d)
  <2>1. NextOf(left[d]) \in Volumes
    BY <1>2, NextIsLeft DEF MountNext, OneEntered, TypeOK
  <2>2. dir' \subseteq Volumes
    BY <1>2, <2>1 DEF MountNext, TypeOK
  <2>3. /\ hpc' \in [Actors -> Steps] /\ vol' \in [Actors -> Volumes \cup {None}]
        /\ snap' = snap /\ call' \in [Deployments -> Slots \cup {None}]
    <3>1. \/ UNCHANGED <<call, handlerVars>>
          \/ \E s \in Slots : Send(d, s, NextOf(left[d]), "publish")
      BY <1>2 DEF MountNext
    <3>2. "publish" \in Steps
      BY DEF Steps, PublishSteps
    <3>3. QED
      BY <2>1, <3>1, <3>2, SendTyped DEF TypeOK
  <2>4. engine' \in [Deployments -> Routines] /\ left' \in [Deployments -> SUBSET Volumes]
    <3>1. \/ UNCHANGED <<engine, left>>
          \/ /\ engine' = [engine EXCEPT ![d] = "reverting"]
             /\ left' = [left EXCEPT ![d] = Volumes \ left[d]]
      BY <1>2 DEF MountNext
    <3>2. engine' \in [Deployments -> Routines]
      BY <3>1, EngineSet DEF TypeOK
    <3>3. left' \in [Deployments -> SUBSET Volumes]
      <4>1. Volumes \ left[d] \in SUBSET Volumes /\ left \in [Deployments -> SUBSET Volumes]
        BY DEF TypeOK
      <4>2. CASE left' = [left EXCEPT ![d] = Volumes \ left[d]]
        BY <4>1, <4>2, LeftSet
      <4>3. QED
        BY <3>1, <4>1, <4>2
    <3>4. QED
      BY <3>2, <3>3
  <2>5. QED
    BY <1>2, <2>2, <2>3, <2>4 DEF MountNext, TypeOK
<1>3. CASE MountAnswered(d)
  <2>1. hpc' \in [Actors -> Steps] /\ vol' \in [Actors -> Volumes \cup {None}]
    BY <1>0, <1>3, DoneTyped DEF MountAnswered
  <2>2. engine' \in [Deployments -> Routines] /\ left' \in [Deployments -> SUBSET Volumes]
    <3>1. \/ /\ engine' = [engine EXCEPT ![d] = "reverting"]
             /\ left' = [left EXCEPT ![d] = Volumes \ left[d]]
          \/ /\ engine' \in {[engine EXCEPT ![d] = "running"], [engine EXCEPT ![d] = "mounting"]}
             /\ left' = [left EXCEPT ![d] = left[d] \ {vol[call[d]]}]
      BY <1>3 DEF MountAnswered
    <3>2. left[d] \ {vol[call[d]]} \subseteq Volumes
      BY DEF TypeOK
    <3>3. engine' \in [Deployments -> Routines]
      BY <3>1, EngineSet
    <3>4. left' \in [Deployments -> SUBSET Volumes]
      <4>1. CASE left' = [left EXCEPT ![d] = Volumes \ left[d]]
        BY <4>1, LeftSet
      <4>2. CASE left' = [left EXCEPT ![d] = left[d] \ {vol[call[d]]}]
        BY <3>2, <4>2, LeftSet
      <4>3. QED
        BY <3>1, <4>1, <4>2
    <3>5. QED
      BY <3>3, <3>4
  <2>3. recorded' \in BOOLEAN
    BY <1>3, Zenon DEF MountAnswered, TypeOK
  <2>4. disowned' \subseteq Volumes /\ call' \in [Deployments -> Slots \cup {None}]
    BY <1>3 DEF MountAnswered, TypeOK
  <2>5. QED
    BY <1>3, <2>1, <2>2, <2>3, <2>4 DEF MountAnswered, TypeOK
<1>4. CASE EndMounted(d) \/ ContainerExits(d) \/ Unmounted(d)
  BY <1>4 DEF EndMounted, ContainerExits, Unmounted, TypeOK
<1>5. CASE TakeVolumes(d)
  <2>1. recorded' \in BOOLEAN
    BY <1>5, Zenon DEF TakeVolumes
  <2>2. engine' \in [Deployments -> Routines] /\ left' \in [Deployments -> SUBSET Volumes]
    <3>1. /\ engine' = [engine EXCEPT ![d] = "unmounting"] \/ engine' = [engine EXCEPT ![d] = "done"]
          /\ left' = left \/ left' = [left EXCEPT ![d] = Volumes]
      BY <1>5 DEF TakeVolumes
    <3>2. engine' \in [Deployments -> Routines]
      BY <3>1, EngineSet
    <3>3. left' \in [Deployments -> SUBSET Volumes]
      BY <3>1, LeftSet DEF TypeOK
    <3>4. QED
      BY <3>2, <3>3
  <2>3. QED
    BY <1>5, <2>1, <2>2 DEF TakeVolumes, TypeOK
<1>6. CASE UnmountNext(d)
  <2>1. NextOf(left[d]) \in Volumes
    BY <1>6, NextIsLeft DEF UnmountNext, TypeOK
  <2>2. dir' \subseteq Volumes /\ disowned' \subseteq Volumes
    BY <1>6, <2>1 DEF UnmountNext, EngineRemove, TypeOK
  <2>5. left' \in [Deployments -> SUBSET Volumes]
    <3>1. left[d] \in SUBSET Volumes
      BY DEF TypeOK
    <3>2. PICK v \in Volumes : left' = left \/ left' = [left EXCEPT ![d] = left[d] \ {v}]
      BY <1>6, <2>1 DEF UnmountNext
    <3>3. left[d] \ {v} \in SUBSET Volumes
      BY <3>1
    <3>4. QED
      BY <3>2, <3>3, LeftSet DEF TypeOK
  <2>3. /\ hpc' \in [Actors -> Steps] /\ vol' \in [Actors -> Volumes \cup {None}]
        /\ snap' = snap /\ call' \in [Deployments -> Slots \cup {None}]
    <3>1. \/ UNCHANGED <<call, handlerVars>>
          \/ \E s \in Slots : Send(d, s, NextOf(left[d]), "unpublish")
      BY <1>6 DEF UnmountNext
    <3>2. "unpublish" \in Steps
      BY DEF Steps, UnpublishSteps
    <3>3. QED
      BY <2>1, <3>1, <3>2, SendTyped DEF TypeOK
  <2>4. QED
    BY <1>6, <2>2, <2>3, <2>5 DEF UnmountNext, TypeOK
<1>7. CASE UnmountAnswered(d)
  <2>1. hpc' \in [Actors -> Steps] /\ vol' \in [Actors -> Volumes \cup {None}]
    BY <1>0, <1>7, DoneTyped DEF UnmountAnswered
  <2>2. /\ left' \in [Deployments -> SUBSET Volumes] /\ dir' \subseteq Volumes
        /\ call' \in [Deployments -> Slots \cup {None}]
    BY <1>7 DEF UnmountAnswered, EngineRemove, TypeOK
  <2>3. QED
    BY <1>7, <2>1, <2>2 DEF UnmountAnswered, TypeOK
<1>8. CASE CallTimesOut(d)
  <2>1. PICK lost \in SUBSET {call[d]} :
          /\ Abandon({call[d]}, lost)
          /\ IF engine[d] = "mounting"
             THEN MountFails(d) /\ UNCHANGED <<dir, disowned>>
             ELSE /\ left' = [left EXCEPT ![d] = @ \ {vol[call[d]]}]
                  /\ EngineRemove(vol[call[d]])
                  /\ disowned' = disowned \cup {vol[s] : s \in lost}
                  /\ UNCHANGED engine
    BY <1>8 DEF CallTimesOut
  <2>2. call[d] \in Slots /\ vol[call[d]] \in Volumes
    BY <1>0, <1>8 DEF CallTimesOut
  <2>3. /\ hpc' \in [Actors -> Steps] /\ vol' \in [Actors -> Volumes \cup {None}]
        /\ snap' = snap /\ cutOff' \subseteq Volumes
    BY <2>1, <2>2, AbandonTyped
  <2>4. engine' \in [Deployments -> Routines] /\ left' \in [Deployments -> SUBSET Volumes]
    <3>1. /\ engine' = engine \/ engine' = [engine EXCEPT ![d] = "reverting"]
          /\ \/ left' = [left EXCEPT ![d] = Volumes \ left[d]]
             \/ left' = [left EXCEPT ![d] = left[d] \ {vol[call[d]]}]
      BY <2>1
    <3>2. left[d] \ {vol[call[d]]} \subseteq Volumes
      BY DEF TypeOK
    <3>3. engine' \in [Deployments -> Routines]
      BY <3>1, EngineSet DEF TypeOK
    <3>4. left' \in [Deployments -> SUBSET Volumes]
      BY <3>1, <3>2, LeftSet
    <3>5. QED
      BY <3>3, <3>4
  <2>5. dir' \subseteq Volumes /\ disowned' \subseteq Volumes
    BY <2>1, <2>2 DEF EngineRemove, TypeOK
  <2>6. QED
    BY <1>8, <2>3, <2>4, <2>5 DEF CallTimesOut, TypeOK
<1>9. QED
  BY <1>1, <1>2, <1>3, <1>4, <1>5, <1>6, <1>7, <1>8 DEF RoutineStep

\* So does the end of the engine.
LEMMA EngineEndTyped ==
  ASSUME CsiInv, EngineStop \/ EngineRestart
  PROVE  TypeOK'
<1> USE Distinct DEF CsiInv, engineVars, pluginVars, trackerVars, handlerVars, kernelVars
<1>1. CASE EngineStop
  <2>1. registered' \in BOOLEAN
    BY <1>1, Zenon DEF EngineStop
  <2>2. QED
    BY <1>1, <2>1 DEF EngineStop, TypeOK
<1>2. CASE EngineRestart
  <2> DEFINE waited == {call[d] : d \in {e \in Deployments : call[e] # None}}
  <2>1. waited \subseteq Slots /\ \A s \in waited : vol[s] \in Volumes
    BY CallVolume
  <2>2. PICK lost \in SUBSET waited : Abandon(waited, lost)
    BY <1>2 DEF EngineRestart
  <2>3. /\ hpc' \in [Actors -> Steps] /\ vol' \in [Actors -> Volumes \cup {None}]
        /\ snap' = snap /\ cutOff' \subseteq Volumes
    BY <2>1, <2>2, AbandonTyped
  <2>4. registered' \in BOOLEAN /\ recorded' \in BOOLEAN
    <3>1. Serving \in BOOLEAN
      BY DEF Serving
    <3>2. QED
      BY <1>2, <3>1, Zenon DEF EngineRestart
  <2>5. /\ engine' \in [Deployments -> Routines] /\ left' \in [Deployments -> SUBSET Volumes]
        /\ call' \in [Deployments -> Slots \cup {None}]
    BY <1>2 DEF EngineRestart, Routines, Entered
  <2>6. disowned' \subseteq Volumes
    <3>1. Known \subseteq Volumes
      BY DEF Known
    <3>2. disowned' = disowned \cup Known \cup {vol[s] : s \in waited}
      BY <1>2 DEF EngineRestart
    <3>3. QED
      BY <2>1, <3>1, <3>2 DEF TypeOK
  <2>7. UNCHANGED <<pluginVars, trackerVars, file, kernelVars, dropped>>
    BY <1>2 DEF EngineRestart
  <2>8. QED
    BY <2>3, <2>4, <2>5, <2>6, <2>7 DEF TypeOK
<1>3. QED
  BY <1>1, <1>2

\* A save leaves records or garbage in the file.
LEMMA SavedTyped ==
  ASSUME TypeOK, NEW a \in Actors, NEW R \in SUBSET Volumes, NEW f \in Saved(a, R)
  PROVE  f \in (SUBSET Volumes) \cup {None}
  BY DEF TypeOK, Saved

\* The clean-up queue keeps its capacity: what does not fit is dropped.
LEMMA EnqueueTyped ==
  ASSUME TypeOK, NEW v \in Volumes, Enqueue(v)
  PROVE  /\ queue' \in Seq(Volumes) /\ Len(queue') <= QueueCap
         /\ dropped' \subseteq Volumes
<1>1. CASE Len(queue) < QueueCap
  <2>1. Append(queue, v) \in Seq(Volumes) /\ Len(Append(queue, v)) = Len(queue) + 1
    BY DEF TypeOK
  <2>2. queue' = Append(queue, v) /\ dropped' = dropped
    BY <1>1 DEF Enqueue
  <2>3. Len(queue) + 1 <= QueueCap
    BY <1>1, CsiAssumption DEF TypeOK
  <2>4. QED
    BY <2>1, <2>2, <2>3 DEF TypeOK
<1>2. CASE ~(Len(queue) < QueueCap)
  BY <1>2 DEF TypeOK, Enqueue
<1>3. QED
  BY <1>1, <1>2

\* An unmount takes away at most one mount.
LEMMA UnmountTyped ==
  ASSUME TypeOK, NEW v \in Volumes, UnmountOk(v) \/ UnmountErr(v)
  PROVE  depth' \in [Volumes -> Nat] /\ \A w \in Volumes : depth'[w] <= depth[w]
<1>1. CASE UNCHANGED depth
  BY <1>1 DEF TypeOK
<1>2. CASE depth[v] > 0 /\ depth' = [depth EXCEPT ![v] = depth[v] - 1]
  BY <1>2 DEF TypeOK
<1>3. QED
  BY <1>1, <1>2 DEF UnmountOk, UnmountErr

\* The steps of the handlers keep the types.
LEMMA HandlerTyped ==
  ASSUME CsiInv, NEW s \in Slots, HandlerStep(s)
  PROVE  TypeOK'
<1> USE CsiAssumption, Distinct DEF CsiInv, Goto, Done, engineVars, pluginVars,
          trackerVars, handlerVars, kernelVars, Steps, PublishSteps, UnpublishSteps
<1>0. hpc[s] # "idle" /\ vol[s] \in Volumes
  BY BusyVolume DEF HandlerStep, Publish, Probe, Mount, AddMount, RemoveMount, HandlerUnmount,
       HandlerRemove, HandlerDelete, HandlerSave, LateReturn
<1>1. CASE Publish(s)
  <2>1. hpc' \in [Actors -> Steps]
    <3>1. \E step \in Steps : hpc' = [hpc EXCEPT ![s] = step]
      BY <1>1 DEF Publish
    <3>2. QED
      BY <3>1, GotoTyped
  <2>2. dir' \subseteq Volumes
    BY <1>0, <1>1 DEF Publish, TypeOK
  <2>3. QED
    BY <1>1, <2>1, <2>2 DEF Publish, TypeOK
<1>2. CASE Probe(s)
  <2>1. mounts' \subseteq Volumes /\ cutOff' \subseteq Volumes
    BY <1>0, <1>2 DEF Probe, TypeOK
  <2>2. file' \in (SUBSET Volumes) \cup {None}
    BY <1>2, <2>1, SavedTyped DEF Probe, TypeOK
  <2>3. hpc' \in [Actors -> Steps]
    <3>1. \E step \in Steps : hpc' = [hpc EXCEPT ![s] = step]
      BY <1>2 DEF Probe
    <3>2. QED
      BY <3>1, GotoTyped
  <2>4. QED
    BY <1>2, <2>1, <2>2, <2>3 DEF Probe, TypeOK
<1>3. CASE Mount(s)
  <2>1. hpc' \in [Actors -> Steps]
    <3>1. \E step \in Steps : hpc' = [hpc EXCEPT ![s] = step]
      BY <1>3 DEF Mount
    <3>2. QED
      BY <3>1, GotoTyped
  <2>2. depth' \in [Volumes -> Nat]
    BY <1>0, <1>3 DEF Mount, TypeOK
  <2>3. QED
    BY <1>3, <2>1, <2>2 DEF Mount, TypeOK
<1>4. CASE AddMount(s)
  <2>1. mounts' \subseteq Volumes
    BY <1>0, <1>4 DEF AddMount, TypeOK
  <2>2. file' \in (SUBSET Volumes) \cup {None}
    BY <1>4, <2>1, SavedTyped DEF AddMount
  <2>3. QED
    BY <1>4, <2>1, <2>2 DEF AddMount, TypeOK
<1>5. CASE RemoveMount(s)
  <2>1. hpc' \in [Actors -> Steps]
    <3>1. \E step \in Steps : hpc' = [hpc EXCEPT ![s] = step]
      BY <1>5 DEF RemoveMount
    <3>2. QED
      BY <3>1, GotoTyped
  <2>2. QED
    BY <1>5, <2>1 DEF RemoveMount, TypeOK
<1>11. CASE LateReturn(s)
  <2>1. hpc' \in [Actors -> Steps] /\ vol' \in [Actors -> Volumes \cup {None}]
    BY <1>11, DoneTyped DEF LateReturn
  <2>2. QED
    BY <1>11, <2>1 DEF LateReturn, TypeOK
<1>6. CASE HandlerUnmount(s)
  <2>1. queue' \in Seq(Volumes) /\ Len(queue') <= QueueCap /\ dropped' \subseteq Volumes
    BY <1>0, <1>6, EnqueueTyped DEF HandlerUnmount, TypeOK
  <2>2. depth' \in [Volumes -> Nat]
    BY <1>0, <1>6, UnmountTyped DEF HandlerUnmount
  <2>3. hpc' \in [Actors -> Steps]
    <3>1. \E step \in Steps : hpc' = [hpc EXCEPT ![s] = step]
      BY <1>6 DEF HandlerUnmount
    <3>2. QED
      BY <3>1, GotoTyped
  <2>4. QED
    BY <1>6, <2>1, <2>2, <2>3 DEF HandlerUnmount, TypeOK
<1>7. CASE HandlerRemove(s)
  <2>1. queue' \in Seq(Volumes) /\ Len(queue') <= QueueCap /\ dropped' \subseteq Volumes
    BY <1>0, <1>7, EnqueueTyped DEF HandlerRemove, TypeOK
  <2>2. dir' \subseteq Volumes /\ wiped' \subseteq Volumes
    BY <1>0, <1>7 DEF HandlerRemove, RemoveOk, RemoveErr, TypeOK
  <2>3. hpc' \in [Actors -> Steps]
    <3>1. \E step \in Steps : hpc' = [hpc EXCEPT ![s] = step]
      BY <1>7 DEF HandlerRemove
    <3>2. QED
      BY <3>1, GotoTyped
  <2>4. QED
    BY <1>7, <2>1, <2>2, <2>3 DEF HandlerRemove, TypeOK
<1>8. CASE HandlerDelete(s)
  BY <1>8 DEF HandlerDelete, DeleteRecord, TypeOK
<1>9. CASE HandlerSave(s)
  <2>1. file' \in (SUBSET Volumes) \cup {None}
    BY <1>9, SavedTyped DEF HandlerSave, TypeOK
  <2>2. QED
    BY <1>9, <2>1 DEF HandlerSave, TypeOK
<1>10. QED
  BY <1>1, <1>2, <1>3, <1>4, <1>5, <1>6, <1>7, <1>8, <1>9, <1>11 DEF HandlerStep

\* A failed attempt is counted up to the limit, and given up there.
LEMMA AttemptTyped ==
  ASSUME TypeOK, NEW v \in todo, AttemptFailed(v)
  PROVE  /\ retry' \in [Volumes -> (0 .. GiveUp - 1) \cup {None}]
         /\ todo' \subseteq {w \in Volumes : retry'[w] # None}
         /\ dropped' \subseteq Volumes
<1>1. v \in Volumes /\ retry[v] \in 0 .. GiveUp - 1
  BY DEF TypeOK
<1>2. CASE retry[v] + 1 >= GiveUp
  BY <1>1, <1>2 DEF TypeOK, AttemptFailed
<1>3. CASE ~(retry[v] + 1 >= GiveUp)
  <2>1. retry[v] + 1 \in 0 .. GiveUp - 1 /\ retry[v] + 1 # None
    BY <1>1, <1>3, CsiAssumption
  <2>2. retry' = [retry EXCEPT ![v] = retry[v] + 1] /\ todo' = todo \ {v} /\ dropped' = dropped
    BY <1>3 DEF AttemptFailed
  <2>3. QED
    BY <1>1, <2>1, <2>2 DEF TypeOK
<1>4. QED
  BY <1>2, <1>3

\* The steps of the clean-up worker keep the types.
LEMMA WorkerTyped ==
  ASSUME CsiInv, WorkerStep
  PROVE  TypeOK'
<1> USE CsiAssumption, Distinct DEF CsiInv, Goto, Done, engineVars, pluginVars,
          trackerVars, handlerVars, kernelVars, Steps, PublishSteps, UnpublishSteps
<1>1. CASE WorkerReceive
  <2>1. /\ Head(queue) \in Volumes /\ Tail(queue) \in Seq(Volumes)
        /\ Len(Tail(queue)) <= QueueCap
    BY <1>1 DEF WorkerReceive, TypeOK
  <2>2. QED
    BY <1>1, <2>1 DEF WorkerReceive, TypeOK
<1>2. CASE WorkerTick
  BY <1>2 DEF WorkerTick, TypeOK
<1>3. CASE WorkerBackoff
  <2>1. PICK v \in todo : /\ Waiting(v) /\ retry' = [retry EXCEPT ![v] = @ + 1]
                          /\ todo' = todo \ {v}
    BY <1>3 DEF WorkerBackoff
  <2>2. v \in Volumes /\ retry[v] \in 0 .. GiveUp - 1 /\ retry[v] + 1 \in 0 .. GiveUp - 1
    BY <2>1 DEF TypeOK, Waiting
  <2>3. QED
    BY <1>3, <2>1, <2>2 DEF WorkerBackoff, TypeOK
<1>4. CASE WorkerUnmount
  <2>1. PICK v \in todo :
          \/ /\ UnmountOk(v)
             /\ Goto(Worker, "remove") /\ vol' = [vol EXCEPT ![Worker] = v]
             /\ UNCHANGED <<retry, todo, dropped>>
          \/ UnmountErr(v) /\ AttemptFailed(v) /\ UNCHANGED <<hpc, vol>>
    BY <1>4 DEF WorkerUnmount
  <2>2. v \in Volumes
    BY DEF TypeOK
  <2>3. depth' \in [Volumes -> Nat]
    BY <2>1, <2>2, UnmountTyped
  <2>4. /\ retry' \in [Volumes -> (0 .. GiveUp - 1) \cup {None}]
        /\ todo' \subseteq {w \in Volumes : retry'[w] # None}
        /\ dropped' \subseteq Volumes
    BY <2>1, AttemptTyped DEF TypeOK
  <2>5. hpc' \in [Actors -> Steps] /\ vol' \in [Actors -> Volumes \cup {None}]
    <3>1. CASE UNCHANGED <<hpc, vol>>
      BY <3>1 DEF TypeOK
    <3>2. CASE Goto(Worker, "remove") /\ vol' = [vol EXCEPT ![Worker] = v]
      BY <2>2, <3>2 DEF TypeOK
    <3>3. QED
      BY <2>1, <3>1, <3>2
  <2>6. QED
    BY <1>4, <2>3, <2>4, <2>5 DEF WorkerUnmount, TypeOK
<1>5. CASE WorkerRemove
  <2>1. vol[Worker] \in todo /\ vol[Worker] \in Volumes
    BY <1>5 DEF WorkerRemove, ActorsBusy, TypeOK
  <2>2. /\ retry' \in [Volumes -> (0 .. GiveUp - 1) \cup {None}]
        /\ todo' \subseteq {w \in Volumes : retry'[w] # None}
        /\ dropped' \subseteq Volumes
    BY <1>5, <2>1, AttemptTyped DEF WorkerRemove, TypeOK
  <2>3. dir' \subseteq Volumes /\ wiped' \subseteq Volumes
    BY <1>5, <2>1 DEF WorkerRemove, RemoveOk, RemoveErr, TypeOK
  <2>4. hpc' \in [Actors -> Steps] /\ vol' \in [Actors -> Volumes \cup {None}]
    <3>1. CASE Goto(Worker, "delete") /\ UNCHANGED vol
      BY <3>1 DEF TypeOK
    <3>2. CASE Done(Worker)
      BY <3>2 DEF TypeOK
    <3>3. QED
      BY <1>5, <3>1, <3>2 DEF WorkerRemove
  <2>5. QED
    BY <1>5, <2>2, <2>3, <2>4 DEF WorkerRemove, TypeOK
<1>6. CASE WorkerDelete
  BY <1>6 DEF WorkerDelete, DeleteRecord, TypeOK
<1>7. CASE WorkerSave
  <2>1. file' \in (SUBSET Volumes) \cup {None}
    BY <1>7, SavedTyped DEF WorkerSave, TypeOK
  <2>2. QED
    BY <1>7, <2>1 DEF WorkerSave, TypeOK
<1>8. QED
  BY <1>1, <1>2, <1>3, <1>4, <1>5, <1>6, <1>7 DEF WorkerStep

\* The end of the plugin keeps the types.
LEMMA LostTyped ==
  ASSUME CsiInv, Crash \/ Shutdown
  PROVE  TypeOK'
<1> USE CsiAssumption, Distinct DEF CsiInv, engineVars, kernelVars
<1>1. /\ Lost /\ crashes' \in 0 .. MaxCrashes
      /\ file' \in (SUBSET Volumes) \cup {None}
  BY DEF Crash, Shutdown, TypeOK
<1>2. /\ orphans' = {} /\ mounts' = {} /\ queue' = <<>> /\ todo' = {}
      /\ retry' \in [Volumes -> (0 .. GiveUp - 1) \cup {None}]
      /\ snap' \in [Actors -> SUBSET Volumes]
      /\ UNCHANGED <<engineVars, kernelVars, cutOff, dropped>>
  BY <1>1 DEF Lost
<1>3. hpc' \in [Actors -> Steps]
  BY <1>1 DEF Lost, TypeOK, Steps
<1>4. vol' \in [Actors -> Volumes \cup {None}]
  BY <1>1 DEF Lost, TypeOK
<1>5. up' \in BOOLEAN
  BY <1>1, Zenon DEF Lost
<1>6. queue' \in Seq(Volumes) /\ Len(queue') <= QueueCap
  BY <1>2
<1>7. QED
  BY <1>1, <1>2, <1>3, <1>4, <1>5, <1>6 DEF TypeOK

\* So do the steps of its start.
LEMMA MainTyped ==
  ASSUME CsiInv, MainStep
  PROVE  TypeOK'
<1> USE CsiAssumption, Distinct DEF CsiInv, Goto, engineVars, pluginVars, trackerVars,
          handlerVars, kernelVars, Steps, UnpublishSteps
<1>1. CASE Restart
  <2>1. Loaded \subseteq Volumes
    BY DEF Loaded, TypeOK
  <2>2. hpc' \in [Actors -> Steps]
    BY <1>1 DEF Restart, TypeOK
  <2>3. up' \in BOOLEAN
    BY <1>1, Zenon DEF Restart
  <2>4. QED
    BY <1>1, <2>1, <2>2, <2>3 DEF Restart, TypeOK
<1>2. CASE CleanupOrphan
  <2>1. PICK v \in orphans :
          /\ orphans' = orphans \ {v}
          /\ \/ /\ depth' = [depth EXCEPT ![v] = IF v \in dir THEN 0 ELSE depth[v]]
                /\ dir' = dir \ {v}
                /\ mounts' = mounts \ {v}
                /\ UNCHANGED <<queue, dropped, wiped>>
             \/ /\ \/ UNCHANGED <<depth, wiped>>
                   \/ /\ depth[v] > 1
                      /\ depth' = [depth EXCEPT ![v] = depth[v] - 1]
                      /\ wiped' = wiped \cup {v}
                /\ Enqueue(v)
                /\ UNCHANGED <<dir, mounts>>
    BY <1>2 DEF CleanupOrphan
  <2>2. v \in Volumes
    BY DEF TypeOK
  <2>3. queue' \in Seq(Volumes) /\ Len(queue') <= QueueCap /\ dropped' \subseteq Volumes
    BY <2>1, <2>2, EnqueueTyped DEF TypeOK
  <2>4. depth' \in [Volumes -> Nat]
    <3>1. depth[v] \in Nat
      BY <2>2 DEF TypeOK
    <3>2. PICK n \in Nat : depth' = depth \/ depth' = [depth EXCEPT ![v] = n]
      BY <2>1, <3>1
    <3>3. CASE depth' = [depth EXCEPT ![v] = n]
      BY <3>3 DEF TypeOK
    <3>4. QED
      BY <3>2, <3>3 DEF TypeOK
  <2>5. /\ orphans' \subseteq Volumes /\ mounts' \subseteq Volumes /\ dir' \subseteq Volumes
        /\ wiped' \subseteq Volumes
    BY <2>1, <2>2 DEF TypeOK
  <2>6. UNCHANGED <<engineVars, up, crashes, retry, todo, handlerVars, file, cutOff>>
    BY <1>2 DEF CleanupOrphan
  <2>7. QED
    BY <2>3, <2>4, <2>5, <2>6 DEF TypeOK
<1>3. CASE CleanupDone
  BY <1>3 DEF CleanupDone, TypeOK
<1>4. CASE CleanupSave
  <2>1. file' \in (SUBSET Volumes) \cup {None}
    BY <1>4, SavedTyped DEF CleanupSave, TypeOK
  <2>2. QED
    BY <1>4, <2>1 DEF CleanupSave, TypeOK
<1>5. QED
  BY <1>1, <1>2, <1>3, <1>4 DEF MainStep

-----------------------------------------------------------------------------
(* Who is at work, and for whom *)

Waits     == CallsServed /\ PublishAwaited
Structure == ActorsBusy /\ OneEntered /\ Waits /\ StartState

\* A handler that does not return stays with its volume and with what it was asked.
LEMMA HandlerGoes ==
  ASSUME CsiInv, NEW s \in Slots, HandlerStep(s), ~LateReturn(s)
  PROVE  /\ \E step \in PublishSteps \cup UnpublishSteps \cup Answers :
              /\ hpc' = [hpc EXCEPT ![s] = step]
              /\ hpc[s] \in PublishSteps => step \in PublishSteps \cup Answers
              /\ hpc[s] \in UnpublishSteps => step \in UnpublishSteps \cup Answers
         /\ hpc[s] \in PublishSteps \cup UnpublishSteps
         /\ vol' = vol /\ todo' = todo /\ retry' = retry
         /\ UNCHANGED engineVars /\ UNCHANGED pluginVars
         /\ cutOff \subseteq cutOff'
<1> USE DEF Goto, engineVars, pluginVars, trackerVars, handlerVars, kernelVars, PublishSteps,
          UnpublishSteps, Answers
<1>1. CASE Publish(s)
  BY <1>1 DEF Publish
<1>2. CASE Probe(s)
  BY <1>2 DEF Probe
<1>3. CASE Mount(s)
  BY <1>3 DEF Mount
<1>4. CASE AddMount(s)
  BY <1>4 DEF AddMount
<1>5. CASE RemoveMount(s)
  BY <1>5 DEF RemoveMount
<1>6. CASE HandlerUnmount(s)
  BY <1>6 DEF HandlerUnmount
<1>7. CASE HandlerRemove(s)
  BY <1>7 DEF HandlerRemove
<1>8. CASE HandlerDelete(s)
  BY <1>8 DEF HandlerDelete, DeleteRecord
<1>9. CASE HandlerSave(s)
  BY <1>9 DEF HandlerSave
<1>10. QED
  BY <1>1, <1>2, <1>3, <1>4, <1>5, <1>6, <1>7, <1>8, <1>9 DEF HandlerStep

\* The kinds of steps have none in common.
LEMMA StepKinds ==
  /\ PublishSteps \cap UnpublishSteps = {} /\ PublishSteps \cap Answers = {}
  /\ UnpublishSteps \cap Answers = {}
  /\ "idle" \notin PublishSteps \cup UnpublishSteps \cup Answers
  /\ "clean" \notin PublishSteps \cup UnpublishSteps \cup Answers
  BY DEF PublishSteps, UnpublishSteps, Answers

\* The steps of the handlers keep who is at work, and for whom.
LEMMA HandlerStructure ==
  ASSUME CsiInv, NEW s \in Slots, HandlerStep(s)
  PROVE  Structure'
<1> USE Distinct, StepKinds DEF CsiInv
<1>1. CASE LateReturn(s)
  <2>1. /\ hpc' = [hpc EXCEPT ![s] = "idle"] /\ vol' = [vol EXCEPT ![s] = None]
        /\ hpc[s] \in Answers /\ \A d \in Deployments : call[d] # s
        /\ UNCHANGED <<engine, left, call, up, orphans, mounts, queue, retry, todo, cutOff>>
    BY <1>1 DEF LateReturn, Done, Goto, engineVars, pluginVars, trackerVars, Answers
  <2>2. \A a \in Actors \ {s} : hpc'[a] = hpc[a] /\ vol'[a] = vol[a]
    BY <2>1 DEF TypeOK
  <2>3. hpc'[s] = "idle" /\ vol'[s] = None
    BY <2>1 DEF TypeOK
  <2>4. ActorsBusy'
    BY <2>1, <2>2, <2>3 DEF ActorsBusy
  <2>5. CallsServed'
    BY <2>1, <2>2 DEF CallsServed, TypeOK
  <2>6. PublishAwaited'
    BY <2>1, <2>2, <2>3 DEF PublishAwaited
  <2>7. OneEntered'
    BY <2>1 DEF OneEntered
  <2>8. StartState'
    BY <2>1, <2>2, <2>3 DEF StartState, Serving
  <2>9. QED
    BY <2>4, <2>5, <2>6, <2>7, <2>8 DEF Structure, Waits
<1>2. CASE ~LateReturn(s)
  <2>0. PICK step \in PublishSteps \cup UnpublishSteps \cup Answers :
          /\ hpc' = [hpc EXCEPT ![s] = step]
          /\ hpc[s] \in PublishSteps => step \in PublishSteps \cup Answers
          /\ hpc[s] \in UnpublishSteps => step \in UnpublishSteps \cup Answers
    BY <1>2, HandlerGoes
  <2>1. /\ hpc[s] \in PublishSteps \cup UnpublishSteps
        /\ vol' = vol /\ todo' = todo /\ retry' = retry
        /\ UNCHANGED <<engine, left, call, up, orphans>> /\ cutOff \subseteq cutOff'
    BY <1>2, HandlerGoes DEF engineVars, pluginVars
  <2>2. \A a \in Actors \ {s} : hpc'[a] = hpc[a]
    BY <2>0 DEF TypeOK
  <2>3. hpc'[s] = step
    BY <2>0 DEF TypeOK
  <2>4. ActorsBusy'
    BY <2>1, <2>2, <2>3 DEF ActorsBusy
  <2>5. CallsServed'
    BY <2>0, <2>1, <2>2, <2>3 DEF CallsServed, TypeOK
  <2>6. PublishAwaited'
    <3>1. ASSUME NEW t \in Slots, hpc'[t] \in PublishSteps, vol'[t] \notin cutOff'
          PROVE  hpc[t] \in PublishSteps /\ vol[t] \notin cutOff
      BY <2>0, <2>1, <2>2, <2>3, <3>1
    <3>2. QED
      BY <2>1, <3>1 DEF PublishAwaited
  <2>7. OneEntered'
    BY <2>1 DEF OneEntered
  <2>8. StartState'
    <3>1. Serving
      BY <2>1 DEF StartState
    <3>2. Serving' /\ up
      BY <2>1, <2>2, <3>1 DEF Serving
    <3>3. QED
      BY <2>1, <2>2, <3>1, <3>2 DEF StartState, Serving
  <2>9. QED
    BY <2>4, <2>5, <2>6, <2>7, <2>8 DEF Structure, Waits
<1>3. QED
  BY <1>1, <1>2

\* A call begins.
LEMMA SendStructure ==
  ASSUME CsiInv, NEW d \in Deployments, NEW s \in Slots, NEW v \in Volumes, NEW step,
         Send(d, s, v, step), call[d] = None, Serving,
         UNCHANGED <<engine, left, up, orphans, mounts, queue, retry, todo, cutOff>>,
         \/ engine[d] = "mounting" /\ step = "publish"
         \/ engine[d] \in Unmounting /\ step = "unpublish"
  PROVE  Structure'
<1> USE Distinct, StepKinds DEF CsiInv
<1>1. /\ hpc' = [hpc EXCEPT ![s] = step] /\ vol' = [vol EXCEPT ![s] = v]
      /\ call' = [call EXCEPT ![d] = s] /\ hpc[s] = "idle"
      /\ step \in PublishSteps \cup UnpublishSteps
      /\ engine[d] = "mounting" => step \in PublishSteps
      /\ engine[d] \in Unmounting => step \in UnpublishSteps
  BY DEF Send, PublishSteps, UnpublishSteps, Unmounting
<1>2. \A a \in Actors \ {s} : hpc'[a] = hpc[a] /\ vol'[a] = vol[a]
  BY <1>1 DEF TypeOK
<1>3. hpc'[s] = step /\ vol'[s] = v
  BY <1>1 DEF TypeOK
<1>4. /\ \A e \in Deployments \ {d} : call'[e] = call[e]
      /\ call'[d] = s
  BY <1>1 DEF TypeOK
<1>5. \A e \in Deployments : call[e] # s
  BY <1>1, CallVolume
<1>6. ActorsBusy'
  BY <1>1, <1>2, <1>3 DEF ActorsBusy
<1>7. CallsServed'
  BY <1>1, <1>2, <1>3, <1>4, <1>5 DEF CallsServed, TypeOK
<1>8. PublishAwaited'
  <2>1. ASSUME NEW t \in Slots, hpc'[t] \in PublishSteps, vol'[t] \notin cutOff'
        PROVE  \E e \in Deployments : engine'[e] = "mounting" /\ call'[e] = t
    <3>1. CASE t = s
      <4>1. engine[d] = "mounting"
        BY <1>1, <1>3, <2>1, <3>1 DEF Unmounting
      <4>2. QED
        BY <1>4, <3>1, <4>1
    <3>2. CASE t # s
      <4>1. PICK e \in Deployments : engine[e] = "mounting" /\ call[e] = t
        BY <1>2, <2>1, <3>2 DEF PublishAwaited
      <4>2. e # d
        BY <4>1
      <4>3. QED
        BY <1>4, <4>1, <4>2
    <3>3. QED
      BY <3>1, <3>2
  <2>2. QED
    BY <2>1 DEF PublishAwaited
<1>9. OneEntered'
  BY DEF OneEntered
<1>10. StartState'
  <2>1. Serving' /\ up
    BY <1>2 DEF Serving
  <2>2. QED
    BY <1>2, <2>1 DEF StartState, Serving
<1>11. QED
  BY <1>6, <1>7, <1>8, <1>9, <1>10 DEF Structure, Waits

\* A routine takes the answer to its call.
LEMMA DoneStructure ==
  ASSUME CsiInv, NEW d \in Deployments, call[d] # None, hpc[call[d]] \in Answers,
         Done(call[d]), call' = [call EXCEPT ![d] = None],
         \A e \in Deployments \ {d} : engine'[e] = engine[e],
         UNCHANGED <<up, orphans, mounts, queue, retry, todo, cutOff>>
  PROVE  ActorsBusy' /\ Waits' /\ StartState'
<1> USE Distinct, StepKinds DEF CsiInv
<1>0. call[d] \in Slots
  BY CallVolume
<1>1. /\ \A a \in Actors \ {call[d]} : hpc'[a] = hpc[a] /\ vol'[a] = vol[a]
      /\ hpc'[call[d]] = "idle" /\ vol'[call[d]] = None
  BY <1>0 DEF TypeOK, Done, Goto
<1>2. /\ \A e \in Deployments \ {d} : call'[e] = call[e]
      /\ call'[d] = None
  BY DEF TypeOK
<1>3. \A e \in Deployments \ {d} : call[e] # None => call[e] # call[d] /\ call[e] \in Slots
  BY DEF CallsServed, TypeOK
<1>4. ActorsBusy'
  BY <1>0, <1>1 DEF ActorsBusy
<1>5. CallsServed'
  BY <1>1, <1>2, <1>3 DEF CallsServed
<1>6. PublishAwaited'
  <2>1. ASSUME NEW t \in Slots, hpc'[t] \in PublishSteps, vol'[t] \notin cutOff'
        PROVE  \E e \in Deployments : engine'[e] = "mounting" /\ call'[e] = t
    <3>1. t # call[d]
      BY <1>1, <2>1
    <3>2. PICK e \in Deployments : engine[e] = "mounting" /\ call[e] = t
      BY <1>1, <2>1, <3>1 DEF PublishAwaited
    <3>3. QED
      BY <1>2, <3>1, <3>2
  <2>2. QED
    BY <2>1 DEF PublishAwaited
<1>7. StartState'
  BY <1>0, <1>1 DEF StartState, Serving
<1>8. QED
  BY <1>4, <1>5, <1>6, <1>7 DEF Waits

\* A routine goes on, and one at most is entered.
LEMMA EnteredStep ==
  ASSUME CsiInv, NEW d \in Deployments, NEW pc, engine' = [engine EXCEPT ![d] = pc],
         \/ pc \notin Entered \/ engine[d] \in Entered
         \/ \A e \in Deployments : engine[e] \notin Entered,
         pc = "mounting" => left'[d] # {},
         \A e \in Deployments \ {d} : left'[e] = left[e]
  PROVE  OneEntered' /\ \A e \in Deployments \ {d} : engine'[e] = engine[e]
<1>1. engine'[d] = pc /\ \A e \in Deployments \ {d} : engine'[e] = engine[e]
  BY DEF CsiInv, TypeOK
<1>2. ASSUME NEW e \in Deployments, NEW f \in Deployments, engine'[e] \in Entered,
             engine'[f] \in Entered
      PROVE  e = f
  BY <1>1, <1>2 DEF CsiInv, OneEntered
<1>3. ASSUME NEW e \in Deployments, engine'[e] = "mounting"
      PROVE  left'[e] # {}
  BY <1>1, <1>3 DEF CsiInv, OneEntered
<1>4. QED
  BY <1>1, <1>2, <1>3 DEF OneEntered

\* A routine that waits for no call goes on.
LEMMA QuietStructure ==
  ASSUME CsiInv, NEW d \in Deployments, call[d] = None,
         \A e \in Deployments \ {d} : engine'[e] = engine[e],
         UNCHANGED <<call, hpc, vol, up, orphans, mounts, queue, retry, todo, cutOff>>
  PROVE  ActorsBusy' /\ Waits' /\ StartState'
<1> USE DEF CsiInv
<1>1. ActorsBusy' /\ StartState'
  BY DEF ActorsBusy, StartState, Serving
<1>2. CallsServed'
  BY DEF CallsServed
<1>3. PublishAwaited'
  <2>1. ASSUME NEW t \in Slots, NEW e \in Deployments, engine[e] = "mounting", call[e] = t
        PROVE  engine'[e] = "mounting" /\ call'[e] = t
    <3>1. e # d
      BY <2>1, Distinct
    <3>2. QED
      BY <2>1, <3>1
  <2>2. QED
    BY <2>1 DEF PublishAwaited
<1>4. QED
  BY <1>1, <1>2, <1>3 DEF Waits

\* Calls are given up: their handlers are gone, or go on without anyone waiting.
LEMMA AbandonStructure ==
  ASSUME CsiInv, NEW S \in SUBSET Slots, NEW lost \in SUBSET S, Abandon(S, lost),
         UNCHANGED <<up, orphans, mounts, queue, retry, todo>>
  PROVE  /\ ActorsBusy' /\ StartState'
         /\ \A a \in Actors \ lost : hpc'[a] = hpc[a] /\ vol'[a] = vol[a]
         /\ \A s \in lost : hpc'[s] = "idle" /\ hpc[s] \in {"publish", "unpublish"}
         /\ cutOff \subseteq cutOff'
         /\ \A s \in S \ lost : hpc[s] \in PublishSteps => vol[s] \in cutOff'
<1> USE Distinct DEF CsiInv
<1>1. /\ \A a \in Actors \ lost : hpc'[a] = hpc[a] /\ vol'[a] = vol[a]
      /\ \A s \in lost : hpc'[s] = "idle" /\ vol'[s] = None /\ hpc[s] \in {"publish", "unpublish"}
      /\ cutOff \subseteq cutOff'
      /\ \A s \in S \ lost : hpc[s] \in PublishSteps => vol[s] \in cutOff'
  BY DEF Abandon
<1>2. ActorsBusy'
  BY <1>1 DEF ActorsBusy
<1>3. StartState'
  BY <1>1 DEF StartState, Serving
<1>4. QED
  BY <1>1, <1>2, <1>3

\* The steps of a routine keep who is at work, and for whom.
LEMMA EngineStructure ==
  ASSUME CsiInv, NEW d \in Deployments, RoutineStep(d)
  PROVE  Structure'
<1> USE Distinct DEF CsiInv, MountFails, EngineGoto, engineVars, pluginVars, trackerVars,
          handlerVars, kernelVars
<1>0. left \in [Deployments -> SUBSET Volumes] /\ Volumes # {}
  BY CsiAssumption DEF TypeOK
<1>1. CASE Deploy(d)
  <2>1. /\ engine' = [engine EXCEPT ![d] = "mounting"] /\ left' = [left EXCEPT ![d] = Volumes]
        /\ \A e \in Deployments : engine[e] \notin Entered
        /\ UNCHANGED <<call, hpc, vol, up, orphans, mounts, queue, retry, todo, cutOff>>
        /\ engine[d] = "new"
    BY <1>1 DEF Deploy
  <2>2. call[d] = None
    BY <2>1 DEF CallsServed, Unmounting
  <2>3. left'[d] # {} /\ \A e \in Deployments \ {d} : left'[e] = left[e]
    BY <1>0, <2>1
  <2>4. OneEntered' /\ \A e \in Deployments \ {d} : engine'[e] = engine[e]
    BY <2>1, <2>3, EnteredStep
  <2>5. QED
    BY <2>1, <2>2, <2>4, QuietStructure DEF Structure
<1>2. CASE MountNext(d)
  <2>1. CASE registered /\ Serving
    <3>1. /\ UNCHANGED <<engine, left, up, orphans, mounts, queue, retry, todo, cutOff>>
          /\ call[d] = None /\ engine[d] = "mounting"
      BY <1>2, <2>1 DEF MountNext
    <3>2. PICK s \in Slots : Send(d, s, NextOf(left[d]), "publish")
      BY <1>2, <2>1 DEF MountNext
    <3>3. NextOf(left[d]) \in Volumes
      BY <1>2, NextIsLeft DEF MountNext, OneEntered, TypeOK
    <3>4. QED
      BY <2>1, <3>1, <3>2, <3>3, SendStructure
  <2>2. CASE ~(registered /\ Serving)
    <3>1. /\ engine' = [engine EXCEPT ![d] = "reverting"] /\ engine[d] = "mounting"
          /\ left' = [left EXCEPT ![d] = Volumes \ left[d]] /\ call[d] = None
          /\ UNCHANGED <<call, hpc, vol, up, orphans, mounts, queue, retry, todo, cutOff>>
      BY <1>2, <2>2 DEF MountNext
    <3>2. engine[d] \in Entered /\ \A e \in Deployments \ {d} : left'[e] = left[e]
      BY <1>0, <3>1 DEF Entered
    <3>3. OneEntered' /\ \A e \in Deployments \ {d} : engine'[e] = engine[e]
      BY <3>1, <3>2, EnteredStep
    <3>4. QED
      BY <3>1, <3>3, QuietStructure DEF Structure
  <2>3. QED
    BY <2>1, <2>2
<1>3. CASE MountAnswered(d)
  <2>1. /\ call[d] # None /\ hpc[call[d]] \in Answers /\ Done(call[d])
        /\ call' = [call EXCEPT ![d] = None] /\ engine[d] = "mounting"
        /\ UNCHANGED <<up, orphans, mounts, queue, retry, todo, cutOff>>
    BY <1>3 DEF MountAnswered, Answers
  <2>2. PICK pc \in Entered : /\ engine' = [engine EXCEPT ![d] = pc]
                              /\ pc = "mounting" => left'[d] # {}
    BY <1>3 DEF MountAnswered, Entered
  <2>3. engine[d] \in Entered /\ \A e \in Deployments \ {d} : left'[e] = left[e]
    BY <1>0, <1>3 DEF MountAnswered, Entered
  <2>4. OneEntered' /\ \A e \in Deployments \ {d} : engine'[e] = engine[e]
    BY <2>2, <2>3, EnteredStep
  <2>5. QED
    BY <2>1, <2>4, DoneStructure DEF Structure
<1>4. CASE EndMounted(d) \/ ContainerExits(d) \/ Unmounted(d)
  <2>1. PICK pc \in {"done", "exited"} : engine' = [engine EXCEPT ![d] = pc]
    BY <1>4 DEF EndMounted, ContainerExits, Unmounted
  <2>2. /\ UNCHANGED <<left, call, hpc, vol, up, orphans, mounts, queue, retry, todo, cutOff>>
        /\ engine[d] = "running" \/ call[d] = None
    BY <1>4 DEF EndMounted, ContainerExits, Unmounted
  <2>3. call[d] = None
    BY <2>2 DEF CallsServed, Unmounting
  <2>4. OneEntered' /\ \A e \in Deployments \ {d} : engine'[e] = engine[e]
    BY <2>1, <2>2, EnteredStep DEF Entered
  <2>5. QED
    BY <2>2, <2>3, <2>4, QuietStructure DEF Structure
<1>5. CASE TakeVolumes(d)
  <2>1. PICK pc \in {"unmounting", "done"} : engine' = [engine EXCEPT ![d] = pc]
    BY <1>5 DEF TakeVolumes
  <2>2. /\ UNCHANGED <<call, hpc, vol, up, orphans, mounts, queue, retry, todo, cutOff>>
        /\ engine[d] = "exited" /\ \A e \in Deployments \ {d} : left'[e] = left[e]
    BY <1>0, <1>5 DEF TakeVolumes
  <2>3. call[d] = None
    BY <2>2 DEF CallsServed, Unmounting
  <2>4. OneEntered' /\ \A e \in Deployments \ {d} : engine'[e] = engine[e]
    BY <2>1, <2>2, EnteredStep DEF Entered
  <2>5. QED
    BY <2>2, <2>3, <2>4, QuietStructure DEF Structure
<1>6. CASE UnmountNext(d)
  <2>0. engine' = engine /\ engine[d] \in Unmounting /\ call[d] = None
    BY <1>6 DEF UnmountNext, Unmounting
  <2>1. CASE registered /\ Serving
    <3>1. UNCHANGED <<engine, left, up, orphans, mounts, queue, retry, todo, cutOff>>
      BY <1>6, <2>1 DEF UnmountNext
    <3>2. PICK s \in Slots : Send(d, s, NextOf(left[d]), "unpublish")
      BY <1>6, <2>1 DEF UnmountNext
    <3>3. NextOf(left[d]) \in Volumes
      BY <1>6, NextIsLeft DEF UnmountNext, TypeOK
    <3>4. QED
      BY <2>0, <2>1, <3>1, <3>2, <3>3, SendStructure
  <2>2. CASE ~(registered /\ Serving)
    <3>1. UNCHANGED <<call, hpc, vol, up, orphans, mounts, queue, retry, todo, cutOff>>
      BY <1>6, <2>2 DEF UnmountNext
    <3>2. \A e \in Deployments \ {d} : left'[e] = left[e]
      BY <1>0, <1>6 DEF UnmountNext
    <3>3. OneEntered'
      BY <2>0, <3>2 DEF OneEntered, Unmounting
    <3>4. QED
      BY <2>0, <3>1, <3>3, QuietStructure DEF Structure
  <2>3. QED
    BY <2>1, <2>2
<1>7. CASE UnmountAnswered(d)
  <2>1. /\ call[d] # None /\ hpc[call[d]] \in Answers /\ Done(call[d])
        /\ call' = [call EXCEPT ![d] = None] /\ engine' = engine /\ engine[d] \in Unmounting
        /\ UNCHANGED <<up, orphans, mounts, queue, retry, todo, cutOff>>
    BY <1>7 DEF UnmountAnswered, Answers, Unmounting
  <2>2. \A e \in Deployments \ {d} : left'[e] = left[e]
    BY <1>0, <1>7 DEF UnmountAnswered
  <2>3. OneEntered'
    BY <2>1, <2>2 DEF OneEntered, Unmounting
  <2>4. QED
    BY <2>1, <2>3, DoneStructure DEF Structure
<1>8. CASE CallTimesOut(d)
  <2>1. PICK lost \in SUBSET {call[d]} :
          /\ Abandon({call[d]}, lost)
          /\ IF engine[d] = "mounting"
             THEN MountFails(d) /\ UNCHANGED <<dir, disowned>>
             ELSE /\ left' = [left EXCEPT ![d] = @ \ {vol[call[d]]}]
                  /\ EngineRemove(vol[call[d]])
                  /\ disowned' = disowned \cup {vol[s] : s \in lost}
                  /\ UNCHANGED engine
    BY <1>8 DEF CallTimesOut
  <2>2. /\ call[d] # None /\ call' = [call EXCEPT ![d] = None]
        /\ UNCHANGED <<up, orphans, mounts, queue, retry, todo>>
    BY <1>8 DEF CallTimesOut
  <2>3. call[d] \in Slots
    BY <2>2, CallVolume
  <2>4. /\ ActorsBusy' /\ StartState'
        /\ \A a \in Actors \ lost : hpc'[a] = hpc[a] /\ vol'[a] = vol[a]
        /\ \A s \in lost : hpc'[s] = "idle"
        /\ cutOff \subseteq cutOff'
        /\ call[d] \notin lost /\ hpc[call[d]] \in PublishSteps => vol[call[d]] \in cutOff'
    <3>1. PICK S \in SUBSET Slots : S = {call[d]}
      BY <2>3
    <3>2. lost \in SUBSET S /\ Abandon(S, lost) /\ call[d] \in S
      BY <2>1, <3>1
    <3>3. /\ ActorsBusy' /\ StartState'
          /\ \A a \in Actors \ lost : hpc'[a] = hpc[a] /\ vol'[a] = vol[a]
          /\ \A s \in lost : hpc'[s] = "idle" /\ hpc[s] \in {"publish", "unpublish"}
          /\ cutOff \subseteq cutOff'
          /\ \A s \in S \ lost : hpc[s] \in PublishSteps => vol[s] \in cutOff'
      BY <2>2, <3>2, AbandonStructure
    <3>4. QED
      BY <3>2, <3>3
  <2>5. \A e \in Deployments \ {d} : left'[e] = left[e]
    BY <1>0, <2>1
  <2>6. OneEntered' /\ \A e \in Deployments \ {d} : engine'[e] = engine[e]
    <3>1. CASE engine[d] = "mounting"
      <4>1. engine' = [engine EXCEPT ![d] = "reverting"] /\ engine[d] \in Entered
        BY <2>1, <3>1 DEF Entered
      <4>2. QED
        BY <2>5, <4>1, EnteredStep
    <3>2. CASE engine[d] # "mounting"
      BY <2>1, <2>5, <3>2 DEF OneEntered
    <3>3. QED
      BY <3>1, <3>2
  <2>7. call'[d] = None /\ \A e \in Deployments \ {d} : call'[e] = call[e]
    BY <2>2 DEF TypeOK
  <2>8. \A e \in Deployments \ {d} : call[e] # None => call[e] # call[d] /\ call[e] \in Slots
    BY DEF CallsServed, TypeOK
  <2>9. CallsServed'
    BY <2>1, <2>4, <2>6, <2>7, <2>8 DEF CallsServed
  <2>10. PublishAwaited'
    <3>1. ASSUME NEW t \in Slots, hpc'[t] \in PublishSteps, vol'[t] \notin cutOff'
          PROVE  \E e \in Deployments : engine'[e] = "mounting" /\ call'[e] = t
      <4>1. t \notin lost
        BY <2>4, <3>1, StepKinds
      <4>2. hpc[t] \in PublishSteps /\ vol[t] \notin cutOff' /\ vol[t] \notin cutOff
        BY <2>4, <3>1, <4>1
      <4>3. PICK e \in Deployments : engine[e] = "mounting" /\ call[e] = t
        BY <4>2 DEF PublishAwaited
      <4>4. e # d
        BY <2>4, <4>1, <4>2, <4>3
      <4>5. QED
        BY <2>6, <2>7, <4>3, <4>4
    <3>2. QED
      BY <3>1 DEF PublishAwaited
  <2>11. QED
    BY <2>4, <2>6, <2>9, <2>10 DEF Structure, Waits
<1>9. QED
  BY <1>1, <1>2, <1>3, <1>4, <1>5, <1>6, <1>7, <1>8 DEF RoutineStep

\* So does the end of the engine.
LEMMA EngineEndStructure ==
  ASSUME CsiInv, EngineStop \/ EngineRestart
  PROVE  Structure'
<1> USE Distinct DEF CsiInv, engineVars, pluginVars, trackerVars, handlerVars
<1>1. CASE EngineStop
  BY <1>1 DEF EngineStop, Structure, Waits, ActorsBusy, OneEntered, CallsServed, PublishAwaited,
       StartState, Serving
<1>2. CASE EngineRestart
  <2> DEFINE waited == {call[d] : d \in {e \in Deployments : call[e] # None}}
  <2>1. waited \subseteq Slots
    BY DEF TypeOK
  <2>2. PICK lost \in SUBSET waited : Abandon(waited, lost)
    BY <1>2 DEF EngineRestart
  <2>3. /\ engine' = [d \in Deployments |-> IF engine[d] = "new" THEN "new" ELSE "done"]
        /\ call' = [d \in Deployments |-> None]
        /\ UNCHANGED <<up, orphans, mounts, queue, retry, todo>>
    BY <1>2 DEF EngineRestart
  <2>4. /\ ActorsBusy' /\ StartState'
        /\ \A a \in Actors \ lost : hpc'[a] = hpc[a] /\ vol'[a] = vol[a]
        /\ \A s \in lost : hpc'[s] = "idle"
        /\ cutOff \subseteq cutOff'
        /\ \A s \in waited \ lost : hpc[s] \in PublishSteps => vol[s] \in cutOff'
    BY <2>1, <2>2, <2>3, AbandonStructure
  <2>5. OneEntered'
    BY <2>3 DEF OneEntered, Entered
  <2>6. CallsServed'
    BY <2>3 DEF CallsServed
  <2>7. PublishAwaited'
    <3>1. ASSUME NEW t \in Slots, hpc'[t] \in PublishSteps, vol'[t] \notin cutOff'
          PROVE  FALSE
      <4>1. t \notin lost
        BY <2>4, <3>1, StepKinds
      <4>2. hpc[t] \in PublishSteps /\ vol[t] \notin cutOff' /\ vol[t] \notin cutOff
        BY <2>4, <3>1, <4>1
      <4>3. t \in waited
        BY <4>2 DEF PublishAwaited
      <4>4. QED
        BY <2>4, <4>1, <4>2, <4>3
    <3>2. QED
      BY <3>1 DEF PublishAwaited
  <2>8. QED
    BY <2>4, <2>5, <2>6, <2>7 DEF Structure, Waits
<1>3. QED
  BY <1>1, <1>2

\* What a step of the worker touches of the state the others see.
LEMMA WorkerLocal ==
  ASSUME CsiInv, WorkerStep
  PROVE  /\ \A a \in Actors \ {Worker} : hpc'[a] = hpc[a] /\ vol'[a] = vol[a]
         /\ UNCHANGED engineVars /\ UNCHANGED pluginVars /\ up /\ cutOff' = cutOff
<1> USE Distinct DEF CsiInv, Goto, Done, engineVars, pluginVars, trackerVars, handlerVars
<1>1. CASE WorkerReceive
  BY <1>1 DEF WorkerReceive, WorkerIdle
<1>2. CASE WorkerTick
  BY <1>2 DEF WorkerTick, WorkerIdle
<1>3. CASE WorkerBackoff
  BY <1>3 DEF WorkerBackoff, WorkerIdle
<1>4. CASE WorkerUnmount
  BY <1>4 DEF WorkerUnmount, WorkerIdle, TypeOK
<1>5. CASE WorkerRemove
  BY <1>5 DEF WorkerRemove, StartState, TypeOK
<1>6. CASE WorkerDelete
  BY <1>6 DEF WorkerDelete, DeleteRecord, StartState, TypeOK
<1>7. CASE WorkerSave
  BY <1>7 DEF WorkerSave, StartState, TypeOK
<1>8. QED
  BY <1>1, <1>2, <1>3, <1>4, <1>5, <1>6, <1>7 DEF WorkerStep

\* The steps of the worker keep who is at work, and for whom.
LEMMA WorkerStructure ==
  ASSUME CsiInv, WorkerStep
  PROVE  Structure'
<1> USE Distinct DEF CsiInv, Goto, Done, trackerVars, handlerVars
<1>0. /\ \A a \in Actors \ {Worker} : hpc'[a] = hpc[a] /\ vol'[a] = vol[a]
      /\ UNCHANGED <<engine, left, call, orphans>> /\ up /\ up' /\ cutOff' = cutOff
  BY WorkerLocal DEF engineVars, pluginVars
<1>1. CallsServed' /\ PublishAwaited'
  <2>1. \A s \in Slots : hpc'[s] = hpc[s] /\ vol'[s] = vol[s]
    BY <1>0
  <2>2. \A d \in Deployments : call[d] # None => call[d] \in Slots
    BY DEF TypeOK
  <2>3. CallsServed'
    BY <1>0, <2>1, <2>2 DEF CallsServed
  <2>4. PublishAwaited'
    BY <1>0, <2>1 DEF PublishAwaited
  <2>5. QED
    BY <2>3, <2>4
<1>2. OneEntered' /\ StartState'
  BY <1>0 DEF OneEntered, StartState, Serving
<1>4. /\ hpc'[Worker] = "idle" <=> vol'[Worker] = None
      /\ hpc'[Worker] \in {"idle", "remove", "delete", "write"}
      /\ hpc'[Worker] = "remove" => vol'[Worker] \in todo'
  <2>1. CASE WorkerReceive
    BY <2>1 DEF WorkerReceive, WorkerIdle, ActorsBusy
  <2>2. CASE WorkerTick
    BY <2>2 DEF WorkerTick, WorkerIdle, ActorsBusy
  <2>3. CASE WorkerBackoff
    BY <2>3 DEF WorkerBackoff, WorkerIdle, ActorsBusy
  <2>4. CASE WorkerUnmount
    BY <2>4 DEF WorkerUnmount, WorkerIdle, ActorsBusy, TypeOK
  <2>5. CASE WorkerRemove
    BY <2>5 DEF WorkerRemove, ActorsBusy, TypeOK
  <2>6. CASE WorkerDelete
    BY <2>6 DEF WorkerDelete, DeleteRecord, ActorsBusy, TypeOK
  <2>7. CASE WorkerSave
    BY <2>7 DEF WorkerSave, ActorsBusy, TypeOK
  <2>8. QED
    BY <2>1, <2>2, <2>3, <2>4, <2>5, <2>6, <2>7 DEF WorkerStep
<1>5. ActorsBusy'
  BY <1>0, <1>4 DEF ActorsBusy
<1>6. QED
  BY <1>1, <1>2, <1>5 DEF Structure, Waits

\* The end of the plugin keeps who is at work, and for whom.
LEMMA LostStructure ==
  ASSUME CsiInv, Crash \/ Shutdown
  PROVE  Structure'
<1> USE Distinct DEF CsiInv, engineVars
<1> DEFINE waited == {call[d] : d \in Deployments}
<1>1. Lost
  BY DEF Crash, Shutdown
<1>2. /\ \A a \in Actors : /\ hpc'[a] = IF a \notin waited THEN "idle"
                                       ELSE IF hpc[a] = "ok" THEN "ok" ELSE "error"
                           /\ vol'[a] = IF a \in waited THEN vol[a] ELSE None
      /\ UNCHANGED <<engine, left, call, cutOff>> /\ up' = FALSE /\ orphans' = {}
      /\ mounts' = {} /\ queue' = <<>> /\ todo' = {} /\ retry' = [v \in Volumes |-> None]
  BY <1>1 DEF Lost
<1>3. /\ Worker \notin waited /\ Main \notin waited
      /\ \A s \in Slots : s \in waited => hpc[s] # "idle"
  BY CallVolume, StepKinds DEF TypeOK
<1>4. ActorsBusy'
  BY <1>2, <1>3 DEF ActorsBusy
<1>5. CallsServed'
  <2>1. \A d \in Deployments : call[d] # None => call[d] \in Actors /\ hpc'[call[d]] \in Answers
    BY <1>2, CallVolume DEF Answers
  <2>2. QED
    BY <1>2, <2>1 DEF CallsServed
<1>6. \A s \in Slots : hpc'[s] \in {"idle"} \cup Answers
  BY <1>2 DEF Answers
<1>7. PublishAwaited'
  BY <1>6, StepKinds DEF PublishAwaited
<1>8. OneEntered'
  BY <1>2 DEF OneEntered
<1>9. StartState'
  BY <1>2, <1>3, <1>6 DEF StartState, Serving
<1>10. QED
  BY <1>4, <1>5, <1>7, <1>8, <1>9 DEF Structure, Waits

\* Nobody but main moves when the plugin starts.
LEMMA MainLocal ==
  ASSUME CsiInv, MainStep
  PROVE  /\ \A a \in Actors \ {Main} : hpc'[a] = hpc[a]
         /\ UNCHANGED engineVars /\ vol' = vol /\ cutOff' = cutOff
         /\ todo' = todo /\ retry' = retry /\ ~Serving
         /\ up => hpc[Main] # "idle" /\ up' = up
<1> USE Distinct DEF CsiInv, Goto, engineVars, pluginVars, trackerVars, handlerVars
<1>1. CASE Restart
  <2>1. ~up /\ ~Serving
    BY <1>1 DEF Restart, Serving
  <2>2. \E step : hpc' = [hpc EXCEPT ![Main] = step]
    BY <1>1 DEF Restart
  <2>3. \A a \in Actors \ {Main} : hpc'[a] = hpc[a]
    BY <2>2 DEF TypeOK
  <2>4. QED
    BY <1>1, <2>1, <2>3 DEF Restart
<1>2. CASE CleanupOrphan
  BY <1>2 DEF CleanupOrphan, Serving, StartState
<1>3. CASE CleanupDone
  BY <1>3 DEF CleanupDone, Serving, TypeOK
<1>4. CASE CleanupSave
  BY <1>4 DEF CleanupSave, Serving, TypeOK
<1>5. QED
  BY <1>1, <1>2, <1>3, <1>4 DEF MainStep

\* The start of the plugin keeps who is at work, and for whom.
LEMMA MainStructure ==
  ASSUME CsiInv, MainStep
  PROVE  Structure'
<1> USE Distinct DEF CsiInv, Goto, engineVars, pluginVars, trackerVars, handlerVars
<1>0. /\ \A a \in Actors \ {Main} : hpc'[a] = hpc[a]
      /\ UNCHANGED <<engine, left, call>> /\ vol' = vol /\ cutOff' = cutOff
      /\ todo' = todo /\ retry' = retry /\ ~Serving
      /\ up => hpc[Main] # "idle" /\ up' = up
  BY MainLocal
<1>1. CallsServed' /\ PublishAwaited' /\ OneEntered'
  <2>1. \A s \in Slots : hpc'[s] = hpc[s]
    BY <1>0
  <2>2. \A d \in Deployments : call[d] # None => call[d] \in Slots
    BY DEF TypeOK
  <2>3. CallsServed'
    BY <1>0, <2>1, <2>2 DEF CallsServed
  <2>4. PublishAwaited' /\ OneEntered'
    BY <1>0, <2>1 DEF PublishAwaited, OneEntered
  <2>5. QED
    BY <2>3, <2>4
<1>2. /\ hpc'[Main] \in {"idle", "clean", "write"} /\ up'
      /\ orphans' # {} => hpc'[Main] = "clean"
  <2>1. CASE Restart
    BY <2>1 DEF Restart, TypeOK
  <2>2. CASE CleanupOrphan
    BY <2>2 DEF CleanupOrphan, StartState
  <2>3. CASE CleanupDone
    BY <2>3 DEF CleanupDone, StartState, TypeOK
  <2>4. CASE CleanupSave
    BY <2>4 DEF CleanupSave, StartState, TypeOK
  <2>5. QED
    BY <2>1, <2>2, <2>3, <2>4 DEF MainStep
<1>3. ActorsBusy'
  BY <1>0, <1>2 DEF ActorsBusy
<1>4. StartState'
  BY <1>0, <1>2 DEF StartState
<1>5. QED
  BY <1>1, <1>3, <1>4 DEF Structure, Waits


\* What a step of a routine touches of the state the others see: at most its own
\* handler, or an idle one that is to serve it.
LEMMA RoutineLocal ==
  ASSUME CsiInv, NEW d \in Deployments, RoutineStep(d)
  PROVE  /\ UNCHANGED <<mounts, queue, retry, todo, dropped, up, orphans, depth>>
         /\ cutOff \subseteq cutOff'
         /\ \A e \in Deployments \ {d} :
              engine'[e] = engine[e] /\ left'[e] = left[e] /\ call'[e] = call[e]
         /\ \A a \in Actors :
              \/ hpc'[a] = hpc[a] /\ vol'[a] = vol[a]
              \/ a \in Slots /\ hpc[a] = "idle" /\ hpc'[a] \in {"publish", "unpublish"}
              \/ a \in Slots /\ a = call[d] /\ hpc'[a] = "idle"
<1> USE Distinct DEF CsiInv, MountFails, EngineGoto, engineVars, pluginVars, trackerVars,
          handlerVars, kernelVars
<1>0. /\ engine \in [Deployments -> Routines] /\ left \in [Deployments -> SUBSET Volumes]
      /\ call \in [Deployments -> Slots \cup {None}]
      /\ hpc \in [Actors -> Steps] /\ vol \in [Actors -> Volumes \cup {None}]
  BY DEF TypeOK
<1>1. CASE Deploy(d)
  BY <1>0, <1>1 DEF Deploy
<1>2. CASE MountNext(d)
  <2>1. /\ UNCHANGED <<mounts, queue, retry, todo, dropped, up, orphans, depth, cutOff>>
        /\ engine' = engine \/ engine' = [engine EXCEPT ![d] = "reverting"]
        /\ left' = left \/ left' = [left EXCEPT ![d] = Volumes \ left[d]]
        /\ \/ UNCHANGED <<call, hpc, vol>>
           \/ \E s \in Slots : Send(d, s, NextOf(left[d]), "publish")
    BY <1>2 DEF MountNext
  <2>2. CASE UNCHANGED <<call, hpc, vol>>
    BY <1>0, <2>1, <2>2
  <2>3. ASSUME NEW s \in Slots, Send(d, s, NextOf(left[d]), "publish")
        PROVE  /\ \A e \in Deployments \ {d} : call'[e] = call[e]
               /\ \A a \in Actors : \/ hpc'[a] = hpc[a] /\ vol'[a] = vol[a]
                                    \/ a \in Slots /\ hpc[a] = "idle" /\ hpc'[a] = "publish"
    BY <1>0, <2>3 DEF Send
  <2>4. QED
    BY <1>0, <2>1, <2>2, <2>3
<1>3. CASE MountAnswered(d)
  <2>1. /\ UNCHANGED <<mounts, queue, retry, todo, dropped, up, orphans, depth, cutOff>>
        /\ \E pc : engine' = [engine EXCEPT ![d] = pc]
        /\ \E S : left' = [left EXCEPT ![d] = S]
        /\ call' = [call EXCEPT ![d] = None] /\ Done(call[d]) /\ call[d] # None
    BY <1>3 DEF MountAnswered
  <2>2. \A a \in Actors : \/ hpc'[a] = hpc[a] /\ vol'[a] = vol[a]
                          \/ a \in Slots /\ a = call[d] /\ hpc'[a] = "idle"
    BY <1>0, <2>1 DEF Done, Goto
  <2>3. QED
    BY <1>0, <2>1, <2>2
<1>4. CASE EndMounted(d) \/ ContainerExits(d) \/ Unmounted(d)
  BY <1>0, <1>4 DEF EndMounted, ContainerExits, Unmounted
<1>5. CASE TakeVolumes(d)
  BY <1>0, <1>5 DEF TakeVolumes
<1>6. CASE UnmountNext(d)
  <2>1. /\ UNCHANGED <<mounts, queue, retry, todo, dropped, up, orphans, depth, cutOff, engine>>
        /\ left' = left \/ \E S : left' = [left EXCEPT ![d] = S]
        /\ \/ UNCHANGED <<call, hpc, vol>>
           \/ \E s \in Slots : Send(d, s, NextOf(left[d]), "unpublish")
    BY <1>6 DEF UnmountNext
  <2>2. CASE UNCHANGED <<call, hpc, vol>>
    BY <1>0, <2>1, <2>2
  <2>3. ASSUME NEW s \in Slots, Send(d, s, NextOf(left[d]), "unpublish")
        PROVE  /\ \A e \in Deployments \ {d} : call'[e] = call[e]
               /\ \A a \in Actors : \/ hpc'[a] = hpc[a] /\ vol'[a] = vol[a]
                                    \/ a \in Slots /\ hpc[a] = "idle" /\ hpc'[a] = "unpublish"
    BY <1>0, <2>3 DEF Send
  <2>4. QED
    BY <1>0, <2>1, <2>2, <2>3
<1>7. CASE UnmountAnswered(d)
  <2>1. /\ UNCHANGED <<mounts, queue, retry, todo, dropped, up, orphans, depth, cutOff, engine>>
        /\ \E S : left' = [left EXCEPT ![d] = S]
        /\ call' = [call EXCEPT ![d] = None] /\ Done(call[d]) /\ call[d] # None
    BY <1>7 DEF UnmountAnswered
  <2>2. \A a \in Actors : \/ hpc'[a] = hpc[a] /\ vol'[a] = vol[a]
                          \/ a \in Slots /\ a = call[d] /\ hpc'[a] = "idle"
    BY <1>0, <2>1 DEF Done, Goto
  <2>3. QED
    BY <1>0, <2>1, <2>2
<1>8. CASE CallTimesOut(d)
  <2>1. /\ UNCHANGED <<mounts, queue, retry, todo, dropped, up, orphans, depth>>
        /\ call[d] # None /\ call' = [call EXCEPT ![d] = None]
        /\ engine' = engine \/ engine' = [engine EXCEPT ![d] = "reverting"]
        /\ \E S : left' = [left EXCEPT ![d] = S]
    BY <1>8 DEF CallTimesOut
  <2>2. PICK lost \in SUBSET {call[d]} : Abandon({call[d]}, lost)
    BY <1>8 DEF CallTimesOut
  <2>3. /\ cutOff \subseteq cutOff'
        /\ \A a \in Actors : \/ hpc'[a] = hpc[a] /\ vol'[a] = vol[a]
                             \/ a \in lost /\ hpc'[a] = "idle"
    BY <2>2 DEF Abandon
  <2>4. \A a \in lost : a \in Slots /\ a = call[d]
    BY <1>0, <2>1
  <2>5. QED
    BY <1>0, <2>1, <2>3, <2>4
<1>9. QED
  BY <1>1, <1>2, <1>3, <1>4, <1>5, <1>6, <1>7, <1>8 DEF RoutineStep

\* What the end of the engine touches: handlers whose request had not arrived.
LEMMA EngineEndLocal ==
  ASSUME CsiInv, EngineStop \/ EngineRestart
  PROVE  /\ UNCHANGED <<mounts, queue, retry, todo, dropped, up, orphans, depth>>
         /\ cutOff \subseteq cutOff'
         /\ \A a \in Actors : \/ hpc'[a] = hpc[a] /\ vol'[a] = vol[a]
                              \/ a \in Slots /\ hpc'[a] = "idle"
<1> USE Distinct DEF CsiInv, engineVars, pluginVars, trackerVars, handlerVars, kernelVars
<1>1. CASE EngineStop
  BY <1>1 DEF EngineStop
<1>2. CASE EngineRestart
  <2> DEFINE waited == {call[d] : d \in {e \in Deployments : call[e] # None}}
  <2>1. waited \subseteq Slots
    BY DEF TypeOK
  <2>2. PICK lost \in SUBSET waited : Abandon(waited, lost)
    BY <1>2 DEF EngineRestart
  <2>3. UNCHANGED <<mounts, queue, retry, todo, dropped, up, orphans, depth>>
    BY <1>2 DEF EngineRestart
  <2>4. /\ cutOff \subseteq cutOff'
        /\ \A a \in Actors : \/ hpc'[a] = hpc[a] /\ vol'[a] = vol[a]
                             \/ a \in lost /\ hpc'[a] = "idle"
    BY <2>2 DEF Abandon
  <2>5. QED
    BY <2>1, <2>3, <2>4
<1>3. QED
  BY <1>1, <1>2

-----------------------------------------------------------------------------
(* One mount on a target *)

\* A step that mounts nothing and lets no handler begin to keeps both facts.
LEMMA DepthFalls ==
  ASSUME CsiInv, TypeOK', cutOff \subseteq cutOff',
         \A v \in Volumes : depth'[v] <= depth[v],
         \A s \in Slots : hpc'[s] = "mount" => hpc[s] = "mount" /\ vol'[s] = vol[s]
  PROVE  ProbeTrue' /\ OneMountPerTarget'
<1>1. OneMountPerTarget'
  BY DEF CsiInv, OneMountPerTarget, TypeOK
<1>2. ASSUME NEW s \in Slots, hpc'[s] = "mount", vol'[s] \notin cutOff'
      PROVE  depth'[vol'[s]] = 0
  <2>1. hpc[s] = "mount" /\ vol'[s] = vol[s] /\ depth[vol[s]] = 0
    BY <1>2 DEF CsiInv, ProbeTrue
  <2>2. vol[s] \in Volumes
    BY <2>1, BusyVolume, Distinct DEF CsiInv
  <2>3. QED
    BY <2>1, <2>2 DEF TypeOK
<1>3. QED
  BY <1>1, <1>2 DEF ProbeTrue

\* Two handlers that publish a volume none of whose publishes was cut off are one.
LEMMA OneHandler ==
  ASSUME CsiInv, NEW s \in Slots, NEW t \in Slots, hpc[s] \in PublishSteps,
         hpc[t] \in PublishSteps, vol[s] = vol[t], vol[s] \notin cutOff
  PROVE  s = t
<1>1. PICK d \in Deployments : engine[d] = "mounting" /\ call[d] = s
  BY DEF CsiInv, PublishAwaited
<1>2. PICK e \in Deployments : engine[e] = "mounting" /\ call[e] = t
  BY DEF CsiInv, PublishAwaited
<1>3. d = e
  BY <1>1, <1>2 DEF CsiInv, OneEntered, Entered
<1>4. QED
  BY <1>1, <1>2, <1>3

\* The steps of a handler keep one mount on a target.
LEMMA HandlerDepth ==
  ASSUME CsiInv, TypeOK', NEW s \in Slots, HandlerStep(s)
  PROVE  ProbeTrue' /\ OneMountPerTarget'
<1> USE Distinct DEF CsiInv, Goto, Done, engineVars, pluginVars, trackerVars, handlerVars,
          kernelVars
<1>0. hpc[s] # "idle" /\ vol[s] \in Volumes
  BY BusyVolume DEF HandlerStep, Publish, Probe, Mount, AddMount, RemoveMount, HandlerUnmount,
       HandlerRemove, HandlerDelete, HandlerSave, LateReturn
<1>1. CASE Probe(s)
  <2>1. /\ depth' = depth /\ vol' = vol /\ cutOff \subseteq cutOff'
        /\ hpc'[s] = "mount" => depth[vol[s]] = 0 \/ vol[s] \in cutOff'
        /\ \A t \in Slots \ {s} : hpc'[t] = hpc[t]
    BY <1>0, <1>1 DEF Probe, IsMountPoint, TypeOK
  <2>2. ProbeTrue'
    BY <2>1 DEF ProbeTrue
  <2>3. OneMountPerTarget'
    BY <2>1 DEF OneMountPerTarget
  <2>4. QED
    BY <2>2, <2>3
<1>2. CASE Mount(s)
  <2>1. CASE depth' = depth
    <3>1. /\ \A v \in Volumes : depth'[v] <= depth[v]
          /\ \A t \in Slots : hpc'[t] = "mount" => hpc[t] = "mount" /\ vol'[t] = vol[t]
          /\ cutOff \subseteq cutOff'
      BY <1>2, <2>1 DEF Mount, TypeOK
    <3>2. QED
      BY <3>1, DepthFalls
  <2>2. CASE depth' # depth
    <3>1. /\ depth' = [depth EXCEPT ![vol[s]] = @ + 1] /\ hpc' = [hpc EXCEPT ![s] = "add"]
          /\ vol' = vol /\ cutOff' = cutOff /\ hpc[s] = "mount"
      BY <1>2, <2>2 DEF Mount
    <3>2. vol[s] \notin cutOff => depth[vol[s]] = 0
      BY <3>1 DEF ProbeTrue
    <3>3. OneMountPerTarget'
      BY <1>0, <3>1, <3>2 DEF OneMountPerTarget, TypeOK
    <3>4. ASSUME NEW t \in Slots, hpc'[t] = "mount", vol'[t] \notin cutOff'
          PROVE  depth'[vol'[t]] = 0
      <4>1. t # s /\ hpc[t] = "mount" /\ vol[t] \notin cutOff /\ depth[vol[t]] = 0
        BY <3>1, <3>4 DEF TypeOK, ProbeTrue
      <4>2. vol[t] # vol[s]
        BY <3>1, <4>1, OneHandler DEF PublishSteps
      <4>3. QED
        BY <1>0, <3>1, <4>1, <4>2, BusyVolume DEF TypeOK
    <3>5. QED
      BY <3>3, <3>4 DEF ProbeTrue
  <2>3. QED
    BY <2>1, <2>2
<1>3. CASE ~Probe(s) /\ ~Mount(s)
  <2>1. \A v \in Volumes : depth'[v] <= depth[v]
    <3>1. depth' = depth \/ UnmountOk(vol[s]) \/ UnmountErr(vol[s])
      BY <1>3 DEF HandlerStep, Publish, AddMount, RemoveMount, HandlerUnmount, HandlerRemove,
           HandlerDelete, HandlerSave, LateReturn
    <3>2. CASE depth' = depth
      BY <3>2 DEF TypeOK
    <3>3. QED
      BY <1>0, <3>1, <3>2, UnmountTyped
  <2>2. \A t \in Slots \ {s} : hpc'[t] = hpc[t] /\ vol'[t] = vol[t]
    <3>1. CASE LateReturn(s)
      BY <3>1 DEF LateReturn, TypeOK
    <3>2. CASE ~LateReturn(s)
      BY <3>2, HandlerGoes DEF TypeOK
    <3>3. QED
      BY <3>1, <3>2
  <2>3. cutOff \subseteq cutOff' /\ hpc'[s] # "mount"
    BY <1>3 DEF HandlerStep, Publish, AddMount, RemoveMount, HandlerUnmount, HandlerRemove,
         HandlerDelete, DeleteRecord, HandlerSave, LateReturn, TypeOK
  <2>4. QED
    BY <2>1, <2>2, <2>3, DepthFalls
<1>4. QED
  BY <1>1, <1>2, <1>3

\* So do those of the engine.
LEMMA EngineDepth ==
  ASSUME CsiInv, TypeOK', (\E d \in Deployments : RoutineStep(d)) \/ EngineStop \/ EngineRestart
  PROVE  ProbeTrue' /\ OneMountPerTarget'
<1>1. /\ depth' = depth /\ cutOff \subseteq cutOff'
      /\ \A a \in Actors : \/ hpc'[a] = hpc[a] /\ vol'[a] = vol[a]
                           \/ hpc'[a] \in {"idle", "publish", "unpublish"}
  <2>1. ASSUME NEW d \in Deployments, RoutineStep(d)
        PROVE  /\ depth' = depth /\ cutOff \subseteq cutOff'
               /\ \A a \in Actors : \/ hpc'[a] = hpc[a] /\ vol'[a] = vol[a]
                                    \/ hpc'[a] \in {"idle", "publish", "unpublish"}
    BY <2>1, RoutineLocal
  <2>2. QED
    BY <2>1, EngineEndLocal
<1>2. \A v \in Volumes : depth'[v] <= depth[v]
  BY <1>1 DEF CsiInv, TypeOK
<1>3. QED
  BY <1>1, <1>2, DepthFalls, Distinct

\* And those of the worker, of main and of the plugin's end.
LEMMA PluginDepth ==
  ASSUME CsiInv, TypeOK', WorkerStep \/ MainStep \/ Crash \/ Shutdown
  PROVE  ProbeTrue' /\ OneMountPerTarget'
<1> USE Distinct DEF CsiInv, trackerVars, handlerVars, kernelVars
<1>2. CASE WorkerStep
  <2>1. \A v \in Volumes : depth'[v] <= depth[v]
    <3>1. depth' = depth \/ \E v \in todo : UnmountOk(v) \/ UnmountErr(v)
      BY <1>2 DEF WorkerStep, WorkerReceive, WorkerTick, WorkerBackoff, WorkerUnmount,
           WorkerRemove, WorkerDelete, WorkerSave
    <3>2. CASE depth' = depth
      BY <3>2 DEF TypeOK
    <3>3. QED
      BY <3>1, <3>2, UnmountTyped DEF TypeOK
  <2>2. QED
    BY <1>2, <2>1, WorkerLocal, DepthFalls
<1>3. CASE Crash \/ Shutdown
  <2>1. Lost
    BY <1>3 DEF Crash, Shutdown
  <2>2. depth' = depth /\ cutOff' = cutOff /\ \A s \in Slots : hpc'[s] # "mount"
    BY <2>1 DEF Lost
  <2>3. \A v \in Volumes : depth'[v] <= depth[v]
    BY <2>2 DEF TypeOK
  <2>4. QED
    BY <2>2, <2>3, DepthFalls
<1>4. CASE MainStep
  <2>1. \A v \in Volumes : depth'[v] <= depth[v]
    <3>1. CASE CleanupOrphan
      <4>1. PICK v \in orphans : \/ depth' = depth
                                 \/ depth' = [depth EXCEPT ![v] = IF v \in dir THEN 0 ELSE depth[v]]
                                 \/ depth[v] > 1 /\ depth' = [depth EXCEPT ![v] = depth[v] - 1]
        BY <3>1 DEF CleanupOrphan
      <4>2. v \in Volumes /\ depth[v] \in Nat /\ depth \in [Volumes -> Nat]
        BY DEF TypeOK
      <4>3. QED
        BY <4>1, <4>2
    <3>2. CASE ~CleanupOrphan
      <4>1. depth' = depth
        BY <1>4, <3>2 DEF MainStep, Restart, CleanupDone, CleanupSave
      <4>2. QED
        BY <4>1 DEF TypeOK
    <3>3. QED
      BY <3>1, <3>2
  <2>2. QED
    BY <1>4, <2>1, MainLocal, DepthFalls
<1>5. QED
  BY <1>2, <1>3, <1>4

-----------------------------------------------------------------------------
(* Nothing is forgotten *)

\* A step that takes nothing from the plugin, and no handler from an unpublish
\* except for a volume that is lost, keeps these.
LEMMA PluginKeeps ==
  ASSUME NEW v, UNCHANGED <<queue, retry, dropped, orphans>>,
         hpc'[Worker] = hpc[Worker], vol'[Worker] = vol[Worker], WithPlugin(v)
  PROVE  WithPlugin(v)'
  BY DEF WithPlugin

\* A routine that is not the one that goes on keeps its volumes.
LEMMA OtherRoutine ==
  ASSUME CsiInv, NEW e \in Deployments, NEW v,
         engine'[e] = engine[e], left'[e] = left[e], call'[e] = call[e],
         call[e] # None => hpc'[call[e]] = hpc[call[e]] /\ vol'[call[e]] = vol[call[e]],
         WithRoutine(e, v)
  PROVE  WithRoutine(e, v)'
  BY DEF WithRoutine

\* The routine that goes on keeps its volumes, enters them in mountedVolumes, or
\* leaves them to the plugin, to a handler or to nobody.
LEMMA OwnRoutine ==
  ASSUME CsiInv, NEW d \in Deployments, RoutineStep(d), NEW v \in mounts, WithRoutine(d, v)
  PROVE  \/ WithRoutine(d, v)' \/ recorded' \/ WithHandler(v)' \/ WithPlugin(v)
         \/ v \in disowned'
<1> USE Distinct DEF CsiInv, MountFails, EngineGoto, handlerVars
<1>0. /\ engine \in [Deployments -> Routines] /\ left \in [Deployments -> SUBSET Volumes]
      /\ call \in [Deployments -> Slots \cup {None}] /\ hpc \in [Actors -> Steps]
      /\ v \in Volumes
  BY DEF TypeOK
<1>1. CASE Deploy(d) \/ EndMounted(d) \/ ContainerExits(d) \/ TakeVolumes(d) \/ Unmounted(d)
  BY <1>1 DEF Deploy, EndMounted, ContainerExits, TakeVolumes, Unmounted, WithRoutine, Unmounting
<1>2. CASE MountNext(d)
  <2>1. engine[d] = "mounting" /\ call[d] = None /\ v \notin left[d]
    BY <1>2 DEF MountNext, WithRoutine, Unmounting
  <2>2. CASE registered /\ Serving
    BY <1>2, <2>1, <2>2 DEF MountNext, WithRoutine
  <2>3. CASE ~(registered /\ Serving)
    <3>1. engine' = [engine EXCEPT ![d] = "reverting"] /\ call' = call
          /\ left' = [left EXCEPT ![d] = Volumes \ left[d]]
      BY <1>2, <2>3 DEF MountNext
    <3>2. engine'[d] = "reverting" /\ v \in left'[d] /\ call'[d] = None
      BY <1>0, <2>1, <3>1
    <3>3. QED
      BY <3>2 DEF WithRoutine, Unmounting
  <2>4. QED
    BY <2>2, <2>3
<1>3. CASE MountAnswered(d)
  <2>1. engine[d] = "mounting" /\ call'[d] = None /\ call[d] # None
    BY <1>0, <1>3 DEF MountAnswered
  <2>2. CASE hpc[call[d]] = "ok"
    <3>1. left' = [left EXCEPT ![d] = left[d] \ {vol[call[d]]}]
      BY <1>3, <2>2 DEF MountAnswered
    <3>2. v \notin left'[d]
      BY <1>0, <2>1, <3>1 DEF WithRoutine, Unmounting
    <3>3. CASE left'[d] = {}
      BY <1>3, <2>2, <3>3 DEF MountAnswered
    <3>4. CASE left'[d] # {}
      <4>1. engine'[d] = "mounting"
        BY <1>0, <1>3, <2>2, <3>4 DEF MountAnswered
      <4>2. QED
        BY <3>2, <4>1 DEF WithRoutine
    <3>5. QED
      BY <3>3, <3>4
  <2>3. CASE hpc[call[d]] = "error"
    <3>1. engine'[d] = "reverting" /\ left'[d] = Volumes \ left[d]
      BY <1>0, <1>3, <2>3 DEF MountAnswered
    <3>2. v \notin left[d]
      BY <2>1, <2>3 DEF WithRoutine, Unmounting
    <3>3. QED
      BY <1>0, <2>1, <3>1, <3>2 DEF WithRoutine, Unmounting
  <2>4. QED
    BY <1>3, <2>2, <2>3 DEF MountAnswered
<1>4. CASE UnmountNext(d)
  <2>1. engine[d] \in Unmounting /\ call[d] = None /\ v \in left[d] /\ engine' = engine
    BY <1>4 DEF UnmountNext, WithRoutine, Unmounting
  <2>2. CASE registered /\ Serving
    <3>1. left' = left
      BY <1>4, <2>2 DEF UnmountNext
    <3>2. PICK s \in Slots : Send(d, s, NextOf(left[d]), "unpublish")
      BY <1>4, <2>2 DEF UnmountNext
    <3>3. call'[d] = s /\ hpc'[s] = "unpublish"
      BY <1>0, <3>2 DEF Send
    <3>4. QED
      BY <2>1, <3>1, <3>3 DEF WithRoutine, Answers
  <2>3. CASE ~Serving
    BY <2>3 DEF Covered
  <2>4. CASE ~registered
    <3>1. /\ left' = [left EXCEPT ![d] = left[d] \ {NextOf(left[d])}] /\ call' = call
          /\ NextOf(left[d]) \in disowned'
      BY <1>4, <2>4 DEF UnmountNext
    <3>2. v \in left'[d] \/ v \in disowned'
      BY <1>0, <2>1, <3>1
    <3>3. QED
      BY <2>1, <3>1, <3>2 DEF WithRoutine
  <2>5. QED
    BY <2>2, <2>3, <2>4
<1>5. CASE UnmountAnswered(d)
  <2>1. /\ engine[d] \in Unmounting /\ call[d] # None /\ engine' = engine
        /\ hpc[call[d]] \in Answers /\ call' = [call EXCEPT ![d] = None]
        /\ left' = [left EXCEPT ![d] = left[d] \ {vol[call[d]]}]
    BY <1>5 DEF UnmountAnswered, Unmounting, Answers
  <2>2. v \in left[d] /\ v # vol[call[d]]
    BY <2>1 DEF WithRoutine, Unmounting
  <2>3. v \in left'[d] /\ call'[d] = None
    BY <1>0, <2>1, <2>2
  <2>4. QED
    BY <2>1, <2>3 DEF WithRoutine
<1>6. CASE CallTimesOut(d)
  <2>1. PICK lost \in SUBSET {call[d]} :
          /\ Abandon({call[d]}, lost)
          /\ IF engine[d] = "mounting"
             THEN MountFails(d) /\ UNCHANGED <<dir, disowned>>
             ELSE /\ left' = [left EXCEPT ![d] = @ \ {vol[call[d]]}]
                  /\ EngineRemove(vol[call[d]])
                  /\ disowned' = disowned \cup {vol[s] : s \in lost}
                  /\ UNCHANGED engine
    BY <1>6 DEF CallTimesOut
  <2>2. /\ call[d] # None /\ hpc[call[d]] \notin Answers
        /\ call' = [call EXCEPT ![d] = None]
    BY <1>6 DEF CallTimesOut, Answers
  <2>3. call'[d] = None /\ call[d] \in Slots
    BY <1>0, <2>2
  <2>4. CASE engine[d] = "mounting"
    <3>1. v \notin left[d]
      BY <2>2, <2>4 DEF WithRoutine, Unmounting, Answers
    <3>2. engine'[d] = "reverting" /\ left'[d] = Volumes \ left[d]
      BY <1>0, <2>1, <2>4
    <3>3. QED
      BY <1>0, <2>3, <3>1, <3>2 DEF WithRoutine, Unmounting
  <2>5. CASE engine[d] # "mounting"
    <3>1. engine' = engine /\ left'[d] = left[d] \ {vol[call[d]]}
      BY <1>0, <2>1, <2>5
    <3>2. engine[d] \in Unmounting /\ v \in left[d]
      BY <2>5 DEF WithRoutine
    <3>3. CASE v # vol[call[d]]
      BY <2>3, <3>1, <3>2, <3>3 DEF WithRoutine
    <3>4. CASE v = vol[call[d]]
      <4>1. hpc[call[d]] \in UnpublishSteps \ {"write"}
        BY <2>2, <2>5, <3>4 DEF WithRoutine, CallsServed
      <4>2. CASE call[d] \in lost
        BY <2>1, <2>5, <3>4, <4>2
      <4>3. CASE call[d] \notin lost
        <5>1. hpc'[call[d]] = hpc[call[d]] /\ vol'[call[d]] = vol[call[d]]
          BY <2>1, <2>3, <4>3 DEF Abandon
        <5>2. QED
          BY <2>3, <3>4, <4>1, <5>1 DEF WithHandler
      <4>4. QED
        BY <4>2, <4>3
    <3>5. QED
      BY <3>3, <3>4
  <2>6. QED
    BY <2>4, <2>5
<1>7. QED
  BY <1>1, <1>2, <1>3, <1>4, <1>5, <1>6 DEF RoutineStep

\* A handler that is to unmount stays, unless its request is lost.
LEMMA HandlerStays ==
  ASSUME CsiInv, NEW d \in Deployments, RoutineStep(d), NEW v \in Volumes, WithHandler(v)
  PROVE  WithHandler(v)' \/ v \in disowned'
<1> USE Distinct, StepKinds DEF CsiInv
<1>1. PICK s \in Slots : vol[s] = v /\ hpc[s] \in UnpublishSteps \ {"write"}
  BY DEF WithHandler
<1>2. CASE hpc'[s] = hpc[s] /\ vol'[s] = vol[s]
  BY <1>1, <1>2 DEF WithHandler
<1>3. CASE s = call[d] /\ hpc'[s] = "idle"
  <2>1. engine[d] \in Unmounting /\ call[d] # None
    BY <1>1, <1>3 DEF CallsServed
  <2>2. CallTimesOut(d)
    <3>1. hpc[call[d]] \notin Answers /\ engine[d] \notin {"mounting", "new", "running", "exited"}
      BY <1>1, <1>3, <2>1 DEF Unmounting
    <3>2. QED
      BY <2>1, <3>1 DEF RoutineStep, Deploy, MountNext, MountAnswered, EndMounted, ContainerExits,
           TakeVolumes, UnmountNext, UnmountAnswered, Unmounted, Answers
  <2>3. PICK lost \in SUBSET {call[d]} :
          /\ Abandon({call[d]}, lost)
          /\ engine[d] # "mounting" => disowned' = disowned \cup {vol[t] : t \in lost}
    BY <2>2 DEF CallTimesOut
  <2>4. s \in lost
    BY <1>1, <1>3, <2>3 DEF Abandon
  <2>5. QED
    BY <1>1, <2>1, <2>3, <2>4 DEF Unmounting
<1>4. QED
  BY <1>1, <1>2, <1>3, RoutineLocal

\* The entry in mountedVolumes stays until a routine takes it, and what has been
\* lost stays so until it is mounted again.
LEMMA EntryStays ==
  ASSUME CsiInv, NEW d \in Deployments, RoutineStep(d), NEW v \in Volumes,
         recorded \/ v \in disowned
  PROVE  recorded' \/ WithRoutine(d, v)' \/ v \in disowned'
<1> USE Distinct DEF CsiInv, EngineGoto
<1>0. /\ engine \in [Deployments -> Routines] /\ left \in [Deployments -> SUBSET Volumes]
      /\ call \in [Deployments -> Slots \cup {None}]
  BY DEF TypeOK
<1>1. CASE TakeVolumes(d)
  <2>1. call[d] = None /\ call' = call /\ disowned' = disowned
    BY <1>1 DEF TakeVolumes, CallsServed, Unmounting
  <2>2. CASE recorded
    <3>1. engine'[d] = "unmounting" /\ left'[d] = Volumes
      BY <1>0, <1>1, <2>2 DEF TakeVolumes
    <3>2. QED
      BY <2>1, <3>1 DEF WithRoutine, Unmounting
  <2>3. QED
    BY <2>1, <2>2
<1>2. CASE MountAnswered(d)
  <2>1. CASE disowned' = disowned
    <3>1. recorded => recorded'
      BY <1>2 DEF MountAnswered
    <3>2. QED
      BY <2>1, <3>1
  <2>2. CASE disowned' # disowned
    <3>1. /\ disowned' = disowned \ {vol[call[d]]}
          /\ left' = [left EXCEPT ![d] = left[d] \ {vol[call[d]]}]
          /\ engine' = [engine EXCEPT ![d] = IF left'[d] = {} THEN "running" ELSE "mounting"]
          /\ recorded' = (recorded \/ left'[d] = {})
      BY <1>2, <2>2 DEF MountAnswered
    <3>2. CASE left'[d] = {}
      BY <3>1, <3>2
    <3>3. CASE left'[d] # {} /\ v = vol[call[d]]
      <4>1. engine'[d] = "mounting" /\ v \notin left'[d]
        BY <1>0, <3>1, <3>3
      <4>2. QED
        BY <4>1 DEF WithRoutine
    <3>4. CASE v # vol[call[d]]
      BY <3>1, <3>4
    <3>5. QED
      BY <3>2, <3>3, <3>4
  <2>3. QED
    BY <2>1, <2>2
<1>3. CASE ~TakeVolumes(d) /\ ~MountAnswered(d)
  BY <1>3 DEF RoutineStep, Deploy, MountNext, EndMounted, ContainerExits, UnmountNext,
       UnmountAnswered, Unmounted, CallTimesOut
<1>4. QED
  BY <1>1, <1>2, <1>3

\* The steps of a routine forget no record.
LEMMA RoutineCovered ==
  ASSUME CsiInv, NEW d \in Deployments, RoutineStep(d)
  PROVE  Covered'
<1> USE Distinct, StepKinds DEF CsiInv
<1>1. /\ UNCHANGED <<mounts, queue, retry, todo, dropped, up, orphans>>
      /\ cutOff \subseteq cutOff'
      /\ \A e \in Deployments \ {d} :
           engine'[e] = engine[e] /\ left'[e] = left[e] /\ call'[e] = call[e]
      /\ \A a \in Actors :
           \/ hpc'[a] = hpc[a] /\ vol'[a] = vol[a]
           \/ a \in Slots /\ hpc[a] = "idle" /\ hpc'[a] \in {"publish", "unpublish"}
           \/ a \in Slots /\ a = call[d] /\ hpc'[a] = "idle"
  BY RoutineLocal
<1>2. \A a \in {Worker, Main} : hpc'[a] = hpc[a] /\ vol'[a] = vol[a]
  BY <1>1
<1>3. Serving' <=> Serving
  BY <1>1, <1>2 DEF Serving
<1>4. ASSUME NEW v \in mounts PROVE Tended(v)' /\ (~Serving' => WithPlugin(v)')
  <2>1. WithPlugin(v) => WithPlugin(v)'
    BY <1>1, <1>2, PluginKeeps
  <2>2. v \in Volumes /\ Tended(v) /\ (~Serving => WithPlugin(v))
    BY DEF TypeOK, Covered
  <2>3. ASSUME NEW e \in Deployments, e # d, WithRoutine(e, v)
        PROVE  WithRoutine(e, v)'
    <3>1. call[e] # None => hpc'[call[e]] = hpc[call[e]] /\ vol'[call[e]] = vol[call[e]]
      <4>1. SUFFICES ASSUME call[e] # None
                     PROVE  hpc'[call[e]] = hpc[call[e]] /\ vol'[call[e]] = vol[call[e]]
        OBVIOUS
      <4>2. call[e] \in Slots /\ hpc[call[e]] # "idle"
        BY <4>1, CallVolume
      <4>3. call[e] # call[d]
        BY <2>3, <4>1 DEF CallsServed
      <4>4. QED
        BY <1>1, <4>2, <4>3
    <3>2. QED
      BY <1>1, <2>3, <3>1, OtherRoutine
  <2>4. WithPlugin(v) \/ v \in cutOff => Tended(v)'
    BY <1>1, <2>1 DEF Tended
  <2>5. WithHandler(v) => Tended(v)'
    BY <2>2, HandlerStays DEF Tended
  <2>6. recorded \/ v \in disowned => Tended(v)'
    BY <2>2, EntryStays DEF Tended
  <2>7. WithRoutine(d, v) => Tended(v)'
    BY <2>1, OwnRoutine DEF Tended
  <2>8. (\E e \in Deployments \ {d} : WithRoutine(e, v)) => Tended(v)'
    BY <2>3 DEF Tended
  <2>9. Tended(v)'
    BY <2>2, <2>4, <2>5, <2>6, <2>7, <2>8 DEF Tended
  <2>10. QED
    BY <1>3, <2>1, <2>2, <2>9
<1>5. QED
  BY <1>1, <1>4 DEF Covered

\* Neither does the end of the engine: what it had is disowned.
LEMMA EngineEndCovered ==
  ASSUME CsiInv, EngineStop \/ EngineRestart
  PROVE  Covered'
<1> USE Distinct, StepKinds DEF CsiInv, engineVars, pluginVars, trackerVars, handlerVars
<1>1. CASE EngineStop
  BY <1>1 DEF EngineStop, Covered, Tended, WithPlugin, WithRoutine, WithHandler, Serving
<1>2. CASE EngineRestart
  <2> DEFINE waited == {call[d] : d \in {e \in Deployments : call[e] # None}}
  <2>1. PICK lost \in SUBSET waited : Abandon(waited, lost)
    BY <1>2 DEF EngineRestart
  <2>2. /\ UNCHANGED <<mounts, queue, retry, todo, dropped, up, orphans>>
        /\ cutOff \subseteq cutOff'
        /\ \A a \in {Worker, Main} : hpc'[a] = hpc[a] /\ vol'[a] = vol[a]
    BY <1>2, EngineEndLocal
  <2>3. disowned' = disowned \cup Known \cup {vol[s] : s \in waited}
    BY <1>2 DEF EngineRestart
  <2>4. Serving' <=> Serving
    BY <2>2 DEF Serving
  <2>5. ASSUME NEW v \in mounts PROVE Tended(v)' /\ (~Serving' => WithPlugin(v)')
    <3>1. WithPlugin(v) => WithPlugin(v)'
      BY <2>2, PluginKeeps
    <3>2. v \in Volumes /\ Tended(v) /\ (~Serving => WithPlugin(v))
      BY DEF TypeOK, Covered
    <3>3. recorded \/ v \in disowned => Tended(v)'
      BY <2>3, <3>2 DEF Known, Tended
    <3>4. ASSUME NEW d \in Deployments, WithRoutine(d, v)
          PROVE  v \in disowned'
      BY <2>3, <3>2, <3>4 DEF Known, WithRoutine, Unmounting
    <3>5. ASSUME WithHandler(v) PROVE Tended(v)'
      <4>1. PICK s \in Slots : vol[s] = v /\ hpc[s] \in UnpublishSteps \ {"write"}
        BY <3>5 DEF WithHandler
      <4>2. CASE s \in waited
        BY <2>3, <4>1, <4>2 DEF Tended
      <4>3. CASE s \notin waited
        <5>1. hpc'[s] = hpc[s] /\ vol'[s] = vol[s]
          BY <2>1, <4>3 DEF Abandon
        <5>2. QED
          BY <4>1, <5>1 DEF WithHandler, Tended
      <4>4. QED
        BY <4>2, <4>3
    <3>6. Tended(v)'
      BY <2>2, <3>1, <3>2, <3>3, <3>4, <3>5 DEF Tended
    <3>7. QED
      BY <2>4, <3>1, <3>2, <3>6
  <2>6. QED
    BY <2>2, <2>5 DEF Covered
<1>3. QED
  BY <1>1, <1>2

\* What is handed to the worker is with it, or dropped.
LEMMA EnqueueKeeps ==
  ASSUME TypeOK, NEW v \in Volumes, Enqueue(v)
  PROVE  /\ {queue[i] : i \in DOMAIN queue} \subseteq {queue'[i] : i \in DOMAIN queue'}
         /\ dropped \subseteq dropped'
         /\ v \in {queue'[i] : i \in DOMAIN queue'} \cup dropped'
<1>1. CASE Len(queue) < QueueCap
  <2>1. queue' = Append(queue, v) /\ dropped' = dropped
    BY <1>1 DEF Enqueue
  <2>2. /\ DOMAIN queue = 1 .. Len(queue) /\ DOMAIN queue' = 1 .. Len(queue) + 1
        /\ Len(queue) \in Nat
    BY <2>1 DEF TypeOK
  <2>3. \A i \in DOMAIN queue : i \in DOMAIN queue' /\ queue'[i] = queue[i]
    BY <2>1, <2>2 DEF TypeOK
  <2>4. Len(queue) + 1 \in DOMAIN queue' /\ queue'[Len(queue) + 1] = v
    BY <2>1, <2>2 DEF TypeOK
  <2>5. QED
    BY <2>1, <2>3, <2>4
<1>2. CASE ~(Len(queue) < QueueCap)
  BY <1>2 DEF Enqueue
<1>3. QED
  BY <1>1, <1>2

\* A handler takes nothing from the plugin.
LEMMA HandlerKeeps ==
  ASSUME CsiInv, NEW s \in Slots, HandlerStep(s), NEW v, WithPlugin(v)
  PROVE  WithPlugin(v)'
<1> USE Distinct DEF CsiInv, Goto, Done, engineVars, pluginVars, trackerVars, handlerVars,
          kernelVars
<1>0. hpc[s] # "idle" /\ vol[s] \in Volumes
  BY BusyVolume DEF HandlerStep, Publish, Probe, Mount, AddMount, RemoveMount, HandlerUnmount,
       HandlerRemove, HandlerDelete, HandlerSave, LateReturn
<1>1. /\ {queue[i] : i \in DOMAIN queue} \subseteq {queue'[i] : i \in DOMAIN queue'}
      /\ dropped \subseteq dropped'
  <2>1. UNCHANGED <<queue, dropped>> \/ Enqueue(vol[s])
    BY DEF HandlerStep, Publish, Probe, Mount, AddMount, RemoveMount, HandlerUnmount,
         HandlerRemove, HandlerDelete, HandlerSave, LateReturn
  <2>2. QED
    BY <1>0, <2>1, EnqueueKeeps
<1>2. /\ hpc'[Worker] = hpc[Worker] /\ vol'[Worker] = vol[Worker]
      /\ retry' = retry /\ orphans' = orphans
  <2>1. CASE LateReturn(s)
    BY <2>1 DEF LateReturn, TypeOK
  <2>2. CASE ~LateReturn(s)
    BY <2>2, HandlerGoes DEF TypeOK
  <2>3. QED
    BY <2>1, <2>2
<1>3. QED
  BY <1>1, <1>2 DEF WithPlugin

\* What a handler records its routine learns of, unless the publish was cut off.
LEMMA HandlerAdds ==
  ASSUME CsiInv, NEW s \in Slots, HandlerStep(s), NEW v \in mounts', v \notin mounts,
         v \notin cutOff
  PROVE  \E d \in Deployments : WithRoutine(d, v)'
<1> USE Distinct DEF CsiInv, Goto, Done, engineVars, pluginVars, trackerVars, handlerVars,
          kernelVars
<1>1. /\ mounts' = mounts \cup {vol[s]} /\ hpc' = [hpc EXCEPT ![s] = "ok"]
      /\ hpc[s] \in {"probe", "add"} /\ UNCHANGED <<engine, call, vol>>
  BY DEF HandlerStep, Publish, Probe, Mount, AddMount, RemoveMount, HandlerUnmount,
       HandlerRemove, HandlerDelete, DeleteRecord, HandlerSave, LateReturn
<1>2. PICK d \in Deployments : engine[d] = "mounting" /\ call[d] = s
  BY <1>1 DEF PublishAwaited, PublishSteps
<1>3. hpc'[s] = "ok" /\ vol'[s] = v
  BY <1>1 DEF TypeOK
<1>4. QED
  BY <1>1, <1>2, <1>3 DEF WithRoutine

\* A handler that is to unmount goes on with it, or leaves it to the worker, until
\* the record is gone.
LEMMA UnmountGoesOn ==
  ASSUME CsiInv, NEW s \in Slots, HandlerStep(s), hpc[s] \in UnpublishSteps \ {"write"},
         NEW v \in mounts', vol[s] = v
  PROVE  WithHandler(v)' \/ WithPlugin(v)'
<1> USE Distinct DEF CsiInv, Goto, Done, engineVars, pluginVars, trackerVars, handlerVars,
          kernelVars
<1>0. v \in Volumes
  BY BusyVolume, StepKinds
<1>1. ASSUME Enqueue(v) PROVE WithPlugin(v)'
  BY <1>0, <1>1, EnqueueKeeps DEF WithPlugin
<1>2. ASSUME hpc'[s] \in UnpublishSteps \ {"write"}, vol' = vol
      PROVE  WithHandler(v)'
  BY <1>2 DEF WithHandler
<1>3. CASE RemoveMount(s)
  <2>1. v \in mounts /\ vol' = vol
    BY <1>3 DEF RemoveMount
  <2>2. hpc'[s] = "unmount"
    BY <1>3, <2>1 DEF RemoveMount, IsMounted, TypeOK
  <2>3. QED
    BY <1>2, <2>1, <2>2 DEF UnpublishSteps
<1>4. CASE HandlerUnmount(s)
  <2>1. vol' = vol /\ (hpc'[s] = "remove" \/ Enqueue(v))
    BY <1>4 DEF HandlerUnmount, TypeOK
  <2>2. QED
    BY <1>1, <1>2, <2>1 DEF UnpublishSteps
<1>5. CASE HandlerRemove(s)
  <2>1. vol' = vol /\ (hpc'[s] = "delete" \/ Enqueue(v))
    BY <1>5 DEF HandlerRemove, TypeOK
  <2>2. QED
    BY <1>1, <1>2, <2>1 DEF UnpublishSteps
<1>6. CASE HandlerDelete(s)
  BY <1>6 DEF HandlerDelete, DeleteRecord
<1>7. QED
  BY <1>3, <1>4, <1>5, <1>6 DEF HandlerStep, Publish, Probe, Mount, AddMount, HandlerSave,
       LateReturn, UnpublishSteps

\* The steps of a handler forget no record.
LEMMA HandlerCovered ==
  ASSUME CsiInv, NEW s \in Slots, HandlerStep(s)
  PROVE  Covered'
<1> USE Distinct, StepKinds DEF CsiInv
<1>0. /\ UNCHANGED <<engine, left, call, recorded, disowned, up>> /\ cutOff \subseteq cutOff'
      /\ \A a \in Actors \ {s} : hpc'[a] = hpc[a] /\ vol'[a] = vol[a]
  <2>1. CASE LateReturn(s)
    BY <2>1 DEF LateReturn, Done, Goto, engineVars, pluginVars, TypeOK
  <2>2. CASE ~LateReturn(s)
    BY <2>2, HandlerGoes DEF engineVars, pluginVars, TypeOK
  <2>3. QED
    BY <2>1, <2>2
<1>1. Serving' <=> Serving
  BY <1>0 DEF Serving
<1>2. ASSUME NEW v \in mounts', v \in mounts
      PROVE  Tended(v)' /\ (~Serving' => WithPlugin(v)')
  <2>1. WithPlugin(v) => WithPlugin(v)'
    BY HandlerKeeps
  <2>2. Tended(v) /\ (~Serving => WithPlugin(v))
    BY <1>2 DEF Covered
  <2>3. hpc[s] \in UnpublishSteps \ {"write"} /\ vol[s] = v => WithPlugin(v)' \/ WithHandler(v)'
    BY <1>2, UnmountGoesOn
  <2>4. WithHandler(v) => WithPlugin(v)' \/ WithHandler(v)'
    <3>1. SUFFICES ASSUME NEW t \in Slots, vol[t] = v, hpc[t] \in UnpublishSteps \ {"write"}
                   PROVE  WithPlugin(v)' \/ WithHandler(v)'
      BY DEF WithHandler
    <3>2. CASE t = s
      BY <2>3, <3>1, <3>2
    <3>3. CASE t # s
      BY <1>0, <3>1, <3>3 DEF WithHandler
    <3>4. QED
      BY <3>2, <3>3
  <2>5. ASSUME NEW d \in Deployments, WithRoutine(d, v)
        PROVE  Tended(v)'
    <3>1. CASE call[d] # s
      <4>1. call[d] # None => hpc'[call[d]] = hpc[call[d]] /\ vol'[call[d]] = vol[call[d]]
        BY <1>0, <3>1 DEF TypeOK
      <4>2. WithRoutine(d, v)'
        BY <1>0, <2>5, <4>1, OtherRoutine
      <4>3. QED
        BY <4>2 DEF Tended
    <3>2. CASE call[d] = s
      <4>1. ~LateReturn(s)
        BY <3>2 DEF LateReturn
      <4>2. hpc[s] \in PublishSteps \cup UnpublishSteps /\ vol' = vol
        BY <4>1, HandlerGoes
      <4>3. CASE engine[d] = "mounting" /\ v \notin left[d]
        BY <1>0, <4>3 DEF WithRoutine, Tended
      <4>4. CASE engine[d] \in Unmounting /\ v \in left[d] /\ vol[s] # v
        <5>1. WithRoutine(d, v)'
          BY <1>0, <3>2, <4>2, <4>4 DEF WithRoutine
        <5>2. QED
          BY <5>1 DEF Tended
      <4>5. CASE engine[d] \in Unmounting /\ vol[s] = v /\ hpc[s] \notin {"write"} \cup Answers
        <5>1. hpc[s] \in UnpublishSteps \ {"write"}
          BY <3>2, <4>2, <4>5 DEF CallsServed, Unmounting
        <5>2. QED
          BY <2>3, <4>5, <5>1 DEF Tended
      <4>6. QED
        BY <2>5, <3>2, <4>2, <4>3, <4>4, <4>5 DEF WithRoutine, Answers
    <3>3. QED
      BY <3>1, <3>2
  <2>6. Tended(v)'
    BY <1>0, <2>1, <2>2, <2>4, <2>5 DEF Tended
  <2>7. QED
    BY <1>1, <2>1, <2>2, <2>6
<1>3. ASSUME NEW v \in mounts', v \notin mounts
      PROVE  Tended(v)' /\ (~Serving' => WithPlugin(v)')
  <2>1. ~LateReturn(s)
    BY <1>3 DEF LateReturn, trackerVars
  <2>2. Serving
    BY <2>1, HandlerGoes DEF StartState
  <2>3. CASE v \in cutOff
    BY <1>0, <1>1, <2>2, <2>3 DEF Tended
  <2>4. CASE v \notin cutOff
    BY <1>1, <1>3, <2>2, <2>4, HandlerAdds DEF Tended
  <2>5. QED
    BY <2>3, <2>4
<1>4. QED
  BY <1>2, <1>3 DEF Covered

\* A failed attempt keeps the volume, or gives it up.
LEMMA AttemptKeeps ==
  ASSUME TypeOK, NEW v \in todo, AttemptFailed(v)
  PROVE  /\ \A w \in Volumes : retry[w] # None => retry'[w] # None \/ w \in dropped'
         /\ dropped \subseteq dropped'
<1>1. v \in Volumes /\ retry[v] \in Nat
  BY DEF TypeOK
<1>2. CASE retry[v] + 1 >= GiveUp
  BY <1>1, <1>2 DEF TypeOK, AttemptFailed
<1>3. CASE ~(retry[v] + 1 >= GiveUp)
  <2>1. retry' = [retry EXCEPT ![v] = retry[v] + 1] /\ dropped' = dropped
    BY <1>3 DEF AttemptFailed
  <2>2. retry[v] + 1 # None
    BY <1>1, CsiAssumption
  <2>3. QED
    BY <1>1, <2>1, <2>2 DEF TypeOK
<1>4. QED
  BY <1>2, <1>3

\* The worker records nothing, and loses none of its volumes that has a record.
LEMMA WorkerKeeps ==
  ASSUME CsiInv, WorkerStep
  PROVE  mounts' \subseteq mounts /\ \A v \in mounts' : WithPlugin(v) => WithPlugin(v)'
<1> USE Distinct DEF CsiInv, Goto, Done, engineVars, pluginVars, trackerVars, handlerVars, kernelVars
<1>0. orphans' = orphans /\ mounts \subseteq Volumes
  BY WorkerLocal DEF TypeOK
<1>1. CASE WorkerReceive
  <2>1. /\ retry' = [retry EXCEPT ![Head(queue)] = 0] /\ queue' = Tail(queue) /\ queue # <<>>
        /\ UNCHANGED <<mounts, hpc, vol, dropped, cutOff>>
    BY <1>1 DEF WorkerReceive
  <2>2. \A v \in Volumes : retry[v] # None \/ v = Head(queue) => retry'[v] # None
    BY <2>1, CsiAssumption DEF TypeOK
  <2>3. \A i \in DOMAIN queue : i = 1 \/ (i - 1 \in DOMAIN queue' /\ queue'[i - 1] = queue[i])
    BY <2>1 DEF TypeOK
  <2>4. \A i \in DOMAIN queue :
          queue[i] \in Volumes
            /\ (queue[i] = Head(queue) \/ queue[i] \in {queue'[j] : j \in DOMAIN queue'})
    <3>1. ASSUME NEW i \in DOMAIN queue
          PROVE  queue[i] \in Volumes
      BY DEF TypeOK
    <3>2. ASSUME NEW i \in DOMAIN queue, i = 1
          PROVE  queue[i] = Head(queue)
      BY <2>1, <3>2 DEF TypeOK
    <3>3. QED
      BY <2>3, <3>1, <3>2
  <2>5. QED
    BY <1>0, <2>1, <2>2, <2>4 DEF WithPlugin
<1>2. CASE WorkerTick
  BY <1>0, <1>2 DEF WorkerTick, WithPlugin
<1>3. CASE WorkerBackoff
  <2>1. PICK v \in todo : /\ Waiting(v) /\ retry' = [retry EXCEPT ![v] = @ + 1]
    BY <1>3 DEF WorkerBackoff
  <2>2. v \in Volumes /\ retry[v] + 1 # None
    BY CsiAssumption DEF TypeOK
  <2>3. \A w \in Volumes : retry[w] # None => retry'[w] # None
    BY <2>1, <2>2 DEF TypeOK
  <2>4. UNCHANGED <<mounts, queue, hpc, vol, dropped, cutOff>>
    BY <1>3 DEF WorkerBackoff
  <2>5. QED
    BY <1>0, <2>3, <2>4 DEF WithPlugin
<1>4. CASE WorkerUnmount
  <2>1. UNCHANGED <<mounts, queue, cutOff>> /\ hpc[Worker] = "idle"
    BY <1>4 DEF WorkerUnmount, WorkerIdle
  <2>2. /\ \A w \in Volumes : retry[w] # None => retry'[w] # None \/ w \in dropped'
        /\ dropped \subseteq dropped'
    BY <1>4, AttemptKeeps DEF WorkerUnmount
  <2>3. QED
    BY <1>0, <2>1, <2>2 DEF WithPlugin
<1>5. CASE WorkerRemove
  <2>1. UNCHANGED <<mounts, queue, cutOff>> /\ hpc[Worker] = "remove"
    BY <1>5 DEF WorkerRemove
  <2>2. vol[Worker] \in todo /\ vol[Worker] \in Volumes
    BY <2>1 DEF ActorsBusy, TypeOK
  <2>3. CASE AttemptFailed(vol[Worker])
    BY <1>0, <2>1, <2>2, <2>3, AttemptKeeps DEF WithPlugin
  <2>4. CASE ~AttemptFailed(vol[Worker])
    <3>1. /\ retry' = [retry EXCEPT ![vol[Worker]] = None] /\ hpc'[Worker] = "delete"
          /\ vol' = vol /\ dropped' = dropped
      BY <1>5, <2>4 DEF WorkerRemove, TypeOK
    <3>2. \A w \in Volumes : retry[w] # None => retry'[w] # None \/ w = vol[Worker]
      BY <3>1 DEF TypeOK
    <3>3. QED
      BY <1>0, <2>1, <2>2, <3>1, <3>2 DEF WithPlugin
  <2>5. QED
    BY <2>3, <2>4
<1>6. CASE WorkerDelete
  BY <1>0, <1>6 DEF WorkerDelete, DeleteRecord, WithPlugin
<1>7. CASE WorkerSave
  BY <1>0, <1>7 DEF WorkerSave, WithPlugin
<1>8. QED
  BY <1>1, <1>2, <1>3, <1>4, <1>5, <1>6, <1>7 DEF WorkerStep

\* The steps of the worker forget no record.
LEMMA WorkerCovered ==
  ASSUME CsiInv, WorkerStep
  PROVE  Covered'
<1> USE Distinct DEF CsiInv
<1>1. /\ \A a \in Actors \ {Worker} : hpc'[a] = hpc[a] /\ vol'[a] = vol[a]
      /\ UNCHANGED <<engine, left, call, recorded, disowned, up, cutOff>>
  BY WorkerLocal DEF engineVars, pluginVars
<1>2. mounts' \subseteq mounts /\ \A v \in mounts' : WithPlugin(v) => WithPlugin(v)'
  BY WorkerKeeps
<1>3. Serving' <=> Serving
  BY <1>1 DEF Serving
<1>4. ASSUME NEW v \in mounts' PROVE Tended(v)' /\ (~Serving' => WithPlugin(v)')
  <2>1. Tended(v) /\ (~Serving => WithPlugin(v))
    BY <1>2 DEF Covered
  <2>2. WithHandler(v) => WithHandler(v)'
    BY <1>1 DEF WithHandler
  <2>3. ASSUME NEW d \in Deployments, WithRoutine(d, v) PROVE WithRoutine(d, v)'
    <3>1. call[d] # None => hpc'[call[d]] = hpc[call[d]] /\ vol'[call[d]] = vol[call[d]]
      BY <1>1 DEF TypeOK
    <3>2. QED
      BY <1>1, <2>3, <3>1, OtherRoutine
  <2>4. Tended(v)'
    BY <1>1, <1>2, <2>1, <2>2, <2>3 DEF Tended
  <2>5. QED
    BY <1>2, <1>3, <2>1, <2>4
<1>5. QED
  BY <1>4 DEF Covered

\* A plugin that ends has no records.
LEMMA LostCovered ==
  ASSUME CsiInv, Crash \/ Shutdown
  PROVE  Covered'
  BY DEF Crash, Shutdown, Lost, Covered

\* What a plugin finds when it starts and cannot unmount is with the worker, or
\* dropped.
LEMMA MainCovered ==
  ASSUME CsiInv, MainStep
  PROVE  Covered'
<1> USE Distinct DEF CsiInv, Goto, pluginVars, trackerVars, handlerVars
<1>0. /\ \A a \in Actors \ {Main} : hpc'[a] = hpc[a]
      /\ vol' = vol /\ retry' = retry /\ ~Serving
  BY MainLocal
<1>1. \A v \in mounts : WithPlugin(v)
  BY <1>0 DEF Covered
<1>2. SUFFICES ASSUME NEW v \in mounts' PROVE WithPlugin(v)'
  BY DEF Covered, Tended
<1>3. CASE Restart
  BY <1>3 DEF Restart, WithPlugin
<1>4. CASE CleanupOrphan
  <2>1. PICK w \in orphans :
          /\ orphans' = orphans \ {w}
          /\ \/ mounts' = mounts \ {w} /\ UNCHANGED <<queue, dropped>>
             \/ mounts' = mounts /\ Enqueue(w)
    BY <1>4 DEF CleanupOrphan
  <2>2. w \in Volumes /\ v \in mounts
    BY <2>1 DEF TypeOK
  <2>3. /\ {queue[i] : i \in DOMAIN queue} \subseteq {queue'[i] : i \in DOMAIN queue'}
        /\ dropped \subseteq dropped'
        /\ v = w => v \in {queue'[i] : i \in DOMAIN queue'} \cup dropped'
    BY <2>1, <2>2, EnqueueKeeps
  <2>4. WithPlugin(v)
    BY <1>1, <2>2
  <2>5. QED
    BY <1>0, <2>1, <2>3, <2>4 DEF WithPlugin
<1>5. CASE CleanupDone \/ CleanupSave
  <2>1. UNCHANGED <<mounts, orphans, queue, dropped>>
    BY <1>5 DEF CleanupDone, CleanupSave
  <2>2. QED
    BY <1>0, <1>1, <2>1 DEF WithPlugin
<1>6. QED
  BY <1>3, <1>4, <1>5 DEF MainStep

-----------------------------------------------------------------------------
(* The theorems *)

\* The initial state satisfies the invariant.
LEMMA CsiInit == Init => CsiInv
<1> SUFFICES ASSUME Init PROVE CsiInv
  OBVIOUS
<1> USE CsiAssumption, Distinct
<1>1. registered \in BOOLEAN /\ recorded \in BOOLEAN /\ up \in BOOLEAN
  BY Zenon DEF Init
<1>2. TypeOK
  BY <1>1 DEF Init, TypeOK, Steps, Routines
<1>3. ActorsBusy /\ OneEntered /\ CallsServed
  BY DEF Init, ActorsBusy, OneEntered, CallsServed, Entered
<1>4. PublishAwaited /\ StartState /\ ProbeTrue /\ OneMountPerTarget
  BY DEF Init, PublishAwaited, StartState, ProbeTrue, OneMountPerTarget, PublishSteps, Serving
<1>5. Covered
  BY DEF Init, Covered
<1>6. QED
  BY <1>2, <1>3, <1>4, <1>5 DEF CsiInv

\* Every step preserves it.
LEMMA CsiStep == CsiInv /\ [Next]_vars => CsiInv'
<1> SUFFICES ASSUME CsiInv, [Next]_vars PROVE CsiInv'
  OBVIOUS
<1>1. ASSUME NEW d \in Deployments, RoutineStep(d) PROVE CsiInv'
  BY <1>1, EngineTyped, EngineStructure, EngineDepth, RoutineCovered DEF CsiInv, Structure, Waits
<1>2. CASE EngineStop \/ EngineRestart
  BY <1>2, EngineEndTyped, EngineEndStructure, EngineDepth, EngineEndCovered
     DEF CsiInv, Structure, Waits
<1>3. ASSUME NEW s \in Slots, HandlerStep(s) PROVE CsiInv'
  BY <1>3, HandlerTyped, HandlerStructure, HandlerDepth, HandlerCovered
     DEF CsiInv, Structure, Waits
<1>4. CASE WorkerStep
  BY <1>4, WorkerTyped, WorkerStructure, PluginDepth, WorkerCovered DEF CsiInv, Structure, Waits
<1>5. CASE MainStep
  BY <1>5, MainTyped, MainStructure, PluginDepth, MainCovered DEF CsiInv, Structure, Waits
<1>6. CASE Crash \/ Shutdown
  BY <1>6, LostTyped, LostStructure, PluginDepth, LostCovered DEF CsiInv, Structure, Waits
<1>7. CASE UNCHANGED vars
  <2>1. TypeOK' /\ ActorsBusy' /\ OneEntered' /\ CallsServed' /\ PublishAwaited'
    BY <1>7 DEF vars, engineVars, pluginVars, trackerVars, handlerVars, kernelVars, CsiInv, TypeOK,
         ActorsBusy, OneEntered, CallsServed, PublishAwaited
  <2>2. StartState' /\ ProbeTrue' /\ OneMountPerTarget'
    BY <1>7 DEF vars, engineVars, pluginVars, trackerVars, handlerVars, kernelVars, CsiInv,
         StartState, ProbeTrue, OneMountPerTarget, Serving
  <2>3. Covered'
    BY <1>7 DEF vars, engineVars, pluginVars, trackerVars, handlerVars, CsiInv, Covered, Tended,
         WithPlugin, WithHandler, WithRoutine, Serving
  <2>4. QED
    BY <2>1, <2>2, <2>3 DEF CsiInv
<1>8. QED
  BY <1>1, <1>2, <1>3, <1>4, <1>5, <1>6, <1>7 DEF Next

\* The invariant holds in every reachable state.
LEMMA CsiInvariant == Spec => []CsiInv
  BY CsiInit, CsiStep, PTL DEF Spec

\* The engine, the tracker, the worker and the machine keep the types of their
\* state: the clean-up queue never exceeds its capacity, a retry is counted below
\* the limit, and the worker's loop goes over volumes it has to retry.
THEOREM CsiTyped == Spec => []TypeOK
<1>1. CsiInv => TypeOK
  BY DEF CsiInv
<1>2. QED
  BY <1>1, CsiInvariant, PTL

\* NodePublishVolume mounts at most once on a target, however the unpublishes of
\* an ended routine, the publishes of the next one, the retries of the worker, the
\* start-up's clean-up and ends of the plugin interleave, unless a publish went on
\* that nobody waited for or the mount table could not be read.
THEOREM OneMountSound == Spec => []OneMountPerTarget
<1>1. CsiInv => OneMountPerTarget
  BY DEF CsiInv
<1>2. QED
  BY <1>1, CsiInvariant, PTL

\* A volume the tracker has on record is known to the engine or on its way to be
\* unmounted, unless it was given up, dropped, cut off or disowned.
THEOREM NothingForgottenProved == Spec => []NothingForgotten
<1>1. CsiInv => NothingForgotten
  <2> SUFFICES ASSUME CsiInv, NEW v \in mounts
               PROVE  v \in Known \cup OnItsWay \cup dropped \cup cutOff \cup disowned
    BY DEF NothingForgotten
  <2> USE Distinct DEF CsiInv
  <2>1. v \in Volumes /\ Tended(v)
    BY DEF TypeOK, Covered
  <2>2. WithPlugin(v) => v \in OnItsWay \cup dropped
    BY <2>1 DEF WithPlugin, OnItsWay
  <2>3. WithHandler(v) => v \in OnItsWay
    BY StepKinds DEF WithHandler, OnItsWay
  <2>4. ASSUME NEW d \in Deployments, WithRoutine(d, v)
        PROVE  v \in Known \cup OnItsWay
    <3>1. CASE engine[d] = "mounting" /\ call[d] # None /\ hpc[call[d]] = "ok" /\ vol[call[d]] = v
      <4>1. call[d] \in Actors \ {Main}
        BY <3>1 DEF TypeOK
      <4>2. QED
        BY <3>1, <4>1 DEF OnItsWay
    <3>2. QED
      BY <2>1, <2>4, <3>1 DEF WithRoutine, Known, Unmounting
  <2>5. recorded => v \in Known
    BY <2>1 DEF Known
  <2>6. QED
    BY <2>1, <2>2, <2>3, <2>4, <2>5 DEF Tended
<1>2. QED
  BY <1>1, CsiInvariant, PTL
===============================================================================
