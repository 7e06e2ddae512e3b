--------------------------- MODULE ClusterJobsProofs ---------------------------
(***************************************************************************)
(* Proofs of the safety properties of ClusterJobs, for any number of        *)
(* instances, workers, re-deploy threads and losses.                        *)
(***************************************************************************)
EXTENDS ClusterJobs, TLAPS

-------------------------------------------------------------------------------
(* The job document *)

LEMMA AbsentTyped ==
  /\ Absent \in Records /\ Fresh \in Records
  /\ NoJob \in Documents /\ ~NoJob.exists
BY DEF Absent, Fresh, NoJob, Documents, Records, Seen, Statuses, Reported

\* The document update_status writes is about the same job.
LEMMA WithStatusTyped ==
  ASSUME NEW doc \in Documents, NEW i \in Instances, NEW s \in Statuses
  PROVE  WithStatus(doc, i, s) \in Documents /\ WithStatus(doc, i, s).exists = doc.exists
BY ZenonT(60) DEF WithStatus, Documents, Records, Present

LEMMA RefreshedTyped ==
  ASSUME NEW doc \in Documents, NEW i \in Instances
  PROVE  Refreshed(doc, i) \in Records
BY DEF Refreshed, Documents, Records, Present, Seen, Statuses

\* A PATCH of the document neither creates nor deletes it.
LEMMA PatchJobKeeps ==
  ASSUME job \in Documents, NEW doc \in Documents, doc.exists, PatchJob(doc)
  PROVE  job' \in Documents /\ job'.exists = job.exists
BY DEF PatchJob, Documents

\* Nor does a PATCH of an instance.
LEMMA PatchInstanceKeeps ==
  ASSUME job \in Documents, NEW i \in Instances, NEW rec \in Records, PatchInstance(i, rec)
  PROVE  job' \in Documents /\ job'.exists = job.exists
BY DEF PatchInstance, Documents

-------------------------------------------------------------------------------
(* The steps *)

\* What the proofs carry from state to state.
JobInv == TypeOK /\ Serving /\ ReadsReal /\ HttpSeesExistence

\* What a step of any other thread than the HTTP worker's, or of a worker, does.
Kept == JobInv' /\ job'.exists = job.exists

\* What is sent to a worker is a command.
LEMMA DeleteTyped ==
  ASSUME toNode \subseteq Commands, NEW n \in Nodes \cup {NoNode}, NEW i \in Instances,
         Delete(n, i)
  PROVE  toNode' \subseteq Commands
BY DEF Delete, Commands

LEMMA AskTyped ==
  ASSUME sched \in [Instances -> Nat], losses \in Nat, NEW i \in Instances, Ask(i)
  PROVE  /\ sched' \in [Instances -> Nat] /\ losses' \in Nat
         /\ \A j \in Instances : sched[j] > 0 => sched'[j] > 0
BY DEF Ask

\* A step of the HTTP worker has to keep these, the rest is about the other threads.
LEMMA HttpKeeps ==
  ASSUME JobInv,
         UNCHANGED <<mqtt, agg, red, inbox, work>>,
         job' \in Documents, http' \in HttpStates, toNode' \subseteq Commands,
         sched' \in [Instances -> Nat], losses' \in Nat,
         asked' \subseteq Instances, erased' \subseteq asked',
         http'.pc \notin {"idle", "pull"} => http'.inst \in Instances,
         http'.pc \in {"r_inst", "r_get", "r_status", "r_check", "publish"}
            => http'.node \in Nodes /\ sched'[http'.inst] > 0,
         http'.pc \in {"pull", "r_inst", "r_status"} => http'.snap.exists,
         http'.pc \in {"put", "pull", "r_inst", "r_status"} => job'.exists = http'.snap.exists,
         http'.pc = "publish" => job'.exists
  PROVE  JobInv'
BY DEF JobInv, TypeOK, Serving, ReadsReal, HttpSeesExistence

\* The idle worker.
LEMMA HttpIdleTyped == HttpIdle \in HttpStates /\ HttpIdle.pc = "idle"
BY AbsentTyped DEF HttpIdle, HttpStates, HttpPc

\* The HTTP worker serves a deploy request.
LEMMA DeployStep ==
  ASSUME JobInv, (\E i \in Instances : ReceiveDeploy(i)) \/ DeployPut \/ DeployAsk
  PROVE  JobInv'
<1>0. TypeOK /\ Serving /\ ReadsReal /\ HttpSeesExistence
  BY DEF JobInv
<1>1. ASSUME NEW i \in Instances, ReceiveDeploy(i) PROVE JobInv'
  <2>1. /\ http' \in HttpStates /\ http'.pc = "put"
        /\ http'.inst = i /\ http'.snap = job
    BY <1>0, <1>1, AbsentTyped DEF ReceiveDeploy, HttpStates, HttpIdle, HttpPc, TypeOK
  <2>2. losses' \in Nat
    <3>1. losses \in Nat
      BY <1>0 DEF TypeOK
    <3>2. UNCHANGED losses \/ losses' = losses + 1
      BY <1>1, Zenon DEF ReceiveDeploy
    <3>3. QED
      BY <3>1, <3>2
  <2>3. asked' \subseteq Instances /\ erased' \subseteq asked'
    BY <1>0, <1>1 DEF ReceiveDeploy, TypeOK
  <2>4. QED
    BY <1>0, <1>1, <2>1, <2>2, <2>3, HttpKeeps DEF ReceiveDeploy, TypeOK
<1>2. CASE DeployPut
  <2>1. http.inst \in Instances /\ http.pc = "put" /\ job \in Documents /\ http \in HttpStates
    BY <1>0, <1>2 DEF DeployPut, TypeOK, Serving
  <2>2. job' \in Documents
    <3>1. [NoJob.list EXCEPT ![http.inst] = Fresh] \in [Instances -> Records]
      BY <2>1, AbsentTyped DEF NoJob
    <3>2. [job EXCEPT !.list[http.inst] = Fresh] \in Documents
      BY <2>1, AbsentTyped DEF Documents
    <3>3. [exists |-> TRUE, running |-> FALSE,
           list |-> [NoJob.list EXCEPT ![http.inst] = Fresh]] \in Documents
      BY <3>1 DEF Documents
    <3>4. QED
      BY <1>2, <2>1, <3>2, <3>3 DEF DeployPut
  <2>3. http' \in HttpStates /\ http'.pc \in {"ask", "idle"}
        /\ (http'.pc = "ask" => http'.inst = http.inst)
    BY <1>2, <2>1, HttpIdleTyped, AbsentTyped DEF DeployPut, HttpStates, HttpPc
  <2>4. QED
    BY <1>0, <1>2, <2>1, <2>2, <2>3, HttpKeeps DEF DeployPut, TypeOK, env
<1>3. CASE DeployAsk
  <2>1. /\ sched' \in [Instances -> Nat] /\ losses' \in Nat
    BY <1>0, <1>3, AskTyped DEF DeployAsk, TypeOK, Serving
  <2>2. QED
    BY <1>0, <1>3, <2>1, HttpIdleTyped, HttpKeeps DEF DeployAsk, TypeOK
<1>4. QED
  BY <1>1, <1>2, <1>3

\* It serves a delete request.
LEMMA DeletionStep ==
  ASSUME JobInv, (\E S \in SUBSET Instances : ReceiveDelete(S)) \/ DeletePull \/ DeleteEnd
  PROVE  JobInv'
<1>0. TypeOK /\ Serving /\ ReadsReal /\ HttpSeesExistence
  BY DEF JobInv
<1>1. ASSUME NEW S \in SUBSET Instances, ReceiveDelete(S) PROVE JobInv'
  <2>1. asked' \subseteq Instances /\ erased' \subseteq asked'
    BY <1>0, <1>1 DEF ReceiveDelete, TypeOK
  <2>2. CASE job.exists
    <3>1. http' \in HttpStates /\ http'.pc = "pull" /\ http'.snap = job
      BY <1>0, <1>1, <2>2, HttpIdleTyped, AbsentTyped
         DEF ReceiveDelete, TypeOK, HttpStates, HttpIdle, HttpPc
    <3>2. QED
      BY <1>0, <1>1, <2>1, <2>2, <3>1, HttpKeeps DEF ReceiveDelete, TypeOK
  <2>3. CASE ~job.exists
    BY <1>0, <1>1, <2>1, <2>3, HttpKeeps DEF ReceiveDelete, TypeOK
  <2>4. QED
    BY <2>2, <2>3
<1>2. CASE DeletePull
  <2>1. PICK i \in http.todo :
          /\ Delete(http.snap.list[i].worker, i)
          /\ job' = [job EXCEPT !.list[i] = Absent]
          /\ http' = [http EXCEPT !.todo = @ \ {i}]
    BY <1>2 DEF DeletePull
  <2>2. i \in Instances /\ http.snap.list[i].worker \in Nodes \cup {NoNode}
    BY <1>0 DEF TypeOK, HttpStates, Documents, Records
  <2>3. toNode' \subseteq Commands
    BY <1>0, <2>1, <2>2, DeleteTyped DEF TypeOK
  <2>4. job' \in Documents /\ job'.exists = job.exists
    BY <1>0, <2>1, <2>2, AbsentTyped DEF TypeOK, Documents
  <2>5. http' \in HttpStates /\ http'.pc = "pull" /\ http'.snap = http.snap
    BY <1>0, <1>2, <2>1 DEF TypeOK, HttpStates, DeletePull
  <2>6. QED
    BY <1>0, <1>2, <2>3, <2>4, <2>5, HttpKeeps
       DEF DeletePull, TypeOK, ReadsReal, HttpSeesExistence, env
<1>3. CASE DeleteEnd
  BY <1>0, <1>3, HttpIdleTyped, AbsentTyped, HttpKeeps DEF DeleteEnd, TypeOK, env
<1>4. QED
  BY <1>1, <1>2, <1>3

\* It serves a scheduling result.
LEMMA ResultStep ==
  ASSUME JobInv,
         \/ \E i \in Instances, n \in Nodes : ReceiveResult(i, n)
         \/ ResultInstance \/ ResultGet \/ ResultStatus \/ ResultCheck \/ ResultPublish
  PROVE  JobInv'
<1>0. TypeOK /\ Serving /\ ReadsReal /\ HttpSeesExistence
  BY DEF JobInv
<1>1. ASSUME NEW i \in Instances, NEW n \in Nodes, ReceiveResult(i, n) PROVE JobInv'
  <2>1. /\ http' \in HttpStates /\ http'.pc = (IF job.exists THEN "r_inst" ELSE "r_get")
        /\ http'.inst = i /\ http'.node = n /\ http'.snap = job
    BY <1>0, <1>1, AbsentTyped DEF ReceiveResult, HttpStates, HttpIdle, HttpPc, TypeOK
  <2>2. /\ sched[i] > 0
        /\ UNCHANGED <<job, mqtt, agg, red, inbox, toNode, sched, asked, erased, work, losses>>
    BY <1>1 DEF ReceiveResult, env
  <2>3. CASE job.exists
    BY <1>0, <2>1, <2>2, <2>3, HttpKeeps DEF TypeOK
  <2>4. CASE ~job.exists
    BY <1>0, <2>1, <2>2, <2>4, HttpKeeps DEF TypeOK
  <2>5. QED
    BY <2>3, <2>4
<1>2. CASE ResultInstance
  <2>1. /\ http.inst \in Instances /\ http.node \in Nodes /\ sched[http.inst] > 0
        /\ http \in HttpStates /\ http.snap \in Documents
    BY <1>0, <1>2 DEF ResultInstance, TypeOK, Serving, HttpStates
  <2>2. [Refreshed(http.snap, http.inst) EXCEPT !.worker = http.node] \in Records
    BY <2>1, RefreshedTyped DEF Records
  <2>3. job' \in Documents /\ job'.exists = job.exists
    BY <1>0, <1>2, <2>1, <2>2, PatchInstanceKeeps DEF ResultInstance, TypeOK
  <2>4. /\ http' \in HttpStates /\ http'.pc = "r_get"
        /\ http'.inst = http.inst /\ http'.node = http.node
    BY <1>2, <2>1, AbsentTyped DEF ResultInstance, HttpStates, HttpPc
  <2>5. QED
    BY <1>0, <1>2, <2>1, <2>3, <2>4, HttpKeeps DEF ResultInstance, TypeOK, env
<1>3. CASE ResultGet
  <2>1. /\ http.inst \in Instances /\ http.node \in Nodes /\ sched[http.inst] > 0
        /\ http \in HttpStates
    BY <1>0, <1>3 DEF ResultGet, TypeOK, Serving
  <2>2. /\ http' \in HttpStates /\ http'.pc = (IF job.exists THEN "r_status" ELSE "r_check")
        /\ http'.inst = http.inst /\ http'.node = http.node /\ http'.snap = job
    BY <1>0, <1>3, <2>1 DEF ResultGet, HttpStates, HttpPc, TypeOK
  <2>3. QED
    BY <1>0, <1>3, <2>1, <2>2, HttpKeeps DEF ResultGet, TypeOK, env
<1>4. CASE ResultStatus
  <2>1. /\ http.inst \in Instances /\ http.node \in Nodes /\ sched[http.inst] > 0
        /\ http \in HttpStates /\ http.snap \in Documents /\ http.snap.exists
    BY <1>0, <1>4 DEF ResultStatus, TypeOK, Serving, ReadsReal, HttpStates
  <2>2. job' \in Documents /\ job'.exists = job.exists
    BY <1>0, <1>4, <2>1, WithStatusTyped, PatchJobKeeps DEF ResultStatus, Statuses, TypeOK
  <2>3. /\ http' \in HttpStates /\ http'.pc = "r_check"
        /\ http'.inst = http.inst /\ http'.node = http.node
    BY <1>4, <2>1, AbsentTyped DEF ResultStatus, HttpStates, HttpPc
  <2>4. QED
    BY <1>0, <1>4, <2>1, <2>2, <2>3, HttpKeeps DEF ResultStatus, TypeOK, env
<1>5. CASE ResultCheck
  <2>1. /\ http.inst \in Instances /\ http.node \in Nodes /\ sched[http.inst] > 0
        /\ http \in HttpStates
    BY <1>0, <1>5 DEF ResultCheck, TypeOK, Serving
  <2>2. CASE job.exists
    <3>1. /\ http' \in HttpStates /\ http'.pc = "publish"
          /\ http'.inst = http.inst /\ http'.node = http.node
      BY <1>5, <2>1, <2>2 DEF ResultCheck, HttpStates, HttpPc
    <3>2. QED
      BY <1>0, <1>5, <2>1, <2>2, <3>1, HttpKeeps DEF ResultCheck, TypeOK, env
  <2>3. CASE ~job.exists
    <3>1. sched' \in [Instances -> Nat]
      BY <1>0, <1>5, <2>1, <2>3, SMTT(40) DEF ResultCheck, TypeOK
    <3>2. QED
      BY <1>0, <1>5, <2>3, <3>1, HttpIdleTyped, HttpKeeps DEF ResultCheck, TypeOK, env
  <2>4. QED
    BY <2>2, <2>3
<1>6. CASE ResultPublish
  <2>1. /\ http.inst \in Instances /\ http.node \in Nodes /\ sched[http.inst] > 0
    BY <1>0, <1>6 DEF ResultPublish, Serving
  <2>2. toNode' \subseteq Commands
    BY <1>0, <1>6, <2>1 DEF ResultPublish, TypeOK, Commands
  <2>3. sched' \in [Instances -> Nat]
    BY <1>0, <1>6, <2>1 DEF ResultPublish, TypeOK
  <2>4. losses' \in Nat
    BY <1>0, <1>6 DEF ResultPublish, TypeOK
  <2>5. QED
    BY <1>0, <1>6, <2>2, <2>3, <2>4, HttpIdleTyped, HttpKeeps DEF ResultPublish, TypeOK
<1>7. QED
  BY <1>1, <1>2, <1>3, <1>4, <1>5, <1>6

\* A step of another thread or of a worker keeps what the HTTP worker relies on if the
\* job is not created or deleted and no pending request is taken away.
LEMMA OthersKeep ==
  ASSUME JobInv,
         UNCHANGED <<http, asked, erased>>,
         job' \in Documents, job'.exists = job.exists,
         mqtt' \in MqttStates, agg' \in AggStates, red' \in [Threads -> RedStates],
         inbox' \in Seq(Messages), toNode' \subseteq Commands,
         sched' \in [Instances -> Nat], losses' \in Nat,
         \A j \in Instances : sched[j] > 0 => sched'[j] > 0,
         work' \in [Nodes -> [Instances -> {"none", "starting", "running", "stopping"}]],
         mqtt'.pc # "idle" => inbox' # <<>>,
         agg'.pc = "inst" => agg'.inst \in Instances,
         \A th \in Threads : red'[th].pc # "idle" => red'[th].inst \in Instances,
         mqtt'.pc = "status" => mqtt'.snap.exists,
         \A th \in Threads :
           red'[th].pc = "status" /\ red'[th].key = <<>> => red'[th].snap.exists
  PROVE  Kept
BY DEF Kept, JobInv, TypeOK, Serving, ReadsReal, HttpSeesExistence

\* The MQTT loop ends the message it works on.
LEMMA MqttDoneTyped ==
  ASSUME inbox \in Seq(Messages), inbox # <<>>, toNode \subseteq Commands,
         NEW applied \in BOOLEAN, MqttDone(applied)
  PROVE  /\ inbox' \in Seq(Messages) /\ toNode' \subseteq Commands
         /\ mqtt' \in MqttStates /\ mqtt'.pc = "idle"
<1>1. Head(inbox) \in Messages /\ Tail(inbox) \in Seq(Messages)
  OBVIOUS
<1>2. MqttIdle \in MqttStates /\ MqttIdle.pc = "idle"
  BY AbsentTyped DEF MqttIdle, MqttStates, MqttPc
<1>3. toNode' \subseteq Commands
  BY <1>1, DeleteTyped DEF MqttDone, Messages
<1>4. QED
  BY <1>1, <1>2, <1>3 DEF MqttDone

\* The MQTT loop serves a message.
LEMMA MqttLoopStep == ASSUME JobInv, MqttStep PROVE Kept
<1>0. TypeOK /\ Serving /\ ReadsReal
  BY DEF JobInv
<1>1. inbox \in Seq(Messages) /\ job \in Documents /\ mqtt \in MqttStates
  BY <1>0 DEF TypeOK
<1>2. inbox # <<>>
  BY <1>0, Zenon DEF MqttStep, MqttTake, MqttStatus, MqttGet, MqttInstance, Serving
<1>3. Head(inbox).inst \in Instances /\ Head(inbox).status \in Statuses
  <2>1. Head(inbox) \in Messages
    BY <1>1, <1>2
  <2>2. QED
    BY <2>1 DEF Messages, Statuses
<1>4. ASSUME UNCHANGED <<http, agg, red, sched, asked, erased, work, losses>>,
             job' \in Documents, job'.exists = job.exists,
             mqtt' \in MqttStates, inbox' \in Seq(Messages), toNode' \subseteq Commands,
             mqtt'.pc # "idle" => inbox' # <<>>, mqtt'.pc = "status" => mqtt'.snap.exists
      PROVE  Kept
  BY <1>0, <1>4, OthersKeep DEF TypeOK, Serving, ReadsReal
<1>5. CASE MqttTake
  <2>1. CASE job.exists
    <3>1. mqtt' \in MqttStates /\ (mqtt'.pc = "status" => mqtt'.snap = job)
      BY <1>1, <1>5, <2>1, AbsentTyped DEF MqttTake, MqttStates, MqttPc, MqttIdle
    <3>2. QED
      BY <1>0, <1>1, <1>2, <1>4, <1>5, <2>1, <3>1 DEF MqttTake, TypeOK, env
  <2>2. CASE ~job.exists
    <3>1. MqttDone(FALSE)
      BY <1>5, <2>2 DEF MqttTake
    <3>2. QED
      BY <1>0, <1>1, <1>2, <1>4, <1>5, <3>1, MqttDoneTyped DEF MqttTake, TypeOK, env
  <2>3. QED
    BY <2>1, <2>2
<1>6. CASE MqttStatus
  <2>1. mqtt.snap \in Documents /\ mqtt.snap.exists
    BY <1>0, <1>1, <1>6 DEF MqttStatus, ReadsReal, MqttStates
  <2>2. job' \in Documents /\ job'.exists = job.exists
    BY <1>1, <1>3, <1>6, <2>1, WithStatusTyped, PatchJobKeeps DEF MqttStatus
  <2>3. mqtt' \in MqttStates /\ mqtt'.pc = "get"
    BY <1>6, AbsentTyped DEF MqttStatus, MqttStates, MqttPc, MqttIdle
  <2>4. QED
    BY <1>0, <1>1, <1>2, <1>4, <1>6, <2>2, <2>3 DEF MqttStatus, TypeOK, env
<1>7. CASE MqttGet
  <2>1. CASE job.exists
    <3>1. mqtt' \in MqttStates /\ mqtt'.pc = "inst"
      BY <1>1, <1>7, <2>1 DEF MqttGet, MqttStates, MqttPc
    <3>2. QED
      BY <1>0, <1>1, <1>2, <1>4, <1>7, <2>1, <3>1 DEF MqttGet, TypeOK, env
  <2>2. CASE ~job.exists
    <3>1. MqttDone(FALSE)
      BY <1>7, <2>2 DEF MqttGet
    <3>2. QED
      BY <1>0, <1>1, <1>2, <1>4, <1>7, <3>1, MqttDoneTyped DEF MqttGet, TypeOK, env
  <2>3. QED
    BY <2>1, <2>2
<1>8. CASE MqttInstance
  <2>1. Refreshed(mqtt.snap, Head(inbox).inst) \in Records
    BY <1>1, <1>3, RefreshedTyped DEF MqttStates
  <2>2. job' \in Documents /\ job'.exists = job.exists
    BY <1>1, <1>3, <1>8, <2>1, PatchInstanceKeeps DEF MqttInstance
  <2>3. Present(job, Head(inbox).inst) \in BOOLEAN
    BY DEF Present
  <2>4. /\ inbox' \in Seq(Messages) /\ toNode' \subseteq Commands
        /\ mqtt' \in MqttStates /\ mqtt'.pc = "idle"
    BY <1>0, <1>1, <1>2, <1>8, <2>3, MqttDoneTyped DEF MqttInstance, TypeOK
  <2>5. QED
    BY <1>4, <1>8, <2>2, <2>4 DEF MqttInstance, env
<1>9. QED
  BY <1>5, <1>6, <1>7, <1>8 DEF MqttStep

\* The aggregation job marks instances as FAILED.
LEMMA AggregationStep ==
  ASSUME JobInv, (\E stale \in SUBSET Silent : AggRead(stale)) \/ AggStep
  PROVE  Kept
<1>0. TypeOK /\ Serving /\ ReadsReal
  BY DEF JobInv
<1>1. job \in Documents /\ agg \in AggStates
  BY <1>0 DEF TypeOK
<1>2. AggIdle \in AggStates /\ AggIdle.pc = "idle"
  BY AbsentTyped DEF AggIdle, AggStates, AggPc
<1>3. ASSUME UNCHANGED <<http, mqtt, red, inbox, toNode, sched, asked, erased, work, losses>>,
             job' \in Documents, job'.exists = job.exists, agg' \in AggStates,
             agg'.pc = "inst" => agg'.inst \in Instances
      PROVE  Kept
  BY <1>0, <1>3, OthersKeep DEF TypeOK, Serving, ReadsReal
<1>4. ASSUME NEW stale \in SUBSET Silent, AggRead(stale) PROVE Kept
  <2>1. PICK reached \in SUBSET stale, null \in BOOLEAN :
          agg' = [AggIdle EXCEPT !.pc = "next", !.todo = reached, !.broken = null]
    BY <1>4 DEF AggRead
  <2>3. agg' \in AggStates /\ agg'.pc = "next"
    BY <1>2, <2>1, ClusterAssumption, AbsentTyped DEF AggStates, AggPc, AggIdle
  <2>2. QED
    BY <1>1, <1>3, <1>4, <2>3 DEF AggRead, env
<1>5. CASE AggGet
  <2>1. agg' \in AggStates /\ (agg'.pc = "inst" => agg'.inst \in Instances)
    BY <1>1, <1>5, ZenonT(60) DEF AggGet, AggStates, AggPc
  <2>2. QED
    BY <1>1, <1>3, <1>5, <2>1 DEF AggGet, env
<1>6. CASE AggInstance
  <2>1. agg.inst \in Instances /\ agg.snap \in Documents
    BY <1>0, <1>1, <1>6 DEF AggInstance, AggStates, Serving
  <2>2. [Refreshed(agg.snap, agg.inst) EXCEPT !.status = "FAILED"] \in Records
    BY <2>1, RefreshedTyped DEF Records, Statuses, Reported
  <2>3. job' \in Documents /\ job'.exists = job.exists
    BY <1>1, <1>6, <2>1, <2>2, PatchInstanceKeeps DEF AggInstance
  <2>4. agg' \in AggStates /\ agg'.pc = "next"
    BY <1>1, <1>6, AbsentTyped DEF AggInstance, AggStates, AggPc
  <2>5. QED
    BY <1>3, <1>6, <2>3, <2>4 DEF AggInstance, env
<1>7. CASE AggEnd
  <2>1. job' \in Documents /\ job'.exists = job.exists
    BY <1>1, <1>7 DEF AggEnd, Documents
  <2>2. QED
    BY <1>2, <1>3, <1>7, <2>1 DEF AggEnd, env
<1>8. QED
  BY <1>4, <1>5, <1>6, <1>7 DEF AggStep

\* The document under the shared path of a round of re-deployments.
LEMMA ReadTyped ==
  ASSUME job \in Documents, NEW path
  PROVE  Read(path) \in Documents /\ Read(path).exists = job.exists
BY AbsentTyped DEF Read, Documents

LEMMA RedIdleTyped == RedIdle \in RedStates /\ RedIdle.pc = "idle"
BY AbsentTyped DEF RedIdle, RedStates, RedPc

\* A thread that starts, one that moves on, and one whose shared path changes.
LEMMA RedStarts ==
  ASSUME NEW i \in Instances, NEW M \in SUBSET Threads
  PROVE  /\ [RedIdle EXCEPT !.pc = "delete", !.mates = M, !.inst = i] \in RedStates
         /\ [RedIdle EXCEPT !.pc = "delete", !.mates = M, !.inst = i].pc = "delete"
         /\ [RedIdle EXCEPT !.pc = "delete", !.mates = M, !.inst = i].inst = i
BY RedIdleTyped DEF RedStates, RedPc

LEMMA RedMoves ==
  ASSUME NEW r \in RedStates, NEW p \in RedPc
  PROVE  /\ [r EXCEPT !.pc = p] \in RedStates
         /\ [r EXCEPT !.pc = p].pc = p /\ [r EXCEPT !.pc = p].inst = r.inst
BY DEF RedStates

LEMMA RedRenamed ==
  ASSUME NEW r \in RedStates, NEW path \in Seq(Instances),
         NEW s, s = [r EXCEPT !.path = path]
  PROVE  /\ s \in RedStates /\ s.pc = r.pc /\ s.inst = r.inst
         /\ s.key = r.key /\ s.snap = r.snap
BY DEF RedStates

\* A round of the re-deploy job starts threads, a thread goes on.
LEMMA RedeployStep ==
  ASSUME JobInv, RedRound \/ \E th \in Threads : RedStep(th)
  PROVE  Kept
<1>0. TypeOK /\ Serving /\ ReadsReal
  BY DEF JobInv
<1>1. job \in Documents /\ red \in [Threads -> RedStates]
  BY <1>0 DEF TypeOK
<1>2. ASSUME UNCHANGED <<http, mqtt, agg, inbox, asked, erased, work>>,
             job' \in Documents, job'.exists = job.exists, red' \in [Threads -> RedStates],
             toNode' \subseteq Commands, sched' \in [Instances -> Nat], losses' \in Nat,
             \A j \in Instances : sched[j] > 0 => sched'[j] > 0,
             \A th \in Threads :
               \/ red'[th].pc = "idle"
               \/ /\ red'[th].inst \in Instances
                  /\ red'[th].pc = "status" /\ red'[th].key = <<>> => red'[th].snap.exists
      PROVE  Kept
  <2>1. /\ \A th \in Threads : red'[th].pc # "idle" => red'[th].inst \in Instances
        /\ \A th \in Threads :
             red'[th].pc = "status" /\ red'[th].key = <<>> => red'[th].snap.exists
    BY <1>2
  <2>2. QED
    BY <1>0, <1>2, <2>1, OthersKeep DEF TypeOK, Serving, ReadsReal
<1>3. \A th \in Threads :
        \/ red[th].pc = "idle"
        \/ /\ red[th].inst \in Instances
           /\ red[th].pc = "status" /\ red[th].key = <<>> => red[th].snap.exists
  BY <1>0 DEF Serving, ReadsReal
<1>4. CASE RedRound
  <2>1. PICK f \in [Failed(job) -> {th \in Threads : red[th].pc = "idle"}] :
          red' = [th \in Threads |->
                    IF th \in {f[i] : i \in Failed(job)}
                    THEN [RedIdle EXCEPT !.pc = "delete", !.mates = {f[i] : i \in Failed(job)},
                                         !.inst = CHOOSE i \in Failed(job) : f[i] = th]
                    ELSE red[th]]
    BY <1>4 DEF RedRound
  <2>2. ASSUME NEW th \in Threads, th \in {f[i] : i \in Failed(job)}
        PROVE  red'[th] \in RedStates /\ red'[th].pc = "delete" /\ red'[th].inst \in Instances
    <3>1. (CHOOSE i \in Failed(job) : f[i] = th) \in Instances
      BY <2>2 DEF Failed
    <3>2. {f[i] : i \in Failed(job)} \in SUBSET Threads
      BY <2>1
    <3>3. red'[th] = [RedIdle EXCEPT !.pc = "delete", !.mates = {f[i] : i \in Failed(job)},
                                     !.inst = CHOOSE i \in Failed(job) : f[i] = th]
      BY <2>1, <2>2
    <3>4. PICK i \in Instances, M \in SUBSET Threads :
            red'[th] = [RedIdle EXCEPT !.pc = "delete", !.mates = M, !.inst = i]
      BY <3>1, <3>2, <3>3, Zenon
    <3> DEFINE r == [RedIdle EXCEPT !.pc = "delete", !.mates = M, !.inst = i]
    <3>5. r \in RedStates /\ r.pc = "delete" /\ r.inst \in Instances
      BY RedStarts
    <3>6. red'[th] = r
      BY <3>4
    <3> HIDE DEF r
    <3>7. QED
      BY <3>5, <3>6
  <2>3. ASSUME NEW th \in Threads, th \notin {f[i] : i \in Failed(job)}
        PROVE  red'[th] = red[th]
    BY <2>1, <2>3
  <2>4. red' \in [Threads -> RedStates]
    <3>1. \A th \in Threads : red'[th] \in RedStates
      BY <1>1, <2>2, <2>3
    <3>2. QED
      BY <2>1, <3>1
  <2>5. \A th \in Threads :
          \/ red'[th].pc = "idle"
          \/ /\ red'[th].inst \in Instances
             /\ red'[th].pc = "status" /\ red'[th].key = <<>> => red'[th].snap.exists
    BY <1>3, <2>2, <2>3
  <2>6. UNCHANGED <<job, http, mqtt, agg, inbox, toNode, sched, asked, erased, work, losses>>
    BY <1>4 DEF RedRound, env
  <2>7. QED
    BY <1>0, <1>1, <1>2, <2>4, <2>5, <2>6 DEF TypeOK
<1>5. ASSUME NEW th \in Threads, RedDelete(th) PROVE Kept
  <2>1. /\ red[th] \in RedStates /\ red[th].inst \in Instances
    BY <1>1, <1>3, <1>5 DEF RedDelete
  <2>2. Read(red[th].path).list[red[th].inst].worker \in Nodes \cup {NoNode}
    BY <1>1, <2>1, ReadTyped DEF Documents, Records
  <2>3. toNode' \subseteq Commands
    <3>1. toNode \subseteq Commands
      BY <1>0 DEF TypeOK
    <3>2. \/ UNCHANGED toNode
          \/ Delete(Read(red[th].path).list[red[th].inst].worker, red[th].inst)
      BY <1>5, Zenon DEF RedDelete
    <3>3. QED
      BY <2>1, <2>2, <3>1, <3>2, DeleteTyped
  <2>4. /\ \A m \in Threads : m # th => red'[m] = red[m]
        /\ red'[th] = [red[th] EXCEPT !.pc = "get"] \/ red'[th] = RedIdle
        /\ red' = [m \in Threads |-> red'[m]]
    BY <1>1, <1>5 DEF RedDelete
  <2>5. /\ red'[th] \in RedStates
        /\ red'[th].pc = "idle" \/ (red'[th].pc = "get" /\ red'[th].inst \in Instances)
    <3>1. CASE red'[th] = [red[th] EXCEPT !.pc = "get"]
      <4>1. "get" \in RedPc
        BY DEF RedPc
      <4>2. QED
        BY <2>1, <3>1, <4>1, RedMoves
    <3>2. CASE red'[th] = RedIdle
      <4>1. red'[th] \in RedStates
        BY <3>2, RedIdleTyped
      <4>2. red'[th].pc = "idle"
        BY <3>2, RedIdleTyped
      <4>3. QED
        BY <4>1, <4>2
    <3>3. QED
      BY <2>4, <3>1, <3>2
  <2>6. red' \in [Threads -> RedStates]
    <3>1. \A m \in Threads : red'[m] \in RedStates
      BY <1>1, <2>4, <2>5
    <3>2. QED
      BY <2>4, <3>1
  <2>7. \A m \in Threads :
          \/ red'[m].pc = "idle"
          \/ /\ red'[m].inst \in Instances
             /\ red'[m].pc = "status" /\ red'[m].key = <<>> => red'[m].snap.exists
    BY <1>3, <2>4, <2>5
  <2>8. UNCHANGED <<job, http, mqtt, agg, inbox, sched, asked, erased, work, losses>>
    BY <1>5 DEF RedDelete, env
  <2>9. QED
    BY <1>0, <1>1, <1>2, <2>3, <2>6, <2>7, <2>8 DEF TypeOK
<1>6. ASSUME NEW th \in Threads, RedGet(th) PROVE Kept
  <2>1. /\ red[th] \in RedStates /\ red[th].inst \in Instances
    BY <1>1, <1>3, <1>6 DEF RedGet
  <2>2. red[th].path = <<>> /\ Found(red[th].path) => Read(red[th].path).exists
    BY <1>1, ReadTyped DEF Found
  <2>3. \A m \in Threads : m # th => red'[m] = red[m]
    BY <1>1, <1>6 DEF RedGet
  <2>4. /\ red'[th].pc = (IF Found(red[th].path) THEN "status" ELSE "ask")
        /\ red'[th].key = red[th].path /\ red'[th].inst = red[th].inst
        /\ red'[th].snap = (IF Found(red[th].path) THEN Read(red[th].path) ELSE NoJob)
    BY <1>1, <1>6, <2>1 DEF RedGet, RedStates
  <2>5. red' \in [Threads -> RedStates]
    BY <1>1, <1>6, <2>1, ReadTyped, AbsentTyped DEF RedGet, RedStates, RedPc
  <2>6. \A m \in Threads :
          \/ red'[m].pc = "idle"
          \/ /\ red'[m].inst \in Instances
             /\ red'[m].pc = "status" /\ red'[m].key = <<>> => red'[m].snap.exists
    BY <1>3, <2>1, <2>2, <2>3, <2>4
  <2>7. UNCHANGED <<job, http, mqtt, agg, inbox, toNode, sched, asked, erased, work, losses>>
    BY <1>6 DEF RedGet, env
  <2>8. QED
    BY <1>0, <1>1, <1>2, <2>5, <2>6, <2>7 DEF TypeOK
<1>7. ASSUME NEW th \in Threads, RedStatus(th) PROVE Kept
  <2>1. /\ red[th] \in RedStates /\ red[th].inst \in Instances /\ red[th].pc = "status"
        /\ red[th].snap \in Documents /\ red[th].key \in Seq(Instances)
    BY <1>1, <1>3, <1>7 DEF RedStatus, RedStates
  <2>2. job' \in Documents /\ job'.exists = job.exists
    <3>1. CASE red[th].key = <<>>
      <4>1. red[th].snap.exists /\ PatchJob(WithStatus(red[th].snap, red[th].inst, "REQUESTED"))
        BY <1>3, <1>7, <2>1, <3>1 DEF RedStatus
      <4>2. QED
        BY <1>1, <2>1, <4>1, WithStatusTyped, PatchJobKeeps DEF Statuses
    <3>2. CASE red[th].key # <<>>
      <4>1. Head(red[th].key) \in Instances
        BY <2>1, <3>2
      <4>2. [status |-> "REQUESTED", worker |-> NoNode, seen |-> "null"] \in Records
        BY DEF Records, Statuses, Seen
      <4>3. QED
        BY <1>1, <1>7, <3>2, <4>1, <4>2, PatchInstanceKeeps DEF RedStatus
    <3>3. QED
      BY <3>1, <3>2
  <2>3. red' \in [Threads -> RedStates]
    <3>1. [red[th] EXCEPT !.pc = "ask", !.key = <<>>, !.snap = NoJob] \in RedStates
      <4>1. \A k \in Seq(Instances), d \in Documents :
              [red[th] EXCEPT !.pc = "ask", !.key = k, !.snap = d] \in RedStates
        BY <2>1 DEF RedStates, RedPc
      <4>2. <<>> \in Seq(Instances)
        OBVIOUS
      <4>3. QED
        BY <4>1, <4>2, AbsentTyped
    <3>2. red' = [red EXCEPT ![th] = [red[th] EXCEPT !.pc = "ask", !.key = <<>>, !.snap = NoJob]]
      BY <1>1, <1>7 DEF RedStatus
    <3>3. QED
      BY <1>1, <3>1, <3>2
  <2>4. \A m \in Threads :
          \/ red'[m].pc = "idle"
          \/ /\ red'[m].inst \in Instances
             /\ red'[m].pc = "status" /\ red'[m].key = <<>> => red'[m].snap.exists
    BY <1>1, <1>3, <1>7, <2>1 DEF RedStatus, RedStates
  <2>5. QED
    BY <1>0, <1>1, <1>2, <1>7, <2>2, <2>3, <2>4 DEF RedStatus, TypeOK, env
<1>8. ASSUME NEW th \in Threads, RedAsk(th) PROVE Kept
  <2> DEFINE path == Append(red[th].path, red[th].inst)
  <2>1. /\ red[th] \in RedStates /\ red[th].inst \in Instances
    BY <1>1, <1>3, <1>8 DEF RedAsk
  <2>2. path \in Seq(Instances) /\ Head(path) \in Instances
    BY <2>1 DEF RedStates
  <2>3. /\ sched' \in [Instances -> Nat] /\ losses' \in Nat
        /\ \A j \in Instances : sched[j] > 0 => sched'[j] > 0
    BY <1>0, <1>8, <2>2, AskTyped DEF RedAsk, TypeOK
  <2>4. \A m \in Threads :
          red'[m] \in {RedIdle, red[m], [red[m] EXCEPT !.path = path]}
    BY <1>8 DEF RedAsk
  <2>5. \A m \in Threads : red'[m] \in RedStates
    BY <1>1, <2>2, <2>4, RedIdleTyped, RedRenamed, ZenonT(60)
  <2>6. red' \in [Threads -> RedStates]
    BY <1>8, <2>5 DEF RedAsk
  <2>7. \A m \in Threads :
          \/ red'[m].pc = "idle"
          \/ /\ red'[m].inst \in Instances
             /\ red'[m].pc = "status" /\ red'[m].key = <<>> => red'[m].snap.exists
    <3> SUFFICES ASSUME NEW m \in Threads
                 PROVE  \/ red'[m].pc = "idle"
                        \/ /\ red'[m].inst \in Instances
                           /\ red'[m].pc = "status" /\ red'[m].key = <<>>
                                => red'[m].snap.exists
      OBVIOUS
    <3>1. CASE red'[m] = RedIdle
      BY <3>1, RedIdleTyped
    <3>2. CASE red'[m] = red[m]
      BY <1>3, <3>2
    <3>3. CASE red'[m] = [red[m] EXCEPT !.path = path]
      <4>1. red[m] \in RedStates
        BY <1>1
      <4>2. /\ red'[m].pc = red[m].pc /\ red'[m].inst = red[m].inst
            /\ red'[m].key = red[m].key /\ red'[m].snap = red[m].snap
        BY <2>2, <3>3, <4>1, RedRenamed
      <4>3. QED
        BY <1>3, <4>2
    <3>4. QED
      BY <2>4, <3>1, <3>2, <3>3
  <2>8. UNCHANGED <<job, http, mqtt, agg, inbox, toNode, asked, erased, work>>
    BY <1>8 DEF RedAsk
  <2>9. QED
    BY <1>0, <1>1, <1>2, <2>3, <2>6, <2>7, <2>8 DEF TypeOK
<1>9. QED
  BY <1>4, <1>5, <1>6, <1>7, <1>8 DEF RedStep

\* The workers and the broker do not touch the manager's state.
LEMMA EnvironmentStep ==
  ASSUME JobInv,
         \/ \E n \in Nodes, i \in Instances :
              \/ NodeDeploy(n, i) \/ NodeStart(n, i) \/ NodeReport(n, i) \/ NodeExit(n, i)
              \/ NodeDelete(n, i) \/ NodeStopped(n, i)
         \/ \E n \in Nodes : NodeLost(n)
         \/ CommandLost
  PROVE  Kept
<1>0. TypeOK /\ Serving /\ ReadsReal
  BY DEF JobInv
<1>1. /\ inbox \in Seq(Messages) /\ toNode \subseteq Commands /\ losses \in Nat
      /\ work \in [Nodes -> [Instances -> {"none", "starting", "running", "stopping"}]]
  BY <1>0 DEF TypeOK
<1>2. ASSUME UNCHANGED <<job, http, mqtt, agg, red, sched, asked, erased>>,
             inbox' = inbox \/ (\E m \in Messages : inbox' = Append(inbox, m)),
             toNode' \subseteq Commands, losses' \in Nat,
             work' \in [Nodes -> [Instances -> {"none", "starting", "running", "stopping"}]]
      PROVE  Kept
  <2>1. inbox' \in Seq(Messages) /\ (inbox # <<>> => inbox' # <<>>)
    BY <1>1, <1>2
  <2>2. QED
    BY <1>0, <1>2, <2>1, OthersKeep DEF TypeOK, Serving, ReadsReal
<1>3. \A i \in Instances, s \in Reported : Status(i, s) \in Messages
  BY DEF Status, Messages
<1>4. ASSUME NEW n \in Nodes, NEW i \in Instances, NodeDeploy(n, i) PROVE Kept
  BY <1>1, <1>2, <1>3, <1>4 DEF NodeDeploy, Publish, Reported
<1>5. ASSUME NEW n \in Nodes, NEW i \in Instances, NodeStart(n, i) PROVE Kept
  BY <1>1, <1>2, <1>3, <1>5 DEF NodeStart, Publish, Reported
<1>6. ASSUME NEW n \in Nodes, NEW i \in Instances, NodeReport(n, i) PROVE Kept
  <2>1. [kind |-> "resources", node |-> n, inst |-> i,
         status |-> IF work[n][i] = "running" THEN "RUNNING" ELSE "INSTANTIATION"] \in Messages
    BY DEF Messages, Reported
  <2>2. QED
    BY <1>1, <1>2, <1>6, <2>1 DEF NodeReport, Publish, env
<1>7. ASSUME NEW n \in Nodes, NEW i \in Instances, NodeExit(n, i) \/ NodeStopped(n, i)
      PROVE  Kept
  <2>1. CASE NodeExit(n, i)
    BY <1>1, <1>2, <1>3, <2>1 DEF NodeExit, Publish, Reported
  <2>2. CASE NodeStopped(n, i)
    BY <1>1, <1>2, <1>3, <2>2 DEF NodeStopped, Publish, Reported
  <2>3. QED
    BY <1>7, <2>1, <2>2
<1>8. ASSUME NEW n \in Nodes, NEW i \in Instances, NodeDelete(n, i) PROVE Kept
  <2>1. toNode' \subseteq Commands
    BY <1>1, <1>8 DEF NodeDelete
  <2>2. work' \in [Nodes -> [Instances -> {"none", "starting", "running", "stopping"}]]
    BY <1>1, <1>8 DEF NodeDelete
  <2>3. inbox' = inbox \/ inbox' = Append(inbox, Status(i, "UNDEPLOYED"))
    BY <1>8, Zenon DEF NodeDelete, Publish
  <2>4. QED
    BY <1>1, <1>2, <1>3, <1>8, <2>1, <2>2, <2>3 DEF NodeDelete, Reported
<1>9. ASSUME NEW n \in Nodes, NodeLost(n) PROVE Kept
  BY <1>1, <1>2, <1>9 DEF NodeLost
<1>10. CASE CommandLost
  BY <1>1, <1>2, <1>10 DEF CommandLost
<1>11. QED
  BY <1>4, <1>5, <1>6, <1>7, <1>8, <1>9, <1>10

-------------------------------------------------------------------------------
(* The theorems *)

LEMMA JobInvInit == Init => JobInv
<1> SUFFICES ASSUME Init PROVE JobInv
  OBVIOUS
<1>1. mqtt \in MqttStates /\ mqtt.pc = "idle"
  BY AbsentTyped DEF Init, MqttIdle, MqttStates, MqttPc
<1>2. agg \in AggStates /\ agg.pc = "idle"
  BY AbsentTyped DEF Init, AggIdle, AggStates, AggPc
<1>3. red \in [Threads -> RedStates] /\ \A th \in Threads : red[th].pc = "idle"
  BY RedIdleTyped DEF Init
<1>4. http \in HttpStates /\ http.pc = "idle"
  BY HttpIdleTyped DEF Init
<1>5. TypeOK
  BY <1>1, <1>2, <1>3, <1>4, AbsentTyped DEF Init, TypeOK
<1>6. QED
  BY <1>1, <1>2, <1>3, <1>4, <1>5 DEF JobInv, Serving, ReadsReal, HttpSeesExistence

LEMMA JobInvStep == JobInv /\ [Next]_vars => JobInv'
<1> SUFFICES ASSUME JobInv, [Next]_vars PROVE JobInv'
  OBVIOUS
<1>1. CASE UNCHANGED vars
  BY <1>1 DEF vars, JobInv, TypeOK, Serving, ReadsReal, HttpSeesExistence
<1>2. ASSUME NEW S \in {{i} : i \in Instances} \cup {Instances}, ReceiveDelete(S) PROVE JobInv'
  <2>1. S \in SUBSET Instances
    OBVIOUS
  <2>2. QED
    BY <1>2, <2>1, DeletionStep
<1>3. CASE HttpStep
  BY <1>3, DeployStep, DeletionStep, ResultStep DEF HttpStep
<1>4. QED
  BY <1>1, <1>2, <1>3, DeployStep, ResultStep, MqttLoopStep, AggregationStep,
     RedeployStep, EnvironmentStep DEF Next, Kept

\* Every variable keeps its type whatever the threads overwrite: the document is well
\* formed, and no request is answered that the scheduler did not ask.
THEOREM JobsTyped == Spec => []TypeOK
<1>1. JobInv => TypeOK
  BY DEF JobInv
<1>2. QED
  BY <1>1, JobInvInit, JobInvStep, PTL DEF Spec

\* The HTTP worker's view of the job's existence stays right while it serves a request,
\* for any number of other threads writing old reads back.
THEOREM ExistenceSound == Spec => []HttpSeesExistence
<1>1. JobInv => HttpSeesExistence
  BY DEF JobInv
<1>2. QED
  BY <1>1, JobInvInit, JobInvStep, PTL DEF Spec

\* No thread but the HTTP worker creates or deletes the job.
LEMMA JobStaysDeletedStep ==
  ASSUME JobInv, Next, job.exists # job'.exists
  PROVE  IF job.exists THEN http.pc = "pull" ELSE http.pc = "put"
<1>0. TypeOK /\ Serving /\ ReadsReal
  BY DEF JobInv
<1>1. job \in Documents /\ http \in HttpStates
  BY <1>0 DEF TypeOK
<1>2. ASSUME UNCHANGED job PROVE FALSE
  BY <1>2
<1>3. ~Kept
  BY DEF Kept
<1>4. HttpStep
  <2>1. \A i \in Instances : ~ReceiveDeploy(i)
    BY <1>2 DEF ReceiveDeploy
  <2>2. \A S \in SUBSET Instances : ~ReceiveDelete(S)
    BY <1>2 DEF ReceiveDelete
  <2>3. \A i \in Instances, n \in Nodes : ~ReceiveResult(i, n)
    BY <1>2 DEF ReceiveResult
  <2>4. QED
    BY <1>3, <2>1, <2>2, <2>3, MqttLoopStep, AggregationStep, RedeployStep, EnvironmentStep
       DEF Next
<1>5. CASE DeployPut
  <2>1. http.pc = "put"
    BY <1>5 DEF DeployPut
  <2>2. job'.exists = TRUE \/ job'.exists = job.exists
    BY <1>1, <1>5 DEF DeployPut, Documents
  <2>3. job.exists \in BOOLEAN
    BY <1>1 DEF Documents
  <2>4. CASE job.exists = FALSE
    BY <2>1, <2>4
  <2>5. CASE job.exists = TRUE
    BY <2>2, <2>5
  <2>6. QED
    BY <2>3, <2>4, <2>5
<1>6. CASE DeleteEnd
  BY <1>1, <1>6, AbsentTyped DEF DeleteEnd, Documents
<1>7. CASE DeletePull
  <2>1. job'.exists = job.exists
    BY <1>1, <1>7 DEF DeletePull, Documents
  <2>2. QED
    BY <2>1
<1>8. CASE ResultInstance
  <2>1. job'.exists = job.exists
    BY <1>1, <1>8 DEF ResultInstance, PatchInstance, Documents
  <2>2. QED
    BY <2>1
<1>9. CASE ResultStatus
  <2>1. http.inst \in Instances /\ http.snap \in Documents /\ http.snap.exists
    BY <1>0, <1>1, <1>9 DEF ResultStatus, Serving, ReadsReal, HttpStates
  <2>2. job'.exists = job.exists
    BY <1>1, <1>9, <2>1, WithStatusTyped, PatchJobKeeps DEF ResultStatus, Statuses
  <2>3. QED
    BY <2>2
<1>10. CASE DeployAsk \/ ResultGet \/ ResultCheck \/ ResultPublish
  BY <1>2, <1>10 DEF DeployAsk, ResultGet, ResultCheck, ResultPublish
<1>11. QED
  BY <1>4, <1>5, <1>6, <1>7, <1>8, <1>9, <1>10 DEF HttpStep

\* A job appears only in a deploy request and disappears only in a delete request, for
\* any number of threads that write back what they read before.
THEOREM NoResurrection == Spec => JobStaysDeleted
<1>1. JobInv /\ [Next]_vars
        => [job.exists # job'.exists
              => IF job.exists THEN http.pc = "pull" ELSE http.pc = "put"]_vars
  BY JobStaysDeletedStep
<1>2. QED
  BY <1>1, JobInvInit, JobInvStep, PTL DEF Spec, JobStaysDeleted
===============================================================================
