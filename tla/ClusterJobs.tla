------------------------------ MODULE ClusterJobs ------------------------------
(***************************************************************************)
(* The job management of a cluster manager: one job document in the         *)
(* resource abstractor's database and the threads that read and write it.   *)
(*                                                                         *)
(*  - the HTTP worker (gunicorn runs one): deploy and delete requests from  *)
(*    the root, results from the cluster scheduler;                         *)
(*  - the MQTT loop: status messages and resource reports of the workers;   *)
(*  - the aggregation job, which marks silent instances as FAILED;          *)
(*  - the re-deploy job and the threads it starts.                          *)
(*                                                                         *)
(* One step is one call to the resource abstractor: everything between two  *)
(* calls is local to a thread, and what a thread read may be old when it    *)
(* writes.  Workers, the broker and the scheduler are the environment,      *)
(* modelled as far as the manager can tell.                                 *)
(*                                                                         *)
(* Simplifications.                                                         *)
(* - Jobs do not interact in this code, so there is one.                    *)
(* - An instance number is never used twice (the root counts upwards).      *)
(* - Of a timestamp only its presence is kept: whether it is older than the *)
(*   timeout is a choice when it is compared.                               *)
(* - FAILED stands for DEAD too: the manager treats them alike.             *)
(* - Of the job's own status only RUNNING is told apart.                    *)
(* - Calls to the resource abstractor do not fail.                          *)
(***************************************************************************)
EXTENDS Naturals, Sequences, FiniteSets

CONSTANTS
  Instances,  \* instance numbers of the job
  Nodes,      \* the workers
  NoNode,     \* an instance without a worker
  NoInst,     \* a thread that is about no instance
  Threads,    \* the re-deploy threads there can be at a time
  Erasable,   \* the instances the root may delete
  Silent,     \* the instances whose worker may be silent beyond the timeout
  MaxInbox,   \* bound on messages from workers that wait for the MQTT loop
  MaxPending, \* bound on scheduling requests pending for one instance
  MaxLosses   \* bound on lost or repeated messages and requests and lost workers

ASSUME ClusterAssumption ==
  /\ NoNode \notin Nodes /\ NoInst \notin Instances
  /\ Erasable \subseteq Instances /\ Silent \subseteq Instances
  /\ MaxInbox \in Nat /\ MaxPending \in Nat /\ MaxLosses \in Nat

VARIABLES
  job,    \* the job document
  http,   \* the HTTP worker: where it is and what it read
  mqtt,   \* the MQTT loop: likewise
  agg,    \* the aggregation job: likewise
  red,    \* thread -> a re-deploy thread: likewise
  inbox,  \* messages of the workers, in order of arrival
  toNode, \* commands on their way to the workers
  sched,  \* instance -> scheduling requests pending for it
  asked,  \* the instances the root asked to deploy
  erased, \* the instances the root asked to delete
  work,   \* what runs on the workers
  losses  \* how much was lost

vars == <<job, http, mqtt, agg, red, inbox, toNode, sched, asked, erased, work, losses>>
env  == <<asked, erased, work, losses>>

-------------------------------------------------------------------------------
(* The job document *)

Reported == {"INSTANTIATION", "CREATED", "RUNNING", "FAILED", "COMPLETED", "UNDEPLOYED"}
Statuses == Reported \cup {"CLUSTER_SCHEDULED", "REQUESTED", "NODE_SCHEDULED", "NONE"}

\* last_modified_timestamp: not in the record, null, or a time.
Seen == {"unset", "null", "time"}

Records == [status : Statuses \cup {"ABSENT"}, worker : Nodes \cup {NoNode}, seen : Seen]
Documents == [exists : BOOLEAN, running : BOOLEAN, list : [Instances -> Records]]

\* A place in the instance list that is not taken.
Absent == [status |-> "ABSENT", worker |-> NoNode, seen |-> "unset"]
Present(doc, i) == doc.list[i].status # "ABSENT"

\* The document before it is created and after it was deleted.
NoJob == [exists |-> FALSE, running |-> FALSE, list |-> [i \in Instances |-> Absent]]

\* The record the root sends with a deploy request.
Fresh == [status |-> "CLUSTER_SCHEDULED", worker |-> NoNode, seen |-> "unset"]

\* update_status: the document as read, with the status of one instance and the
\* status of the job, which is RUNNING only if all instances are.
WithStatus(doc, i, s) ==
  LET list == IF Present(doc, i) THEN [doc.list EXCEPT ![i].status = s] ELSE doc.list
      all == \A j \in Instances : list[j].status \in {"RUNNING", "ABSENT"}
  IN [doc EXCEPT !.list = list, !.running = s = "RUNNING" /\ (all \/ @)]

\* update_instance: the instance as read with new data and the present time.  An
\* instance that was not read consists of the new data alone.
Refreshed(doc, i) ==
  IF Present(doc, i) THEN [doc.list[i] EXCEPT !.seen = "time"]
                     ELSE [status |-> "NONE", worker |-> NoNode, seen |-> "time"]

\* Mutant: PATCH creates the document if it is missing.
PatchJobUpsert(doc) == job' = doc

\* PATCH of the whole document: there is no upsert.
PatchJob(doc) == job' = IF job.exists THEN doc ELSE job

\* PATCH of one instance: it has to be in the list.
PatchInstance(i, rec) ==
  job' = IF Present(job, i) THEN [job EXCEPT !.list[i] = rec] ELSE job

-------------------------------------------------------------------------------
(* Messages *)

Commands == [kind : {"deploy", "delete"}, node : Nodes, inst : Instances]
Messages == [kind : {"status", "resources"}, node : Nodes \cup {NoNode}, inst : Instances,
             status : Reported]

HttpPc == {"idle", "put", "ask", "pull", "r_inst", "r_get", "r_status", "r_check",
           "publish"}
MqttPc == {"idle", "status", "get", "inst"}
AggPc  == {"idle", "next", "inst"}
RedPc  == {"idle", "delete", "get", "status", "ask"}

HttpIdle == [pc |-> "idle", inst |-> NoInst, node |-> NoNode, todo |-> {},
             wipe |-> FALSE, snap |-> NoJob]
MqttIdle == [pc |-> "idle", snap |-> NoJob]
AggIdle  == [pc |-> "idle", inst |-> NoInst, todo |-> {}, broken |-> FALSE,
             snap |-> NoJob]
RedIdle  == [pc |-> "idle", inst |-> NoInst, mates |-> {}, path |-> <<>>,
             key |-> <<>>, snap |-> NoJob]

Init ==
  /\ job = NoJob
  /\ http = HttpIdle
  /\ mqtt = MqttIdle
  /\ agg = AggIdle
  /\ red = [th \in Threads |-> RedIdle]
  /\ inbox = <<>>
  /\ toNode = {}
  /\ sched = [i \in Instances |-> 0]
  /\ asked = {}
  /\ erased = {}
  /\ work = [n \in Nodes |-> [i \in Instances |-> "none"]]
  /\ losses = 0

\* mqtt_publish_edge_delete, for an instance that has a worker.
Delete(n, i) ==
  toNode' = toNode \cup (IF n = NoNode THEN {}
                         ELSE {[kind |-> "delete", node |-> n, inst |-> i]})

\* scheduler_request_deploy: the post arrives, or is lost and only logged.
Ask(i) ==
  \/ /\ sched[i] < MaxPending
     /\ sched' = [sched EXCEPT ![i] = @ + 1]
     /\ UNCHANGED losses
  \/ /\ losses < MaxLosses
     /\ losses' = losses + 1
     /\ UNCHANGED sched

-------------------------------------------------------------------------------
(* HTTP: deploy *)

\* deploy_job, create_new_job_instance: is the job known?  The root asks again if its
\* own scheduler repeats a result.
ReceiveDeploy(i) ==
  /\ http.pc = "idle"
  /\ \/ i \notin asked /\ UNCHANGED losses
     \/ i \in asked \ erased /\ losses < MaxLosses /\ losses' = losses + 1
  /\ asked' = asked \cup {i}
  /\ http' = [HttpIdle EXCEPT !.pc = "put", !.inst = i, !.snap = job]
  /\ UNCHANGED <<job, mqtt, agg, red, inbox, toNode, sched, erased, work>>

\* The job is created, or the instance appended to its list unless it is there.
DeployPut ==
  LET i == http.inst IN
  /\ http.pc = "put"
  /\ \/ /\ ~http.snap.exists
        /\ job' = [exists |-> TRUE, running |-> FALSE,
                   list |-> [NoJob.list EXCEPT ![i] = Fresh]]
        /\ http' = [http EXCEPT !.pc = "ask", !.snap = NoJob]
     \/ /\ http.snap.exists /\ job.exists /\ ~Present(job, i)
        /\ job' = [job EXCEPT !.list[i] = Fresh]
        /\ http' = [http EXCEPT !.pc = "ask", !.snap = NoJob]
     \/ /\ http.snap.exists /\ ~(job.exists /\ ~Present(job, i))
        /\ http' = HttpIdle
        /\ UNCHANGED job
  /\ UNCHANGED <<mqtt, agg, red, inbox, toNode, sched, env>>

DeployAsk ==
  /\ http.pc = "ask"
  /\ Ask(http.inst)
  /\ http' = HttpIdle
  /\ UNCHANGED <<job, mqtt, agg, red, inbox, toNode, asked, erased, work>>

-------------------------------------------------------------------------------
(* HTTP: delete *)

\* delete_job_instance with erase: S is one instance, or all of them (-1).
ReceiveDelete(S) ==
  /\ http.pc = "idle"
  /\ S \cap (asked \ erased) # {} /\ S \cap asked \subseteq Erasable
  /\ erased' = erased \cup (S \cap asked)
  /\ http' = IF job.exists
             THEN [HttpIdle EXCEPT
                     !.pc = "pull",
                     !.todo = {i \in S : Present(job, i)},
                     !.wipe = \A i \in Instances : Present(job, i) => i \in S,
                     !.snap = job]
             ELSE http
  /\ UNCHANGED <<job, mqtt, agg, red, inbox, toNode, sched, asked, work, losses>>

\* Its worker is told and the instance is pulled from the list.
DeletePull ==
  /\ http.pc = "pull"
  /\ \E i \in http.todo :
       /\ Delete(http.snap.list[i].worker, i)
       /\ job' = [job EXCEPT !.list[i] = Absent]
       /\ http' = [http EXCEPT !.todo = @ \ {i}]
  /\ UNCHANGED <<mqtt, agg, red, inbox, sched, env>>

\* The job goes when every instance that was read has been deleted.
DeleteEnd ==
  /\ http.pc = "pull" /\ http.todo = {}
  /\ job' = IF http.wipe THEN NoJob ELSE job
  /\ http' = HttpIdle
  /\ UNCHANGED <<mqtt, agg, red, inbox, toNode, sched, env>>

-------------------------------------------------------------------------------
(* HTTP: a scheduling result *)

\* Mutant: a result is taken whether it was asked for or not.
ReceiveResultUnasked(i, n) ==
  /\ http.pc = "idle"
  /\ http' = [HttpIdle EXCEPT !.pc = IF job.exists THEN "r_inst" ELSE "r_get",
                              !.inst = i, !.node = n, !.snap = job]
  /\ UNCHANGED <<job, mqtt, agg, red, inbox, toNode, sched, env>>

\* update_instance_node: the job is read.  A result without a candidate fails in
\* the handler's log statement, is answered with an error and sent again.
ReceiveResult(i, n) ==
  /\ http.pc = "idle" /\ sched[i] > 0
  /\ http' = [HttpIdle EXCEPT !.pc = IF job.exists THEN "r_inst" ELSE "r_get",
                              !.inst = i, !.node = n, !.snap = job]
  /\ UNCHANGED <<job, mqtt, agg, red, inbox, toNode, sched, env>>

ResultInstance ==
  /\ http.pc = "r_inst"
  /\ PatchInstance(http.inst, [Refreshed(http.snap, http.inst) EXCEPT !.worker = http.node])
  /\ http' = [http EXCEPT !.pc = "r_get", !.snap = NoJob]
  /\ UNCHANGED <<mqtt, agg, red, inbox, toNode, sched, env>>

\* update_status
ResultGet ==
  /\ http.pc = "r_get"
  /\ http' = [http EXCEPT !.pc = IF job.exists THEN "r_status" ELSE "r_check", !.snap = job]
  /\ UNCHANGED <<job, mqtt, agg, red, inbox, toNode, sched, env>>

ResultStatus ==
  /\ http.pc = "r_status"
  /\ PatchJob(WithStatus(http.snap, http.inst, "NODE_SCHEDULED"))
  /\ http' = [http EXCEPT !.pc = "r_check", !.snap = NoJob]
  /\ UNCHANGED <<mqtt, agg, red, inbox, toNode, sched, env>>

\* Mutant: the deployment is published without looking whether the job is still there.
ResultCheckSkipped ==
  /\ http.pc = "r_check"
  /\ http' = [http EXCEPT !.pc = "publish"]
  /\ UNCHANGED <<job, mqtt, agg, red, inbox, toNode, sched, env>>

\* Has the job been deleted?
ResultCheck ==
  /\ http.pc = "r_check"
  /\ \/ /\ job.exists
        /\ http' = [http EXCEPT !.pc = "publish"]
        /\ UNCHANGED sched
     \/ /\ ~job.exists
        /\ http' = HttpIdle
        /\ sched' = [sched EXCEPT ![http.inst] = @ - 1]
  /\ UNCHANGED <<job, mqtt, agg, red, inbox, toNode, env>>

\* The deploy command is published.  A scheduler that did not wait for the answer
\* keeps the request and sends its result again.
ResultPublish ==
  /\ http.pc = "publish"
  /\ toNode' = toNode \cup {[kind |-> "deploy", node |-> http.node, inst |-> http.inst]}
  /\ \/ /\ sched' = [sched EXCEPT ![http.inst] = @ - 1]
        /\ UNCHANGED losses
     \/ /\ losses < MaxLosses
        /\ losses' = losses + 1
        /\ UNCHANGED sched
  /\ http' = HttpIdle
  /\ UNCHANGED <<job, mqtt, agg, red, inbox, asked, erased, work>>

-------------------------------------------------------------------------------
(* The MQTT loop *)

\* Mutant: a report that could not be applied is dropped.
MqttDoneSilent(applied) ==
  /\ inbox' = Tail(inbox)
  /\ mqtt' = MqttIdle
  /\ UNCHANGED toNode

\* The message is done.  Only a resource report that could not be applied is
\* answered, with a delete command.
MqttDone(applied) ==
  LET m == Head(inbox) IN
  /\ IF m.kind = "resources" /\ ~applied THEN Delete(m.node, m.inst) ELSE UNCHANGED toNode
  /\ inbox' = Tail(inbox)
  /\ mqtt' = MqttIdle

\* update_deployed_instance_worker or update_deployed_instance_job: the job is
\* looked up by its name and read; update_status has nothing to do for CREATED.
MqttTake ==
  /\ mqtt.pc = "idle" /\ inbox # <<>>
  /\ \/ /\ ~job.exists
        /\ MqttDone(FALSE)
     \/ /\ job.exists
        /\ mqtt' = IF Head(inbox).status = "CREATED" THEN [MqttIdle EXCEPT !.pc = "get"]
                   ELSE [pc |-> "status", snap |-> job]
        /\ UNCHANGED <<inbox, toNode>>
  /\ UNCHANGED <<job, http, agg, red, sched, env>>

MqttStatus ==
  /\ mqtt.pc = "status"
  /\ PatchJob(WithStatus(mqtt.snap, Head(inbox).inst, Head(inbox).status))
  /\ mqtt' = [MqttIdle EXCEPT !.pc = "get"]
  /\ UNCHANGED <<http, agg, red, inbox, toNode, sched, env>>

\* update_instance
MqttGet ==
  /\ mqtt.pc = "get"
  /\ \/ /\ ~job.exists
        /\ MqttDone(FALSE)
     \/ /\ job.exists
        /\ mqtt' = [pc |-> "inst", snap |-> job]
        /\ UNCHANGED <<inbox, toNode>>
  /\ UNCHANGED <<job, http, agg, red, sched, env>>

MqttInstance ==
  /\ mqtt.pc = "inst"
  /\ PatchInstance(Head(inbox).inst, Refreshed(mqtt.snap, Head(inbox).inst))
  /\ MqttDone(Present(job, Head(inbox).inst))
  /\ UNCHANGED <<http, agg, red, sched, env>>

-------------------------------------------------------------------------------
(* mark_inactive_as_failed *)

\* Mutant: an instance that waits for its worker is not looked at either.
CanBeStaleDeployed(doc, i) ==
  /\ doc.list[i].seen = "time"
  /\ doc.list[i].status \notin {"ABSENT", "COMPLETED", "REQUESTED", "CLUSTER_SCHEDULED",
                                "NODE_SCHEDULED"}

\* An instance that waits for its worker, or is beyond scheduling and not
\* completed, can go stale; one that waits for a scheduling decision cannot.
CanBeStale(doc, i) ==
  /\ doc.list[i].seen = "time"
  /\ doc.list[i].status \notin {"ABSENT", "COMPLETED", "REQUESTED", "CLUSTER_SCHEDULED"}

\* The jobs are read; some of the timestamps are too old.  A timestamp that is null
\* cannot be compared: the round breaks off there, and only the stale instances before
\* it in the list, whose order is left open, are reached.
AggRead(stale) ==
  LET null == \E i \in Instances : job.list[i].seen = "null" IN
  /\ agg.pc = "idle"
  /\ stale # {} /\ \A i \in stale : CanBeStale(job, i)
  /\ \E reached \in SUBSET stale :
       /\ null \/ reached = stale
       /\ agg' = [AggIdle EXCEPT !.pc = "next", !.todo = reached, !.broken = null]
  /\ UNCHANGED <<job, http, mqtt, red, inbox, toNode, sched, env>>

\* update_instance reads the job again.
AggGet ==
  /\ agg.pc = "next"
  /\ \E i \in agg.todo :
       agg' = IF job.exists
              THEN [agg EXCEPT !.todo = @ \ {i}, !.inst = i, !.snap = job, !.pc = "inst"]
              ELSE [agg EXCEPT !.todo = @ \ {i}]
  /\ UNCHANGED <<job, http, mqtt, red, inbox, toNode, sched, env>>

AggInstance ==
  /\ agg.pc = "inst"
  /\ PatchInstance(agg.inst, [Refreshed(agg.snap, agg.inst) EXCEPT !.status = "FAILED"])
  /\ agg' = [agg EXCEPT !.pc = "next", !.inst = NoInst, !.snap = NoJob]
  /\ UNCHANGED <<http, mqtt, red, inbox, toNode, sched, env>>

\* The job is marked FAILED too, its instances left alone.
AggEnd ==
  /\ agg.pc = "next" /\ agg.todo = {}
  /\ job' = IF agg.broken THEN job ELSE [job EXCEPT !.running = FALSE]
  /\ agg' = AggIdle
  /\ UNCHANGED <<http, mqtt, red, inbox, toNode, sched, env>>

-------------------------------------------------------------------------------
(* re_deploy_dead_jobs_routine and trigger_undeploy_and_re_deploy *)

Failed(doc) == {i \in Instances : doc.list[i].status = "FAILED"}

\* One thread per failed instance.  They share the job that was read.
RedRound ==
  /\ Failed(job) # {}
  /\ \E f \in [Failed(job) -> {th \in Threads : red[th].pc = "idle"}] :
       LET mates == {f[i] : i \in Failed(job)} IN
       /\ \A i, j \in Failed(job) : f[i] = f[j] => i = j
       /\ red' = [th \in Threads |->
                    IF th \in mates
                    THEN [RedIdle EXCEPT !.pc = "delete", !.mates = mates,
                                         !.inst = CHOOSE i \in Failed(job) : f[i] = th]
                    ELSE red[th]]
  /\ UNCHANGED <<job, http, mqtt, agg, inbox, toNode, sched, env>>

\* Another thread may already have appended its instance number to the shared
\* job's id.  Then the id is the path of an instance, or of nothing.
Found(path) ==
  \/ path = <<>> /\ job.exists
  \/ Len(path) = 1 /\ Present(job, Head(path))

\* The document under such a path has only that instance in its list.
Read(path) ==
  IF path = <<>> THEN job
  ELSE [job EXCEPT !.list = [i \in Instances |->
                               IF i = Head(path) THEN job.list[i] ELSE Absent]]

\* delete_job_instance without erase: the worker is told.
RedDelete(th) ==
  LET r == red[th] IN
  /\ r.pc = "delete"
  /\ \/ /\ Found(r.path)
        /\ Delete(Read(r.path).list[r.inst].worker, r.inst)
        /\ red' = [red EXCEPT ![th].pc = "get"]
     \/ /\ ~Found(r.path)
        /\ red' = [red EXCEPT ![th] = RedIdle]
        /\ UNCHANGED toNode
  /\ UNCHANGED <<job, http, mqtt, agg, inbox, sched, env>>

\* update_status
RedGet(th) ==
  LET r == red[th] IN
  /\ r.pc = "get"
  /\ red' = [red EXCEPT ![th].pc = IF Found(r.path) THEN "status" ELSE "ask",
                        ![th].key = r.path,
                        ![th].snap = IF Found(r.path) THEN Read(r.path) ELSE NoJob]
  /\ UNCHANGED <<job, http, mqtt, agg, inbox, toNode, sched, env>>

\* The PATCH on the path of an instance takes the document for the instance's
\* data: of the fields modelled here the document has only a status.
RedStatus(th) ==
  LET r == red[th] IN
  /\ r.pc = "status"
  /\ IF r.key = <<>>
     THEN PatchJob(WithStatus(r.snap, r.inst, "REQUESTED"))
     ELSE PatchInstance(Head(r.key),
                        [status |-> "REQUESTED", worker |-> NoNode, seen |-> "null"])
  /\ red' = [red EXCEPT ![th].pc = "ask", ![th].key = <<>>, ![th].snap = NoJob]
  /\ UNCHANGED <<http, mqtt, agg, inbox, toNode, sched, env>>

\* The instance number is appended to the shared id.  The result will be taken to
\* be about the number that comes first.
RedAsk(th) ==
  LET r == red[th]
      path == Append(r.path, r.inst)
  IN
  /\ r.pc = "ask"
  /\ Ask(Head(path))
  /\ red' = [m \in Threads |->
               IF m = th THEN RedIdle
               ELSE IF m \in r.mates /\ red[m].pc # "idle" /\ red[m].mates = r.mates
                    THEN [red[m] EXCEPT !.path = path]
                    ELSE red[m]]
  /\ UNCHANGED <<job, http, mqtt, agg, inbox, toNode, asked, erased, work>>

-------------------------------------------------------------------------------
(* The environment *)

\* A worker publishes; the loop takes messages in the order they come.
Publish(m) ==
  /\ Len(inbox) < MaxInbox
  /\ inbox' = Append(inbox, m)

\* The manager does not look at the sender of a status message.
Status(i, s) == [kind |-> "status", node |-> NoNode, inst |-> i, status |-> s]

\* A worker accepts a deployment, or refuses it as a duplicate (the INSTANTIATION it
\* reports first even then is left out).
NodeDeploy(n, i) ==
  LET cmd == [kind |-> "deploy", node |-> n, inst |-> i] IN
  /\ cmd \in toNode
  /\ toNode' = toNode \ {cmd}
  /\ \/ /\ work[n][i] = "none"
        /\ work' = [work EXCEPT ![n][i] = "starting"]
        /\ Publish(Status(i, "INSTANTIATION"))
     \/ /\ work[n][i] # "none"
        /\ Publish(Status(i, "FAILED"))
        /\ UNCHANGED work
  /\ UNCHANGED <<job, http, mqtt, agg, red, sched, asked, erased, losses>>

\* The deployment ends, well or not.
NodeStart(n, i) ==
  /\ work[n][i] = "starting"
  /\ \E s \in {"CREATED", "FAILED"} :
       /\ work' = [work EXCEPT ![n][i] = IF s = "CREATED" THEN "running" ELSE "none"]
       /\ Publish(Status(i, s))
  /\ UNCHANGED <<job, http, mqtt, agg, red, toNode, sched, asked, erased, losses>>

\* The periodic resource report.
NodeReport(n, i) ==
  /\ work[n][i] \in {"starting", "running"}
  /\ Publish([kind |-> "resources", node |-> n, inst |-> i,
              status |-> IF work[n][i] = "running" THEN "RUNNING" ELSE "INSTANTIATION"])
  /\ UNCHANGED <<job, http, mqtt, agg, red, toNode, sched, env>>

\* The workload ends by itself, or because it was killed (the second report).
NodeExit(n, i) ==
  /\ work[n][i] = "running"
  /\ \E s \in {"FAILED", "COMPLETED"} : Publish(Status(i, s))
  /\ work' = [work EXCEPT ![n][i] = "none"]
  /\ UNCHANGED <<job, http, mqtt, agg, red, toNode, sched, asked, erased, losses>>

NodeStopped(n, i) ==
  /\ work[n][i] = "stopping"
  /\ Publish(Status(i, "FAILED"))
  /\ work' = [work EXCEPT ![n][i] = "none"]
  /\ UNCHANGED <<job, http, mqtt, agg, red, toNode, sched, asked, erased, losses>>

\* A worker obeys a delete command for what runs and refuses it otherwise.
NodeDelete(n, i) ==
  LET cmd == [kind |-> "delete", node |-> n, inst |-> i] IN
  /\ cmd \in toNode
  /\ toNode' = toNode \ {cmd}
  /\ \/ /\ work[n][i] = "running"
        /\ work' = [work EXCEPT ![n][i] = "stopping"]
        /\ Publish(Status(i, "UNDEPLOYED"))
     \/ /\ work[n][i] # "running"
        /\ UNCHANGED <<work, inbox>>
  /\ UNCHANGED <<job, http, mqtt, agg, red, sched, asked, erased, losses>>

\* A worker dies with what it runs.
NodeLost(n) ==
  /\ losses < MaxLosses
  /\ losses' = losses + 1
  /\ work' = [work EXCEPT ![n] = [i \in Instances |-> "none"]]
  /\ UNCHANGED <<job, http, mqtt, agg, red, inbox, toNode, sched, asked, erased>>

\* The broker drops a command, which is published with QoS 0.
CommandLost ==
  /\ losses < MaxLosses
  /\ losses' = losses + 1
  /\ \E cmd \in toNode : toNode' = toNode \ {cmd}
  /\ UNCHANGED <<job, http, mqtt, agg, red, inbox, sched, asked, erased, work>>

-------------------------------------------------------------------------------
HttpStep ==
  \/ DeployPut \/ DeployAsk \/ DeletePull \/ DeleteEnd
  \/ ResultInstance \/ ResultGet \/ ResultStatus \/ ResultCheck \/ ResultPublish
MqttStep == MqttTake \/ MqttStatus \/ MqttGet \/ MqttInstance
AggStep == AggGet \/ AggInstance \/ AggEnd
RedStep(th) == RedDelete(th) \/ RedGet(th) \/ RedStatus(th) \/ RedAsk(th)

Next ==
  \/ \E i \in Instances : ReceiveDeploy(i)
  \/ \E S \in {{i} : i \in Instances} \cup {Instances} : ReceiveDelete(S)
  \/ \E i \in Instances, n \in Nodes : ReceiveResult(i, n)
  \/ HttpStep \/ MqttStep
  \/ \E stale \in SUBSET Silent : AggRead(stale)
  \/ AggStep
  \/ RedRound \/ \E th \in Threads : RedStep(th)
  \/ \E n \in Nodes, i \in Instances :
       \/ NodeDeploy(n, i) \/ NodeStart(n, i) \/ NodeReport(n, i) \/ NodeExit(n, i)
       \/ NodeDelete(n, i) \/ NodeStopped(n, i)
  \/ \E n \in Nodes : NodeLost(n)
  \/ CommandLost

\* A round of the aggregation that finds i stale.
AggReads(i) == \E stale \in SUBSET Silent : i \in stale /\ AggRead(stale)

\* What a worker does with a command, and what follows from it.
NodeObeys(n, i) == NodeDeploy(n, i) \/ NodeDelete(n, i)
NodeEnds(n, i) == NodeStart(n, i) \/ NodeStopped(n, i)

\* What the manager's threads do goes on: a request is served to its end, the MQTT
\* loop runs, the background jobs run at intervals and their threads end.  The
\* scheduler's queue repeats a result until it is taken.  A worker gets a command that
\* is not lost, ends what it starts and reports periodically; strong fairness, as the
\* bounded inbox that its own reports fill is no obstacle to it.
Fairness ==
  /\ WF_vars(HttpStep) /\ WF_vars(MqttStep) /\ WF_vars(AggStep) /\ WF_vars(RedRound)
  /\ \A th \in Threads : WF_vars(RedStep(th))
  /\ \A i \in Instances : WF_vars(AggReads(i)) /\ WF_vars(\E n \in Nodes : ReceiveResult(i, n))
  /\ \A n \in Nodes, i \in Instances :
       SF_vars(NodeObeys(n, i)) /\ SF_vars(NodeEnds(n, i)) /\ WF_vars(NodeReport(n, i))

Spec == Init /\ [][Next]_vars /\ Fairness

-------------------------------------------------------------------------------
(* Properties *)

HttpStates == [pc : HttpPc, inst : Instances \cup {NoInst}, node : Nodes \cup {NoNode},
               todo : SUBSET Instances, wipe : BOOLEAN, snap : Documents]
MqttStates == [pc : MqttPc, snap : Documents]
AggStates  == [pc : AggPc, inst : Instances \cup {NoInst}, todo : SUBSET Instances,
               broken : BOOLEAN, snap : Documents]
RedStates  == [pc : RedPc, inst : Instances \cup {NoInst}, mates : SUBSET Threads,
               path : Seq(Instances), key : Seq(Instances), snap : Documents]

\* Every variable has its type: among others, no write through an old read or through a
\* shared job id leaves a malformed record in the list, and a scheduling result is only
\* taken for a request that is pending, so the count of requests stays a number.
TypeOK ==
  /\ job \in Documents
  /\ http \in HttpStates
  /\ mqtt \in MqttStates
  /\ agg \in AggStates
  /\ red \in [Threads -> RedStates]
  /\ inbox \in Seq(Messages)
  /\ toNode \subseteq Commands
  /\ sched \in [Instances -> Nat]
  /\ asked \subseteq Instances /\ erased \subseteq asked
  /\ work \in [Nodes -> [Instances -> {"none", "starting", "running", "stopping"}]]
  /\ losses \in Nat

\* What the HTTP worker read of the job's existence stays true while it works on the
\* request: it alone creates and deletes the job, no other thread's write brings a
\* deleted job back.  Hence no deployment is published for a job that is gone and no
\* append meets a missing document.
HttpSeesExistence ==
  /\ http.pc \in {"put", "pull", "r_inst", "r_status"} => job.exists = http.snap.exists
  /\ http.pc = "publish" => job.exists

\* A job appears only when a deploy request creates it, and disappears only at the end
\* of a delete request: writes based on an old read (MQTT loop, aggregation, re-deploy
\* threads) do neither.
JobStaysDeleted ==
  [][job.exists # job'.exists => IF job.exists THEN http.pc = "pull" ELSE http.pc = "put"]_vars

\* A deleted instance (of a job that is deleted with it) eventually runs nowhere, also
\* when commands are lost, when a delete overtakes a deploy and when a re-deploy or a
\* scheduling result was under way: the job is found missing, or the worker's next
\* report is answered with a delete command.
ErasedStops ==
  \A i \in Instances : i \in erased ~> [](\A n \in Nodes : work[n][i] = "none")

\* An instance that waits for its worker, starts or was stopped does not stay so: its
\* worker is heard of, or the aggregation marks it as FAILED, even when the scheduling
\* result's two writes interleave with those of other threads.
SilenceNoticed ==
  \A i \in Silent :
    job.list[i].status \in {"NODE_SCHEDULED", "INSTANTIATION", "UNDEPLOYED", "NONE"}
      ~> job.list[i].status \in {"RUNNING", "COMPLETED", "FAILED", "ABSENT"}

-------------------------------------------------------------------------------
(* What the safety properties rest on *)

\* A thread that works on something knows on what, and the scheduler still waits for
\* the answer to the result that is being served.
Serving ==
  LET results == {"r_inst", "r_get", "r_status", "r_check", "publish"} IN
  /\ http.pc \in {"put", "ask"} \cup results => http.inst \in Instances
  /\ http.pc \in results => http.node \in Nodes /\ sched[http.inst] > 0
  /\ mqtt.pc # "idle" => inbox # <<>>
  /\ agg.pc = "inst" => agg.inst \in Instances
  /\ \A th \in Threads : red[th].pc # "idle" => red[th].inst \in Instances

\* A thread that is about to write a whole document has read one.
ReadsReal ==
  /\ http.pc \in {"pull", "r_inst", "r_status"} => http.snap.exists
  /\ mqtt.pc = "status" => mqtt.snap.exists
  /\ \A th \in Threads : red[th].pc = "status" /\ red[th].key = <<>> => red[th].snap.exists

-------------------------------------------------------------------------------
(* What the documentation and the comments promise, and the code does not keep *)

\* SKILLS/troubleshoot-oakestra.md: an instance does not stay CLUSTER_SCHEDULED, it is
\* marked FAILED and scheduled again.
ScheduledNotStuck ==
  \A i \in Instances :
    job.list[i].status = "CLUSTER_SCHEDULED" ~> job.list[i].status # "CLUSTER_SCHEDULED"

\* delete_job_instance removes the instance from the database: when the request has
\* been served, the instance does not come back.
ErasedStaysErased ==
  [][\A i \in erased : ~Present(job, i) /\ http.pc # "pull" => ~Present(job', i)]_vars

\* append_job_instance: an instance that was appended and not deleted is in the list.
AppendedStays ==
  \A i \in asked \ erased : (http.pc = "put" /\ http.inst = i) \/ Present(job, i)

\* handle_mqtt_message: a worker with outdated information, here one that is not the
\* worker of the instance it runs, is told to undeploy it.
OutdatedStops ==
  \A n \in Nodes, i \in Instances :
    work[n][i] = "running" /\ job.list[i].worker # n
      ~> work[n][i] # "running" \/ job.list[i].worker = n

\* DeploymentStatus.COMPLETED: the service is not restarted.
CompletedStays ==
  \A i \in Instances :
    [](job.list[i].status = "COMPLETED" => [](job.list[i].status # "REQUESTED"))

\* update_status: the job turns RUNNING only once all its instances are RUNNING.
RunningAgreed ==
  [][job'.running /\ ~job.running =>
       \A i \in Instances : Present(job', i) => job'.list[i].status = "RUNNING"]_vars

\* re_deploy_dead_jobs_routine: a thread asks for the failed instance it is about.
RedeployAsksOwn ==
  [][\A th \in Threads : red[th].pc = "ask" /\ red'[th].pc = "idle"
       => \A i \in Instances : sched'[i] # sched[i] => i = red[th].inst]_vars
===============================================================================
