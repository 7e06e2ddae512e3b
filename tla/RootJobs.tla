------------------------------- MODULE RootJobs -------------------------------
(***************************************************************************)
(* The root's system manager and one service it manages: creation and       *)
(* deletion of the service, scale-up and scale-down, scheduling results and *)
(* the reports of the clusters, by which the root's view and the clusters'  *)
(* databases are reconciled.                                                *)
(*                                                                         *)
(* gunicorn runs one worker, so requests are served one at a time.  A step  *)
(* is one call: to the resource abstractor, to the network plugin or to a   *)
(* cluster.  A request to a cluster may be lost, or time out at the root    *)
(* and be served later; the worker may be killed between two steps.         *)
(*                                                                         *)
(* Simplifications.                                                         *)
(* - Services do not interact in this code, so there is one, of one         *)
(*   application.                                                           *)
(* - Of a cluster there is the instance list of the service in its own      *)
(*   database; ClusterJobs says how it comes about.                         *)
(* - A cluster has one report under way at a time.                          *)
(* - The job's own status is left out.                                      *)
(***************************************************************************)
EXTENDS Integers

CONSTANTS
  Clusters,     \* registered clusters
  NoCluster,    \* a record without a cluster
  MaxCreates,   \* bound on the requests to create the service
  MaxScaleUps,  \* bound on the scale-up requests
  MaxInstances, \* bound on the instance numbers given out
  MaxFaults     \* bound on what goes wrong: requests lost or late, workers killed, calls failed

ASSUME RootAssumption ==
  /\ NoCluster \notin Clusters
  /\ {MaxCreates, MaxScaleUps, MaxInstances, MaxFaults} \subseteq Nat

VARIABLES
  job,     \* the job document of the service
  listed,  \* how often the application's list names the service
  http,    \* the HTTP worker: where it is and what it read
  sched,   \* scheduling requests the root's scheduler has pending
  cluster, \* cluster -> the instance list in its database
  report,  \* cluster -> the report under way
  late,    \* requests a cluster will serve after the root gave up waiting
  creates, \* creation requests served
  ups,     \* scale-up requests served
  losses,  \* requests lost or late, plugin calls failed
  kills,   \* workers killed
  outages  \* calls of the resource abstractor that failed

vars == <<job, listed, http, sched, cluster, report, late, creates, ups, losses, kills, outages>>
counts == <<creates, ups, losses, kills, outages>>
remote == <<cluster, report, late>>

-------------------------------------------------------------------------------
(* Documents and requests *)

Numbers == 0..(MaxInstances - 1)
Statuses == {"CLUSTER_SCHEDULED", "RUNNING", "FAILED"}

Absent == [cluster |-> NoCluster, status |-> "ABSENT"]
Records == [cluster : Clusters, status : Statuses] \cup {Absent}
Documents == [exists : BOOLEAN, next : Nat, list : [Numbers -> Records]]
Present(doc, n) == doc.list[n] # Absent

\* next_instance_progressive_number is 0 and instance_list empty.
NewJob == [exists |-> TRUE, next |-> 0, list |-> [n \in Numbers |-> Absent]]
NoJob == [NewJob EXCEPT !.exists = FALSE]

\* What a cluster holds.
Views == [Numbers -> Statuses \cup {"ABSENT"}]
Nothing == [n \in Numbers |-> "ABSENT"]

\* Requests to a cluster: deploy and delete of an instance, and delete of all (-1).
Requests == [kind : {"deploy", "delete"}, cluster : Clusters, num : Numbers]
              \cup [kind : {"wipe"}, cluster : Clusters]

\* What a cluster does with a request: it appends an instance it does not have.
Served(r) ==
  cluster' = [cluster EXCEPT ![r.cluster] =
                CASE r.kind = "deploy" ->
                       IF @[r.num] = "ABSENT" THEN [@ EXCEPT ![r.num] = "CLUSTER_SCHEDULED"] ELSE @
                  [] r.kind = "delete" -> [@ EXCEPT ![r.num] = "ABSENT"]
                  [] OTHER -> Nothing]

CanFail == losses + kills + outages < MaxFaults

\* Something fails and is only logged.
Lose == CanFail /\ losses' = losses + 1

\* A request to a cluster is served, or lost, or served after the timeout.
Request(r) ==
  \/ Served(r) /\ UNCHANGED <<late, losses>>
  \/ Lose /\ UNCHANGED <<cluster, late>>
  \/ Lose /\ late' = late \cup {r} /\ UNCHANGED cluster

\* A call of the resource abstractor fails: make_request returns None.
Outage == CanFail /\ outages' = outages + 1

Idle == [pc |-> "idle", cluster |-> NoCluster, todo |-> {}, gone |-> {}, whole |-> FALSE,
         snap |-> NoJob]

Init ==
  /\ job = NoJob
  /\ listed = 0
  /\ http = Idle
  /\ sched = 0
  /\ cluster = [c \in Clusters |-> Nothing]
  /\ report = [c \in Clusters |-> Nothing]
  /\ late = {}
  /\ creates = 0 /\ ups = 0 /\ losses = 0 /\ kills = 0 /\ outages = 0

-------------------------------------------------------------------------------
(* create_services_of_app and delete_service *)

\* The job is put under its name: a job that has this name is overwritten.
CreateService ==
  /\ http.pc = "idle"
  /\ creates < MaxCreates /\ (creates = 0 \/ job.exists)
  /\ creates' = creates + 1
  /\ job' = NewJob
  /\ http' = [Idle EXCEPT !.pc = "list"]
  /\ UNCHANGED <<listed, sched, remote, ups, losses, kills, outages>>

\* add_service_to_app raises if the application cannot be read, and goes on if it
\* cannot be written.
ListService ==
  /\ http.pc = "list"
  /\ \/ listed' = listed + 1 /\ http' = [Idle EXCEPT !.pc = "notify"] /\ UNCHANGED outages
     \/ Outage /\ http' \in {Idle, [Idle EXCEPT !.pc = "notify"]} /\ UNCHANGED listed
  /\ UNCHANGED <<job, sched, remote, creates, ups, losses, kills>>

\* request_scale_down_instance of the instances in S: the job is read.
Down(S, whole) ==
  [Idle EXCEPT !.pc = "down", !.todo = {n \in S : Present(job, n)}, !.whole = whole, !.snap = job]

\* The network plugin is told.  If that fails the service is deleted again, provided it
\* is on the list.
NotifyService ==
  /\ http.pc = "notify"
  /\ \/ http' = Idle /\ UNCHANGED losses
     \/ Lose /\ http' = IF listed > 0 THEN Down(Numbers, TRUE) ELSE Idle
  /\ UNCHANGED <<job, listed, sched, remote, creates, ups, kills, outages>>

\* MUTANT of DeleteService: a service of no application is deleted too.
DeleteServiceUnlisted ==
  /\ http.pc = "idle" /\ job.exists
  /\ http' = Down(Numbers, TRUE)
  /\ UNCHANGED <<job, listed, sched, remote, counts>>

\* delete_service: scale down, take the service off the list, delete the job.  If the
\* job is gone, or cannot be read, the scale-down is left out.
DeleteService ==
  /\ http.pc = "idle" /\ listed > 0
  /\ \/ job.exists /\ http' = Down(Numbers, TRUE) /\ UNCHANGED outages
     \/ ~job.exists /\ http' = [Idle EXCEPT !.pc = "unlist"] /\ UNCHANGED outages
     \/ Outage /\ http' = [Idle EXCEPT !.pc = "unlist"]
  /\ UNCHANGED <<job, listed, sched, remote, creates, ups, losses, kills>>

\* remove_service_from_app raises if the application cannot be read, and goes on if it
\* cannot be written.
UnlistService ==
  /\ http.pc = "unlist"
  /\ \/ listed' = listed - 1 /\ http' = [Idle EXCEPT !.pc = "drop"] /\ UNCHANGED outages
     \/ Outage /\ http' \in {Idle, [Idle EXCEPT !.pc = "drop"]} /\ UNCHANGED listed
  /\ UNCHANGED <<job, sched, remote, creates, ups, losses, kills>>

\* MUTANT of DropJob: the job stays in the database.
DropJobForgotten ==
  /\ http.pc = "drop"
  /\ http' = Idle
  /\ UNCHANGED <<job, listed, sched, remote, counts>>

DropJob ==
  /\ http.pc = "drop"
  /\ \/ job' = NoJob /\ UNCHANGED outages
     \/ Outage /\ UNCHANGED job
  /\ http' = Idle
  /\ UNCHANGED <<listed, sched, remote, creates, ups, losses, kills>>

-------------------------------------------------------------------------------
(* request_scale_down_instance *)

ScaleDown(S) ==
  /\ http.pc = "idle" /\ job.exists /\ listed > 0
  /\ http' = Down(S, FALSE)
  /\ UNCHANGED <<job, listed, sched, remote, counts>>

\* The cluster of the instance is asked to delete it; an error is only logged.
DownRequest ==
  /\ http.pc = "down"
  /\ \E n \in http.todo :
       /\ IF Present(job, n)
          THEN Request([kind |-> "delete", cluster |-> job.list[n].cluster, num |-> n])
          ELSE UNCHANGED <<cluster, late, losses>>
       /\ http' = [http EXCEPT !.todo = @ \ {n}, !.gone = @ \cup {n}]
  /\ UNCHANGED <<job, listed, sched, report, creates, ups, kills, outages>>

\* What is left of the list that was read is written back, with the number that was.
DownWrite ==
  /\ http.pc = "down" /\ http.todo = {}
  /\ \/ /\ job' = [job EXCEPT !.next = http.snap.next,
                              !.list = [n \in Numbers |-> IF n \in http.gone THEN Absent
                                                          ELSE http.snap.list[n]]]
        /\ UNCHANGED outages
     \/ Outage /\ UNCHANGED job
  /\ http' = IF http.whole THEN [Idle EXCEPT !.pc = "unlist"] ELSE Idle
  /\ UNCHANGED <<listed, sched, remote, creates, ups, losses, kills>>

-------------------------------------------------------------------------------
(* request_scale_up_instance and instance_scale_up_scheduled_handler *)

\* A thread sends the request to the scheduler, where it arrives or is lost.
ScaleUp ==
  /\ http.pc = "idle" /\ job.exists /\ listed > 0
  /\ ups < MaxScaleUps
  /\ ups' = ups + 1
  /\ \/ sched' = sched + 1 /\ UNCHANGED losses
     \/ Lose /\ UNCHANGED sched
  /\ UNCHANGED <<job, listed, http, remote, creates, kills, outages>>

\* The scheduler's result: no cluster, or a cluster for a job that is gone ...
RefuseResult ==
  /\ http.pc = "idle" /\ sched > 0
  /\ sched' = sched - 1
  /\ UNCHANGED <<job, listed, http, remote, counts>>

\* ... or a cluster for the job.
ReceiveResult(c) ==
  /\ http.pc = "idle" /\ sched > 0
  /\ job.exists /\ job.next < MaxInstances
  /\ http' = [Idle EXCEPT !.pc = "place", !.cluster = c, !.snap = job]
  /\ UNCHANGED <<job, listed, sched, remote, counts>>

\* MUTANT of PlaceInstance: the next number is not written.
PlaceInstanceSameNumber ==
  /\ http.pc = "place"
  /\ job' = [job EXCEPT !.list = [http.snap.list EXCEPT ![http.snap.next] =
                                    [cluster |-> http.cluster, status |-> "CLUSTER_SCHEDULED"]]]
  /\ http' = [http EXCEPT !.pc = "tell"]
  /\ UNCHANGED <<listed, sched, remote, counts>>

\* The list with the new instance and the next number are written together.
PlaceInstance ==
  LET n == http.snap.next IN
  /\ http.pc = "place"
  /\ \/ /\ job' = [job EXCEPT !.next = n + 1,
                              !.list = [http.snap.list EXCEPT ![n] =
                                          [cluster |-> http.cluster, status |-> "CLUSTER_SCHEDULED"]]]
        /\ UNCHANGED outages
     \/ Outage /\ UNCHANGED job
  /\ http' = [http EXCEPT !.pc = "tell"]
  /\ UNCHANGED <<listed, sched, remote, creates, ups, losses, kills>>

\* The network plugin is told.  An error is answered with an error, and the scheduler
\* sends the result again.
TellNetwork ==
  /\ http.pc = "tell"
  /\ \/ http' = [http EXCEPT !.pc = "deploy"] /\ UNCHANGED losses
     \/ Lose /\ http' = Idle
  /\ UNCHANGED <<job, listed, sched, remote, creates, ups, kills, outages>>

\* cluster_request_to_deploy, if the instance is in the database.
SendDeploy ==
  LET n == http.snap.next IN
  /\ http.pc = "deploy"
  /\ IF Present(job, n)
     THEN Request([kind |-> "deploy", cluster |-> http.cluster, num |-> n])
     ELSE UNCHANGED <<cluster, late, losses>>
  /\ http' = [Idle EXCEPT !.pc = "answer"]
  /\ UNCHANGED <<job, listed, sched, report, creates, ups, kills, outages>>

\* The answer.  A scheduler that did not wait for it sends the result again.
AnswerResult ==
  /\ http.pc = "answer"
  /\ \/ sched' = sched - 1 /\ UNCHANGED losses
     \/ Lose /\ UNCHANGED sched
  /\ http' = Idle
  /\ UNCHANGED <<job, listed, remote, creates, ups, kills, outages>>

-------------------------------------------------------------------------------
(* The report of a cluster *)

\* MUTANT of ReceiveReport: only the status of the job is written.
ReceiveReportJobOnly(c) ==
  /\ http.pc = "idle" /\ report[c] # Nothing
  /\ report' = [report EXCEPT ![c] = Nothing]
  /\ http' = IF job.exists THEN Idle ELSE [Idle EXCEPT !.pc = "undeploy", !.cluster = c]
  /\ UNCHANGED <<job, listed, sched, cluster, late, counts>>

\* MUTANT of ReceiveReport: an unknown instance is taken for an outdated job.
ReceiveReportStrict(c) ==
  /\ http.pc = "idle" /\ report[c] # Nothing
  /\ report' = [report EXCEPT ![c] = Nothing]
  /\ http' = IF \A n \in Numbers : report[c][n] # "ABSENT" => Present(job, n) THEN Idle
             ELSE [Idle EXCEPT !.pc = "undeploy", !.cluster = c]
  /\ UNCHANGED <<job, listed, sched, cluster, late, counts>>

\* The cluster's own figures are written first; if they cannot be, the report is
\* answered with an error and dropped.  update_job_status: the instances that are in
\* the root's list get the reported status.  If the job is not found, or its status
\* cannot be written, the cluster is asked to delete the job.
ReceiveReport(c) ==
  LET known(n) == report[c][n] # "ABSENT" /\ Present(job, n)
      written == [job EXCEPT !.list = [n \in Numbers |->
                    IF known(n) THEN [job.list[n] EXCEPT !.status = report[c][n]] ELSE job.list[n]]]
  IN
  /\ http.pc = "idle" /\ report[c] # Nothing
  /\ report' = [report EXCEPT ![c] = Nothing]
  /\ \/ job.exists /\ job' = written /\ UNCHANGED <<http, outages>>
     \/ Outage /\ UNCHANGED <<job, http>>
     \/ /\ (~job.exists /\ UNCHANGED outages) \/ Outage
        /\ job' \in {job, written}
        /\ http' = [Idle EXCEPT !.pc = "undeploy", !.cluster = c]
  /\ UNCHANGED <<listed, sched, cluster, late, creates, ups, losses, kills>>

\* MUTANT of Undeploy: nobody is asked.
UndeployNobody ==
  /\ http.pc = "undeploy"
  /\ http' = Idle
  /\ UNCHANGED <<job, listed, sched, remote, counts>>

\* cluster_request_to_delete_job_by_ip
Undeploy ==
  /\ http.pc = "undeploy"
  /\ Request([kind |-> "wipe", cluster |-> http.cluster])
  /\ http' = Idle
  /\ UNCHANGED <<job, listed, sched, report, creates, ups, kills, outages>>

-------------------------------------------------------------------------------
(* The environment *)

\* gunicorn kills a worker that takes too long and starts another one.
KillWorker ==
  /\ http.pc # "idle"
  /\ CanFail
  /\ kills' = kills + 1
  /\ http' = Idle
  /\ UNCHANGED <<job, listed, sched, remote, creates, ups, losses, outages>>

LateRequest ==
  /\ \E r \in late : Served(r) /\ late' = late \ {r}
  /\ UNCHANGED <<job, listed, http, sched, report, counts>>

\* An instance changes its status in the cluster.
ClusterUpdates(c, n) ==
  /\ cluster[c][n] # "ABSENT"
  /\ \E s \in {"RUNNING", "FAILED"} : cluster' = [cluster EXCEPT ![c][n] = s]
  /\ UNCHANGED <<job, listed, http, sched, report, late, counts>>

\* send_aggregated_info_to_sm
ClusterReports(c) ==
  /\ report[c] = Nothing /\ cluster[c] # Nothing
  /\ report' = [report EXCEPT ![c] = cluster[c]]
  /\ UNCHANGED <<job, listed, http, sched, cluster, late, counts>>

-------------------------------------------------------------------------------
HttpStep ==
  \/ ListService \/ NotifyService \/ UnlistService \/ DropJob \/ DownRequest \/ DownWrite
  \/ PlaceInstance \/ TellNetwork \/ SendDeploy \/ AnswerResult \/ Undeploy

Next ==
  \/ CreateService \/ DeleteService \/ ScaleUp \/ RefuseResult
  \/ \E S \in {{n} : n \in Numbers} \cup {Numbers} : ScaleDown(S)
  \/ \E c \in Clusters : ReceiveResult(c) \/ ReceiveReport(c) \/ ClusterReports(c)
  \/ HttpStep \/ KillWorker \/ LateRequest
  \/ \E c \in Clusters, n \in Numbers : ClusterUpdates(c, n)

\* A request that is being served goes on, the worker gets round to every waiting
\* report, clusters report periodically and serve what they accepted.
Fairness ==
  /\ WF_vars(HttpStep) /\ WF_vars(LateRequest)
  /\ \A c \in Clusters : SF_vars(ReceiveReport(c)) /\ WF_vars(ClusterReports(c))

Spec == Init /\ [][Next]_vars /\ Fairness

-------------------------------------------------------------------------------
(* Properties *)

HttpPc == {"idle", "list", "notify", "down", "unlist", "drop", "place", "tell", "deploy",
           "answer", "undeploy"}

\* Every variable has its type: no request takes the service off a list that does not
\* name it, answers a scheduling request that is not pending or gives out a number
\* beyond the bound.
TypeOK ==
  /\ job \in Documents
  /\ listed \in Nat
  /\ http \in [pc : HttpPc, cluster : Clusters \cup {NoCluster}, todo : SUBSET Numbers,
               gone : SUBSET Numbers, whole : BOOLEAN, snap : Documents]
  /\ sched \in Nat
  /\ cluster \in [Clusters -> Views] /\ report \in [Clusters -> Views]
  /\ late \subseteq Requests
  /\ creates \in Nat /\ ups \in Nat /\ losses \in Nat /\ kills \in Nat /\ outages \in Nat

\* A cluster has, or will get, the instance.
Holds(c, n) ==
  cluster[c][n] # "ABSENT" \/ [kind |-> "deploy", cluster |-> c, num |-> n] \in late

\* An instance number denotes one instance: whatever was lost, late, repeated or
\* interrupted, no two clusters hold an instance of the same number, and the root's
\* record of a number that a cluster holds names this cluster.  (Creating the service
\* over an existing one starts the numbers again, so at most one creation is assumed.)
NumbersUnique ==
  creates <= 1 =>
    \A c \in Clusters, n \in Numbers : Holds(c, n) =>
      /\ \A d \in Clusters : Holds(d, n) => d = c
      /\ Present(job, n) => job.list[n].cluster = c

\* "cluster has outdated jobs, ask to undeploy": a cluster is asked to delete all
\* instances of a job only if the root has no such job, also when the request is served
\* late.
WipeMeansOutdated ==
  http.pc = "undeploy" \/ (\E r \in late : r.kind = "wipe") => ~job.exists

\* That holds unless a call of the resource abstractor failed: the handler of the report
\* cannot tell a failed call from a missing job.
OnlyOutdatedWiped == outages = 0 => WipeMeansOutdated

\* Unless a worker was killed or the resource abstractor failed, a job that nobody is
\* creating or deleting is on its application's list, so that its user can delete it.
NoOrphan ==
  kills = 0 /\ outages = 0 /\ job.exists /\ http.pc \notin {"list", "drop"} => listed > 0

\* A service that was deleted eventually runs in no cluster, whatever request was lost or
\* late: the cluster's next report is answered with a request to delete.
DeletedStops ==
  (creates > 0 /\ ~job.exists) ~> [](\A c \in Clusters : cluster[c] = Nothing)

\* A running instance that the root lists is not shown in another status for ever.
StatusFollows ==
  \A c \in Clusters, n \in Numbers :
    []<>(cluster[c][n] = "RUNNING" /\ Present(job, n) => job.list[n].status = "RUNNING")

\* "remove the instance <which_one> of a service": an instance that was removed from the
\* list eventually runs in no cluster.
RemovedStops ==
  \A n \in Numbers :
    (job.exists /\ n < job.next /\ ~Present(job, n) /\ http.pc = "idle")
      ~> (\A c \in Clusters : cluster[c][n] = "ABSENT")

-------------------------------------------------------------------------------
(* What the proofs need besides *)

\* A handler's copy is the document until it writes, it has its cluster and number, and
\* the scheduling request it answers is pending.
Serving ==
  /\ http.pc \in {"down", "place"} => http.snap = job
  /\ http.pc \in {"place", "tell", "deploy"} =>
       job.exists /\ http.snap.next \in Numbers /\ http.cluster \in Clusters
  /\ http.pc \in {"place", "tell", "deploy", "answer"} => sched > 0
  /\ http.pc = "undeploy" => http.cluster \in Clusters
  /\ http.pc = "unlist" \/ (http.pc = "down" /\ http.whole) => listed > 0

\* Before the first creation there is nothing.
NothingBefore ==
  creates = 0 => /\ http.pc = "idle" /\ ~job.exists /\ listed = 0 /\ late = {}
                 /\ \A c \in Clusters : cluster[c] = Nothing /\ report[c] = Nothing

\* Numbers that were given out are below the next one, and the number being given out
\* is nowhere yet.
NumbersBelow ==
  creates <= 1 =>
    /\ job.exists => \A c \in Clusters, n \in Numbers : Holds(c, n) => n < job.next
    /\ \A n \in Numbers : Present(job, n) => n < job.next
    /\ http.pc \in {"tell", "deploy"} =>
         /\ \A c \in Clusters : ~Holds(c, http.snap.next)
         /\ Present(job, http.snap.next) => job.list[http.snap.next].cluster = http.cluster
===============================================================================
