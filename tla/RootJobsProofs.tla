---------------------------- MODULE RootJobsProofs ----------------------------
(***************************************************************************)
(* Proofs of the safety properties of RootJobs, for any number of clusters, *)
(* requests, instances and faults.                                          *)
(***************************************************************************)
EXTENDS RootJobs, TLAPS

-------------------------------------------------------------------------------
(* Documents and requests *)

\* The documents the code writes are documents.
LEMMA DocumentsTyped ==
  /\ Absent \in Records
  /\ NewJob \in Documents /\ NewJob.exists /\ NewJob.next = 0
  /\ NoJob \in Documents /\ ~NoJob.exists
  /\ \A n \in Numbers : ~Present(NewJob, n) /\ ~Present(NoJob, n)
BY DEF Absent, Records, NewJob, NoJob, Documents, Present

\* A record that is present names a cluster.
LEMMA PresentNamesCluster ==
  ASSUME NEW doc \in Documents, NEW n \in Numbers, Present(doc, n)
  PROVE  doc.list[n] \in [cluster : Clusters, status : Statuses]
BY DEF Documents, Records, Present

Workers == [pc : HttpPc, cluster : Clusters \cup {NoCluster}, todo : SUBSET Numbers,
            gone : SUBSET Numbers, whole : BOOLEAN, snap : Documents]

\* So are the states of the worker.
LEMMA WorkerTyped ==
  /\ Idle \in Workers /\ Idle.pc = "idle"
  /\ job \in Documents => \A S \in SUBSET Numbers, w \in BOOLEAN :
       Down(S, w) \in Workers /\ Down(S, w).pc = "down" /\ Down(S, w).whole = w
         /\ Down(S, w).snap = job
BY DocumentsTyped DEF Idle, Down, Workers, HttpPc

\* A request lets the cluster it is for hold the instance it is to deploy, and no other.
LEMMA RequestEffect ==
  ASSUME TypeOK, NEW r \in Requests, Request(r)
  PROVE  /\ cluster' \in [Clusters -> Views] /\ late' \subseteq Requests /\ losses' \in Nat
         /\ late' \subseteq late \cup {r} /\ losses' >= losses
         /\ \A c \in Clusters, n \in Numbers :
              Holds(c, n)' => Holds(c, n) \/ r = [kind |-> "deploy", cluster |-> c, num |-> n]
<1>1. cluster' \in [Clusters -> Views] /\ late' \subseteq Requests /\ losses' \in Nat
      /\ late' \subseteq late \cup {r} /\ losses' >= losses
  <2>1. late' \subseteq Requests /\ late' \subseteq late \cup {r}
    BY DEF TypeOK, Request
  <2>2. losses' \in Nat /\ losses' >= losses
    BY DEF TypeOK, Request, Lose
  <2>3. Served(r) => cluster' \in [Clusters -> Views]
    BY DEF TypeOK, Served, Requests, Views, Nothing, Statuses
  <2> QED  BY <2>1, <2>2, <2>3 DEF TypeOK, Request
<1>2. ASSUME NEW c \in Clusters, NEW n \in Numbers, Holds(c, n)', ~Holds(c, n)
      PROVE  r = [kind |-> "deploy", cluster |-> c, num |-> n]
  <2>1. CASE [kind |-> "deploy", cluster |-> c, num |-> n] \in late'
    BY <1>1, <1>2, <2>1 DEF Holds
  <2>2. CASE cluster'[c][n] # "ABSENT"
    <3>1. cluster[c][n] = "ABSENT" /\ cluster'[c][n] # cluster[c][n]
      BY <1>2, <2>2 DEF Holds
    <3>2. Served(r)
      BY <3>1 DEF Request
    <3>3. r.cluster = c /\ r.kind = "deploy" /\ r.num = n
      BY <3>1, <3>2 DEF TypeOK, Served, Requests, Views, Nothing
    <3>4. r \in [kind : {"deploy", "delete"}, cluster : Clusters, num : Numbers]
      BY <3>3 DEF Requests
    <3> QED  BY <3>3, <3>4
  <2> QED  BY <1>2, <2>1, <2>2 DEF Holds
<1> QED  BY <1>1, <1>2

\* A late request changes nothing of what the clusters hold or will get, but for what it
\* deletes.
LEMMA LateEffect ==
  ASSUME TypeOK, NEW r \in late, Served(r), late' = late \ {r}
  PROVE  /\ cluster' \in [Clusters -> Views]
         /\ \A c \in Clusters, n \in Numbers : Holds(c, n)' => Holds(c, n)
<1>1. r \in Requests
  BY DEF TypeOK
<1>2. cluster' \in [Clusters -> Views]
  BY <1>1 DEF TypeOK, Served, Requests, Views, Nothing, Statuses
<1>3. ASSUME NEW c \in Clusters, NEW n \in Numbers, Holds(c, n)', cluster[c][n] = "ABSENT"
      PROVE  Holds(c, n)
  <2>1. CASE [kind |-> "deploy", cluster |-> c, num |-> n] \in late'
    BY <2>1 DEF Holds
  <2>2. CASE cluster'[c][n] # "ABSENT"
    <3>1. r.cluster = c /\ r.kind = "deploy" /\ r.num = n
      BY <1>1, <1>3, <2>2 DEF TypeOK, Served, Requests, Views, Nothing
    <3>2. r \in [kind : {"deploy", "delete"}, cluster : Clusters, num : Numbers]
      BY <1>1, <3>1 DEF Requests
    <3>3. r = [kind |-> "deploy", cluster |-> c, num |-> n]
      BY <3>1, <3>2
    <3> QED  BY <3>3 DEF Holds
  <2> QED  BY <1>3, <2>1, <2>2 DEF Holds
<1> QED  BY <1>2, <1>3 DEF Holds

-------------------------------------------------------------------------------
(* Types, and what a handler knows *)

\* The types and the handlers' knowledge hold at first ...
LEMMA InitTyped == Init => TypeOK /\ Serving
BY DocumentsTyped, WorkerTyped
DEF Init, TypeOK, Serving, Workers, Views, Nothing, Idle, HttpPc

\* ... and after every step.
LEMMA StepTyped ==
  ASSUME TypeOK, Serving, [Next]_vars
  PROVE  TypeOK' /\ Serving'
<1> USE DEF remote, counts
<1>0. http \in Workers /\ job \in Documents
  BY DEF TypeOK, Workers
<1>n. losses \in Nat /\ outages \in Nat
  BY DEF TypeOK
<1>1. CASE UNCHANGED vars
  BY <1>1 DEF vars, TypeOK, Serving
<1>2. CASE CreateService
  BY <1>2, DocumentsTyped, WorkerTyped DEF CreateService, TypeOK, Serving, Workers, HttpPc
<1>3. CASE ListService
  BY <1>3, WorkerTyped DEF ListService, Outage, TypeOK, Serving, Workers, HttpPc
<1>d. ASSUME NEW S \in SUBSET Numbers, NEW w \in BOOLEAN, http' = Down(S, w), job' = job
      PROVE  http' \in Workers /\ http'.pc = "down" /\ http'.whole = w /\ http'.snap = job'
  BY <1>0, <1>d, WorkerTyped
<1>4. CASE NotifyService
  <2>0. losses' \in Nat /\ UNCHANGED <<job, listed, sched, remote, creates, ups, kills, outages>>
    BY <1>n, <1>4 DEF NotifyService, Lose, Down
  <2>1. CASE http' = Idle
    <3>1. http' \in Workers /\ http'.pc = "idle"
      BY <2>1, WorkerTyped
    <3> QED  BY <2>0, <3>1 DEF TypeOK, Serving, Workers
  <2>2. CASE listed > 0 /\ http' = Down(Numbers, TRUE)
    <3>1. http' \in Workers /\ http'.pc = "down" /\ http'.whole /\ http'.snap = job'
      BY <1>4, <1>d, <2>2 DEF NotifyService
    <3> QED  BY <2>0, <2>2, <3>1 DEF TypeOK, Serving, Workers
  <2> QED  BY <1>4, <2>1, <2>2 DEF NotifyService
<1>5. CASE DeleteService
  <2>1. CASE http' = [Idle EXCEPT !.pc = "unlist"]
    <3>1. http' \in Workers /\ http'.pc = "unlist"
      BY <2>1, WorkerTyped DEF Workers, HttpPc
    <3>2. outages' \in Nat
      BY <1>n, <1>5 DEF DeleteService, Outage, Down
    <3> QED  BY <1>5, <3>1, <3>2 DEF DeleteService, TypeOK, Serving, Workers
  <2>2. CASE http' = Down(Numbers, TRUE)
    <3>1. http' \in Workers /\ http'.pc = "down" /\ http'.whole /\ http'.snap = job'
      BY <1>5, <1>d, <2>2 DEF DeleteService
    <3> QED  BY <1>5, <3>1 DEF DeleteService, Outage, TypeOK, Serving, Workers
  <2> QED  BY <1>5, <2>1, <2>2 DEF DeleteService
<1>6. CASE UnlistService
  BY <1>6, WorkerTyped DEF UnlistService, Outage, TypeOK, Serving, Workers, HttpPc
<1>7. CASE DropJob
  BY <1>7, DocumentsTyped, WorkerTyped DEF DropJob, Outage, TypeOK, Serving, Workers
<1>8. ASSUME NEW S \in {{n} : n \in Numbers} \cup {Numbers}, ScaleDown(S)
      PROVE  TypeOK' /\ Serving'
  <2>1. http' \in Workers /\ http'.pc = "down" /\ ~http'.whole /\ http'.snap = job'
    BY <1>8, <1>d DEF ScaleDown
  <2> QED  BY <1>8, <2>1 DEF ScaleDown, TypeOK, Serving, Workers
<1>9. CASE DownRequest
  <2>1. PICK n \in http.todo :
          /\ IF Present(job, n)
             THEN Request([kind |-> "delete", cluster |-> job.list[n].cluster, num |-> n])
             ELSE UNCHANGED <<cluster, late, losses>>
          /\ http' = [http EXCEPT !.todo = @ \ {n}, !.gone = @ \cup {n}]
    BY <1>9 DEF DownRequest
  <2>2. n \in Numbers
    BY <1>0 DEF Workers
  <2>3. cluster' \in [Clusters -> Views] /\ late' \subseteq Requests /\ losses' \in Nat
    <3>1. CASE Present(job, n)
      <4>1. [kind |-> "delete", cluster |-> job.list[n].cluster, num |-> n] \in Requests
        BY <1>0, <2>2, <3>1, PresentNamesCluster DEF Requests
      <4> QED  BY <2>1, <3>1, <4>1, RequestEffect
    <3> QED  BY <2>1, <3>1 DEF TypeOK
  <2> QED  BY <1>0, <1>9, <2>1, <2>2, <2>3 DEF DownRequest, TypeOK, Serving, Workers
<1>10. CASE DownWrite
  <2>1. [job EXCEPT !.next = http.snap.next,
                    !.list = [n \in Numbers |-> IF n \in http.gone THEN Absent
                                                ELSE http.snap.list[n]]] \in Documents
    BY <1>0, DocumentsTyped DEF Workers, Documents
  <2> QED  BY <1>10, <2>1, WorkerTyped DEF DownWrite, Outage, TypeOK, Serving, Workers, HttpPc
<1>11. CASE ScaleUp
  BY <1>11, WorkerTyped DEF ScaleUp, Lose, TypeOK, Serving
<1>12. CASE RefuseResult
  BY <1>12 DEF RefuseResult, TypeOK, Serving
<1>13. ASSUME NEW c \in Clusters, ReceiveResult(c)
       PROVE  TypeOK' /\ Serving'
  <2>1. job.next \in Numbers
    BY <1>0, <1>13, RootAssumption DEF ReceiveResult, Numbers, Documents
  <2> QED  BY <1>0, <1>13, <2>1, WorkerTyped DEF ReceiveResult, TypeOK, Serving, Workers, HttpPc
<1>14. CASE PlaceInstance
  <2>1. [job EXCEPT !.next = http.snap.next + 1,
                    !.list = [http.snap.list EXCEPT ![http.snap.next] =
                      [cluster |-> http.cluster, status |-> "CLUSTER_SCHEDULED"]]] \in Documents
    <3>1. [cluster |-> http.cluster, status |-> "CLUSTER_SCHEDULED"] \in Records
      BY <1>14 DEF PlaceInstance, Serving, Records, Statuses
    <3>2. http.snap \in Documents
      BY <1>0 DEF Workers
    <3>3. http.snap.next + 1 \in Nat
      BY <3>2 DEF Documents
    <3>4. [http.snap.list EXCEPT ![http.snap.next] =
             [cluster |-> http.cluster, status |-> "CLUSTER_SCHEDULED"]] \in [Numbers -> Records]
      BY <3>1, <3>2 DEF Documents
    <3> QED  BY <1>0, <3>3, <3>4 DEF Documents
  <2>2. http' \in Workers /\ http'.pc = "tell" /\ http'.snap = http.snap
        /\ http'.cluster = http.cluster
    BY <1>0, <1>14 DEF PlaceInstance, Workers, HttpPc
  <2>3. job' \in Documents /\ job'.exists = job.exists /\ outages' \in Nat
    <3>1. CASE job' = job /\ Outage
      BY <1>0, <3>1 DEF Outage, TypeOK
    <3>2. CASE job' # job \/ outages' = outages
      BY <1>0, <1>14, <2>1, <3>2 DEF PlaceInstance, TypeOK, Documents
    <3> QED  BY <1>14, <3>1, <3>2 DEF PlaceInstance
  <2>4. TypeOK'
    BY <1>14, <2>2, <2>3 DEF PlaceInstance, TypeOK, Workers
  <2> QED  BY <1>14, <2>2, <2>3, <2>4 DEF PlaceInstance, Serving
<1>15. CASE TellNetwork
  BY <1>0, <1>15, WorkerTyped DEF TellNetwork, Lose, TypeOK, Serving, Workers, HttpPc
<1>16. CASE SendDeploy
  <2>1. [kind |-> "deploy", cluster |-> http.cluster, num |-> http.snap.next] \in Requests
    BY <1>16 DEF SendDeploy, Serving, Requests
  <2>2. cluster' \in [Clusters -> Views] /\ late' \subseteq Requests /\ losses' \in Nat
    BY <1>16, <2>1, RequestEffect DEF SendDeploy, TypeOK
  <2> QED  BY <1>16, <2>2, WorkerTyped DEF SendDeploy, TypeOK, Serving, Workers, HttpPc
<1>17. CASE AnswerResult
  BY <1>17, WorkerTyped DEF AnswerResult, Lose, TypeOK, Serving, Workers
<1>18. ASSUME NEW c \in Clusters, ReceiveReport(c)
       PROVE  TypeOK' /\ Serving'
  <2> DEFINE known(n) == report[c][n] # "ABSENT" /\ Present(job, n)
             written == [job EXCEPT !.list = [n \in Numbers |->
               IF known(n) THEN [job.list[n] EXCEPT !.status = report[c][n]] ELSE job.list[n]]]
  <2>1. written \in Documents
    <3>1. ASSUME NEW n \in Numbers, known(n)
          PROVE  [job.list[n] EXCEPT !.status = report[c][n]] \in Records
      <4>1. report[c][n] \in Statuses
        BY <3>1 DEF TypeOK, Views
      <4>2. job.list[n] \in [cluster : Clusters, status : Statuses]
        BY <1>0, <3>1, PresentNamesCluster
      <4> QED  BY <4>1, <4>2 DEF Records
    <3> HIDE DEF known
    <3> QED  BY <1>0, <3>1 DEF Documents
  <2>2. report' \in [Clusters -> Views]
    BY <1>18 DEF ReceiveReport, TypeOK, Views, Nothing
  <2>3. job' \in Documents
    BY <1>0, <1>18, <2>1 DEF ReceiveReport
  <2>4. http.pc = "idle" /\ UNCHANGED <<listed, sched, cluster, late, creates, ups, losses, kills>>
    BY <1>18 DEF ReceiveReport
  <2>5. \/ http' = http /\ outages' \in Nat
        \/ http' = [Idle EXCEPT !.pc = "undeploy", !.cluster = c] /\ outages' \in Nat
    BY <1>18 DEF ReceiveReport, Outage, TypeOK
  <2> HIDE DEF written
  <2>6. http' \in Workers /\ outages' \in Nat
        /\ (http'.pc = "idle" \/ (http'.pc = "undeploy" /\ http'.cluster \in Clusters))
    <3>1. [Idle EXCEPT !.pc = "undeploy", !.cluster = c] \in Workers
      BY WorkerTyped DEF Workers, HttpPc
    <3>2. [Idle EXCEPT !.pc = "undeploy", !.cluster = c].pc = "undeploy"
          /\ [Idle EXCEPT !.pc = "undeploy", !.cluster = c].cluster = c
      BY WorkerTyped DEF Workers
    <3> QED  BY <1>0, <1>n, <2>4, <2>5, <3>1, <3>2
  <2> QED  BY <2>2, <2>3, <2>4, <2>6 DEF TypeOK, Serving, Workers
<1>19. CASE Undeploy
  <2>1. [kind |-> "wipe", cluster |-> http.cluster] \in Requests
    BY <1>19 DEF Undeploy, Serving, Requests
  <2> QED  BY <1>19, <2>1, RequestEffect, WorkerTyped DEF Undeploy, TypeOK, Serving, Workers
<1>20. CASE KillWorker
  BY <1>20, WorkerTyped DEF KillWorker, TypeOK, Serving, Workers
<1>21. CASE LateRequest
  <2>1. PICK r \in late : Served(r) /\ late' = late \ {r}
    BY <1>21 DEF LateRequest
  <2> QED  BY <1>21, <2>1, LateEffect DEF LateRequest, TypeOK, Serving
<1>22. ASSUME NEW c \in Clusters, NEW n \in Numbers, ClusterUpdates(c, n)
       PROVE  TypeOK' /\ Serving'
  BY <1>22 DEF ClusterUpdates, TypeOK, Serving, Views, Statuses
<1>23. ASSUME NEW c \in Clusters, ClusterReports(c)
       PROVE  TypeOK' /\ Serving'
  BY <1>23 DEF ClusterReports, TypeOK, Serving, Views
<1> QED  BY <1>1, <1>2, <1>3, <1>4, <1>5, <1>6, <1>7, <1>8, <1>9, <1>10, <1>11, <1>12, <1>13,
            <1>14, <1>15, <1>16, <1>17, <1>18, <1>19, <1>20, <1>21, <1>22, <1>23 DEF Next, HttpStep

-------------------------------------------------------------------------------
(* Before the first creation *)

\* Only a creation ends the time before the first creation.
LEMMA StepNothingBefore ==
  ASSUME TypeOK, TypeOK', NothingBefore, [Next]_vars
  PROVE  NothingBefore'
<1> SUFFICES ASSUME creates' = 0
             PROVE  /\ http'.pc = "idle" /\ ~job'.exists /\ listed' = 0 /\ late' = {}
                    /\ \A c \in Clusters : cluster'[c] = Nothing /\ report'[c] = Nothing
  BY DEF NothingBefore, Nothing, Numbers
<1> USE DEF remote, counts
<1>1. ~CreateService
  BY DEF CreateService, TypeOK
<1>2. CASE creates' # creates
  <2>1. ~UNCHANGED vars
    BY <1>2 DEF vars
  <2>2. Next
    BY <2>1
  <2> QED  BY <1>1, <1>2, <2>2
           DEF Next, HttpStep, DeleteService, ScaleUp, RefuseResult, ScaleDown, ReceiveResult,
               ReceiveReport, ClusterReports, ListService, NotifyService, UnlistService, DropJob,
               DownRequest, DownWrite, PlaceInstance, TellNetwork, SendDeploy, AnswerResult,
               Undeploy, KillWorker, LateRequest, ClusterUpdates
<1>3. CASE creates = 0
  <2>1. /\ http.pc = "idle" /\ ~job.exists /\ listed = 0 /\ late = {}
        /\ \A c \in Clusters : cluster[c] = Nothing /\ report[c] = Nothing
    BY <1>3 DEF NothingBefore
  <2>2. ~(HttpStep \/ KillWorker \/ LateRequest \/ DeleteService \/ ScaleUp)
    BY <2>1 DEF HttpStep, ListService, NotifyService, UnlistService, DropJob,
               DownRequest, DownWrite, PlaceInstance, TellNetwork, SendDeploy, AnswerResult,
               Undeploy, KillWorker, LateRequest, DeleteService, ScaleUp
  <2>3. \A S : ~ScaleDown(S)
    BY <2>1 DEF ScaleDown
  <2>4. \A c \in Clusters : ~ReceiveResult(c) /\ ~ReceiveReport(c) /\ ~ClusterReports(c)
    BY <2>1 DEF ReceiveResult, ReceiveReport, ClusterReports
  <2>5. \A c \in Clusters, n \in Numbers : ~ClusterUpdates(c, n)
    BY <2>1 DEF ClusterUpdates, Nothing
  <2>6. RefuseResult \/ UNCHANGED vars
    BY <1>1, <2>2, <2>3, <2>4, <2>5 DEF Next
  <2> QED  BY <2>1, <2>6 DEF RefuseResult, vars
<1> QED  BY <1>2, <1>3

-------------------------------------------------------------------------------
(* Instance numbers *)

\* A step that gives no number out, and after which the clusters hold and the root's
\* list names no more than before, keeps the numbers unique.
LEMMA QuietStep ==
  ASSUME TypeOK, NumbersBelow, NumbersUnique, creates' = creates,
         job'.exists => job.exists /\ job'.next = job.next,
         \A n \in Numbers : Present(job, n)' =>
           Present(job, n) /\ job'.next = job.next /\ job'.list[n].cluster = job.list[n].cluster,
         \A c \in Clusters, n \in Numbers : Holds(c, n)' => Holds(c, n),
         http'.pc \in {"tell", "deploy"} =>
           /\ http.pc \in {"tell", "deploy"} /\ http.snap.next \in Numbers
           /\ http'.snap.next = http.snap.next /\ http'.cluster = http.cluster
  PROVE  NumbersBelow' /\ NumbersUnique'
<1> SUFFICES ASSUME creates <= 1
             PROVE  NumbersBelow' /\ NumbersUnique'
  BY DEF NumbersBelow, NumbersUnique
<1>1. NumbersUnique'
  BY DEF NumbersUnique
<1>2. job'.exists => \A c \in Clusters, n \in Numbers : Holds(c, n)' => n < job'.next
  BY DEF NumbersBelow
<1>3. \A n \in Numbers : Present(job, n)' => n < job'.next
  BY DEF NumbersBelow
<1>4. ASSUME http'.pc \in {"tell", "deploy"}
      PROVE  (/\ \A c \in Clusters : ~Holds(c, http.snap.next)
              /\ Present(job, http.snap.next) =>
                   job.list[http.snap.next].cluster = http.cluster)'
  BY <1>4 DEF NumbersBelow
<1> QED  BY <1>1, <1>2, <1>3, <1>4 DEF NumbersBelow

\* Every step keeps the numbers below the next one, and unique.
LEMMA StepNumbers ==
  ASSUME TypeOK, TypeOK', Serving, NothingBefore, NumbersBelow, NumbersUnique, [Next]_vars
  PROVE  NumbersBelow' /\ NumbersUnique'
<1> USE DEF remote, counts
<1>0. http \in Workers /\ job \in Documents /\ http' \in Workers /\ job' \in Documents
  BY DEF TypeOK, Workers
<1>h. ASSUME UNCHANGED <<cluster, late>>
      PROVE  \A c \in Clusters, n \in Numbers : Holds(c, n)' => Holds(c, n)
  BY <1>h DEF Holds
<1>q. ASSUME creates' = creates, job' = job,
             \A c \in Clusters, n \in Numbers : Holds(c, n)' => Holds(c, n),
             http'.pc \notin {"tell", "deploy"}
      PROVE  NumbersBelow' /\ NumbersUnique'
  BY <1>q, QuietStep
<1>i. Idle.pc = "idle" /\ \A S, w : Down(S, w).pc = "down"
  BY DEF Idle, Down
<1>1. CASE UNCHANGED vars
  BY <1>1, <1>h, QuietStep DEF vars, Serving
<1>2. CASE CreateService
  <2>1. CASE creates = 0
    <3>1. \A c \in Clusters, n \in Numbers : ~Holds(c, n)'
      BY <1>2, <2>1 DEF CreateService, NothingBefore, Holds, Nothing
    <3>2. \A n \in Numbers : ~Present(job, n)'
      BY <1>2, DocumentsTyped DEF CreateService, Present
    <3>3. http'.pc = "list"
      BY <1>2, WorkerTyped DEF CreateService, Workers
    <3> QED  BY <3>1, <3>2, <3>3 DEF NumbersBelow, NumbersUnique
  <2>2. CASE creates # 0
    BY <1>2, <2>2 DEF CreateService, TypeOK, NumbersBelow, NumbersUnique
  <2> QED  BY <2>1, <2>2
<1>3. CASE ListService
  <2>1. http'.pc \in {"idle", "notify"}
    BY <1>3, WorkerTyped DEF ListService, Workers
  <2> QED  BY <1>3, <1>h, <1>q, <2>1 DEF ListService
<1>4. CASE NotifyService
  <2>1. http'.pc \in {"idle", "down"}
    BY <1>4, <1>i, Zenon DEF NotifyService
  <2>2. job' = job /\ creates' = creates /\ UNCHANGED <<cluster, late>>
    BY <1>4, Zenon DEF NotifyService
  <2> QED  BY <1>h, <1>q, <2>1, <2>2
<1>5. CASE DeleteService
  <2>1. http'.pc \in {"unlist", "down"}
    <3>1. [Idle EXCEPT !.pc = "unlist"].pc = "unlist"
      BY DEF Idle
    <3> QED  BY <1>5, <1>i, <3>1, Zenon DEF DeleteService
  <2>2. job' = job /\ creates' = creates /\ UNCHANGED <<cluster, late>>
    BY <1>5, Zenon DEF DeleteService
  <2> QED  BY <1>h, <1>q, <2>1, <2>2
<1>6. CASE UnlistService
  <2>1. http'.pc \in {"idle", "drop"}
    BY <1>6, WorkerTyped DEF UnlistService, Workers
  <2> QED  BY <1>6, <1>h, <1>q, <2>1 DEF UnlistService
<1>7. CASE DropJob
  <2>1. CASE job' = NoJob
    BY <1>7, <1>h, <1>i, <2>1, DocumentsTyped, QuietStep DEF DropJob, Present
  <2>2. CASE job' = job
    BY <1>7, <1>h, <1>i, <1>q, <2>2 DEF DropJob
  <2> QED  BY <1>7, <2>1, <2>2 DEF DropJob
<1>8. ASSUME NEW S \in {{n} : n \in Numbers} \cup {Numbers}, ScaleDown(S)
      PROVE  NumbersBelow' /\ NumbersUnique'
  <2>1. http'.pc = "down" /\ job' = job /\ creates' = creates /\ UNCHANGED <<cluster, late>>
    BY <1>8, <1>i, Zenon DEF ScaleDown
  <2> QED  BY <1>h, <1>q, <2>1
<1>9. CASE DownRequest
  <2>1. PICK n \in http.todo :
          /\ IF Present(job, n)
             THEN Request([kind |-> "delete", cluster |-> job.list[n].cluster, num |-> n])
             ELSE UNCHANGED <<cluster, late, losses>>
          /\ http' = [http EXCEPT !.todo = @ \ {n}, !.gone = @ \cup {n}]
    BY <1>9 DEF DownRequest
  <2>2. n \in Numbers /\ http'.pc = "down"
    BY <1>0, <1>9, <2>1 DEF DownRequest, Workers
  <2>3. \A c \in Clusters, m \in Numbers : Holds(c, m)' => Holds(c, m)
    <3>1. CASE Present(job, n)
      <4>1. [kind |-> "delete", cluster |-> job.list[n].cluster, num |-> n] \in Requests
        BY <1>0, <2>2, <3>1, PresentNamesCluster DEF Requests
      <4>2. \A c \in Clusters, m \in Numbers :
              [kind |-> "delete", cluster |-> job.list[n].cluster, num |-> n]
                # [kind |-> "deploy", cluster |-> c, num |-> m]
        OBVIOUS
      <4> QED  BY <2>1, <3>1, <4>1, <4>2, RequestEffect
    <3> QED  BY <1>h, <2>1, <3>1
  <2> QED  BY <1>9, <1>q, <2>2, <2>3 DEF DownRequest
<1>10. CASE DownWrite
  <2>1. CASE job' = job
    BY <1>0, <1>10, <1>h, <1>q, <2>1, WorkerTyped DEF DownWrite, Workers
  <2>2. CASE job' # job
    <3>1. http.snap = job
      BY <1>10 DEF DownWrite, Serving
    <3>2. job' = [job EXCEPT !.next = job.next,
                             !.list = [n \in Numbers |-> IF n \in http.gone THEN Absent
                                                         ELSE job.list[n]]]
      BY <1>10, <2>2, <3>1 DEF DownWrite
    <3>3. /\ job'.exists = job.exists /\ job'.next = job.next
          /\ \A n \in Numbers : Present(job, n)' =>
               Present(job, n) /\ job'.list[n].cluster = job.list[n].cluster
      BY <1>0, <3>2 DEF Documents, Present
    <3>4. http'.pc \in {"idle", "unlist"}
      BY <1>10, WorkerTyped DEF DownWrite, Workers
    <3> QED  BY <1>10, <1>h, <3>3, <3>4, QuietStep DEF DownWrite
  <2> QED  BY <2>1, <2>2
<1>11. CASE ScaleUp
  BY <1>11, <1>h, <1>q DEF ScaleUp
<1>12. CASE RefuseResult
  BY <1>12, <1>h, <1>q DEF RefuseResult
<1>13. ASSUME NEW c \in Clusters, ReceiveResult(c)
       PROVE  NumbersBelow' /\ NumbersUnique'
  <2>1. http'.pc = "place"
    BY <1>13, WorkerTyped DEF ReceiveResult, Workers
  <2> QED  BY <1>13, <1>h, <1>q, <2>1 DEF ReceiveResult
<1>14. CASE PlaceInstance
  <2> DEFINE n == http.snap.next
  <2>1. n \in Numbers /\ n = job.next /\ job.exists /\ http.snap = job /\ http.cluster \in Clusters
    BY <1>14 DEF PlaceInstance, Serving
  <2>2. http'.pc = "tell" /\ http'.snap = http.snap /\ http'.cluster = http.cluster
    BY <1>0, <1>14 DEF PlaceInstance, Workers
  <2>3. creates <= 1 => \A c \in Clusters : ~Holds(c, n)'
    BY <1>0, <1>14, <2>1 DEF PlaceInstance, NumbersBelow, Holds, Documents
  <2>4. creates' = creates /\ \A c \in Clusters, m \in Numbers : Holds(c, m)' <=> Holds(c, m)
    BY <1>14 DEF PlaceInstance, Holds
  <2>5. CASE job' = job
    <3>1. creates <= 1 => ~Present(job, n)
      BY <1>0, <2>1 DEF NumbersBelow, Documents
    <3>2. NumbersUnique'
      BY <2>4, <2>5 DEF NumbersUnique
    <3> QED  BY <2>1, <2>2, <2>3, <2>4, <2>5, <3>1, <3>2 DEF NumbersBelow
  <2>6. CASE job' # job
    <3>1. job' = [job EXCEPT !.next = n + 1,
                             !.list = [job.list EXCEPT ![n] =
                               [cluster |-> http.cluster, status |-> "CLUSTER_SCHEDULED"]]]
      BY <1>14, <2>1, <2>6 DEF PlaceInstance
    <3>2. /\ job'.exists /\ job'.next = n + 1 /\ n \in Nat
          /\ job'.list[n].cluster = http.cluster
          /\ \A m \in Numbers \ {n} : job'.list[m] = job.list[m]
      BY <1>0, <2>1, <3>1 DEF Documents
    <3>3. NumbersUnique'
      <4> SUFFICES ASSUME creates <= 1, NEW c \in Clusters, NEW m \in Numbers, Holds(c, m)'
                   PROVE  /\ \A d \in Clusters : Holds(d, m)' => d = c
                          /\ Present(job, m)' => job'.list[m].cluster = c
        BY <2>4 DEF NumbersUnique
      <4>1. m # n /\ Holds(c, m)
        BY <2>2, <2>3, <2>4
      <4>2. job'.list[m] = job.list[m]
        BY <3>2, <4>1
      <4> QED  BY <2>4, <4>1, <4>2 DEF NumbersUnique, Present
    <3>4. creates <= 1 => \A m \in Numbers : Present(job, m)' => m < job'.next
      BY <2>1, <3>2 DEF NumbersBelow, Present, Numbers
    <3>5. creates <= 1 => \A c \in Clusters, m \in Numbers : Holds(c, m)' => m < job'.next
      BY <2>1, <2>4, <3>2 DEF NumbersBelow, Numbers
    <3>6. (Present(job, http.snap.next) => job.list[http.snap.next].cluster = http.cluster)'
      BY <2>2, <3>2
    <3> QED  BY <2>2, <2>3, <2>4, <3>3, <3>4, <3>5, <3>6 DEF NumbersBelow
  <2> QED  BY <2>5, <2>6
<1>15. CASE TellNetwork
  <2>1. \/ http'.pc = "idle"
        \/ http'.snap = http.snap /\ http'.cluster = http.cluster
    BY <1>0, <1>15, WorkerTyped DEF TellNetwork, Workers
  <2> QED  BY <1>15, <1>h, <2>1, QuietStep DEF TellNetwork, Serving
<1>16. CASE SendDeploy
  <2> DEFINE n == http.snap.next
             r == [kind |-> "deploy", cluster |-> http.cluster, num |-> n]
  <2>1. n \in Numbers /\ http.cluster \in Clusters /\ http.pc = "deploy" /\ http'.pc = "answer"
    BY <1>16, WorkerTyped DEF SendDeploy, Serving, Workers
  <2>2. CASE ~Present(job, n)
    BY <1>16, <1>h, <1>q, <2>1, <2>2 DEF SendDeploy
  <2>3. CASE Present(job, n)
    <3>1. \A c \in Clusters, m \in Numbers :
            Holds(c, m)' => Holds(c, m) \/ (c = http.cluster /\ m = n)
      <4>1. r \in Requests /\ Request(r)
        BY <1>16, <2>1, <2>3 DEF SendDeploy, Requests
      <4>2. \A c \in Clusters, m \in Numbers :
              r = [kind |-> "deploy", cluster |-> c, num |-> m] => c = http.cluster /\ m = n
        OBVIOUS
      <4> HIDE DEF r
      <4> QED  BY <4>1, <4>2, RequestEffect
    <3>2. creates' = creates /\ job' = job
      BY <1>16 DEF SendDeploy
    <3>3. creates <= 1 => /\ \A c \in Clusters : ~Holds(c, n)
                          /\ job.list[n].cluster = http.cluster /\ n < job.next
      BY <2>1, <2>3 DEF NumbersBelow
    <3> HIDE DEF n
    <3>4. NumbersUnique'
      BY <2>1, <3>1, <3>2, <3>3 DEF NumbersUnique
    <3>5. NumbersBelow'
      BY <2>1, <3>1, <3>2, <3>3 DEF NumbersBelow
    <3> QED  BY <3>4, <3>5
  <2> QED  BY <2>2, <2>3
<1>17. CASE AnswerResult
  BY <1>17, <1>h, <1>i, <1>q DEF AnswerResult
<1>18. ASSUME NEW c \in Clusters, ReceiveReport(c)
       PROVE  NumbersBelow' /\ NumbersUnique'
  <2> DEFINE known(n) == report[c][n] # "ABSENT" /\ Present(job, n)
             written == [job EXCEPT !.list = [n \in Numbers |->
               IF known(n) THEN [job.list[n] EXCEPT !.status = report[c][n]] ELSE job.list[n]]]
  <2>1. job' = job \/ job' = written
    BY <1>18 DEF ReceiveReport
  <2>2. /\ job'.exists = job.exists /\ job'.next = job.next
        /\ \A n \in Numbers : Present(job, n)' =>
             Present(job, n) /\ job'.list[n].cluster = job.list[n].cluster
    <3>1. ASSUME NEW n \in Numbers, known(n)
          PROVE  [job.list[n] EXCEPT !.status = report[c][n]].cluster = job.list[n].cluster
      BY <1>0, <3>1, PresentNamesCluster
    <3>2. written.exists = job.exists /\ written.next = job.next
      BY <1>0 DEF Documents
    <3>3. ASSUME NEW n \in Numbers
          PROVE  written.list[n] =
                   IF known(n) THEN [job.list[n] EXCEPT !.status = report[c][n]] ELSE job.list[n]
      BY <1>0 DEF Documents
    <3>4. CASE job' = job
      BY <3>4 DEF Present
    <3>5. CASE job' = written
      <4>1. job'.exists = job.exists /\ job'.next = job.next
        BY <3>2, <3>5
      <4>2. ASSUME NEW n \in Numbers, Present(job, n)'
            PROVE  Present(job, n) /\ job'.list[n].cluster = job.list[n].cluster
        <5>1. CASE known(n)
          BY <3>1, <3>3, <3>5, <5>1
        <5>2. CASE ~known(n)
          <6>1. job'.list[n] = job.list[n]
            BY <3>3, <3>5, <5>2
          <6> QED  BY <4>2, <6>1 DEF Present
        <5> QED  BY <5>1, <5>2
      <4> QED  BY <4>1, <4>2
    <3> QED  BY <2>1, <3>4, <3>5
  <2>3. http'.pc \in {"idle", "undeploy"}
    BY <1>18, WorkerTyped DEF ReceiveReport, Workers
  <2> HIDE DEF written
  <2> QED  BY <1>18, <1>h, <2>2, <2>3, QuietStep DEF ReceiveReport
<1>19. CASE Undeploy
  <2>1. [kind |-> "wipe", cluster |-> http.cluster] \in Requests
    BY <1>19 DEF Undeploy, Serving, Requests
  <2>2. \A c \in Clusters, m \in Numbers :
          [kind |-> "wipe", cluster |-> http.cluster] # [kind |-> "deploy", cluster |-> c, num |-> m]
    OBVIOUS
  <2>3. \A c \in Clusters, m \in Numbers : Holds(c, m)' => Holds(c, m)
    BY <1>19, <2>1, <2>2, RequestEffect DEF Undeploy
  <2> QED  BY <1>19, <1>i, <1>q, <2>3 DEF Undeploy
<1>20. CASE KillWorker
  BY <1>20, <1>h, <1>i, <1>q DEF KillWorker
<1>21. CASE LateRequest
  <2>1. PICK r \in late : Served(r) /\ late' = late \ {r}
    BY <1>21 DEF LateRequest
  <2>2. \A c \in Clusters, m \in Numbers : Holds(c, m)' => Holds(c, m)
    BY <2>1, LateEffect
  <2> QED  BY <1>21, <2>2, QuietStep DEF LateRequest, Serving
<1>22. ASSUME NEW c \in Clusters, NEW n \in Numbers, ClusterUpdates(c, n)
       PROVE  NumbersBelow' /\ NumbersUnique'
  <2>1. \A d \in Clusters, m \in Numbers : Holds(d, m)' => Holds(d, m)
    BY <1>22 DEF ClusterUpdates, Holds, TypeOK, Views
  <2> QED  BY <1>22, <2>1, QuietStep DEF ClusterUpdates, Serving
<1>23. ASSUME NEW c \in Clusters, ClusterReports(c)
       PROVE  NumbersBelow' /\ NumbersUnique'
  BY <1>23, <1>h, QuietStep DEF ClusterReports, Serving
<1> QED  BY <1>1, <1>2, <1>3, <1>4, <1>5, <1>6, <1>7, <1>8, <1>9, <1>10, <1>11, <1>12, <1>13,
            <1>14, <1>15, <1>16, <1>17, <1>18, <1>19, <1>20, <1>21, <1>22, <1>23 DEF Next, HttpStep

-------------------------------------------------------------------------------
(* Wiping and orphans *)

\* A request to delete a job follows a report about a job that is not there, and no
\* creation brings it back.
LEMMA StepWipes ==
  ASSUME TypeOK, TypeOK', Serving, NothingBefore, OnlyOutdatedWiped, [Next]_vars
  PROVE  OnlyOutdatedWiped'
<1> USE DEF remote, counts
<1> SUFFICES ASSUME outages' = 0 PROVE WipeMeansOutdated'
  BY DEF OnlyOutdatedWiped, WipeMeansOutdated
<1>0. http \in Workers /\ job \in Documents /\ http' \in Workers /\ outages \in Nat
  BY DEF TypeOK, Workers
<1>i. Idle.pc = "idle" /\ \A S, w : Down(S, w).pc = "down"
  BY DEF Idle, Down
<1>q. ASSUME outages = 0, late' \subseteq late, job'.exists => job.exists,
             http'.pc = "undeploy" => http.pc = "undeploy"
      PROVE  WipeMeansOutdated'
  BY <1>q DEF OnlyOutdatedWiped, WipeMeansOutdated
<1>r. ASSUME NEW r, r.kind # "wipe", outages = 0, late' \subseteq late \cup {r}, job' = job,
             http'.pc = "undeploy" => http.pc = "undeploy"
      PROVE  WipeMeansOutdated'
  BY <1>r DEF OnlyOutdatedWiped, WipeMeansOutdated
<1>1. CASE UNCHANGED vars
  BY <1>1, <1>q DEF vars
<1>2. CASE CreateService
  <2>1. late' = late /\ http'.pc = "list" /\ outages = 0 /\ (creates = 0 \/ job.exists)
    BY <1>2, WorkerTyped DEF CreateService, Workers
  <2>2. CASE job.exists
    BY <1>q, <2>1, <2>2
  <2>3. CASE creates = 0
    BY <2>1, <2>3 DEF NothingBefore, WipeMeansOutdated
  <2> QED  BY <2>1, <2>2, <2>3
<1>3. CASE ListService
  BY <1>0, <1>3, <1>q, WorkerTyped DEF ListService, Outage, Workers
<1>4. CASE NotifyService
  <2>1. http'.pc \in {"idle", "down"}
    BY <1>4, <1>i, Zenon DEF NotifyService
  <2>2. job' = job /\ late' = late /\ outages' = outages
    BY <1>4, Zenon DEF NotifyService
  <2> QED  BY <1>q, <2>1, <2>2
<1>5. CASE DeleteService
  <2>1. http'.pc \in {"unlist", "down"}
    <3>1. [Idle EXCEPT !.pc = "unlist"].pc = "unlist"
      BY DEF Idle
    <3> QED  BY <1>5, <1>i, <3>1, Zenon DEF DeleteService
  <2>2. job' = job /\ late' = late
    BY <1>5, Zenon DEF DeleteService
  <2>3. outages = 0
    BY <1>0, <1>5 DEF DeleteService, Outage, Down
  <2> QED  BY <1>q, <2>1, <2>2, <2>3
<1>6. CASE UnlistService
  BY <1>0, <1>6, <1>q, WorkerTyped DEF UnlistService, Outage, Workers
<1>7. CASE DropJob
  BY <1>0, <1>7, <1>i, <1>q, DocumentsTyped DEF DropJob, Outage
<1>8. ASSUME NEW S \in {{n} : n \in Numbers} \cup {Numbers}, ScaleDown(S)
      PROVE  WipeMeansOutdated'
  <2>1. http'.pc = "down" /\ job' = job /\ late' = late /\ outages' = outages
    BY <1>8, <1>i, Zenon DEF ScaleDown
  <2> QED  BY <1>q, <2>1
<1>9. CASE DownRequest
  <2>1. PICK n \in http.todo :
          /\ IF Present(job, n)
             THEN Request([kind |-> "delete", cluster |-> job.list[n].cluster, num |-> n])
             ELSE UNCHANGED <<cluster, late, losses>>
          /\ http' = [http EXCEPT !.todo = @ \ {n}, !.gone = @ \cup {n}]
    BY <1>9 DEF DownRequest
  <2> DEFINE r == [kind |-> "delete", cluster |-> job.list[n].cluster, num |-> n]
  <2>2. r.kind # "wipe" /\ late' \subseteq late \cup {r}
    BY <2>1 DEF Request
  <2>3. http'.pc = "down" /\ job' = job /\ outages = 0
    BY <1>0, <1>9, <2>1 DEF DownRequest, Workers
  <2> HIDE DEF r
  <2> QED  BY <1>r, <2>2, <2>3
<1>10. CASE DownWrite
  <2>1. http'.pc \in {"idle", "unlist"} /\ late' = late
    BY <1>10, WorkerTyped DEF DownWrite, Workers
  <2>2. outages = 0 /\ job'.exists = job.exists
    <3>1. ~Outage
      BY <1>0 DEF Outage
    <3>2. job'.exists = job.exists
      BY <1>0, <1>10, <3>1 DEF DownWrite, Documents
    <3> QED  BY <1>10, <3>1, <3>2 DEF DownWrite
  <2> QED  BY <1>q, <2>1, <2>2
<1>11. CASE ScaleUp \/ RefuseResult
  BY <1>11, <1>q DEF ScaleUp, RefuseResult
<1>12. ASSUME NEW c \in Clusters, ReceiveResult(c)
       PROVE  WipeMeansOutdated'
  BY <1>12, <1>q, WorkerTyped DEF ReceiveResult, Workers
<1>13. CASE PlaceInstance
  <2>1. http'.pc = "tell" /\ late' = late
    BY <1>0, <1>13 DEF PlaceInstance, Workers
  <2>2. outages = 0 /\ job'.exists = job.exists
    <3>1. ~Outage
      BY <1>0 DEF Outage
    <3>2. job'.exists = job.exists
      BY <1>0, <1>13, <3>1 DEF PlaceInstance, Documents
    <3> QED  BY <1>13, <3>1, <3>2 DEF PlaceInstance
  <2> QED  BY <1>q, <2>1, <2>2
<1>14. CASE TellNetwork
  BY <1>0, <1>14, <1>q, WorkerTyped DEF TellNetwork, Workers
<1>15. CASE SendDeploy
  <2> DEFINE r == [kind |-> "deploy", cluster |-> http.cluster, num |-> http.snap.next]
  <2>1. r.kind # "wipe" /\ late' \subseteq late \cup {r}
    BY <1>15 DEF SendDeploy, Request
  <2>2. http'.pc = "answer" /\ job' = job /\ outages = 0
    BY <1>15, WorkerTyped DEF SendDeploy, Workers
  <2> HIDE DEF r
  <2> QED  BY <1>r, <2>1, <2>2
<1>16. CASE AnswerResult \/ KillWorker
  BY <1>16, <1>i, <1>q DEF AnswerResult, KillWorker
<1>17. ASSUME NEW c \in Clusters, ReceiveReport(c)
       PROVE  WipeMeansOutdated'
  <2>1. job'.exists = job.exists /\ late' = late
    BY <1>0, <1>17 DEF ReceiveReport, Documents
  <2>2. outages = 0
    BY <1>0, <1>17 DEF ReceiveReport, Outage
  <2>3. CASE job.exists
    BY <1>0, <1>17, <1>q, <2>1, <2>2, <2>3 DEF ReceiveReport, Outage
  <2>4. CASE ~job.exists
    BY <2>1, <2>4 DEF WipeMeansOutdated
  <2> QED  BY <2>3, <2>4
<1>18. CASE Undeploy
  <2>1. ~job.exists
    BY <1>18 DEF Undeploy, OnlyOutdatedWiped, WipeMeansOutdated
  <2> QED  BY <1>18, <2>1 DEF Undeploy, WipeMeansOutdated
<1>19. CASE LateRequest
  BY <1>19, <1>q DEF LateRequest
<1>20. ASSUME NEW c \in Clusters, NEW n \in Numbers, ClusterUpdates(c, n)
       PROVE  WipeMeansOutdated'
  BY <1>20, <1>q DEF ClusterUpdates
<1>21. ASSUME NEW c \in Clusters, ClusterReports(c)
       PROVE  WipeMeansOutdated'
  BY <1>21, <1>q DEF ClusterReports
<1> QED  BY <1>1, <1>2, <1>3, <1>4, <1>5, <1>6, <1>7, <1>8, <1>9, <1>10, <1>11, <1>12, <1>13,
            <1>14, <1>15, <1>16, <1>17, <1>18, <1>19, <1>20, <1>21 DEF Next, HttpStep

\* A job is listed right after it is written and unlisted right before it is deleted.
LEMMA StepOrphans ==
  ASSUME TypeOK, TypeOK', Serving, NoOrphan, [Next]_vars
  PROVE  NoOrphan'
<1> USE DEF remote, counts
<1> SUFFICES ASSUME kills' = 0, outages' = 0, job'.exists, http'.pc \notin {"list", "drop"}
             PROVE  listed' > 0
  BY DEF NoOrphan
<1>0. http \in Workers /\ job \in Documents /\ outages \in Nat /\ kills \in Nat /\ listed \in Nat
  BY DEF TypeOK, Workers
<1>o. ~Outage
  BY <1>0 DEF Outage
<1>q. ASSUME kills' = kills, outages' = outages, listed' = listed, job.exists,
             http.pc \notin {"list", "drop"}
      PROVE  listed' > 0
  BY <1>q DEF NoOrphan
<1>1. CASE UNCHANGED vars
  BY <1>1, <1>q DEF vars
<1>2. CASE CreateService
  BY <1>2, WorkerTyped DEF CreateService, Workers
<1>3. CASE ListService
  BY <1>0, <1>3, <1>o DEF ListService
<1>4. CASE NotifyService
  <2>1. UNCHANGED <<job, listed, kills, outages>> /\ http.pc = "notify"
    BY <1>4, Zenon DEF NotifyService
  <2> QED  BY <1>q, <2>1
<1>5. CASE DeleteService
  BY <1>5 DEF DeleteService, Down
<1>6. CASE UnlistService
  BY <1>6, <1>o, WorkerTyped DEF UnlistService, Workers
<1>7. CASE DropJob
  BY <1>7, <1>o, DocumentsTyped DEF DropJob
<1>8. ASSUME NEW S \in {{n} : n \in Numbers} \cup {Numbers}, ScaleDown(S)
      PROVE  listed' > 0
  BY <1>8 DEF ScaleDown, Down
<1>9. CASE DownRequest
  BY <1>9, <1>q DEF DownRequest
<1>10. CASE DownWrite
  <2>1. job'.exists = job.exists
    BY <1>0, <1>10, <1>o DEF DownWrite, Documents
  <2> QED  BY <1>10, <1>o, <1>q, <2>1 DEF DownWrite
<1>11. CASE ScaleUp \/ RefuseResult
  BY <1>11, <1>q DEF ScaleUp, RefuseResult
<1>12. ASSUME NEW c \in Clusters, ReceiveResult(c)
       PROVE  listed' > 0
  BY <1>12, <1>q DEF ReceiveResult
<1>13. CASE PlaceInstance
  <2>1. job'.exists = job.exists
    BY <1>0, <1>13, <1>o DEF PlaceInstance, Documents
  <2> QED  BY <1>13, <1>o, <1>q, <2>1 DEF PlaceInstance
<1>14. CASE TellNetwork \/ SendDeploy \/ AnswerResult \/ Undeploy
  BY <1>14, <1>q DEF TellNetwork, SendDeploy, AnswerResult, Undeploy
<1>15. ASSUME NEW c \in Clusters, ReceiveReport(c)
       PROVE  listed' > 0
  <2>1. job'.exists = job.exists
    BY <1>0, <1>15 DEF ReceiveReport, Documents
  <2> QED  BY <1>15, <1>o, <1>q, <2>1 DEF ReceiveReport
<1>16. CASE KillWorker
  BY <1>0, <1>16 DEF KillWorker
<1>17. CASE LateRequest
  BY <1>17, <1>q DEF LateRequest
<1>18. ASSUME NEW c \in Clusters, NEW n \in Numbers, ClusterUpdates(c, n)
       PROVE  listed' > 0
  BY <1>18, <1>q DEF ClusterUpdates
<1>19. ASSUME NEW c \in Clusters, ClusterReports(c)
       PROVE  listed' > 0
  BY <1>19, <1>q DEF ClusterReports
<1> QED  BY <1>1, <1>2, <1>3, <1>4, <1>5, <1>6, <1>7, <1>8, <1>9, <1>10, <1>11, <1>12, <1>13,
            <1>14, <1>15, <1>16, <1>17, <1>18, <1>19 DEF Next, HttpStep

-------------------------------------------------------------------------------
(* Theorems *)

\* What the proofs carry from state to state.
RootInv == TypeOK /\ Serving /\ NothingBefore /\ NumbersBelow /\ NumbersUnique
             /\ OnlyOutdatedWiped /\ NoOrphan

\* The inductive invariant.
LEMMA RootInvariant == Spec => []RootInv
<1>1. Init => RootInv
  <2> SUFFICES ASSUME Init PROVE RootInv
    OBVIOUS
  <2>1. TypeOK /\ Serving
    BY InitTyped
  <2>2. NothingBefore
    BY DocumentsTyped DEF Init, NothingBefore, Idle
  <2>3. \A c \in Clusters, n \in Numbers : ~Holds(c, n)
    BY DEF Init, Holds, Nothing
  <2>4. NumbersBelow /\ NumbersUnique
    BY <2>3, DocumentsTyped DEF Init, NumbersBelow, NumbersUnique, Idle
  <2>5. OnlyOutdatedWiped /\ NoOrphan
    BY DocumentsTyped DEF Init, OnlyOutdatedWiped, WipeMeansOutdated, NoOrphan
  <2> QED  BY <2>1, <2>2, <2>4, <2>5 DEF RootInv
<1>2. RootInv /\ [Next]_vars => RootInv'
  BY StepTyped, StepNothingBefore, StepNumbers, StepWipes, StepOrphans DEF RootInv
<1> QED  BY <1>1, <1>2, PTL DEF Spec

\* Every request finds the service on the list it takes it off, and every answer a
\* scheduling request that is pending.
THEOREM RootTyped == Spec => []TypeOK
<1>1. RootInv => TypeOK
  BY DEF RootInv
<1> QED  BY <1>1, RootInvariant, PTL

\* An instance number denotes one instance, in one cluster, the one the root's list
\* names: after scheduling results that were repeated, requests that were lost or late
\* and workers that were killed at any point.
THEOREM NumbersSound == Spec => []NumbersUnique
<1>1. RootInv => NumbersUnique
  BY DEF RootInv
<1> QED  BY <1>1, RootInvariant, PTL

\* As long as no call of the resource abstractor fails, a cluster is told to delete a job
\* only if the root has none.
THEOREM WipesSound == Spec => []OnlyOutdatedWiped
<1>1. RootInv => OnlyOutdatedWiped
  BY DEF RootInv
<1> QED  BY <1>1, RootInvariant, PTL

\* As long as no worker is killed and no call of the resource abstractor fails, every job
\* is on the list of its application between requests.
THEOREM OrphansSound == Spec => []NoOrphan
<1>1. RootInv => NoOrphan
  BY DEF RootInv
<1> QED  BY <1>1, RootInvariant, PTL
===============================================================================
