------------------------------ MODULE Scheduler ------------------------------
(***************************************************************************)
(* The scheduler of the root or of a cluster: the API that takes jobs, the   *)
(* task queue, the handler that asks the resource abstractor for candidates, *)
(* calculates a placement and posts it to the manager, and the retries of a  *)
(* task whose handler failed.                                                *)
(*                                                                         *)
(* Simplifications.                                                         *)
(* - A candidate stands for its id and its name.  A request to the resource  *)
(*   abstractor or the manager that fails, times out or is answered with an  *)
(*   error ends the handler alike.                                           *)
(* - A handler that is lost with its process is tried again by the queue: it *)
(*   is one that failed.  The delay between two tries is left out.           *)
(* - The random algorithm, which nothing selects, is left out.               *)
(***************************************************************************)
EXTENDS Integers, FiniteSets, Sequences

CONSTANTS
  Tasks,      \* the scheduling requests
  Payloads,   \* what a request may ask for
  Candidates, \* clusters (at the root) or workers (in a cluster)
  Offers,     \* what the resource abstractor may say of a candidate
  MaxRetry,   \* retries of a failing task (25 in asynq)
  MaxChanges, \* bound on the changes of the candidates
  None        \* no name in a constraint

ASSUME SchedulerAssumption ==
  /\ MaxRetry \in Nat /\ MaxChanges \in Nat
  /\ None \notin Candidates

VARIABLES
  offer,   \* candidate -> what the resource abstractor has of it
  changes, \* number of changes of it so far
  job,     \* task -> its payload
  task,    \* task -> where it is
  tries,   \* task -> failed tries
  chosen,  \* task -> the decision of its handler and the candidates it saw
  answer   \* task -> the last answer the manager got

vars == <<offer, changes, job, task, tries, chosen, answer>>

Statuses == {"TargetClusterNotActive", "NoActiveClusterWithCapacity"}
NoChoice == [decision |-> None, seen |-> <<>>]

\* A status is no candidate, a list of virtualizations is one of strings, and what
\* is compared is a number.
ASSUME PlacementAssumption ==
  /\ IsFiniteSet(Candidates) /\ Candidates \cap Statuses = {}
  /\ \A j \in Payloads :
       /\ j.virtualization.kind \in {"string", "list", "null", "other"}
       /\ j.virtualization.kind = "list" => j.virtualization.value \in Seq(STRING)
  /\ \A o \in Offers : o.memory \in Int /\ o.cpu_percent \in Int

Init ==
  /\ offer \in [Candidates -> Offers]
  /\ changes = 0
  /\ job \in [Tasks -> Payloads]
  /\ task = [t \in Tasks |-> "new"]
  /\ tries = [t \in Tasks |-> 0]
  /\ chosen = [t \in Tasks |-> NoChoice]
  /\ answer = [t \in Tasks |-> NoChoice]

-----------------------------------------------------------------------------
(* Reading a payload.                                                        *)

\* NormalizeVirtualization of a string, a list or null; anything else, a list
\* with something else in it too, is an error.
NormalizeVirtualization(raw) ==
  CASE raw.kind = "string" -> <<raw.value>>
    [] raw.kind = "list"   -> raw.value
    [] raw.kind = "null"   -> <<>>
Malformed(resources) == resources.virtualization.kind = "other"

\* normaliseCsiDrivers: the names of a list of strings and of the node engine's
\* objects, without the empty ones.
NormaliseCsiDrivers(raw) == {item.name : item \in raw} \ {""}

\* ResourceConstraints: the last direct constraint counts, also if it names
\* nobody on this plane; then the query does not restrict the candidates.
DirectTarget(j) ==
  LET direct == SelectSeq(j.constraints, LAMBDA c : c.type = "direct")
  IN  IF direct = <<>> THEN None ELSE direct[Len(direct)].name

-----------------------------------------------------------------------------
(* The placement.                                                            *)

\* formatQuery asks for the active candidates, or for the named one if it is
\* active; an empty name is left out of the query.
FormatQuery(j, c, world) ==
  world[c].active /\ (DirectTarget(j) # None => c = DirectTarget(j))

AvailableResources(j, world) == {c \in Candidates : FormatQuery(j, c, world)}

MeetsBasicRequirements(j, o) ==
  LET virt == NormalizeVirtualization(j.virtualization)
      has  == NormalizeVirtualization(o.virtualization)
  IN  /\ virt # <<>>
      /\ \E i \in DOMAIN has : has[i] = virt[1]
      /\ o.vcpus >= j.vcpus
      /\ o.memory >= j.memory

\* hasRequiredCSIDrivers: volumes without a driver ask for nothing.
HasRequiredCSIDrivers(j, o) ==
  \A v \in j.volumes : v = "" \/ v \in NormaliseCsiDrivers(o.csi_drivers)

FilterRequirements(j, cands, world) ==
  {c \in cands : MeetsBasicRequirements(j, world[c]) /\ HasRequiredCSIDrivers(j, world[c])}

\* cmpMemCPU compares free CPU percentage plus free memory.
Score(o) == (100 - o.cpu_percent) + o.memory

\* The orders in which SortFunc, which is not stable, may leave the candidates.
SortedOrders(cands, world) ==
  {s \in [1 .. Cardinality(cands) -> cands] :
     /\ \A c \in cands : \E i \in DOMAIN s : s[i] = c
     /\ \A i, j \in DOMAIN s : i < j => Score(world[s[i]]) <= Score(world[s[j]])}

\* The mutation of Calculate: the first of the sorted candidates is returned.
CalculateFirst(j, world) ==
  LET cands == AvailableResources(j, world)
      fit   == FilterRequirements(j, cands, world)
  IN  CASE cands = {} -> {"TargetClusterNotActive"}
        [] cands # {} /\ fit = {} -> {"NoActiveClusterWithCapacity"}
        [] OTHER -> {s[1] : s \in SortedOrders(fit, world)}

\* Calculate: what it may return.
Calculate(j, world) ==
  LET cands == AvailableResources(j, world)
      fit   == FilterRequirements(j, cands, world)
  IN  CASE cands = {} -> {"TargetClusterNotActive"}
        [] cands # {} /\ fit = {} -> {"NoActiveClusterWithCapacity"}
        [] OTHER -> {s[Len(s)] : s \in SortedOrders(fit, world)}

-----------------------------------------------------------------------------
(* The life of a task.                                                       *)

\* The API: the body cannot be read, the queue cannot be reached, or the task is
\* in the queue.
Enqueue(t) ==
  /\ task[t] = "new"
  /\ \E to \in {"refused", "pending"} : task' = [task EXCEPT ![t] = to]
  /\ UNCHANGED <<offer, changes, job, tries, chosen, answer>>

\* The mutation of Failed: the tries are not counted.
FailedUncounted(t) ==
  /\ task' = [task EXCEPT ![t] = "pending"]
  /\ UNCHANGED tries

\* The handler returned an error: the queue tries again, up to a number of times.
Failed(t) ==
  /\ tries' = [tries EXCEPT ![t] = @ + 1]
  /\ task' = [task EXCEPT ![t] = IF tries[t] < MaxRetry THEN "pending" ELSE "archived"]

\* The handler up to the decision.  A payload that cannot be unmarshalled, a
\* request that fails, and one candidate that cannot be unmarshalled are errors.
Decide(t) ==
  /\ task[t] = "pending"
  /\ \/ /\ ~Malformed(job[t])
        /\ \A c \in AvailableResources(job[t], offer) : ~Malformed(offer[c])
        /\ \E d \in Calculate(job[t], offer) :
             chosen' = [chosen EXCEPT ![t] = [decision |-> d, seen |-> offer]]
        /\ task' = [task EXCEPT ![t] = "decided"]
        /\ UNCHANGED tries
     \/ Failed(t) /\ UNCHANGED chosen
  /\ UNCHANGED <<offer, changes, job, answer>>

\* DeploySuccess or DeployFailed: the manager takes the answer, takes it while
\* the handler sees an error, or does not get it.
Answer(t) ==
  /\ task[t] = "decided"
  /\ \/ /\ answer' = [answer EXCEPT ![t] = chosen[t]]
        /\ \/ task' = [task EXCEPT ![t] = "done"] /\ UNCHANGED tries
           \/ Failed(t)
     \/ Failed(t) /\ UNCHANGED answer
  /\ chosen' = [chosen EXCEPT ![t] = NoChoice]
  /\ UNCHANGED <<offer, changes, job>>

\* A candidate reports, registers or goes silent.
OfferChanges ==
  /\ changes < MaxChanges
  /\ changes' = changes + 1
  /\ \E c \in Candidates : \E o \in Offers \ {offer[c]} : offer' = [offer EXCEPT ![c] = o]
  /\ UNCHANGED <<job, task, tries, chosen, answer>>

Next ==
  \/ \E t \in Tasks : Enqueue(t) \/ Decide(t) \/ Answer(t)
  \/ OfferChanges

\* The queue's workers run on and every request has a timeout.
Fairness == \A t \in Tasks : WF_vars(Decide(t)) /\ WF_vars(Answer(t))

Spec == Init /\ [][Next]_vars /\ Fairness

-----------------------------------------------------------------------------
\* What a placement has to be, said without the algorithm.
Suits(j, c, world) ==
  /\ world[c].active
  /\ DirectTarget(j) \in {None, c}
  /\ \E k \in DOMAIN NormalizeVirtualization(world[c].virtualization) :
       NormalizeVirtualization(j.virtualization) # <<>>
       /\ Head(NormalizeVirtualization(j.virtualization)) =
            NormalizeVirtualization(world[c].virtualization)[k]
  /\ world[c].vcpus >= j.vcpus /\ world[c].memory >= j.memory
  /\ (j.volumes \ {""}) \subseteq {item.name : item \in world[c].csi_drivers}

\* Whatever the retries, the changes of the candidates and the answers that were
\* taken although the handler saw an error: every answer the manager gets was
\* right when the candidates were read.  A candidate suits the job and none that
\* suits has a better score; a refusal means that nobody suited, and that nobody
\* was available if it says so; a job without virtualization, or with one that
\* cannot be read, is never placed.
AnswersRight ==
  \A t \in {u \in Tasks : answer[u] # NoChoice} :
    LET j     == job[t]
        d     == answer[t].decision
        world == answer[t].seen
    IN  /\ d \in Candidates =>
             /\ Suits(j, d, world)
             /\ \A c \in Candidates :
                  Suits(j, c, world) =>
                    world[c].memory - world[c].cpu_percent
                      <= world[d].memory - world[d].cpu_percent
        /\ d \in Statuses => \A c \in Candidates : ~Suits(j, c, world)
        /\ d = "NoActiveClusterWithCapacity" =>
             \E c \in Candidates : world[c].active /\ DirectTarget(j) \in {None, c}

\* A job the API has accepted is answered, or kept in the archive after the last
\* retry: no error, of the job or of a candidate's report, leaves it in between.
EveryTaskSettles ==
  \A t \in Tasks : task[t] = "pending" ~> task[t] \in {"done", "archived"}
=============================================================================
