---------------------------- MODULE SchedulerProofs ----------------------------
(***************************************************************************)
(* Proof that every answer of the scheduler is right, for any requests,      *)
(* candidates, reports, retries and changes of the candidates.               *)
(***************************************************************************)
EXTENDS Scheduler, FiniteSetTheorems, TLAPS

-----------------------------------------------------------------------------
(* The inductive invariant *)

Worlds  == [Candidates -> Offers]
Choices == [decision : Candidates \cup Statuses \cup {None}, seen : Worlds \cup {<<>>}]

Typed ==
  /\ offer \in Worlds
  /\ job \in [Tasks -> Payloads]
  /\ chosen \in [Tasks -> Choices]
  /\ answer \in [Tasks -> Choices]

\* What AnswersRight says of an answer, for a choice.
Right(j, choice) ==
  LET d     == choice.decision
      world == choice.seen
  IN  /\ d \in Candidates =>
           /\ Suits(j, d, world)
           /\ \A c \in Candidates :
                Suits(j, c, world) =>
                  world[c].memory - world[c].cpu_percent
                    <= world[d].memory - world[d].cpu_percent
      /\ d \in Statuses => \A c \in Candidates : ~Suits(j, c, world)
      /\ d = "NoActiveClusterWithCapacity" =>
           \E c \in Candidates : world[c].active /\ DirectTarget(j) \in {None, c}

\* The decision a handler is about to post was right when it was made, whatever
\* has become of the candidates since.
ChoicesRight == \A t \in Tasks : chosen[t] # NoChoice => Right(job[t], chosen[t])

SchedulerInv == Typed /\ ChoicesRight /\ AnswersRight

-----------------------------------------------------------------------------
(* The placement algorithm *)

\* The candidates that are found and pass the filters are those that suit.
LEMMA FitSuits ==
  ASSUME NEW j \in Payloads, NEW world \in Worlds, ~Malformed(j), NEW c \in Candidates
  PROVE  c \in FilterRequirements(j, AvailableResources(j, world), world) <=> Suits(j, c, world)
<1> DEFINE virt == NormalizeVirtualization(j.virtualization)
           has  == NormalizeVirtualization(world[c].virtualization)
<1>1. virt # <<>> => Head(virt) = virt[1]
  <2>1. j.virtualization.kind \in {"string", "list", "null"}
    BY PlacementAssumption DEF Malformed
  <2>2. CASE j.virtualization.kind = "string"
    BY <2>2 DEF NormalizeVirtualization
  <2>3. CASE j.virtualization.kind = "list"
    <3>1. virt = j.virtualization.value
      BY <2>3 DEF NormalizeVirtualization
    <3>2. virt \in Seq(STRING)
      BY <2>3, <3>1, PlacementAssumption
    <3>3. QED
      BY <3>2
  <2>4. CASE j.virtualization.kind = "null"
    BY <2>4 DEF NormalizeVirtualization
  <2>5. QED
    BY <2>1, <2>2, <2>3, <2>4
<1> HIDE DEF virt, has
<1>2. c \in AvailableResources(j, world) <=> world[c].active /\ DirectTarget(j) \in {None, c}
  BY DEF AvailableResources, FormatQuery
<1>3. HasRequiredCSIDrivers(j, world[c])
        <=> (j.volumes \ {""}) \subseteq {item.name : item \in world[c].csi_drivers}
  BY DEF HasRequiredCSIDrivers, NormaliseCsiDrivers
<1>4. MeetsBasicRequirements(j, world[c])
        <=> /\ virt # <<>> /\ \E i \in DOMAIN has : has[i] = virt[1]
            /\ world[c].vcpus >= j.vcpus /\ world[c].memory >= j.memory
  BY DEF MeetsBasicRequirements, virt, has
<1>5. Suits(j, c, world)
        <=> /\ world[c].active /\ DirectTarget(j) \in {None, c}
            /\ virt # <<>> /\ \E i \in DOMAIN has : has[i] = virt[1]
            /\ world[c].vcpus >= j.vcpus /\ world[c].memory >= j.memory
            /\ (j.volumes \ {""}) \subseteq {item.name : item \in world[c].csi_drivers}
  BY <1>1 DEF Suits, virt, has
<1>6. c \in FilterRequirements(j, AvailableResources(j, world), world)
        <=> /\ c \in AvailableResources(j, world)
            /\ MeetsBasicRequirements(j, world[c]) /\ HasRequiredCSIDrivers(j, world[c])
  BY DEF FilterRequirements
<1>7. QED
  BY <1>2, <1>3, <1>4, <1>5, <1>6

\* The last of the sorted candidates is one of them, and none has a better score.
LEMMA LastIsBest ==
  ASSUME NEW world \in Worlds, NEW fit \in SUBSET Candidates, fit # {},
         NEW s \in SortedOrders(fit, world)
  PROVE  /\ s[Len(s)] \in fit
         /\ \A c \in fit :
              world[c].memory - world[c].cpu_percent
                <= world[s[Len(s)]].memory - world[s[Len(s)]].cpu_percent
<1> DEFINE n == Cardinality(fit)
<1>1. n \in Nat \ {0}
  BY FS_Subset, FS_CardinalityType, FS_EmptySet, PlacementAssumption
<1> HIDE DEF n
<1>2. /\ s \in [1 .. n -> fit] /\ \A c \in fit : \E i \in 1 .. n : s[i] = c
      /\ \A i, j \in 1 .. n : i < j => Score(world[s[i]]) <= Score(world[s[j]])
  BY DEF SortedOrders, n
<1>3. Len(s) = n /\ n \in 1 .. n
  BY <1>1, <1>2
<1>4. s[n] \in fit
  BY <1>2, <1>3
<1>5. ASSUME NEW c \in fit
      PROVE  world[c].memory - world[c].cpu_percent
               <= world[s[n]].memory - world[s[n]].cpu_percent
  <2>1. PICK i \in 1 .. n : s[i] = c
    BY <1>2
  <2>2. /\ world[c].memory \in Int /\ world[c].cpu_percent \in Int
        /\ world[s[n]].memory \in Int /\ world[s[n]].cpu_percent \in Int
    BY <1>4, <1>5, PlacementAssumption DEF Worlds
  <2>3. CASE i = n
    BY <2>1, <2>2, <2>3
  <2>4. CASE i # n
    <3>1. Score(world[c]) <= Score(world[s[n]])
      BY <1>2, <1>3, <2>1, <2>4
    <3>2. QED
      BY <2>2, <3>1 DEF Score
  <2>5. QED
    BY <2>3, <2>4
<1>6. QED
  BY <1>3, <1>4, <1>5

\* Whatever Calculate returns is right for the candidates it saw.
LEMMA CalculateRight ==
  ASSUME NEW j \in Payloads, NEW world \in Worlds, ~Malformed(j), NEW d \in Calculate(j, world)
  PROVE  /\ Right(j, [decision |-> d, seen |-> world])
         /\ [decision |-> d, seen |-> world] \in Choices
<1> DEFINE cands == AvailableResources(j, world)
           fit   == FilterRequirements(j, cands, world)
<1>1. /\ fit \in SUBSET Candidates /\ fit \subseteq cands /\ cands \subseteq Candidates
      /\ \A c \in Candidates : c \in fit <=> Suits(j, c, world)
  BY FitSuits DEF AvailableResources, FilterRequirements
<1>2. \A c \in cands : world[c].active /\ DirectTarget(j) \in {None, c}
  BY DEF AvailableResources, FormatQuery
<1>3. \/ cands = {} /\ d = "TargetClusterNotActive"
      \/ cands # {} /\ fit = {} /\ d = "NoActiveClusterWithCapacity"
      \/ fit # {} /\ \E s \in SortedOrders(fit, world) : d = s[Len(s)]
  <2> HIDE DEF cands, fit
  <2>1. d \in CASE cands = {} -> {"TargetClusterNotActive"}
                [] cands # {} /\ fit = {} -> {"NoActiveClusterWithCapacity"}
                [] OTHER -> {s[Len(s)] : s \in SortedOrders(fit, world)}
    BY DEF Calculate, cands, fit
  <2>2. QED
    BY <1>1, <2>1
<1> HIDE DEF cands, fit
<1>4. CASE cands = {} /\ d = "TargetClusterNotActive"
  BY <1>1, <1>4, PlacementAssumption DEF Right, Statuses, Choices
<1>5. CASE cands # {} /\ fit = {} /\ d = "NoActiveClusterWithCapacity"
  BY <1>1, <1>2, <1>5, PlacementAssumption DEF Right, Statuses, Choices
<1>6. CASE fit # {} /\ \E s \in SortedOrders(fit, world) : d = s[Len(s)]
  <2>1. /\ d \in fit
        /\ \A c \in fit : world[c].memory - world[c].cpu_percent
                            <= world[d].memory - world[d].cpu_percent
    BY <1>1, <1>6, LastIsBest
  <2>2. d \in Candidates /\ d \notin Statuses /\ d # "NoActiveClusterWithCapacity"
    BY <1>1, <2>1, PlacementAssumption DEF Statuses
  <2>3. QED
    BY <1>1, <2>1, <2>2 DEF Right, Choices
<1>7. QED
  BY <1>3, <1>4, <1>5, <1>6

-----------------------------------------------------------------------------
(* The life of a task *)

\* AnswersRight says of the answers what Right says of a choice.
LEMMA AnswersAreChoices ==
  /\ AnswersRight <=> \A t \in Tasks : answer[t] # NoChoice => Right(job[t], answer[t])
  /\ AnswersRight' <=> \A t \in Tasks : answer'[t] # NoChoice => Right(job'[t], answer'[t])
  BY DEF AnswersRight, Right

\* No choice is one of the values a choice may have.
LEMMA NoChoiceTyped == NoChoice \in Choices
  BY DEF NoChoice, Choices

\* The initial states satisfy the invariant.
LEMMA SchedulerInit == Init => SchedulerInv
<1> SUFFICES ASSUME Init PROVE SchedulerInv
  OBVIOUS
<1>1. Typed
  BY NoChoiceTyped DEF Init, Typed, Worlds
<1>2. ChoicesRight
  BY DEF Init, ChoicesRight
<1>3. AnswersRight
  BY AnswersAreChoices DEF Init
<1>4. QED
  BY <1>1, <1>2, <1>3 DEF SchedulerInv

\* Every step preserves it.
LEMMA SchedulerStep == SchedulerInv /\ [Next]_vars => SchedulerInv'
<1> SUFFICES ASSUME SchedulerInv, [Next]_vars PROVE SchedulerInv'
  OBVIOUS
<1> USE DEF SchedulerInv
<1>1. ASSUME NEW t \in Tasks, Enqueue(t) PROVE SchedulerInv'
  <2>1. UNCHANGED <<offer, job, chosen, answer>>
    BY <1>1 DEF Enqueue
  <2>2. QED
    BY <2>1, AnswersAreChoices DEF Typed, ChoicesRight
<1>2. ASSUME NEW t \in Tasks, Decide(t) PROVE SchedulerInv'
  <2>1. UNCHANGED <<offer, job, answer>>
    BY <1>2 DEF Decide
  <2>2. CASE UNCHANGED chosen
    BY <2>1, <2>2, AnswersAreChoices DEF Typed, ChoicesRight
  <2>3. CASE ~ UNCHANGED chosen
    <3>1. /\ ~Malformed(job[t])
          /\ \E d \in Calculate(job[t], offer) :
               chosen' = [chosen EXCEPT ![t] = [decision |-> d, seen |-> offer]]
      BY <1>2, <2>3 DEF Decide
    <3>2. PICK d \in Calculate(job[t], offer) :
            chosen' = [chosen EXCEPT ![t] = [decision |-> d, seen |-> offer]]
      BY <3>1
    <3>3. /\ Right(job[t], [decision |-> d, seen |-> offer])
          /\ [decision |-> d, seen |-> offer] \in Choices
      <4>1. job[t] \in Payloads /\ offer \in Worlds
        BY DEF Typed
      <4>2. QED
        BY <3>1, <4>1, CalculateRight
    <3>4. Typed'
      BY <2>1, <3>2, <3>3 DEF Typed
    <3>5. ChoicesRight'
      BY <2>1, <3>2, <3>3 DEF Typed, ChoicesRight
    <3>6. QED
      BY <2>1, <3>4, <3>5, AnswersAreChoices
  <2>4. QED
    BY <2>2, <2>3
<1>3. ASSUME NEW t \in Tasks, Answer(t) PROVE SchedulerInv'
  <2>1. /\ UNCHANGED <<offer, job>> /\ chosen' = [chosen EXCEPT ![t] = NoChoice]
        /\ UNCHANGED answer \/ answer' = [answer EXCEPT ![t] = chosen[t]]
    BY <1>3 DEF Answer
  <2>2. Typed'
    BY <2>1, NoChoiceTyped DEF Typed
  <2>3. ChoicesRight'
    BY <2>1 DEF Typed, ChoicesRight
  <2>4. \A u \in Tasks : answer'[u] = answer[u] \/ answer'[u] = chosen[u]
    BY <2>1 DEF Typed
  <2>5. AnswersRight'
    BY <2>1, <2>4, AnswersAreChoices DEF ChoicesRight
  <2>6. QED
    BY <2>2, <2>3, <2>5
<1>4. CASE OfferChanges
  <2>1. UNCHANGED <<job, chosen, answer>>
    BY <1>4 DEF OfferChanges
  <2>2. offer' \in Worlds
    BY <1>4 DEF OfferChanges, Typed, Worlds
  <2>3. QED
    BY <2>1, <2>2, AnswersAreChoices DEF Typed, ChoicesRight
<1>5. CASE UNCHANGED vars
  <2>1. UNCHANGED <<offer, job, chosen, answer>>
    BY <1>5 DEF vars
  <2>2. QED
    BY <2>1, AnswersAreChoices DEF Typed, ChoicesRight
<1>6. QED
  BY <1>1, <1>2, <1>3, <1>4, <1>5 DEF Next

\* Every answer the manager gets, after any retries and changes, was right for
\* the candidates the handler read: the best that suits, or a refusal when none
\* does.
THEOREM AnswersRightProved == Spec => []AnswersRight
<1>1. SchedulerInv => AnswersRight
  BY DEF SchedulerInv
<1>2. QED
  BY <1>1, SchedulerInit, SchedulerStep, PTL DEF Spec
=============================================================================
