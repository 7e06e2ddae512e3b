----------------------------- MODULE MCScheduler -----------------------------
(***************************************************************************)
(* A small instance of Scheduler: a request and two candidates, with payloads *)
(* and reports of every kind the code tells apart.                           *)
(***************************************************************************)
EXTENDS Scheduler
CONSTANTS t1, c1, c2

Str(v)  == [kind |-> "string", value |-> v]
List(s) == [kind |-> "list", value |-> s]
Null    == [kind |-> "null"]
Other   == [kind |-> "other"]
Direct(name) == [type |-> "direct", name |-> name]

Asks(virt, cpu, mem, volumes, constraints) ==
  [virtualization |-> virt, vcpus |-> cpu, memory |-> mem, volumes |-> volumes,
   constraints |-> constraints]

\* A job that needs a CSI driver, one that is directed to c1 in the end, one that
\* is directed to nobody, one without virtualization and one that is malformed.
Requests ==
  {Asks(Str("docker"), 1, 2, {"csi", ""}, <<>>),
   Asks(List(<<"docker", "crosvm">>), 2, 1, {},
        <<Direct(c2), [type |-> "latency", name |-> None], Direct(c1)>>),
   Asks(Str("crosvm"), 2, 4, {""}, <<Direct(c2), Direct(None)>>),
   Asks(Null, 0, 0, {}, <<>>),
   Asks(Other, 1, 1, {}, <<>>)}

Report(active, virt, cpu, mem, load, drivers) ==
  [active |-> active, virtualization |-> virt, vcpus |-> cpu, memory |-> mem,
   cpu_percent |-> load, csi_drivers |-> drivers]

Reports ==
  {Report(TRUE, List(<<"crosvm", "docker">>), 2, 4, 50, {[name |-> "csi"], [name |-> ""]}),
   Report(TRUE, Str("docker"), 1, 2, 10, {[name |-> "csi"]}),
   Report(TRUE, Str("docker"), 4, 2, 10, {}),
   Report(FALSE, Str("docker"), 4, 8, 0, {[name |-> "csi"]}),
   Report(TRUE, Other, 4, 4, 0, {[name |-> "csi"]})}
=============================================================================
