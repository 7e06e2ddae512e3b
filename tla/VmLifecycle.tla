----------------------------- MODULE VmLifecycle ------------------------------
(***************************************************************************)
(* What crosvm's Instance promises about one virtual machine, as the comment *)
(* above the type states it: a VM is started, stopped and closed for good,   *)
(* and an exit is dealt with exactly once before the VM may start again.     *)
(***************************************************************************)
CONSTANT Instances

VARIABLE phase   \* instance -> "new", "stopped", "running", "exited", "closed"

Init == phase = [o \in Instances |-> "new"]

Move(o, from, to) ==
  /\ phase[o] = from
  /\ phase' = [phase EXCEPT ![o] = to]

Create(o) == Move(o, "new", "stopped")

Start(o) == Move(o, "stopped", "running")

\* The machine ends, whoever asked for it.
Exit(o) == Move(o, "running", "exited")

\* The exit is taken note of: the VM may be started again, or is closed.
Claim(o) == Move(o, "exited", "stopped") \/ Move(o, "exited", "closed")

Close(o) == Move(o, "stopped", "closed")

Next == \E o \in Instances : Create(o) \/ Start(o) \/ Exit(o) \/ Claim(o) \/ Close(o)

\* What may happen, without what must.
Safety == Init /\ [][Next]_phase

\* No exit goes unnoticed for ever.
Spec == Safety /\ \A o \in Instances : WF_phase(Claim(o))
===============================================================================
