---------------------------- MODULE SessionTable ----------------------------
(***************************************************************************)
(* What the HOST promises about vmc_system[], whoever looks at it: every   *)
(* slot begins without a VM, one slot changes at a time, and a slot never  *)
(* passes from one VM to another without being zeroed in between.          *)
(*                                                                         *)
(* Three models hold vmc_system[] and each has its own view of how a       *)
(* session comes and goes; this is what they agree on.                     *)
(***************************************************************************)
CONSTANTS VM, NoAddr,
          Slot          \* slots of vmc_system[]

VARIABLE systemaddr     \* the VM of every slot

Init == systemaddr = [s \in Slot |-> NoAddr]

\* The first report of a connection names its VM.
Register(s, v) ==
  /\ systemaddr[s] = NoAddr
  /\ systemaddr' = [systemaddr EXCEPT ![s] = v]

\* The connection of the slot is gone.
Vanish(s) == systemaddr' = [systemaddr EXCEPT ![s] = NoAddr]

Next == \E s \in Slot : Vanish(s) \/ \E v \in VM : Register(s, v)

Spec == Init /\ [][Next]_systemaddr
=============================================================================
