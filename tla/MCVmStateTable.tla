--------------------------- MODULE MCVmStateTable ---------------------------
(* VmStateTable for TLC: VMs, states and slots are interchangeable.          *)
EXTENDS VmStateTable, TLC

Symmetric == Permutations(VM) \union Permutations(State) \union Permutations(Slot)

\* States that differ in nothing that is ever looked at are one: last of a VM
\* without an entry in the table or in the copy is set before it has one again
\* (with MaxPlace = 1 and two entries nothing is Spoilt), and the slot of a
\* report is not used after its answer.
Shown == {t[i].vm_ip : t \in {stateinfo, vmstate}, i \in Index}

View ==
  <<stateinfo, sessions, fifo, getter, vmstate, rxTask, tcpTask, late,
    [v \in VM |-> IF v \in Shown THEN last[v] ELSE NoState],
    [k \in DOMAIN msg |->
      [msg[k] EXCEPT !.slot = IF getter = "answer" THEN @ ELSE NoSlot]]>>
=============================================================================
