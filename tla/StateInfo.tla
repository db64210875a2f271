----------------------------- MODULE StateInfo ------------------------------
(***************************************************************************)
(* The entries of stateinfo[], as all that use it see them.                *)
(***************************************************************************)
EXTENDS Integers

CONSTANTS
  NoAddr,          \* address 0, that of an empty entry
  MAX_SYSTEM_NUM   \* entries of stateinfo[]

ASSUME SizeAssumption == MAX_SYSTEM_NUM \in Nat \ {0}

Index == 0 .. MAX_SYSTEM_NUM - 1
=============================================================================
