---------------------------- MODULE BypassSwitch ----------------------------
(***************************************************************************)
(* What the HOST process promises about the bypass relay, without saying   *)
(* how: two monitors each hold a vote, and the relay is in bypass exactly  *)
(* when one of them wants it there.  A vote and its effect on the relay    *)
(* are one step: nobody ever sees a relay that contradicts the votes.      *)
(***************************************************************************)
CONSTANTS Monitor,     \* who votes
          First        \* the monitor that votes before the others start

VARIABLES relay,       \* "ON": traffic goes around the virtual machines
          vote         \* what each monitor wants

vars == <<relay, vote>>

Mode == {"ON", "OFF"}

Wanted(ballot) ==
  IF \E m \in Monitor : ballot[m] = "ON" THEN "ON" ELSE "OFF"

Init ==
  /\ vote \in [Monitor -> Mode]
  /\ \A m \in Monitor \ {First} : vote[m] = "OFF"
  /\ relay = Wanted(vote)

Vote(m, mode) ==
  /\ vote' = [vote EXCEPT ![m] = mode]
  /\ relay' = Wanted(vote')

Next == \E m \in Monitor, mode \in Mode : Vote(m, mode)

Spec == Init /\ [][Next]_vars
=============================================================================
