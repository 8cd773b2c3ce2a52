---------------------------- MODULE FlightLifecycle ----------------------------
(***************************************************************************)
(* What the flight state machine promises its operator, without queue,     *)
(* threads, sources or references: a flight climbs, moves on command,      *)
(* returns, descends and ends on the ground, and what the controller makes *)
(* the vehicle do always fits the phase.                                   *)
(***************************************************************************)

VARIABLES
  phase,   \* "ground", "climb", "air", "return" or "descend"
  motion,  \* what the controller does: "idle", "climb", "hold", "move", "descend"
  owed     \* the landing after a return: "no", "due" or "owed"

lvars == <<phase, motion, owed>>

Become(p, m, o) == phase' = p /\ motion' = m /\ owed' = o

Init == phase = "ground" /\ motion = "idle" /\ owed = "no"

TakeOff == phase = "ground" /\ motion = "idle" /\ Become("climb", "climb", "no")

\* The controller has held the take-off height and hovers by itself.
HoldHeight == phase = "climb" /\ motion = "climb" /\ Become("climb", "hold", owed)

\* Only then is the climb over.
EndClimb == phase = "climb" /\ motion = "hold" /\ Become("air", "hold", owed)

\* A command is followed; whatever was owed is forgotten.
Follow == phase = "air" /\ Become("air", "move", "no")

\* A command has come to its end.
Settle == phase = "air" /\ motion = "move" /\ Become("air", "hold", owed)

GoHome == phase = "air" /\ Become("return", "move", "no")

\* A return that reaches home makes a landing due,
ComeHome == phase = "return" /\ Become("air", "hold", "due")

\* which is owed from then on,
OweLanding == owed = "due" /\ Become(phase, motion, "owed")

\* until it is asked for.
AskLanding == owed = "owed" /\ Become(phase, motion, "no")

\* Every phase off the ground can be left for a descent.
Descend ==
  phase \in {"climb", "air", "return"} /\ Become("descend", "descend", "no")

\* The only way to the ground.
TouchDown == phase = "descend" /\ Become("ground", "idle", "no")

Next == \/ TakeOff \/ HoldHeight \/ EndClimb \/ Follow \/ Settle \/ GoHome
        \/ ComeHome \/ OweLanding \/ AskLanding \/ Descend \/ TouchDown

Spec == Init /\ [][Next]_lvars
=============================================================================
