--------------------------- MODULE TrajectoryBuffer ---------------------------
(***************************************************************************)
(* TrajectoryBufferManager: which point of the active trajectory is the    *)
(* reference now.  A trajectory is the sequence of its time_from_start     *)
(* stamps, in ticks; what a point holds besides does not matter here.      *)
(*                                                                         *)
(* Its only user, Base_Controller::set_trajectory, clears the buffer       *)
(* before every push: the pushed trajectory becomes active at once, the    *)
(* pending queue stays empty and the id check never refuses.               *)
(***************************************************************************)
EXTENDS Integers, Sequences

CONSTANTS
  Trajectories, \* the trajectories sent
  MaxLead       \* how far ahead of its arrival a trajectory may take effect

ASSUME TrajectoriesAssumption == Trajectories \subseteq Seq(Int)
ASSUME MaxLeadAssumption == MaxLead \in Nat

\* validate_basic: no negative time, none before the one before it.
WellFormed(points) ==
  /\ points # << >>
  /\ \A i \in 1..Len(points) : /\ points[i] >= 0
                               /\ i > 1 => points[i] >= points[i - 1]

EndTime(points) == points[Len(points)]

\* The trajectories that can be tracked, with the time since they took effect.
Bundle == [points : {p \in Trajectories : WellFormed(p) /\ Len(p) > 1}, t : Int]
NoBundle == [points |-> << >>, t |-> 0]

\* Mutant of Segment: the last segment that has begun.
Segment_Begun(points, t) ==
  CHOOSE i \in 1..Len(points) - 1 :
    /\ points[i + 1] >= t
    /\ \A j \in 1..Len(points) - 1 : points[j + 1] >= t => j <= i

\* sample's search: the first segment that ends at t or later.
Segment(points, t) ==
  CHOOSE i \in 1..Len(points) - 1 :
    /\ points[i + 1] >= t
    /\ \A j \in 1..i - 1 : points[j + 1] < t

\* The reference: how far into which segment, the fraction clamped to it.
OnPath(points, t) ==
  LET i == Segment(points, t) IN
  [kind |-> "path", seg |-> i,
   into |-> IF t <= points[i] THEN 0 ELSE t - points[i]]

LastPoint(points) == [kind |-> "path", seg |-> Len(points), into |-> 0]

\* sample: nothing before the trajectory takes effect.
Effective(b) == b.points # << >> /\ b.t >= 0
ReachedEnd(b) == Effective(b) /\ b.t >= EndTime(b.points)
Sample(b) == IF ReachedEnd(b) THEN LastPoint(b.points) ELSE OnPath(b.points, b.t)

\* A tick, until the end is reached.
Later(b) ==
  IF b.points # << >> /\ ~ReachedEnd(b) THEN [b EXCEPT !.t = @ + 1] ELSE b
=============================================================================
