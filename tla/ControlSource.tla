---------------------------- MODULE ControlSource ----------------------------
(***************************************************************************)
(* The active control source with its clock: the stamp of its last command *)
(* and the timeout that command asked for.  A stamp is kept as its age in  *)
(* ticks; a sender whose clock is ahead gives it a negative age.           *)
(***************************************************************************)
EXTENDS SourcePolicy

CONSTANTS
  PolicyTimeout,  \* control_sources/<name>/timeout, in ticks
  Timeouts,       \* the timeouts commands carry; <= 0: the source's own
  Skew,           \* how far a sender's clock may be ahead
  Delay,          \* how long a command may be under way
  MaxAge          \* bound: greater ages are not told apart

ASSUME PolicyTimeoutAssumption == PolicyTimeout \in [SourceId -> Int]
ASSUME TimeoutsAssumption == Timeouts \subseteq Int
ASSUME ClockAssumption == Skew \in Nat /\ Delay \in Nat
ASSUME MaxAgeAssumption ==
  /\ MaxAge \in Nat /\ MaxAge > Delay
  /\ \A t \in Timeouts : MaxAge > t + Skew
  /\ \A s \in SourceId : MaxAge > PolicyTimeout[s] + Skew

\* A command's meta data as received.  A command without a stamp is as old as
\* its arrival.
Envelope == [meta : Meta, age : (-Skew)..Delay, timeout : Timeouts]

TimeoutOf(e) == IF e.timeout > 0 THEN e.timeout ELSE PolicyTimeout[e.meta.id]

Clocked == [src : {NoSource} \cup ActiveSource, age : (-Skew)..MaxAge,
            timeout : Int]

NoClocked == [src |-> NoSource, age |-> 0, timeout |-> 0]

\* update_active_control_source_locked.
ActivateAt(e, st) ==
  [src |-> Activate(e.meta, st), age |-> e.age, timeout |-> TimeoutOf(e)]

\* is_active_control_source_expired_locked.
Expired(a) == a.src.valid /\ a.timeout > 0 /\ a.age > a.timeout

\* Mutant of LiveAt: the last holder is kept until the supervisor drops it.
LiveAt_KeepsExpired(a) == a

\* An expired source is dropped before a command is judged.
LiveAt(a) == IF Expired(a) THEN NoClocked ELSE a

\* Mutant of Aged: ages are not capped.
Aged_Uncapped(a) == IF a.src.valid THEN [a EXCEPT !.age = @ + 1] ELSE a

Aged(a) == IF a.src.valid /\ a.age < MaxAge THEN [a EXCEPT !.age = @ + 1] ELSE a
=============================================================================
