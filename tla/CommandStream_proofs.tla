------------------------- MODULE CommandStream_proofs -------------------------
(***************************************************************************)
(* Proofs of CommandStream's safety properties, for every set of sources,  *)
(* commands and trajectories and every clock.                              *)
(*                                                                         *)
(* The invariant is one for each group of variables, and an action keeps   *)
(* each of them by what it does to that group.                             *)
(***************************************************************************)
EXTENDS CommandStream, SequenceTheorems, WellFoundedInduction, TLAPS

USE EnvelopesAssumption, ClockAssumption, MaxAgeAssumption,
    TrajectoriesAssumption, MaxLeadAssumption

-----------------------------------------------------------------------------
(* Trajectories.                                                           *)

\* A set of numbers has a least one.
LEMMA Least ==
  ASSUME NEW T \in SUBSET Nat, T # {}
  PROVE  \E x \in T : \A y \in T : x <= y
<1>1. IsWellFoundedOn({ss \in Nat \X Nat : ss[1] < ss[2]}, Nat)
  BY NatLessThanWellFounded, Zenon DEF OpToRel
<1>2. PICK x \in T :
        \A y \in T : ~(<<y, x>> \in {ss \in Nat \X Nat : ss[1] < ss[2]})
  BY <1>1, WFMin, Zenon
<1>3. ASSUME NEW y \in T PROVE x <= y
  <2>1. ~(<<y, x>> \in {ss \in Nat \X Nat : ss[1] < ss[2]})
    BY <1>2
  <2> QED
    BY <2>1
<1> QED
  BY <1>3

\* No point of a well-formed trajectory comes before its first.
LEMMA FirstIsLeast ==
  ASSUME NEW ps \in Seq(Int), WellFormed(ps), NEW k \in 1..Len(ps)
  PROVE  ps[1] <= ps[k]
<1> DEFINE Before == {i \in 1..Len(ps) : ps[i] < ps[1]}
<1>1. \A i \in 1..Len(ps) : ps[i] \in Int
  OBVIOUS
<1>2. Before = {}
  <2> SUFFICES ASSUME Before # {} PROVE FALSE
    OBVIOUS
  <2>1. Before \in SUBSET Nat
    OBVIOUS
  <2>2. PICK i \in Before : \A j \in Before : i <= j
    BY <2>1, Least
  <2>3. i \in 1..Len(ps) /\ ps[i] < ps[1] /\ i > 1
    BY <1>1, <2>2
  <2>4. i - 1 \in 1..Len(ps) /\ ps[i] >= ps[i - 1]
    BY <2>3 DEF WellFormed
  <2>5. i - 1 \notin Before
    BY <2>2, <2>3
  <2>6. ps[i - 1] >= ps[1]
    BY <1>1, <2>4, <2>5
  <2> QED
    BY <1>1, <2>3, <2>4, <2>6
<1> QED
  BY <1>1, <1>2

\* sample's search succeeds before the end.
LEMMA SegmentFound ==
  ASSUME NEW ps \in Seq(Int), Len(ps) > 1, NEW t \in Int, t < EndTime(ps)
  PROVE  /\ Segment(ps, t) \in 1..Len(ps) - 1
         /\ ps[Segment(ps, t) + 1] >= t
         /\ \A j \in 1..Segment(ps, t) - 1 : ps[j + 1] < t
<1> DEFINE Ends == {i \in 1..Len(ps) - 1 : ps[i + 1] >= t}
<1>1. \A i \in 1..Len(ps) : ps[i] \in Int
  OBVIOUS
<1>2. Len(ps) \in Nat
  OBVIOUS
<1>3. Len(ps) - 1 \in Ends
  BY <1>1, <1>2 DEF EndTime
<1>4. Ends \in SUBSET Nat
  OBVIOUS
<1>5. PICK i \in Ends : \A j \in Ends : i <= j
  BY <1>3, <1>4, Least
<1>6. ASSUME NEW j \in 1..i - 1 PROVE ps[j + 1] < t
  <2>1. j \in 1..Len(ps) - 1 /\ j + 1 \in 1..Len(ps)
    BY <1>2, <1>5
  <2>2. j \notin Ends
    BY <1>5, <2>1
  <2> QED
    BY <1>1, <2>1, <2>2
<1>7. \E k \in 1..Len(ps) - 1 : /\ ps[k + 1] >= t
                                /\ \A j \in 1..k - 1 : ps[j + 1] < t
  BY <1>5, <1>6
<1> QED
  BY <1>7 DEF Segment

Path == [kind : {"path"}, seg : Nat, into : Nat]

\* What ReferenceOnTime asks of a reference drawn from b.
IsOnTime(r, b) ==
  LET t == b.t
      ps == b.points
      at == ps[r.seg] + r.into
  IN  at = IF t < ps[1] THEN ps[1]
           ELSE IF t > EndTime(ps) THEN EndTime(ps) ELSE t

\* What sample returns.
LEMMA SampleFacts ==
  ASSUME NEW b \in Bundle, b.t >= 0
  PROVE  /\ Sample(b) \in Path
         /\ IsOnTime(Sample(b), b)
         /\ ReachedEnd(b) => Sample(b) = LastPoint(b.points)
<1> DEFINE t == b.t
           ps == b.points
<1>1. ps \in Seq(Int) /\ WellFormed(ps) /\ Len(ps) > 1 /\ t \in Int
  BY DEF Bundle
<1> HIDE DEF t, ps
<1>2. ps # << >> /\ Effective(b)
  BY <1>1 DEF Effective, t, ps
<1>3. Len(ps) \in Nat /\ \A i \in 1..Len(ps) : ps[i] \in Int
  BY <1>1
<1>4. EndTime(ps) \in Int /\ ps[1] <= EndTime(ps)
  BY <1>1, <1>3, FirstIsLeast DEF EndTime
<1>5. CASE t >= EndTime(ps)
  <2>1. ReachedEnd(b)
    BY <1>2, <1>5 DEF ReachedEnd, t, ps
  <2>2. Sample(b) = [kind |-> "path", seg |-> Len(ps), into |-> 0]
    BY <2>1 DEF Sample, LastPoint, ps
  <2>3. ps[Len(ps)] + 0 = IF t < ps[1] THEN ps[1]
                          ELSE IF t > EndTime(ps) THEN EndTime(ps) ELSE t
    BY <1>1, <1>3, <1>4, <1>5 DEF EndTime
  <2>4. IsOnTime(Sample(b), b)
    BY <2>2, <2>3 DEF IsOnTime, t, ps
  <2> QED
    BY <2>1, <2>2, <2>4, <1>3 DEF Path, Sample
<1>6. CASE t < EndTime(ps)
  <2>1. ~ReachedEnd(b)
    BY <1>1, <1>4, <1>6 DEF ReachedEnd, t, ps
  <2> DEFINE i == Segment(ps, t)
             into == IF t <= ps[i] THEN 0 ELSE t - ps[i]
  <2>2. Sample(b) = [kind |-> "path", seg |-> i, into |-> into]
    BY <2>1 DEF Sample, OnPath, t, ps
  <2>3. /\ i \in 1..Len(ps) - 1
        /\ ps[i + 1] >= t
        /\ \A j \in 1..i - 1 : ps[j + 1] < t
    BY <1>1, <1>6, SegmentFound
  <2> HIDE DEF i
  <2>4. i \in 1..Len(ps) /\ i \in Nat /\ ps[i] \in Int /\ ps[1] \in Int
    BY <1>1, <1>3, <2>3
  <2>5. ps[1] <= ps[i]
    BY <1>1, <2>4, FirstIsLeast
  <2>6. into \in Nat
    BY <1>1, <2>4
  \* Only the first segment may begin later than now.
  <2>7. t <= ps[i] => i = 1
    <3> SUFFICES ASSUME t <= ps[i], i # 1 PROVE FALSE
      OBVIOUS
    <3>1. i - 1 \in 1..i - 1 /\ (i - 1) + 1 = i
      BY <2>4
    <3>2. ps[i] < t
      BY <2>3, <3>1
    <3> QED
      BY <1>1, <2>4, <3>2
  <2>8. ps[i] + into = IF t < ps[1] THEN ps[1]
                       ELSE IF t > EndTime(ps) THEN EndTime(ps) ELSE t
    BY <1>1, <1>4, <1>6, <2>4, <2>5, <2>7
  <2> HIDE DEF into
  <2>9. IsOnTime(Sample(b), b)
    BY <2>2, <2>8 DEF IsOnTime, t, ps
  <2> QED
    BY <2>1, <2>2, <2>4, <2>6, <2>9 DEF Path
<1> QED
  BY <1>1, <1>4, <1>5, <1>6

-----------------------------------------------------------------------------
(* The invariant.                                                          *)

\* Only the events of the three control states are queued.
Commands == {"ENTER_POSITION_CONTROL", "ENTER_VELOCITY_CONTROL",
             "ENTER_TRAJECTORY_CONTROL"}

MachineOK ==
  /\ fsm \in FlightStates
  /\ queue \in Seq(Commands)
  /\ due \in {"none"} \cup Completions

\* The stamp of the holder's last command is no younger than its arrival, but
\* for the skew of its clock, and a timeout ends before ages are not told apart.
HolderOK ==
  /\ active \in Clocked
  /\ silent \in 0..MaxAge
  /\ active.src.valid => /\ active.timeout + Skew < MaxAge
                         /\ active.age = MaxAge \/ silent <= active.age + Skew

FollowedOK ==
  /\ buf \in {NoBundle} \cup Bundle
  /\ tracking \in BOOLEAN /\ done \in BOOLEAN
  /\ ref \in {Hold, Point} \cup Path
  /\ CompletionAtLastPoint

StreamInv == MachineOK /\ HolderOK /\ FollowedOK

\* ReferenceOnTime of a step.
DrawnOnTime == ref' # ref /\ ref'.kind = "path" => IsOnTime(ref', buf')

-----------------------------------------------------------------------------
(* What each group of variables is given.                                  *)

LEMMA CommandEvents == Commands \subseteq SunrayEvent
<1>1. /\ Enter["POSITION_CONTROL"] = "ENTER_POSITION_CONTROL"
      /\ Enter["VELOCITY_CONTROL"] = "ENTER_VELOCITY_CONTROL"
      /\ Enter["TRAJECTORY_CONTROL"] = "ENTER_TRAJECTORY_CONTROL"
  BY DEF Enter
<1>2. {"POSITION_CONTROL", "VELOCITY_CONTROL", "TRAJECTORY_CONTROL"} \subseteq ControlStates
  BY DEF ControlStates
<1> QED
  BY <1>1, <1>2 DEF Commands, SunrayEvent

\* A command event leads to its control state, and nothing else does.
LEMMA CommandLeadsToControl ==
  ASSUME NEW s \in FlightStates, NEW e \in Commands, NEW t \in Resolve(s, e, TRUE)
  PROVE  t \in FlightStates
<1>1. <<s, e, t>> \in Transitions
  BY DEF Resolve
<1>2. PICK c \in ControlStates : e = Enter[c] /\ t = c
  BY <1>1 DEF Transitions, Commands, Completed, ControlStates
<1> QED
  BY <1>2 DEF Commands, FlightStates, ControlStates, Enter

LEMMA QueueEventOK ==
  ASSUME MachineOK, NEW e \in Commands, QueueEvent(e)
  PROVE  MachineOK'
<1>1. queue' \in Seq(Commands)
  BY DEF QueueEvent, MachineOK
<1> QED
  BY <1>1 DEF QueueEvent, MachineOK

LEMMA HandOK ==
  ASSUME NEW e \in Envelopes, NEW st \in ControlStates, Hand(e, st)
  PROVE  HolderOK'
<1>1. /\ e.meta \in Meta /\ e.age \in (-Skew)..Delay /\ e.timeout \in Timeouts
  BY DEF Envelope
<1>2. Activate(e.meta, st) \in ActiveSource /\ Activate(e.meta, st).valid
  BY <1>1, PriorityAssumption DEF Activate, ActiveSource, Meta
<1>3. TimeoutOf(e) \in Int /\ TimeoutOf(e) + Skew < MaxAge
  BY <1>1, PolicyTimeoutAssumption, TimeoutsAssumption DEF TimeoutOf, Meta
<1>4. e.age \in (-Skew)..MaxAge /\ 0 <= e.age + Skew
  BY <1>1
<1>5. active' = [src |-> Activate(e.meta, st), age |-> e.age, timeout |-> TimeoutOf(e)]
  BY DEF Hand, ActivateAt
<1>6. active' \in Clocked
  BY <1>2, <1>3, <1>4, <1>5 DEF Clocked
<1>7. silent' = 0 /\ 0 \in 0..MaxAge
  BY DEF Hand
<1> QED
  BY <1>3, <1>4, <1>5, <1>6, <1>7 DEF HolderOK

LEMMA NoHolderOK ==
  ASSUME active' = NoClocked, silent' = 0
  PROVE  HolderOK'
<1>1. NoClocked \in Clocked
  BY DEF NoClocked, Clocked
<1>2. ~NoClocked.src.valid
  BY DEF NoClocked, NoSource
<1> QED
  BY <1>1, <1>2 DEF HolderOK

LEMMA KeepHolderOK ==
  ASSUME HolderOK, KeepHolder
  PROVE  HolderOK'
<1>1. CASE Expired(active)
  BY <1>1, NoHolderOK DEF KeepHolder, LiveAt
<1>2. CASE ~Expired(active)
  BY <1>2 DEF KeepHolder, LiveAt, HolderOK
<1> QED
  BY <1>1, <1>2

LEMMA SameHolderOK ==
  ASSUME HolderOK, UNCHANGED holder
  PROVE  HolderOK'
BY DEF HolderOK, holder

LEMMA HolderTickOK ==
  ASSUME HolderOK, Tick
  PROVE  HolderOK'
<1>1. /\ active \in [src : {NoSource} \cup ActiveSource, age : (-Skew)..MaxAge,
                    timeout : Int]
      /\ silent \in 0..MaxAge
  BY DEF HolderOK, Clocked
<1>2. active' = Aged(active)
      /\ silent' = IF active.src.valid /\ silent < MaxAge THEN silent + 1 ELSE silent
  BY DEF Tick
<1>3. silent' \in 0..MaxAge
  BY <1>1, <1>2
<1>4. CASE active.src.valid /\ active.age < MaxAge
  <2>1. active' = [active EXCEPT !.age = @ + 1]
    BY <1>2, <1>4 DEF Aged
  <2>2. active'.src = active.src /\ active'.timeout = active.timeout
        /\ active'.age = active.age + 1
    BY <1>1, <2>1
  <2>3. active.age + 1 \in (-Skew)..MaxAge
    BY <1>1, <1>4
  <2>4. active' \in Clocked
    BY <1>1, <2>1, <2>3 DEF Clocked
  <2>5. active.timeout + Skew < MaxAge /\ silent <= active.age + Skew
    BY <1>1, <1>4 DEF HolderOK
  <2>6. silent' <= active'.age + Skew
    BY <1>1, <1>2, <2>2, <2>5
  <2> QED
    BY <1>3, <2>2, <2>4, <2>5, <2>6 DEF HolderOK
<1>5. CASE ~(active.src.valid /\ active.age < MaxAge)
  <2>1. active' = active
    BY <1>2, <1>5 DEF Aged
  <2>2. active.src.valid => active.age = MaxAge
    BY <1>1, <1>5
  <2> QED
    BY <1>3, <2>1, <2>2 DEF HolderOK
<1> QED
  BY <1>4, <1>5

LEMMA PointOK ==
  ASSUME SetPoint
  PROVE  FollowedOK' /\ DrawnOnTime
BY DEF SetPoint, FollowedOK, CompletionAtLastPoint, DrawnOnTime, Point

\* What is drawn from a trajectory.
LEMMA DrawnOK ==
  ASSUME NEW b \in Bundle, b.t >= 0, buf' = b, ref' = Sample(b),
         tracking' = ~ReachedEnd(b), done' = ReachedEnd(b)
  PROVE  FollowedOK' /\ DrawnOnTime
<1>1. /\ Sample(b) \in Path
      /\ IsOnTime(Sample(b), b)
      /\ ReachedEnd(b) => Sample(b) = LastPoint(b.points)
  BY SampleFacts
<1>2. tracking' \in BOOLEAN /\ done' \in BOOLEAN
  BY DEF ReachedEnd
<1>3. done' => ReachedEnd(b)
  BY Zenon
<1>4. CompletionAtLastPoint'
  BY <1>1, <1>3 DEF CompletionAtLastPoint
<1>5. DrawnOnTime
  BY <1>1 DEF DrawnOnTime
<1> QED
  BY <1>1, <1>2, <1>4, <1>5 DEF FollowedOK

LEMMA TrajectoryOK ==
  ASSUME NEW points \in Trajectories, ~Rejected(points), Len(points) # 1,
         NEW age \in (-MaxLead)..Delay, SetTrajectory(points, age)
  PROVE  FollowedOK' /\ DrawnOnTime
<1> DEFINE b == [points |-> points, t |-> age]
<1>1. WellFormed(points) /\ points \in Seq(Int)
  BY DEF Rejected
<1>2. Len(points) > 1 /\ points # << >>
  <2>1. points # << >>
    BY <1>1 DEF WellFormed
  <2>2. Len(points) \in Nat \ {0}
    BY <1>1, <2>1, EmptySeq, Zenon
  <2>3. \A n \in Nat \ {0} : n # 1 => n > 1
    OBVIOUS
  <2> QED
    BY <2>1, <2>2, <2>3, Zenon
<1>3. b \in Bundle /\ b.t = age /\ b.points # << >> /\ age \in Int
  BY <1>1, <1>2 DEF Bundle
<1>4. /\ buf' = b
      /\ tracking' = ~ReachedEnd(b)
      /\ done' = ReachedEnd(b)
      /\ ref' = IF Effective(b) THEN Sample(b) ELSE Hold
  BY Zenon DEF SetTrajectory
<1> HIDE DEF b
<1>5. CASE Effective(b)
  <2>1. b.t >= 0
    BY <1>5 DEF Effective
  <2> QED
    BY <1>3, <1>4, <1>5, <2>1, DrawnOK, Zenon
<1>6. CASE ~Effective(b)
  <2>1. ReachedEnd(b) = FALSE
    BY <1>6 DEF ReachedEnd
  <2>2. done' = FALSE /\ tracking' = TRUE
    BY <1>4, <2>1
  <2> QED
    BY <1>3, <1>4, <1>6, <2>2
    DEF FollowedOK, CompletionAtLastPoint, DrawnOnTime, Hold
<1> QED
  BY <1>5, <1>6

LEMMA FollowOK ==
  ASSUME FollowedOK, Follow
  PROVE  FollowedOK' /\ DrawnOnTime
<1>1. buf \in Bundle /\ buf.t >= 0
  BY DEF Follow, FollowedOK, Effective, NoBundle
<1>2. /\ buf' = buf
      /\ tracking' = ~ReachedEnd(buf)
      /\ done' = ReachedEnd(buf)
      /\ ref' = Sample(buf)
  BY Zenon DEF Follow
<1> QED
  BY <1>1, <1>2, DrawnOK

\* Nothing is followed, or all is as it was.
LEMMA DroppedOK ==
  ASSUME FollowedOK, buf' = NoBundle, tracking' = FALSE, done' = FALSE,
         ref' \in {Hold, ref}
  PROVE  FollowedOK' /\ DrawnOnTime
<1>1. ~done' /\ tracking' \in BOOLEAN /\ done' \in BOOLEAN
  OBVIOUS
<1>2. ref' \in {Hold, Point} \cup Path /\ buf' \in {NoBundle} \cup Bundle
  BY DEF FollowedOK
<1>3. DrawnOnTime
  BY DEF DrawnOnTime, Hold
<1> QED
  BY <1>1, <1>2, <1>3 DEF FollowedOK, CompletionAtLastPoint

LEMMA SameFollowedOK ==
  ASSUME FollowedOK, UNCHANGED followed
  PROVE  FollowedOK' /\ DrawnOnTime
BY DEF FollowedOK, CompletionAtLastPoint, DrawnOnTime, followed

LEMMA FollowedTickOK ==
  ASSUME FollowedOK, Tick
  PROVE  FollowedOK' /\ DrawnOnTime
<1>1. buf' = Later(buf) /\ tracking' = tracking /\ done' = done /\ ref' = ref
  BY DEF Tick
<1>2. buf' \in {NoBundle} \cup Bundle /\ buf'.points = buf.points
  <2>1. CASE buf = NoBundle
    BY <1>1, <2>1 DEF Later, NoBundle
  <2>2. CASE buf \in Bundle
    BY <1>1, <2>2 DEF Later, Bundle
  <2> QED
    BY <2>1, <2>2 DEF FollowedOK
<1> QED
  BY <1>1, <1>2 DEF FollowedOK, CompletionAtLastPoint, DrawnOnTime

-----------------------------------------------------------------------------
(* The actions.                                                            *)

LEMMA InitOK == StreamInit => StreamInv
<1> SUFFICES ASSUME StreamInit PROVE StreamInv
  OBVIOUS
<1>1. NoClocked \in Clocked /\ ~NoClocked.src.valid
  BY DEF NoClocked, NoSource, Clocked
<1>2. MachineOK
  BY DEF StreamInit, MachineOK, FlightStates
<1>3. HolderOK
  BY <1>1 DEF StreamInit, HolderOK
<1>4. FollowedOK
  BY DEF StreamInit, FollowedOK, CompletionAtLastPoint
<1> QED
  BY <1>2, <1>3, <1>4 DEF StreamInv

LEMMA SameMachineOK ==
  ASSUME MachineOK, UNCHANGED machine
  PROVE  MachineOK'
BY DEF MachineOK, machine

LEMMA CallbackOK ==
  ASSUME StreamInv, Callback
  PROVE  StreamInv' /\ DrawnOnTime
<1> USE DEF StreamInv
<1>1. CASE PositionSrv
  <2>1. MachineOK'
    BY <1>1, QueueEventOK DEF PositionSrv, Commands
  <2>2. HolderOK'
    BY <1>1, NoHolderOK, SameHolderOK DEF PositionSrv
  <2>3. FollowedOK' /\ DrawnOnTime
    BY <1>1, PointOK DEF PositionSrv
  <2> QED
    BY <2>1, <2>2, <2>3
<1>2. ASSUME NEW e \in Envelopes, VelocityCmd(e)
      PROVE  StreamInv' /\ DrawnOnTime
  <2>1. MachineOK'
    BY <1>2, QueueEventOK DEF VelocityCmd, Commands
  <2>2. HolderOK'
    BY <1>2, HandOK DEF VelocityCmd, ControlStates
  <2>3. FollowedOK' /\ DrawnOnTime
    BY <1>2, PointOK DEF VelocityCmd
  <2> QED
    BY <2>1, <2>2, <2>3
<1>3. ASSUME NEW e \in Envelopes, CommandRefused(e)
      PROVE  StreamInv' /\ DrawnOnTime
  <2>1. UNCHANGED machine /\ UNCHANGED followed
    BY <1>3 DEF CommandRefused
  <2>2. HolderOK'
    BY <1>3, KeepHolderOK DEF CommandRefused
  <2> QED
    BY <2>1, <2>2, SameMachineOK, SameFollowedOK
<1>4. ASSUME NEW e \in Envelopes, NEW p \in Trajectories, TrajectoryRefused(e, p)
      PROVE  StreamInv' /\ DrawnOnTime
  <2>1. MachineOK'
    BY <1>4, SameMachineOK DEF TrajectoryRefused
  <2>2. HolderOK'
    BY <1>4, KeepHolderOK DEF TrajectoryRefused
  <2>3. FollowedOK' /\ DrawnOnTime
    BY <1>4, DroppedOK, SameFollowedOK DEF TrajectoryRefused
  <2> QED
    BY <2>1, <2>2, <2>3
<1>5. ASSUME NEW e \in Envelopes, NEW p \in Trajectories,
             NEW age \in (-MaxLead)..Delay, TrajectoryCmd(e, p, age)
      PROVE  StreamInv' /\ DrawnOnTime
  <2>1. MachineOK'
    BY <1>5, QueueEventOK DEF TrajectoryCmd, Commands
  <2>2. HolderOK'
    BY <1>5, HandOK DEF TrajectoryCmd, ControlStates
  <2>3. FollowedOK' /\ DrawnOnTime
    BY <1>5, PointOK, TrajectoryOK DEF TrajectoryCmd
  <2> QED
    BY <2>1, <2>2, <2>3
<1> QED
  BY <1>1, <1>2, <1>3, <1>4, <1>5 DEF Callback

LEMMA UpdateSlowOK ==
  ASSUME StreamInv, UpdateSlow
  PROVE  StreamInv' /\ DrawnOnTime
<1> USE DEF StreamInv
<1>1. CASE HandleQueued
  <2>1. Head(queue) \in Commands /\ Tail(queue) \in Seq(Commands)
    BY <1>1, HeadTailProperties DEF HandleQueued, MachineOK
  <2>2. fsm' \in FlightStates
    BY <1>1, <2>1, CommandLeadsToControl DEF HandleQueued, MachineOK
  <2>3. MachineOK'
    BY <1>1, <2>1, <2>2 DEF HandleQueued, MachineOK
  <2> QED
    BY <1>1, <2>3, SameHolderOK, SameFollowedOK DEF HandleQueued
<1>2. CASE Expire
  BY <1>2, NoHolderOK, SameMachineOK, SameFollowedOK DEF Expire, DropHolder
<1>3. CASE SampleCompletion
  <2>1. MachineOK'
    BY <1>3 DEF SampleCompletion, MachineOK, Completions
  <2> QED
    BY <1>3, <2>1, SameHolderOK, SameFollowedOK DEF SampleCompletion
<1>4. CASE HandleCompletion
  <2>1. MachineOK'
    BY <1>4 DEF HandleCompletion, EnterHover, MachineOK, FlightStates
  <2>2. CASE EnterHover
    BY <2>1, <2>2, NoHolderOK, DroppedOK DEF EnterHover, DropHolder
  <2>3. CASE UNCHANGED <<fsm, holder, followed>>
    BY <2>1, <2>3, SameHolderOK, SameFollowedOK
  <2> QED
    BY <1>4, <2>2, <2>3 DEF HandleCompletion
<1> QED
  BY <1>1, <1>2, <1>3, <1>4 DEF UpdateSlow

\* Every step keeps the invariant, and what it draws is on time.
LEMMA StepOK ==
  ASSUME StreamInv, [Next]_vars
  PROVE  StreamInv' /\ DrawnOnTime
<1>1. CASE Callback
  BY <1>1, CallbackOK
<1>2. CASE Follow
  BY <1>2, FollowOK, SameMachineOK, SameHolderOK DEF Follow, StreamInv
<1>3. CASE UpdateSlow
  BY <1>3, UpdateSlowOK
<1>4. CASE Tick
  <2>1. UNCHANGED machine
    BY <1>4 DEF Tick
  <2> QED
    BY <1>4, <2>1, HolderTickOK, FollowedTickOK, SameMachineOK DEF StreamInv
<1>5. CASE UNCHANGED vars
  BY <1>5, SameMachineOK, SameHolderOK, SameFollowedOK DEF vars, StreamInv
<1> QED
  BY <1>1, <1>2, <1>3, <1>4, <1>5 DEF Next

-----------------------------------------------------------------------------
THEOREM StreamInvariant == Spec => []StreamInv
<1>1. StreamInv /\ [Next]_vars => StreamInv'
  BY StepOK
<1> QED
  BY <1>1, InitOK, PTL DEF Spec

\* Type correctness: only the three control states' events are queued, so that
\* the vehicle hovers or is in one of them; and every reference drawn from a
\* trajectory is a point of it.
THEOREM StreamTypeCorrect == Spec => []StreamTypeOK
<1>1. StreamInv => StreamTypeOK
  <2> SUFFICES ASSUME StreamInv PROVE StreamTypeOK
    OBVIOUS
  <2>1. queue \in Seq(SunrayEvent)
    BY CommandEvents DEF StreamInv, MachineOK
  <2> QED
    BY <2>1 DEF StreamInv, MachineOK, HolderOK, FollowedOK, StreamTypeOK, Path
<1> QED
  BY <1>1, StreamInvariant, PTL

\* trajectory_completed_ is set only while the reference is the last point of
\* the trajectory that is followed: no other command, no later trajectory and
\* no refused one inherits a completion.
THEOREM CompletedAtItsEnd == Spec => []CompletionAtLastPoint
<1>1. StreamInv => CompletionAtLastPoint
  BY DEF StreamInv, FollowedOK
<1> QED
  BY <1>1, StreamInvariant, PTL

\* accept_control_meta_locked refuses a command only in favour of a source that
\* was heard from within its timeout, give or take the skew of its clock.
THEOREM RefusalsHaveALiveSource == Spec => []RefusesOnlyForALiveSource
<1>1. StreamInv => RefusesOnlyForALiveSource
  <2> SUFFICES ASSUME StreamInv, NEW e \in Envelopes,
                      ~Accepts(LiveAt(active).src, e.meta), active.timeout > 0
               PROVE  silent <= active.timeout + Skew
    BY DEF RefusesOnlyForALiveSource, StreamInv, HolderOK, Clocked
  <2>1. LiveAt(active).src.valid
    BY DEF Accepts
  <2>2. active.src.valid /\ ~Expired(active)
    BY <2>1 DEF LiveAt, NoClocked, NoSource
  <2>3. active.age <= active.timeout
    BY <2>2 DEF Expired, StreamInv, HolderOK, Clocked
  <2>4. /\ active.timeout + Skew < MaxAge
        /\ active.age = MaxAge \/ silent <= active.age + Skew
    BY <2>2 DEF StreamInv, HolderOK
  <2>5. active.age \in Int /\ active.timeout \in Int /\ silent \in Int
    BY DEF StreamInv, HolderOK, Clocked
  <2> QED
    BY <2>3, <2>4, <2>5
<1> QED
  BY <1>1, StreamInvariant, PTL

\* The reference drawn from a trajectory is the point its time stamps put at
\* the time since it took effect, its first one before and its last one after.
THEOREM ReferencesOnTime == Spec => ReferenceOnTime
<1>1. StreamInv /\ [Next]_vars
        => [ref' # ref /\ ref'.kind = "path"
             => LET t == buf'.t
                    ps == buf'.points
                    at == ps[ref'.seg] + ref'.into
                IN  at = IF t < ps[1] THEN ps[1]
                         ELSE IF t > EndTime(ps) THEN EndTime(ps) ELSE t]_vars
  BY StepOK DEF DrawnOnTime, IsOnTime
<1> QED
  BY <1>1, StreamInvariant, PTL DEF Spec, ReferenceOnTime
=============================================================================
