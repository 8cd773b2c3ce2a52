-------------------------- MODULE ParamManager_proofs --------------------------
(***************************************************************************)
(* Proofs about ParamManager, for every set of values: its types, and that *)
(* a call that returns true has restarted the estimator, as long as no     *)
(* reply is late, or nothing else fails and no more than three are.        *)
(***************************************************************************)
EXTENDS ParamManager, SequenceTheorems, TLAPS

USE BudgetsAssumption

-----------------------------------------------------------------------------
(* Type correctness.                                                       *)

LEMMA RestartFacts ==
  /\ Len(Restart) = 5
  /\ \A i \in 1..5 : Restart[i] \in Command
  /\ Restart[1] = "status" /\ Restart[2] = "stop" /\ Restart[3] = "status"
  /\ Restart[4] = "start" /\ Restart[5] = "status"
<1>1. /\ Len(Restart) = 5 /\ DOMAIN Restart = 1..5
      /\ Restart[1] = "status" /\ Restart[2] = "stop" /\ Restart[3] = "status"
      /\ Restart[4] = "start" /\ Restart[5] = "status"
  BY DEF Restart
<1>2. \A i \in 1..5 : Restart[i] \in Command
  BY <1>1, Zenon DEF Command, Range
<1> QED
  BY <1>1, <1>2

LEMMA FaultTyped ==
  ASSUME NEW k \in Kind, faults \in [Kind -> Nat], Fault(k)
  PROVE  /\ faults' \in [Kind -> Nat]
         /\ faults[k] > 0 /\ faults'[k] = faults[k] - 1
         /\ \A j \in Kind \ {k} : faults'[j] = faults[j]
BY DEF Fault

LEMMA ParamInitTyped == ParamInit => ParamTypeOK
<1> SUFFICES ASSUME ParamInit PROVE ParamTypeOK
  OBVIOUS
<1>1. shell \in Seq(Command) /\ wire \in Seq(Text)
  BY DEF ParamInit
<1>2. step \in 1..Len(Restart)
  BY RestartFacts DEF ParamInit
<1>3. faults \in [Kind -> Nat]
  BY DEF ParamInit
<1>4. buf \subseteq Text /\ updated \in BOOLEAN
  BY DEF ParamInit
<1> QED
  BY <1>1, <1>2, <1>3, <1>4 DEF ParamInit, ParamTypeOK

LEMMA ExecuteTyped == ParamTypeOK /\ Execute => ParamTypeOK'
<1> SUFFICES ASSUME ParamTypeOK, Execute PROVE ParamTypeOK'
  OBVIOUS
<1>1. shell' \in Seq(Command)
  BY DEF ParamTypeOK, Execute
<1>2. Output(Head(shell)) \in Text /\ "prompt" \in Text
  BY DEF Output, Text
<1>3. wire' \in Seq(Text)
  BY <1>2 DEF ParamTypeOK, Execute
<1>4. ekf' \in Values \cup {"down"}
  BY DEF ParamTypeOK, Execute
<1>5. faults' \in [Kind -> Nat]
  BY FaultTyped DEF ParamTypeOK, Execute, Kind
<1> QED
  BY <1>1, <1>3, <1>4, <1>5 DEF ParamTypeOK, Execute, caller

LEMMA ReceiveTyped == ParamTypeOK /\ Receive => ParamTypeOK'
<1> SUFFICES ASSUME ParamTypeOK, Receive PROVE ParamTypeOK'
  OBVIOUS
<1>1. Head(wire) \in Text /\ Tail(wire) \in Seq(Text)
  BY HeadTailProperties DEF ParamTypeOK, Receive
<1> QED
  BY <1>1 DEF ParamTypeOK, Receive, px4, caller

LEMMA SendTyped == ParamTypeOK /\ Send => ParamTypeOK'
<1> SUFFICES ASSUME ParamTypeOK, Send PROVE ParamTypeOK'
  OBVIOUS
<1>1. step \in 1..5 /\ Restart[step] \in Command
  BY RestartFacts DEF ParamTypeOK
<1>2. shell' \in Seq(Command)
  BY <1>1 DEF ParamTypeOK, Send
<1>3. faults' \in [Kind -> Nat]
  BY FaultTyped DEF ParamTypeOK, Send, Kind
<1>4. updated' \in BOOLEAN
  BY DEF Send
<1> QED
  BY <1>2, <1>3, <1>4 DEF ParamTypeOK, Send

LEMMA CallerTyped ==
  ParamTypeOK /\ ((\E v \in Values : SetParam(v)) \/ Prompted \/ Estimated) => ParamTypeOK'
<1> SUFFICES ASSUME ParamTypeOK PROVE
      ((\E v \in Values : SetParam(v)) \/ Prompted \/ Estimated) => ParamTypeOK'
  OBVIOUS
<1>1. ASSUME NEW v \in Values, SetParam(v) PROVE ParamTypeOK'
  BY <1>1, RestartFacts DEF ParamTypeOK, SetParam
<1>2. ASSUME Prompted PROVE ParamTypeOK'
  BY <1>2, RestartFacts DEF ParamTypeOK, Prompted, Return, px4
<1>3. ASSUME Estimated PROVE ParamTypeOK'
  BY <1>3 DEF ParamTypeOK, Estimated, Return, px4
<1> QED
  BY <1>1, <1>2, <1>3

LEMMA TimeoutTyped == ParamTypeOK /\ PromptTimeout => ParamTypeOK'
<1> SUFFICES ASSUME ParamTypeOK, PromptTimeout PROVE ParamTypeOK'
  OBVIOUS
<1>1. faults' \in [Kind -> Nat]
  BY FaultTyped DEF ParamTypeOK, PromptTimeout, Kind
<1> QED
  BY <1>1 DEF ParamTypeOK, PromptTimeout, Return, px4

LEMMA ParamStepTyped == ParamTypeOK /\ [Next]_vars => ParamTypeOK'
<1> SUFFICES ASSUME ParamTypeOK, [Next]_vars PROVE ParamTypeOK'
  OBVIOUS
<1>1. CASE EstimatorUpdate
  BY <1>1 DEF ParamTypeOK, EstimatorUpdate, px4, caller
<1>2. CASE UNCHANGED vars
  BY <1>2 DEF ParamTypeOK, vars, px4, caller
<1> QED
  BY <1>1, <1>2, ExecuteTyped, ReceiveTyped, SendTyped, CallerTyped, TimeoutTyped
  DEF Next

\* Only the five commands and the four texts are ever under way, and the caller
\* never runs past the last of its commands.
THEOREM ParamTypeCorrect == Spec => []ParamTypeOK
  BY ParamInitTyped, ParamStepTyped, PTL DEF Spec

-----------------------------------------------------------------------------
(* No reply is late: whatever is under way belongs to the command the      *)
(* caller is at, and what it reads is the answer to that.                  *)

Answer == Output(Restart[step])

Unanswered == buf = {} /\ wire = << >> /\ shell \in {<< >>, <<Restart[step]>>}

Answered ==
  /\ shell = << >>
  /\ \/ buf = {} /\ wire = <<Answer, "prompt">>
     \/ buf = {Answer} /\ wire = <<"prompt">>
     \/ buf = {Answer, "prompt"} /\ wire = << >>

Punctual ==
  /\ faults["late"] = 0
  /\ pc # "await" => shell = << >> /\ wire = << >>
  /\ pc = "await" => Unanswered \/ Answered
  /\ pc # "idle" => param = want
  \* The status after the stop was read as it was, and the start took the value.
  /\ pc = "send" /\ step = 4 => ekf = "down"
  /\ pc = "await" /\ step = 4 => /\ Unanswered => ekf = "down"
                                 /\ Answered => ekf = want
  /\ pc \in {"send", "await"} /\ step = 5 => ekf = want
  /\ pc = "estimate" => ekf = want
  /\ result = "true" => pc = "idle" /\ ekf = want

LEMMA PunctualExecute ==
  ASSUME ParamTypeOK, Punctual, Execute
  PROVE  Punctual'
<1>1. /\ pc = "await" /\ shell # << >>
      /\ buf = {} /\ wire = << >> /\ shell = <<Restart[step]>>
  BY DEF Execute, Punctual, Unanswered, Answered
<1>2. Head(shell) = Restart[step] /\ Tail(shell) = << >>
  BY <1>1
<1>3. /\ shell' = << >> /\ buf' = {} /\ pc' = "await" /\ step' = step
      /\ param' = param /\ want' = want /\ result' = result
      /\ wire' = << >> \o <<Answer, "prompt">>
  BY <1>1, <1>2 DEF Execute, caller, Answer
<1>4. wire' = <<Answer, "prompt">>
  BY <1>3
<1>5. step \in 1..5 /\ faults \in [Kind -> Nat]
  BY RestartFacts DEF ParamTypeOK
<1>6. faults'["late"] = 0
  BY <1>5, FaultTyped DEF Execute, Punctual, Kind
<1>7. step \in {1, 3, 5} => ekf' = ekf
  BY <1>2, RestartFacts DEF Execute
<1>8. step = 4 => ekf = "down" /\ ekf' = param
  <2>1. step = 4 => ekf = "down"
    BY <1>1 DEF Punctual, Unanswered
  <2> QED
    BY <1>2, <2>1, RestartFacts DEF Execute
<1>9. Answer' = Answer
  <2>1. CASE step \in {1, 3, 5}
    BY <1>3, <1>7, <2>1 DEF Answer, Output
  <2>2. CASE step \in {2, 4}
    BY <1>3, <2>2, RestartFacts DEF Answer, Output
  <2> QED
    BY <1>5, <2>1, <2>2
<1>10. Answered'
  BY <1>3, <1>4, <1>9 DEF Answered
<1>11. step = 5 => ekf' = want
  BY <1>1, <1>7 DEF Punctual
<1>12. step = 4 => ekf' = want
  BY <1>1, <1>8 DEF Punctual
<1>13. result # "true" /\ param = want
  BY <1>1 DEF Punctual
<1>14. ~Unanswered'
  BY <1>4 DEF Unanswered
<1> QED
  BY <1>3, <1>6, <1>10, <1>11, <1>12, <1>13, <1>14 DEF Punctual

LEMMA PunctualReceive ==
  ASSUME ParamTypeOK, Punctual, Receive
  PROVE  Punctual'
<1>1. /\ wire # << >> /\ wire' = Tail(wire) /\ buf' = buf \cup {Head(wire)}
      /\ UNCHANGED <<param, ekf, shell, pc, step, want, result, faults>>
  BY DEF Receive, px4, caller
<1>2. pc = "await" /\ Answered /\ ~Unanswered
  BY <1>1 DEF Punctual, Unanswered
<1>3. Answer' = Answer
  BY <1>1 DEF Answer, Output
<1>4. ASSUME buf = {} /\ wire = <<Answer, "prompt">>
      PROVE  Answered' /\ ~Unanswered'
  <2>1. wire' = <<"prompt">> /\ buf' = {Answer}
    BY <1>1, <1>4
  <2> QED
    BY <1>1, <1>2, <1>3, <2>1 DEF Answered, Unanswered
<1>5. ASSUME buf = {Answer} /\ wire = <<"prompt">>
      PROVE  Answered' /\ ~Unanswered'
  <2>1. wire' = << >> /\ buf' = {Answer, "prompt"}
    BY <1>1, <1>5
  <2> QED
    BY <1>1, <1>2, <1>3, <2>1 DEF Answered, Unanswered
<1>6. Answered' /\ ~Unanswered'
  BY <1>1, <1>2, <1>4, <1>5 DEF Answered
<1> QED
  BY <1>1, <1>2, <1>6 DEF Punctual

LEMMA PunctualSend ==
  ASSUME ParamTypeOK, Punctual, Send
  PROVE  Punctual'
<1>1. /\ pc = "send" /\ pc' = "await" /\ buf' = {} /\ wire' = << >> /\ shell = << >>
      /\ UNCHANGED <<param, ekf, step, want, result>>
  BY DEF Send, Punctual
<1>2. shell' \in {<< >>, <<Restart[step]>>}
  BY <1>1 DEF Send
<1>3. Unanswered'
  BY <1>1, <1>2 DEF Unanswered
<1>4. faults'["late"] = 0
  BY FaultTyped DEF Send, Punctual, ParamTypeOK, Kind
<1>5. ~Answered'
  BY <1>1 DEF Answered
<1>6. /\ param = want /\ result # "true"
      /\ step = 4 => ekf = "down"
      /\ step = 5 => ekf = want
  BY <1>1 DEF Punctual
<1> QED
  BY <1>1, <1>3, <1>4, <1>5, <1>6 DEF Punctual

\* The text of the answer tells whether the estimator is running.
LEMMA PunctualAnswer ==
  ASSUME Punctual, pc = "await", "prompt" \in buf
  PROVE  /\ buf = {Answer, "prompt"} /\ shell = << >> /\ wire = << >>
         /\ Answered /\ ~Unanswered
         /\ step = 3 /\ ~Running => ekf = "down"
<1>1. Answer # "prompt"
  BY DEF Answer, Output
<1>2. /\ buf = {Answer, "prompt"} /\ shell = << >> /\ wire = << >>
      /\ Answered /\ ~Unanswered
  BY <1>1 DEF Punctual, Unanswered, Answered
<1>3. ASSUME step = 3, ekf # "down" PROVE Running
  <2>1. Answer = "running"
    BY <1>3, RestartFacts DEF Answer, Output
  <2> QED
    BY <1>2, <2>1 DEF Running
<1> QED
  BY <1>2, <1>3

LEMMA PunctualPrompted ==
  ASSUME ParamTypeOK, Punctual, Prompted
  PROVE  Punctual'
<1>1. /\ pc = "await" /\ "prompt" \in buf
      /\ UNCHANGED <<param, ekf, shell, wire, faults>>
  BY DEF Prompted, px4
<1>2. /\ shell = << >> /\ wire = << >> /\ Answered /\ ~Unanswered
      /\ step = 3 /\ ~Running => ekf = "down"
  BY <1>1, PunctualAnswer
<1>3. step \in 1..5 /\ Len(Restart) = 5
  BY RestartFacts DEF ParamTypeOK
<1>4. param = want /\ result # "true" /\ faults'["late"] = 0
  BY <1>1 DEF Punctual
<1>5. CASE ~Passed
  BY <1>1, <1>2, <1>4, <1>5 DEF Prompted, Return, Punctual
<1>6. CASE Passed /\ step = 5
  BY <1>1, <1>2, <1>3, <1>4, <1>6 DEF Prompted, Punctual
<1>7. CASE Passed /\ step # 5
  <2>1. pc' = "send" /\ step' = step + 1 /\ want' = want /\ result' = result
    BY <1>3, <1>7 DEF Prompted
  <2>2. step' = 4 => ekf = "down"
    BY <1>2, <1>3, <1>7, <2>1 DEF Passed
  <2>3. step' = 5 => ekf = want
    BY <1>1, <1>2, <1>3, <2>1 DEF Punctual
  <2> QED
    BY <1>1, <1>2, <1>4, <2>1, <2>2, <2>3 DEF Punctual
<1> QED
  BY <1>5, <1>6, <1>7

LEMMA PunctualTimeout ==
  ASSUME ParamTypeOK, Punctual, PromptTimeout
  PROVE  Punctual'
<1>1. shell = << >> /\ wire = << >> /\ UNCHANGED faults
  BY DEF PromptTimeout, Fault, Punctual
<1> QED
  BY <1>1 DEF PromptTimeout, Return, Punctual, px4

LEMMA PunctualStep ==
  ASSUME ParamTypeOK, Punctual, [Next]_vars
  PROVE  Punctual'
<1>1. CASE EstimatorUpdate
  BY <1>1 DEF EstimatorUpdate, px4, caller, Punctual, Unanswered, Answered,
              Answer, Output
<1>2. ASSUME NEW v \in Values, SetParam(v) PROVE Punctual'
  BY <1>2 DEF SetParam, Punctual
<1>3. CASE Estimated
  BY <1>3 DEF Estimated, Return, px4, Punctual
<1>4. CASE UNCHANGED vars
  BY <1>4 DEF vars, px4, caller, Punctual, Unanswered, Answered, Answer, Output
<1> QED
  BY <1>1, <1>2, <1>3, <1>4, PunctualExecute, PunctualReceive, PunctualSend,
     PunctualPrompted, PunctualTimeout DEF Next

-----------------------------------------------------------------------------
(* No more than three replies are late, and nothing else fails: the reply  *)
(* the caller reads may be that of a command up to three before.  But      *)
(* three back from the last status the estimator has been stopped, so that *)
(* no status read as the last one says "running" except the last one.      *)

\* The commands of this call that have been sent, and those that have been
\* executed, the ones of earlier calls that have not counted as debts.
Sent == IF pc = "idle" THEN 0 ELSE IF pc = "send" THEN step - 1 ELSE step
Done == Sent - Len(shell)

\* Texts the manager has still to receive.
UnderWay == Len(wire) + 2 * Len(shell)

\* A prompt ends each reply, and the last text is a prompt.
Alternate(w) ==
  \A i \in 1..Len(w) : w[i] = "prompt" <=> (Len(w) - i) % 2 = 0

Bounded ==
  /\ faults["lost"] = 0 /\ faults["refused"] = 0 /\ faults["late"] <= 3
  /\ UnderWay + 2 * faults["late"]
       <= IF pc = "await" /\ "prompt" \notin buf THEN 8 ELSE 6

InOrder == \A i \in 1..Len(shell) : i + Done >= 1 => shell[i] = Restart[i + Done]

Effects ==
  pc # "idle" => /\ param = want
                 /\ Done \in {2, 3} => ekf = "down"
                 /\ Done \in {4, 5} => ekf = want

\* Of this call's replies the last but the first says "running".
NotRunning ==
  pc # "idle" /\ Done <= 4
    => \A i \in 1..Len(wire) : i > Len(wire) - 2 * (Done - 1) => wire[i] # "running"

Answers ==
  /\ pc = "await" /\ step = 5 /\ "running" \in buf => shell = << >>
  /\ pc = "estimate" => step = 5 /\ shell = << >>
  /\ result = "true" => pc = "idle" /\ shell = << >> /\ ekf = want

Lagging == Alternate(wire) /\ Bounded /\ InOrder /\ Effects /\ NotRunning /\ Answers

LEMMA Parity ==
  ASSUME NEW n \in Int
  PROVE  /\ (n + 2) % 2 = n % 2
         /\ n % 2 = 0 => (n + 1) % 2 # 0
  OBVIOUS

\* A reply put on the wire.
LEMMA ReplyProperties ==
  ASSUME NEW w \in Seq(Text), NEW x \in Text, x # "prompt"
  PROVE  /\ Len(w \o <<x, "prompt">>) = Len(w) + 2
         /\ \A i \in 1..Len(w) : (w \o <<x, "prompt">>)[i] = w[i]
         /\ (w \o <<x, "prompt">>)[Len(w) + 1] = x
         /\ (w \o <<x, "prompt">>)[Len(w) + 2] = "prompt"
         /\ Alternate(w) => Alternate(w \o <<x, "prompt">>)
<1> DEFINE r == <<x, "prompt">>
           n == Len(w)
<1>1. /\ r \in Seq(Text) /\ Len(r) = 2 /\ r[1] = x /\ r[2] = "prompt"
  <2>1. "prompt" \in Text
    BY DEF Text
  <2> QED
    BY <2>1
<1>2. n \in Nat
  OBVIOUS
<1> HIDE DEF r
<1>3. /\ Len(w \o r) = n + 2
      /\ \A i \in 1..n + 2 : (w \o r)[i] = IF i <= n THEN w[i] ELSE r[i - n]
  <2>1. /\ Len(w \o r) = n + Len(r)
        /\ \A i \in 1..n + Len(r) : (w \o r)[i] = IF i <= n THEN w[i] ELSE r[i - n]
    BY <1>1, ConcatProperties, Zenon
  <2> QED
    BY <1>1, <2>1
<1> DEFINE v == w \o r
<1> HIDE DEF n, v
<1>4. /\ Len(v) = n + 2
      /\ \A i \in 1..n : v[i] = w[i]
      /\ v[n + 1] = x /\ v[n + 2] = "prompt"
  BY <1>1, <1>2, <1>3 DEF v
<1>5. ASSUME Alternate(w), NEW i \in 1..n + 2
      PROVE  v[i] = "prompt" <=> ((n + 2) - i) % 2 = 0
  <2>1. CASE i \in 1..n
    <3>1. w[i] = "prompt" <=> (n - i) % 2 = 0
      BY <1>5, <2>1 DEF Alternate, n
    <3>2. n - i \in Int /\ (n + 2) - i = (n - i) + 2
      BY <1>2
    <3>3. ((n + 2) - i) % 2 = (n - i) % 2
      BY <3>2, Parity
    <3> QED
      BY <1>4, <2>1, <3>1, <3>3
  <2>2. CASE i = n + 1
    BY <1>2, <1>4, <2>2
  <2>3. CASE i = n + 2
    BY <1>2, <1>4, <2>3
  <2> QED
    BY <1>2, <1>5, <2>1, <2>2, <2>3
<1>6. Alternate(w) => Alternate(v)
  <2> SUFFICES ASSUME Alternate(w), NEW i \in 1..Len(v)
               PROVE  v[i] = "prompt" <=> (Len(v) - i) % 2 = 0
    BY DEF Alternate
  <2>1. i \in 1..n + 2
    BY <1>4
  <2>2. v[i] = "prompt" <=> ((n + 2) - i) % 2 = 0
    BY <1>5, <2>1
  <2>3. Len(v) - i = (n + 2) - i
    BY <1>4
  <2> QED
    BY <2>2, <2>3, Zenon
<1> QED
  BY <1>4, <1>6 DEF n, r, v

\* What the sequences and counters are.
LEMMA LaggingTyped ==
  ASSUME ParamTypeOK
  PROVE  /\ wire \in Seq(Text) /\ shell \in Seq(Command)
         /\ Len(wire) \in Nat /\ Len(shell) \in Nat
         /\ step \in 1..5 /\ Sent \in 0..5 /\ Done \in Int /\ UnderWay \in Nat
         /\ faults \in [Kind -> Nat]
         /\ faults["lost"] \in Nat /\ faults["late"] \in Nat /\ faults["refused"] \in Nat
<1>1. /\ wire \in Seq(Text) /\ shell \in Seq(Command)
      /\ Len(wire) \in Nat /\ Len(shell) \in Nat
  BY DEF ParamTypeOK
<1>2. step \in 1..5
  BY RestartFacts DEF ParamTypeOK
<1>3. faults \in [Kind -> Nat]
  BY DEF ParamTypeOK
<1>4. /\ faults["lost"] \in Nat /\ faults["late"] \in Nat /\ faults["refused"] \in Nat
  BY <1>3 DEF Kind
<1>5. Sent \in 0..5
  BY <1>2 DEF Sent
<1> QED
  BY <1>1, <1>2, <1>3, <1>4, <1>5 DEF Done, UnderWay

LEMMA LaggingExecute ==
  ASSUME ParamTypeOK, Lagging, Execute
  PROVE  Lagging'
<1> DEFINE n == Len(wire)
           m == Len(shell)
           x == Output(Head(shell))
<1>1. /\ wire \in Seq(Text) /\ shell \in Seq(Command) /\ shell # << >>
      /\ n \in Nat /\ m \in Nat \ {0}
      /\ Sent \in 0..5 /\ Done \in Int /\ UnderWay \in Nat
      /\ faults["late"] \in Nat
  <2>1. shell # << >>
    BY DEF Execute
  <2> QED
    BY <2>1, LaggingTyped, EmptySeq
<1>2. /\ shell' = Tail(shell) /\ wire' = wire \o <<x, "prompt">>
      /\ UNCHANGED <<param, buf, pc, step, want, result>>
  BY DEF Execute, caller
<1>3. x \in Text /\ x # "prompt"
  BY DEF Output, Text
<1>4. /\ Len(wire') = n + 2
      /\ \A i \in 1..n : wire'[i] = wire[i]
      /\ wire'[n + 1] = x /\ wire'[n + 2] = "prompt"
  BY <1>1, <1>2, <1>3, ReplyProperties
<1>5. /\ Len(shell') = m - 1
      /\ \A i \in 1..m - 1 : shell'[i] = shell[i + 1]
      /\ Head(shell) = shell[1]
  BY <1>1, <1>2
<1>6. Sent' = Sent /\ Done' = Done + 1 /\ UnderWay' = UnderWay
  <2>1. Sent' = Sent
    BY <1>2 DEF Sent
  <2> QED
    BY <1>1, <1>4, <1>5, <2>1 DEF Done, UnderWay
<1>7. UNCHANGED faults
  BY DEF Execute, Fault, Lagging, Bounded
<1>8. ekf' = CASE Head(shell) = "stop" -> "down"
               [] Head(shell) = "start" /\ ekf = "down" -> param
               [] OTHER -> ekf
  BY DEF Execute, Fault, Lagging, Bounded
<1> HIDE DEF n, m, x
<1>9. Done + 1 >= 1 => Head(shell) = Restart[Done + 1]
  BY <1>1, <1>5 DEF Lagging, InOrder, m
<1>10. Alternate(wire')
  BY <1>1, <1>2, <1>3, ReplyProperties DEF Lagging
<1>11. Bounded'
  BY <1>2, <1>6, <1>7 DEF Lagging, Bounded
<1>12. InOrder'
  <2> SUFFICES ASSUME NEW i \in 1..m - 1, i + (Done + 1) >= 1
               PROVE  shell'[i] = Restart[i + (Done + 1)]
    BY <1>5, <1>6 DEF InOrder
  <2>1. i + 1 \in 1..m /\ (i + 1) + Done >= 1 /\ (i + 1) + Done = i + (Done + 1)
    BY <1>1
  <2>2. shell[i + 1] = Restart[(i + 1) + Done]
    BY <2>1 DEF Lagging, InOrder, m
  <2> QED
    BY <1>5, <2>1, <2>2
<1>13. Effects'
  <2> SUFFICES ASSUME pc # "idle"
               PROVE  /\ param = want
                      /\ Done + 1 \in {2, 3} => ekf' = "down"
                      /\ Done + 1 \in {4, 5} => ekf' = want
    BY <1>2, <1>6 DEF Effects
  <2>1. param = want
    BY DEF Lagging, Effects
  <2>2. CASE Done = 1
    BY <1>8, <1>9, <2>1, <2>2, RestartFacts
  <2>3. CASE Done = 2
    BY <1>8, <1>9, <2>1, <2>3, RestartFacts DEF Lagging, Effects
  <2>4. CASE Done = 3
    BY <1>8, <1>9, <2>1, <2>4, RestartFacts DEF Lagging, Effects
  <2>5. CASE Done = 4
    BY <1>8, <1>9, <2>1, <2>5, RestartFacts DEF Lagging, Effects
  <2> QED
    BY <1>1, <2>1, <2>2, <2>3, <2>4, <2>5
<1>14. NotRunning'
  <2> SUFFICES ASSUME pc # "idle", Done + 1 <= 4, NEW i \in 1..n + 2,
                      i > (n + 2) - 2 * (Done + 1 - 1)
               PROVE  wire'[i] # "running"
    <3>1. /\ Len(wire') = n + 2 /\ Done' = Done + 1 /\ pc' = pc
      BY <1>2, <1>4, <1>6
    <3> QED
      BY <1>1, <3>1 DEF NotRunning
  <2>1. CASE i \in 1..n
    <3>1. i > n - 2 * (Done - 1) /\ Done <= 4
      BY <1>1
    <3>2. wire[i] # "running"
      BY <2>1, <3>1 DEF Lagging, NotRunning, n
    <3> QED
      BY <1>4, <2>1, <3>2
  <2>2. CASE i = n + 1
    <3>1. Done \in {1, 2, 3}
      BY <1>1, <2>2
    <3>2. Head(shell) = Restart[Done + 1]
      BY <1>9, <3>1
    <3>3. Done \in {1, 3} => Head(shell) # "status"
      BY <3>2, RestartFacts
    <3>4. Done = 2 => ekf = "down"
      BY DEF Lagging, Effects
    <3>5. x # "running"
      BY <3>1, <3>3, <3>4 DEF x, Output
    <3> QED
      BY <1>4, <2>2, <3>5
  <2>3. CASE i = n + 2
    BY <1>4, <2>3
  <2> QED
    BY <1>1, <2>1, <2>2, <2>3
<1>15. Answers'
  BY <1>1, <1>2 DEF Lagging, Answers
<1> QED
  BY <1>10, <1>11, <1>12, <1>13, <1>14, <1>15 DEF Lagging

LEMMA LaggingReceive ==
  ASSUME ParamTypeOK, Lagging, Receive
  PROVE  Lagging'
<1> DEFINE n == Len(wire)
           m == Len(shell)
<1>1. /\ wire \in Seq(Text) /\ wire # << >>
      /\ n \in Nat \ {0} /\ m \in Nat
      /\ step \in 1..5 /\ Sent \in 0..5 /\ Done \in Int /\ UnderWay \in Nat
      /\ faults["late"] \in Nat
  <2>1. wire # << >>
    BY DEF Receive
  <2> QED
    BY <2>1, LaggingTyped, EmptySeq
<1>2. /\ wire' = Tail(wire) /\ buf' = buf \cup {Head(wire)}
      /\ UNCHANGED <<param, ekf, shell, pc, step, want, result, faults>>
  BY DEF Receive, px4, caller
<1>3. /\ Len(wire') = n - 1 /\ Head(wire) = wire[1]
      /\ \A i \in 1..n - 1 : wire'[i] = wire[i + 1]
  BY <1>1, <1>2
<1>4. Sent' = Sent /\ Done' = Done /\ UnderWay' = UnderWay - 1
  <2>1. Sent' = Sent
    BY <1>2 DEF Sent
  <2> QED
    BY <1>1, <1>2, <1>3, <2>1 DEF Done, UnderWay
<1> HIDE DEF n, m
<1>5. Alternate(wire')
  <2> SUFFICES ASSUME NEW i \in 1..n - 1
               PROVE  wire'[i] = "prompt" <=> (n - 1 - i) % 2 = 0
    BY <1>3 DEF Alternate
  <2>1. i + 1 \in 1..n /\ n - (i + 1) = n - 1 - i
    BY <1>1
  <2>2. wire[i + 1] = "prompt" <=> (n - (i + 1)) % 2 = 0
    BY <2>1 DEF Lagging, Alternate, n
  <2> QED
    BY <1>3, <2>1, <2>2
<1>6. Bounded'
  <2>1. UnderWay + 2 * faults["late"]
          <= IF pc = "await" /\ "prompt" \notin buf THEN 8 ELSE 6
    BY DEF Lagging, Bounded
  <2>2. CASE Head(wire) = "prompt"
    <3>1. (n - 1) % 2 = 0
      BY <1>1, <1>3, <2>2 DEF Lagging, Alternate, n
    <3>2. UnderWay = n + 2 * m
      BY DEF UnderWay, n, m
    <3>3. UnderWay + 2 * faults["late"] # 8
      BY <1>1, <3>1, <3>2
    <3>4. UnderWay - 1 + 2 * faults["late"] <= 6
      BY <1>1, <2>1, <3>3
    <3> QED
      BY <1>1, <1>2, <1>4, <3>4 DEF Lagging, Bounded
  <2>3. CASE Head(wire) # "prompt"
    <3>1. "prompt" \in buf' <=> "prompt" \in buf
      BY <1>2, <2>3
    <3> QED
      BY <1>1, <1>2, <1>4, <2>1, <3>1 DEF Lagging, Bounded
  <2> QED
    BY <2>2, <2>3
<1>7. InOrder'
  BY <1>2, <1>4 DEF Lagging, InOrder
<1>8. Effects'
  BY <1>2, <1>4 DEF Lagging, Effects
<1>9. NotRunning'
  <2> SUFFICES ASSUME pc # "idle", Done <= 4, NEW i \in 1..n - 1,
                      i > (n - 1) - 2 * (Done - 1)
               PROVE  wire'[i] # "running"
    BY <1>2, <1>3, <1>4 DEF NotRunning
  <2>1. i + 1 \in 1..n /\ i + 1 > n - 2 * (Done - 1)
    BY <1>1
  <2>2. wire[i + 1] # "running"
    BY <2>1 DEF Lagging, NotRunning, n
  <2> QED
    BY <1>3, <2>2
\* A status that says "running" before the last one would be a fourth reply back.
<1>10. pc = "await" /\ step = 5 /\ Head(wire) = "running" => shell = << >>
  <2> SUFFICES ASSUME pc = "await", step = 5, Head(wire) = "running", Done <= 4
               PROVE  FALSE
    <3>1. pc = "await" /\ step = 5 => Sent = 5
      BY DEF Sent
    <3>2. pc = "await" /\ step = 5 /\ Done > 4 => m = 0
      BY <1>1, <3>1 DEF Done, m
    <3>3. m = 0 => shell = << >>
      BY LaggingTyped, EmptySeq DEF m
    <3> QED
      BY <1>1, <3>2, <3>3
  <2>1. Done = 5 - m
    BY DEF Done, Sent, m
  <2>2. ~(1 > n - 2 * (Done - 1))
    BY <1>1, <1>3 DEF Lagging, NotRunning, n
  <2>3. n + 2 * m <= 8
    BY <1>1 DEF Lagging, Bounded, UnderWay, n, m
  <2> QED
    BY <1>1, <2>1, <2>2, <2>3
<1>11. Answers'
  BY <1>2, <1>10 DEF Lagging, Answers
<1> QED
  BY <1>5, <1>6, <1>7, <1>8, <1>9, <1>11 DEF Lagging

LEMMA LaggingSend ==
  ASSUME ParamTypeOK, Lagging, Send
  PROVE  Lagging'
<1> DEFINE m == Len(shell)
<1>1. /\ shell \in Seq(Command) /\ m \in Nat /\ Len(wire) \in Nat
      /\ step \in 1..5 /\ Sent \in 0..5 /\ Done \in Int /\ UnderWay \in Nat
      /\ faults["late"] \in Nat /\ Restart[step] \in Command
  BY LaggingTyped, RestartFacts
<1>2. /\ pc = "send" /\ pc' = "await" /\ buf' = {}
      /\ UNCHANGED <<param, ekf, wire, step, want, result>>
  BY DEF Send
<1>3. shell' = Append(shell, Restart[step]) /\ UNCHANGED faults
  BY DEF Send, Fault, Lagging, Bounded
<1>4. /\ Len(shell') = m + 1
      /\ \A i \in 1..m : shell'[i] = shell[i]
      /\ shell'[m + 1] = Restart[step]
  BY <1>1, <1>3
<1>5. Sent = step - 1 /\ Sent' = step /\ Done' = Done /\ UnderWay' = UnderWay + 2
  <2>1. Sent = step - 1 /\ Sent' = step
    BY <1>2 DEF Sent
  <2> QED
    BY <1>1, <1>2, <1>4, <2>1 DEF Done, UnderWay
<1> HIDE DEF m
<1>6. Bounded'
  BY <1>1, <1>2, <1>3, <1>5 DEF Lagging, Bounded
<1>7. InOrder'
  <2> SUFFICES ASSUME NEW i \in 1..m + 1, i + Done >= 1
               PROVE  shell'[i] = Restart[i + Done]
    BY <1>4, <1>5 DEF InOrder
  <2>1. CASE i \in 1..m
    BY <1>4, <2>1 DEF Lagging, InOrder, m
  <2>2. CASE i = m + 1
    <3>1. i + Done = step
      BY <1>1, <1>5, <2>2 DEF Done, m
    <3> QED
      BY <1>4, <2>2, <3>1
  <2> QED
    BY <1>1, <2>1, <2>2
<1>8. Effects' /\ NotRunning'
  BY <1>2, <1>5 DEF Lagging, Effects, NotRunning
<1>9. Answers'
  BY <1>2 DEF Lagging, Answers
<1> QED
  BY <1>2, <1>6, <1>7, <1>8, <1>9 DEF Lagging

\* The last command of a call is answered by its own status: nothing of the call
\* is under way that has not been executed.
LEMMA LaggingPrompted ==
  ASSUME ParamTypeOK, Lagging, Prompted
  PROVE  Lagging'
<1>1. /\ step \in 1..5 /\ Len(shell) \in Nat /\ Done \in Int /\ Len(Restart) = 5
  BY LaggingTyped, RestartFacts
<1>2. /\ pc = "await" /\ "prompt" \in buf /\ buf' = {}
      /\ UNCHANGED <<param, ekf, shell, wire, faults>>
  BY DEF Prompted, px4
<1>3. UnderWay' = UnderWay
  BY <1>2 DEF UnderWay
<1>4. Bounded' <=> /\ faults["lost"] = 0 /\ faults["refused"] = 0 /\ faults["late"] <= 3
                   /\ UnderWay + 2 * faults["late"]
                        <= IF pc' = "await" THEN 8 ELSE 6
  BY <1>2, <1>3 DEF Bounded
<1>5. /\ faults["lost"] = 0 /\ faults["refused"] = 0 /\ faults["late"] <= 3
      /\ UnderWay + 2 * faults["late"] <= 6
  BY <1>2 DEF Lagging, Bounded
<1>6. Sent = step /\ result # "true" /\ Alternate(wire')
  BY <1>2 DEF Sent, Lagging, Answers
<1>7. CASE ~Passed
  <2>1. pc' = "idle" /\ result' = "false" /\ step' = step /\ want' = want
    BY <1>2, <1>7 DEF Prompted, Return
  <2>2. Done' = 0 - Len(shell)
    BY <1>2, <2>1 DEF Done, Sent
  <2>3. InOrder'
    BY <1>1, <1>2, <2>2 DEF InOrder
  <2> QED
    BY <1>4, <1>5, <1>6, <2>1, <2>3 DEF Lagging, Effects, NotRunning, Answers
<1>8. CASE Passed /\ step = 5
  <2>1. pc' = "estimate" /\ step' = 5 /\ want' = want /\ result' = result
    BY <1>1, <1>2, <1>8 DEF Prompted
  <2>2. Done' = Done
    BY <1>2, <1>6, <1>8, <2>1 DEF Done, Sent
  <2>3. "running" \in buf
    <3>1. Running
      BY <1>8 DEF Passed
    <3> QED
      BY <3>1 DEF Running
  <2>4. shell = << >>
    BY <1>2, <1>8, <2>3 DEF Lagging, Answers
  <2>5. InOrder' /\ Effects' /\ NotRunning'
    BY <1>2, <2>1, <2>2 DEF Lagging, InOrder, Effects, NotRunning
  <2> QED
    BY <1>2, <1>4, <1>5, <1>6, <2>1, <2>4, <2>5 DEF Lagging, Answers
<1>9. CASE Passed /\ step # 5
  <2>1. pc' = "send" /\ step' = step + 1 /\ want' = want /\ result' = result
    BY <1>1, <1>2, <1>9 DEF Prompted
  <2>2. Done' = Done
    BY <1>1, <1>2, <1>6, <2>1 DEF Done, Sent
  <2>3. InOrder' /\ Effects' /\ NotRunning'
    BY <1>2, <2>1, <2>2 DEF Lagging, InOrder, Effects, NotRunning
  <2> QED
    BY <1>2, <1>4, <1>5, <1>6, <2>1, <2>3 DEF Lagging, Answers
<1> QED
  BY <1>7, <1>8, <1>9

LEMMA LaggingTimeout ==
  ASSUME ParamTypeOK, Lagging, PromptTimeout
  PROVE  Lagging'
<1>1. /\ Len(shell) \in Nat /\ Len(wire) \in Nat /\ UnderWay \in Nat
      /\ faults["late"] \in Nat /\ faults \in [Kind -> Nat]
  BY LaggingTyped
<1>2. /\ pc = "await" /\ "prompt" \notin buf /\ buf' = {}
      /\ pc' = "idle" /\ result' = "false" /\ step' = step /\ want' = want
      /\ UNCHANGED <<param, ekf, shell, wire>>
  BY DEF PromptTimeout, Return, px4
<1>3. UnderWay' = UnderWay /\ Done' = 0 - Len(shell)
  BY <1>2 DEF UnderWay, Done, Sent
<1>4. UnderWay + 2 * faults["late"] <= 8
  BY <1>2 DEF Lagging, Bounded
<1>5. Bounded'
  <2>1. CASE shell = << >> /\ wire = << >> /\ UNCHANGED faults
    <3>1. UnderWay = 0
      BY <2>1 DEF UnderWay
    <3> QED
      BY <1>1, <1>2, <1>3, <2>1, <3>1 DEF Lagging, Bounded
  <2>2. CASE Fault("late")
    <3>1. /\ faults'["late"] = faults["late"] - 1
          /\ faults'["lost"] = faults["lost"] /\ faults'["refused"] = faults["refused"]
      BY <1>1, <2>2, FaultTyped DEF Kind
    <3> QED
      BY <1>1, <1>2, <1>3, <1>4, <3>1 DEF Lagging, Bounded
  <2> QED
    BY <2>1, <2>2 DEF PromptTimeout
<1>6. InOrder'
  BY <1>1, <1>2, <1>3 DEF InOrder
<1> QED
  BY <1>2, <1>5, <1>6 DEF Lagging, Effects, NotRunning, Answers

LEMMA LaggingSetParam ==
  ASSUME ParamTypeOK, Lagging, NEW v \in Values, SetParam(v)
  PROVE  Lagging'
<1>1. Len(shell) \in Nat /\ Len(wire) \in Nat
  BY LaggingTyped
<1>2. /\ pc = "idle" /\ step' = 1 /\ want' = v
      /\ \/ pc' = "idle" /\ result' = "false"
         \/ pc' = "send" /\ result' = "none" /\ param' = v
      /\ UNCHANGED <<ekf, shell, wire, buf, faults>>
  BY DEF SetParam
<1>3. Done' = 0 - Len(shell) /\ UnderWay' = UnderWay
  BY <1>2 DEF Done, Sent, UnderWay
<1>4. Bounded'
  BY <1>2, <1>3 DEF Lagging, Bounded
<1>5. InOrder'
  BY <1>1, <1>2, <1>3 DEF InOrder
<1>6. Effects'
  BY <1>1, <1>2, <1>3 DEF Effects
<1>7. NotRunning'
  BY <1>1, <1>2, <1>3 DEF NotRunning
<1> QED
  BY <1>2, <1>4, <1>5, <1>6, <1>7 DEF Lagging, Answers

LEMMA LaggingEstimated ==
  ASSUME ParamTypeOK, Lagging, Estimated
  PROVE  Lagging'
<1>1. /\ pc = "estimate" /\ pc' = "idle" /\ step' = step /\ want' = want
      /\ UNCHANGED <<param, ekf, shell, wire, buf, faults>>
  BY DEF Estimated, Return, px4
<1>2. step = 5 /\ shell = << >> /\ Len(shell) = 0
  BY <1>1 DEF Lagging, Answers
<1>3. ekf = want
  BY <1>1, <1>2 DEF Lagging, Effects, Done, Sent
<1>4. Bounded'
  BY <1>1 DEF Lagging, Bounded, UnderWay
<1>5. InOrder'
  BY <1>1, <1>2 DEF InOrder
<1> QED
  BY <1>1, <1>2, <1>3, <1>4, <1>5 DEF Lagging, Effects, NotRunning, Answers

LEMMA LaggingStep ==
  ASSUME ParamTypeOK, Lagging, [Next]_vars
  PROVE  Lagging'
<1>1. ASSUME UNCHANGED <<param, ekf, shell, wire, buf, pc, step, want, result, faults>>
      PROVE  Lagging'
  BY <1>1 DEF Lagging, Alternate, Bounded, UnderWay, InOrder, Effects, NotRunning,
              Answers, Done, Sent
<1>2. CASE EstimatorUpdate
  BY <1>1, <1>2 DEF EstimatorUpdate, px4, caller
<1>3. CASE UNCHANGED vars
  BY <1>1, <1>3 DEF vars, px4, caller
<1> QED
  BY <1>2, <1>3, LaggingExecute, LaggingReceive, LaggingSend, LaggingPrompted,
     LaggingTimeout, LaggingSetParam, LaggingEstimated DEF Next

-----------------------------------------------------------------------------
\* The faults a run may meet: no late reply, or no more than three and no others.
\* A fourth late reply, or one with a refused stop, is one too many.
Tolerable ==
  \A b \in Budgets : \/ b["late"] = 0
                     \/ b["late"] <= 3 /\ b["lost"] = 0 /\ b["refused"] = 0

ParamInv == ParamTypeOK /\ (Punctual \/ Lagging)

LEMMA ParamInitInv == Tolerable /\ ParamInit => ParamInv
<1> SUFFICES ASSUME Tolerable, ParamInit PROVE ParamInv
  OBVIOUS
<1>1. CASE faults["late"] = 0
  BY <1>1, ParamInitTyped DEF ParamInit, ParamInv, Punctual
<1>2. CASE faults["late"] <= 3 /\ faults["lost"] = 0 /\ faults["refused"] = 0
  <2>1. Done = 0 /\ UnderWay = 0 /\ Len(wire) = 0 /\ Len(shell) = 0
    <3>1. Len(wire) = 0 /\ Len(shell) = 0 /\ pc = "idle"
      BY DEF ParamInit
    <3> QED
      BY <3>1 DEF Done, Sent, UnderWay
  <2>2. faults["late"] \in Nat
    BY LaggingTyped, ParamInitTyped
  <2>3. Bounded /\ Alternate(wire) /\ InOrder
    BY <1>2, <2>1, <2>2 DEF Bounded, ParamInit, Alternate, InOrder
  <2> QED
    BY <2>1, <2>3, ParamInitTyped
    DEF ParamInit, ParamInv, Lagging, Effects, NotRunning, Answers
<1> QED
  BY <1>1, <1>2 DEF Tolerable, ParamInit

THEOREM ParamInvariant == ASSUME Tolerable PROVE Spec => []ParamInv
<1>1. ParamInit => ParamInv
  BY ParamInitInv
<1>2. ParamInv /\ [Next]_vars => ParamInv'
  BY ParamStepTyped, PunctualStep, LaggingStep DEF ParamInv
<1> QED
  BY <1>1, <1>2, PTL DEF Spec

\* A call that returns true has restarted the estimator with the value it was
\* called with: however many commands are lost and stops refused, if every reply
\* is read in time; and with up to three late replies, if nothing else fails.
THEOREM SuccessRestarts == ASSUME Tolerable PROVE Spec => []SuccessMeansRestarted
<1>1. ParamInv => SuccessMeansRestarted
  BY DEF ParamInv, Punctual, Lagging, Answers, SuccessMeansRestarted
<1> QED
  BY <1>1, ParamInvariant, PTL

================================================================================
