------------------------ MODULE CarrierHealthProofs ------------------------
(***************************************************************************)
(* Proofs about CarrierHealth, for any number of pull accounts, any bounds *)
(* of silence, backoff and recycle time, and calls that take as long as    *)
(* they like or never return.                                              *)
(***************************************************************************)
EXTENDS CarrierHealth, FiniteSetTheorems, TLAPS

(* The steps of a pull loop.                                               *)
PullStep(l) ==
  \/ NoteReached(l) \/ NoteStreakOver(l) \/ NoteMissed(l) \/ NoteStreak(l)
  \/ Continue(l) \/ SleepOver(l) \/ IdleOk(l) \/ IdleErr(l) \/ Dialled(l) \/ OpenFails(l)
  \/ (\E reached \in BOOLEAN : Fetch(l, reached))
  \/ (\E opened \in BOOLEAN : FallBack(l, opened))

Steps ==
  \/ \E l \in Pull : PullStep(l)
  \/ \E l \in Loops : register_heartbeat(l) \/ WorkBeat(l)
  \/ DispatchNeverStarts \/ DispatchEnds
  \/ \E noisy \in SUBSET Pull : Tick(noisy)
  \/ stall_watchdog_tick \/ Restart

(* Next is these steps.                                                    *)
LEMMA NextSteps == Next => Steps
<1> QED BY DEF Next, Steps, PullStep, Prompt, Slow, note_carrier_attempt

(* Every pull loop is a loop; the dispatch loop is one and is not a pull   *)
(* loop.                                                                   *)
LEMMA LoopFacts == Pull \subseteq Loops /\ Dispatch \in Loops /\ Dispatch \notin Pull
<1> QED BY LoopsAssumption DEF Loops

(* The arithmetic of delays and counts.                                    *)
LEMMA BackoffType == \A n \in Nat : carrier_backoff(n) \in Nat
<1> SUFFICES ASSUME NEW n \in Nat PROVE carrier_backoff(n) \in Nat
  OBVIOUS
<1>1. Smaller(n, 16) + 1 \in 1..17
  BY DEF Smaller
<1>2. \A i \in 1..17 : Shifted[i] \in Nat
  BY DEF Shifted
<1>3. PollInterval * Shifted[Smaller(n, 16) + 1] \in Nat
  BY <1>1, <1>2, TimesAssumption
<1> QED BY <1>3, TimesAssumption DEF carrier_backoff, Smaller

(* The shift doubles up to its own limit of 16, and is 1 at no failure.    *)
LEMMA ShiftDoubles ==
  /\ Shifted[1] = 1
  /\ \A i \in 1..17 : Shifted[i] \in Nat
  /\ \A i \in 1..16 : Shifted[i + 1] = 2 * Shifted[i]
<1> QED BY DEF Shifted

(* The schedule of carrier_backoff, for every interval and cap: a carrier  *)
(* without failures waits the configured interval; each of the first 16    *)
(* failures doubles the wait until the cap is reached; the wait is never   *)
(* shorter than the interval nor longer than the cap, and after the 16th   *)
(* failure, where the code limits its shift, it does not change any more.  *)
THEOREM BackoffDoublesToItsCap ==
  /\ carrier_backoff(0) = PollInterval
  /\ \A n \in Nat :
       /\ PollInterval <= carrier_backoff(n) /\ carrier_backoff(n) <= BackoffMax
       /\ n < 16 => carrier_backoff(n + 1) = Smaller(2 * carrier_backoff(n), BackoffMax)
       /\ n >= 16 => carrier_backoff(n + 1) = carrier_backoff(n)
<1>1. carrier_backoff(0) = PollInterval
  BY ShiftDoubles, TimesAssumption DEF carrier_backoff, Smaller
<1>2. ASSUME NEW n \in Nat, n < 16
      PROVE  carrier_backoff(n + 1) = Smaller(2 * carrier_backoff(n), BackoffMax)
  <2> DEFINE base == PollInterval * Shifted[n + 1]
  <2>1. Smaller(n, 16) + 1 = n + 1 /\ Smaller(n + 1, 16) + 1 = n + 1 + 1 /\ n + 1 \in 1..16
    BY <1>2 DEF Smaller
  <2>2. Shifted[n + 1] \in Nat /\ Shifted[n + 1 + 1] = 2 * Shifted[n + 1]
    BY <2>1, ShiftDoubles
  <2>3. base \in Nat /\ PollInterval * Shifted[n + 1 + 1] = 2 * base
    BY <2>2, TimesAssumption
  <2>4. carrier_backoff(n) = Smaller(base, BackoffMax)
    BY <2>1 DEF carrier_backoff
  <2>5. carrier_backoff(n + 1) = Smaller(2 * base, BackoffMax)
    BY <2>1, <2>3 DEF carrier_backoff
  <2> HIDE DEF base
  <2> QED BY <2>3, <2>4, <2>5, TimesAssumption DEF Smaller
<1>3. ASSUME NEW n \in Nat, n >= 16
      PROVE  carrier_backoff(n + 1) = carrier_backoff(n)
  <2>1. Smaller(n, 16) = Smaller(n + 1, 16)
    BY <1>3 DEF Smaller
  <2> QED BY <2>1 DEF carrier_backoff
<1>4. \A i \in 1..17 : Shifted[i] \in Nat /\ 1 <= Shifted[i]
  BY DEF Shifted
<1>5. ASSUME NEW n \in Nat
      PROVE  PollInterval <= carrier_backoff(n) /\ carrier_backoff(n) <= BackoffMax
  <2>1. PICK k \in Nat : k = Shifted[Smaller(n, 16) + 1] /\ 1 <= k
    <3>1. Smaller(n, 16) + 1 \in 1..17
      BY DEF Smaller
    <3> QED BY <1>4, <3>1
  <2>2. PollInterval * k \in Nat /\ PollInterval <= PollInterval * k
    BY <2>1, TimesAssumption
  <2> QED BY <2>1, <2>2, TimesAssumption DEF carrier_backoff, Smaller
<1> QED BY <1>1, <1>2, <1>3, <1>5

---------------------------------------------------------------------------
(* Types.                                                                  *)

(* A process begins with well-formed state.                                *)
LEMMA TypeInit == Init => TypeOK
<1> QED BY LoopsAssumption, TimesAssumption DEF Init, TypeOK, Phases, Blocking, Noting, Waiting

(* A pull loop goes from phase to phase.                                   *)
LEMMA PullGoto ==
  ASSUME NEW l \in Pull, PullStep(l)
  PROVE  \E p \in Phases : Goto(l, p)
<1> USE DEF Phases, Blocking, Noting, Waiting
<1>1. CASE NoteReached(l) \/ NoteStreakOver(l) \/ NoteMissed(l) \/ NoteStreak(l)
  BY <1>1 DEF NoteReached, NoteStreakOver, NoteMissed, NoteStreak
<1>2. CASE Continue(l) \/ SleepOver(l) \/ IdleOk(l) \/ IdleErr(l) \/ Dialled(l) \/ OpenFails(l)
  BY <1>2 DEF Continue, SleepOver, IdleOk, IdleErr, Dialled, OpenFails
<1>3. ASSUME NEW reached \in BOOLEAN, Fetch(l, reached)
      PROVE  \E p \in Phases : Goto(l, p)
  BY <1>3 DEF Fetch
<1>4. ASSUME NEW opened \in BOOLEAN, FallBack(l, opened)
      PROVE  \E p \in Phases : Goto(l, p)
  BY <1>4 DEF FallBack
<1> QED BY <1>1, <1>2, <1>3, <1>4 DEF PullStep

(* What every step but a slice of time, a look of the watchdog and a       *)
(* restart does to the heartbeats: beat, register with a beat, or nothing. *)
BeatStep ==
  /\ UNCHANGED <<up, policy, reported, watched>>
  /\ registered \subseteq registered'
  /\ \/ UNCHANGED <<age, alarms, registered>>
     \/ \E l \in Loops : beat(l) /\ registered' \in {registered, registered \cup {l}}

(* The steps of a pull loop are of this kind.                              *)
LEMMA PullBeats ==
  ASSUME NEW l \in Pull, PullStep(l)
  PROVE  BeatStep
<1> USE LoopFacts DEF BeatStep, beatVars, watch
<1>1. CASE NoteReached(l) \/ NoteStreakOver(l) \/ NoteMissed(l) \/ NoteStreak(l)
  BY <1>1 DEF NoteReached, NoteStreakOver, NoteMissed, NoteStreak
<1>2. CASE Continue(l)
  BY <1>2 DEF Continue
<1>3. CASE SleepOver(l) \/ IdleOk(l) \/ IdleErr(l) \/ Dialled(l)
  BY <1>3 DEF SleepOver, IdleOk, IdleErr, Dialled
<1>4. CASE OpenFails(l)
  BY <1>4 DEF OpenFails
<1>5. ASSUME NEW reached \in BOOLEAN, Fetch(l, reached)
      PROVE  BeatStep
  BY <1>5 DEF Fetch
<1>6. ASSUME NEW opened \in BOOLEAN, FallBack(l, opened)
      PROVE  BeatStep
  BY <1>6 DEF FallBack
<1> QED BY <1>1, <1>2, <1>3, <1>4, <1>5, <1>6 DEF PullStep

(* The other loops' steps, too.                                            *)
LEMMA OtherBeats ==
  ASSUME (\E l \in Loops : register_heartbeat(l) \/ WorkBeat(l))
         \/ DispatchNeverStarts \/ DispatchEnds
  PROVE  BeatStep
<1> USE LoopFacts DEF BeatStep, beatVars, watch
<1>1. ASSUME NEW l \in Loops, register_heartbeat(l)
      PROVE  BeatStep
  BY <1>1 DEF register_heartbeat
<1>2. ASSUME NEW l \in Loops, WorkBeat(l)
      PROVE  BeatStep
  BY <1>2 DEF WorkBeat
<1>3. CASE DispatchNeverStarts \/ DispatchEnds
  BY <1>3 DEF DispatchNeverStarts, DispatchEnds
<1> QED BY <1>1, <1>2, <1>3

(* They keep the types of the heartbeats.                                  *)
LEMMA BeatType ==
  ASSUME TypeOK, BeatStep
  PROVE  /\ age' \in [Loops -> Nat] /\ alarms' \in [Loops -> Nat]
         /\ registered' \subseteq Loops /\ up' \in BOOLEAN
         /\ policy' \in {"notify_only", "notify_and_restart"}
         /\ reported' \subseteq Loops /\ watched' \in BOOLEAN
<1> QED BY DEF TypeOK, BeatStep, beat

(* What the gauges count.                                                  *)
InBackoff == {l \in Pull : failures[l] > 0}

(* What an access to the gauges does to a loop's count and to the gauge of *)
(* loops in backoff: nothing, one loop leaves, one loop enters or stays,   *)
(* or one falls back and leaves the gauge as it was.                       *)
GaugeStep(l) ==
  \/ UNCHANGED <<failures, in_backoff, leaked>>
  \/ /\ failures' = [failures EXCEPT ![l] = 0] /\ UNCHANGED leaked
     /\ in_backoff' = IF failures[l] > 0 THEN in_backoff - 1 ELSE in_backoff
  \/ /\ failures' = [failures EXCEPT ![l] = Smaller(failures[l] + 1, MaxFailures)]
     /\ in_backoff' = IF failures[l] = 0 THEN in_backoff + 1 ELSE in_backoff
     /\ UNCHANGED leaked
  \/ /\ failures' = [failures EXCEPT ![l] = 0] /\ UNCHANGED in_backoff
     /\ leaked' = IF failures[l] > 0 THEN leaked + 1 ELSE leaked

(* Every step of a pull loop is one of these.                              *)
LEMMA PullGauges ==
  ASSUME NEW l \in Pull, PullStep(l)
  PROVE  GaugeStep(l)
<1> USE DEF GaugeStep, gauges
<1>1. CASE NoteReached(l)
  BY <1>1 DEF NoteReached
<1>2. CASE NoteMissed(l)
  BY <1>2 DEF NoteMissed
<1>3. CASE NoteStreakOver(l) \/ NoteStreak(l)
  BY <1>3 DEF NoteStreakOver, NoteStreak
<1>4. CASE Continue(l) \/ SleepOver(l) \/ IdleOk(l) \/ IdleErr(l) \/ Dialled(l) \/ OpenFails(l)
  BY <1>4 DEF Continue, SleepOver, IdleOk, IdleErr, Dialled, OpenFails
<1>5. ASSUME NEW reached \in BOOLEAN, Fetch(l, reached)
      PROVE  GaugeStep(l)
  BY <1>5 DEF Fetch
<1>6. ASSUME NEW opened \in BOOLEAN, FallBack(l, opened)
      PROVE  GaugeStep(l)
  BY <1>6 DEF FallBack
<1> QED BY <1>1, <1>2, <1>3, <1>4, <1>5, <1>6 DEF PullStep

(* The loops in backoff are finitely many, and their number is a number.   *)
LEMMA BackoffFinite ==
  /\ IsFiniteSet(InBackoff) /\ Cardinality(InBackoff) \in Nat
  /\ \A l \in InBackoff : Cardinality(InBackoff) > 0
<1>1. IsFiniteSet(InBackoff)
  BY LoopsAssumption, FS_Subset DEF InBackoff
<1>2. Cardinality(InBackoff) \in Nat
  BY <1>1, FS_CardinalityType
<1>3. ASSUME NEW l \in InBackoff
      PROVE  Cardinality(InBackoff) > 0
  BY <1>1, <1>2, FS_EmptySet
<1> QED BY <1>1, <1>2, <1>3

(* An access to the gauges keeps the account and the types.                *)
LEMMA GaugeKept ==
  ASSUME TypeOK, GaugeAccounted, NEW l \in Pull, GaugeStep(l)
  PROVE  /\ GaugeAccounted'
         /\ failures' \in [Pull -> 0..MaxFailures]
         /\ in_backoff' \in Nat /\ leaked' \in Nat
<1>0. /\ failures \in [Pull -> 0..MaxFailures] /\ MaxFailures \in Nat \ {0}
      /\ in_backoff \in Nat /\ leaked \in Nat
      /\ in_backoff = Cardinality(InBackoff) + leaked
  BY TimesAssumption DEF TypeOK, GaugeAccounted, InBackoff
<1>1. failures' \in [Pull -> 0..MaxFailures]
  BY <1>0 DEF GaugeStep, Smaller
<1>2. /\ InBackoff' = {m \in Pull : failures'[m] > 0}
      /\ \A m \in Pull : m # l => failures'[m] = failures[m]
      /\ failures[l] \in Nat /\ failures'[l] \in Nat
  BY <1>0, <1>1 DEF GaugeStep, InBackoff
<1>3. CASE failures'[l] > 0 <=> failures[l] > 0
  <2>1. InBackoff' = InBackoff
    BY <1>2, <1>3 DEF InBackoff
  <2>2. in_backoff' = in_backoff /\ leaked' = leaked
    BY <1>0, <1>2, <1>3 DEF GaugeStep, Smaller
  <2> QED BY <1>0, <1>1, <2>1, <2>2 DEF GaugeAccounted, InBackoff
<1>4. CASE failures[l] > 0 /\ ~(failures'[l] > 0)
  <2>1. InBackoff' = InBackoff \ {l} /\ l \in InBackoff
    BY <1>2, <1>4 DEF InBackoff
  <2>2. Cardinality(InBackoff') = Cardinality(InBackoff) - 1
    BY <2>1, BackoffFinite, FS_RemoveElement
  <2>3. Cardinality(InBackoff) \in Nat /\ Cardinality(InBackoff) > 0
    BY <2>1, BackoffFinite
  <2>4. \/ in_backoff' = in_backoff - 1 /\ leaked' = leaked
        \/ in_backoff' = in_backoff /\ leaked' = leaked + 1
    BY <1>0, <1>4 DEF GaugeStep, Smaller
  <2>5. in_backoff' = Cardinality(InBackoff') + leaked' /\ in_backoff' \in Nat /\ leaked' \in Nat
    BY <1>0, <2>2, <2>3, <2>4
  <2> QED BY <1>1, <2>5 DEF GaugeAccounted, InBackoff
<1>5. CASE ~(failures[l] > 0) /\ failures'[l] > 0
  <2>1. InBackoff' = InBackoff \cup {l} /\ l \notin InBackoff
    BY <1>2, <1>5 DEF InBackoff
  <2>2. Cardinality(InBackoff') = Cardinality(InBackoff) + 1
    BY <2>1, BackoffFinite, FS_AddElement
  <2>3. in_backoff' = in_backoff + 1 /\ leaked' = leaked
    BY <1>0, <1>2, <1>5 DEF GaugeStep, Smaller
  <2>4. Cardinality(InBackoff) \in Nat
    BY BackoffFinite
  <2>5. in_backoff' = Cardinality(InBackoff') + leaked' /\ in_backoff' \in Nat /\ leaked' \in Nat
    BY <1>0, <2>2, <2>3, <2>4
  <2> QED BY <1>1, <2>5 DEF GaugeAccounted, InBackoff
<1> QED BY <1>3, <1>4, <1>5

(* The rest of a pull loop's state has its type after a step of it.        *)
LEMMA PullLocals ==
  ASSUME TypeOK, NEW l \in Pull, PullStep(l)
  PROVE  /\ idles' \subseteq Pull /\ fetched' \subseteq Pull /\ missed' \subseteq Pull
         /\ left' \in [Loops -> Nat] /\ streak' \in 0..MaxFailures
<1>0. /\ idles \subseteq Pull /\ fetched \subseteq Pull /\ missed \subseteq Pull
      /\ left \in [Loops -> Nat] /\ streak \in 0..MaxFailures
      /\ failures[l] \in 0..MaxFailures /\ MaxFailures \in Nat /\ Recycle \in Nat
      /\ l \in Loops
  BY LoopFacts, TimesAssumption DEF TypeOK
<1> USE <1>0 DEF gauges
<1>1. CASE NoteReached(l) \/ NoteMissed(l) \/ NoteStreakOver(l)
  BY <1>1 DEF NoteReached, NoteMissed, NoteStreakOver
<1>2. CASE NoteStreak(l)
  BY <1>2 DEF NoteStreak, Larger
<1>3. CASE Continue(l)
  <2>1. carrier_backoff(failures[l]) \in Nat
    BY BackoffType
  <2> QED BY <1>3, <2>1 DEF Continue
<1>4. CASE SleepOver(l) \/ OpenFails(l) \/ Dialled(l)
  BY <1>4 DEF SleepOver, OpenFails, Dialled
<1>5. CASE IdleOk(l) \/ IdleErr(l)
  BY <1>5 DEF IdleOk, IdleErr, SessionOver
<1>6. ASSUME NEW reached \in BOOLEAN, Fetch(l, reached)
      PROVE  /\ idles' \subseteq Pull /\ fetched' \subseteq Pull /\ missed' \subseteq Pull
             /\ left' \in [Loops -> Nat] /\ streak' \in 0..MaxFailures
  BY <1>6 DEF Fetch
<1>7. ASSUME NEW opened \in BOOLEAN, FallBack(l, opened)
      PROVE  /\ idles' \subseteq Pull /\ fetched' \subseteq Pull /\ missed' \subseteq Pull
             /\ left' \in [Loops -> Nat] /\ streak' \in 0..MaxFailures
  BY <1>7 DEF FallBack
<1> QED BY <1>1, <1>2, <1>3, <1>4, <1>5, <1>6, <1>7 DEF PullStep

(* The other loops leave it alone.                                         *)
LEMMA OtherLocals ==
  ASSUME (\E l \in Loops : register_heartbeat(l) \/ WorkBeat(l))
         \/ DispatchNeverStarts \/ DispatchEnds
  PROVE  /\ UNCHANGED <<idles, fetched, missed, left, failures, in_backoff, streak, leaked>>
         /\ \/ UNCHANGED phase
            \/ \E l \in Loops, p \in Phases :
                 Goto(l, p) /\ (phase[l] = "unborn" \/ l = Dispatch)
                            /\ p \in {"fetch", "round", "exited"}
<1> USE LoopFacts DEF gauges, loopVars, Phases, Blocking
<1>1. ASSUME NEW l \in Loops, register_heartbeat(l)
      PROVE  /\ UNCHANGED <<idles, fetched, missed, left, failures, in_backoff, streak, leaked>>
             /\ \E p \in {"fetch", "round"} : Goto(l, p) /\ phase[l] = "unborn"
  BY <1>1 DEF register_heartbeat
<1>2. ASSUME NEW l \in Loops, WorkBeat(l)
      PROVE  UNCHANGED <<idles, fetched, missed, left, failures, in_backoff, streak, leaked, phase>>
  BY <1>2 DEF WorkBeat
<1>3. CASE DispatchNeverStarts \/ DispatchEnds
  BY <1>3 DEF DispatchNeverStarts, DispatchEnds
<1> QED BY <1>1, <1>2, <1>3

(* The process begins or begins again.                                     *)
LEMMA TypeRestart == TypeOK /\ Restart => TypeOK'
<1> QED BY LoopsAssumption, TimesAssumption
        DEF Restart, TypeOK, Phases, Blocking, Noting, Waiting

(* Time keeps the types.                                                   *)
LEMMA TypeTick ==
  ASSUME TypeOK, NEW noisy \in SUBSET Pull, Tick(noisy)
  PROVE  TypeOK'
<1>1. \A l \in Loops : Older(l) \in Nat
  BY LoopsAssumption DEF TypeOK, Older, Smaller
<1>2. age' \in [Loops -> Nat]
  BY <1>1 DEF Tick, SliceAges
<1>3. alarms' \in [Loops -> Nat]
  BY <1>2 DEF Tick, TypeOK
<1>4. \A l \in Loops : (IF phase[l] \in Waiting THEN left[l] - 1 ELSE left[l]) \in Nat
  BY DEF Tick, TypeOK
<1>5. left' \in [Loops -> Nat]
  BY <1>4 DEF Tick
<1> QED BY <1>2, <1>3, <1>5 DEF Tick, TypeOK, gauges

(* A look of the watchdog does, too.                                       *)
LEMMA TypeWatchdog == TypeOK /\ stall_watchdog_tick => TypeOK'
<1> SUFFICES ASSUME TypeOK, stall_watchdog_tick PROVE TypeOK'
  OBVIOUS
<1>1. Stalled \subseteq Loops
  BY DEF Stalled, TypeOK
<1>2. alarms' \in [Loops -> Nat]
  BY DEF stall_watchdog_tick, TypeOK
<1> QED BY <1>1, <1>2 DEF stall_watchdog_tick, TypeOK, loopVars, gauges

GInv == TypeOK /\ GaugeAccounted

(* Every step keeps the types and the account of the gauge.                *)
LEMMA GaugeStepKept == GInv /\ [Next]_vars => GInv'
<1> SUFFICES ASSUME TypeOK, GaugeAccounted, [Next]_vars
             PROVE  TypeOK' /\ GaugeAccounted'
  BY DEF GInv
<1>1. ASSUME NEW l \in Pull, PullStep(l)
      PROVE  TypeOK' /\ GaugeAccounted'
  <2>1. phase' \in [Loops -> Phases]
    BY <1>1, PullGoto, LoopFacts DEF Goto, TypeOK
  <2> QED BY <1>1, <2>1, PullLocals, PullBeats, BeatType, PullGauges, GaugeKept DEF TypeOK
<1>2. CASE (\E l \in Loops : register_heartbeat(l) \/ WorkBeat(l))
           \/ DispatchNeverStarts \/ DispatchEnds
  <2>1. phase' \in [Loops -> Phases]
    BY <1>2, OtherLocals DEF Goto, TypeOK
  <2>2. UNCHANGED <<idles, fetched, missed, left, failures, in_backoff, streak, leaked>>
    BY <1>2, OtherLocals
  <2>3. BeatStep
    BY <1>2, OtherBeats
  <2> QED BY <2>1, <2>2, <2>3, BeatType DEF TypeOK, GaugeAccounted
<1>3. ASSUME NEW noisy \in SUBSET Pull, Tick(noisy)
      PROVE  TypeOK' /\ GaugeAccounted'
  BY <1>3, TypeTick DEF GaugeAccounted, Tick, gauges
<1>4. CASE stall_watchdog_tick
  BY <1>4, TypeWatchdog DEF GaugeAccounted, stall_watchdog_tick, gauges
<1>5. CASE Restart
  <2>1. {l \in Pull : failures'[l] > 0} = {} /\ in_backoff' = 0 /\ leaked' = 0
    BY <1>5 DEF Restart
  <2> QED BY <1>5, <2>1, TypeRestart, FS_EmptySet DEF GaugeAccounted
<1>6. CASE UNCHANGED vars
  BY <1>6 DEF TypeOK, GaugeAccounted, vars
<1> QED BY <1>1, <1>2, <1>3, <1>4, <1>5, <1>6, NextSteps DEF Steps

(* At first nothing is in backoff.                                         *)
LEMMA GaugeInit == Init => GInv
<1> SUFFICES ASSUME Init PROVE TypeOK /\ GaugeAccounted
  BY DEF GInv
<1>1. {l \in Pull : failures[l] > 0} = {} /\ in_backoff = 0 /\ leaked = 0
  BY DEF Init
<1> QED BY <1>1, TypeInit, FS_EmptySet DEF GaugeAccounted

(* The inductive invariant of the gauges.                                  *)
LEMMA GaugeInvariant == Spec => []GInv
<1> QED BY GaugeInit, GaugeStepKept, PTL DEF Spec

(* The types hold after every step; among them, carriers_in_backoff never  *)
(* wraps below zero (the fetch_sub of note_carrier_attempt).               *)
THEOREM HealthTypeCorrect == Spec => []TypeOK
<1>1. GInv => TypeOK
  BY DEF GInv
<1> QED BY <1>1, GaugeInvariant, PTL

(* The gauge of note_carrier_attempt counts the loops in backoff, and the  *)
(* ones that fell back to polling without leaving it, for any number of    *)
(* accounts and in any interleaving of its atomics.                        *)
THEOREM GaugeIsAccounted == Spec => []GaugeAccounted
<1>1. GInv => GaugeAccounted
  BY DEF GInv
<1> QED BY <1>1, GaugeInvariant, PTL

---------------------------------------------------------------------------
(* The streak.                                                             *)

(* A loop that is about to raise the streak is in backoff.                 *)
MaxInv == \A l \in Pull : phase[l] = "max" => failures[l] > 0

SInv == GInv /\ MaxInv /\ StreakClears

(* A gauge at zero: no loop is in backoff.                                 *)
LEMMA ZeroGauge ==
  ASSUME GInv, NEW l \in Pull, failures[l] > 0
  PROVE  in_backoff > 0
<1>1. l \in InBackoff
  BY DEF InBackoff
<1>2. Cardinality(InBackoff) > 0 /\ Cardinality(InBackoff) \in Nat
  BY <1>1, BackoffFinite
<1>3. in_backoff = Cardinality(InBackoff) + leaked /\ leaked \in Nat
  BY DEF GInv, GaugeAccounted, TypeOK, InBackoff
<1> QED BY <1>2, <1>3

(* A step that does not touch the gauges and leaves no reset undone.       *)
LEMMA StreakQuiet ==
  ASSUME MaxInv, StreakClears,
         UNCHANGED <<failures, in_backoff, streak>>,
         \A m \in Pull : /\ phase'[m] = "max" => phase[m] = "max"
                         /\ phase[m] = "store" => phase'[m] = "store"
  PROVE  MaxInv' /\ StreakClears'
<1> QED BY DEF MaxInv, StreakClears

(* The step of a pull loop.                                                *)
LEMMA StreakPull ==
  ASSUME SInv, GInv', NEW l \in Pull, PullStep(l)
  PROVE  MaxInv' /\ StreakClears'
<1>0. /\ MaxInv /\ StreakClears /\ GInv
      /\ failures \in [Pull -> 0..MaxFailures] /\ phase \in [Loops -> Phases]
      /\ in_backoff \in Nat /\ MaxFailures \in Nat \ {0} /\ l \in Loops
      /\ Pull \subseteq Loops
  BY LoopFacts, TimesAssumption DEF SInv, GInv, TypeOK
<1>1. CASE NoteReached(l)
  <2>1. /\ phase[l] = "sub" /\ UNCHANGED streak
        /\ failures' = [failures EXCEPT ![l] = 0]
        /\ in_backoff' = IF failures[l] > 0 THEN in_backoff - 1 ELSE in_backoff
        /\ phase' = [phase EXCEPT ![l] = IF failures[l] > 0 /\ in_backoff = 1
                                         THEN "store" ELSE "noted"]
    BY <1>1 DEF NoteReached, Goto
  <2>2. \A m \in Pull : m # l => phase'[m] = phase[m] /\ failures'[m] = failures[m]
    BY <1>0, <2>1
  <2>3. phase'[l] = IF failures[l] > 0 /\ in_backoff = 1 THEN "store" ELSE "noted"
    BY <1>0, <2>1
  <2>4. MaxInv'
    BY <1>0, <2>2, <2>3 DEF MaxInv
  <2>5. StreakClears'
    <3> SUFFICES ASSUME in_backoff' = 0, \A m \in Pull : phase'[m] # "store"
                 PROVE  streak' = 0
      BY DEF StreakClears
    <3>1. ~(failures[l] > 0)
      BY <1>0, <2>1, <2>3
    <3>2. in_backoff = 0
      BY <2>1, <3>1
    <3>3. \A m \in Pull : phase[m] # "store"
      BY <2>1, <2>2
    <3> QED BY <1>0, <2>1, <3>2, <3>3 DEF StreakClears
  <2> QED BY <2>4, <2>5
<1>2. CASE NoteStreakOver(l)
  <2>1. streak' = 0 /\ UNCHANGED failures /\ phase' = [phase EXCEPT ![l] = "noted"]
    BY <1>2 DEF NoteStreakOver, Goto
  <2> QED BY <1>0, <2>1 DEF MaxInv, StreakClears
<1>3. CASE NoteMissed(l)
  <2>1. /\ failures' = [failures EXCEPT ![l] = Smaller(failures[l] + 1, MaxFailures)]
        /\ phase' = [phase EXCEPT ![l] = "max"]
    BY <1>3 DEF NoteMissed, Goto
  <2>2. failures'[l] > 0
    BY <1>0, <2>1 DEF Smaller
  <2>3. in_backoff' > 0
    BY <1>0, <1>3, <2>2, ZeroGauge DEF NoteMissed
  <2>4. MaxInv'
    BY <1>0, <2>1, <2>2 DEF MaxInv
  <2> QED BY <2>3, <2>4 DEF StreakClears
<1>4. CASE NoteStreak(l)
  <2>1. /\ phase[l] = "max" /\ UNCHANGED <<failures, in_backoff>>
        /\ phase' = [phase EXCEPT ![l] = "noted"]
    BY <1>4 DEF NoteStreak, Goto
  <2>2. in_backoff > 0
    BY <1>0, <2>1, ZeroGauge DEF MaxInv
  <2>3. MaxInv'
    BY <1>0, <2>1 DEF MaxInv
  <2> QED BY <2>1, <2>2, <2>3 DEF StreakClears
<1>5. CASE \/ Continue(l) \/ SleepOver(l) \/ IdleOk(l) \/ IdleErr(l) \/ Dialled(l) \/ OpenFails(l)
           \/ (\E reached \in BOOLEAN : Fetch(l, reached))
  <2>1. /\ UNCHANGED <<failures, in_backoff, streak>>
        /\ phase[l] # "store"
        /\ \E p \in Phases : p # "max" /\ phase' = [phase EXCEPT ![l] = p]
    BY <1>5 DEF Continue, SleepOver, IdleOk, IdleErr, Dialled, OpenFails, Fetch, Goto, gauges,
                Phases, Blocking, Noting, Waiting
  <2> QED BY <1>0, <2>1, StreakQuiet
<1>6. ASSUME NEW opened \in BOOLEAN, FallBack(l, opened)
      PROVE  MaxInv' /\ StreakClears'
  <2>1. /\ UNCHANGED <<in_backoff, streak>> /\ phase[l] = "dial"
        /\ failures' = [failures EXCEPT ![l] = 0]
        /\ \E p \in Phases : p # "max" /\ phase' = [phase EXCEPT ![l] = p]
    BY <1>6 DEF FallBack, Goto, Phases, Blocking
  <2>2. MaxInv'
    BY <1>0, <2>1 DEF MaxInv
  <2>3. StreakClears'
    BY <1>0, <2>1 DEF StreakClears
  <2> QED BY <2>2, <2>3
<1> QED BY <1>1, <1>2, <1>3, <1>4, <1>5, <1>6 DEF PullStep

(* Every step keeps it.                                                    *)
LEMMA StreakStep == SInv /\ [Next]_vars => SInv'
<1> SUFFICES ASSUME SInv, [Next]_vars PROVE MaxInv' /\ StreakClears'
  BY GaugeStepKept DEF SInv
<1>0. GInv' /\ MaxInv /\ StreakClears /\ phase \in [Loops -> Phases] /\ Pull \subseteq Loops
  BY GaugeStepKept, LoopFacts DEF SInv, GInv, TypeOK
<1>1. ASSUME NEW l \in Pull, PullStep(l)
      PROVE  MaxInv' /\ StreakClears'
  BY <1>0, <1>1, StreakPull
<1>2. CASE (\E l \in Loops : register_heartbeat(l) \/ WorkBeat(l))
           \/ DispatchNeverStarts \/ DispatchEnds
  <2>1. UNCHANGED <<failures, in_backoff, streak>>
    BY <1>2, OtherLocals
  <2>2. \A m \in Pull : /\ phase'[m] = "max" => phase[m] = "max"
                        /\ phase[m] = "store" => phase'[m] = "store"
    BY <1>0, <1>2, OtherLocals, LoopFacts DEF Goto
  <2> QED BY <1>0, <2>1, <2>2, StreakQuiet
<1>3. CASE (\E noisy \in SUBSET Pull : Tick(noisy)) \/ stall_watchdog_tick \/ UNCHANGED vars
  <2>1. UNCHANGED <<failures, in_backoff, streak, phase>>
    BY <1>3 DEF Tick, stall_watchdog_tick, vars, gauges, loopVars
  <2> QED BY <1>0, <2>1, StreakQuiet
<1>4. CASE Restart
  BY <1>0, <1>4 DEF Restart, MaxInv, StreakClears
<1> QED BY <1>1, <1>2, <1>3, <1>4, NextSteps DEF Steps

(* "0 when nothing is in backoff" (carrier_consecutive_failures), although *)
(* the decrement and the reset of note_carrier_attempt are two atomics.    *)
THEOREM StreakIsCleared == Spec => []StreakClears
<1>1. Init => SInv
  <2>1. Init => MaxInv /\ StreakClears
    BY LoopFacts DEF Init, MaxInv, StreakClears
  <2> QED BY <2>1, GaugeInit DEF SInv
<1>2. SInv => StreakClears
  BY DEF SInv
<1> QED BY <1>1, <1>2, StreakStep, PTL DEF Spec

---------------------------------------------------------------------------
(* Alarms.                                                                 *)

(* A loop that sleeps has just beaten; one that idles has either not been  *)
(* idling for a slice yet, or has beaten within a noisy run.               *)
WaitInv ==
  /\ \A l \in Loops : phase[l] = "sleep" => age[l] = 0
  /\ \A l \in Loops : phase[l] = "idle" => left[l] = Recycle \/ age[l] <= NoisyRun
  /\ phase[Dispatch] \notin Waiting

WInv == GInv /\ WaitInv

(* A pull loop waits only after a beat, or begins to idle with the whole   *)
(* recycle time before it.                                                 *)
LEMMA WaitPull ==
  ASSUME WInv, NEW l \in Pull, PullStep(l)
  PROVE  WaitInv'
<1>0. /\ WaitInv /\ phase \in [Loops -> Phases] /\ age \in [Loops -> Nat]
      /\ left \in [Loops -> Nat] /\ l \in Loops /\ Dispatch \in Loops /\ Dispatch # l
  BY LoopFacts DEF WInv, GInv, TypeOK
<1>1. CASE \/ NoteReached(l) \/ NoteStreakOver(l) \/ NoteMissed(l) \/ NoteStreak(l)
           \/ IdleOk(l) \/ IdleErr(l) \/ OpenFails(l) \/ SleepOver(l)
           \/ (\E reached \in BOOLEAN : Fetch(l, reached))
           \/ (\E opened \in BOOLEAN : FallBack(l, opened))
  <2>1. /\ \E p \in Phases : p \notin Waiting /\ phase' = [phase EXCEPT ![l] = p]
        /\ age' = age \/ age' = [age EXCEPT ![l] = 0]
        /\ left' = left \/ left' = [left EXCEPT ![l] = 0]
    BY <1>1 DEF NoteReached, NoteStreakOver, NoteMissed, NoteStreak, IdleOk, IdleErr, SessionOver,
                OpenFails, SleepOver, Fetch, FallBack, Goto, beat, beatVars,
                Phases, Blocking, Noting, Waiting
  <2> QED BY <1>0, <2>1 DEF WaitInv, Waiting
<1>2. CASE Continue(l)
  <2>1. /\ \/ \E p \in Phases : p \notin Waiting /\ phase' = [phase EXCEPT ![l] = p]
           \/ phase' = [phase EXCEPT ![l] = "sleep"] /\ age' = [age EXCEPT ![l] = 0]
        /\ age' = age \/ age' = [age EXCEPT ![l] = 0]
        /\ left' = left \/ \E n : left' = [left EXCEPT ![l] = n]
    BY <1>2 DEF Continue, Goto, beat, beatVars, Phases, Blocking, Noting, Waiting
  <2> QED BY <1>0, <2>1 DEF WaitInv, Waiting
<1>3. CASE Dialled(l)
  <2>1. /\ phase' = [phase EXCEPT ![l] = "idle"] /\ age' = age
        /\ left' = [left EXCEPT ![l] = Recycle]
    BY <1>3 DEF Dialled, Goto, beatVars
  <2> QED BY <1>0, <2>1 DEF WaitInv, Waiting
<1> QED BY <1>1, <1>2, <1>3 DEF PullStep

(* A slice of time is beaten away, or was a noisy one within its run.      *)
LEMMA WaitTick ==
  ASSUME WInv, NEW noisy \in SUBSET Pull, Tick(noisy)
  PROVE  WaitInv'
<1>0. /\ WaitInv /\ age \in [Loops -> Nat] /\ max_silence \in [Loops -> Nat \ {0}]
      /\ NoisyRun \in Nat
  BY LoopsAssumption, TimesAssumption DEF WInv, GInv, TypeOK
<1>1. ASSUME NEW l \in Loops
      PROVE  /\ phase[l] = "sleep" => age'[l] = 0
             /\ phase[l] = "idle" => age'[l] <= NoisyRun
  <2>1. age'[l] = IF phase[l] = "sleep" \/ (phase[l] = "idle" /\ l \notin noisy)
                    THEN 0 ELSE Older(l)
    BY DEF Tick, SliceAges
  <2>2. phase[l] = "idle" /\ l \in noisy => age[l] < NoisyRun
    BY DEF Tick
  <2>3. age[l] < NoisyRun => Older(l) <= NoisyRun
    BY <1>0 DEF Older, Smaller
  <2> QED BY <1>0, <2>1, <2>2, <2>3
<1>2. phase' = phase
  BY DEF Tick
<1> QED BY <1>0, <1>1, <1>2 DEF WaitInv

(* Every step keeps it.                                                    *)
LEMMA WaitStep == WInv /\ [Next]_vars => WInv'
<1> SUFFICES ASSUME WInv, [Next]_vars PROVE WaitInv'
  BY GaugeStepKept DEF WInv
<1>0. /\ WaitInv /\ phase \in [Loops -> Phases] /\ age \in [Loops -> Nat]
      /\ Dispatch \in Loops /\ NoisyRun \in Nat
  BY LoopFacts, TimesAssumption DEF WInv, GInv, TypeOK
<1>1. ASSUME NEW l \in Pull, PullStep(l)
      PROVE  WaitInv'
  BY <1>1, WaitPull
<1>2. CASE (\E l \in Loops : register_heartbeat(l) \/ WorkBeat(l))
           \/ DispatchNeverStarts \/ DispatchEnds
  <2>1. UNCHANGED left /\ \/ UNCHANGED phase
                          \/ \E l \in Loops, p \in {"fetch", "round", "exited"} :
                               phase' = [phase EXCEPT ![l] = p]
    BY <1>2, OtherLocals DEF Goto
  <2>2. age' = age \/ \E l \in Loops : age' = [age EXCEPT ![l] = 0]
    BY <1>2, OtherBeats DEF BeatStep, beat
  <2>3. \A l \in Loops : age'[l] = age[l] \/ age'[l] = 0
    BY <1>0, <2>2
  <2>4. \A l \in Loops : phase'[l] = phase[l] \/ phase'[l] \notin Waiting
    BY <1>0, <2>1 DEF Waiting
  <2> QED BY <1>0, <2>1, <2>3, <2>4 DEF WaitInv, Waiting
<1>3. ASSUME NEW noisy \in SUBSET Pull, Tick(noisy)
      PROVE  WaitInv'
  BY <1>3, WaitTick
<1>4. CASE stall_watchdog_tick \/ UNCHANGED vars
  BY <1>0, <1>4 DEF stall_watchdog_tick, vars, loopVars, WaitInv
<1>5. CASE Restart
  BY <1>0, <1>5 DEF Restart, WaitInv, Waiting
<1> QED BY <1>1, <1>2, <1>3, <1>4, <1>5, NextSteps DEF Steps

(* Whatever the servers do, and if chatter never puts off a beat for       *)
(* longer than the bound, a loop that sleeps or idles on purpose is not    *)
(* reported (sleep_beating, idle_wait, health_verdict).                    *)
THEOREM NoLoopFalselyAccused ==
  ASSUME \A l \in Pull : NoisyRun <= max_silence[l]
  PROVE  Spec => []NoFalseAlarm
<1>1. Init => WInv
  <2>1. Init => WaitInv
    BY LoopFacts DEF Init, WaitInv, Waiting
  <2> QED BY <2>1, GaugeInit DEF WInv
<1>2. WInv => NoFalseAlarm
  <2> SUFFICES ASSUME WInv, NEW l \in Stalled
               PROVE  /\ phase[l] # "sleep"
                      /\ phase[l] = "idle" => left[l] = Recycle
    BY DEF NoFalseAlarm
  <2>1. l \in Loops /\ age[l] > max_silence[l] /\ age[l] \in Nat /\ max_silence[l] \in Nat
    BY LoopsAssumption DEF Stalled, WInv, GInv, TypeOK
  <2>2. phase[l] \in Waiting => l \in Pull
    BY <2>1 DEF WInv, WaitInv, Loops
  <2> QED BY <2>1, <2>2, TimesAssumption DEF WInv, WaitInv, Waiting
<1> QED BY <1>1, <1>2, WaitStep, PTL DEF Spec

(* A loop in the watchdog's list is in the stall it was put there for, and *)
(* was reported once in it; or it has beaten since, within the last slice. *)
(* One that is not in the list has not been reported since its last beat,  *)
(* and is not stalled once the watchdog has looked.                        *)
AlarmInv ==
  \A l \in Loops :
    IF l \in reported
      THEN \/ l \in Stalled /\ alarms[l] = 1
           \/ alarms[l] = 0 /\ age[l] <= (IF watched THEN 0 ELSE 1)
      ELSE alarms[l] = 0 /\ (watched => l \notin Stalled)

AInv == GInv /\ AlarmInv

(* Beats keep it.                                                          *)
LEMMA AlarmBeat ==
  ASSUME AInv, BeatStep
  PROVE  AlarmInv'
<1>0. /\ age \in [Loops -> Nat] /\ alarms \in [Loops -> Nat]
      /\ max_silence \in [Loops -> Nat \ {0}] /\ AlarmInv /\ watched \in BOOLEAN
  BY LoopsAssumption DEF AInv, GInv, TypeOK
<1>1. reported' = reported /\ watched' = watched
  BY DEF BeatStep
<1>2. ASSUME NEW l \in Loops
      PROVE  \/ age'[l] = 0 /\ alarms'[l] = 0
             \/ age'[l] = age[l] /\ alarms'[l] = alarms[l] /\ (l \in registered' <=> l \in registered)
  BY <1>0 DEF BeatStep, beat
<1>3. ASSUME NEW l \in Loops
      PROVE  IF l \in reported'
               THEN \/ l \in Stalled' /\ alarms'[l] = 1
                    \/ alarms'[l] = 0 /\ age'[l] <= (IF watched' THEN 0 ELSE 1)
               ELSE alarms'[l] = 0 /\ (watched' => l \notin Stalled')
  <2>1. CASE age'[l] = 0 /\ alarms'[l] = 0
    <3>1. l \notin Stalled'
      BY <1>0, <2>1 DEF Stalled
    <3> QED BY <2>1, <3>1
  <2>2. CASE /\ age'[l] = age[l] /\ alarms'[l] = alarms[l]
             /\ l \in registered' <=> l \in registered
    <3>1. l \in Stalled' <=> l \in Stalled
      BY <2>2 DEF Stalled
    <3> QED BY <1>0, <1>1, <2>2, <3>1 DEF AlarmInv
  <2> QED BY <1>2, <2>1, <2>2
<1> QED BY <1>3 DEF AlarmInv

(* So does time: a stalled loop stays stalled, one that has just beaten is *)
(* a slice old at most.                                                    *)
LEMMA AlarmTick ==
  ASSUME AInv, NEW noisy \in SUBSET Pull, Tick(noisy)
  PROVE  AlarmInv'
<1>0. /\ age \in [Loops -> Nat] /\ alarms \in [Loops -> Nat]
      /\ max_silence \in [Loops -> Nat \ {0}] /\ AlarmInv
  BY LoopsAssumption DEF AInv, GInv, TypeOK
<1>1. /\ watched = TRUE /\ watched' = FALSE /\ reported' = reported /\ registered' = registered
      /\ alarms' = [l \in Loops |-> IF age'[l] = 0 THEN 0 ELSE alarms[l]]
  BY DEF Tick
<1>2. ASSUME NEW l \in Loops
      PROVE  age'[l] = 0 \/ age'[l] = Smaller(age[l] + 1, max_silence[l] + 1)
  BY DEF Tick, SliceAges, Older
<1>3. ASSUME NEW l \in Loops
      PROVE  IF l \in reported'
               THEN \/ l \in Stalled' /\ alarms'[l] = 1
                    \/ alarms'[l] = 0 /\ age'[l] <= 1
               ELSE alarms'[l] = 0
  <2>1. CASE age'[l] = 0
    BY <1>1, <2>1
  <2>2. CASE age'[l] # 0
    <3>1. alarms'[l] = alarms[l] /\ age'[l] = Smaller(age[l] + 1, max_silence[l] + 1)
      BY <1>1, <1>2, <2>2
    <3>2. l \in Stalled => l \in Stalled'
      BY <1>0, <1>1, <3>1 DEF Stalled, Smaller
    <3>3. age[l] <= 0 => age'[l] <= 1
      BY <1>0, <3>1 DEF Smaller
    <3> QED BY <1>0, <1>1, <3>1, <3>2, <3>3 DEF AlarmInv
  <2> QED BY <2>1, <2>2
<1> QED BY <1>1, <1>3 DEF AlarmInv

(* And a look of the watchdog.                                             *)
LEMMA AlarmWatchdog ==
  ASSUME AInv, stall_watchdog_tick
  PROVE  AlarmInv'
<1>0. /\ age \in [Loops -> Nat] /\ alarms \in [Loops -> Nat]
      /\ max_silence \in [Loops -> Nat \ {0}] /\ AlarmInv
  BY LoopsAssumption DEF AInv, GInv, TypeOK
<1>1. /\ watched = FALSE /\ watched' = TRUE /\ reported' = Stalled /\ Stalled' = Stalled
      /\ alarms' = [l \in Loops |-> IF l \in Stalled \ reported THEN alarms[l] + 1 ELSE alarms[l]]
  BY DEF stall_watchdog_tick, Stalled
<1>2. ASSUME NEW l \in Loops
      PROVE  alarms'[l] = IF l \in Stalled THEN 1 ELSE 0
  <2>1. l \in Stalled => ~(age[l] <= 1)
    BY <1>0 DEF Stalled
  <2> QED BY <1>0, <1>1, <2>1 DEF AlarmInv
<1> QED BY <1>1, <1>2 DEF AlarmInv

(* Every step keeps it.                                                    *)
LEMMA AlarmStep == AInv /\ [Next]_vars => AInv'
<1> SUFFICES ASSUME AInv, [Next]_vars PROVE AlarmInv'
  BY GaugeStepKept DEF AInv
<1>1. ASSUME NEW l \in Pull, PullStep(l)
      PROVE  AlarmInv'
  BY <1>1, PullBeats, AlarmBeat
<1>2. CASE (\E l \in Loops : register_heartbeat(l) \/ WorkBeat(l))
           \/ DispatchNeverStarts \/ DispatchEnds
  BY <1>2, OtherBeats, AlarmBeat
<1>3. ASSUME NEW noisy \in SUBSET Pull, Tick(noisy)
      PROVE  AlarmInv'
  BY <1>3, AlarmTick
<1>4. CASE stall_watchdog_tick
  BY <1>4, AlarmWatchdog
<1>5. CASE Restart
  <2>1. reported' = {} /\ registered' = {} /\ \A l \in Loops : alarms'[l] = 0
    BY <1>5 DEF Restart
  <2> QED BY <2>1 DEF AlarmInv, Stalled
<1>6. CASE UNCHANGED vars
  BY <1>6 DEF AInv, AlarmInv, Stalled, vars
<1> QED BY <1>1, <1>2, <1>3, <1>4, <1>5, <1>6, NextSteps DEF Steps

(* Once the watchdog has looked, every stall has been reported, and once   *)
(* (the reported list of stall_watchdog_tick).                             *)
THEOREM StallsAreReportedOnce == Spec => []EveryStallReportedOnce
<1>1. Init => AInv
  <2>1. Init => AlarmInv
    BY DEF Init, AlarmInv, Stalled
  <2> QED BY <2>1, GaugeInit DEF AInv
<1>2. AInv => EveryStallReportedOnce
  <2> SUFFICES ASSUME AInv, watched, NEW l \in Loops
               PROVE  alarms[l] = IF l \in Stalled THEN 1 ELSE 0
    BY DEF EveryStallReportedOnce
  <2>1. l \in Stalled => age[l] > 0
    BY LoopsAssumption DEF AInv, GInv, TypeOK, Stalled
  <2>2. age[l] \in Nat /\ AlarmInv
    BY DEF AInv, GInv, TypeOK
  <2> QED BY <2>1, <2>2 DEF AlarmInv
<1> QED BY <1>1, <1>2, AlarmStep, PTL DEF Spec
=============================================================================
