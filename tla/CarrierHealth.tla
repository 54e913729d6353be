--------------------------- MODULE CarrierHealth ---------------------------
(***************************************************************************)
(* Progress and its supervision in ANTIE: the heartbeats of the dispatch   *)
(* loop and of the pull loops (stats.rs), the KI#141 backoff and its       *)
(* gauges, the /health verdict and the KI#114 stall watchdog (health.rs,   *)
(* gateway.rs).                                                            *)
(*                                                                         *)
(* Time is counted in slices of 60 s (BEAT_SLICE and IDLE_BEAT_SLICE), the *)
(* rhythm every deliberate wait beats on.  A call on a server or on Lambda *)
(* may take any number of slices.  The loops share the gauges, which are   *)
(* single atomics: every access to one is a step of its own.               *)
(***************************************************************************)
EXTENDS Naturals, FiniteSets

CONSTANTS Pull,         \* the pull accounts, one task each
          IdleFirst,    \* those configured with use_idle
          Dispatch,     \* the maildir dispatch loop
          max_silence,  \* of each loop: {DISPATCH,PULL}_MAX_SILENCE_SECS
          NoisyRun,     \* bound: slices for which an idling server, by saying
                        \* something else than new mail, puts off a beat
          Recycle,      \* an IDLE is re-issued after as long
          PollInterval, BackoffMax,
          MaxFailures   \* where a loop's count of failures saturates

Loops == Pull \cup {Dispatch}

ASSUME LoopsAssumption ==
  /\ IsFiniteSet(Pull) /\ IdleFirst \subseteq Pull /\ Dispatch \notin Pull
  /\ max_silence \in [Loops -> Nat \ {0}]
ASSUME TimesAssumption ==
  /\ NoisyRun \in Nat /\ Recycle \in Nat \ {0}
  /\ PollInterval \in Nat \ {0} /\ BackoffMax \in Nat /\ PollInterval <= BackoffMax
  /\ MaxFailures \in Nat \ {0}

(* Where a loop is.  In a blocking phase it waits for somebody else; in a  *)
(* noting phase it is between two accesses to the gauges.                  *)
Blocking == {"fetch", "dial", "round"}
Noting == {"sub", "store", "add", "max", "noted"}
Waiting == {"idle", "sleep"}
Phases == Blocking \cup Noting \cup Waiting \cup {"unborn", "exited"}

VARIABLES up,          \* the process runs
          policy,      \* on_stall
          phase,       \* of each loop
          idles,       \* the loops in IDLE mode
          fetched,     \* what deliver_carrier_messages returned
          missed,      \* a note of success is followed by one of failure
          left,        \* slices until the present wait is over
          age,         \* slices since the last beat
          registered,  \* the loops with a heartbeat
          failures,    \* each loop's own consecutive failures
          in_backoff, streak,  \* carriers_in_backoff, carrier_consecutive_failures
          reported,    \* what the watchdog has reported
          watched,     \* the watchdog has run in this slice
          leaked,      \* history: backoffs a loop left without saying so
          alarms       \* history: ERROR lines on a loop since its last beat

loopVars == <<phase, idles, fetched, missed, left>>
beatVars == <<age, alarms>>
gauges == <<failures, in_backoff, streak, leaked>>
watch == <<reported, watched>>
vars == <<up, policy, phase, idles, fetched, missed, left, age, registered, failures,
          in_backoff, streak, reported, watched, leaked, alarms>>

TypeOK ==
  /\ up \in BOOLEAN /\ policy \in {"notify_only", "notify_and_restart"}
  /\ phase \in [Loops -> Phases]
  /\ idles \subseteq Pull /\ fetched \subseteq Pull /\ missed \subseteq Pull
  /\ left \in [Loops -> Nat] /\ age \in [Loops -> Nat]
  /\ registered \subseteq Loops
  /\ failures \in [Pull -> 0..MaxFailures]
  /\ in_backoff \in Nat /\ streak \in 0..MaxFailures /\ leaked \in Nat
  /\ reported \subseteq Loops /\ watched \in BOOLEAN
  /\ alarms \in [Loops -> Nat]

(* A process that has just been started: no loop has registered yet.       *)
Init ==
  /\ up = TRUE /\ policy \in {"notify_only", "notify_and_restart"}
  /\ phase = [l \in Loops |-> "unborn"] /\ idles = IdleFirst
  /\ fetched = {} /\ missed = {}
  /\ left = [l \in Loops |-> 0] /\ age = [l \in Loops |-> 0]
  /\ registered = {} /\ failures = [l \in Pull |-> 0]
  /\ in_backoff = 0 /\ streak = 0 /\ leaked = 0
  /\ reported = {} /\ watched = TRUE /\ alarms = [l \in Loops |-> 0]

---------------------------------------------------------------------------
(* Heartbeats and time.                                                    *)

Smaller(a, b) == IF a < b THEN a ELSE b
Larger(a, b) == IF a < b THEN b ELSE a

Goto(l, p) == phase' = [phase EXCEPT ![l] = p]

beat(l) ==
  /\ age' = [age EXCEPT ![l] = 0]
  /\ alarms' = [alarms EXCEPT ![l] = 0]

(* What time does to an age.  Past the bound it makes no difference how    *)
(* far.                                                                    *)
Older(l) == Smaller(age[l] + 1, max_silence[l] + 1)

(* Faulty variant: a backoff is slept through without a beat.              *)
SilentSlice(noisy) ==
  [l \in Loops |-> IF phase[l] = "idle" /\ l \notin noisy THEN 0 ELSE Older(l)]

(* sleep_beating beats in every slice, idle_wait in every quiet one; a     *)
(* line from the server begins a new slice without a beat.                 *)
SliceAges(noisy) ==
  [l \in Loops |-> IF phase[l] = "sleep" \/ (phase[l] = "idle" /\ l \notin noisy)
                     THEN 0 ELSE Older(l)]

(* A slice passes.  Only loops that wait let it pass: a wait that is over  *)
(* ends, the gauges take no time, and the watchdog (STALL_WATCH_INTERVAL,  *)
(* half a slice, on its own task) has had its turn.                        *)
Tick(noisy) ==
  /\ up /\ watched
  /\ \A l \in Loops : /\ phase[l] \notin Noting \cup {"unborn"}
                      /\ phase[l] \in Waiting => left[l] > 0
  /\ noisy \subseteq {l \in Pull : phase[l] = "idle" /\ age[l] < NoisyRun}
  /\ age' = SliceAges(noisy)
  /\ alarms' = [l \in Loops |-> IF age'[l] = 0 THEN 0 ELSE alarms[l]]
  /\ left' = [l \in Loops |-> IF phase[l] \in Waiting THEN left[l] - 1 ELSE left[l]]
  /\ watched' = FALSE
  /\ UNCHANGED <<up, policy, phase, idles, fetched, missed, registered, gauges, reported>>

---------------------------------------------------------------------------
(* The start of a loop, and its premature end.                             *)

(* register_heartbeat beats once; a pull loop then opens the maildir it    *)
(* delivers to, and its loop begins.                                       *)
register_heartbeat(l) ==
  /\ up /\ phase[l] = "unborn"
  /\ registered' = registered \cup {l}
  /\ Goto(l, IF l = Dispatch THEN "round" ELSE "fetch")
  /\ beat(l)
  /\ UNCHANGED <<up, policy, idles, fetched, missed, left, gauges, watch>>

(* Maildir::open fails: the task ends, its heartbeat stays registered.     *)
OpenFails(l) ==
  /\ up /\ phase[l] = "unborn"
  /\ registered' = registered \cup {l}
  /\ Goto(l, "exited")
  /\ beat(l)
  /\ UNCHANGED <<up, policy, idles, fetched, missed, left, gauges, watch>>

(* MaildirCarrier::new fails before there is a heartbeat.                  *)
DispatchNeverStarts ==
  /\ up /\ phase[Dispatch] = "unborn"
  /\ Goto(Dispatch, "exited")
  /\ UNCHANGED <<up, policy, idles, fetched, missed, left, beatVars, registered, gauges, watch>>

(* The watcher channel of the dispatch loop is closed.                     *)
DispatchEnds ==
  /\ up /\ phase[Dispatch] = "round"
  /\ Goto(Dispatch, "exited")
  /\ UNCHANGED <<up, policy, idles, fetched, missed, left, beatVars, registered, gauges, watch>>

(* The dispatch loop beats in every pass and for every message, a pull     *)
(* loop for every message it delivers.                                     *)
WorkBeat(l) ==
  /\ up /\ phase[l] \in {"fetch", "round"} /\ age[l] > 0
  /\ beat(l)
  /\ UNCHANGED <<up, policy, loopVars, registered, gauges, watch>>

---------------------------------------------------------------------------
(* run_imap_carrier and pull_loop.                                         *)

(* deliver_carrier_messages returns.  In IDLE mode the session is next; a  *)
(* polling loop notes the attempt.                                         *)
Fetch(l, reached) ==
  /\ up /\ phase[l] = "fetch"
  /\ IF l \in idles
       THEN Goto(l, "dial") /\ beat(l)
            /\ fetched' = IF reached THEN fetched \cup {l} ELSE fetched \ {l}
       ELSE Goto(l, IF reached THEN "sub" ELSE "add") /\ UNCHANGED <<fetched, beatVars>>
  /\ UNCHANGED <<up, policy, idles, missed, left, registered, gauges, watch>>

(* idle_wait: the session is open and idling.                              *)
Dialled(l) ==
  /\ up /\ phase[l] = "dial"
  /\ Goto(l, "idle") /\ left' = [left EXCEPT ![l] = Recycle]
  /\ UNCHANGED <<up, policy, idles, fetched, missed, beatVars, registered, gauges, watch>>

(* The server does not advertise IDLE: poll mode from now on, with a count *)
(* of failures of its own.  The gauge is not told if the loop was in       *)
(* backoff.  The maildir is opened once more, and may fail to.              *)
FallBack(l, opened) ==
  /\ up /\ phase[l] = "dial"
  /\ idles' = idles \ {l}
  /\ IF opened THEN Goto(l, "fetch") /\ beat(l)
               ELSE Goto(l, "exited") /\ UNCHANGED beatVars
  /\ failures' = [failures EXCEPT ![l] = 0]
  /\ leaked' = IF failures[l] > 0 THEN leaked + 1 ELSE leaked
  /\ fetched' = fetched \ {l}
  /\ UNCHANGED <<up, policy, missed, left, registered, in_backoff, streak, watch>>

(* Locals of one turn of the loop.                                         *)
SessionOver(l) == fetched' = fetched \ {l} /\ left' = [left EXCEPT ![l] = 0]

(* idle_wait is Ok: mail was waiting, mail was pushed, or the recycle time *)
(* has come.                                                               *)
IdleOk(l) ==
  /\ up /\ phase[l] \in {"dial", "idle"}
  /\ Goto(l, "sub")
  /\ SessionOver(l)
  /\ UNCHANGED <<up, policy, idles, missed, beatVars, registered, gauges, watch>>

(* idle_wait is Err: if the fetch before it reached the server that is     *)
(* noted first, then the failure.                                          *)
IdleErr(l) ==
  /\ up /\ phase[l] \in {"dial", "idle"}
  /\ Goto(l, IF l \in fetched THEN "sub" ELSE "add")
  /\ missed' = IF l \in fetched THEN missed \cup {l} ELSE missed
  /\ SessionOver(l)
  /\ UNCHANGED <<up, policy, idles, beatVars, registered, gauges, watch>>

---------------------------------------------------------------------------
(* note_carrier_attempt, one atomic at a time.                             *)

(* Faulty variant: the value fetch_sub returns is taken for the new one.   *)
NoteReachedNewValue(l) ==
  /\ up /\ phase[l] = "sub"
  /\ failures' = [failures EXCEPT ![l] = 0]
  /\ in_backoff' = IF failures[l] > 0 THEN in_backoff - 1 ELSE in_backoff
  /\ Goto(l, IF failures[l] > 0 /\ in_backoff = 0 THEN "store" ELSE "noted")
  /\ UNCHANGED <<up, policy, idles, fetched, missed, left, beatVars, registered, streak,
                 leaked, watch>>

(* Faulty variant: every success takes one off the gauge.                  *)
NoteReachedAlways(l) ==
  /\ up /\ phase[l] = "sub"
  /\ failures' = [failures EXCEPT ![l] = 0]
  /\ in_backoff' = in_backoff - 1
  /\ Goto(l, IF in_backoff = 1 THEN "store" ELSE "noted")
  /\ UNCHANGED <<up, policy, idles, fetched, missed, left, beatVars, registered, streak,
                 leaked, watch>>

(* reached: the count restarts; a loop that was in backoff leaves it, and  *)
(* sees in the value it decremented whether it was the last.               *)
NoteReached(l) ==
  /\ up /\ phase[l] = "sub"
  /\ failures' = [failures EXCEPT ![l] = 0]
  /\ in_backoff' = IF failures[l] > 0 THEN in_backoff - 1 ELSE in_backoff
  /\ Goto(l, IF failures[l] > 0 /\ in_backoff = 1 THEN "store" ELSE "noted")
  /\ UNCHANGED <<up, policy, idles, fetched, missed, left, beatVars, registered, streak,
                 leaked, watch>>

NoteStreakOver(l) ==
  /\ up /\ phase[l] = "store"
  /\ streak' = 0
  /\ Goto(l, "noted")
  /\ UNCHANGED <<up, policy, idles, fetched, missed, left, beatVars, registered, failures,
                 in_backoff, leaked, watch>>

(* Faulty variant: every failure counts the loop once more.                *)
NoteMissedAgain(l) ==
  /\ up /\ phase[l] = "add"
  /\ in_backoff' = in_backoff + 1
  /\ failures' = [failures EXCEPT ![l] = Smaller(failures[l] + 1, MaxFailures)]
  /\ Goto(l, "max")
  /\ UNCHANGED <<up, policy, idles, fetched, missed, left, beatVars, registered, streak,
                 leaked, watch>>

(* missed: the first of a streak enters backoff.                           *)
NoteMissed(l) ==
  /\ up /\ phase[l] = "add"
  /\ in_backoff' = IF failures[l] = 0 THEN in_backoff + 1 ELSE in_backoff
  /\ failures' = [failures EXCEPT ![l] = Smaller(failures[l] + 1, MaxFailures)]
  /\ Goto(l, "max")
  /\ UNCHANGED <<up, policy, idles, fetched, missed, left, beatVars, registered, streak,
                 leaked, watch>>

NoteStreak(l) ==
  /\ up /\ phase[l] = "max"
  /\ streak' = Larger(streak, failures[l])
  /\ Goto(l, "noted")
  /\ UNCHANGED <<up, policy, idles, fetched, missed, left, beatVars, registered, failures,
                 in_backoff, leaked, watch>>

(* 1 << n, for n up to 16.                                                 *)
Shifted == <<1, 2, 4, 8, 16, 32, 64, 128, 256, 512, 1024, 2048, 4096, 8192, 16384, 32768,
             65536>>

(* The configured interval, doubled per failure, capped.                   *)
carrier_backoff(n) == Smaller(PollInterval * Shifted[Smaller(n, 16) + 1], BackoffMax)

(* After the notes: a second one if there is one; an IDLE loop that        *)
(* reached its server drains again at once; every other loop sleeps.       *)
Continue(l) ==
  /\ up /\ phase[l] = "noted"
  /\ missed' = missed \ {l}
  /\ \/ /\ l \in missed
        /\ Goto(l, "add") /\ UNCHANGED <<left, fetched, beatVars>>
     \/ /\ l \notin missed /\ l \in idles /\ failures[l] = 0
        /\ Goto(l, "fetch") /\ beat(l) /\ UNCHANGED <<left, fetched>>
     \/ /\ l \notin missed /\ (l \notin idles \/ failures[l] > 0)
        /\ Goto(l, "sleep") /\ beat(l) /\ UNCHANGED fetched
        /\ left' = [left EXCEPT ![l] = carrier_backoff(failures[l])]
  /\ UNCHANGED <<up, policy, idles, registered, gauges, watch>>

(* sleep_beating returns after a last beat, and the loop goes round.       *)
SleepOver(l) ==
  /\ up /\ phase[l] = "sleep" /\ left[l] = 0
  /\ Goto(l, "fetch") /\ beat(l)
  /\ UNCHANGED <<up, policy, idles, fetched, missed, left, registered, gauges, watch>>

---------------------------------------------------------------------------
(* The verdict and the watchdog.                                           *)

(* health_verdict: the loops whose heartbeat is older than its bound, read *)
(* at the moment it is asked for.  /health is ok when there is none and    *)
(* Lambda is alive.                                                        *)
Stalled == {l \in registered : age[l] > max_silence[l]}

(* Faulty variant: a loop that recovered is not forgotten.                 *)
WatchdogNeverForgets ==
  /\ up /\ ~watched
  /\ watched' = TRUE
  /\ reported' = reported \cup Stalled
  /\ alarms' = [l \in Loops |-> IF l \in Stalled \ reported THEN alarms[l] + 1 ELSE alarms[l]]
  /\ up' = ~(Stalled \ reported # {} /\ policy = "notify_and_restart")
  /\ UNCHANGED <<policy, loopVars, age, registered, gauges>>

(* Faulty variant: one stalled loop is reported, the others wait for it.   *)
WatchdogReportsOne ==
  /\ up /\ ~watched
  /\ watched' = TRUE
  /\ \E l \in Loops :
       /\ IF reported \cap Stalled # {} THEN l \in reported \cap Stalled
          ELSE Stalled # {} => l \in Stalled
       /\ reported' = {l} \cap Stalled
       /\ alarms' = [alarms EXCEPT ![l] = IF l \in Stalled \ reported THEN @ + 1 ELSE @]
       /\ up' = ~(l \in Stalled \ reported /\ policy = "notify_and_restart")
  /\ UNCHANGED <<policy, loopVars, age, registered, gauges>>

(* stall_watchdog_tick: one ERROR line for each newly stalled loop; what   *)
(* has recovered may be reported again; then, by policy, exit.             *)
stall_watchdog_tick ==
  /\ up /\ ~watched
  /\ watched' = TRUE
  /\ reported' = Stalled
  /\ alarms' = [l \in Loops |-> IF l \in Stalled \ reported THEN alarms[l] + 1 ELSE alarms[l]]
  /\ up' = ~(Stalled \ reported # {} /\ policy = "notify_and_restart")
  /\ UNCHANGED <<policy, loopVars, age, registered, gauges>>

(* The service manager starts the process again (external).                *)
Restart ==
  /\ ~up /\ up' = TRUE
  /\ phase' = [l \in Loops |-> "unborn"] /\ idles' = IdleFirst
  /\ fetched' = {} /\ missed' = {}
  /\ left' = [l \in Loops |-> 0] /\ age' = [l \in Loops |-> 0]
  /\ registered' = {} /\ failures' = [l \in Pull |-> 0]
  /\ in_backoff' = 0 /\ streak' = 0 /\ leaked' = 0
  /\ reported' = {} /\ watched' = TRUE /\ alarms' = [l \in Loops |-> 0]
  /\ UNCHANGED policy

---------------------------------------------------------------------------
note_carrier_attempt(l) ==
  NoteReached(l) \/ NoteStreakOver(l) \/ NoteMissed(l) \/ NoteStreak(l)

(* What a task does as soon as it is scheduled.                            *)
Prompt(l) ==
  \/ l \in Pull /\ (note_carrier_attempt(l) \/ Continue(l) \/ SleepOver(l))
  \/ l \in Pull /\ left[l] = 0 /\ phase[l] = "idle" /\ IdleOk(l)
  \/ register_heartbeat(l)

(* What waits for somebody else.                                           *)
Slow(l) ==
  \/ l \in Pull /\ \/ \E reached \in BOOLEAN : Fetch(l, reached)
                   \/ \E opened \in BOOLEAN : FallBack(l, opened)
                   \/ OpenFails(l) \/ Dialled(l) \/ IdleOk(l) \/ IdleErr(l)
  \/ WorkBeat(l)

Next == \/ \E l \in Loops : Prompt(l) \/ Slow(l)
        \/ DispatchNeverStarts \/ DispatchEnds
        \/ \E noisy \in SUBSET Pull : Tick(noisy)
        \/ stall_watchdog_tick \/ Restart

Spec == Init /\ [][Next]_vars

(* Time passes whatever a busy loop does (SF); the watchdog's task and     *)
(* every task that can go on are scheduled; the service manager restarts   *)
(* what exited.  Nothing is assumed of the servers and of Lambda: a call   *)
(* may never return.                                                       *)
FairSpec == /\ Spec
            /\ SF_vars(\E noisy \in SUBSET Pull : Tick(noisy))
            /\ WF_vars(stall_watchdog_tick) /\ WF_vars(Restart)
            /\ \A l \in Loops : WF_vars(Prompt(l))

---------------------------------------------------------------------------
(* Properties.                                                             *)

(* "carriers_in_backoff: pull-carrier loops currently in backoff (>= 1     *)
(* consecutive failure)": with any number of loops entering and leaving    *)
(* at once the gauge neither drifts nor wraps below zero.  It is off by    *)
(* exactly the loops that fell back from IDLE to polling while in backoff, *)
(* which nothing takes back (gateway.rs:817-822).                          *)
GaugeAccounted ==
  in_backoff = Cardinality({l \in Pull : failures[l] > 0}) + leaked

(* "carrier_consecutive_failures: 0 when nothing is in backoff", although  *)
(* the decrement and the reset are two atomics and other loops enter and   *)
(* raise the streak between them: when the gauge says 0 and the loop that  *)
(* left last has finished, no old streak is left behind.                   *)
StreakClears ==
  in_backoff = 0 /\ (\A l \in Pull : phase[l] # "store") => streak = 0

(* "waiting on purpose, not stalled" (sleep_beating): /health and the      *)
(* watchdog only ever accuse a loop that is in a call of a server or of    *)
(* Lambda, has just come back from one, or has ended; never one in         *)
(* backoff, however long, or in an IDLE wait that is a slice old.          *)
NoFalseAlarm ==
  \A l \in Stalled : /\ phase[l] # "sleep"
                     /\ phase[l] = "idle" => left[l] = Recycle

(* "once per stall - reported remembers it until it recovers": when the    *)
(* watchdog has looked, a stalled loop has been reported exactly once in   *)
(* this stall, also if it stalled, recovered and stalled again.            *)
EveryStallReportedOnce ==
  watched => \A l \in Loops : alarms[l] = IF l \in Stalled THEN 1 ELSE 0

(* KI#114: "a loop that is wedged - wherever it is stuck - ages its own    *)
(* beat and flips ok, naming itself".  A registered loop whose call never  *)
(* returns, or whose task has ended, is reported or the process restarted, *)
(* whatever the other loops do: the dispatch loop in a call of Lambda,     *)
(* which may have no deadline, and a pull loop in a call of its server.    *)
(* Of the pull loops those that idle first stand for all: they also poll,  *)
(* once they have fallen back, by the steps the others take.               *)
Stuck(l) == l \in registered /\ phase[l] \in Blocking \cup {"exited"} /\ age[l] > 0
WedgeIsSeen ==
  \A l \in IdleFirst \cup {Dispatch} : Stuck(l) ~> (l \in reported \/ ~up \/ ~Stuck(l))
=============================================================================
