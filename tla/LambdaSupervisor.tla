------------------------- MODULE LambdaSupervisor -------------------------
(***************************************************************************)
(* The Lambda child process of ANTIE (antie/src/lambda_client.rs,          *)
(* subprocess mode): start and stop, the KI#80 supervision loop, and the   *)
(* length-prefixed request/response protocol over the child's stdin and    *)
(* stdout, all serialised by one mutex over Option<Child>.                 *)
(*                                                                         *)
(* Two tasks use the pipe: the gateway (its startup push, then the one     *)
(* dispatcher) and the supervisor (the re-push after a respawn).  A frame  *)
(* carries no correlation id: a caller takes the first frame there is and  *)
(* accepts it when its type is the one it expects.  A read that ends in    *)
(* the middle of a frame leaves the pipe skewed: the next length prefix is *)
(* then whatever bytes come next.                                          *)
(***************************************************************************)
EXTENDS Naturals, Sequences

CONSTANTS BackoffMin, BackoffMax, \* RESPAWN_BACKOFF_{MIN,MAX}_SECS
          MaxCalls,      \* bound: calls after which the dispatcher makes no more
          MaxDeaths,     \* bound: times the child dies by itself
          MaxTimeouts,   \* bound: reads given up after 300 s
          MaxSpawnFails  \* bound: failed respawns

ASSUME BackoffAssumption ==
  /\ BackoffMin \in Nat \ {0} /\ BackoffMax \in Nat /\ BackoffMin <= BackoffMax
ASSUME BoundsAssumption ==
  /\ MaxCalls \in Nat /\ MaxDeaths \in Nat
  /\ MaxTimeouts \in Nat /\ MaxSpawnFails \in Nat

Users == {"gateway", "supervisor"}
(* Every request but witness, redeem, ack and genesis goes through         *)
(* send_raw_request, the one path with a read timeout.                     *)
RawKinds == {"query", "set_carriers"}
(* redeem, ack and genesis read through a BufReader of their own, which is *)
(* dropped after one frame with whatever it had read ahead.                *)
BufferedKinds == {"redeem"}
Kinds == RawKinds \cup BufferedKinds \cup {"witness"}

(* Calls are numbered, the pushes too (one per spawn, so bounded by the    *)
(* deaths).                                                                *)
Frame == [kind : Kinds, n : Nat]
Call == [at : {"none", "lock", "read"}, kind : Kinds, n : Nat]

VARIABLES child,         \* Option<Child>: "none", "running" or "dead" (a zombie)
          pending,       \* frames written to stdin and not yet answered
          replies,       \* frames in stdout and not yet read
          known,         \* this child has been told the carrier list
          abandoned,     \* reads on this child that were given up
          skewed,        \* a read on this child ended inside a frame
          lock,          \* holder of the child mutex, or "free"
          alive,         \* lambda_alive
          shutting_down,
          carrier_uris,  \* the list is cached
          gateway,       \* program point of Gateway::run
          sup,           \* program point of supervision_loop
          backoff,       \* backoff_secs
          aged,          \* last_spawn.elapsed() >= RESPAWN_STABLE_SECS
          call,          \* the IPC call of each user
          calls, deaths, timeouts, spawnfails

childVars == <<child, pending, replies, known, abandoned, skewed>>
bounds == <<calls, deaths, timeouts, spawnfails>>
vars == <<child, pending, replies, known, abandoned, skewed, lock, alive, shutting_down,
          carrier_uris, gateway, sup, backoff, aged, call,
          calls, deaths, timeouts, spawnfails>>

GatewayPoints == {"start", "push", "serving", "stop", "stop_lock", "stopped"}
SupPoints == {"unborn", "poll", "check", "up", "down", "backoff", "respawn",
              "respawned", "push", "returned"}

TypeOK ==
  /\ child \in {"none", "running", "dead"}
  /\ pending \in Seq(Frame) /\ replies \in Seq(Frame)
  /\ known \in BOOLEAN /\ abandoned \in Nat /\ skewed \in BOOLEAN
  /\ lock \in Users \cup {"free"}
  /\ alive \in BOOLEAN /\ shutting_down \in BOOLEAN /\ carrier_uris \in BOOLEAN
  /\ gateway \in GatewayPoints /\ sup \in SupPoints
  /\ backoff \in BackoffMin..BackoffMax
  /\ aged \in BOOLEAN
  /\ call \in [Users -> Call]
  /\ calls \in Nat /\ deaths \in 0..MaxDeaths
  /\ timeouts \in 0..MaxTimeouts /\ spawnfails \in 0..MaxSpawnFails

NoCall == [at |-> "none", kind |-> "query", n |-> 0]

(* A LambdaClient that has not been started: lambda_alive begins TRUE.     *)
Init ==
  /\ child = "none" /\ pending = <<>> /\ replies = <<>>
  /\ known = FALSE /\ abandoned = 0 /\ skewed = FALSE
  /\ lock = "free" /\ alive = TRUE /\ shutting_down = FALSE
  /\ carrier_uris = FALSE
  /\ gateway = "start" /\ sup = "unborn"
  /\ backoff = BackoffMin /\ aged = FALSE
  /\ call = [u \in Users |-> NoCall]
  /\ calls = 0 /\ deaths = 0 /\ timeouts = 0 /\ spawnfails = 0

---------------------------------------------------------------------------
(* One IPC call: take the mutex, write a frame, read a frame.              *)

Request(u, kind) ==
  /\ call[u].at = "none"
  /\ calls' = calls + 1
  /\ call' = [call EXCEPT ![u] = [at |-> "lock", kind |-> kind, n |-> calls + 1]]

Return(u) == call' = [call EXCEPT ![u].at = "none"]

(* Faulty variant: a caller does not wait for the mutex.                   *)
WriteUnlocked(u) ==
  /\ call[u].at = "lock" /\ child = "running"
  /\ lock' = u
  /\ pending' = Append(pending, [kind |-> call[u].kind, n |-> call[u].n])
  /\ call' = [call EXCEPT ![u].at = "read"]
  /\ UNCHANGED <<child, replies, known, abandoned, skewed, alive, shutting_down, carrier_uris,
                 gateway, sup, backoff, aged, bounds>>

(* The mutex is free and there is a live child: hold it across the await.  *)
Write(u) ==
  /\ call[u].at = "lock" /\ lock = "free" /\ child = "running"
  /\ lock' = u
  /\ pending' = Append(pending, [kind |-> call[u].kind, n |-> call[u].n])
  /\ call' = [call EXCEPT ![u].at = "read"]
  /\ UNCHANGED <<child, replies, known, abandoned, skewed, alive, shutting_down, carrier_uris,
                 gateway, sup, backoff, aged, bounds>>

(* No child ("Lambda subprocess not running") or a broken pipe: Err.       *)
WriteErr(u) ==
  /\ call[u].at = "lock" /\ lock = "free" /\ child # "running"
  /\ Return(u)
  /\ UNCHANGED <<childVars, lock, alive, shutting_down, carrier_uris, gateway, sup,
                 backoff, aged, bounds>>

(* The first frame there is: Ok when it has the expected type, Err         *)
(* ("Unexpected response type") when not.  Either way it is consumed, the  *)
(* mutex released, and the caller goes on to its next message.  A buffered *)
(* read may take the frames behind it along, the last of them in part.     *)
Buffered(u) == call[u].kind \in BufferedKinds

Read(u) ==
  /\ call[u].at = "read" /\ replies # <<>> /\ ~skewed
  /\ \E k \in 1 .. IF Buffered(u) THEN Len(replies) ELSE 1 :
       /\ replies' = SubSeq(replies, k + 1, Len(replies))
       /\ skewed' \in IF Buffered(u) /\ (k < Len(replies) \/ pending # <<>>)
                     THEN BOOLEAN ELSE {FALSE}
  /\ Return(u) /\ lock' = "free"
  /\ UNCHANGED <<child, pending, known, abandoned, alive, shutting_down, carrier_uris,
                 gateway, sup, backoff, aged, bounds>>

(* On a skewed pipe the length is four bytes from anywhere: the read ends  *)
(* with an error, after any number of frames, or waits for bytes that may  *)
(* never come.                                                             *)
ReadSkewed(u) ==
  /\ call[u].at = "read" /\ skewed
  /\ \E k \in 0 .. Len(replies) : replies' = SubSeq(replies, k + 1, Len(replies))
  /\ Return(u) /\ lock' = "free"
  /\ UNCHANGED <<child, pending, known, abandoned, skewed, alive, shutting_down,
                 carrier_uris, gateway, sup, backoff, aged, bounds>>

(* It does end when the 300 s of the raw path are over, or at end of file. *)
SkewedReadEnds(u) == ReadSkewed(u) /\ (call[u].kind \in RawKinds \/ child # "running")

(* Faulty variant: the mutex stays held on an I/O error.                   *)
ReadErrKeepsLock(u) ==
  /\ call[u].at = "read" /\ replies = <<>> /\ child = "dead"
  /\ Return(u)
  /\ UNCHANGED <<childVars, lock, alive, shutting_down, carrier_uris, gateway, sup,
                 backoff, aged, bounds>>

(* The child died: end of file once its last frame is read.                *)
ReadErr(u) ==
  /\ call[u].at = "read" /\ replies = <<>> /\ child = "dead"
  /\ Return(u) /\ lock' = "free"
  /\ UNCHANGED <<childVars, alive, shutting_down, carrier_uris, gateway, sup,
                 backoff, aged, bounds>>

(* 300 s without a whole frame, on the raw path only: the caller leaves,   *)
(* perhaps with the first bytes of the frame; the rest will still arrive.  *)
ReadTimeout(u) ==
  /\ call[u].at = "read" /\ call[u].kind \in RawKinds /\ ~skewed
  /\ replies = <<>> /\ child = "running" /\ timeouts < MaxTimeouts
  /\ timeouts' = timeouts + 1
  /\ abandoned' = abandoned + 1 /\ skewed' \in BOOLEAN
  /\ Return(u) /\ lock' = "free"
  /\ UNCHANGED <<child, pending, replies, known, alive, shutting_down, carrier_uris,
                 gateway, sup, backoff, aged, calls, deaths, spawnfails>>

---------------------------------------------------------------------------
(* The child process (external).                                           *)

(* Lambda answers its requests in order, each with a frame of its type.    *)
Respond ==
  /\ child = "running" /\ pending # <<>>
  /\ pending' = Tail(pending)
  /\ replies' = Append(replies, Head(pending))
  /\ known' = (known \/ Head(pending).kind = "set_carriers")
  /\ UNCHANGED <<child, abandoned, skewed, lock, alive, shutting_down, carrier_uris, gateway,
                 sup, backoff, aged, call, bounds>>

(* Killed by the kernel, or a panic.                                       *)
Die ==
  /\ child = "running" /\ deaths < MaxDeaths
  /\ deaths' = deaths + 1
  /\ child' = "dead" /\ pending' = <<>>
  /\ UNCHANGED <<replies, known, abandoned, skewed, lock, alive, shutting_down, carrier_uris,
                 gateway, sup, backoff, aged, call, calls, timeouts, spawnfails>>

(* The child has been up for RESPAWN_STABLE_SECS.                          *)
Age ==
  /\ child = "running" /\ ~aged
  /\ aged' = TRUE
  /\ UNCHANGED <<childVars, lock, alive, shutting_down, carrier_uris, gateway, sup,
                 backoff, call, bounds>>

(* A fresh child with fresh pipes.                                         *)
spawn_child_into ==
  /\ child' = "running" /\ pending' = <<>> /\ replies' = <<>>
  /\ known' = FALSE /\ abandoned' = 0 /\ skewed' = FALSE

---------------------------------------------------------------------------
(* Gateway::run.                                                           *)

start ==
  /\ gateway = "start" /\ lock = "free" /\ child = "none"
  /\ spawn_child_into
  /\ alive' = TRUE
  /\ gateway' = "push"
  /\ UNCHANGED <<lock, shutting_down, carrier_uris, sup, backoff, aged, call, bounds>>

(* send_set_carriers_request caches the list before it sends.              *)
StartupPush ==
  /\ gateway = "push" /\ ~carrier_uris
  /\ carrier_uris' = TRUE
  /\ Request("gateway", "set_carriers")
  /\ UNCHANGED <<childVars, lock, alive, shutting_down, gateway, sup, backoff, aged,
                 deaths, timeouts, spawnfails>>

(* Whatever came of the push, the supervisor and the carriers start.       *)
SpawnTasks ==
  /\ gateway = "push" /\ carrier_uris /\ call["gateway"].at = "none"
  /\ gateway' = "serving" /\ sup' = "poll"
  /\ UNCHANGED <<childVars, lock, alive, shutting_down, carrier_uris, backoff, aged,
                 call, bounds>>

(* The dispatcher handles a message.                                       *)
Serve(kind) ==
  /\ gateway = "serving" /\ calls < MaxCalls
  /\ Request("gateway", kind)
  /\ UNCHANGED <<childVars, lock, alive, shutting_down, carrier_uris, gateway, sup,
                 backoff, aged, deaths, timeouts, spawnfails>>

(* Ctrl+C: every carrier task has ended, so the dispatcher makes no call.  *)
JoinTasks ==
  /\ gateway = "serving" /\ call["gateway"].at = "none"
  /\ gateway' = "stop"
  /\ UNCHANGED <<childVars, lock, alive, shutting_down, carrier_uris, sup, backoff, aged,
                 call, bounds>>

(* stop: the flag first, then the mutex, then kill.                        *)
stop_flag ==
  /\ gateway = "stop"
  /\ shutting_down' = TRUE
  /\ gateway' = "stop_lock"
  /\ UNCHANGED <<childVars, lock, alive, carrier_uris, sup, backoff, aged, call, bounds>>

stop_kill ==
  /\ gateway = "stop_lock" /\ lock = "free"
  /\ child' = "none" /\ pending' = <<>> /\ replies' = <<>>
  /\ gateway' = "stopped"
  /\ UNCHANGED <<known, abandoned, skewed, lock, alive, shutting_down, carrier_uris, sup, backoff,
                 aged, call, bounds>>

---------------------------------------------------------------------------
(* supervision_loop.                                                       *)

SupGoto(point) == sup' = point

(* Faulty variant: the flag is read after the poll sleep only.             *)
SupWakeReadsOnce ==
  /\ sup \in {"poll", "backoff"}
  /\ SupGoto(IF sup = "backoff" THEN "respawn"
             ELSE IF shutting_down THEN "returned" ELSE "check")
  /\ UNCHANGED <<childVars, lock, alive, shutting_down, carrier_uris, gateway, backoff,
                 aged, call, bounds>>

(* The two reads of shutting_down, after the poll sleep and after the      *)
(* backoff sleep.                                                          *)
SupWake ==
  /\ sup \in {"poll", "backoff"}
  /\ SupGoto(IF shutting_down THEN "returned"
             ELSE IF sup = "poll" THEN "check" ELSE "respawn")
  /\ UNCHANGED <<childVars, lock, alive, shutting_down, carrier_uris, gateway, backoff,
                 aged, call, bounds>>

(* try_wait under the mutex: an exited child is reaped and its handle,     *)
(* pipes included, dropped.                                                *)
SupCheck ==
  /\ sup = "check" /\ lock = "free"
  /\ child' = IF child = "dead" THEN "none" ELSE child
  /\ replies' = IF child = "dead" THEN <<>> ELSE replies
  /\ SupGoto(IF child = "running" THEN "up" ELSE "down")
  /\ UNCHANGED <<pending, known, abandoned, skewed, lock, alive, shutting_down, carrier_uris,
                 gateway, backoff, aged, call, bounds>>

SupUp ==
  /\ sup = "up"
  /\ alive' = TRUE
  /\ backoff' = IF aged THEN BackoffMin ELSE backoff
  /\ SupGoto("poll")
  /\ UNCHANGED <<childVars, lock, shutting_down, carrier_uris, gateway, aged, call, bounds>>

(* Faulty variant: a death is not reported.                                *)
SupDownSilent ==
  /\ sup = "down"
  /\ SupGoto("backoff")
  /\ UNCHANGED <<childVars, lock, alive, shutting_down, carrier_uris, gateway, backoff, aged,
                 call, bounds>>

SupDown ==
  /\ sup = "down"
  /\ alive' = FALSE
  /\ SupGoto("backoff")
  /\ UNCHANGED <<childVars, lock, shutting_down, carrier_uris, gateway, backoff, aged,
                 call, bounds>>

DoubledBackoff == IF 2 * backoff < BackoffMax THEN 2 * backoff ELSE BackoffMax

(* Under the mutex again; the flag is not read again.                      *)
SupRespawn ==
  /\ sup = "respawn" /\ lock = "free" /\ child = "none"
  /\ spawn_child_into
  /\ SupGoto("respawned")
  /\ UNCHANGED <<lock, alive, shutting_down, carrier_uris, gateway, backoff, aged, call,
                 bounds>>

(* Faulty variant: the supervisor gives up when a respawn fails.           *)
SupGivesUp ==
  /\ sup = "respawn" /\ lock = "free" /\ child = "none"
  /\ spawnfails < MaxSpawnFails /\ spawnfails' = spawnfails + 1
  /\ backoff' = DoubledBackoff
  /\ SupGoto("returned")
  /\ UNCHANGED <<childVars, lock, alive, shutting_down, carrier_uris, gateway, aged, call,
                 calls, deaths, timeouts>>

SupRespawnFails ==
  /\ sup = "respawn" /\ lock = "free" /\ child = "none"
  /\ spawnfails < MaxSpawnFails /\ spawnfails' = spawnfails + 1
  /\ backoff' = DoubledBackoff
  /\ SupGoto("poll")
  /\ UNCHANGED <<childVars, lock, alive, shutting_down, carrier_uris, gateway, aged, call,
                 calls, deaths, timeouts>>

(* Faulty variant: the carrier list is not pushed to the new child.        *)
SupRespawnedNoPush ==
  /\ sup = "respawned"
  /\ alive' = TRUE /\ aged' = FALSE
  /\ SupGoto("push")
  /\ UNCHANGED <<childVars, lock, shutting_down, carrier_uris, gateway, backoff, call,
                 bounds>>

(* The mutex is released; then the flag, and the re-push of the list.      *)
SupRespawned ==
  /\ sup = "respawned"
  /\ alive' = TRUE /\ aged' = FALSE
  /\ SupGoto("push")
  /\ IF carrier_uris
       THEN Request("supervisor", "set_carriers")
       ELSE UNCHANGED <<call, calls>>
  /\ UNCHANGED <<childVars, lock, shutting_down, carrier_uris, gateway, backoff,
                 deaths, timeouts, spawnfails>>

(* The push returned, Ok or Err alike.                                     *)
SupPushed ==
  /\ sup = "push" /\ call["supervisor"].at = "none"
  /\ backoff' = DoubledBackoff
  /\ SupGoto("poll")
  /\ UNCHANGED <<childVars, lock, alive, shutting_down, carrier_uris, gateway, aged, call,
                 bounds>>

---------------------------------------------------------------------------
Ipc(u) == Write(u) \/ WriteErr(u) \/ Read(u) \/ ReadErr(u) \/ SkewedReadEnds(u)
Startup == start \/ StartupPush \/ SpawnTasks
stop == stop_flag \/ stop_kill
supervision_loop == \/ SupWake \/ SupCheck \/ SupUp \/ SupDown
                    \/ SupRespawn \/ SupRespawned \/ SupPushed

Next == \/ Startup \/ stop \/ supervision_loop \/ SupRespawnFails
        \/ \E kind \in {"witness", "query", "redeem"} : Serve(kind)
        \/ JoinTasks
        \/ \E u \in Users : Ipc(u) \/ ReadTimeout(u) \/ ReadSkewed(u)
        \/ Respond \/ Die \/ Age

Spec == Init /\ [][Next]_vars

(* Each task is scheduled; the tokio mutex is first-come first-served, so  *)
(* a waiter gets it although others keep taking it (SF).  Lambda answers   *)
(* (its part of the contract).  Nothing obliges it to die, the gateway to  *)
(* stop or a read to time out; on a skewed pipe only the read of the raw   *)
(* path is sure to end.                                                    *)
FairSpec == /\ Spec
            /\ WF_vars(Startup) /\ WF_vars(Respond)
            /\ SF_vars(stop) /\ SF_vars(supervision_loop)
            /\ \A u \in Users : SF_vars(Ipc(u))

---------------------------------------------------------------------------
(* Properties.                                                             *)

(* The frame a caller is about to take as its answer answers its own       *)
(* request, with deaths, respawns and two callers, unless a read on this   *)
(* very child was given up before (send_raw_request's own warning: "pipe   *)
(* state now suspect").                                                    *)
OwnReply ==
  \A u \in Users :
    call[u].at = "read" /\ replies # <<>> /\ abandoned = 0
      => Head(replies) = [kind |-> call[u].kind, n |-> call[u].n]

(* What the answer of a healthy pipe rests on, and what a timeout costs.   *)
(* Outside a call a live child's pipes are at a frame boundary and empty   *)
(* as long as nobody gave up a read on it; then they hold one left-over    *)
(* answer at most per read that was given up, so that a caller may get the *)
(* answer of a call before its own; unless a read ended inside a frame     *)
(* (the timeout of send_raw_request, or the read-ahead of a redeem, ack or *)
(* genesis call over left-over answers), which only a new child repairs.   *)
PipeLag ==
  lock = "free" /\ child = "running" =>
    /\ abandoned = 0 => ~skewed
    /\ ~skewed => Len(pending) + Len(replies) <= abandoned

(* The kill -9 of KI#80: whatever the child was doing and whoever held the *)
(* mutex, a dead child is replaced, unless the gateway is shutting down.   *)
RespawnEventually == child # "running" ~> (child = "running" \/ shutting_down)

(* A child that stays up learns the carrier list, the respawned one too:   *)
(* "the one boot-time input lambda does not recover from its own storage". *)
(* Not on a skewed pipe, where a witness may wait for ever with the mutex  *)
(* held, and the push behind it.                                           *)
CarriersRepushed ==
  child = "running" ~> (known \/ child # "running" \/ shutting_down \/ skewed)

(* /health follows the child: a death is reported, a recovery is too.      *)
AliveFlagConverges ==
  /\ child = "dead" ~> (~alive \/ shutting_down)
  /\ child = "running" ~> (alive \/ child = "dead" \/ shutting_down)

(* Shutdown is not held up by a call in progress or a respawn under way.   *)
ShutdownCompletes == shutting_down ~> (gateway = "stopped")

(* How far the race between stop and a respawn under way can go: once the  *)
(* flag is set, a supervisor that is not already past its second read of   *)
(* it never starts a child, so that stop is followed by one child at most; *)
(* and a child that is gone then stays gone, whatever is called, times out *)
(* or is still being answered.                                             *)
StopIsFinal ==
  /\ [](shutting_down /\ sup # "respawn" => [](sup # "respawn"))
  /\ [](shutting_down /\ sup # "respawn" /\ child = "none" => [](child = "none"))

(* "stop() is deliberate: the supervisor must NOT resurrect a child that   *)
(* was killed on purpose" (antie/src/lambda_client.rs:1684-1685).          *)
StaysStopped == gateway = "stopped" => child # "running"
=============================================================================
