----------------------- MODULE LambdaSupervisorProofs -----------------------
(***************************************************************************)
(* Proofs about LambdaSupervisor, for any number of calls, deaths of the   *)
(* child, timeouts and failed respawns, and any backoff: the state is well *)
(* formed; a caller gets the answer to its own request as long as no read  *)
(* on this child was given up; and a read that was given up leaves at most *)
(* one answer behind in this child's pipes, or a pipe off its frames.      *)
(***************************************************************************)
EXTENDS LambdaSupervisor, TLAPS

(* Every action, by the part of the program that takes it.                 *)
Steps ==
  \/ start \/ StartupPush \/ SpawnTasks \/ stop_flag \/ stop_kill \/ JoinTasks
  \/ (\E kind \in {"witness", "query", "redeem"} : Serve(kind))
  \/ SupWake \/ SupCheck \/ SupUp \/ SupDown
  \/ SupRespawn \/ SupRespawnFails \/ SupRespawned \/ SupPushed
  \/ (\E u \in Users : \/ Write(u) \/ WriteErr(u) \/ Read(u) \/ ReadErr(u) \/ ReadTimeout(u)
                       \/ ReadSkewed(u))
  \/ Respond \/ Die \/ Age

(* Next is these actions.                                                  *)
LEMMA NextSteps == Next => Steps
<1> QED BY DEF Next, Steps, Startup, stop, supervision_loop, Ipc, SkewedReadEnds

(* The records of a call and of a frame, and the doubled delay, have their *)
(* types.                                                                  *)
LEMMA DoubledInRange ==
  ASSUME backoff \in BackoffMin..BackoffMax
  PROVE  DoubledBackoff \in BackoffMin..BackoffMax
<1> QED BY BackoffAssumption DEF DoubledBackoff

(* A request is a call of its kind with the next number.                   *)
LEMMA RequestType ==
  ASSUME call \in [Users -> Call], calls \in Nat,
         NEW u \in Users, NEW kind \in Kinds, Request(u, kind)
  PROVE  call' \in [Users -> Call] /\ calls' \in Nat
<1>1. [at |-> "lock", kind |-> kind, n |-> calls + 1] \in Call
  BY DEF Call
<1> QED BY <1>1 DEF Request

(* What is needed of sequences of frames.                                  *)
LEMMA FrameSeqs ==
  /\ <<>> \in Seq(Frame)
  /\ \A s \in Seq(Frame) :
       /\ Len(s) \in Nat
       /\ Len(s) = 0 => s = <<>>
       /\ s # <<>> => /\ Tail(s) \in Seq(Frame)
                       /\ Len(s) > 0 /\ Len(Tail(s)) = Len(s) - 1
<1>1. <<>> \in Seq(Frame)
  OBVIOUS
<1>2. ASSUME NEW s \in Seq(Frame)
      PROVE  Len(s) \in Nat /\ (Len(s) = 0 => s = <<>>)
  OBVIOUS
<1>3. ASSUME NEW s \in Seq(Frame), s # <<>>
      PROVE  /\ Tail(s) \in Seq(Frame)
             /\ Len(s) > 0 /\ Len(Tail(s)) = Len(s) - 1
  BY <1>2, <1>3
<1> QED BY <1>1, <1>2, <1>3

(* A frame that is put in is the last.                                     *)
LEMMA FrameAppend ==
  ASSUME NEW s \in Seq(Frame), NEW f \in Frame
  PROVE  /\ Len(Append(s, f)) = Len(s) + 1 /\ Append(s, f)[Len(s) + 1] = f
         /\ Append(s, f) # <<>>
<1> QED OBVIOUS

(* A read takes the first k frames.                                        *)
LEMMA FramesTaken ==
  ASSUME NEW s \in Seq(Frame), NEW k \in 0 .. Len(s)
  PROVE  /\ SubSeq(s, k + 1, Len(s)) \in Seq(Frame)
         /\ Len(SubSeq(s, k + 1, Len(s))) = Len(s) - k
<1> QED OBVIOUS

(* At least one frame less in one of two pipes.                            *)
LEMMA OneTaken ==
  \A a \in Nat, b \in Nat, c \in Nat :
    a + b <= c + 1 => \A k \in 1..b : a + (b - k) <= c
<1> QED OBVIOUS

(* Two lengths, one of them positive, that make one.                       *)
LEMMA SumIsOne == \A a \in Nat \ {0}, b \in Nat : a + b <= 1 => a = 1 /\ b = 0
<1> QED OBVIOUS

(* The client begins unstarted.                                            *)
LEMMA TypeInit == Init => TypeOK
<1> SUFFICES ASSUME Init PROVE TypeOK
  OBVIOUS
<1>1. NoCall \in Call
  BY DEF NoCall, Call, Kinds, RawKinds, BufferedKinds
<1>2. call \in [Users -> Call]
  BY <1>1 DEF Init
<1>3. pending \in Seq(Frame) /\ replies \in Seq(Frame)
  BY FrameSeqs DEF Init
<1>4. /\ backoff \in BackoffMin..BackoffMax
      /\ deaths \in 0..MaxDeaths /\ timeouts \in 0..MaxTimeouts
      /\ spawnfails \in 0..MaxSpawnFails
  BY BackoffAssumption, BoundsAssumption DEF Init
<1> QED BY <1>2, <1>3, <1>4 DEF Init, TypeOK, GatewayPoints, SupPoints

(* The steps of the gateway and of the supervisor keep the types.          *)
LEMMA TypeTasks ==
  ASSUME TypeOK,
         \/ start \/ StartupPush \/ SpawnTasks \/ stop_flag \/ stop_kill \/ JoinTasks
         \/ (\E kind \in {"witness", "query", "redeem"} : Serve(kind))
         \/ SupWake \/ SupCheck \/ SupUp \/ SupDown
         \/ SupRespawn \/ SupRespawnFails \/ SupRespawned \/ SupPushed
  PROVE  TypeOK'
<1> USE DEF TypeOK, childVars, bounds, GatewayPoints, SupPoints, SupGoto
<1>1. CASE start
  <2>1. pending' \in Seq(Frame) /\ replies' \in Seq(Frame)
    BY <1>1, FrameSeqs DEF start, spawn_child_into
  <2> QED BY <1>1, <2>1 DEF start, spawn_child_into
<1>2. CASE StartupPush
  <2>1. "gateway" \in Users /\ "set_carriers" \in Kinds
    BY DEF Users, Kinds, RawKinds, BufferedKinds
  <2>2. call' \in [Users -> Call] /\ calls' \in Nat
    BY <1>2, <2>1, RequestType DEF StartupPush
  <2> QED BY <1>2, <2>2 DEF StartupPush
<1>3. CASE SpawnTasks \/ stop_flag \/ JoinTasks
  <2>1. CASE SpawnTasks
    BY <2>1 DEF SpawnTasks
  <2>2. CASE stop_flag
    BY <2>2 DEF stop_flag
  <2>3. CASE JoinTasks
    BY <2>3 DEF JoinTasks
  <2> QED BY <1>3, <2>1, <2>2, <2>3
<1>12. CASE stop_kill
  <2>1. pending' \in Seq(Frame) /\ replies' \in Seq(Frame)
    BY <1>12, FrameSeqs DEF stop_kill
  <2> QED BY <1>12, <2>1 DEF stop_kill
<1>4. ASSUME NEW kind \in {"witness", "query", "redeem"}, Serve(kind)
      PROVE  TypeOK'
  <2>1. "gateway" \in Users /\ kind \in Kinds
    BY <1>4 DEF Users, Kinds, RawKinds, BufferedKinds
  <2>2. call' \in [Users -> Call] /\ calls' \in Nat
    BY <1>4, <2>1, RequestType DEF Serve
  <2> QED BY <1>4, <2>2 DEF Serve
<1>5. CASE SupWake \/ SupDown
  <2>1. CASE SupWake
    <3>1. sup' \in SupPoints
      BY <2>1 DEF SupWake
    <3> QED BY <2>1, <3>1 DEF SupWake
  <2>2. CASE SupDown
    BY <2>2 DEF SupDown
  <2> QED BY <1>5, <2>1, <2>2
<1>6. CASE SupCheck
  <2>1. replies' \in Seq(Frame)
    BY <1>6, FrameSeqs DEF SupCheck
  <2> QED BY <1>6, <2>1 DEF SupCheck
<1>7. CASE SupUp
  BY <1>7, BackoffAssumption DEF SupUp
<1>8. CASE SupRespawn
  <2>1. pending' \in Seq(Frame) /\ replies' \in Seq(Frame)
    BY <1>8, FrameSeqs DEF SupRespawn, spawn_child_into
  <2> QED BY <1>8, <2>1 DEF SupRespawn, spawn_child_into
<1>9. CASE SupRespawnFails
  BY <1>9, DoubledInRange, BoundsAssumption DEF SupRespawnFails
<1>10. CASE SupRespawned
  <2>1. "supervisor" \in Users /\ "set_carriers" \in Kinds
    BY DEF Users, Kinds, RawKinds, BufferedKinds
  <2>2. call' \in [Users -> Call] /\ calls' \in Nat
    BY <1>10, <2>1, RequestType DEF SupRespawned
  <2> QED BY <1>10, <2>2 DEF SupRespawned
<1>11. CASE SupPushed
  BY <1>11, DoubledInRange DEF SupPushed
<1> QED BY <1>1, <1>2, <1>3, <1>4, <1>5, <1>6, <1>7, <1>8, <1>9, <1>10, <1>11, <1>12

(* A call that moves on is still a call.                                   *)
LEMMA CallAt ==
  ASSUME call \in [Users -> Call], NEW u \in Users, NEW p \in {"none", "lock", "read"}
  PROVE  [call EXCEPT ![u].at = p] \in [Users -> Call]
<1> QED BY DEF Call

(* A read takes at least one frame; it ends inside a frame only when there *)
(* is another one behind.                                                  *)
LEMMA ReadTakes ==
  ASSUME TypeOK, NEW u \in Users, Read(u)
  PROVE  \E k \in 1 .. Len(replies) :
           /\ replies' = SubSeq(replies, k + 1, Len(replies))
           /\ skewed' \in BOOLEAN
           /\ skewed' => k < Len(replies) \/ pending # <<>>
<1>1. replies \in Seq(Frame) /\ replies # <<>>
  BY DEF TypeOK, Read
<1>2. Len(replies) \in Nat /\ Len(replies) > 0
  BY <1>1, FrameSeqs
<1>3. CASE Buffered(u)
  BY <1>2, <1>3 DEF Read
<1>4. CASE ~Buffered(u)
  <2>1. 1 \in 1 .. Len(replies)
    BY <1>2
  <2>2. replies' = SubSeq(replies, 1 + 1, Len(replies)) /\ skewed' = FALSE
    BY <1>4 DEF Read
  <2> QED BY <2>1, <2>2
<1> QED BY <1>3, <1>4

(* The steps of a call and of the child keep the types.                    *)
LEMMA TypePipe ==
  ASSUME TypeOK,
         \/ (\E u \in Users : \/ Write(u) \/ WriteErr(u) \/ Read(u) \/ ReadErr(u)
                              \/ ReadTimeout(u) \/ ReadSkewed(u))
         \/ Respond \/ Die \/ Age
  PROVE  TypeOK'
<1> USE DEF childVars, bounds
<1>1. ASSUME NEW u \in Users, Write(u)
      PROVE  TypeOK'
  <2>1. [kind |-> call[u].kind, n |-> call[u].n] \in Frame
    BY DEF TypeOK, Call, Frame
  <2>2. pending' \in Seq(Frame)
    BY <1>1, <2>1 DEF Write, TypeOK
  <2>3. call' \in [Users -> Call]
    BY <1>1, CallAt DEF Write, TypeOK
  <2> QED BY <1>1, <2>2, <2>3 DEF Write, TypeOK
<1>2. ASSUME NEW u \in Users,
             WriteErr(u) \/ Read(u) \/ ReadErr(u) \/ ReadTimeout(u) \/ ReadSkewed(u)
      PROVE  TypeOK'
  <2>1. call' \in [Users -> Call]
    BY <1>2, CallAt DEF WriteErr, Read, ReadErr, ReadTimeout, ReadSkewed, Return, TypeOK
  <2>2. CASE WriteErr(u) \/ ReadErr(u)
    BY <2>1, <2>2 DEF WriteErr, ReadErr, TypeOK
  <2>3. CASE Read(u)
    <3>1. replies' \in Seq(Frame) /\ skewed' \in BOOLEAN
      <4>1. PICK k \in 1 .. Len(replies) :
              replies' = SubSeq(replies, k + 1, Len(replies)) /\ skewed' \in BOOLEAN
        BY <2>3, ReadTakes
      <4>2. replies \in Seq(Frame) /\ k \in 0 .. Len(replies)
        BY DEF TypeOK
      <4> QED BY <4>1, <4>2, FramesTaken
    <3> QED BY <2>1, <2>3, <3>1 DEF Read, TypeOK
  <2>4. CASE ReadTimeout(u)
    BY <2>1, <2>4, BoundsAssumption DEF ReadTimeout, TypeOK
  <2>5. CASE ReadSkewed(u)
    <3>1. replies' \in Seq(Frame)
      BY <2>5, FramesTaken DEF ReadSkewed, TypeOK
    <3> QED BY <2>1, <2>5, <3>1 DEF ReadSkewed, TypeOK
  <2> QED BY <1>2, <2>2, <2>3, <2>4, <2>5
<1>3. CASE Respond
  <2>1. pending' \in Seq(Frame) /\ replies' \in Seq(Frame)
    BY <1>3 DEF Respond, TypeOK
  <2> QED BY <1>3, <2>1 DEF Respond, TypeOK
<1>4. CASE Die
  <2>1. pending' \in Seq(Frame)
    BY <1>4, FrameSeqs DEF Die
  <2> QED BY <1>4, <2>1, BoundsAssumption DEF Die, TypeOK
<1>5. CASE Age
  BY <1>5 DEF Age, TypeOK
<1> QED BY <1>1, <1>2, <1>3, <1>4, <1>5

(* Every step keeps the types.                                             *)
LEMMA TypeStep == TypeOK /\ [Next]_vars => TypeOK'
<1> SUFFICES ASSUME TypeOK, [Next]_vars PROVE TypeOK'
  OBVIOUS
<1>1. CASE UNCHANGED vars
  BY <1>1 DEF TypeOK, vars
<1>2. CASE Next
  BY <1>2, NextSteps, TypeTasks, TypePipe DEF Steps
<1> QED BY <1>1, <1>2

(* The types hold after every step; among them, the respawn delay stays    *)
(* between its two bounds however often a respawn fails (supervision_loop).*)
THEOREM SupervisorTypeCorrect == Spec => []TypeOK
<1> QED BY TypeInit, TypeStep, PTL DEF Spec

---------------------------------------------------------------------------
(* The pipes.                                                              *)

FrameOf(u) == [kind |-> call[u].kind, n |-> call[u].n]

(* The mutex is held by the user that reads, and by nobody else.           *)
LockInv == \A u \in Users : lock = u <=> call[u].at = "read"

(* The frame that went in last, of those not yet read.                     *)
NewestIs(f) ==
  IF pending # <<>> THEN pending[Len(pending)] = f ELSE replies[Len(replies)] = f

(* In the pipes of a live child there is at most one frame per read that   *)
(* was given up, and during a call one more, the caller's own, behind all  *)
(* of them; only a child on which a read was given up has a skewed pipe.   *)
PipeInv ==
  child = "running" =>
    /\ abandoned = 0 => ~skewed
    /\ ~skewed =>
         /\ lock = "free" => Len(pending) + Len(replies) <= abandoned
         /\ \A u \in Users :
              lock = u => /\ Len(pending) + Len(replies) <= abandoned + 1
                          /\ NewestIs(FrameOf(u))

IInv == TypeOK /\ LockInv /\ PipeInv /\ OwnReply

(* A step that leaves the pipes, the mutex and every reading call alone.   *)
LEMMA PipeQuiet ==
  ASSUME IInv, UNCHANGED <<child, pending, replies, abandoned, skewed, lock>>,
         \A u \in Users : \/ UNCHANGED call[u]
                          \/ call[u].at # "read" /\ call'[u].at # "read"
  PROVE  LockInv' /\ PipeInv' /\ OwnReply'
<1>1. LockInv'
  BY DEF IInv, LockInv
<1>2. \A u \in Users : lock = u => FrameOf(u)' = FrameOf(u)
  BY DEF IInv, LockInv, FrameOf
<1>3. PipeInv'
  BY <1>2 DEF IInv, PipeInv, NewestIs
<1>4. OwnReply'
  BY DEF IInv, OwnReply
<1> QED BY <1>1, <1>3, <1>4

(* While the mutex is free nobody reads, so only the lengths matter.       *)
LEMMA PipeFree ==
  ASSUME LockInv', lock' = "free",
         child' = "running" =>
           /\ abandoned' = 0 => ~skewed'
           /\ ~skewed' => Len(pending') + Len(replies') <= abandoned'
  PROVE  PipeInv' /\ OwnReply'
<1>1. \A u \in Users : lock' # u /\ call'[u].at # "read"
  BY DEF LockInv, Users
<1> QED BY <1>1 DEF PipeInv, OwnReply

(* Every step keeps it.                                                    *)
LEMMA PipeStep ==
  ASSUME IInv, [Next]_vars
  PROVE  LockInv' /\ PipeInv' /\ OwnReply'
<1>0. /\ TypeOK /\ LockInv /\ PipeInv /\ OwnReply
      /\ pending \in Seq(Frame) /\ replies \in Seq(Frame) /\ abandoned \in Nat
      /\ call \in [Users -> Call]
  BY DEF IInv, TypeOK
<1>1. CASE \/ StartupPush \/ SpawnTasks \/ stop_flag \/ JoinTasks
           \/ (\E kind \in {"witness", "query", "redeem"} : Serve(kind))
           \/ SupWake \/ SupUp \/ SupDown \/ SupRespawnFails \/ SupRespawned \/ SupPushed
           \/ Age \/ UNCHANGED vars
  <2>1. UNCHANGED <<child, pending, replies, abandoned, skewed, lock>>
    BY <1>1 DEF StartupPush, SpawnTasks, stop_flag, JoinTasks, Serve, SupWake, SupUp, SupDown,
                SupRespawnFails, SupRespawned, SupPushed, Age, childVars, vars
  <2>2. \/ UNCHANGED call
        \/ \E u \in Users, kind \in Kinds : Request(u, kind)
    BY <1>1 DEF StartupPush, SpawnTasks, stop_flag, JoinTasks, Serve, SupWake, SupUp, SupDown,
                SupRespawnFails, SupRespawned, SupPushed, Age, vars, Users, Kinds, RawKinds, BufferedKinds
  <2>3. \A u \in Users : \/ UNCHANGED call[u]
                         \/ call[u].at # "read" /\ call'[u].at # "read"
    <3>1. CASE UNCHANGED call
      BY <3>1
    <3>2. ASSUME NEW v \in Users, NEW kind \in Kinds, Request(v, kind), NEW u \in Users
          PROVE  \/ UNCHANGED call[u]
                 \/ call[u].at # "read" /\ call'[u].at # "read"
      BY <1>0, <3>2 DEF Request
    <3> QED BY <2>2, <3>1, <3>2
  <2> QED BY <2>1, <2>3, PipeQuiet
<1>2. CASE start \/ SupRespawn
  <2>1. /\ lock' = "free" /\ lock = "free" /\ UNCHANGED call
        /\ pending' = <<>> /\ replies' = <<>> /\ abandoned' = 0 /\ skewed' = FALSE
    BY <1>2 DEF start, SupRespawn, spawn_child_into
  <2>2. LockInv'
    BY <1>0, <2>1 DEF LockInv
  <2> QED BY <2>1, <2>2, PipeFree
<1>3. CASE stop_kill \/ SupCheck
  <2>1. /\ lock' = "free" /\ lock = "free" /\ UNCHANGED <<call, abandoned, skewed>>
        /\ child' = "running" => child = "running" /\ UNCHANGED <<pending, replies>>
    BY <1>3 DEF stop_kill, SupCheck
  <2>2. LockInv'
    BY <1>0, <2>1 DEF LockInv
  <2>3. child' = "running" =>
          /\ abandoned' = 0 => ~skewed'
          /\ ~skewed' => Len(pending') + Len(replies') <= abandoned'
    BY <1>0, <2>1 DEF PipeInv
  <2> QED BY <2>1, <2>2, <2>3, PipeFree
<1>4. ASSUME NEW u \in Users, Write(u)
      PROVE  LockInv' /\ PipeInv' /\ OwnReply'
  <2>1. /\ lock = "free" /\ lock' = u /\ child = "running" /\ child' = "running"
        /\ pending' = Append(pending, FrameOf(u))
        /\ call' = [call EXCEPT ![u].at = "read"]
        /\ UNCHANGED <<replies, abandoned, skewed>>
    BY <1>4 DEF Write, FrameOf
  <2>2. FrameOf(u) \in Frame
    BY <1>0 DEF FrameOf, Call, Frame
  <2>3. FrameOf(u)' = FrameOf(u)
    BY <1>0, <2>1 DEF FrameOf, Call
  <2>4. /\ Len(pending') = Len(pending) + 1 /\ pending'[Len(pending')] = FrameOf(u)
        /\ pending' # <<>>
    <3>1. pending' = Append(pending, FrameOf(u))
      BY <2>1
    <3>2. pending \in Seq(Frame)
      BY <1>0
    <3> QED BY <2>2, <3>1, <3>2, FrameAppend
  <2>5. /\ abandoned = 0 => ~skewed
        /\ ~skewed => Len(pending) + Len(replies) <= abandoned
        /\ Len(pending) \in Nat /\ Len(replies) \in Nat
    BY <1>0, <2>1, FrameSeqs DEF PipeInv
  <2>6. LockInv'
    BY <1>0, <2>1 DEF LockInv, Users, Call
  <2>7. PipeInv'
    <3>1. lock' # "free"
      BY <2>1 DEF Users
    <3>2. ~skewed => Len(pending') + Len(replies') <= abandoned' + 1
      <4>1. UNCHANGED <<replies, abandoned>> /\ Len(pending') = Len(pending) + 1
        BY <2>1, <2>4
      <4>2. abandoned \in Nat
        BY <1>0
      <4> QED BY <2>5, <4>1, <4>2
    <3> QED BY <2>1, <2>3, <2>4, <2>5, <3>1, <3>2 DEF PipeInv, NewestIs
  <2>8. OwnReply'
    <3>1. abandoned = 0 => replies = <<>>
      <4>1. abandoned = 0 => Len(replies) = 0
        BY <2>5
      <4> QED BY <1>0, <4>1, FrameSeqs
    <3> QED BY <2>1, <3>1 DEF OwnReply
  <2> QED BY <2>6, <2>7, <2>8
<1>5. ASSUME NEW u \in Users, WriteErr(u)
      PROVE  LockInv' /\ PipeInv' /\ OwnReply'
  <2>1. UNCHANGED <<child, pending, replies, abandoned, skewed, lock>>
    BY <1>5 DEF WriteErr, childVars
  <2>2. \A v \in Users : \/ UNCHANGED call[v]
                         \/ call[v].at # "read" /\ call'[v].at # "read"
    BY <1>0, <1>5 DEF WriteErr, Return, Call
  <2> QED BY <2>1, <2>2, PipeQuiet
<1>6. ASSUME NEW u \in Users, Read(u) \/ ReadErr(u) \/ ReadTimeout(u) \/ ReadSkewed(u)
      PROVE  LockInv' /\ PipeInv' /\ OwnReply'
  <2>1. /\ lock = u /\ lock' = "free" /\ call' = [call EXCEPT ![u].at = "none"]
        /\ UNCHANGED <<child, pending>>
    BY <1>0, <1>6 DEF Read, ReadErr, ReadTimeout, ReadSkewed, Return, LockInv, childVars
  <2>2. LockInv'
    BY <1>0, <2>1 DEF LockInv, Users, Call
  <2>3. child = "running" =>
          /\ abandoned = 0 => ~skewed
          /\ ~skewed => Len(pending) + Len(replies) <= abandoned + 1
    BY <1>0, <2>1 DEF PipeInv
  <2>0. Len(pending) \in Nat /\ Len(replies) \in Nat /\ abandoned \in Nat
    BY <1>0, FrameSeqs
  <2>4. child' = "running" =>
          /\ abandoned' = 0 => ~skewed'
          /\ ~skewed' => Len(pending') + Len(replies') <= abandoned'
    <3>1. CASE Read(u)
      <4>1. PICK k \in 1 .. Len(replies) :
              /\ replies' = SubSeq(replies, k + 1, Len(replies))
              /\ skewed' => k < Len(replies) \/ pending # <<>>
        BY <1>0, <3>1, ReadTakes
      <4>2. k \in 0 .. Len(replies)
        BY <2>0
      <4>3. replies \in Seq(Frame) /\ pending \in Seq(Frame)
        BY <1>0
      <4>4. Len(replies') = Len(replies) - k
        BY <4>1, <4>2, <4>3, FramesTaken
      <4>5. ~skewed /\ UNCHANGED <<abandoned, pending, child>>
        BY <3>1 DEF Read
      <4>6. child = "running" => Len(pending) + (Len(replies) - k) <= abandoned
        BY <2>0, <2>3, <4>5, OneTaken
      <4>7. child = "running" /\ abandoned = 0 => ~skewed'
        <5> SUFFICES ASSUME child = "running", abandoned = 0 PROVE ~skewed'
          OBVIOUS
        <5>1. Len(pending) + Len(replies) <= 1
          BY <2>0, <2>3, <4>5
        <5>2. Len(pending) = 0 /\ k = Len(replies)
          BY <2>0, <4>2, <5>1
        <5>3. pending = <<>>
          BY <4>3, <5>2, FrameSeqs
        <5> QED BY <2>0, <4>1, <5>2, <5>3
      <4> QED BY <4>4, <4>5, <4>6, <4>7
    <3>2. CASE ReadErr(u)
      BY <3>2 DEF ReadErr, childVars
    <3>3. CASE ReadTimeout(u)
      <4>1. abandoned' = abandoned + 1 /\ ~skewed /\ UNCHANGED <<pending, replies, child>>
        BY <3>3 DEF ReadTimeout
      <4> QED BY <2>0, <2>3, <4>1
    <3>4. CASE ReadSkewed(u)
      BY <2>3, <3>4 DEF ReadSkewed
    <3> QED BY <1>6, <3>1, <3>2, <3>3, <3>4
  <2> QED BY <2>1, <2>2, <2>4, PipeFree
<1>7. CASE Respond
  <2>1. /\ child = "running" /\ child' = "running" /\ pending # <<>>
        /\ pending' = Tail(pending) /\ replies' = Append(replies, Head(pending))
        /\ UNCHANGED <<abandoned, skewed, lock, call>>
    BY <1>7 DEF Respond
  <2>2. Head(pending) \in Frame /\ Head(pending) = pending[1]
    BY <1>0, <2>1
  <2>3. /\ Len(pending') = Len(pending) - 1 /\ Len(replies') = Len(replies) + 1
        /\ replies'[Len(replies')] = pending[1]
        /\ \A i \in 1..Len(pending') : pending'[i] = pending[i + 1]
    BY <1>0, <2>1, <2>2
  <2>4. Len(pending) \in Nat \ {0} /\ Len(replies) \in Nat
    BY <1>0, <2>1
  <2>5. LockInv'
    BY <1>0, <2>1 DEF LockInv
  <2>6. \A u \in Users : FrameOf(u)' = FrameOf(u)
    BY <2>1 DEF FrameOf
  <2>7. ASSUME NEW u \in Users, lock = u, ~skewed
        PROVE  NewestIs(FrameOf(u))'
    <3>1. pending[Len(pending)] = FrameOf(u)
      BY <1>0, <2>1, <2>7 DEF PipeInv, NewestIs
    <3>2. CASE Len(pending) = 1
      BY <1>0, <2>1, <2>3, <2>6, <3>1, <3>2 DEF NewestIs
    <3>3. CASE Len(pending) > 1
      <4>1. pending' # <<>> /\ pending'[Len(pending')] = pending[Len(pending)]
        BY <2>3, <2>4, <3>3
      <4> QED BY <2>6, <3>1, <4>1 DEF NewestIs
    <3>4. Len(pending) = 1 \/ Len(pending) > 1
      BY <2>4
    <3> QED BY <3>2, <3>3, <3>4
  <2>8. PipeInv'
    <3>1. Len(pending') + Len(replies') = Len(pending) + Len(replies)
      BY <2>3, <2>4
    <3> QED BY <1>0, <2>1, <2>7, <3>1 DEF PipeInv
  <2>9. OwnReply'
    <3> SUFFICES ASSUME NEW u \in Users, call[u].at = "read", abandoned = 0
                 PROVE  Head(replies') = FrameOf(u)
      BY <2>1 DEF OwnReply, FrameOf
    <3>1. lock = u
      BY <1>0 DEF LockInv
    <3>2. Len(pending) + Len(replies) <= 1 /\ pending[Len(pending)] = FrameOf(u)
      BY <1>0, <2>1, <3>1 DEF PipeInv, NewestIs
    <3>3. Len(pending) = 1 /\ replies = <<>>
      <4>0. Len(pending) + Len(replies) <= 1
        BY <3>2
      <4>1. Len(pending) = 1 /\ Len(replies) = 0
        BY <2>4, <4>0, SumIsOne
      <4> QED BY <1>0, <4>1, FrameSeqs
    <3> QED BY <1>0, <2>1, <2>2, <3>2, <3>3
  <2> QED BY <2>5, <2>8, <2>9
<1>8. CASE Die
  <2>1. child' = "dead" /\ UNCHANGED <<replies, abandoned, lock, call>>
    BY <1>8 DEF Die
  <2> QED BY <1>0, <2>1 DEF LockInv, PipeInv, OwnReply
<1> QED BY <1>1, <1>2, <1>3, <1>4, <1>5, <1>6, <1>7, <1>8, NextSteps DEF Steps

(* The inductive invariant holds after every step.                         *)
LEMMA PipeCorrect == Spec => []IInv
<1>1. Init => IInv
  <2>1. Init => LockInv /\ PipeInv /\ OwnReply
    BY DEF Init, LockInv, PipeInv, OwnReply, NoCall, Users
  <2> QED BY <2>1, TypeInit DEF IInv
<1>2. IInv /\ [Next]_vars => IInv'
  BY TypeStep, PipeStep DEF IInv
<1> QED BY <1>1, <1>2, PTL DEF Spec

(* With two callers, deaths and respawns at any point, the frame a caller  *)
(* takes answers its own request, as long as no read on this child was     *)
(* given up (the mutex of send_raw_request and send_subprocess_request).   *)
THEOREM CallersGetTheirOwnReply == Spec => []OwnReply
<1>1. IInv => OwnReply
  BY DEF IInv
<1> QED BY <1>1, PipeCorrect, PTL

(* For as long as the child lives, the reads that were given up on it      *)
(* leave at most one answer each behind, or a pipe that is off its frames, *)
(* and a child on which none was given up has neither (the timeout of      *)
(* send_raw_request; the read-ahead of the redeem, ack and genesis reads). *)
THEOREM PipeLagIsBounded == Spec => []PipeLag
<1>1. IInv => PipeLag
  BY DEF IInv, PipeInv, PipeLag
<1> QED BY <1>1, PipeCorrect, PTL

---------------------------------------------------------------------------
(* The race between stop and a respawn.                                    *)

(* stop is the last thing the gateway does.                                *)
FlagInv == shutting_down => gateway \in {"stop_lock", "stopped"}

(* The supervisor is before its next read of the flag, or has returned.    *)
Stopping == FlagInv /\ shutting_down /\ sup # "respawn"

LEMMA FlagStep == FlagInv /\ [Next]_vars => FlagInv'
<1> SUFFICES ASSUME FlagInv, Steps \/ UNCHANGED vars PROVE FlagInv'
  BY NextSteps
<1>1. CASE stop_flag \/ stop_kill
  BY <1>1 DEF FlagInv, stop_flag, stop_kill
<1>2. CASE start \/ SpawnTasks \/ JoinTasks
  BY <1>2 DEF FlagInv, start, SpawnTasks, JoinTasks
<1>3. CASE \/ StartupPush \/ (\E kind \in {"witness", "query", "redeem"} : Serve(kind))
           \/ SupWake \/ SupCheck \/ SupUp \/ SupDown
           \/ SupRespawn \/ SupRespawnFails \/ SupRespawned \/ SupPushed
  BY <1>3 DEF FlagInv, StartupPush, Serve, SupWake, SupCheck, SupUp, SupDown, SupRespawn,
              SupRespawnFails, SupRespawned, SupPushed
<1>4. CASE \E u \in Users : \/ Write(u) \/ WriteErr(u) \/ Read(u) \/ ReadErr(u)
                            \/ ReadTimeout(u) \/ ReadSkewed(u)
  BY <1>4 DEF FlagInv, Write, WriteErr, Read, ReadErr, ReadTimeout, ReadSkewed
<1>5. CASE Respond \/ Die \/ Age \/ UNCHANGED vars
  BY <1>5 DEF FlagInv, Respond, Die, Age, vars
<1> QED BY <1>1, <1>2, <1>3, <1>4, <1>5 DEF Steps

(* The supervisor reads the flag before it respawns, and the gateway       *)
(* starts nothing any more; no other step starts a child.                  *)
LEMMA StoppingStep ==
  ASSUME Stopping, [Next]_vars
  PROVE  Stopping' /\ (child = "none" => child' = "none")
<1>0. FlagInv' /\ FlagInv /\ shutting_down /\ sup # "respawn" /\ gateway # "start" /\ gateway # "push"
  BY FlagStep DEF Stopping, FlagInv
<1> SUFFICES ASSUME Steps \/ UNCHANGED vars
             PROVE  /\ shutting_down' /\ sup' # "respawn"
                    /\ child = "none" => child' = "none"
  BY <1>0, NextSteps DEF Stopping
<1>1. CASE stop_flag \/ stop_kill
  BY <1>0, <1>1 DEF stop_flag, stop_kill, childVars
<1>2. CASE start \/ SpawnTasks \/ StartupPush
  BY <1>0, <1>2 DEF start, SpawnTasks, StartupPush
<1>3. CASE JoinTasks \/ \E kind \in {"witness", "query", "redeem"} : Serve(kind)
  BY <1>0, <1>3 DEF JoinTasks, Serve, childVars
<1>4. CASE SupWake \/ SupCheck \/ SupUp \/ SupDown
  BY <1>0, <1>4 DEF SupWake, SupCheck, SupUp, SupDown, SupGoto, childVars
<1>5. CASE SupRespawn \/ SupRespawnFails \/ SupRespawned \/ SupPushed
  BY <1>0, <1>5 DEF SupRespawn, SupRespawnFails, SupRespawned, SupPushed, SupGoto, childVars
<1>6. CASE \E u \in Users : \/ Write(u) \/ WriteErr(u) \/ Read(u) \/ ReadErr(u)
                            \/ ReadTimeout(u) \/ ReadSkewed(u)
  BY <1>0, <1>6 DEF Write, WriteErr, Read, ReadErr, ReadTimeout, ReadSkewed, childVars
<1>7. CASE Respond \/ Die \/ Age \/ UNCHANGED vars
  BY <1>0, <1>7 DEF Respond, Die, Age, vars, childVars
<1> QED BY <1>1, <1>2, <1>3, <1>4, <1>5, <1>6, <1>7 DEF Steps

(* stop is followed by at most one respawn, the one under way when the     *)
(* flag was set; a child that is gone after that stays gone (stop,         *)
(* supervision_loop).                                                      *)
THEOREM StopIsFollowedByOneRespawn == Spec => StopIsFinal
<1> DEFINE Gone == Stopping /\ child = "none"
<1>1. Init => FlagInv
  BY DEF Init, FlagInv
<1>2. FlagInv /\ [Next]_vars => FlagInv'
  BY FlagStep
<1>3. Stopping /\ [Next]_vars => Stopping'
  BY StoppingStep
<1>4. Gone /\ [Next]_vars => Gone'
  BY StoppingStep
<1>5. FlagInv => (shutting_down /\ sup # "respawn" <=> Stopping)
  BY DEF Stopping
<1>6. FlagInv => (shutting_down /\ sup # "respawn" /\ child = "none" <=> Gone)
  BY DEF Stopping
<1>7. (Stopping => sup # "respawn") /\ (Gone => child = "none")
  BY DEF Stopping
<1> HIDE DEF Gone
<1>8. Spec => [](shutting_down /\ sup # "respawn" => [](sup # "respawn"))
  BY <1>1, <1>2, <1>3, <1>5, <1>7, PTL DEF Spec
<1>9. Spec => [](shutting_down /\ sup # "respawn" /\ child = "none" => [](child = "none"))
  BY <1>1, <1>2, <1>4, <1>6, <1>7, PTL DEF Spec
<1> QED BY <1>8, <1>9 DEF StopIsFinal
=============================================================================
