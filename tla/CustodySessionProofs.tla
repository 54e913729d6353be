----------------------- MODULE CustodySessionProofs -----------------------
(***************************************************************************)
(* Proofs about CustodySession, for any number of sessions, requests,      *)
(* submissions and crashes.  One inductive invariant carries all of them:  *)
(*   - every copy of a reply, from the inbox through the deposit to the    *)
(*     socket, is under the session whose request it answers (Own);        *)
(*   - a TOT that is not up has no session, open or closing (SweepIsFirst); *)
(*   - an open session has its directory (OpenSessionHasDir);              *)
(*   - what pump_replies is about to remove was sent (RemovesSent).        *)
(* The refinement of HeldSession adds how far the deposit is (DepositInv). *)
(***************************************************************************)
EXTENDS CustodySession, TLAPS

Own ==
  /\ \A m \in inbox : m.id = m.from
  /\ job # Idle => job.msg.id = job.msg.from
  /\ \A s \in Sessions :
       /\ \A x \in tmp[s] : x.from = s
       /\ \A x \in files[s] : x.from = s
       /\ \A x \in listing[s] : x.from = s
       /\ \A x \in sending[s] : x.from = s
       /\ \A x \in sent[s] : x.from = s

SweepIsFirst == tot # "up" => \A s \in Sessions : session[s] \notin {"open", "closing"}

RemovesSent == \A s \in Sessions : sending[s] \subseteq sent[s]

Inv == TypeOK /\ Own /\ SweepIsFirst /\ OpenSessionHasDir /\ RemovesSent

(* The initial state: nothing on disk, no session.                         *)
LEMMA InvInit == Init => Inv
BY SessionAssumption
   DEF Init, Inv, TypeOK, Own, SweepIsFirst, OpenSessionHasDir, RemovesSent,
       Nothing, Status

(* What the message in hand contributes: its answer is a reply of the      *)
(* session the stamp names, and that session exists.                       *)
LEMMA JobIsOwn ==
  ASSUME Inv, job # Idle
  PROVE  /\ job \in Job
         /\ job.msg.id \in Sessions
         /\ Answer(job.msg) \in Reply
         /\ Answer(job.msg).from = job.msg.id
BY IdleAssumption DEF Inv, TypeOK, Own, Job, Message, Reply, Answer

(* The steps of TOT keep the invariant.                                    *)
LEMMA TotStep ==
  ASSUME Inv,
         \/ sweep_stale_sessions \/ TotCrash
         \/ \E s \in Sessions :
              \/ Open(s) \/ Pump(s) \/ Close(s) \/ RemoveDir(s)
              \/ \E r \in Requests, claim \in Sessions \cup {NoSession} :
                   Submit(s, r, claim)
  PROVE  Inv'
<1> USE SessionAssumption
         DEF Inv, TypeOK, Own, SweepIsFirst, OpenSessionHasDir, RemovesSent, Status
<1>1. CASE SweepBegin \/ SweepDone
  BY <1>1 DEF SweepBegin, SweepDone
<1>10. ASSUME NEW s \in Sessions, SweepEmpty(s)
       PROVE  Inv'
  BY <1>10 DEF SweepEmpty
<1>11. ASSUME NEW s \in Sessions, SweepRemove(s)
       PROVE  Inv'
  BY <1>11 DEF SweepRemove
<1>12. ASSUME NEW s \in Sessions, SweepErr(s)
       PROVE  Inv'
  BY <1>12 DEF SweepErr
<1>2. CASE TotCrash
  BY <1>2 DEF TotCrash, Nothing
<1>3. ASSUME NEW s \in Sessions, Open(s)
      PROVE  Inv'
  BY <1>3 DEF Open
<1>4. ASSUME NEW s \in Sessions, PumpList(s)
      PROVE  Inv'
  BY <1>4 DEF PumpList, AtSelect
<1>5. ASSUME NEW s \in Sessions, PumpSend(s)
      PROVE  Inv'
  <2>1. PICK x \in listing[s] \cap files[s] :
          /\ sent' = [sent EXCEPT ![s] = @ \cup {x}]
          /\ sending' = [sending EXCEPT ![s] = {x}]
          /\ listing' = [listing EXCEPT ![s] = @ \ {x}]
    BY <1>5 DEF PumpSend
  <2> QED
    BY <1>5, <2>1 DEF PumpSend
<1>6. ASSUME NEW s \in Sessions, PumpRemove(s)
      PROVE  Inv'
  BY <1>6 DEF PumpRemove
<1>7. ASSUME NEW s \in Sessions, Close(s)
      PROVE  Inv'
  BY <1>7 DEF Close
<1>8. ASSUME NEW s \in Sessions, RemoveDir(s)
      PROVE  Inv'
  BY <1>8 DEF RemoveDir
<1>9. ASSUME NEW s \in Sessions, NEW r \in Requests,
             NEW claim \in Sessions \cup {NoSession}, Submit(s, r, claim)
      PROVE  Inv'
  BY <1>9 DEF Submit, stamp_session, Message
<1> QED
  BY <1>1, <1>2, <1>3, <1>4, <1>5, <1>6, <1>7, <1>8, <1>9, <1>10, <1>11, <1>12
     DEF Pump, sweep_stale_sessions

(* The steps of ANTIE keep the invariant.                                  *)
LEMMA AntieStep ==
  ASSUME Inv, Antie \/ AntieCrash
  PROVE  Inv'
<1> USE SessionAssumption, IdleAssumption, JobIsOwn
         DEF Inv, TypeOK, Own, SweepIsFirst, OpenSessionHasDir, RemovesSent,
             InStep, GoTo, Steps
<1>1. ASSUME NEW m \in inbox, Take(m)
      PROVE  Inv'
  BY <1>1 DEF Take, Job
<1>8. ASSUME NEW m \in inbox, TakeUnanswerable(m)
      PROVE  Inv'
  BY <1>8 DEF TakeUnanswerable, Job
<1>2. CASE deposit_mkdir
  BY <1>2 DEF deposit_mkdir, Job
<1>3. CASE deposit_write
  BY <1>3 DEF deposit_write, Job
<1>4. CASE deposit_rename
  BY <1>4 DEF deposit_rename, Job
<1>5. CASE deposit_err
  BY <1>5 DEF deposit_err, Job
<1>9. CASE deposit_refused
  BY <1>9 DEF deposit_refused, Job
<1>6. CASE mark_processed
  BY <1>6 DEF mark_processed
<1>10. CASE mark_failed
  BY <1>10 DEF mark_failed, Job, Message
<1>7. CASE AntieCrash
  BY <1>7 DEF AntieCrash
<1> QED
  BY <1>1, <1>2, <1>3, <1>4, <1>5, <1>6, <1>7, <1>8, <1>9, <1>10 DEF Antie

(* A step that changes nothing keeps the invariant.                        *)
LEMMA Stutter ==
  ASSUME Inv, UNCHANGED vars
  PROVE  Inv'
BY DEF Inv, TypeOK, Own, SweepIsFirst, OpenSessionHasDir, RemovesSent, vars

(* Inv is an invariant of the two processes.                               *)
THEOREM SessionInvariant == Spec => []Inv
<1>1. Init => Inv
  BY InvInit
<1>2. Inv /\ [Next]_vars => Inv'
  BY TotStep, AntieStep, Stutter DEF Next
<1> QED
  BY <1>1, <1>2, PTL DEF Spec

(* The state of TOT, ANTIE and their two directories is well formed: no    *)
(* file without its directory, whatever the interleaving of deposit,       *)
(* removal and crash.                                                      *)
THEOREM CustodyTypeCorrect == Spec => []TypeOK
<1>1. Inv => TypeOK
  BY DEF Inv
<1> QED
  BY <1>1, SessionInvariant, PTL

(* No client is ever sent, or has waiting on disk, the reply to another    *)
(* session's request (stamp_session, custody::deposit, pump_replies).      *)
THEOREM RepliesStayApart == Spec => []OwnRepliesOnly
<1>1. Inv => OwnRepliesOnly
  BY DEF Inv, Own, OwnRepliesOnly
<1> QED
  BY <1>1, SessionInvariant, PTL

(* A live session never loses its directory (session_leg, SessionDir,      *)
(* sweep_stale_sessions).                                                  *)
THEOREM OpenSessionKeepsDir == Spec => []OpenSessionHasDir
<1>1. Inv => OpenSessionHasDir
  BY DEF Inv
<1> QED
  BY <1>1, SessionInvariant, PTL

---------------------------------------------------------------------------
(* The refinement of HeldSession.                                          *)

Ended(s) == session[s] \in {"closing", "closed"}
Refused(s) == s \in DevSessions

(* Only sessions that were opened have asked, and the message in hand is   *)
(* still in new/.                                                          *)
AskedInv == /\ \A m \in inbox : session[m.from] # "unborn"
            /\ job # Idle => job.msg \in inbox

(* How far the deposit is: what it has made for its session is still there *)
(* unless the session is over; and at the mark the answer is there or was  *)
(* sent.  A refused sender's message goes to the mark at once; of what is  *)
(* dropped nothing is said.                                                *)
DepositInv ==
  job # Idle =>
    LET s == job.msg.from IN
    /\ job.step \in {"open_tmp", "write", "rename"} => ~Refused(s)
    /\ job.step = "write" => s \in tmpdirs \/ Ended(s)
    /\ job.step = "rename" => Answer(job.msg) \in tmp[s] \/ Ended(s)
    /\ job.step = "mark" => \/ Answer(job.msg) \in files[s] \cup sent[s]
                            \/ Ended(s) \/ Refused(s)

HInv == Inv /\ AskedInv /\ DepositInv

(* A step of TOT that takes nothing from an open session but what it sent, *)
(* and ends sessions only.                                                 *)
LEMMA DepositKept ==
  ASSUME HInv, UNCHANGED job, inbox \subseteq inbox',
         \A m \in inbox' : m \in inbox \/ session'[m.from] # "unborn",
         \A s \in Sessions : session[s] # "unborn" => session'[s] # "unborn",
         \A s \in Sessions : Ended(s) => Ended(s)',
         \A s \in Sessions :
           session[s] # "unborn" =>
             \/ Ended(s)'
             \/ /\ s \in tmpdirs => s \in tmpdirs'
                /\ tmp[s] \subseteq tmp'[s]
                /\ files[s] \cup sent[s] \subseteq files'[s] \cup sent'[s]
  PROVE  AskedInv' /\ DepositInv'
<1>1. AskedInv'
  <2>1. \A m \in inbox : m.from \in Sessions /\ session[m.from] # "unborn"
    BY DEF HInv, AskedInv, Inv, TypeOK, Message
  <2>2. \A m \in inbox' : session'[m.from] # "unborn"
    BY <2>1
  <2>3. job' # Idle => job'.msg \in inbox'
    BY DEF HInv, AskedInv
  <2> QED BY <2>2, <2>3 DEF AskedInv
<1>2. DepositInv'
  <2> SUFFICES ASSUME job # Idle PROVE DepositInv'
    BY DEF DepositInv
  <2> DEFINE s == job.msg.from
             x == Answer(job.msg)
  <2>1. s \in Sessions /\ session[s] # "unborn" /\ x' = x /\ s' = s
    BY JobIsOwn DEF HInv, AskedInv, Inv, TypeOK, Message, Answer
  <2>2. DepositInv
    BY DEF HInv
  <2> HIDE DEF s, x
  <2>3. /\ job.step \in {"open_tmp", "write", "rename"} => ~Refused(s)
        /\ job.step = "write" => s \in tmpdirs \/ Ended(s)
        /\ job.step = "rename" => x \in tmp[s] \/ Ended(s)
        /\ job.step = "mark" => x \in files[s] \cup sent[s] \/ Ended(s) \/ Refused(s)
    BY <2>2 DEF DepositInv, s, x
  <2>4. /\ job.step \in {"open_tmp", "write", "rename"} => ~Refused(s)
        /\ job.step = "write" => s \in tmpdirs' \/ Ended(s)'
        /\ job.step = "rename" => x \in tmp'[s] \/ Ended(s)'
        /\ job.step = "mark" => x \in files'[s] \cup sent'[s] \/ Ended(s)' \/ Refused(s)
    BY <2>1, <2>3
  <2> QED BY <2>1, <2>4 DEF DepositInv, Refused, Ended, s, x
<1> QED BY <1>1, <1>2

(* Each step keeps it.                                                     *)
LEMMA HeldInvStep ==
  ASSUME HInv, [Next]_vars
  PROVE  HInv'
<1>i. Inv /\ Inv' /\ AskedInv /\ DepositInv
  BY TotStep, AntieStep, Stutter DEF HInv, Next
<1>t. TypeOK /\ TypeOK' /\ SweepIsFirst /\ RemovesSent
  BY <1>i DEF Inv
<1> SUFFICES AskedInv' /\ DepositInv'
  BY <1>i DEF HInv
<1>1. ASSUME UNCHANGED <<job, inbox, session, tmpdirs, tmp, files, sent>>
      PROVE  AskedInv' /\ DepositInv'
  BY <1>1, DepositKept DEF Ended
<1>2. ASSUME NEW s \in Sessions, SweepEmpty(s) PROVE AskedInv' /\ DepositInv'
  <2>1. /\ UNCHANGED <<job, inbox, session, sent>> /\ session[s] \notin {"open", "closing"}
        /\ tmpdirs' = tmpdirs \ {s}
        /\ \A t \in Sessions : t # s => tmp'[t] = tmp[t] /\ files'[t] = files[t]
    BY <1>2, <1>t DEF SweepEmpty, SweepIsFirst, TypeOK
  <2>2. session[s] = "unborn" \/ Ended(s)'
    BY <1>t, <2>1 DEF TypeOK, Status, Ended
  <2> QED BY <2>1, <2>2, DepositKept DEF Ended
<1>3. ASSUME NEW s \in Sessions, Open(s) PROVE AskedInv' /\ DepositInv'
  <2>1. /\ UNCHANGED <<job, inbox, tmpdirs, tmp, files, sent>> /\ session[s] = "unborn"
        /\ session'[s] = "open" /\ \A t \in Sessions : t # s => session'[t] = session[t]
    BY <1>3, <1>t DEF Open, TypeOK
  <2> QED BY <1>i, <2>1, DepositKept DEF Ended
<1>4. ASSUME NEW s \in Sessions, PumpSend(s) PROVE AskedInv' /\ DepositInv'
  <2>1. /\ UNCHANGED <<job, inbox, session, tmpdirs, tmp, files>>
        /\ \A t \in Sessions : sent[t] \subseteq sent'[t]
    BY <1>4, <1>t DEF PumpSend, TypeOK
  <2> QED BY <2>1, DepositKept DEF Ended
<1>5. ASSUME NEW s \in Sessions, PumpRemove(s) PROVE AskedInv' /\ DepositInv'
  <2>1. /\ UNCHANGED <<job, inbox, session, tmpdirs, tmp, sent>>
        /\ \A t \in Sessions : files[t] \cup sent[t] \subseteq files'[t] \cup sent[t]
    BY <1>5, <1>t DEF PumpRemove, RemovesSent, TypeOK
  <2> QED BY <2>1, DepositKept DEF Ended
<1>6. ASSUME NEW s \in Sessions, Close(s) PROVE AskedInv' /\ DepositInv'
  <2>1. /\ UNCHANGED <<job, inbox, sent>> /\ tmpdirs' = tmpdirs \ {s}
        /\ session'[s] = "closing"
        /\ \A t \in Sessions :
             t # s => session'[t] = session[t] /\ tmp'[t] = tmp[t] /\ files'[t] = files[t]
    BY <1>6, <1>t DEF Close, TypeOK
  <2> QED BY <2>1, DepositKept DEF Ended
<1>7. ASSUME NEW s \in Sessions, RemoveDir(s) PROVE AskedInv' /\ DepositInv'
  <2>1. /\ UNCHANGED <<job, inbox, tmpdirs, tmp, files, sent>>
        /\ session'[s] = "closed" /\ \A t \in Sessions : t # s => session'[t] = session[t]
    BY <1>7, <1>t DEF RemoveDir, TypeOK
  <2> QED BY <2>1, DepositKept DEF Ended
<1>8. ASSUME NEW s \in Sessions, NEW r \in Requests, NEW claim \in Sessions \cup {NoSession},
             Submit(s, r, claim)
      PROVE  AskedInv' /\ DepositInv'
  <2>1. /\ UNCHANGED <<job, session, tmpdirs, tmp, files, sent>> /\ session[s] = "open"
        /\ inbox' = inbox \cup {[from |-> s, id |-> s, req |-> r]}
    BY <1>8 DEF Submit, AtSelect, stamp_session
  <2> QED BY <2>1, DepositKept DEF Ended
<1>9. CASE TotCrash
  <2>1. /\ UNCHANGED <<job, inbox, tmpdirs, tmp, files, sent>>
        /\ \A s \in Sessions : session'[s] = IF session[s] = "unborn" THEN "unborn" ELSE "closed"
    BY <1>9 DEF TotCrash
  <2> QED BY <2>1, DepositKept DEF Ended
<1>10. ASSUME NEW m \in inbox, Take(m) PROVE AskedInv' /\ DepositInv'
  <2>1. /\ job' = [msg |-> m, step |-> IF m.from \in DevSessions THEN "mark" ELSE "open_tmp"]
        /\ UNCHANGED <<inbox, session>>
    BY <1>10 DEF Take
  <2>2. job'.msg = m /\ job'.step = IF m.from \in DevSessions THEN "mark" ELSE "open_tmp"
    BY <2>1
  <2>3. AskedInv'
    BY <1>i, <2>1, <2>2 DEF AskedInv
  <2> QED BY <2>2, <2>3 DEF DepositInv, Refused
<1>11. ASSUME NEW s, NEW x, job # Idle, s = job.msg.from, x = Answer(job.msg),
              deposit_mkdir \/ deposit_write \/ deposit_rename \/ deposit_err
       PROVE  AskedInv' /\ DepositInv'
  <2>1. job \in Job /\ s \in Sessions /\ job.msg.id = s
    BY <1>11, <1>i, JobIsOwn DEF Inv, Own
  <2>2. /\ UNCHANGED <<inbox, session>> /\ job'.msg = job.msg
        /\ job'.step = IF deposit_mkdir THEN "write" ELSE IF deposit_write THEN "rename" ELSE "mark"
    BY <1>11, <2>1 DEF deposit_mkdir, deposit_write, deposit_rename, deposit_err, GoTo, InStep,
                       Job
  <2>3. AskedInv'
    BY <1>i, <1>11, <2>2 DEF AskedInv
  <2>4. ~Refused(s)
    BY <1>11, <1>i DEF DepositInv, deposit_mkdir, deposit_write, deposit_rename, deposit_err,
                       InStep
  <2>5. CASE deposit_mkdir
    <3>1. s \in tmpdirs' /\ job'.step = "write" /\ job'.msg.from = s
      BY <1>11, <2>1, <2>2, <2>5 DEF deposit_mkdir
    <3> QED BY <2>3, <2>4, <3>1 DEF DepositInv, Refused
  <2>6. CASE deposit_write
    <3>1. x \in tmp'[s] /\ job'.step = "rename" /\ Answer(job'.msg) = x /\ job'.msg.from = s
      BY <1>11, <1>t, <2>1, <2>2, <2>6
         DEF deposit_write, deposit_mkdir, InStep, TypeOK, Answer
    <3> QED BY <2>3, <2>4, <3>1 DEF DepositInv, Refused
  <2>7. CASE deposit_rename
    <3>1. x \in files'[s] /\ job'.step = "mark" /\ Answer(job'.msg) = x /\ job'.msg.from = s
      BY <1>11, <1>t, <2>1, <2>2, <2>7
         DEF deposit_rename, deposit_write, deposit_mkdir, InStep, TypeOK, Answer
    <3> QED BY <2>3, <3>1 DEF DepositInv
  <2>8. CASE deposit_err
    <3>1. Ended(s)' /\ job'.step = "mark" /\ job'.msg.from = s
      BY <1>11, <1>i, <2>1, <2>2, <2>8
         DEF DepositInv, deposit_err, deposit_mkdir, deposit_write, InStep, Ended
    <3> QED BY <2>3, <3>1 DEF DepositInv, Ended
  <2> QED BY <1>11, <2>3, <2>5, <2>6, <2>7, <2>8
<1>12. CASE mark_processed \/ mark_failed \/ AntieCrash
  <2>1. job' = Idle /\ inbox' \subseteq inbox /\ UNCHANGED session
    BY <1>12 DEF mark_processed, mark_failed, AntieCrash
  <2> QED BY <1>i, <2>1 DEF AskedInv, DepositInv
<1>15. ASSUME NEW m \in inbox, TakeUnanswerable(m) PROVE AskedInv' /\ DepositInv'
  <2>1. job'.msg = m /\ job'.step = "drop" /\ UNCHANGED <<inbox, session>>
    BY <1>15 DEF TakeUnanswerable
  <2> QED BY <1>i, <2>1 DEF AskedInv, DepositInv
<1>16. CASE deposit_refused
  <2>1. job # Idle /\ job \in Job
    BY <1>16, <1>i, JobIsOwn DEF deposit_refused, InStep
  <2>2. job'.msg = job.msg /\ job'.step = "drop" /\ UNCHANGED <<inbox, session>>
    BY <1>16, <2>1 DEF deposit_refused, GoTo, Job
  <2> QED BY <1>i, <2>1, <2>2 DEF AskedInv, DepositInv
<1>13. CASE \/ UNCHANGED vars \/ SweepBegin \/ SweepDone
            \/ \E s \in Sessions : SweepRemove(s) \/ SweepErr(s) \/ PumpList(s)
  BY <1>1, <1>13 DEF vars, SweepBegin, SweepDone, SweepRemove, SweepErr, PumpList
<1>14. deposit_mkdir \/ deposit_write \/ deposit_rename \/ deposit_err => job # Idle
  BY DEF deposit_mkdir, deposit_write, deposit_rename, deposit_err, InStep
<1> QED
  BY <1>2, <1>3, <1>4, <1>5, <1>6, <1>7, <1>8, <1>9, <1>10, <1>11, <1>12, <1>13, <1>14,
     <1>15, <1>16 DEF Next, sweep_stale_sessions, Pump, Antie

(* What HeldSession sees of a session and of the inbox.                    *)
LEMMA StateFacts ==
  ASSUME TypeOK, NEW s \in Sessions
  PROVE  /\ session[s] = "open" => State[s] = "open"
         /\ session[s] = "unborn" => State[s] = "unborn"
         /\ session[s] # "open" => State[s] # "open"
         /\ Ended(s) => State[s] = "ended"
<1>1. State[s] = IF session[s] \in {"closing", "closed"} THEN "ended" ELSE session[s]
  BY DEF State
<1> QED BY <1>1 DEF Ended

LEMMA Unseen ==
  ASSUME UNCHANGED <<session, inbox, files, sent, dropped>>
  PROVE  UNCHANGED Held!vars
<1>1. State' = State
  BY DEF State
<1>2. Asked' = Asked
  BY DEF Asked
<1> QED BY <1>1, <1>2 DEF Held!vars

(* A session that gets another status, and no other.                       *)
LEMMA StateChanges ==
  ASSUME TypeOK, NEW s \in Sessions, NEW new \in Status, session' = [session EXCEPT ![s] = new]
  PROVE  State' = [State EXCEPT ![s] = IF new \in {"closing", "closed"} THEN "ended" ELSE new]
<1> DEFINE v == IF new \in {"closing", "closed"} THEN "ended" ELSE new
<1>1. \A t \in Sessions : State'[t] = IF t = s THEN v ELSE State[t]
  BY DEF State, TypeOK
<1>2. State' = [t \in Sessions |-> State'[t]] /\ State = [t \in Sessions |-> State[t]]
  BY DEF State
<1> QED BY <1>1, <1>2

(* The steps of TOT.                                                       *)
LEMMA HeldTot ==
  ASSUME HInv, TypeOK',
         \/ sweep_stale_sessions \/ TotCrash
         \/ \E s \in Sessions :
              \/ Open(s) \/ Pump(s) \/ Close(s) \/ RemoveDir(s)
              \/ \E r \in Requests, claim \in Sessions \cup {NoSession} : Submit(s, r, claim)
  PROVE  [Held!Next]_(Held!vars)
<1>i. TypeOK /\ SweepIsFirst /\ RemovesSent
  BY DEF HInv, Inv
<1>0. ASSUME UNCHANGED <<session, inbox, files, sent, dropped>> PROVE [Held!Next]_(Held!vars)
  BY <1>0, Unseen
<1>s. ASSUME UNCHANGED session PROVE State' = State
  BY <1>s DEF State
<1>a. ASSUME UNCHANGED inbox PROVE Asked' = Asked
  BY <1>a DEF Asked
<1>1. ASSUME NEW s \in Sessions, SweepEmpty(s) PROVE [Held!Next]_(Held!vars)
  <2>1. /\ UNCHANGED <<inbox, session, sent, dropped>> /\ session[s] # "open"
        /\ files' = [files EXCEPT ![s] = {}]
    BY <1>1, <1>i DEF SweepEmpty, SweepIsFirst
  <2>2. files' = [files EXCEPT ![s] = files[s] \ files[s]]
    BY <2>1
  <2>3. State[s] # "open"
    BY <1>i, <2>1, StateFacts
  <2>4. Held!GiveUp(s, files[s])
    BY <1>a, <1>s, <2>1, <2>2, <2>3 DEF Held!GiveUp
  <2> QED BY <2>4 DEF Held!Next
<1>2. ASSUME NEW s \in Sessions, Open(s) PROVE [Held!Next]_(Held!vars)
  <2>1. /\ UNCHANGED <<inbox, files, sent, dropped>> /\ session[s] = "unborn"
        /\ session' = [session EXCEPT ![s] = "open"]
    BY <1>2 DEF Open
  <2>2. State' = [State EXCEPT ![s] = "open"] /\ State[s] = "unborn"
    <3>1. "open" \in Status
      BY DEF Status
    <3>2. State' = [State EXCEPT ![s] = IF "open" \in {"closing", "closed"} THEN "ended"
                                        ELSE "open"]
      BY <1>i, <2>1, <3>1, StateChanges
    <3>3. State[s] = "unborn"
      BY <1>i, <2>1, StateFacts
    <3> QED BY <3>2, <3>3
  <2>3. Held!Begin(s)
    BY <1>a, <2>1, <2>2 DEF Held!Begin
  <2> QED BY <2>3 DEF Held!Next
<1>3. ASSUME NEW s \in Sessions, PumpSend(s) PROVE [Held!Next]_(Held!vars)
  <2>1. PICK x \in files[s] : sent' = [sent EXCEPT ![s] = @ \cup {x}]
    BY <1>3 DEF PumpSend
  <2>2. UNCHANGED <<inbox, session, files, dropped>> /\ session[s] = "open"
    BY <1>3 DEF PumpSend
  <2>3. State[s] = "open"
    BY <1>i, <2>2, StateFacts
  <2>4. Held!Receive(s, x)
    BY <1>a, <1>s, <2>1, <2>2, <2>3 DEF Held!Receive
  <2> QED BY <2>4 DEF Held!Next
<1>4. ASSUME NEW s \in Sessions, PumpRemove(s) PROVE [Held!Next]_(Held!vars)
  <2> DEFINE S == files[s] \cap sending[s]
  <2>1. /\ UNCHANGED <<inbox, session, sent, dropped>>
        /\ files' = [files EXCEPT ![s] = files[s] \ sending[s]]
    BY <1>4 DEF PumpRemove
  <2>2. files' = [files EXCEPT ![s] = files[s] \ S] /\ S \subseteq sent[s]
    <3>1. files[s] \ S = files[s] \ sending[s]
      OBVIOUS
    <3> QED BY <1>i, <2>1, <3>1 DEF RemovesSent
  <2> HIDE DEF S
  <2>3. Held!GiveUp(s, S)
    BY <1>a, <1>s, <2>1, <2>2 DEF Held!GiveUp
  <2>4. S \in SUBSET files[s]
    BY DEF S
  <2> QED BY <2>3, <2>4 DEF Held!Next
<1>5. ASSUME NEW s \in Sessions, Close(s) PROVE [Held!Next]_(Held!vars)
  <2>1. /\ UNCHANGED <<inbox, sent, dropped>> /\ session[s] = "open"
        /\ session' = [session EXCEPT ![s] = "closing"] /\ files' = [files EXCEPT ![s] = {}]
    BY <1>5 DEF Close
  <2>2. State' = [State EXCEPT ![s] = "ended"] /\ State[s] = "open"
    <3>1. "closing" \in Status
      BY DEF Status
    <3>2. State' = [State EXCEPT ![s] = IF "closing" \in {"closing", "closed"} THEN "ended"
                                        ELSE "closing"]
      BY <1>i, <2>1, <3>1, StateChanges
    <3>3. State[s] = "open"
      BY <1>i, <2>1, StateFacts
    <3> QED BY <3>2, <3>3
  <2>3. Held!End(s)
    BY <1>a, <2>1, <2>2 DEF Held!End
  <2> QED BY <2>3 DEF Held!Next
<1>6. ASSUME NEW s \in Sessions, RemoveDir(s) PROVE [Held!Next]_(Held!vars)
  <2>1. /\ UNCHANGED <<inbox, files, sent, dropped>> /\ session[s] = "closing"
        /\ session' = [session EXCEPT ![s] = "closed"]
    BY <1>6 DEF RemoveDir
  <2>2. State' = [State EXCEPT ![s] = "ended"] /\ State[s] = "ended"
    <3>1. "closed" \in Status
      BY DEF Status
    <3>2. State' = [State EXCEPT ![s] = IF "closed" \in {"closing", "closed"} THEN "ended"
                                        ELSE "closed"]
      BY <1>i, <2>1, <3>1, StateChanges
    <3>3. State[s] = "ended"
      BY <1>i, <2>1, StateFacts DEF Ended
    <3> QED BY <3>2, <3>3
  <2>3. State' = State
    BY <2>2 DEF State
  <2> QED BY <1>a, <2>1, <2>3 DEF Held!vars
<1>7. ASSUME NEW s \in Sessions, NEW r \in Requests, NEW claim \in Sessions \cup {NoSession},
             Submit(s, r, claim)
      PROVE  [Held!Next]_(Held!vars)
  <2> DEFINE m == [from |-> s, id |-> s, req |-> r]
  <2>1. /\ UNCHANGED <<session, files, sent>> /\ session[s] = "open" /\ inbox' = inbox \cup {m}
        /\ dropped' = [dropped EXCEPT ![s] = @ \ {r}]
    BY <1>7 DEF Submit, AtSelect, stamp_session
  <2>2. m.from = s /\ m.req = r
    OBVIOUS
  <2> HIDE DEF m
  <2>3. Asked' = [Asked EXCEPT ![s] = Asked[s] \cup {r}]
    <3>1. \A t \in Sessions : Asked'[t] = IF t = s THEN Asked[t] \cup {r} ELSE Asked[t]
      BY <2>1, <2>2 DEF Asked
    <3>2. Asked' = [t \in Sessions |-> Asked'[t]] /\ Asked = [t \in Sessions |-> Asked[t]]
      BY DEF Asked
    <3> QED BY <3>1, <3>2
  <2>4. State[s] = "open"
    BY <1>i, <2>1, StateFacts
  <2>5. Held!Ask(s, r)
    BY <1>s, <2>1, <2>3, <2>4 DEF Held!Ask
  <2> QED BY <2>5 DEF Held!Next
<1>8. CASE TotCrash
  <2>1. /\ UNCHANGED <<inbox, files, sent, dropped>>
        /\ session' = [s \in Sessions |-> IF session[s] = "unborn" THEN "unborn" ELSE "closed"]
    BY <1>8 DEF TotCrash
  <2>2. State' = [s \in Sessions |-> IF State[s] = "unborn" THEN "unborn" ELSE "ended"]
    BY <1>i, <2>1 DEF State, TypeOK, Status
  <2>3. Held!EndAll
    BY <1>a, <2>1, <2>2 DEF Held!EndAll
  <2> QED BY <2>3 DEF Held!Next
<1>9. CASE \/ SweepBegin \/ SweepDone
           \/ \E s \in Sessions : SweepRemove(s) \/ SweepErr(s) \/ PumpList(s)
  BY <1>0, <1>9 DEF SweepBegin, SweepDone, SweepRemove, SweepErr, PumpList
<1> QED
  BY <1>1, <1>2, <1>3, <1>4, <1>5, <1>6, <1>7, <1>8, <1>9 DEF sweep_stale_sessions, Pump

(* The steps of ANTIE.                                                     *)
LEMMA HeldAntie ==
  ASSUME HInv, Antie \/ AntieCrash
  PROVE  [Held!Next]_(Held!vars)
<1>i. Inv /\ TypeOK /\ Own /\ AskedInv /\ DepositInv
  BY DEF HInv, Inv
<1>0. ASSUME UNCHANGED <<session, inbox, files, sent, dropped>> PROVE [Held!Next]_(Held!vars)
  BY <1>0, Unseen
<1>j. ASSUME NEW s, NEW r, job # Idle, s = job.msg.from, r = job.msg.req
      PROVE  /\ s \in Sessions /\ r \in Requests /\ r \in Asked[s] /\ job.msg.id = s
             /\ Answer(job.msg) = [from |-> s, req |-> r] /\ job.msg \in inbox
  <2>1. job.msg \in inbox /\ job.msg \in Message /\ job.msg.id = s
    BY <1>i, <1>j DEF AskedInv, TypeOK, Own
  <2>2. s \in Sessions /\ r \in Requests
    BY <1>j, <2>1 DEF Message
  <2> QED BY <1>j, <2>1, <2>2 DEF Asked, Answer
<1>1. ASSUME NEW s, NEW r, deposit_rename, s = job.msg.from, r = job.msg.req
      PROVE  [Held!Next]_(Held!vars)
  <2>1. job # Idle /\ job.step = "rename" /\ UNCHANGED <<session, inbox, sent, dropped>>
    BY <1>1 DEF deposit_rename, InStep
  <2>2. /\ s \in Sessions /\ r \in Requests /\ r \in Asked[s] /\ job.msg.id = s
        /\ Answer(job.msg) = [from |-> s, req |-> r]
    BY <1>1, <1>j, <2>1
  <2>3. files' = [files EXCEPT ![s] = files[s] \cup {[from |-> s, req |-> r]}]
    BY <1>1, <2>2 DEF deposit_rename
  <2>4. s \notin DevSessions
    BY <1>1, <1>i, <2>1 DEF DepositInv, Refused
  <2>5. State' = State /\ Asked' = Asked
    BY <2>1 DEF State, Asked
  <2>6. Held!Reply(s, r)
    BY <2>1, <2>2, <2>3, <2>4, <2>5 DEF Held!Reply, Held!AnswerTo
  <2> QED BY <2>2, <2>6 DEF Held!Next
<1>2. ASSUME NEW s, NEW r, mark_processed \/ mark_failed, s = job.msg.from, r = job.msg.req
      PROVE  [Held!Next]_(Held!vars)
  <2>1. /\ job # Idle /\ UNCHANGED <<session, files, sent>> /\ inbox' = inbox \ {job.msg}
        /\ mark_processed => job.step = "mark" /\ UNCHANGED dropped
        /\ mark_failed => dropped' = [dropped EXCEPT ![s] = @ \cup {r}]
    BY <1>2 DEF mark_processed, mark_failed, InStep
  <2>2. /\ s \in Sessions /\ r \in Requests /\ r \in Asked[s] /\ job.msg \in inbox
        /\ Answer(job.msg) = [from |-> s, req |-> r]
    BY <1>2, <1>j, <2>1
  <2>3. ASSUME NEW m \in inbox, m.from = s, m.req = r PROVE m = job.msg
    <3>1. m \in Message /\ job.msg \in Message /\ m.id = s /\ job.msg.id = s
      BY <1>2, <1>i, <2>2, <2>3 DEF TypeOK, Own
    <3> QED BY <1>2, <2>3, <3>1 DEF Message
  <2>4. Asked' = [Asked EXCEPT ![s] = Asked[s] \ {r}]
    <3>1. ASSUME NEW t \in Sessions
          PROVE  Asked'[t] = IF t = s THEN Asked[t] \ {r} ELSE Asked[t]
      <4>1. \A q \in Requests :
              (\E m \in inbox' : m.from = t /\ m.req = q)
                <=> (\E m \in inbox : m.from = t /\ m.req = q) /\ ~(t = s /\ q = r)
        BY <1>2, <2>1, <2>3
      <4> QED BY <4>1 DEF Asked
    <3>2. Asked' = [t \in Sessions |-> Asked'[t]] /\ Asked = [t \in Sessions |-> Asked[t]]
      BY DEF Asked
    <3> QED BY <3>1, <3>2
  <2>6. State' = State
    BY <2>1 DEF State
  <2>7. CASE mark_processed
    <3>1. Answer(job.msg) \in files[s] \cup sent[s] \/ Ended(s) \/ s \in DevSessions
      BY <1>2, <1>i, <2>1, <2>7 DEF DepositInv, Refused
    <3>2. Ended(s) => State[s] = "ended"
      BY <1>i, <2>2, StateFacts
    <3>3. \/ [from |-> s, req |-> r] \in files[s] \cup sent[s]
          \/ State[s] = "ended" \/ s \in DevSessions
      BY <2>2, <3>1, <3>2
    <3>4. Held!PutAway(s, r)
      BY <2>1, <2>2, <2>4, <2>6, <2>7, <3>3 DEF Held!PutAway, Held!AnswerTo
    <3> QED BY <2>2, <3>4 DEF Held!Next
  <2>8. CASE mark_failed
    <3>1. Held!Drop(s, r)
      BY <2>1, <2>2, <2>4, <2>6, <2>8 DEF Held!Drop
    <3> QED BY <2>2, <3>1 DEF Held!Next
  <2> QED BY <1>2, <2>7, <2>8
<1>3. CASE \/ AntieCrash \/ (\E m \in inbox : Take(m) \/ TakeUnanswerable(m))
           \/ deposit_mkdir \/ deposit_write \/ deposit_err \/ deposit_refused
  BY <1>0, <1>3 DEF AntieCrash, Take, TakeUnanswerable, deposit_mkdir, deposit_write, deposit_err,
                    deposit_refused
<1> QED BY <1>1, <1>2, <1>3 DEF Antie

(* TOT and ANTIE implement HeldSession: a client gets the answers to its   *)
(* own requests only, none of its requests is put away unanswered while    *)
(* its session lives, but for one that ANTIE drops and logs (no crash,     *)
(* sweep or closing makes it do so), and no answer is given up before it   *)
(* was sent, with a crash, sweep or closing between any two file           *)
(* operations of either process (custody::deposit, pump_replies,           *)
(* SessionDir, sweep_stale_sessions).                                      *)
THEOREM SessionsAreHeld == Spec => ImplementsHeldSession
<1>1. Init => HInv /\ Held!Init
  <2>1. Init => AskedInv /\ DepositInv
    BY DEF Init, AskedInv, DepositInv
  <2>2. Init => Held!Init
    <3> SUFFICES ASSUME Init PROVE Held!Init
      OBVIOUS
    <3>1. State = [s \in Sessions |-> "unborn"]
      BY DEF Init, State
    <3>2. Asked = [s \in Sessions |-> {}]
      BY DEF Init, Asked
    <3> QED BY <3>1, <3>2 DEF Init, Nothing, Held!Init
  <2> QED BY <2>1, <2>2, InvInit DEF HInv
<1>2. HInv /\ [Next]_vars => HInv'
  BY HeldInvStep
<1>3. HInv /\ HInv' /\ [Next]_vars => [Held!Next]_(Held!vars)
  <2> SUFFICES ASSUME HInv, HInv', [Next]_vars PROVE [Held!Next]_(Held!vars)
    OBVIOUS
  <2>1. CASE UNCHANGED vars
    BY <2>1, Unseen DEF vars
  <2>2. TypeOK'
    BY DEF HInv, Inv
  <2> QED BY <2>1, <2>2, HeldTot, HeldAntie DEF Next
<1> QED BY <1>1, <1>2, <1>3, PTL DEF Spec, ImplementsHeldSession, Held!Spec
=============================================================================
