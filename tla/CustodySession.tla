-------------------------- MODULE CustodySession --------------------------
(***************************************************************************)
(* The held TOT session and the custody deposit of ANTIE: a WebSocket      *)
(* client submits requests over /session, TOT stamps each with the session *)
(* id and writes it into ANTIE's inbox/new/ (tot/src/main.rs); ANTIE's     *)
(* dispatcher answers into <outbox>/<id>/<request>.cbor (send_response and *)
(* custody::deposit); the session polls its directory, sends what it finds *)
(* and deletes it; the directory is removed when the session ends.         *)
(*                                                                         *)
(* TOT and ANTIE are two processes that share the two directories and      *)
(* nothing else.  Either may crash between any two file operations.        *)
(***************************************************************************)
EXTENDS Naturals, FiniteSets

CONSTANTS Sessions,     \* the session ids TOT may mint
          Requests,     \* request ids a client uses
          DevSessions,  \* sessions whose client is a DEV wallet
          NoSession,    \* no custody header
          Idle,         \* the dispatcher has no message in hand
          MaxSubmits,   \* bound: frames the clients send
          MaxCrashes    \* bound: crashes of TOT and of ANTIE

ASSUME SessionAssumption ==
  /\ DevSessions \subseteq Sessions
  /\ NoSession \notin Sessions
  /\ MaxSubmits \in Nat /\ MaxCrashes \in Nat

(* A message in inbox/new/: the session it came from, the id it carries    *)
(* in X-TOT-Session, the request.                                          *)
Message == [from : Sessions, id : Sessions \cup {NoSession}, req : Requests]
(* A reply file: whose request it answers.                                 *)
Reply == [from : Sessions, req : Requests]
Steps == {"open_tmp", "write", "rename", "mark", "drop"}
Job == [msg : Message, step : Steps]

ASSUME IdleAssumption == Idle \notin Job

VARIABLES tot,          \* TOT: "down", "sweeping" or "up"
          due,          \* sweep: directories it found, still to be removed
          half,         \* sweep: the one it has emptied, not yet removed
          session,      \* status of each session
          dirs,         \* session directories that exist
          tmpdirs,      \* sessions whose <dir>/tmp/ exists
          tmp,          \* files under <dir>/tmp/
          files,        \* complete replies in <dir>/
          listing,      \* pump_replies: files of this pass not yet sent
          sending,      \* pump_replies: sent, not yet removed
          sent,         \* replies the client received on its socket
          inbox,        \* ANTIE's inbox/new/
          job,          \* the message ANTIE is answering
          dropped,      \* requests ANTIE has put away and logged, unanswered
          submits, crashes

vars == <<tot, due, half, session, dirs, tmpdirs, tmp, files, listing, sending, sent, inbox, job,
          dropped, submits, crashes>>

Status == {"unborn", "open", "closing", "closed"}

TypeOK ==
  /\ tot \in {"down", "sweeping", "up"}
  /\ due \subseteq dirs /\ half \subseteq dirs
  /\ tot # "sweeping" => due = {} /\ half = {}
  /\ session \in [Sessions -> Status]
  /\ dirs \subseteq Sessions /\ tmpdirs \subseteq dirs
  /\ tmp \in [Sessions -> SUBSET Reply]
  /\ files \in [Sessions -> SUBSET Reply]
  /\ listing \in [Sessions -> SUBSET Reply]
  /\ sending \in [Sessions -> SUBSET Reply]
  /\ sent \in [Sessions -> SUBSET Reply]
  /\ inbox \subseteq Message
  /\ job \in Job \cup {Idle}
  /\ dropped \in [Sessions -> SUBSET Requests]
  /\ submits \in 0..MaxSubmits
  /\ crashes \in 0..MaxCrashes
  /\ \A s \in Sessions :
       /\ s \notin tmpdirs => tmp[s] = {}
       /\ s \notin dirs => files[s] = {}

Nothing == [s \in Sessions |-> {}]

Init ==
  /\ tot = "down" /\ due = {} /\ half = {}
  /\ session = [s \in Sessions |-> "unborn"]
  /\ dirs = {} /\ tmpdirs = {} /\ tmp = Nothing /\ files = Nothing
  /\ listing = Nothing /\ sending = Nothing /\ sent = Nothing
  /\ inbox = {} /\ job = Idle /\ dropped = Nothing
  /\ submits = 0 /\ crashes = 0

---------------------------------------------------------------------------
(* TOT.                                                                    *)

(* sweep_stale_sessions: startup, before any session can be accepted, every *)
(* directory under the outbox goes.  ANTIE may be depositing meanwhile.    *)
SweepBegin ==
  /\ tot = "down"
  /\ tot' = "sweeping" /\ due' = dirs
  /\ UNCHANGED <<half, session, dirs, tmpdirs, tmp, files, listing, sending, sent, inbox,
                 job,
                 dropped, submits, crashes>>

(* Faulty variant: the files of a directory go, the one below it stays.    *)
SweepFilesOnly(s) ==
  /\ tot = "sweeping" /\ half = {}
  /\ s \in dirs
  /\ half' = {s}
  /\ files' = [files EXCEPT ![s] = {}] /\ tmp' = [tmp EXCEPT ![s] = {}]
  /\ UNCHANGED <<tot, due, session, dirs, tmpdirs, listing, sending, sent, inbox, job,
                 dropped, submits, crashes>>

(* remove_dir_all of the next entry, which may have been created after the *)
(* listing began: first what is in it ...                                  *)
SweepEmpty(s) ==
  /\ tot = "sweeping" /\ half = {}
  /\ s \in dirs
  /\ half' = {s}
  /\ files' = [files EXCEPT ![s] = {}]
  /\ tmpdirs' = tmpdirs \ {s} /\ tmp' = [tmp EXCEPT ![s] = {}]
  /\ UNCHANGED <<tot, due, session, dirs, listing, sending, sent, inbox, job, dropped,
                 submits, crashes>>

(* ... then the directory itself.                                          *)
SweepRemove(s) ==
  /\ tot = "sweeping" /\ half = {s}
  /\ files[s] = {} /\ s \notin tmpdirs
  /\ dirs' = dirs \ {s} /\ due' = due \ {s} /\ half' = {}
  /\ UNCHANGED <<tot, session, tmpdirs, tmp, files, listing, sending, sent, inbox, job,
                 dropped, submits, crashes>>

(* A deposit has come in between: the error ends the process, which is     *)
(* then started again.                                                     *)
SweepErr(s) ==
  /\ tot = "sweeping" /\ half = {s}
  /\ files[s] # {} \/ s \in tmpdirs
  /\ tot' = "down" /\ due' = {} /\ half' = {}
  /\ UNCHANGED <<session, dirs, tmpdirs, tmp, files, listing, sending, sent, inbox, job,
                 dropped, submits, crashes>>

(* The listing is exhausted: TOT accepts connections.                      *)
SweepDone ==
  /\ tot = "sweeping" /\ due = {} /\ half = {}
  /\ tot' = "up"
  /\ UNCHANGED <<due, half, session, dirs, tmpdirs, tmp, files, listing, sending, sent,
                 inbox,
                 job, dropped, submits, crashes>>

(* Faulty variant: sessions are accepted before the sweep has run.         *)
OpenBeforeSweep(s) ==
  /\ session[s] = "unborn"
  /\ session' = [session EXCEPT ![s] = "open"]
  /\ dirs' = dirs \cup {s}
  /\ UNCHANGED <<tot, due, half, tmpdirs, tmp, files, listing, sending, sent, inbox, job,
                 dropped, submits, crashes>>

(* A /session connection: mint a fresh id, create its directory.           *)
Open(s) ==
  /\ tot = "up" /\ session[s] = "unborn"
  /\ session' = [session EXCEPT ![s] = "open"]
  /\ dirs' = dirs \cup {s}
  /\ UNCHANGED <<tot, due, half, tmpdirs, tmp, files, listing, sending, sent, inbox, job,
                 dropped, submits, crashes>>

(* The select! loop is between two arms.                                   *)
AtSelect(s) == session[s] = "open" /\ listing[s] = {} /\ sending[s] = {}

(* Faulty variant: a custody header the client supplied survives.          *)
StampKeepsClientHeader(s, claim) == IF claim = NoSession THEN s ELSE claim

(* stamp_session: whatever X-TOT-Session the client supplied (claim) is    *)
(* dropped, the session's own id is put in front.                          *)
stamp_session(s, claim) == s

(* A binary frame within the caps: stamp it and deliver it to inbox/new/.  *)
Submit(s, r, claim) ==
  /\ AtSelect(s)
  /\ submits < MaxSubmits
  /\ submits' = submits + 1
  /\ inbox' = inbox \cup {[from |-> s, id |-> stamp_session(s, claim), req |-> r]}
  /\ dropped' = [dropped EXCEPT ![s] = @ \ {r}]
  /\ UNCHANGED <<tot, due, half, session, dirs, tmpdirs, tmp, files, listing, sending,
                 sent, job, crashes>>

(* pump_replies, in three steps around its await: list the directory,      *)
(* send one file, remove it.                                               *)
PumpList(s) ==
  /\ AtSelect(s)
  /\ files[s] # {}
  /\ listing' = [listing EXCEPT ![s] = files[s]]
  /\ UNCHANGED <<tot, due, half, session, dirs, tmpdirs, tmp, files, sending, sent, inbox,
                 job, dropped, submits, crashes>>

PumpSend(s) ==
  /\ session[s] = "open" /\ sending[s] = {}
  /\ \E x \in listing[s] \cap files[s] :
       /\ sent' = [sent EXCEPT ![s] = @ \cup {x}]
       /\ sending' = [sending EXCEPT ![s] = {x}]
       /\ listing' = [listing EXCEPT ![s] = @ \ {x}]
  /\ UNCHANGED <<tot, due, half, session, dirs, tmpdirs, tmp, files, inbox, job, dropped,
                 submits, crashes>>

(* Faulty variant: the whole directory is emptied after a send.            *)
PumpRemoveAll(s) ==
  /\ session[s] = "open" /\ sending[s] # {}
  /\ files' = [files EXCEPT ![s] = {}]
  /\ sending' = [sending EXCEPT ![s] = {}]
  /\ listing' = [listing EXCEPT ![s] = {}]
  /\ UNCHANGED <<tot, due, half, session, dirs, tmpdirs, tmp, sent, inbox, job, dropped,
                 submits, crashes>>

PumpRemove(s) ==
  /\ session[s] = "open" /\ sending[s] # {}
  /\ files' = [files EXCEPT ![s] = @ \ sending[s]]
  /\ sending' = [sending EXCEPT ![s] = {}]
  /\ UNCHANGED <<tot, due, half, session, dirs, tmpdirs, tmp, listing, sent, inbox, job,
                 dropped, submits, crashes>>

(* The session ends, for whatever reason and wherever it is: close frame,  *)
(* WebSocket error, oversized frame, rate limit, a reply that cannot be    *)
(* sent.  SessionDir::drop runs remove_dir_all: it deletes the files it    *)
(* finds ...                                                               *)
Close(s) ==
  /\ session[s] = "open"
  /\ session' = [session EXCEPT ![s] = "closing"]
  /\ listing' = [listing EXCEPT ![s] = {}]
  /\ sending' = [sending EXCEPT ![s] = {}]
  /\ files' = [files EXCEPT ![s] = {}]
  /\ tmpdirs' = tmpdirs \ {s} /\ tmp' = [tmp EXCEPT ![s] = {}]
  /\ UNCHANGED <<tot, due, half, dirs, sent, inbox, job, dropped, submits, crashes>>

(* ... and then the directory, unless something was put there meanwhile:   *)
(* the failure is logged and nothing else.                                 *)
RemoveDir(s) ==
  /\ session[s] = "closing"
  /\ session' = [session EXCEPT ![s] = "closed"]
  /\ dirs' = IF files[s] = {} /\ s \notin tmpdirs THEN dirs \ {s} ELSE dirs
  /\ UNCHANGED <<tot, due, half, tmpdirs, tmp, files, listing, sending, sent, inbox, job,
                 dropped, submits, crashes>>

(* TOT is killed: no Drop runs.  The next process starts with the sweep.   *)
TotCrash ==
  /\ tot # "down" /\ crashes < MaxCrashes
  /\ crashes' = crashes + 1
  /\ tot' = "down" /\ due' = {} /\ half' = {}
  /\ session' = [s \in Sessions |->
                   IF session[s] = "unborn" THEN "unborn" ELSE "closed"]
  /\ listing' = Nothing /\ sending' = Nothing
  /\ UNCHANGED <<dirs, tmpdirs, tmp, files, sent, inbox, job, dropped, submits>>

---------------------------------------------------------------------------
(* ANTIE's dispatcher.                                                     *)

Answer(m) == [from |-> m.from, req |-> m.req]

(* Faulty variant: the message leaves new/ before it is answered.          *)
TakeMarksFirst(m) ==
  /\ job = Idle /\ m \in inbox
  /\ job' = [msg |-> m,
             step |-> IF m.from \in DevSessions THEN "mark" ELSE "open_tmp"]
  /\ inbox' = inbox \ {m}
  /\ UNCHANGED <<tot, due, half, session, dirs, tmpdirs, tmp, files, listing, sending, sent,
                 dropped, submits, crashes>>

(* A message is taken from inbox/new/ and handled; send_response finds the *)
(* custody stamp.  A DEV sender is refused: no reply of any kind.          *)
Take(m) ==
  /\ job = Idle /\ m \in inbox
  /\ job' = [msg |-> m,
             step |-> IF m.from \in DevSessions THEN "mark" ELSE "open_tmp"]
  /\ UNCHANGED <<tot, due, half, session, dirs, tmpdirs, tmp, files, listing, sending,
                 sent, inbox,
                 dropped, submits, crashes>>

(* A request that gets no answer at all: oversize, undecryptable, not to   *)
(* be parsed (also when it is shed), or of a type that is answered by      *)
(* other mail.                                                             *)
TakeUnanswerable(m) ==
  /\ job = Idle /\ m \in inbox
  /\ job' = [msg |-> m, step |-> "drop"]
  /\ UNCHANGED <<tot, due, half, session, dirs, tmpdirs, tmp, files, listing, sending,
                 sent, inbox,
                 dropped, submits, crashes>>

InStep(step) == job # Idle /\ job.step = step
GoTo(step) == job' = [job EXCEPT !.step = step]

(* custody::deposit: create_dir_all(<dir>/tmp) ...                         *)
deposit_mkdir ==
  /\ InStep("open_tmp")
  /\ dirs' = dirs \cup {job.msg.id}
  /\ tmpdirs' = tmpdirs \cup {job.msg.id}
  /\ GoTo("write")
  /\ UNCHANGED <<tot, due, half, session, tmp, files, listing, sending, sent, inbox,
                 dropped, submits, crashes>>

(* ... write and fsync the file under tmp/ ...                             *)
deposit_write ==
  /\ InStep("write") /\ job.msg.id \in tmpdirs
  /\ tmp' = [tmp EXCEPT ![job.msg.id] = @ \cup {Answer(job.msg)}]
  /\ GoTo("rename")
  /\ UNCHANGED <<tot, due, half, session, dirs, tmpdirs, files, listing, sending, sent,
                 inbox, dropped, submits, crashes>>

(* ... rename it into place.                                               *)
deposit_rename ==
  /\ InStep("rename") /\ Answer(job.msg) \in tmp[job.msg.id]
  /\ tmp' = [tmp EXCEPT ![job.msg.id] = @ \ {Answer(job.msg)}]
  /\ files' = [files EXCEPT ![job.msg.id] = @ \cup {Answer(job.msg)}]
  /\ GoTo("mark")
  /\ UNCHANGED <<tot, due, half, session, dirs, tmpdirs, listing, sending, sent, inbox,
                 dropped, submits, crashes>>

(* The directory or the tmp file was removed under the deposit: the reply  *)
(* is reported as failed and not mailed (the row suppresses email).        *)
deposit_err ==
  /\ \/ InStep("write") /\ job.msg.id \notin tmpdirs
     \/ InStep("rename") /\ Answer(job.msg) \notin tmp[job.msg.id]
  /\ GoTo("mark")
  /\ UNCHANGED <<tot, due, half, session, dirs, tmpdirs, tmp, files, listing, sending,
                 sent, inbox,
                 dropped, submits, crashes>>

(* A name the deposit refuses, or an I/O error in any of its steps (a full *)
(* disk, permissions): the same, with the session open.                    *)
deposit_refused ==
  /\ \E step \in {"open_tmp", "write", "rename"} : InStep(step)
  /\ GoTo("drop")
  /\ UNCHANGED <<tot, due, half, session, dirs, tmpdirs, tmp, files, listing, sending,
                 sent, inbox,
                 dropped, submits, crashes>>

(* mark_processed and mark_failed both move the message to cur/.           *)
mark_processed ==
  /\ InStep("mark")
  /\ inbox' = inbox \ {job.msg}
  /\ job' = Idle
  /\ UNCHANGED <<tot, due, half, session, dirs, tmpdirs, tmp, files, listing, sending, sent,
                 dropped, submits, crashes>>

mark_failed ==
  /\ InStep("drop")
  /\ inbox' = inbox \ {job.msg}
  /\ job' = Idle
  /\ dropped' = [dropped EXCEPT ![job.msg.from] = @ \cup {job.msg.req}]
  /\ UNCHANGED <<tot, due, half, session, dirs, tmpdirs, tmp, files, listing, sending, sent,
                 submits, crashes>>

(* ANTIE dies and restarts, or the move to cur/ fails, which nobody minds: *)
(* the message in hand is still in new/.                                   *)
AntieCrash ==
  /\ job # Idle /\ crashes < MaxCrashes
  /\ crashes' = crashes + 1
  /\ job' = Idle
  /\ UNCHANGED <<tot, due, half, session, dirs, tmpdirs, tmp, files, listing, sending,
                 sent, inbox, dropped, submits>>

Antie == \/ \E m \in inbox : Take(m) \/ TakeUnanswerable(m)
         \/ deposit_mkdir \/ deposit_write \/ deposit_rename
         \/ deposit_err \/ deposit_refused
         \/ mark_processed \/ mark_failed

Pump(s) == PumpList(s) \/ PumpSend(s) \/ PumpRemove(s)

sweep_stale_sessions ==
  \/ SweepBegin \/ SweepDone
  \/ \E s \in Sessions : SweepEmpty(s) \/ SweepRemove(s) \/ SweepErr(s)

Next == \/ sweep_stale_sessions
        \/ \E s \in Sessions :
             \/ Open(s) \/ Pump(s) \/ Close(s) \/ RemoveDir(s)
             \/ \E r \in Requests, claim \in Sessions \cup {NoSession} :
                  Submit(s, r, claim)
        \/ TotCrash
        \/ Antie \/ AntieCrash

Spec == Init /\ [][Next]_vars

(* The dispatcher is one always-running task, the poll of an open session  *)
(* ticks every 100 ms, a process that dies is restarted.  Of Lambda, which *)
(* Take asks without a deadline, it is assumed that it answers or dies.    *)
FairSpec == /\ Spec
            /\ WF_vars(Antie) /\ WF_vars(sweep_stale_sessions)
            /\ \A s \in Sessions : WF_vars(Pump(s)) /\ WF_vars(RemoveDir(s))

---------------------------------------------------------------------------
(* Properties.                                                             *)

(* What comes down a socket answers a request of that very session, also   *)
(* when a client puts another session's id into its own frame.             *)
OwnRepliesOnly == \A s \in Sessions : \A x \in sent[s] \cup files[s] : x.from = s

(* The directory of an open session exists until the session ends: neither *)
(* the startup sweep of a restarted TOT nor another session's cleanup can  *)
(* take it.  pump_replies ends the session when it is missing.             *)
OpenSessionHasDir == \A s \in Sessions : session[s] = "open" => s \in dirs

(* TOT and ANTIE keep the promise of HeldSession, whatever crashes, sweeps *)
(* and closings come between the directory, the write, the rename and the  *)
(* mark of a deposit, or between the listing, the send and the removal of  *)
(* a pass: an answer goes to its own session, a request leaves new/ only   *)
(* with its answer in place, its session over or the line in the log that  *)
(* says it was dropped, and a reply file of a live session goes only once  *)
(* it was sent.                                                            *)
State ==
  [s \in Sessions |-> IF session[s] \in {"closing", "closed"} THEN "ended" ELSE session[s]]
Asked == [s \in Sessions |-> {r \in Requests : \E m \in inbox : m.from = s /\ m.req = r}]
Held == INSTANCE HeldSession
          WITH Refused <- DevSessions, state <- State, asked <- Asked, ready <- files, got <- sent
ImplementsHeldSession == Held!Spec

(* Every request of a normal wallet is answered on its socket, unless the  *)
(* session ended first or the request was dropped: across a crash of ANTIE *)
(* at any point of the deposit, a resubmission of the same request, also   *)
(* of one that was dropped, replies piling up.                             *)
AnsweredOrClosed ==
  \A s \in Sessions \ DevSessions, r \in Requests :
    (\E m \in inbox : m.from = s /\ m.req = r)
      ~> \/ [from |-> s, req |-> r] \in sent[s] \/ r \in dropped[s]
         \/ session[s] \in {"closing", "closed"}

(* TOT comes up, although ANTIE goes on depositing into the directories    *)
(* that the sweep removes, and a deposit that gets in between fails the    *)
(* sweep and the start with it (tot/src/main.rs:85-97).                    *)
TotComesUp == (tot = "down") ~> (tot = "up")
=============================================================================
