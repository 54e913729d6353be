--------------------------- MODULE PullDelivery ---------------------------
(***************************************************************************)
(* The pull carriers of ANTIE (antie/src/carrier.rs, antie/src/gateway.rs): *)
(* one POP3 or IMAP account, the loop that polls or IDLEs on it, and the   *)
(* delivery of every fetched message into the maildir inbox/new/, which is *)
(* the only way into the dispatcher.                                       *)
(*                                                                         *)
(* The mail server is the environment.  It orders messages by the uid it   *)
(* gave them on arrival.  An IMAP id is that uid; a POP3 id is the         *)
(* position of the message in the maildrop of ONE session.                 *)
(*                                                                         *)
(* A fault is one network, server or disk operation that fails; a crash    *)
(* is the end of the ANTIE process at any point.  Both are counted so that *)
(* they can be bounded.                                                    *)
(***************************************************************************)
EXTENDS Naturals, FiniteSets

CONSTANTS Mail,         \* messages that senders may send to the account
          Spam,         \* those of low body entropy
          Accounts,     \* the accounts, one of which is configured
          Blank,        \* a body that is empty or whose head is missing
          MaxCrashes,   \* bound: process crashes
          MaxFaults     \* bound: failed operations

ASSUME PullAssumption ==
  /\ Spam \subseteq Mail
  /\ \A a \in Accounts :
       /\ a \in [carrier : {"imap", "pop3"}, use_idle : BOOLEAN, spam_filter : BOOLEAN]
       /\ a.carrier = "imap" => ~a.spam_filter     \* run_imap_carrier passes None
       /\ a.carrier = "pop3" => ~a.use_idle
  /\ Blank \notin Mail
  /\ MaxCrashes \in Nat /\ MaxFaults \in Nat

VARIABLES account,      \* the configured account
          arrived,      \* messages the server accepted so far
          server,       \* messages in the server's mailbox
          uid,          \* server: arrival number of each message, 0 before
          flagged,      \* server: messages flagged \Deleted, not yet expunged
          inbox,        \* copies written to inbox/new/, per message
          pc,           \* where the carrier's loop is
          batch,        \* fetched messages not yet handled
          cur,          \* the message being marked processed
          polling,      \* the loop is in poll mode
          push,         \* an unread "* n EXISTS" line of the IDLE session
          crashes, faults,
          blanked       \* history: messages once handed over as Blank

mailVars == <<arrived, server, uid, flagged, inbox>>
loopVars == <<pc, batch, cur, polling, push>>
vars == <<account, arrived, server, uid, flagged, inbox,
          pc, batch, cur, polling, push, crashes, faults, blanked>>

Carrier == account.carrier
UseIdle == account.use_idle
SpamFilter == account.spam_filter     \* spam_entropy_threshold is set

Discardable == IF SpamFilter THEN Spam ELSE {}

(* An IncomingMessage: the carrier's id and the raw body.                  *)
Incoming == [id : Nat, raw : Mail \cup {Blank}]
NoMessage == [id |-> 0, raw |-> Blank]

PCs == {"fetch", "deliver", "mark", "wait", "search", "selected", "idling", "down"}

TypeOK ==
  /\ account \in Accounts
  /\ arrived \subseteq Mail /\ IsFiniteSet(arrived)
  /\ server \subseteq arrived
  /\ uid \in [Mail -> Nat]
  /\ flagged \subseteq IF Carrier = "imap" THEN server ELSE {}
  /\ inbox \in [Mail -> Nat]
  /\ pc \in PCs
  /\ batch \subseteq Incoming
  /\ cur \in Incoming \cup {NoMessage}
  /\ polling \in BOOLEAN
  /\ push \in BOOLEAN
  /\ crashes \in 0..MaxCrashes
  /\ faults \in 0..MaxFaults
  /\ blanked \subseteq arrived

Init ==
  /\ account \in Accounts
  /\ arrived = {} /\ server = {} /\ flagged = {}
  /\ uid = [m \in Mail |-> 0]
  /\ inbox = [m \in Mail |-> 0]
  /\ pc = "fetch" /\ batch = {} /\ cur = NoMessage
  /\ polling = ~UseIdle
  /\ push = FALSE
  /\ crashes = 0 /\ faults = 0 /\ blanked = {}

Fault == faults < MaxFaults /\ faults' = faults + 1

---------------------------------------------------------------------------
(* The mail server.                                                        *)

(* A message arrives.  A session in IDLE is told; between SEARCH UNSEEN    *)
(* and IDLE the line may be swallowed by the buffered reader of the        *)
(* SEARCH, which is dropped with what it read past the tagged reply.       *)
Arrive(m) ==
  /\ m \notin arrived
  /\ arrived' = arrived \cup {m}
  /\ server' = server \cup {m}
  /\ uid' = [uid EXCEPT ![m] = Cardinality(arrived) + 1]
  /\ push' \in IF pc = "idling" THEN {TRUE}
               ELSE IF pc = "selected" THEN {push, TRUE} ELSE {push}
  /\ UNCHANGED <<account, flagged, inbox, pc, batch, cur, polling, crashes, faults, blanked>>

(* The POP3 number of a message in a session opened on mailbox S.          *)
Number(m, S) == Cardinality({x \in S : uid[x] <= uid[m]})

(* What check_new hands over for one message.                              *)
Fetched(m, spoilt) ==
  [id  |-> IF Carrier = "imap" THEN uid[m] ELSE Number(m, server),
   raw |-> IF m \in spoilt THEN Blank ELSE m]

---------------------------------------------------------------------------
(* deliver_carrier_messages: fetch, then per message stage and mark.       *)

(* Faulty variant: the fetch itself flags what it returns for deletion.    *)
FetchFlagsDeleted ==
  /\ pc = "fetch"
  /\ batch' = {Fetched(m, {}) : m \in server}
  /\ flagged' = server
  /\ pc' = "deliver"
  /\ UNCHANGED <<account, arrived, server, uid, inbox, cur, polling, push,
                 crashes, faults, blanked>>

(* check_new succeeds.  The POP3 client reads the status line of each RETR *)
(* through a buffered reader of its own and drops it with what it read     *)
(* ahead, so any of the bodies may come without its head; the pass does    *)
(* not notice.                                                             *)
check_new ==
  /\ pc = "fetch"
  /\ \E torn \in IF Carrier = "pop3" THEN SUBSET server ELSE {{}} :
       /\ batch' = {Fetched(m, torn) : m \in server}
       /\ blanked' = blanked \cup torn
  /\ pc' = "deliver"
  /\ UNCHANGED <<account, arrived, server, uid, flagged, inbox, cur, polling, push,
                 crashes, faults>>

(* That reader took the end of the reply too: read_multiline waits for a   *)
(* line that was already read until it times out.  Nothing failed, so this *)
(* is no fault; it may happen on every pass.                               *)
check_new_starved ==
  /\ pc = "fetch" /\ Carrier = "pop3" /\ server # {}
  /\ pc' = "wait"
  /\ UNCHANGED <<account, arrived, server, uid, flagged, inbox, batch, cur, polling,
                 push, crashes, faults, blanked>>

(* The server answers NO to some of the fetches.  The POP3 client turns a  *)
(* refused RETR into an error (check_new_err); the IMAP fetch_message      *)
(* stops at the tagged line whatever its status, so a refused FETCH is an  *)
(* empty body, which is handled like any other.                            *)
check_new_refused ==
  /\ pc = "fetch" /\ Carrier = "imap"
  /\ Fault
  /\ \E refused \in SUBSET server \ {{}} :
       /\ batch' = {Fetched(m, refused) : m \in server}
       /\ blanked' = blanked \cup refused
  /\ pc' = "deliver"
  /\ UNCHANGED <<account, arrived, server, uid, flagged, inbox, cur, polling, push,
                 crashes>>

(* connect, login, search or any one fetch fails: the pass is abandoned    *)
(* and the loop backs off.                                                 *)
check_new_err ==
  /\ pc = "fetch"
  /\ Fault
  /\ pc' = IF polling THEN "wait" ELSE "search"
  /\ UNCHANGED <<account, arrived, server, uid, flagged, inbox, batch, cur, polling,
                 push, crashes, blanked>>

(* The message the for loop is at.                                         *)
IsNext(b) == b \in batch /\ \A c \in batch : b.id <= c.id

(* Low-entropy text; a body too short to judge is kept.  Whether what is   *)
(* left of a torn body is kept or not is all one: the message is not.      *)
IsSpam(b) == SpamFilter /\ b.raw \in Spam

spam_drop ==
  /\ pc = "deliver"
  /\ \E b \in batch : IsNext(b) /\ IsSpam(b) /\ cur' = b
  /\ pc' = "mark"
  /\ UNCHANGED <<account, arrived, server, uid, flagged, inbox, batch, polling, push,
                 crashes, faults, blanked>>

write_message ==
  /\ pc = "deliver"
  /\ \E b \in batch :
       /\ IsNext(b) /\ ~IsSpam(b)
       /\ cur' = b
       /\ inbox' = [m \in Mail |-> inbox[m] + IF m = b.raw THEN 1 ELSE 0]
  /\ pc' = "mark"
  /\ UNCHANGED <<account, arrived, server, uid, flagged, batch, polling, push,
                 crashes, faults, blanked>>

(* Faulty variant: a failed inbox write is still marked processed.         *)
WriteErrMarksProcessed ==
  /\ pc = "deliver"
  /\ Fault
  /\ \E b \in batch : IsNext(b) /\ ~IsSpam(b) /\ cur' = b
  /\ pc' = "mark"
  /\ UNCHANGED <<account, arrived, server, uid, flagged, inbox, batch, polling, push,
                 crashes, blanked>>

(* The inbox write fails: mark_failed of a pull carrier does nothing, the  *)
(* message stays on the server for the next pass.                          *)
write_message_err ==
  /\ pc = "deliver"
  /\ Fault
  /\ \E b \in batch : IsNext(b) /\ ~IsSpam(b) /\ batch' = batch \ {b}
  /\ UNCHANGED <<account, arrived, server, uid, flagged, inbox, pc, cur, polling, push,
                 crashes, blanked>>

Marked == /\ batch' = batch \ {cur}
          /\ cur' = NoMessage
          /\ pc' = "deliver"

(* IMAP mark_processed: STORE \Deleted on the uid, then EXPUNGE, which     *)
(* removes every flagged message.                                          *)
ImapNamed(id) == {m \in server : uid[m] = id}

(* Faulty variant: no EXPUNGE.                                             *)
ImapStoreOnly ==
  /\ pc = "mark" /\ Carrier = "imap"
  /\ flagged' = flagged \cup ImapNamed(cur.id)
  /\ Marked
  /\ UNCHANGED <<account, arrived, server, uid, inbox, polling, push, crashes, faults, blanked>>

ImapMarkProcessed ==
  /\ pc = "mark" /\ Carrier = "imap"
  /\ server' = server \ (flagged \cup ImapNamed(cur.id))
  /\ flagged' = {}
  /\ Marked
  /\ UNCHANGED <<account, arrived, uid, inbox, polling, push, crashes, faults, blanked>>

(* STORE succeeded and EXPUNGE did not.                                    *)
ImapExpungeErr ==
  /\ pc = "mark" /\ Carrier = "imap"
  /\ Fault
  /\ flagged' = flagged \cup ImapNamed(cur.id)
  /\ Marked
  /\ UNCHANGED <<account, arrived, server, uid, inbox, polling, push, crashes, blanked>>

(* Faulty variant: the numbers are taken to start from 0.                  *)
Pop3NamedFromZero(id) == {m \in server : Number(m, server) = id + 1}

(* POP3 mark_processed: a NEW session, DELE of the number that check_new   *)
(* saw in an earlier session, QUIT.  A number past the end is -ERR, which  *)
(* the caller ignores.                                                     *)
Pop3Named(id) == {m \in server : Number(m, server) = id}

(* Faulty variant: the session ends without QUIT, nothing is committed.    *)
Pop3NoQuit ==
  /\ pc = "mark" /\ Carrier = "pop3"
  /\ Marked
  /\ UNCHANGED <<account, arrived, server, uid, flagged, inbox, polling, push, crashes, faults, blanked>>

Pop3MarkProcessed ==
  /\ pc = "mark" /\ Carrier = "pop3"
  /\ server' = server \ Pop3Named(cur.id)
  /\ Marked
  /\ UNCHANGED <<account, arrived, uid, flagged, inbox, polling, push, crashes, faults, blanked>>

(* The session failed before anything was committed; the result of         *)
(* mark_processed is ignored.                                              *)
mark_processed_err ==
  /\ pc = "mark"
  /\ Fault
  /\ Marked
  /\ UNCHANGED <<account, arrived, server, uid, flagged, inbox, polling, push, crashes, blanked>>

(* The for loop is done.                                                   *)
PassDone ==
  /\ pc = "deliver" /\ batch = {}
  /\ pc' = IF polling THEN "wait" ELSE "search"
  /\ UNCHANGED <<account, arrived, server, uid, flagged, inbox, batch, cur, polling,
                 push, crashes, faults, blanked>>

(* sleep_beating over the poll interval or the backoff ends.               *)
WaitOver ==
  /\ pc = "wait"
  /\ pc' = "fetch"
  /\ UNCHANGED <<account, arrived, server, uid, flagged, inbox, batch, cur, polling,
                 push, crashes, faults, blanked>>

---------------------------------------------------------------------------
(* idle_wait of the IMAP carrier.                                          *)

(* The session opens and SEARCH UNSEEN looks for mail that landed between  *)
(* the drain and now.                                                      *)
idle_search ==
  /\ pc = "search"
  /\ pc' = IF server # {} THEN "fetch" ELSE "selected"
  /\ push' = FALSE
  /\ UNCHANGED <<account, arrived, server, uid, flagged, inbox, batch, cur, polling,
                 crashes, faults, blanked>>

idle_begin ==
  /\ pc = "selected"
  /\ pc' = "idling"
  /\ UNCHANGED <<account, arrived, server, uid, flagged, inbox, batch, cur, polling,
                 push, crashes, faults, blanked>>

(* "* n EXISTS" is read.                                                   *)
idle_exists ==
  /\ pc = "idling" /\ push
  /\ pc' = "fetch"
  /\ push' = FALSE
  /\ UNCHANGED <<account, arrived, server, uid, flagged, inbox, batch, cur, polling,
                 crashes, faults, blanked>>

(* Faulty variant: IDLE without a deadline.                                *)
IdleForever == pc = "idling" /\ UNCHANGED vars

(* The 25-minute recycle deadline passes.                                  *)
idle_recycle ==
  /\ pc = "idling"
  /\ pc' = "fetch"
  /\ push' = FALSE
  /\ UNCHANGED <<account, arrived, server, uid, flagged, inbox, batch, cur, polling,
                 crashes, faults, blanked>>

(* The session fails at any point: wait, then drain again.                 *)
idle_err ==
  /\ pc \in {"search", "selected", "idling"}
  /\ Fault
  /\ pc' = "wait"
  /\ UNCHANGED <<account, arrived, server, uid, flagged, inbox, batch, cur, polling,
                 push, crashes, blanked>>

(* The server does not advertise IDLE: poll from now on.                   *)
idle_not_supported ==
  /\ pc = "search"
  /\ pc' = "fetch"
  /\ polling' = TRUE
  /\ UNCHANGED <<account, arrived, server, uid, flagged, inbox, batch, cur, push,
                 crashes, faults, blanked>>

---------------------------------------------------------------------------
(* The process dies; what was fetched and not staged is forgotten.         *)
Crash ==
  /\ pc # "down"
  /\ crashes < MaxCrashes
  /\ crashes' = crashes + 1
  /\ pc' = "down" /\ batch' = {} /\ cur' = NoMessage /\ push' = FALSE
  /\ polling' = ~UseIdle
  /\ UNCHANGED <<account, arrived, server, uid, flagged, inbox, faults, blanked>>

Restart ==
  /\ pc = "down"
  /\ pc' = "fetch"
  /\ UNCHANGED <<account, arrived, server, uid, flagged, inbox, batch, cur, polling,
                 push, crashes, faults, blanked>>

Loop == \/ check_new \/ check_new_starved \/ check_new_refused \/ check_new_err
        \/ spam_drop \/ write_message \/ write_message_err
        \/ ImapMarkProcessed \/ ImapExpungeErr
        \/ Pop3MarkProcessed \/ mark_processed_err
        \/ PassDone \/ WaitOver
        \/ idle_search \/ idle_begin \/ idle_exists \/ idle_recycle
        \/ idle_err \/ idle_not_supported

Next == \/ \E m \in Mail : Arrive(m)
        \/ Loop
        \/ Crash
        \/ Restart

Spec == Init /\ [][Next]_vars

(* The loop is a task that is always scheduled and whose every wait has a  *)
(* deadline; the process supervisor restarts ANTIE.  Nothing is assumed    *)
(* of arrivals, faults and crashes.                                        *)
FairSpec == Spec /\ WF_vars(Loop) /\ WF_vars(Restart)

---------------------------------------------------------------------------
(* Properties.                                                             *)

(* Still on the server, or staged, or low-entropy text under an enabled    *)
(* spam filter, or once handed over as Blank.                              *)
Kept(m) == m \in server \/ inbox[m] > 0 \/ m \in Discardable \cup blanked
AllKept == \A m \in arrived : Kept(m)

(* No mail of an IMAP account is lost, whatever arrives, fails or crashes  *)
(* meanwhile: a message the server accepted is still there, or a copy is   *)
(* in the funnel, or the server refused to hand it over when asked.  This  *)
(* is the at-least-once claim of deliver_carrier_messages                  *)
(* (gateway.rs:943-949), with the one exception that fetch_message makes   *)
(* to it.                                                                  *)
NoMailLost == Carrier = "imap" => AllKept

(* How far the POP3 numbers of another session can be trusted: as long as  *)
(* no pass finds more than one message, the number that is deleted is the  *)
(* one that was fetched, whatever arrives, fails or crashes meanwhile, and *)
(* an account of that kind loses nothing but what its own reader swallowed *)
(* or its filter dropped.  With two messages the first deletion renumbers  *)
(* the second (mark_processed).                                            *)
OneFetched == \A b, c \in batch : b = c
SingleMailIsKept == Carrier = "pop3" /\ []OneFetched => []AllKept

(* deliver_carrier_messages says that a message is deleted on the server   *)
(* only after its inbox write (gateway.rs:943-949), so one that the server *)
(* accepted is still there, or staged, or in memory about to be staged.    *)
(* The DELE of a POP3 pass with two messages breaks it (mark_processed).   *)
NoMailForgotten ==
  \A m \in arrived : Kept(m) \/ \E b \in batch : b.raw = m

(* Every copy of an IMAP message beyond the first is paid for by a crash   *)
(* or a failed operation: a healthy loop stages each message once, however *)
(* passes, IDLE sessions and arrivals interleave.                          *)
DuplicatesAreAccounted ==
  Carrier = "imap" => \A m \in Mail : inbox[m] <= 1 + crashes + faults

(* The loop of an IMAP account implements the abstract promise: the server *)
(* forgets a message only after the funnel has it (inbox write BEFORE      *)
(* server delete).  IMAP passes no spam filter.  POP3 makes no such        *)
(* promise good: its account is mapped to one that gets no mail.           *)
OfImap(v, none) == IF Carrier = "imap" THEN v ELSE none
Promise == INSTANCE AtLeastOnce
  WITH Discardable <- {},
       arrived <- OfImap(arrived, {}), held <- OfImap(server, {}),
       staged <- OfImap(inbox, [m \in Mail |-> 0]), refused <- OfImap(blanked, {})
ImplementsAtLeastOnce == Promise!Spec

(* What makes NoMailLost inductive for an IMAP account: uids identify      *)
(* messages, a fetched record names the message it carries, or, where it   *)
(* is blank, one that was refused, and only messages that were staged or   *)
(* refused are being marked or flagged.                                    *)
UidsIdentify ==
  /\ \A m \in arrived : uid[m] \in 1 .. Cardinality(arrived)
  /\ \A m, n \in arrived : uid[m] = uid[n] => m = n

Served(m) == inbox[m] > 0 \/ m \in blanked

FetchedNames ==
  \A b \in batch :
    /\ b.id <= Cardinality(arrived)
    /\ b.raw # Blank => b.raw \in arrived /\ uid[b.raw] = b.id
    /\ b.raw = Blank => \A m \in arrived : uid[m] = b.id => m \in blanked

OnlyStagedIsMarked ==
  /\ pc = "mark" => /\ cur \in batch
                    /\ \A m \in arrived : uid[m] = cur.id => Served(m)
  /\ \A m \in flagged : Served(m)

ImapInv ==
  TypeOK /\ UidsIdentify /\ FetchedNames /\ OnlyStagedIsMarked /\ AllKept

(* What makes DuplicatesAreAccounted inductive: a message that may be      *)
(* staged again has as many copies as failures, and no more.               *)
CopiesPaidFor ==
  \A m \in Mail :
    /\ m \notin arrived => inbox[m] = 0
    /\ inbox[m] <= 1 + crashes + faults
    /\ (m \in server \/ \E b \in batch : b.raw = m) /\ ~(pc = "mark" /\ cur.raw = m) =>
         inbox[m] <= crashes + faults

(* Mail that arrives at an IMAP account is eventually staged, also when it *)
(* lands between the drain and IDLE, when its EXISTS line is lost, and     *)
(* across crashes, unless the server ever refuses to hand it over.         *)
EventuallyStaged ==
  Carrier = "imap" => \A m \in Mail : (m \in arrived) ~> (inbox[m] > 0 \/ m \in blanked)

(* As long as fetches go through again and again, the mailbox is drained   *)
(* again and again: every such pass takes at least the first message off   *)
(* the server, so failing deletes of the others cannot keep the loop       *)
(* re-staging the same mail for ever (deliver_carrier_messages).           *)
MailboxDrains == []<><<check_new>>_vars => []<>(server = {})
=============================================================================
