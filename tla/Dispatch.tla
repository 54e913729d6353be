----------------------------- MODULE Dispatch -----------------------------
(***************************************************************************)
(* ANTIE's dispatcher (antie/src/gateway.rs): the one task that takes      *)
(* messages from inbox/new/, puts each through the busy gate and the       *)
(* handler of its type, delivers what Lambda's answer carries for other    *)
(* parties (cheque, certificate, scar consent, peer audit), sends the      *)
(* reply and moves the message to cur/.  A crash may come at every step;   *)
(* the message in hand is then still in new/ and is handled again.         *)
(*                                                                         *)
(* The reply of a held TOT session is CustodySession's subject; here a     *)
(* reply is sent by mail.  The Lambda child is LambdaSupervisor's; here it *)
(* answers, rejects or fails.                                              *)
(***************************************************************************)
EXTENDS Naturals, FiniteSets

CONSTANTS Messages,
          TypesOf,      \* the types each message may arrive with
          Wallets, WalletOf,
          Overlapping,  \* messages that carry overlapped_signatures
          Sealed,       \* messages whose body is encrypted for this validator
          PlanOf,       \* plan_receiver_delivery of each message's transaction
          Responses,    \* the artifact sets Lambda may answer with
          SkipLists,    \* contents the sibling carriers' skip-list file may have
          Averages,     \* values of avg_witness_ms
          Threshold,    \* busy_threshold_ms; 0 disables the gate
          NoMessage,
          MaxRetries    \* bound: crashes, failed listings and failed moves to cur/

Plans == {"email", "deposit", "refuse", "burn"}
Artifacts == {"cheque", "certificate", "scar_consent", "peer_audit"}
Paths == {"pickup", "skipped", "email"}
NoResponse == {"no response"}

(* Types whose handler asks Lambda once and replies with what it says.     *)
AskTypes == {"redeem", "ack", "query", "validator_status", "init_genesis_dev",
             "vbc_sign_request", "vbc_sign_commit", "set_auth_hash"}
OutOfBand == {"peer_audit_request", "peer_audit_response"}
(* "junk": oversized, unparseable or undecryptable.  "vbc_delivery": mail  *)
(* with a certificate, known by its body.  "unknown": no handler, or a     *)
(* witness body that does not decode.                                      *)
Types == AskTypes \cup OutOfBand
           \cup {"witness", "fanout_relay", "vbc_delivery", "unknown", "junk"}

ASSUME DispatchAssumption ==
  /\ TypesOf \in [Messages -> SUBSET Types]
  /\ WalletOf \in [Messages -> Wallets]
  /\ Overlapping \subseteq Messages /\ Sealed \subseteq Messages
  /\ PlanOf \in [Messages -> Plans]
  /\ Responses \subseteq SUBSET Artifacts
  /\ SkipLists \subseteq SUBSET Messages
  /\ Averages \subseteq Nat /\ Threshold \in Nat
  /\ NoMessage \notin Messages
  /\ MaxRetries \in Nat

VARIABLES new, cur,     \* the maildir
          type,         \* the type of each message that has arrived
          batch,        \* messages of this check_new not yet taken
          msg,          \* the message in hand
          at,           \* program point of the dispatcher
          resp,         \* lambda_response of the message in hand
          taken,        \* the path the cheque has taken: deposited, skipped
          outcome,      \* the reply to send
          lambda,       \* YPX-016: the response Lambda holds per request id
          hand,         \* artifacts that left in this handling, and on which path
          settled,      \* artifacts that ever left, or whose failure was logged
          answered,     \* replies the sender got, per message
          unsent,       \* messages whose reply could not be sent
          shed,         \* messages the busy gate turned away when last taken
          limiter,      \* wallets inside their cooldown
          skip_list,    \* receivers (named by message) in the skip list
          avg,          \* avg_witness_ms
          retries

vars == <<new, cur, type, batch, msg, at, resp, taken, outcome, lambda, hand, settled,
          answered, unsent, shed, limiter, skip_list, avg, retries>>
disk == <<new, cur, type>>
env == <<skip_list, avg, retries>>
book == <<unsent, shed>>
ledger == <<hand, settled>>

Points == {"idle", "next", "process", "gates", "lambda", "cheque_deposit", "cheque_divert",
           "cheque_email", "certificate", "scar_consent", "peer_audit", "reply", "mark"}
(* "audit": the mail of its own that answers a peer-audit request.         *)
Outcomes == {"ok", "error", "busy", "audit"}

TypeOK ==
  /\ new \subseteq Messages /\ cur \subseteq Messages /\ new \cap cur = {}
  /\ type \in [Messages -> Types]
  /\ batch \subseteq new
  /\ msg \in new \cup {NoMessage}
  /\ at \in Points /\ (msg = NoMessage <=> at \in {"idle", "next"})
  /\ resp \subseteq Artifacts
  /\ taken \in {"none", "pickup", "skipped"}
  /\ outcome \in Outcomes
  /\ lambda \in [Messages -> (SUBSET Artifacts) \cup {NoResponse}]
  /\ hand \subseteq [art : Artifacts, path : Paths]
  /\ settled \subseteq Messages \X Artifacts
  /\ answered \in [Messages -> SUBSET Outcomes]
  /\ unsent \subseteq Messages /\ shed \subseteq Messages
  /\ limiter \subseteq Wallets /\ skip_list \in SkipLists \cup {{}}
  /\ avg \in Averages \cup {0}
  /\ retries \in 0..MaxRetries

Init ==
  /\ new = {} /\ cur = {} /\ type = [m \in Messages |-> "junk"]
  /\ batch = {} /\ msg = NoMessage /\ at = "idle"
  /\ resp = {} /\ taken = "none" /\ outcome = "error"
  /\ lambda = [m \in Messages |-> NoResponse]
  /\ hand = {} /\ settled = {}
  /\ answered = [m \in Messages |-> {}] /\ unsent = {} /\ shed = {}
  /\ limiter = {} /\ skip_list \in SkipLists \cup {{}} /\ avg = 0
  /\ retries = 0

---------------------------------------------------------------------------
(* The surroundings.                                                       *)

(* Somebody puts a message into new/: a pull carrier, FATMAMA, TOT.        *)
Arrive(m, t) ==
  /\ m \notin new \cup cur /\ t \in TypesOf[m]
  /\ new' = new \cup {m}
  /\ type' = [type EXCEPT ![m] = t]
  /\ UNCHANGED <<cur, batch, msg, at, resp, taken, outcome, lambda, ledger, answered, book,
                 limiter, env>>

(* poll_lambda_stats: a good read is stored; a failed one leaves the last  *)
(* value.                                                                  *)
record_stats_poll(v) ==
  /\ avg # v
  /\ avg' = v
  /\ UNCHANGED <<disk, batch, msg, at, resp, taken, outcome, lambda, ledger, answered,
                 book, limiter, skip_list, retries>>

(* SIGHUP: the file's entries replace the set, an unreadable file empties  *)
(* it.                                                                     *)
reload(list) ==
  /\ skip_list # list
  /\ skip_list' = list
  /\ UNCHANGED <<disk, batch, msg, at, resp, taken, outcome, lambda, ledger, answered,
                 book, limiter, avg, retries>>

(* A wallet's cooldown passes.                                             *)
CooldownOver(w) ==
  /\ w \in limiter
  /\ limiter' = limiter \ {w}
  /\ UNCHANGED <<disk, batch, msg, at, resp, taken, outcome, lambda, ledger, answered,
                 book, env>>

---------------------------------------------------------------------------
(* process_carrier_messages.                                               *)

GoTo(point) == at' = point

(* check_new lists new/ (in no particular order).                          *)
check_new ==
  /\ at = "idle" /\ new # {}
  /\ batch' = new
  /\ GoTo("next")
  /\ UNCHANGED <<disk, msg, resp, taken, outcome, lambda, ledger, answered, book, limiter, env>>

(* new/ cannot be listed, or one of its messages cannot be read: nothing   *)
(* is handled, and the loop comes back after the interval.                 *)
check_new_err ==
  /\ at = "idle" /\ retries < MaxRetries
  /\ retries' = retries + 1
  /\ UNCHANGED <<disk, batch, msg, at, resp, taken, outcome, lambda, ledger, answered,
                 book, limiter, skip_list, avg>>

(* Faulty variant: the message at hand counts as waiting ("the +1 this     *)
(* used to carry").                                                        *)
DepthWithItself(m) == Cardinality(batch)

(* queue_depth: the messages of the batch after this one.                  *)
queue_depth(m) == Cardinality(batch \ {m})

busy_estimate_exceeds(depth) == depth * avg > Threshold

should_reject_busy(m) ==
  Threshold # 0 /\ avg # 0 /\ busy_estimate_exceeds(queue_depth(m))

(* send_busy_rejection parses the message without the decryptor: what it   *)
(* cannot parse (a sealed request, a certificate) is dropped without an    *)
(* answer.  Junk that is merely oversized does get one.  Audit mail,       *)
(* relays and certificates are never sealed.                               *)
IsSealed(m) ==
  m \in Sealed /\ type[m] \notin OutOfBand \cup {"fanout_relay", "vbc_delivery"}

send_busy_rejection(m) ==
  /\ outcome' = "busy"
  /\ at' \in IF IsSealed(m) \/ type[m] = "vbc_delivery" THEN {"mark"}
             ELSE IF type[m] = "junk" THEN {"mark", "reply"}
             ELSE {"reply"}

(* The next message: shed it, or process it.                               *)
TakeNext(m) ==
  /\ at = "next" /\ m \in batch
  /\ batch' = batch \ {m}
  /\ msg' = m
  /\ IF should_reject_busy(m)
       THEN /\ shed' = shed \cup {m}
            /\ send_busy_rejection(m)
       ELSE /\ shed' = shed \ {m}
            /\ GoTo("process")
            /\ outcome' = "error"
  /\ UNCHANGED <<disk, resp, taken, lambda, ledger, answered, unsent, limiter, env>>

BatchDone ==
  /\ at = "next" /\ batch = {}
  /\ GoTo("idle")
  /\ UNCHANGED <<disk, batch, msg, resp, taken, outcome, lambda, ledger, answered, book,
                 limiter, env>>

---------------------------------------------------------------------------
(* process_message and the handlers.                                       *)

(* A step of a handler that changes nothing but what it says.              *)
Quiet == UNCHANGED <<disk, batch, msg, taken, book, env>>

Processing(t) == at = "process" /\ type[msg] = t

(* Dropped without an answer: oversize, undecryptable or unparseable.      *)
drop_message ==
  /\ Processing("junk")
  /\ GoTo("mark")
  /\ Quiet /\ UNCHANGED <<resp, outcome, lambda, ledger, answered, limiter>>

(* A certificate is filed for the stake wallet, or the failure is logged.  *)
(* It is no transaction: no reply.                                         *)
file_vbc_delivery ==
  /\ Processing("vbc_delivery")
  /\ settled' = settled \cup {<<msg, "certificate">>}
  /\ GoTo("mark")
  /\ Quiet /\ UNCHANGED <<resp, outcome, lambda, hand, answered, limiter>>

(* A payload that misses a field, or a Lambda call that fails or is        *)
(* refused, is an error reply; an answer is passed on.                     *)
Ask(t) ==
  /\ Processing(t)
  /\ outcome' \in {"ok", "error"}
  /\ GoTo("reply")
  /\ Quiet /\ UNCHANGED <<resp, lambda, ledger, answered, limiter>>

handle_query == Ask("query")
handle_validator_status == Ask("validator_status")
handle_genesis_dev == Ask("init_genesis_dev")
handle_redeem_request == Ask("redeem")
handle_ack_request == Ask("ack")
handle_vbc_sign_request == Ask("vbc_sign_request")
handle_vbc_sign_commit == Ask("vbc_sign_commit")
handle_set_auth_hash == Ask("set_auth_hash")

(* Refused at the door, with a reason.                                     *)
handle_fanout_relay ==
  /\ at = "process" /\ type[msg] \in {"fanout_relay", "unknown"}
  /\ outcome' = "error"
  /\ GoTo("reply")
  /\ Quiet /\ UNCHANGED <<resp, lambda, ledger, answered, limiter>>

(* Answered by a mail of its own, or not at all; never by a generic reply. *)
handle_peer_audit_request ==
  /\ Processing("peer_audit_request")
  /\ \/ answered' = [answered EXCEPT ![msg] = @ \cup {"audit"}]
     \/ UNCHANGED answered
  /\ GoTo("mark")
  /\ Quiet /\ UNCHANGED <<resp, outcome, lambda, ledger, limiter>>

handle_peer_audit_response ==
  /\ Processing("peer_audit_response")
  /\ GoTo("mark")
  /\ Quiet /\ UNCHANGED <<resp, outcome, lambda, ledger, answered, limiter>>

(* handle_witness_request, the body decoded: the per-wallet cooldown,      *)
(* which an overlap request does not meet, ...                             *)
RateLimited == msg \notin Overlapping /\ WalletOf[msg] \in limiter

witness_rate_limit ==
  /\ Processing("witness")
  /\ \/ RateLimited /\ GoTo("reply") /\ UNCHANGED limiter
     \/ /\ ~RateLimited /\ GoTo("gates")
        /\ limiter' = IF msg \in Overlapping THEN limiter
                      ELSE limiter \cup {WalletOf[msg]}
  /\ Quiet /\ UNCHANGED <<resp, outcome, lambda, ledger, answered>>

(* ... the ban file, the signature pre-filter and CL2 (any may refuse) ... *)
witness_gates ==
  /\ at = "gates"
  /\ at' \in {"reply", "lambda"}
  /\ Quiet /\ UNCHANGED <<resp, outcome, lambda, ledger, answered, limiter>>

(* ... Lambda: an error, or its response.  Asked again for a request it    *)
(* has answered, it replays that response (YPX-016).                       *)
send_witness_request ==
  /\ at = "lambda"
  /\ \/ GoTo("reply") /\ UNCHANGED <<resp, outcome, lambda>>
     \/ /\ IF lambda[msg] = NoResponse THEN resp' \in Responses ELSE resp' = lambda[msg]
        /\ lambda' = [lambda EXCEPT ![msg] = resp']
        /\ outcome' = "ok"
        /\ GoTo("cheque_deposit")
  /\ Quiet /\ UNCHANGED <<ledger, answered, limiter>>

---------------------------------------------------------------------------
(* Deliveries to third parties.                                            *)

Settle(art) == settled' = settled \cup {<<msg, art>>}
Send(art, path) == hand' = hand \cup {[art |-> art, path |-> path]} /\ Settle(art)
Fail(art) == Settle(art) /\ UNCHANGED hand
SendOrFail(art) == Send(art, "email") \/ Fail(art)

DeliveryStep == UNCHANGED <<disk, batch, msg, resp, outcome, lambda, answered, book,
                            limiter, env>>

(* The plan is made once: nothing for a burn, nothing and a log line for   *)
(* an address that does not verify or a cheque that cannot be built; a     *)
(* deposit that fails falls through to the next path.                      *)
cheque_deposit ==
  /\ at = "cheque_deposit"
  /\ \/ /\ "cheque" \notin resp \/ PlanOf[msg] = "burn"
        /\ GoTo("certificate") /\ UNCHANGED <<taken, ledger>>
     \/ /\ "cheque" \in resp /\ PlanOf[msg] # "burn"
        /\ Fail("cheque") /\ GoTo("certificate") /\ UNCHANGED taken
     \/ /\ "cheque" \in resp /\ PlanOf[msg] = "deposit"
        /\ Send("cheque", "pickup")
        /\ taken' = "pickup" /\ GoTo("cheque_divert")
     \/ /\ "cheque" \in resp /\ PlanOf[msg] \in {"deposit", "email"}
        /\ GoTo("cheque_divert") /\ UNCHANGED <<taken, ledger>>
  /\ DeliveryStep

(* Faulty variant: the skip list is consulted after a deposit too.         *)
DivertAlways ==
  /\ at = "cheque_divert"
  /\ \/ /\ msg \in skip_list
        /\ Send("cheque", "skipped") /\ taken' = "skipped"
     \/ UNCHANGED <<taken, ledger>>
  /\ GoTo("cheque_email")
  /\ DeliveryStep

(* A receiver in the skip list, unless the cheque was deposited: into      *)
(* skipped/, and a failed write falls back to mail.                        *)
cheque_divert ==
  /\ at = "cheque_divert"
  /\ \/ /\ taken = "none" /\ msg \in skip_list
        /\ Send("cheque", "skipped") /\ taken' = "skipped"
     \/ UNCHANGED <<taken, ledger>>
  /\ GoTo("cheque_email")
  /\ DeliveryStep

(* Faulty variant: a deposit that failed is not followed by mail.          *)
EmailOnlyIfPlanned ==
  /\ at = "cheque_email"
  /\ IF taken = "none" /\ PlanOf[msg] = "email" THEN SendOrFail("cheque")
     ELSE UNCHANGED ledger
  /\ GoTo("certificate")
  /\ UNCHANGED taken /\ DeliveryStep

(* The last resort: ordinary mail, unless a path was taken.                *)
cheque_email ==
  /\ at = "cheque_email"
  /\ IF taken = "none" THEN SendOrFail("cheque") ELSE UNCHANGED ledger
  /\ GoTo("certificate")
  /\ UNCHANGED taken /\ DeliveryStep

(* The certificate: mail only.                                             *)
deliver_certificate ==
  /\ at = "certificate"
  /\ IF "certificate" \in resp THEN SendOrFail("certificate") ELSE UNCHANGED ledger
  /\ GoTo("scar_consent")
  /\ UNCHANGED taken /\ DeliveryStep

(* The scar-consent notice: deposit, else mail; no skip list.              *)
deliver_scar_consent ==
  /\ at = "scar_consent"
  /\ \/ "scar_consent" \notin resp /\ UNCHANGED ledger
     \/ /\ "scar_consent" \in resp /\ PlanOf[msg] = "deposit"
        /\ Send("scar_consent", "pickup")
     \/ /\ "scar_consent" \in resp /\ PlanOf[msg] \in {"deposit", "email"}
        /\ SendOrFail("scar_consent")
     \/ "scar_consent" \in resp /\ PlanOf[msg] \in {"refuse", "burn"} /\ Fail("scar_consent")
  /\ GoTo("peer_audit")
  /\ UNCHANGED taken /\ DeliveryStep

(* The peer-audit request: mail; Lambda is told of a failure.              *)
deliver_peer_audit ==
  /\ at = "peer_audit"
  /\ IF "peer_audit" \in resp THEN SendOrFail("peer_audit") ELSE UNCHANGED ledger
  /\ GoTo("reply")
  /\ UNCHANGED taken /\ DeliveryStep

---------------------------------------------------------------------------
(* Faulty variant: the failure of a reply is not noticed.                  *)
ReplyUnnoticed ==
  /\ at = "reply"
  /\ \/ answered' = [answered EXCEPT ![msg] = @ \cup {outcome}] /\ UNCHANGED unsent
     \/ UNCHANGED <<answered, unsent>>
  /\ GoTo("mark")
  /\ UNCHANGED <<disk, batch, msg, resp, taken, outcome, lambda, ledger, shed, limiter, env>>

(* send_response by mail: sent, or the message is reported as failed.      *)
send_response ==
  /\ at = "reply"
  /\ \/ answered' = [answered EXCEPT ![msg] = @ \cup {outcome}] /\ UNCHANGED unsent
     \/ unsent' = unsent \cup {msg} /\ UNCHANGED answered
  /\ GoTo("mark")
  /\ UNCHANGED <<disk, batch, msg, resp, taken, outcome, lambda, ledger, shed, limiter, env>>

(* The handling is over: its locals go.                                    *)
Release == /\ msg' = NoMessage /\ resp' = {} /\ taken' = "none"
           /\ outcome' = "error" /\ hand' = {}

(* Faulty variant: a message whose reply failed stays in new/ for good.    *)
MarkOnlyAnswered ==
  /\ at = "mark"
  /\ IF msg \in unsent THEN UNCHANGED <<new, cur>>
     ELSE new' = new \ {msg} /\ cur' = cur \cup {msg}
  /\ Release /\ GoTo("next")
  /\ UNCHANGED <<type, batch, lambda, settled, answered, book, limiter, env>>

(* mark_processed, and mark_failed, which does the same: new/ to cur/.     *)
mark_processed ==
  /\ at = "mark"
  /\ new' = new \ {msg} /\ cur' = cur \cup {msg}
  /\ Release /\ GoTo("next")
  /\ UNCHANGED <<type, batch, lambda, settled, answered, book, limiter, env>>

(* The move fails (its result is ignored): the message is seen again.      *)
mark_err ==
  /\ at = "mark" /\ retries < MaxRetries
  /\ retries' = retries + 1
  /\ Release /\ GoTo("next")
  /\ UNCHANGED <<disk, batch, lambda, settled, answered, book, limiter, skip_list, avg>>

(* ANTIE dies and restarts: what is in memory is gone; the skip list is    *)
(* read from its file again.                                               *)
Crash ==
  /\ at # "idle" /\ retries < MaxRetries
  /\ retries' = retries + 1
  /\ batch' = {} /\ Release /\ GoTo("idle")
  /\ limiter' = {} /\ avg' = 0
  /\ skip_list' \in SkipLists \cup {{}}
  /\ UNCHANGED <<disk, lambda, settled, answered, book>>

---------------------------------------------------------------------------
process_message ==
  \/ drop_message \/ file_vbc_delivery
  \/ handle_query \/ handle_validator_status \/ handle_genesis_dev
  \/ handle_redeem_request \/ handle_ack_request
  \/ handle_vbc_sign_request \/ handle_vbc_sign_commit \/ handle_set_auth_hash
  \/ handle_fanout_relay \/ handle_peer_audit_request \/ handle_peer_audit_response
  \/ witness_rate_limit \/ witness_gates \/ send_witness_request
  \/ cheque_deposit \/ cheque_divert \/ cheque_email
  \/ deliver_certificate \/ deliver_scar_consent \/ deliver_peer_audit
  \/ send_response

run_maildir_carrier ==
  \/ check_new \/ BatchDone \/ process_message \/ mark_processed
  \/ \E m \in Messages : TakeNext(m)

Next ==
  \/ run_maildir_carrier \/ check_new_err \/ mark_err \/ Crash
  \/ \E m \in Messages : \E t \in TypesOf[m] : Arrive(m, t)
  \/ \E v \in Averages : record_stats_poll(v)
  \/ \E list \in SkipLists \cup {{}} : reload(list)
  \/ \E w \in Wallets : CooldownOver(w)

Spec == Init /\ [][Next]_vars

(* The dispatcher asks Lambda and waits for the answer.  No deadline       *)
(* bounds the write of a request, nor the read of a witness, redeem, ack   *)
(* or genesis answer.                                                      *)
WaitsForLambda ==
  \/ at = "lambda"
  \/ at = "process" /\ type[msg] \in AskTypes \cup OutOfBand
  \/ at = "peer_audit" /\ "peer_audit" \in resp

(* The dispatcher never stops by itself: it wakes on inotify and every     *)
(* 500 ms, its mail has deadlines, and a supervisor restarts a process     *)
(* that died.  Nothing is assumed of Lambda, which may never answer.       *)
FairSpec == Spec /\ WF_vars(run_maildir_carrier /\ ~WaitsForLambda)

---------------------------------------------------------------------------
(* Properties.                                                             *)

(* In one handling of a message each artifact goes out on one path at most *)
(* ("a skip-list divert AND a pickup deposit would be double delivery"),   *)
(* whichever of deposit, divert and mail failed before and however the     *)
(* skip list changed meanwhile.                                            *)
SinglePath ==
  \A x, y \in hand : x.art = y.art => x = y

(* A client told that its transaction succeeded knows that every artifact  *)
(* of it was delivered, or its failure logged: across a crash between      *)
(* Lambda's commit and the deliveries, and a second handling that was      *)
(* refused, rate-limited or shed.                                          *)
SuccessMeansDelivered ==
  \A m \in Messages :
    type[m] = "witness" /\ "ok" \in answered[m] =>
      \A a \in lambda[m] :
        \/ <<m, a>> \in settled
        \/ a = "cheque" /\ PlanOf[m] = "burn"

(* No message leaves new/ without its due: a certificate is filed, every   *)
(* other message answered, save the ones that are dropped by design, the   *)
(* audit mail, one whose reply was reported as failed, and (see            *)
(* ShedIsTold) what the busy gate shed unread.                             *)
AnsweredOrReported ==
  \A m \in cur :
    \/ answered[m] # {} \/ m \in unsent
    \/ type[m] \in OutOfBand \cup {"junk"}
    \/ type[m] = "vbc_delivery" /\ (<<m, "certificate">> \in settled \/ m \in shed)
    \/ IsSealed(m) /\ m \in shed

(* The gate costs a message its turn and no more.  "Send an immediate      *)
(* E_VALIDATOR_BUSY rejection to the client" (antie/src/gateway.rs:1126):  *)
(* a client request that is turned away is told so, or the failure to tell *)
(* it is reported; audit mail gets no generic reply, which the other       *)
(* validator cannot parse ("Log the outcome locally; send nothing",        *)
(* antie/src/gateway.rs:1365); a certificate is filed all the same.        *)
ShedIsTold ==
  \A m \in cur \cap shed :
    /\ type[m] \in AskTypes \cup {"witness"} => answered[m] # {} \/ m \in unsent
    /\ type[m] \in OutOfBand => answered[m] \subseteq {"audit"}
    /\ type[m] = "vbc_delivery" => <<m, "certificate">> \in settled

(* Busy is for a backlog: however high the average stands, and however     *)
(* long, the gate never sheds everything that arrived ("self-clearing      *)
(* instead of self-locking").                                              *)
NotAllShed ==
  new = {} /\ cur # {} => ~(cur \subseteq shed)

(* Every message that arrives is handled and leaves new/, over crashes,    *)
(* listings and moves that fail and are tried again, and replies that      *)
(* cannot be sent; the one thing that stops the dispatcher for good is a   *)
(* Lambda that never answers it (send_witness_request_stdio).              *)
InboxDrains ==
  \/ <>[]WaitsForLambda
  \/ \A m \in Messages : m \in new ~> m \in cur
=============================================================================
