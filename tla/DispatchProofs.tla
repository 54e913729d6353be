--------------------------- MODULE DispatchProofs ---------------------------
(***************************************************************************)
(* Proofs about Dispatch, for any messages, wallets, delivery plans,       *)
(* answers of Lambda, skip lists and number of crashes: the state is well  *)
(* formed; in one handling each artifact goes out on one path at most; a   *)
(* sender told of success knows that every artifact was delivered or its   *)
(* failure logged; no message leaves new/ without its due; the busy gate   *)
(* never sheds everything.                                                 *)
(***************************************************************************)
EXTENDS Dispatch, FiniteSetTheorems, TLAPS

(* The dispatcher's own copy of the queue does not hold the message in     *)
(* hand: what makes TypeOK inductive when a message moves to cur/.         *)
TypeInv == TypeOK /\ msg \notin batch

(* The dispatcher begins idle, with nothing in hand.                       *)
LEMMA TypeInit == Init => TypeInv
<1> SUFFICES ASSUME Init PROVE TypeInv
  OBVIOUS
<1>1. type \in [Messages -> Types]
  BY DEF Init, Types
<1>2. lambda \in [Messages -> (SUBSET Artifacts) \cup {NoResponse}]
  BY DEF Init
<1>3. skip_list \in SkipLists \cup {{}}
  BY DEF Init
<1> QED BY <1>1, <1>2, <1>3, DispatchAssumption
           DEF Init, TypeInv, TypeOK, Points, Outcomes

(* The surroundings keep the state well formed.                            *)
LEMMA TypeEnv ==
  ASSUME TypeInv,
         \/ \E m \in Messages : \E t \in TypesOf[m] : Arrive(m, t)
         \/ \E v \in Averages : record_stats_poll(v)
         \/ \E list \in SkipLists \cup {{}} : reload(list)
         \/ \E w \in Wallets : CooldownOver(w)
  PROVE  TypeInv'
<1> USE DispatchAssumption DEF TypeInv, TypeOK, disk, env, book, ledger
<1>1. ASSUME NEW m \in Messages, NEW t \in TypesOf[m], Arrive(m, t)
      PROVE  TypeInv'
  <2>1. t \in Types
    OBVIOUS
  <2> QED BY <1>1, <2>1 DEF Arrive
<1>2. ASSUME NEW v \in Averages, record_stats_poll(v)
      PROVE  TypeInv'
  BY <1>2 DEF record_stats_poll
<1>3. ASSUME NEW list \in SkipLists \cup {{}}, reload(list)
      PROVE  TypeInv'
  BY <1>3 DEF reload
<1>4. ASSUME NEW w \in Wallets, CooldownOver(w)
      PROVE  TypeInv'
  BY <1>4 DEF CooldownOver
<1> QED BY <1>1, <1>2, <1>3, <1>4

(* Taking messages, answering them and moving them to cur/ keep it.        *)
LEMMA TypeBatch ==
  ASSUME TypeInv,
         \/ check_new \/ BatchDone \/ (\E m \in Messages : TakeNext(m))
         \/ send_response \/ mark_processed \/ check_new_err \/ mark_err \/ Crash
  PROVE  TypeInv'
<1> USE DispatchAssumption
    DEF TypeInv, TypeOK, disk, env, book, ledger, GoTo, Points, Outcomes, Release
<1>1. CASE check_new
  BY <1>1 DEF check_new
<1>2. CASE BatchDone
  BY <1>2 DEF BatchDone
<1>3. ASSUME NEW m \in Messages, TakeNext(m)
      PROVE  TypeInv'
  BY <1>3 DEF TakeNext, send_busy_rejection
<1>4. CASE send_response
  BY <1>4 DEF send_response
<1>5. CASE mark_processed
  BY <1>5 DEF mark_processed
<1>6. CASE check_new_err \/ mark_err
  BY <1>6 DEF check_new_err, mark_err
<1>7. CASE Crash
  BY <1>7 DEF Crash
<1> QED BY <1>1, <1>2, <1>3, <1>4, <1>5, <1>6, <1>7

(* The steps of the handlers before the deliveries keep it.                *)
LEMMA TypeHandler ==
  ASSUME TypeInv,
         \/ drop_message \/ file_vbc_delivery \/ (\E t \in Types : Ask(t))
         \/ handle_fanout_relay \/ handle_peer_audit_request
         \/ handle_peer_audit_response
         \/ witness_rate_limit \/ witness_gates \/ send_witness_request
  PROVE  TypeInv'
<1> USE DispatchAssumption
    DEF TypeInv, TypeOK, disk, env, book, ledger, GoTo, Points, Outcomes, Quiet,
        Processing
<1>1. CASE drop_message \/ file_vbc_delivery
  <2>1. CASE drop_message
    BY <2>1 DEF drop_message
  <2>2. CASE file_vbc_delivery
    <3>1. settled' \subseteq Messages \X Artifacts
      BY <2>2 DEF file_vbc_delivery, Artifacts
    <3> QED BY <2>2, <3>1 DEF file_vbc_delivery
  <2> QED BY <1>1, <2>1, <2>2
<1>2. ASSUME NEW t \in Types, Ask(t)
      PROVE  TypeInv'
  BY <1>2 DEF Ask
<1>3. CASE handle_fanout_relay
  BY <1>3 DEF handle_fanout_relay
<1>4. CASE handle_peer_audit_request
  BY <1>4 DEF handle_peer_audit_request
<1>5. CASE handle_peer_audit_response
  BY <1>5 DEF handle_peer_audit_response
<1>6. CASE witness_rate_limit
  <2>1. WalletOf[msg] \in Wallets
    BY <1>6 DEF witness_rate_limit
  <2> QED BY <1>6, <2>1 DEF witness_rate_limit
<1>7. CASE witness_gates
  BY <1>7 DEF witness_gates
<1>8. CASE send_witness_request
  <2>1. msg \in Messages /\ lambda[msg] \in (SUBSET Artifacts) \cup {NoResponse}
    BY <1>8 DEF send_witness_request
  <2>2. resp' \subseteq Artifacts
    <3>1. CASE UNCHANGED resp
      BY <3>1
    <3>2. CASE resp' \in Responses
      BY <3>2
    <3>3. CASE lambda[msg] # NoResponse /\ resp' = lambda[msg]
      BY <2>1, <3>3
    <3> QED BY <1>8, <3>1, <3>2, <3>3 DEF send_witness_request
  <2>3. lambda' \in [Messages -> (SUBSET Artifacts) \cup {NoResponse}]
    BY <1>8, <2>1, <2>2 DEF send_witness_request
  <2> QED BY <1>8, <2>2, <2>3 DEF send_witness_request
<1> QED BY <1>1, <1>2, <1>3, <1>4, <1>5, <1>6, <1>7, <1>8

(* The deliveries: each leaves all but its own ledger alone.               *)
Deliver == \/ cheque_deposit \/ cheque_divert \/ cheque_email
           \/ deliver_certificate \/ deliver_scar_consent \/ deliver_peer_audit

(* They keep it too.                                                       *)
LEMMA TypeDeliver ==
  ASSUME TypeInv, Deliver
  PROVE  TypeInv'
<1> USE DispatchAssumption
    DEF TypeInv, TypeOK, disk, env, book, ledger, GoTo, Points, DeliveryStep,
        Send, Settle, Fail, SendOrFail, Artifacts, Paths
<1>1. CASE cheque_deposit
  BY <1>1 DEF cheque_deposit
<1>2. CASE cheque_divert
  BY <1>2 DEF cheque_divert
<1>3. CASE cheque_email
  BY <1>3 DEF cheque_email
<1>4. CASE deliver_certificate
  BY <1>4 DEF deliver_certificate
<1>5. CASE deliver_scar_consent
  BY <1>5 DEF deliver_scar_consent
<1>6. CASE deliver_peer_audit
  BY <1>6 DEF deliver_peer_audit
<1> QED BY <1>1, <1>2, <1>3, <1>4, <1>5, <1>6 DEF Deliver

(* The actions by group, as the proofs below take them.                    *)
LEMMA Groups ==
  ASSUME Next
  PROVE  \/ \/ \E m \in Messages : \E t \in TypesOf[m] : Arrive(m, t)
            \/ \E v \in Averages : record_stats_poll(v)
            \/ \E list \in SkipLists \cup {{}} : reload(list)
            \/ \E w \in Wallets : CooldownOver(w)
         \/ \/ check_new \/ BatchDone \/ (\E m \in Messages : TakeNext(m))
            \/ send_response \/ mark_processed \/ check_new_err \/ mark_err \/ Crash
         \/ \/ drop_message \/ file_vbc_delivery \/ (\E t \in AskTypes : Ask(t))
            \/ handle_fanout_relay \/ handle_peer_audit_request
            \/ handle_peer_audit_response
            \/ witness_rate_limit \/ witness_gates \/ send_witness_request
         \/ Deliver
<1>1. (\/ handle_query \/ handle_validator_status \/ handle_genesis_dev
       \/ handle_redeem_request \/ handle_ack_request \/ handle_vbc_sign_request
       \/ handle_vbc_sign_commit \/ handle_set_auth_hash)
        => \E t \in AskTypes : Ask(t)
  BY DEF handle_query, handle_validator_status, handle_genesis_dev,
         handle_redeem_request, handle_ack_request, handle_vbc_sign_request,
         handle_vbc_sign_commit, handle_set_auth_hash, AskTypes
<1> QED BY <1>1, Zenon DEF Next, run_maildir_carrier, process_message, Deliver

(* Every step keeps the state well formed.                                 *)
LEMMA TypeStep == TypeInv /\ [Next]_vars => TypeInv'
<1> SUFFICES ASSUME TypeInv, [Next]_vars PROVE TypeInv'
  OBVIOUS
<1>1. CASE UNCHANGED vars
  BY <1>1 DEF TypeInv, TypeOK, vars
<1>2. CASE Next
  <2>1. AskTypes \subseteq Types
    BY DEF Types
  <2> QED BY <1>2, <2>1, Groups, TypeEnv, TypeBatch, TypeHandler, TypeDeliver
<1> QED BY <1>1, <1>2

(* The maildir, the batch, the message in hand and the dispatcher's place  *)
(* agree after every step, crashes and failed moves included.              *)
THEOREM DispatchTypeCorrect == Spec => []TypeOK
<1>1. Init => TypeInv
  BY TypeInit
<1>2. TypeInv => TypeOK
  BY DEF TypeInv
<1> QED BY <1>1, <1>2, TypeStep, PTL DEF Spec

---------------------------------------------------------------------------
(* One path per artifact.  What makes SinglePath inductive is how far the  *)
(* handling has come: nothing has left before the deliveries, only         *)
(* artifacts of earlier steps have left at each of them, and no cheque has *)
(* left while no path is recorded as taken.                                *)
Before == {"idle", "next", "process", "gates", "lambda", "cheque_deposit"}
Left(arts) == \A x \in hand : x.art \in arts

PathInv ==
  /\ SinglePath
  /\ at \in Before => hand = {} /\ taken = "none"
  /\ at \in {"cheque_divert", "cheque_email"} /\ taken = "none" => hand = {}
  /\ at \in {"cheque_divert", "cheque_email", "certificate"} => Left({"cheque"})
  /\ at = "scar_consent" => Left({"cheque", "certificate"})
  /\ at = "peer_audit" => Left({"cheque", "certificate", "scar_consent"})

(* An artifact that has not left yet may leave once.                       *)
LEMMA SendOnce ==
  ASSUME SinglePath, NEW art, NEW path, \A x \in hand : x.art # art, Send(art, path)
  PROVE  SinglePath'
BY DEF SinglePath, Send

(* A delivery step keeps PathInv.                                          *)
LEMMA PathDeliver ==
  ASSUME TypeInv, PathInv, Deliver
  PROVE  PathInv'
<1> USE DEF PathInv, Before, Left, GoTo, DeliveryStep
<1>1. CASE cheque_deposit
  <2>1. CASE UNCHANGED hand
    BY <1>1, <2>1 DEF cheque_deposit, SinglePath
  <2>2. CASE Send("cheque", "pickup") /\ taken' = "pickup" /\ at' = "cheque_divert"
    <3>1. hand = {}
      BY <1>1 DEF cheque_deposit
    <3>2. SinglePath'
      BY <2>2, <3>1, SendOnce
    <3>3. \A x \in hand' : x.art = "cheque"
      BY <2>2, <3>1 DEF Send
    <3>4. at' = "cheque_divert"
      BY <1>1, <2>2 DEF cheque_deposit
    <3> QED BY <2>2, <3>2, <3>3, <3>4
  <2> QED BY <1>1, <2>1, <2>2 DEF cheque_deposit, ledger, Fail
<1>2. CASE cheque_divert
  <2>1. CASE UNCHANGED <<taken, ledger>>
    BY <1>2, <2>1 DEF cheque_divert, SinglePath, ledger
  <2>2. CASE taken = "none" /\ Send("cheque", "skipped") /\ taken' = "skipped"
    <3>1. hand = {}
      BY <1>2, <2>2 DEF cheque_divert
    <3>2. SinglePath'
      BY <2>2, <3>1, SendOnce
    <3>3. \A x \in hand' : x.art = "cheque"
      BY <2>2, <3>1 DEF Send
    <3>4. at' = "cheque_email"
      BY <1>2 DEF cheque_divert
    <3> QED BY <2>2, <3>2, <3>3, <3>4
  <2> QED BY <1>2, <2>1, <2>2 DEF cheque_divert
<1>3. CASE cheque_email
  <2>1. CASE UNCHANGED hand
    BY <1>3, <2>1 DEF cheque_email, SinglePath
  <2>2. CASE taken = "none" /\ Send("cheque", "email")
    <3>1. hand = {}
      BY <1>3, <2>2 DEF cheque_email
    <3>2. SinglePath'
      BY <2>2, <3>1, SendOnce
    <3>3. \A x \in hand' : x.art = "cheque"
      BY <2>2, <3>1 DEF Send
    <3>4. at' = "certificate"
      BY <1>3 DEF cheque_email
    <3> QED BY <3>2, <3>3, <3>4
  <2> QED BY <1>3, <2>1, <2>2 DEF cheque_email, ledger, Fail, SendOrFail
<1>4. CASE deliver_certificate
  <2>1. CASE UNCHANGED hand
    BY <1>4, <2>1 DEF deliver_certificate, SinglePath
  <2>2. CASE Send("certificate", "email")
    <3>1. \A x \in hand : x.art # "certificate"
      BY <1>4 DEF deliver_certificate
    <3>2. SinglePath'
      BY <2>2, <3>1, SendOnce
    <3>3. \A x \in hand' : x.art \in {"cheque", "certificate"}
      BY <1>4, <2>2 DEF deliver_certificate, Send
    <3>4. at' = "scar_consent"
      BY <1>4 DEF deliver_certificate
    <3> QED BY <3>2, <3>3, <3>4
  <2> QED BY <1>4, <2>1, <2>2 DEF deliver_certificate, ledger, Fail, SendOrFail
<1>5. CASE deliver_scar_consent
  <2>1. CASE UNCHANGED hand
    BY <1>5, <2>1 DEF deliver_scar_consent, SinglePath
  <2>2. ASSUME NEW path, Send("scar_consent", path)
        PROVE  PathInv'
    <3>1. \A x \in hand : x.art # "scar_consent"
      BY <1>5 DEF deliver_scar_consent
    <3>2. SinglePath'
      BY <2>2, <3>1, SendOnce
    <3>3. \A x \in hand' : x.art \in {"cheque", "certificate", "scar_consent"}
      BY <1>5, <2>2 DEF deliver_scar_consent, Send
    <3>4. at' = "peer_audit"
      BY <1>5 DEF deliver_scar_consent
    <3> QED BY <3>2, <3>3, <3>4
  <2> QED BY <1>5, <2>1, <2>2 DEF deliver_scar_consent, ledger, Fail, SendOrFail
<1>6. CASE deliver_peer_audit
  <2>1. CASE UNCHANGED hand
    BY <1>6, <2>1 DEF deliver_peer_audit, SinglePath
  <2>2. CASE Send("peer_audit", "email")
    <3>1. \A x \in hand : x.art # "peer_audit"
      BY <1>6 DEF deliver_peer_audit
    <3>2. SinglePath'
      BY <2>2, <3>1, SendOnce
    <3>4. at' = "reply"
      BY <1>6 DEF deliver_peer_audit
    <3> QED BY <3>2, <3>4
  <2> QED BY <1>6, <2>1, <2>2 DEF deliver_peer_audit, ledger, Fail, SendOrFail
<1> QED BY <1>1, <1>2, <1>3, <1>4, <1>5, <1>6 DEF Deliver

(* Every step keeps PathInv: outside the deliveries nothing leaves, and    *)
(* the end of a handling forgets what left.                                *)
LEMMA PathStep == TypeInv /\ PathInv /\ [Next]_vars => PathInv'
<1> SUFFICES ASSUME TypeInv, PathInv, [Next]_vars PROVE PathInv'
  OBVIOUS
<1> USE DEF ledger, env, book, disk
<1>1. CASE Deliver
  BY <1>1, PathDeliver
<1>2. CASE UNCHANGED <<hand, taken, at>>
  BY <1>2 DEF PathInv, SinglePath, Left
<1>3. CASE UNCHANGED <<hand, taken>>
           /\ (at \in Before \/ at = "reply") /\ at' \in Before \cup {"reply", "mark"}
           /\ (at = "reply" => at' = "mark")
  BY <1>3 DEF PathInv, SinglePath, Left, Before
<1>4. CASE Release /\ at' \in {"idle", "next"}
  BY <1>4 DEF Release, PathInv, SinglePath, Left, Before
<1>5. CASE \/ \E m \in Messages : \E t \in TypesOf[m] : Arrive(m, t)
           \/ \E v \in Averages : record_stats_poll(v)
           \/ \E list \in SkipLists \cup {{}} : reload(list)
           \/ \E w \in Wallets : CooldownOver(w)
  BY <1>2, <1>5 DEF Arrive, record_stats_poll, reload, CooldownOver
<1>6. CASE check_new \/ BatchDone \/ (\E m \in Messages : TakeNext(m)) \/ send_response
  BY <1>3, <1>6 DEF check_new, BatchDone, TakeNext, send_busy_rejection, send_response,
                    GoTo, Before
<1>10. CASE check_new_err
  BY <1>2, <1>10 DEF check_new_err
<1>7. CASE mark_processed \/ mark_err \/ Crash
  BY <1>4, <1>7 DEF mark_processed, mark_err, Crash, GoTo
<1>8. CASE \/ drop_message \/ file_vbc_delivery \/ (\E t \in AskTypes : Ask(t))
           \/ handle_fanout_relay \/ handle_peer_audit_request
           \/ handle_peer_audit_response
           \/ witness_rate_limit \/ witness_gates \/ send_witness_request
  BY <1>3, <1>8 DEF drop_message, file_vbc_delivery, ledger, Ask, handle_fanout_relay, handle_peer_audit_request,
                    handle_peer_audit_response, witness_rate_limit, witness_gates,
                    send_witness_request, Quiet, GoTo, Before, Processing
<1>9. CASE UNCHANGED vars
  BY <1>2, <1>9 DEF vars
<1> QED BY <1>1, <1>5, <1>6, <1>7, <1>8, <1>9, <1>10, Groups

(* In one handling of a message no artifact takes two paths, whichever     *)
(* deposits and mails fail and however the skip list changes meanwhile     *)
(* (handle_witness_request).                                               *)
THEOREM OnePathPerArtifact == Spec => []SinglePath
<1>1. Init => TypeInv /\ PathInv
  BY TypeInit DEF Init, PathInv, SinglePath, Left, Before
<1>2. TypeInv /\ PathInv /\ [Next]_vars => (TypeInv /\ PathInv)'
  BY TypeStep, PathStep
<1>3. PathInv => SinglePath
  BY DEF PathInv
<1> QED BY <1>1, <1>2, <1>3, PTL DEF Spec

---------------------------------------------------------------------------
(* Success means delivered.  The invariant follows the handling: the       *)
(* response in hand is the one Lambda holds, each delivery step that is    *)
(* passed has settled its artifact, a success is announced only at the     *)
(* end, and nobody was answered before the message arrived.                *)
Settled(m, a) == <<m, a>> \in settled \/ (a = "cheque" /\ PlanOf[m] = "burn")
Passed(a) == a \in resp => Settled(msg, a)
Delivering == {"cheque_deposit", "cheque_divert", "cheque_email", "certificate",
               "scar_consent", "peer_audit"}

Progress ==
  /\ \A m \in Messages \ (new \cup cur) : answered[m] = {}
  /\ at \in {"process", "gates", "lambda"} => outcome = "error"
  /\ at \in Delivering => resp = lambda[msg]
  /\ at \in {"cheque_divert", "cheque_email"} /\ taken # "none" => Settled(msg, "cheque")
  /\ at \in {"certificate", "scar_consent", "peer_audit"} => Passed("cheque")
  /\ at \in {"scar_consent", "peer_audit"} => Passed("certificate")
  /\ at = "peer_audit" => Passed("scar_consent")
  /\ at = "reply" /\ type[msg] = "witness" /\ outcome = "ok" =>
       resp = lambda[msg] /\ \A a \in Artifacts : Passed(a)

SuccessInv == SuccessMeansDelivered /\ Progress

(* What a delivery step does for its artifact and leaves alone otherwise.  *)
LEMMA SuccessDeliver ==
  ASSUME TypeInv, PathInv, SuccessInv, Deliver
  PROVE  SuccessInv'
<1>1. settled \subseteq settled' /\ UNCHANGED <<type, answered, lambda, resp, msg, new, cur>>
  BY DEF Deliver, cheque_deposit, cheque_divert, cheque_email, deliver_certificate,
         deliver_scar_consent, deliver_peer_audit, DeliveryStep, ledger, Send, Fail,
         SendOrFail, Settle, disk
<1>2. SuccessMeansDelivered'
  BY <1>1 DEF SuccessInv, SuccessMeansDelivered
<1>3. \A a : Settled(msg, a) => Settled(msg, a)'
  BY <1>1 DEF Settled
<1>4. \A a : Passed(a) => Passed(a)'
  BY <1>1, <1>3 DEF Passed
<1> SUFFICES Progress'
  BY <1>2 DEF SuccessInv
<1> USE <1>1, <1>3, <1>4 DEF SuccessInv, Progress, GoTo, Delivering
<1>s. ASSUME NEW a, Settle(a)
      PROVE  Settled(msg, a)' /\ Passed(a)'
  BY <1>s DEF Settle, Settled, Passed
<1>5. CASE cheque_deposit
  <2>1. CASE at' = "certificate"
    <3>1. Passed("cheque")'
      BY <1>5, <1>s, <2>1 DEF cheque_deposit, Fail, Passed, Settled
    <3> QED BY <1>5, <2>1, <3>1 DEF cheque_deposit
  <2>2. CASE at' = "cheque_divert"
    <3>0. taken = "none"
      BY <1>5 DEF cheque_deposit, PathInv, Before
    <3>1. taken' # "none" => Settled(msg, "cheque")'
      BY <1>5, <1>s, <2>2, <3>0 DEF cheque_deposit, Send
    <3> QED BY <1>5, <2>2, <3>1 DEF cheque_deposit
  <2> QED BY <1>5, <2>1, <2>2 DEF cheque_deposit
<1>6. CASE cheque_divert
  <2>1. taken' # "none" => Settled(msg, "cheque")'
    BY <1>6, <1>s DEF cheque_divert, Send
  <2> QED BY <1>6, <2>1 DEF cheque_divert
<1>7. CASE cheque_email
  <2>1. Passed("cheque")'
    BY <1>7, <1>s DEF cheque_email, SendOrFail, Send, Fail, Passed
  <2> QED BY <1>7, <2>1 DEF cheque_email
<1>8. CASE deliver_certificate
  <2>1. Passed("certificate")'
    BY <1>8, <1>s DEF deliver_certificate, SendOrFail, Send, Fail, Passed
  <2> QED BY <1>8, <2>1 DEF deliver_certificate
<1>9. CASE deliver_scar_consent
  <2>1. Passed("scar_consent")'
    BY <1>9, <1>s DEF deliver_scar_consent, SendOrFail, Send, Fail, Passed
  <2> QED BY <1>9, <2>1 DEF deliver_scar_consent
<1>10. CASE deliver_peer_audit
  <2>1. Passed("peer_audit")'
    BY <1>10, <1>s DEF deliver_peer_audit, SendOrFail, Send, Fail, Passed
  <2> QED BY <1>10, <2>1 DEF deliver_peer_audit, Artifacts
<1> QED BY <1>5, <1>6, <1>7, <1>8, <1>9, <1>10 DEF Deliver

(* The handlers before the deliveries: only send_witness_request changes   *)
(* what Lambda holds, and it does so only for a request that was never     *)
(* answered with success.                                                  *)
LEMMA SuccessHandler ==
  ASSUME TypeInv, PathInv, SuccessInv,
         \/ drop_message \/ file_vbc_delivery \/ (\E t \in AskTypes : Ask(t))
         \/ handle_fanout_relay \/ handle_peer_audit_request
         \/ handle_peer_audit_response
         \/ witness_rate_limit \/ witness_gates \/ send_witness_request
  PROVE  SuccessInv'
<1> USE DEF TypeInv, TypeOK, SuccessInv, SuccessMeansDelivered, Progress, GoTo, Quiet,
            Delivering, disk, ledger, Processing
<1>1. CASE drop_message \/ file_vbc_delivery
  BY <1>1 DEF drop_message, file_vbc_delivery, Artifacts
<1>2. ASSUME NEW t \in AskTypes, Ask(t)
      PROVE  SuccessInv'
  <2>1. type[msg] # "witness"
    BY <1>2 DEF Ask, AskTypes
  <2> QED BY <1>2, <2>1 DEF Ask
<1>3. CASE handle_fanout_relay
  BY <1>3 DEF handle_fanout_relay
<1>4. CASE handle_peer_audit_request
  BY <1>4 DEF handle_peer_audit_request
<1>5. CASE handle_peer_audit_response
  BY <1>5 DEF handle_peer_audit_response
<1>6. CASE witness_rate_limit
  BY <1>6 DEF witness_rate_limit
<1>7. CASE witness_gates
  BY <1>7 DEF witness_gates
<1>8. CASE send_witness_request
  <2>1. CASE at' = "reply" /\ UNCHANGED <<resp, outcome, lambda>>
    BY <1>8, <2>1 DEF send_witness_request
  <2>2. CASE /\ at' = "cheque_deposit"
             /\ lambda' = [lambda EXCEPT ![msg] = resp']
             /\ lambda[msg] # NoResponse => resp' = lambda[msg]
    <3>1. msg \in Messages
      BY <1>8 DEF send_witness_request
    <3>2. taken = "none"
      BY <1>8 DEF send_witness_request, PathInv, Before
    <3>3. ASSUME lambda[msg] = NoResponse, type[msg] = "witness", "ok" \in answered[msg]
          PROVE  FALSE
      <4>1. "no response" \in lambda[msg]
        BY <3>3 DEF NoResponse
      <4>2. <<msg, "no response">> \in settled
        BY <3>1, <3>3, <4>1
      <4> QED BY <4>2 DEF Artifacts
    <3>4. SuccessMeansDelivered'
      <4>1. ASSUME NEW m \in Messages, type[m] = "witness", "ok" \in answered[m]
            PROVE  lambda'[m] = lambda[m]
        BY <2>2, <3>1, <3>3, <4>1
      <4> QED BY <1>8, <4>1 DEF send_witness_request
    <3>5. Progress'
      BY <1>8, <2>2, <3>1, <3>2 DEF send_witness_request
    <3> QED BY <3>4, <3>5
  <2> QED BY <1>8, <2>1, <2>2 DEF send_witness_request
<1> QED BY <1>1, <1>2, <1>3, <1>4, <1>5, <1>6, <1>7, <1>8

(* The surroundings, the batch, the reply and the end of a handling.       *)
LEMMA SuccessRest ==
  ASSUME TypeInv, SuccessInv,
         \/ \/ \E m \in Messages : \E t \in TypesOf[m] : Arrive(m, t)
            \/ \E v \in Averages : record_stats_poll(v)
            \/ \E list \in SkipLists \cup {{}} : reload(list)
            \/ \E w \in Wallets : CooldownOver(w)
         \/ \/ check_new \/ BatchDone \/ (\E m \in Messages : TakeNext(m))
            \/ send_response \/ mark_processed \/ check_new_err \/ mark_err \/ Crash
  PROVE  SuccessInv'
<1> USE DEF TypeInv, TypeOK, SuccessInv, SuccessMeansDelivered, Progress, GoTo,
            Delivering, disk, ledger
<1>1. ASSUME NEW m \in Messages, NEW t \in TypesOf[m], Arrive(m, t)
      PROVE  SuccessInv'
  <2>1. answered[m] = {} /\ msg # m
    BY <1>1, DispatchAssumption DEF Arrive
  <2> QED BY <1>1, <2>1 DEF Arrive, Passed, Settled
<1>2. ASSUME NEW v \in Averages, record_stats_poll(v)
      PROVE  SuccessInv'
  BY <1>2 DEF record_stats_poll, Passed, Settled
<1>3. ASSUME NEW list \in SkipLists \cup {{}}, reload(list)
      PROVE  SuccessInv'
  BY <1>3 DEF reload, Passed, Settled
<1>4. ASSUME NEW w \in Wallets, CooldownOver(w)
      PROVE  SuccessInv'
  BY <1>4 DEF CooldownOver, Passed, Settled
<1>5. CASE check_new
  BY <1>5 DEF check_new
<1>6. CASE BatchDone
  BY <1>6 DEF BatchDone
<1>7. ASSUME NEW m \in Messages, TakeNext(m)
      PROVE  SuccessInv'
  BY <1>7 DEF TakeNext, send_busy_rejection
<1>8. CASE send_response
  <2>1. msg \in Messages /\ msg \in new
    BY <1>8 DEF send_response
  <2>2. CASE UNCHANGED answered
    BY <1>8, <2>2 DEF send_response
  <2>3. CASE answered' = [answered EXCEPT ![msg] = @ \cup {outcome}]
    <3>1. \A m \in Messages : m # msg => answered'[m] = answered[m]
      BY <2>1, <2>3
    <3>2. answered'[msg] = answered[msg] \cup {outcome}
      BY <2>1, <2>3
    <3>3. type[msg] = "witness" /\ "ok" \in answered'[msg]
            => \A a \in lambda[msg] : Settled(msg, a)
      <4>1. CASE "ok" \in answered[msg]
        BY <2>1, <4>1 DEF Settled
      <4>2. CASE outcome = "ok" /\ type[msg] = "witness"
        <5>1. resp = lambda[msg] /\ \A a \in Artifacts : Passed(a)
          BY <1>8, <4>2 DEF send_response
        <5>2. resp \subseteq Artifacts
          OBVIOUS
        <5> QED BY <5>1, <5>2 DEF Passed
      <4> QED BY <3>2, <4>1, <4>2
    <3>4. SuccessMeansDelivered'
      BY <1>8, <3>1, <3>3 DEF send_response, Settled
    <3>5. Progress'
      BY <1>8, <2>1, <3>1 DEF send_response
    <3> QED BY <3>4, <3>5
  <2> QED BY <1>8, <2>2, <2>3 DEF send_response
<1>9. CASE mark_processed
  BY <1>9 DEF mark_processed, Release
<1>12. CASE check_new_err
  BY <1>12 DEF check_new_err
<1>10. CASE mark_err
  BY <1>10 DEF mark_err, Release
<1>11. CASE Crash
  BY <1>11 DEF Crash, Release
<1> QED BY <1>1, <1>2, <1>3, <1>4, <1>5, <1>6, <1>7, <1>8, <1>9, <1>10, <1>11,
           <1>12

(* Nothing has been answered and nothing promised at the start.            *)
LEMMA SuccessInit == Init => SuccessInv
BY DEF Init, SuccessInv, SuccessMeansDelivered, Progress, Delivering

(* Every step keeps the three invariants together.                         *)
LEMMA SuccessStep ==
  TypeInv /\ PathInv /\ SuccessInv /\ [Next]_vars => SuccessInv'
<1> SUFFICES ASSUME TypeInv, PathInv, SuccessInv, [Next]_vars PROVE SuccessInv'
  OBVIOUS
<1>1. CASE UNCHANGED vars
  BY <1>1 DEF vars, SuccessInv, SuccessMeansDelivered, Progress, Passed, Settled
<1>2. CASE Next
  BY <1>2, Groups, SuccessDeliver, SuccessHandler, SuccessRest
<1> QED BY <1>1, <1>2

(* A client told that its transaction succeeded knows that every artifact  *)
(* of it was delivered or its failure logged, across crashes between       *)
(* Lambda's commit and the deliveries, retries, cooldowns and shedding     *)
(* (handle_witness_request, send_response).                                *)
THEOREM SuccessIsDelivered == Spec => []SuccessMeansDelivered
<1>1. Init => TypeInv /\ PathInv /\ SuccessInv
  <2>1. Init => PathInv
    BY DEF Init, PathInv, SinglePath, Left, Before
  <2> QED BY <2>1, TypeInit, SuccessInit
<1>2. TypeInv /\ PathInv /\ SuccessInv /\ [Next]_vars
        => (TypeInv /\ PathInv /\ SuccessInv)'
  BY TypeStep, PathStep, SuccessStep
<1>3. SuccessInv => SuccessMeansDelivered
  BY DEF SuccessInv
<1> QED BY <1>1, <1>2, <1>3, PTL DEF Spec

---------------------------------------------------------------------------
(* What is due to a message before it may leave new/.                      *)
Due(m) ==
  \/ answered[m] # {} \/ m \in unsent
  \/ type[m] \in OutOfBand \cup {"junk"}
  \/ type[m] = "vbc_delivery" /\ (<<m, "certificate">> \in settled \/ m \in shed)
  \/ IsSealed(m) /\ m \in shed

(* AnsweredOrReported becomes inductive with the message in hand: it has   *)
(* its due when the dispatcher reaches the move to cur/.                   *)
DueInv == AnsweredOrReported /\ (at = "mark" => Due(msg))

(* Nothing a message has been given is taken back, but for the record of   *)
(* the gate, which is rewritten only for a message of the batch.           *)
LEMMA DueKept ==
  ASSUME TypeInv, NEW m \in Messages, Due(m), type'[m] = type[m],
         answered[m] \subseteq answered'[m], unsent \subseteq unsent',
         settled \subseteq settled', m \in shed => m \in shed'
  PROVE  Due(m)'
<1> QED BY DEF Due, IsSealed

(* Every step keeps it.                                                    *)
LEMMA DueStep ==
  ASSUME TypeInv, DueInv, [Next]_vars
  PROVE  DueInv'
<1> USE DispatchAssumption
<1>0. cur \subseteq Messages /\ new \cap cur = {} /\ batch \subseteq new
      /\ (at # "idle" /\ at # "next" => msg \in new /\ msg \in Messages)
  BY DEF TypeInv, TypeOK
<1>a. AnsweredOrReported <=> \A m \in cur : Due(m)
  BY DEF AnsweredOrReported, Due
<1>b. AnsweredOrReported' <=> \A m \in cur' : Due(m)'
  BY DEF AnsweredOrReported, Due
<1>c. ASSUME cur' = cur, \A m \in cur : type'[m] = type[m],
             \A m \in cur : answered[m] \subseteq answered'[m],
             unsent \subseteq unsent', settled \subseteq settled',
             \A m \in cur : m \in shed => m \in shed'
      PROVE  AnsweredOrReported'
  BY <1>0, <1>a, <1>b, <1>c, DueKept DEF DueInv
<1>1. CASE \/ \E m \in Messages : \E t \in TypesOf[m] : Arrive(m, t)
           \/ \E v \in Averages : record_stats_poll(v)
           \/ \E list \in SkipLists \cup {{}} : reload(list)
           \/ \E w \in Wallets : CooldownOver(w)
           \/ UNCHANGED vars
  <2>1. /\ \A m \in new \cup cur : type'[m] = type[m]
        /\ UNCHANGED <<cur, msg, at, answered, unsent, settled, shed>>
    BY <1>0, <1>1 DEF Arrive, record_stats_poll, reload, CooldownOver, disk, book, ledger,
                      vars, TypeInv, TypeOK
  <2>2. AnsweredOrReported'
    BY <1>c, <2>1
  <2>3. at' = "mark" => Due(msg)'
    BY <1>0, <2>1, DueKept DEF DueInv
  <2> QED BY <2>2, <2>3 DEF DueInv
<1>2. CASE check_new \/ BatchDone
  <2>1. at' # "mark" /\ UNCHANGED <<cur, type, answered, unsent, settled, shed>>
    BY <1>2 DEF check_new, BatchDone, GoTo, disk, book, ledger
  <2> QED BY <1>c, <2>1 DEF DueInv
<1>3. ASSUME NEW m \in Messages, TakeNext(m)
      PROVE  DueInv'
  <2>1. /\ UNCHANGED <<cur, type, answered, unsent, settled>> /\ msg' = m
        /\ \A n \in cur : n \in shed => n \in shed'
    BY <1>0, <1>3 DEF TakeNext, disk, ledger
  <2>2. AnsweredOrReported'
    BY <1>c, <2>1
  <2>3. ASSUME at' = "mark" PROVE Due(m)'
    BY <1>3, <2>1, <2>3 DEF TakeNext, send_busy_rejection, GoTo, Due, IsSealed
  <2> QED BY <2>1, <2>2, <2>3 DEF DueInv, Due, IsSealed
<1>4. CASE send_response
  <2>1. /\ UNCHANGED <<cur, type, settled, shed, msg>> /\ msg \in Messages
        /\ unsent \subseteq unsent' /\ \A m \in cur : answered[m] \subseteq answered'[m]
        /\ answered'[msg] # {} \/ msg \in unsent'
    BY <1>0, <1>4 DEF send_response, disk, ledger, TypeInv, TypeOK
  <2>2. AnsweredOrReported'
    BY <1>c, <2>1
  <2> QED BY <2>1, <2>2 DEF DueInv, Due
<1>5. CASE mark_processed
  <2>1. /\ cur' = cur \cup {msg} /\ at' = "next" /\ Due(msg) /\ msg \in Messages
        /\ UNCHANGED <<type, answered, unsent, settled, shed>>
    BY <1>0, <1>5 DEF mark_processed, GoTo, book, DueInv
  <2>2. \A m \in cur' : Due(m)'
    BY <1>0, <1>a, <2>1, DueKept DEF DueInv
  <2> QED BY <1>b, <2>1, <2>2 DEF DueInv
<1>6. CASE check_new_err \/ mark_err \/ Crash
  <2>1. at' # "mark" /\ UNCHANGED <<cur, type, answered, unsent, settled, shed>>
    BY <1>6 DEF check_new_err, ledger, mark_err, Crash, GoTo, disk, book
  <2> QED BY <1>c, <2>1 DEF DueInv
<1>7. CASE \/ drop_message \/ file_vbc_delivery
           \/ handle_peer_audit_request \/ handle_peer_audit_response
  <2>1. /\ UNCHANGED <<cur, type, unsent, shed, msg>> /\ msg \in Messages
        /\ settled \subseteq settled' /\ \A m \in cur : answered[m] \subseteq answered'[m]
    BY <1>0, <1>7 DEF drop_message, file_vbc_delivery, handle_peer_audit_request,
         handle_peer_audit_response, Processing, Quiet, disk, book, ledger, TypeInv, TypeOK
  <2>2. AnsweredOrReported'
    BY <1>c, <2>1
  <2>3. \/ type[msg] \in OutOfBand \cup {"junk"}
        \/ type[msg] = "vbc_delivery" /\ <<msg, "certificate">> \in settled'
    BY <1>7 DEF drop_message, file_vbc_delivery, handle_peer_audit_request,
         handle_peer_audit_response, Processing, OutOfBand
  <2> QED BY <2>1, <2>2, <2>3 DEF DueInv, Due
<1>8. CASE \/ (\E t \in AskTypes : Ask(t)) \/ handle_fanout_relay
           \/ witness_rate_limit \/ witness_gates \/ send_witness_request
  <2>1. at' # "mark" /\ UNCHANGED <<cur, type, answered, unsent, settled, shed>>
    BY <1>8 DEF Ask, handle_fanout_relay, witness_rate_limit, witness_gates,
         send_witness_request, Processing, GoTo, Quiet, disk, book, ledger
  <2> QED BY <1>c, <2>1 DEF DueInv
<1>9. CASE Deliver
  <2>1. at' # "mark" /\ UNCHANGED <<cur, type, answered, unsent, shed>>
    BY <1>9 DEF Deliver, cheque_deposit, cheque_divert, cheque_email, deliver_certificate,
         deliver_scar_consent, deliver_peer_audit, GoTo, DeliveryStep, disk, book
  <2>2. settled \subseteq settled'
    BY <1>9 DEF Deliver, cheque_deposit, cheque_divert, cheque_email, deliver_certificate,
         deliver_scar_consent, deliver_peer_audit, Send, Fail, SendOrFail, Settle, ledger
  <2> QED BY <1>c, <2>1, <2>2 DEF DueInv
<1> QED BY <1>1, <1>2, <1>3, <1>4, <1>5, <1>6, <1>7, <1>8, <1>9, Groups

(* No message leaves new/ without its due, whatever fails and however      *)
(* often the dispatcher dies (process_carrier_messages, process_message,   *)
(* send_busy_rejection).                                                   *)
THEOREM EveryMessageHasItsDue == Spec => []AnsweredOrReported
<1>1. Init => TypeInv /\ DueInv
  BY TypeInit DEF Init, DueInv, AnsweredOrReported
<1>2. TypeInv /\ DueInv /\ [Next]_vars => (TypeInv /\ DueInv)'
  BY TypeStep, DueStep
<1>3. DueInv => AnsweredOrReported
  BY DEF DueInv
<1> QED BY <1>1, <1>2, <1>3, PTL DEF Spec

---------------------------------------------------------------------------
(* The gate.  What is shed was not the last of its batch, so the message   *)
(* that empties new/ was not shed.                                         *)
GateInv == NotAllShed /\ (at \notin {"idle", "next"} /\ msg \in shed => batch # {})

(* A message is shed only while another one waits behind it.               *)
LEMMA ShedHasFollower ==
  ASSUME TypeInv, NEW m \in Messages, should_reject_busy(m)
  PROVE  batch \ {m} # {}
<1>1. avg \in Nat /\ Threshold \in Nat
  BY DispatchAssumption DEF TypeInv, TypeOK
<1>2. Cardinality({}) = 0
  BY FS_EmptySet
<1>3. 0 * avg = 0
  BY <1>1
<1> QED BY <1>1, <1>2, <1>3 DEF should_reject_busy, busy_estimate_exceeds, queue_depth

(* Every step keeps it.                                                    *)
LEMMA GateStep ==
  ASSUME TypeInv, GateInv, [Next]_vars
  PROVE  GateInv'
<1>0. batch \subseteq new /\ msg \notin batch
      /\ (at \notin {"idle", "next"} => msg \in new)
  BY DEF TypeInv, TypeOK
<1>1. CASE UNCHANGED <<new, cur, shed, msg, batch>> /\ (at \in {"idle", "next"} => UNCHANGED at)
  BY <1>1 DEF GateInv, NotAllShed
<1>2. ASSUME NEW m \in Messages, NEW t \in TypesOf[m], Arrive(m, t)
      PROVE  GateInv'
  BY <1>2 DEF Arrive, GateInv, NotAllShed, book
<1>3. CASE check_new
  BY <1>3 DEF check_new, GoTo, GateInv, NotAllShed, disk, book
<1>4. CASE BatchDone
  BY <1>4 DEF BatchDone, GoTo, GateInv, NotAllShed, disk, book
<1>5. ASSUME NEW m \in Messages, TakeNext(m)
      PROVE  GateInv'
  <2>1. new' # {}
    BY <1>0, <1>5 DEF TakeNext, disk
  <2>2. msg' \in shed' => batch' # {}
    BY <1>5, ShedHasFollower DEF TakeNext
  <2> QED BY <2>1, <2>2 DEF GateInv, NotAllShed
<1>6. CASE mark_processed
  <2>1. at' = "next" /\ UNCHANGED shed /\ msg \in cur'
        /\ (new' = {} => batch = {} /\ msg \notin shed)
    BY <1>0, <1>6 DEF mark_processed, GoTo, GateInv, book
  <2> QED BY <2>1 DEF GateInv, NotAllShed
<1>7. CASE mark_err \/ Crash
  BY <1>7 DEF mark_err, Crash, GoTo, GateInv, NotAllShed, disk, book
<1>11. CASE check_new_err
  BY <1>1, <1>11 DEF check_new_err, disk, book
<1>8. CASE \/ \E v \in Averages : record_stats_poll(v)
           \/ \E list \in SkipLists \cup {{}} : reload(list)
           \/ \E w \in Wallets : CooldownOver(w)
           \/ UNCHANGED vars \/ send_response
  BY <1>1, <1>8 DEF record_stats_poll, reload, CooldownOver, vars, send_response, disk, book
<1>9. CASE \/ drop_message \/ file_vbc_delivery \/ (\E t \in AskTypes : Ask(t))
           \/ handle_fanout_relay \/ handle_peer_audit_request
           \/ handle_peer_audit_response
           \/ witness_rate_limit \/ witness_gates \/ send_witness_request
  BY <1>1, <1>9 DEF drop_message, file_vbc_delivery, Ask, handle_fanout_relay,
       handle_peer_audit_request, handle_peer_audit_response, witness_rate_limit,
       witness_gates, send_witness_request, Processing, Quiet, disk, book
<1>10. CASE Deliver
  BY <1>1, <1>10 DEF Deliver, cheque_deposit, cheque_divert, cheque_email,
       deliver_certificate, deliver_scar_consent, deliver_peer_audit, DeliveryStep, disk, book
<1> QED BY <1>2, <1>3, <1>4, <1>5, <1>6, <1>7, <1>8, <1>9, <1>10, <1>11, Groups

(* However high the average stands and however long, the gate never sheds  *)
(* everything that has arrived: busy is for a backlog (busy_estimate_-     *)
(* exceeds, queue_depth).                                                  *)
THEOREM GateSelfClears == Spec => []NotAllShed
<1>1. Init => TypeInv /\ GateInv
  BY TypeInit DEF Init, GateInv, NotAllShed
<1>2. TypeInv /\ GateInv /\ [Next]_vars => (TypeInv /\ GateInv)'
  BY TypeStep, GateStep
<1>3. GateInv => NotAllShed
  BY DEF GateInv
<1> QED BY <1>1, <1>2, <1>3, PTL DEF Spec
=============================================================================
