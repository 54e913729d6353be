-------------------------- MODULE OutboundProofs --------------------------
(***************************************************************************)
(* Theorems about Outbound, for every set of addresses, configurations and *)
(* keys.                                                                   *)
(***************************************************************************)
EXTENDS Outbound, SequenceTheorems, TLAPS

(* The actions, one by one: what Next comes to.                            *)
LEMMA NextCases ==
  Next <=>
    \/ \E c \in Configs : GatewayNew(c)
    \/ \E a \in Addresses, correlated \in BOOLEAN : send_response(a, correlated)
    \/ \E a \in Addresses, matches \in BOOLEAN : deliver_cheque(a, matches)
    \/ \E a \in Addresses : deliver_scar_consent(a)
    \/ \E a \in Validators : deliver_certificate(a) \/ deliver_peer_audit(a)
    \/ \E a \in Validators, held \in BOOLEAN : answer_peer_audit(a, held)
    \/ lookup_none \/ lookup_cached \/ lookup_fetched \/ lookup_failed
    \/ tee_write \/ tee_write_err \/ tee_rename \/ tee_rename_err
    \/ send \/ read_reply \/ RelayAccepts \/ quit \/ smtp_err
    \/ write_message \/ write_message_err \/ rename \/ rename_err
    \/ Logged \/ Crash
    \/ \E a \in KeyHolders, k \in Published : Publish(a, k)
    \/ Tick
BY DEF Next, Decide, try_encrypt_for_email, tee, HandOver

---------------------------------------------------------------------------
(* Types.                                                                  *)

(* What is composed is a mail, and what is encrypted is still one.         *)
LEMMA ComposeType ==
  ASSUME NEW to \in Addresses, NEW subject \in Subjects, NEW payload \in Payloads
  PROVE  Compose(to, subject, payload) \in Mails
BY DEF Compose, Mails, Formats

LEMMA EncryptType ==
  ASSUME NEW m \in Mails, NEW key
  PROVE  encrypt(m, key) \in Mails
BY DEF encrypt, Mails

(* The carrier chosen is one of the hops, or none.                         *)
LEMMA HopType ==
  ASSUME NEW c \in Configs, NEW a \in Addresses
  PROVE  HopOf(c, a) \in Hops \cup {NoHop}
<1>1. RoutedHop(c, a) \in Hops \cup {NoHop}
  <2>1. CASE outbox_for(c.route, a) = {}
    BY <2>1 DEF RoutedHop
  <2>2. CASE outbox_for(c.route, a) # {}
    <3>1. outbox_for(c.route, a) = {Inner(a).name} /\ Inner(a).name \in c.route
      BY <2>2 DEF outbox_for
    <3>2. c.route \subseteq Names
      BY OutboundAssumption DEF Config
    <3>3. (CHOOSE n \in outbox_for(c.route, a) : TRUE) \in Names
      BY <3>1, <3>2
    <3>4. QED
      BY <2>2, <3>3 DEF RoutedHop, Hops
  <2>3. QED
    BY <2>1, <2>2
<1>2. SplitHop(c, a) \in Hops \cup {NoHop}
  BY DEF SplitHop, Smtp, Hops, Links
<1>3. Smtp("external") \in Hops
  BY DEF Smtp, Hops, Links
<1>4. [via |-> "maildir", name |-> "outbox"] \in Hops
  BY DEF Hops
<1>5. QED
  BY <1>1, <1>2, <1>3, <1>4 DEF HopOf

(* An age stays one.                                                       *)
LEMMA OlderType ==
  ASSUME NEW n \in Ages
  PROVE  Older(n) \in Ages
BY OutboundAssumption DEF Older, Ages

(* What others can see grows by a place and what is there.                 *)
Sight == [place : Hops \cup {UncleOutbox}, whole : BOOLEAN]

LEMMA ShowType ==
  ASSUME seen \subseteq Sight, NEW place \in Hops \cup {UncleOutbox}, NEW whole \in BOOLEAN,
         Show(place, whole)
  PROVE  seen' \subseteq Sight
<1>1. [place |-> place, whole |-> whole] \in Sight
  BY DEF Sight
<1>2. QED
  BY <1>1 DEF Show

(* A step that begins a mail, with the mail it begins.                     *)
LEMMA BeginType ==
  ASSUME TypeOK, NEW k \in Kinds, NEW m \in Mails,
         NEW point \in {"encrypt", "tee", "send", "done"}, Begin(k, m, point)
  PROVE  TypeOK'
BY DEF TypeOK, Begin, keys, Results, Points

(* Every variable has its type, and a mail is under way exactly while the  *)
(* dispatcher is between two decisions.                                    *)
THEOREM OutboundTypeCorrect == Spec => []TypeOK
<1>1. Init => TypeOK
  BY OutboundAssumption
     DEF Init, NothingInHand, NoCache, TypeOK, Points, Stages, Results, Ages, Published
<1>2. ASSUME TypeOK, [Next]_vars
      PROVE  TypeOK'
  <2>. USE <1>2
  <2>1. CASE \E c \in Configs : GatewayNew(c)
    BY <2>1 DEF TypeOK, GatewayNew, keys, Points
  <2>2. CASE \E a \in Addresses, correlated \in BOOLEAN : send_response(a, correlated)
    <3>1. PICK a \in Addresses, correlated \in BOOLEAN : send_response(a, correlated)
      BY <2>2
    <3>2. build_response(a) \in Mails
      BY ComposeType DEF build_response, Subjects, Payloads
    <3>3. QED
      BY <3>1, <3>2, BeginType DEF send_response, Kinds, Points
  <2>3. CASE \E a \in Addresses, matches \in BOOLEAN : deliver_cheque(a, matches)
    <3>1. PICK a \in Addresses, matches \in BOOLEAN : deliver_cheque(a, matches)
      BY <2>3
    <3>2. build_cheque_delivery_email(a) \in Mails
      BY ComposeType DEF build_cheque_delivery_email, Subjects, Payloads
    <3>3. QED
      BY <3>1, <3>2, BeginType DEF deliver_cheque, Kinds, Points
  <2>4. CASE \E a \in Addresses : deliver_scar_consent(a)
    <3>1. PICK a \in Addresses : deliver_scar_consent(a)
      BY <2>4
    <3>2. build_scar_consent_email(a) \in Mails
      BY ComposeType DEF build_scar_consent_email, Subjects, Payloads
    <3>3. QED
      BY <3>1, <3>2, BeginType DEF deliver_scar_consent, Kinds, Points
  <2>5. CASE \E a \in Validators : deliver_certificate(a) \/ deliver_peer_audit(a)
    <3>1. PICK a \in Validators : deliver_certificate(a) \/ deliver_peer_audit(a)
      BY <2>5
    <3>2. a \in Addresses
      BY OutboundAssumption
    <3>3. /\ build_vbc_delivery_email(a) \in Mails
          /\ build_peer_audit_request_email(a) \in Mails
      BY <3>2, ComposeType
         DEF build_vbc_delivery_email, build_peer_audit_request_email, Subjects, Payloads,
             RAW_CBOR_MESSAGE_TYPES
    <3>4. QED
      BY <3>1, <3>3, BeginType DEF deliver_certificate, deliver_peer_audit, Kinds, Points
  <2>6. CASE \E a \in Validators, held \in BOOLEAN : answer_peer_audit(a, held)
    <3>1. PICK a \in Validators, held \in BOOLEAN : answer_peer_audit(a, held)
      BY <2>6
    <3>2. a \in Addresses
      BY OutboundAssumption
    <3>3. /\ build_peer_audit_response_email(a) \in Mails
          /\ build_peer_audit_not_held_email(a) \in Mails
      BY <3>2, ComposeType
         DEF build_peer_audit_response_email, build_peer_audit_not_held_email, Subjects,
             Payloads, RAW_CBOR_MESSAGE_TYPES
    <3>4. QED
      BY <3>1, <3>3, BeginType DEF answer_peer_audit, Kinds, Points
  <2>7. CASE lookup_none
    BY <2>7 DEF TypeOK, lookup_none, EncryptStep, world, Points
  <2>8. CASE lookup_cached
    <3>1. mail \in Mails
      BY <2>8 DEF TypeOK, lookup_cached, EncryptStep
    <3>2. mail' \in Mails
      BY <2>8, <3>1, EncryptType DEF lookup_cached
    <3>3. QED
      BY <2>8, <3>2 DEF TypeOK, lookup_cached, EncryptStep, world, Points
  <2>9. CASE lookup_fetched
    <3>1. mail \in Mails
      BY <2>9 DEF TypeOK, lookup_fetched, EncryptStep
    <3>2. mail' \in Mails
      BY <2>9, <3>1, EncryptType DEF lookup_fetched
    <3>3. cache' \in [KeyHolders -> [key : Published \cup {Absent}, age : Ages]]
      BY <2>9, OutboundAssumption DEF TypeOK, lookup_fetched, Remember, Ages
    <3>4. QED
      BY <2>9, <3>2, <3>3 DEF TypeOK, lookup_fetched, EncryptStep, world, Points
  <2>10. CASE lookup_failed
    <3>1. cache' \in [KeyHolders -> [key : Published \cup {Absent}, age : Ages]]
      BY <2>10, OutboundAssumption DEF TypeOK, lookup_failed, Remember, Ages, Published
    <3>2. failed' \in [KeyHolders -> Ages]
      BY <2>10, OutboundAssumption DEF TypeOK, lookup_failed, Ages
    <3>3. QED
      BY <2>10, <3>1, <3>2 DEF TypeOK, lookup_failed, EncryptStep, world, Points
  <2>11. CASE tee_write \/ tee_write_err \/ tee_rename_err
    BY <2>11 DEF TypeOK, tee_write, tee_write_err, tee_rename_err, WriteTmp, keys, Points
  <2>12. CASE tee_rename
    <3>0. seen \subseteq Sight /\ Show(UncleOutbox, tmp = "whole") /\ (tmp = "whole") \in BOOLEAN
      BY <2>12 DEF tee_rename, TypeOK, Sight
    <3>1. seen' \subseteq Sight
      BY <3>0, ShowType
    <3>2. QED
      BY <2>12, <3>1 DEF TypeOK, tee_rename, keys, Points, Sight
  <2>13. CASE send
    <3>1. mail.to \in Addresses
      BY <2>13 DEF TypeOK, send, Mails
    <3>2. hop' \in Hops \cup {NoHop}
      BY <2>13, <3>1, HopType DEF TypeOK, send
    <3>3. /\ at' \in {"done", "smtp", "write"} /\ result' \in Results
          /\ at' # "done" => hop' # NoHop
      BY <2>13 DEF TypeOK, send, Finish, Results, NoHop
    <3>4. QED
      BY <2>13, <3>2, <3>3 DEF TypeOK, send, keys, Points
  <2>14. CASE read_reply
    BY <2>14 DEF TypeOK, read_reply, NextStage, Stages, keys
  <2>15. CASE RelayAccepts
    <3>1. hop \in Hops
      BY <2>15 DEF TypeOK, RelayAccepts
    <3>2. seen' \subseteq Sight
      BY <2>15, <3>1, ShowType DEF RelayAccepts, TypeOK, Sight
    <3>3. QED
      BY <2>15, <3>2 DEF TypeOK, RelayAccepts, Stages, keys, Sight
  <2>16. CASE quit \/ smtp_err \/ write_message_err \/ rename_err
    BY <2>16 DEF TypeOK, quit, smtp_err, write_message_err, rename_err, Finish, keys, Points,
                 Results
  <2>17. CASE write_message
    BY <2>17 DEF TypeOK, write_message, WriteTmp, keys, Points
  <2>18. CASE rename
    <3>1. hop \in Hops
      BY <2>18 DEF TypeOK, rename
    <3>2. seen' \subseteq Sight
      BY <2>18, <3>1, ShowType DEF rename, TypeOK, Sight
    <3>3. QED
      BY <2>18, <3>2 DEF TypeOK, rename, Finish, keys, Points, Results, Sight
  <2>19. CASE Logged
    BY <2>19 DEF TypeOK, Logged, DropInHand, keys, Points, Stages, Results
  <2>20. CASE Crash
    <3>1. cache' \in [KeyHolders -> [key : Published \cup {Absent}, age : Ages]]
      BY <2>20, OutboundAssumption DEF Crash, NoCache, Ages
    <3>2. QED
      BY <2>20, <3>1 DEF TypeOK, Crash, DropInHand, world, Points, Stages, Results
  <2>21. CASE \E a \in KeyHolders, k \in Published : Publish(a, k)
    BY <2>21, OutboundAssumption DEF TypeOK, Publish, Ages
  <2>22. CASE Tick
    <3>1. /\ since' \in [KeyHolders -> Ages]
          /\ failed' \in [KeyHolders -> Ages]
          /\ cache' \in [KeyHolders -> [key : Published \cup {Absent}, age : Ages]]
      BY <2>22, OlderType DEF TypeOK, Tick
    <3>2. QED
      BY <2>22, <3>1 DEF TypeOK, Tick
  <2>23. CASE UNCHANGED vars
    BY <2>23 DEF TypeOK, vars
  <2>24. QED
    BY <2>1, <2>2, <2>3, <2>4, <2>5, <2>6, <2>7, <2>8, <2>9, <2>10, <2>11, <2>12, <2>13,
       <2>14, <2>15, <2>16, <2>17, <2>18, <2>19, <2>20, <2>21, <2>22, <2>23, NextCases
<1>3. QED
  BY <1>1, <1>2, PTL DEF Spec

---------------------------------------------------------------------------
(* The hand-over.                                                          *)

There == \E s \in seen : s.place = hop /\ (s.whole \/ Unstuffed(hop))

(* Up to the end of a send: the carrier chosen is the one the recipient's  *)
(* address and the configuration call for; a relay that has confirmed has  *)
(* the mail; only a whole temporary file is ever renamed.  Nothing is to   *)
(* be seen of a mail before its bytes are final.                           *)
CarrierInv ==
  /\ at # "down" => SenderOf(cfg) # "error"
  /\ at \in {"smtp", "write", "rename"} => hop = HopOf(cfg, mail.to)
  /\ at = "smtp" /\ stage \in {"accepted", "quit"} => There
  /\ at \in {"tee_rename", "rename"} => tmp = "whole"
  /\ at \notin {"smtp", "done"} => stage = "connect"
  /\ at = "done" /\ result = "ok" => hop = HopOf(cfg, mail.to) /\ There
  /\ at = "done" /\ result = "no_route" => HopOf(cfg, mail.to) = NoHop
  /\ at \in {"down", "idle", "encrypt", "tee", "tee_rename"} => seen = {}
  /\ \A s \in seen : s.whole \/ Unstuffed(s.place)

(* A step that leaves the carrier alone and stays out of the hand-over.    *)
LEMMA CarrierFrame ==
  ASSUME CarrierInv, at # "down", at' \notin {"smtp", "write", "rename", "tee_rename"},
         at' = "done" => result' \notin {"ok", "no_route"},
         at' \notin {"smtp", "done"} => stage' = "connect",
         seen' = seen /\ (seen = {} \/ (mail' = mail /\ at' = "done")), UNCHANGED cfg
  PROVE  CarrierInv'
BY DEF CarrierInv, Unstuffed

(* What becomes visible is whole, if it was whole when it was renamed.     *)
LEMMA ShowWhole ==
  ASSUME \A s \in seen : s.whole \/ Unstuffed(s.place), mail' = mail,
         NEW place, tmp = "whole", Show(place, tmp = "whole")
  PROVE  /\ [place |-> place, whole |-> TRUE] \in seen'
         /\ \A s \in seen' : s.whole \/ Unstuffed(s.place)'
<1>1. (tmp = "whole") = TRUE
  OBVIOUS
<1>2. seen' = seen \cup {[place |-> place, whole |-> TRUE]}
  BY <1>1, Zenon DEF Show
<1>3. QED
  BY <1>2 DEF Unstuffed

(* CarrierInv is inductive, given the types.                               *)
LEMMA CarrierStep ==
  ASSUME TypeOK, CarrierInv, [Next]_vars
  PROVE  CarrierInv'
<1>1. CASE \E c \in Configs : GatewayNew(c)
  BY <1>1 DEF CarrierInv, GatewayNew, keys
<1>2. ASSUME NEW k, NEW m, NEW point \in {"encrypt", "tee", "send", "done"}, Begin(k, m, point)
      PROVE  CarrierInv'
  <2>1. /\ at = "idle" /\ at' = point /\ stage' = stage /\ seen' = seen /\ cfg' = cfg
        /\ at' = "done" => result' = "refused"
    BY <1>2 DEF Begin
  <2>2. stage = "connect" /\ seen = {}
    BY <2>1 DEF CarrierInv
  <2>3. QED
    BY <2>1, <2>2, CarrierFrame
<1>3. CASE \E a \in Addresses, correlated \in BOOLEAN : send_response(a, correlated)
  BY <1>2, <1>3 DEF send_response
<1>4. CASE \E a \in Addresses, matches \in BOOLEAN : deliver_cheque(a, matches)
  BY <1>2, <1>4 DEF deliver_cheque
<1>5. CASE \E a \in Addresses : deliver_scar_consent(a)
  BY <1>2, <1>5 DEF deliver_scar_consent
<1>6. CASE \E a \in Validators : deliver_certificate(a) \/ deliver_peer_audit(a)
  BY <1>2, <1>6 DEF deliver_certificate, deliver_peer_audit
<1>7. CASE \E a \in Validators, held \in BOOLEAN : answer_peer_audit(a, held)
  BY <1>2, <1>7 DEF answer_peer_audit
<1>8. CASE lookup_none \/ lookup_cached \/ lookup_fetched \/ lookup_failed
  <2>1. EncryptStep
    BY <1>8 DEF lookup_none, lookup_cached, lookup_fetched, lookup_failed
  <2>2. at = "encrypt" /\ at' = "send" /\ stage' = stage /\ seen' = seen /\ cfg' = cfg
    BY <2>1 DEF EncryptStep
  <2>3. stage = "connect" /\ seen = {}
    BY <2>2 DEF CarrierInv
  <2>4. QED
    BY <2>2, <2>3, CarrierFrame
<1>9. CASE tee_write
  BY <1>9 DEF CarrierInv, There, Unstuffed, tee_write, WriteTmp
<1>10. CASE tee_write_err \/ tee_rename_err
  BY <1>10 DEF CarrierInv, There, Unstuffed, tee_write_err, tee_rename_err
<1>11. CASE tee_rename
  <2>1. tmp = "whole" /\ \A s \in seen : s.whole \/ Unstuffed(s.place)
    BY <1>11 DEF CarrierInv, tee_rename
  <2>2. \A s \in seen' : s.whole \/ Unstuffed(s.place)'
    BY <1>11, <2>1, ShowWhole DEF tee_rename
  <2>3. UNCHANGED <<cfg, stage>> /\ at' = "send" /\ stage = "connect" /\ at # "down"
    BY <1>11 DEF CarrierInv, tee_rename
  <2>4. QED
    BY <2>2, <2>3 DEF CarrierInv
<1>12. CASE send
  <2>1. at = "send" /\ stage = "connect" /\ hop' = HopOf(cfg, mail.to)
    BY <1>12 DEF CarrierInv, send
  <2>2. UNCHANGED <<cfg, mail, tmp, stage, seen>>
    BY <1>12 DEF send
  <2>3. \/ at' = "done" /\ result' = "no_route" /\ hop' = NoHop
        \/ at' = "done" /\ result' = "error"
        \/ at' \in {"smtp", "write"}
    BY <1>12 DEF send, Finish
  <2>4. QED
    BY <2>1, <2>2, <2>3 DEF CarrierInv, Unstuffed
<1>13. CASE read_reply
  <2>1. stage' \in {"accepted", "quit"} => stage = "accepted"
    BY <1>13 DEF read_reply, NextStage, TypeOK, Stages
  <2>2. QED
    BY <1>13, <2>1 DEF CarrierInv, There, Unstuffed, read_reply
<1>14. CASE RelayAccepts
  <2>1. PICK whole \in BOOLEAN : (whole \/ Unstuffed(hop)) /\ Show(hop, whole)
    BY <1>14 DEF RelayAccepts
  <2>2. /\ UNCHANGED <<cfg, at, mail, tmp, hop, result>>
        /\ at = "smtp" /\ stage' = "accepted"
    BY <1>14 DEF RelayAccepts
  <2>3. seen' = seen \cup {[place |-> hop, whole |-> whole]}
    BY <2>1 DEF Show
  <2>4. There'
    <3>1. Unstuffed(hop)' = Unstuffed(hop)
      BY <2>2 DEF Unstuffed
    <3>. DEFINE s == [place |-> hop, whole |-> whole]
    <3>2. s \in seen' /\ s.place = hop' /\ s.whole = whole
      BY <2>2, <2>3
    <3>. HIDE DEF s
    <3>3. QED
      BY <2>1, <3>1, <3>2, Zenon DEF There
  <2>5. \A s \in seen' : s.whole \/ Unstuffed(s.place)'
    BY <2>1, <2>2, <2>3 DEF CarrierInv, Unstuffed
  <2>6. QED
    BY <2>2, <2>4, <2>5 DEF CarrierInv
<1>15. CASE quit
  BY <1>15 DEF CarrierInv, There, Unstuffed, quit, Finish
<1>16. CASE smtp_err \/ write_message_err \/ rename_err
  <2>1. /\ at # "down" /\ at' = "done" /\ result' = "error"
        /\ seen' = seen /\ mail' = mail /\ UNCHANGED cfg
    BY <1>16 DEF smtp_err, write_message_err, rename_err, Finish
  <2>2. QED
    BY <2>1, CarrierFrame
<1>17. CASE write_message
  BY <1>17 DEF CarrierInv, There, Unstuffed, write_message, WriteTmp
<1>18. CASE rename
  <2>1. /\ tmp = "whole" /\ hop = HopOf(cfg, mail.to)
        /\ \A s \in seen : s.whole \/ Unstuffed(s.place)
    BY <1>18 DEF CarrierInv, rename
  <2>2. There' /\ \A s \in seen' : s.whole \/ Unstuffed(s.place)'
    <3>1. /\ [place |-> hop, whole |-> TRUE] \in seen'
          /\ \A s \in seen' : s.whole \/ Unstuffed(s.place)'
      BY <1>18, <2>1, ShowWhole DEF rename
    <3>2. hop' = hop
      BY <1>18 DEF rename
    <3>3. QED
      BY <3>1, <3>2 DEF There
  <2>3. /\ UNCHANGED <<cfg, mail, hop, stage>> /\ at # "down"
        /\ at' = "done" /\ result' = "ok"
    BY <1>18 DEF rename, Finish
  <2>4. hop' = HopOf(cfg', mail'.to)
    BY <2>1, <2>3
  <2>5. QED
    BY <2>2, <2>3, <2>4 DEF CarrierInv
<1>19. CASE Logged
  BY <1>19 DEF CarrierInv, Logged, DropInHand
<1>20. CASE Crash
  BY <1>20 DEF CarrierInv, Crash, DropInHand
<1>21. CASE (\E a \in KeyHolders, k \in Published : Publish(a, k)) \/ Tick \/ UNCHANGED vars
  <2>1. UNCHANGED <<cfg, at, mail, tmp, hop, stage, result, seen>>
    BY <1>21 DEF Publish, Tick, vars
  <2>2. QED
    BY <2>1 DEF CarrierInv, There, Unstuffed
<1>22. QED
  BY <1>1, <1>3, <1>4, <1>5, <1>6, <1>7, <1>8, <1>9, <1>10, <1>11, <1>12, <1>13, <1>14,
     <1>15, <1>16, <1>17, <1>18, <1>19, <1>20, <1>21, NextCases

LEMMA CarrierHolds == Spec => []CarrierInv
<1>1. Init => CarrierInv
  BY DEF Init, NothingInHand, CarrierInv
<1>2. TypeOK /\ CarrierInv /\ [Next]_vars => CarrierInv'
  BY CarrierStep
<1>3. QED
  BY <1>1, <1>2, OutboundTypeCorrect, PTL DEF Spec

(* A carrier serves the recipient's own domain, or there is none for it.   *)
LEMMA HomeOrNone ==
  ASSUME NEW c \in Configs, SenderOf(c) # "error", NEW a \in Addresses, HasAt(a),
         SameDomain(c, a)
  PROVE  /\ HopOf(c, a) # NoHop => HopOf(c, a) = HomeHop(c, a)
         /\ HopOf(c, a) = NoHop =>
              \/ SenderOf(c) = "routed" /\ DomainsOf[a][1].name \notin c.route
              \/ SenderOf(c) = "split" /\ ~c.external
<1>1. Inner(a) = DomainsOf[a][1]
  <2>1. DomainsOf[a] \in Seq(Domain) /\ Len(DomainsOf[a]) <= 2
    BY AddressAssumption
  <2>2. Len(DomainsOf[a]) \in Nat
    BY <2>1, LenProperties
  <2>3. CASE Len(DomainsOf[a]) > 1
    <3>. DEFINE n == Len(DomainsOf[a])
    <3>0. n \in Nat /\ n <= 2 /\ n > 1
      BY <2>1, <2>2, <2>3
    <3>1. n - 1 = 1
      <4>. HIDE DEF n
      <4>1. QED
        BY <3>0
    <3>2. Inner(a) = DomainsOf[a][Len(DomainsOf[a]) - 1]
      BY <2>3 DEF Inner
    <3>3. QED
      BY <3>1, <3>2
  <2>4. CASE ~(Len(DomainsOf[a]) > 1)
    BY <2>4 DEF Inner
  <2>5. QED
    BY <2>3, <2>4
<1>3. CASE SenderOf(c) = "routed"
  <2>1. outbox_for(c.route, a) =
          IF DomainsOf[a][1].name \in c.route THEN {DomainsOf[a][1].name} ELSE {}
    BY <1>1 DEF outbox_for
  <2>2. CASE DomainsOf[a][1].name \in c.route
    <3>1. (CHOOSE n \in outbox_for(c.route, a) : TRUE) = DomainsOf[a][1].name
      BY <2>1, <2>2
    <3>2. RoutedHop(c, a) = [via |-> "outbox", name |-> DomainsOf[a][1].name]
      BY <2>1, <2>2, <3>1 DEF RoutedHop
    <3>3. HopOf(c, a) = [via |-> "outbox", name |-> DomainsOf[a][1].name]
      BY <1>3, <3>2 DEF HopOf
    <3>4. HopOf(c, a) # NoHop
      BY <3>3 DEF NoHop
    <3>5. HopOf(c, a) = HomeHop(c, a)
      BY <1>3, <3>3 DEF HomeHop
    <3>6. QED
      BY <3>4, <3>5
  <2>3. CASE DomainsOf[a][1].name \notin c.route
    BY <1>3, <2>1, <2>3 DEF HopOf, RoutedHop
  <2>4. QED
    BY <2>2, <2>3
<1>4. CASE SenderOf(c) = "split"
  <2>1. Outer(a) = DomainsOf[a][1] /\ DomainsOf[a][1].lower
    BY <1>4 DEF SameDomain, Outer
  <2>2. recipient_is_local(a) <=> DomainsOf[a][1].name \in Cluster
    BY <2>1 DEF recipient_is_local
  <2>3. HopOf(c, a) = SplitHop(c, a)
    BY <1>4 DEF HopOf
  <2>4. HomeHop(c, a) = Smtp(IF DomainsOf[a][1].name \in Cluster THEN "local" ELSE "external")
    BY <1>4 DEF HomeHop
  <2>5. Smtp("local") # NoHop /\ Smtp("external") # NoHop
    BY DEF Smtp, NoHop
  <2>6. QED
    BY <1>4, <2>2, <2>3, <2>4, <2>5 DEF SplitHop
<1>5. CASE SenderOf(c) = "external"
  BY <1>5 DEF HopOf, HomeHop, Smtp, NoHop
<1>6. CASE SenderOf(c) = "strand"
  BY <1>6 DEF HopOf, HomeHop, NoHop
<1>7. SenderOf(c) \in {"routed", "split", "external", "strand", "error"}
  BY DEF SenderOf
<1>8. QED
  BY <1>3, <1>4, <1>5, <1>6, <1>7

(* A send that returns Ok has left the mail with the carrier of the        *)
(* recipient's own domain, whole unless it is a binary one at a relay; one *)
(* refused for want of a route had none.                                   *)
THEOREM OkMeansThere == Spec => []SentMeansThere
<1>1. TypeOK /\ CarrierInv => SentMeansThere
  <2>. SUFFICES ASSUME TypeOK, CarrierInv, at = "done"
                PROVE  /\ result = "ok" =>
                            /\ There
                            /\ HasAt(mail.to) /\ SameDomain(cfg, mail.to) =>
                                 hop = HomeHop(cfg, mail.to)
                       /\ result = "no_route" /\ HasAt(mail.to) /\ SameDomain(cfg, mail.to) =>
                            \/ SenderOf(cfg) = "routed" /\ DomainsOf[mail.to][1].name \notin cfg.route
                            \/ SenderOf(cfg) = "split" /\ ~cfg.external
    BY DEF SentMeansThere, There
  <2>1. cfg \in Configs /\ SenderOf(cfg) # "error" /\ mail.to \in Addresses
    BY DEF TypeOK, CarrierInv, Mails
  <2>2. CASE result = "ok"
    <3>1. hop = HopOf(cfg, mail.to) /\ There
      BY <2>2 DEF CarrierInv
    <3>2. hop \in Hops \cup {UncleOutbox}
      BY <3>1 DEF There, TypeOK
    <3>3. hop # NoHop
      BY <3>2 DEF Hops, NoHop, UncleOutbox
    <3>4. QED
      BY <2>1, <2>2, <3>1, <3>3, HomeOrNone
  <2>3. CASE result = "no_route"
    <3>1. HopOf(cfg, mail.to) = NoHop
      BY <2>3 DEF CarrierInv
    <3>2. QED
      BY <2>1, <2>3, <3>1, HomeOrNone
  <2>4. QED
    BY <2>2, <2>3
<1>2. QED
  BY <1>1, OutboundTypeCorrect, CarrierHolds, PTL

---------------------------------------------------------------------------
(* What the mail under way says.                                           *)

(* Under the subject that its reader looks for: this is what the other     *)
(* validator makes of a mail that came through in the clear.               *)
Reads(m, k) ==
  /\ m.format = "raw" /\ m.payload = k
  /\ k = "audit_request" => m.subject = "peer_audit_request"
  /\ k \in {"audit_response", "not_held"} => m.subject = "peer_audit_response"

WrittenInv ==
  at \notin {"down", "idle"} =>
    /\ kind \in PeerKinds => Reads(mail, kind)
    /\ at = "encrypt" => mail.pgp = NoKey

(* Encryption touches neither the text nor the subject.                    *)
LEMMA EncryptReads ==
  ASSUME NEW m \in Mails, NEW key, NEW k, Reads(m, k)
  PROVE  Reads(encrypt(m, key), k)
BY DEF encrypt, Mails, Reads

LEMMA WrittenBegin ==
  ASSUME NEW k, NEW m, NEW point, Begin(k, m, point), k \in PeerKinds => Reads(m, k),
         m.pgp = NoKey
  PROVE  WrittenInv'
BY DEF WrittenInv, Begin

LEMMA WrittenStep ==
  ASSUME TypeOK, WrittenInv, [Next]_vars
  PROVE  WrittenInv'
<1>1. CASE \E c \in Configs : GatewayNew(c)
  BY <1>1 DEF WrittenInv, GatewayNew
<1>2. CASE \E a \in Addresses, correlated \in BOOLEAN : send_response(a, correlated)
  BY <1>2, WrittenBegin DEF send_response, build_response, Compose, PeerKinds
<1>3. CASE \E a \in Addresses, matches \in BOOLEAN : deliver_cheque(a, matches)
  BY <1>3, WrittenBegin DEF deliver_cheque, build_cheque_delivery_email, Compose, PeerKinds
<1>4. CASE \E a \in Addresses : deliver_scar_consent(a)
  BY <1>4, WrittenBegin DEF deliver_scar_consent, build_scar_consent_email, Compose, PeerKinds
<1>5. CASE \E a \in Validators : deliver_certificate(a) \/ deliver_peer_audit(a)
  <2>1. PICK a \in Validators : deliver_certificate(a) \/ deliver_peer_audit(a)
    BY <1>5
  <2>2. CASE deliver_certificate(a)
    <3>1. LET m == build_vbc_delivery_email(a)
          IN  Reads(m, "certificate") /\ m.pgp = NoKey
      BY DEF build_vbc_delivery_email, Compose, Reads
    <3>2. QED
      BY <2>2, <3>1, WrittenBegin DEF deliver_certificate
  <2>3. CASE deliver_peer_audit(a)
    <3>1. LET m == build_peer_audit_request_email(a)
          IN  Reads(m, "audit_request") /\ m.pgp = NoKey
      BY DEF build_peer_audit_request_email, Compose, Reads
    <3>2. QED
      BY <2>3, <3>1, WrittenBegin DEF deliver_peer_audit
  <2>4. QED
    BY <2>1, <2>2, <2>3
<1>6. CASE \E a \in Validators, held \in BOOLEAN : answer_peer_audit(a, held)
  <2>1. PICK a \in Validators, held \in BOOLEAN : answer_peer_audit(a, held)
    BY <1>6
  <2>2. /\ LET m == build_peer_audit_response_email(a)
           IN  Reads(m, "audit_response") /\ m.pgp = NoKey
        /\ LET m == build_peer_audit_not_held_email(a)
           IN  Reads(m, "not_held") /\ m.pgp = NoKey
    BY DEF build_peer_audit_response_email, build_peer_audit_not_held_email, Compose, Reads
  <2>3. QED
    BY <2>1, <2>2, WrittenBegin DEF answer_peer_audit
<1>7. CASE lookup_none \/ lookup_cached \/ lookup_fetched \/ lookup_failed
  <2>1. at = "encrypt" /\ at' = "send" /\ kind' = kind /\ mail \in Mails
    BY <1>7 DEF lookup_none, lookup_cached, lookup_fetched, lookup_failed, EncryptStep, TypeOK
  <2>2. mail' = mail \/ \E key : mail' = encrypt(mail, key)
    BY <1>7 DEF lookup_none, lookup_cached, lookup_fetched, lookup_failed
  <2>3. kind \in PeerKinds => Reads(mail', kind)
    BY <2>1, <2>2, EncryptReads DEF WrittenInv
  <2>4. QED
    BY <2>1, <2>3 DEF WrittenInv
<1>8. CASE tee_write \/ tee_write_err \/ tee_rename \/ tee_rename_err
  <2>1. /\ at \in {"tee", "tee_rename"} /\ at' \in {"send", "tee_rename"}
        /\ UNCHANGED <<kind, mail>>
    BY <1>8 DEF tee_write, tee_write_err, tee_rename, tee_rename_err, WriteTmp
  <2>2. QED
    BY <2>1 DEF WrittenInv
<1>9. CASE \/ send \/ read_reply \/ RelayAccepts \/ quit \/ smtp_err
           \/ write_message \/ write_message_err \/ rename \/ rename_err
  <2>1. /\ at \in {"send", "smtp", "write", "rename"} /\ at' \in {"done", "smtp", "write", "rename"}
        /\ UNCHANGED <<kind, mail>>
    <3>1. CASE send
      BY <3>1 DEF send, Finish, NoHop
    <3>2. CASE read_reply \/ RelayAccepts \/ quit \/ smtp_err
      BY <3>2 DEF read_reply, RelayAccepts, quit, smtp_err, Finish
    <3>3. CASE write_message \/ write_message_err \/ rename \/ rename_err
      BY <3>3 DEF write_message, write_message_err, rename, rename_err, WriteTmp, Finish
    <3>4. QED
      BY <1>9, <3>1, <3>2, <3>3
  <2>2. QED
    BY <2>1 DEF WrittenInv
<1>10. CASE Logged \/ Crash
  BY <1>10 DEF WrittenInv, Logged, Crash
<1>11. CASE (\E a \in KeyHolders, k \in Published : Publish(a, k)) \/ Tick \/ UNCHANGED vars
  <2>1. UNCHANGED <<at, kind, mail>>
    BY <1>11 DEF Publish, Tick, vars
  <2>2. QED
    BY <2>1 DEF WrittenInv
<1>12. QED
  BY <1>1, <1>2, <1>3, <1>4, <1>5, <1>6, <1>7, <1>8, <1>9, <1>10, <1>11, NextCases

LEMMA WrittenHolds == Spec => []WrittenInv
<1>1. Init => WrittenInv
  BY DEF Init, WrittenInv
<1>2. TypeOK /\ WrittenInv /\ [Next]_vars => WrittenInv'
  BY WrittenStep
<1>3. QED
  BY <1>1, <1>2, OutboundTypeCorrect, PTL DEF Spec

(* What is written for a validator is what a validator reads.              *)
LEMMA ReaderAgrees ==
  ASSUME NEW m \in Mails, m.pgp = NoKey, NEW k \in PeerKinds, Reads(m, k), NEW d
  PROVE  Taken(m, d) = {k}
<1>1. m.format = "raw" /\ m.payload = k
  BY DEF Reads
<1>2. CASE k = "certificate"
  BY <1>1, <1>2 DEF Taken, try_parse_vbc_delivery
<1>3. CASE k # "certificate"
  <2>1. ~try_parse_vbc_delivery(m)
    BY <1>1, <1>3 DEF try_parse_vbc_delivery
  <2>2. m.subject \in RAW_CBOR_MESSAGE_TYPES /\ m.subject # "none"
    BY <1>3 DEF Reads, PeerKinds, RAW_CBOR_MESSAGE_TYPES
  <2>3. decode_payload_with_context(m, d) = "ok"
    BY <1>1, <2>2 DEF decode_payload_with_context, unwrap_by_format, requires_envelope
  <2>4. parse_email_outcome(m, d) = "ok"
    BY <1>1, <2>2, <2>3 DEF parse_email_outcome, PeerKinds
  <2>5. Wanted(m.subject) \cap {m.payload} = {k}
    BY <1>1, <1>3 DEF Reads, PeerKinds, Wanted
  <2>6. QED
    BY <2>1, <2>4, <2>5 DEF Taken
<1>4. QED
  BY <1>2, <1>3

(* A client's request is taken where it is in one of its formats.          *)
LEMMA RequestsAsSpecified ==
  ASSUME NEW a \in Validators, NEW f \in Formats, NEW p \in Payloads, NEW d \in BOOLEAN,
         NEW m, m = [to |-> a, subject |-> "witness", format |-> f, payload |-> p, pgp |-> NoKey]
  PROVE  "request" \in Taken(m, d) <=>
           p = "request" /\ f \in {"envelope"} \cup (IF d THEN {"sealed"} ELSE {})
<1>1. m.subject = "witness" /\ m.format = f /\ m.payload = p /\ m.pgp = NoKey
  OBVIOUS
<1>2. requires_envelope(m.subject)
  BY <1>1 DEF requires_envelope, RAW_CBOR_MESSAGE_TYPES
<1>3. decode_payload_with_context(m, d) = "ok" <=> f = "envelope" \/ (f = "sealed" /\ d)
  BY <1>1, <1>2 DEF decode_payload_with_context, unwrap_by_format, open, Formats
<1>4. parse_email_outcome(m, d) = "ok" <=>
        p # "junk" /\ (f = "envelope" \/ (f = "sealed" /\ d))
  BY <1>1, <1>3 DEF parse_email_outcome
<1>5. "request" \in Wanted(m.subject) \cap {m.payload} <=> p = "request"
  BY <1>1 DEF Wanted
<1>6. "request" \in Taken(m, d) <=>
        ~try_parse_vbc_delivery(m) /\ parse_email_outcome(m, d) = "ok" /\ p = "request"
  BY <1>5 DEF Taken
<1>7. p = "request" => ~try_parse_vbc_delivery(m)
  BY <1>1 DEF try_parse_vbc_delivery
<1>8. QED
  BY <1>4, <1>6, <1>7

(* Nobody sees half a mail, a binary one at a relay excepted, and writers  *)
(* and readers agree: what one validator sends another in the clear is     *)
(* taken for what it is, and a client's request where its format is right. *)
THEOREM WritersAndReadersAgree == Spec => []ReadAsWritten
<1>1. TypeOK /\ CarrierInv /\ WrittenInv => ReadAsWritten
  <2>. SUFFICES ASSUME TypeOK, CarrierInv, WrittenInv
                PROVE  ReadAsWritten
    OBVIOUS
  <2>1. \A s \in seen : s.whole \/ Unstuffed(s.place)
    BY DEF CarrierInv
  <2>2. ASSUME kind \in PeerKinds, mail.pgp = NoKey
        PROVE  \A d \in BOOLEAN : Taken(mail, d) = {kind}
    <3>1. at \notin {"down", "idle"} /\ mail \in Mails
      BY <2>2 DEF TypeOK, PeerKinds
    <3>2. Reads(mail, kind)
      BY <2>2, <3>1 DEF WrittenInv
    <3>3. QED
      BY <2>2, <3>1, <3>2, ReaderAgrees
  <2>3. cfg.decryptor \in BOOLEAN
    BY OutboundAssumption DEF TypeOK, Config
  <2>4. QED
    BY <2>1, <2>2, <2>3, RequestsAsSpecified DEF ReadAsWritten
<1>2. QED
  BY <1>1, OutboundTypeCorrect, CarrierHolds, WrittenHolds, PTL

---------------------------------------------------------------------------
(* Keys.                                                                   *)

(* An entry of the cache is what the keyserver publishes, unless that has  *)
(* changed since the entry was made, or the lookup failed that made it.    *)
EntryFresh(a) ==
  \/ cache[a].key \in {Absent, keyserver[a]}
  \/ since[a] <= cache[a].age
  \/ failed[a] <= cache[a].age /\ cache[a].key = NoKey

KeyInv == \A a \in KeyHolders : EntryFresh(a)

LEMMA KeyStep ==
  ASSUME TypeOK, KeyInv, [Next]_vars
  PROVE  KeyInv'
<1>. USE DEF KeyInv
<1>1. CASE UNCHANGED keys
  BY <1>1 DEF EntryFresh, keys
<1>2. CASE lookup_none \/ lookup_cached
  BY <1>2 DEF lookup_none, lookup_cached, EncryptStep, world, EntryFresh
<1>3. CASE lookup_fetched
  <2>. SUFFICES ASSUME NEW a \in KeyHolders
                PROVE  EntryFresh(a)'
    OBVIOUS
  <2>1. /\ cache' = [cache EXCEPT ![mail.to] = [key |-> keyserver[mail.to], age |-> 0]]
        /\ UNCHANGED <<keyserver, since, failed>>
    BY <1>3 DEF lookup_fetched, Remember, EncryptStep, world
  <2>2. CASE a = mail.to
    BY <2>1, <2>2 DEF EntryFresh, TypeOK
  <2>3. CASE a # mail.to
    BY <2>1, <2>3 DEF EntryFresh, TypeOK
  <2>4. QED
    BY <2>2, <2>3
<1>4. CASE lookup_failed
  <2>. SUFFICES ASSUME NEW a \in KeyHolders
                PROVE  EntryFresh(a)'
    OBVIOUS
  <2>1. /\ cache' = [cache EXCEPT ![mail.to] = [key |-> NoKey, age |-> 0]]
        /\ failed' = [failed EXCEPT ![mail.to] = 0]
        /\ UNCHANGED <<keyserver, since>>
    BY <1>4 DEF lookup_failed, Remember, EncryptStep, world
  <2>2. CASE a = mail.to
    BY <2>1, <2>2 DEF EntryFresh, TypeOK
  <2>3. CASE a # mail.to
    BY <2>1, <2>3 DEF EntryFresh, TypeOK
  <2>4. QED
    BY <2>2, <2>3
<1>5. CASE Crash
  BY <1>5 DEF Crash, NoCache, EntryFresh
<1>6. CASE \E b \in KeyHolders, k \in Published : Publish(b, k)
  <2>. SUFFICES ASSUME NEW a \in KeyHolders
                PROVE  EntryFresh(a)'
    OBVIOUS
  <2>1. PICK b \in KeyHolders, k \in Published : Publish(b, k)
    BY <1>6
  <2>2. /\ keyserver' = [keyserver EXCEPT ![b] = k] /\ since' = [since EXCEPT ![b] = 0]
        /\ UNCHANGED <<cache, failed>>
    BY <2>1 DEF Publish
  <2>3. CASE a = b
    <3>1. since'[a] = 0 /\ cache'[a].age \in Nat
      BY <2>2, <2>3, OutboundAssumption DEF TypeOK, Ages
    <3>2. QED
      BY <3>1 DEF EntryFresh
  <2>4. CASE a # b
    BY <2>2, <2>4 DEF EntryFresh, TypeOK
  <2>5. QED
    BY <2>3, <2>4
<1>7. CASE Tick
  <2>. SUFFICES ASSUME NEW a \in KeyHolders
                PROVE  EntryFresh(a)'
    OBVIOUS
  <2>1. /\ since'[a] = Older(since[a]) /\ failed'[a] = Older(failed[a])
        /\ cache'[a].key = cache[a].key /\ cache'[a].age = Older(cache[a].age)
        /\ keyserver'[a] = keyserver[a]
    BY <1>7 DEF Tick, TypeOK
  <2>2. /\ since[a] \in Ages /\ failed[a] \in Ages /\ cache[a].age \in Ages
    BY DEF TypeOK
  <2>3. \A x, y \in Ages : x <= y => Older(x) <= Older(y)
    BY OutboundAssumption DEF Ages, Older
  <2>4. QED
    BY <2>1, <2>2, <2>3 DEF EntryFresh
<1>8. UNCHANGED keys \/ lookup_none \/ lookup_cached \/ lookup_fetched \/ lookup_failed
        \/ Crash \/ (\E b \in KeyHolders, k \in Published : Publish(b, k)) \/ Tick
  <2>1. CASE \/ \E c \in Configs : GatewayNew(c)
             \/ \E a \in Addresses, correlated \in BOOLEAN : send_response(a, correlated)
             \/ \E a \in Addresses, matches \in BOOLEAN : deliver_cheque(a, matches)
             \/ \E a \in Addresses : deliver_scar_consent(a)
             \/ \E a \in Validators : deliver_certificate(a) \/ deliver_peer_audit(a)
             \/ \E a \in Validators, held \in BOOLEAN : answer_peer_audit(a, held)
    BY <2>1 DEF GatewayNew, send_response, deliver_cheque, deliver_scar_consent,
                deliver_certificate, deliver_peer_audit, answer_peer_audit, Begin
  <2>2. CASE tee_write \/ tee_write_err \/ tee_rename \/ tee_rename_err \/ Logged
    BY <2>2 DEF tee_write, tee_write_err, tee_rename, tee_rename_err, WriteTmp, Logged
  <2>3. CASE \/ send \/ read_reply \/ RelayAccepts \/ quit \/ smtp_err
             \/ write_message \/ write_message_err \/ rename \/ rename_err
    BY <2>3 DEF send, read_reply, RelayAccepts, quit, smtp_err, write_message,
                write_message_err, rename, rename_err, WriteTmp
  <2>4. CASE UNCHANGED vars
    BY <2>4 DEF vars, keys
  <2>5. QED
    BY <2>1, <2>2, <2>3, <2>4, NextCases
<1>9. QED
  BY <1>1, <1>2, <1>3, <1>4, <1>5, <1>6, <1>7, <1>8

LEMMA KeyHolds == Spec => []KeyInv
<1>1. Init => KeyInv
  BY DEF Init, NoCache, KeyInv, EntryFresh
<1>2. TypeOK /\ KeyInv /\ [Next]_vars => KeyInv'
  BY KeyStep
<1>3. QED
  BY <1>1, <1>2, OutboundTypeCorrect, PTL DEF Spec

(* What the encryption of a mail has to be: see KeyIsCurrent.              *)
CurrentKey ==
  at = "encrypt" /\ at' = "send" /\ mail.to \in KeyHolders /\ ~EndsWithAxiom(mail.to) =>
    \/ mail'.pgp = (IF keyserver[mail.to] \in Keys THEN keyserver[mail.to] ELSE NoKey)
    \/ since[mail.to] < KEY_CACHE_TTL
    \/ failed'[mail.to] < KEY_CACHE_TTL /\ mail'.pgp = NoKey

LEMMA EncryptPgp ==
  ASSUME NEW m \in Mails, m.pgp = NoKey, NEW key
  PROVE  encrypt(m, key).pgp = IF key \in Keys THEN key ELSE NoKey
BY DEF encrypt, Mails

(* A mail is encrypted for a key no staler than KEY_CACHE_TTL, and goes in *)
(* the clear to the owner of a key only within that time of a change or of *)
(* a failed lookup, whatever the keyserver and the clock do meanwhile.     *)
THEOREM KeysAreCurrent == Spec => KeyIsCurrent
<1>1. ASSUME TypeOK, WrittenInv, KeyInv, [Next]_vars
      PROVE  CurrentKey
  <2>. USE <1>1
  <2>. SUFFICES ASSUME at = "encrypt", at' = "send", mail.to \in KeyHolders,
                       ~EndsWithAxiom(mail.to)
                PROVE  \/ mail'.pgp = (IF keyserver[mail.to] \in Keys
                                         THEN keyserver[mail.to] ELSE NoKey)
                       \/ since[mail.to] < KEY_CACHE_TTL
                       \/ failed'[mail.to] < KEY_CACHE_TTL /\ mail'.pgp = NoKey
    BY DEF CurrentKey
  <2>1. mail \in Mails /\ mail.pgp = NoKey
    BY DEF TypeOK, WrittenInv
  <2>2. lookup_cached \/ lookup_fetched \/ lookup_failed
    <3>1. ~lookup_none
      BY DEF lookup_none
    <3>2. CASE UNCHANGED vars
      BY <3>2 DEF vars
    <3>3. ~(\E c \in Configs : GatewayNew(c)) /\ ~Logged /\ ~Crash
      BY DEF GatewayNew, Logged, Crash
    <3>4. /\ \A k, m, point : ~Begin(k, m, point)
          /\ ~(\E a \in KeyHolders, k \in Published : Publish(a, k)) /\ ~Tick
      BY DEF Begin, Publish, Tick
    <3>5. /\ ~tee_write /\ ~tee_write_err /\ ~tee_rename /\ ~tee_rename_err
          /\ ~send /\ ~read_reply /\ ~RelayAccepts /\ ~quit /\ ~smtp_err
          /\ ~write_message /\ ~write_message_err /\ ~rename /\ ~rename_err
      BY DEF tee_write, tee_write_err, tee_rename, tee_rename_err, send, read_reply,
             RelayAccepts, quit, smtp_err, write_message, write_message_err, rename, rename_err
    <3>6. /\ ~(\E a \in Addresses, correlated \in BOOLEAN : send_response(a, correlated))
          /\ ~(\E a \in Addresses, matches \in BOOLEAN : deliver_cheque(a, matches))
          /\ ~(\E a \in Addresses : deliver_scar_consent(a))
          /\ ~(\E a \in Validators : deliver_certificate(a) \/ deliver_peer_audit(a))
          /\ ~(\E a \in Validators, held \in BOOLEAN : answer_peer_audit(a, held))
      BY <3>4 DEF send_response, deliver_cheque, deliver_scar_consent, deliver_certificate,
                  deliver_peer_audit, answer_peer_audit
    <3>7. QED
      BY <3>1, <3>2, <3>3, <3>4, <3>5, <3>6, NextCases
  <2>3. CASE lookup_cached
    <3>1. /\ mail'.pgp = IF cache[mail.to].key \in Keys THEN cache[mail.to].key ELSE NoKey
          /\ cache[mail.to].key # Absent /\ cache[mail.to].age < KEY_CACHE_TTL
          /\ failed' = failed
      BY <2>1, <2>3, EncryptPgp DEF lookup_cached, Cached
    <3>2. /\ cache[mail.to].age \in Nat /\ since[mail.to] \in Nat /\ failed[mail.to] \in Nat
          /\ KEY_CACHE_TTL \in Nat
      BY OutboundAssumption DEF TypeOK, Ages
    <3>3. EntryFresh(mail.to)
      BY DEF KeyInv
    <3>4. QED
      BY <3>1, <3>2, <3>3, KeyAssumption DEF EntryFresh
  <2>4. CASE lookup_fetched
    BY <2>1, <2>4, EncryptPgp DEF lookup_fetched
  <2>5. CASE lookup_failed
    <3>1. failed'[mail.to] = 0 /\ mail' = mail
      BY <2>5 DEF lookup_failed, TypeOK
    <3>2. QED
      BY <2>1, <3>1, OutboundAssumption
  <2>6. QED
    BY <2>2, <2>3, <2>4, <2>5
<1>2. TypeOK /\ WrittenInv /\ KeyInv /\ [Next]_vars => [CurrentKey]_vars
  BY <1>1
<1>3. KeyIsCurrent <=> [][CurrentKey]_vars
  BY DEF KeyIsCurrent, CurrentKey
<1>4. QED
  BY <1>2, <1>3, OutboundTypeCorrect, WrittenHolds, KeyHolds, PTL DEF Spec
=============================================================================
