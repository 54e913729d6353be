----------------------------- MODULE Outbound -----------------------------
(***************************************************************************)
(* ANTIE's outgoing mail, from the gateway's decision to send one to its   *)
(* place with the next carrier: what is built (MailFormat), the OpenPGP    *)
(* encryption and its key cache (pgp.rs), the copy for UNCLE               *)
(* (uncle_sink.rs), the choice of the carrier (gateway.rs, config.rs,      *)
(* carrier.rs) and the dialogue or file write that hands the mail over.    *)
(*                                                                         *)
(* The dispatcher handles one message at a time, so one mail is under way  *)
(* at a time.  Which mails a handler sends, and whether a cheque goes by   *)
(* mail at all, is Dispatch's subject; replies to a held session are       *)
(* CustodySession's.                                                       *)
(***************************************************************************)
EXTENDS MailFormat

CONSTANTS Configs,       \* the operators' outbound configurations
          Validators,    \* the addresses that another ANTIE reads
          KeyHolders,    \* the addresses that ever publish a key
          Unusable,      \* a published key that cannot encrypt
          Absent,        \* no entry in the cache
          KEY_CACHE_TTL  \* in ticks of the clock

Links == {"local", "external"}
(* route: the domains with a row of the table.  auth, tls: the relays with *)
(* credentials, and those with use_tls.  uncle: a sink is configured.      *)
(* decryptor: so is the validator's key, whose file must then be readable. *)
Config == [route : SUBSET Names, local : BOOLEAN, external : BOOLEAN, maildir : BOOLEAN,
           auth : SUBSET Links, tls : SUBSET Links, uncle : BOOLEAN, decryptor : BOOLEAN]

Published == Keys \cup {NoKey, Unusable}

ASSUME OutboundAssumption ==
  /\ Configs \subseteq Config /\ Configs # {}
  /\ Validators \subseteq Addresses /\ KeyHolders \subseteq Addresses
  /\ Unusable \notin Keys /\ Absent \notin Published
  /\ KEY_CACHE_TTL \in Nat \ {0}

Kinds == {"reply", "cheque", "certificate", "scar_consent",
          "audit_request", "audit_response", "not_held"}
PeerKinds == {"certificate", "audit_request", "audit_response", "not_held"}

(* Where a mail can be handed over, and UNCLE's directory.                 *)
Hops == [via : {"outbox"}, name : Names] \cup [via : {"smtp"}, name : Links]
          \cup [via : {"maildir"}, name : {"outbox"}]
NoHop == [via |-> "none", name |-> "none"]
UncleOutbox == [via |-> "uncle", name |-> "outbox"]

NoMail == [to |-> "none"]

VARIABLES cfg,        \* of the running process
          at,         \* program point
          kind, mail, \* the mail under way
          tmp,        \* the temporary file
          hop, stage, \* the carrier chosen, and the point of its dialogue
          result,     \* what send returned
          seen,       \* history: what others can see of this mail
          keyserver,  \* what it publishes for an address
          since,      \* ticks since that changed (as many as matter)
          cache,      \* KEY_CACHE
          failed      \* history: ticks since a lookup failed

vars == <<cfg, at, kind, mail, tmp, hop, stage, result, seen, keyserver, since, cache, failed>>
keys == <<keyserver, since, cache, failed>>
world == <<keyserver, since>>

Points == {"down", "idle", "encrypt", "tee", "tee_rename", "send", "smtp", "write", "rename",
           "done"}
Stages == {"connect", "greeting", "ehlo", "auth", "mail", "rcpt", "data", "body", "accepted",
           "quit"}
Results == {"none", "ok", "error", "no_route", "refused"}
Ages == 0..KEY_CACHE_TTL

TypeOK ==
  /\ cfg \in Configs /\ at \in Points
  /\ IF at \in {"down", "idle"} THEN mail = NoMail /\ kind = "none"
     ELSE mail \in Mails /\ kind \in Kinds
  /\ tmp \in {"none", "partial", "whole"}
  /\ hop \in Hops \cup {NoHop} /\ stage \in Stages /\ result \in Results
  /\ at \in {"smtp", "write", "rename"} => hop \in Hops
  /\ seen \subseteq [place : Hops \cup {UncleOutbox}, whole : BOOLEAN]
  /\ keyserver \in [KeyHolders -> Published] /\ since \in [KeyHolders -> Ages]
  /\ cache \in [KeyHolders -> [key : Published \cup {Absent}, age : Ages]]
  /\ failed \in [KeyHolders -> Ages]

NothingInHand == /\ kind = "none" /\ mail = NoMail /\ tmp = "none" /\ hop = NoHop
                 /\ stage = "connect" /\ result = "none" /\ seen = {}

NoCache == [a \in KeyHolders |-> [key |-> Absent, age |-> 0]]

Init ==
  /\ cfg \in Configs /\ at = "down" /\ NothingInHand
  /\ keyserver \in [KeyHolders -> Published]
  /\ since = [a \in KeyHolders |-> KEY_CACHE_TTL]
  /\ cache = NoCache
  /\ failed = [a \in KeyHolders |-> KEY_CACHE_TTL]

---------------------------------------------------------------------------
(* The choice of the carrier.                                              *)

Smtp(link) == [via |-> "smtp", name |-> link]

(* Gateway::new: the route table first, then the legacy relays, then the   *)
(* validator's own outbox, which nothing drains.                           *)
SenderOf(c) ==
  CASE c.route # {} -> IF c.maildir THEN "routed" ELSE "error"
    [] c.route = {} /\ c.local -> "split"
    [] c.route = {} /\ ~c.local /\ c.external -> "external"
    [] OTHER -> IF c.maildir THEN "strand" ELSE "error"

RoutedHop(c, a) ==
  IF outbox_for(c.route, a) = {} THEN NoHop
  ELSE [via |-> "outbox", name |-> CHOOSE n \in outbox_for(c.route, a) : TRUE]

SplitHop(c, a) ==
  IF recipient_is_local(a) THEN Smtp("local")
  ELSE IF c.external THEN Smtp("external") ELSE NoHop

HopOf(c, a) ==
  CASE SenderOf(c) = "routed" -> RoutedHop(c, a)
    [] SenderOf(c) = "split" -> SplitHop(c, a)
    [] SenderOf(c) = "external" -> Smtp("external")
    [] OTHER -> [via |-> "maildir", name |-> "outbox"]

(* CarriersConfig::validate: mail must come in, and pulled mail is written *)
(* into the maildir too.                                                   *)
validate(c) == c.maildir

(* The process starts, with what the operator has configured meanwhile; it *)
(* does not start without a carrier in either direction.                   *)
GatewayNew(c) ==
  /\ at = "down" /\ validate(c) /\ SenderOf(c) # "error"
  /\ cfg' = c /\ at' = "idle"
  /\ UNCHANGED <<kind, mail, tmp, hop, stage, result, seen, keys>>

---------------------------------------------------------------------------
(* What is to be sent.                                                     *)

Begin(k, m, point) ==
  /\ at = "idle"
  /\ kind' = k /\ mail' = m /\ at' = point
  /\ result' = IF point = "done" THEN "refused" ELSE "none"
  /\ UNCHANGED <<cfg, tmp, hop, stage, seen, keys>>

(* A reply; a request that came through UNCLE names where its copy goes.   *)
send_response(a, correlated) ==
  Begin("reply", build_response(a),
        IF ~validate_email_addr(a) THEN "done"
        ELSE IF correlated /\ cfg.uncle THEN "tee" ELSE "send")

(* The cheque is not built unless its origin reproduces its txid.          *)
deliver_cheque(a, matches) ==
  Begin("cheque", build_cheque_delivery_email(a), IF matches THEN "encrypt" ELSE "done")

deliver_certificate(a) ==
  Begin("certificate", build_vbc_delivery_email(a), IF HasAt(a) THEN "encrypt" ELSE "done")

deliver_scar_consent(a) == Begin("scar_consent", build_scar_consent_email(a), "encrypt")

deliver_peer_audit(a) == Begin("audit_request", build_peer_audit_request_email(a), "send")

answer_peer_audit(a, held) ==
  IF held THEN Begin("audit_response", build_peer_audit_response_email(a), "send")
  ELSE Begin("not_held", build_peer_audit_not_held_email(a), "send")

---------------------------------------------------------------------------
(* pgp.rs.                                                                 *)

(* encrypt: the whole mail for the key, or the mail as it is.              *)
encrypt(m, key) == IF key \in Keys THEN [m EXCEPT !.pgp = key] ELSE m

(* Faulty variant: an entry is good for as long as the process lives.      *)
CachedForever(a) == cache[a].key # Absent

Cached(a) == cache[a].key # Absent /\ cache[a].age < KEY_CACHE_TTL

Remember(a, key) == cache' = [cache EXCEPT ![a] = [key |-> key, age |-> 0]]

EncryptStep == /\ at = "encrypt" /\ at' = "send"
               /\ UNCHANGED <<cfg, kind, tmp, hop, stage, result, seen, world>>

(* try_encrypt_for_email, by what lookup_key_bytes meets: nobody to ask    *)
(* about, ...                                                              *)
lookup_none ==
  /\ EncryptStep
  /\ mail.to \notin KeyHolders \/ EndsWithAxiom(mail.to)
  /\ UNCHANGED <<mail, cache, failed>>

(* ... an entry of the cache, ...                                          *)
lookup_cached ==
  /\ EncryptStep
  /\ mail.to \in KeyHolders /\ ~EndsWithAxiom(mail.to) /\ Cached(mail.to)
  /\ mail' = encrypt(mail, cache[mail.to].key)
  /\ UNCHANGED <<cache, failed>>

(* ... the keyserver's answer, ...                                         *)
lookup_fetched ==
  /\ EncryptStep
  /\ mail.to \in KeyHolders /\ ~EndsWithAxiom(mail.to) /\ ~Cached(mail.to)
  /\ mail' = encrypt(mail, keyserver[mail.to])
  /\ Remember(mail.to, keyserver[mail.to])
  /\ UNCHANGED failed

(* ... or none: an error, a timeout, a bad status, bytes that are no key.  *)
(* That is remembered as if there were no key.                             *)
lookup_failed ==
  /\ EncryptStep
  /\ mail.to \in KeyHolders /\ ~EndsWithAxiom(mail.to) /\ ~Cached(mail.to)
  /\ Remember(mail.to, NoKey)
  /\ failed' = [failed EXCEPT ![mail.to] = 0]
  /\ UNCHANGED mail

(* The owner of an address publishes, replaces or withdraws a key.         *)
Publish(a, key) ==
  /\ keyserver[a] # key
  /\ keyserver' = [keyserver EXCEPT ![a] = key]
  /\ since' = [since EXCEPT ![a] = 0]
  /\ UNCHANGED <<cfg, at, kind, mail, tmp, hop, stage, result, seen, cache, failed>>

Older(age) == IF age < KEY_CACHE_TTL THEN age + 1 ELSE age

Tick ==
  /\ since' = [a \in KeyHolders |-> Older(since[a])]
  /\ cache' = [a \in KeyHolders |-> [cache[a] EXCEPT !.age = Older(@)]]
  /\ failed' = [a \in KeyHolders |-> Older(failed[a])]
  /\ UNCHANGED <<cfg, at, kind, mail, tmp, hop, stage, result, seen, keyserver>>

---------------------------------------------------------------------------
(* Files: written to a temporary name, then renamed to where others look.  *)

WriteTmp(point) ==
  /\ tmp' = "whole" /\ at' = point
  /\ UNCHANGED <<cfg, kind, mail, hop, stage, result, seen, keys>>

Show(place, whole) == seen' = seen \cup {[place |-> place, whole |-> whole]}

Finish(r) == at' = "done" /\ result' = r

(* UncleSink::tee: whatever fails, the mail goes out all the same.         *)
tee_write == at = "tee" /\ WriteTmp("tee_rename")

tee_write_err ==
  /\ at = "tee"
  /\ tmp' = "partial" /\ at' = "send"
  /\ UNCHANGED <<cfg, kind, mail, hop, stage, result, seen, keys>>

tee_rename ==
  /\ at = "tee_rename"
  /\ Show(UncleOutbox, tmp = "whole") /\ tmp' = "none" /\ at' = "send"
  /\ UNCHANGED <<cfg, kind, mail, hop, stage, result, keys>>

tee_rename_err ==
  /\ at = "tee_rename"
  /\ tmp' = "none" /\ at' = "send"
  /\ UNCHANGED <<cfg, kind, mail, hop, stage, result, seen, keys>>

(* Maildir::write_message, of RoutedCarrier and MaildirCarrier.            *)
write_message == at = "write" /\ WriteTmp("rename")

write_message_err ==
  /\ at = "write"
  /\ tmp' = "partial" /\ Finish("error")
  /\ UNCHANGED <<cfg, kind, mail, hop, stage, seen, keys>>

rename ==
  /\ at = "rename"
  /\ Show(hop, tmp = "whole") /\ tmp' = "none" /\ Finish("ok")
  /\ UNCHANGED <<cfg, kind, mail, hop, stage, keys>>

rename_err ==
  /\ at = "rename"
  /\ Finish("error")
  /\ UNCHANGED <<cfg, kind, mail, tmp, hop, stage, seen, keys>>

---------------------------------------------------------------------------
(* MailCarrier::send: refused where there is no carrier for the recipient; *)
(* a relay with credentials is not spoken to in the clear.                 *)
has_creds(h) == h.name \in cfg.auth

send ==
  /\ at = "send"
  /\ hop' = HopOf(cfg, mail.to)
  /\ CASE hop' = NoHop -> Finish("no_route")
       [] hop'.via = "smtp" ->
            IF has_creds(hop') /\ hop'.name \notin cfg.tls THEN Finish("error")
            ELSE at' = "smtp" /\ UNCHANGED result
       [] OTHER -> at' = "write" /\ UNCHANGED result
  /\ UNCHANGED <<cfg, kind, mail, tmp, stage, seen, keys>>

NextStage ==
  CASE stage = "connect" -> "greeting"
    [] stage = "greeting" -> "ehlo"
    [] stage = "ehlo" -> IF has_creds(hop) THEN "auth" ELSE "mail"
    [] stage = "auth" -> "mail"
    [] stage = "mail" -> "rcpt"
    [] stage = "rcpt" -> "data"
    [] stage = "data" -> "body"
    [] OTHER -> "quit"

(* read_reply: a final line of 2xx or 3xx to what was said last.           *)
read_reply ==
  /\ at = "smtp" /\ stage \notin {"body", "quit"}
  /\ stage' = NextStage
  /\ UNCHANGED <<cfg, at, kind, mail, tmp, hop, result, seen, keys>>

(* The body is sent as it is, with no dot stuffed where a line begins with *)
(* one.  A built mail, headers and base64, has no such line; OpenPGP's     *)
(* binary output may have, and the relay then takes the dot away, or the   *)
(* line for the end of the mail.                                           *)
Unstuffed(h) == h.via = "smtp" /\ mail.pgp # NoKey

(* The relay has the body and the final dot, and takes charge of what it   *)
(* made of them; its 250 is still to come.                                 *)
RelayAccepts ==
  /\ at = "smtp" /\ stage = "body"
  /\ \E whole \in BOOLEAN : (whole \/ Unstuffed(hop)) /\ Show(hop, whole)
  /\ stage' = "accepted"
  /\ UNCHANGED <<cfg, at, kind, mail, tmp, hop, result, keys>>

(* Faulty variant: the reply to the body is not waited for.                *)
QuitAfterBody ==
  /\ at = "smtp" /\ stage \in {"body", "quit"}
  /\ Finish("ok")
  /\ UNCHANGED <<cfg, kind, mail, tmp, hop, stage, seen, keys>>

quit ==
  /\ at = "smtp" /\ stage = "quit"
  /\ Finish("ok")
  /\ UNCHANGED <<cfg, kind, mail, tmp, hop, stage, seen, keys>>

(* A refusal, an end of file, a timeout, a failed write: an error at any   *)
(* point, the ones after the relay has accepted included.                  *)
smtp_err ==
  /\ at = "smtp"
  /\ Finish("error")
  /\ UNCHANGED <<cfg, kind, mail, tmp, hop, stage, seen, keys>>

DropInHand == /\ kind' = "none" /\ mail' = NoMail /\ tmp' = "none" /\ hop' = NoHop
              /\ stage' = "connect" /\ result' = "none" /\ seen' = {}

(* The caller logs the outcome and goes on; nothing is sent a second time. *)
Logged ==
  /\ at = "done"
  /\ at' = "idle" /\ DropInHand
  /\ UNCHANGED <<cfg, keys>>

(* The process dies; the cache dies with it.                               *)
Crash ==
  /\ at # "down"
  /\ at' = "down" /\ DropInHand
  /\ cache' = NoCache
  /\ UNCHANGED <<cfg, world, failed>>

---------------------------------------------------------------------------
Decide ==
  \/ \E a \in Addresses, correlated \in BOOLEAN : send_response(a, correlated)
  \/ \E a \in Addresses, matches \in BOOLEAN : deliver_cheque(a, matches)
  \/ \E a \in Addresses : deliver_scar_consent(a)
  \/ \E a \in Validators : deliver_certificate(a) \/ deliver_peer_audit(a)
  \/ \E a \in Validators, held \in BOOLEAN : answer_peer_audit(a, held)

try_encrypt_for_email == lookup_none \/ lookup_cached \/ lookup_fetched \/ lookup_failed

tee == tee_write \/ tee_write_err \/ tee_rename \/ tee_rename_err

HandOver ==
  \/ send \/ read_reply \/ RelayAccepts \/ quit \/ smtp_err
  \/ write_message \/ write_message_err \/ rename \/ rename_err

Next ==
  \/ \E c \in Configs : GatewayNew(c)
  \/ Decide \/ try_encrypt_for_email \/ tee \/ HandOver \/ Logged
  \/ \E a \in KeyHolders, k \in Published : Publish(a, k)
  \/ Tick \/ Crash

Spec == Init /\ [][Next]_vars

---------------------------------------------------------------------------
(* Properties.                                                             *)

(* The carrier of the recipient's own domain, which is the first: the      *)
(* second '@' of a cluster address names a site.  Of the relays' split     *)
(* this is asked only where it reads the same domain: one '@', lower case. *)
HomeHop(c, a) ==
  LET home == DomainsOf[a][1].name
  IN CASE SenderOf(c) = "routed" -> [via |-> "outbox", name |-> home]
       [] SenderOf(c) = "split" -> Smtp(IF home \in Cluster THEN "local" ELSE "external")
       [] SenderOf(c) = "external" -> Smtp("external")
       [] OTHER -> [via |-> "maildir", name |-> "outbox"]

SameDomain(c, a) ==
  SenderOf(c) = "split" => Len(DomainsOf[a]) = 1 /\ DomainsOf[a][1].lower

(* A send that returns Ok has left the mail, whole, with the carrier of    *)
(* the recipient's own domain, and one that is refused for want of a route *)
(* had none, whichever carrier is configured and wherever a dialogue or a  *)
(* file write breaks off (carrier.rs: the former client "returned Ok while *)
(* silently dropping the DATA"; config.rs: "every cross-site cheque").     *)
(* Binary mail at a relay is there, but not always whole: see Unstuffed.   *)
SentMeansThere ==
  at = "done" =>
    /\ result = "ok" =>
         /\ \E s \in seen : s.place = hop /\ (s.whole \/ Unstuffed(hop))
         /\ HasAt(mail.to) /\ SameDomain(cfg, mail.to) => hop = HomeHop(cfg, mail.to)
    /\ result = "no_route" /\ HasAt(mail.to) /\ SameDomain(cfg, mail.to) =>
         \/ SenderOf(cfg) = "routed" /\ DomainsOf[mail.to][1].name \notin cfg.route
         \/ SenderOf(cfg) = "split" /\ ~cfg.external

(* Others see whole mails only, but for the binary ones that go through a  *)
(* relay, and what one validator writes for another in the clear is what   *)
(* that one takes from it ("writer and reader cannot drift", email.rs),    *)
(* with or without a decryptor; a client's request is taken in the formats *)
(* that are mandatory for it, and nothing else is taken for one.           *)
ReadAsWritten ==
  /\ \A s \in seen : s.whole \/ Unstuffed(s.place)
  /\ seen # {} /\ kind \in PeerKinds /\ mail.pgp = NoKey =>
       \A d \in BOOLEAN : Taken(mail, d) = {kind}
  /\ \A f \in Formats, p \in Payloads : \A a \in Validators :
       LET m == [to |-> a, subject |-> "witness", format |-> f, payload |-> p, pgp |-> NoKey]
       IN "request" \in Taken(m, cfg.decryptor) <=>
            p = "request" /\ f \in {"envelope"} \cup (IF cfg.decryptor THEN {"sealed"} ELSE {})

(* A certificate that a relay or FATMAMA's outbox has whole is taken by    *)
(* the validator whose mailbox it goes to: that one "it can read"          *)
(* (gateway.rs:1955), and OpenPGP is decrypted on receipt (gateway.rs:6,   *)
(* pgp.rs:6).  It does not hold: where the validator has published a key,  *)
(* try_encrypt_for_email encrypts the whole mail for it, and no receive    *)
(* path decrypts.                                                          *)
CertificateIsReadable ==
  kind = "certificate" /\ hop.via # "maildir" /\ [place |-> hop, whole |-> TRUE] \in seen =>
    "certificate" \in Taken(mail, TRUE)

(* A mail is encrypted for a key that its owner publishes, or published    *)
(* until less than KEY_CACHE_TTL ago; and it goes out in the clear to the  *)
(* owner of a usable key only if the key is as new, or a lookup failed as  *)
(* recently (pgp.rs: the TTL "covers revocation propagation").             *)
KeyIsCurrent ==
  [][ at = "encrypt" /\ at' = "send" /\ mail.to \in KeyHolders /\ ~EndsWithAxiom(mail.to) =>
        \/ mail'.pgp = (IF keyserver[mail.to] \in Keys THEN keyserver[mail.to] ELSE NoKey)
        \/ since[mail.to] < KEY_CACHE_TTL
        \/ failed'[mail.to] < KEY_CACHE_TTL /\ mail'.pgp = NoKey ]_vars
=============================================================================
