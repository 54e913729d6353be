---------------------------- MODULE MailFormat ----------------------------
(***************************************************************************)
(* What ANTIE writes into a mail and what it makes of one it receives      *)
(* (email.rs, decrypt.rs), and what its routers take to be an address's    *)
(* domain (config.rs, carrier.rs).                                         *)
(*                                                                         *)
(* A mail is a record: the recipient and the subject that its headers      *)
(* name, the shape of its body, the CBOR inside, and the OpenPGP key that  *)
(* the whole of it, headers included, is encrypted for.                    *)
(***************************************************************************)
EXTENDS Naturals, Sequences

CONSTANTS Addresses,
          DomainsOf,   \* the domains of an address, one for each '@'
          Names,       \* of domains, without regard to case
          Keys, NoKey  \* OpenPGP keys

(* A domain, and whether it is written in lower case.                      *)
Domain == [name : Names, lower : BOOLEAN]

(* `user@domain`, or `user@domain@host`, which names a site too.           *)
ASSUME AddressAssumption ==
  /\ DomainsOf \in [Addresses -> Seq(Domain)]
  /\ \A a \in Addresses : Len(DomainsOf[a]) <= 2
ASSUME KeyAssumption == NoKey \notin Keys

Cluster == {"axiom", "axiom.internal"}

(* The message types; "none": the subject is not AXIOM/<type>/<id>.        *)
RAW_CBOR_MESSAGE_TYPES == {"peer_audit_request", "peer_audit_response", "fanout_relay"}
Subjects == RAW_CBOR_MESSAGE_TYPES
              \cup {"witness", "cheque", "scar_consent", "vbc", "witness_response", "none"}
(* "envelope": a plain UmpEnvelope.  "sealed", "foreign": one encrypted    *)
(* for the reader, or for somebody else.  "garbage": no body, or one that  *)
(* is not base64.                                                          *)
Formats == {"raw", "envelope", "sealed", "foreign", "garbage"}
Payloads == {"request", "reply", "cheque", "certificate", "scar_consent",
             "audit_request", "audit_response", "not_held", "junk"}

Mails == [to : Addresses, subject : Subjects, format : Formats, payload : Payloads,
          pgp : Keys \cup {NoKey}]

---------------------------------------------------------------------------
(* Addresses.                                                              *)

HasAt(a) == DomainsOf[a] # <<>>
Outer(a) == DomainsOf[a][Len(DomainsOf[a])]
Inner(a) == DomainsOf[a][IF Len(DomainsOf[a]) > 1 THEN Len(DomainsOf[a]) - 1 ELSE 1]

(* SplitCarrier: the part after the last '@', as it is written.            *)
recipient_is_local(a) == HasAt(a) /\ Outer(a).name \in Cluster /\ Outer(a).lower

(* The route table: the domain of the wallet, whatever the case.  At most  *)
(* one row; none: the recipient is refused.                                *)
outbox_for(route, a) == IF HasAt(a) /\ Inner(a).name \in route THEN {Inner(a).name} ELSE {}

(* lookup_key_bytes does not ask the keyserver about the dev cluster.      *)
EndsWithAxiom(a) == HasAt(a) /\ Outer(a) = [name |-> "axiom", lower |-> TRUE]

---------------------------------------------------------------------------
(* The writers: headers, then base64 of the payload's CBOR.                *)

Compose(to, subject, payload) ==
  [to |-> to, subject |-> subject, format |-> "raw", payload |-> payload, pgp |-> NoKey]

validate_email_addr(a) == HasAt(a)

(* An error is reported under another subject, which no validator handles  *)
(* either.                                                                 *)
build_response(to) == Compose(to, "witness_response", "reply")
build_cheque_delivery_email(to) == Compose(to, "cheque", "cheque")
build_vbc_delivery_email(to) == Compose(to, "vbc", "certificate")
build_scar_consent_email(to) == Compose(to, "scar_consent", "scar_consent")
build_peer_audit_request_email(to) == Compose(to, "peer_audit_request", "audit_request")
build_peer_audit_response_email(to) == Compose(to, "peer_audit_response", "audit_response")
(* Faulty variant: an answer of its own kind goes under a type of its own. *)
NotHeldUnderOwnType(to) == Compose(to, "none", "not_held")
build_peer_audit_not_held_email(to) == Compose(to, "peer_audit_response", "not_held")

---------------------------------------------------------------------------
(* The reader: process_message tries the certificate first, by its body    *)
(* alone, and then the message types.                                      *)

try_parse_vbc_delivery(m) ==
  m.pgp = NoKey /\ m.format = "raw" /\ m.payload = "certificate"

requires_envelope(type) == type \notin RAW_CBOR_MESSAGE_TYPES

(* EnvelopeDecryptor::open, where the validator's key is configured.       *)
open(m, decryptor) == decryptor /\ m.format = "sealed"

unwrap_by_format(m, decryptor) ==
  IF requires_envelope(m.subject)
    THEN CASE m.format = "envelope" -> "ok"
           [] m.format \in {"sealed", "foreign"} ->
                IF open(m, decryptor) THEN "ok" ELSE "decrypt_failed"
           [] OTHER -> "error"
    ELSE IF m.format = "raw" THEN "ok" ELSE "error"

decode_payload_with_context(m, decryptor) ==
  IF m.format = "garbage" THEN "error" ELSE unwrap_by_format(m, decryptor)

(* Bytes that are no mail have neither subject nor body.                   *)
parse_email_outcome(m, decryptor) ==
  IF m.pgp # NoKey \/ m.subject = "none" THEN "error"
  ELSE LET body == decode_payload_with_context(m, decryptor)
       IN IF body = "ok" /\ m.payload = "junk" THEN "error" ELSE body

(* The field of the payload that the handler of a type reads.              *)
Wanted(type) == CASE type = "witness" -> {"request"}
                  [] type = "peer_audit_request" -> {"audit_request"}
                  [] type = "peer_audit_response" -> {"audit_response", "not_held"}
                  [] OTHER -> {}

(* What a validator takes from a mail, if anything.                        *)
Taken(m, decryptor) ==
  IF try_parse_vbc_delivery(m) THEN {"certificate"}
  ELSE IF parse_email_outcome(m, decryptor) = "ok"
         THEN Wanted(m.subject) \cap {m.payload}
         ELSE {}
=============================================================================
