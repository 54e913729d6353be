---------------------------- MODULE MCOutbound ----------------------------
EXTENDS Outbound, TLC

CONSTANTS ext, mesh, cross, upper, bare, k1, k2

MCAddresses == {ext, mesh, cross, upper, bare}
At(n) == [name |-> n, lower |-> TRUE]
MCDomainsOf == (ext :> <<At("example.org")>>) @@ (mesh :> <<At("axiom.internal")>>)
                 @@ (cross :> <<At("axiom.internal"), At("node.example.org")>>)
                 @@ (upper :> <<[name |-> "axiom", lower |-> FALSE]>>) @@ (bare :> <<>>)
MCNames == {"axiom", "axiom.internal", "example.org", "node.example.org"}
MCValidators == {ext, mesh}
MCKeyHolders == {ext}
MCKeys == {k1, k2}

Bare == [route |-> {}, local |-> FALSE, external |-> FALSE, maildir |-> TRUE,
         auth |-> {}, tls |-> {}, uncle |-> FALSE, decryptor |-> TRUE]
Fleet == [Bare EXCEPT !.route = Cluster, !.uncle = TRUE]
Split == [Bare EXCEPT !.local = TRUE, !.external = TRUE,
                      !.auth = {"external"}, !.tls = {"external"}]
(* A fleet with outboxes, one with relays, the local relay alone, a mail   *)
(* provider with and without TLS, the validator's own outbox, and one that *)
(* does not start.                                                         *)
MCConfigs == {Fleet, Split, [Split EXCEPT !.external = FALSE, !.decryptor = FALSE],
              [Bare EXCEPT !.external = TRUE],
              [Bare EXCEPT !.external = TRUE, !.auth = {"external"}],
              Bare, [Fleet EXCEPT !.maildir = FALSE]}
===========================================================================
