----------------------------- MODULE MCFatmama -----------------------------
(* B has a validator, creates the mailboxes of unknown recipients, and its *)
(* wallet w and its operators act; A serves only the wallet x.             *)
EXTENDS Fatmama, TLC
CONSTANTS A, B, vb, w, x, r1, elsewhere
TwoSites == {A, B}
ThreeAddrs == {vb, w, x}
WX == {w, x}
WAtB == {<<B, w>>}
OwnBox == [a \in ThreeAddrs |-> a]
(* The addresses of w and x differ in punctuation only.                    *)
SameSlug == [a \in ThreeAddrs |-> IF a = x THEN w ELSE a]
FirstRoutes == (A :> {x}) @@ (B :> {vb})
OnlyB == {B}
NoSites == {}
MailFiles == 1..9
Directories == (1 :> <<B, "outbox">>) @@ (2 :> <<A, "outbox">>) @@ (3 :> <<A, "pickup">>)
            @@ (4 :> <<B, "outbox">>) @@ (5 :> <<B, "pickup">>) @@ (6 :> <<B, "outbox">>)
            @@ (7 :> <<B, "outbox">>) @@ (8 :> <<A, "outbox">>) @@ (9 :> <<A, "pickup">>)
Hosts == (1 :> NoHost) @@ (2 :> B) @@ (3 :> B) @@ (4 :> elsewhere) @@ (5 :> A) @@ (6 :> B)
      @@ (7 :> A) @@ (8 :> NoHost) @@ (9 :> B)
Recipients == [m \in MailFiles |-> IF m = 3 THEN x ELSE w]
NoTo == {8, 9}
(* A plain reply and a wrapped mail; two mails for one host; one for a     *)
(* stranger and one that A drops; one for the site itself and one that A   *)
(* refuses, and that one before the one A drops; two without a To:.        *)
SixBatches == {{1, 2}, {2, 3}, {4, 5}, {6, 7}, {5, 7}, {8, 9}}
OnlyForX == {{3}}
OneReader == {r1}
=============================================================================
