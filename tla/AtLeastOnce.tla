---------------------------- MODULE AtLeastOnce ----------------------------
(***************************************************************************)
(* What the pull leg of the inbox funnel promises: mail accepted by the    *)
(* account is removed from the server only after a copy was staged in      *)
(* inbox/new/, or because it may be discarded on purpose (low-entropy      *)
(* text under spam_entropy_threshold), or because the server itself        *)
(* refused to hand it over.  Copies may repeat; no other may be missing.   *)
(* The promise is the comment on deliver_carrier_messages                  *)
(* (antie/src/gateway.rs:943-949).                                         *)
(***************************************************************************)
EXTENDS Naturals

CONSTANTS Mail,         \* the messages senders may send
          Discardable   \* those the spam filter may delete unstaged

VARIABLES arrived,      \* accepted by the server so far
          held,         \* still on the server
          staged,       \* copies written to inbox/new/, per message
          refused       \* asked for, and not handed over, at least once

vars == <<arrived, held, staged, refused>>

Init == /\ arrived = {}
        /\ held = {}
        /\ staged = [m \in Mail |-> 0]
        /\ refused = {}

(* The server accepts a message.                                           *)
Accept(m) == /\ m \notin arrived
             /\ arrived' = arrived \cup {m}
             /\ held' = held \cup {m}
             /\ UNCHANGED <<staged, refused>>

(* One more copy of an accepted message reaches the funnel.                *)
Stage(m) == /\ m \in arrived
            /\ staged' = [staged EXCEPT ![m] = @ + 1]
            /\ UNCHANGED <<arrived, held, refused>>

(* The server refuses to hand over what it holds.                          *)
Refuse(S) == /\ S \subseteq held
             /\ refused' = refused \cup S
             /\ UNCHANGED <<arrived, held, staged>>

(* The server forgets messages, each of them staged, discardable or        *)
(* refused.                                                                *)
Remove(S) == /\ S \subseteq held
             /\ \A m \in S : staged[m] > 0 \/ m \in Discardable \cup refused
             /\ held' = held \ S
             /\ UNCHANGED <<arrived, staged, refused>>

Next == \/ \E m \in Mail : Accept(m) \/ Stage(m)
        \/ \E S \in SUBSET held : Refuse(S) \/ Remove(S)

Spec == Init /\ [][Next]_vars
=============================================================================
