---------------------------- MODULE HeldSession ----------------------------
(***************************************************************************)
(* What TOT and ANTIE together promise the client of a held session: a     *)
(* request is answered to the session that made it and to no other; it is  *)
(* put away only when its answer is there for the session, or the session  *)
(* is over, or its sender is refused with no reply of any kind, or it is   *)
(* dropped and the drop logged; and an answer is given up only when it was *)
(* sent or the session is over ("Fail loudly", antie/src/gateway.rs:2525;  *)
(* "delete each one once it is on the socket", tot/src/main.rs:253-254;   *)
(* "Nothing is retained past the socket", tot/src/main.rs:304).            *)
(*                                                                         *)
(* One table: no directories, temporary files, sweeps, passes or jobs.     *)
(***************************************************************************)
CONSTANTS Sessions, Requests,
          Refused       \* sessions whose requests are refused

VARIABLES state,        \* of a session: "unborn", "open" or "ended"
          asked,        \* its requests that have not been put away
          dropped,      \* its requests that were dropped
          ready,        \* answers waiting for it
          got           \* answers it has received

vars == <<state, asked, dropped, ready, got>>

Init == /\ state = [s \in Sessions |-> "unborn"]
        /\ asked = [s \in Sessions |-> {}]
        /\ dropped = [s \in Sessions |-> {}]
        /\ ready = [s \in Sessions |-> {}]
        /\ got = [s \in Sessions |-> {}]

AnswerTo(s, r) == [from |-> s, req |-> r]

Begin(s) == /\ state[s] = "unborn"
            /\ state' = [state EXCEPT ![s] = "open"]
            /\ UNCHANGED <<asked, dropped, ready, got>>

Ask(s, r) == /\ state[s] = "open"
             /\ asked' = [asked EXCEPT ![s] = @ \cup {r}]
             /\ dropped' = [dropped EXCEPT ![s] = @ \ {r}]
             /\ UNCHANGED <<state, ready, got>>

Reply(s, r) == /\ r \in asked[s] /\ s \notin Refused
               /\ ready' = [ready EXCEPT ![s] = @ \cup {AnswerTo(s, r)}]
               /\ UNCHANGED <<state, asked, dropped, got>>

PutAway(s, r) == /\ r \in asked[s]
                 /\ \/ AnswerTo(s, r) \in ready[s] \cup got[s]
                    \/ state[s] = "ended" \/ s \in Refused
                 /\ asked' = [asked EXCEPT ![s] = @ \ {r}]
                 /\ UNCHANGED <<state, dropped, ready, got>>

Drop(s, r) == /\ r \in asked[s]
              /\ asked' = [asked EXCEPT ![s] = @ \ {r}]
              /\ dropped' = [dropped EXCEPT ![s] = @ \cup {r}]
              /\ UNCHANGED <<state, ready, got>>

Receive(s, x) == /\ state[s] = "open" /\ x \in ready[s]
                 /\ got' = [got EXCEPT ![s] = @ \cup {x}]
                 /\ UNCHANGED <<state, asked, dropped, ready>>

GiveUp(s, S) == /\ S \subseteq got[s] \/ state[s] # "open"
                /\ ready' = [ready EXCEPT ![s] = @ \ S]
                /\ UNCHANGED <<state, asked, dropped, got>>

(* A session ends, and what waits for it goes.                             *)
End(s) == /\ state[s] = "open"
          /\ state' = [state EXCEPT ![s] = "ended"]
          /\ ready' = [ready EXCEPT ![s] = {}]
          /\ UNCHANGED <<asked, dropped, got>>

(* All end at once; what waits for them is found by a later GiveUp.        *)
EndAll == /\ state' = [s \in Sessions |-> IF state[s] = "unborn" THEN "unborn" ELSE "ended"]
          /\ UNCHANGED <<asked, dropped, ready, got>>

Next == \/ EndAll
        \/ \E s \in Sessions :
             \/ Begin(s) \/ End(s)
             \/ \E r \in Requests : Ask(s, r) \/ Reply(s, r) \/ PutAway(s, r) \/ Drop(s, r)
             \/ \E x \in ready[s] : Receive(s, x)
             \/ \E S \in SUBSET ready[s] : GiveUp(s, S)

Spec == Init /\ [][Next]_vars
=============================================================================
