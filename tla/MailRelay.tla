----------------------------- MODULE MailRelay -----------------------------
(***************************************************************************)
(* What FATMAMA promises of the mail it finds in ANTIE's directories:      *)
(* "Not accepted => file stays.  Never dropped" (fatmama/fatmama.py:1413), *)
(* and a mailbox gives up only what was read ("a partially-read mailbox is *)
(* never reclaimed out from under a client", fatmama.py:376) or what an    *)
(* administrator deletes.                                                  *)
(*                                                                         *)
(* One mail, one place: no sites, tables, connections, copies or sessions. *)
(***************************************************************************)
CONSTANTS Mail

VARIABLES held,         \* still in the directory it was written to
          inbox,        \* in its recipient's mailbox
          read,         \* read from there
          wiped,        \* deleted from there by an administrator
          unfiled       \* taken and logged, not filed

vars == <<held, inbox, read, wiped, unfiled>>

Init == /\ held \subseteq Mail
        /\ inbox = {} /\ read = {} /\ wiped = {} /\ unfiled = {}

(* What is held is put into the mailbox, once more if it was there before. *)
File(m) == /\ m \in held
           /\ inbox' = inbox \cup {m}
           /\ UNCHANGED <<held, read, wiped, unfiled>>

GiveUp(m) == /\ m \in held
             /\ unfiled' = unfiled \cup {m}
             /\ UNCHANGED <<held, inbox, read, wiped>>

(* The file goes, when something has become of the mail.                   *)
Release(m) == /\ m \in held
              /\ m \in inbox \cup read \cup wiped \cup unfiled
              /\ held' = held \ {m}
              /\ UNCHANGED <<inbox, read, wiped, unfiled>>

(* Within a site the two are one step of the collector.                    *)
Move(m) == /\ m \in held
           /\ inbox' = inbox \cup {m} /\ held' = held \ {m}
           /\ UNCHANGED <<read, wiped, unfiled>>

Fetch(m) == /\ m \in inbox
            /\ read' = read \cup {m}
            /\ UNCHANGED <<held, inbox, wiped, unfiled>>

(* A mailbox loses what was read from it ...                               *)
Expunge(S) == /\ S \subseteq inbox \cap read
              /\ inbox' = inbox \ S
              /\ UNCHANGED <<held, read, wiped, unfiled>>

(* ... or what an administrator deletes with it.                           *)
Wipe(S) == /\ S \subseteq inbox
           /\ inbox' = inbox \ S /\ wiped' = wiped \cup S
           /\ UNCHANGED <<held, read, unfiled>>

Next == \/ \E m \in held : File(m) \/ GiveUp(m) \/ Release(m) \/ Move(m)
        \/ \E m \in inbox : Fetch(m)
        \/ \E S \in SUBSET inbox : Expunge(S) \/ Wipe(S)

Spec == Init /\ [][Next]_vars
=============================================================================
