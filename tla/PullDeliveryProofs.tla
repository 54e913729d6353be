------------------------ MODULE PullDeliveryProofs ------------------------
(***************************************************************************)
(* Proofs about PullDelivery, for any set of messages and any bounds on    *)
(* crashes and faults.                                                     *)
(*                                                                         *)
(* Type correctness holds for both carriers.  That no mail is lost but     *)
(* what the server refuses to hand over, that the loop implements          *)
(* AtLeastOnce, and that copies are paid for by failures holds for an IMAP *)
(* account: NoMailLost is not inductive by itself, so ImapInv adds what    *)
(* ties a fetched id to the message it names.  For a POP3 account the tie  *)
(* is the number 1, and it holds as long as a pass finds one message.      *)
(***************************************************************************)
EXTENDS PullDelivery, FiniteSetTheorems, TLAPS

(* No step changes the configured account.                                 *)
LEMMA AccountFixed == [Next]_vars => account' = account
<1> SUFFICES ASSUME [Next]_vars PROVE account' = account
  OBVIOUS
<1>1. CASE \E m \in Mail : Arrive(m)
  BY <1>1 DEF Arrive
<1>2. CASE check_new \/ check_new_starved \/ check_new_refused \/ check_new_err
  BY <1>2 DEF check_new, check_new_starved, check_new_refused, check_new_err
<1>3. CASE \/ spam_drop \/ write_message \/ write_message_err
           \/ ImapMarkProcessed \/ ImapExpungeErr
  BY <1>3 DEF spam_drop, write_message, write_message_err, ImapMarkProcessed,
              ImapExpungeErr
<1>4. CASE Pop3MarkProcessed \/ mark_processed_err \/ PassDone \/ WaitOver
  BY <1>4 DEF Pop3MarkProcessed, mark_processed_err, PassDone, WaitOver
<1>5. CASE idle_search \/ idle_begin \/ idle_exists \/ idle_recycle
  BY <1>5 DEF idle_search, idle_begin, idle_exists, idle_recycle
<1>6. CASE idle_err \/ idle_not_supported \/ Crash \/ Restart
  BY <1>6 DEF idle_err, idle_not_supported, Crash, Restart
<1>7. CASE UNCHANGED vars
  BY <1>7 DEF vars
<1> QED BY <1>1, <1>2, <1>3, <1>4, <1>5, <1>6, <1>7 DEF Next, Loop

(* The POP3 number of a message on the server is a number.                 *)
LEMMA NumberIsNat ==
  ASSUME TypeOK, NEW m \in server
  PROVE  Number(m, server) \in Nat
<1>1. IsFiniteSet(server)
  BY FS_Subset DEF TypeOK
<1>2. {x \in server : uid[x] <= uid[m]} \subseteq server
  OBVIOUS
<1> QED BY <1>1, <1>2, FS_Subset, FS_CardinalityType DEF Number

(* What check_new hands over is an IncomingMessage.                        *)
LEMMA FetchedType ==
  ASSUME TypeOK, NEW m \in server, NEW R
  PROVE  Fetched(m, R) \in Incoming
<1>1. m \in Mail /\ uid[m] \in Nat
  BY DEF TypeOK
<1> QED BY <1>1, NumberIsNat DEF Fetched, Incoming

(* The loop starts in a type-correct state.                                *)
LEMMA InitType == Init => TypeOK
<1> SUFFICES ASSUME Init PROVE TypeOK
  OBVIOUS
<1>1. polling \in BOOLEAN /\ push \in BOOLEAN
  BY Zenon DEF Init
<1>2. IsFiniteSet(arrived)
  BY FS_EmptySet DEF Init
<1>3. cur \in Incoming \cup {NoMessage}
  BY DEF Init
<1> QED BY <1>1, <1>2, <1>3, PullAssumption DEF Init, TypeOK, PCs

(* Every step of the specification keeps the type invariant.               *)
LEMMA StepType == TypeOK /\ [Next]_vars => TypeOK'
<1> SUFFICES ASSUME TypeOK, [Next]_vars PROVE TypeOK'
  OBVIOUS
<1> USE PullAssumption DEF PCs, Carrier
<1>1. CASE UNCHANGED vars
  BY <1>1 DEF TypeOK, vars
<1>2. CASE \E m \in Mail : Arrive(m)
  <2>1. PICK m \in Mail : Arrive(m) BY <1>2
  <2>2. IsFiniteSet(arrived') /\ Cardinality(arrived) \in Nat
    BY <2>1, FS_AddElement, FS_CardinalityType DEF Arrive, TypeOK
  <2>3. uid' \in [Mail -> Nat]
    BY <2>1, <2>2 DEF Arrive, TypeOK
  <2>4. push' \in BOOLEAN
    BY <2>1 DEF Arrive, TypeOK
  <2> QED BY <2>1, <2>2, <2>3, <2>4 DEF Arrive, TypeOK
<1>3. CASE check_new
  <2>1. batch' \subseteq Incoming
    BY <1>3, FetchedType DEF check_new
  <2>2. blanked' \subseteq arrived'
    BY <1>3 DEF check_new, TypeOK
  <2> QED BY <1>3, <2>1, <2>2 DEF check_new, TypeOK
<1>20. CASE check_new_starved
  BY <1>20 DEF check_new_starved, TypeOK
<1>19. CASE check_new_refused
  <2>1. batch' \subseteq Incoming
    BY <1>19, FetchedType DEF check_new_refused
  <2>2. blanked' \subseteq arrived'
    BY <1>19 DEF check_new_refused, TypeOK
  <2> QED BY <1>19, <2>1, <2>2 DEF check_new_refused, Fault, TypeOK
<1>4. CASE check_new_err
  BY <1>4 DEF check_new_err, Fault, TypeOK
<1>5. CASE spam_drop
  BY <1>5 DEF spam_drop, TypeOK
<1>6. CASE write_message
  <2>1. PICK b \in batch :
          /\ cur' = b
          /\ inbox' = [m \in Mail |-> inbox[m] + IF m = b.raw THEN 1 ELSE 0]
    BY <1>6 DEF write_message
  <2>2. inbox' \in [Mail -> Nat]
    BY <2>1 DEF TypeOK
  <2> QED BY <1>6, <2>1, <2>2 DEF write_message, TypeOK
<1>7. CASE write_message_err
  BY <1>7 DEF write_message_err, Fault, TypeOK
<1>8. CASE ImapMarkProcessed
  BY <1>8 DEF ImapMarkProcessed, Marked, TypeOK
<1>9. CASE ImapExpungeErr
  BY <1>9 DEF ImapExpungeErr, Marked, Fault, ImapNamed, TypeOK
<1>10. CASE Pop3MarkProcessed
  <2>1. flagged = {} /\ flagged' = {}
    BY <1>10 DEF Pop3MarkProcessed, TypeOK
  <2> QED BY <1>10, <2>1 DEF Pop3MarkProcessed, Marked, TypeOK
<1>11. CASE mark_processed_err
  BY <1>11 DEF mark_processed_err, Marked, Fault, TypeOK
<1>12. CASE PassDone
  BY <1>12 DEF PassDone, TypeOK
<1>13. CASE WaitOver
  BY <1>13 DEF WaitOver, TypeOK
<1>14. CASE idle_search \/ idle_begin \/ idle_exists \/ idle_recycle
  BY <1>14 DEF idle_search, idle_begin, idle_exists, idle_recycle, TypeOK
<1>15. CASE idle_err
  BY <1>15 DEF idle_err, Fault, TypeOK
<1>16. CASE idle_not_supported
  BY <1>16 DEF idle_not_supported, TypeOK
<1>17. CASE Crash
  <2>1. polling' \in BOOLEAN /\ push' \in BOOLEAN
    BY <1>17, Zenon DEF Crash
  <2> QED BY <1>17, <2>1 DEF Crash, TypeOK
<1>18. CASE Restart
  BY <1>18 DEF Restart, TypeOK
<1> QED
  BY <1>1, <1>2, <1>3, <1>4, <1>5, <1>6, <1>7, <1>8, <1>9, <1>10, <1>11,
     <1>12, <1>13, <1>14, <1>15, <1>16, <1>17, <1>18, <1>19, <1>20 DEF Next, Loop

(* Every behaviour is type correct, for both carriers.                     *)
THEOREM TypeCorrect == Spec => []TypeOK
<1> QED BY InitType, StepType, PTL DEF Spec

---------------------------------------------------------------------------
(* IMAP.                                                                   *)

ImapAccount == Carrier = "imap"

(* The inductive invariant of an IMAP account holds initially.             *)
LEMMA ImapInit == Init => ImapInv
<1> SUFFICES ASSUME Init PROVE ImapInv
  OBVIOUS
<1>1. TypeOK
  BY InitType
<1> QED BY <1>1 DEF Init, ImapInv, UidsIdentify, FetchedNames,
                    OnlyStagedIsMarked, AllKept, Kept

(* An arrival gets the next uid, and no other uid changes.                 *)
LEMMA ArriveUids ==
  ASSUME TypeOK, UidsIdentify, NEW m \in Mail, Arrive(m)
  PROVE  /\ UidsIdentify'
         /\ Cardinality(arrived) \in Nat
         /\ Cardinality(arrived') = Cardinality(arrived) + 1
         /\ uid'[m] = Cardinality(arrived) + 1
         /\ \A n \in arrived : n # m /\ uid'[n] = uid[n]
<1>1. /\ Cardinality(arrived) \in Nat
      /\ Cardinality(arrived') = Cardinality(arrived) + 1
  BY FS_AddElement, FS_CardinalityType DEF Arrive, TypeOK
<1>2. /\ uid'[m] = Cardinality(arrived) + 1
      /\ \A n \in arrived : n # m /\ uid'[n] = uid[n]
  BY DEF Arrive, TypeOK
<1>3. \A n \in arrived : uid'[n] \in 1 .. Cardinality(arrived)
  BY <1>2 DEF UidsIdentify
<1>4. \A n \in arrived' : n \in arrived \/ n = m
  BY DEF Arrive
<1>5. \A n \in arrived' : uid'[n] \in 1 .. Cardinality(arrived')
  BY <1>1, <1>2, <1>3, <1>4
<1>6. ASSUME NEW n \in arrived', NEW k \in arrived', uid'[n] = uid'[k]
      PROVE  n = k
  <2>1. CASE n \in arrived /\ k \in arrived
    BY <1>2, <1>6, <2>1 DEF UidsIdentify
  <2>2. CASE n = m \/ k = m
    BY <1>1, <1>2, <1>3, <1>4, <1>6, <2>2
  <2> QED BY <1>4, <2>1, <2>2
<1> QED BY <1>1, <1>2, <1>5, <1>6 DEF UidsIdentify

(* A step keeps ImapInv: one case per action that touches the mail or the  *)
(* records; the remaining actions only move the loop.                      *)
LEMMA ImapStep == ASSUME ImapAccount PROVE ImapInv /\ [Next]_vars => ImapInv'
<1> SUFFICES ASSUME ImapInv, [Next]_vars PROVE ImapInv'
  OBVIOUS
<1> USE PullAssumption DEF ImapAccount, Kept, AllKept
<1>t. TypeOK /\ TypeOK'
  BY StepType DEF ImapInv
<1>c. account' = account /\ Carrier = "imap" /\ Carrier' = "imap"
  BY AccountFixed DEF Carrier
<1>d. Discardable = {} /\ Discardable' = {}
  BY <1>t, <1>c DEF Discardable, SpamFilter, Carrier, TypeOK
<1> USE <1>d
<1>b. \A m \in Mail : m # Blank
  OBVIOUS
<1> DEFINE Rest == UidsIdentify /\ FetchedNames /\ OnlyStagedIsMarked /\ AllKept
<1> SUFFICES Rest'
  BY <1>t DEF ImapInv
<1>r. Rest
  BY DEF ImapInv
<1>1. CASE UNCHANGED vars
  BY <1>1, <1>r DEF vars, UidsIdentify, FetchedNames, OnlyStagedIsMarked, Served, AllKept
<1>2. CASE \E m \in Mail : Arrive(m)
  <2>1. PICK m \in Mail : Arrive(m) BY <1>2
  <2>2. /\ Cardinality(arrived) \in Nat
        /\ Cardinality(arrived') = Cardinality(arrived) + 1
    BY <2>1, <1>t, <1>r, ArriveUids
  <2>3. /\ uid'[m] = Cardinality(arrived) + 1
        /\ \A n \in arrived : n # m /\ uid'[n] = uid[n]
    BY <2>1, <1>t, <1>r, ArriveUids
  <2>4. UidsIdentify'
    BY <2>1, <1>t, <1>r, ArriveUids
  <2>5. FetchedNames'
    <3>. SUFFICES ASSUME NEW b \in batch
                  PROVE  /\ b.id <= Cardinality(arrived')
                         /\ b.raw # Blank => b.raw \in arrived' /\ uid'[b.raw] = b.id
                         /\ b.raw = Blank =>
                              \A n \in arrived' : uid'[n] = b.id => n \in blanked'
      BY <2>1 DEF Arrive, FetchedNames
    <3>1. b.id \in Nat /\ b.id <= Cardinality(arrived)
      BY <1>r, <1>t DEF FetchedNames, TypeOK, Incoming
    <3>2. uid'[m] # b.id
      BY <2>2, <2>3, <3>1
    <3>3. b.raw # Blank => b.raw \in arrived' /\ uid'[b.raw] = b.id
      BY <2>1, <2>3, <1>r DEF Arrive, FetchedNames
    <3>4. b.raw = Blank => \A n \in arrived' : uid'[n] = b.id => n \in blanked'
      BY <2>1, <2>3, <3>2, <1>r DEF Arrive, FetchedNames
    <3> QED BY <2>2, <3>1, <3>3, <3>4
  <2>6. OnlyStagedIsMarked'
    <3>1. ASSUME pc = "mark" PROVE cur.id \in Nat /\ cur.id <= Cardinality(arrived)
      BY <3>1, <1>r, <1>t DEF OnlyStagedIsMarked, FetchedNames, TypeOK, Incoming
    <3>2. pc = "mark" => uid'[m] # cur.id
      BY <2>2, <2>3, <3>1
    <3> QED BY <2>1, <2>3, <3>2, <1>r DEF Arrive, OnlyStagedIsMarked, Served
  <2>7. AllKept'
    BY <2>1, <1>r DEF Arrive, AllKept
  <2> QED BY <2>4, <2>5, <2>6, <2>7
<1>3. CASE check_new
  <2>1. batch' = {Fetched(m, {}) : m \in server} /\ blanked' = blanked
    BY <1>3, <1>c DEF check_new
  <2>2. \A m \in server : Fetched(m, {}).raw = m /\ Fetched(m, {}).id = uid[m]
    BY <1>c DEF Fetched
  <2>3. \A m \in server : /\ m \in arrived /\ m # Blank
                           /\ uid[m] <= Cardinality(arrived)
    BY <1>t, <1>r, <1>b, FS_CardinalityType DEF TypeOK, UidsIdentify
  <2>4. FetchedNames'
    BY <1>3, <2>1, <2>2, <2>3 DEF check_new, FetchedNames
  <2> QED BY <1>3, <2>1, <2>4, <1>r
          DEF check_new, UidsIdentify, OnlyStagedIsMarked, Served, AllKept
<1>15. CASE check_new_refused
  <2>1. PICK R \in SUBSET server : /\ batch' = {Fetched(m, R) : m \in server}
                                   /\ blanked' = blanked \cup R
    BY <1>15 DEF check_new_refused
  <2>2. UNCHANGED <<arrived, server, uid, flagged, inbox>> /\ pc' = "deliver"
    BY <1>15 DEF check_new_refused
  <2>3. \A m \in server : /\ m \in arrived /\ m # Blank
                           /\ uid[m] <= Cardinality(arrived)
    BY <1>t, <1>r, <1>b, FS_CardinalityType DEF TypeOK, UidsIdentify
  <2>4. ASSUME NEW m \in server, NEW b, b = Fetched(m, R)
        PROVE  /\ b.id <= Cardinality(arrived)
               /\ b.raw # Blank => b.raw \in arrived /\ uid[b.raw] = b.id
               /\ b.raw = Blank => \A n \in arrived : uid[n] = b.id => n \in blanked'
    <3>1. b.id = uid[m] /\ b.raw = IF m \in R THEN Blank ELSE m
      BY <2>4, <1>c DEF Fetched
    <3>2. CASE m \in R
      <4>1. \A n \in arrived : uid[n] = b.id => n = m
        BY <2>3, <3>1, <1>r DEF UidsIdentify
      <4> QED BY <2>1, <2>3, <3>1, <3>2, <4>1
    <3>3. CASE m \notin R
      BY <2>3, <3>1, <3>3
    <3> QED BY <3>2, <3>3
  <2>5. FetchedNames'
    BY <2>1, <2>2, <2>4 DEF FetchedNames
  <2>6. OnlyStagedIsMarked'
    BY <2>1, <2>2, <1>r DEF OnlyStagedIsMarked, Served
  <2>7. AllKept' /\ UidsIdentify'
    BY <2>1, <2>2, <1>r DEF AllKept, UidsIdentify
  <2> QED BY <2>5, <2>6, <2>7
<1>4. CASE write_message
  <2>1. PICK b \in batch :
          /\ cur' = b
          /\ inbox' = [m \in Mail |-> inbox[m] + IF m = b.raw THEN 1 ELSE 0]
    BY <1>4 DEF write_message
  <2>2. \A m \in arrived : uid[m] = b.id => m = b.raw \/ m \in blanked
    BY <1>r DEF FetchedNames, UidsIdentify
  <2>3. /\ \A m \in Mail : m = b.raw => inbox'[m] > 0
        /\ \A m \in Mail : inbox[m] > 0 => inbox'[m] > 0
    BY <2>1, <1>t DEF TypeOK
  <2>4. OnlyStagedIsMarked'
    BY <1>4, <2>1, <2>2, <2>3, <1>r, <1>t
       DEF write_message, OnlyStagedIsMarked, Served, TypeOK
  <2>5. AllKept'
    BY <1>4, <2>3, <1>r, <1>t DEF write_message, AllKept, TypeOK
  <2> QED BY <1>4, <2>4, <2>5, <1>r DEF write_message, UidsIdentify, FetchedNames
<1>5. CASE write_message_err
  BY <1>5, <1>r DEF write_message_err, UidsIdentify, FetchedNames,
                    OnlyStagedIsMarked, Served, AllKept
<1>6. CASE ImapMarkProcessed
  <2>1. \A m \in ImapNamed(cur.id) : Served(m)
    BY <1>6, <1>r, <1>t DEF ImapMarkProcessed, ImapNamed, OnlyStagedIsMarked, TypeOK
  <2>2. AllKept'
    BY <1>6, <2>1, <1>r DEF ImapMarkProcessed, OnlyStagedIsMarked, Served, AllKept
  <2> QED BY <1>6, <2>2, <1>r
          DEF ImapMarkProcessed, Marked, UidsIdentify, FetchedNames, OnlyStagedIsMarked
<1>7. CASE ImapExpungeErr
  <2>1. \A m \in ImapNamed(cur.id) : Served(m)
    BY <1>7, <1>r, <1>t DEF ImapExpungeErr, ImapNamed, OnlyStagedIsMarked, TypeOK
  <2> QED BY <1>7, <2>1, <1>r
          DEF ImapExpungeErr, Marked, UidsIdentify, FetchedNames,
              OnlyStagedIsMarked, Served, AllKept
<1>8. CASE mark_processed_err
  BY <1>8, <1>r DEF mark_processed_err, Marked, UidsIdentify, FetchedNames,
                    OnlyStagedIsMarked, Served, AllKept
<1>9. CASE check_new_err \/ PassDone \/ WaitOver
  BY <1>9, <1>r DEF check_new_err, PassDone, WaitOver, UidsIdentify, FetchedNames,
                    OnlyStagedIsMarked, Served, AllKept
<1>10. CASE idle_search \/ idle_begin \/ idle_exists \/ idle_recycle
  BY <1>10, <1>r DEF idle_search, idle_begin, idle_exists, idle_recycle,
                     UidsIdentify, FetchedNames, OnlyStagedIsMarked, Served, AllKept
<1>11. CASE idle_err \/ idle_not_supported
  BY <1>11, <1>r DEF idle_err, idle_not_supported, UidsIdentify, FetchedNames,
                     OnlyStagedIsMarked, Served, AllKept
<1>12. CASE Crash
  BY <1>12, <1>r DEF Crash, UidsIdentify, FetchedNames, OnlyStagedIsMarked, Served, AllKept
<1>13. CASE Restart
  BY <1>13, <1>r DEF Restart, UidsIdentify, FetchedNames, OnlyStagedIsMarked, Served, AllKept
<1>14. ~spam_drop /\ ~Pop3MarkProcessed /\ ~check_new_starved
  BY <1>t, <1>c DEF spam_drop, IsSpam, SpamFilter, Carrier, Pop3MarkProcessed,
                    check_new_starved, TypeOK
<1> QED
  BY <1>1, <1>2, <1>3, <1>4, <1>5, <1>6, <1>7, <1>8, <1>9, <1>10, <1>11,
     <1>12, <1>13, <1>14, <1>15 DEF Next, Loop

(* An IMAP account loses no mail that its server hands over: not by a      *)
(* crash between any two steps, not by a failed write, STORE or EXPUNGE,   *)
(* not by mail arriving meanwhile.                                         *)
THEOREM ImapKeepsMail == Spec => []NoMailLost
<1>1. Init => (ImapAccount => ImapInv)
  BY ImapInit
<1>2. (ImapAccount => ImapInv) /\ [Next]_vars => (ImapAccount => ImapInv)'
  BY ImapStep, AccountFixed DEF ImapAccount, Carrier
<1>3. (ImapAccount => ImapInv) => NoMailLost
  BY DEF ImapInv, ImapAccount, NoMailLost
<1> QED BY <1>1, <1>2, <1>3, PTL DEF Spec

(* Every step of the loop is a step of AtLeastOnce or a stutter.           *)
LEMMA PromiseStep ==
  ASSUME ImapAccount, ImapInv, [Next]_vars
  PROVE  [Promise!Next]_(Promise!vars)
<1> USE PullAssumption DEF ImapAccount, Promise!vars
<1>t. TypeOK
  BY DEF ImapInv
<1>c. account' = account /\ Carrier = "imap" /\ Carrier' = "imap"
  BY AccountFixed DEF Carrier
<1> USE <1>c DEF OfImap
<1>1. CASE \E m \in Mail : Arrive(m)
  BY <1>1 DEF Arrive, Promise!Next, Promise!Accept
<1>2. CASE write_message
  <2>1. PICK b \in batch :
          inbox' = [m \in Mail |-> inbox[m] + IF m = b.raw THEN 1 ELSE 0]
    BY <1>2 DEF write_message
  <2>0. CASE b.raw = Blank
    <3>1. inbox' = inbox
      BY <2>0, <2>1, <1>t DEF TypeOK
    <3> QED BY <1>2, <3>1 DEF write_message
  <2> SUFFICES ASSUME b.raw # Blank PROVE [Promise!Next]_(Promise!vars)
    BY <2>0
  <2>2. b.raw \in arrived /\ b.raw \in Mail
    BY <1>t DEF ImapInv, FetchedNames, TypeOK
  <2>3. inbox' = [inbox EXCEPT ![b.raw] = @ + 1]
    <3> DEFINE g == [inbox EXCEPT ![b.raw] = @ + 1]
    <3>1. /\ inbox \in [Mail -> Nat]
          /\ g = [m \in Mail |-> IF m = b.raw THEN inbox[m] + 1 ELSE inbox[m]]
      BY <1>t DEF TypeOK
    <3>2. \A m \in Mail : inbox[m] + (IF m = b.raw THEN 1 ELSE 0)
                            = IF m = b.raw THEN inbox[m] + 1 ELSE inbox[m]
      BY <3>1
    <3> QED BY <2>1, <3>1, <3>2
  <2>4. Promise!Stage(b.raw)
    BY <1>2, <2>2, <2>3 DEF write_message, Promise!Stage
  <2> QED BY <2>2, <2>4 DEF Promise!Next
<1>3. CASE ImapMarkProcessed
  <2> DEFINE S == flagged \cup ImapNamed(cur.id)
  <2>1. \A m \in S : inbox[m] > 0 \/ m \in {} \cup blanked
    BY <1>3, <1>t DEF ImapMarkProcessed, ImapNamed, ImapInv, OnlyStagedIsMarked, Served,
                      TypeOK
  <2>2. S \subseteq server
    BY <1>t DEF ImapNamed, TypeOK
  <2>3. Promise!Remove(S)
    <3>1. server' = server \ S
      BY <1>3 DEF ImapMarkProcessed
    <3>2. UNCHANGED <<arrived, inbox, blanked>>
      BY <1>3 DEF ImapMarkProcessed
    <3> HIDE DEF S
    <3> QED BY <2>1, <2>2, <3>1, <3>2 DEF Promise!Remove
  <2> QED BY <2>2, <2>3 DEF Promise!Next
<1>9. CASE check_new_refused
  <2>1. PICK R \in SUBSET server : blanked' = blanked \cup R
    BY <1>9 DEF check_new_refused
  <2>2. Promise!Refuse(R)
    BY <1>9, <2>1 DEF check_new_refused, Promise!Refuse
  <2> QED BY <2>2 DEF Promise!Next
<1>4. ~Pop3MarkProcessed /\ ~check_new_starved
  BY DEF Pop3MarkProcessed, check_new_starved
<1>5. CASE UNCHANGED <<arrived, server, inbox, blanked>>
  BY <1>5
<1>6. CASE \/ check_new \/ check_new_err \/ spam_drop \/ write_message_err
           \/ ImapExpungeErr \/ mark_processed_err \/ PassDone \/ WaitOver
  BY <1>5, <1>6 DEF check_new, check_new_err, spam_drop, write_message_err,
                    ImapExpungeErr, mark_processed_err, PassDone, WaitOver
<1>7. CASE \/ idle_search \/ idle_begin \/ idle_exists \/ idle_recycle
           \/ idle_err \/ idle_not_supported \/ Crash \/ Restart
  BY <1>5, <1>7 DEF idle_search, idle_begin, idle_exists, idle_recycle,
                    idle_err, idle_not_supported, Crash, Restart
<1>8. CASE UNCHANGED vars
  BY <1>5, <1>8 DEF vars
<1> QED BY <1>1, <1>2, <1>3, <1>4, <1>6, <1>7, <1>8, <1>9 DEF Next, Loop

(* The IMAP loop implements AtLeastOnce: the server forgets a message only *)
(* after its copy is in inbox/new/, or after refusing to hand it over.     *)
THEOREM ImapImplementsPromise == Spec => ImplementsAtLeastOnce
<1>1. Init => Promise!Init
  BY DEF Init, Promise!Init, OfImap
<1>2. Init => (ImapAccount => ImapInv)
  BY ImapInit
<1>3. (ImapAccount => ImapInv) /\ [Next]_vars => (ImapAccount => ImapInv)'
  BY ImapStep, AccountFixed DEF ImapAccount, Carrier
<1>4. (ImapAccount => ImapInv) /\ [Next]_vars => [Promise!Next]_(Promise!vars)
  <2> SUFFICES ASSUME ImapAccount => ImapInv, [Next]_vars
               PROVE  [Promise!Next]_(Promise!vars)
    OBVIOUS
  <2>1. CASE ImapAccount
    BY <2>1, PromiseStep
  <2>2. CASE ~ImapAccount
    <3>1. Carrier # "imap" /\ Carrier' # "imap"
      BY <2>2, AccountFixed DEF ImapAccount, Carrier
    <3> QED BY <3>1 DEF OfImap, Promise!vars
  <2> QED BY <2>1, <2>2
<1> QED
  BY <1>1, <1>2, <1>3, <1>4, PTL DEF Spec, ImplementsAtLeastOnce, Promise!Spec

---------------------------------------------------------------------------
(* Copies.                                                                 *)

CopyInv == ImapInv /\ CopiesPaidFor

(* A step that counts a failure and stages nothing pays for one more copy  *)
(* of whatever is under way.                                               *)
LEMMA FailurePays ==
  ASSUME TypeOK, CopiesPaidFor, inbox' = inbox, arrived' = arrived,
         crashes' \in Nat, faults' \in Nat, crashes' + faults' > crashes + faults
  PROVE  CopiesPaidFor'
<1>1. crashes \in Nat /\ faults \in Nat /\ \A m \in Mail : inbox[m] \in Nat
  BY PullAssumption DEF TypeOK
<1>2. \A m \in Mail : inbox[m] <= crashes' + faults' /\ inbox[m] <= 1 + crashes' + faults'
  BY <1>1 DEF CopiesPaidFor
<1> QED BY <1>2 DEF CopiesPaidFor

(* A step that stages nothing, marks nothing, and puts no message in reach *)
(* that was not.                                                           *)
LEMMA NothingStaged ==
  ASSUME CopiesPaidFor, UNCHANGED <<arrived, inbox, crashes, faults>>, pc # "mark",
         server' \subseteq server,
         \A b \in batch' : b.raw \in Mail => b.raw \in server \/ b \in batch
  PROVE  CopiesPaidFor'
BY DEF CopiesPaidFor

LEMMA CopyStep == ASSUME ImapAccount PROVE CopyInv /\ [Next]_vars => CopiesPaidFor'
<1> SUFFICES ASSUME ImapInv, CopiesPaidFor, [Next]_vars PROVE CopiesPaidFor'
  BY DEF CopyInv
<1> USE PullAssumption
<1>c. Carrier = "imap"
  BY DEF ImapAccount
<1>t. TypeOK /\ TypeOK'
  BY StepType DEF ImapInv
<1>n. /\ crashes \in Nat /\ faults \in Nat /\ crashes' \in Nat /\ faults' \in Nat
      /\ \A m \in Mail : inbox[m] \in Nat
  BY <1>t DEF TypeOK
<1>1. CASE UNCHANGED vars
  BY <1>1 DEF vars, CopiesPaidFor
<1>2. CASE \E m \in Mail : Arrive(m)
  <2>1. PICK m \in Mail : Arrive(m) BY <1>2
  <2>2. /\ m \notin arrived /\ arrived' = arrived \cup {m} /\ server' = server \cup {m}
        /\ UNCHANGED <<inbox, crashes, faults, batch, pc, cur>>
    BY <2>1 DEF Arrive
  <2>3. inbox[m] = 0
    BY <2>2 DEF CopiesPaidFor
  <2> QED BY <1>n, <2>2, <2>3 DEF CopiesPaidFor
<1>3. CASE check_new
  <2>1. /\ batch' = {Fetched(m, {}) : m \in server} /\ pc = "fetch"
        /\ UNCHANGED <<arrived, server, inbox, crashes, faults>>
    BY <1>3, <1>c DEF check_new
  <2>2. \A b \in batch' : b.raw \in server
    BY <2>1 DEF Fetched
  <2> QED BY <2>1, <2>2, NothingStaged
<1>4. CASE write_message
  <2>1. PICK b \in batch :
          /\ cur' = b
          /\ inbox' = [m \in Mail |-> inbox[m] + IF m = b.raw THEN 1 ELSE 0]
    BY <1>4 DEF write_message
  <2>2. /\ pc = "deliver" /\ pc' = "mark"
        /\ UNCHANGED <<arrived, server, batch, crashes, faults>>
    BY <1>4 DEF write_message
  <2> SUFFICES ASSUME NEW m \in Mail
               PROVE  /\ m \notin arrived => inbox'[m] = 0
                      /\ inbox'[m] <= 1 + crashes + faults
                      /\ (m \in server \/ \E x \in batch : x.raw = m) /\ ~(b.raw = m) =>
                           inbox'[m] <= crashes + faults
    BY <2>1, <2>2 DEF CopiesPaidFor
  <2>3. CASE m = b.raw
    <3>1. m \in arrived
      BY <2>3 DEF ImapInv, FetchedNames
    <3>2. inbox[m] <= crashes + faults
      BY <2>2, <2>3 DEF CopiesPaidFor
    <3>3. inbox'[m] = inbox[m] + 1
      BY <2>1, <2>3
    <3> QED BY <1>n, <2>3, <3>1, <3>2, <3>3
  <2>4. CASE m # b.raw
    <3>1. inbox'[m] = inbox[m]
      BY <1>n, <2>1, <2>4
    <3> QED BY <2>2, <2>4, <3>1 DEF CopiesPaidFor
  <2> QED BY <2>3, <2>4
<1>5. CASE check_new_refused \/ check_new_err \/ write_message_err \/ ImapExpungeErr
             \/ mark_processed_err \/ idle_err
  <2>1. /\ inbox' = inbox /\ arrived' = arrived
        /\ crashes' = crashes /\ faults' = faults + 1
    BY <1>5 DEF check_new_refused, check_new_err, write_message_err, ImapExpungeErr,
                mark_processed_err, idle_err, Fault
  <2>2. crashes' + faults' > crashes + faults
    BY <1>n, <2>1
  <2> QED BY <1>t, <1>n, <2>1, <2>2, FailurePays
<1>6. CASE Crash
  <2>1. /\ inbox' = inbox /\ arrived' = arrived
        /\ crashes' = crashes + 1 /\ faults' = faults
    BY <1>6 DEF Crash
  <2>2. crashes' + faults' > crashes + faults
    BY <1>n, <2>1
  <2> QED BY <1>t, <1>n, <2>1, <2>2, FailurePays
<1>7. CASE ImapMarkProcessed
  <2>1. /\ pc = "mark" /\ server' = server \ (flagged \cup ImapNamed(cur.id))
        /\ batch' = batch \ {cur}
        /\ UNCHANGED <<arrived, inbox, crashes, faults>>
    BY <1>7 DEF ImapMarkProcessed, Marked
  <2>2. cur \in batch
    BY <2>1 DEF ImapInv, OnlyStagedIsMarked
  <2>3. ASSUME NEW m \in Mail, m = cur.raw
        PROVE  m \notin server' /\ \A b \in batch' : b.raw # m
    <3>1. m \in arrived /\ uid[m] = cur.id
      BY <2>2, <2>3 DEF ImapInv, FetchedNames
    <3>2. m \notin server'
      BY <2>1, <3>1 DEF ImapNamed
    <3>3. ASSUME NEW b \in batch, b.raw = m PROVE b = cur
      <4>1. b.id = cur.id /\ b.raw = cur.raw
        BY <2>3, <3>1, <3>3 DEF ImapInv, FetchedNames
      <4>2. b \in Incoming /\ cur \in Incoming
        BY <2>2, <1>t DEF TypeOK
      <4> QED BY <4>1, <4>2 DEF Incoming
    <3> QED BY <2>1, <3>2, <3>3
  <2>4. ASSUME NEW m \in Mail, m # cur.raw, m \in server' \/ \E b \in batch' : b.raw = m
        PROVE  inbox[m] <= crashes + faults
    BY <2>1, <2>4 DEF CopiesPaidFor
  <2> QED BY <2>1, <2>3, <2>4 DEF CopiesPaidFor
<1>8. CASE \/ PassDone \/ WaitOver \/ idle_search \/ idle_begin \/ idle_exists
           \/ idle_recycle \/ idle_not_supported \/ Restart
  <2>1. /\ pc # "mark" /\ UNCHANGED <<arrived, inbox, crashes, faults, server, batch>>
    BY <1>8 DEF PassDone, WaitOver, idle_search, idle_begin, idle_exists, idle_recycle,
                idle_not_supported, Restart
  <2> QED BY <2>1, NothingStaged
<1>9. ~spam_drop /\ ~Pop3MarkProcessed /\ ~check_new_starved
  BY <1>t, <1>c DEF spam_drop, IsSpam, SpamFilter, Carrier, Pop3MarkProcessed,
                    check_new_starved, TypeOK
<1> QED
  BY <1>1, <1>2, <1>3, <1>4, <1>5, <1>6, <1>7, <1>8, <1>9 DEF Next, Loop

(* On an IMAP account every copy of a message beyond the first is paid for *)
(* by a crash or a failed operation, whatever the number of messages and   *)
(* of failures: a healthy loop stages each message once.                   *)
THEOREM ImapCopiesArePaidFor == Spec => []DuplicatesAreAccounted
<1>1. Init => (ImapAccount => CopyInv)
  <2>1. Init => CopiesPaidFor
    BY PullAssumption DEF Init, CopiesPaidFor
  <2> QED BY <2>1, ImapInit DEF CopyInv
<1>2. (ImapAccount => CopyInv) /\ [Next]_vars => (ImapAccount => CopyInv)'
  <2>1. [Next]_vars => (ImapAccount' <=> ImapAccount)
    BY AccountFixed DEF ImapAccount, Carrier
  <2> QED BY <2>1, CopyStep, ImapStep DEF CopyInv
<1>3. (ImapAccount => CopyInv) => DuplicatesAreAccounted
  BY DEF CopyInv, CopiesPaidFor, DuplicatesAreAccounted, ImapAccount
<1> QED BY <1>1, <1>2, <1>3, PTL DEF Spec

---------------------------------------------------------------------------
(* POP3.                                                                   *)

Pop3Account == Carrier = "pop3"

First(f) == f \in server /\ \A n \in server : uid[f] <= uid[n]

(* What was fetched is the first message of the maildrop, still there, or  *)
(* what the reader left of it.                                             *)
FetchedIsFirst ==
  \A b \in batch :
    b.id = 1 /\ \E f \in server : First(f) /\ (b.raw = f \/ (b.raw = Blank /\ f \in blanked))

(* The message about to be deleted may go.                                 *)
MarkedMayGo ==
  pc = "mark" => /\ cur \in batch
                 /\ \A f \in server :
                      First(f) => inbox[f] > 0 \/ f \in Discardable \cup blanked

(* What makes AllKept inductive for a POP3 account as long as a pass finds *)
(* one message at most.                                                    *)
Pop3Inv ==
  TypeOK /\ UidsIdentify /\ FetchedIsFirst /\ MarkedMayGo /\ AllKept

(* Number 1 of a maildrop is its first message and no other.               *)
LEMMA FirstIsOne ==
  ASSUME TypeOK, UidsIdentify, NEW f \in server, \A n \in server : uid[f] <= uid[n]
  PROVE  Pop3Named(1) \subseteq {f}
<1> SUFFICES ASSUME NEW m \in Pop3Named(1) PROVE m = f
  OBVIOUS
<1> DEFINE S == {x \in server : uid[x] <= uid[m]}
<1>1. m \in server /\ Cardinality(S) = 1
  BY DEF Pop3Named, Number
<1>2. IsFiniteSet(S)
  <2>1. IsFiniteSet(server)
    BY FS_Subset DEF TypeOK
  <2> QED BY <2>1, FS_Subset
<1>3. f \in S /\ m \in S
  BY <1>1 DEF TypeOK
<1> HIDE DEF S
<1>4. PICK x : S = {x}
  BY <1>1, <1>2, FS_Singleton
<1> QED BY <1>3, <1>4

(* The numbers of one session tell messages apart.                        *)
LEMMA NumbersDiffer ==
  ASSUME TypeOK, UidsIdentify, NEW m \in server, NEW n \in server,
         Number(m, server) = Number(n, server)
  PROVE  m = n
<1>1. IsFiniteSet(server) /\ server \subseteq arrived
  BY FS_Subset DEF TypeOK
<1>2. ASSUME NEW x \in server, NEW y \in server, uid[x] < uid[y]
      PROVE  Number(x, server) < Number(y, server)
  <2> DEFINE S(z) == {w \in server : uid[w] <= uid[z]}
  <2>1. IsFiniteSet(S(x)) /\ IsFiniteSet(S(y))
    BY <1>1, FS_Subset
  <2>2. \A w \in server : uid[w] \in Nat
    BY DEF TypeOK
  <2>3. y \in S(y) /\ S(x) \subseteq S(y) \ {y}
    BY <1>2, <2>2
  <2>4. Number(x, server) = Cardinality(S(x)) /\ Number(y, server) = Cardinality(S(y))
    BY DEF Number
  <2> HIDE DEF S
  <2>5. /\ IsFiniteSet(S(y) \ {y})
        /\ Cardinality(S(y) \ {y}) = Cardinality(S(y)) - 1
    BY <2>1, <2>3, FS_RemoveElement
  <2>6. Cardinality(S(x)) <= Cardinality(S(y) \ {y})
    BY <2>3, <2>5, FS_Subset
  <2>7. Cardinality(S(x)) \in Nat /\ Cardinality(S(y)) \in Nat
    BY <2>1, FS_CardinalityType
  <2> QED BY <2>4, <2>5, <2>6, <2>7
<1>3. uid[m] \in Nat /\ uid[n] \in Nat
  BY DEF TypeOK
<1>4. Number(m, server) \in Nat /\ Number(n, server) \in Nat
  BY NumberIsNat
<1>5. ~(uid[m] < uid[n]) /\ ~(uid[n] < uid[m])
  BY <1>2, <1>4
<1>6. uid[m] = uid[n]
  BY <1>3, <1>5
<1> QED BY <1>1, <1>6 DEF UidsIdentify

(* A pass that finds one message finds the only one there is.              *)
LEMMA OnlyOneThere ==
  ASSUME Pop3Account, TypeOK, UidsIdentify, check_new, OneFetched'
  PROVE  FetchedIsFirst'
<1>1. PICK torn \in SUBSET server : /\ batch' = {Fetched(m, torn) : m \in server}
                                    /\ blanked' = blanked \cup torn
  BY DEF check_new, Pop3Account
<1>2. UNCHANGED <<server, uid>>
  BY DEF check_new
<1>3. \A m \in server : /\ Fetched(m, torn).raw = IF m \in torn THEN Blank ELSE m
                        /\ Fetched(m, torn).id = Number(m, server)
  BY DEF Fetched, Pop3Account
<1>4. \A m, n \in server : m = n
  <2> SUFFICES ASSUME NEW m \in server, NEW n \in server PROVE m = n
    OBVIOUS
  <2>1. Fetched(m, torn) = Fetched(n, torn)
    BY <1>1 DEF OneFetched
  <2> QED BY <1>3, <2>1, NumbersDiffer
<1>5. ASSUME NEW m \in server PROVE Number(m, server) = 1
  <2>1. uid[m] <= uid[m]
    BY DEF TypeOK
  <2>2. {x \in server : uid[x] <= uid[m]} = {m}
    BY <1>4, <2>1
  <2> QED BY <2>2, FS_Singleton DEF Number
<1>6. \A m \in server : First(m)'
  BY <1>2, <1>4 DEF First, TypeOK
<1> SUFFICES ASSUME NEW b \in batch'
             PROVE  /\ b.id = 1
                    /\ \E f \in server' : /\ First(f)'
                                          /\ b.raw = f \/ (b.raw = Blank /\ f \in blanked')
  BY DEF FetchedIsFirst
<1>7. PICK m \in server : b = Fetched(m, torn)
  BY <1>1
<1> QED BY <1>1, <1>2, <1>3, <1>5, <1>6, <1>7

(* Each step keeps it.                                                     *)
LEMMA Pop3Step ==
  ASSUME Pop3Account, Pop3Inv, OneFetched, OneFetched', [Next]_vars
  PROVE  Pop3Inv'
<1> USE PullAssumption
<1>t. TypeOK /\ TypeOK'
  BY StepType DEF Pop3Inv
<1>c. account' = account /\ Carrier = "pop3" /\ Discardable' = Discardable
  BY AccountFixed DEF Pop3Account, Discardable, SpamFilter
<1> DEFINE Rest == UidsIdentify /\ FetchedIsFirst /\ MarkedMayGo /\ AllKept
<1>r. Rest
  BY DEF Pop3Inv
<1> SUFFICES Rest'
  BY <1>t DEF Pop3Inv
<1>0. ASSUME UNCHANGED <<arrived, server, uid, inbox, blanked>>, batch' \subseteq batch,
             pc' # "mark"
      PROVE  Rest'
  BY <1>0, <1>r, <1>c DEF UidsIdentify, FetchedIsFirst, First, MarkedMayGo, AllKept, Kept
<1>1. ASSUME NEW m \in Mail, Arrive(m)
      PROVE  Rest'
  <2>1. /\ UidsIdentify' /\ Cardinality(arrived) \in Nat
        /\ uid'[m] = Cardinality(arrived) + 1
        /\ \A n \in arrived : n # m /\ uid'[n] = uid[n]
    BY <1>1, <1>t, <1>r, ArriveUids
  <2>2. UNCHANGED <<batch, cur, pc, inbox, blanked>> /\ server' = server \cup {m}
        /\ arrived' = arrived \cup {m} /\ server \subseteq arrived
    BY <1>1, <1>t DEF Arrive, TypeOK
  <2>3. ASSUME NEW f \in server PROVE First(f)' <=> First(f)
    <3>1. uid[f] \in 1 .. Cardinality(arrived) /\ uid'[f] = uid[f]
      BY <1>r, <2>1, <2>2 DEF UidsIdentify
    <3>2. uid'[f] <= uid'[m]
      BY <2>1, <3>1
    <3>3. \A n \in server : uid'[n] = uid[n]
      BY <2>1, <2>2
    <3> QED BY <2>2, <3>1, <3>2, <3>3 DEF First
  <2>4. FetchedIsFirst'
    BY <1>r, <2>2, <2>3 DEF FetchedIsFirst
  <2>5. MarkedMayGo'
    <3> SUFFICES ASSUME pc = "mark"
                 PROVE  /\ cur \in batch
                        /\ \A f \in server' :
                             First(f)' => inbox[f] > 0 \/ f \in Discardable \cup blanked
      BY <2>2, <1>c DEF MarkedMayGo
    <3>1. cur \in batch
      BY <1>r DEF MarkedMayGo
    <3>2. PICK f \in server : First(f)
      BY <1>r, <3>1 DEF FetchedIsFirst
    <3>3. ~First(m)'
      <4>1. uid'[f] < uid'[m]
        BY <1>r, <2>1, <2>2, <3>2 DEF UidsIdentify
      <4>2. f \in server'
        BY <2>2
      <4>3. uid'[f] \in Nat /\ uid'[m] \in Nat
        BY <1>t, <1>1 DEF TypeOK
      <4> QED BY <4>1, <4>2, <4>3 DEF First
    <3> QED BY <1>r, <2>2, <2>3, <3>1, <3>3 DEF MarkedMayGo
  <2>6. AllKept'
    BY <2>2, <1>r, <1>c DEF AllKept, Kept
  <2> QED BY <2>1, <2>4, <2>5, <2>6
<1>2. CASE check_new
  <2>1. FetchedIsFirst'
    BY <1>2, <1>t, <1>r, OnlyOneThere
  <2>2. /\ UNCHANGED <<arrived, server, uid, inbox>> /\ blanked \subseteq blanked'
        /\ pc' = "deliver"
    BY <1>2 DEF check_new
  <2> QED BY <2>1, <2>2, <1>r, <1>c DEF UidsIdentify, MarkedMayGo, AllKept, Kept
<1>3. CASE spam_drop
  <2>1. PICK b \in batch : IsSpam(b) /\ cur' = b
    BY <1>3 DEF spam_drop
  <2>2. UNCHANGED <<arrived, server, uid, inbox, batch, blanked>>
    BY <1>3 DEF spam_drop
  <2>3. b.raw \in Discardable /\ b.raw # Blank
    BY <2>1 DEF IsSpam, Discardable
  <2>4. ASSUME NEW f \in server, First(f) PROVE f \in Discardable
    BY <2>1, <2>3, <2>4, <1>r, <1>t DEF FetchedIsFirst, First, UidsIdentify, TypeOK
  <2>5. MarkedMayGo'
    BY <2>1, <2>2, <2>4, <1>c DEF MarkedMayGo, First
  <2> QED BY <2>2, <2>5, <1>r, <1>c DEF UidsIdentify, FetchedIsFirst, First, AllKept, Kept
<1>4. CASE write_message
  <2>1. PICK b \in batch :
          /\ cur' = b
          /\ inbox' = [m \in Mail |-> inbox[m] + IF m = b.raw THEN 1 ELSE 0]
    BY <1>4 DEF write_message
  <2>2. UNCHANGED <<arrived, server, uid, batch, blanked>>
    BY <1>4 DEF write_message
  <2>3. /\ \A m \in Mail : m = b.raw => inbox'[m] > 0
        /\ \A m \in Mail : inbox[m] > 0 => inbox'[m] > 0
    BY <2>1, <1>t DEF TypeOK
  <2>4. ASSUME NEW f \in server, First(f) PROVE inbox'[f] > 0 \/ f \in blanked
    <3>1. PICK g \in server : First(g) /\ (b.raw = g \/ (b.raw = Blank /\ g \in blanked))
      BY <1>r DEF FetchedIsFirst
    <3>2. f = g
      BY <2>4, <3>1, <1>r, <1>t DEF First, UidsIdentify, TypeOK
    <3>3. f \in Mail
      BY <1>t DEF TypeOK
    <3> QED BY <2>3, <3>1, <3>2, <3>3
  <2>5. MarkedMayGo'
    BY <2>1, <2>2, <2>4, <1>c DEF MarkedMayGo, First
  <2>6. AllKept'
    BY <2>2, <2>3, <1>r, <1>t, <1>c DEF AllKept, Kept, TypeOK
  <2> QED BY <2>2, <2>5, <2>6, <1>r DEF UidsIdentify, FetchedIsFirst, First
<1>5. CASE Pop3MarkProcessed
  <2>1. /\ server' = server \ Pop3Named(cur.id) /\ batch' = batch \ {cur}
        /\ pc = "mark" /\ pc' = "deliver" /\ UNCHANGED <<arrived, uid, inbox, blanked>>
    BY <1>5 DEF Pop3MarkProcessed, Marked
  <2>2. cur \in batch
    BY <2>1, <1>r DEF MarkedMayGo
  <2>3. batch' = {}
    BY <2>1, <2>2 DEF OneFetched
  <2>4. PICK f \in server : First(f)
    BY <2>2, <1>r DEF FetchedIsFirst
  <2>5. Pop3Named(cur.id) \subseteq {f}
    BY <2>2, <2>4, <1>t, <1>r, FirstIsOne DEF FetchedIsFirst, First
  <2>6. inbox[f] > 0 \/ f \in Discardable \cup blanked
    BY <2>1, <2>4, <1>r DEF MarkedMayGo
  <2>7. AllKept'
    BY <2>1, <2>5, <2>6, <1>r, <1>c DEF AllKept, Kept
  <2> QED BY <2>1, <2>3, <2>7, <1>r DEF UidsIdentify, FetchedIsFirst, MarkedMayGo
<1>6. CASE \/ check_new_starved \/ check_new_err \/ write_message_err
           \/ mark_processed_err \/ PassDone \/ WaitOver
  <2>1. ASSUME write_message_err PROVE pc' # "mark" /\ batch' \subseteq batch
    BY <2>1 DEF write_message_err
  <2> QED BY <1>0, <1>6, <2>1
          DEF check_new_starved, check_new_err, write_message_err, mark_processed_err,
              Marked, PassDone, WaitOver
<1>7. CASE idle_search \/ idle_begin \/ idle_exists \/ idle_recycle \/ idle_err
  BY <1>0, <1>7 DEF idle_search, idle_begin, idle_exists, idle_recycle, idle_err
<1>8. CASE idle_not_supported \/ Crash \/ Restart
  BY <1>0, <1>8 DEF idle_not_supported, Crash, Restart
<1>9. CASE UNCHANGED vars
  BY <1>9, <1>r, <1>c DEF vars, UidsIdentify, FetchedIsFirst, First, MarkedMayGo, AllKept, Kept
<1>10. ~check_new_refused /\ ~ImapMarkProcessed /\ ~ImapExpungeErr
  BY <1>c DEF check_new_refused, ImapMarkProcessed, ImapExpungeErr
<1> QED BY <1>1, <1>2, <1>3, <1>4, <1>5, <1>6, <1>7, <1>8, <1>9, <1>10 DEF Next, Loop

(* A POP3 account loses nothing but what its own reader swallowed or its   *)
(* filter dropped, as long as a pass finds one message at most, whatever   *)
(* arrives between the fetch and the deletion and whatever fails or        *)
(* crashes (check_new and mark_processed of the POP3 carrier).             *)
THEOREM Pop3KeepsSingleMail == Spec => SingleMailIsKept
<1>1. Init => Pop3Inv
  <2> SUFFICES ASSUME Init PROVE Pop3Inv
    OBVIOUS
  <2>1. TypeOK
    BY InitType
  <2> QED BY <2>1 DEF Init, Pop3Inv, UidsIdentify, FetchedIsFirst, MarkedMayGo, AllKept
<1>2. (Carrier = "pop3") /\ [Next]_vars => (Carrier = "pop3")'
  BY AccountFixed DEF Carrier
<1>3. (Carrier = "pop3") /\ Pop3Inv /\ OneFetched /\ OneFetched' /\ [Next]_vars => Pop3Inv'
  BY Pop3Step DEF Pop3Account
<1>4. Pop3Inv => AllKept
  BY DEF Pop3Inv
<1> QED BY <1>1, <1>2, <1>3, <1>4, PTL DEF Spec, SingleMailIsKept
=============================================================================
