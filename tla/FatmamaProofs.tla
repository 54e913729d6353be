--------------------------- MODULE FatmamaProofs ---------------------------
(***************************************************************************)
(* Proofs about Fatmama, for any sites, addresses, mail, collectors and    *)
(* POP3 connections, and whichever addresses share a mailbox directory:    *)
(* the state is well formed, promised routes stay and no mail disappears.  *)
(***************************************************************************)
EXTENDS Fatmama, TLAPS

(* What a collector has listed and not yet looked at is still there, and   *)
(* what it is delivering is not listed any more.                           *)
PassInv ==
  \A c \in Collectors :
    /\ \A m \in pass[c] : m \in queue /\ From[m] = c
    /\ dial[c] # None => dial[c].mail \notin pass[c]

TypeInv == TypeOK /\ PassInv

LEMMA TypeInit == Init => TypeInv
<1> SUFFICES ASSUME Init PROVE TypeInv
  OBVIOUS
<1>1. TypeOK
  BY FatmamaAssumption DEF Init, TypeOK
<1>2. PassInv
  BY DEF Init, PassInv
<1> QED BY <1>1, <1>2 DEF TypeInv

(* Writing a table out leaves a table and a file.                          *)
LEMMA TypePersist ==
  ASSUME TypeOK, NEW s \in Sites, NEW table \in SUBSET Addrs, persist_routes(s, table)
  PROVE  /\ routes' \in [Sites -> SUBSET Addrs] /\ file' \in [Sites -> SUBSET Addrs]
         /\ newer' \in [Sites -> BOOLEAN]
BY DEF TypeOK, persist_routes

(* A fault is counted, and a failed write remembered.                      *)
LEMMA TypeFault ==
  ASSUME TypeOK,
         \/ Fault \/ NoFault
         \/ \E s \in Sites : \E as \in SUBSET Addrs : WriteFault(s, as)
  PROVE  faults' \in 0..MaxFaults /\ unkept' \in [Sites -> SUBSET Addrs]
<1>1. MaxFaults \in Nat /\ faults \in 0..MaxFaults /\ unkept \in [Sites -> SUBSET Addrs]
  BY FatmamaAssumption DEF TypeOK
<1>2. faults' = faults \/ (faults < MaxFaults /\ faults' = faults + 1)
  BY DEF Fault, NoFault, WriteFault, OneMoreFault
<1>3. \/ unkept' = unkept
      \/ \E s \in Sites : \E as \in SUBSET Addrs : unkept' = [unkept EXCEPT ![s] = @ \cup as]
  BY DEF Fault, NoFault, WriteFault
<1>4. faults' \in 0..MaxFaults
  BY <1>1, <1>2
<1> QED BY <1>1, <1>3, <1>4

(* So does a table that could not be written out.                          *)
LEMMA TypePersistErr ==
  ASSUME TypeOK, NEW s \in Sites, NEW table \in SUBSET Addrs, persist_routes_err(s, table)
  PROVE  /\ routes' \in [Sites -> SUBSET Addrs] /\ file' \in [Sites -> SUBSET Addrs]
         /\ newer' \in [Sites -> BOOLEAN]
         /\ faults' \in 0..MaxFaults /\ unkept' \in [Sites -> SUBSET Addrs]
<1>1. (table \ routes[s]) \cup (routes[s] \ table) \in SUBSET Addrs
  BY DEF TypeOK
<1>2. faults' \in 0..MaxFaults /\ unkept' \in [Sites -> SUBSET Addrs]
  BY <1>1, TypeFault DEF persist_routes_err
<1> QED BY <1>2 DEF TypeOK, persist_routes_err

(* The old table or the file replaces the table.                           *)
LEMMA TypeRoutesOnly ==
  ASSUME TypeInv, NEW s \in Sites, Open(s) \/ Restart(s)
  PROVE  TypeInv'
<1> USE DEF TypeInv, TypeOK, PassInv, routeVars, boxVars, queueVars, bounds
<1>1. CASE Open(s)
  BY <1>1 DEF Open, maybe_reload_routes, Reloaded
<1>2. CASE Restart(s)
  BY <1>2 DEF Restart
<1> QED BY <1>1, <1>2

(* An address is added to the table or to the file.                        *)
LEMMA TypeRoutes ==
  ASSUME TypeInv, NEW s \in Sites, NEW a \in Managed,
         Register(s, a) \/ RegisterErr(s, a) \/ EditFile(s, a)
  PROVE  TypeInv'
<1> USE FatmamaAssumption
    DEF TypeInv, TypeOK, PassInv, routeVars, boxVars, queueVars, bounds
<1>0. routes[s] \cup {a} \in SUBSET Addrs
  OBVIOUS
<1>r. ASSUME register_route(s, a)
      PROVE  /\ routes' \in [Sites -> SUBSET Addrs] /\ file' \in [Sites -> SUBSET Addrs]
             /\ newer' \in [Sites -> BOOLEAN]
  <2>1. CASE a \in routes[s]
    BY <1>r, <2>1 DEF register_route
  <2>2. CASE a \notin routes[s]
    BY <1>0, <1>r, <2>2, TypePersist DEF register_route
  <2> QED BY <2>1, <2>2
<1>1. CASE Register(s, a)
  <2>1. /\ routes' \in [Sites -> SUBSET Addrs] /\ file' \in [Sites -> SUBSET Addrs]
        /\ newer' \in [Sites -> BOOLEAN]
    BY <1>1, <1>r DEF Register
  <2>2. marker' \in [Sites -> SUBSET Boxes]
    BY <1>1 DEF Register, mark_registered
  <2>3. registered' \in [Sites -> SUBSET Managed]
    BY <1>1 DEF Register
  <2> QED BY <1>1, <2>1, <2>2, <2>3 DEF Register
<1>2. CASE EditFile(s, a)
  BY <1>2 DEF EditFile
<1>3. CASE RegisterErr(s, a)
  <2>1. CASE persist_routes_err(s, routes[s] \cup {a}) /\ UNCHANGED <<marker, registered>>
    <3>1. /\ routes' \in [Sites -> SUBSET Addrs] /\ file' \in [Sites -> SUBSET Addrs]
          /\ newer' \in [Sites -> BOOLEAN]
          /\ faults' \in 0..MaxFaults /\ unkept' \in [Sites -> SUBSET Addrs]
      BY <1>0, <2>1, TypePersistErr
    <3> QED BY <1>3, <2>1, <3>1 DEF RegisterErr
  <2>2. CASE /\ register_route(s, a) /\ mark_registered_err(s, a)
             /\ registered' = [registered EXCEPT ![s] = @ \cup {a}]
    <3>1. {a} \in SUBSET Addrs
      OBVIOUS
    <3>2. faults' \in 0..MaxFaults /\ unkept' \in [Sites -> SUBSET Addrs]
      BY <2>2, <3>1, TypeFault DEF mark_registered_err
    <3>3. marker' = marker /\ registered' \in [Sites -> SUBSET Managed]
      BY <2>2 DEF mark_registered_err
    <3> QED BY <1>3, <1>r, <2>2, <3>2, <3>3 DEF RegisterErr
  <2> QED BY <1>3, <2>1, <2>2 DEF RegisterErr
<1> QED BY <1>1, <1>2, <1>3

(* Deleting routes and mailboxes leaves tables, markers and files.         *)
LEMMA TypeDelete ==
  ASSUME TypeInv, NEW s \in Sites, NEW as, NEW with_maildir, NEW fs \in SUBSET files[s],
         delete_routes(s, as, with_maildir, fs)
  PROVE  /\ routes' \in [Sites -> SUBSET Addrs] /\ file' \in [Sites -> SUBSET Addrs]
         /\ newer' \in [Sites -> BOOLEAN] /\ marker' \in [Sites -> SUBSET Boxes]
         /\ faults' \in 0..MaxFaults /\ unkept' \in [Sites -> SUBSET Addrs]
         /\ files' \in [Sites -> SUBSET File]
         /\ files'[s] \subseteq files[s]
<1> USE DEF TypeInv, TypeOK
<1>1. /\ routes' \in [Sites -> SUBSET Addrs] /\ file' \in [Sites -> SUBSET Addrs]
      /\ newer' \in [Sites -> BOOLEAN]
      /\ faults' \in 0..MaxFaults /\ unkept' \in [Sites -> SUBSET Addrs]
  <2> DEFINE table == routes[s] \ Deletable(s, as)
  <2>0. TypeOK /\ table \in SUBSET Addrs
    OBVIOUS
  <2> HIDE DEF table
  <2>1. CASE UNCHANGED <<routes, file, newer>> /\ NoFault
    BY <2>1, TypeFault
  <2>2. CASE persist_routes(s, table) /\ NoFault
    BY <2>0, <2>2, TypePersist, TypeFault
  <2>3. CASE persist_routes_err(s, table)
    <3> HIDE DEF TypeInv, TypeOK
    <3> QED BY <2>0, <2>3, TypePersistErr
  <2> QED BY <2>1, <2>2, <2>3 DEF delete_routes, table
<1>2. marker' \in [Sites -> SUBSET Boxes]
  BY DEF delete_routes, remove_mailboxes
<1>3. PICK kept \in SUBSET fs : files' = [files EXCEPT ![s] = kept]
  BY DEF delete_routes, remove_mailboxes, Outside
<1>4. files' \in [Sites -> SUBSET File] /\ files'[s] \subseteq files[s]
  BY <1>3
<1> QED BY <1>1, <1>2, <1>4

(* Administration and the POP3 commands keep the state well formed.        *)
LEMMA TypeClients ==
  ASSUME TypeInv,
         \/ \E s \in Sites, as \in SUBSET Addrs, w \in BOOLEAN : AdminDelete(s, as, w)
         \/ \E r \in Readers, s \in Sites, a \in Managed : User(r, s, a)
         \/ \E r \in Readers : Rset(r) \/ Quit(r) \/ PopLost(r)
         \/ \E r \in Readers, s \in Sites : \E f \in files[s] : RetrDele(r, f)
  PROVE  TypeInv'
<1> USE FatmamaAssumption DEF TypeInv, routeVars, boxVars, queueVars, bounds
<1>1. ASSUME NEW s \in Sites, NEW as \in SUBSET Addrs, NEW w \in BOOLEAN,
             AdminDelete(s, as, w)
      PROVE  TypeInv'
  <2>1. /\ routes' \in [Sites -> SUBSET Addrs] /\ file' \in [Sites -> SUBSET Addrs]
        /\ newer' \in [Sites -> BOOLEAN] /\ marker' \in [Sites -> SUBSET Boxes]
        /\ faults' \in 0..MaxFaults /\ unkept' \in [Sites -> SUBSET Addrs]
        /\ files' \in [Sites -> SUBSET File]
    BY <1>1, TypeDelete DEF AdminDelete
  <2>2. wiped' \subseteq Mail
    <3>1. \A f \in files[s] : f.mail \in Mail
      BY DEF TypeOK, File
    <3>2. WholeMail(files[s] \ files'[s]) \subseteq Mail
      BY <3>1 DEF WholeMail
    <3>3. wiped' = wiped \cup WholeMail(files[s] \ files'[s]) /\ wiped \subseteq Mail
      BY <1>1 DEF AdminDelete, TypeOK
    <3> QED BY <3>2, <3>3
  <2>3. registered' \in [Sites -> SUBSET Managed]
    BY <1>1 DEF AdminDelete, TypeOK
  <2>4. ops' \in 0..MaxOps
    BY <1>1 DEF AdminDelete, TypeOK
  <2>6. TypeOK'
    BY <1>1, <2>1, <2>2, <2>3, <2>4 DEF AdminDelete, TypeOK
  <2> QED BY <1>1, <2>6 DEF AdminDelete, PassInv
<1>2. ASSUME NEW r \in Readers, NEW s \in Sites, NEW a \in Managed, User(r, s, a)
      PROVE  TypeInv'
  <2>1. pop' \in [Readers -> Session \cup {None}]
    BY <1>2 DEF User, TypeOK, Session
  <2> QED BY <1>2, <2>1 DEF User, TypeOK, PassInv
<1>3. ASSUME NEW r \in Readers, Rset(r) PROVE TypeInv'
  <2>1. pop' \in [Readers -> Session \cup {None}]
    <3>1. pop[r] \in Session
      BY <1>3 DEF Rset, TypeOK
    <3>2. [pop[r] EXCEPT !.deleted = {}] \in Session
      BY <3>1 DEF Session
    <3> QED BY <1>3, <3>2 DEF Rset, TypeOK
  <2> QED BY <1>3, <2>1 DEF Rset, TypeOK, PassInv
<1>4. ASSUME NEW r \in Readers, PopLost(r) PROVE TypeInv'
  BY <1>4 DEF PopLost, TypeOK, PassInv
<1>5. ASSUME NEW r \in Readers, Quit(r) PROVE TypeInv'
  <2> DEFINE p == pop[r]
             left == files[p.site] \ p.deleted
  <2>1. p.site \in Sites /\ pop' \in [Readers -> Session \cup {None}]
    BY <1>5 DEF Quit, TypeOK, Session
  <2>2. CASE p.deleted # {} /\ Reclaimable(p.site, p.user, left)
    <3>1. delete_routes(p.site, {p.user}, TRUE, left)
      BY <1>5, <2>2 DEF Quit
    <3>2. /\ routes' \in [Sites -> SUBSET Addrs] /\ file' \in [Sites -> SUBSET Addrs]
          /\ newer' \in [Sites -> BOOLEAN] /\ marker' \in [Sites -> SUBSET Boxes]
          /\ faults' \in 0..MaxFaults /\ unkept' \in [Sites -> SUBSET Addrs]
          /\ files' \in [Sites -> SUBSET File]
      <4>1. left \in SUBSET files[p.site]
        OBVIOUS
      <4> QED BY <2>1, <3>1, <4>1, TypeDelete
    <3> QED BY <1>5, <2>1, <3>2 DEF Quit, TypeOK, PassInv
  <2>3. CASE ~(p.deleted # {} /\ Reclaimable(p.site, p.user, left))
    <3>1. /\ files' = [files EXCEPT ![p.site] = left]
          /\ UNCHANGED <<routes, file, newer, marker, faults, unkept>>
      BY <1>5, <2>3 DEF Quit, NoFault
    <3>2. files' \in [Sites -> SUBSET File]
      BY <2>1, <3>1 DEF TypeOK
    <3> QED BY <1>5, <2>1, <3>1, <3>2 DEF Quit, TypeOK, PassInv
  <2> QED BY <2>2, <2>3
<1>6. ASSUME NEW r \in Readers, NEW s \in Sites, NEW f \in files[s], RetrDele(r, f)
      PROVE  TypeInv'
  <2>1. f \in File
    BY DEF TypeOK
  <2>2. pop' \in [Readers -> Session \cup {None}]
    <3>1. pop[r] \in Session
      BY <1>6 DEF RetrDele, TypeOK
    <3>2. [pop[r] EXCEPT !.deleted = pop[r].deleted \cup {f}] \in Session
      BY <2>1, <3>1 DEF Session
    <3> QED BY <1>6, <3>2 DEF RetrDele, TypeOK
  <2>3. fetched' \subseteq Mail \X Addrs
    <3>1. pop[r].user \in Addrs /\ f.mail \in Mail
      BY <1>6, <2>1 DEF RetrDele, TypeOK, Session, File
    <3> QED BY <1>6, <3>1 DEF RetrDele, TypeOK
  <2> QED BY <1>6, <2>2, <2>3 DEF RetrDele, TypeOK, PassInv
<1> QED BY <1>1, <1>2, <1>3, <1>4, <1>5, <1>6

(* A message put into a mailbox is a file.                                 *)
LEMMA TypeDeliver ==
  ASSUME TypeOK, NEW s, NEW m \in Mail, NEW whole \in BOOLEAN,
         deliver_to_maildir(s, m, whole)
  PROVE  files' \in [Sites -> SUBSET File] /\ copies' \in [Mail -> Nat]
<1> DEFINE new == [box |-> BoxOf[To[m]], mail |-> m, copy |-> copies[m] + 1, whole |-> whole]
<1>1. new \in File
  BY FatmamaAssumption DEF TypeOK, File
<1>2. files' = [files EXCEPT ![s] = files[s] \cup {new}]
  BY DEF deliver_to_maildir
<1> HIDE DEF new
<1>3. files' \in [Sites -> SUBSET File]
  BY <1>1, <1>2 DEF TypeOK
<1>4. copies' \in [Mail -> Nat]
  BY DEF TypeOK, deliver_to_maildir
<1> QED BY <1>3, <1>4

(* So is what auto_create leaves, at any host.                             *)
LEMMA TypeAutoCreate ==
  ASSUME TypeOK, NEW s, NEW m \in Mail, auto_create(s, To[m])
  PROVE  /\ routes' \in [Sites -> SUBSET Addrs] /\ file' \in [Sites -> SUBSET Addrs]
         /\ newer' \in [Sites -> BOOLEAN] /\ marker' \in [Sites -> SUBSET Boxes]
<1>1. To[m] \in Addrs /\ BoxOf[To[m]] \in Boxes
  BY FatmamaAssumption
<1>2. CASE Creates(s, To[m])
  <2>1. s \in Sites /\ routes[s] \cup {To[m]} \in SUBSET Addrs
    BY <1>1, <1>2, FatmamaAssumption DEF Creates, TypeOK
  <2>2. marker' \in [Sites -> SUBSET Boxes]
    BY <1>1, <1>2 DEF auto_create, TypeOK
  <2> QED BY <1>2, <2>1, <2>2, TypePersist DEF auto_create
<1>3. CASE ~Creates(s, To[m])
  BY <1>3 DEF auto_create, TypeOK
<1> QED BY <1>2, <1>3

(* The collectors' own steps keep the state well formed.                   *)
LEMMA TypeCollect ==
  ASSUME TypeInv, NEW c \in Collectors,
         \/ StartPass(c)
         \/ \E m \in pass[c] : CollectLocal(c, m) \/ CollectLater(c, m) \/ CollectRemote(c, m)
  PROVE  TypeInv'
<1> USE FatmamaAssumption DEF TypeInv, routeVars, boxVars, queueVars, bounds
<1>1. c \in Sites \X {"outbox", "pickup"}
  BY DEF Collectors
<1>2. CASE StartPass(c)
  <2>1. routes' \in [Sites -> SUBSET Addrs] /\ newer' \in [Sites -> BOOLEAN]
    BY <1>1, <1>2 DEF StartPass, maybe_reload_routes, Reloaded, TypeOK
  <2>2. pass' \in [Collectors -> SUBSET Mail]
    BY <1>2 DEF StartPass, TypeOK
  <2>3. PassInv'
    BY <1>2 DEF StartPass, Idle, PassInv, TypeOK
  <2> QED BY <1>2, <2>1, <2>2, <2>3 DEF StartPass, TypeOK
<1>3. ASSUME NEW m \in pass[c], CollectLocal(c, m)
      PROVE  TypeInv'
  <2>1. m \in Mail /\ m \in queue /\ From[m] = c /\ dial[c] = None
    BY <1>3 DEF CollectLocal, Idle, PassInv, TypeOK
  <2>2. files' \in [Sites -> SUBSET File] /\ copies' \in [Mail -> Nat]
    BY <1>3, <2>1, TypeDeliver DEF CollectLocal, TypeOK
  <2>3. /\ pass' = [pass EXCEPT ![c] = pass[c] \ {m}] /\ dial' = dial
        /\ queue' = queue \ {m} \/ queue' = queue
    BY <1>3 DEF CollectLocal
  <2>4. faults' \in 0..MaxFaults /\ unkept' \in [Sites -> SUBSET Addrs]
    BY <1>3, TypeFault DEF CollectLocal
  <2>5. pass' \in [Collectors -> SUBSET Mail] /\ PassInv'
    BY <2>1, <2>3 DEF PassInv, TypeOK
  <2>6. \A d \in Collectors :
          dial'[d] # None => From[dial'[d].mail] = d /\ dial'[d].mail \in queue'
    BY <2>1, <2>3 DEF TypeOK
  <2> QED BY <1>3, <2>2, <2>3, <2>4, <2>5, <2>6 DEF CollectLocal, TypeOK
<1>4. ASSUME NEW m \in pass[c], CollectLater(c, m)
      PROVE  TypeInv'
  BY <1>4 DEF CollectLater, TypeOK, PassInv
<1>5. ASSUME NEW m \in pass[c], CollectRemote(c, m)
      PROVE  TypeInv'
  <2>1. m \in Mail /\ m \in queue /\ From[m] = c /\ Host[m] # NoHost
    BY <1>5 DEF CollectRemote, IsLocal, PassInv, TypeOK
  <2>2. recent' \subseteq Dialled
    <3>1. <<c[1], Host[m]>> \in Dialled
      BY <2>1 DEF Dialled
    <3> QED BY <1>5, <3>1 DEF CollectRemote, TypeOK
  <2>3. dial' = [dial EXCEPT ![c] = [mail |-> m, at |-> "connect"]]
        /\ pass' = [pass EXCEPT ![c] = pass[c] \ {m}] /\ queue' = queue
    BY <1>5 DEF CollectRemote
  <2>4. [mail |-> m, at |-> "connect"] \in Dial
    BY <2>1 DEF Dial, Stages
  <2>5. /\ dial' \in [Collectors -> Dial \cup {None}]
        /\ pass' \in [Collectors -> SUBSET Mail]
    BY <2>3, <2>4 DEF TypeOK
  <2>6. PassInv'
    BY <2>1, <2>3 DEF PassInv, TypeOK
  <2>7. \A d \in Collectors :
          dial'[d] # None => From[dial'[d].mail] = d /\ dial'[d].mail \in queue'
    BY <2>1, <2>3 DEF TypeOK
  <2> QED BY <1>5, <2>2, <2>5, <2>6, <2>7 DEF CollectRemote, TypeOK
<1> QED BY <1>2, <1>3, <1>4, <1>5

(* A dial that ends, or goes on with the same mail, stays well formed.     *)
LEMMA TypeDial ==
  ASSUME TypeInv, NEW c \in Collectors, dial[c] # None,
         HangUp(c) \/ (\E stage \in Stages : DialGoes(c, stage)),
         UNCHANGED <<queue, pass>>
  PROVE  /\ dial' \in [Collectors -> Dial \cup {None}]
         /\ \A d \in Collectors :
              dial'[d] # None => From[dial'[d].mail] = d /\ dial'[d].mail \in queue'
         /\ PassInv'
<1> USE DEF TypeInv, TypeOK, PassInv
<1>1. CASE HangUp(c)
  BY <1>1 DEF HangUp
<1>2. ASSUME NEW stage \in Stages, DialGoes(c, stage)
      PROVE  /\ dial' \in [Collectors -> Dial \cup {None}]
             /\ \A d \in Collectors :
                  dial'[d] # None => From[dial'[d].mail] = d /\ dial'[d].mail \in queue'
             /\ PassInv'
  <2>1. [dial[c] EXCEPT !.at = stage] \in Dial
        /\ [dial[c] EXCEPT !.at = stage].mail = dial[c].mail
    BY DEF Dial
  <2>2. dial' = [dial EXCEPT ![c] = [dial[c] EXCEPT !.at = stage]]
    BY <1>2 DEF DialGoes
  <2>3. \A d \in Collectors : dial'[d] # None => dial[d] # None /\ dial'[d].mail = dial[d].mail
    BY <2>1, <2>2
  <2> QED BY <2>1, <2>2, <2>3
<1> QED BY <1>1, <1>2

(* The steps of a cross-site delivery keep the state well formed.          *)
LEMMA TypeRelay ==
  ASSUME TypeInv, NEW c \in Collectors,
         \/ Connect(c) \/ Rcpt(c) \/ Data(c) \/ Ack(c)
         \/ DataErr(c) \/ DataCut(c) \/ DialFails(c)
  PROVE  TypeInv'
<1> USE FatmamaAssumption DEF TypeInv, routeVars, boxVars, queueVars, bounds
<1>1. dial[c] # None /\ dial[c].mail \in Mail
  <2>1. dial[c] # None
    BY DEF Connect, Rcpt, Data, Ack, DataErr, DataCut, DialFails, At
  <2>2. dial[c] \in Dial
    BY <2>1 DEF TypeOK
  <2> QED BY <2>1, <2>2 DEF Dial
<1> DEFINE m == dial[c].mail
           s == Host[m]
<1>2. CASE Connect(c)
  <2>1. HangUp(c) \/ DialGoes(c, "rcpt")
    BY <1>2 DEF Connect
  <2>2. UNCHANGED <<queue, pass>>
    BY <1>2 DEF Connect
  <2>3. routes' \in [Sites -> SUBSET Addrs] /\ newer' \in [Sites -> BOOLEAN]
    <3>1. CASE s \in Sites /\ maybe_reload_routes(s)
      BY <3>1 DEF maybe_reload_routes, Reloaded, TypeOK
    <3>2. CASE UNCHANGED <<routes, newer>>
      BY <3>2 DEF TypeOK
    <3> QED BY <1>2, <3>1, <3>2 DEF Connect
  <2>4. "rcpt" \in Stages
    BY DEF Stages
  <2> QED BY <1>1, <1>2, <2>1, <2>2, <2>3, <2>4, TypeDial DEF Connect, TypeOK
<1>3. CASE Rcpt(c)
  <2>1. HangUp(c) \/ DialGoes(c, "data")
    BY <1>3 DEF Rcpt
  <2>2. UNCHANGED <<queue, pass>> /\ "data" \in Stages
    BY <1>3 DEF Rcpt, Stages
  <2> QED BY <1>1, <1>3, <2>1, <2>2, TypeDial DEF Rcpt, TypeOK
<1>4. CASE Data(c)
  <2>1. /\ routes' \in [Sites -> SUBSET Addrs] /\ file' \in [Sites -> SUBSET Addrs]
        /\ newer' \in [Sites -> BOOLEAN] /\ marker' \in [Sites -> SUBSET Boxes]
    BY <1>1, <1>4, TypeAutoCreate DEF Data
  <2>2. deliver_to_maildir(s, m, TRUE) \/ UNCHANGED <<files, copies>>
    BY <1>4 DEF Data, Filed, Unfiled
  <2>3. files' \in [Sites -> SUBSET File] /\ copies' \in [Mail -> Nat]
    BY <1>1, <2>2, TypeDeliver DEF TypeOK
  <2>4. unfiled' \subseteq Mail
    <3>1. unfiled' = unfiled \/ unfiled' = unfiled \cup {m}
      BY <1>4 DEF Data, Filed, Unfiled
    <3>2. unfiled \subseteq Mail /\ m \in Mail
      BY <1>1 DEF TypeOK
    <3> HIDE DEF m
    <3> QED BY <3>1, <3>2
  <2>6. faults' \in 0..MaxFaults /\ unkept' \in [Sites -> SUBSET Addrs]
    BY <1>4, TypeFault DEF Data
  <2>7. DialGoes(c, "answered") /\ "answered" \in Stages /\ UNCHANGED <<queue, pass>>
    BY <1>4 DEF Data, Stages
  <2> QED BY <1>1, <1>4, <2>1, <2>3, <2>4, <2>6, <2>7, TypeDial DEF Data, TypeOK
<1>5. CASE Ack(c)
  <2>1. /\ dial' = [dial EXCEPT ![c] = None] /\ pass' = pass
        /\ queue' = queue \ {m}
    BY <1>5 DEF Ack, HangUp
  <2>2. \A d \in Collectors : m \notin pass[d]
    <3>1. From[m] = c
      BY <1>1 DEF TypeOK
    <3>2. m \notin pass[c]
      BY <1>1 DEF PassInv
    <3>3. \A d \in Collectors : \A n \in pass[d] : From[n] = d
      BY DEF PassInv
    <3> HIDE DEF m, TypeInv
    <3> QED BY <3>1, <3>2, <3>3
  <2>3. PassInv'
    <3>1. \A d \in Collectors : dial'[d] # None => dial'[d] = dial[d]
      BY <2>1 DEF TypeOK
    <3>2. \A d \in Collectors : \A n \in pass[d] : n \in queue /\ From[n] = d
      BY DEF PassInv
    <3>3. \A d \in Collectors : dial[d] # None => dial[d].mail \notin pass[d]
      BY DEF PassInv
    <3> HIDE DEF m, TypeInv
    <3> QED BY <2>1, <2>2, <3>1, <3>2, <3>3 DEF PassInv
  <2>4. dial' \in [Collectors -> Dial \cup {None}]
    BY <2>1 DEF TypeOK
  <2>5. \A d \in Collectors :
          dial'[d] # None => From[dial'[d].mail] = d /\ dial'[d].mail \in queue'
    BY <1>1, <2>1 DEF TypeOK
  <2> QED BY <1>5, <2>1, <2>3, <2>4, <2>5 DEF Ack, TypeOK
<1>6. CASE DataCut(c)
  <2>1. /\ routes' \in [Sites -> SUBSET Addrs] /\ file' \in [Sites -> SUBSET Addrs]
        /\ newer' \in [Sites -> BOOLEAN] /\ marker' \in [Sites -> SUBSET Boxes]
    BY <1>1, <1>6, TypeAutoCreate DEF DataCut
  <2>2. deliver_to_maildir(s, m, FALSE) \/ UNCHANGED <<files, copies>>
    BY <1>6 DEF DataCut
  <2>3. files' \in [Sites -> SUBSET File] /\ copies' \in [Mail -> Nat]
    BY <1>1, <2>2, TypeDeliver DEF TypeOK
  <2>4. HangUp(c) /\ UNCHANGED <<queue, pass>> /\ Fault
    BY <1>6 DEF DataCut
  <2>5. faults' \in 0..MaxFaults /\ unkept' \in [Sites -> SUBSET Addrs]
    BY <2>4, TypeFault
  <2> QED BY <1>1, <1>6, <2>1, <2>3, <2>4, <2>5, TypeDial DEF DataCut, TypeOK
<1>7. CASE DialFails(c)
  <2>1. HangUp(c) /\ UNCHANGED <<queue, pass>> /\ Fault
    BY <1>7 DEF DialFails
  <2>2. faults' \in 0..MaxFaults /\ unkept' \in [Sites -> SUBSET Addrs]
    BY <2>1, TypeFault
  <2> QED BY <1>1, <1>7, <2>1, <2>2, TypeDial DEF DialFails, TypeOK
<1>8. CASE DataErr(c)
  <2> DEFINE table == routes[s] \cup {To[m]}
  <2>0. s \in Sites /\ table \in SUBSET Addrs /\ TypeOK
    <3>1. s \in Sites
      BY <1>8 DEF DataErr, Creates
    <3>2. routes \in [Sites -> SUBSET Addrs] /\ To[m] \in Addrs /\ TypeOK
      BY <1>1 DEF TypeOK
    <3> HIDE DEF m, s, TypeInv
    <3> QED BY <3>1, <3>2
  <2>1. /\ routes' \in [Sites -> SUBSET Addrs] /\ file' \in [Sites -> SUBSET Addrs]
        /\ newer' \in [Sites -> BOOLEAN]
        /\ faults' \in 0..MaxFaults /\ unkept' \in [Sites -> SUBSET Addrs]
    <3>0. \/ UNCHANGED <<routes, file, newer>> /\ Fault
          \/ persist_routes_err(s, table)
          \/ persist_routes(s, table) /\ Fault
      BY <1>8 DEF DataErr
    <3> HIDE DEF m, s, table, TypeInv
    <3>1. CASE UNCHANGED <<routes, file, newer>> /\ Fault
      BY <2>0, <3>1, TypeFault DEF TypeOK
    <3>2. CASE persist_routes_err(s, table)
      BY <2>0, <3>2, TypePersistErr
    <3>3. CASE persist_routes(s, table) /\ Fault
      BY <2>0, <3>3, TypePersist, TypeFault
    <3> QED BY <3>0, <3>1, <3>2, <3>3
  <2>2. deliver_to_maildir(s, m, TRUE) \/ UNCHANGED <<files, copies>>
    BY <1>8 DEF DataErr, Filed, Unfiled
  <2>3. files' \in [Sites -> SUBSET File] /\ copies' \in [Mail -> Nat]
    BY <1>1, <2>2, TypeDeliver DEF TypeOK
  <2>4. unfiled' \subseteq Mail
    <3>1. unfiled' = unfiled \/ unfiled' = unfiled \cup {m}
      BY <1>8 DEF DataErr, Filed, Unfiled
    <3>2. unfiled \subseteq Mail /\ m \in Mail
      BY <1>1 DEF TypeOK
    <3> HIDE DEF m
    <3> QED BY <3>1, <3>2
  <2>5. DialGoes(c, "answered") /\ "answered" \in Stages /\ UNCHANGED <<queue, pass>>
    BY <1>8 DEF DataErr, Stages
  <2> QED BY <1>1, <1>8, <2>1, <2>3, <2>4, <2>5, TypeDial DEF DataErr, TypeOK
<1> QED BY <1>2, <1>3, <1>4, <1>5, <1>6, <1>7, <1>8

(* So do the end of an interval and a crash.                               *)
LEMMA TypeSurroundings ==
  ASSUME TypeInv,
         (\E p \in Dialled : IntervalOver(p[1], p[2])) \/ (\E s \in Sites : Crash(s))
  PROVE  TypeInv'
<1> USE FatmamaAssumption DEF TypeInv, routeVars, boxVars, queueVars, bounds
<1>1. ASSUME NEW p \in Dialled, IntervalOver(p[1], p[2])
      PROVE  TypeInv'
  BY <1>1 DEF IntervalOver, TypeOK, PassInv
<1>2. ASSUME NEW s \in Sites, Crash(s)
      PROVE  TypeInv'
  <2>1. /\ pass' \in [Collectors -> SUBSET Mail]
        /\ \A c \in Collectors : pass'[c] \subseteq pass[c]
    BY <1>2 DEF Crash, TypeOK
  <2>2. /\ dial' \in [Collectors -> Dial \cup {None}]
        /\ \A c \in Collectors : dial'[c] \in {dial[c], None}
    BY <1>2 DEF Crash, TypeOK
  <2>3. queue' = queue /\ written' = written
    BY <1>2 DEF Crash
  <2>4. pop' \in [Readers -> Session \cup {None}]
    BY <1>2 DEF Crash, TypeOK
  <2>5. /\ faults' \in 0..MaxFaults /\ unkept' \in [Sites -> SUBSET Addrs]
        /\ up' \in [Sites -> BOOLEAN] /\ recent' \subseteq Dialled
    BY <1>2, TypeFault DEF Crash, TypeOK
  <2>6. PassInv'
    BY <2>1, <2>2, <2>3 DEF PassInv
  <2>7. \A d \in Collectors :
          dial'[d] # None => From[dial'[d].mail] = d /\ dial'[d].mail \in queue'
    BY <2>2, <2>3 DEF TypeOK
  <2> QED BY <1>2, <2>1, <2>2, <2>3, <2>4, <2>5, <2>6, <2>7 DEF Crash, TypeOK
<1> QED BY <1>1, <1>2

LEMMA TypeStep == TypeInv /\ [Next]_vars => TypeInv'
<1> SUFFICES ASSUME TypeInv, [Next]_vars PROVE TypeInv'
  OBVIOUS
<1>1. CASE UNCHANGED vars
  BY <1>1 DEF vars, routeVars, boxVars, queueVars, bounds, TypeInv, TypeOK, PassInv
<1>2. ASSUME NEW c \in Collectors, Collect(c) \/ DataErr(c) \/ DataCut(c) \/ DialFails(c)
      PROVE  TypeInv'
  BY <1>2, TypeCollect, TypeRelay DEF Collect
<1>3. CASE (\E p \in Dialled : IntervalOver(p[1], p[2])) \/ (\E s \in Sites : Crash(s))
  BY <1>3, TypeSurroundings
<1>4. ASSUME NEW s \in Sites, Open(s) \/ Restart(s)
      PROVE  TypeInv'
  BY <1>4, TypeRoutesOnly
<1>5. ASSUME NEW p \in Wallets, Register(p[1], p[2]) \/ RegisterErr(p[1], p[2])
                                \/ EditFile(p[1], p[2])
      PROVE  TypeInv'
  BY <1>5, TypeRoutes, FatmamaAssumption
<1>6. ASSUME NEW s \in Sites, NEW as \in (SUBSET routes[s]) \ {{}}, NEW w \in BOOLEAN,
             AdminDelete(s, as, w)
      PROVE  TypeInv'
  <2>1. as \in SUBSET Addrs
    BY DEF TypeInv, TypeOK
  <2> QED BY <1>6, <2>1, TypeClients
<1>7. ASSUME NEW r \in Readers, NEW p \in Wallets, User(r, p[1], p[2])
      PROVE  TypeInv'
  BY <1>7, TypeClients, FatmamaAssumption
<1>8. ASSUME NEW r \in Readers, Rset(r) \/ Quit(r) \/ PopLost(r)
      PROVE  TypeInv'
  BY <1>8, TypeClients
<1>9. ASSUME NEW r \in Readers, NEW s \in Sites, NEW f \in files[s], RetrDele(r, f)
      PROVE  TypeInv'
  BY <1>9, TypeClients
<1> QED BY <1>1, <1>2, <1>3, <1>4, <1>5, <1>6, <1>7, <1>8, <1>9 DEF Next

(* The state of the sites is well formed after every step: what a          *)
(* collector is delivering is a file of its own directory that is still    *)
(* there, tables and files hold addresses, sessions hold files.            *)
THEOREM FatmamaTypeCorrect == Spec => []TypeOK
<1>1. TypeInv => TypeOK
  BY DEF TypeInv
<1> QED BY <1>1, TypeInit, TypeStep, PTL DEF Spec

-----------------------------------------------------------------------------
(* Only the address itself has the mailbox directory of an unshared one.   *)
LEMMA UnsharedBox ==
  ASSUME NEW a \in Addrs, Unshared(a), NEW b \in Addrs, BoxOf[b] = BoxOf[a]
  PROVE  b = a
BY DEF Unshared, Sharing

(* No failed write is forgotten.                                           *)
LEMMA UnkeptGrows ==
  ASSUME TypeInv, [Next]_vars, NEW s \in Sites
  PROVE  unkept[s] \subseteq unkept'[s]
<1>0. ASSUME UNCHANGED unkept \/ Fault \/ NoFault
             \/ \E t \in Sites : \E as : WriteFault(t, as)
      PROVE  unkept[s] \subseteq unkept'[s]
  BY <1>0 DEF Fault, NoFault, WriteFault, TypeInv, TypeOK
<1>1. CASE UNCHANGED vars
  BY <1>0, <1>1 DEF vars, bounds
<1>2. ASSUME NEW c \in Collectors, Collect(c) \/ DataErr(c) \/ DataCut(c) \/ DialFails(c)
      PROVE  unkept[s] \subseteq unkept'[s]
  <2>1. CASE Collect(c) \/ DataCut(c) \/ DialFails(c)
    BY <1>0, <2>1 DEF bounds, Collect, StartPass, CollectLocal, CollectLater, CollectRemote,
                      Connect, Rcpt, Data, Ack, DataCut, DialFails
  <2>2. CASE DataErr(c)
    <3>1. Host[dial[c].mail] \in Sites
      BY <2>2, FatmamaAssumption DEF DataErr, Creates
    <3> QED BY <1>0, <2>2, <3>1 DEF DataErr, persist_routes_err
  <2> QED BY <1>2, <2>1, <2>2
<1>3. ASSUME NEW t, NEW h, IntervalOver(t, h) \/ Crash(t)
      PROVE  unkept[s] \subseteq unkept'[s]
  BY <1>0, <1>3 DEF bounds, IntervalOver, Crash
<1>4. ASSUME NEW t \in Sites, Open(t) \/ Restart(t)
      PROVE  unkept[s] \subseteq unkept'[s]
  BY <1>0, <1>4 DEF bounds, Open, Restart
<1>5. ASSUME NEW t \in Sites, NEW a, Register(t, a) \/ RegisterErr(t, a) \/ EditFile(t, a)
      PROVE  unkept[s] \subseteq unkept'[s]
  BY <1>0, <1>5 DEF bounds, Register, RegisterErr, EditFile, persist_routes_err,
                    mark_registered_err
<1>6. ASSUME NEW t \in Sites, NEW as, NEW w, NEW fs, delete_routes(t, as, w, fs)
      PROVE  unkept[s] \subseteq unkept'[s]
  BY <1>0, <1>6 DEF delete_routes, persist_routes_err
<1>7. ASSUME NEW t \in Sites, NEW as, NEW w, AdminDelete(t, as, w)
      PROVE  unkept[s] \subseteq unkept'[s]
  BY <1>6, <1>7 DEF AdminDelete
<1>8. ASSUME NEW q \in Readers, Quit(q)
      PROVE  unkept[s] \subseteq unkept'[s]
  <2>1. pop[q].site \in Sites
    BY <1>8 DEF Quit, TypeInv, TypeOK, Session
  <2> QED BY <1>0, <1>6, <1>8, <2>1 DEF Quit
<1>9. ASSUME NEW q \in Readers,
             \/ \E p \in Wallets : User(q, p[1], p[2])
             \/ Rset(q) \/ PopLost(q)
             \/ \E t \in Sites : \E f \in files[t] : RetrDele(q, f)
      PROVE  unkept[s] \subseteq unkept'[s]
  BY <1>0, <1>9 DEF bounds, User, Rset, PopLost, RetrDele
<1>10. \A p \in Wallets : p[1] \in Sites /\ p[2] \in Managed
  BY FatmamaAssumption
<1> QED BY <1>1, <1>2, <1>3, <1>4, <1>5, <1>7, <1>8, <1>9, <1>10 DEF Next

(* What was promised before a step that registers nobody, and forgets no   *)
(* failed write, is all that is promised after it.                         *)
LEMMA PromiseShrinks ==
  ASSUME \A t \in Sites : registered'[t] \subseteq registered[t],
         \A t \in Sites : unkept[t] \subseteq unkept'[t],
         NEW s \in Sites
  PROVE  Kept(s)' \subseteq Kept(s) /\ Promised(s)' \subseteq Promised(s)
<1>1. Kept(s)' \subseteq Kept(s)
  BY DEF Kept, Unshared, Sharing
<1> QED BY <1>1 DEF Promised

(* Reloading the table takes it from a file that has the promised routes.  *)
LEMMA PromiseReload ==
  ASSUME TypeInv, PromisedRoutesKept, NEW s, NEW table,
         s \in Sites => table \in {routes[s], file[s]},
         routes' = [routes EXCEPT ![s] = table],
         UNCHANGED <<file, marker, registered>>,
         \A t \in Sites : unkept[t] \subseteq unkept'[t]
  PROVE  PromisedRoutesKept'
<1>1. ASSUME NEW t \in Sites
      PROVE  Kept(t)' \subseteq Kept(t) /\ Promised(t)' \subseteq Promised(t)
  BY PromiseShrinks
<1>2. ASSUME NEW t \in Sites PROVE Promised(t) \subseteq routes'[t] \cap file'[t]
  BY DEF TypeInv, TypeOK, PromisedRoutesKept
<1> QED BY <1>1, <1>2 DEF PromisedRoutesKept

(* Writing a larger table out keeps what was promised.                     *)
LEMMA PromisePersist ==
  ASSUME TypeInv, PromisedRoutesKept, NEW s \in Sites, NEW table,
         NEW t \in Sites,
         persist_routes(s, table),
         Promised(s) \subseteq table
  PROVE  Promised(t) \subseteq routes'[t] \cap file'[t]
BY DEF TypeInv, TypeOK, PromisedRoutesKept, persist_routes

(* An account is only marked as auto-created when it had no route, so it   *)
(* is not one that was registered.                                         *)
LEMMA PromiseAuto ==
  ASSUME TypeInv, PromisedRoutesKept, NEW s, NEW m \in Mail,
         auto_create(s, To[m]), UNCHANGED registered,
         \A t \in Sites : unkept[t] \subseteq unkept'[t]
  PROVE  PromisedRoutesKept'
<1>0. ASSUME NEW t \in Sites
      PROVE  Kept(t)' \subseteq Kept(t) /\ Promised(t)' \subseteq Promised(t)
  BY PromiseShrinks
<1>1. CASE Creates(s, To[m])
  <2>1. s \in Sites /\ To[m] \in Addrs
    BY <1>1, FatmamaAssumption DEF Creates
  <2>2. To[m] \notin Promised(s)
    BY <1>1, <2>1 DEF Creates, PromisedRoutesKept
  <2>3. Promised(s) \subseteq routes[s] \cup {To[m]}
    BY <2>1 DEF PromisedRoutesKept
  <2>4. persist_routes(s, routes[s] \cup {To[m]})
    BY <1>1 DEF auto_create
  <2>5. marker' = [marker EXCEPT ![s] = marker[s] \cup {BoxOf[To[m]]}]
    BY <1>1 DEF auto_create
  <2>6. ASSUME NEW t \in Sites
        PROVE  Promised(t) \subseteq routes'[t] \cap file'[t]
    BY <2>1, <2>3, <2>4, PromisePersist
  <2>7. ASSUME NEW t \in Sites, NEW a \in Kept(t)
        PROVE  BoxOf[a] \notin marker'[t]
    <3>0. Unshared(a)
      BY DEF Kept
    <3>1. BoxOf[a] \notin marker[t] /\ a \in Addrs
      BY FatmamaAssumption DEF PromisedRoutesKept, Kept, TypeInv, TypeOK
    <3>2. ASSUME t = s PROVE BoxOf[a] # BoxOf[To[m]]
      <4>1. a \in Promised(s)
        BY <3>2 DEF Promised
      <4> QED BY <2>1, <2>2, <3>0, <3>1, <4>1, UnsharedBox
    <3> QED BY <2>5, <3>1, <3>2 DEF TypeInv, TypeOK
  <2> QED BY <1>0, <2>6, <2>7 DEF PromisedRoutesKept
<1>2. CASE ~Creates(s, To[m])
  <2>1. UNCHANGED <<routes, file, marker>>
    BY <1>2 DEF auto_create
  <2> QED BY <1>0, <2>1 DEF PromisedRoutesKept
<1> QED BY <1>1, <1>2

(* Deleting routes that were not promised, or no longer are, takes none    *)
(* of the others.                                                          *)
LEMMA PromiseDelete ==
  ASSUME TypeInv, PromisedRoutesKept, NEW s \in Sites, NEW as, NEW w \in BOOLEAN, NEW fs,
         delete_routes(s, as, w, fs),
         \A t \in Sites : registered'[t] \subseteq registered[t],
         \A t \in Sites : unkept[t] \subseteq unkept'[t],
         \A a \in Kept(s)' : a \notin as
  PROVE  PromisedRoutesKept'
<1>0. ASSUME NEW t \in Sites
      PROVE  Kept(t)' \subseteq Kept(t) /\ Promised(t)' \subseteq Promised(t)
  BY PromiseShrinks
<1>1. ASSUME NEW t \in Sites
      PROVE  Promised(t)' \subseteq routes'[t] \cap file'[t]
  <2>1. Promised(s)' \subseteq routes[s] \ Deletable(s, as)
    <3>1. Promised(s)' \subseteq routes[s]
      BY <1>0 DEF PromisedRoutesKept
    <3>2. \A a \in Promised(s)' : a \notin as \/ a \notin Managed
      BY DEF Promised
    <3> QED BY <3>1, <3>2 DEF Deletable, is_protected_route
  <2>2. CASE Deletable(s, as) = {}
    <3>1. UNCHANGED <<routes, file>>
      BY <2>2 DEF delete_routes
    <3> QED BY <1>0, <3>1 DEF PromisedRoutesKept
  <2>3. CASE Deletable(s, as) # {}
    <3> DEFINE table == routes[s] \ Deletable(s, as)
    <3>1. persist_routes(s, table) \/ persist_routes_err(s, table)
      BY <2>3 DEF delete_routes
    <3> HIDE DEF table
    <3>2. t = s => routes'[t] = table /\ file'[t] \in {table, file[t]}
      BY <3>1 DEF persist_routes, persist_routes_err, TypeInv, TypeOK
    <3>3. t # s => routes'[t] = routes[t] /\ file'[t] = file[t]
      BY <3>1 DEF persist_routes, persist_routes_err, TypeInv, TypeOK
    <3> USE DEF table
    <3>4. Promised(t)' \subseteq routes[t] \cap file[t]
      BY <1>0 DEF PromisedRoutesKept
    <3> QED BY <2>1, <3>2, <3>3, <3>4
  <2> QED BY <2>2, <2>3
<1>2. ASSUME NEW t \in Sites, NEW a \in Kept(t)'
      PROVE  BoxOf[a] \notin marker'[t]
  <2>1. marker'[t] \subseteq marker[t]
    BY DEF delete_routes, remove_mailboxes, TypeInv, TypeOK
  <2>2. BoxOf[a] \notin marker[t]
    BY <1>0 DEF PromisedRoutesKept
  <2> QED BY <2>1, <2>2
<1> QED BY <1>1, <1>2 DEF PromisedRoutesKept

(* Unless a write failed for it, a route that is in the table is in the    *)
(* file: whoever adds it writes it out, and edits only add.                *)
TableInFile == \A s \in Sites : routes[s] \ unkept[s] \subseteq file[s]

LEMMA TableStep ==
  ASSUME TypeInv, TableInFile, [Next]_vars
  PROVE  TableInFile'
<1> USE DEF TypeInv, TypeOK, TableInFile, routeVars
<1>u. \A s \in Sites : unkept[s] \subseteq unkept'[s]
  BY UnkeptGrows
<1>0. ASSUME UNCHANGED <<routes, file>> PROVE TableInFile'
  BY <1>u, <1>0
<1>1. ASSUME NEW s, NEW table, persist_routes(s, table) PROVE TableInFile'
  BY <1>u, <1>1 DEF persist_routes
<1>e. ASSUME NEW s \in Sites, NEW table, persist_routes_err(s, table) PROVE TableInFile'
  <2> SUFFICES ASSUME NEW t \in Sites, NEW a \in routes'[t] \ unkept'[t]
               PROVE  a \in file'[t]
    BY DEF TableInFile
  <2>1. /\ routes' = [routes EXCEPT ![s] = table] /\ file' = file
        /\ unkept' = [unkept EXCEPT
             ![s] = unkept[s] \cup ((table \ routes[s]) \cup (routes[s] \ table))]
    BY <1>e DEF persist_routes_err, WriteFault
  <2>2. a \in routes[t]
    <3>1. CASE t = s
      BY <2>1, <3>1
    <3>2. CASE t # s
      BY <2>1, <3>2
    <3> QED BY <3>1, <3>2
  <2> QED BY <1>u, <2>1, <2>2
<1>2. ASSUME NEW s, maybe_reload_routes(s), UNCHANGED file PROVE TableInFile'
  BY <1>u, <1>2 DEF maybe_reload_routes, Reloaded
<1>d. ASSUME NEW s \in Sites, NEW as, NEW w, NEW fs, delete_routes(s, as, w, fs)
      PROVE  TableInFile'
  BY <1>0, <1>1, <1>d, <1>e DEF delete_routes
<1>3. CASE UNCHANGED vars
  BY <1>0, <1>3 DEF vars
<1>4. ASSUME NEW c \in Collectors, Collect(c) \/ DataCut(c) \/ DialFails(c)
      PROVE  TableInFile'
  BY <1>0, <1>1, <1>2, <1>4
     DEF Collect, StartPass, CollectLocal, CollectLater, CollectRemote, Connect, Rcpt, Data,
         Ack, DataCut, DialFails, auto_create
<1>5. ASSUME NEW c \in Collectors, DataErr(c)
      PROVE  TableInFile'
  <2>1. Host[dial[c].mail] \in Sites
    BY <1>5, FatmamaAssumption DEF DataErr, Creates
  <2> QED BY <1>0, <1>1, <1>5, <1>e, <2>1 DEF DataErr
<1>6. CASE (\E p \in Dialled : IntervalOver(p[1], p[2])) \/ (\E s \in Sites : Crash(s))
  BY <1>0, <1>6 DEF IntervalOver, Crash
<1>7. ASSUME NEW s \in Sites, Open(s) \/ Restart(s)
      PROVE  TableInFile'
  <2>1. CASE Open(s)
    BY <1>2, <2>1 DEF Open
  <2>2. CASE Restart(s)
    BY <1>u, <2>2 DEF Restart
  <2> QED BY <1>7, <2>1, <2>2
<1>8. ASSUME NEW s \in Sites, NEW a, Register(s, a) \/ RegisterErr(s, a)
      PROVE  TableInFile'
  BY <1>0, <1>1, <1>8, <1>e DEF Register, RegisterErr, register_route
<1>9. ASSUME NEW s \in Sites, NEW a, EditFile(s, a)
      PROVE  TableInFile'
  BY <1>u, <1>9 DEF EditFile
<1>10. ASSUME NEW s \in Sites, NEW as, NEW w, AdminDelete(s, as, w)
      PROVE  TableInFile'
  BY <1>10, <1>d DEF AdminDelete
<1>11. ASSUME NEW r \in Readers, Quit(r)
      PROVE  TableInFile'
  <2>1. pop[r].site \in Sites
    BY <1>11 DEF Quit, Session
  <2> QED BY <1>0, <1>11, <1>d, <2>1 DEF Quit
<1>12. ASSUME NEW r \in Readers,
             \/ \E p \in Wallets : User(r, p[1], p[2])
             \/ Rset(r) \/ PopLost(r)
             \/ \E s \in Sites : \E f \in files[s] : RetrDele(r, f)
      PROVE  TableInFile'
  BY <1>0, <1>12 DEF User, Rset, PopLost, RetrDele
<1>13. \A p \in Wallets : p[1] \in Sites
  BY FatmamaAssumption
<1> HIDE DEF TypeInv, TypeOK, TableInFile
<1> QED BY <1>3, <1>4, <1>5, <1>6, <1>7, <1>8, <1>9, <1>10, <1>11, <1>12, <1>13 DEF Next

LEMMA PromiseStep ==
  ASSUME TypeInv, TableInFile, PromisedRoutesKept, [Next]_vars
  PROVE  PromisedRoutesKept'
<1> USE DEF routeVars
<1>u. \A s \in Sites : unkept[s] \subseteq unkept'[s]
  BY UnkeptGrows
<1>0. ASSUME UNCHANGED <<file, marker, registered>>,
             \A t \in Sites : routes[t] \subseteq routes'[t]
      PROVE  PromisedRoutesKept'
  <2>1. ASSUME NEW t \in Sites
        PROVE  Kept(t)' \subseteq Kept(t) /\ Promised(t)' \subseteq Promised(t)
    BY <1>0, <1>u, PromiseShrinks
  <2> QED BY <1>0, <2>1 DEF PromisedRoutesKept
<1>w. ASSUME UNCHANGED <<marker, registered>>, NEW s \in Sites, NEW a,
             persist_routes(s, routes[s] \cup {a})
      PROVE  PromisedRoutesKept'
  <2>1. ASSUME NEW t \in Sites
        PROVE  Kept(t)' \subseteq Kept(t) /\ Promised(t)' \subseteq Promised(t)
    BY <1>w, <1>u, PromiseShrinks
  <2>2. ASSUME NEW t \in Sites PROVE Promised(t) \subseteq routes'[t] \cap file'[t]
    BY <1>w, PromisePersist DEF PromisedRoutesKept
  <2> QED BY <1>w, <2>1, <2>2 DEF PromisedRoutesKept
<1>1. CASE UNCHANGED vars
  BY <1>0, <1>1 DEF vars
<1>2. ASSUME NEW c \in Collectors, Collect(c) \/ DataErr(c) \/ DataCut(c) \/ DialFails(c)
      PROVE  PromisedRoutesKept'
  <2>1. CASE StartPass(c)
    BY <1>u, <2>1, PromiseReload DEF StartPass, maybe_reload_routes, Reloaded
  <2>2. CASE \E m \in pass[c] : CollectLocal(c, m) \/ CollectLater(c, m) \/ CollectRemote(c, m)
    BY <1>0, <2>2 DEF CollectLocal, CollectLater, CollectRemote
  <2>3. CASE Connect(c)
    <3>1. CASE \E s \in Sites : maybe_reload_routes(s)
      BY <1>u, <2>3, <3>1, PromiseReload DEF Connect, maybe_reload_routes, Reloaded
    <3>2. CASE UNCHANGED <<routes, newer>>
      BY <1>0, <2>3, <3>2 DEF Connect
    <3> QED BY <2>3, <3>1, <3>2 DEF Connect
  <2>4. CASE Data(c) \/ DataCut(c)
    <3>1. dial[c] # None /\ dial[c] \in Dial
      BY <2>4 DEF Data, DataCut, At, TypeInv, TypeOK
    <3>2. dial[c].mail \in Mail
      BY <3>1 DEF Dial
    <3> QED BY <1>u, <2>4, <3>2, PromiseAuto DEF Data, DataCut
  <2>5. CASE Rcpt(c) \/ Ack(c) \/ DialFails(c)
    BY <1>0, <2>5 DEF Rcpt, Ack, DialFails
  <2>6. CASE DataErr(c)
    <3> DEFINE m == dial[c].mail
               s == Host[m]
               table == routes[s] \cup {To[m]}
    <3>1. s \in Sites /\ UNCHANGED <<marker, registered>>
      BY <2>6, FatmamaAssumption DEF DataErr, Creates
    <3>2. \/ UNCHANGED <<routes, file, newer>>
          \/ persist_routes_err(s, table)
          \/ persist_routes(s, table)
      BY <2>6 DEF DataErr
    <3> HIDE DEF m, s
    <3>3. CASE persist_routes_err(s, table)
      <4>1. UNCHANGED file /\ \A t \in Sites : routes[t] \subseteq routes'[t]
        BY <3>1, <3>3 DEF persist_routes_err, TypeInv, TypeOK
      <4> QED BY <1>0, <3>1, <4>1
    <3>4. CASE persist_routes(s, table)
      BY <1>w, <3>1, <3>4
    <3>5. CASE UNCHANGED <<routes, file, newer>>
      BY <1>0, <3>1, <3>5
    <3> QED BY <3>2, <3>3, <3>4, <3>5
  <2> QED BY <1>2, <2>1, <2>2, <2>3, <2>4, <2>5, <2>6 DEF Collect
<1>3. CASE (\E p \in Dialled : IntervalOver(p[1], p[2])) \/ (\E s \in Sites : Crash(s))
  BY <1>0, <1>3 DEF IntervalOver, Crash
<1>4. ASSUME NEW s \in Sites, Open(s)
      PROVE  PromisedRoutesKept'
  BY <1>u, <1>4, PromiseReload DEF Open, maybe_reload_routes, Reloaded
<1>5. ASSUME NEW s \in Sites, Restart(s)
      PROVE  PromisedRoutesKept'
  BY <1>u, <1>5, PromiseReload DEF Restart
<1>6. ASSUME NEW s \in Sites, NEW a \in Managed, Register(s, a)
      PROVE  PromisedRoutesKept'
  <2>1. /\ registered' = [registered EXCEPT ![s] = registered[s] \cup {a}]
        /\ marker' = [marker EXCEPT ![s] = marker[s] \ {BoxOf[a]}]
        /\ unkept' = unkept
    BY <1>6 DEF Register, mark_registered, bounds
  <2>2. ASSUME NEW t \in Sites
        PROVE  /\ routes[t] \subseteq routes'[t] /\ file[t] \cap routes[t] \subseteq file'[t]
               /\ a \in routes'[s] /\ (a \notin unkept[s] => a \in file'[s])
    <3>1. CASE a \in routes[s]
      BY <1>6, <3>1 DEF Register, register_route, TableInFile
    <3>2. CASE a \notin routes[s]
      BY <1>6, <3>2 DEF Register, register_route, persist_routes, TypeInv, TypeOK
    <3> QED BY <3>1, <3>2
  <2>3. ASSUME NEW t \in Sites
        PROVE  /\ Kept(t)' \subseteq Kept(t) \cup (IF t = s THEN {a} ELSE {})
               /\ t = s /\ a \in Kept(t)' => a \notin unkept[s]
    BY <2>1 DEF Kept, Unshared, Sharing, TypeInv, TypeOK
  <2>4. ASSUME NEW t \in Sites
        PROVE  Promised(t)' \subseteq routes'[t] \cap file'[t]
    <3>1. Promised(t) \subseteq routes'[t] \cap file'[t]
      BY <2>2 DEF PromisedRoutesKept
    <3>2. ASSUME NEW b \in Promised(t)'
          PROVE  b \in Promised(t) \/ (t = s /\ b = a /\ a \notin unkept[s])
      <4>1. b \in Kept(t)' \/ b \in Init0[t] \ Managed
        BY DEF Promised
      <4> QED BY <2>3, <4>1 DEF Promised
    <3> QED BY <2>2, <3>1, <3>2
  <2>5. ASSUME NEW t \in Sites, NEW b \in Kept(t)'
        PROVE  BoxOf[b] \notin marker'[t]
    <3>1. marker'[t] = IF t = s THEN marker[s] \ {BoxOf[a]} ELSE marker[t]
      BY <2>1 DEF TypeInv, TypeOK
    <3>2. b \in Kept(t) \/ (t = s /\ b = a)
      BY <2>3
    <3>3. b \in Kept(t) => BoxOf[b] \notin marker[t]
      BY DEF PromisedRoutesKept
    <3> QED BY <3>1, <3>2, <3>3
  <2> QED BY <2>4, <2>5 DEF PromisedRoutesKept
<1>7. ASSUME NEW s \in Sites, NEW a \in Managed, RegisterErr(s, a)
      PROVE  PromisedRoutesKept'
  <2> DEFINE table == routes[s] \cup {a}
  <2>1. CASE persist_routes_err(s, table) /\ UNCHANGED <<marker, registered>>
    <3>1. UNCHANGED file /\ \A t \in Sites : routes[t] \subseteq routes'[t]
      BY <2>1 DEF persist_routes_err, TypeInv, TypeOK
    <3> QED BY <1>0, <2>1, <3>1
  <2>2. CASE /\ register_route(s, a) /\ mark_registered_err(s, a)
             /\ registered' = [registered EXCEPT ![s] = @ \cup {a}]
    <3>1. UNCHANGED marker /\ unkept' = [unkept EXCEPT ![s] = @ \cup {a}]
      BY <2>2 DEF mark_registered_err, WriteFault
    <3>2. ASSUME NEW t \in Sites
          PROVE  Kept(t)' \subseteq Kept(t)
      BY <2>2, <3>1 DEF Kept, Unshared, Sharing, TypeInv, TypeOK
    <3>3. ASSUME NEW t \in Sites
          PROVE  Promised(t)' \subseteq Promised(t)
      BY <3>2 DEF Promised
    <3>4. ASSUME NEW t \in Sites
          PROVE  Promised(t) \subseteq routes'[t] \cap file'[t]
      <4>1. CASE a \in routes[s]
        BY <2>2, <4>1 DEF register_route, PromisedRoutesKept
      <4>2. CASE a \notin routes[s]
        BY <2>2, <4>2, PromisePersist DEF register_route, PromisedRoutesKept
      <4> QED BY <4>1, <4>2
    <3> QED BY <3>1, <3>2, <3>3, <3>4 DEF PromisedRoutesKept
  <2> QED BY <1>7, <2>1, <2>2 DEF RegisterErr
<1>8. ASSUME NEW s \in Sites, NEW a \in Managed, EditFile(s, a)
      PROVE  PromisedRoutesKept'
  <2>1. /\ UNCHANGED <<routes, marker, registered>>
        /\ \A t \in Sites : file[t] \subseteq file'[t]
    BY <1>8 DEF EditFile, TypeInv, TypeOK
  <2>2. ASSUME NEW t \in Sites
        PROVE  Kept(t)' \subseteq Kept(t) /\ Promised(t)' \subseteq Promised(t)
    BY <1>u, <2>1, PromiseShrinks
  <2> QED BY <2>1, <2>2 DEF PromisedRoutesKept
<1>9. ASSUME NEW s \in Sites, NEW as, NEW w \in BOOLEAN, AdminDelete(s, as, w)
      PROVE  PromisedRoutesKept'
  <2>1. delete_routes(s, as, w, files[s])
    BY <1>9 DEF AdminDelete
  <2>2. registered' = [registered EXCEPT ![s] = registered[s] \ as]
    BY <1>9 DEF AdminDelete
  <2>3. /\ \A t \in Sites : registered'[t] \subseteq registered[t]
        /\ \A a \in Kept(s)' : a \notin as
    BY <2>2 DEF Kept, TypeInv, TypeOK
  <2> QED BY <1>u, <2>1, <2>3, PromiseDelete
<1>10. ASSUME NEW r \in Readers, Quit(r)
      PROVE  PromisedRoutesKept'
  <2> DEFINE p == pop[r]
             left == files[p.site] \ p.deleted
  <2>1. p \in Session
    BY <1>10 DEF Quit, TypeInv, TypeOK
  <2>2. p.site \in Sites
    BY <2>1 DEF Session
  <2>3. CASE p.deleted # {} /\ Reclaimable(p.site, p.user, left)
    <3>0. PICK s \in {p.site}, u \in {p.user}, fs \in {left} : s \in Sites
      BY <2>2
    <3>1. delete_routes(s, {u}, TRUE, fs) /\ UNCHANGED registered
      BY <1>10, <2>3, <3>0 DEF Quit
    <3>2. u \notin Kept(s)
      BY <2>3, <3>0 DEF Reclaimable, PromisedRoutesKept
    <3>3. \A t \in Sites : registered'[t] \subseteq registered[t]
      BY <3>1
    <3>4. Kept(s)' \subseteq Kept(s)
      BY <1>u, <3>0, <3>3, PromiseShrinks
    <3>5. \A a \in Kept(s)' : a \notin {u}
      BY <3>2, <3>4
    <3> HIDE DEF p, left
    <3> QED BY <1>u, <3>0, <3>1, <3>3, <3>5, PromiseDelete
  <2>4. CASE ~(p.deleted # {} /\ Reclaimable(p.site, p.user, left))
    BY <1>0, <1>10, <2>4 DEF Quit
  <2> QED BY <2>3, <2>4
<1>11. ASSUME NEW r \in Readers,
              \/ \E p \in Wallets : User(r, p[1], p[2])
              \/ Rset(r) \/ PopLost(r)
              \/ \E s \in Sites : \E f \in files[s] : RetrDele(r, f)
      PROVE  PromisedRoutesKept'
  BY <1>0, <1>11 DEF User, Rset, PopLost, RetrDele
<1>12. \A p \in Wallets : p[1] \in Sites /\ p[2] \in Managed
  BY FatmamaAssumption
<1> QED BY <1>1, <1>2, <1>3, <1>4, <1>5, <1>6, <1>7, <1>8, <1>9, <1>10, <1>11, <1>12 DEF Next

(* The routes of validators, and of the registered wallets that have a     *)
(* mailbox directory of their own, stay in the table and in the file until *)
(* an administrator deletes them: no reload, restart, auto-creation or     *)
(* reclamation takes them, in any interleaving of sessions, whatever       *)
(* befalls addresses that share a directory, and whatever writes fail for  *)
(* other addresses.                                                        *)
THEOREM RoutesStayPromised == Spec => []PromisedRoutesKept
<1> DEFINE Inv == TypeInv /\ TableInFile /\ PromisedRoutesKept
<1>1. Init => Inv
  <2>1. Init => TableInFile /\ PromisedRoutesKept
    BY FatmamaAssumption DEF Init, TableInFile, PromisedRoutesKept, Promised, Kept
  <2> QED BY <2>1, TypeInit
<1>2. Inv /\ [Next]_vars => Inv'
  BY TypeStep, TableStep, PromiseStep
<1>3. Inv => PromisedRoutesKept
  OBVIOUS
<1> HIDE DEF Inv
<1> QED BY <1>1, <1>2, <1>3, PTL DEF Spec

-----------------------------------------------------------------------------
(* A POP3 session lists the mailbox of its user, and what it has marked    *)
(* for deletion its user has read.                                         *)
SessionInv ==
  \A r \in Readers : pop[r] # None =>
    /\ \A f \in pop[r].snapshot : f.box = BoxOf[pop[r].user]
    /\ pop[r].deleted \subseteq pop[r].snapshot
    /\ \A f \in pop[r].deleted : f.whole => <<f.mail, pop[r].user>> \in fetched

(* What may still happen to mail in mailboxes, if nothing is removed.      *)
NothingRemoved ==
  /\ \A s \in Sites : files[s] \subseteq files'[s]
  /\ fetched \subseteq fetched' /\ wiped \subseteq wiped' /\ unfiled \subseteq unfiled'

LEMMA DeliverAdds ==
  ASSUME TypeInv, NEW s, NEW m \in Mail, NEW whole, deliver_to_maildir(s, m, whole)
  PROVE  \A t \in Sites : files[t] \subseteq files'[t]
BY DEF TypeInv, TypeOK, deliver_to_maildir

(* Only an administrator and QUIT remove files.                            *)
LEMMA RemovedOnlyBy ==
  ASSUME TypeInv, [Next]_vars
  PROVE  \/ NothingRemoved
         \/ \E s \in Sites : \E as, w : AdminDelete(s, as, w)
         \/ \E r \in Readers : Quit(r)
<1> USE DEF NothingRemoved, boxVars
<1>0. ASSUME UNCHANGED boxVars PROVE NothingRemoved
  BY <1>0
<1>1. CASE UNCHANGED vars
  BY <1>0, <1>1 DEF vars
<1>2. ASSUME NEW c \in Collectors, Collect(c) \/ DataErr(c) \/ DataCut(c) \/ DialFails(c)
      PROVE  NothingRemoved
  <2>1. CASE \E m \in pass[c] : CollectLocal(c, m)
    <3>1. PICK m \in pass[c] : CollectLocal(c, m)
      BY <2>1
    <3>2. m \in Mail
      BY DEF TypeInv, TypeOK
    <3>3. deliver_to_maildir(c[1], m, TRUE) \/ UNCHANGED files
      BY <3>1 DEF CollectLocal
    <3> QED BY <3>1, <3>2, <3>3, DeliverAdds DEF CollectLocal
  <2>2. CASE Data(c) \/ DataErr(c) \/ DataCut(c)
    <3>1. dial[c] # None /\ dial[c] \in Dial
      BY <2>2 DEF Data, DataErr, DataCut, At, TypeInv, TypeOK
    <3>2. dial[c].mail \in Mail
      BY <3>1 DEF Dial
    <3>3. \/ \E whole : deliver_to_maildir(Host[dial[c].mail], dial[c].mail, whole)
          \/ UNCHANGED files
      BY <2>2 DEF Data, DataErr, DataCut, Filed, Unfiled
    <3>4. \A t \in Sites : files[t] \subseteq files'[t]
      BY <3>2, <3>3, DeliverAdds
    <3>5. UNCHANGED <<fetched, wiped>> /\ unfiled \subseteq unfiled'
      BY <2>2 DEF Data, DataErr, DataCut, Filed, Unfiled
    <3> QED BY <3>4, <3>5
  <2>3. CASE \/ StartPass(c) \/ Connect(c) \/ Rcpt(c) \/ Ack(c) \/ DialFails(c)
             \/ \E m \in pass[c] : CollectLater(c, m) \/ CollectRemote(c, m)
    BY <1>0, <2>3 DEF StartPass, Connect, Rcpt, Ack, DialFails, CollectLater, CollectRemote
  <2> QED BY <1>2, <2>1, <2>2, <2>3 DEF Collect
<1>3. CASE \/ \E p \in Dialled : IntervalOver(p[1], p[2])
           \/ \E s \in Sites : Open(s) \/ Crash(s) \/ Restart(s)
           \/ \E p \in Wallets : Register(p[1], p[2]) \/ RegisterErr(p[1], p[2])
                                 \/ EditFile(p[1], p[2])
           \/ \E r \in Readers, p \in Wallets : User(r, p[1], p[2])
           \/ \E r \in Readers : Rset(r) \/ PopLost(r)
  BY <1>0, <1>3
     DEF IntervalOver, Open, Crash, Restart, Register, RegisterErr, EditFile, User, Rset, PopLost
<1>4. ASSUME NEW r \in Readers, NEW s \in Sites, NEW f \in files[s], RetrDele(r, f)
      PROVE  NothingRemoved
  BY <1>4 DEF RetrDele
<1>5. \A p \in Wallets : p[1] \in Sites
  BY FatmamaAssumption
<1> QED BY <1>1, <1>2, <1>3, <1>4, <1>5 DEF Next

(* QUIT removes what its user has read, and what is reclaimed is empty.    *)
LEMMA QuitRemovesRead ==
  ASSUME TypeInv, SessionInv, NEW r \in Readers, Quit(r), NEW s \in Sites
  PROVE  /\ files'[s] \subseteq files[s]
         /\ \A f \in files[s] \ files'[s] :
              f.whole /\ f.box = BoxOf[To[f.mail]] => IsRead(f.mail)
<1> DEFINE p == pop[r]
           left == files[p.site] \ p.deleted
<1>1. p # None /\ p \in Session
  BY DEF Quit, TypeInv, TypeOK
<1>2. p.site \in Sites /\ p.user \in Addrs
  BY <1>1 DEF Session
<1>3. s # p.site => files'[s] = files[s]
  BY DEF Quit, delete_routes, remove_mailboxes, TypeInv, TypeOK
<1>4. files'[p.site] = left
  <2>1. CASE p.deleted # {} /\ Reclaimable(p.site, p.user, left)
    <3>1. delete_routes(p.site, {p.user}, TRUE, left)
      BY <2>1 DEF Quit
    <3>2. files'[p.site] = Outside(left, Deletable(p.site, {p.user}))
      BY <1>2, <3>1 DEF delete_routes, remove_mailboxes, TypeInv, TypeOK
    <3>3. \A f \in left : f.box # BoxOf[p.user]
      BY <2>1 DEF Reclaimable, mailbox_is_empty
    <3> QED BY <3>2, <3>3 DEF Outside, Deletable
  <2>2. CASE ~(p.deleted # {} /\ Reclaimable(p.site, p.user, left))
    <3>1. files' = [files EXCEPT ![p.site] = left]
      BY <2>2 DEF Quit
    <3> QED BY <1>2, <3>1 DEF TypeInv, TypeOK
  <2> QED BY <2>1, <2>2
<1>5. ASSUME NEW f \in files[s] \ files'[s], f.whole, f.box = BoxOf[To[f.mail]]
      PROVE  IsRead(f.mail)
  <2>1. f \in p.deleted
    BY <1>3, <1>4
  <2>2. <<f.mail, p.user>> \in fetched /\ f.box = BoxOf[p.user]
    BY <1>1, <1>5, <2>1 DEF SessionInv
  <2>3. p.user \in Sharing(To[f.mail])
    BY <1>2, <1>5, <2>2 DEF Sharing
  <2> QED BY <2>2, <2>3 DEF IsRead
<1> QED BY <1>3, <1>4, <1>5

(* A settled mail stays settled: an administrator's deletion is recorded,  *)
(* QUIT removes what its user has read, and what is reclaimed is empty.    *)
LEMMA SettledStays ==
  ASSUME TypeInv, SessionInv, [Next]_vars, NEW m \in Mail, Settled(m)
  PROVE  Settled(m)'
<1> DEFINE d == Destination(m)
           Copy(f) == f.mail = m /\ f.whole /\ f.box = BoxOf[To[m]]
<1>1. CASE NothingRemoved
  BY <1>1 DEF NothingRemoved, Settled, InMailbox, IsRead, Destination
<1>2. ASSUME NEW s \in Sites, NEW as, NEW w, AdminDelete(s, as, w)
      PROVE  Settled(m)'
  <2>1. UNCHANGED <<fetched, unfiled>> /\ wiped' = wiped \cup WholeMail(files[s] \ files'[s])
    BY <1>2 DEF AdminDelete
  <2>2. \A t \in Sites : t # s => files'[t] = files[t]
    BY <1>2 DEF AdminDelete, delete_routes, remove_mailboxes, TypeInv, TypeOK
  <2>3. CASE IsRead(m) \/ m \in wiped \cup unfiled
    BY <2>1, <2>3 DEF Settled, IsRead
  <2>4. ASSUME d \in Sites, NEW f \in files[d], Copy(f)
        PROVE  Settled(m)'
    <3>1. CASE f \in files'[d]
      BY <2>4, <3>1 DEF Settled, InMailbox, Destination
    <3>2. CASE f \notin files'[d]
      BY <2>1, <2>2, <2>4, <3>2 DEF Settled, WholeMail
    <3> QED BY <3>1, <3>2
  <2> QED BY <2>3, <2>4 DEF Settled, InMailbox
<1>3. ASSUME NEW r \in Readers, Quit(r)
      PROVE  Settled(m)'
  <2>1. UNCHANGED <<fetched, wiped, unfiled>>
    BY <1>3 DEF Quit
  <2>2. CASE IsRead(m) \/ m \in wiped \cup unfiled
    BY <2>1, <2>2 DEF Settled, IsRead
  <2>3. ASSUME d \in Sites, NEW f \in files[d], Copy(f)
        PROVE  Settled(m)'
    <3>1. CASE f \in files'[d]
      BY <2>3, <3>1 DEF Settled, InMailbox, Destination
    <3>2. CASE f \notin files'[d]
      BY <1>3, <2>2, <2>3, <3>2, QuitRemovesRead
    <3> QED BY <3>1, <3>2
  <2> QED BY <2>2, <2>3 DEF Settled, InMailbox
<1> QED BY <1>1, <1>2, <1>3, RemovedOnlyBy

(* What a POP3 session has marked its user has read, after every step.     *)
LEMMA SessionStep ==
  ASSUME TypeInv, SessionInv, [Next]_vars
  PROVE  SessionInv'
<1> USE DEF TypeInv
<1>0. fetched \subseteq fetched'
  <2>1. CASE NothingRemoved
    BY <2>1 DEF NothingRemoved
  <2>2. CASE \E s \in Sites : \E as, w : AdminDelete(s, as, w)
    BY <2>2 DEF AdminDelete
  <2>3. CASE \E r \in Readers : Quit(r)
    BY <2>3 DEF Quit
  <2> QED BY <2>1, <2>2, <2>3, RemovedOnlyBy
<1>1. ASSUME \A r \in Readers : pop'[r] = pop[r] \/ pop'[r] = None
      PROVE  SessionInv'
  <2> SUFFICES ASSUME NEW r \in Readers, pop'[r] # None
               PROVE  /\ \A f \in pop'[r].snapshot : f.box = BoxOf[pop'[r].user]
                      /\ pop'[r].deleted \subseteq pop'[r].snapshot
                      /\ \A f \in pop'[r].deleted :
                           f.whole => <<f.mail, pop'[r].user>> \in fetched'
    BY DEF SessionInv
  <2>1. pop'[r] = pop[r]
    BY <1>1
  <2> QED BY <1>0, <2>1 DEF SessionInv
<1>a. ASSUME NEW r \in Readers, NEW q, pop' = [pop EXCEPT ![r] = q],
             \A f \in q.snapshot : f.box = BoxOf[q.user],
             q.deleted \subseteq q.snapshot,
             \A f \in q.deleted : f.whole => <<f.mail, q.user>> \in fetched'
      PROVE  SessionInv'
  <2> SUFFICES ASSUME NEW t \in Readers, pop'[t] # None
               PROVE  /\ \A f \in pop'[t].snapshot : f.box = BoxOf[pop'[t].user]
                      /\ pop'[t].deleted \subseteq pop'[t].snapshot
                      /\ \A f \in pop'[t].deleted :
                           f.whole => <<f.mail, pop'[t].user>> \in fetched'
    BY DEF SessionInv
  <2>1. CASE t = r
    <3>1. pop'[t] = q
      BY <1>a, <2>1 DEF TypeOK
    <3> QED BY <1>a, <3>1
  <2>2. CASE t # r
    <3>1. pop'[t] = pop[t]
      BY <1>a, <2>2 DEF TypeOK
    <3> QED BY <1>0, <3>1 DEF SessionInv
  <2> QED BY <2>1, <2>2
<1>2. ASSUME NEW r \in Readers, NEW s, NEW a, User(r, s, a)
      PROVE  SessionInv'
  <2> DEFINE snap == IF a \in routes[s] THEN {f \in files[s] : f.box = BoxOf[a]} ELSE {}
             q == [site |-> s, user |-> a, deleted |-> {}, snapshot |-> snap]
  <2>1. pop' = [pop EXCEPT ![r] = q]
    BY <1>2 DEF User
  <2>2. \A f \in snap : f.box = BoxOf[a]
    OBVIOUS
  <2>3. q.snapshot = snap /\ q.user = a /\ q.deleted = {}
    OBVIOUS
  <2> HIDE DEF q, snap
  <2> QED BY <1>a, <2>1, <2>2, <2>3
<1>3. ASSUME NEW r \in Readers, Rset(r)
      PROVE  SessionInv'
  <2> DEFINE q == [pop[r] EXCEPT !.deleted = {}]
  <2>1. pop' = [pop EXCEPT ![r] = q] /\ pop[r] # None /\ pop[r] \in Session
    BY <1>3 DEF Rset, TypeOK
  <2>2. q.snapshot = pop[r].snapshot /\ q.user = pop[r].user /\ q.deleted = {}
    BY <2>1 DEF Session
  <2> HIDE DEF q
  <2>3. \A f \in q.snapshot : f.box = BoxOf[q.user]
    BY <2>1, <2>2 DEF SessionInv
  <2> QED BY <1>a, <2>1, <2>2, <2>3
<1>4. ASSUME NEW r \in Readers, NEW f, RetrDele(r, f)
      PROVE  SessionInv'
  <2> DEFINE q == [pop[r] EXCEPT !.deleted = pop[r].deleted \cup {f}]
  <2>1. /\ pop' = [pop EXCEPT ![r] = q] /\ pop[r] # None /\ pop[r] \in Session
        /\ f \in pop[r].snapshot
    BY <1>4 DEF RetrDele, TypeOK
  <2>2. /\ q.snapshot = pop[r].snapshot /\ q.user = pop[r].user
        /\ q.deleted = pop[r].deleted \cup {f}
    BY <2>1 DEF Session
  <2> HIDE DEF q
  <2>3. f.whole => <<f.mail, pop[r].user>> \in fetched'
    BY <1>4 DEF RetrDele
  <2>4. /\ \A g \in q.snapshot : g.box = BoxOf[q.user]
        /\ q.deleted \subseteq q.snapshot
        /\ \A g \in q.deleted : g.whole => <<g.mail, q.user>> \in fetched'
    BY <1>0, <2>1, <2>2, <2>3 DEF SessionInv
  <2> QED BY <1>a, <2>1, <2>4
<1>5. ASSUME NEW r \in Readers, Quit(r) \/ PopLost(r) PROVE SessionInv'
  BY <1>1, <1>5 DEF Quit, PopLost, TypeOK
<1>6. CASE \E s \in Sites : Crash(s)
  BY <1>1, <1>6 DEF Crash
<1>7. CASE UNCHANGED pop
  BY <1>1, <1>7
<1>8. ASSUME NEW c \in Collectors, Collect(c) \/ DataErr(c) \/ DataCut(c) \/ DialFails(c) PROVE UNCHANGED pop
  BY <1>8 DEF Collect, StartPass, CollectLocal, CollectLater, CollectRemote, Connect, Rcpt,
              Data, Ack, DataErr, DataCut, DialFails
<1>9. CASE \/ UNCHANGED vars
           \/ \E p \in Dialled : IntervalOver(p[1], p[2])
           \/ \E s \in Sites : Open(s) \/ Restart(s)
           \/ \E p \in Wallets : Register(p[1], p[2]) \/ RegisterErr(p[1], p[2])
                                 \/ EditFile(p[1], p[2])
           \/ \E s \in Sites : \E as \in (SUBSET routes[s]) \ {{}}, w \in BOOLEAN :
                AdminDelete(s, as, w)
  BY <1>7, <1>9 DEF vars, IntervalOver, Open, Restart, Register, RegisterErr, EditFile, AdminDelete
<1> QED BY <1>2, <1>3, <1>4, <1>5, <1>6, <1>7, <1>8, <1>9 DEF Next

-----------------------------------------------------------------------------
(* The mail that is settled, and that it only grows.                       *)
SettledMail == {m \in Mail : Settled(m)}

LEMMA SettledGrows ==
  ASSUME TypeInv, SessionInv, [Next]_vars
  PROVE  SettledMail \subseteq SettledMail'
<1> SUFFICES ASSUME NEW m \in Mail, Settled(m) PROVE Settled(m)'
  BY DEF SettledMail
<1> QED BY SettledStays

(* A whole copy at the site it is for settles a mail.                      *)
LEMMA DeliverySettles ==
  ASSUME TypeInv, NEW s \in Sites, NEW m \in Mail, Destination(m) = s,
         deliver_to_maildir(s, m, TRUE)
  PROVE  m \in SettledMail'
<1> DEFINE new == [box |-> BoxOf[To[m]], mail |-> m, copy |-> copies[m] + 1, whole |-> TRUE]
<1>1. files' = [files EXCEPT ![s] = files[s] \cup {new}]
  BY DEF deliver_to_maildir
<1>2. new.mail = m /\ new.whole /\ new.box = BoxOf[To[m]]
  OBVIOUS
<1> HIDE DEF new
<1>3. new \in files'[s]
  BY <1>1 DEF TypeInv, TypeOK
<1>4. \E f \in files'[s] : f.mail = m /\ f.whole /\ f.box = BoxOf[To[m]]
  BY <1>2, <1>3
<1>5. InMailbox(m)'
  BY <1>4 DEF InMailbox, Destination
<1> QED BY <1>5 DEF SettledMail, Settled

(* A cross-site delivery is of mail with a host, beyond the handshake that *)
(* host is a FATMAMA, and once it has answered the mail is settled.        *)
DialInv ==
  \A c \in Collectors : dial[c] # None =>
    /\ Host[dial[c].mail] # NoHost
    /\ dial[c].at # "connect" => Host[dial[c].mail] \in Sites
    /\ dial[c].at = "answered" => dial[c].mail \in SettledMail

(* The end of DATA settles the mail.                                       *)
LEMMA DataSettles ==
  ASSUME TypeInv, DialInv, NEW c \in Collectors, Data(c) \/ DataErr(c)
  PROVE  dial[c].mail \in SettledMail'
<1> DEFINE m == dial[c].mail
<1>1. dial[c] # None /\ dial[c] \in Dial /\ dial[c].at = "data"
  BY DEF Data, DataErr, At, TypeInv, TypeOK
<1>2. m \in Mail /\ Host[m] \in Sites /\ Host[m] # NoHost
  BY <1>1 DEF Dial, DialInv
<1>3. CASE Filed(Host[m], m)
  <2>1. Destination(m) = Host[m]
    BY <1>2 DEF Destination
  <2> QED BY <1>2, <1>3, <2>1, DeliverySettles DEF Filed
<1>4. CASE Unfiled(m)
  <2>1. m \in unfiled'
    BY <1>4 DEF Unfiled
  <2> QED BY <1>2, <2>1 DEF SettledMail, Settled
<1> QED BY <1>3, <1>4 DEF Data, DataErr

LEMMA DialStep ==
  ASSUME TypeInv, SessionInv, DialInv, [Next]_vars
  PROVE  DialInv'
<1> USE DEF TypeInv
<1>0. SettledMail \subseteq SettledMail'
  BY SettledGrows
<1>1. ASSUME \A c \in Collectors : dial'[c] = dial[c] \/ dial'[c] = None
      PROVE  DialInv'
  <2> SUFFICES ASSUME NEW c \in Collectors, dial'[c] # None
               PROVE  /\ Host[dial'[c].mail] # NoHost
                      /\ dial'[c].at # "connect" => Host[dial'[c].mail] \in Sites
                      /\ dial'[c].at = "answered" => dial'[c].mail \in SettledMail'
    BY DEF DialInv
  <2>1. dial'[c] = dial[c]
    BY <1>1
  <2> QED BY <1>0, <2>1 DEF DialInv
<1>2. ASSUME NEW c \in Collectors, NEW m, NEW stage,
             dial' = [dial EXCEPT ![c] = [mail |-> m, at |-> stage]],
             Host[m] # NoHost, stage # "connect" => Host[m] \in Sites,
             stage = "answered" => m \in SettledMail'
      PROVE  DialInv'
  <2> SUFFICES ASSUME NEW d \in Collectors, dial'[d] # None
               PROVE  /\ Host[dial'[d].mail] # NoHost
                      /\ dial'[d].at # "connect" => Host[dial'[d].mail] \in Sites
                      /\ dial'[d].at = "answered" => dial'[d].mail \in SettledMail'
    BY DEF DialInv
  <2>1. CASE d = c
    <3>1. dial'[d] = [mail |-> m, at |-> stage]
      BY <1>2, <2>1 DEF TypeOK
    <3>2. dial'[d].mail = m /\ dial'[d].at = stage
      BY <3>1
    <3> QED BY <1>2, <3>2
  <2>2. CASE d # c
    <3>1. dial'[d] = dial[d]
      BY <1>2, <2>2 DEF TypeOK
    <3> QED BY <1>0, <3>1 DEF DialInv
  <2> QED BY <2>1, <2>2
<1>3. ASSUME NEW c \in Collectors, NEW stage, dial[c] # None, DialGoes(c, stage)
      PROVE  dial' = [dial EXCEPT ![c] = [mail |-> dial[c].mail, at |-> stage]]
  <2>1. dial[c] \in Dial
    BY <1>3 DEF TypeOK
  <2>2. [dial[c] EXCEPT !.at = stage] = [mail |-> dial[c].mail, at |-> stage]
    BY <2>1 DEF Dial
  <2> QED BY <1>3, <2>2 DEF DialGoes
<1>4. ASSUME NEW c \in Collectors, HangUp(c) PROVE DialInv'
  BY <1>1, <1>4 DEF HangUp, TypeOK
<1>5. ASSUME NEW c \in Collectors, NEW m \in pass[c], CollectRemote(c, m)
      PROVE  DialInv'
  <2>1. dial' = [dial EXCEPT ![c] = [mail |-> m, at |-> "connect"]] /\ Host[m] # NoHost
    BY <1>5 DEF CollectRemote, IsLocal
  <2> DEFINE stage == "connect"
  <2>2. /\ dial' = [dial EXCEPT ![c] = [mail |-> m, at |-> stage]]
        /\ stage # "connect" => Host[m] \in Sites
        /\ stage = "answered" => m \in SettledMail'
    BY <2>1
  <2> HIDE DEF stage, TypeInv
  <2> QED BY <1>2, <2>1, <2>2
<1>6. ASSUME NEW c \in Collectors, Connect(c) \/ Rcpt(c)
      PROVE  DialInv'
  <2>1. dial[c] # None /\ Host[dial[c].mail] # NoHost
    BY <1>6 DEF Connect, Rcpt, At, DialInv
  <2>2. CASE HangUp(c)
    BY <1>4, <2>2
  <2>3. CASE DialGoes(c, "rcpt") /\ Host[dial[c].mail] \in Sites
    BY <1>2, <1>3, <2>1, <2>3
  <2>4. CASE DialGoes(c, "data") /\ Host[dial[c].mail] \in Sites
    BY <1>2, <1>3, <2>1, <2>4
  <2>5. Rcpt(c) => Host[dial[c].mail] \in Sites
    BY DEF Rcpt, At, DialInv
  <2> QED BY <1>6, <2>2, <2>3, <2>4, <2>5 DEF Connect, Rcpt
<1>7. ASSUME NEW c \in Collectors, Data(c) \/ DataErr(c)
      PROVE  DialInv'
  <2>1. dial[c] # None /\ Host[dial[c].mail] # NoHost /\ Host[dial[c].mail] \in Sites
    BY <1>7 DEF Data, DataErr, At, DialInv
  <2>2. dial' = [dial EXCEPT ![c] = [mail |-> dial[c].mail, at |-> "answered"]]
    BY <1>3, <1>7, <2>1 DEF Data, DataErr
  <2>3. dial[c].mail \in SettledMail'
    BY <1>7, DataSettles
  <2> QED BY <1>2, <2>1, <2>2, <2>3
<1>8. ASSUME NEW c \in Collectors, Ack(c) \/ DataCut(c) \/ DialFails(c) PROVE DialInv'
  BY <1>4, <1>8 DEF Ack, DataCut, DialFails
<1>9. CASE \E s \in Sites : Crash(s)
  BY <1>1, <1>9 DEF Crash
<1>10. CASE UNCHANGED dial
  BY <1>1, <1>10
<1>11. ASSUME NEW c \in Collectors,
              \/ StartPass(c)
              \/ \E m \in pass[c] : CollectLocal(c, m) \/ CollectLater(c, m)
      PROVE  UNCHANGED dial
  BY <1>11 DEF StartPass, CollectLocal, CollectLater
<1>12. ASSUME \/ UNCHANGED vars
              \/ \E p \in Dialled : IntervalOver(p[1], p[2])
              \/ \E s \in Sites : Open(s) \/ Restart(s)
              \/ \E p \in Wallets : Register(p[1], p[2]) \/ RegisterErr(p[1], p[2])
                                    \/ EditFile(p[1], p[2])
              \/ \E s \in Sites : \E as \in (SUBSET routes[s]) \ {{}}, w \in BOOLEAN :
                   AdminDelete(s, as, w)
              \/ \E r \in Readers, p \in Wallets : User(r, p[1], p[2])
              \/ \E r \in Readers : Rset(r) \/ Quit(r) \/ PopLost(r)
              \/ \E r \in Readers, s \in Sites : \E f \in files[s] : RetrDele(r, f)
       PROVE  UNCHANGED dial
  BY <1>12 DEF vars, queueVars, IntervalOver, Open, Restart, Register, RegisterErr, EditFile, AdminDelete,
               User, Rset, Quit, PopLost, RetrDele
<1> QED BY <1>5, <1>6, <1>7, <1>8, <1>9, <1>10, <1>11, <1>12 DEF Next, Collect

(* A file leaves its directory only when its mail is settled.              *)
LEMMA UnlinkedIsSettled ==
  ASSUME TypeInv, SessionInv, DialInv, [Next]_vars
  PROVE  written' = written /\ queue \ queue' \subseteq SettledMail'
<1> USE DEF TypeInv
<1>1. ASSUME UNCHANGED <<written, queue>>
      PROVE  written' = written /\ queue \ queue' \subseteq SettledMail'
  BY <1>1
<1>2. ASSUME NEW c \in Collectors, NEW m \in pass[c], CollectLocal(c, m)
      PROVE  written' = written /\ queue \ queue' \subseteq SettledMail'
  <2>1. CASE deliver_to_maildir(c[1], m, TRUE) /\ queue' = queue \ {m}
    <3>1. m \in Mail /\ From[m] = c /\ c[1] \in Sites
      BY FatmamaAssumption DEF PassInv, TypeOK
    <3>2. Host[m] = NoHost \/ Host[m] = c[1]
      BY <1>2 DEF CollectLocal, IsLocal, my_domains
    <3>3. Destination(m) = c[1]
      BY <3>1, <3>2, FatmamaAssumption DEF Destination
    <3>4. m \in SettledMail'
      BY <2>1, <3>1, <3>3, DeliverySettles
    <3> QED BY <1>2, <2>1, <3>4 DEF CollectLocal
  <2>2. CASE UNCHANGED queue
    BY <1>2, <2>2 DEF CollectLocal
  <2> QED BY <1>2, <2>1, <2>2 DEF CollectLocal
<1>3. ASSUME NEW c \in Collectors, Ack(c)
      PROVE  written' = written /\ queue \ queue' \subseteq SettledMail'
  <2>1. dial[c].mail \in SettledMail /\ SettledMail \subseteq SettledMail'
    BY <1>3, SettledGrows DEF Ack, At, DialInv
  <2> QED BY <1>3, <2>1 DEF Ack
<1>4. ASSUME NEW c \in Collectors,
             \/ StartPass(c) \/ Connect(c) \/ Rcpt(c) \/ Data(c) \/ DataErr(c) \/ DataCut(c) \/ DialFails(c)
             \/ \E m \in pass[c] : CollectLater(c, m) \/ CollectRemote(c, m)
      PROVE  UNCHANGED <<written, queue>>
  BY <1>4 DEF StartPass, Connect, Rcpt, Data, DataErr, DataCut, DialFails, CollectLater, CollectRemote
<1>5. ASSUME \/ UNCHANGED vars
             \/ \E p \in Dialled : IntervalOver(p[1], p[2])
             \/ \E s \in Sites : Open(s) \/ Crash(s) \/ Restart(s)
             \/ \E p \in Wallets : Register(p[1], p[2]) \/ RegisterErr(p[1], p[2])
                                   \/ EditFile(p[1], p[2])
             \/ \E s \in Sites : \E as \in (SUBSET routes[s]) \ {{}}, w \in BOOLEAN :
                  AdminDelete(s, as, w)
             \/ \E r \in Readers, p \in Wallets : User(r, p[1], p[2])
             \/ \E r \in Readers : Rset(r) \/ Quit(r) \/ PopLost(r)
             \/ \E r \in Readers, s \in Sites : \E f \in files[s] : RetrDele(r, f)
      PROVE  UNCHANGED <<written, queue>>
  BY <1>5 DEF vars, queueVars, IntervalOver, Open, Crash, Restart, Register, RegisterErr, EditFile,
              AdminDelete, User, Rset, Quit, PopLost, RetrDele
<1> QED BY <1>1, <1>2, <1>3, <1>4, <1>5 DEF Next, Collect

LEMMA AccountStep ==
  ASSUME TypeInv, SessionInv, DialInv, MailIsAccountedFor, [Next]_vars
  PROVE  MailIsAccountedFor'
<1>1. SettledMail \subseteq SettledMail' /\ written' = written
      /\ queue \ queue' \subseteq SettledMail'
  BY SettledGrows, UnlinkedIsSettled
<1>2. \A m \in written : m \in Mail /\ (m \in queue \/ m \in SettledMail)
  BY DEF MailIsAccountedFor, SettledMail, TypeInv, TypeOK
<1>3. \A m \in written' : m \in queue' \/ m \in SettledMail'
  BY <1>1, <1>2
<1>4. \A m \in SettledMail' : Settled(m)'
  BY DEF SettledMail
<1> QED BY <1>3, <1>4 DEF MailIsAccountedFor

(* Mail that left ANTIE's directories is in its recipient's mailbox as a   *)
(* whole, was read by the recipient or by an address with the same mailbox *)
(* directory, was deleted by an administrator, or was answered 250 by a    *)
(* site that logged why it was not filed: for any number of crashes, lost  *)
(* connections, deletions and sessions, and any sharing of directories.    *)
THEOREM MailStaysAccounted == Spec => []MailIsAccountedFor
<1> DEFINE Inv == TypeInv /\ SessionInv /\ DialInv /\ MailIsAccountedFor
<1>1. Init => Inv
  <2>1. Init => SessionInv /\ DialInv /\ MailIsAccountedFor
    BY DEF Init, SessionInv, DialInv, MailIsAccountedFor
  <2> QED BY <2>1, TypeInit
<1>2. Inv /\ [Next]_vars => Inv'
  BY TypeStep, SessionStep, DialStep, AccountStep
<1>3. Inv => MailIsAccountedFor
  OBVIOUS
<1> HIDE DEF Inv
<1> QED BY <1>1, <1>2, <1>3, PTL DEF Spec

-----------------------------------------------------------------------------
(* The refinement of MailRelay.                                            *)

(* Every file in a mailbox is of mail that was written, in the mailbox of  *)
(* its recipient, at the site the mail is for.                             *)
FilesInv ==
  \A s \in Sites : \A f \in files[s] :
    f.mail \in written /\ f.box = BoxOf[To[f.mail]] /\ s = Destination(f.mail)

(* One more file, of mail that waits for this site.                        *)
LEMMA FilesDeliver ==
  ASSUME TypeInv, FilesInv, NEW s \in Sites, NEW m \in queue, NEW whole \in BOOLEAN,
         Destination(m) = s, deliver_to_maildir(s, m, whole), UNCHANGED written
  PROVE  FilesInv'
<1> DEFINE new == [box |-> BoxOf[To[m]], mail |-> m, copy |-> copies[m] + 1, whole |-> whole]
<1>1. files' = [files EXCEPT ![s] = files[s] \cup {new}]
  BY DEF deliver_to_maildir
<1>2. new.mail = m /\ new.box = BoxOf[To[m]] /\ m \in written
  BY DEF TypeInv, TypeOK
<1> HIDE DEF new
<1>3. ASSUME NEW t \in Sites, NEW f \in files'[t]
      PROVE  f.mail \in written /\ f.box = BoxOf[To[f.mail]] /\ t = Destination(f.mail)
  <2>1. f \in files[t] \/ (t = s /\ f = new)
    BY <1>1 DEF TypeInv, TypeOK
  <2>2. CASE f \in files[t]
    BY <2>2 DEF FilesInv
  <2>3. CASE t = s /\ f = new
    BY <1>2, <2>3
  <2> QED BY <2>1, <2>2, <2>3
<1>4. \A m1 : Destination(m1)' = Destination(m1)
  BY DEF Destination
<1> QED BY <1>3, <1>4 DEF FilesInv

(* Where a collector files, and that the mail is still waiting.            *)
LEMMA LocalDestination ==
  ASSUME TypeInv, NEW c \in Collectors, NEW m \in pass[c], CollectLocal(c, m)
  PROVE  m \in queue /\ m \in Mail /\ c[1] \in Sites /\ Destination(m) = c[1]
<1>1. m \in Mail /\ m \in queue /\ From[m] = c /\ c[1] \in Sites
  BY FatmamaAssumption DEF TypeInv, PassInv, TypeOK
<1>2. Host[m] = NoHost \/ Host[m] = c[1]
  BY DEF CollectLocal, IsLocal, my_domains
<1> QED BY <1>1, <1>2, FatmamaAssumption DEF Destination

LEMMA PeerDestination ==
  ASSUME TypeInv, DialInv, NEW c \in Collectors, Data(c) \/ DataErr(c) \/ DataCut(c)
  PROVE  /\ dial[c].mail \in queue /\ dial[c].mail \in Mail
         /\ Host[dial[c].mail] \in Sites
         /\ Destination(dial[c].mail) = Host[dial[c].mail]
<1>1. dial[c] # None /\ dial[c].at = "data"
  BY DEF Data, DataErr, DataCut, At
<1>2. dial[c].mail \in queue /\ dial[c].mail \in Mail
  BY <1>1 DEF TypeInv, TypeOK
<1>3. Host[dial[c].mail] \in Sites /\ Host[dial[c].mail] # NoHost
  BY <1>1 DEF DialInv
<1> QED BY <1>2, <1>3 DEF Destination

LEMMA FilesStep ==
  ASSUME TypeInv, SessionInv, DialInv, FilesInv, [Next]_vars
  PROVE  FilesInv'
<1>0. ASSUME UNCHANGED written, \A s \in Sites : files'[s] \subseteq files[s]
      PROVE  FilesInv'
  BY <1>0 DEF FilesInv, Destination
<1>1. ASSUME UNCHANGED <<written, files>> PROVE FilesInv'
  BY <1>0, <1>1
<1>2. ASSUME NEW c \in Collectors, NEW m \in pass[c], CollectLocal(c, m)
      PROVE  FilesInv'
  <2>1. m \in queue /\ c[1] \in Sites /\ Destination(m) = c[1] /\ UNCHANGED written
    BY <1>2, LocalDestination DEF CollectLocal
  <2>2. deliver_to_maildir(c[1], m, TRUE) \/ UNCHANGED files
    BY <1>2 DEF CollectLocal
  <2> QED BY <1>1, <2>1, <2>2, FilesDeliver
<1>3. ASSUME NEW c \in Collectors, Data(c) \/ DataErr(c) \/ DataCut(c)
      PROVE  FilesInv'
  <2> DEFINE m == dial[c].mail
  <2>1. m \in queue /\ Host[m] \in Sites /\ Destination(m) = Host[m] /\ UNCHANGED written
    BY <1>3, PeerDestination DEF Data, DataErr, DataCut
  <2>2. \/ deliver_to_maildir(Host[m], m, TRUE) \/ deliver_to_maildir(Host[m], m, FALSE)
        \/ UNCHANGED files
    BY <1>3 DEF Data, DataErr, DataCut, Filed, Unfiled
  <2> HIDE DEF m
  <2> QED BY <1>1, <2>1, <2>2, FilesDeliver
<1>4. ASSUME NEW s \in Sites, NEW as, NEW w \in BOOLEAN, AdminDelete(s, as, w)
      PROVE  FilesInv'
  <2>1. files'[s] \subseteq files[s]
    BY <1>4, TypeDelete DEF AdminDelete
  <2>2. \A t \in Sites : t # s => files'[t] = files[t]
    BY <1>4 DEF AdminDelete, delete_routes, remove_mailboxes, TypeInv, TypeOK
  <2>3. UNCHANGED written
    BY <1>4 DEF AdminDelete, queueVars
  <2> QED BY <1>0, <2>1, <2>2, <2>3
<1>5. ASSUME NEW r \in Readers, Quit(r) PROVE FilesInv'
  <2>1. UNCHANGED written
    BY <1>5 DEF Quit, queueVars
  <2> QED BY <1>0, <1>5, <2>1, QuitRemovesRead
<1>6. CASE \E c \in Collectors :
             \/ StartPass(c) \/ Connect(c) \/ Rcpt(c) \/ Ack(c) \/ DialFails(c)
             \/ \E m \in pass[c] : CollectLater(c, m) \/ CollectRemote(c, m)
  <2>1. UNCHANGED <<written, boxVars>>
    BY <1>6 DEF StartPass, Connect, Rcpt, Ack, DialFails, CollectLater, CollectRemote
  <2> QED BY <1>1, <2>1 DEF boxVars
<1>7. CASE \/ UNCHANGED vars
           \/ \E p \in Dialled : IntervalOver(p[1], p[2])
           \/ \E s \in Sites : Open(s) \/ Crash(s) \/ Restart(s)
           \/ \E p \in Wallets : Register(p[1], p[2]) \/ RegisterErr(p[1], p[2])
                                 \/ EditFile(p[1], p[2])
           \/ \E r \in Readers, p \in Wallets : User(r, p[1], p[2])
           \/ \E r \in Readers : Rset(r) \/ PopLost(r)
           \/ \E r \in Readers, s \in Sites : \E f \in files[s] : RetrDele(r, f)
  BY <1>1, <1>7 DEF vars, boxVars, queueVars, IntervalOver, Open, Crash, Restart, Register,
                    RegisterErr, EditFile, User, Rset, PopLost, RetrDele
<1> QED BY <1>2, <1>3, <1>4, <1>5, <1>6, <1>7 DEF Next, Collect

RelayInv == TypeInv /\ SessionInv /\ DialInv /\ FilesInv

(* Where mail is boxed, before and after a step.                           *)
LEMMA BoxedFiles ==
  ASSUME FilesInv, FilesInv'
  PROVE  /\ \A m : m \in Boxed <=>
              \E s \in Sites : \E f \in files[s] : f.mail = m /\ f.whole
         /\ \A m : m \in Boxed' <=>
              \E s \in Sites : \E f \in files'[s] : f.mail = m /\ f.whole
<1>1. ASSUME NEW m
      PROVE  m \in Boxed <=> \E s \in Sites : \E f \in files[s] : f.mail = m /\ f.whole
  BY DEF FilesInv, Boxed, InMailbox
<1>2. ASSUME NEW m
      PROVE  m \in Boxed' <=> \E s \in Sites : \E f \in files'[s] : f.mail = m /\ f.whole
  BY DEF FilesInv, Boxed, InMailbox
<1> QED BY <1>1, <1>2

(* A file put into a mailbox boxes its mail, if it is whole.               *)
LEMMA BoxedDeliver ==
  ASSUME TypeInv, FilesInv, FilesInv', NEW s \in Sites, NEW m \in Mail, NEW whole \in BOOLEAN,
         deliver_to_maildir(s, m, whole)
  PROVE  Boxed' = IF whole THEN Boxed \cup {m} ELSE Boxed
<1> DEFINE new == [box |-> BoxOf[To[m]], mail |-> m, copy |-> copies[m] + 1, whole |-> whole]
<1>1. files' = [files EXCEPT ![s] = files[s] \cup {new}]
  BY DEF deliver_to_maildir
<1>2. new.mail = m /\ new.whole = whole
  OBVIOUS
<1> HIDE DEF new
<1>3. \A t \in Sites : files'[t] = IF t = s THEN files[t] \cup {new} ELSE files[t]
  BY <1>1 DEF TypeInv, TypeOK
<1>4. ASSUME NEW n PROVE n \in Boxed' <=> n \in Boxed \/ (n = m /\ whole)
  <2>1. ASSUME n \in Boxed' PROVE n \in Boxed \/ (n = m /\ whole)
    <3>1. PICK t \in Sites : \E f \in files'[t] : f.mail = n /\ f.whole
      BY <2>1, BoxedFiles
    <3>2. PICK f \in files'[t] : f.mail = n /\ f.whole
      BY <3>1
    <3>3. CASE f = new
      BY <1>2, <3>2, <3>3
    <3>4. CASE f \in files[t]
      BY <3>2, <3>4, BoxedFiles
    <3> QED BY <1>3, <3>3, <3>4
  <2>2. ASSUME n \in Boxed PROVE n \in Boxed'
    <3>1. PICK t \in Sites : \E f \in files[t] : f.mail = n /\ f.whole
      BY <2>2, BoxedFiles
    <3>2. files[t] \subseteq files'[t]
      BY <1>3
    <3> QED BY <3>1, <3>2, BoxedFiles
  <2>3. ASSUME n = m, whole PROVE n \in Boxed'
    <3>1. new \in files'[s]
      BY <1>3
    <3>2. new.mail = n /\ new.whole
      BY <1>2, <2>3
    <3> QED BY <3>1, <3>2, BoxedFiles
  <2> QED BY <2>1, <2>2, <2>3
<1> QED BY <1>4

(* Nothing that MailRelay speaks of changes.                               *)
LEMMA RelayStutter ==
  ASSUME UNCHANGED <<queue, written, files, fetched, wiped, unfiled>>
  PROVE  UNCHANGED Relay!vars
<1>1. Boxed' = Boxed
  BY DEF Boxed, InMailbox, Destination
<1>2. ReadMail' = ReadMail
  BY DEF ReadMail, IsRead
<1> QED BY <1>1, <1>2 DEF Relay!vars

(* Each step of a site is a step of MailRelay, or changes nothing there.   *)
LEMMA RelayStep ==
  ASSUME RelayInv, RelayInv', [Next]_vars
  PROVE  [Relay!Next]_(Relay!vars)
<1> USE DEF RelayInv
<1>0. ASSUME UNCHANGED <<queue, written, files, fetched, wiped, unfiled>>
      PROVE  [Relay!Next]_(Relay!vars)
  BY <1>0, RelayStutter
<1>r. ASSUME UNCHANGED <<written, fetched>> PROVE ReadMail' = ReadMail
  BY <1>r DEF ReadMail, IsRead
<1>1. ASSUME NEW c \in Collectors, NEW m \in pass[c], CollectLocal(c, m)
      PROVE  [Relay!Next]_(Relay!vars)
  <2>1. m \in queue /\ m \in Mail /\ c[1] \in Sites
    BY <1>1, LocalDestination
  <2>2. UNCHANGED <<written, fetched, wiped, unfiled, ReadMail>>
    BY <1>1, <1>r DEF CollectLocal
  <2>3. ASSUME deliver_to_maildir(c[1], m, TRUE) PROVE Boxed' = Boxed \cup {m}
    BY <2>1, <2>3, BoxedDeliver
  <2>4. CASE deliver_to_maildir(c[1], m, TRUE) /\ queue' = queue \ {m}
    <3>1. Relay!Move(m)
      BY <2>1, <2>2, <2>3, <2>4 DEF Relay!Move
    <3> QED BY <2>1, <3>1 DEF Relay!Next
  <2>5. CASE deliver_to_maildir(c[1], m, TRUE) /\ UNCHANGED queue
    <3>1. Relay!File(m)
      BY <2>1, <2>2, <2>3, <2>5 DEF Relay!File
    <3> QED BY <2>1, <3>1 DEF Relay!Next
  <2>6. CASE UNCHANGED <<files, copies, queue>>
    BY <1>0, <2>2, <2>6
  <2> QED BY <1>1, <2>4, <2>5, <2>6 DEF CollectLocal
<1>2. ASSUME NEW c \in Collectors, Data(c) \/ DataErr(c) PROVE [Relay!Next]_(Relay!vars)
  <2> DEFINE m == dial[c].mail
  <2>1. m \in queue /\ m \in Mail /\ Host[m] \in Sites
    BY <1>2, PeerDestination
  <2>2. UNCHANGED <<written, fetched, wiped, queue, ReadMail>>
    BY <1>2, <1>r DEF Data, DataErr
  <2>3. Filed(Host[m], m) \/ Unfiled(m)
    BY <1>2 DEF Data, DataErr
  <2> HIDE DEF m
  <2>4. CASE Filed(Host[m], m)
    <3>1. Boxed' = Boxed \cup {m} /\ UNCHANGED unfiled
      BY <2>1, <2>4, BoxedDeliver DEF Filed
    <3>2. Relay!File(m)
      BY <2>1, <2>2, <3>1 DEF Relay!File
    <3> QED BY <2>1, <3>2 DEF Relay!Next
  <2>5. CASE Unfiled(m)
    <3>1. unfiled' = unfiled \cup {m} /\ Boxed' = Boxed
      BY <2>2, <2>5 DEF Unfiled, Boxed, InMailbox, Destination
    <3>2. Relay!GiveUp(m)
      BY <2>1, <2>2, <3>1 DEF Relay!GiveUp
    <3> QED BY <2>1, <3>2 DEF Relay!Next
  <2> QED BY <2>3, <2>4, <2>5
<1>3. ASSUME NEW c \in Collectors, DataCut(c) PROVE [Relay!Next]_(Relay!vars)
  <2> DEFINE m == dial[c].mail
  <2>1. m \in Mail /\ Host[m] \in Sites
    BY <1>3, PeerDestination
  <2>2. UNCHANGED <<written, fetched, wiped, unfiled, queue, ReadMail>>
    BY <1>3, <1>r DEF DataCut
  <2>3. deliver_to_maildir(Host[m], m, FALSE) \/ UNCHANGED files
    BY <1>3 DEF DataCut
  <2> HIDE DEF m
  <2>4. CASE deliver_to_maildir(Host[m], m, FALSE)
    <3>1. Boxed' = Boxed
      BY <2>1, <2>4, BoxedDeliver
    <3> QED BY <2>2, <3>1 DEF Relay!vars
  <2>5. CASE UNCHANGED files
    BY <1>0, <2>2, <2>5
  <2> QED BY <2>3, <2>4, <2>5
<1>4. ASSUME NEW c \in Collectors, Ack(c) PROVE [Relay!Next]_(Relay!vars)
  <2> DEFINE m == dial[c].mail
  <2>1. m \in queue /\ m \in written /\ m \in SettledMail
    BY <1>4 DEF Ack, At, DialInv, TypeInv, TypeOK
  <2>2. /\ UNCHANGED <<written, files, fetched, wiped, unfiled>>
        /\ queue' = queue \ {m}
    BY <1>4 DEF Ack, boxVars
  <2> HIDE DEF m
  <2>3. UNCHANGED <<Boxed, ReadMail>>
    BY <2>2 DEF Boxed, InMailbox, Destination, ReadMail, IsRead
  <2>4. m \in Boxed \cup ReadMail \cup wiped \cup unfiled
    BY <2>1 DEF SettledMail, Settled, Boxed, ReadMail
  <2>5. Relay!Release(m)
    BY <2>1, <2>2, <2>3, <2>4 DEF Relay!Release
  <2> QED BY <2>1, <2>5 DEF Relay!Next
<1>5. ASSUME NEW s \in Sites, NEW as, NEW w \in BOOLEAN, AdminDelete(s, as, w)
      PROVE  [Relay!Next]_(Relay!vars)
  <2> DEFINE S == WholeMail(files[s] \ files'[s])
  <2>1. UNCHANGED <<queue, written, fetched, unfiled, ReadMail>> /\ wiped' = wiped \cup S
    BY <1>5, <1>r DEF AdminDelete, queueVars
  <2>2. /\ files'[s] \subseteq files[s]
        /\ \A t \in Sites : t # s => files'[t] = files[t]
    <3>1. files'[s] \subseteq files[s]
      BY <1>5, TypeDelete DEF AdminDelete
    <3> QED BY <1>5, <3>1 DEF AdminDelete, delete_routes, remove_mailboxes, TypeInv, TypeOK
  <2>3. ASSUME NEW f \in files[s] \ files'[s], NEW g \in files[s], g.box = f.box
        PROVE  g \notin files'[s]
    <3>1. files'[s] = Outside(files[s], Deletable(s, as)) \/ files'[s] = files[s]
      BY <1>5 DEF AdminDelete, delete_routes, remove_mailboxes, TypeInv, TypeOK
    <3> QED BY <2>3, <3>1 DEF Outside
  <2>4. \A n : n \in S <=> \E f \in files[s] \ files'[s] : f.whole /\ n = f.mail
    BY DEF WholeMail
  <2>5. S \subseteq Boxed
    BY <2>4, BoxedFiles
  <2>6. \A n \in S : n \notin Boxed'
    <3> SUFFICES ASSUME NEW n \in S, n \in Boxed' PROVE FALSE
      OBVIOUS
    <3>1. PICK f \in files[s] \ files'[s] : f.whole /\ n = f.mail
      BY <2>4
    <3>0. PICK t \in Sites : \E g \in files'[t] : g.mail = n
      BY BoxedFiles
    <3>2. PICK g \in files'[t] : g.mail = n
      BY <3>0
    <3>3. g \in files[t]
      BY <2>2
    <3>4. t = s /\ g.box = f.box
      BY <3>1, <3>2, <3>3 DEF FilesInv
    <3> QED BY <2>3, <3>2, <3>3, <3>4
  <2>7. \A n : n \in Boxed' => n \in Boxed
    BY <2>2, BoxedFiles
  <2>8. \A n \in Boxed : n \notin S => n \in Boxed'
    <3> SUFFICES ASSUME NEW n \in Boxed, n \notin S PROVE n \in Boxed'
      OBVIOUS
    <3>0. PICK t \in Sites : \E f \in files[t] : f.mail = n /\ f.whole
      BY BoxedFiles
    <3>1. PICK f \in files[t] : f.mail = n /\ f.whole
      BY <3>0
    <3>2. f \in files'[t]
      BY <2>2, <2>4, <3>1
    <3> QED BY <3>1, <3>2, BoxedFiles
  <2> HIDE DEF S
  <2>9. Boxed' = Boxed \ S
    BY <2>6, <2>7, <2>8
  <2>10. Relay!Wipe(S)
    BY <2>1, <2>5, <2>9 DEF Relay!Wipe
  <2> QED BY <2>5, <2>10 DEF Relay!Next
<1>6. ASSUME NEW r \in Readers, Quit(r) PROVE [Relay!Next]_(Relay!vars)
  <2> DEFINE S == Boxed \ Boxed'
  <2>1. UNCHANGED <<queue, written, fetched, wiped, unfiled, ReadMail>>
    BY <1>6, <1>r DEF Quit, queueVars
  <2>2. \A s \in Sites : files'[s] \subseteq files[s]
    BY <1>6, QuitRemovesRead
  <2>3. Boxed' = Boxed \ S
    BY <2>2, BoxedFiles
  <2>4. S \subseteq ReadMail
    <3> SUFFICES ASSUME NEW n \in Boxed, n \notin Boxed' PROVE n \in ReadMail
      OBVIOUS
    <3>0. PICK s \in Sites : \E f \in files[s] : f.mail = n /\ f.whole
      BY BoxedFiles
    <3>1. PICK f \in files[s] : f.mail = n /\ f.whole
      BY <3>0
    <3>2. f \notin files'[s] /\ f.box = BoxOf[To[n]] /\ n \in written
      BY <3>1, BoxedFiles DEF FilesInv
    <3>3. IsRead(n)
      BY <1>6, <3>1, <3>2, QuitRemovesRead
    <3> QED BY <3>2, <3>3 DEF ReadMail
  <2> HIDE DEF S
  <2>5. S \subseteq Boxed
    BY DEF S
  <2>6. Relay!Expunge(S)
    BY <2>1, <2>3, <2>4, <2>5 DEF Relay!Expunge
  <2> QED BY <2>5, <2>6 DEF Relay!Next
<1>7. ASSUME NEW r \in Readers, NEW s \in Sites, NEW f \in files[s], RetrDele(r, f)
      PROVE  [Relay!Next]_(Relay!vars)
  <2> DEFINE u == pop[r].user
             m == f.mail
  <2>1. pop[r] # None /\ pop[r] \in Session /\ f \in pop[r].snapshot
    BY <1>7 DEF RetrDele, TypeInv, TypeOK
  <2>2. u \in Addrs /\ f.box = BoxOf[u]
    BY <2>1 DEF Session, SessionInv
  <2>3. f.box = BoxOf[To[m]] /\ m \in written
    BY DEF FilesInv
  <2>4. u \in Sharing(To[m])
    BY <2>2, <2>3 DEF Sharing
  <2>5. UNCHANGED <<queue, written, files, wiped, unfiled>>
    BY <1>7 DEF RetrDele, queueVars
  <2>6. Boxed' = Boxed
    BY <2>5 DEF Boxed, InMailbox, Destination
  <2>7. fetched' = fetched \cup {p \in {<<m, u>>} : f.whole}
    BY <1>7 DEF RetrDele
  <2> HIDE DEF u, m
  <2>8. CASE f.whole
    <3>1. fetched' = fetched \cup {<<m, u>>}
      BY <2>7, <2>8
    <3>2. \A n : IsRead(n)' <=> IsRead(n) \/ n = m
      BY <2>4, <3>1 DEF IsRead, Sharing
    <3>3. ReadMail' = ReadMail \cup {m}
      BY <2>3, <2>5, <3>2 DEF ReadMail
    <3>4. m \in Boxed
      BY <2>8, BoxedFiles DEF m
    <3>5. Relay!Fetch(m)
      BY <2>5, <2>6, <3>3, <3>4 DEF Relay!Fetch
    <3> QED BY <3>4, <3>5 DEF Relay!Next
  <2>9. CASE ~f.whole
    <3>1. fetched' = fetched
      BY <2>7, <2>9
    <3> QED BY <1>0, <2>5, <3>1
  <2> QED BY <2>8, <2>9
<1>8. CASE \E c \in Collectors :
             \/ StartPass(c) \/ Connect(c) \/ Rcpt(c) \/ DialFails(c)
             \/ \E m \in pass[c] : CollectLater(c, m) \/ CollectRemote(c, m)
  <2>1. UNCHANGED <<queue, written, boxVars>>
    BY <1>8 DEF StartPass, Connect, Rcpt, DialFails, CollectLater, CollectRemote
  <2> QED BY <1>0, <2>1 DEF boxVars
<1>9. CASE \/ UNCHANGED vars
           \/ \E p \in Dialled : IntervalOver(p[1], p[2])
           \/ \E s \in Sites : Open(s) \/ Crash(s) \/ Restart(s)
           \/ \E p \in Wallets : Register(p[1], p[2]) \/ RegisterErr(p[1], p[2])
                                 \/ EditFile(p[1], p[2])
           \/ \E r \in Readers, p \in Wallets : User(r, p[1], p[2])
           \/ \E r \in Readers : Rset(r) \/ PopLost(r)
  BY <1>0, <1>9 DEF vars, boxVars, queueVars, IntervalOver, Open, Crash, Restart, Register,
                    RegisterErr, EditFile, User, Rset, PopLost
<1> QED BY <1>1, <1>2, <1>3, <1>4, <1>5, <1>6, <1>7, <1>8, <1>9 DEF Next, Collect

(* The sites implement MailRelay: whatever crashes, connections, sessions, *)
(* registrations and deletions interleave, a mail is filed or logged       *)
(* before its file goes, and leaves the mailbox only read or deleted on    *)
(* purpose.                                                                *)
THEOREM SitesImplementRelay == Spec => ImplementsRelay
<1>1. Init => RelayInv /\ Relay!Init
  <2>1. Init => SessionInv /\ DialInv /\ FilesInv
    BY DEF Init, SessionInv, DialInv, FilesInv
  <2>2. ASSUME Init PROVE Relay!Init
    <3>1. queue \subseteq Mail /\ wiped = {} /\ unfiled = {}
      BY <2>2, FatmamaAssumption DEF Init
    <3>2. Boxed = {}
      BY <2>2 DEF Init, Boxed, InMailbox
    <3>3. ReadMail = {}
      BY <2>2 DEF Init, ReadMail, IsRead
    <3> QED BY <3>1, <3>2, <3>3 DEF Relay!Init
  <2> QED BY <2>1, <2>2, TypeInit DEF RelayInv
<1>2. RelayInv /\ [Next]_vars => RelayInv'
  BY TypeStep, SessionStep, DialStep, FilesStep DEF RelayInv
<1>3. RelayInv /\ RelayInv' /\ [Next]_vars => [Relay!Next]_(Relay!vars)
  BY RelayStep
<1> QED BY <1>1, <1>2, <1>3, PTL DEF Spec, ImplementsRelay, Relay!Spec

-----------------------------------------------------------------------------
(* Mail the peer has answered and its sender has not yet unlinked.         *)
Answered == {m \in Mail : \E c \in Collectors : dial[c] # None /\ dial[c].mail = m
                                                /\ dial[c].at = "answered"}

(* Mail that will be delivered once more was so far delivered by faults    *)
(* only.                                                                   *)
CopiesInv ==
  \A m \in Mail :
    /\ copies[m] <= 1 + faults
    /\ m \in queue \ Answered => copies[m] <= faults

(* One more copy of a mail that waits, or of a mail a fault has struck.    *)
LEMMA DeliverCounts ==
  ASSUME TypeInv, CopiesInv, NEW s, NEW m \in Mail, NEW whole, deliver_to_maildir(s, m, whole),
         m \in queue \ Answered
  PROVE  /\ copies'[m] <= 1 + faults
         /\ \A n \in Mail : n # m => copies'[n] = copies[n]
BY DEF TypeInv, TypeOK, CopiesInv, deliver_to_maildir

(* A step has at most one fault.                                           *)
LEMMA FaultsCount ==
  ASSUME TypeInv, [Next]_vars
  PROVE  faults' = faults \/ faults' = faults + 1
<1> USE DEF Fault, NoFault, WriteFault, OneMoreFault, bounds
<1>1. ASSUME NEW t, NEW as, NEW w, NEW fs, delete_routes(t, as, w, fs)
      PROVE  faults' = faults \/ faults' = faults + 1
  BY <1>1 DEF delete_routes, persist_routes_err
<1>2. ASSUME NEW c \in Collectors, Collect(c) \/ DataErr(c) \/ DataCut(c) \/ DialFails(c)
      PROVE  faults' = faults \/ faults' = faults + 1
  BY <1>2 DEF Collect, StartPass, CollectLocal, CollectLater, CollectRemote, Connect, Rcpt,
              Data, Ack, DataErr, DataCut, DialFails, persist_routes_err
<1>3. CASE \/ UNCHANGED vars
           \/ \E p \in Dialled : IntervalOver(p[1], p[2])
           \/ \E s \in Sites : Open(s) \/ Crash(s) \/ Restart(s)
           \/ \E p \in Wallets : Register(p[1], p[2]) \/ RegisterErr(p[1], p[2])
                                 \/ EditFile(p[1], p[2])
           \/ \E r \in Readers, p \in Wallets : User(r, p[1], p[2])
           \/ \E r \in Readers : Rset(r) \/ PopLost(r)
           \/ \E r \in Readers, s \in Sites : \E f \in files[s] : RetrDele(r, f)
  BY <1>3 DEF vars, IntervalOver, Open, Crash, Restart, Register, RegisterErr, EditFile, User,
              Rset, PopLost, RetrDele, persist_routes_err, mark_registered_err
<1>4. CASE \/ \E s \in Sites : \E as \in (SUBSET routes[s]) \ {{}}, w \in BOOLEAN :
                AdminDelete(s, as, w)
           \/ \E r \in Readers : Quit(r)
  BY <1>1, <1>4 DEF AdminDelete, Quit
<1> QED BY <1>2, <1>3, <1>4 DEF Next

LEMMA CopiesStep ==
  ASSUME TypeInv, CopiesInv, [Next]_vars
  PROVE  CopiesInv'
<1> USE DEF TypeInv
<1>0. faults \in Nat /\ \A m \in Mail : copies[m] \in Nat
  <2>1. copies \in [Mail -> Nat] /\ faults \in 0..MaxFaults
    BY DEF TypeOK
  <2>2. MaxFaults \in Nat
    BY FatmamaAssumption
  <2>3. faults \in Nat
    BY <2>1, <2>2
  <2> QED BY <2>1, <2>3
<1>1. ASSUME UNCHANGED <<copies, faults>>, queue' \subseteq queue,
             (Answered \cap queue') \subseteq Answered'
      PROVE  CopiesInv'
  <2>1. queue' \ Answered' \subseteq queue \ Answered
    BY <1>1
  <2> QED BY <1>1, <2>1 DEF CopiesInv
<1>2. ASSUME UNCHANGED copies, faults' = faults + 1
      PROVE  CopiesInv'
  BY <1>0, <1>2 DEF CopiesInv
<1>f. faults' = faults \/ faults' = faults + 1
  BY FaultsCount
<1>3. ASSUME UNCHANGED <<copies, queue, dial>> PROVE CopiesInv'
  <2>1. CASE faults' = faults
    BY <1>1, <1>3, <2>1 DEF Answered
  <2>2. CASE faults' = faults + 1
    BY <1>2, <1>3, <2>2
  <2> QED BY <1>f, <2>1, <2>2
<1>4. ASSUME NEW c \in Collectors, NEW m \in pass[c], CollectLocal(c, m)
      PROVE  CopiesInv'
  <2>1. m \in Mail /\ m \in queue /\ From[m] = c /\ dial[c] = None /\ UNCHANGED dial
    BY <1>4 DEF CollectLocal, Idle, PassInv, TypeOK
  <2>2. m \notin Answered /\ Answered' = Answered
    BY <2>1 DEF Answered, TypeOK
  <2>3. CASE deliver_to_maildir(c[1], m, TRUE) /\ queue' = queue \ {m} /\ NoFault
    <3>1. /\ copies'[m] <= 1 + faults /\ m \notin queue'
          /\ \A n \in Mail : n # m => copies'[n] = copies[n]
      BY <2>1, <2>2, <2>3, DeliverCounts
    <3> QED BY <2>2, <2>3, <3>1 DEF CopiesInv, NoFault
  <2>4. CASE deliver_to_maildir(c[1], m, TRUE) /\ UNCHANGED queue /\ Fault
    <3>1. /\ copies'[m] <= 1 + faults /\ faults' = faults + 1
          /\ \A n \in Mail : n # m => copies'[n] = copies[n]
      BY <2>1, <2>2, <2>4, DeliverCounts DEF Fault, OneMoreFault
    <3>2. \A n \in Mail : copies'[n] <= faults'
      BY <1>0, <3>1 DEF CopiesInv
    <3>3. \A n \in Mail : copies'[n] \in Nat
      BY <2>1, <2>4, TypeDeliver
    <3> QED BY <1>0, <3>1, <3>2, <3>3 DEF CopiesInv
  <2>5. CASE UNCHANGED copies /\ Fault
    BY <1>2, <2>5 DEF Fault, OneMoreFault
  <2> QED BY <1>4, <2>3, <2>4, <2>5 DEF CollectLocal
<1>5. ASSUME NEW c \in Collectors, Data(c) \/ DataErr(c) \/ DataCut(c)
      PROVE  CopiesInv'
  <2> DEFINE m == dial[c].mail
             s == Host[m]
  <2>1. dial[c] # None /\ dial[c] \in Dial /\ dial[c].at = "data"
    BY <1>5 DEF Data, DataErr, DataCut, At, TypeOK
  <2>2. m \in Mail /\ m \in queue /\ From[m] = c
    BY <2>1 DEF Dial, TypeOK
  <2>3. m \notin Answered
    BY <2>1, <2>2 DEF Answered, TypeOK
  <2>4. UNCHANGED queue
    BY <1>5 DEF Data, DataErr, DataCut
  <2>5. CASE Data(c) \/ DataErr(c)
    <3>1. Answered' = Answered \cup {m}
      <4>1. dial' = [dial EXCEPT ![c] = [dial[c] EXCEPT !.at = "answered"]]
        BY <2>5 DEF Data, DataErr, DialGoes
      <4>2. dial'[c].mail = m /\ dial'[c].at = "answered" /\ dial'[c] # None
        <5>1. dial'[c] = [dial[c] EXCEPT !.at = "answered"]
          BY <4>1 DEF TypeOK
        <5>2. [dial[c] EXCEPT !.at = "answered"] \in Dial
          BY <2>1 DEF Dial, Stages
        <5> QED BY <2>1, <5>1, <5>2, FatmamaAssumption DEF Dial
      <4>3. \A e \in Collectors : e # c => dial'[e] = dial[e]
        BY <4>1 DEF TypeOK
      <4> QED BY <2>1, <2>2, <4>2, <4>3 DEF Answered
    <3>2. CASE UNCHANGED copies
      <4> QED BY <1>0, <1>f, <2>4, <3>1, <3>2 DEF CopiesInv
    <3>3. CASE Filed(s, m)
      <4>1. /\ copies'[m] <= 1 + faults
            /\ \A n \in Mail : n # m => copies'[n] = copies[n]
        <5> HIDE DEF m, s
        <5> QED BY <2>2, <2>3, <3>3, DeliverCounts DEF Filed
      <4>2. \A n \in Mail : copies'[n] \in Nat
        <5> HIDE DEF m, s
        <5> QED BY <2>2, <3>3, TypeDeliver DEF Filed
      <4>3. m \in Answered'
        BY <3>1
      <4>4. ASSUME NEW n \in Mail
            PROVE  /\ copies'[n] <= 1 + faults'
                   /\ n \in queue' \ Answered' => copies'[n] <= faults'
        <5>1. CASE n = m
          BY <1>0, <1>f, <4>1, <4>2, <4>3, <5>1
        <5>2. CASE n # m
          <6>1. copies'[n] = copies[n] /\ (n \in queue' \ Answered' => n \in queue \ Answered)
            BY <2>4, <3>1, <4>1, <5>2
          <6>2. copies[n] <= 1 + faults /\ (n \in queue \ Answered => copies[n] <= faults)
            BY DEF CopiesInv
          <6>3. copies[n] \in Nat /\ faults \in Nat
            BY <1>0
          <6> HIDE DEF m, s
          <6> QED BY <1>f, <6>1, <6>2, <6>3
        <5> QED BY <5>1, <5>2
      <4> QED BY <4>4 DEF CopiesInv
    <3> QED BY <2>5, <3>2, <3>3 DEF Data, DataErr, Unfiled
  <2>6. CASE DataCut(c)
    <3>1. faults' = faults + 1 /\ (UNCHANGED copies \/ deliver_to_maildir(s, m, FALSE))
      BY <2>6 DEF DataCut, Fault, OneMoreFault
    <3>2. CASE UNCHANGED copies
      BY <1>2, <3>1, <3>2
    <3>3. CASE deliver_to_maildir(s, m, FALSE)
      <4>1. /\ copies'[m] <= 1 + faults
            /\ \A n \in Mail : n # m => copies'[n] = copies[n]
        <5> HIDE DEF m, s
        <5> QED BY <2>2, <2>3, <3>3, DeliverCounts
      <4>2. faults' = faults + 1 /\ \A n \in Mail : copies'[n] <= faults'
        BY <1>0, <3>1, <4>1 DEF CopiesInv
      <4>3. \A n \in Mail : copies'[n] \in Nat
        BY <2>2, <3>3, TypeDeliver
      <4> QED BY <1>0, <4>2, <4>3 DEF CopiesInv
    <3> QED BY <3>1, <3>2, <3>3
  <2> QED BY <1>5, <2>5, <2>6
<1>6. ASSUME NEW c \in Collectors, Ack(c)
      PROVE  CopiesInv'
  <2>1. /\ dial' = [dial EXCEPT ![c] = None] /\ queue' = queue \ {dial[c].mail}
        /\ UNCHANGED <<copies, faults>>
    BY <1>6 DEF Ack, HangUp, boxVars, bounds
  <2>2. (Answered \cap queue') \subseteq Answered'
    BY <2>1 DEF Answered, TypeOK
  <2> QED BY <1>1, <2>1, <2>2
<1>7. ASSUME NEW c \in Collectors,
             \/ Connect(c) \/ Rcpt(c)
             \/ \E m \in pass[c] : CollectRemote(c, m)
      PROVE  CopiesInv'
  <2>1. ~At(c, "answered")
    BY <1>7 DEF Connect, Rcpt, At, CollectRemote, Idle
  <2>2. \A e \in Collectors : e # c => dial'[e] = dial[e]
    BY <1>7 DEF Connect, Rcpt, CollectRemote, HangUp, DialGoes, TypeOK
  <2>3. UNCHANGED <<copies, faults, queue>>
    BY <1>7 DEF Connect, Rcpt, CollectRemote, boxVars, bounds
  <2>4. Answered \subseteq Answered'
    BY <2>1, <2>2 DEF Answered, At
  <2> QED BY <1>1, <2>3, <2>4
<1>8. ASSUME NEW c \in Collectors, StartPass(c) \/ \E m \in pass[c] : CollectLater(c, m)
      PROVE  CopiesInv'
  BY <1>3, <1>8 DEF StartPass, CollectLater, boxVars, bounds
<1>9. CASE (\E c \in Collectors : DialFails(c)) \/ (\E s \in Sites : Crash(s))
  BY <1>2, <1>9 DEF DialFails, Crash, Fault, OneMoreFault, boxVars
<1>10. CASE \/ UNCHANGED vars
            \/ \E p \in Dialled : IntervalOver(p[1], p[2])
            \/ \E s \in Sites : Open(s) \/ Restart(s)
            \/ \E p \in Wallets : Register(p[1], p[2]) \/ RegisterErr(p[1], p[2])
                                  \/ EditFile(p[1], p[2])
            \/ \E s \in Sites : \E as \in (SUBSET routes[s]) \ {{}}, w \in BOOLEAN :
                 AdminDelete(s, as, w)
            \/ \E r \in Readers, p \in Wallets : User(r, p[1], p[2])
            \/ \E r \in Readers : Rset(r) \/ Quit(r) \/ PopLost(r)
            \/ \E r \in Readers, s \in Sites : \E f \in files[s] : RetrDele(r, f)
  BY <1>3, <1>10 DEF vars, boxVars, queueVars, bounds, IntervalOver, Open, Restart, Register,
                     RegisterErr, EditFile, AdminDelete, User, Rset, Quit, PopLost, RetrDele
<1> QED BY <1>4, <1>5, <1>6, <1>7, <1>8, <1>9, <1>10 DEF Next, Collect

(* However often connections are lost, unlinks fail and daemons die, mail  *)
(* is put into mailboxes at most once more than that.                      *)
THEOREM FaultsAccountForCopies == Spec => []DuplicatesAreAccounted
<1> DEFINE Inv == TypeInv /\ CopiesInv
<1>1. Init => Inv
  <2>1. Init => CopiesInv
    BY DEF Init, CopiesInv
  <2> QED BY <2>1, TypeInit
<1>2. Inv /\ [Next]_vars => Inv'
  BY TypeStep, CopiesStep
<1>3. Inv => DuplicatesAreAccounted
  BY DEF CopiesInv, DuplicatesAreAccounted
<1> HIDE DEF Inv
<1> QED BY <1>1, <1>2, <1>3, PTL DEF Spec
=============================================================================
