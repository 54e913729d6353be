------------------------------ MODULE Fatmama ------------------------------
(***************************************************************************)
(* FATMAMA sites (fatmama/fatmama.py): the route table and its file, the   *)
(* mailboxes, the two collectors that empty ANTIE's outbox and pickup      *)
(* directories, the relay between sites, registration, POP3 and the        *)
(* reclamation of drained accounts, and the administration of routes.      *)
(*                                                                         *)
(* A site is one asyncio loop: what runs between two awaits is one step    *)
(* here.  Several sessions are open at a time, and each of them reloaded   *)
(* the routes when it was opened (Open), not when it uses them.            *)
(***************************************************************************)
EXTENDS Naturals

CONSTANTS Sites,
          Addrs,         \* cluster addresses
          Managed,       \* addresses whose mailbox is a fatmama-mailbox-<slug>
          Boxes, BoxOf,  \* the mailbox directory of an address
          Init0,         \* the addresses in a site's first routes.json
          AutoCreate,    \* sites that run with --auto-create
          Production,    \* sites that run with mode "production"
          Mail,          \* files ANTIE writes; numbered in sorted(iterdir()) order
          Batches,       \* the sets of mail ANTIE may have written
          From,          \* the collector whose directory a mail is written to
          To,            \* its (inner) recipient
          Headless,      \* mail without a To: (OpenPGP output, say); its To is not read
          Host,          \* the host of a wrapped address or of the pickup directory
          NoHost,        \* a plain address
          Wallets,       \* the wallets that register and poll, and where
          Readers,       \* POP3 connections
          None,
          MaxOps,        \* bound: edits of routes.json, delete and wipe requests
          MaxFaults      \* bound: crashes, lost connections, failed writes

(* The collectors that are configured (--outbox, --pickup-base).           *)
Collectors == {From[m] : m \in Mail}
(* Which sites may dial which hosts.                                       *)
Dialled == {<<From[m][1], Host[m]>> : m \in {n \in Mail : Host[n] # NoHost}}
Stages == {"connect", "rcpt", "data", "answered"}
Dial == [mail : Mail, at : Stages]
File == [box : Boxes, mail : Mail, copy : Nat, whole : BOOLEAN]
Session == [site : Sites, user : Addrs, snapshot : SUBSET File, deleted : SUBSET File]

ASSUME FatmamaAssumption ==
  /\ Managed \subseteq Addrs /\ AutoCreate \subseteq Sites /\ Production \subseteq Sites
  /\ Wallets \subseteq Sites \X Managed
  /\ BoxOf \in [Addrs -> Boxes]
  /\ Init0 \in [Sites -> (SUBSET Addrs) \ {{}}]
  /\ Mail \subseteq Nat /\ Batches \subseteq SUBSET Mail
  /\ From \in [Mail -> Sites \X {"outbox", "pickup"}] /\ To \in [Mail -> Managed]
  /\ Headless \subseteq Mail
  /\ NoHost \notin Sites /\ DOMAIN Host = Mail
  /\ None \notin Dial /\ None \notin Session
  /\ MaxOps \in Nat /\ MaxFaults \in Nat

VARIABLES up,            \* the daemon runs
          routes,        \* self.routes: the addresses in it
          file,          \* routes.json
          newer,         \* routes.json is newer than _routes_mtime
          marker,        \* mailboxes with .fatmama-auto in them
          files,         \* the message files in new/ of the site's mailboxes
          written,       \* the mail of this behaviour
          queue,         \* mail of it still in the directory it was written to
          pass,          \* a collector's listing: the files it has yet to look at
          dial,          \* the cross-site delivery a collector waits for
          recent,        \* hosts dialled less than CROSS_SITE_MIN_INTERVAL_S ago
          pop,           \* POP3 sessions
          copies,        \* how often a mail was put into a mailbox
          fetched,       \* who has read a whole copy of which mail
          wiped,         \* whole mail an administrator deleted with its mailbox
          unfiled,       \* mail acknowledged to the sending site and not filed
          registered,    \* addresses whose XAXIOM-REGISTER was answered 250
          unkept,        \* addresses whose last change could not be written to disk
          ops, faults

routeVars == <<routes, file, newer, marker, registered>>
boxVars == <<files, copies, fetched, wiped, unfiled>>
queueVars == <<written, queue, pass, dial, recent>>
bounds == <<ops, faults, unkept>>
vars == <<up, routeVars, boxVars, queueVars, pop, bounds>>

TypeOK ==
  /\ up \in [Sites -> BOOLEAN]
  /\ routes \in [Sites -> SUBSET Addrs] /\ file \in [Sites -> SUBSET Addrs]
  /\ newer \in [Sites -> BOOLEAN] /\ marker \in [Sites -> SUBSET Boxes]
  /\ files \in [Sites -> SUBSET File]
  /\ written \subseteq Mail /\ queue \subseteq written
  /\ pass \in [Collectors -> SUBSET Mail] /\ dial \in [Collectors -> Dial \cup {None}]
  /\ \A c \in Collectors :
       dial[c] # None => From[dial[c].mail] = c /\ dial[c].mail \in queue
  /\ recent \subseteq Dialled
  /\ pop \in [Readers -> Session \cup {None}]
  /\ copies \in [Mail -> Nat]
  /\ fetched \subseteq Mail \X Addrs /\ wiped \subseteq Mail /\ unfiled \subseteq Mail
  /\ registered \in [Sites -> SUBSET Managed] /\ unkept \in [Sites -> SUBSET Addrs]
  /\ ops \in 0..MaxOps /\ faults \in 0..MaxFaults

Init ==
  /\ up = [s \in Sites |-> TRUE]
  /\ routes = Init0 /\ file = Init0
  /\ newer = [s \in Sites |-> FALSE] /\ marker = [s \in Sites |-> {}]
  /\ files = [s \in Sites |-> {}]
  /\ written \in Batches /\ queue = written
  /\ pass = [c \in Collectors |-> {}] /\ dial = [c \in Collectors |-> None]
  /\ recent = {}
  /\ pop = [r \in Readers |-> None]
  /\ copies = [m \in Mail |-> 0]
  /\ fetched = {} /\ wiped = {} /\ unfiled = {}
  /\ registered = [s \in Sites |-> {}] /\ unkept = [s \in Sites |-> {}]
  /\ ops = 0 /\ faults = 0

(* A fault of the environment that this behaviour still has left; one that *)
(* is a failed write to routes.json or of a marker concerns addresses.     *)
OneMoreFault == faults < MaxFaults /\ faults' = faults + 1
Fault == OneMoreFault /\ UNCHANGED unkept
WriteFault(s, as) == OneMoreFault /\ unkept' = [unkept EXCEPT ![s] = @ \cup as]
NoFault == UNCHANGED <<faults, unkept>>

-----------------------------------------------------------------------------
(* The route table and its file.                                           *)

Reloaded(s) == IF newer[s] THEN file[s] ELSE routes[s]

(* _maybe_reload_routes: the file replaces the table if it is newer.       *)
maybe_reload_routes(s) ==
  /\ routes' = [routes EXCEPT ![s] = Reloaded(s)]
  /\ newer' = [newer EXCEPT ![s] = FALSE]

(* _persist_routes: the whole table replaces the file.                     *)
persist_routes(s, table) ==
  /\ routes' = [routes EXCEPT ![s] = table]
  /\ file' = [file EXCEPT ![s] = table]
  /\ newer' = [newer EXCEPT ![s] = FALSE]

(* It raises: the caller has changed the table, the file is the old one.   *)
persist_routes_err(s, table) ==
  /\ routes' = [routes EXCEPT ![s] = table]
  /\ UNCHANGED <<file, newer>>
  /\ WriteFault(s, (table \ routes[s]) \cup (routes[s] \ table))

(* _register_route: an address that has a route already changes nothing.   *)
register_route(s, a) ==
  IF a \in routes[s] THEN UNCHANGED <<routes, file, newer>>
                     ELSE persist_routes(s, routes[s] \cup {a})

(* Faulty variant: the marker is only looked at for a new route.           *)
MarkRegisteredIfAdded(s, a) ==
  marker' = [marker EXCEPT ![s] = IF a \in routes[s] THEN @ ELSE @ \ {BoxOf[a]}]

(* _mark_registered: promotes the account by removing the marker.          *)
mark_registered(s, a) == marker' = [marker EXCEPT ![s] = @ \ {BoxOf[a]}]

(* The unlink of the marker fails: a warning is logged, nothing raised.    *)
mark_registered_err(s, a) ==
  BoxOf[a] \in marker[s] /\ UNCHANGED marker /\ WriteFault(s, {a})

is_protected_route(a) == a \notin Managed

(* The routes a deletion of as really removes.                             *)
Deletable(s, as) == {a \in as \cap routes[s] : ~is_protected_route(a)}

(* Of the remaining files: those not in a mailbox that goes with its route.*)
Outside(fs, gone) == {f \in fs : f.box \notin {BoxOf[a] : a \in gone}}

(* The mailboxes and what is in them, markers included.                    *)
remove_mailboxes(s, gone, with_maildir, fs) ==
  /\ files' = [files EXCEPT ![s] = IF with_maildir THEN Outside(fs, gone) ELSE fs]
  /\ marker' = [marker EXCEPT ![s] =
                  IF with_maildir THEN @ \ {BoxOf[a] : a \in gone} ELSE @]

(* _delete_routes, with or without the mailboxes; fs is what the site's    *)
(* mailboxes hold when it is called.  The file is written last, and its    *)
(* caller answers or logs the error if that fails.                         *)
delete_routes(s, as, with_maildir, fs) ==
  LET gone == Deletable(s, as) IN
  /\ \/ gone = {} /\ UNCHANGED <<routes, file, newer>> /\ NoFault
     \/ gone # {} /\ persist_routes(s, routes[s] \ gone) /\ NoFault
     \/ gone # {} /\ persist_routes_err(s, routes[s] \ gone)
  /\ remove_mailboxes(s, gone, with_maildir, fs)

(* A client opens an SMTP, HTTP or POP3 connection.                        *)
Open(s) ==
  /\ up[s]
  /\ maybe_reload_routes(s)
  /\ UNCHANGED <<up, file, marker, registered, boxVars, queueVars, pop, bounds>>

(* XAXIOM-REGISTER <a> in an open session.                                 *)
Register(s, a) ==
  /\ up[s] /\ s \notin Production
  /\ register_route(s, a)
  /\ mark_registered(s, a)
  /\ registered' = [registered EXCEPT ![s] = @ \cup {a}]
  /\ UNCHANGED <<up, boxVars, queueVars, pop, bounds>>

(* It is not as it should be: the file is not written, the answer is 451   *)
(* and the marker is not looked at, but the table has the route, so that a *)
(* second attempt is answered 250 by Register; or the marker stays and the *)
(* answer is 250 all the same.                                             *)
RegisterErr(s, a) ==
  /\ up[s] /\ s \notin Production
  /\ \/ /\ a \notin routes[s] /\ persist_routes_err(s, routes[s] \cup {a})
        /\ UNCHANGED <<marker, registered>>
     \/ /\ register_route(s, a) /\ mark_registered_err(s, a)
        /\ registered' = [registered EXCEPT ![s] = @ \cup {a}]
  /\ UNCHANGED <<up, boxVars, queueVars, pop, ops>>

(* An operator or a deployment tool adds an address to routes.json.        *)
EditFile(s, a) ==
  /\ ops < MaxOps /\ ops' = ops + 1
  /\ a \notin file[s]
  /\ file' = [file EXCEPT ![s] = @ \cup {a}]
  /\ newer' = [newer EXCEPT ![s] = TRUE]
  /\ UNCHANGED <<up, routes, marker, registered, boxVars, queueVars, pop, faults, unkept>>

WholeMail(fs) == {f.mail : f \in {g \in fs : g.whole}}

(* POST /routes/delete, and POST /routes/wipe with as the whole table.     *)
AdminDelete(s, as, with_maildir) ==
  /\ up[s] /\ ops < MaxOps /\ ops' = ops + 1
  /\ delete_routes(s, as, with_maildir, files[s])
  /\ wiped' = wiped \cup WholeMail(files[s] \ files'[s])
  /\ registered' = [registered EXCEPT ![s] = @ \ as]
  /\ UNCHANGED <<up, copies, fetched, unfiled, queueVars, pop>>

-----------------------------------------------------------------------------
(* Collection and relay.                                                   *)

(* The public name of a site is read from antie.toml beside the maildir of *)
(* a validator, so it is known only while such a route is in the table.    *)
my_domains(s, table) == IF table \subseteq Managed THEN {} ELSE {s}

(* The recipient of m lives on s, if anywhere.                             *)
IsLocal(s, m) == Host[m] = NoHost \/ Host[m] \in my_domains(s, routes[s])

(* A file in the mailbox of m's recipient.                                 *)
deliver_to_maildir(s, m, whole) ==
  /\ files' = [files EXCEPT ![s] = @ \cup
       {[box |-> BoxOf[To[m]], mail |-> m, copy |-> copies[m] + 1, whole |-> whole]}]
  /\ copies' = [copies EXCEPT ![m] = @ + 1]

Idle(c) == up[c[1]] /\ dial[c] = None
IsNext(c, m) == m \in pass[c] /\ \A n \in pass[c] : m <= n
(* The outbox collector goes by To:, the other by the directory as well.   *)
HasAddress(c, m) == m \notin Headless \/ c[2] = "pickup"
HasMailbox(c, m) == m \notin Headless /\ To[m] \in routes[c[1]]

(* Faulty variant: the table is the one of the start.                      *)
StartPassNoReload(c) ==
  /\ Idle(c) /\ pass[c] = {}
  /\ pass' = [pass EXCEPT ![c] = {m \in queue : From[m] = c}]
  /\ UNCHANGED <<up, routeVars, boxVars, written, queue, dial, recent, pop, bounds>>

(* The next pass: reload the routes, list the directory.                   *)
StartPass(c) ==
  /\ Idle(c) /\ pass[c] = {}
  /\ maybe_reload_routes(c[1])
  /\ pass' = [pass EXCEPT ![c] = {m \in queue : From[m] = c}]
  /\ UNCHANGED <<up, file, marker, registered, boxVars, written, queue, dial, recent,
                 pop, bounds>>

(* The next file of the pass is for a mailbox of this site: delivered and  *)
(* unlinked.  If either fails the file stays; a failed unlink leaves the   *)
(* copy as well.                                                           *)
CollectLocal(c, m) ==
  /\ Idle(c) /\ IsNext(c, m) /\ IsLocal(c[1], m) /\ HasMailbox(c, m)
  /\ pass' = [pass EXCEPT ![c] = @ \ {m}]
  /\ \/ deliver_to_maildir(c[1], m, TRUE) /\ queue' = queue \ {m} /\ NoFault
     \/ deliver_to_maildir(c[1], m, TRUE) /\ UNCHANGED queue /\ Fault
     \/ UNCHANGED <<files, copies, queue>> /\ Fault
  /\ UNCHANGED <<up, routeVars, fetched, wiped, unfiled, written, dial, recent, pop, ops>>

(* It has no recipient, or no mailbox here and no other host: kept.  Or    *)
(* its host was dialled a moment ago: left for a later pass.               *)
CollectLater(c, m) ==
  /\ Idle(c) /\ IsNext(c, m)
  /\ \/ ~HasAddress(c, m)
     \/ IsLocal(c[1], m) /\ ~HasMailbox(c, m)
     \/ ~IsLocal(c[1], m) /\ <<c[1], Host[m]>> \in recent
  /\ pass' = [pass EXCEPT ![c] = @ \ {m}]
  /\ UNCHANGED <<up, routeVars, boxVars, written, queue, dial, recent, pop, bounds>>

(* Faulty variant: the file is unlinked before the peer has it.            *)
CollectRemoteUnlinks(c, m) ==
  /\ Idle(c) /\ IsNext(c, m) /\ HasAddress(c, m)
  /\ ~IsLocal(c[1], m) /\ <<c[1], Host[m]>> \notin recent
  /\ pass' = [pass EXCEPT ![c] = @ \ {m}]
  /\ recent' = recent \cup {<<c[1], Host[m]>>}
  /\ dial' = [dial EXCEPT ![c] = [mail |-> m, at |-> "connect"]]
  /\ queue' = queue \ {m}
  /\ UNCHANGED <<up, routeVars, boxVars, written, pop, bounds>>

(* It is for another site: its host is dialled.                            *)
CollectRemote(c, m) ==
  /\ Idle(c) /\ IsNext(c, m) /\ HasAddress(c, m)
  /\ ~IsLocal(c[1], m) /\ <<c[1], Host[m]>> \notin recent
  /\ pass' = [pass EXCEPT ![c] = @ \ {m}]
  /\ recent' = recent \cup {<<c[1], Host[m]>>}
  /\ dial' = [dial EXCEPT ![c] = [mail |-> m, at |-> "connect"]]
  /\ UNCHANGED <<up, routeVars, boxVars, written, queue, pop, bounds>>

At(c, stage) == dial[c] # None /\ dial[c].at = stage
DialGoes(c, stage) == dial' = [dial EXCEPT ![c].at = stage]
HangUp(c) == dial' = [dial EXCEPT ![c] = None]

(* cross_site_deliver up to the handshake.  The peer reloads its routes; a *)
(* host that is down or no FATMAMA ends it before anything is sent.        *)
Connect(c) ==
  LET peer == Host[dial[c].mail] IN
  /\ At(c, "connect")
  /\ \/ peer \in Sites /\ up[peer] /\ maybe_reload_routes(peer) /\ DialGoes(c, "rcpt")
     \/ peer \in Sites /\ ~up[peer] /\ HangUp(c) /\ UNCHANGED <<routes, newer>>
     \/ peer \notin Sites /\ HangUp(c) /\ UNCHANGED <<routes, newer>>
  /\ UNCHANGED <<up, file, marker, registered, boxVars, written, queue, pass, recent,
                 pop, bounds>>

(* Faulty variant: the wrapped address is not unwrapped at the door.       *)
RcptNoUnwrap(c) ==
  /\ At(c, "rcpt")
  /\ IF c[2] = "pickup" THEN DialGoes(c, "data") ELSE HangUp(c)
  /\ UNCHANGED <<up, routeVars, boxVars, written, queue, pass, recent, pop, bounds>>

(* RCPT TO at the peer.  Pickup mail names the inner address; outbox mail  *)
(* the wrapped one, which the peer must recognise as its own.  Pickup mail *)
(* without a To: is for pickup@<domain>, which no peer takes: that domain  *)
(* is not one of the cluster's, nor the address a wrapped one.             *)
Rcpt(c) ==
  LET m == dial[c].mail IN
  /\ At(c, "rcpt")
  /\ IF /\ m \notin Headless
        /\ c[2] = "pickup" \/ Host[m] \in my_domains(Host[m], routes[Host[m]])
       THEN DialGoes(c, "data")
       ELSE HangUp(c)
  /\ UNCHANGED <<up, routeVars, boxVars, written, queue, pass, recent, pop, bounds>>

Creates(s, a) == s \in AutoCreate /\ a \notin routes[s]

(* _register_route and _mark_auto for an unknown recipient.                *)
auto_create(s, a) ==
  IF Creates(s, a)
    THEN /\ persist_routes(s, routes[s] \cup {a})
         /\ marker' = [marker EXCEPT ![s] = @ \cup {BoxOf[a]}]
    ELSE UNCHANGED <<routes, file, newer, marker>>

HasRoute(s, a) == a \in routes[s] \/ s \in AutoCreate
Filed(s, m) == deliver_to_maildir(s, m, TRUE) /\ UNCHANGED unfiled
Unfiled(m) == unfiled' = unfiled \cup {m} /\ UNCHANGED <<files, copies>>

(* The end of DATA at the peer: the message is filed, or a failed write or *)
(* the lack of a route is logged; in each case the answer is 250.          *)
Data(c) ==
  LET m == dial[c].mail
      s == Host[m] IN
  /\ At(c, "data") /\ DialGoes(c, "answered")
  /\ auto_create(s, To[m])
  /\ \/ HasRoute(s, To[m]) /\ Filed(s, m) /\ NoFault
     \/ HasRoute(s, To[m]) /\ Unfiled(m) /\ Fault
     \/ ~HasRoute(s, To[m]) /\ Unfiled(m) /\ NoFault
  /\ UNCHANGED <<up, registered, fetched, wiped, written, queue, pass, recent, pop, ops>>

(* At the end of DATA the creation of an account goes wrong, and is logged:*)
(* the directories cannot be made, so that there is no route; or the file  *)
(* is not written, and the account is not marked either; or the marker     *)
(* cannot be written.                                                      *)
DataErr(c) ==
  LET m == dial[c].mail
      s == Host[m]
      table == routes[s] \cup {To[m]} IN
  /\ At(c, "data") /\ DialGoes(c, "answered")
  /\ Creates(s, To[m]) /\ UNCHANGED marker
  /\ \/ UNCHANGED <<routes, file, newer>> /\ Fault /\ Unfiled(m)
     \/ persist_routes_err(s, table) /\ Filed(s, m)
     \/ persist_routes(s, table) /\ Fault /\ Filed(s, m)
  /\ UNCHANGED <<up, registered, fetched, wiped, written, queue, pass, recent, pop, ops>>

(* The connection is lost inside the message: the peer files what it has   *)
(* read (IncompleteReadError), the sending site keeps its file.            *)
DataCut(c) ==
  LET m == dial[c].mail
      s == Host[m] IN
  /\ At(c, "data") /\ HangUp(c) /\ Fault
  /\ auto_create(s, To[m])
  /\ IF HasRoute(s, To[m]) THEN deliver_to_maildir(s, m, FALSE)
                           ELSE UNCHANGED <<files, copies>>
  /\ UNCHANGED <<up, registered, fetched, wiped, unfiled, written, queue, pass, recent, pop,
                 ops>>

(* Faulty variant: the file is not unlinked.                               *)
AckKeepsFile(c) ==
  /\ At(c, "answered") /\ HangUp(c)
  /\ UNCHANGED <<up, routeVars, boxVars, written, queue, pass, recent, pop, bounds>>

(* 250 is read: the file is unlinked.                                      *)
Ack(c) ==
  /\ At(c, "answered") /\ HangUp(c)
  /\ queue' = queue \ {dial[c].mail}
  /\ UNCHANGED <<up, routeVars, boxVars, written, pass, recent, pop, bounds>>

(* A timeout or a lost connection at any stage: the file is kept.          *)
DialFails(c) ==
  /\ dial[c] # None /\ HangUp(c) /\ Fault
  /\ UNCHANGED <<up, routeVars, boxVars, written, queue, pass, recent, pop, ops>>

(* CROSS_SITE_MIN_INTERVAL_S is over.                                      *)
IntervalOver(s, h) ==
  /\ <<s, h>> \in recent
  /\ recent' = recent \ {<<s, h>>}
  /\ UNCHANGED <<up, routeVars, boxVars, written, queue, pass, dial, pop, bounds>>

-----------------------------------------------------------------------------
(* POP3.  A client sends USER once, and deletes only what it has read.     *)

(* USER: the listing of the session is frozen.                             *)
User(r, s, a) ==
  /\ up[s] /\ pop[r] = None
  /\ pop' = [pop EXCEPT ![r] =
       [site |-> s, user |-> a, deleted |-> {},
        snapshot |-> IF a \in routes[s] THEN {f \in files[s] : f.box = BoxOf[a]} ELSE {}]]
  /\ UNCHANGED <<up, routeVars, boxVars, queueVars, bounds>>

(* RETR and then DELE of a message that has not disappeared.               *)
RetrDele(r, f) ==
  /\ pop[r] # None
  /\ f \in pop[r].snapshot \ pop[r].deleted /\ f \in files[pop[r].site]
  /\ fetched' = fetched \cup {p \in {<<f.mail, pop[r].user>>} : f.whole}
  /\ pop' = [pop EXCEPT ![r].deleted = @ \cup {f}]
  /\ UNCHANGED <<up, routeVars, files, copies, wiped, unfiled, queueVars, bounds>>

Rset(r) ==
  /\ pop[r] # None /\ pop[r].deleted # {}
  /\ pop' = [pop EXCEPT ![r].deleted = {}]
  /\ UNCHANGED <<up, routeVars, boxVars, queueVars, bounds>>

mailbox_is_empty(fs, a) == \A f \in fs : f.box # BoxOf[a]

(* Faulty variant: reclaims whatever the mailbox still holds.              *)
ReclaimUnlooked(s, a, left) ==
  a \in routes[s] /\ BoxOf[a] \in marker[s] /\ ~is_protected_route(a)

(* A drained account that FATMAMA itself created; left is what the         *)
(* mailboxes of the site hold after the deletions of the session.          *)
Reclaimable(s, a, left) ==
  /\ a \in routes[s] /\ BoxOf[a] \in marker[s] /\ ~is_protected_route(a)
  /\ mailbox_is_empty(left, a)

(* QUIT: unlink what is marked; reclaim the account if that drained it.    *)
Quit(r) ==
  LET p == pop[r]
      left == files[p.site] \ p.deleted IN
  /\ p # None
  /\ pop' = [pop EXCEPT ![r] = None]
  /\ IF p.deleted # {} /\ Reclaimable(p.site, p.user, left)
       THEN delete_routes(p.site, {p.user}, TRUE, left)
       ELSE /\ files' = [files EXCEPT ![p.site] = left]
            /\ UNCHANGED <<routes, file, newer, marker>> /\ NoFault
  /\ UNCHANGED <<up, registered, copies, fetched, wiped, unfiled, queueVars, ops>>

(* The session ends without QUIT (timeout, lost connection).               *)
PopLost(r) ==
  /\ pop[r] # None
  /\ pop' = [pop EXCEPT ![r] = None]
  /\ UNCHANGED <<up, routeVars, boxVars, queueVars, bounds>>

-----------------------------------------------------------------------------
(* The daemon stops and is started again.  Sessions at the site end; a     *)
(* sender that has its answer already may still read it.                   *)
Crash(s) ==
  /\ up[s] /\ Fault
  /\ up' = [up EXCEPT ![s] = FALSE]
  /\ pass' = [c \in Collectors |-> IF c[1] = s THEN {} ELSE pass[c]]
  /\ dial' = [c \in Collectors |->
       IF c[1] = s \/ (dial[c] # None /\ Host[dial[c].mail] = s /\ ~At(c, "answered"))
         THEN None ELSE dial[c]]
  /\ recent' = {p \in recent : p[1] # s}
  /\ pop' = [r \in Readers |-> IF pop[r] # None /\ pop[r].site = s THEN None ELSE pop[r]]
  /\ UNCHANGED <<routeVars, boxVars, written, queue, ops>>

(* cmd_serve: reads routes.json, and refuses to start without routes.      *)
Restart(s) ==
  /\ ~up[s] /\ file[s] # {}
  /\ up' = [up EXCEPT ![s] = TRUE]
  /\ routes' = [routes EXCEPT ![s] = file[s]]
  /\ newer' = [newer EXCEPT ![s] = FALSE]
  /\ UNCHANGED <<file, marker, registered, boxVars, queueVars, pop, bounds>>

-----------------------------------------------------------------------------
Collect(c) ==
  \/ StartPass(c)
  \/ \E m \in pass[c] : CollectLocal(c, m) \/ CollectLater(c, m) \/ CollectRemote(c, m)
  \/ Connect(c) \/ Rcpt(c) \/ Data(c) \/ Ack(c)

Next ==
  \/ \E c \in Collectors : Collect(c) \/ DataErr(c) \/ DataCut(c) \/ DialFails(c)
  \/ \E p \in Dialled : IntervalOver(p[1], p[2])
  \/ \E s \in Sites : Open(s) \/ Crash(s) \/ Restart(s)
  \/ \E p \in Wallets :
       Register(p[1], p[2]) \/ RegisterErr(p[1], p[2]) \/ EditFile(p[1], p[2])
  \/ \E s \in Sites : \E as \in (SUBSET routes[s]) \ {{}}, with_maildir \in BOOLEAN :
       AdminDelete(s, as, with_maildir)
  \/ \E r \in Readers, p \in Wallets : User(r, p[1], p[2])
  \/ \E r \in Readers : Rset(r) \/ Quit(r) \/ PopLost(r)
  \/ \E r \in Readers, s \in Sites : \E f \in files[s] : RetrDele(r, f)

Spec == Init /\ [][Next]_vars

(* The collectors are tasks of a running loop: what they read has a        *)
(* timeout.  What they write has none (drain), so a peer that passed the   *)
(* handshake is assumed to read what it is sent, or to go away.  The       *)
(* interval passes, and the service manager starts the daemon again.       *)
Fairness ==
  /\ \A c \in Collectors : WF_vars(Collect(c))
  /\ \A s \in Sites : WF_vars(Restart(s))
  /\ \A p \in Dialled : WF_vars(IntervalOver(p[1], p[2]))

FairSpec == Spec /\ Fairness

-----------------------------------------------------------------------------
(* Properties.                                                             *)

(* The site whose mailbox a mail is for.                                   *)
Destination(m) == IF Host[m] = NoHost THEN From[m][1] ELSE Host[m]

(* The addresses whose mail goes to the mailbox directory of a: a itself,  *)
(* and any other whose slug is the same, as those of a.b and a-b are.      *)
Sharing(a) == {b \in Addrs : BoxOf[b] = BoxOf[a]}
Unshared(a) == Sharing(a) = {a}

(* What may have become of a mail that left its directory.                 *)
InMailbox(m) ==
  /\ Destination(m) \in Sites
  /\ \E f \in files[Destination(m)] : f.mail = m /\ f.whole /\ f.box = BoxOf[To[m]]
IsRead(m) == \E a \in Sharing(To[m]) : <<m, a>> \in fetched
Settled(m) == InMailbox(m) \/ IsRead(m) \/ m \in wiped \cup unfiled

(* No mail ANTIE wrote disappears: it is still in the directory, or a      *)
(* whole copy is in its recipient's mailbox, or the recipient (or whoever  *)
(* has the same mailbox directory) has read one, or an administrator       *)
(* deleted the mailbox, or the other site answered 250 and logged that it  *)
(* could not file it.  In particular the reclamation of a drained account  *)
(* takes no unread mail with it, not even that of another address in the   *)
(* same directory, and a truncated copy never replaces the file it was cut *)
(* from.                                                                   *)
MailIsAccountedFor == \A m \in written : m \in queue \/ Settled(m)

(* A site keeps the promise of MailRelay: seen from a mail, the collectors,*)
(* the relay, registration, reclamation and administration of two sites    *)
(* are one mailbox that a mail reaches before its file goes and that gives *)
(* up only what was read or deleted on purpose.                            *)
Boxed == {m \in written : InMailbox(m)}
ReadMail == {m \in written : IsRead(m)}
Relay == INSTANCE MailRelay WITH held <- queue, inbox <- Boxed, read <- ReadMail
ImplementsRelay == Relay!Spec

(* A route the validator has, or that XAXIOM-REGISTER promised to an       *)
(* address with a mailbox directory of its own, stays in the table and in  *)
(* the file until an administrator deletes it, whatever is auto-created,   *)
(* reclaimed, reloaded, edited or restarted meanwhile, other addresses     *)
(* with a common directory included; and such a registered account is      *)
(* never marked as one that may be reclaimed.  The promise is not kept for *)
(* an address after a write to routes.json or the unlink of the marker     *)
(* failed for it: 250 is sent for a route that is in the table only, and   *)
(* for one that is still marked (RegisterErr).                             *)
Kept(s) == {a \in registered[s] : Unshared(a) /\ a \notin unkept[s]}
Promised(s) == Kept(s) \cup (Init0[s] \ Managed)
PromisedRoutesKept ==
  \A s \in Sites :
    /\ Promised(s) \subseteq routes[s] \cap file[s]
    /\ \A a \in Kept(s) : BoxOf[a] \notin marker[s]

(* What _handle_client says where XAXIOM-REGISTER is answered: persistent, *)
(* never reclaimed.  The marker is a file in the mailbox directory, so an  *)
(* auto-created address with the same slug marks the registered one too.   *)
RegisteredNeverReclaimed == \A s \in Sites : registered[s] \subseteq routes[s]

(* Mail is put into mailboxes twice only because of a crash, a lost        *)
(* connection or a failed unlink, once for each of them.                   *)
DuplicatesAreAccounted == \A m \in Mail : copies[m] <= 1 + faults

(* A mail that waits for a route on its own site is delivered once the     *)
(* route is in routes.json, however it came there and unless it goes       *)
(* again: the collector reloads the routes itself (_collect_outboxes, on   *)
(* the outage of 2026-08-20).  The table lacks a route the file has while  *)
(* the removal of it could not be written.                                 *)
Waits(m) ==
  LET s == From[m][1] IN
  /\ m \in queue \ Headless /\ Host[m] \in {s, NoHost}
  /\ To[m] \in file[s] \ unkept[s]
WaitingMailFindsRoute == []<>(\A m \in Mail : ~Waits(m))

(* Mail for another FATMAMA that will take it leaves, in spite of the      *)
(* interval between two dials of a host, which the two collectors of a     *)
(* site share, and of restarts at either end.  Outbox mail is taken where  *)
(* a validator makes the site's name known.  Two things hold it up for     *)
(* ever: a site that died with an empty routes.json, which cmd_serve does  *)
(* not start again; and other mail for the same host that the host never   *)
(* takes, since it is dialled whenever the interval is over and may come   *)
(* first each time, from this collector or from the other.                 *)
Relayable ==
  {m \in Mail \ Headless :
                /\ Host[m] \in Sites \ {From[m][1]}
                /\ From[m][2] = "pickup" \/ ~(Init0[Host[m]] \subseteq Managed)}
StaysDown(s) == ~up[s] /\ file[s] = {}
Blocked(m) == \E n \in queue \ Relayable : From[n][1] = From[m][1] /\ Host[n] = Host[m]
RelayDrains ==
  <>((\A m \in queue \cap Relayable : Blocked(m)) \/ \E s \in Sites : StaysDown(s))
=============================================================================
