# AXIOM carriers in TLA+

A verification project for this repository: the ANTIE mail gateway of a
validator (`antie/`), the TOT WebSocket front (`tot/`) and the FATMAMA dev relay
(`fatmama/`). The modules model the parts whose correctness depends on the order
of steps: pull carriers, dispatcher, outgoing mail, the Lambda child process, held
sessions, the loops' heartbeats and their watchdog, the relay between sites.

## 1. The system

```
 mail server --POP3/IMAP--> pull carrier --write--> inbox/new/ --> dispatcher --pipes--> Lambda child
 FATMAMA  ------------------------------------------^   ^             |                      ^
 browser --WebSocket--> TOT --stamp, write--------------+             | replies, cheques     | respawn
            ^                                                         v                      |
            +--- poll <outbox>/<session>/ <--- custody::deposit   SMTP / pickup / skipped  supervisor
```

| Component | State | Operations | Hard part | Correct when |
|---|---|---|---|---|
| Pull carriers, inbox funnel (`carrier.rs`, `gateway.rs:776-1000`) | server mailbox, fetched batch, inbox/new/ | fetch, spam drop, stage, delete upstream, IDLE, poll, back off | crash between stage and delete; ids that outlive their session; readers dropped with what they read ahead; an EXISTS line that is never seen | no mail is deleted before it is staged; all mail is staged |
| Dispatcher (`gateway.rs:1008-2995`, `care_of.rs`, `skip_list.rs`) | new/, cur/, cooldowns, skip list, average, Lambda's replay cache | busy gate, handlers, third-party deliveries, reply, move to cur/ | crash between Lambda's commit and the deliveries; three fallbacks for a cheque; a stale average | one path per artifact; success implies delivery; everybody is answered; the inbox drains |
| Lambda client and supervisor (`lambda_client.rs`) | `Option<Child>` under one mutex, two pipes, `lambda_alive`, `shutting_down`, backoff | start, call, time out, die, reap, respawn, re-push, stop | answers without correlation ids, reads given up or buffered per call; check, await, act | each caller gets its own answer; a dead child is replaced; a stopped one is not |
| TOT session, custody (`tot/src/main.rs`, `custody.rs`) | session directories, reply files | sweep, open, stamp, submit, pump, drop, deposit | two processes on one directory tree; crashes of either | a session gets its own replies, all of them |
| FATMAMA (`fatmama.py`) | route table and file, markers, mailboxes, listings, POP3 sessions | reload, register, auto-create, reclaim, collect, relay, POP3, delete, wipe | sessions that act on routes reloaded long before; a 250 that is lost or stands for a drop; two collectors that share one dial interval | no mail disappears; a promised route stays; mail leaves once it can |
| Outgoing mail (`gateway.rs`, `config.rs`, `carrier.rs:1091-1228, 1872-1893`, `pgp.rs`, `uncle_sink.rs`, `email.rs`) | configuration, mail under way, SMTP dialogue, temporary file, key cache | build, look up a key, encrypt, tee, choose a carrier, hand over | a dialogue or file write that breaks off anywhere; two routers that read an address in different ways; a stale key; a writer and a reader in different processes | Ok means handed over, whole and to the right carrier; the peer can read it; keys are current |
| Health and watchdog (`stats.rs`, `health.rs`, `gateway.rs:26-55, 586-609, 776-941`) | heartbeats, two gauges shared by all loops, what was reported | beat, sleep, idle, note an attempt, judge, report, exit | two atomics updated apart; deliberate waits longer than the bound; calls that never return | gauges add up; whoever waits on purpose is not accused; every stall is reported once |

Pull carriers, FATMAMA and TOT meet the dispatcher only in `inbox/new/`; the
dispatcher meets Lambda only through the mutex; ANTIE and TOT share only the two
directories. The modules are cut along these lines: each of them takes the other
side's behaviour as a free choice (a message of any type arrives, Lambda answers,
refuses or fails, a process dies). Which mails a handler sends is decided in
`Dispatch`, where a send succeeds or fails; what a send does is `Outbound`, where any
mail may be due. When a pull loop waits is nondeterministic in `PullDelivery`; how
long, and what the watchdog makes of it, is `CarrierHealth`.

## 2. Modules

| Module | Models | Correspondence |
|---|---|---|
| `AtLeastOnce` | the promise on `deliver_carrier_messages` | `held` is the mailbox, `staged` counts copies in `inbox/new/` |
| `MailRelay` | what FATMAMA promises of one mail | `held` is `queue` of `Fatmama`, `inbox` the mail with a whole file in its recipient's mailbox (`Boxed`), `read` what was fetched from there (`ReadMail`) |
| `HeldSession` | what TOT and ANTIE promise a session | `state` and `asked` are derived from `CustodySession`'s session table and inbox, `ready` is `files`, `got` is `sent`; `Drop` is a request put away without an answer; `Refused` are the sessions refused at the door |
| `PullDelivery` | one pull carrier loop, either protocol | `check_new`, `spam_drop`, `write_message` and `mark_processed` are the body of `deliver_carrier_messages`; `account` is the configuration, IMAP or POP3; `uid` is the IMAP uid; the POP3 number is recomputed for each session from what the mailbox holds; `blanked` records the mails that a refused FETCH or a dropped POP3 reader handed over as `Blank`; `idle_*` are the stages of `idle_wait`, `polling` the fallback for a server without IDLE |
| `Dispatch` | `process_carrier_messages`, `process_message` and the handlers | `at` is the place in the code, one action per await that can fail or at which the process can die; `lambda` is the YPX-016 replay cache; `hand`, `settled` and `answered` record what left |
| `LambdaSupervisor` | `LambdaClient` in subprocess mode, `Gateway::run`'s use of it | `lock` is the tokio mutex, `pending` and `replies` are the pipes, `skewed` says that a read ended inside a frame, `sup` and `gateway` the two tasks' program points |
| `CustodySession` | `/session` of TOT and `custody::deposit` of ANTIE | `dirs`, `tmpdirs`, `tmp`, `files` are the file tree; `pump_replies`, the deposit and the startup sweep (`Sweep*`, with `due` and `half` for what its listing and its `remove_dir_all` have yet to do) are split at each file operation; `dropped` records the requests put away without an answer |
| `Fatmama` | `FatmamaServer` at each site, `cross_site_deliver` between them | `routes`, `file`, `newer` are `self.routes`, routes.json and the mtime test; `marker` is `.fatmama-auto`; `pass` is what a collector has listed and not yet looked at, `dial` its cross-site delivery by stage, `recent` is `_xsite_last`; `unkept` are the addresses whose last change could not be written to disk, `Headless` is mail without a `To:`; what runs between two awaits is one step |
| `CarrierHealth` | the dispatch loop and the pull loops as far as the watchdog sees them | time is counted in slices of 60 s, the rhythm of `sleep_beating` and of `idle_wait`; `age` is the age of a heartbeat, `phase` a loop's place in `run_imap_carrier` or `pull_loop`; `note_carrier_attempt` is one step per atomic; `Stalled` is `health_verdict` |
| `MailFormat` | writers and reader of mail, the two routers' reading of an address | operators: `build_*` say which subject, body shape and payload a writer produces, `Taken` what `process_message` makes of a mail, `recipient_is_local` and `outbox_for` which domain counts |
| `Outbound` | one outgoing mail from decision to hand-over, and the key cache between mails | extends `MailFormat`; `at` is the program point, `stage` the last SMTP command answered, `seen` what others can see of the mail, whole or not, `keyserver` and `since` the world's side of the key cache |
| `MC*` | constant values for TLC | |
| `PullDeliveryProofs`, `CustodySessionProofs`, `DispatchProofs`, `FatmamaProofs`, `LambdaSupervisorProofs`, `CarrierHealthProofs`, `OutboundProofs` | theorems, checked by TLAPS | |

A definition called "Faulty variant" is not part of any specification: it is a
plausible mistake in the definition that follows it, kept to show that the
property named in PROJECT.json would notice it.

Data are abstracted to what the properties tell apart. A mail is a model value
(`Blank` is a body that is empty or lacks its head); a message has a type, a wallet, a
delivery plan and a flag whether it is encrypted; a frame is its kind and number;
a mail between sites has a directory, an inner recipient and a host, and a file in
a mailbox is whole or truncated. An outgoing mail is a record of recipient, subject,
body shape, payload and the key that all of it is encrypted for; an address is the
sequence of its domains, each with its case; an SMTP reply is good or bad.
Wording, encodings and logging are left out, except that a logged delivery
failure counts as settled.

## 3. Runs

| Run | Checks | Shows |
|---|---|---|
| `pull` | NoMailLost, DuplicatesAreAccounted, EventuallyStaged, ImplementsAtLeastOnce, MailboxDrains, SingleMailIsKept | holds; about 201 000 states |
| `pull_pop3_loss` | NoMailForgotten | **violated**: DELE by a number of an earlier session removes mail that came after the fetch |
| `dispatch` | SinglePath, SuccessMeansDelivered, AnsweredOrReported, NotAllShed, InboxDrains | holds; about 725 000 states, two minutes |
| `dispatch_busy` | ShedIsTold | **violated**: the gate acts before decryption and before the type is known |
| `lambda_supervision` | OwnReply, PipeLag, RespawnEventually, CarriersRepushed, AliveFlagConverges, ShutdownCompletes, StopIsFinal | holds; about 103 000 states, 1.5 minutes |
| `lambda_stop_race` | StaysStopped | **violated**: flag tested, mutex awaited, child spawned after stop() |
| `custody` | OwnRepliesOnly, OpenSessionHasDir, ImplementsHeldSession, AnsweredOrClosed, TotComesUp | holds; about 361 000 states, two minutes |
| `fatmama` | MailIsAccountedFor, PromisedRoutesKept, DuplicatesAreAccounted, ImplementsRelay, WaitingMailFindsRoute, RelayDrains | holds; about 158 000 states, three minutes |
| `fatmama_same_slug` | RegisteredNeverReclaimed | **violated**: two addresses share a directory, the marker of one makes the other reclaimable |
| `health` | TypeOK, GaugeAccounted, StreakClears, NoFalseAlarm, EveryStallReportedOnce, WedgeIsSeen | holds; about 620 000 states, 3.5 minutes |
| `mail` | SentMeansThere, ReadAsWritten, KeyIsCurrent | holds; about 402 000 states |
| `mail_pgp` | CertificateIsReadable | **violated**: a certificate is encrypted with OpenPGP, and no receiver decrypts it |

Each violated property states a sentence of the repository's own comments, docs
or tests, quoted in PROJECT.json under `findings`; everything else holds. The type
invariants are theorems, and only that of `CarrierHealth`, which says that a gauge
does not wrap, is repeated in a run.

**Bounds.** `pull`: an account of either protocol (the initial state chooses); three mails (a batch of two, and one that arrives during
it, is what number shifting and the IDLE window need), `MaxCrashes` 1,
`MaxFaults` 2 (a failed EXPUNGE after a good STORE, then one more);
a pass in which the server refuses some FETCHes is one fault, while what the POP3
reader swallows costs nothing and may happen in every pass. `dispatch`:
two messages, the first always a witness request with a deposit plan, the second
of any type, certificate mail included; two are what the batch, the cooldown and the gate need (depth 1
against depth 0); `MaxRetries` 1 bounds crashes and failed moves together; with
`Threshold` 1 and average 2 one waiting message trips the gate; Lambda's answers
are two artifact sets that between them take every delivery step; messages,
plans and answers are free in the proofs. `lambda_*`: three calls (one given up, one that
reads ahead over what it left, one that meets the result), two deaths (one
in the respawned child), one timeout, one failed spawn, delays 1..3 (two
doublings reach the ceiling). `custody`: two sessions, three frames, so that a
request is submitted twice; two crashes, so that a crashed TOT sweeps what a crashed
ANTIE left. `fatmama`: two sites,
because a hop has two ends and dials do not depend on other sites, and a host that
is none; two mails, which is what two collectors, one mailbox and one interval
need, in the combinations of `SixBatches` that take every branch of both
collectors, among them one for A that A refuses next to one that A takes, and two
without a `To:`; all mail is there from the start, since a mail written later is one
the collector has not come to; one action of an operator (`MaxOps`) and one fault
(`MaxFaults`), at any step and in either order; one POP3 connection. `fatmama_same_slug`: the same
instance with two wallets whose addresses have one slug (`SameSlug`), mail for one of
them, no operator and no fault. `health`: an
account that idles, one that polls and the dispatch loop, which is what the gauges'
last-one-out race and a watchdog with two suspects need; the bound on silence is one
slice and the backoff cap and the recycle time are two, since all that matters is
that deliberate waits outlast the bound, as in the code (30 and 25 minutes against
15); counts of failures saturate at `MaxFailures` 1, which tells "in backoff" from
"not" (the proofs have any number); ages stop counting one past the bound. `mail`:
seven configurations, one per branch of `Gateway::new`, per use of credentials and
one that is refused; five addresses (external, mesh, dual-@, upper case, no @), a
validator outside and one inside the mesh, one owner of a key with two keys, none or
an unusable one; `KEY_CACHE_TTL` two ticks, so that an entry is used at two ages and
expires at a third. No run uses symmetry:
the messages have different roles, or liveness is checked.

**Deadlock.** Off in the dispatcher, Lambda, custody and FATMAMA runs: all clients
may have been served, the gateway may have stopped, a site may stay down. The pull
loop, the loops of `health` and the sender of `mail` never stop, and their runs check
for deadlock.

**Fairness.** Weak for the pull loop: one tokio task that always runs, all of whose
waits have deadlines (IDLE recycles after 25 minutes, every read and write of
`carrier_io` times out). Weak for the dispatcher, but only while it is not waiting for
Lambda (`WaitsForLambda`): its waits for the maildir end (it is polled besides inotify),
while the witness, redeem, ack and genesis reads of Lambda have no timeout
(`lambda_client.rs:974-985`), nor has any write to its stdin. InboxDrains therefore
excepts a dispatcher that waits for Lambda for ever. Weak for a
restart of the process, by the service manager. Strong for whoever waits for the
Lambda mutex: tokio's mutex is first-come first-served, so a waiter is not passed
over for ever. Weak for each FATMAMA collector, a task of the site's loop, and for
the passing of the dial interval: connecting and reading time out, but the `drain()`
calls (`fatmama.py:237, 293, 303`) do not, so a peer that has come as far as the
handshake is assumed to read what it is sent or to go away; not for registration,
POP3 or administration. In `LambdaSupervisor` weak for Lambda's answer, which is its side of the protocol: a
child that hangs without dying is outside ShutdownCompletes. On a pipe that has lost its
frame boundary only the reads that time out, or whose child is dead, are sure to end.
In `CustodySession` likewise: Lambda, which `Take` asks, answers or dies. Weak for TOT's start, sweep included: the service
manager starts it again after a sweep that failed. In `CarrierHealth` strong for the
passing of time, which a busy loop cannot prevent, and weak for the watchdog's own
task, for what a task does as soon as it is scheduled (`Prompt`), and for a restart;
none for a server's or Lambda's answer, which is the point of WedgeIsSeen. Nothing is
assumed of arrivals, faults, crashes, deaths or the operator. `Outbound` states
safety only and needs no fairness.

**Stated exceptions.** What the code does that a reader may not expect, and that the
properties name as their exception rather than forbid:

* *Pipes.* OwnReply speaks of a child on which no read was abandoned: after a 300 s
  timeout the late answer stays in the pipe, and the code itself calls its state
  suspect. PipeLag says what follows: the pipes lag by at most the abandoned reads,
  unless the frame boundary is lost (`skewed`). That happens when the timeout falls
  inside a frame, and when a redeem, ack or genesis read, which wraps stdout in a
  `BufReader` of its own (`lambda_client.rs:1108, 1169, 1256`), reads ahead into
  left-over answers and is dropped with them; such a reader may also take whole
  left-over frames away, which is why the lag is a bound and not a count. Only a new
  child repairs a skewed pipe. While no read was abandoned there is nothing behind the
  caller's own answer to read ahead into, and neither happens.
* *Waiting for Lambda.* A child that neither answers nor dies stops the dispatcher:
  InboxDrains excepts it, WedgeIsSeen says that the watchdog names the loop.
* *Refused FETCH.* `fetch_message` stops at the tagged line whatever its status
  (`carrier.rs:886`), so a NO to UID FETCH is staged as an empty mail and the message
  is expunged. NoMailLost, EventuallyStaged and `AtLeastOnce` except mail whose FETCH
  was refused (`blanked`), and no other.
* *Late deposit.* `custody::deposit` creates the directory of a session that has
  ended anew (`custody.rs:49`), although the doc on `SessionDir` says that it goes on
  every exit path (`tot/src/main.rs:296-297`). The next sweep removes it; TotComesUp
  holds with it.
* *Unanswered requests.* A deposit that fails while the session is open, by a name it
  refuses (`custody.rs:37-46`) or an I/O error, ends in `mark_failed`, which moves the
  request to cur/ (`gateway.rs:2522-2535`); so does a request that is oversize, cannot be
  decrypted or is shed unread (`gateway.rs:1029-1037, 1236-1296`). The client gets no
  answer. `HeldSession` has this as a step of its own (`Drop`), AnsweredOrClosed excepts
  requests dropped since they were last submitted, and no others are lost.
* *POP3.* Numbers of a maildrop are valid for one session, and `mark_processed` uses
  them in another: `pull_pop3_loss`. SingleMailIsKept says where the danger ends: a
  pass that finds one message at most deletes that message, whatever arrives meanwhile.
  Each command reads its reply through a `BufReader` that is dropped with what it read
  ahead (`carrier.rs:529-546`). A server that sends status line and body in one segment
  thus has its body torn, which counts as `blanked`, or its terminating dot swallowed,
  so that the pass times out (`check_new_starved`). Neither is a fault, and both may
  happen in every pass: MailboxDrains is about mailboxes whose fetches go through again
  and again.
* *Stop.* A respawn that has read the flag before `stop` sets it goes on:
  `lambda_stop_race`. StopIsFinal says that it is the only one.
* *Gauge.* A loop that falls back from IDLE to polling while in backoff is never taken
  off `carriers_in_backoff` (`gateway.rs:817-821`); GaugeAccounted counts these.
* *Noise.* A line of an idling server that is not new mail restarts the slice without
  a beat (`carrier.rs:761-770`). NoFalseAlarm holds while a run of such lines is no
  longer than the bound on silence (`NoisyRun`).
* *Unwatched.* A dispatch loop that cannot open its maildir ends before it has a
  heartbeat (`gateway.rs:703`); WedgeIsSeen is about registered loops.
* *Address.* `SplitCarrier` reads the last domain and minds case, the route table the
  wallet's own domain in any case, although a comment says that the two mirror each
  other (`config.rs:78`). SentMeansThere is asked of the split only for addresses that
  both read alike.
* *Error after acceptance.* A lost 250 or a failed QUIT is an error for a mail that
  the relay has; SentMeansThere is about Ok only.
* *Dot-stuffing.* `SmtpCarrier::send` writes the mail after DATA as it is
  (`carrier.rs:1162-1163`). What the builders of `email.rs` write has no line that begins
  with a dot; an OpenPGP mail is binary and may, and the relay then drops a dot or takes
  the mail to end there, and answers 250. `Unstuffed` marks these hand-overs;
  SentMeansThere and ReadAsWritten ask for a whole mail everywhere else.
* *OpenPGP.* A certificate mail for a validator with a published OpenPGP key is
  encrypted as a whole (`pgp.rs:276`), and no receive path decrypts it, although
  `gateway.rs:6` and `pgp.rs:6` list the step: `mail_pgp`. ReadAsWritten is about mail in
  the clear.
* *Failed lookup.* An error of the keyserver is cached as "no key" for the TTL, and
  mail goes in the clear meanwhile: the last disjunct of KeyIsCurrent.
* *Shared directory.* Addresses with one slug share a mailbox and its marker
  (`fatmama.py:662`), so a registered one is reclaimed with its auto-created neighbour.
  PromisedRoutesKept is about addresses that share with none; mail in a shared
  mailbox counts as read whichever of them reads it.
* *Failed writes.* When routes.json cannot be written, the new route stays in the table
  and the client is told 451; the client that tries again finds the route there and is
  told 250 with nothing on disk (`fatmama.py:531-541, 667-668`). When the marker cannot be
  removed, 250 is sent all the same (`605-608`) and the account stays reclaimable. Both
  lose the route later. `unkept` holds the addresses this has happened to;
  PromisedRoutesKept and WaitingMailFindsRoute are about the others.
* *FATMAMA.* MailIsAccountedFor counts mail that a site answered with 250 and then
  dropped or could not write as `unfiled`: the code logs it. Mail without a `To:`
  (`Headless`; an OpenPGP mail in an outbox, for one) stays in its directory; from a
  pickup directory it is offered to its host as `pickup@<host>` (`fatmama.py:1487`),
  which is no address that a FATMAMA accepts. RelayDrains excepts a site that went down
  with an empty routes.json, which `cmd_serve` refuses to start, and mail next to other
  mail for the same host that the host refuses for ever (`Blocked`): that one is dialled
  first in each pass and can use up the interval, so that the other starves.

## 4. Proofs

All hold for every value of the constants that satisfies the named assumptions
(`PullAssumption`, `SessionAssumption`, `IdleAssumption`, `DispatchAssumption`,
`FatmamaAssumption`, `BackoffAssumption`, `BoundsAssumption`, `LoopsAssumption`,
`TimesAssumption`, `AddressAssumption`, `KeyAssumption`, `OutboundAssumption`),
which say little more than that the constants have their types and that "none"
values are distinct; TLC evaluates them in the runs.

* **PullDeliveryProofs.** `TypeCorrect`, for both protocols. `ImapKeepsMail`:
  NoMailLost alone is not inductive, since EXPUNGE removes whatever is flagged;
  `ImapInv` adds that uids identify messages, that a fetched record carries the
  message its uid names unless its FETCH was refused, and that only staged or refused
  messages are being marked or are flagged. `ImapImplementsPromise`: from `ImapInv`
  every step is a step of `AtLeastOnce` or leaves its variables unchanged. `ImapCopiesArePaidFor`, by
  `CopyInv`: a message still on the server has at most as many copies as there were
  crashes and faults, one more while it is being marked. These three properties speak of
  an IMAP `account`; of POP3 they would be false. `Pop3KeepsSingleMail`
  proves what is left for it, torn bodies excepted: `Pop3Inv` says that a fetched message is
  number 1 and the first of the maildrop (`FetchedIsFirst`), which later arrivals, with
  their larger uids, do not change. Its hypothesis, that a pass finds one message at
  most, is part of the property (`OneFetched`) and not of the model.
* **CustodySessionProofs.** One invariant: every copy of a reply, from inbox to
  socket, is under the session it belongs to (`Own`), the sweep meets no open
  session (`SweepIsFirst`), what is about to be removed was sent (`RemovesSent`).
  From it `CustodyTypeCorrect`, `RepliesStayApart` and `OpenSessionKeepsDir`.
  `SessionsAreHeld`, the refinement of `HeldSession`, needs two more parts: the message
  in hand is still in new/ and its session was opened (`AskedInv`), and what the deposit
  has done so far is still there unless the session is over (`DepositInv`), so that at
  the mark the answer waits or was sent; a request that is put away otherwise is a `Drop`. Every step of either process is then a step of
  the abstract table or a stutter.
* **DispatchProofs.** `DispatchTypeCorrect` (needs that the message in hand has
  left the batch). `OnePathPerArtifact` by `PathInv`, which says what may have
  left at each point of a handling. `SuccessIsDelivered` by `SuccessInv`: the
  response in hand is the one Lambda would replay, each passed delivery step has
  settled its artifact, and success is announced only after the last. A response
  of Lambda never replaces an earlier one that was announced. `EveryMessageHasItsDue`
  by `DueInv`: a message that is about to be moved has its due already.
  `GateSelfClears` by `GateInv`: while a shed message is in hand another one is
  waiting behind it.
* **LambdaSupervisorProofs.** `SupervisorTypeCorrect`; `CallersGetTheirOwnReply` and
  `PipeLagIsBounded` by one invariant: the mutex is held by the one who reads and by
  nobody else (`LockInv`), and the pipes of a live child, unless skewed, hold a frame at
  most per abandoned read and, during a call, the caller's own behind them; they are not
  skewed before a read was abandoned (`PipeInv`).
  `StopIsFollowedByOneRespawn`: a state in which the flag is set and the supervisor is
  not in its respawn (`Stopping`) is never left, and once in it a child that is gone
  stays gone; `FlagInv`, that only the last of the gateway's steps follow the flag,
  keeps `start` out.
* **CarrierHealthProofs.** `HealthTypeCorrect` and `GaugeIsAccounted` together (the
  gauge is a natural number only because it counts at least the loop that decrements
  it). `StreakIsCleared` needs that a loop about to raise the streak is in backoff
  (`MaxInv`), so that the gauge cannot reach zero under it. `NoLoopFalselyAccused` by
  `WaitInv` (a sleeping loop has just beaten; an idling one has, or has the whole
  recycle time before it), for servers whose noise lasts no longer than the bound.
  `StallsAreReportedOnce` by `AlarmInv`: a loop in the watchdog's list is in the very
  stall it was put there for, or has beaten since the last look.
  `BackoffDoublesToItsCap` is about the operator `carrier_backoff` alone: the schedule
  that a test of the repository gives as a table, for every interval and cap.
* **OutboundProofs.** `OutboundTypeCorrect`. `OkMeansThere` by `CarrierInv`: the
  carrier is the one the address and the configuration call for, a relay that has
  confirmed has the mail, whole unless it is `Unstuffed`, only a whole file is renamed,
  and nothing is to be seen of a mail before its bytes are final. `WritersAndReadersAgree` by
  `WrittenInv`: the mail under way is what its writer made, up to encryption.
  `KeysAreCurrent`, an action property, by `KeyInv`: a cache entry is what the
  keyserver publishes, or older than the last change, or left by a failed lookup.

* **FatmamaProofs.** `FatmamaTypeCorrect`, by `PassInv`: what a collector has
  listed is still in its directory, what it is sending is not listed any more.
  `FaultsAccountForCopies`, by `CopiesInv`: mail still to be delivered was filed by
  faults only. `RoutesStayPromised` needs that the table, but for the
  addresses whose write failed, is in the file (`TableInFile`), or a reload could take a
  route back; it and the next hold however addresses share directories.
  `MailStaysAccounted` is not inductive, since QUIT and the unlink after a 250 remove
  files: `SessionInv` says that what a session has marked is from its user's mailbox
  and was read by the user, `DialInv` that a delivery that has been answered is
  settled; the set of settled mail then only grows (`SettledGrows`), and nothing
  else leaves the directories (`UnlinkedIsSettled`). `SitesImplementRelay`, the
  refinement of `MailRelay`, says the same step by step, and that a mailbox loses only
  what was read or deleted on purpose; it adds `FilesInv`: a file in a mailbox is of
  mail that was written, at its recipient's site and in its recipient's directory.

Only model-checked: the liveness properties (fairness and ENABLED are outside
TLAPS). Every other property of the passing runs, refinements included, is a theorem.

## 5. Not modelled

* Of FATMAMA: the monitoring endpoints and the command-line reports; POP3 clients that
  send USER twice or delete what they have not read; edits of routes.json that remove
  addresses; a crash inside a stretch without an await, except between a delivery and
  its unlink; an unlink that fails after a cross-site delivery (it ends the collector
  task).
* Lambda's TCP mode: a connection per request, with nothing shared between two
  requests and no supervisor.
* TOT's `/intake` and tunnel legs, which only put a message into `inbox/new/`
  (`Arrive` in `Dispatch`); the sandbox, which is a sequence of kernel calls.
* The core verifier: its verdict is a free choice in `witness_gates`. `rate_limit.rs`
  re-exports what nothing here uses.
* Below the level of mails: MIME, base64, CBOR and TOML, the OpenPGP and envelope
  cryptography, a relay whose multi-line reply never ends, TLS.
* Durability below the file system (`write_message` does not fsync).
* Custody rows that do not suppress mail: the model has the row TOT uses.
* Lambda's part of the /health verdict, counters that only report, the allocator.

## 6. Order of the work

Pull carriers, dispatcher, Lambda supervision, custody and FATMAMA came first, with
their theorems; then the sweep as a loop that a deposit may interrupt, refused
FETCHes, certificate mail, the watchdog and the gauges, outgoing mail, and the proofs
of all their safety properties; then the promises of the relay and of the sessions as
abstract specifications, and the exact limits of the POP3 and stop races; then what
readers swallow, requests that get no answer, failed writes of the relay's own files and
waits without a deadline. What is left is under "Not modelled".
