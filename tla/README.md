# Verification of weiterleitung

Weiterleitung is an e-mail alias server. Anybody writes to an alias; the
message is rewritten and forwarded to the mailbox behind it, its sender shown
as a *reverse alias*; what the mailbox sends to a reverse alias goes out in the
name of the alias. One process runs three tasks (`main.rs`): the web UI of the
administrator, an inbound SMTP server, and a delivery worker. They share a
SQLite database and a directory of spool files and nothing else.

Paths below and in `PROJECT.json` assume the repository checked out at `src/`.

## Inventory

| Component (source) | State | Operations | Interaction | What is hard |
|---|---|---|---|---|
| SMTP session (`smtp/session.rs`) | greeting, sender, recipients, data of one connection | EHLO, MAIL, RCPT, DATA, RSET, QUIT, `read_data` | asks a `MailHandler` for a verdict at RCPT, hands it the envelope after DATA | any order of commands; the stream ends anywhere |
| SMTP server (`smtp/server.rs`) | none | accept, spawn a session | one router shared by all sessions | sessions run side by side |
| Router (`smtp/router.rs`) | none of its own | `route`, `forward`, `reply`, `verify_recipient`, `handle` | queries aliases, contacts; calls `enqueue` | every `await` is a place where the tables may change; one recipient of several fails |
| Aliases, contacts, mailboxes (`alias`, `contact`, `mailbox`) | three tables with unique keys, cascades, counters | insert, find, toggle, delete, `get_or_create_contact` | used by router and UI | races for a new contact; rows deleted in use |
| Administration (`routes/admin.rs`) | none | create, toggle, delete aliases; create, delete mailboxes | writes the tables | reads, then writes; one transaction |
| Sign-in, session (`authentication`, `session_state.rs`, `routes/login.rs`) | accounts, session records, the cookie | seed at start, login, guard, logout, flash messages | in front of every page | records are loaded and written back whole; configuration changes between starts |
| Queue (`delivery/queue.rs`) | `outbox` rows, `.eml` files | `enqueue`, `claim_due`, `mark_*`, `requeue_interrupted` | filled by the router, emptied by the worker | file and row are two writes; status and attempts survive crashes |
| Worker (`delivery/worker.rs`) | the batch it holds | poll, `drain_outbox`, `deliver` | claims rows, reads files, calls the relay | crash at any point; a statement fails; time passes between claim and mark |
| Relay (`delivery/relay.rs`) | none | `send` to one host or along the MX list | remote servers | a lost answer is not a refusal |
| Header rewriting, addresses (`smtp/rewrite.rs`, `domain/email_address.rs`) | none | pure functions | called by the router | headers that still say too much; case |
| Configuration, startup (`configuration.rs`, `startup.rs`) | settings, routes | load, build, `owns_domain` | read by all | |
| Pages, assets, health, telemetry | none | render | | |

What makes each of them correct:

* **Queue, worker, relay.** Accepted messages settle exactly once; a message is
  with one drainer at a time; copies beyond the first are paid for by a crash
  or a lost answer; no attempt is lost or counted twice; no row without its
  file; nothing settled is sent again.
* **Router and tables.** A forward goes to the mailbox of the alias that was
  named and comes from a reverse alias that leads back; a reply is sent only
  for the owner; a correspondent keeps its reverse alias; a disabled alias
  forwards nothing; 250 means all recipients are queued.
* **Session.** Verdicts belong to the sender they were given for; a message is
  handed over once, whole and unchanged, or refused.
* **The whole server.** At every moment a recipient is with the client, reported
  back to the sender, or has a row; 250 is said only in the last case; who got a
  copy is bounced or offered the message again only after 451 or silence.
* **Rewriting, addresses.** Exactly the named headers go, the body survives, a
  rewritten message has one sender; an address finds its row in any spelling.
* **Administration, sign-in.** Tables keep their keys, the default mailbox is not
  lost by a failed insertion, one of several requests is told that it created
  an alias; the configured account is the one that works; a logout lasts; a
  message is shown once.

`PROJECT.json` lists the hazards line by line, with the properties that watch
each one.

## Modules

`Outbox.tla` models queue, worker and relay. A message is its id, a remote host
is what it answers, time is counted in minutes.

| Code | Model |
|---|---|
| `outbox.status`, `attempts`, `next_attempt_at` | `status`, `attempts`, `dueAt` |
| `.eml` files | `spool`; `lost` for files removed from outside |
| `drain_outbox` of the poller and of one-shot callers (tests, single passes) | `Drainers`, `Poller`; `held`, `seen`, `cur`, `hosts` are its local variables |
| `enqueue` | `WriteSpool`, then `InsertRow`; `EnqueueFails` at either |
| `claim_due` | `ClaimDue` (one transaction), `NothingDue`, `ClaimFails` |
| `deliver` | `ReadSpool` or `Unreadable`, then the host actions, then `MarkDelivered`, `MarkAttemptFailed` or `MarkFails` |
| `Relay::send` | `HostAccepts`, `HostRefuses`, `HostAcceptsUnheard`, `RelayAborts` |
| `requeue_interrupted` at the start | `RequeueInterrupted`, `RequeueFails` |
| the process | `Crash`, `Restart` |

`claim_due` is one step because SQLite transactions are serialisable: of two
that read the same rows only one can commit, and the other fails, which is
`ClaimFails` (for a one-shot caller the failure changes nothing).

`DeliveryPromise.tla` is what the caller of `enqueue` may rely on: accepted,
then copied any number of times, then delivered (after a copy) or failed, and
no copy after that. `Outbox` implements it under the mapping `Mail`.

`AliasRouter.tla` models the router, the tables it queries and the
administrator. Tables are sets of records; `RemoveAliases` is the cascade of the
migration. Every query of a connection is an action of its own, and `pc[s]`
names the one that comes next, so the administrator and other connections may
act between any two. `route` runs for RCPT (`phase[s] = "verify"`) and again for
each recipient in `handle`. A connection carries one message. Its `EnqueueRow`
is the row that `Outbox` calls a message. Every recipient is taken to be
well-formed and of a domain we own: `route` refuses others before any query.

`SmtpSession.tla` models one connection with an arbitrary handler: commands in
any order, and `read_data` line by line, the client stuffing dots and the server
undoing it. A line is a short sequence of characters; the size limit is real
arithmetic over them. A client ends its lines with CR LF, as RFC 5321 has it; a
bare LF, which `read_until` takes for a line end too, is not among its inputs.
`CutAfterDot` is the case where `read_until` returns a
lone dot because the stream ended there.

`Weiterleitung.tla` composes: it extends `Outbox`, whose messages become copies
`<<t, r>>` (the one try `t` of the client makes for recipient `r`), and adds the
client, the sessions and `handle`. The client is external: it does what RFC
5321 asks: it keeps a recipient until it reads 250, reports one answered 550 to
the sender, and tries again after 451 or silence. `MaxTries` only bounds the run: a
client that stops by itself is not modelled.

| Code | Model |
|---|---|
| `envelope.rcpt_to` of a connection, the loop variable of `handle` | `env`, `at` |
| RCPT; DATA to the call of `handle` | `RcptTo`; `SendData` |
| one turn of the loop in `handle` | `NoRoute`, or `QueueFile` and `QueueRow` (`enqueue`) or `QueueFails`, then `CountCopy` or `CountFails` (`record_alias_activity`) |
| 250 or 451 after `handle` | `Acknowledge`, `Fail`; what the client reads is `heard` |
| a connection that breaks: `handle` runs on | `Break` |
| the end of the process | `ProcessEnds`: `Outbox`'s `Crash` or `RequeueFails`, and all connections |
| the worker | `Worker`: the actions of `Outbox`, unchanged |

Whether a recipient is routable is a choice here, since `AliasRouter` decides it.
`Handover.tla` is the abstract specification: three states of a copy, and the
rule that the client lets go of a recipient only when somebody else has it.

`HeaderRewrite.tla` and `EmailAddress.tla` model the pure functions. A message is
a sequence of lines, each with its kind (field, continuation, neither, empty),
name and the people it mentions; an address is a sequence of characters. The
loops of `strip_headers` and `header_value` are folds, and the definitions they
are checked against go by position. Their only actions append a line or a
character, so that every input up to the bound is a state; `MailText.tla` puts the
two side by side.

`WebSession.tla` models the account and the session. A request (`req[w]`) arrives
with the cookie, reads the record when it first needs it, works on its copy, and
writes the copy back with the answer. That protocol is tower-sessions, an
external crate: where its versions may differ (does an emptied session keep its
record, is an unchanged one written) the model allows both. Two properties speak of
requests that do not overlap: `alone` is false from a request that arrives during
another, or is cut off by a stop, until one arrives at an idle server, where the
counts of messages start afresh; `away` is
true from a logout during which nothing else was served to the next login that is
accepted. A request that overlaps a logout may write its older copy back after it
and sign the browser in again: nothing in the repository promises otherwise, and
`LogoutSticks` leaves such a logout out. `Administration.tla`
extends it with the routes that write: every statement is a step,
`insert_mailbox`'s transaction works on `draft` and holds SQLite's write lock, and
any statement may fail. What matters of a page that only reads is what it takes
from the session (`View`; `alias_detail` of an alias that does not exist redirects
with a message, as `ReadToggle` does). `AliasRouter` keeps its own, coarser administrator, to
whom it lends one step per route.

`MC*.tla` hold the sets and symmetries TLC needs; `MCAdministration` also starts
from a site in use. The `*_proofs.tla` hold the proofs, each about the module it is
named after, and `FoldInduction.tla` what they need about loops. Definitions whose comment starts with
"Slip:" are plausible mistakes; substituting one for the definition it follows
must break the property named in `PROJECT.json`.

## Runs

| Run | Expect | Shows |
|---|---|---|
| `outbox_safety` | pass | claims, snapshots, copies, attempts, files, settling: 2 messages, 2 drainers, a batch of 1, 2 attempts, 2 hosts, one crash, one failed statement, one lost file |
| `outbox_liveness` | pass | `EverySettles` and the refinement of `DeliveryPromise`, its liveness included, across a crash and an unreadable file |
| `stranded_by_db_error` | violation | one failed `mark_*` statement leaves a message in `sending` until a restart |
| `router_race` | pass | two connections against an administrator, one failed query: forwards, replies, reverse aliases, disabling, counters |
| `router_batch` | pass | one connection, two recipients, one failed query, one crash: acknowledgement |
| `temporary_is_permanent` | violation | a temporary lookup failure is answered 550 |
| `smtp_session` | pass | envelope, transparency, size limit, single hand-over |
| `cut_is_an_end` | violation | a stream cut after the first dot of a stuffed line delivers a truncated message |
| `weiterleitung` | pass | two recipients, two tries, one failure, one crash: acknowledgement, copies, the refinement of `Handover` |
| `mail_text` | pass | every message of up to four lines, every text of up to six characters |
| `reply_names_mailbox` | violation | a header that is not on the list names the mailbox to the contact |
| `admin_site` | pass | two requests at a time, three in a run, a failed statement, a restart under another configuration |

The violations are the disagreements between code and documentation listed
under `findings`; each run checks only that statement. Further ones that came up
in reading, and that no run states:

* `queue.rs:203` passes the incremented count to `backoff`, so the first retry
  waits two minutes; the comment at `queue.rs:220` says one.
* `worker.rs:76` fails a message for any error of reading its file; the comment
  at `worker.rs:77` speaks of a file that is gone.
* `password.rs:118` speaks of the single operator account; a changed
  `admin.username` adds an account, and the former one still signs in.
* `router.rs:252` looks for the first `<` and the first `>` of a From header, also
  inside a quoted display name: of a bounce from `"a>b" <x@y.z>` or `"a<b" <x@y.z>`
  it finds no sender and answers 451, where `router.rs:242` says that it falls back
  to that header. `BounceNamesItsSender` is about names without a bracket.
* A message whose first line is empty has no header by RFC 5322;
  `split_headers_body` then looks for the second empty line. A message that
  starts with a continuation line has it kept, behind our own last header.
  `BodyIsForwarded` and `OneSender` say how far they leave these aside.

### Bounds

* `Outbox`: two messages and two drainers are the smallest instance in which
  claims can collide; with a batch of 1 a claim leaves due rows behind, with a
  batch of 2 (the liveness run) a drainer holds several; two hosts let the loop
  go on after a lost answer. What happens to one message does not depend on the
  others, so two attempts, a first and a last, and one fault of each kind are met
  by either message in any order; that more faults change nothing is what the
  proofs say. An unreadable file that is there is in the liveness run. Only the first delays of `Backoff` occur; the proofs use no
  more of it than that it is a number.
* `AliasRouter`: two connections race; two alias ids let an alias be deleted and
  made again; two tokens let both connections create a contact; one toggle
  disables an alias under a message, one request at a time; `MaxBlocked` ends the
  repetition of refused RCPTs. One recipient suffices where connections race,
  two where the loop over recipients matters; a query may fail in both, a crash is
  in the second. The counters of forwards and replies are compared in the first,
  since a reply needs a connection before it that made the reverse alias.
  A bounce without any sender is refused; a bounce with a From header is not.
* `SmtpSession`: two recipients, two transactions, messages of at most three
  lines against a limit of six bytes: the limit is met exactly, by one and by
  several lines, and exceeded. The lines have no, one and two leading dots.
* `Weiterleitung`: two recipients let `handle` stop between them, two tries let a
  client repeat what is already queued, and a failure and a crash may hit any
  step of either. One drainer, host and attempt: what the outbox does with
  several is the matter of `outbox_safety`.
* `MailText`: four lines hold two fields, a continuation of either and an empty
  line; names are two that all messages lose, one that replies lose, one
  that is not listed. Six characters hold the shortest address
  (`a@a.a`) with one character to spare on any side; a domain of four characters
  meets its limit exactly, and exceeds it only in a respelling, by the final dot
  that is trimmed first. The lengths of the limits are any in the proofs. Names and
  remarks around the brackets of a header (`Remarks`) are none, plain, quoted, an
  address, and an address in brackets.
* `Administration`: two requests overlap, the third follows; the state in use
  stands for the four requests that led to it. Two names and two passwords let
  an account be replaced and come back.

Deadlock is checked for `Outbox` runs. It is not for the others: a connection
that is closed is finished, and ids, tries and requests, like connections, are
finite.

### Fairness

`FairSpec` assumes weak fairness of what the code repeats by itself: systemd
restarts the process (`docs/production.md`, `Restart=always`), the worker
requeues and polls (its loop), a drainer that claimed goes on (tokio polls its
task, and every connection attempt has a timeout), time passes. Nothing is
assumed of who calls `enqueue`, of one-shot callers before they claim, of hosts
(they may refuse for ever), or of the number of crashes beyond the bound. The
liveness run has no failed statements: with one, `EverySettles` is false, which
is the run `stranded_by_db_error`.

## Proofs

tlapm checks every theorem for all values of the constants, from the named
assumptions only: limits are natural numbers, the poller is a drainer, `None` is
no message, row, session or worker, an address is not a reverse alias, the pages
the sign-in serves are pages, somebody's mailbox is neither the contact's address
nor the alias, lines, domains and the names and remarks of a header are made of the
characters of the model.
`ShiftsAreNaturals` states that the powers of two in `Backoff`
are naturals, which no prover here knows; TLC evaluates it.

`Outbox_proofs.tla` goes in layers, each inductive given those before it:

1. `Typed`: `TypeOK`, and a drainer past a claim holds the row it delivers.
2. `Claimed`: `ExclusiveClaim` and `SnapshotIsFresh` need that rows exist before
   they are claimed and that nobody holds anything unless the process runs.
   Requeueing is safe because it happens only before any drainer may claim.
3. `Accounted`: `CopiesBounded` is not inductive. A row that may still be sent
   must have spent no more copies than doubts, and a held one too unless its
   drainer has just heard `250`. `DeliveredWasAccepted` follows.
4. `Counted`: attempts never exceed tries, and are behind by one during a try;
   so a row that fails by the limit made that many tries. `QueuedHasSpool` is
   inductive together with what `enqueue` knows between its two writes.
5. `NothingStranded` is inductive given 1 and 2.
6. `SettledForever` and `OutboxKeepsPromise` follow step by step: no claim holds
   a settled row (2), and a row marked delivered has a copy (3).

`SmtpSession_proofs.tla`: `Transparency` is a fact of sequences (unstuffing
undoes stuffing); `EnvelopeType` adds to the types that recipients imply a
sender; with it `RecipientsAreVouchedFor` is inductive, and `Delivering` says
that a sender still present has not been used up (`HandedOverOnce`) and that
the kept lines are the client's until the limit is crossed (`DataIsWhole`).

`Weiterleitung_proofs.tla` carries this over and adds the composition:

1. `MailRunsOutbox`: every step of the server is a step of `Outbox` or leaves it
   alone, so all theorems above hold of `MailSpec`.
2. `MailTypeCorrect`, with what connections not yet made look like.
3. `Progress`: tries not yet made are blank, 250 ends a session, and while `handle`
   is at work all copies before `at` have a row, in stage `count` the one at `at` too.
   `AckedIsQueued` is inductive only with it: 250 is said in the step that leaves
   the last `count`.
4. `Causes`: a try begins only when what the one before it heard is known; after a
   250 its recipients are the client's no more, so no later envelope names them;
   and `enqueue` was called only for recipients the envelope names. `Reported`: whom
   the client reported undeliverable is in no envelope whose try did not end with
   451 or silence, and is not offered again. `Unsent`: no copy leaves without a
   row. Together they give `CopiesHaveCauses`.
5. With these each step of the server is a step of `Handover` or a stutter
   (`ServerHandsOver`). `ServerForgetsNobody` is `Handover`'s own invariant, proved
   of the abstract specification and carried over.

`AliasRouter_proofs.tla`: the difficulty is that what a connection found out is a
copy, and the administrator may have changed the tables since.

1. `Keys` are those of the migration: ids, addresses and tokens name one row; and an
   id or a token is used only once, also after its row is gone (`spent`). So what a
   connection knows of a row can be stated as "if the row still exists, it says
   this", which no deletion and no new row disturbs.
2. `RouterInv` says so for each place `pc` can be at: `ForwardPlan` and `ReplyPlan` are
   what the plan has established there, `RowInv` what it leaves in the queue, where
   a cascade takes both keys or none. `ForwardGoesHome`, `RepliesComeFromOwner` and
   `DisabledStops` are parts of it, `StableReverse` follows from `Keys`. `Evolves`,
   `Retained` and `Undisturbed` say what a step leaves to the rows and to the other
   connections, once for all actions.
3. `Progress` is `handle`'s loop: all recipients before the position are queued; with
   it 250 means all of them (`AckMeansAllQueued`).
4. `CountInv`: a counter and the number of queued rows of its alias differ by the
   connections between `enqueue` and `record_alias_activity`, and by what a failure
   or a crash left there. That the rows and the connections counted are finitely
   many is part of it, since the constants may be infinite.

`WebSession_proofs.tla` proves its module for handlers that may do anything to the
session's values in their copy and nothing else (`Work`): the theorems then hold
of any routes. `WebInv` says of the copies what the properties say of the store:
`Accounts` (whoever is signed in, in a record or in a copy, exists), `Copied` (a copy is
the record it was read from with at most the one change of its page), `Lonely` (a
request that is alone has the browser's record) and `Gone` (after a logout nobody
under way carries a user who could be written back).

`Administration_proofs.tla`: `SiteImplementsWeb` shows that every step of the
routes is one of `WebSession` with its handlers, so the above is true of the site
and not proved twice. `AdminInv` adds that only the holder of SQLite's lock has a
draft and that the tables cannot move under it (`Locked`), that a request has the form
of its page (`Asked`), and that what a toggle saw is still so unless it is raced
(`Toggling`). `KeysHold`, `DefaultIsKept`, `OneCreates`, `TogglesAlternate`
follow. The theorems are about `AdminSpec`, which starts with empty tables; the
run's other initial state is one it reaches.

`SmtpSession_proofs.tla` also proves `SizeIsExact`, whose `Size` is a loop over
the lines, and `MailText_proofs.tla` what the loops of the pure functions
compute. Both need induction over data. The library's theorems take an operator as
a parameter, which no prover here can instantiate; `FoldInduction.tla` is a module
with the loop body, the start and the claim as CONSTANTS instead, proved once for
arbitrary ones by a least counterexample (a claim that fails at some length fails
first at one; that the function a fold stands for exists comes the same way), and each loop is an INSTANCE of it with its own body.

`MailText_proofs.tla`, headers: the invariant of `strip_headers` is that after `n`
lines the kept ones are in order exactly those by position that belong to no named
field (`StripsExactly`); of `header_value`, that it has the first field's lines so
far and knows whether that is over (`ReadsFirstField`). A rewritten message is our
lines before or after stripped ones, which hold none of the names we add, so
reading finds ours (`HasOneSender`) and the first empty line is still the
original's (`ForwardsTheBody`).

`MailText_proofs.tla`, addresses: what trimming leaves is said by position
(`TrimStartAt`, `TrimEndAt`, `TrimBothAt`), so that a text and its respelling are cut
at the same places (`Alike`). What `parse` returns is `Settled`: reading it again
changes nothing. `Spelled` and `ReadAs` say that local part and domain joined by an
at sign come back from `parse`, with brackets, blanks and final dot, which gives
`SpellingsAreOneAddress`. `BouncesAreFromTheirHeader` adds that after any name without
a bracket, and before any remark, the first brackets are those of the address
(`BracketedIs`).

Every safety invariant and every action property of a passing run is thereby
proved. Model-checked only: `EverySettles` and the liveness half of the refinement
of `DeliveryPromise` (temporal reasoning with fairness is outside the prover).

## Not modelled

TLS, DNS, DKIM and the bytes on the wire of outgoing connections (I/O of
libraries; the relay's answers stand for them); password hashing, the expiry and
encryption of cookies (libraries; time plays no other part in `WebSession`);
pages, assets, health check, telemetry (no state); reading the configuration. In
`Weiterleitung` the answers 452 and 552, which queue nothing, are left to
`SmtpSession`. `default_mailbox`, `find_mailbox_by_email` and `get_mailbox` are not
called by any route.

## Plan

Done: all modules above, and the proofs of all their safety properties.

Left: an alias whose address is already a reverse alias (`create_alias` does not
look for one). `AliasRouter` takes the two kinds of address as disjoint
(`RouterAssumption`), and so do its theorems.
