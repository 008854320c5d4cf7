----------------------------- MODULE AliasRouter -----------------------------
(***************************************************************************)
(* What an inbound message means (src/src/smtp/router.rs) and the tables   *)
(* that decide it (src/src/alias, contact, mailbox).  Several SMTP         *)
(* connections and the administrator work on one database; every query is  *)
(* a step of its own, so anything may change between two of them.          *)
(*                                                                         *)
(* Tables are sets of records, with the keys and cascades of the initial   *)
(* migration.  Addresses are already normalised; a contact's primary key   *)
(* and its random reverse alias are one token.  A connection carries one   *)
(* message.                                                                *)
(***************************************************************************)
EXTENDS Naturals, Sequences, FiniteSets

CONSTANTS
    Sessions,       \* SMTP connections
    Inboxes,        \* addresses of real mailboxes
    Addresses,      \* addresses an alias may have
    AliasIds,       \* primary keys of aliases, each used once
    Tokens,         \* reverse aliases, each used once
    Letters,        \* messages: envelope sender and From header
    None,           \* SQL's NULL, Rust's None, the null sender
    MaxRecipients,  \* bound: recipients of a message
    MaxBlocked,     \* bound: blocked_count at which nobody asks for an alias any more
    MaxToggles,     \* bound: requests that toggle an alias
    MaxDbErrors,    \* bound: failed queries of the router
    MaxCrashes      \* bound: times the process dies

ASSUME RouterAssumption ==
    /\ None \notin Inboxes \union Addresses \union AliasIds \union Tokens
    /\ Addresses \intersect Tokens = {}
    /\ \A l \in Letters : DOMAIN l = {"mailFrom", "header"}
    /\ {MaxRecipients, MaxBlocked, MaxToggles, MaxDbErrors, MaxCrashes} \subseteq Nat

VARIABLES
    mailboxes,  \* addresses in table mailboxes
    aliases,    \* rows: id, address, mailbox, enabled, forwarded, replied, blocked
    contacts,   \* rows: reverse, alias, email
    outbox,     \* rows: session, position, direction, from, to, alias, contact
    spent,      \* ids and tokens that were ever used
    pc,         \* pc[s]: the query session s makes next
    phase,      \* phase[s]: "verify" for RCPT, "handle" for DATA
    letter,     \* letter[s]: the message
    rcpts,      \* rcpts[s]: the accepted recipients, in order
    target,     \* target[s]: the recipient being routed
    position,   \* position[s]: its place in rcpts[s] during handle
    plan,       \* plan[s]: the row being prepared for the outbox
    answer,     \* answer[s]: the last reply to RCPT or DATA and its reason
    live,       \* history: ids of aliases enabled at some time of s's handle
    toggle,     \* the request of toggle_alias between its read and its write
    toggles, dbErrors, crashes      \* for the bounds

admin   == <<mailboxes, spent, toggle, toggles>>
tables  == <<aliases, contacts, outbox>>
session == <<pc, phase, letter, rcpts, target, position, plan, answer>>
fault   == <<dbErrors, crashes>>
vars    == <<admin, tables, session, live, fault>>

NoPlan == [direction |-> None, from |-> None, to |-> None,
           alias |-> None, contact |-> None]

Init ==
    /\ mailboxes = Inboxes
    /\ aliases = {} /\ contacts = {} /\ outbox = {} /\ spent = {}
    /\ pc = [s \in Sessions |-> "mail"]
    /\ phase = [s \in Sessions |-> "verify"]
    /\ letter \in [Sessions -> Letters]
    /\ rcpts = [s \in Sessions |-> <<>>]
    /\ target = [s \in Sessions |-> None]
    /\ position = [s \in Sessions |-> 0]
    /\ plan = [s \in Sessions |-> NoPlan]
    /\ answer = [s \in Sessions |-> [code |-> "none", why |-> "none"]]
    /\ live = [s \in Sessions |-> {}]
    /\ toggle = None
    /\ toggles = 0 /\ dbErrors = 0 /\ crashes = 0

-----------------------------------------------------------------------------
(* Queries.                                                                *)

Ids == {a.id : a \in aliases}
Reverses == {c.reverse : c \in contacts}
Enabled == {a.id : a \in {b \in aliases : b.enabled}}

AliasAt(address) == {a \in aliases : a.address = address}
AliasOf(contact) == {a \in aliases : a.id = contact.alias}
ContactAt(reverse) == {c \in contacts : c.reverse = reverse}
ContactFor(id, email) == {c \in contacts : c.alias = id /\ c.email = email}

\* Slip: contacts without ON DELETE CASCADE.
RemoveAliasesOnly(gone) ==
    /\ aliases' = {a \in aliases : a.id \notin gone}
    /\ outbox' = {[r EXCEPT !.alias = IF @ \in gone THEN None ELSE @] : r \in outbox}
    /\ UNCHANGED contacts

\* ON DELETE CASCADE for contacts, ON DELETE SET NULL for the outbox.
RemoveAliases(gone) ==
    LET orphans == {c.reverse : c \in {d \in contacts : d.alias \in gone}}
    IN  /\ aliases' = {a \in aliases : a.id \notin gone}
        /\ contacts' = {c \in contacts : c.alias \notin gone}
        /\ outbox' = {[r EXCEPT !.alias = IF @ \in gone THEN None ELSE @,
                                !.contact = IF @ \in orphans THEN None ELSE @]
                       : r \in outbox}

-----------------------------------------------------------------------------
(* The administrator.                                                      *)

\* create_alias: its own check and the UNIQUE constraint refuse an address
\* in use, the foreign key a mailbox that is gone.
CreateAlias(id, address, mailbox) ==
    /\ id \notin spent /\ AliasAt(address) = {} /\ mailbox \in mailboxes
    /\ aliases' = aliases \union
         {[id |-> id, address |-> address, mailbox |-> mailbox, enabled |-> TRUE,
           forwarded |-> 0, replied |-> 0, blocked |-> 0]}
    /\ spent' = spent \union {id}
    /\ live' = [s \in Sessions |-> live[s] \union {id}]
    /\ UNCHANGED <<mailboxes, contacts, outbox, session, toggle, toggles, fault>>

DeleteAlias(id) ==
    /\ id \in Ids
    /\ RemoveAliases({id})
    /\ UNCHANGED <<admin, session, live, fault>>

CreateMailbox(mailbox) ==
    /\ mailbox \notin mailboxes
    /\ mailboxes' = mailboxes \union {mailbox}
    /\ UNCHANGED <<spent, toggle, toggles, tables, session, live, fault>>

DeleteMailbox(mailbox) ==
    /\ mailbox \in mailboxes
    /\ mailboxes' = mailboxes \ {mailbox}
    /\ RemoveAliases({a.id : a \in {b \in aliases : b.mailbox = mailbox}})
    /\ UNCHANGED <<spent, toggle, toggles, session, live, fault>>

\* toggle_alias reads the list, then writes the negation of what it saw.
ReadToggle(a) ==
    /\ toggle = None /\ toggles < MaxToggles
    /\ toggle' = [id |-> a.id, enabled |-> ~a.enabled]
    /\ toggles' = toggles + 1
    /\ UNCHANGED <<mailboxes, spent, tables, session, live, fault>>

WriteToggle ==
    /\ toggle # None
    /\ aliases' = {IF a.id = toggle.id THEN [a EXCEPT !.enabled = toggle.enabled] ELSE a
                    : a \in aliases}
    /\ live' = IF toggle.enabled THEN [s \in Sessions |-> live[s] \union {toggle.id}]
                                 ELSE live
    /\ toggle' = None
    /\ UNCHANGED <<mailboxes, spent, toggles, contacts, outbox, session, fault>>

-----------------------------------------------------------------------------
(* The connection: what the SMTP session asks of its MailHandler.          *)

\* verify_recipient: an alias, a reverse alias, or an address of ours that is
\* neither.
Rcpt(s, recipient) ==
    /\ pc[s] = "mail" /\ Len(rcpts[s]) < MaxRecipients
    /\ \A a \in AliasAt(recipient) : a.blocked < MaxBlocked
    /\ phase' = [phase EXCEPT ![s] = "verify"]
    /\ target' = [target EXCEPT ![s] = recipient]
    /\ pc' = [pc EXCEPT ![s] = "find reverse"]
    /\ UNCHANGED <<admin, tables, letter, rcpts, position, plan, answer, live, fault>>

\* handle: the recipients are routed again, one after the other.
Data(s) ==
    /\ pc[s] = "mail" /\ rcpts[s] # <<>>
    /\ phase' = [phase EXCEPT ![s] = "handle"]
    /\ position' = [position EXCEPT ![s] = 1]
    /\ target' = [target EXCEPT ![s] = rcpts[s][1]]
    /\ pc' = [pc EXCEPT ![s] = "find reverse"]
    /\ live' = [live EXCEPT ![s] = Enabled]
    /\ UNCHANGED <<admin, tables, letter, rcpts, plan, answer, fault>>

\* RCPT is answered 550 and the session goes on; handle leaves its loop and
\* DATA is answered 451, whatever the reason.
Refuse(s, why) ==
    /\ IF phase[s] = "verify"
       THEN /\ pc' = [pc EXCEPT ![s] = "mail"]
            /\ answer' = [answer EXCEPT ![s] = [code |-> "550", why |-> why]]
       ELSE /\ pc' = [pc EXCEPT ![s] = "closed"]
            /\ answer' = [answer EXCEPT ![s] = [code |-> "451", why |-> why]]
    /\ plan' = [plan EXCEPT ![s] = NoPlan]
    /\ target' = [target EXCEPT ![s] = None]
    /\ UNCHANGED <<phase, letter, rcpts, position>>

\* A route was found: RCPT takes the recipient, handle goes to `next`.
Routed(s, route, next) ==
    /\ IF phase[s] = "verify"
       THEN /\ pc' = [pc EXCEPT ![s] = "mail"]
            /\ answer' = [answer EXCEPT ![s] = [code |-> "250", why |-> "recipient"]]
            /\ rcpts' = [rcpts EXCEPT ![s] = Append(@, target[s])]
            /\ target' = [target EXCEPT ![s] = None]
            /\ UNCHANGED plan
       ELSE /\ pc' = [pc EXCEPT ![s] = next]
            /\ plan' = [plan EXCEPT ![s] = route]
            /\ UNCHANGED <<answer, rcpts, target>>
    /\ UNCHANGED <<phase, letter, position>>

Step(s, next) == /\ pc' = [pc EXCEPT ![s] = next]
                 /\ UNCHANGED <<phase, letter, rcpts, target, position, answer>>

-----------------------------------------------------------------------------
(* route: the reverse alias first, the alias second.                       *)

\* Slip: anybody may write through a reverse alias.
FindReverseForAll(s) ==
    /\ pc[s] = "find reverse"
    /\ \/ /\ ContactAt(target[s]) = {}
          /\ Step(s, "find alias") /\ UNCHANGED plan
       \/ \E c \in ContactAt(target[s]) : \E a \in AliasOf(c) :
            /\ a.enabled
            /\ Routed(s, [direction |-> "reply", from |-> a.address, to |-> c.email,
                          alias |-> None, contact |-> c.reverse],
                      "reply")
    /\ UNCHANGED <<admin, tables, live, fault>>

\* A contact joined with its alias and its mailbox.
FindReverse(s) ==
    /\ pc[s] = "find reverse"
    /\ \/ /\ ContactAt(target[s]) = {}
          /\ Step(s, "find alias") /\ UNCHANGED plan
       \/ \E c \in ContactAt(target[s]) : \E a \in AliasOf(c) :
            \/ /\ a.mailbox # letter[s].mailFrom
               /\ Refuse(s, "not the mailbox")
            \/ /\ a.mailbox = letter[s].mailFrom /\ ~a.enabled
               /\ Refuse(s, "disabled")
            \/ /\ a.mailbox = letter[s].mailFrom /\ a.enabled
               /\ Routed(s, [direction |-> "reply", from |-> a.address, to |-> c.email,
                             alias |-> None, contact |-> c.reverse],
                         "reply")
    /\ UNCHANGED <<admin, tables, live, fault>>

\* Slip: handle trusts the verdict of RCPT.
FindAliasTrusting(s) ==
    /\ pc[s] = "find alias"
    /\ \/ AliasAt(target[s]) = {} /\ Refuse(s, "no such alias")
       \/ \E a \in AliasAt(target[s]) :
            \/ /\ ~a.enabled /\ phase[s] = "verify"
               /\ plan' = [plan EXCEPT ![s].alias = a.id]
               /\ Step(s, "count blocked")
            \/ /\ a.enabled \/ phase[s] = "handle"
               /\ Routed(s, [NoPlan EXCEPT !.direction = "forward", !.alias = a.id],
                         "forward")
    /\ UNCHANGED <<admin, tables, live, fault>>

FindAlias(s) ==
    /\ pc[s] = "find alias"
    /\ \/ AliasAt(target[s]) = {} /\ Refuse(s, "no such alias")
       \/ \E a \in AliasAt(target[s]) :
            \/ /\ ~a.enabled
               /\ plan' = [plan EXCEPT ![s].alias = a.id]
               /\ Step(s, "count blocked")
            \/ /\ a.enabled
               /\ Routed(s, [NoPlan EXCEPT !.direction = "forward", !.alias = a.id],
                         "forward")
    /\ UNCHANGED <<admin, tables, live, fault>>

CountBlocked(s) ==
    /\ pc[s] = "count blocked"
    /\ aliases' = {IF a.id = plan[s].alias THEN [a EXCEPT !.blocked = @ + 1] ELSE a
                    : a \in aliases}
    /\ Refuse(s, "disabled")
    /\ UNCHANGED <<admin, contacts, outbox, live, fault>>

-----------------------------------------------------------------------------
(* forward and reply.                                                      *)

\* envelope_sender: the null sender leaves the From header.
SenderOf(l) == IF l.mailFrom # None THEN l.mailFrom ELSE l.header

\* The alias again, by address, for its mailbox; the id is the first one.
ForwardAlias(s) ==
    /\ pc[s] = "forward"
    /\ \/ AliasAt(target[s]) = {} /\ Refuse(s, "vanished")
       \/ SenderOf(letter[s]) = None /\ Refuse(s, "no sender")
       \/ \E a \in AliasAt(target[s]) :
            /\ SenderOf(letter[s]) # None
            /\ plan' = [plan EXCEPT ![s].to = a.mailbox]
            /\ Step(s, "find contact")
    /\ UNCHANGED <<admin, tables, live, fault>>

WithContact(s, c) ==
    /\ plan' = [plan EXCEPT ![s].contact = c.reverse, ![s].from = c.reverse]
    /\ Step(s, "enqueue")

FindContact(s) ==
    /\ pc[s] = "find contact"
    /\ LET found == ContactFor(plan[s].alias, SenderOf(letter[s]))
       IN  \/ found = {} /\ Step(s, "insert contact") /\ UNCHANGED plan
           \/ \E c \in found : WithContact(s, c)
    /\ UNCHANGED <<admin, tables, live, fault>>

NewContact(s, token) == [reverse |-> token, alias |-> plan[s].alias,
                         email |-> SenderOf(letter[s])]

\* Slip: no UNIQUE (alias_id, email).
InsertContactAgain(s, token) ==
    /\ pc[s] = "insert contact" /\ token \notin spent /\ plan[s].alias \in Ids
    /\ contacts' = contacts \union {NewContact(s, token)}
    /\ spent' = spent \union {token}
    /\ Step(s, "read contact")
    /\ UNCHANGED <<mailboxes, toggle, toggles, aliases, outbox, plan, live, fault>>

\* INSERT ... ON CONFLICT (alias_id, email) DO NOTHING, with a random token.
InsertContact(s, token) ==
    /\ pc[s] = "insert contact"
    /\ \/ /\ plan[s].alias \notin Ids
          /\ Refuse(s, "foreign key")
          /\ UNCHANGED <<contacts, spent>>
       \/ /\ ContactFor(plan[s].alias, SenderOf(letter[s])) # {}
          /\ Step(s, "read contact")
          /\ UNCHANGED <<contacts, spent, plan>>
       \/ /\ plan[s].alias \in Ids
          /\ ContactFor(plan[s].alias, SenderOf(letter[s])) = {}
          /\ token \notin spent
          /\ contacts' = contacts \union {NewContact(s, token)}
          /\ spent' = spent \union {token}
          /\ Step(s, "read contact")
          /\ UNCHANGED plan
    /\ UNCHANGED <<mailboxes, toggle, toggles, aliases, outbox, live, fault>>

ReadContact(s) ==
    /\ pc[s] = "read contact"
    /\ LET found == ContactFor(plan[s].alias, SenderOf(letter[s]))
       IN  \/ found = {} /\ Refuse(s, "contact disappeared")
           \/ \E c \in found : WithContact(s, c)
    /\ UNCHANGED <<admin, tables, live, fault>>

\* The alias id of a reply is looked up only for the row and the counter.
ReplyAlias(s) ==
    /\ pc[s] = "reply"
    /\ \/ AliasAt(plan[s].from) = {} /\ UNCHANGED plan
       \/ \E a \in AliasAt(plan[s].from) : plan' = [plan EXCEPT ![s].alias = a.id]
    /\ Step(s, "enqueue")
    /\ UNCHANGED <<admin, tables, live, fault>>

\* Slip: a connection without PRAGMA foreign_keys.
KeysIgnored(row) == row.session \in Sessions

\* The foreign keys of the outbox.
KeysHold(row) == /\ row.alias \in Ids \union {None}
                 /\ row.contact \in Reverses \union {None}

Row(s) == [session |-> s, position |-> position[s], direction |-> plan[s].direction,
           from |-> plan[s].from, to |-> plan[s].to,
           alias |-> plan[s].alias, contact |-> plan[s].contact]

\* What becomes of the file and the row is the matter of module Outbox.
EnqueueRow(s) ==
    /\ pc[s] = "enqueue"
    /\ IF KeysHold(Row(s))
       THEN /\ outbox' = outbox \union {Row(s)}
            /\ Step(s, "count") /\ UNCHANGED plan
       ELSE Refuse(s, "foreign key") /\ UNCHANGED outbox
    /\ UNCHANGED <<admin, aliases, contacts, live, fault>>

\* Slip: the loop ends one recipient early.
NextButLast(s) ==
    /\ IF position[s] + 1 < Len(rcpts[s])
       THEN /\ position' = [position EXCEPT ![s] = @ + 1]
            /\ target' = [target EXCEPT ![s] = rcpts[s][position[s] + 1]]
            /\ pc' = [pc EXCEPT ![s] = "find reverse"]
            /\ UNCHANGED answer
       ELSE /\ pc' = [pc EXCEPT ![s] = "closed"]
            /\ target' = [target EXCEPT ![s] = None]
            /\ answer' = [answer EXCEPT ![s] = [code |-> "250", why |-> "message"]]
            /\ UNCHANGED position
    /\ plan' = [plan EXCEPT ![s] = NoPlan]
    /\ UNCHANGED <<phase, letter, rcpts>>

\* The loop of handle, or Ok(()) after the last recipient.
NextRecipient(s) ==
    /\ IF position[s] < Len(rcpts[s])
       THEN /\ position' = [position EXCEPT ![s] = @ + 1]
            /\ target' = [target EXCEPT ![s] = rcpts[s][position[s] + 1]]
            /\ pc' = [pc EXCEPT ![s] = "find reverse"]
            /\ UNCHANGED answer
       ELSE /\ pc' = [pc EXCEPT ![s] = "closed"]
            /\ target' = [target EXCEPT ![s] = None]
            /\ answer' = [answer EXCEPT ![s] = [code |-> "250", why |-> "message"]]
            /\ UNCHANGED position
    /\ plan' = [plan EXCEPT ![s] = NoPlan]
    /\ UNCHANGED <<phase, letter, rcpts>>

\* Slip: one counter for both directions.
CountedAsForward(a, direction) == [a EXCEPT !.forwarded = @ + 1]

Counted(a, direction) == IF direction = "forward" THEN [a EXCEPT !.forwarded = @ + 1]
                                                  ELSE [a EXCEPT !.replied = @ + 1]

Count(s) ==
    /\ pc[s] = "count"
    /\ aliases' = {IF a.id = plan[s].alias THEN Counted(a, plan[s].direction) ELSE a
                    : a \in aliases}
    /\ NextRecipient(s)
    /\ UNCHANGED <<admin, contacts, outbox, live, fault>>

-----------------------------------------------------------------------------
(* Faults.                                                                 *)

Queries == {"find reverse", "find alias", "count blocked", "forward", "find contact",
            "insert contact", "read contact", "reply", "enqueue", "count"}

\* A lookup of route is refused as temporary, the blocked counter is ignored,
\* every other error ends handle.
QueryFails(s) ==
    /\ pc[s] \in Queries /\ dbErrors < MaxDbErrors
    /\ Refuse(s, CASE pc[s] \in {"find reverse", "find alias"} -> "temporary"
                   [] pc[s] = "count blocked" -> "disabled"
                   [] OTHER -> "database")
    /\ dbErrors' = dbErrors + 1
    /\ UNCHANGED <<admin, tables, live, crashes>>

\* Connections and the toggle under way are lost, committed rows are not.
Crash ==
    /\ crashes < MaxCrashes
    /\ crashes' = crashes + 1
    /\ pc' = [s \in Sessions |-> IF pc[s] = "mail" /\ rcpts[s] = <<>> THEN "mail" ELSE "closed"]
    /\ plan' = [s \in Sessions |-> NoPlan]
    /\ target' = [s \in Sessions |-> None]
    /\ toggle' = None
    /\ UNCHANGED <<mailboxes, spent, toggles, tables, phase, letter, rcpts, position,
                   answer, live, dbErrors>>

Route(s) == FindReverse(s) \/ FindAlias(s) \/ CountBlocked(s)

Forward(s) ==
    \/ ForwardAlias(s) \/ FindContact(s)
    \/ \E token \in Tokens : InsertContact(s, token)
    \/ ReadContact(s)

Queue(s) == EnqueueRow(s) \/ Count(s)

Admin ==
    \/ \E id \in AliasIds, address \in Addresses, mailbox \in Inboxes :
          CreateAlias(id, address, mailbox)
    \/ \E id \in AliasIds : DeleteAlias(id)
    \/ \E mailbox \in Inboxes : CreateMailbox(mailbox) \/ DeleteMailbox(mailbox)
    \/ \E a \in aliases : ReadToggle(a)
    \/ WriteToggle

Next ==
    \/ Admin
    \/ \E s \in Sessions :
          \/ \E recipient \in Addresses \union Tokens : Rcpt(s, recipient)
          \/ Data(s)
          \/ Route(s) \/ Forward(s) \/ ReplyAlias(s) \/ Queue(s)
          \/ QueryFails(s)
    \/ Crash

Spec == Init /\ [][Next]_vars

-----------------------------------------------------------------------------
(* Properties.                                                             *)

Senders == {SenderOf(l) : l \in Letters} \ {None}

AliasRows == [id: AliasIds, address: Addresses, mailbox: Inboxes, enabled: BOOLEAN,
              forwarded: Nat, replied: Nat, blocked: Nat]
ContactRows == [reverse: Tokens, alias: AliasIds, email: Senders]

\* Rows have their types and what they refer to exists, after any cascade.
TypeOK ==
    /\ mailboxes \subseteq Inboxes
    /\ \A a \in aliases : a \in AliasRows /\ a.mailbox \in mailboxes
    /\ \A c \in contacts : c \in ContactRows /\ c.alias \in Ids
    /\ \A r \in outbox : KeysHold(r)
    /\ spent \subseteq AliasIds \union Tokens
    /\ pc \in [Sessions -> Queries \union {"mail", "closed"}]
    /\ phase \in [Sessions -> {"verify", "handle"}]
    /\ letter \in [Sessions -> Letters]
    /\ rcpts \in [Sessions -> Seq(Addresses \union Tokens)]
    /\ target \in [Sessions -> Addresses \union Tokens \union {None}]
    /\ \A s \in Sessions : position[s] \in 0..Len(rcpts[s])
    /\ live \in [Sessions -> SUBSET AliasIds]

\* While its alias exists, a forwarded message is addressed to the mailbox of
\* the alias its recipient named, and its sender is a reverse alias that
\* leads back to whoever wrote it: also when the alias was deleted and made
\* again, with another mailbox, between the queries of forward.
ForwardGoesHome ==
    \A r \in outbox : r.direction = "forward" /\ r.alias # None =>
        \E a \in aliases, c \in contacts :
            /\ a.id = r.alias
            /\ a.address = rcpts[r.session][r.position]
            /\ a.mailbox = r.to
            /\ c.alias = a.id
            /\ c.reverse = r.contact /\ c.reverse = r.from
            /\ c.email = SenderOf(letter[r.session])

\* A reply leaves in the name of an alias only if the mailbox of that alias
\* wrote it, and it goes to the contact its reverse alias stands for.
RepliesComeFromOwner ==
    \A r \in outbox : r.direction = "reply" /\ r.contact # None =>
        \E a \in aliases, c \in contacts :
            /\ c.reverse = r.contact /\ c.reverse = rcpts[r.session][r.position]
            /\ c.email = r.to
            /\ a.id = c.alias /\ a.id = r.alias
            /\ a.address = r.from
            /\ a.mailbox = letter[r.session].mailFrom

\* One correspondent of one alias is always shown the same reverse alias,
\* whichever connections raced to create it.
StableReverse ==
    \A q, r \in outbox :
        /\ q.direction = "forward" /\ r.direction = "forward"
        /\ q.alias = r.alias /\ q.alias # None
        /\ SenderOf(letter[q.session]) = SenderOf(letter[r.session])
        => q.from = r.from

\* Nothing is forwarded for an alias that was disabled all the time from the
\* end of DATA to the insertion, whatever RCPT was told before.
DisabledStops ==
    \A r \in outbox : r.direction = "forward" /\ r.alias # None =>
        r.alias \in live[r.session]

RowsOf(s) == {r \in outbox : r.session = s}

\* 250 after DATA means one row for each recipient; any other end leaves
\* rows for a prefix of them, the last of which may be uncounted.
AckMeansAllQueued ==
    \A s \in Sessions :
        LET done == IF answer[s] = [code |-> "250", why |-> "message"]
                    THEN {Len(rcpts[s])}
                    ELSE {n \in 0..position[s] : n + 1 >= position[s]}
        IN  /\ {r.position : r \in RowsOf(s)} \in {1..n : n \in done}
            /\ \A q, r \in RowsOf(s) : q.position = r.position => q = r

Queued(a, direction) ==
    Cardinality({r \in outbox : r.direction = direction /\ r.alias = a.id})

Uncounted(a, direction) ==
    Cardinality({s \in Sessions : /\ pc[s] = "count"
                                  /\ plan[s].direction = direction
                                  /\ plan[s].alias = a.id})

\* The counters of an alias are its queued messages, less those about to be
\* counted; a fault loses counts and never adds one.
CountersAgree ==
    \A a \in aliases :
        /\ a.forwarded + Uncounted(a, "forward") <= Queued(a, "forward")
        /\ a.replied + Uncounted(a, "reply") <= Queued(a, "reply")
        /\ dbErrors = 0 /\ crashes = 0 =>
              /\ a.forwarded + Uncounted(a, "forward") = Queued(a, "forward")
              /\ a.replied + Uncounted(a, "reply") = Queued(a, "reply")

\* router.rs:57 calls a failed lookup a "Temporary lookup failure"; a
\* temporary condition is not answered with a permanent code.
TemporaryIsNotPermanent ==
    \A s \in Sessions : answer[s].why = "temporary" => answer[s].code # "550"
=============================================================================
