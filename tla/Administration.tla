---------------------------- MODULE Administration ----------------------------
(***************************************************************************)
(* What the administrator does (src/src/routes/admin.rs) and the tables    *)
(* behind it (src/src/mailbox, src/src/alias): several requests at a time, *)
(* each statement a step, a statement that may fail, and the one           *)
(* transaction, that of insert_mailbox, whose writes others do not see     *)
(* before it commits.                                                      *)
(***************************************************************************)
EXTENDS WebSession

CONSTANTS
    Inboxes,        \* addresses of mailboxes
    Addresses,      \* addresses of aliases
    MaxRows,        \* bound: rows that are inserted, failed attempts aside
    MaxDbErrors     \* bound: failed statements

Forms ==
    [page : {"create mailbox"}, email : Inboxes, default : BOOLEAN]
    \union [page : {"create alias"}, address : Addresses, mailbox : 1..MaxRows]
    \union [page : {"toggle", "delete alias", "delete mailbox"}, id : 1..MaxRows]

ASSUME AdminAssumption ==
    /\ None \notin Workers
    /\ {f.page : f \in Forms} \subseteq Pages
    /\ {MaxRows, MaxDbErrors} \subseteq Nat

VARIABLES
    mailboxes,  \* rows: id, email, default
    aliases,    \* rows: id, address, mailbox, enabled
    ids,        \* ids given out so far
    writer,     \* the request whose transaction holds the write lock
    draft,      \* the mailboxes as that transaction sees them
    dbErrors,   \* for the bound
    made,       \* history: made[a]: requests told that they created alias a
    gone,       \* history: gone[a]: rows of that address deleted
    flips,      \* history: flips[id]: toggles that reported success
    raced       \* history: aliases of which two toggles overlapped

rows == <<mailboxes, aliases, ids>>
tx == <<writer, draft>>
count == <<made, gone, flips, raced>>
admin == <<rows, tx, dbErrors, count>>

AdminInit ==
    /\ WebInit
    /\ mailboxes = {} /\ aliases = {} /\ ids = 0
    /\ writer = None /\ draft = {} /\ dbErrors = 0
    /\ made = [a \in Addresses |-> 0] /\ gone = [a \in Addresses |-> 0]
    /\ flips = [i \in 1..MaxRows |-> 0] /\ raced = {}

\* Writers wait for the lock; SQLite lets one write at a time.
MayWrite(w) == writer \in {None, w}

Form(w) == req[w].form
Flash(w) == Done(w, Flashed(req[w].copy))
Proceed(w, at, saw) == req' = [req EXCEPT ![w].at = at, ![w].saw = saw]

-----------------------------------------------------------------------------
(* Mailboxes.                                                              *)

\* insert_mailbox, the first statement of the transaction, for a new default.
ClearDefault(w) ==
    /\ Working(w, "create mailbox") /\ Form(w).default /\ writer = None
    /\ writer' = w
    /\ draft' = {[m EXCEPT !.default = FALSE] : m \in mailboxes}
    /\ Proceed(w, "insert", None)
    /\ Quiet /\ UNCHANGED <<rows, dbErrors, count>>

WithMailbox(table, w) ==
    table \union {[id |-> ids + 1, email |-> Form(w).email, default |-> Form(w).default]}

\* Slip: each statement commits for itself.
InsertUntransacted(w, table) ==
    IF \E m \in table : m.email = Form(w).email
    THEN mailboxes' = table /\ UNCHANGED ids
    ELSE mailboxes' = WithMailbox(table, w) /\ ids' = ids + 1

\* The INSERT and the end of the transaction: email is UNIQUE.
InsertOrRollBack(w, table) ==
    IF \E m \in table : m.email = Form(w).email
    THEN UNCHANGED <<mailboxes, ids>>
    ELSE mailboxes' = WithMailbox(table, w) /\ ids' = ids + 1

InsertMailbox(w) ==
    /\ req[w].page = "create mailbox" /\ ids < MaxRows
    /\ \/ /\ req[w].at = "work" /\ ~Form(w).default /\ MayWrite(w)
          /\ InsertOrRollBack(w, mailboxes)
       \/ /\ req[w].at = "insert"
          /\ InsertOrRollBack(w, draft)
    /\ writer' = None /\ draft' = {}
    /\ Flash(w)
    /\ Quiet /\ UNCHANGED <<aliases, dbErrors, count>>

RemoveAliases(dead) ==
    /\ aliases' = aliases \ dead
    /\ gone' = [a \in Addresses |-> gone[a] + Cardinality({d \in dead : d.address = a})]

\* Slip: a row of aliases does not depend on its mailbox.
DeleteMailboxOnly(w) ==
    /\ Working(w, "delete mailbox") /\ MayWrite(w)
    /\ mailboxes' = {m \in mailboxes : m.id # Form(w).id}
    /\ Flash(w)
    /\ Quiet /\ UNCHANGED <<aliases, ids, tx, dbErrors, count>>

\* delete_mailbox, ON DELETE CASCADE for its aliases.
DeleteMailbox(w) ==
    /\ Working(w, "delete mailbox") /\ MayWrite(w)
    /\ mailboxes' = {m \in mailboxes : m.id # Form(w).id}
    /\ RemoveAliases({a \in aliases : a.mailbox = Form(w).id})
    /\ Flash(w)
    /\ Quiet /\ UNCHANGED <<ids, tx, dbErrors, made, flips, raced>>

-----------------------------------------------------------------------------
(* Aliases.                                                                *)

Taken(address) == \E a \in aliases : a.address = address

\* create_alias: find_alias_by_address, then insert_alias.
FindAlias(w) ==
    /\ Working(w, "create alias")
    /\ IF Taken(Form(w).address) THEN Flash(w) ELSE Proceed(w, "insert", None)
    /\ Quiet /\ UNCHANGED admin

\* The address is UNIQUE, the mailbox a foreign key.
Acceptable(form) == ~Taken(form.address) /\ \E m \in mailboxes : m.id = form.mailbox

\* Slip: the result of the insertion is ignored.
ReportedAnyway(stored) == TRUE

\* Whether the message says that the alias was created.
Reported(stored) == stored

InsertAlias(w) ==
    /\ req[w].page = "create alias" /\ req[w].at = "insert" /\ MayWrite(w)
    /\ IF Acceptable(Form(w))
       THEN /\ ids < MaxRows
            /\ ids' = ids + 1
            /\ aliases' = aliases \union
                 {[id |-> ids + 1, address |-> Form(w).address,
                   mailbox |-> Form(w).mailbox, enabled |-> TRUE]}
       ELSE UNCHANGED <<ids, aliases>>
    /\ made' = IF Reported(Acceptable(Form(w)))
               THEN [made EXCEPT ![Form(w).address] = @ + 1] ELSE made
    /\ Flash(w)
    /\ Quiet /\ UNCHANGED <<mailboxes, tx, dbErrors, gone, flips, raced>>

\* toggle_alias: the list is read, then the negation of what it said is written.
ReadToggle(w) ==
    /\ Working(w, "toggle")
    /\ LET found == {a \in aliases : a.id = Form(w).id}
       IN  \/ found = {} /\ Flash(w)
           \/ \E a \in found : Proceed(w, "write", a.enabled)
    /\ raced' = IF \E v \in Others(w) : req[v].at = "write" /\ Form(v) = Form(w)
                THEN raced \union {Form(w).id} ELSE raced
    /\ Quiet /\ UNCHANGED <<rows, tx, dbErrors, made, gone, flips>>

\* Slip: the switch always turns off.
ToggledOff(a, saw) == [a EXCEPT !.enabled = FALSE]

Toggled(a, saw) == [a EXCEPT !.enabled = ~saw]

WriteToggle(w) ==
    /\ req[w].page = "toggle" /\ req[w].at = "write" /\ MayWrite(w)
    /\ aliases' = {IF a.id = Form(w).id THEN Toggled(a, req[w].saw) ELSE a : a \in aliases}
    /\ flips' = [flips EXCEPT ![Form(w).id] = @ + 1]
    /\ Flash(w)
    /\ Quiet /\ UNCHANGED <<mailboxes, ids, tx, dbErrors, made, gone, raced>>

DeleteAlias(w) ==
    /\ Working(w, "delete alias") /\ MayWrite(w)
    /\ RemoveAliases({a \in aliases : a.id = Form(w).id})
    /\ Flash(w)
    /\ Quiet /\ UNCHANGED <<mailboxes, ids, tx, dbErrors, made, flips, raced>>

-----------------------------------------------------------------------------
(* Faults, and the whole site.                                             *)

\* A failed INSERT is told in a flash message, any other failed statement is a
\* 500; what the transaction had written is rolled back.
StatementFails(w) ==
    /\ req[w].at \in {"work", "insert", "write"}
    /\ req[w].page \notin {"dashboard", "logout"}
    /\ dbErrors < MaxDbErrors
    /\ dbErrors' = dbErrors + 1
    /\ IF req[w].page = "create mailbox" \/ req[w].at = "insert" THEN Flash(w) ELSE Fail500(w)
    /\ IF writer = w THEN writer' = None /\ draft' = {} ELSE UNCHANGED tx
    /\ Quiet /\ UNCHANGED <<rows, count>>

AdminArrive(w) ==
    \/ \E page \in {"login form", "dashboard", "logout"} : Arrive(w, page, None)
    \/ \E name \in Names, password \in Passwords :
          Arrive(w, "login", [name |-> name, password |-> password])
    \/ \E form \in Forms : Arrive(w, form.page, form)

Handle(w) ==
    \/ ClearDefault(w) \/ InsertMailbox(w) \/ DeleteMailbox(w)
    \/ FindAlias(w) \/ InsertAlias(w) \/ ReadToggle(w) \/ WriteToggle(w) \/ DeleteAlias(w)
    \/ StatementFails(w)

\* The transaction of a process that stops is rolled back.
AdminStop == /\ Stop
             /\ writer' = None /\ draft' = {}
             /\ UNCHANGED <<rows, dbErrors, count>>

AdminNext ==
    \/ Boot /\ UNCHANGED admin
    \/ AdminStop
    \/ \E w \in Workers : (AdminArrive(w) \/ Serve(w)) /\ UNCHANGED admin
    \/ \E w \in Workers : Handle(w)

AdminSpec == AdminInit /\ [][AdminNext]_<<web, admin>>

-----------------------------------------------------------------------------
(* Properties.                                                             *)

Defaults(table) == {m \in table : m.default}

\* Rows have their types and keys: an alias has its mailbox, ids are not used
\* twice, and at most one mailbox is the default.
KeysHold ==
    /\ mailboxes \subseteq [id : 1..ids, email : Inboxes, default : BOOLEAN]
    /\ aliases \subseteq [id : 1..ids, address : Addresses, mailbox : {m.id : m \in mailboxes},
                          enabled : BOOLEAN]
    /\ \A a, b \in aliases : a.id = b.id \/ a.address = b.address => a = b
    /\ \A m, n \in mailboxes : m.id = n.id \/ m.email = n.email => m = n
    /\ Cardinality(Defaults(mailboxes)) <= 1
    /\ writer # None <=> \E w \in Workers : req[w].page = "create mailbox" /\ req[w].at = "insert"

\* A default mailbox stays until another one becomes it in the same step, or it
\* is deleted itself: no failed or abandoned insertion takes it away.
DefaultIsKept ==
    [][\A m \in Defaults(mailboxes) :
          m.id \in {n.id : n \in mailboxes'} => Cardinality(Defaults(mailboxes')) = 1]_mailboxes

\* Of several requests that create one alias, also at once, one is told that it
\* did, as often as there is a row that was not deleted.
OneCreates ==
    \A a \in Addresses :
        made[a] = gone[a] + Cardinality({b \in aliases : b.address = a})

\* Toggles that do not overlap alternate, whatever happens between them: an
\* alias is enabled after an even number of them.
TogglesAlternate ==
    \A a \in aliases : a.id \notin raced => (a.enabled <=> flips[a.id] % 2 = 0)
=============================================================================
