------------------------- MODULE Administration_proofs -------------------------
(***************************************************************************)
(* Proofs about the site of the administrator, for any number of requests  *)
(* at a time, mailboxes, aliases, restarts and failed statements.          *)
(*                                                                         *)
(* The handlers are first shown to be handlers as WebSession_proofs has    *)
(* them, which gives the site its promises about sign-in and messages.     *)
(* The tables need an invariant of their own: the draft of a transaction   *)
(* is the committed table without its default as long as the lock is held, *)
(* and what a toggle saw is still so unless another one overlapped it.     *)
(***************************************************************************)
EXTENDS Administration, WebSession_proofs

-----------------------------------------------------------------------------
(* The site has the sessions that WebSession_proofs is about.              *)

SitePages == {"login form", "login", "dashboard", "logout"}

\* A handler works as the session layer expects of it.
LEMMA HandlersWork ==
  ASSUME WebInv, NEW w \in Workers, Handle(w)
  PROVE  Work(w)
<1>1. req[w].at \in {"work", "insert", "write"} /\ Quiet
  BY DEF Handle, ClearDefault, InsertMailbox, DeleteMailbox, FindAlias, InsertAlias, ReadToggle,
         WriteToggle, DeleteAlias, StatementFails, Working
<1>2. req[w].page \notin SitePages
  <2>1. req[w].page \notin {"login form", "login"}
    BY <1>1 DEF WebInv, Copied
  <2>2. req[w].page \notin {"dashboard", "logout"}
    BY DEF Handle, ClearDefault, InsertMailbox, DeleteMailbox, FindAlias, InsertAlias, ReadToggle,
           WriteToggle, DeleteAlias, StatementFails, Working
  <2> QED
    BY <2>1, <2>2 DEF SitePages
<1>3. \/ \E at \in {"insert", "write"} : \E saw : Proceed(w, at, saw)
      \/ Flash(w) \/ Fail500(w)
  BY DEF Handle, ClearDefault, InsertMailbox, DeleteMailbox, FindAlias, InsertAlias, ReadToggle,
         WriteToggle, DeleteAlias, StatementFails
<1> QED
  BY <1>1, <1>2, <1>3 DEF Work, SitePages, Proceed, Flash

\* Every step of the site is a step of its sessions, or leaves them alone.
LEMMA SiteStepsAreWeb == WebInv /\ [AdminNext]_<<web, admin>> => [WebNext]_web
<1> SUFFICES ASSUME WebInv, AdminNext PROVE WebNext
  OBVIOUS
<1>1. ASSUME NEW w \in Workers, AdminArrive(w)
      PROVE  \E page \in Pages : \E form : Arrive(w, page, form)
  <2>1. \A f \in Forms : f.page \in Pages
    BY AdminAssumption
  <2> QED
    BY <1>1, <2>1, WebAssumption DEF AdminArrive
<1>2. CASE \E w \in Workers : AdminArrive(w) \/ Serve(w) \/ Handle(w)
  BY <1>1, <1>2, HandlersWork DEF WebNext
<1>3. CASE Boot \/ AdminStop
  BY <1>3 DEF AdminStop, WebNext
<1> QED
  BY <1>2, <1>3 DEF AdminNext

\* The sessions of the site keep their invariant.
LEMMA SiteWebInv == AdminSpec => []WebInv
<1>1. AdminInit => WebInv
  BY InitWebInv DEF AdminInit
<1>2. WebInv /\ [AdminNext]_<<web, admin>> => WebInv'
  BY SiteStepsAreWeb, NextWebInv
<1> QED
  BY <1>1, <1>2, PTL DEF AdminSpec

\* The site implements the sessions: whatever its handlers do to the tables, to a
\* session they do what the session layer expects.
THEOREM SiteImplementsWeb == AdminSpec => WebSpec
<1>1. AdminInit => WebInit
  BY DEF AdminInit
<1> QED
  BY <1>1, SiteWebInv, SiteStepsAreWeb, PTL DEF AdminSpec, WebSpec

\* On the site, the configured name has the configured password and no other, and
\* whoever is signed in exists.
THEOREM SiteConfigurationRules == AdminSpec => []ConfigurationRules
  BY SiteImplementsWeb, ConfigurationWins, PTL

\* On the site, a logout that no request overlapped holds until a login is accepted.
THEOREM SiteLogoutSticks == AdminSpec => []LogoutSticks
  BY SiteImplementsWeb, LogoutIsFinal, PTL

\* On the site, every message is shown once while requests come one at a time.
THEOREM SiteFlashShownOnce == AdminSpec => []FlashShownOnce
  BY SiteImplementsWeb, MessagesAreShownOnce, PTL

-----------------------------------------------------------------------------
(* The inductive invariant of the tables.                                  *)

AdminTypes ==
    /\ ids \in 0..MaxRows
    /\ IsFiniteSet(mailboxes) /\ IsFiniteSet(aliases)
    /\ writer \in Workers \union {None}
    /\ made \in [Addresses -> Nat] /\ gone \in [Addresses -> Nat]
    /\ flips \in [1..MaxRows -> Nat]

MailboxRows == [id : 1..ids, email : Inboxes, default : BOOLEAN]
AliasRows == [id : 1..ids, address : Addresses, mailbox : {m.id : m \in mailboxes},
              enabled : BOOLEAN]

Tables ==
    /\ mailboxes \subseteq MailboxRows /\ aliases \subseteq AliasRows
    /\ \A m, n \in mailboxes : m.id = n.id \/ m.email = n.email => m = n
    /\ \A a, b \in aliases : a.id = b.id \/ a.address = b.address => a = b
    /\ \A m, n \in Defaults(mailboxes) : m = n

\* A request has the form of its page, and waits only where its page has a second
\* statement.
Asked(r) ==
    /\ r.at # "idle" /\ r.page \notin SitePages => r.form \in Forms /\ r.form.page = r.page
    /\ r.at = "insert" => \/ r.page = "create mailbox" /\ r.form.default
                          \/ r.page = "create alias"
    /\ r.at = "write" => r.page = "toggle" /\ r.saw \in BOOLEAN

Holds(w) == req[w].page = "create mailbox" /\ req[w].at = "insert"

\* The lock belongs to the transaction under way, and keeps its draft true.
Locked ==
    /\ \A w \in Workers : writer = w <=> Holds(w)
    /\ writer # None => draft = {[m EXCEPT !.default = FALSE] : m \in mailboxes}

\* What a toggle saw is so, unless it is raced.
Toggling ==
    /\ \A w \in Workers : req[w].at = "write" => req[w].form.id \in 1..ids
    /\ \A i \in 1..MaxRows : flips[i] # 0 => i <= ids
    /\ \A v, w \in Workers : /\ req[v].at = "write" /\ req[w].at = "write"
                             /\ req[v].form.id = req[w].form.id /\ req[v].form.id \notin raced
                             => v = w
    /\ \A w \in Workers, a \in aliases :
          req[w].at = "write" /\ req[w].form.id = a.id /\ a.id \notin raced =>
              req[w].saw = a.enabled

AdminInv ==
    /\ AdminTypes /\ Tables /\ \A w \in Workers : Asked(req[w])
    /\ Locked /\ Toggling /\ TogglesAlternate /\ OneCreates

-----------------------------------------------------------------------------
(* What a step of a request leaves to the others.                          *)

\* Request w goes to `at`, with its page and form; the others stay.
Turned(w, at) ==
    /\ req'[w].at = at /\ req'[w].page = req[w].page /\ req'[w].form = req[w].form
    /\ \A v \in Workers \ {w} : req'[v] = req[v]

\* Ids are numbers up to their bound.
LEMMA IdsBounded ==
  ASSUME AdminInv
  PROVE  MaxRows \in Nat /\ ids \in Nat /\ ids \in 0..MaxRows /\ ids >= ids
<1>1. MaxRows \in Nat
  BY AdminAssumption
<1> QED
  BY <1>1 DEF AdminInv, AdminTypes

\* Handlers only move their request on.
LEMMA HandlersTurn ==
  ASSUME WebInv, NEW w \in Workers
  PROVE  /\ Flash(w) \/ Fail500(w) => Turned(w, "answer")
         /\ \A at \in {"insert", "write"} : \A saw :
               Proceed(w, at, saw) => Turned(w, at) /\ req'[w].saw = saw
<1>1. DOMAIN req = Workers /\ Typed(req[w])
  BY DEF WebInv, WebTypes
<1>2. Flash(w) => Turned(w, "answer")
  BY <1>1 DEF Flash, Done, Turned, Typed
<1>3. Fail500(w) => Turned(w, "answer")
  BY <1>1 DEF Fail500, Turned, Typed
<1>4. ASSUME NEW at \in {"insert", "write"}, NEW saw, Proceed(w, at, saw)
      PROVE  Turned(w, at) /\ req'[w].saw = saw
  BY <1>1, <1>4 DEF Proceed, Turned, Typed
<1> QED
  BY <1>2, <1>3, <1>4

\* A step of one request leaves the forms of the others.
LEMMA OthersAsked ==
  ASSUME AdminInv, NEW w \in Workers, NEW at, Turned(w, at), Asked(req'[w])
  PROVE  \A v \in Workers : Asked(req'[v])
BY DEF AdminInv, Turned

\* A request that has nothing more to do below /admin keeps its form.
LEMMA AnswerAsked ==
  ASSUME AdminInv, NEW w \in Workers, req[w].at # "idle", Turned(w, "answer")
  PROVE  \A v \in Workers : Asked(req'[v])
<1>1. Asked(req[w])
  BY DEF AdminInv
<1>2. Asked(req'[w])
  BY <1>1 DEF Asked, Turned
<1> QED
  BY <1>2, OthersAsked

\* The lock does not notice requests for other pages.
LEMMA LockStays ==
  ASSUME AdminInv, NEW w \in Workers, req[w].page # "create mailbox",
         req'[w].page # "create mailbox",
         \A v \in Workers \ {w} : req'[v] = req[v], UNCHANGED <<mailboxes, tx>>
  PROVE  Locked'
<1>1. \A v \in Workers : Holds(v)' <=> Holds(v)
  BY DEF Holds
<1> QED
  BY <1>1 DEF AdminInv, Locked, tx

\* A request that may write and has no transaction finds the lock free.
LEMMA LockIsFree ==
  ASSUME AdminInv, NEW w \in Workers, MayWrite(w), ~Holds(w)
  PROVE  writer = None /\ \A v \in Workers : ~Holds(v)
BY AdminAssumption DEF AdminInv, Locked, MayWrite

\* Toggles do not notice that rows are deleted, or made under an id nobody had.
LEMMA TogglesStay ==
  ASSUME AdminInv, NEW w \in Workers, req'[w].at # "write",
         \A v \in Workers \ {w} : req'[v] = req[v],
         ids' \in 0..MaxRows, ids' >= ids, UNCHANGED <<flips, raced>>,
         \A b \in aliases' : b \in aliases \/ (b.id \in 1..MaxRows /\ b.id > ids /\ b.enabled)
  PROVE  Toggling' /\ TogglesAlternate'
<1> USE DEF AdminInv
<1>1. ids \in Nat /\ ids' \in Nat /\ ids <= ids'
  BY DEF AdminTypes
<1>2. \A v \in Workers : req'[v].at = "write" => v # w /\ req'[v] = req[v]
  OBVIOUS
<1>3. \A v \in Workers : req'[v].at = "write" => req'[v].form.id \in 1..ids'
  BY <1>1, <1>2 DEF Toggling
<1>4. \A i \in 1..MaxRows : flips'[i] # 0 => i <= ids'
  BY <1>1 DEF Toggling
<1>5. \A u, v \in Workers : /\ req'[u].at = "write" /\ req'[v].at = "write"
                            /\ req'[u].form.id = req'[v].form.id /\ req'[u].form.id \notin raced'
                            => u = v
  BY <1>2 DEF Toggling
<1>6. ASSUME NEW v \in Workers, NEW b \in aliases', req'[v].at = "write",
             req'[v].form.id = b.id, b.id \notin raced'
      PROVE  req'[v].saw = b.enabled
  <2>1. req'[v] = req[v] /\ req[v].form.id \in 1..ids
    BY <1>2, <1>6 DEF Toggling
  <2>2. b \in aliases
    BY <1>1, <1>6, <2>1
  <2> QED
    BY <1>6, <2>1, <2>2 DEF Toggling
<1>7. ASSUME NEW b \in aliases', b.id \notin raced' PROVE b.enabled <=> flips'[b.id] % 2 = 0
  <2>1. CASE b \in aliases
    BY <1>7, <2>1 DEF TogglesAlternate
  <2>2. CASE b.id \in 1..MaxRows /\ b.id > ids /\ b.enabled
    <3>1. flips[b.id] = 0
      BY <1>1, <2>2 DEF Toggling
    <3>2. 0 % 2 = 0
      OBVIOUS
    <3> QED
      BY <2>2, <3>1, <3>2
  <2> QED
    BY <1>7, <2>1, <2>2
<1> QED
  BY <1>3, <1>4, <1>5, <1>6, <1>7 DEF Toggling, TogglesAlternate

\* Steps of the session layer and of the process, and handlers that only read.
LEMMA LeaveKeeps ==
  ASSUME AdminInv, UNCHANGED admin, NEW w \in Workers,
         \A v \in Workers \ {w} : req'[v] = req[v], Asked(req'[w]),
         req[w].at \notin {"insert", "write"}, req'[w].at \notin {"insert", "write"}
  PROVE  AdminInv'
<1>1. UNCHANGED <<mailboxes, aliases, ids, writer, draft, made, gone, flips, raced>>
  BY DEF admin, rows, tx, count
<1>2. AdminTypes' /\ Tables' /\ OneCreates'
  BY <1>1 DEF AdminInv, AdminTypes, Tables, MailboxRows, AliasRows, OneCreates, Defaults
<1>3. \A v \in Workers : Asked(req'[v])
  BY DEF AdminInv
<1>4. Locked'
  <2>1. \A v \in Workers : Holds(v)' <=> Holds(v)
    BY DEF Holds
  <2> QED
    BY <1>1, <2>1 DEF AdminInv, Locked
<1>5. Toggling' /\ TogglesAlternate'
  <2>1. ids \in 0..MaxRows /\ ids >= ids
    BY DEF AdminInv, AdminTypes
  <2> QED
    BY <1>1, <2>1, TogglesStay
<1> QED
  BY <1>2, <1>3, <1>4, <1>5 DEF AdminInv

-----------------------------------------------------------------------------
(* Mailboxes.                                                              *)

\* What the form of a page holds.
LEMMA FormTypes ==
  ASSUME NEW f \in Forms
  PROVE  /\ f.page = "create mailbox" => f.email \in Inboxes /\ f.default \in BOOLEAN
         /\ f.page = "create alias" => f.address \in Addresses /\ f.mailbox \in 1..MaxRows
         /\ f.page \in {"toggle", "delete alias", "delete mailbox"} => f.id \in 1..MaxRows
BY DEF Forms

\* The draft is the table without its default.
LEMMA Cleared ==
  ASSUME AdminInv
  PROVE  LET table == {[m EXCEPT !.default = FALSE] : m \in mailboxes}
         IN  /\ table \subseteq MailboxRows /\ IsFiniteSet(table) /\ Defaults(table) = {}
             /\ \A m, n \in table : m.id = n.id \/ m.email = n.email => m = n
             /\ {m.id : m \in table} = {m.id : m \in mailboxes}
<1> DEFINE F(m) == [m EXCEPT !.default = FALSE]
           f == [m \in mailboxes |-> F(m)]
           table == {F(m) : m \in mailboxes}
<1>1. \A m \in mailboxes : F(m) \in MailboxRows /\ F(m).id = m.id /\ F(m).email = m.email
                           /\ F(m).default = FALSE
  BY DEF AdminInv, Tables, MailboxRows
<1>2. IsFiniteSet(table)
  <2>1. f \in Surjection(mailboxes, table)
    BY DEF Surjection
  <2> HIDE DEF f, table
  <2> QED
    BY <2>1, FS_Surjection DEF AdminInv, AdminTypes
<1> HIDE DEF F
<1>3. table \subseteq MailboxRows /\ Defaults(table) = {}
  BY <1>1 DEF Defaults
<1>4. \A m, n \in table : m.id = n.id \/ m.email = n.email => m = n
  BY <1>1 DEF AdminInv, Tables
<1>5. {m.id : m \in table} = {m.id : m \in mailboxes}
  BY <1>1
<1> QED
  BY <1>2, <1>3, <1>4, <1>5 DEF F

\* The transaction begins.
LEMMA ClearDefaultKeeps ==
  ASSUME WebInv, AdminInv, NEW w \in Workers, ClearDefault(w)
  PROVE  AdminInv'
<1>1. /\ req[w].page = "create mailbox" /\ req[w].at = "work" /\ Form(w).default
      /\ writer = None /\ writer' = w
      /\ draft' = {[m EXCEPT !.default = FALSE] : m \in mailboxes}
      /\ Turned(w, "insert")
      /\ UNCHANGED <<mailboxes, aliases, ids, made, gone, flips, raced>>
  BY HandlersTurn DEF ClearDefault, Working, rows, count
<1>2. AdminTypes' /\ Tables' /\ OneCreates'
  BY <1>1 DEF AdminInv, AdminTypes, Tables, MailboxRows, AliasRows, OneCreates, Defaults
<1>3. \A v \in Workers : Asked(req'[v])
  <2>1. req[w].at # "idle" /\ Asked(req[w])
    BY <1>1 DEF AdminInv
  <2>2. Asked(req'[w])
    BY <1>1, <2>1 DEF Asked, Turned, Form, SitePages
  <2> QED
    BY <1>1, <2>2, OthersAsked
<1>4. Locked'
  <2>1. \A v \in Workers : ~Holds(v)
    BY <1>1, LockIsFree DEF Holds, MayWrite
  <2>2. \A v \in Workers : Holds(v)' <=> v = w
    BY <1>1, <2>1 DEF Holds, Turned
  <2> QED
    BY <1>1, <2>2 DEF Locked
<1>5. Toggling' /\ TogglesAlternate'
  <2>1. ids \in 0..MaxRows /\ ids >= ids
    BY DEF AdminInv, AdminTypes
  <2> QED
    BY <1>1, <2>1, TogglesStay DEF Turned
<1> QED
  BY <1>2, <1>3, <1>4, <1>5 DEF AdminInv

\* What InsertMailbox does to the table: the old table, or one more row on the
\* table or on the draft; a new default finds no other.
LEMMA InsertedMailbox ==
  ASSUME AdminInv, NEW w \in Workers, InsertMailbox(w)
  PROVE  \/ UNCHANGED <<mailboxes, ids>>
         \/ /\ ids' = ids + 1 /\ ids' \in 0..MaxRows
            /\ \E table : /\ mailboxes' = WithMailbox(table, w)
                          /\ \A m \in table : m.email # Form(w).email
                          /\ table \subseteq MailboxRows /\ IsFiniteSet(table)
                          /\ \A m, n \in table : m.id = n.id \/ m.email = n.email => m = n
                          /\ {m.id : m \in table} = {m.id : m \in mailboxes}
                          /\ \/ ~Form(w).default /\ table = mailboxes
                             \/ Form(w).default /\ Defaults(table) = {}
<1>1. ids < MaxRows /\ ids \in Nat /\ MaxRows \in Nat
  <2>1. MaxRows \in Nat
    BY AdminAssumption
  <2>2. ids < MaxRows
    BY DEF InsertMailbox
  <2> QED
    BY <2>1, <2>2 DEF AdminInv, AdminTypes
<1>2. CASE ~Form(w).default /\ InsertOrRollBack(w, mailboxes)
  BY <1>1, <1>2 DEF InsertOrRollBack, AdminInv, AdminTypes, Tables
<1>3. CASE req[w].at = "insert" /\ InsertOrRollBack(w, draft)
  <2>1. Form(w).default /\ writer = w
    BY <1>3 DEF InsertMailbox, AdminInv, Asked, Form, Locked, Holds
  <2>2. draft = {[m EXCEPT !.default = FALSE] : m \in mailboxes}
    BY <2>1, AdminAssumption DEF AdminInv, Locked
  <2>3. /\ draft \subseteq MailboxRows /\ IsFiniteSet(draft) /\ Defaults(draft) = {}
        /\ \A m, n \in draft : m.id = n.id \/ m.email = n.email => m = n
        /\ {m.id : m \in draft} = {m.id : m \in mailboxes}
    BY <2>2, Cleared
  <2> QED
    BY <1>1, <1>3, <2>1, <2>3, SMTT(20) DEF InsertOrRollBack
<1> QED
  BY <1>2, <1>3 DEF InsertMailbox

\* The transaction, or a lone insertion, ends with at most one default.
LEMMA InsertMailboxKeeps ==
  ASSUME WebInv, AdminInv, NEW w \in Workers, InsertMailbox(w)
  PROVE  AdminInv'
<1>1. /\ req[w].page = "create mailbox" /\ req[w].at \in {"work", "insert"}
      /\ writer' = None /\ Turned(w, "answer")
      /\ UNCHANGED <<aliases, made, gone, flips, raced>>
  BY HandlersTurn DEF InsertMailbox, count
<1>2. ids \in 0..MaxRows /\ ids \in Nat /\ IsFiniteSet(mailboxes)
  BY DEF AdminInv, AdminTypes
<1>3. Form(w) \in Forms /\ Form(w).email \in Inboxes /\ Form(w).default \in BOOLEAN
  <2>1. Form(w) \in Forms /\ Form(w).page = "create mailbox"
    BY <1>1 DEF AdminInv, Asked, Form, SitePages
  <2> QED
    BY <2>1, FormTypes
<1>4. /\ IsFiniteSet(mailboxes') /\ ids' \in 0..MaxRows /\ ids' >= ids
      /\ Tables'
  <2>1. CASE UNCHANGED <<mailboxes, ids>>
    <3>1. Tables'
      BY <1>1, <2>1 DEF AdminInv, Tables, MailboxRows, AliasRows, Defaults
    <3>2. ids' = ids /\ mailboxes' = mailboxes
      BY <2>1
    <3> QED
      BY <1>2, <3>1, <3>2
  <2>2. CASE ids' = ids + 1 /\ ids' \in 0..MaxRows /\ ~UNCHANGED <<mailboxes, ids>>
    <3>0. PICK table :
             /\ mailboxes' = WithMailbox(table, w)
             /\ \A m \in table : m.email # Form(w).email
             /\ table \subseteq MailboxRows /\ IsFiniteSet(table)
             /\ \A m, n \in table : m.id = n.id \/ m.email = n.email => m = n
             /\ {m.id : m \in table} = {m.id : m \in mailboxes}
             /\ \/ ~Form(w).default /\ table = mailboxes
                \/ Form(w).default /\ Defaults(table) = {}
      BY <2>2, InsertedMailbox
    <3> DEFINE new == [id |-> ids + 1, email |-> Form(w).email, default |-> Form(w).default]
    <3>1. mailboxes' = table \union {new}
      BY <3>0 DEF WithMailbox
    <3>2. /\ new \in MailboxRows' /\ MailboxRows \subseteq MailboxRows'
          /\ new.id = ids + 1 /\ new.email = Form(w).email /\ new.default = Form(w).default
      BY <1>2, <1>3, <2>2 DEF MailboxRows
    <3> HIDE DEF new
    <3>3. \A m \in table : m.id # new.id /\ m.email # new.email
      BY <1>2, <3>0, <3>2 DEF MailboxRows
    <3>4. IsFiniteSet(mailboxes')
      BY <3>0, <3>1, FS_AddElement
    <3>5. mailboxes' \subseteq MailboxRows'
      BY <3>0, <3>1, <3>2
    <3>6. \A m, n \in mailboxes' : m.id = n.id \/ m.email = n.email => m = n
      BY <3>0, <3>1, <3>3
    <3>7. \A m, n \in Defaults(mailboxes') : m = n
      <4>1. CASE ~Form(w).default /\ table = mailboxes
        BY <3>1, <3>2, <4>1 DEF Defaults, AdminInv, Tables
      <4>2. CASE Form(w).default /\ Defaults(table) = {}
        BY <3>1, <4>2 DEF Defaults
      <4> QED
        BY <3>0, <4>1, <4>2
    <3>8. aliases' \subseteq AliasRows'
      <4>1. {m.id : m \in mailboxes} \subseteq {m.id : m \in mailboxes'}
        BY <3>0, <3>1
      <4>2. 1..ids \subseteq 1..ids'
        BY <1>2, <2>2
      <4>3. AliasRows \subseteq AliasRows'
        BY <4>1, <4>2 DEF AliasRows
      <4> QED
        BY <1>1, <4>3 DEF AdminInv, Tables
    <3>9. \A a, b \in aliases' : a.id = b.id \/ a.address = b.address => a = b
      BY <1>1 DEF AdminInv, Tables
    <3>10. Defaults(mailboxes)' = Defaults(mailboxes')
      BY DEF Defaults
    <3> QED
      BY <1>2, <2>2, <3>4, <3>5, <3>6, <3>7, <3>8, <3>9, <3>10 DEF Tables
  <2> QED
    BY <2>1, <2>2, InsertedMailbox
<1>5. AdminTypes'
  BY <1>1, <1>4 DEF AdminInv, AdminTypes
<1>6. \A v \in Workers : Asked(req'[v])
  BY <1>1, AnswerAsked
<1>7. Locked'
  <2>1. \A v \in Workers \ {w} : ~Holds(v)
    <3>1. MayWrite(w)
      BY DEF InsertMailbox, AdminInv, Locked, Holds, MayWrite
    <3> QED
      BY <3>1, AdminAssumption DEF AdminInv, Locked, MayWrite
  <2>2. \A v \in Workers : ~Holds(v)'
    BY <1>1, <2>1 DEF Holds, Turned
  <2> QED
    BY <1>1, <2>2, AdminAssumption DEF Locked
<1>8. Toggling' /\ TogglesAlternate'
  BY <1>1, <1>4, TogglesStay DEF Turned
<1>9. OneCreates'
  BY <1>1 DEF AdminInv, OneCreates
<1> QED
  BY <1>4, <1>5, <1>6, <1>7, <1>8, <1>9 DEF AdminInv

-----------------------------------------------------------------------------
(* Rows of aliases that go and come.                                       *)

RowsAt(address) == {b \in aliases : b.address = address}

\* Removing aliases counts them.
LEMMA RemovalCounts ==
  ASSUME AdminInv, NEW dead \in SUBSET aliases, RemoveAliases(dead), made' = made
  PROVE  /\ IsFiniteSet(aliases') /\ gone' \in [Addresses -> Nat] /\ OneCreates'
<1>1. IsFiniteSet(aliases') /\ aliases' = aliases \ dead
  BY FS_Difference DEF RemoveAliases, AdminInv, AdminTypes
<1>2. ASSUME NEW a \in Addresses
      PROVE  /\ gone'[a] \in Nat
             /\ made'[a] = gone'[a] + Cardinality({b \in aliases' : b.address = a})
  <2> DEFINE here == RowsAt(a)
             died == {d \in dead : d.address = a}
  <2>1. here \in SUBSET aliases /\ died \in SUBSET aliases
    BY DEF RowsAt
  <2>2. IsFiniteSet(here) /\ IsFiniteSet(died)
    BY <2>1, FS_Subset DEF AdminInv, AdminTypes
  <2>3. here \cap died = died /\ {b \in aliases' : b.address = a} = here \ died
    BY <1>1 DEF RowsAt
  <2> HIDE DEF here
  <2>4. /\ Cardinality(here \ died) = Cardinality(here) - Cardinality(here \cap died)
        /\ Cardinality(here) \in Nat /\ Cardinality(died) \in Nat
        /\ IsFiniteSet(here \ died)
    BY <2>2, FS_Difference, FS_CardinalityType
  <2>5. Cardinality(here \ died) \in Nat
    BY <2>4, FS_CardinalityType
  <2>6. gone'[a] = gone[a] + Cardinality(died) /\ gone[a] \in Nat /\ made[a] \in Nat
    BY DEF RemoveAliases, AdminInv, AdminTypes
  <2>7. made[a] = gone[a] + Cardinality(here)
    BY DEF AdminInv, OneCreates, RowsAt, here
  <2> HIDE DEF died
  <2>8. Cardinality({b \in aliases' : b.address = a}) = Cardinality(here) - Cardinality(died)
    BY <2>3, <2>4
  <2> QED
    BY <2>4, <2>6, <2>7, <2>8
<1>3. gone' \in [Addresses -> Nat]
  BY <1>2 DEF RemoveAliases
<1> QED
  BY <1>1, <1>2, <1>3 DEF OneCreates

\* Deleting a mailbox, with its aliases, or an alias.
LEMMA DeletionsKeep ==
  ASSUME WebInv, AdminInv, NEW w \in Workers, DeleteMailbox(w) \/ DeleteAlias(w)
  PROVE  AdminInv'
<1>1. /\ req[w].page \in {"delete mailbox", "delete alias"} /\ req[w].at = "work"
      /\ MayWrite(w) /\ Turned(w, "answer")
      /\ UNCHANGED <<ids, writer, draft, made, flips, raced>>
  BY HandlersTurn DEF DeleteMailbox, DeleteAlias, Working, tx
<1>2. writer = None /\ \A v \in Workers : ~Holds(v)
  BY <1>1, LockIsFree DEF Holds
<1>3. PICK dead \in SUBSET aliases :
         /\ RemoveAliases(dead)
         /\ mailboxes' \subseteq mailboxes
         /\ \A a \in aliases \ dead : a.mailbox \in {m.id : m \in mailboxes'}
  <2>1. CASE DeleteMailbox(w)
    <3> DEFINE dead == {a \in aliases : a.mailbox = Form(w).id}
    <3>1. \A a \in aliases \ dead : \E m \in mailboxes' : m.id = a.mailbox
      BY <2>1 DEF DeleteMailbox, AdminInv, Tables, AliasRows
    <3>2. RemoveAliases(dead) /\ mailboxes' \subseteq mailboxes
      BY <2>1 DEF DeleteMailbox
    <3>3. \A a \in aliases \ dead : a.mailbox \in {m.id : m \in mailboxes'}
      BY <3>1
    <3>4. dead \in SUBSET aliases
      OBVIOUS
    <3> HIDE DEF dead
    <3> QED
      BY <3>2, <3>3, <3>4
  <2>2. CASE DeleteAlias(w)
    <3> DEFINE dead == {a \in aliases : a.id = Form(w).id}
    <3>1. RemoveAliases(dead) /\ mailboxes' = mailboxes
      BY <2>2 DEF DeleteAlias
    <3>2. \A a \in aliases \ dead : a.mailbox \in {m.id : m \in mailboxes'}
      BY <3>1 DEF AdminInv, Tables, AliasRows
    <3>3. dead \in SUBSET aliases
      OBVIOUS
    <3> HIDE DEF dead
    <3> QED
      BY <3>1, <3>2, <3>3
  <2> QED
    BY <2>1, <2>2
<1>4. aliases' = aliases \ dead
  BY <1>3 DEF RemoveAliases
<1>5. IsFiniteSet(aliases') /\ gone' \in [Addresses -> Nat] /\ OneCreates'
  BY <1>1, <1>3, RemovalCounts
<1>6. IsFiniteSet(mailboxes')
  <2>1. mailboxes' \in SUBSET mailboxes
    BY <1>3
  <2> QED
    BY <2>1, FS_Subset DEF AdminInv, AdminTypes
<1>7. AdminTypes'
  BY <1>1, <1>5, <1>6 DEF AdminInv, AdminTypes
<1>8. Tables'
  <2>1. mailboxes' \subseteq MailboxRows'
    BY <1>1, <1>3 DEF AdminInv, Tables, MailboxRows
  <2>2. aliases' \subseteq AliasRows'
    BY <1>1, <1>3, <1>4 DEF AdminInv, Tables, AliasRows
  <2>3. \A m, n \in Defaults(mailboxes)' : m = n
    BY <1>3 DEF AdminInv, Tables, Defaults
  <2>4. \A m, n \in mailboxes' : m.id = n.id \/ m.email = n.email => m = n
    BY <1>3 DEF AdminInv, Tables
  <2>5. \A a, b \in aliases' : a.id = b.id \/ a.address = b.address => a = b
    BY <1>4 DEF AdminInv, Tables
  <2> QED
    BY <2>1, <2>2, <2>3, <2>4, <2>5 DEF Tables
<1>9. \A v \in Workers : Asked(req'[v])
  BY <1>1, AnswerAsked
<1>10. Locked'
  <2>1. \A v \in Workers : ~Holds(v)'
    BY <1>1, <1>2 DEF Holds, Turned
  <2> QED
    BY <1>1, <1>2, <2>1, AdminAssumption DEF Locked
<1>11. Toggling' /\ TogglesAlternate'
  <2>1. ids' \in 0..MaxRows /\ ids' >= ids
    <3>1. ids' = ids
      BY <1>1
    <3> QED
      BY <3>1, IdsBounded
  <2>2. \A b \in aliases' : b \in aliases
    BY <1>4
  <2> QED
    BY <1>1, <2>1, <2>2, TogglesStay DEF Turned
<1> QED
  BY <1>5, <1>7, <1>8, <1>9, <1>10, <1>11 DEF AdminInv

\* The lookup before the insertion, or the whole of a page that only looks.
LEMMA FindAliasKeeps ==
  ASSUME WebInv, AdminInv, NEW w \in Workers, FindAlias(w)
  PROVE  AdminInv'
<1>1. /\ req[w].page = "create alias" /\ req[w].at = "work"
      /\ Turned(w, "answer") \/ Turned(w, "insert")
      /\ UNCHANGED <<mailboxes, aliases, ids, tx, made, gone, flips, raced>>
  BY HandlersTurn DEF FindAlias, Working, admin, rows, count
<1>2. AdminTypes' /\ Tables' /\ OneCreates'
  BY <1>1 DEF AdminInv, AdminTypes, Tables, MailboxRows, AliasRows, OneCreates, Defaults, tx
<1>3. \A v \in Workers : Asked(req'[v])
  <2>1. req[w].at # "idle" /\ Asked(req[w])
    BY <1>1 DEF AdminInv
  <2>2. Asked(req'[w])
    BY <1>1, <2>1 DEF Asked, Turned, SitePages
  <2> QED
    BY <1>1, <2>2, OthersAsked
<1>4. Locked'
  BY <1>1, LockStays DEF Turned
<1>5. Toggling' /\ TogglesAlternate'
  <2>1. ids' \in 0..MaxRows /\ ids' >= ids
    <3>1. ids' = ids
      BY <1>1
    <3> QED
      BY <3>1, IdsBounded
  <2>2. req'[w].at # "write" /\ \A v \in Workers \ {w} : req'[v] = req[v]
    BY <1>1 DEF Turned
  <2> QED
    BY <1>1, <2>1, <2>2, TogglesStay
<1> QED
  BY <1>2, <1>3, <1>4, <1>5 DEF AdminInv

\* Who is told that the alias was made has made it.
LEMMA InsertAliasKeeps ==
  ASSUME WebInv, AdminInv, NEW w \in Workers, InsertAlias(w)
  PROVE  AdminInv'
<1>1. /\ req[w].page = "create alias" /\ req[w].at = "insert" /\ Turned(w, "answer")
      /\ UNCHANGED <<mailboxes, tx, gone, flips, raced>>
  BY HandlersTurn DEF InsertAlias
<1>2. Form(w) \in Forms /\ Form(w).address \in Addresses
  <2>1. Form(w) \in Forms /\ Form(w).page = "create alias"
    BY <1>1 DEF AdminInv, Asked, Form, SitePages
  <2> QED
    BY <2>1, FormTypes
<1>3. /\ ids \in 0..MaxRows /\ ids \in Nat /\ MaxRows \in Nat /\ IsFiniteSet(aliases)
      /\ made \in [Addresses -> Nat] /\ gone \in [Addresses -> Nat]
  BY IdsBounded DEF AdminInv, AdminTypes
<1>4. \A v \in Workers : Asked(req'[v])
  BY <1>1, AnswerAsked
<1>5. Locked'
  BY <1>1, LockStays DEF Turned
<1>6. CASE ~Acceptable(Form(w))
  <2>1. UNCHANGED <<ids, aliases, made>>
    BY <1>6 DEF InsertAlias, Reported
  <2>2. AdminTypes' /\ Tables' /\ OneCreates'
    BY <1>1, <2>1 DEF AdminInv, AdminTypes, Tables, MailboxRows, AliasRows, OneCreates, Defaults, tx
  <2>3. Toggling' /\ TogglesAlternate'
    <3>1. ids' = ids /\ \A b \in aliases' : b \in aliases
      BY <2>1
    <3>2. ids' \in 0..MaxRows /\ ids' >= ids
      BY <1>3, <3>1
    <3> QED
      BY <1>1, <3>1, <3>2, TogglesStay DEF Turned
  <2> QED
    BY <1>4, <1>5, <2>2, <2>3 DEF AdminInv
<1>7. CASE Acceptable(Form(w))
  <2> DEFINE new == [id |-> ids + 1, address |-> Form(w).address,
                     mailbox |-> Form(w).mailbox, enabled |-> TRUE]
  <2>1. /\ ids' = ids + 1 /\ aliases' = aliases \union {new} /\ ids < MaxRows
        /\ made' = [made EXCEPT ![Form(w).address] = @ + 1]
    BY <1>7 DEF InsertAlias, Reported
  <2>2. /\ \A a \in aliases : a.address # Form(w).address
        /\ \E m \in mailboxes : m.id = Form(w).mailbox
    BY <1>7 DEF Acceptable, Taken
  <2>3. ids' \in 0..MaxRows /\ ids' >= ids /\ 1..ids \subseteq 1..ids' /\ ids + 1 \in 1..ids'
        /\ ids + 1 \in 1..MaxRows /\ ids + 1 > ids
    BY <1>3, <2>1
  <2>4. new \in AliasRows' /\ new.id = ids + 1 /\ new.address = Form(w).address /\ new.enabled
    BY <1>1, <1>2, <2>2, <2>3 DEF AliasRows
  <2> HIDE DEF new
  <2>5. new \notin aliases
    BY <2>2, <2>4
  <2>6. IsFiniteSet(aliases')
    BY <1>3, <2>1, FS_AddElement
  <2>7. AdminTypes'
    <3>1. made' \in [Addresses -> Nat]
      BY <1>2, <1>3, <2>1
    <3> QED
      BY <1>1, <1>3, <2>3, <2>6, <3>1 DEF AdminInv, AdminTypes, tx
  <2>8. Tables'
    <3>1. aliases' \subseteq AliasRows'
      BY <1>1, <2>1, <2>3, <2>4 DEF AdminInv, Tables, AliasRows
    <3>2. mailboxes' \subseteq MailboxRows'
      BY <1>1, <2>3 DEF AdminInv, Tables, MailboxRows
    <3>3. \A a \in aliases : a.id # new.id /\ a.address # new.address
      BY <1>3, <2>2, <2>4 DEF AdminInv, Tables, AliasRows
    <3>4. \A a, b \in aliases' : a.id = b.id \/ a.address = b.address => a = b
      BY <2>1, <3>3 DEF AdminInv, Tables
    <3> QED
      BY <1>1, <3>1, <3>2, <3>4 DEF AdminInv, Tables, Defaults
  <2>9. OneCreates'
    <3> SUFFICES ASSUME NEW a \in Addresses
                 PROVE  made'[a] = gone'[a] + Cardinality({b \in aliases' : b.address = a})
      BY DEF OneCreates
    <3>1. made[a] = gone[a] + Cardinality(RowsAt(a)) /\ gone'[a] = gone[a]
      BY <1>1 DEF AdminInv, OneCreates, RowsAt
    <3>2. CASE a = Form(w).address
      <4>1. RowsAt(a) = {} /\ {b \in aliases' : b.address = a} = {new}
        BY <2>1, <2>2, <2>4, <3>2 DEF RowsAt
      <4>2. Cardinality(RowsAt(a)) = 0 /\ Cardinality({b \in aliases' : b.address = a}) = 1
        BY <4>1, FS_EmptySet, FS_Singleton
      <4>3. made'[a] = made[a] + 1
        BY <1>3, <2>1, <3>2
      <4> QED
        BY <1>3, <3>1, <4>2, <4>3
    <3>3. CASE a # Form(w).address
      <4>1. {b \in aliases' : b.address = a} = RowsAt(a) /\ made'[a] = made[a]
        BY <1>3, <2>1, <2>4, <3>3 DEF RowsAt
      <4> QED
        BY <3>1, <4>1
    <3> QED
      BY <3>2, <3>3
  <2>10. Toggling' /\ TogglesAlternate'
    <3>1. \A b \in aliases' : b \in aliases \/ (b.id \in 1..MaxRows /\ b.id > ids /\ b.enabled)
      BY <2>1, <2>3, <2>4
    <3> QED
      BY <1>1, <2>3, <3>1, TogglesStay DEF Turned
  <2> QED
    BY <1>4, <1>5, <2>7, <2>8, <2>9, <2>10 DEF AdminInv
<1> QED
  BY <1>6, <1>7

-----------------------------------------------------------------------------
(* Toggles.                                                                *)

\* A toggle that reads while another one waits to write is put on record.
LEMMA ReadToggleKeeps ==
  ASSUME WebInv, AdminInv, NEW w \in Workers, ReadToggle(w)
  PROVE  AdminInv'
<1>1. /\ req[w].page = "toggle" /\ req[w].at = "work"
      /\ UNCHANGED <<mailboxes, aliases, ids, tx, writer, draft, made, gone, flips>>
      /\ raced \subseteq raced'
  BY DEF ReadToggle, Working, rows, tx
<1>2. Form(w) = req[w].form /\ Form(w) \in Forms /\ Form(w).page = "toggle"
  BY <1>1 DEF AdminInv, Asked, Form, SitePages
<1>3. \/ Turned(w, "answer")
      \/ \E a \in aliases : a.id = Form(w).id /\ Turned(w, "write") /\ req'[w].saw = a.enabled
  BY HandlersTurn DEF ReadToggle
<1>4. AdminTypes' /\ Tables' /\ OneCreates'
  BY <1>1 DEF AdminInv, AdminTypes, Tables, MailboxRows, AliasRows, OneCreates, Defaults
<1>5. \A v \in Workers \ {w} : req'[v] = req[v]
  BY <1>3 DEF Turned
<1>6. Asked(req'[w])
  <2>1. \A a \in aliases : a.enabled \in BOOLEAN
    BY DEF AdminInv, Tables, AliasRows
  <2> QED
    BY <1>1, <1>2, <1>3, <2>1 DEF Asked, Turned, SitePages
<1>7. Locked'
  BY <1>1, <1>3, <1>5, LockStays DEF Turned
<1>8. TogglesAlternate'
  BY <1>1 DEF AdminInv, TogglesAlternate
<1>9. Toggling'
  <2>1. CASE Turned(w, "answer")
    BY <1>1, <1>5, <2>1 DEF AdminInv, Toggling, Turned
  <2>2. ASSUME NEW a \in aliases, a.id = Form(w).id, Turned(w, "write"), req'[w].saw = a.enabled
        PROVE  Toggling'
    <3>1. req'[w].at = "write" /\ req'[w].form = Form(w) /\ a.id \in 1..ids
      BY <1>2, <2>2 DEF Turned, AdminInv, Tables, AliasRows
    <3>2. ASSUME NEW v \in Workers \ {w}, req[v].at = "write", req[v].form.id = Form(w).id
          PROVE  Form(w).id \in raced'
      <4>1. req[v].form \in Forms /\ req[v].form.page = "toggle"
        BY <3>2 DEF AdminInv, Asked, SitePages
      <4>2. \A f, g \in Forms : f.page = "toggle" /\ g.page = "toggle" /\ f.id = g.id => f = g
        <5> SUFFICES ASSUME NEW f \in Forms, NEW g \in Forms, f.page = "toggle",
                            g.page = "toggle", f.id = g.id
                     PROVE  f = g
          OBVIOUS
        <5> DEFINE pages == {"toggle", "delete alias", "delete mailbox"}
        <5>1. f \in [page : pages, id : 1..MaxRows] /\ g \in [page : pages, id : 1..MaxRows]
          BY DEF Forms
        <5> HIDE DEF pages
        <5> QED
          BY <5>1
      <4>3. Form(v) = Form(w)
        BY <1>2, <3>2, <4>1, <4>2 DEF Form
      <4> QED
        BY <3>2, <4>3 DEF ReadToggle, Others
    <3>3. \A v \in Workers : req'[v].at = "write" => req'[v].form.id \in 1..ids
      BY <1>5, <2>2, <3>1 DEF AdminInv, Toggling
    <3>4. \A u, v \in Workers : /\ req'[u].at = "write" /\ req'[v].at = "write"
                                /\ req'[u].form.id = req'[v].form.id
                                /\ req'[u].form.id \notin raced'
                                => u = v
      BY <1>1, <1>5, <3>1, <3>2 DEF AdminInv, Toggling
    <3>5. \A v \in Workers, b \in aliases :
             req'[v].at = "write" /\ req'[v].form.id = b.id /\ b.id \notin raced' =>
                req'[v].saw = b.enabled
      <4>1. \A b \in aliases : b.id = a.id => b = a
        BY DEF AdminInv, Tables
      <4> QED
        BY <1>1, <1>5, <2>2, <3>1, <4>1 DEF AdminInv, Toggling
    <3>6. \A i \in 1..MaxRows : flips'[i] # 0 => i <= ids'
      BY <1>1 DEF AdminInv, Toggling
    <3> QED
      BY <1>1, <3>3, <3>4, <3>5, <3>6 DEF Toggling
  <2> QED
    BY <1>3, <2>1, <2>2
<1> QED
  BY <1>4, <1>5, <1>6, <1>7, <1>8, <1>9 DEF AdminInv

\* A toggled row is a row, and differs in one column.
LEMMA ToggledRow ==
  ASSUME NEW saw, (~saw) \in BOOLEAN, NEW a \in AliasRows
  PROVE  /\ Toggled(a, saw) \in AliasRows /\ Toggled(a, saw).id = a.id
         /\ Toggled(a, saw).address = a.address /\ Toggled(a, saw).mailbox = a.mailbox
         /\ Toggled(a, saw).enabled = ~saw
BY DEF AliasRows, Toggled

\* The write turns what was read, so unless it is raced it turns what is there.
LEMMA WriteToggleKeeps ==
  ASSUME WebInv, AdminInv, NEW w \in Workers, WriteToggle(w)
  PROVE  AdminInv'
<1> DEFINE i == Form(w).id
           saw == req[w].saw
           F(a) == IF a.id = i THEN Toggled(a, saw) ELSE a
<1>1. /\ req[w].page = "toggle" /\ req[w].at = "write" /\ Turned(w, "answer")
      /\ UNCHANGED <<mailboxes, ids, tx, writer, draft, made, gone, raced>>
      /\ aliases' = {F(a) : a \in aliases}
      /\ flips' = [flips EXCEPT ![i] = @ + 1]
  BY HandlersTurn DEF WriteToggle, tx
<1>2. /\ saw \in BOOLEAN /\ i \in 1..ids /\ i \in 1..MaxRows
  <2>1. saw \in BOOLEAN /\ i \in 1..ids
    BY <1>1 DEF AdminInv, Asked, Toggling, Form
  <2> QED
    BY <2>1, IdsBounded
<1> DEFINE f == [a \in aliases |-> F(a)]
<1>3. /\ aliases' = {F(a) : a \in aliases}
      /\ \A a \in aliases : /\ F(a) \in AliasRows /\ F(a).id = a.id /\ F(a).address = a.address
                            /\ F(a).mailbox = a.mailbox
                            /\ a.id = i => F(a).enabled = ~saw
                            /\ a.id # i => F(a) = a
  <2>1. (~saw) \in BOOLEAN
    BY <1>2
  <2>2. \A a \in aliases : /\ F(a) \in AliasRows /\ F(a).id = a.id /\ F(a).address = a.address
                           /\ F(a).mailbox = a.mailbox
                           /\ a.id = i => F(a).enabled = ~saw
                           /\ a.id # i => F(a) = a
    <3>1. aliases \subseteq AliasRows
      BY DEF AdminInv, Tables
    <3>2. \A a \in AliasRows :
            /\ Toggled(a, saw) \in AliasRows /\ Toggled(a, saw).id = a.id
            /\ Toggled(a, saw).address = a.address /\ Toggled(a, saw).mailbox = a.mailbox
            /\ Toggled(a, saw).enabled = ~saw
      BY <2>1, ToggledRow
    <3> QED
      BY <3>1, <3>2
  <2> QED
    BY <1>1, <2>2
<1>4. IsFiniteSet(aliases')
  <2>1. f \in Surjection(aliases, aliases')
    BY <1>3 DEF Surjection
  <2> HIDE DEF f
  <2> QED
    BY <2>1, FS_Surjection DEF AdminInv, AdminTypes
<1> HIDE DEF F, i, saw
<1>5. AdminTypes'
  <2>1. flips' \in [1..MaxRows -> Nat]
    <3>1. flips \in [1..MaxRows -> Nat] /\ flips' = [flips EXCEPT ![i] = @ + 1]
      BY <1>1 DEF AdminInv, AdminTypes
    <3> QED
      BY <1>2, <3>1
  <2> QED
    BY <1>1, <1>4, <2>1 DEF AdminInv, AdminTypes
<1>6. Tables'
  <2>1. aliases' \subseteq AliasRows'
    BY <1>1, <1>3 DEF AliasRows
  <2>2. \A a, b \in aliases' : a.id = b.id \/ a.address = b.address => a = b
    BY <1>3 DEF AdminInv, Tables
  <2> QED
    BY <1>1, <2>1, <2>2 DEF AdminInv, Tables, MailboxRows, Defaults
<1>7. \A v \in Workers : Asked(req'[v])
  BY <1>1, AnswerAsked
<1>8. Locked'
  BY <1>1, LockStays DEF Turned
<1>9. OneCreates'
  <2> SUFFICES ASSUME NEW a \in Addresses
               PROVE  made'[a] = gone'[a] + Cardinality({b \in aliases' : b.address = a})
    BY DEF OneCreates
  <2> DEFINE here == RowsAt(a)
             there == {b \in aliases' : b.address = a}
             g == [b \in here |-> F(b)]
  <2>1. g \in Surjection(here, there)
    BY <1>3 DEF Surjection, RowsAt
  <2>2. g \in Injection(here, there)
    <3>1. \A b, c \in here : F(b) = F(c) => b = c
      BY <1>3 DEF RowsAt, AdminInv, Tables
    <3>2. g \in [here -> there]
      BY <2>1 DEF Surjection
    <3> QED
      BY <3>1, <3>2 DEF Injection, IsInjective
  <2>3. here \in SUBSET aliases
    BY DEF RowsAt
  <2> HIDE DEF g, there, here
  <2>4. IsFiniteSet(here)
    BY <2>3, FS_Subset DEF AdminInv, AdminTypes
  <2>5. Cardinality(there) = Cardinality(here)
    BY <2>1, <2>2, <2>4, FS_Surjection
  <2>6. made[a] = gone[a] + Cardinality(here)
    BY DEF AdminInv, OneCreates, here, RowsAt
  <2> QED
    BY <1>1, <2>5, <2>6 DEF there
<1>10. \A v \in Workers : req'[v].at = "write" => v # w /\ req'[v] = req[v]
  BY <1>1 DEF Turned
<1>11. req[w].form.id = i /\ req[w].saw = saw
  BY DEF i, saw, Form
<1>12. Toggling'
  <2>1. \A j \in 1..MaxRows : flips'[j] # 0 => j <= ids'
    <3> TAKE j \in 1..MaxRows
    <3>1. CASE j = i
      BY <1>1, <1>2, <3>1, IdsBounded
    <3>2. CASE j # i
      BY <1>1, <3>2 DEF AdminInv, AdminTypes, Toggling
    <3> QED
      BY <3>1, <3>2
  <2>2. ASSUME NEW v \in Workers, NEW b \in aliases', req'[v].at = "write",
               req'[v].form.id = b.id, b.id \notin raced'
        PROVE  req'[v].saw = b.enabled
    <3>1. PICK a \in aliases : b = F(a)
      BY <1>3
    <3>2. v # w /\ req'[v] = req[v]
      BY <1>10, <2>2
    <3>3. a.id # i
      BY <1>1, <1>3, <1>11, <2>2, <3>1, <3>2 DEF AdminInv, Toggling
    <3> QED
      BY <1>1, <1>3, <2>2, <3>1, <3>2, <3>3 DEF AdminInv, Toggling
  <2>3. /\ \A v \in Workers : req'[v].at = "write" => req'[v].form.id \in 1..ids'
        /\ \A u, v \in Workers : /\ req'[u].at = "write" /\ req'[v].at = "write"
                                 /\ req'[u].form.id = req'[v].form.id
                                 /\ req'[u].form.id \notin raced'
                                 => u = v
    BY <1>1, <1>10 DEF AdminInv, Toggling
  <2> QED
    BY <2>1, <2>2, <2>3 DEF Toggling
<1>13. TogglesAlternate'
  <2> SUFFICES ASSUME NEW b \in aliases', b.id \notin raced'
               PROVE  b.enabled <=> flips'[b.id] % 2 = 0
    BY DEF TogglesAlternate
  <2>1. PICK a \in aliases : b = F(a)
    BY <1>3
  <2>2. a.id = b.id /\ a.id \notin raced /\ a.id \in 1..MaxRows /\ a.enabled \in BOOLEAN
    <3>1. a.id \in 1..ids /\ a.enabled \in BOOLEAN
      BY DEF AdminInv, Tables, AliasRows
    <3> QED
      BY <1>1, <1>3, <2>1, <3>1, IdsBounded
  <2>3. a.enabled <=> flips[a.id] % 2 = 0
    BY <2>2 DEF AdminInv, TogglesAlternate
  <2>4. CASE a.id = i
    <3>1. saw = a.enabled
      BY <1>1, <1>11, <2>2, <2>4 DEF AdminInv, Toggling
    <3>2. b.enabled = ~a.enabled
      BY <1>3, <2>1, <2>4, <3>1
    <3>3. flips'[b.id] = flips[a.id] + 1 /\ flips[a.id] \in Nat
      BY <1>1, <2>2, <2>4 DEF AdminInv, AdminTypes
    <3>4. \A n \in Nat : (n + 1) % 2 = 0 <=> n % 2 # 0
      OBVIOUS
    <3>5. flips'[b.id] % 2 = 0 <=> flips[a.id] % 2 # 0
      BY <3>3, <3>4
    <3> QED
      BY <2>3, <3>2, <3>5
  <2>5. CASE a.id # i
    <3>1. b = a /\ flips'[b.id] = flips[a.id]
      BY <1>1, <1>3, <2>1, <2>2, <2>5 DEF AdminInv, AdminTypes
    <3> QED
      BY <2>3, <3>1
  <2> QED
    BY <2>4, <2>5
<1> QED
  BY <1>5, <1>6, <1>7, <1>8, <1>9, <1>12, <1>13 DEF AdminInv

-----------------------------------------------------------------------------
(* Faults, the process, and the theorems.                                  *)

\* A failed statement ends its request, and rolls its transaction back.
LEMMA FailureKeeps ==
  ASSUME WebInv, AdminInv, NEW w \in Workers, StatementFails(w)
  PROVE  AdminInv'
<1>1. /\ req[w].at \in {"work", "insert", "write"} /\ Turned(w, "answer")
      /\ UNCHANGED <<mailboxes, aliases, ids, made, gone, flips, raced>>
      /\ IF writer = w THEN writer' = None /\ draft' = {} ELSE UNCHANGED <<writer, draft>>
  BY HandlersTurn DEF StatementFails, rows, count, tx
<1>2. AdminTypes' /\ Tables' /\ OneCreates'
  BY <1>1 DEF AdminInv, AdminTypes, Tables, MailboxRows, AliasRows, OneCreates, Defaults
<1>3. \A v \in Workers : Asked(req'[v])
  BY <1>1, AnswerAsked
<1>4. Locked'
  <2>1. \A v \in Workers : Holds(v)' <=> Holds(v) /\ v # w
    BY <1>1 DEF Holds, Turned
  <2> QED
    BY <1>1, <2>1, AdminAssumption DEF AdminInv, Locked
<1>5. Toggling' /\ TogglesAlternate'
  <2>1. ids' \in 0..MaxRows /\ ids' >= ids
    <3>1. ids' = ids
      BY <1>1
    <3> QED
      BY <3>1, IdsBounded
  <2> QED
    BY <1>1, <2>1, TogglesStay DEF Turned
<1> QED
  BY <1>2, <1>3, <1>4, <1>5 DEF AdminInv

\* A stop rolls back too, and takes the requests.
LEMMA StopKeeps ==
  ASSUME AdminInv, AdminStop
  PROVE  AdminInv'
<1>1. /\ req' = [w \in Workers |-> Idle] /\ Idle.at = "idle" /\ writer' = None
      /\ UNCHANGED <<mailboxes, aliases, ids, made, gone, flips, raced>>
  BY DEF AdminStop, Stop, Idle, rows, count
<1> HIDE DEF Idle
<1>2. AdminTypes' /\ Tables' /\ OneCreates' /\ TogglesAlternate'
  BY <1>1 DEF AdminInv, AdminTypes, Tables, MailboxRows, AliasRows, OneCreates, Defaults,
              TogglesAlternate
<1>3. \A v \in Workers : Asked(req'[v]) /\ ~Holds(v)'
  BY <1>1 DEF Asked, Holds
<1>4. Locked'
  BY <1>1, <1>3, AdminAssumption DEF Locked
<1>5. Toggling'
  BY <1>1 DEF AdminInv, Toggling
<1> QED
  BY <1>2, <1>3, <1>4, <1>5 DEF AdminInv

\* Requests of the session layer have no second statement.
LEMMA ServiceKeeps ==
  ASSUME WebInv, AdminInv, NEW w \in Workers, AdminArrive(w) \/ Serve(w), UNCHANGED admin
  PROVE  AdminInv'
<1>1. DOMAIN req = Workers /\ Typed(req[w])
  BY DEF WebInv, WebTypes
<1>2. /\ \A v \in Workers \ {w} : req'[v] = req[v]
      /\ req[w].at \notin {"insert", "write"} /\ req'[w].at \notin {"insert", "write"}
      /\ Asked(req'[w])
  <2>1. ASSUME NEW page, NEW form, Arrive(w, page, form),
               page \in SitePages \/ (form \in Forms /\ form.page = page)
        PROVE  /\ \A v \in Workers \ {w} : req'[v] = req[v]
               /\ req[w].at = "idle" /\ req'[w].at = "begin" /\ Asked(req'[w])
    BY <1>1, <2>1 DEF Arrive, Idle, Asked
  <2>2. CASE AdminArrive(w)
    BY <2>1, <2>2 DEF AdminArrive, SitePages
  <2>3. ASSUME NEW copy, NEW at \in {"work", "answer"}, req[w].at = "begin", Meet(w, copy, at)
        PROVE  /\ \A v \in Workers \ {w} : req'[v] = req[v]
               /\ req'[w].at = at /\ Asked(req'[w])
    BY <1>1, <2>3 DEF Meet, Asked, AdminInv, Typed
  <2>4. CASE LoginForm(w) \/ Login(w) \/ CheckUser(w)
    BY <2>3, <2>4 DEF LoginForm, Login, CheckUser
  <2>5. CASE View(w) \/ LogOut(w)
    <3>1. /\ req[w].at = "work" /\ req[w].page \in SitePages
          /\ (\E copy : Done(w, copy)) \/ Fail500(w)
      BY <2>5 DEF View, LogOut, Working, SitePages
    <3>2. /\ req'[w].at = "answer" /\ req'[w].page = req[w].page
          /\ \A v \in Workers \ {w} : req'[v] = req[v]
      <4>1. ASSUME NEW copy, Done(w, copy)
            PROVE  /\ req'[w].at = "answer" /\ req'[w].page = req[w].page
                   /\ \A v \in Workers \ {w} : req'[v] = req[v]
        BY <1>1, <4>1 DEF Done, Typed
      <4>2. CASE Fail500(w)
        BY <1>1, <4>2 DEF Fail500, Typed
      <4> QED
        BY <3>1, <4>1, <4>2
    <3> QED
      BY <3>1, <3>2 DEF Asked
  <2>6. CASE Answer(w)
    BY <1>1, <2>6 DEF Answer, Idle, Asked
  <2> QED
    BY <2>2, <2>4, <2>5, <2>6 DEF Serve
<1> QED
  BY <1>2, LeaveKeeps

\* The site starts without rows.
LEMMA InitAdminInv == AdminInit => AdminInv
<1> SUFFICES ASSUME AdminInit PROVE AdminInv
  OBVIOUS
<1> USE DEF AdminInit
<1>1. MaxRows \in Nat
  BY AdminAssumption
<1>2. \A w \in Workers : req[w].at = "idle"
  BY DEF WebInit, Idle
<1>3. AdminTypes
  BY <1>1, FS_EmptySet DEF AdminTypes
<1>4. Tables /\ Toggling /\ TogglesAlternate
  BY <1>2 DEF Tables, Defaults, Toggling, TogglesAlternate
<1>5. Locked
  BY <1>2, AdminAssumption DEF Locked, Holds
<1>6. OneCreates
  <2>1. \A a \in Addresses : {b \in aliases : b.address = a} = {}
    OBVIOUS
  <2> QED
    BY <2>1, FS_EmptySet DEF OneCreates
<1> QED
  BY <1>2, <1>3, <1>4, <1>5, <1>6 DEF AdminInv, Asked

\* Every step keeps the invariant.
LEMMA NextAdminInv == WebInv /\ AdminInv /\ [AdminNext]_<<web, admin>> => AdminInv'
<1> SUFFICES ASSUME WebInv, AdminInv, [AdminNext]_<<web, admin>> PROVE AdminInv'
  OBVIOUS
<1>1. CASE UNCHANGED <<req, admin>>
  <2>1. UNCHANGED <<req, mailboxes, aliases, ids, writer, draft, made, gone, flips, raced>>
    BY <1>1 DEF admin, rows, tx, count
  <2> QED
    BY <2>1 DEF AdminInv, AdminTypes, Tables, MailboxRows, AliasRows, OneCreates, Defaults,
                Locked, Holds, Toggling, TogglesAlternate
<1>2. CASE UNCHANGED <<web, admin>> \/ (Boot /\ UNCHANGED admin)
  BY <1>1, <1>2 DEF web, Boot
<1>3. CASE AdminStop
  BY <1>3, StopKeeps
<1>4. ASSUME NEW w \in Workers, AdminArrive(w) \/ Serve(w), UNCHANGED admin PROVE AdminInv'
  BY <1>4, ServiceKeeps
<1>5. ASSUME NEW w \in Workers, Handle(w) PROVE AdminInv'
  BY <1>5, ClearDefaultKeeps, InsertMailboxKeeps, DeletionsKeep, FindAliasKeeps, InsertAliasKeeps,
     ReadToggleKeeps, WriteToggleKeeps, FailureKeeps DEF Handle
<1> QED
  BY <1>2, <1>3, <1>4, <1>5 DEF AdminNext

\* The invariant holds in every reachable state.
LEMMA AdminInvAlways == AdminSpec => []AdminInv
  BY InitAdminInv, NextAdminInv, SiteWebInv, PTL DEF AdminSpec

\* Rows have their types and keys, one mailbox at most is the default, and the
\* lock is held by a transaction under way and by no other request.
THEOREM SiteKeysHold == AdminSpec => []KeysHold
<1>1. AdminInv => KeysHold
  <2> SUFFICES ASSUME AdminInv PROVE KeysHold
    OBVIOUS
  <2>1. Cardinality(Defaults(mailboxes)) <= 1
    <3>1. CASE Defaults(mailboxes) = {}
      BY <3>1, FS_EmptySet
    <3>2. ASSUME NEW m \in Defaults(mailboxes) PROVE Cardinality(Defaults(mailboxes)) <= 1
      <4>1. Defaults(mailboxes) = {m}
        BY <3>2 DEF AdminInv, Tables
      <4>2. Cardinality({m}) = 1
        BY FS_Singleton
      <4> QED
        BY <4>1, <4>2
    <3> QED
      BY <3>1, <3>2
  <2>2. writer # None <=> \E w \in Workers : Holds(w)
    BY AdminAssumption DEF AdminInv, AdminTypes, Locked
  <2> QED
    BY <2>1, <2>2 DEF KeysHold, AdminInv, Tables, MailboxRows, AliasRows, Holds
<1> QED
  BY <1>1, AdminInvAlways, PTL

\* Of several requests to create an alias one is told that it did, as often as
\* there is a row that was not deleted.
THEOREM SiteOneCreates == AdminSpec => []OneCreates
  BY AdminInvAlways, PTL DEF AdminInv

\* Toggles that do not overlap alternate.
THEOREM SiteTogglesAlternate == AdminSpec => []TogglesAlternate
  BY AdminInvAlways, PTL DEF AdminInv

\* A default mailbox stays until another one becomes it in the same step, or it is
\* deleted itself.
THEOREM SiteDefaultIsKept == AdminSpec => DefaultIsKept
<1> DEFINE Kept == \A m \in Defaults(mailboxes) :
                      m.id \in {n.id : n \in mailboxes'} => Cardinality(Defaults(mailboxes')) = 1
<1>1. AdminInv /\ [AdminNext]_<<web, admin>> => [Kept]_mailboxes
  <2> SUFFICES ASSUME AdminInv, AdminNext, mailboxes' # mailboxes, NEW m \in Defaults(mailboxes),
                      m.id \in {n.id : n \in mailboxes'}
               PROVE  Cardinality(Defaults(mailboxes')) = 1
    BY DEF admin, rows
  <2>1. \E n : Defaults(mailboxes') = {n}
    <3>1. PICK w \in Workers : InsertMailbox(w) \/ DeleteMailbox(w)
      BY DEF AdminNext, AdminStop, Handle, ClearDefault, FindAlias, InsertAlias, ReadToggle,
             WriteToggle, DeleteAlias, StatementFails, admin, rows
    <3>2. CASE DeleteMailbox(w)
      <4>1. \A n \in mailboxes : n.id = m.id => n = m
        BY DEF AdminInv, Tables, Defaults
      <4>2. mailboxes' \subseteq mailboxes /\ m \in mailboxes' /\ m.default
        BY <3>2, <4>1 DEF DeleteMailbox, Defaults
      <4>3. Defaults(mailboxes') = {m}
        BY <4>2 DEF AdminInv, Tables, Defaults
      <4> QED
        BY <4>3
    <3>3. CASE InsertMailbox(w)
      <4>1. PICK table : /\ mailboxes' = WithMailbox(table, w)
                         /\ \/ ~Form(w).default /\ table = mailboxes
                            \/ Form(w).default /\ Defaults(table) = {}
        BY <3>3, InsertedMailbox
      <4> DEFINE new == [id |-> ids + 1, email |-> Form(w).email, default |-> Form(w).default]
      <4>2. mailboxes' = table \union {new} /\ new.default = Form(w).default
        BY <4>1 DEF WithMailbox
      <4> HIDE DEF new
      <4>3. CASE ~Form(w).default /\ table = mailboxes
        <5>1. Defaults(mailboxes') = {m}
          BY <4>2, <4>3 DEF AdminInv, Tables, Defaults
        <5> QED
          BY <5>1
      <4>4. CASE Form(w).default /\ Defaults(table) = {}
        <5>1. Defaults(mailboxes') = {new}
          BY <4>2, <4>4 DEF Defaults
        <5> QED
          BY <5>1
      <4> QED
        BY <4>1, <4>3, <4>4
    <3> QED
      BY <3>1, <3>2, <3>3
  <2> QED
    BY <2>1, FS_Singleton
<1> QED
  BY <1>1, AdminInvAlways, PTL DEF AdminSpec, DefaultIsKept
=============================================================================
