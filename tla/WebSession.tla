------------------------------ MODULE WebSession ------------------------------
(***************************************************************************)
(* Who the administrator is to the server: the account seeded from the     *)
(* configuration at each start (src/src/startup.rs, authentication), and   *)
(* the session behind the browser's cookie (session_state.rs), with its    *)
(* user and its flash messages.                                            *)
(*                                                                         *)
(* A request reads the session's record when it first needs it, works on   *)
(* its copy, and writes the whole record back with its answer: that is     *)
(* tower-sessions, an external crate, and what it decides for itself is a  *)
(* choice here.  Flash messages are counted; a password stands for its     *)
(* hash; the 30 days after which a session expires are out of scope.       *)
(***************************************************************************)
EXTENDS Naturals, FiniteSets

CONSTANTS
    Workers,        \* requests that are served at the same time
    SessionIds,     \* random ids, each used once
    Names,          \* names an administrator may be given
    Passwords,
    Pages,          \* what a request may ask for
    None,
    MaxRequests,    \* bound: requests
    MaxBoots        \* bound: starts of the process

ASSUME WebAssumption ==
    /\ None \notin SessionIds
    /\ None \notin [user : Nat \union {None}, flash : Nat]
    /\ {"login form", "login", "dashboard", "logout"} \subseteq Pages
    /\ {MaxRequests, MaxBoots} \subseteq Nat

VARIABLES
    up,         \* the process serves requests
    config,     \* admin.username and admin.password
    users,      \* rows: id, name, password
    jar,        \* the cookie of the browser
    store,      \* store[i]: the record of session i, None without one
    spent,      \* session ids that were ever used
    req,        \* req[w]: the request worker w serves
    requests, boots,    \* for the bounds
    \* History.
    pushed, shown,      \* flash messages saved and answered with, since requests overlapped
    alone,      \* the requests since the last lone arrival do not overlap, none was cut off
    away        \* the browser logged out, alone, and has not logged in since

account == <<up, config, users, boots>>
browser == <<jar, store, spent>>
told    == <<pushed, shown, alone, away>>
web     == <<account, browser, req, requests, told>>

Blank == [user |-> None, flash |-> 0]

Idle == [page |-> None, at |-> "idle", cookie |-> None, was |-> Blank,
         copy |-> Blank, form |-> None, saw |-> None, failed |-> FALSE]

WebInit ==
    /\ up = FALSE /\ boots = 0
    /\ config \in [name : Names, password : Passwords]
    /\ users = {}
    /\ jar = None /\ spent = {}
    /\ store = [i \in SessionIds |-> None]
    /\ req = [w \in Workers |-> Idle]
    /\ requests = 0 /\ pushed = 0 /\ shown = 0
    /\ alone = TRUE /\ away = FALSE

-----------------------------------------------------------------------------
(* The process and the account.                                            *)

\* Slip: ON CONFLICT DO NOTHING.
SeededOnce(rows, name, password) ==
    IF \E u \in rows : u.name = name
    THEN rows
    ELSE rows \union {[id |-> Cardinality(rows) + 1, name |-> name, password |-> password]}

\* seed_admin_user: a known name keeps its id and gets the password.
Seeded(rows, name, password) ==
    IF \E u \in rows : u.name = name
    THEN {IF u.name = name THEN [u EXCEPT !.password = password] ELSE u : u \in rows}
    ELSE rows \union {[id |-> Cardinality(rows) + 1, name |-> name, password |-> password]}

\* The configuration may have been edited while the process was down.
Boot ==
    /\ ~up /\ boots < MaxBoots
    /\ up' = TRUE /\ boots' = boots + 1
    /\ \E c \in [name : Names, password : Passwords] :
         /\ config' = c
         /\ users' = Seeded(users, c.name, c.password)
    /\ UNCHANGED <<browser, req, requests, told>>

Stop ==
    /\ up
    /\ up' = FALSE
    /\ req' = [w \in Workers |-> Idle]
    /\ alone' = (alone /\ req = [w \in Workers |-> Idle])
    /\ UNCHANGED <<config, users, boots, browser, requests, pushed, shown, away>>

-----------------------------------------------------------------------------
(* A request: it arrives with the cookie, meets its session, and answers.  *)

Session(i) == IF i # None /\ store[i] # None THEN store[i] ELSE Blank

Others(w) == {v \in Workers \ {w} : req[v].at # "idle"}

Arrive(w, page, form) ==
    /\ up /\ req[w].at = "idle" /\ requests < MaxRequests
    /\ requests' = requests + 1
    /\ req' = [req EXCEPT ![w] = [Idle EXCEPT !.page = page, !.form = form, !.cookie = jar,
                                              !.at = "begin"]]
    /\ alone' = (Others(w) = {})
    /\ pushed' = IF alone' /\ ~alone THEN Session(jar).flash ELSE pushed
    /\ shown' = IF alone' /\ ~alone THEN 0 ELSE shown
    /\ UNCHANGED <<account, browser, away>>

\* The record of the request's cookie; a cookie without one is forgotten.
Known(w) == req[w].cookie # None /\ store[req[w].cookie] # None
Record(w) == IF Known(w) THEN store[req[w].cookie] ELSE Blank

\* The request reads its session now and goes to `at` with this copy of it.
Meet(w, copy, at) ==
    req' = [req EXCEPT ![w].cookie = IF Known(w) THEN @ ELSE None,
                       ![w].was = Record(w),
                       ![w].copy = copy,
                       ![w].at = at]

Flashed(record) == [record EXCEPT !.flash = @ + 1]

\* Only the request changes.
Quiet == UNCHANGED <<account, browser, requests, told>>

\* Slip: the flash messages are read and stay.
LoginFormPeeking(w) ==
    /\ req[w].page = "login form" /\ req[w].at = "begin"
    /\ Meet(w, Record(w), "answer")
    /\ Quiet

\* login_form: what get_flash_messages takes is shown.
LoginForm(w) ==
    /\ req[w].page = "login form" /\ req[w].at = "begin"
    /\ Meet(w, [Record(w) EXCEPT !.flash = 0], "answer")
    /\ Quiet

\* login: validate_credentials, then the session.  The query may also fail, with
\* the same flash message for all that matters here.
Login(w) ==
    /\ req[w].page = "login" /\ req[w].at = "begin"
    /\ LET rows == {u \in users : [name |-> u.name, password |-> u.password] = req[w].form}
       IN  \/ Meet(w, Flashed(Record(w)), "answer")
           \/ \E u \in rows : Meet(w, [Record(w) EXCEPT !.user = u.id], "answer")
    /\ Quiet

\* The route layer of /admin: AuthenticatedUser.
CheckUser(w) ==
    /\ req[w].page \notin {"login form", "login"} /\ req[w].at = "begin"
    /\ IF Record(w).user # None
       THEN Meet(w, Record(w), "work")
       ELSE Meet(w, Flashed(Record(w)), "answer")
    /\ Quiet

\* A handler ends with this copy of the session, or with status 500.
Done(w, copy) == req' = [req EXCEPT ![w].copy = copy, ![w].at = "answer"]
Fail500(w) == req' = [req EXCEPT ![w].at = "answer", ![w].failed = TRUE]

Working(w, page) == req[w].page = page /\ req[w].at = "work"

\* dashboard, mailboxes, styleguide, alias_detail of an alias that exists: queries,
\* and at the end the flash messages.
View(w) ==
    /\ Working(w, "dashboard")
    /\ \/ Done(w, [req[w].copy EXCEPT !.flash = 0])
       \/ Fail500(w)
    /\ Quiet

\* Slip: the flash messages are removed instead of the user.
LogOutOfFlash(w) ==
    /\ Working(w, "logout")
    /\ Done(w, [req[w].copy EXCEPT !.flash = 0])
    /\ Quiet

LogOut(w) ==
    /\ Working(w, "logout")
    /\ Done(w, [req[w].copy EXCEPT !.user = None])
    /\ Quiet

-----------------------------------------------------------------------------
(* The answer: the session layer compares, saves and sets the cookie.      *)

Save(i, record) == /\ store' = [store EXCEPT ![i] = record]
                   /\ jar' = i
                   /\ spent' = spent \union {i}

\* Nothing is left in the record: the cookie goes, the record may too; or the
\* crate calls it a session like any other.
DropSession(w) ==
    /\ jar' = None
    /\ \E kept \in {TRUE, FALSE} :
         store' = IF kept THEN store ELSE [store EXCEPT ![req[w].cookie] = None]
    /\ UNCHANGED spent

\* A changed record is saved whole, under a new id if it has none; the crate may
\* also save one in which nothing changed.
SaveSession(w) ==
    IF req[w].cookie # None
    THEN Save(req[w].cookie, req[w].copy)
    ELSE \E i \in SessionIds \ spent : Save(i, req[w].copy)

Changed(w) == req[w].copy # req[w].was

WriteBack(w) ==
    CASE req[w].failed -> UNCHANGED browser
      [] ~req[w].failed /\ req[w].copy = Blank /\ req[w].cookie # None ->
            DropSession(w) \/ SaveSession(w)
      [] ~req[w].failed /\ req[w].copy # Blank ->
            SaveSession(w) \/ (~Changed(w) /\ UNCHANGED browser)
      [] OTHER -> UNCHANGED browser

Answer(w) ==
    LET r == req[w]
        more == ~r.failed /\ r.copy.flash > r.was.flash
        shows == ~r.failed /\ \/ r.page = "login form"
                              \/ r.page = "dashboard" /\ r.was.user # None
    IN  /\ r.at = "answer"
        /\ WriteBack(w)
        /\ req' = [req EXCEPT ![w] = Idle]
        /\ pushed' = IF more THEN pushed + 1 ELSE pushed
        /\ shown' = IF shows THEN shown + r.was.flash ELSE shown
        /\ away' = CASE r.page = "logout" -> alone
                     [] r.page = "login" -> away /\ r.copy.user = None
                     [] OTHER -> away
        /\ UNCHANGED <<account, requests, alone>>

Serve(w) == LoginForm(w) \/ Login(w) \/ CheckUser(w) \/ View(w) \/ LogOut(w) \/ Answer(w)

-----------------------------------------------------------------------------
(* Properties.                                                             *)

\* Whatever was configured before, and in which order: once the process runs, the
\* configured name has the configured password and no other, and a session that
\* is signed in still belongs to an account that exists.
ConfigurationRules ==
    /\ up => {u.password : u \in {v \in users : v.name = config.name}} = {config.password}
    /\ \A i \in SessionIds : Session(i).user \in {u.id : u \in users} \union {None}

\* After a logout that no other request overlapped, nothing later signs the browser
\* in but a login that accepts a password: no page, overlapping or not, no wrong
\* password and no restart.
LogoutSticks == away => Session(jar).user = None

\* While requests come one at a time, whatever happened before, every message is
\* shown exactly once, or waits in the session of the browser: none is lost by a
\* redirect, a failed page or a restart, and none is shown twice.
FlashShownOnce == alone => pushed = shown + Session(jar).flash
=============================================================================
