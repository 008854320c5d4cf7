--------------------------- MODULE WebSession_proofs ---------------------------
(***************************************************************************)
(* Proofs about the administrator's session, for any number of requests,   *)
(* sessions, accounts and restarts, and for any handlers behind the login. *)
(*                                                                         *)
(* A request works on a copy of the record it read when it began, and      *)
(* writes the whole copy back: two requests may undo each other's changes. *)
(* What can be promised is therefore about copies as much as about the     *)
(* store: a copy is what was read, with one change that its page allows,   *)
(* and after a logout no copy in flight, nor any record one of them could  *)
(* write to, has a user.                                                   *)
(***************************************************************************)
EXTENDS WebSession, FiniteSetTheorems, TLAPS

-----------------------------------------------------------------------------
(* What the session layer asks of the handlers of the routes below /admin. *)

\* A handler goes on to another statement, says something, or fails.
Work(w) ==
    /\ req[w].at \in {"work", "insert", "write"}
    /\ req[w].page \notin {"login form", "login", "dashboard", "logout"}
    /\ \/ \E at \in {"insert", "write"} : \E saw :
             req' = [req EXCEPT ![w].at = at, ![w].saw = saw]
       \/ Done(w, Flashed(req[w].copy))
       \/ Fail500(w)
    /\ Quiet

WebNext ==
    \/ Boot \/ Stop
    \/ \E w \in Workers : \/ \E page \in Pages : \E form : Arrive(w, page, form)
                          \/ Serve(w) \/ Work(w)

WebSpec == WebInit /\ [][WebNext]_web

-----------------------------------------------------------------------------
(* The inductive invariant.                                                *)

Records == [user : Nat \union {None}, flash : Nat]
UserIds == {u.id : u \in users}

Stages == {"idle", "begin", "work", "insert", "write", "answer"}

Typed(r) ==
    /\ DOMAIN r = {"page", "at", "cookie", "was", "copy", "form", "saw", "failed"}
    /\ r.at \in Stages
    /\ r.cookie \in SessionIds \union {None}
    /\ r.was \in Records /\ r.copy \in Records
    /\ r.failed \in BOOLEAN

WebTypes ==
    /\ IsFiniteSet(users) /\ \A u \in users : DOMAIN u = {"id", "name", "password"} /\ u.id \in Nat
    /\ jar \in SessionIds \union {None}
    /\ store \in [SessionIds -> Records \union {None}]
    /\ DOMAIN req = Workers /\ \A w \in Workers : Typed(req[w])
    /\ pushed \in Nat /\ shown \in Nat
    /\ up \in BOOLEAN /\ alone \in BOOLEAN /\ away \in BOOLEAN

\* Whoever is signed in, in the store or in a copy, exists.
Accounts ==
    /\ ConfigurationRules
    /\ \A w \in Workers : req[w].was.user \in UserIds \union {None}
                          /\ req[w].copy.user \in UserIds \union {None}

Shows(r) == ~r.failed /\ (r.page = "login form" \/ (r.page = "dashboard" /\ r.was.user # None))

\* The copy of a request is the record it read, with one change.
Copied(r) ==
    /\ r.at \in {"idle", "begin"} => r.was = Blank /\ r.copy = Blank
    /\ r.at \in {"work", "insert", "write"} =>
          r.copy = r.was /\ r.was.user # None /\ r.page \notin {"login form", "login"}
    /\ r.at \in {"insert", "write"} => r.page \notin {"dashboard", "logout"}
    /\ r.at # "answer" => ~r.failed
    /\ r.at = "answer" =>
          /\ r.page # "login" => r.copy.user \in {r.was.user, None}
          /\ r.page = "logout" => r.copy.user = None /\ ~r.failed
          /\ ~r.failed => r.copy.flash \in IF Shows(r) THEN {0}
                                           ELSE {r.was.flash, r.was.flash + 1}

Busy(w) == req[w].at # "idle"

\* A request that is alone has the record of the browser.
Lonely ==
    alone =>
        /\ \A v, w \in Workers : Busy(v) /\ Busy(w) => v = w
        /\ \A w \in Workers :
              /\ req[w].at = "begin" => req[w].cookie = jar
              /\ req[w].at \notin {"idle", "begin"} =>
                    /\ req[w].was = Session(jar)
                    /\ req[w].cookie = jar \/ (req[w].cookie = None /\ Session(jar) = Blank)

\* After a logout no request but a login carries a user.
Gone ==
    away =>
        /\ Session(jar).user = None
        /\ \A w \in Workers : Busy(w) /\ req[w].page # "login" =>
              Session(req[w].cookie).user = None /\ req[w].copy.user = None

WebInv ==
    /\ WebTypes /\ Accounts
    /\ \A w \in Workers : Copied(req[w])
    /\ Lonely /\ Gone /\ FlashShownOnce

-----------------------------------------------------------------------------
(* Requests that work on their copy.                                       *)

\* An empty record is a record, and so is whatever a cookie leads to.
LEMMA RecordTypes ==
  ASSUME WebTypes
  PROVE  /\ Blank \in Records
         /\ \A i \in SessionIds \union {None} : Session(i) \in Records
         /\ \A w \in Workers : Record(w) = Session(req[w].cookie) /\ Record(w) \in Records
<1>1. Blank \in Records
  BY DEF Blank, Records
<1>2. \A i \in SessionIds \union {None} : Session(i) \in Records
  BY <1>1, WebAssumption DEF WebTypes, Session
<1>3. \A w \in Workers : Record(w) = Session(req[w].cookie) /\ req[w].cookie \in SessionIds \union {None}
  BY DEF Record, Known, Session, WebTypes, Typed
<1> QED
  BY <1>1, <1>2, <1>3

\* Who is signed in somewhere exists.
LEMMA RecordsBelong ==
  ASSUME WebTypes, Accounts, NEW i \in SessionIds \union {None}
  PROVE  Session(i).user \in UserIds \union {None}
<1>1. CASE i \in SessionIds
  BY <1>1 DEF Accounts, ConfigurationRules, UserIds
<1>2. CASE i = None
  BY <1>2 DEF Session, Blank
<1> QED
  BY <1>1, <1>2

\* What a request may become that has read its session.
Fits(w, r) ==
    /\ Typed(r) /\ Copied(r)
    /\ r.page = req[w].page /\ r.at \notin {"idle", "begin"}
    /\ r.was.user \in UserIds \union {None} /\ r.copy.user \in UserIds \union {None}
    /\ alone => /\ r.was = Session(jar)
                /\ r.cookie = jar \/ (r.cookie = None /\ Session(jar) = Blank)
    /\ away /\ r.page # "login" => Session(r.cookie).user = None /\ r.copy.user = None

\* While it only works on its copy, a request keeps the invariant.
LEMMA RequestKeeps ==
  ASSUME WebInv, NEW w \in Workers, Busy(w), NEW r, Fits(w, r),
         req' = [req EXCEPT ![w] = r], Quiet
  PROVE  WebInv'
<1>1. /\ UNCHANGED <<up, config, users, jar, store, pushed, shown, alone, away>>
      /\ DOMAIN req = Workers /\ req'[w] = r /\ \A v \in Workers \ {w} : req'[v] = req[v]
  BY DEF Quiet, account, browser, told, WebInv, WebTypes
<1>2. UserIds' = UserIds /\ \A i : Session(i)' = Session(i)
  BY <1>1 DEF UserIds, Session
<1>3. WebTypes'
  BY <1>1 DEF WebInv, WebTypes, Fits
<1>4. Accounts'
  <2>1. ConfigurationRules'
    BY <1>1, <1>2 DEF WebInv, Accounts, ConfigurationRules
  <2> QED
    BY <1>1, <1>2, <2>1 DEF WebInv, Accounts, Fits
<1>5. \A v \in Workers : Copied(req'[v])
  BY <1>1 DEF WebInv, Fits
<1>6. Lonely'
  BY <1>1, <1>2 DEF WebInv, Lonely, Fits, Busy
<1>7. Gone'
  BY <1>1, <1>2 DEF WebInv, Gone, Fits, Busy
<1>8. FlashShownOnce'
  BY <1>1, <1>2 DEF WebInv, FlashShownOnce
<1> QED
  BY <1>3, <1>4, <1>5, <1>6, <1>7, <1>8 DEF WebInv

\* A copy that a request takes of the record it meets.
Met(w, copy, at) ==
    [req[w] EXCEPT !.cookie = IF Known(w) THEN @ ELSE None,
                   !.was = Record(w), !.copy = copy, !.at = at]

\* A request that meets its session has the record of the browser if it is alone,
\* and none with a user after a logout.
LEMMA MeetFits ==
  ASSUME WebInv, NEW w \in Workers, req[w].at = "begin", NEW copy \in Records,
         NEW at \in {"work", "answer"},
         copy.user \in UserIds \union {None},
         Record(w).user = None /\ req[w].page # "login" => copy.user = None,
         Copied(Met(w, copy, at))
  PROVE  Fits(w, Met(w, copy, at))
<1> DEFINE r == Met(w, copy, at)
<1>1. Typed(req[w]) /\ Record(w) = Session(req[w].cookie) /\ Record(w) \in Records
  BY RecordTypes DEF WebInv, WebTypes
<1>2. /\ r.cookie = IF Known(w) THEN req[w].cookie ELSE None
      /\ r.was = Record(w) /\ r.copy = copy /\ r.at = at /\ r.page = req[w].page
      /\ Typed(r)
  BY <1>1 DEF Typed, Met, Stages
<1>3. Record(w).user \in UserIds \union {None}
  BY <1>1, RecordsBelong DEF WebInv, Typed
<1>4. ~Known(w) => Record(w) = Blank
  BY DEF Record
<1>5. alone => req[w].cookie = jar
  BY DEF WebInv, Lonely
<1>6. ASSUME away, req[w].page # "login" PROVE Session(r.cookie).user = None /\ copy.user = None
  <2>1. Session(req[w].cookie).user = None
    BY <1>6 DEF WebInv, Gone, Busy
  <2>2. Session(None).user = None
    BY DEF Session, Blank
  <2>3. Session(r.cookie).user = None
    <3> HIDE DEF r
    <3> QED
      BY <1>2, <2>1, <2>2
  <2>4. copy.user = None
    BY <1>1, <1>6, <2>1
  <2> QED
    BY <2>3, <2>4
<1>7. alone => /\ r.was = Session(jar)
               /\ r.cookie = jar \/ (r.cookie = None /\ Session(jar) = Blank)
  BY <1>1, <1>2, <1>4, <1>5
<1>8. Copied(r)
  OBVIOUS
<1> HIDE DEF r
<1>9. Fits(w, r)
  BY <1>2, <1>3, <1>6, <1>7, <1>8 DEF Fits
<1> QED
  BY <1>9 DEF r

\* The pages of the login, and the check of the route layer.
LEMMA BeginKeeps ==
  ASSUME WebInv, NEW w \in Workers, LoginForm(w) \/ Login(w) \/ CheckUser(w)
  PROVE  WebInv'
<1>1. /\ req[w].at = "begin" /\ Busy(w) /\ Quiet /\ Typed(req[w]) /\ ~req[w].failed
      /\ Record(w) \in Records /\ DOMAIN req = Workers
  BY RecordTypes DEF LoginForm, Login, CheckUser, Busy, WebInv, WebTypes, Copied
<1>2. Record(w).user \in UserIds \union {None}
  <2>1. Record(w) = Session(req[w].cookie)
    BY RecordTypes DEF WebInv
  <2> QED
    BY <1>1, <2>1, RecordsBelong DEF WebInv, Typed
<1>3. ASSUME NEW copy \in Records, NEW at \in {"work", "answer"}, Meet(w, copy, at)
      PROVE  /\ req' = [req EXCEPT ![w] = Met(w, copy, at)]
             /\ LET r == Met(w, copy, at)
                IN  /\ r.at = at /\ r.was = Record(w) /\ r.copy = copy /\ ~r.failed
                    /\ r.page = req[w].page
  BY <1>1, <1>3 DEF Meet, Met, Typed
<1>4. ASSUME LoginForm(w) PROVE WebInv'
  <2> DEFINE copy == [Record(w) EXCEPT !.flash = 0]
  <2>1. copy \in Records /\ copy.user = Record(w).user /\ copy.flash = 0
    BY <1>1 DEF Records
  <2>2. Meet(w, copy, "answer") /\ req[w].page = "login form"
    BY <1>4 DEF LoginForm
  <2> HIDE DEF copy
  <2>3. Copied(Met(w, copy, "answer"))
    BY <1>3, <2>1, <2>2 DEF Copied, Shows
  <2>4. Fits(w, Met(w, copy, "answer"))
    BY <1>1, <1>2, <2>1, <2>2, <2>3, MeetFits
  <2> QED
    BY <1>1, <1>3, <2>1, <2>2, <2>4, RequestKeeps
<1>5. ASSUME Login(w) PROVE WebInv'
  <2>1. req[w].page = "login"
    BY <1>5 DEF Login
  <2>2. ASSUME Meet(w, Flashed(Record(w)), "answer") PROVE WebInv'
    <3> DEFINE copy == Flashed(Record(w))
    <3>1. copy \in Records /\ copy.user = Record(w).user /\ copy.flash = Record(w).flash + 1
      BY <1>1 DEF Records, Flashed
    <3> HIDE DEF copy
    <3>2. Copied(Met(w, copy, "answer"))
      BY <1>3, <2>1, <2>2, <3>1 DEF Copied, Shows, copy
    <3>3. Fits(w, Met(w, copy, "answer"))
      BY <1>1, <1>2, <2>1, <3>1, <3>2, MeetFits
    <3>4. Meet(w, copy, "answer")
      BY <2>2 DEF copy
    <3> QED
      BY <1>1, <1>3, <3>1, <3>3, <3>4, RequestKeeps
  <2>3. ASSUME NEW u \in users, Meet(w, [Record(w) EXCEPT !.user = u.id], "answer")
        PROVE  WebInv'
    <3> DEFINE copy == [Record(w) EXCEPT !.user = u.id]
    <3>1. copy \in Records /\ copy.user \in UserIds /\ copy.flash = Record(w).flash
      BY <1>1 DEF Records, UserIds, WebInv, WebTypes
    <3>2. Meet(w, copy, "answer")
      BY <2>3
    <3> HIDE DEF copy
    <3>3. Copied(Met(w, copy, "answer"))
      BY <1>3, <2>1, <3>1, <3>2 DEF Copied, Shows
    <3>4. Fits(w, Met(w, copy, "answer"))
      BY <1>1, <2>1, <3>1, <3>3, MeetFits
    <3> QED
      BY <1>1, <1>3, <3>1, <3>2, <3>4, RequestKeeps
  <2> QED
    BY <1>5, <2>2, <2>3 DEF Login
<1>6. ASSUME CheckUser(w) PROVE WebInv'
  <2>1. req[w].page \notin {"login form", "login"}
    BY <1>6 DEF CheckUser
  <2>2. CASE Record(w).user # None /\ Meet(w, Record(w), "work")
    <3>1. Copied(Met(w, Record(w), "work"))
      BY <1>1, <1>3, <2>1, <2>2 DEF Copied
    <3>2. Fits(w, Met(w, Record(w), "work"))
      BY <1>1, <1>2, <2>1, <3>1, MeetFits
    <3> QED
      BY <1>1, <1>3, <2>2, <3>2, RequestKeeps
  <2>3. CASE Record(w).user = None /\ Meet(w, Flashed(Record(w)), "answer")
    <3> DEFINE copy == Flashed(Record(w))
    <3>1. copy \in Records /\ copy.user = None /\ copy.flash = Record(w).flash + 1
      BY <1>1, <2>3 DEF Records, Flashed
    <3>2. Meet(w, copy, "answer")
      BY <2>3
    <3> HIDE DEF copy
    <3>3. Copied(Met(w, copy, "answer"))
      BY <1>3, <2>1, <2>3, <3>1, <3>2 DEF Copied, Shows
    <3>4. Fits(w, Met(w, copy, "answer"))
      BY <1>1, <2>1, <3>1, <3>3, MeetFits
    <3> QED
      BY <1>1, <1>3, <3>1, <3>2, <3>4, RequestKeeps
  <2> QED
    BY <1>6, <2>2, <2>3 DEF CheckUser
<1> QED
  BY <1>4, <1>5, <1>6

\* A handler changes its copy as its page allows, or leaves it.
LEMMA WorkFits ==
  ASSUME WebInv, NEW w \in Workers, req[w].at \in {"work", "insert", "write"},
         NEW r, Typed(r), r.page = req[w].page, r.was = req[w].was,
         r.cookie = req[w].cookie, r.at \notin {"idle", "begin"},
         r.copy.user \in {req[w].was.user, None}, Copied(r)
  PROVE  Fits(w, r)
<1>1. Typed(req[w]) /\ Copied(req[w]) /\ Busy(w)
  BY DEF WebInv, WebTypes, Busy
<1>2. r.was.user \in UserIds \union {None} /\ r.copy.user \in UserIds \union {None}
  BY DEF WebInv, Accounts
<1>3. alone => /\ r.was = Session(jar)
               /\ r.cookie = jar \/ (r.cookie = None /\ Session(jar) = Blank)
  BY DEF WebInv, Lonely
<1>4. away /\ r.page # "login" => Session(r.cookie).user = None /\ r.copy.user = None
  BY <1>1 DEF WebInv, Gone, Copied
<1> QED
  BY <1>2, <1>3, <1>4 DEF Fits

\* Handlers keep the invariant.
LEMMA HandlerKeeps ==
  ASSUME WebInv, NEW w \in Workers, View(w) \/ LogOut(w) \/ Work(w)
  PROVE  WebInv'
<1>1. /\ Typed(req[w]) /\ Copied(req[w]) /\ Busy(w) /\ Quiet /\ DOMAIN req = Workers
      /\ req[w].at \in {"work", "insert", "write"} /\ req[w].copy = req[w].was
      /\ ~req[w].failed /\ req[w].was.user # None /\ req[w].was \in Records
  BY DEF WebInv, WebTypes, Busy, View, LogOut, Work, Working, Copied, Typed
<1>2. ASSUME NEW r, Fits(w, r), req' = [req EXCEPT ![w] = r] PROVE WebInv'
  BY <1>1, <1>2, RequestKeeps
<1>3. ASSUME Fail500(w), req[w].page # "logout", req[w].page # "login" PROVE WebInv'
  <2> DEFINE r == [req[w] EXCEPT !.at = "answer", !.failed = TRUE]
  <2>1. /\ Typed(r) /\ r.page = req[w].page /\ r.was = req[w].was /\ r.copy = req[w].was
        /\ r.cookie = req[w].cookie /\ r.at = "answer" /\ r.failed
    BY <1>1 DEF Typed, Stages
  <2>2. req' = [req EXCEPT ![w] = r]
    BY <1>1, <1>3 DEF Fail500, Typed
  <2> HIDE DEF r
  <2>3. Copied(r)
    BY <1>3, <2>1 DEF Copied
  <2>4. Fits(w, r)
    BY <1>1, <2>1, <2>3, WorkFits
  <2> QED
    BY <1>2, <2>2, <2>4
<1>4. ASSUME NEW copy \in Records, Done(w, copy), copy.user \in {req[w].was.user, None},
             req[w].page = "logout" => copy.user = None, req[w].page # "login",
             copy.flash \in IF req[w].page \in {"login form", "dashboard"} THEN {0}
                            ELSE {req[w].was.flash, req[w].was.flash + 1}
      PROVE  WebInv'
  <2> DEFINE r == [req[w] EXCEPT !.copy = copy, !.at = "answer"]
  <2>1. /\ Typed(r) /\ r.page = req[w].page /\ r.was = req[w].was /\ r.copy = copy
        /\ r.cookie = req[w].cookie /\ r.at = "answer" /\ ~r.failed
    BY <1>1 DEF Typed, Stages
  <2>2. req' = [req EXCEPT ![w] = r]
    BY <1>1, <1>4 DEF Done, Typed
  <2> HIDE DEF r
  <2>3. Copied(r)
    BY <1>1, <1>4, <2>1 DEF Copied, Shows
  <2>4. Fits(w, r)
    BY <1>1, <1>4, <2>1, <2>3, WorkFits
  <2> QED
    BY <1>2, <2>2, <2>4
<1>5. ASSUME NEW at \in {"insert", "write"}, NEW saw, Work(w),
             req' = [req EXCEPT ![w].at = at, ![w].saw = saw]
      PROVE  WebInv'
  <2> DEFINE r == [req[w] EXCEPT !.at = at, !.saw = saw]
  <2>1. /\ Typed(r) /\ r.page = req[w].page /\ r.was = req[w].was /\ r.copy = req[w].copy
        /\ r.cookie = req[w].cookie /\ r.at = at /\ ~r.failed
    BY <1>1 DEF Typed, Stages
  <2>2. req' = [req EXCEPT ![w] = r]
    BY <1>1, <1>5 DEF Typed
  <2>3. req[w].page \notin {"login form", "login", "dashboard", "logout"}
    BY <1>5 DEF Work
  <2> HIDE DEF r
  <2>4. Copied(r)
    BY <1>1, <2>1, <2>3 DEF Copied
  <2>5. Fits(w, r)
    BY <1>1, <2>1, <2>4, WorkFits
  <2> QED
    BY <1>2, <2>2, <2>5
<1>6. CASE View(w)
  <2>1. req[w].page = "dashboard"
    BY <1>6 DEF View, Working
  <2> DEFINE copy == [req[w].copy EXCEPT !.flash = 0]
  <2>2. copy \in Records /\ copy.user = req[w].was.user /\ copy.flash = 0
    BY <1>1 DEF Records
  <2>3. Done(w, copy) \/ Fail500(w)
    BY <1>6 DEF View
  <2> HIDE DEF copy
  <2> QED
    BY <1>3, <1>4, <2>1, <2>2, <2>3
<1>7. CASE LogOut(w)
  <2>1. req[w].page = "logout"
    BY <1>7 DEF LogOut, Working
  <2> DEFINE copy == [req[w].copy EXCEPT !.user = None]
  <2>2. copy \in Records /\ copy.user = None /\ copy.flash = req[w].was.flash
    BY <1>1 DEF Records
  <2>3. Done(w, copy)
    BY <1>7 DEF LogOut
  <2> HIDE DEF copy
  <2> QED
    BY <1>4, <2>1, <2>2, <2>3
<1>8. CASE Work(w)
  <2>1. req[w].page \notin {"login form", "login", "dashboard", "logout"}
    BY <1>8 DEF Work
  <2> DEFINE copy == Flashed(req[w].copy)
  <2>2. copy \in Records /\ copy.user = req[w].was.user /\ copy.flash = req[w].was.flash + 1
    BY <1>1 DEF Records, Flashed
  <2>3. \/ \E at \in {"insert", "write"} : \E saw :
             req' = [req EXCEPT ![w].at = at, ![w].saw = saw]
        \/ Done(w, copy) \/ Fail500(w)
    BY <1>8 DEF Work
  <2> HIDE DEF copy
  <2>4. ASSUME Done(w, copy) PROVE WebInv'
    BY <1>4, <2>1, <2>2, <2>4
  <2>5. ASSUME Fail500(w) PROVE WebInv'
    BY <1>3, <2>1, <2>5
  <2> QED
    BY <1>5, <1>8, <2>3, <2>4, <2>5
<1> QED
  BY <1>6, <1>7, <1>8

-----------------------------------------------------------------------------
(* The process, and requests that arrive.                                  *)

\* Nobody who may be signed in is taken away by the configuration, and the name
\* that is configured has one password.
LEMMA SeededRows ==
  ASSUME WebTypes, NEW name, NEW password
  PROVE  LET rows == Seeded(users, name, password)
         IN  /\ IsFiniteSet(rows)
             /\ \A u \in rows : DOMAIN u = {"id", "name", "password"} /\ u.id \in Nat
             /\ UserIds \subseteq {u.id : u \in rows}
             /\ {u.password : u \in {v \in rows : v.name = name}} = {password}
<1> DEFINE F(u) == IF u.name = name THEN [u EXCEPT !.password = password] ELSE u
           f == [u \in users |-> F(u)]
           known == {F(u) : u \in users}
           new == [id |-> Cardinality(users) + 1, name |-> name, password |-> password]
<1>1. IsFiniteSet(users) /\ \A u \in users : DOMAIN u = {"id", "name", "password"} /\ u.id \in Nat
  BY DEF WebTypes
<1>2. CASE \E u \in users : u.name = name
  <2>1. Seeded(users, name, password) = known
    BY <1>2 DEF Seeded
  <2>2. IsFiniteSet(known)
    <3>1. f \in Surjection(users, known)
      BY DEF Surjection
    <3> HIDE DEF f, known
    <3> QED
      BY <1>1, <3>1, FS_Surjection
  <2>3. \A u \in users : /\ DOMAIN F(u) = {"id", "name", "password"}
                         /\ F(u).id = u.id /\ F(u).name = u.name
                         /\ u.name = name => F(u).password = password
    BY <1>1
  <2> HIDE DEF F
  <2>4. {u.password : u \in {v \in known : v.name = name}} = {password}
    BY <1>2, <2>3
  <2>5. UserIds \subseteq {u.id : u \in known}
    BY <2>3 DEF UserIds
  <2> QED
    BY <1>1, <2>1, <2>2, <2>3, <2>4, <2>5
<1>3. CASE ~\E u \in users : u.name = name
  <2>1. Seeded(users, name, password) = users \union {new}
    BY <1>3 DEF Seeded
  <2>2. IsFiniteSet(users \union {new})
    <3> HIDE DEF new
    <3> QED
      BY <1>1, FS_AddElement
  <2>3. DOMAIN new = {"id", "name", "password"} /\ new.id \in Nat
        /\ new.name = name /\ new.password = password
    BY <1>1, FS_CardinalityType
  <2> HIDE DEF new
  <2> QED
    BY <1>1, <1>3, <2>1, <2>2, <2>3 DEF UserIds
<1> QED
  BY <1>2, <1>3

\* Starts and stops of the process leave the records; a start may add an account.
LEMMA ProcessKeeps ==
  ASSUME WebInv, Boot \/ Stop
  PROVE  WebInv'
<1>1. UNCHANGED <<jar, store, pushed, shown, away>> /\ \A i : Session(i)' = Session(i)
  BY DEF Boot, Stop, browser, told, Session
<1>2. CASE Boot
  <2>1. PICK c : /\ config' = c /\ users' = Seeded(users, c.name, c.password)
                 /\ up' = TRUE /\ UNCHANGED <<req, alone>>
    BY <1>2 DEF Boot, told
  <2>2. /\ IsFiniteSet(users')
        /\ \A u \in users' : DOMAIN u = {"id", "name", "password"} /\ u.id \in Nat
        /\ UserIds \subseteq UserIds'
        /\ {u.password : u \in {v \in users' : v.name = c.name}} = {c.password}
    <3> DEFINE rows == Seeded(users, c.name, c.password)
    <3>1. /\ IsFiniteSet(rows)
          /\ \A u \in rows : DOMAIN u = {"id", "name", "password"} /\ u.id \in Nat
          /\ UserIds \subseteq {u.id : u \in rows}
          /\ {u.password : u \in {v \in rows : v.name = c.name}} = {c.password}
      BY SeededRows DEF WebInv
    <3>2. users' = rows /\ UserIds' = {u.id : u \in users'}
      BY <2>1 DEF UserIds
    <3> HIDE DEF rows
    <3> QED
      BY <3>1, <3>2
  <2>3. WebTypes'
    BY <1>1, <2>1, <2>2 DEF WebInv, WebTypes
  <2>4. ConfigurationRules'
    <3>1. \A i \in SessionIds : Session(i).user \in UserIds \union {None}
      BY DEF WebInv, Accounts, ConfigurationRules, UserIds
    <3>2. \A i \in SessionIds : Session(i)'.user \in UserIds' \union {None}
      BY <1>1, <2>2, <3>1
    <3> QED
      BY <2>1, <2>2, <3>2 DEF ConfigurationRules, UserIds
  <2>5. Accounts'
    BY <2>1, <2>2, <2>4 DEF WebInv, Accounts
  <2>6. Lonely' /\ Gone' /\ FlashShownOnce'
    BY <1>1, <2>1 DEF WebInv, Lonely, Gone, FlashShownOnce, Busy
  <2> QED
    BY <2>1, <2>3, <2>5, <2>6 DEF WebInv
<1>3. CASE Stop
  <2>1. /\ up' = FALSE /\ UNCHANGED <<config, users>>
        /\ req' = [w \in Workers |-> Idle] /\ alone' \in BOOLEAN /\ (alone' => alone)
    BY <1>3 DEF Stop, WebInv, WebTypes
  <2>2. /\ Typed(Idle) /\ Copied(Idle) /\ Idle.at = "idle"
        /\ Idle.was.user = None /\ Idle.copy.user = None
    BY RecordTypes DEF Idle, Typed, Copied, Stages, Blank, WebInv
  <2>3. WebTypes'
    <3> HIDE DEF Idle
    <3> QED
      BY <1>1, <2>1, <2>2 DEF WebInv, WebTypes
  <2>4. Accounts'
    <3>1. ConfigurationRules'
      BY <1>1, <2>1 DEF WebInv, Accounts, ConfigurationRules
    <3> QED
      BY <2>1, <2>2, <3>1 DEF Accounts
  <2>5. Lonely' /\ Gone' /\ FlashShownOnce'
    BY <1>1, <2>1, <2>2 DEF WebInv, Lonely, Gone, FlashShownOnce, Busy
  <2> QED
    BY <2>1, <2>2, <2>3, <2>4, <2>5 DEF WebInv
<1> QED
  BY <1>2, <1>3

\* A request arrives with the cookie of the browser and knows nothing yet.
LEMMA ArriveKeeps ==
  ASSUME WebInv, NEW w \in Workers, NEW page, NEW form, Arrive(w, page, form)
  PROVE  WebInv'
<1> DEFINE r == [Idle EXCEPT !.page = page, !.form = form, !.cookie = jar, !.at = "begin"]
<1>1. /\ Typed(r) /\ Copied(r) /\ r.at = "begin" /\ r.cookie = jar
      /\ r.was.user = None /\ r.copy.user = None
  BY RecordTypes DEF Idle, Typed, Copied, Stages, Blank, WebInv, WebTypes
<1>2. /\ req[w].at = "idle" /\ req' = [req EXCEPT ![w] = r] /\ DOMAIN req = Workers
      /\ UNCHANGED <<up, config, users, jar, store, away>>
      /\ alone' = (Others(w) = {})
      /\ pushed' = IF alone' /\ ~alone THEN Session(jar).flash ELSE pushed
      /\ shown' = IF alone' /\ ~alone THEN 0 ELSE shown
  BY DEF Arrive, account, browser, WebInv, WebTypes
<1>10. \A i : Session(i)' = Session(i)
  BY <1>2 DEF Session
<1>11. Session(jar).flash \in Nat
  <2>1. Session(jar) \in Records
    BY RecordTypes DEF WebInv, WebTypes
  <2> QED
    BY <2>1 DEF Records
<1>12. alone' \in BOOLEAN /\ pushed' \in Nat /\ shown' \in Nat
  BY <1>2, <1>11 DEF WebInv, WebTypes
<1> HIDE DEF r
<1>3. req'[w] = r /\ \A v \in Workers \ {w} : req'[v] = req[v]
  BY <1>2
<1>4. WebTypes'
  BY <1>1, <1>2, <1>3, <1>12 DEF WebInv, WebTypes
<1>5. Accounts'
  <2>1. ConfigurationRules'
    BY <1>2, <1>10 DEF WebInv, Accounts, ConfigurationRules
  <2> QED
    BY <1>1, <1>2, <1>3, <2>1 DEF WebInv, Accounts, UserIds
<1>6. \A v \in Workers : Copied(req'[v])
  BY <1>1, <1>3 DEF WebInv
<1>7. Lonely'
  <2> SUFFICES ASSUME alone' PROVE Lonely'
    BY DEF Lonely
  <2>1. \A v \in Workers \ {w} : req'[v].at = "idle"
    BY <1>2, <1>3 DEF Others
  <2> QED
    BY <1>1, <1>2, <1>3, <2>1 DEF Lonely, Busy
<1>8. Gone'
  BY <1>1, <1>2, <1>3, <1>10 DEF WebInv, Gone, Busy
<1>9. FlashShownOnce'
  <2>1. Session(jar)' = Session(jar)
    BY <1>2 DEF Session
  <2>2. CASE alone
    BY <1>2, <2>1, <2>2 DEF WebInv, FlashShownOnce
  <2>3. CASE ~alone
    BY <1>2, <1>11, <2>1, <2>3 DEF FlashShownOnce
  <2> QED
    BY <2>2, <2>3
<1> QED
  BY <1>4, <1>5, <1>6, <1>7, <1>8, <1>9 DEF WebInv

-----------------------------------------------------------------------------
(* Answers.                                                                *)

\* What an answer may leave of the browser's cookie and the store.
LEMMA WriteBackLeaves ==
  ASSUME WebInv, NEW w \in Workers, WriteBack(w)
  PROVE  LET r == req[w]
         IN  \/ /\ UNCHANGED <<jar, store>>
                /\ r.failed \/ r.copy = r.was \/ (r.copy = Blank /\ r.cookie = None)
             \/ /\ r.copy = Blank /\ r.cookie \in SessionIds /\ jar' = None /\ ~r.failed
                /\ store' = store \/ store' = [store EXCEPT ![r.cookie] = None]
             \/ /\ ~r.failed
                /\ \E i \in SessionIds : jar' = i /\ store' = [store EXCEPT ![i] = r.copy]
<1> DEFINE r == req[w]
<1>1. r.cookie \in SessionIds \union {None} /\ r.failed \in BOOLEAN
  BY DEF WebInv, WebTypes, Typed
<1>2. ASSUME SaveSession(w)
      PROVE  \E i \in SessionIds : jar' = i /\ store' = [store EXCEPT ![i] = r.copy]
  BY <1>1, <1>2 DEF SaveSession, Save
<1>3. CASE r.failed /\ UNCHANGED browser
  BY <1>3 DEF browser
<1>4. CASE ~r.failed /\ r.copy = Blank /\ r.cookie # None /\ (DropSession(w) \/ SaveSession(w))
  BY <1>1, <1>2, <1>4 DEF DropSession
<1>5. CASE ~r.failed /\ r.copy # Blank
           /\ (SaveSession(w) \/ (~Changed(w) /\ UNCHANGED browser))
  BY <1>2, <1>5 DEF Changed, browser
<1>6. CASE ~r.failed /\ r.copy = Blank /\ r.cookie = None /\ UNCHANGED browser
  BY <1>6 DEF browser
<1> QED
  BY <1>1, <1>3, <1>4, <1>5, <1>6 DEF WriteBack

\* Afterwards the browser has what the request worked on, if it had what the
\* browser had; a record of the store is the copy, or what it was, or none.
LEMMA AnswerLeaves ==
  ASSUME WebInv, NEW w \in Workers, WriteBack(w), req[w].at = "answer"
  PROVE  /\ jar' \in SessionIds \union {None} /\ store' \in [SessionIds -> Records \union {None}]
         /\ \A i \in SessionIds \union {None} : Session(i)' \in {Session(i), req[w].copy, Blank}
         /\ Session(jar)' \in {Session(jar), req[w].copy}
         /\ alone => Session(jar)' = IF req[w].failed THEN Session(jar) ELSE req[w].copy
<1> DEFINE r == req[w]
<1>1. /\ Typed(r) /\ jar \in SessionIds \union {None}
      /\ store \in [SessionIds -> Records \union {None}]
  BY DEF WebInv, WebTypes
<1>2. alone => r.was = Session(jar) /\ (r.cookie = None => Session(jar) = Blank)
  BY DEF WebInv, Lonely, Session
<1>3. r.copy # None /\ r.copy \in Records /\ r.failed \in BOOLEAN
  BY <1>1, WebAssumption DEF Typed, Records
<1> HIDE DEF r
<1>4. CASE /\ UNCHANGED <<jar, store>>
           /\ r.failed \/ r.copy = r.was \/ (r.copy = Blank /\ r.cookie = None)
  <2>1. \A i : Session(i)' = Session(i)
    BY <1>4 DEF Session
  <2>2. Session(jar)' = Session(jar)
    BY <1>4 DEF Session
  <2> QED
    BY <1>1, <1>2, <1>3, <1>4, <2>1, <2>2 DEF r
<1>5. CASE /\ r.copy = Blank /\ r.cookie \in SessionIds /\ jar' = None /\ ~r.failed
           /\ store' = store \/ store' = [store EXCEPT ![r.cookie] = None]
  <2>1. store' \in [SessionIds -> Records \union {None}]
    BY <1>1, <1>5
  <2>2. ASSUME NEW i \in SessionIds \union {None} PROVE Session(i)' \in {Session(i), Blank}
    <3>1. i # None => store'[i] = store[i] \/ store'[i] = None
      BY <1>1, <1>5
    <3> QED
      BY <3>1 DEF Session
  <2>3. Session(jar)' = Blank
    BY <1>5 DEF Session
  <2> QED
    BY <1>3, <1>5, <2>1, <2>2, <2>3 DEF r
<1>6. ASSUME ~r.failed, NEW i \in SessionIds, jar' = i, store' = [store EXCEPT ![i] = r.copy]
      PROVE  /\ jar' \in SessionIds \union {None} /\ store' \in [SessionIds -> Records \union {None}]
             /\ \A j \in SessionIds \union {None} : Session(j)' \in {Session(j), r.copy, Blank}
             /\ Session(jar)' = r.copy
  <2>1. store' \in [SessionIds -> Records \union {None}] /\ store'[i] = r.copy
    BY <1>1, <1>3, <1>6
  <2>2. ASSUME NEW j \in SessionIds \union {None}
        PROVE  Session(j)' \in {Session(j), r.copy, Blank}
    <3>1. j # None => store'[j] = store[j] \/ store'[j] = r.copy
      BY <1>1, <1>6
    <3> QED
      BY <3>1 DEF Session
  <2>3. Session(jar)' = r.copy
    BY <1>3, <1>6, <2>1, WebAssumption DEF Session
  <2> QED
    BY <1>6, <2>1, <2>2, <2>3
<1> QED
  BY <1>3, <1>4, <1>5, <1>6, WriteBackLeaves DEF r

\* An answer keeps the invariant: it puts a copy in place of the record, and if
\* the request was alone the record of the browser is what the copy was made of.
LEMMA AnswerKeeps ==
  ASSUME WebInv, NEW w \in Workers, Answer(w)
  PROVE  WebInv'
<1> DEFINE r == req[w]
           more == ~r.failed /\ r.copy.flash > r.was.flash
<1>1. /\ r.at = "answer" /\ WriteBack(w) /\ req' = [req EXCEPT ![w] = Idle]
      /\ DOMAIN req = Workers /\ Typed(r) /\ Copied(r) /\ Busy(w)
      /\ UNCHANGED <<up, config, users, alone>>
  BY DEF Answer, account, WebInv, WebTypes, Busy
<1>2. /\ pushed' = IF more THEN pushed + 1 ELSE pushed
      /\ shown' = IF Shows(r) THEN shown + r.was.flash ELSE shown
      /\ away' = CASE r.page = "logout" -> alone [] r.page = "login" -> away /\ r.copy.user = None
                 [] OTHER -> away
  BY DEF Answer, Shows
<1>3. /\ jar' \in SessionIds \union {None} /\ store' \in [SessionIds -> Records \union {None}]
      /\ \A i \in SessionIds \union {None} : Session(i)' \in {Session(i), r.copy, Blank}
      /\ Session(jar)' \in {Session(jar), r.copy}
      /\ alone => Session(jar)' = IF r.failed THEN Session(jar) ELSE r.copy
  BY <1>1, AnswerLeaves
<1>4. /\ Typed(Idle) /\ Copied(Idle) /\ Idle.at = "idle"
      /\ Idle.was.user = None /\ Idle.copy.user = None
  BY RecordTypes DEF Idle, Typed, Copied, Stages, Blank, WebInv
<1>5. req'[w] = Idle /\ \A v \in Workers \ {w} : req'[v] = req[v]
  BY <1>1
<1>6. pushed \in Nat /\ shown \in Nat /\ alone \in BOOLEAN /\ away \in BOOLEAN
      /\ r.was \in Records /\ r.copy \in Records /\ r.failed \in BOOLEAN
      /\ r.was.flash \in Nat /\ r.copy.flash \in Nat
  BY <1>1 DEF WebInv, WebTypes, Typed, Records
<1> HIDE DEF r
<1>7. away' \in BOOLEAN /\ pushed' \in Nat /\ shown' \in Nat
  <2>1. away' \in {alone, away /\ r.copy.user = None, away}
    BY <1>2
  <2>2. pushed' \in {pushed, pushed + 1}
    BY <1>2
  <2>3. shown' \in {shown, shown + r.was.flash}
    BY <1>2
  <2>4. away' \in BOOLEAN
    BY <1>6, <2>1
  <2>5. pushed' \in Nat /\ shown' \in Nat
    BY <1>6, <2>2, <2>3
  <2> QED
    BY <2>4, <2>5
<1>8. WebTypes'
  <2>1. \A v \in Workers : Typed(req'[v])
    BY <1>4, <1>5 DEF WebInv, WebTypes
  <2>2. UNCHANGED <<up, users>> /\ alone' \in BOOLEAN /\ DOMAIN req' = Workers
    BY <1>1, <1>6
  <2> QED
    BY <1>3, <1>7, <2>1, <2>2 DEF WebInv, WebTypes
<1>9. Accounts'
  <2>1. UserIds' = UserIds
    BY <1>1 DEF UserIds
  <2>2. r.copy.user \in UserIds \union {None} /\ Blank.user = None
    BY DEF WebInv, Accounts, Blank, r
  <2>3. \A i \in SessionIds : Session(i)'.user \in UserIds \union {None}
    BY <1>3, <2>2 DEF WebInv, Accounts, ConfigurationRules, UserIds
  <2>4. ConfigurationRules'
    BY <1>1, <2>1, <2>3 DEF WebInv, Accounts, ConfigurationRules, UserIds
  <2> QED
    BY <1>4, <1>5, <2>1, <2>4 DEF WebInv, Accounts
<1>10. \A v \in Workers : Copied(req'[v])
  BY <1>4, <1>5 DEF WebInv
<1>11. alone => \A v \in Workers \ {w} : ~Busy(v)
  BY <1>1 DEF WebInv, Lonely
<1>12. Lonely'
  BY <1>1, <1>4, <1>5, <1>11 DEF Lonely, Busy
<1>13. Gone'
  <2> SUFFICES ASSUME away' PROVE Gone'
    BY DEF Gone
  <2>1. CASE r.page = "logout"
    <3>1. alone /\ r.copy.user = None /\ ~r.failed
      BY <1>1, <1>2, <2>1 DEF Copied, r
    <3> QED
      BY <1>3, <1>4, <1>5, <1>11, <3>1 DEF Gone, Busy
  <2>2. CASE r.page # "logout"
    <3>1. away /\ (r.page = "login" => r.copy.user = None)
      BY <1>2, <2>2
    <3>2. r.copy.user = None /\ Session(jar).user = None /\ Blank.user = None
      BY <1>1, <3>1 DEF WebInv, Gone, Blank, r
    <3>3. Session(jar)'.user = None
      BY <1>3, <3>2
    <3>4. ASSUME NEW v \in Workers, Busy(v)', req'[v].page # "login"
          PROVE  Session(req[v].cookie)'.user = None /\ req'[v].copy.user = None
      <4>1. v # w /\ req'[v] = req[v] /\ Busy(v)
        BY <1>4, <1>5, <3>4 DEF Busy
      <4>2. PICK c \in SessionIds \union {None} : c = req[v].cookie
        BY DEF WebInv, WebTypes, Typed
      <4>3. Session(c).user = None /\ req[v].copy.user = None
        BY <3>1, <3>4, <4>1, <4>2 DEF WebInv, Gone
      <4>4. Session(c)' \in {Session(c), r.copy, Blank}
        BY <1>3
      <4>5. Session(req[v].cookie)' = Session(c)'
        BY <4>1, <4>2 DEF Session
      <4> QED
        BY <3>2, <4>1, <4>3, <4>4, <4>5
    <3> QED
      BY <3>3, <3>4 DEF Gone
  <2> QED
    BY <2>1, <2>2
<1>14. FlashShownOnce'
  <2> SUFFICES ASSUME alone PROVE pushed' = shown' + Session(jar)'.flash
    BY <1>1 DEF FlashShownOnce
  <2>1. pushed = shown + Session(jar).flash /\ r.was = Session(jar)
    BY <1>1 DEF WebInv, FlashShownOnce, Lonely, r
  <2>2. CASE r.failed
    <3>1. ~more /\ ~Shows(r) /\ Session(jar)' = Session(jar)
      BY <1>3, <2>2 DEF Shows
    <3> QED
      BY <1>2, <2>1, <3>1
  <2>3. CASE ~r.failed
    <3>1. Session(jar)' = r.copy
      BY <1>3, <2>3
    <3>2. r.copy.flash \in IF Shows(r) THEN {0} ELSE {r.was.flash, r.was.flash + 1}
      BY <1>1, <2>3 DEF Copied, r
    <3>3. CASE Shows(r)
      BY <1>2, <1>6, <2>1, <2>3, <3>1, <3>2, <3>3
    <3>4. CASE ~Shows(r)
      BY <1>2, <1>6, <2>1, <2>3, <3>1, <3>2, <3>4
    <3> QED
      BY <3>3, <3>4
  <2> QED
    BY <1>6, <2>2, <2>3
<1> QED
  BY <1>8, <1>9, <1>10, <1>12, <1>13, <1>14 DEF WebInv

-----------------------------------------------------------------------------
(* The theorems.                                                           *)

\* Before the first start there are no accounts, sessions or requests.
LEMMA InitWebInv == WebInit => WebInv
<1> SUFFICES ASSUME WebInit PROVE WebInv
  OBVIOUS
<1>1. /\ Blank \in Records /\ Blank.user = None /\ Blank.flash = 0
      /\ Typed(Idle) /\ Copied(Idle) /\ Idle.at = "idle"
      /\ Idle.was = Blank /\ Idle.copy = Blank
  BY DEF Idle, Typed, Copied, Stages, Blank, Records
<1> USE DEF WebInit
<1> HIDE DEF Idle, Blank
<1>2. \A w \in Workers : req[w] = Idle
  OBVIOUS
<1>3. \A i \in SessionIds \union {None} : Session(i) = Blank
  <2>1. \A i \in SessionIds : store[i] = None
    OBVIOUS
  <2> QED
    BY <2>1 DEF Session
<1>4. WebTypes
  BY <1>1, FS_EmptySet DEF WebTypes
<1>5. Accounts
  BY <1>1, <1>2, <1>3 DEF Accounts, ConfigurationRules
<1>6. Lonely /\ Gone /\ FlashShownOnce
  BY <1>1, <1>2, <1>3 DEF Lonely, Gone, FlashShownOnce, Busy
<1> QED
  BY <1>1, <1>2, <1>4, <1>5, <1>6 DEF WebInv

\* Every step keeps the invariant.
LEMMA NextWebInv == WebInv /\ [WebNext]_web => WebInv'
<1> SUFFICES ASSUME WebInv, [WebNext]_web PROVE WebInv'
  OBVIOUS
<1>1. CASE UNCHANGED web
  <2>1. /\ UNCHANGED <<up, config, users, jar, store, req, pushed, shown, alone, away>>
        /\ \A i : Session(i)' = Session(i)
    BY <1>1 DEF web, account, browser, told, Session
  <2> QED
    BY <2>1 DEF WebInv, WebTypes, Accounts, ConfigurationRules, UserIds, Lonely, Gone,
                FlashShownOnce, Busy
<1> QED
  BY <1>1, ProcessKeeps, ArriveKeeps, BeginKeeps, HandlerKeeps, AnswerKeeps DEF WebNext, Serve

\* The invariant holds in every reachable state.
LEMMA WebInvAlways == WebSpec => []WebInv
  BY InitWebInv, NextWebInv, PTL DEF WebSpec

\* The configured name has the configured password and no other, and whoever is
\* signed in exists, whatever handlers there are below /admin.
THEOREM ConfigurationWins == WebSpec => []ConfigurationRules
  BY WebInvAlways, PTL DEF WebInv, Accounts

\* After a logout that no request overlapped only a login with a password that is
\* accepted signs in again, whatever handlers there are below /admin.
THEOREM LogoutIsFinal == WebSpec => []LogoutSticks
  BY WebInvAlways, PTL DEF WebInv, Gone, LogoutSticks

\* While requests come one at a time every message is shown once, whatever
\* handlers there are below /admin.
THEOREM MessagesAreShownOnce == WebSpec => []FlashShownOnce
  BY WebInvAlways, PTL DEF WebInv
=============================================================================
