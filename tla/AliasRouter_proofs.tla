-------------------------- MODULE AliasRouter_proofs --------------------------
(***************************************************************************)
(* Proofs about the router and its tables, for any number of connections,  *)
(* addresses, letters, recipients and faults.                              *)
(*                                                                         *)
(* A session works with ids and tokens that it read some queries ago; by   *)
(* the time it uses them the rows may be gone, and the address may belong  *)
(* to another alias.  What saves it is that an id or a token is used once: *)
(* a row that is gone never comes back, and one that is still there is the *)
(* row that was read.  So the invariant says of a plan what holds IF its   *)
(* rows still exist, and a row is queued only if the foreign keys hold.    *)
(***************************************************************************)
EXTENDS AliasRouter, FiniteSetTheorems, SequenceTheorems, TLAPS

-----------------------------------------------------------------------------
(* The inductive invariant.                                                *)

Recipients == Addresses \union Tokens

PlanRows == [direction: {None, "forward", "reply"}, from: Recipients \union {None},
             to: Inboxes \union Senders \union {None},
             alias: AliasIds \union {None}, contact: Tokens \union {None}]

OutboxRows == [session: Sessions, position: Nat, direction: {"forward", "reply"},
               from: Recipients, to: Inboxes \union Senders,
               alias: AliasIds \union {None}, contact: Tokens \union {None}]

\* Types and foreign keys of the tables.
TableTypes ==
    /\ mailboxes \subseteq Inboxes
    /\ aliases \subseteq AliasRows /\ \A a \in aliases : a.mailbox \in mailboxes
    /\ contacts \subseteq ContactRows /\ \A c \in contacts : c.alias \in Ids
    /\ outbox \subseteq OutboxRows /\ \A r \in outbox : KeysHold(r)
    /\ spent \subseteq AliasIds \union Tokens
    /\ toggle # None => toggle.id \in AliasIds /\ toggle.enabled \in BOOLEAN

\* The primary keys, the UNIQUE columns, and keys that are used once.
Keys ==
    /\ \A a, b \in aliases : a.id = b.id \/ a.address = b.address => a = b
    /\ \A c, d \in contacts :
          c.reverse = d.reverse \/ (c.alias = d.alias /\ c.email = d.email) => c = d
    /\ Ids \subseteq spent /\ Reverses \subseteq spent

SessionTypes ==
    /\ pc \in [Sessions -> Queries \union {"mail", "closed"}]
    /\ phase \in [Sessions -> {"verify", "handle"}]
    /\ letter \in [Sessions -> Letters]
    /\ rcpts \in [Sessions -> Seq(Recipients)]
    /\ target \in [Sessions -> Recipients \union {None}]
    /\ position \in [Sessions -> Nat]
    /\ plan \in [Sessions -> PlanRows]
    /\ DOMAIN answer = Sessions
    /\ live \in [Sessions -> SUBSET AliasIds]

LookingUp == {"find reverse", "find alias", "count blocked"}
Forwarding == {"forward", "find contact", "insert contact", "read contact"}
Queueing == {"enqueue", "count"}

\* Where a session stands in its two phases.
Place(s) ==
    /\ pc[s] = "mail" => phase[s] = "verify"
    /\ pc[s] \in Queries => target[s] \in Recipients
    /\ pc[s] \in Queries \ LookingUp => phase[s] = "handle"
    /\ phase[s] = "verify" => position[s] = 0
    /\ phase[s] = "handle" => /\ position[s] \in 1..Len(rcpts[s])
                              /\ Enabled \subseteq live[s]
    /\ phase[s] = "handle" /\ pc[s] \in Queries => target[s] = rcpts[s][position[s]]

\* If the alias of the plan is still there, the recipient names it; if the
\* contact is still there, it stands for the sender.
ForwardPlan(s) ==
    pc[s] \in Forwarding \/ (pc[s] \in Queueing /\ plan[s].direction = "forward") =>
        /\ plan[s].direction = "forward"
        /\ plan[s].alias \in AliasIds \intersect spent \intersect live[s]
        /\ \A a \in aliases : a.id = plan[s].alias => a.address = target[s]
        /\ pc[s] # "forward" =>
              /\ plan[s].to \in Inboxes
              /\ SenderOf(letter[s]) \in Senders
              /\ \A a \in aliases : a.id = plan[s].alias => a.mailbox = plan[s].to
        /\ pc[s] \in Queueing =>
              /\ plan[s].contact \in Tokens \intersect spent
              /\ plan[s].from = plan[s].contact
              /\ \A c \in contacts : c.reverse = plan[s].contact =>
                    c.alias = plan[s].alias /\ c.email = SenderOf(letter[s])

\* If the contact of the plan is still there, so is its alias, and its mailbox
\* wrote the letter.
ReplyPlan(s) ==
    pc[s] = "reply" \/ (pc[s] \in Queueing /\ plan[s].direction = "reply") =>
        /\ plan[s].direction = "reply"
        /\ plan[s].contact \in Tokens \intersect spent
        /\ plan[s].contact = target[s]
        /\ plan[s].from \in Addresses /\ plan[s].to \in Senders
        /\ plan[s].alias \in spent \union {None}
        /\ \A c \in contacts, a \in aliases :
              c.reverse = plan[s].contact /\ a.id = c.alias =>
                  /\ c.email = plan[s].to
                  /\ a.address = plan[s].from
                  /\ a.mailbox = letter[s].mailFrom
                  /\ pc[s] # "reply" => plan[s].alias = a.id

SessionInv(s) ==
    /\ Place(s) /\ ForwardPlan(s) /\ ReplyPlan(s)
    /\ pc[s] \in Queueing => plan[s].direction \in {"forward", "reply"}

\* What a row of the outbox was made of is still there, or both keys are gone.
RowInv(r) ==
    /\ phase[r.session] = "handle"
    /\ r.alias = None <=> r.contact = None
    /\ r.direction = "forward" /\ r.alias # None =>
          /\ r.alias \in live[r.session]
          /\ \E a \in aliases, c \in contacts :
                /\ a.id = r.alias
                /\ a.address = rcpts[r.session][r.position]
                /\ a.mailbox = r.to
                /\ c.alias = a.id
                /\ c.reverse = r.contact /\ c.reverse = r.from
                /\ c.email = SenderOf(letter[r.session])
    /\ r.direction = "reply" /\ r.alias # None =>
          \E a \in aliases, c \in contacts :
                /\ c.reverse = r.contact /\ c.reverse = rcpts[r.session][r.position]
                /\ c.email = r.to
                /\ a.id = c.alias /\ a.id = r.alias
                /\ a.address = r.from
                /\ a.mailbox = letter[r.session].mailFrom

RouterInv ==
    /\ TableTypes /\ Keys /\ SessionTypes
    /\ \A s \in Sessions : SessionInv(s)
    /\ \A r \in outbox : RowInv(r)

-----------------------------------------------------------------------------
(* What a step leaves to those that it does not concern.                   *)

\* Rows of aliases keep what identifies them; a row that appears is new.
Evolves ==
    /\ spent \subseteq spent'
    /\ \A b \in aliases' : \/ b.id \notin spent
                           \/ \E a \in aliases : /\ a.id = b.id /\ a.address = b.address
                                                 /\ a.mailbox = b.mailbox
    /\ \A c \in contacts' : c \in contacts \/ c.reverse \notin spent

\* Session s notices nothing.
Undisturbed(s) ==
    /\ pc'[s] = pc[s] /\ phase'[s] = phase[s] /\ letter'[s] = letter[s]
    /\ rcpts'[s] = rcpts[s] /\ target'[s] = target[s] /\ position'[s] = position[s]
    /\ plan'[s] = plan[s] /\ answer'[s] = answer[s]
    /\ live[s] \subseteq live'[s]
    /\ phase[s] = "handle" => Enabled' \subseteq live'[s]

\* A session that a step does not concern keeps its invariant, whatever happens
\* to the tables: what its plan says of rows that exist stays true, and no row
\* that appears can be one it speaks of.
LEMMA UndisturbedKeeps ==
  ASSUME NEW s \in Sessions, RouterInv, Evolves, Undisturbed(s)
  PROVE  SessionInv(s)'
<1> USE DEF RouterInv, Evolves, Undisturbed
<1>1. Place(s)'
  BY DEF SessionInv, Place
<1>2. ForwardPlan(s)'
  BY DEF SessionInv, ForwardPlan
<1>3. ReplyPlan(s)'
  <2> SUFFICES ASSUME pc[s] = "reply" \/ (pc[s] \in Queueing /\ plan[s].direction = "reply")
               PROVE  ReplyPlan(s)'
    BY DEF ReplyPlan
  <2>1. ASSUME NEW c \in contacts', NEW b \in aliases',
               c.reverse = plan[s].contact, b.id = c.alias
        PROVE  \E a \in aliases : /\ c \in contacts /\ a.id = b.id
                                  /\ a.address = b.address /\ a.mailbox = b.mailbox
    <3>1. plan[s].contact \in spent
      BY DEF SessionInv, ReplyPlan
    <3>2. c \in contacts
      BY <2>1, <3>1
    <3>3. b.id \in spent
      BY <2>1, <3>2 DEF TableTypes, Keys
    <3> QED
      BY <3>2, <3>3
  <2> QED
    BY <2>1 DEF SessionInv, ReplyPlan
<1> QED
  BY <1>1, <1>2, <1>3 DEF SessionInv

\* A step of session s keeps the types, its own invariant, and the others.
Moves(s) ==
    /\ SessionTypes' /\ SessionInv(s)'
    /\ \A t \in Sessions \ {s} : Undisturbed(t)

\* The plan that says nothing is a plan.
LEMMA NoPlanType == NoPlan \in PlanRows
  BY DEF NoPlan, PlanRows

\* A refusal ends what the session was doing.
LEMMA RefuseMoves ==
  ASSUME NEW s \in Sessions, NEW why, RouterInv,
         Refuse(s, why), UNCHANGED live, Enabled' \subseteq Enabled
  PROVE  Moves(s)
<1> USE DEF RouterInv, Refuse
<1>1. SessionTypes'
  <2>1. pc' \in [Sessions -> Queries \union {"mail", "closed"}]
    BY DEF SessionTypes
  <2>2. DOMAIN answer' = Sessions
    BY DEF SessionTypes
  <2>3. plan' \in [Sessions -> PlanRows]
    BY NoPlanType DEF SessionTypes
  <2>4. target' \in [Sessions -> Recipients \union {None}]
    BY DEF SessionTypes
  <2> QED
    BY <2>1, <2>2, <2>3, <2>4 DEF SessionTypes
<1>2. \A t \in Sessions \ {s} : Undisturbed(t)
  BY DEF SessionTypes, Undisturbed, SessionInv, Place
<1>3. pc'[s] \in {"mail", "closed"} /\ (phase[s] = "handle" => pc'[s] = "closed")
  BY DEF SessionTypes
<1>4. Place(s)'
  BY <1>3 DEF SessionTypes, SessionInv, Place, Queries
<1>5. ForwardPlan(s)' /\ ReplyPlan(s)' /\ pc'[s] \notin Queueing
  BY <1>3 DEF ForwardPlan, ReplyPlan, Forwarding, Queueing
<1> QED
  BY <1>1, <1>2, <1>4, <1>5 DEF Moves, SessionInv

\* Asking for a recipient, and the end of DATA, start a lookup.
LEMMA CommandMoves ==
  ASSUME NEW s \in Sessions, RouterInv,
         (\E recipient \in Recipients : Rcpt(s, recipient)) \/ Data(s)
  PROVE  Moves(s)
<1> USE DEF RouterInv, tables, admin
<1>1. rcpts[s] # <<>> => rcpts[s][1] \in Recipients /\ 1 \in 1..Len(rcpts[s])
  BY DEF SessionTypes
<1>2. Enabled \subseteq AliasIds /\ Enabled' = Enabled
  <2>1. aliases' = aliases
    BY DEF Rcpt, Data
  <2> QED
    BY <2>1 DEF Enabled, TableTypes, AliasRows
<1>3. SessionTypes'
  <2>1. ASSUME NEW recipient \in Recipients, Rcpt(s, recipient) PROVE SessionTypes'
    BY <2>1 DEF SessionTypes, Rcpt, Queries
  <2>2. CASE Data(s)
    BY <1>1, <1>2, <2>2 DEF SessionTypes, Data, Queries
  <2> QED
    BY <2>1, <2>2
<1>4. \A t \in Sessions \ {s} : Undisturbed(t)
  <2>1. ASSUME NEW recipient \in Recipients, Rcpt(s, recipient), NEW t \in Sessions \ {s}
        PROVE  Undisturbed(t)
    BY <1>2, <2>1 DEF SessionTypes, Undisturbed, SessionInv, Place, Rcpt
  <2>2. ASSUME Data(s), NEW t \in Sessions \ {s}
        PROVE  Undisturbed(t)
    BY <1>2, <2>2 DEF SessionTypes, Undisturbed, SessionInv, Place, Data
  <2> QED
    BY <2>1, <2>2
<1>5. pc'[s] = "find reverse"
  BY DEF SessionTypes, Rcpt, Data
<1>6. Place(s)'
  <2>1. CASE \E recipient \in Recipients : Rcpt(s, recipient)
    <3>1. phase'[s] = "verify" /\ position'[s] = 0 /\ target'[s] \in Recipients
      BY <2>1 DEF SessionTypes, SessionInv, Place, Rcpt
    <3> QED
      BY <1>5, <3>1 DEF Place, LookingUp
  <2>2. CASE Data(s)
    <3>1. phase'[s] = "handle" /\ position'[s] = 1 /\ live'[s] = Enabled
      BY <2>2 DEF SessionTypes, Data
    <3>2. target'[s] = rcpts[s][1] /\ rcpts'[s] = rcpts[s] /\ rcpts[s] # <<>>
      BY <2>2 DEF SessionTypes, Data
    <3> QED
      BY <1>1, <1>2, <1>5, <3>1, <3>2 DEF Place, LookingUp
  <2> QED
    BY <2>1, <2>2
<1>7. ForwardPlan(s)' /\ ReplyPlan(s)' /\ pc'[s] \notin Queueing
  BY <1>5 DEF ForwardPlan, ReplyPlan, Forwarding, Queueing
<1> QED
  BY <1>3, <1>4, <1>6, <1>7 DEF Moves, SessionInv

\* While the tables stay as they are, a query that only moves pc and the plan
\* keeps the types and the place of the session.
LEMMA StepMoves ==
  ASSUME NEW s \in Sessions, NEW next \in Queries, NEW new \in PlanRows, RouterInv,
         pc[s] \in Queries, phase[s] = "verify" => next \in LookingUp,
         Step(s, next), plan' = [plan EXCEPT ![s] = new],
         UNCHANGED live, Enabled' = Enabled
  PROVE  /\ SessionTypes' /\ Place(s)'
         /\ \A t \in Sessions \ {s} : Undisturbed(t)
         /\ pc'[s] = next /\ plan'[s] = new
<1> USE DEF RouterInv, Step
<1>1. SessionTypes'
  BY DEF SessionTypes
<1>2. \A t \in Sessions \ {s} : Undisturbed(t)
  BY DEF SessionTypes, Undisturbed, SessionInv, Place
<1>3. pc'[s] = next /\ plan'[s] = new
  BY DEF SessionTypes
<1>4. next # "mail"
  BY DEF Queries
<1>5. Place(s)'
  BY <1>3, <1>4 DEF SessionTypes, SessionInv, Place
<1> QED
  BY <1>1, <1>2, <1>3, <1>5

\* A route that was found ends RCPT, or is the plan of handle.
LEMMA RoutedMoves ==
  ASSUME NEW s \in Sessions, NEW next \in Queries, NEW route \in PlanRows, RouterInv,
         pc[s] \in Queries, Routed(s, route, next), UNCHANGED live, Enabled' = Enabled
  PROVE  /\ SessionTypes' /\ Place(s)'
         /\ \A t \in Sessions \ {s} : Undisturbed(t)
         /\ \/ pc'[s] = "mail"
            \/ /\ phase[s] = "handle" /\ pc'[s] = next /\ plan'[s] = route
               /\ target'[s] = target[s]
<1> USE DEF RouterInv, Routed
<1>1. target[s] \in Recipients /\ Append(rcpts[s], target[s]) \in Seq(Recipients)
  BY DEF SessionTypes, SessionInv, Place
<1>2. SessionTypes'
  <2>1. pc' \in [Sessions -> Queries \union {"mail", "closed"}]
    <3>1. pc \in [Sessions -> Queries \union {"mail", "closed"}]
      BY DEF SessionTypes
    <3>2. pc' = [pc EXCEPT ![s] = "mail"] \/ pc' = [pc EXCEPT ![s] = next]
      OBVIOUS
    <3>3. next \in Queries \union {"mail", "closed"} /\ "mail" \in Queries \union {"mail", "closed"}
      OBVIOUS
    <3> QED
      BY <3>1, <3>2, <3>3, Zenon
  <2>2. rcpts' \in [Sessions -> Seq(Recipients)]
    BY <1>1 DEF SessionTypes
  <2>3. plan' \in [Sessions -> PlanRows]
    BY DEF SessionTypes
  <2>4. target' \in [Sessions -> Recipients \union {None}] /\ DOMAIN answer' = Sessions
    BY DEF SessionTypes
  <2> QED
    BY <2>1, <2>2, <2>3, <2>4 DEF SessionTypes
<1>3. \A t \in Sessions \ {s} : Undisturbed(t)
  BY DEF SessionTypes, Undisturbed, SessionInv, Place
<1>4. \/ pc'[s] = "mail" /\ phase[s] = "verify"
      \/ /\ phase[s] = "handle" /\ pc'[s] = next /\ plan'[s] = route
         /\ target'[s] = target[s] /\ rcpts'[s] = rcpts[s]
  BY DEF SessionTypes
<1>5. Place(s)'
  <2>1. phase'[s] = phase[s] /\ position'[s] = position[s]
    OBVIOUS
  <2>2. "mail" \notin Queries
    BY DEF Queries
  <2> QED
    BY <1>4, <2>1, <2>2 DEF SessionInv, Place
<1> QED
  BY <1>2, <1>3, <1>4, <1>5

\* A lookup by reverse alias; only the mailbox of the alias gets a route.
LEMMA FindReverseMoves ==
  ASSUME NEW s \in Sessions, RouterInv, FindReverse(s)
  PROVE  Moves(s)
<1>1. UNCHANGED <<admin, tables, live>> /\ Enabled' = Enabled /\ pc[s] \in Queries
  BY DEF FindReverse, admin, tables, Enabled, Queries
<1>2. UNCHANGED <<aliases, contacts, spent, live>>
  BY <1>1 DEF admin, tables
<1>3. CASE Step(s, "find alias") /\ UNCHANGED plan
  <2>1. plan[s] \in PlanRows /\ plan' = [plan EXCEPT ![s] = plan[s]]
    BY <1>3 DEF RouterInv, SessionTypes
  <2>2. /\ SessionTypes' /\ Place(s)' /\ pc'[s] = "find alias"
        /\ \A t \in Sessions \ {s} : Undisturbed(t)
    BY <1>1, <1>3, <2>1, StepMoves DEF LookingUp, Queries
  <2> QED
    BY <2>2 DEF Moves, SessionInv, ForwardPlan, ReplyPlan, Forwarding, Queueing
<1>4. ASSUME NEW why, Refuse(s, why) PROVE Moves(s)
  BY <1>1, <1>4, RefuseMoves
<1>5. ASSUME NEW c \in ContactAt(target[s]), NEW a \in AliasOf(c),
             a.mailbox = letter[s].mailFrom,
             Routed(s, [direction |-> "reply", from |-> a.address, to |-> c.email,
                        alias |-> None, contact |-> c.reverse],
                    "reply")
      PROVE  Moves(s)
  <2> DEFINE route == [direction |-> "reply", from |-> a.address, to |-> c.email,
                       alias |-> None, contact |-> c.reverse]
  <2>1. /\ c \in contacts /\ c.reverse = target[s] /\ c \in ContactRows
        /\ a \in aliases /\ a.id = c.alias /\ a \in AliasRows /\ c.reverse \in spent
    BY DEF ContactAt, AliasOf, RouterInv, TableTypes, Keys, Reverses
  <2>2. route \in PlanRows
    BY <2>1 DEF PlanRows, AliasRows, ContactRows, Recipients
  <2>3. /\ SessionTypes' /\ Place(s)'
        /\ \A t \in Sessions \ {s} : Undisturbed(t)
        /\ \/ pc'[s] = "mail"
           \/ /\ phase[s] = "handle" /\ pc'[s] = "reply" /\ plan'[s] = route
              /\ target'[s] = target[s]
    <3> HIDE DEF route
    <3>1. Routed(s, route, "reply")
      BY <1>5 DEF route
    <3>2. "reply" \in Queries
      BY DEF Queries
    <3> QED
      BY <1>1, <2>2, <3>1, <3>2, RoutedMoves
  <2>4. CASE pc'[s] = "mail"
    BY <2>3, <2>4 DEF Moves, SessionInv, ForwardPlan, ReplyPlan, Forwarding, Queueing
  <2>5. CASE pc'[s] = "reply" /\ plan'[s] = route /\ target'[s] = target[s]
    <3>1. \A d \in contacts, b \in aliases :
             d.reverse = c.reverse /\ b.id = d.alias => d = c /\ b = a
      BY <2>1 DEF RouterInv, Keys
    <3>2. letter' = letter
      BY <1>5 DEF Routed
    <3>3. ReplyPlan(s)'
      <4>1. /\ route.direction = "reply" /\ route.contact = c.reverse
            /\ route.from = a.address /\ route.to = c.email /\ route.alias = None
        OBVIOUS
      <4>2. c.reverse \in Tokens /\ a.address \in Addresses /\ c.email \in Senders
        BY <2>1 DEF AliasRows, ContactRows
      <4> HIDE DEF route
      <4> QED
        BY <1>2, <1>5, <2>1, <2>5, <3>1, <3>2, <4>1, <4>2 DEF ReplyPlan, Queueing
    <3> QED
      BY <2>3, <2>5, <3>3 DEF Moves, SessionInv, ForwardPlan, Forwarding, Queueing
  <2> QED
    BY <2>3, <2>4, <2>5
<1> QED
  BY <1>3, <1>4, <1>5 DEF FindReverse

\* A lookup by address; only an enabled alias gets a route.
LEMMA FindAliasMoves ==
  ASSUME NEW s \in Sessions, RouterInv, FindAlias(s)
  PROVE  Moves(s)
<1>1. UNCHANGED <<aliases, contacts, spent, live>> /\ Enabled' = Enabled /\ pc[s] \in Queries
  BY DEF FindAlias, admin, tables, Enabled, Queries
<1>2. CASE Refuse(s, "no such alias")
  BY <1>1, <1>2, RefuseMoves
<1>3. ASSUME NEW a \in AliasAt(target[s]),
             plan' = [plan EXCEPT ![s].alias = a.id], Step(s, "count blocked")
      PROVE  Moves(s)
  <2> DEFINE new == [plan[s] EXCEPT !.alias = a.id]
  <2>1. a.id \in AliasIds
    BY DEF AliasAt, RouterInv, TableTypes, AliasRows
  <2>2. new \in PlanRows
    <3>1. plan[s] \in PlanRows
      BY DEF RouterInv, SessionTypes
    <3> QED
      BY <2>1, <3>1 DEF PlanRows
  <2>3. /\ SessionTypes' /\ Place(s)' /\ pc'[s] = "count blocked"
        /\ \A t \in Sessions \ {s} : Undisturbed(t)
    <3>1. plan' = [plan EXCEPT ![s] = new]
      BY <1>3
    <3> HIDE DEF new
    <3> QED
      BY <1>1, <1>3, <2>2, <3>1, StepMoves DEF LookingUp, Queries
  <2> QED
    BY <2>3 DEF Moves, SessionInv, ForwardPlan, ReplyPlan, Forwarding, Queueing
<1>4. ASSUME NEW a \in AliasAt(target[s]), a.enabled,
             Routed(s, [NoPlan EXCEPT !.direction = "forward", !.alias = a.id], "forward")
      PROVE  Moves(s)
  <2> DEFINE route == [NoPlan EXCEPT !.direction = "forward", !.alias = a.id]
  <2>1. /\ a \in aliases /\ a.address = target[s] /\ a.id \in AliasIds /\ a.id \in spent
        /\ a.id \in Enabled
    BY <1>4 DEF AliasAt, RouterInv, TableTypes, AliasRows, Keys, Ids, Enabled
  <2>2. route \in PlanRows /\ route.direction = "forward" /\ route.alias = a.id
    BY <2>1 DEF PlanRows, NoPlan
  <2> HIDE DEF route
  <2>3. /\ SessionTypes' /\ Place(s)'
        /\ \A t \in Sessions \ {s} : Undisturbed(t)
        /\ \/ pc'[s] = "mail"
           \/ /\ phase[s] = "handle" /\ pc'[s] = "forward" /\ plan'[s] = route
              /\ target'[s] = target[s]
    <3>1. Routed(s, route, "forward")
      BY <1>4 DEF route
    <3>2. "forward" \in Queries
      BY DEF Queries
    <3> QED
      BY <1>1, <2>2, <3>1, <3>2, RoutedMoves
  <2>4. CASE pc'[s] = "mail"
    BY <2>3, <2>4 DEF Moves, SessionInv, ForwardPlan, ReplyPlan, Forwarding, Queueing
  <2>5. CASE /\ phase[s] = "handle" /\ pc'[s] = "forward" /\ plan'[s] = route
             /\ target'[s] = target[s]
    <3>1. a.id \in live[s]
      BY <2>1, <2>5 DEF RouterInv, SessionInv, Place
    <3>2. \A b \in aliases : b.id = a.id => b = a
      BY <2>1 DEF RouterInv, Keys
    <3>3. ForwardPlan(s)'
      BY <1>1, <2>1, <2>2, <2>5, <3>1, <3>2 DEF ForwardPlan, Queueing
    <3> QED
      BY <2>3, <2>5, <3>3 DEF Moves, SessionInv, ReplyPlan, Queueing
  <2> QED
    BY <2>3, <2>4, <2>5
<1> QED
  BY <1>2, <1>3, <1>4 DEF FindAlias

\* The second lookup by address is of the alias of the plan, if that still
\* exists: an address has one alias at a time.
LEMMA ForwardAliasMoves ==
  ASSUME NEW s \in Sessions, RouterInv, ForwardAlias(s)
  PROVE  Moves(s)
<1>1. UNCHANGED <<aliases, contacts, spent, live>> /\ Enabled' = Enabled
      /\ pc[s] = "forward" /\ pc[s] \in Queries
  BY DEF ForwardAlias, admin, tables, Enabled, Queries
<1>2. ASSUME NEW why, Refuse(s, why) PROVE Moves(s)
  BY <1>1, <1>2, RefuseMoves
<1>3. ASSUME NEW a \in AliasAt(target[s]), SenderOf(letter[s]) # None,
             plan' = [plan EXCEPT ![s].to = a.mailbox], Step(s, "find contact")
      PROVE  Moves(s)
  <2> DEFINE new == [plan[s] EXCEPT !.to = a.mailbox]
  <2>1. a \in aliases /\ a.address = target[s] /\ a.mailbox \in Inboxes
    BY DEF AliasAt, RouterInv, TableTypes, AliasRows
  <2>2. /\ plan[s].direction = "forward"
        /\ plan[s].alias \in AliasIds \intersect spent \intersect live[s]
        /\ \A b \in aliases : b.id = plan[s].alias => b.address = target[s]
    BY <1>1 DEF RouterInv, SessionInv, ForwardPlan, Forwarding
  <2>3. /\ new \in PlanRows /\ new.direction = "forward" /\ new.alias = plan[s].alias
        /\ new.to = a.mailbox
    BY <2>1, <2>2 DEF RouterInv, SessionTypes, PlanRows
  <2>4. plan' = [plan EXCEPT ![s] = new]
    BY <1>3
  <2> HIDE DEF new
  <2>5. /\ SessionTypes' /\ Place(s)' /\ pc'[s] = "find contact" /\ plan'[s] = new
        /\ \A t \in Sessions \ {s} : Undisturbed(t)
    <3>1. phase[s] = "handle" /\ "find contact" \in Queries
      BY <1>1 DEF RouterInv, SessionInv, Place, LookingUp, Queries
    <3> QED
      BY <1>1, <1>3, <2>3, <2>4, <3>1, StepMoves
  <2>6. SenderOf(letter[s]) \in Senders
    BY <1>3 DEF RouterInv, SessionTypes, Senders
  <2>7. \A b \in aliases : b.id = plan[s].alias => b = a
    BY <2>1, <2>2 DEF RouterInv, Keys
  <2>8. letter' = letter /\ target' = target
    BY <1>3 DEF Step
  <2>9. ForwardPlan(s)'
    BY <1>1, <2>1, <2>2, <2>3, <2>5, <2>6, <2>7, <2>8 DEF ForwardPlan, Queueing
  <2> QED
    BY <2>5, <2>9 DEF Moves, SessionInv, ReplyPlan, Queueing
<1> QED
  BY <1>2, <1>3 DEF ForwardAlias

\* A contact that was found is the plan's: its reverse alias stands for the sender.
LEMMA WithContactMoves ==
  ASSUME NEW s \in Sessions, RouterInv, pc[s] \in {"find contact", "read contact"},
         NEW c \in ContactFor(plan[s].alias, SenderOf(letter[s])), WithContact(s, c),
         UNCHANGED <<tables, spent, live>>
  PROVE  Moves(s)
<1> DEFINE new == [plan[s] EXCEPT !.contact = c.reverse, !.from = c.reverse]
<1>1. UNCHANGED <<aliases, contacts, spent, live>> /\ Enabled' = Enabled /\ pc[s] \in Queries
  BY DEF tables, Enabled, Queries
<1>2. /\ c \in contacts /\ c.alias = plan[s].alias /\ c.email = SenderOf(letter[s])
      /\ c.reverse \in Tokens /\ c.reverse \in spent
  BY DEF ContactFor, RouterInv, TableTypes, ContactRows, Keys, Reverses
<1>3. /\ plan[s].direction = "forward" /\ plan[s].to \in Inboxes
      /\ plan[s].alias \in AliasIds \intersect spent \intersect live[s]
      /\ \A b \in aliases : b.id = plan[s].alias =>
            b.address = target[s] /\ b.mailbox = plan[s].to
      /\ SenderOf(letter[s]) \in Senders
  BY DEF RouterInv, SessionInv, ForwardPlan, Forwarding
<1>4. plan[s] \in PlanRows
  BY DEF RouterInv, SessionTypes
<1>5. /\ new \in PlanRows /\ new.direction = "forward" /\ new.alias = plan[s].alias
      /\ new.to = plan[s].to /\ new.contact = c.reverse /\ new.from = c.reverse
  BY <1>2, <1>3, <1>4 DEF PlanRows, Recipients
<1>6. plan' = [plan EXCEPT ![s] = new] /\ Step(s, "enqueue")
  BY DEF WithContact
<1> HIDE DEF new
<1>7. /\ SessionTypes' /\ Place(s)' /\ pc'[s] = "enqueue" /\ plan'[s] = new
      /\ \A t \in Sessions \ {s} : Undisturbed(t)
  <2>1. phase[s] = "handle" /\ "enqueue" \in Queries
    BY DEF RouterInv, SessionInv, Place, LookingUp, Queries
  <2> QED
    BY <1>1, <1>5, <1>6, <2>1, StepMoves
<1>8. \A d \in contacts : d.reverse = c.reverse => d = c
  BY <1>2 DEF RouterInv, Keys
<1>9. letter' = letter /\ target' = target
  BY DEF WithContact, Step
<1>10. ForwardPlan(s)'
  BY <1>1, <1>2, <1>3, <1>5, <1>7, <1>8, <1>9 DEF ForwardPlan, Queueing
<1> QED
  BY <1>5, <1>7, <1>10 DEF Moves, SessionInv, ReplyPlan, Queueing

\* Both lookups of the contact.
LEMMA ContactMoves ==
  ASSUME NEW s \in Sessions, RouterInv, FindContact(s) \/ ReadContact(s)
  PROVE  Moves(s)
<1>1. UNCHANGED <<tables, aliases, contacts, spent, live>> /\ Enabled' = Enabled
      /\ pc[s] \in {"find contact", "read contact"} /\ pc[s] \in Queries
  BY DEF FindContact, ReadContact, admin, tables, Enabled, Queries
<1>2. CASE Refuse(s, "contact disappeared")
  BY <1>1, <1>2, RefuseMoves
<1>3. CASE \E c \in ContactFor(plan[s].alias, SenderOf(letter[s])) : WithContact(s, c)
  BY <1>1, <1>3, WithContactMoves
<1>4. CASE pc[s] = "find contact" /\ Step(s, "insert contact") /\ UNCHANGED plan
  <2>1. plan[s] \in PlanRows /\ plan' = [plan EXCEPT ![s] = plan[s]]
    BY <1>4 DEF RouterInv, SessionTypes
  <2>2. phase[s] = "handle" /\ "insert contact" \in Queries
    BY <1>1 DEF RouterInv, SessionInv, Place, LookingUp, Queries
  <2>3. /\ SessionTypes' /\ Place(s)' /\ pc'[s] = "insert contact" /\ plan'[s] = plan[s]
        /\ \A t \in Sessions \ {s} : Undisturbed(t)
    BY <1>1, <1>4, <2>1, <2>2, StepMoves
  <2>4. letter' = letter /\ target' = target
    BY <1>4 DEF Step
  <2>5. ForwardPlan(s)
    BY DEF RouterInv, SessionInv
  <2>6. ForwardPlan(s)'
    BY <1>1, <1>4, <2>3, <2>4, <2>5 DEF ForwardPlan, Forwarding, Queueing
  <2> QED
    BY <2>3, <2>6 DEF Moves, SessionInv, ReplyPlan, Queueing
<1> QED
  BY <1>2, <1>3, <1>4 DEF FindContact, ReadContact

\* The alias of a reply is found by the address that its contact's alias has.
LEMMA ReplyAliasMoves ==
  ASSUME NEW s \in Sessions, RouterInv, ReplyAlias(s)
  PROVE  Moves(s)
<1>1. UNCHANGED <<aliases, contacts, spent, live>> /\ Enabled' = Enabled
      /\ pc[s] = "reply" /\ pc[s] \in Queries
  BY DEF ReplyAlias, admin, tables, Enabled, Queries
<1>2. PICK id \in AliasIds \union {None} :
         /\ plan' = [plan EXCEPT ![s] = [plan[s] EXCEPT !.alias = id]]
         /\ id \in spent \union {None}
         /\ \A a \in AliasAt(plan[s].from) : id = a.id
  <2>1. CASE AliasAt(plan[s].from) = {} /\ UNCHANGED plan
    <3>1. plan[s] \in PlanRows /\ plan[s].alias \in spent \union {None}
      BY <1>1 DEF RouterInv, SessionTypes, SessionInv, ReplyPlan
    <3>2. plan' = [plan EXCEPT ![s] = [plan[s] EXCEPT !.alias = plan[s].alias]]
      BY <2>1, <3>1 DEF RouterInv, SessionTypes, PlanRows
    <3> QED
      BY <2>1, <3>1, <3>2 DEF PlanRows
  <2>2. ASSUME NEW a \in AliasAt(plan[s].from), plan' = [plan EXCEPT ![s].alias = a.id]
        PROVE  /\ plan' = [plan EXCEPT ![s] = [plan[s] EXCEPT !.alias = a.id]]
               /\ a.id \in AliasIds /\ a.id \in spent
               /\ \A b \in AliasAt(plan[s].from) : a.id = b.id
    BY <2>2 DEF AliasAt, RouterInv, TableTypes, AliasRows, Keys, Ids
  <2> QED
    BY <2>1, <2>2 DEF ReplyAlias
<1> DEFINE new == [plan[s] EXCEPT !.alias = id]
<1>3. /\ plan[s] \in PlanRows /\ plan[s].direction = "reply"
      /\ plan[s].contact \in Tokens \intersect spent
      /\ plan[s].contact = target[s]
      /\ plan[s].from \in Addresses /\ plan[s].to \in Senders
      /\ \A c \in contacts, a \in aliases :
            c.reverse = plan[s].contact /\ a.id = c.alias =>
                /\ c.email = plan[s].to
                /\ a.address = plan[s].from
                /\ a.mailbox = letter[s].mailFrom
  BY <1>1 DEF RouterInv, SessionTypes, SessionInv, ReplyPlan
<1>4. /\ new \in PlanRows /\ new.alias = id
      /\ new.direction = "reply" /\ new.contact = plan[s].contact
      /\ new.from = plan[s].from /\ new.to = plan[s].to
  BY <1>3 DEF PlanRows
<1> HIDE DEF new
<1>5. /\ SessionTypes' /\ Place(s)' /\ pc'[s] = "enqueue" /\ plan'[s] = new
      /\ \A t \in Sessions \ {s} : Undisturbed(t)
  <2>1. phase[s] = "handle" /\ "enqueue" \in Queries
    BY <1>1 DEF RouterInv, SessionInv, Place, LookingUp, Queries
  <2>2. Step(s, "enqueue") /\ plan' = [plan EXCEPT ![s] = new]
    BY <1>2 DEF ReplyAlias, new
  <2> QED
    BY <1>1, <1>4, <2>1, <2>2, StepMoves
<1>6. letter' = letter /\ target' = target
  BY DEF ReplyAlias, Step
<1>7. \A c \in contacts, a \in aliases :
         c.reverse = plan[s].contact /\ a.id = c.alias => id = a.id
  BY <1>2, <1>3 DEF AliasAt
<1>8. ReplyPlan(s)'
  BY <1>1, <1>2, <1>3, <1>4, <1>5, <1>6, <1>7 DEF ReplyPlan, Queueing
<1> QED
  BY <1>4, <1>5, <1>8 DEF Moves, SessionInv, ForwardPlan, Forwarding, Queueing

\* A failed query is a refusal.
LEMMA QueryFailsMoves ==
  ASSUME NEW s \in Sessions, RouterInv, QueryFails(s)
  PROVE  Moves(s)
<1>1. UNCHANGED live /\ Enabled' = Enabled /\ \E why : Refuse(s, why)
  BY DEF QueryFails, tables, Enabled
<1> QED
  BY <1>1, RefuseMoves

-----------------------------------------------------------------------------
(* What a step does to the tables.                                         *)

\* Nothing is lost that a row of the outbox rests on.
Retained ==
    /\ \A a \in aliases : \E b \in aliases' : /\ b.id = a.id /\ b.address = a.address
                                              /\ b.mailbox = a.mailbox
    /\ contacts \subseteq contacts'

Grows == TableTypes' /\ Keys' /\ Evolves /\ Retained

\* Steps that leave the tables alone.
LEMMA SameTables ==
  ASSUME RouterInv, UNCHANGED <<mailboxes, aliases, contacts, outbox, spent, toggle>>
  PROVE  Grows
<1>1. Ids' = Ids /\ Reverses' = Reverses
  BY DEF Ids, Reverses
<1>2. TableTypes'
  BY <1>1 DEF RouterInv, TableTypes, KeysHold
<1>3. Keys'
  BY <1>1 DEF RouterInv, Keys
<1>4. Evolves
  BY DEF Evolves
<1>5. Retained
  BY DEF Retained
<1> QED
  BY <1>2, <1>3, <1>4, <1>5 DEF Grows

\* Steps that change rows of aliases and leave what identifies them.
LEMMA SameIdentities ==
  ASSUME RouterInv, UNCHANGED <<mailboxes, contacts, outbox, spent>>,
         NEW f, aliases' = {f[a] : a \in aliases},
         \A a \in aliases : /\ f[a] \in AliasRows
                            /\ f[a].id = a.id /\ f[a].address = a.address
                            /\ f[a].mailbox = a.mailbox,
         toggle' # None => toggle'.id \in AliasIds /\ toggle'.enabled \in BOOLEAN
  PROVE  Grows
<1> USE DEF RouterInv
<1>1. Ids' = Ids
  BY DEF Ids
<1>2. Reverses' = Reverses
  BY DEF Reverses
<1>3. TableTypes'
  <2>1. aliases' \subseteq AliasRows /\ \A b \in aliases' : b.mailbox \in mailboxes'
    BY DEF TableTypes
  <2>2. \A r \in outbox' : KeysHold(r)'
    BY <1>1, <1>2 DEF TableTypes, KeysHold
  <2> QED
    BY <1>1, <2>1, <2>2 DEF TableTypes
<1>4. Keys'
  <2>1. \A b, c \in aliases' : b.id = c.id \/ b.address = c.address => b = c
    BY DEF Keys
  <2> QED
    BY <1>1, <1>2, <2>1 DEF Keys
<1>5. Evolves
  BY DEF Evolves
<1>6. Retained
  BY DEF Retained
<1> QED
  BY <1>3, <1>4, <1>5, <1>6 DEF Grows

\* A message for a disabled alias is counted, and refused.
LEMMA CountBlockedMoves ==
  ASSUME NEW s \in Sessions, RouterInv, CountBlocked(s)
  PROVE  Moves(s) /\ Grows /\ outbox' = outbox
<1> DEFINE f == [a \in aliases |-> IF a.id = plan[s].alias THEN [a EXCEPT !.blocked = @ + 1]
                                                           ELSE a]
<1>1. \A a \in aliases : /\ f[a] \in AliasRows
                         /\ f[a].id = a.id /\ f[a].address = a.address
                         /\ f[a].mailbox = a.mailbox /\ f[a].enabled = a.enabled
  BY DEF RouterInv, TableTypes, AliasRows
<1>2. aliases' = {f[a] : a \in aliases}
  BY DEF CountBlocked
<1> HIDE DEF f
<1>3. Enabled' = Enabled
  BY <1>1, <1>2 DEF Enabled
<1>4. Moves(s)
  BY <1>3, RefuseMoves DEF CountBlocked
<1>5. Grows
  <2>1. UNCHANGED <<mailboxes, contacts, outbox, spent, toggle>>
    BY DEF CountBlocked, admin
  <2> QED
    BY <1>1, <1>2, <2>1, SameIdentities DEF RouterInv, TableTypes
<1> QED
  BY <1>4, <1>5 DEF CountBlocked

\* NextRecipient starts a lookup, or ends the session.
LEMMA NextRecipientMoves ==
  ASSUME NEW s \in Sessions, RouterInv, pc[s] = "count",
         NextRecipient(s), UNCHANGED live, Enabled' = Enabled
  PROVE  Moves(s)
<1> USE DEF RouterInv
<1>1. phase[s] = "handle" /\ position[s] \in 1..Len(rcpts[s]) /\ Len(rcpts[s]) \in Nat
  <2>1. phase[s] = "handle"
    BY DEF SessionInv, Place, Queries, LookingUp
  <2>2. rcpts[s] \in Seq(Recipients)
    BY DEF SessionTypes
  <2> QED
    BY <2>1, <2>2 DEF SessionInv, Place
<1>2. position[s] < Len(rcpts[s]) =>
         position[s] + 1 \in 1..Len(rcpts[s]) /\ rcpts[s][position[s] + 1] \in Recipients
  BY <1>1 DEF SessionTypes
<1>3. SessionTypes'
  <2>1. pc' \in [Sessions -> Queries \union {"mail", "closed"}]
    BY DEF SessionTypes, NextRecipient, Queries
  <2>2. target' \in [Sessions -> Recipients \union {None}]
    BY <1>2 DEF SessionTypes, NextRecipient
  <2>3. position' \in [Sessions -> Nat]
    <3>1. position \in [Sessions -> Nat]
      BY DEF SessionTypes
    <3>2. position' = [position EXCEPT ![s] = position[s] + 1] \/ position' = position
      BY DEF NextRecipient
    <3> QED
      BY <3>1, <3>2
  <2>5. DOMAIN answer' = Sessions
    BY DEF SessionTypes, NextRecipient
  <2>4. plan' \in [Sessions -> PlanRows]
    BY NoPlanType DEF SessionTypes, NextRecipient
  <2> QED
    BY <2>1, <2>2, <2>3, <2>4, <2>5 DEF SessionTypes, NextRecipient
<1>4. ASSUME NEW t \in Sessions \ {s} PROVE Undisturbed(t)
  <2>1. /\ pc'[t] = pc[t] /\ target'[t] = target[t] /\ position'[t] = position[t]
        /\ plan'[t] = plan[t] /\ answer'[t] = answer[t]
    BY DEF SessionTypes, NextRecipient
  <2>2. phase[t] = "handle" => Enabled \subseteq live[t]
    BY DEF SessionInv, Place
  <2> QED
    BY <2>1, <2>2 DEF Undisturbed, NextRecipient
<1>5. /\ phase'[s] = phase[s] /\ rcpts'[s] = rcpts[s] /\ live'[s] = live[s]
      /\ \/ /\ pc'[s] = "find reverse" /\ position[s] < Len(rcpts[s])
            /\ position'[s] = position[s] + 1
            /\ target'[s] = rcpts[s][position[s] + 1]
         \/ pc'[s] = "closed" /\ position'[s] = position[s]
  BY DEF SessionTypes, NextRecipient
<1>6. "closed" \notin Queries
  BY DEF Queries
<1>7. Place(s)'
  BY <1>1, <1>2, <1>5, <1>6 DEF SessionInv, Place, LookingUp
<1> QED
  BY <1>3, <1>4, <1>5, <1>7
  DEF Moves, SessionInv, ForwardPlan, ReplyPlan, Forwarding, Queueing

\* A queued message is counted, and the next recipient is looked up.
LEMMA CountMoves ==
  ASSUME NEW s \in Sessions, RouterInv, Count(s)
  PROVE  Moves(s) /\ Grows /\ outbox' = outbox
<1> DEFINE f == [a \in aliases |-> IF a.id = plan[s].alias
                                   THEN Counted(a, plan[s].direction) ELSE a]
<1>1. \A a \in aliases : /\ f[a] \in AliasRows
                         /\ f[a].id = a.id /\ f[a].address = a.address
                         /\ f[a].mailbox = a.mailbox /\ f[a].enabled = a.enabled
  BY DEF RouterInv, TableTypes, AliasRows, Counted
<1>2. aliases' = {f[a] : a \in aliases}
  BY DEF Count
<1> HIDE DEF f
<1>3. Enabled' = Enabled
  BY <1>1, <1>2 DEF Enabled
<1>4. Moves(s)
  BY <1>3, NextRecipientMoves DEF Count
<1>5. Grows
  <2>1. UNCHANGED <<mailboxes, contacts, outbox, spent, toggle>>
    BY DEF Count, admin
  <2> QED
    BY <1>1, <1>2, <2>1, SameIdentities DEF RouterInv, TableTypes
<1> QED
  BY <1>4, <1>5 DEF Count

\* A contact is made only for an alias that exists, with a token nobody had.
LEMMA InsertContactMoves ==
  ASSUME NEW s \in Sessions, NEW token \in Tokens, RouterInv, InsertContact(s, token)
  PROVE  Moves(s) /\ Grows /\ outbox' = outbox
<1>1. /\ UNCHANGED <<mailboxes, aliases, outbox, toggle, live>> /\ Enabled' = Enabled
      /\ pc[s] = "insert contact" /\ pc[s] \in Queries
  BY DEF InsertContact, Enabled, Queries
<1>2. CASE Refuse(s, "foreign key") /\ UNCHANGED <<contacts, spent>>
  BY <1>1, <1>2, RefuseMoves, SameTables
<1>3. CASE Step(s, "read contact") /\ UNCHANGED plan
  <2>1. plan[s] \in PlanRows /\ plan' = [plan EXCEPT ![s] = plan[s]]
    BY <1>3 DEF RouterInv, SessionTypes
  <2>2. phase[s] = "handle" /\ "read contact" \in Queries
    BY <1>1 DEF RouterInv, SessionInv, Place, LookingUp, Queries
  <2>3. /\ SessionTypes' /\ Place(s)' /\ pc'[s] = "read contact" /\ plan'[s] = plan[s]
        /\ \A t \in Sessions \ {s} : Undisturbed(t)
    BY <1>1, <1>3, <2>1, <2>2, StepMoves
  <2>4. letter' = letter /\ target' = target
    BY <1>3 DEF Step
  <2>5. ForwardPlan(s) /\ spent \subseteq spent'
    BY DEF RouterInv, SessionInv, InsertContact
  <2>6. ForwardPlan(s)'
    BY <1>1, <1>3, <2>3, <2>4, <2>5 DEF ForwardPlan, Forwarding, Queueing
  <2>7. Moves(s)
    BY <2>3, <2>6 DEF Moves, SessionInv, ReplyPlan, Queueing
  <2>8. CASE UNCHANGED <<contacts, spent>>
    BY <1>1, <2>7, <2>8, SameTables
  <2>9. CASE /\ plan[s].alias \in Ids
             /\ ContactFor(plan[s].alias, SenderOf(letter[s])) = {}
             /\ token \notin spent
             /\ contacts' = contacts \union {NewContact(s, token)}
             /\ spent' = spent \union {token}
    <3> DEFINE new == NewContact(s, token)
    <3>1. /\ new.reverse = token /\ new.alias = plan[s].alias
          /\ new.email = SenderOf(letter[s])
      BY DEF NewContact
    <3>2. new \in ContactRows
      BY <1>1 DEF RouterInv, SessionInv, ForwardPlan, Forwarding, ContactRows, NewContact
    <3>3. \A c \in contacts : c.reverse # token /\ ~(c.alias = new.alias /\ c.email = new.email)
      BY <2>9, <3>1 DEF RouterInv, Keys, Reverses, ContactFor
    <3>4. contacts' = contacts \union {new}
      BY <2>9
    <3> HIDE DEF new
    <3>5. Ids' = Ids /\ Reverses' = Reverses \union {token}
      BY <1>1, <3>1, <3>4 DEF Ids, Reverses
    <3>6. TableTypes'
      <4>1. contacts' \subseteq ContactRows /\ \A c \in contacts' : c.alias \in Ids'
        BY <2>9, <3>1, <3>2, <3>4, <3>5 DEF RouterInv, TableTypes
      <4>2. \A r \in outbox' : KeysHold(r)'
        BY <1>1, <3>5 DEF RouterInv, TableTypes, KeysHold
      <4> QED
        BY <1>1, <2>9, <4>1, <4>2 DEF RouterInv, TableTypes
    <3>7. Keys'
      BY <1>1, <2>9, <3>1, <3>3, <3>4, <3>5 DEF RouterInv, Keys
    <3>8. Evolves /\ Retained
      BY <1>1, <2>9, <3>1, <3>4 DEF Evolves, Retained
    <3> QED
      BY <1>1, <2>7, <3>6, <3>7, <3>8 DEF Grows
  <2> QED
    BY <1>3, <2>8, <2>9, <1>1 DEF InsertContact
<1> QED
  BY <1>2, <1>3 DEF InsertContact

\* The row of a plan whose keys hold is what RowInv asks for.
LEMMA RowOfPlan ==
  ASSUME NEW s \in Sessions, RouterInv, pc[s] = "enqueue", KeysHold(Row(s))
  PROVE  Row(s) \in OutboxRows /\ RowInv(Row(s))
<1> DEFINE r == Row(s)
<1>1. /\ r.session = s /\ r.position = position[s] /\ r.direction = plan[s].direction
      /\ r.from = plan[s].from /\ r.to = plan[s].to
      /\ r.alias = plan[s].alias /\ r.contact = plan[s].contact
  BY DEF Row
<1>2. phase[s] = "handle" /\ target[s] = rcpts[s][position[s]]
  BY DEF RouterInv, SessionInv, Place, LookingUp, Queries
<1>3. plan[s] \in PlanRows /\ position[s] \in Nat
  BY DEF RouterInv, SessionTypes
<1>4. PICK c \in contacts : c.reverse = plan[s].contact
  <2>1. plan[s].contact \in Tokens
    BY DEF RouterInv, SessionInv, ForwardPlan, ReplyPlan, Queueing
  <2> QED
    BY <1>1, <2>1, RouterAssumption DEF KeysHold, Reverses
<1>5. PICK a \in aliases : a.id = c.alias
  BY DEF RouterInv, TableTypes, Ids
<1>6. CASE plan[s].direction = "forward"
  <2>1. /\ plan[s].alias \in AliasIds \intersect live[s]
        /\ \A b \in aliases : b.id = plan[s].alias =>
              b.address = target[s] /\ b.mailbox = plan[s].to
        /\ plan[s].to \in Inboxes
        /\ plan[s].from = plan[s].contact /\ plan[s].contact \in Tokens
        /\ c.alias = plan[s].alias /\ c.email = SenderOf(letter[s])
    BY <1>4, <1>6 DEF RouterInv, SessionInv, ForwardPlan, Queueing
  <2>2. r \in OutboxRows
    BY <1>3, <1>6, <2>1 DEF OutboxRows, Row, Recipients
  <2>3. r.alias # None /\ r.contact # None
    BY <1>1, <2>1, RouterAssumption
  <2> HIDE DEF r
  <2>4. RowInv(r)
    BY <1>1, <1>2, <1>4, <1>5, <1>6, <2>1, <2>3 DEF RowInv
  <2> QED
    BY <2>2, <2>4 DEF r
<1>7. CASE plan[s].direction = "reply"
  <2>1. /\ plan[s].contact \in Tokens /\ plan[s].contact = target[s]
        /\ plan[s].from \in Addresses /\ plan[s].to \in Senders
        /\ c.email = plan[s].to /\ a.address = plan[s].from
        /\ a.mailbox = letter[s].mailFrom /\ plan[s].alias = a.id
    BY <1>4, <1>5, <1>7 DEF RouterInv, SessionInv, ReplyPlan, Queueing
  <2>2. r \in OutboxRows
    BY <1>3, <1>7, <2>1 DEF OutboxRows, Row, Recipients, PlanRows
  <2>3. r.alias # None /\ r.contact # None
    BY <1>1, <2>1, RouterAssumption DEF RouterInv, TableTypes, AliasRows
  <2> HIDE DEF r
  <2>4. RowInv(r)
    BY <1>1, <1>2, <1>4, <1>5, <1>7, <2>1, <2>3 DEF RowInv
  <2> QED
    BY <2>2, <2>4 DEF r
<1> QED
  BY <1>6, <1>7 DEF RouterInv, SessionInv, Queueing

\* A row enters the outbox only with its keys.
LEMMA EnqueueRowMoves ==
  ASSUME NEW s \in Sessions, RouterInv, EnqueueRow(s)
  PROVE  /\ Moves(s) /\ Grows
         /\ \/ outbox' = outbox
            \/ /\ outbox' = outbox \union {Row(s)} /\ RowInv(Row(s))
               /\ UNCHANGED <<aliases, contacts, phase, letter, rcpts, live>>
<1>1. /\ UNCHANGED <<mailboxes, aliases, contacts, spent, toggle, live>>
      /\ Enabled' = Enabled /\ pc[s] = "enqueue" /\ pc[s] \in Queries
  BY DEF EnqueueRow, admin, Enabled, Queries
<1>2. CASE Refuse(s, "foreign key") /\ UNCHANGED outbox
  BY <1>1, <1>2, RefuseMoves, SameTables
<1>3. CASE /\ KeysHold(Row(s)) /\ outbox' = outbox \union {Row(s)}
           /\ Step(s, "count") /\ UNCHANGED plan
  <2>1. plan[s] \in PlanRows /\ plan' = [plan EXCEPT ![s] = plan[s]]
    BY <1>3 DEF RouterInv, SessionTypes
  <2>2. phase[s] = "handle" /\ "count" \in Queries
    BY <1>1 DEF RouterInv, SessionInv, Place, LookingUp, Queries
  <2>3. /\ SessionTypes' /\ Place(s)' /\ pc'[s] = "count" /\ plan'[s] = plan[s]
        /\ \A t \in Sessions \ {s} : Undisturbed(t)
    BY <1>1, <1>3, <2>1, <2>2, StepMoves
  <2>4. UNCHANGED <<letter, target, phase, rcpts>>
    BY <1>3 DEF Step
  <2>5. SessionInv(s)
    BY DEF RouterInv
  <2>6. ForwardPlan(s)'
    BY <1>1, <1>3, <2>3, <2>4, <2>5 DEF SessionInv, ForwardPlan, Forwarding, Queueing
  <2>7. ReplyPlan(s)'
    BY <1>1, <1>3, <2>3, <2>4, <2>5 DEF SessionInv, ReplyPlan, Queueing
  <2>8. Moves(s)
    BY <1>1, <2>3, <2>5, <2>6, <2>7 DEF Moves, SessionInv, Queueing
  <2>9. Row(s) \in OutboxRows /\ RowInv(Row(s))
    BY <1>1, <1>3, RowOfPlan
  <2>10. Ids' = Ids /\ Reverses' = Reverses
    BY <1>1 DEF Ids, Reverses
  <2>11. TableTypes'
    BY <1>1, <1>3, <2>9, <2>10 DEF RouterInv, TableTypes, KeysHold
  <2>12. Keys' /\ Evolves /\ Retained
    BY <1>1, <2>10 DEF RouterInv, Keys, Evolves, Retained
  <2> QED
    BY <1>1, <1>3, <2>4, <2>8, <2>9, <2>11, <2>12 DEF Grows
<1> QED
  BY <1>2, <1>3 DEF EnqueueRow

-----------------------------------------------------------------------------
(* Rows of the outbox.                                                     *)

\* From the end of DATA on, what the rows of a session were made from is fixed.
Firm(s) ==
    phase[s] = "handle" => /\ phase'[s] = "handle"
                           /\ rcpts'[s] = rcpts[s] /\ letter'[s] = letter[s]
                           /\ live[s] \subseteq live'[s]

\* A row stays as good as it was.
LEMMA RowKept ==
  ASSUME RouterInv, Retained, NEW r \in outbox, Firm(r.session)
  PROVE  RowInv(r)'
BY DEF RouterInv, RowInv, Retained, Firm

\* Only RCPT adds recipients, and there is no RCPT after DATA.
LEMMA SessionsAreFirm ==
  ASSUME RouterInv, NEW s \in Sessions,
         \/ \E recipient \in Recipients : Rcpt(s, recipient)
         \/ Data(s) \/ Route(s) \/ Forward(s) \/ ReplyAlias(s) \/ Queue(s) \/ QueryFails(s)
  PROVE  Firm(s)
<1> SUFFICES ASSUME phase[s] = "handle" PROVE Firm(s)
  BY DEF Firm
<1> USE DEF Firm, RouterInv
<1>1. pc[s] # "mail"
  BY DEF SessionInv, Place
<1>2. CASE (\E recipient \in Recipients : Rcpt(s, recipient)) \/ Data(s)
  BY <1>1, <1>2 DEF Rcpt, Data
<1>3. CASE Route(s)
  BY <1>3 DEF Route, FindReverse, FindAlias, CountBlocked, Step, Refuse, Routed
<1>4. CASE Forward(s)
  BY <1>4 DEF Forward, ForwardAlias, FindContact, InsertContact, ReadContact, WithContact,
              Step, Refuse
<1>5. CASE ReplyAlias(s)
  BY <1>5 DEF ReplyAlias, Step
<1>6. CASE Queue(s)
  BY <1>6 DEF Queue, EnqueueRow, Count, NextRecipient, Step, Refuse
<1>7. CASE QueryFails(s)
  BY <1>7 DEF QueryFails, Refuse
<1> QED
  BY <1>2, <1>3, <1>4, <1>5, <1>6, <1>7

\* A step of a session keeps the invariant.
LEMMA SessionKeeps ==
  ASSUME RouterInv, NEW s \in Sessions,
         \/ \E recipient \in Recipients : Rcpt(s, recipient)
         \/ Data(s) \/ Route(s) \/ Forward(s) \/ ReplyAlias(s) \/ Queue(s) \/ QueryFails(s)
  PROVE  RouterInv'
<1>1. /\ Moves(s) /\ Grows
      /\ \/ outbox' = outbox
         \/ /\ outbox' = outbox \union {Row(s)} /\ RowInv(Row(s))
            /\ UNCHANGED <<aliases, contacts, phase, letter, rcpts, live>>
  <2>1. CASE \/ (\E recipient \in Recipients : Rcpt(s, recipient)) \/ Data(s)
             \/ FindReverse(s) \/ FindAlias(s) \/ ForwardAlias(s) \/ FindContact(s)
             \/ ReadContact(s) \/ ReplyAlias(s) \/ QueryFails(s)
    <3>1. UNCHANGED <<mailboxes, aliases, contacts, outbox, spent, toggle>>
      BY <2>1 DEF Rcpt, Data, FindReverse, FindAlias, ForwardAlias, FindContact, ReadContact,
                  ReplyAlias, QueryFails, admin, tables
    <3>2. Moves(s)
      BY <2>1, CommandMoves, FindReverseMoves, FindAliasMoves, ForwardAliasMoves,
         ContactMoves, ReplyAliasMoves, QueryFailsMoves
    <3> QED
      BY <3>1, <3>2, SameTables
  <2>2. CASE CountBlocked(s)
    BY <2>2, CountBlockedMoves
  <2>3. CASE \E token \in Tokens : InsertContact(s, token)
    BY <2>3, InsertContactMoves
  <2>4. CASE Queue(s)
    BY <2>4, EnqueueRowMoves, CountMoves DEF Queue
  <2> QED
    BY <2>1, <2>2, <2>3, <2>4 DEF Route, Forward
<1>2. \A t \in Sessions : SessionInv(t)'
  BY <1>1, UndisturbedKeeps DEF Moves, Grows
<1>3. \A t \in Sessions : Firm(t)
  <2>1. Firm(s)
    BY SessionsAreFirm
  <2> QED
    BY <1>1, <2>1 DEF Moves, Undisturbed, Firm
<1>4. ASSUME NEW r \in outbox PROVE RowInv(r)'
  BY <1>1, <1>3, RowKept DEF Grows, RouterInv, TableTypes, OutboxRows
<1>5. ASSUME outbox' = outbox \union {Row(s)}, RowInv(Row(s)),
             UNCHANGED <<aliases, contacts, phase, letter, rcpts, live>>, NEW r \in outbox'
      PROVE  RowInv(r)'
  <2>1. RowInv(r)
    BY <1>5 DEF RouterInv
  <2> QED
    BY <1>5, <2>1 DEF RowInv
<1> QED
  BY <1>1, <1>2, <1>4, <1>5 DEF RouterInv, Moves, Grows

-----------------------------------------------------------------------------
(* The administrator, and the end of the process.                          *)

\* Sessions notice the administrator only through the tables and live.
LEMMA AdminLeavesSessions ==
  ASSUME RouterInv, UNCHANGED session, live' \in [Sessions -> SUBSET AliasIds],
         \A s \in Sessions : live[s] \subseteq live'[s],
         \A s \in Sessions : Enabled \subseteq live[s] => Enabled' \subseteq live'[s]
  PROVE  SessionTypes' /\ \A s \in Sessions : Undisturbed(s) /\ Firm(s)
<1>1. UNCHANGED <<pc, phase, letter, rcpts, target, position, plan, answer>>
  BY DEF session
<1>2. SessionTypes'
  BY <1>1 DEF RouterInv, SessionTypes
<1> QED
  BY <1>1, <1>2 DEF RouterInv, SessionInv, Place, Undisturbed, Firm

\* Steps of the administrator that delete nothing.
LEMMA GrowthKeeps ==
  ASSUME RouterInv, Grows, outbox' = outbox, SessionTypes',
         \A s \in Sessions : Undisturbed(s) /\ Firm(s)
  PROVE  RouterInv'
<1>1. \A s \in Sessions : SessionInv(s)'
  BY UndisturbedKeeps DEF Grows
<1>2. ASSUME NEW r \in outbox PROVE RowInv(r)'
  BY RowKept DEF Grows, RouterInv, TableTypes, OutboxRows
<1> QED
  BY <1>1, <1>2 DEF RouterInv, Grows

\* A new alias has a new id, an address nobody has, and an existing mailbox.
LEMMA CreateAliasKeeps ==
  ASSUME RouterInv, NEW id \in AliasIds, NEW address \in Addresses, NEW mailbox \in Inboxes,
         CreateAlias(id, address, mailbox)
  PROVE  RouterInv'
<1> DEFINE new == [id |-> id, address |-> address, mailbox |-> mailbox, enabled |-> TRUE,
                   forwarded |-> 0, replied |-> 0, blocked |-> 0]
<1>1. /\ new \in AliasRows /\ new.id = id /\ new.address = address /\ new.mailbox = mailbox
      /\ aliases' = aliases \union {new}
  BY DEF CreateAlias, AliasRows
<1> HIDE DEF new
<1>2. /\ id \notin spent /\ AliasAt(address) = {} /\ mailbox \in mailboxes
      /\ spent' = spent \union {id}
      /\ live' = [s \in Sessions |-> live[s] \union {id}]
      /\ UNCHANGED <<mailboxes, contacts, outbox, session, toggle>>
  BY DEF CreateAlias
<1>3. Ids' = Ids \union {id} /\ Reverses' = Reverses
  BY <1>1, <1>2 DEF Ids, Reverses
<1>4. TableTypes'
  <2>1. \A r \in outbox' : KeysHold(r)'
    BY <1>2, <1>3 DEF RouterInv, TableTypes, KeysHold
  <2> QED
    BY <1>1, <1>2, <1>3, <2>1 DEF RouterInv, TableTypes
<1>5. Keys'
  <2>1. \A a \in aliases : a.id # id /\ a.address # address
    BY <1>2 DEF RouterInv, Keys, Ids, AliasAt
  <2> QED
    BY <1>1, <1>2, <1>3, <2>1 DEF RouterInv, Keys
<1>6. Grows
  BY <1>1, <1>2, <1>4, <1>5 DEF Grows, Evolves, Retained
<1>7. Enabled' \subseteq Enabled \union {id}
  BY <1>1 DEF Enabled
<1>8. SessionTypes' /\ \A s \in Sessions : Undisturbed(s) /\ Firm(s)
  BY <1>2, <1>7, AdminLeavesSessions DEF RouterInv, SessionTypes
<1> QED
  BY <1>2, <1>6, <1>8, GrowthKeeps

\* Both halves of toggle_alias leave what identifies an alias.
LEMMA ToggleKeeps ==
  ASSUME RouterInv, WriteToggle \/ \E a \in aliases : ReadToggle(a)
  PROVE  RouterInv'
<1>1. CASE WriteToggle
  <2> DEFINE f == [a \in aliases |-> IF a.id = toggle.id
                                     THEN [a EXCEPT !.enabled = toggle.enabled] ELSE a]
  <2>1. toggle.id \in AliasIds /\ toggle.enabled \in BOOLEAN
    BY <1>1 DEF WriteToggle, RouterInv, TableTypes
  <2>2. \A a \in aliases : /\ f[a] \in AliasRows
                           /\ f[a].id = a.id /\ f[a].address = a.address
                           /\ f[a].mailbox = a.mailbox
                           /\ f[a].enabled => a.enabled \/ (a.id = toggle.id /\ toggle.enabled)
    BY <2>1 DEF RouterInv, TableTypes, AliasRows
  <2>3. aliases' = {f[a] : a \in aliases}
    BY <1>1 DEF WriteToggle
  <2> HIDE DEF f
  <2>4. /\ UNCHANGED <<mailboxes, contacts, outbox, spent, session>> /\ toggle' = None
        /\ live' = IF toggle.enabled THEN [s \in Sessions |-> live[s] \union {toggle.id}]
                                     ELSE live
    BY <1>1 DEF WriteToggle
  <2>5. Grows
    BY <2>2, <2>3, <2>4, SameIdentities
  <2>6. Enabled' \subseteq IF toggle.enabled THEN Enabled \union {toggle.id} ELSE Enabled
    BY <2>2, <2>3 DEF Enabled
  <2>7. SessionTypes' /\ \A s \in Sessions : Undisturbed(s) /\ Firm(s)
    BY <2>1, <2>4, <2>6, AdminLeavesSessions DEF RouterInv, SessionTypes
  <2> QED
    BY <2>4, <2>5, <2>7, GrowthKeeps
<1>2. ASSUME NEW a \in aliases, ReadToggle(a) PROVE RouterInv'
  <2> DEFINE same == [b \in aliases |-> b]
  <2>1. a.id \in AliasIds /\ (~a.enabled) \in BOOLEAN
    <3>1. a.id \in AliasIds
      BY DEF RouterInv, TableTypes, AliasRows
    <3> QED
      BY <3>1, Zenon
  <2>2. /\ UNCHANGED <<mailboxes, aliases, contacts, outbox, spent, session, live>>
        /\ toggle'.id = a.id /\ toggle'.enabled = ~a.enabled
    BY <1>2 DEF ReadToggle, tables
  <2>3. aliases' = {same[b] : b \in aliases}
    BY <2>2
  <2>4. Grows
    BY <2>1, <2>2, <2>3, SameIdentities DEF RouterInv, TableTypes
  <2>5. SessionTypes' /\ \A s \in Sessions : Undisturbed(s) /\ Firm(s)
    <3>1. Enabled' = Enabled
      BY <2>2 DEF Enabled
    <3> QED
      BY <2>2, <3>1, AdminLeavesSessions DEF RouterInv, SessionTypes
  <2> QED
    BY <2>2, <2>4, <2>5, GrowthKeeps
<1> QED
  BY <1>1, <1>2

\* A new mailbox.
LEMMA CreateMailboxKeeps ==
  ASSUME RouterInv, NEW mailbox \in Inboxes, CreateMailbox(mailbox)
  PROVE  RouterInv'
<1>1. /\ mailboxes' = mailboxes \union {mailbox}
      /\ UNCHANGED <<aliases, contacts, outbox, spent, toggle, session, live>>
  BY DEF CreateMailbox, tables
<1>2. Ids' = Ids /\ Reverses' = Reverses /\ Enabled' = Enabled
  BY <1>1 DEF Ids, Reverses, Enabled
<1>3. TableTypes'
  BY <1>1, <1>2 DEF RouterInv, TableTypes, KeysHold
<1>4. Grows
  BY <1>1, <1>2, <1>3 DEF RouterInv, Keys, Evolves, Retained, Grows
<1>5. SessionTypes' /\ \A s \in Sessions : Undisturbed(s) /\ Firm(s)
  BY <1>1, <1>2, AdminLeavesSessions DEF RouterInv, SessionTypes
<1> QED
  BY <1>1, <1>4, <1>5, GrowthKeeps

\* A cascade takes the contacts of an alias with it, and both keys of its rows in
\* the outbox; rows of other aliases are left as they are.
LEMMA CascadeOfRows ==
  ASSUME RouterInv, NEW gone, RemoveAliases(gone), NEW q \in outbox'
  PROVE  \E r \in outbox :
            /\ q.session = r.session /\ q.position = r.position
            /\ q.direction = r.direction /\ q \in OutboxRows
            /\ \/ r.alias \notin gone \union {None} /\ q = r
               \/ r.alias \in gone \union {None} /\ q.alias = None /\ q.contact = None
<1> DEFINE orphans == {c.reverse : c \in {d \in contacts : d.alias \in gone}}
<1>1. PICK r \in outbox : q = [r EXCEPT !.alias = IF @ \in gone THEN None ELSE @,
                                        !.contact = IF @ \in orphans THEN None ELSE @]
  BY DEF RemoveAliases
<1>2. r \in OutboxRows /\ RowInv(r) /\ KeysHold(r)
  BY DEF RouterInv, TableTypes
<1>3. r.alias # None => \E c \in contacts : c.reverse = r.contact /\ c.alias = r.alias
  BY <1>2 DEF RowInv, OutboxRows
<1>4. CASE r.alias = None
  <2>1. r.contact = None /\ q.alias = None /\ q.contact = None
    BY <1>1, <1>2, <1>4 DEF RowInv, OutboxRows
  <2> QED
    BY <1>1, <1>2, <1>4, <2>1 DEF OutboxRows
<1>5. CASE r.alias # None /\ r.alias \in gone
  <2>1. r.contact \in orphans
    BY <1>3, <1>5
  <2>2. q.alias = None /\ q.contact = None /\ q \in OutboxRows
    BY <1>1, <1>2, <1>5, <2>1 DEF OutboxRows
  <2> QED
    BY <1>1, <1>2, <1>5, <2>2 DEF OutboxRows
<1>6. CASE r.alias # None /\ r.alias \notin gone
  <2>1. r.contact \notin orphans
    BY <1>3, <1>6 DEF RouterInv, Keys
  <2>2. q = r
    BY <1>1, <1>2, <1>6, <2>1 DEF OutboxRows
  <2> QED
    BY <1>2, <1>6, <2>2
<1> QED
  BY <1>4, <1>5, <1>6

\* Deletions keep the invariant.
LEMMA CascadeKeeps ==
  ASSUME RouterInv, NEW gone, RemoveAliases(gone),
         UNCHANGED <<spent, toggle, session, live>>, mailboxes' \subseteq mailboxes,
         \A a \in aliases : a.id \notin gone => a.mailbox \in mailboxes'
  PROVE  RouterInv'
<1>1. /\ aliases' = {a \in aliases : a.id \notin gone}
      /\ contacts' = {c \in contacts : c.alias \notin gone}
  BY DEF RemoveAliases
<1>2. /\ \A c \in contacts' : c.alias \in Ids'
      /\ Ids' \subseteq Ids /\ Reverses' \subseteq Reverses /\ Enabled' \subseteq Enabled
  BY <1>1 DEF RouterInv, TableTypes, Ids, Reverses, Enabled
<1>3. SessionTypes' /\ \A s \in Sessions : Undisturbed(s) /\ Firm(s)
  BY <1>2, AdminLeavesSessions DEF RouterInv, SessionTypes
<1>4. Keys' /\ Evolves
  BY <1>1, <1>2 DEF RouterInv, Keys, Evolves
<1>5. ASSUME NEW q \in outbox' PROVE q \in OutboxRows /\ KeysHold(q)' /\ RowInv(q)'
  <2>1. PICK r \in outbox :
            /\ q.session = r.session /\ q.position = r.position
            /\ q.direction = r.direction /\ q \in OutboxRows
            /\ \/ r.alias \notin gone \union {None} /\ q = r
               \/ r.alias \in gone \union {None} /\ q.alias = None /\ q.contact = None
    BY CascadeOfRows
  <2>2. RowInv(r) /\ r.session \in Sessions /\ r.direction \in {"forward", "reply"}
    BY DEF RouterInv, TableTypes, OutboxRows
  <2>3. UNCHANGED <<phase, letter, rcpts, live>>
    BY DEF session
  <2>4. CASE q.alias = None /\ q.contact = None
    BY <2>1, <2>2, <2>3, <2>4 DEF RowInv, KeysHold
  <2>5. CASE r.alias \notin gone \union {None} /\ q = r
    <3>1. /\ \A a \in aliases : a.id = r.alias => a \in aliases'
          /\ \A c \in contacts : c.alias = r.alias => c \in contacts'
      BY <1>1, <2>5
    <3>2. RowInv(r)'
      BY <2>2, <2>3, <2>5, <3>1 DEF RowInv
    <3>3. KeysHold(r)'
      BY <2>2, <2>5, <3>2 DEF RowInv, KeysHold, Ids, Reverses
    <3> QED
      BY <2>1, <2>5, <3>2, <3>3
  <2> QED
    BY <2>1, <2>4, <2>5
<1>6. TableTypes'
  BY <1>1, <1>2, <1>5 DEF RouterInv, TableTypes
<1>7. \A s \in Sessions : SessionInv(s)'
  BY <1>3, <1>4, UndisturbedKeeps
<1> QED
  BY <1>3, <1>4, <1>5, <1>6, <1>7 DEF RouterInv

\* The deletions of the administrator are cascades.
LEMMA DeletionKeeps ==
  ASSUME RouterInv,
         \/ \E id \in AliasIds : DeleteAlias(id)
         \/ \E mailbox \in Inboxes : DeleteMailbox(mailbox)
  PROVE  RouterInv'
<1>1. ASSUME NEW id \in AliasIds, DeleteAlias(id) PROVE RouterInv'
  <2>1. RemoveAliases({id}) /\ UNCHANGED <<mailboxes, spent, toggle, session, live>>
    BY <1>1 DEF DeleteAlias, admin
  <2> QED
    BY <2>1, CascadeKeeps DEF RouterInv, TableTypes
<1>2. ASSUME NEW mailbox \in Inboxes, DeleteMailbox(mailbox) PROVE RouterInv'
  <2> DEFINE gone == {a.id : a \in {b \in aliases : b.mailbox = mailbox}}
  <2>1. /\ RemoveAliases(gone) /\ mailboxes' = mailboxes \ {mailbox}
        /\ UNCHANGED <<spent, toggle, session, live>>
    BY <1>2 DEF DeleteMailbox
  <2>2. \A a \in aliases : a.id \notin gone => a.mailbox \in mailboxes'
    BY <2>1 DEF RouterInv, TableTypes
  <2> HIDE DEF gone
  <2> QED
    BY <2>1, <2>2, CascadeKeeps
<1> QED
  BY <1>1, <1>2

\* The death of the process loses the sessions and keeps the tables.
LEMMA CrashKeeps == ASSUME RouterInv, Crash PROVE RouterInv'
<1>1. UNCHANGED <<mailboxes, aliases, contacts, outbox, spent, phase, letter, rcpts,
                  position, answer, live>> /\ toggle' = None
  BY DEF Crash, tables
<1>2. Ids' = Ids /\ Reverses' = Reverses /\ Enabled' = Enabled
  BY <1>1 DEF Ids, Reverses, Enabled
<1>3. TableTypes'
  BY <1>1, <1>2 DEF RouterInv, TableTypes, KeysHold
<1>4. Keys' /\ Retained
  BY <1>1, <1>2 DEF RouterInv, Keys, Retained
<1>5. SessionTypes'
  BY <1>1, NoPlanType DEF RouterInv, SessionTypes, Crash
<1>6. ASSUME NEW s \in Sessions PROVE SessionInv(s)'
  <2>1. pc'[s] \in {"mail", "closed"} /\ (pc'[s] = "mail" => pc[s] = "mail")
    BY DEF Crash
  <2>2. Place(s)'
    BY <1>1, <1>2, <2>1 DEF RouterInv, SessionInv, Place, Queries
  <2> QED
    BY <2>1, <2>2 DEF SessionInv, ForwardPlan, ReplyPlan, Forwarding, Queueing
<1>7. ASSUME NEW r \in outbox PROVE RowInv(r)'
  BY <1>1, <1>4, RowKept DEF Firm, RouterInv, TableTypes, OutboxRows
<1> QED
  BY <1>1, <1>3, <1>4, <1>5, <1>6, <1>7 DEF RouterInv

-----------------------------------------------------------------------------
(* The theorems.                                                           *)

\* The router starts with empty tables and sessions.
LEMMA InitRouterInv == Init => RouterInv
<1> SUFFICES ASSUME Init PROVE RouterInv
  OBVIOUS
<1> USE DEF Init
<1>1. Ids = {} /\ Reverses = {} /\ Enabled = {}
  BY DEF Ids, Reverses, Enabled
<1>2. TableTypes /\ Keys
  BY <1>1 DEF TableTypes, Keys
<1>3. SessionTypes
  <2>1. rcpts \in [Sessions -> Seq(Recipients)]
    OBVIOUS
  <2>2. plan \in [Sessions -> PlanRows]
    BY NoPlanType
  <2> QED
    BY <2>1, <2>2 DEF SessionTypes
<1>4. \A s \in Sessions : SessionInv(s)
  BY DEF SessionInv, Place, ForwardPlan, ReplyPlan, Queries, Forwarding, Queueing
<1> QED
  BY <1>2, <1>3, <1>4 DEF RouterInv

\* Every step keeps the invariant.
LEMMA NextRouterInv == RouterInv /\ [Next]_vars => RouterInv'
<1> SUFFICES ASSUME RouterInv, [Next]_vars PROVE RouterInv'
  OBVIOUS
<1>1. CASE UNCHANGED vars
  <2>1. UNCHANGED <<mailboxes, aliases, contacts, outbox, spent, toggle, session, live>>
    BY <1>1 DEF vars, admin, tables
  <2>2. SessionTypes' /\ \A s \in Sessions : Undisturbed(s) /\ Firm(s)
    <3>1. Enabled' = Enabled
      BY <2>1 DEF Enabled
    <3> QED
      BY <2>1, <3>1, AdminLeavesSessions DEF RouterInv, SessionTypes
  <2> QED
    BY <2>1, <2>2, SameTables, GrowthKeeps
<1>2. CASE Admin
  BY <1>2, CreateAliasKeeps, DeletionKeeps, CreateMailboxKeeps, ToggleKeeps DEF Admin
<1>3. ASSUME NEW s \in Sessions,
             \/ \E recipient \in Addresses \union Tokens : Rcpt(s, recipient)
             \/ Data(s) \/ Route(s) \/ Forward(s) \/ ReplyAlias(s) \/ Queue(s) \/ QueryFails(s)
      PROVE  RouterInv'
  BY <1>3, SessionKeeps DEF Recipients
<1>4. CASE Crash
  BY <1>4, CrashKeeps
<1> QED
  BY <1>1, <1>2, <1>3, <1>4 DEF Next

\* The invariant holds in every reachable state.
LEMMA RouterInvAlways == Spec => []RouterInv
  BY InitRouterInv, NextRouterInv, PTL DEF Spec

\* Variables have their types, and every alias its mailbox, every contact its
\* alias, every row of the outbox its keys, after any cascade.
THEOREM RouterTyped == Spec => []TypeOK
<1>1. RouterInv => TypeOK
  <2> SUFFICES ASSUME RouterInv PROVE TypeOK
    OBVIOUS
  <2>1. \A s \in Sessions : position[s] \in 0..Len(rcpts[s])
    <3> SUFFICES ASSUME NEW s \in Sessions PROVE position[s] \in 0..Len(rcpts[s])
      OBVIOUS
    <3>1. Len(rcpts[s]) \in Nat /\ phase[s] \in {"verify", "handle"}
      BY DEF RouterInv, SessionTypes
    <3> QED
      BY <3>1 DEF RouterInv, SessionInv, Place
  <2> QED
    BY <2>1 DEF RouterInv, TableTypes, SessionTypes, TypeOK, Recipients
<1> QED
  BY <1>1, RouterInvAlways, PTL

\* A forwarded message is addressed to the mailbox of the alias its recipient
\* named, from a reverse alias that leads back to whoever wrote it.
THEOREM ForwardsGoHome == Spec => []ForwardGoesHome
<1>1. RouterInv => ForwardGoesHome
  BY DEF RouterInv, RowInv, ForwardGoesHome
<1> QED
  BY <1>1, RouterInvAlways, PTL

\* A reply leaves in the name of an alias only if its mailbox wrote it, for the
\* contact that the reverse alias stands for.
THEOREM OnlyOwnersReply == Spec => []RepliesComeFromOwner
<1>1. RouterInv => RepliesComeFromOwner
  BY DEF RouterInv, RowInv, RepliesComeFromOwner
<1> QED
  BY <1>1, RouterInvAlways, PTL

\* One correspondent of one alias has one reverse alias, whoever made it.
THEOREM ReversesAreStable == Spec => []StableReverse
<1>1. RouterInv => StableReverse
  <2> SUFFICES ASSUME RouterInv, NEW q \in outbox, NEW r \in outbox,
                      q.direction = "forward", r.direction = "forward",
                      q.alias = r.alias, q.alias # None,
                      SenderOf(letter[q.session]) = SenderOf(letter[r.session])
               PROVE  q.from = r.from
    BY DEF StableReverse
  <2>1. PICK c \in contacts : /\ c.alias = q.alias /\ c.reverse = q.from
                              /\ c.email = SenderOf(letter[q.session])
    BY DEF RouterInv, RowInv
  <2>2. PICK d \in contacts : /\ d.alias = r.alias /\ d.reverse = r.from
                              /\ d.email = SenderOf(letter[r.session])
    BY DEF RouterInv, RowInv
  <2> QED
    BY <2>1, <2>2 DEF RouterInv, Keys
<1> QED
  BY <1>1, RouterInvAlways, PTL

\* Nothing is forwarded for an alias that was disabled from the end of DATA to the
\* insertion.
THEOREM DisabledIsHeeded == Spec => []DisabledStops
<1>1. RouterInv => DisabledStops
  BY DEF RouterInv, RowInv, DisabledStops
<1> QED
  BY <1>1, RouterInvAlways, PTL

-----------------------------------------------------------------------------
(* The loop of handle: which recipients have a row.                        *)

Ok == [code |-> "250", why |-> "message"]
Places(s) == {r.position : r \in RowsOf(s)}

Progress(s) ==
    /\ phase[s] = "verify" => RowsOf(s) = {} /\ answer[s] # Ok
    /\ phase[s] = "handle" /\ pc[s] \in Queries \ {"count"} => Places(s) = 1..(position[s] - 1)
    /\ phase[s] = "handle" /\ pc[s] = "count" => Places(s) = 1..position[s]
    /\ phase[s] = "handle" /\ pc[s] = "closed" =>
          Places(s) = 1..(position[s] - 1) \/ Places(s) = 1..position[s]
    /\ phase[s] = "handle" /\ answer[s] = Ok =>
          pc[s] = "closed" /\ position[s] = Len(rcpts[s]) /\ Places(s) = 1..position[s]
    /\ \A q, r \in RowsOf(s) : q.position = r.position => q = r

\* The ways a session moves on without a new row.
Turns(s) ==
    \/ phase[s] = "verify" /\ phase'[s] = "verify" /\ answer'[s] # Ok
    \/ /\ phase[s] = "verify" /\ phase'[s] = "handle"
       /\ pc'[s] = "find reverse" /\ position'[s] = 1 /\ answer'[s] = answer[s]
    \/ /\ phase[s] = "handle" /\ phase'[s] = "handle" /\ rcpts'[s] = rcpts[s]
       /\ \/ /\ pc[s] \in Queries \ {"count"} /\ pc'[s] \in Queries \ {"count"}
             /\ position'[s] = position[s] /\ answer'[s] = answer[s]
          \/ /\ pc[s] \in Queries /\ pc'[s] = "closed"
             /\ position'[s] = position[s] /\ answer'[s] # Ok
          \/ /\ pc[s] = "count" /\ pc'[s] = "find reverse"
             /\ position'[s] = position[s] + 1 /\ answer'[s] = answer[s]
          \/ /\ pc[s] = "count" /\ pc'[s] = "closed" /\ position[s] = Len(rcpts[s])
             /\ position'[s] = position[s]
          \/ /\ pc'[s] = pc[s] /\ position'[s] = position[s] /\ answer'[s] = answer[s]

\* Moving on keeps what is known of the rows.
LEMMA TurnsProgress ==
  ASSUME NEW s \in Sessions, RouterInv, Progress(s), Turns(s), outbox' = outbox
  PROVE  Progress(s)'
<1>1. RowsOf(s)' = RowsOf(s) /\ Places(s)' = Places(s)
  BY DEF RowsOf, Places
<1>2. position[s] \in Nat /\ "closed" \notin Queries /\ "find reverse" \in Queries \ {"count"}
      /\ pc[s] \in Queries \union {"mail", "closed"}
  BY DEF RouterInv, SessionTypes, Queries
<1>3. CASE phase[s] = "verify" /\ phase'[s] = "verify" /\ answer'[s] # Ok
  BY <1>1, <1>3 DEF Progress
<1>4. CASE /\ phase[s] = "verify" /\ phase'[s] = "handle"
           /\ pc'[s] = "find reverse" /\ position'[s] = 1 /\ answer'[s] = answer[s]
  <2>1. Places(s) = {}
    BY <1>4 DEF Progress, Places
  <2>2. 1..(1 - 1) = {}
    OBVIOUS
  <2> QED
    BY <1>1, <1>2, <1>4, <2>1, <2>2 DEF Progress
<1>5. CASE /\ phase[s] = "handle" /\ phase'[s] = "handle" /\ rcpts'[s] = rcpts[s]
           /\ \/ /\ pc[s] \in Queries \ {"count"} /\ pc'[s] \in Queries \ {"count"}
                 /\ position'[s] = position[s] /\ answer'[s] = answer[s]
              \/ /\ pc'[s] = pc[s] /\ position'[s] = position[s] /\ answer'[s] = answer[s]
  BY <1>1, <1>2, <1>5 DEF Progress
<1>6. CASE /\ phase[s] = "handle" /\ phase'[s] = "handle" /\ rcpts'[s] = rcpts[s]
           /\ pc[s] \in Queries /\ pc'[s] = "closed"
           /\ position'[s] = position[s] /\ answer'[s] # Ok
  BY <1>1, <1>2, <1>6 DEF Progress
<1>7. CASE /\ phase[s] = "handle" /\ phase'[s] = "handle" /\ rcpts'[s] = rcpts[s]
           /\ pc[s] = "count" /\ pc'[s] = "find reverse"
           /\ position'[s] = position[s] + 1 /\ answer'[s] = answer[s]
  <2>1. position'[s] - 1 = position[s]
    <3>1. \A n \in Nat : (n + 1) - 1 = n
      OBVIOUS
    <3> QED
      BY <1>2, <1>7, <3>1
  <2> QED
    BY <1>1, <1>2, <1>7, <2>1 DEF Progress
<1>8. CASE /\ phase[s] = "handle" /\ phase'[s] = "handle" /\ rcpts'[s] = rcpts[s]
           /\ pc[s] = "count" /\ pc'[s] = "closed" /\ position[s] = Len(rcpts[s])
           /\ position'[s] = position[s]
  BY <1>1, <1>2, <1>8 DEF Progress
<1> QED
  BY <1>3, <1>4, <1>5, <1>6, <1>7, <1>8 DEF Turns

\* A session that is not disturbed moves on.
LEMMA OthersTurn ==
  ASSUME NEW s \in Sessions, RouterInv, Progress(s), Undisturbed(s)
  PROVE  Turns(s)
BY DEF Progress, Undisturbed, Turns, RouterInv, SessionTypes

\* A refusal is never the 250 of a message.
LEMMA RefuseTurns ==
  ASSUME NEW s \in Sessions, RouterInv, NEW why, pc[s] \in Queries, Refuse(s, why)
  PROVE  Turns(s)
<1>1. \/ answer'[s] = [code |-> "550", why |-> why]
      \/ answer'[s] = [code |-> "451", why |-> why]
  BY DEF Refuse, RouterInv, SessionTypes
<1>2. answer'[s] # Ok
  BY <1>1 DEF Ok
<1>3. /\ phase'[s] = phase[s] /\ rcpts'[s] = rcpts[s] /\ position'[s] = position[s]
      /\ phase[s] \in {"verify", "handle"}
      /\ phase[s] = "handle" => pc'[s] = "closed"
  BY DEF Refuse, RouterInv, SessionTypes
<1> QED
  BY <1>2, <1>3 DEF Turns

\* Neither is the 250 of a recipient; a route in handle is not yet an answer.
LEMMA RoutedTurns ==
  ASSUME NEW s \in Sessions, RouterInv, Progress(s), NEW route, NEW next \in Queries,
         next # "count", pc[s] \in Queries \ {"count"}, Routed(s, route, next)
  PROVE  Turns(s)
<1>1. /\ phase'[s] = phase[s] /\ position'[s] = position[s]
      /\ phase[s] \in {"verify", "handle"}
  BY DEF Routed, RouterInv, SessionTypes
<1>2. CASE phase[s] = "verify"
  <2>1. answer'[s] = [code |-> "250", why |-> "recipient"]
    BY <1>2 DEF Routed, RouterInv, SessionTypes
  <2>2. answer'[s] # Ok
    BY <2>1 DEF Ok
  <2> QED
    BY <1>1, <1>2, <2>2 DEF Turns
<1>3. CASE phase[s] = "handle"
  <2>1. pc'[s] = next /\ rcpts'[s] = rcpts[s] /\ answer'[s] = answer[s]
    BY <1>3 DEF Routed, RouterInv, SessionTypes
  <2> QED
    BY <1>1, <1>3, <2>1 DEF Turns
<1> QED
  BY <1>1, <1>2, <1>3

\* A query in the middle of a recipient leaves the loop where it is.
LEMMA StepTurns ==
  ASSUME NEW s \in Sessions, RouterInv, Progress(s), NEW next \in Queries,
         next # "count", pc[s] \in Queries \ {"count"}, Step(s, next)
  PROVE  Turns(s)
<1>1. /\ pc'[s] = next /\ phase'[s] = phase[s] /\ position'[s] = position[s]
      /\ rcpts'[s] = rcpts[s] /\ answer'[s] = answer[s]
      /\ phase[s] \in {"verify", "handle"}
  BY DEF Step, RouterInv, SessionTypes
<1> QED
  BY <1>1 DEF Turns, Progress

\* Every step of a session that adds no row moves on.
LEMMA SessionTurns ==
  ASSUME NEW s \in Sessions, RouterInv, Progress(s),
         \/ \E recipient \in Recipients : Rcpt(s, recipient)
         \/ Data(s) \/ Route(s) \/ Forward(s) \/ ReplyAlias(s) \/ Count(s) \/ QueryFails(s)
  PROVE  Turns(s)
<1>1. ASSUME pc[s] = "mail", (\E recipient \in Recipients : Rcpt(s, recipient)) \/ Data(s)
      PROVE  Turns(s)
  <2>1. phase[s] = "verify"
    BY <1>1 DEF RouterInv, SessionInv, Place
  <2>2. answer' = answer
    BY <1>1 DEF Rcpt, Data
  <2>3. CASE \E recipient \in Recipients : Rcpt(s, recipient)
    <3>1. phase'[s] = "verify"
      BY <2>3 DEF Rcpt, RouterInv, SessionTypes
    <3> QED
      BY <2>1, <2>2, <3>1 DEF Turns, Progress
  <2>4. CASE Data(s)
    <3>1. phase'[s] = "handle" /\ pc'[s] = "find reverse" /\ position'[s] = 1
      BY <2>4 DEF Data, RouterInv, SessionTypes
    <3> QED
      BY <2>1, <2>2, <3>1 DEF Turns
  <2> QED
    BY <1>1, <2>3, <2>4
<1>2. CASE FindReverse(s) \/ FindAlias(s)
  <2>1. pc[s] \in Queries \ {"count"}
    BY <1>2 DEF FindReverse, FindAlias, Queries
  <2>2. "find alias" \in Queries /\ "count blocked" \in Queries /\ "reply" \in Queries
        /\ "forward" \in Queries
    BY DEF Queries
  <2> QED
    BY <1>2, <2>1, <2>2, RefuseTurns, RoutedTurns, StepTurns DEF FindReverse, FindAlias
<1>3. CASE CountBlocked(s) \/ QueryFails(s)
  <2>1. pc[s] \in Queries
    BY <1>3 DEF CountBlocked, QueryFails, Queries
  <2> QED
    BY <1>3, <2>1, RefuseTurns DEF CountBlocked, QueryFails
<1>4. CASE Forward(s) \/ ReplyAlias(s)
  <2>1. pc[s] \in Queries \ {"count"}
    BY <1>4 DEF Forward, ForwardAlias, FindContact, InsertContact, ReadContact, ReplyAlias, Queries
  <2>2. /\ "find contact" \in Queries /\ "insert contact" \in Queries
        /\ "read contact" \in Queries /\ "enqueue" \in Queries
    BY DEF Queries
  <2> QED
    BY <1>4, <2>1, <2>2, RefuseTurns, StepTurns
    DEF Forward, ForwardAlias, FindContact, InsertContact, ReadContact, ReplyAlias, WithContact
<1>5. CASE Count(s)
  <2>1. /\ pc[s] = "count" /\ phase[s] = "handle"
        /\ position[s] \in 1..Len(rcpts[s]) /\ rcpts[s] \in Seq(Recipients)
    BY <1>5 DEF Count, RouterInv, SessionTypes, SessionInv, Place, Queries, LookingUp
  <2>2. /\ phase'[s] = phase[s] /\ rcpts'[s] = rcpts[s]
        /\ \/ /\ pc'[s] = "find reverse" /\ position'[s] = position[s] + 1
              /\ answer'[s] = answer[s]
           \/ /\ pc'[s] = "closed" /\ position'[s] = position[s]
              /\ ~(position[s] < Len(rcpts[s]))
    BY <1>5 DEF Count, NextRecipient, RouterInv, SessionTypes
  <2>3. position[s] < Len(rcpts[s]) \/ position[s] = Len(rcpts[s])
    BY <2>1
  <2> QED
    BY <2>1, <2>2, <2>3 DEF Turns
<1> QED
  BY <1>1, <1>2, <1>3, <1>4, <1>5 DEF Rcpt, Data, Route

\* A new row is for the recipient that the loop is at, which had none.
LEMMA EnqueueProgress ==
  ASSUME NEW s \in Sessions, RouterInv, Progress(s), EnqueueRow(s)
  PROVE  Progress(s)'
<1>1. /\ pc[s] = "enqueue" /\ phase[s] = "handle" /\ position[s] \in Nat /\ position[s] >= 1
      /\ pc[s] \in Queries \ {"count"} /\ pc[s] \in Queries
  <2>1. pc[s] = "enqueue" /\ pc[s] \in Queries /\ pc[s] \notin LookingUp
    BY DEF EnqueueRow, Queries, LookingUp
  <2>2. phase[s] = "handle" /\ position[s] \in 1..Len(rcpts[s]) /\ position[s] \in Nat
    BY <2>1 DEF RouterInv, SessionTypes, SessionInv, Place
  <2> QED
    BY <2>1, <2>2
<1>2. CASE Refuse(s, "foreign key") /\ UNCHANGED outbox
  BY <1>1, <1>2, RefuseTurns, TurnsProgress
<1>3. CASE outbox' = outbox \union {Row(s)} /\ Step(s, "count") /\ UNCHANGED plan
  <2>1. /\ pc'[s] = "count" /\ phase'[s] = "handle" /\ position'[s] = position[s]
        /\ answer'[s] = answer[s]
    BY <1>1, <1>3 DEF Step, RouterInv, SessionTypes
  <2>2. Row(s).session = s /\ Row(s).position = position[s]
    BY DEF Row
  <2>3. RowsOf(s)' = RowsOf(s) \union {Row(s)}
    BY <1>3, <2>2 DEF RowsOf
  <2>4. Places(s) = 1..(position[s] - 1)
    BY <1>1 DEF Progress
  <2>5. Places(s)' = Places(s) \union {position[s]}
    BY <2>2, <2>3 DEF Places
  <2>6. Places(s)' = 1..position[s]
    BY <1>1, <2>4, <2>5
  <2>7. position[s] \notin Places(s)
    BY <1>1, <2>4
  <2>8. \A q, r \in RowsOf(s)' : q.position = r.position => q = r
    BY <2>2, <2>3, <2>7 DEF Places, Progress
  <2>9. answer[s] # Ok
    BY <1>1 DEF Progress
  <2> QED
    BY <2>1, <2>6, <2>8, <2>9 DEF Progress
<1> QED
  BY <1>2, <1>3 DEF EnqueueRow

\* A cascade changes keys of rows and no place.
LEMMA CascadeProgress ==
  ASSUME NEW s \in Sessions, RouterInv, Progress(s), NEW gone, RemoveAliases(gone),
         UNCHANGED session
  PROVE  Progress(s)'
<1> DEFINE orphans == {c.reverse : c \in {d \in contacts : d.alias \in gone}}
           F(r) == [r EXCEPT !.alias = IF @ \in gone THEN None ELSE @,
                             !.contact = IF @ \in orphans THEN None ELSE @]
<1>1. outbox' = {F(r) : r \in outbox}
  BY DEF RemoveAliases
<1>2. \A r \in outbox : F(r).session = r.session /\ F(r).position = r.position
  BY DEF RouterInv, TableTypes, OutboxRows
<1> HIDE DEF F
<1>3. RowsOf(s)' = {F(r) : r \in RowsOf(s)}
  BY <1>1, <1>2 DEF RowsOf
<1>4. \A r \in RowsOf(s) : F(r).position = r.position
  BY <1>2 DEF RowsOf
<1>5. Places(s)' = Places(s)
  BY <1>3, <1>4 DEF Places
<1>6. \A q, r \in RowsOf(s)' : q.position = r.position => q = r
  BY <1>3, <1>4 DEF Progress
<1>7. RowsOf(s) = {} => RowsOf(s)' = {}
  BY <1>3
<1> QED
  BY <1>5, <1>6, <1>7 DEF Progress, session

\* Every step keeps the progress of every session.
LEMMA NextProgress ==
  ASSUME NEW s \in Sessions, RouterInv, Progress(s), [Next]_vars
  PROVE  Progress(s)'
<1>1. ASSUME UNCHANGED session, outbox' = outbox PROVE Progress(s)'
  BY <1>1 DEF session, Progress, RowsOf, Places
<1>2. CASE UNCHANGED vars
  BY <1>1, <1>2 DEF vars, tables
<1>3. CASE Admin
  <2>1. ASSUME NEW id \in AliasIds, DeleteAlias(id) PROVE Progress(s)'
    BY <2>1, CascadeProgress DEF DeleteAlias
  <2>2. ASSUME NEW mailbox \in Inboxes, DeleteMailbox(mailbox) PROVE Progress(s)'
    BY <2>2, CascadeProgress DEF DeleteMailbox
  <2>3. CASE \/ \E id \in AliasIds, address \in Addresses, mailbox \in Inboxes :
                    CreateAlias(id, address, mailbox)
             \/ \E mailbox \in Inboxes : CreateMailbox(mailbox)
             \/ (\E a \in aliases : ReadToggle(a)) \/ WriteToggle
    BY <1>1, <2>3 DEF CreateAlias, CreateMailbox, ReadToggle, WriteToggle, tables
  <2> QED
    BY <1>3, <2>1, <2>2, <2>3 DEF Admin
<1>4. CASE Crash
  <2>1. /\ UNCHANGED <<outbox, phase, rcpts, position, answer>>
        /\ pc'[s] \in {"mail", "closed"} /\ (pc'[s] = "mail" => pc[s] = "mail")
        /\ (pc[s] = "closed" => pc'[s] = "closed")
    BY <1>4 DEF Crash, tables
  <2>2. phase[s] = "handle" => pc[s] # "mail" /\ pc'[s] = "closed"
    BY <2>1 DEF RouterInv, SessionInv, Place
  <2>3. pc[s] \in Queries \union {"mail", "closed"} /\ phase[s] \in {"verify", "handle"}
    BY DEF RouterInv, SessionTypes
  <2>4. Turns(s)
    <3>1. CASE phase[s] = "verify"
      BY <2>1, <3>1 DEF Turns, Progress
    <3>2. CASE phase[s] = "handle" /\ pc[s] = "closed"
      BY <2>1, <3>2 DEF Turns
    <3>3. CASE phase[s] = "handle" /\ pc[s] \in Queries
      <4>1. answer[s] # Ok
        BY <3>3 DEF Progress, Queries
      <4> QED
        BY <2>1, <2>2, <3>3, <4>1 DEF Turns
    <3> QED
      BY <2>2, <2>3, <3>1, <3>2, <3>3
  <2> QED
    BY <2>1, <2>4, TurnsProgress
<1>5. ASSUME NEW t \in Sessions,
             \/ \E recipient \in Recipients : Rcpt(t, recipient)
             \/ Data(t) \/ Route(t) \/ Forward(t) \/ ReplyAlias(t) \/ Count(t) \/ QueryFails(t)
      PROVE  Progress(s)'
  <2>1. outbox' = outbox
    BY <1>5 DEF Rcpt, Data, Route, FindReverse, FindAlias, CountBlocked, Forward, ForwardAlias,
                FindContact, InsertContact, ReadContact, ReplyAlias, Count, QueryFails, tables
  <2>2. CASE t = s
    BY <1>5, <2>1, <2>2, SessionTurns, TurnsProgress
  <2>3. CASE t # s
    <3>1. Undisturbed(s)
      BY <1>5, <2>3, CommandMoves, FindReverseMoves, FindAliasMoves, CountBlockedMoves,
         ForwardAliasMoves, ContactMoves, InsertContactMoves, ReplyAliasMoves, CountMoves,
         QueryFailsMoves DEF Moves, Route, Forward
    <3> QED
      BY <2>1, <3>1, OthersTurn, TurnsProgress
  <2> QED
    BY <2>2, <2>3
<1>6. ASSUME NEW t \in Sessions, EnqueueRow(t) PROVE Progress(s)'
  <2>1. CASE t = s
    BY <1>6, <2>1, EnqueueProgress
  <2>2. CASE t # s
    <3>1. Undisturbed(s)
      BY <1>6, <2>2, EnqueueRowMoves DEF Moves
    <3>2. outbox' = outbox \/ outbox' = outbox \union {Row(t)}
      BY <1>6 DEF EnqueueRow
    <3>3. Row(t).session = t
      BY DEF Row
    <3>4. RowsOf(s)' = RowsOf(s) /\ Places(s)' = Places(s)
      <4>1. RowsOf(s)' = RowsOf(s)
        BY <2>2, <3>2, <3>3 DEF RowsOf
      <4> QED
        BY <4>1 DEF Places
    <3> QED
      BY <3>1, <3>4 DEF Progress, Undisturbed
  <2> QED
    BY <2>1, <2>2
<1> QED
  BY <1>2, <1>3, <1>4, <1>5, <1>6 DEF Next, Queue, Recipients

\* 250 after DATA means one row for each recipient; any other end leaves rows for
\* a prefix of the recipients.
THEOREM AcknowledgedIsComplete == Spec => []AckMeansAllQueued
<1> DEFINE AllProgress == \A s \in Sessions : Progress(s)
<1>1. Init => AllProgress
  BY DEF Init, Progress, RowsOf, Ok
<1>2. RouterInv /\ AllProgress /\ [Next]_vars => AllProgress'
  <2> SUFFICES ASSUME RouterInv, AllProgress, [Next]_vars, NEW s \in Sessions
               PROVE  Progress(s)'
    OBVIOUS
  <2> QED
    BY NextProgress
<1>3. RouterInv /\ AllProgress => AckMeansAllQueued
  <2> SUFFICES ASSUME RouterInv, NEW s \in Sessions, Progress(s)
               PROVE  LET done == IF answer[s] = Ok THEN {Len(rcpts[s])}
                                  ELSE {n \in 0..position[s] : n + 1 >= position[s]}
                      IN  /\ Places(s) \in {1..n : n \in done}
                          /\ \A q, r \in RowsOf(s) : q.position = r.position => q = r
    BY DEF AckMeansAllQueued, Ok, Places
  <2>1. position[s] \in Nat /\ phase[s] \in {"verify", "handle"}
        /\ pc[s] \in Queries \union {"mail", "closed"}
    BY DEF RouterInv, SessionTypes
  <2>2. \A q, r \in RowsOf(s) : q.position = r.position => q = r
    BY DEF Progress
  <2>3. CASE phase[s] = "verify"
    <3>1. position[s] = 0 /\ Places(s) = {} /\ answer[s] # Ok
      BY <2>3 DEF RouterInv, SessionInv, Place, Progress, Places
    <3>2. 0 \in {n \in 0..position[s] : n + 1 >= position[s]} /\ 1..0 = {}
      BY <3>1
    <3> QED
      BY <2>2, <3>1, <3>2
  <2>4. CASE phase[s] = "handle" /\ answer[s] = Ok
    BY <2>2, <2>4 DEF Progress
  <2>5. CASE phase[s] = "handle" /\ answer[s] # Ok
    <3>1. position[s] >= 1 /\ pc[s] # "mail"
      BY <2>1, <2>5 DEF RouterInv, SessionInv, Place
    <3>2. Places(s) = 1..(position[s] - 1) \/ Places(s) = 1..position[s]
      BY <2>1, <2>5, <3>1 DEF Progress
    <3>3. {position[s] - 1, position[s]} \subseteq {n \in 0..position[s] : n + 1 >= position[s]}
      BY <2>1, <3>1
    <3> QED
      BY <2>2, <2>5, <3>2, <3>3
  <2> QED
    BY <2>1, <2>3, <2>4, <2>5
<1> QED
  BY <1>1, <1>2, <1>3, RouterInvAlways, PTL DEF Spec

-----------------------------------------------------------------------------
(* The counters.                                                           *)

Directions == {"forward", "reply"}

Total(a, direction) == IF direction = "forward" THEN a.forwarded ELSE a.replied

QueuedRows(a, direction) == {r \in outbox : r.direction = direction /\ r.alias = a.id}

Counting == {s \in Sessions : pc[s] = "count"}

CountingFor(a, direction) ==
    {s \in Sessions : pc[s] = "count" /\ plan[s].direction = direction /\ plan[s].alias = a.id}

Agrees(a, direction) ==
    LET total == Total(a, direction)
        counting == Cardinality(CountingFor(a, direction))
        queued == Cardinality(QueuedRows(a, direction))
    IN  /\ total + counting <= queued
        /\ dbErrors = 0 /\ crashes = 0 => total + counting = queued

\* Messages and connections may be infinitely many, those of a state are not.
Countable ==
    /\ dbErrors \in Nat /\ crashes \in Nat
    /\ IsFiniteSet(outbox) /\ IsFiniteSet(Counting)

CountInv == Countable /\ \A a \in aliases, d \in Directions : Agrees(a, d)

\* The sets that are counted are finite.
LEMMA FiniteCounts ==
  ASSUME Countable, NEW a, NEW d
  PROVE  /\ IsFiniteSet(QueuedRows(a, d)) /\ Cardinality(QueuedRows(a, d)) \in Nat
         /\ IsFiniteSet(CountingFor(a, d)) /\ Cardinality(CountingFor(a, d)) \in Nat
<1>1. QueuedRows(a, d) \in SUBSET outbox /\ CountingFor(a, d) \in SUBSET Counting
  BY DEF QueuedRows, CountingFor, Counting
<1>2. IsFiniteSet(QueuedRows(a, d)) /\ IsFiniteSet(CountingFor(a, d))
  BY <1>1, FS_Subset DEF Countable
<1> QED
  BY <1>2, FS_CardinalityType

\* A step that queues nothing keeps an alias right if it takes sessions from
\* those that are about to count only by a fault.
LEMMA AgreesStays ==
  ASSUME RouterInv, CountInv, NEW a \in aliases, NEW b \in aliases', NEW d \in Directions,
         b.id = a.id, Total(b, d) = Total(a, d),
         QueuedRows(a, d)' = QueuedRows(a, d),
         CountingFor(a, d)' \subseteq CountingFor(a, d),
         dbErrors' = 0 /\ crashes' = 0 =>
            dbErrors = 0 /\ crashes = 0 /\ CountingFor(a, d)' = CountingFor(a, d)
  PROVE  Agrees(b, d)'
<1> DEFINE total == Total(a, d)
           n == Cardinality(CountingFor(a, d))
           m == Cardinality(CountingFor(a, d)')
           q == Cardinality(QueuedRows(a, d))
<1>1. total \in Nat
  BY DEF RouterInv, TableTypes, AliasRows, Total
<1>2. n \in Nat /\ q \in Nat /\ IsFiniteSet(CountingFor(a, d))
  BY FiniteCounts DEF CountInv
<1>3. m \in Nat /\ m <= n
  <2>1. CountingFor(a, d)' \in SUBSET CountingFor(a, d)
    OBVIOUS
  <2>2. IsFiniteSet(CountingFor(a, d)') /\ m <= n
    BY <1>2, <2>1, FS_Subset
  <2> QED
    BY <2>2, FS_CardinalityType
<1>4. CountingFor(b, d)' = CountingFor(a, d)' /\ QueuedRows(b, d)' = QueuedRows(a, d)
  BY DEF CountingFor, QueuedRows
<1>5. total + n <= q /\ (dbErrors = 0 /\ crashes = 0 => total + n = q)
  BY DEF CountInv, Agrees
<1>6. Cardinality(CountingFor(b, d)') = m /\ Cardinality(QueuedRows(b, d)') = q
      /\ Total(b, d)' = total
  BY <1>4 DEF Total
<1>7. dbErrors' = 0 /\ crashes' = 0 => m = n
  OBVIOUS
<1> HIDE DEF total, n, m, q
<1>8. total + m <= q /\ (dbErrors' = 0 /\ crashes' = 0 => total + m = q)
  BY <1>1, <1>2, <1>3, <1>5, <1>7
<1> QED
  BY <1>6, <1>8 DEF Agrees

\* An alias that is made has no rows and nobody counts for it.
LEMMA NewAliasAgrees ==
  ASSUME RouterInv, CountInv, NEW id \in AliasIds, NEW address \in Addresses,
         NEW mailbox \in Inboxes, CreateAlias(id, address, mailbox)
  PROVE  CountInv'
<1>1. UNCHANGED <<outbox, pc, plan, dbErrors, crashes>> /\ id \notin spent
  BY DEF CreateAlias, session, fault
<1>2. Countable'
  BY <1>1 DEF CountInv, Countable, Counting
<1>3. ASSUME NEW b \in aliases', NEW d \in Directions PROVE Agrees(b, d)'
  <2>1. QueuedRows(b, d)' = QueuedRows(b, d) /\ CountingFor(b, d)' = CountingFor(b, d)
    BY <1>1 DEF QueuedRows, CountingFor
  <2>2. CASE b \in aliases
    BY <1>1, <2>1, <2>2 DEF CountInv, Agrees, Total
  <2>3. CASE b \notin aliases
    <3>1. b.id = id /\ b.forwarded = 0 /\ b.replied = 0 /\ id # None
      BY <2>3, RouterAssumption DEF CreateAlias
    <3>2. QueuedRows(b, d) = {}
      BY <1>1, <3>1 DEF QueuedRows, RouterInv, TableTypes, KeysHold, Keys
    <3>3. CountingFor(b, d) = {}
      <4>1. SUFFICES ASSUME NEW s \in Sessions, pc[s] = "count", plan[s].alias = id
                     PROVE  FALSE
        BY <3>1 DEF CountingFor
      <4>2. plan[s].direction \in Directions
        BY <4>1 DEF RouterInv, SessionInv, Queueing, Directions
      <4>3. plan[s].alias \in spent \union {None}
        BY <4>1, <4>2 DEF RouterInv, SessionInv, ForwardPlan, ReplyPlan, Queueing, Directions
      <4> QED
        BY <1>1, <3>1, <4>1, <4>3
    <3> QED
      BY <2>1, <3>1, <3>2, <3>3, FS_EmptySet DEF Agrees, Total
  <2> QED
    BY <2>2, <2>3
<1> QED
  BY <1>2, <1>3 DEF CountInv

\* A cascade leaves the rows of the aliases that stay.
LEMMA CascadeAgrees ==
  ASSUME RouterInv, CountInv, NEW gone, RemoveAliases(gone), UNCHANGED <<session, fault>>
  PROVE  CountInv'
<1> DEFINE orphans == {c.reverse : c \in {d \in contacts : d.alias \in gone}}
           F(r) == [r EXCEPT !.alias = IF @ \in gone THEN None ELSE @,
                             !.contact = IF @ \in orphans THEN None ELSE @]
           f == [r \in outbox |-> F(r)]
<1>1. /\ outbox' = {F(r) : r \in outbox}
      /\ aliases' = {a \in aliases : a.id \notin gone}
      /\ UNCHANGED <<pc, plan, dbErrors, crashes>>
  BY DEF RemoveAliases, session, fault
<1>2. Countable'
  <2>1. f \in Surjection(outbox, outbox')
    BY <1>1 DEF Surjection
  <2> HIDE DEF f
  <2>2. IsFiniteSet(outbox')
    BY <2>1, FS_Surjection DEF CountInv, Countable
  <2> QED
    BY <1>1, <2>2 DEF CountInv, Countable, Counting
<1>3. ASSUME NEW b \in aliases', NEW d \in Directions PROVE Agrees(b, d)'
  <2>1. b \in aliases /\ b.id \notin gone /\ b.id \in AliasIds /\ b.id # None
    BY <1>1, RouterAssumption DEF RouterInv, TableTypes, AliasRows
  <2>2. CountingFor(b, d)' = CountingFor(b, d)
    BY <1>1 DEF CountingFor
  <2>3. ASSUME NEW r \in outbox, r.alias = b.id PROVE F(r) = r
    <3>1. r \in OutboxRows /\ RowInv(r)
      BY DEF RouterInv, TableTypes
    <3>2. \E c \in contacts : c.reverse = r.contact /\ c.alias = r.alias
      BY <2>1, <2>3, <3>1 DEF RowInv, OutboxRows
    <3>3. r.contact \notin orphans
      BY <2>1, <2>3, <3>2 DEF RouterInv, Keys
    <3> QED
      BY <2>1, <2>3, <3>1, <3>3 DEF OutboxRows
  <2>4. ASSUME NEW q \in outbox', q.alias = b.id PROVE q \in outbox
    BY <2>1, <2>4, CascadeOfRows
  <2>5. QueuedRows(b, d)' = QueuedRows(b, d)
    <3>1. QueuedRows(b, d) \subseteq outbox'
      BY <1>1, <2>3 DEF QueuedRows
    <3>2. {q \in outbox' : q.alias = b.id} \subseteq outbox
      BY <2>4
    <3> QED
      BY <3>1, <3>2 DEF QueuedRows
  <2> QED
    BY <1>1, <2>1, <2>2, <2>5, AgreesStays
<1> QED
  BY <1>2, <1>3 DEF CountInv

\* A new row, and one more session that has to count it.
LEMMA EnqueueAgrees ==
  ASSUME NEW s \in Sessions, RouterInv, CountInv, Progress(s), EnqueueRow(s)
  PROVE  CountInv'
<1>1. /\ pc[s] = "enqueue" /\ UNCHANGED <<aliases, dbErrors, crashes>>
      /\ DOMAIN pc = Sessions /\ DOMAIN plan = Sessions
  BY DEF EnqueueRow, fault, RouterInv, SessionTypes
<1>2. CASE Refuse(s, "foreign key") /\ UNCHANGED outbox
  <2>1. /\ Counting' = Counting
        /\ \A t \in Counting : plan'[t] = plan[t]
    BY <1>1, <1>2 DEF Refuse, Counting
  <2>2. \A a, d : CountingFor(a, d)' = CountingFor(a, d) /\ QueuedRows(a, d)' = QueuedRows(a, d)
    BY <1>2, <2>1 DEF CountingFor, Counting, QueuedRows
  <2> QED
    BY <1>1, <1>2, <2>1, <2>2, AgreesStays DEF CountInv, Countable
<1>3. CASE outbox' = outbox \union {Row(s)} /\ Step(s, "count") /\ UNCHANGED plan
  <2>1. Row(s) \notin outbox
    <3>1. position[s] \in Nat /\ position[s] \notin Places(s)
      <4>1. phase[s] = "handle" /\ position[s] \in Nat
        BY <1>1 DEF RouterInv, SessionTypes, SessionInv, Place, Queries, LookingUp
      <4>2. Places(s) = 1..(position[s] - 1)
        BY <1>1, <4>1 DEF Progress, Queries
      <4> QED
        BY <4>1, <4>2
    <3> QED
      BY <3>1 DEF Places, RowsOf, Row
  <2>2. Counting' = Counting \union {s} /\ s \notin Counting
    BY <1>1, <1>3 DEF Step, Counting
  <2>3. Countable'
    <3>1. IsFiniteSet(outbox') /\ IsFiniteSet(Counting')
      BY <1>3, <2>2, FS_AddElement DEF CountInv, Countable
    <3> QED
      BY <1>1, <3>1 DEF CountInv, Countable
  <2>4. ASSUME NEW a \in aliases, NEW d \in Directions PROVE Agrees(a, d)'
    <3>1. CASE plan[s].direction = d /\ plan[s].alias = a.id
      <4>1. QueuedRows(a, d)' = QueuedRows(a, d) \union {Row(s)} /\ Row(s) \notin QueuedRows(a, d)
        BY <1>3, <2>1, <3>1 DEF QueuedRows, Row
      <4>2. CountingFor(a, d)' = CountingFor(a, d) \union {s} /\ s \notin CountingFor(a, d)
        BY <1>1, <1>3, <3>1 DEF CountingFor, Step
      <4>3. Cardinality(QueuedRows(a, d)') = Cardinality(QueuedRows(a, d)) + 1
        BY <4>1, FiniteCounts, FS_AddElement DEF CountInv
      <4>4. Cardinality(CountingFor(a, d)') = Cardinality(CountingFor(a, d)) + 1
        BY <4>2, FiniteCounts, FS_AddElement DEF CountInv
      <4>5. Total(a, d) \in Nat /\ Total(a, d)' = Total(a, d)
        BY DEF RouterInv, TableTypes, AliasRows, Total
      <4>6. /\ Cardinality(QueuedRows(a, d)) \in Nat
            /\ Cardinality(CountingFor(a, d)) \in Nat
        BY FiniteCounts DEF CountInv
      <4>7. Agrees(a, d)
        BY DEF CountInv
      <4> QED
        BY <1>1, <4>3, <4>4, <4>5, <4>6, <4>7 DEF Agrees
    <3>2. CASE ~(plan[s].direction = d /\ plan[s].alias = a.id)
      <4>1. QueuedRows(a, d)' = QueuedRows(a, d)
        BY <1>3, <3>2 DEF QueuedRows, Row
      <4>2. CountingFor(a, d)' = CountingFor(a, d)
        BY <1>1, <1>3, <3>2 DEF CountingFor, Step
      <4> QED
        BY <1>1, <4>1, <4>2, AgreesStays
    <3> QED
      BY <3>1, <3>2
  <2> QED
    BY <1>1, <2>3, <2>4 DEF CountInv
<1> QED
  BY <1>2, <1>3 DEF EnqueueRow

\* One is added to the right counter of the right alias, by a session that then
\* has nothing to count.
LEMMA CountAgrees ==
  ASSUME NEW s \in Sessions, RouterInv, CountInv, Count(s)
  PROVE  CountInv'
<1> DEFINE i == plan[s].alias
           e == plan[s].direction
<1>1. /\ pc[s] = "count" /\ UNCHANGED <<outbox, dbErrors, crashes>>
      /\ DOMAIN pc = Sessions /\ DOMAIN plan = Sessions /\ e \in Directions
      /\ pc'[s] # "count" /\ \A t \in Sessions \ {s} : pc'[t] = pc[t] /\ plan'[t] = plan[t]
  BY DEF Count, NextRecipient, fault, RouterInv, SessionTypes, SessionInv, Queueing, Directions
<1>2. Counting' = Counting \ {s}
  BY <1>1 DEF Counting
<1>3. Countable'
  BY <1>1, <1>2, FS_RemoveElement DEF CountInv, Countable
<1>4. \A d, a : QueuedRows(a, d)' = QueuedRows(a, d)
  BY <1>1 DEF QueuedRows
<1>5. ASSUME NEW a \in aliases, NEW b \in aliases', NEW d \in Directions,
             b = IF a.id = i THEN Counted(a, e) ELSE a
      PROVE  Agrees(b, d)'
  <2>1. a \in AliasRows /\ b.id = a.id
    BY <1>5 DEF RouterInv, TableTypes, AliasRows, Counted
  <2>2. CASE a.id = i /\ d = e
    <3>1. Total(b, d) = Total(a, d) + 1 /\ Total(a, d) \in Nat
      BY <1>1, <1>5, <2>1, <2>2 DEF Total, Counted, Directions, AliasRows
    <3>2. CountingFor(b, d)' = CountingFor(a, d) \ {s} /\ s \in CountingFor(a, d)
      BY <1>1, <2>1, <2>2 DEF CountingFor
    <3>3. /\ Cardinality(CountingFor(b, d)') = Cardinality(CountingFor(a, d)) - 1
          /\ Cardinality(CountingFor(a, d)) \in Nat /\ Cardinality(QueuedRows(a, d)) \in Nat
      BY <3>2, FiniteCounts, FS_RemoveElement DEF CountInv
    <3>4. QueuedRows(b, d)' = QueuedRows(a, d)
      BY <1>4, <2>1 DEF QueuedRows
    <3>5. Agrees(a, d) /\ Total(b, d)' = Total(b, d)
      BY DEF CountInv, Total
    <3> QED
      BY <1>1, <3>1, <3>3, <3>4, <3>5 DEF Agrees
  <2>3. CASE ~(a.id = i /\ d = e)
    <3>1. Total(b, d) = Total(a, d)
      BY <1>1, <1>5, <2>1, <2>3 DEF Total, Counted, Directions, AliasRows
    <3>2. CountingFor(a, d)' = CountingFor(a, d)
      BY <1>1, <2>3 DEF CountingFor
    <3> QED
      BY <1>1, <1>4, <2>1, <3>1, <3>2, AgreesStays
  <2> QED
    BY <2>2, <2>3
<1>6. \A b \in aliases' : \E a \in aliases : b = IF a.id = i THEN Counted(a, e) ELSE a
  BY DEF Count
<1> QED
  BY <1>3, <1>5, <1>6 DEF CountInv

\* Between two queries nothing is queued, nobody starts to count, and the counters
\* of the aliases are left alone.
LEMMA QueryAgrees ==
  ASSUME NEW s \in Sessions, RouterInv, CountInv,
         \/ \E recipient \in Recipients : Rcpt(s, recipient)
         \/ Data(s) \/ Route(s) \/ Forward(s) \/ ReplyAlias(s)
  PROVE  CountInv'
<1>1. UNCHANGED <<outbox, dbErrors, crashes>>
  BY DEF Rcpt, Data, Route, FindReverse, FindAlias, CountBlocked, Forward, ForwardAlias,
         FindContact, InsertContact, ReadContact, ReplyAlias, tables, fault
<1>2. pc[s] # "count" /\ DOMAIN pc = Sessions /\ DOMAIN plan = Sessions
  BY DEF Rcpt, Data, Route, FindReverse, FindAlias, CountBlocked, Forward, ForwardAlias,
         FindContact, InsertContact, ReadContact, ReplyAlias, RouterInv, SessionTypes
<1>3. pc'[s] # "count" /\ \A t \in Sessions \ {s} : pc'[t] = pc[t] /\ plan'[t] = plan[t]
  <2>1. CASE (\E recipient \in Recipients : Rcpt(s, recipient)) \/ Data(s)
    BY <1>2, <2>1 DEF Rcpt, Data
  <2>2. CASE FindReverse(s)
    BY <1>2, <2>2 DEF FindReverse, Step, Refuse, Routed
  <2>3. CASE FindAlias(s)
    BY <1>2, <2>3 DEF FindAlias, Step, Refuse, Routed
  <2>4. CASE CountBlocked(s)
    BY <1>2, <2>4 DEF CountBlocked, Refuse
  <2>5. CASE Forward(s)
    BY <1>2, <2>5 DEF Forward, ForwardAlias, FindContact, InsertContact, ReadContact,
                      WithContact, Step, Refuse
  <2>6. CASE ReplyAlias(s)
    BY <1>2, <2>6 DEF ReplyAlias, Step
  <2> QED
    BY <2>1, <2>2, <2>3, <2>4, <2>5, <2>6 DEF Route
<1>4. /\ Counting' = Counting
      /\ \A a, d : CountingFor(a, d)' = CountingFor(a, d)
      /\ \A a, d : QueuedRows(a, d)' = QueuedRows(a, d)
  BY <1>1, <1>2, <1>3 DEF Counting, CountingFor, QueuedRows
<1>5. \A b \in aliases' : \E a \in aliases : /\ b.id = a.id
                                             /\ \A d \in Directions : Total(b, d) = Total(a, d)
  <2>1. CASE aliases' = aliases
    BY <2>1
  <2>2. CASE CountBlocked(s)
    <3>1. \A a \in aliases : LET b == [a EXCEPT !.blocked = @ + 1]
                             IN  /\ b.id = a.id /\ b.forwarded = a.forwarded
                                 /\ b.replied = a.replied
      BY DEF RouterInv, TableTypes, AliasRows
    <3>2. \A b \in aliases' : \E a \in aliases : b = a \/ b = [a EXCEPT !.blocked = @ + 1]
      BY <2>2 DEF CountBlocked
    <3> QED
      BY <3>1, <3>2, Zenon DEF Total
  <2> QED
    BY <2>1, <2>2 DEF Rcpt, Data, Route, FindReverse, FindAlias, Forward, ForwardAlias,
         FindContact, InsertContact, ReadContact, ReplyAlias, tables
<1>6. Countable'
  BY <1>1, <1>4 DEF CountInv, Countable
<1> QED
  BY <1>1, <1>4, <1>5, <1>6, AgreesStays DEF CountInv

\* A failed query, and a crash, may lose a count and is on record as a fault.
LEMMA FaultAgrees ==
  ASSUME RouterInv, CountInv, Crash \/ \E s \in Sessions : QueryFails(s)
  PROVE  CountInv'
<1>1. /\ UNCHANGED <<aliases, outbox>> /\ dbErrors' \in Nat /\ crashes' \in Nat
      /\ dbErrors' # 0 \/ crashes' # 0
  <2>1. dbErrors \in Nat /\ crashes \in Nat
    BY DEF CountInv, Countable
  <2>2. CASE Crash
    BY <2>1, <2>2 DEF Crash, tables
  <2>3. ASSUME NEW s \in Sessions, QueryFails(s)
        PROVE  UNCHANGED <<aliases, outbox, crashes>> /\ dbErrors' = dbErrors + 1
    BY <2>3 DEF QueryFails, tables
  <2> QED
    BY <2>1, <2>2, <2>3
<1>2. \A t \in Sessions : pc'[t] = "count" => pc[t] = "count" /\ plan'[t] = plan[t]
  <2>1. CASE Crash
    BY <2>1 DEF Crash
  <2>2. ASSUME NEW s \in Sessions, QueryFails(s), NEW t \in Sessions, pc'[t] = "count"
        PROVE  pc[t] = "count" /\ plan'[t] = plan[t]
    <3>1. DOMAIN pc = Sessions /\ DOMAIN plan = Sessions
      BY DEF RouterInv, SessionTypes
    <3>2. PICK why : Refuse(s, why)
      BY <2>2 DEF QueryFails
    <3>3. pc'[s] # "count"
      BY <3>1, <3>2 DEF Refuse
    <3>4. t # s
      BY <2>2, <3>3
    <3> QED
      BY <2>2, <3>1, <3>2, <3>4 DEF Refuse
  <2> QED
    BY <2>1, <2>2
<1>3. /\ Counting' \in SUBSET Counting
      /\ \A a, d : CountingFor(a, d)' \subseteq CountingFor(a, d)
      /\ \A a, d : QueuedRows(a, d)' = QueuedRows(a, d)
  BY <1>1, <1>2 DEF Counting, CountingFor, QueuedRows
<1>4. Countable'
  BY <1>1, <1>3, FS_Subset DEF CountInv, Countable
<1>5. ASSUME NEW a \in aliases, NEW d \in Directions PROVE Agrees(a, d)'
  BY <1>1, <1>3, AgreesStays
<1> QED
  BY <1>1, <1>4, <1>5 DEF CountInv

\* A toggle writes one column of one alias.
LEMMA ToggleAgrees ==
  ASSUME RouterInv, CountInv, UNCHANGED <<outbox, pc, plan, dbErrors, crashes>>,
         aliases' = aliases \/ WriteToggle
  PROVE  CountInv'
<1>1. /\ Counting' = Counting
      /\ \A a, d : CountingFor(a, d)' = CountingFor(a, d)
      /\ \A a, d : QueuedRows(a, d)' = QueuedRows(a, d)
  BY DEF Counting, CountingFor, QueuedRows
<1>2. \A b \in aliases' : \E a \in aliases : /\ b.id = a.id
                                             /\ \A d \in Directions : Total(b, d) = Total(a, d)
  <2>1. CASE WriteToggle
    <3>1. \A a \in aliases : LET b == [a EXCEPT !.enabled = toggle.enabled]
                             IN  /\ b.id = a.id /\ b.forwarded = a.forwarded
                                 /\ b.replied = a.replied
      <4>1. aliases \subseteq AliasRows
        BY DEF RouterInv, TableTypes
      <4> QED
        BY <4>1, Zenon DEF AliasRows
    <3>2. \A b \in aliases' : \E a \in aliases : b = a \/ b = [a EXCEPT !.enabled = toggle.enabled]
      BY <2>1 DEF WriteToggle
    <3> QED
      BY <3>1, <3>2, Zenon DEF Total
  <2> QED
    BY <2>1
<1>3. Countable'
  BY <1>1 DEF CountInv, Countable
<1> QED
  BY <1>1, <1>2, <1>3, AgreesStays DEF CountInv

\* Every step keeps the counters right.
LEMMA NextCountInv ==
  ASSUME RouterInv, CountInv, \A s \in Sessions : Progress(s), [Next]_vars
  PROVE  CountInv'
<1>1. CASE UNCHANGED vars
  BY <1>1, ToggleAgrees DEF vars, tables, session, fault
<1>2. CASE Admin
  <2>1. CASE (\E id \in AliasIds : DeleteAlias(id)) \/ (\E m \in Inboxes : DeleteMailbox(m))
    BY <2>1, CascadeAgrees DEF DeleteAlias, DeleteMailbox
  <2>2. CASE (\E m \in Inboxes : CreateMailbox(m)) \/ (\E a \in aliases : ReadToggle(a))
             \/ WriteToggle
    <3>1. UNCHANGED <<outbox, pc, plan, dbErrors, crashes>> /\ (aliases' = aliases \/ WriteToggle)
      BY <2>2 DEF CreateMailbox, ReadToggle, WriteToggle, tables, session, fault
    <3> QED
      BY <3>1, ToggleAgrees
  <2> QED
    BY <1>2, <2>1, <2>2, NewAliasAgrees DEF Admin
<1>3. ASSUME NEW s \in Sessions,
             \/ \E recipient \in Addresses \union Tokens : Rcpt(s, recipient)
             \/ Data(s) \/ Route(s) \/ Forward(s) \/ ReplyAlias(s) \/ Queue(s) \/ QueryFails(s)
      PROVE  CountInv'
  BY <1>3, QueryAgrees, EnqueueAgrees, CountAgrees, FaultAgrees DEF Recipients, Queue
<1>4. CASE Crash
  BY <1>4, FaultAgrees
<1> QED
  BY <1>1, <1>2, <1>3, <1>4 DEF Next

\* The counters of an alias are the messages queued for it, less those that a
\* session is about to count; a fault loses counts and never adds one.
THEOREM CountersAreRight == Spec => []CountersAgree
<1> DEFINE AllProgress == \A s \in Sessions : Progress(s)
<1>1. Init => AllProgress /\ CountInv
  <2> SUFFICES ASSUME Init PROVE AllProgress /\ CountInv
    OBVIOUS
  <2>1. AllProgress
    BY DEF Init, Progress, RowsOf, Ok
  <2>2. Counting = {} /\ outbox = {} /\ aliases = {} /\ dbErrors = 0 /\ crashes = 0
    BY DEF Init, Counting
  <2> QED
    BY <2>1, <2>2, FS_EmptySet DEF CountInv, Countable
<1>2. RouterInv /\ AllProgress /\ [Next]_vars => AllProgress'
  <2> SUFFICES ASSUME RouterInv, AllProgress, [Next]_vars, NEW s \in Sessions
               PROVE  Progress(s)'
    OBVIOUS
  <2> QED
    BY NextProgress
<1>3. RouterInv /\ AllProgress /\ CountInv /\ [Next]_vars => CountInv'
  BY NextCountInv
<1>4. CountInv => CountersAgree
  <2> SUFFICES ASSUME CountInv, NEW a \in aliases PROVE
          /\ a.forwarded + Uncounted(a, "forward") <= Queued(a, "forward")
          /\ a.replied + Uncounted(a, "reply") <= Queued(a, "reply")
          /\ dbErrors = 0 /\ crashes = 0 =>
                /\ a.forwarded + Uncounted(a, "forward") = Queued(a, "forward")
                /\ a.replied + Uncounted(a, "reply") = Queued(a, "reply")
    BY DEF CountersAgree
  <2>1. Agrees(a, "forward") /\ Agrees(a, "reply")
    BY DEF CountInv, Directions
  <2>2. \A d : Uncounted(a, d) = Cardinality(CountingFor(a, d))
               /\ Queued(a, d) = Cardinality(QueuedRows(a, d))
    BY DEF Uncounted, CountingFor, Queued, QueuedRows
  <2> QED
    BY <2>1, <2>2 DEF Agrees, Total
<1> QED
  BY <1>1, <1>2, <1>3, <1>4, RouterInvAlways, PTL DEF Spec
=============================================================================
