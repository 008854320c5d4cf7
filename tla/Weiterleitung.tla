---------------------------- MODULE Weiterleitung ----------------------------
(***************************************************************************)
(* One message on its way through the whole server: a client hands it over *)
(* for some recipients, a session (src/src/smtp/session.rs) collects them  *)
(* and calls handle (src/src/smtp/router.rs), which queues a copy for one  *)
(* recipient after the other, and the outbox of module Outbox delivers the *)
(* copies.  Every part may fail, and the process may die, at any step.     *)
(*                                                                         *)
(* The client does what RFC 5321 asks: it keeps each recipient until 250,  *)
(* tries again after 451 or silence, and reports 550 to the sender.  Which *)
(* alias a recipient is, and whether it is routable, is the matter of      *)
(* AliasRouter; here a route is found or not.  A copy is <<t, r>>: the one *)
(* that try t makes for recipient r.                                       *)
(***************************************************************************)
EXTENDS Outbox, Sequences

CONSTANTS
    Recipients,     \* recipients of the client's message
    MaxTries,       \* bound: times the client tries
    MaxFailures     \* bound: connections that break and calls of handle that fail

Tries == 1..MaxTries

ASSUME MailAssumption ==
    /\ MaxTries \in Nat /\ MaxFailures \in Nat
    /\ Messages = Tries \X Recipients

VARIABLES
    client,     \* recipients the client still has to hand over
    bounced,    \* recipients it reported undeliverable
    tried,      \* the current try
    stage,      \* stage[t]: where the session of try t stands
    env,        \* env[t]: its envelope.rcpt_to
    at,         \* at[t]: the recipient that handle is at
    heard,      \* heard[t]: what the client knows of its DATA
    failures    \* for the bound

connection == <<tried, stage, env, at, heard>>
mail == <<client, bounced, connection, failures>>

MailInit ==
    /\ Init
    /\ client = Recipients /\ bounced = {}
    /\ tried = 0
    /\ stage = [t \in Tries |-> "new"]
    /\ env = [t \in Tries |-> <<>>]
    /\ at = [t \in Tries |-> 0]
    /\ heard = [t \in Tries |-> "nothing"]
    /\ failures = 0

Named(t) == {env[t][i] : i \in 1..Len(env[t])}

-----------------------------------------------------------------------------
(* The client.                                                             *)

\* It is not waiting for anything.
AtLeisure == \A t \in Tries : t = tried => heard[t] # "nothing"

Connect ==
    /\ AtLeisure /\ client # {} /\ tried < MaxTries /\ proc # "down"
    /\ tried' = tried + 1
    /\ stage' = [stage EXCEPT ![tried + 1] = "rcpt"]
    /\ UNCHANGED <<vars, client, bounced, env, at, heard, failures>>

\* The connection breaks, or the client loses patience, or the 250 is lost: a
\* handle call under way runs on.
Break(t) ==
    /\ stage[t] \in {"rcpt", "queue", "count"} /\ heard[t] = "nothing"
    /\ failures < MaxFailures /\ failures' = failures + 1
    /\ heard' = [heard EXCEPT ![t] = "silence"]
    /\ stage' = [stage EXCEPT ![t] = IF @ = "rcpt" THEN "over" ELSE @]
    /\ UNCHANGED <<vars, client, bounced, tried, env, at>>

-----------------------------------------------------------------------------
(* The session.                                                            *)

\* Slip: the recipient is kept before the verdict on it.
RcptToKept(t, r) ==
    /\ stage[t] = "rcpt" /\ r \in client \ Named(t)
    /\ env' = [env EXCEPT ![t] = Append(@, r)]
    /\ \/ UNCHANGED <<client, bounced>>
       \/ client' = client \ {r} /\ bounced' = bounced \union {r}
    /\ UNCHANGED <<vars, tried, stage, at, heard, failures>>

\* 250 or 550; a client with more recipients than MAX_RECIPIENTS keeps the rest
\* for another try, which is to send DATA without them.
RcptTo(t, r) ==
    /\ stage[t] = "rcpt" /\ r \in client \ Named(t)
    /\ \/ /\ env' = [env EXCEPT ![t] = Append(@, r)]
          /\ UNCHANGED <<client, bounced>>
       \/ /\ client' = client \ {r} /\ bounced' = bounced \union {r}
          /\ UNCHANGED env
    /\ UNCHANGED <<vars, tried, stage, at, heard, failures>>

SendData(t) ==
    /\ stage[t] = "rcpt" /\ env[t] # <<>>
    /\ stage' = [stage EXCEPT ![t] = "queue"]
    /\ at' = [at EXCEPT ![t] = 1]
    /\ UNCHANGED <<vars, client, bounced, tried, env, heard, failures>>

\* The copy that handle is making.
Copy(t) == <<t, env[t][at[t]]>>

\* handle returns Err: 451, if anybody still listens.
Fail(t) ==
    /\ failures < MaxFailures /\ failures' = failures + 1
    /\ stage' = [stage EXCEPT ![t] = "over"]
    /\ heard' = [heard EXCEPT ![t] = IF @ = "nothing" THEN "451" ELSE @]
    /\ UNCHANGED <<client, bounced, tried, env, at>>

\* The recipient is no longer routable, or a query before enqueue fails.
NoRoute(t) ==
    /\ stage[t] = "queue" /\ enq[Copy(t)] = "new"
    /\ Fail(t)
    /\ UNCHANGED vars

QueueFile(t) == /\ stage[t] = "queue"
                /\ WriteSpool(Copy(t))
                /\ UNCHANGED mail

QueueRow(t) == /\ stage[t] = "queue"
               /\ InsertRow(Copy(t))
               /\ stage' = [stage EXCEPT ![t] = "count"]
               /\ UNCHANGED <<client, bounced, tried, env, at, heard, failures>>

\* Slip: the error is logged and the loop goes on.
QueueFailsLogged(t) ==
    /\ stage[t] = "queue"
    /\ EnqueueFails(Copy(t))
    /\ stage' = [stage EXCEPT ![t] = "count"]
    /\ UNCHANGED <<client, bounced, tried, env, at, heard, failures>>

QueueFails(t) == /\ stage[t] = "queue"
                 /\ EnqueueFails(Copy(t))
                 /\ Fail(t)

\* 250, if anybody still listens; then the client lets go.
Acknowledge(t) ==
    /\ stage' = [stage EXCEPT ![t] = "over"]
    /\ IF heard[t] = "nothing"
       THEN /\ heard' = [heard EXCEPT ![t] = "250"]
            /\ client' = client \ Named(t)
       ELSE UNCHANGED <<heard, client>>
    /\ UNCHANGED <<bounced, tried, env, at, failures>>

\* Slip: the loop runs one recipient too far.
CountCopyAndNext(t) ==
    /\ stage[t] = "count"
    /\ at' = [at EXCEPT ![t] = @ + 1]
    /\ stage' = [stage EXCEPT ![t] = "queue"]
    /\ UNCHANGED <<vars, client, bounced, tried, env, heard, failures>>

\* The copy is counted for its alias, and handle goes on to the next recipient.
CountCopy(t) ==
    /\ stage[t] = "count"
    /\ IF at[t] < Len(env[t])
       THEN /\ at' = [at EXCEPT ![t] = @ + 1]
            /\ stage' = [stage EXCEPT ![t] = "queue"]
            /\ UNCHANGED <<client, bounced, tried, env, heard, failures>>
       ELSE Acknowledge(t)
    /\ UNCHANGED vars

\* The statement that counts fails: the copy stays queued, the answer is 451.
CountFails(t) == /\ stage[t] = "count"
                 /\ Fail(t)
                 /\ UNCHANGED vars

Session(t) ==
    \/ \E r \in Recipients : RcptTo(t, r)
    \/ SendData(t)
    \/ NoRoute(t) \/ QueueFile(t) \/ QueueRow(t) \/ QueueFails(t)
    \/ CountCopy(t) \/ CountFails(t)

-----------------------------------------------------------------------------
(* The rest of the process.                                                *)

\* All connections end with the process.
Hangup ==
    /\ stage' = [t \in Tries |-> IF t <= tried THEN "over" ELSE "new"]
    /\ heard' = [t \in Tries |-> IF t <= tried /\ heard[t] = "nothing"
                                 THEN "silence" ELSE heard[t]]
    /\ UNCHANGED <<client, bounced, tried, env, at, failures>>

ProcessEnds == (Crash \/ RequeueFails) /\ Hangup

Worker == /\ \/ \E d \in Drainers : Poll(d) \/ Deliver(d)
             \/ Restart \/ RequeueInterrupted
             \/ Tick
             \/ \E m \in Messages : LoseSpool(m)
          /\ UNCHANGED mail

MailNext ==
    \/ Connect
    \/ \E t \in Tries : Break(t) \/ Session(t)
    \/ ProcessEnds
    \/ Worker

MailSpec == MailInit /\ [][MailNext]_<<vars, mail>>

-----------------------------------------------------------------------------
(* Properties.                                                             *)

\* Types, and handle is always at a recipient of its envelope.
MailTypeOK ==
    /\ client \subseteq Recipients /\ bounced \subseteq Recipients
    /\ tried \in 0..MaxTries /\ failures \in 0..MaxFailures
    /\ stage \in [Tries -> {"new", "rcpt", "queue", "count", "over"}]
    /\ env \in [Tries -> Seq(Recipients)]
    /\ heard \in [Tries -> {"nothing", "250", "451", "silence"}]
    /\ at \in [Tries -> Nat]
    /\ \A t \in Tries : stage[t] \in {"queue", "count"} => at[t] \in 1..Len(env[t])

Taken == {m \in Messages : status[m] # "absent"}

\* 250 means that every recipient of the envelope has its row, whatever failed or
\* died on the way.
AckedIsQueued ==
    \A t \in Tries : heard[t] = "250" => \A r \in Named(t) : <<t, r>> \in Taken

\* From end to end: nobody gets a copy that was not meant for him.  Who got one is
\* offered again, or reported undeliverable, only if the try that it came from
\* ended with 451 or silence.  (Each try's copy itself leaves again only if the
\* worker was in doubt about it: CopiesBounded.)
NoCopyWithoutCause ==
    \A m \in Messages : copies[m] > 0 =>
        /\ m[2] \in Named(m[1])
        /\ heard[m[1]] \notin {"451", "silence"} =>
              /\ m[2] \notin bounced
              /\ \A t \in Tries : t > m[1] => m[2] \notin Named(t)

\* The client's and the outbox's promise together, see Handover.
CopyState(m) == CASE status[m] \in Settled -> "settled"
                  [] status[m] \in {"pending", "sending"} -> "queued"
                  [] status[m] = "absent" /\ m[2] \in Named(m[1]) -> "offered"
                  [] OTHER -> "none"

Told == INSTANCE Handover WITH copy <- [m \in Messages |-> CopyState(m)]

HandsOver == Told!HandoverSpec
=============================================================================
