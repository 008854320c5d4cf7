------------------------------- MODULE Outbox -------------------------------
(***************************************************************************)
(* The outbound queue (src/src/delivery): `enqueue` writes the message to  *)
(* a spool file and then inserts a row; `drain_outbox` claims the rows     *)
(* that are due and delivers them one by one; a row that fails waits for   *)
(* an exponential backoff; a restart returns interrupted rows to the       *)
(* queue.  The process may die between any two steps.                      *)
(*                                                                         *)
(* Abstracted: the bytes of a message, its envelope and its log lines.     *)
(* A message is its id, time is counted in minutes, and a remote server is *)
(* what it answers.                                                        *)
(***************************************************************************)
EXTENDS Naturals, FiniteSets

CONSTANTS
    Messages,       \* ids of the messages handed to enqueue
    Drainers,       \* the tasks that call drain_outbox
    Poller,         \* the one that polls: run_delivery_worker_until_stopped
    None,           \* no message
    MaxAttempts,    \* delivery.max_attempts
    BatchSize,      \* BATCH_SIZE
    MaxHosts,       \* bound: most hosts a lookup may return
    MaxCrashes,     \* bound: times the process dies
    MaxDbErrors,    \* bound: failed statements of the worker
    MaxMisreads,    \* bound: messages whose present file fails to be read
    MaxLost         \* bound: spool files that disappear

ASSUME OutboxAssumption ==
    /\ Poller \in Drainers
    /\ None \notin Messages
    /\ MaxAttempts \in Nat \ {0}
    /\ BatchSize \in Nat \ {0}
    /\ MaxHosts \in Nat \ {0}
    /\ {MaxCrashes, MaxDbErrors, MaxMisreads, MaxLost} \subseteq Nat

\* Arithmetic the provers do not know; TLC evaluates it.
ASSUME ShiftsAreNaturals == \A k \in 0..16 : 2 ^ k \in Nat

VARIABLES
    now,        \* the clock, in minutes
    proc,       \* the process: "down", "booting" or "running"
    spool,      \* messages whose .eml file exists
    lost,       \* messages whose file disappeared
    misread,    \* messages whose file was there but could not be read
    enq,        \* enq[m]: how far the call of enqueue for m has come
    status,     \* status[m]: the status column, "absent" before the INSERT
    attempts,   \* attempts[m]: the attempts column
    dueAt,      \* dueAt[m]: the next_attempt_at column
    pc,         \* pc[d]: where drainer d stands
    held,       \* held[d]: rows d claimed and has not finished with
    seen,       \* seen[d][m]: attempts of m as claim_due returned it to d
    cur,        \* cur[d]: the message d is delivering
    hosts,      \* hosts[d]: hosts left in the loop of Relay::send
    copies,     \* history: copies of m that a remote server took
    doubts,     \* history: times the worker could not know about a copy of m
    tries,      \* history: calls of Relay::send for m
    crashes, dbErrors   \* faults so far, for the bounds

disk  == <<spool, lost, misread, enq>>
rows  == <<status, attempts, dueAt>>
work  == <<pc, held, seen, cur, hosts>>
hist  == <<copies, doubts, tries>>
fault == <<crashes, dbErrors>>
vars  == <<now, proc, disk, rows, work, hist, fault>>

Init ==
    /\ now = 0
    /\ proc = "booting"
    /\ spool = {} /\ lost = {} /\ misread = {}
    /\ enq = [m \in Messages |-> "new"]
    /\ status = [m \in Messages |-> "absent"]
    /\ attempts = [m \in Messages |-> 0]
    /\ dueAt = [m \in Messages |-> 0]
    /\ pc = [d \in Drainers |-> "idle"]
    /\ held = [d \in Drainers |-> {}]
    /\ seen = [d \in Drainers |-> [m \in Messages |-> 0]]
    /\ cur = [d \in Drainers |-> None]
    /\ hosts = [d \in Drainers |-> 0]
    /\ copies = [m \in Messages |-> 0]
    /\ doubts = [m \in Messages |-> 0]
    /\ tries = [m \in Messages |-> 0]
    /\ crashes = 0 /\ dbErrors = 0

-----------------------------------------------------------------------------
(* enqueue: the file first, the row second.                                *)

WriteSpool(m) ==
    /\ proc # "down" /\ enq[m] = "new"
    /\ enq' = [enq EXCEPT ![m] = "spooled"]
    /\ spool' = spool \union {m}
    /\ UNCHANGED <<now, proc, lost, misread, rows, work, hist, fault>>

NewRow(m) ==
    /\ enq' = [enq EXCEPT ![m] = "queued"]
    /\ status' = [status EXCEPT ![m] = "pending"]
    /\ attempts' = [attempts EXCEPT ![m] = 0]
    /\ dueAt' = [dueAt EXCEPT ![m] = now]
    /\ UNCHANGED <<now, proc, spool, lost, misread, work, hist, fault>>

\* Slip: the row does not wait for the file.
InsertRowFirst(m) == proc # "down" /\ enq[m] \in {"new", "spooled"} /\ NewRow(m)

InsertRow(m) == proc # "down" /\ enq[m] = "spooled" /\ NewRow(m)

\* A failed mkdir, write or INSERT; a file already written stays behind.
EnqueueFails(m) ==
    /\ proc # "down" /\ enq[m] \in {"new", "spooled"}
    /\ enq' = [enq EXCEPT ![m] = "aborted"]
    /\ UNCHANGED <<now, proc, spool, lost, misread, rows, work, hist, fault>>

-----------------------------------------------------------------------------
(* The process.  Its memory is lost, its files and rows are not.           *)

ProcessDies ==
    /\ proc' = "down"
    /\ enq' = [m \in Messages |-> IF enq[m] = "spooled" THEN "aborted" ELSE enq[m]]
    /\ pc' = [d \in Drainers |-> "idle"]
    /\ held' = [d \in Drainers |-> {}]
    /\ seen' = [d \in Drainers |-> [m \in Messages |-> 0]]
    /\ cur' = [d \in Drainers |-> None]
    /\ hosts' = [d \in Drainers |-> 0]
    /\ UNCHANGED <<now, spool, lost, misread, rows>>

Crash ==
    /\ proc # "down" /\ crashes < MaxCrashes
    /\ crashes' = crashes + 1
    /\ ProcessDies
    /\ UNCHANGED <<hist, dbErrors>>

Restart ==
    /\ proc = "down"
    /\ proc' = "booting"
    /\ UNCHANGED <<now, disk, rows, work, hist, fault>>

\* requeue_interrupted: whoever was sending these rows is gone, and nobody
\* knows whether a remote server took the message.
\* Slip: everything that is not delivered goes out again.
InterruptedOrFailed == {m \in Messages : status[m] \in {"sending", "failed"}}

\* Slip: nothing is requeued.
NoneInterrupted == {}

Interrupted == {m \in Messages : status[m] = "sending"}

ReturnToQueue(R) ==
    /\ status' = [m \in Messages |-> IF m \in R THEN "pending" ELSE status[m]]
    /\ dueAt' = [m \in Messages |-> IF m \in R THEN now ELSE dueAt[m]]
    /\ doubts' = [m \in Messages |-> IF m \in R THEN doubts[m] + 1 ELSE doubts[m]]
    /\ UNCHANGED <<now, disk, attempts, work, copies, tries, fault>>

RequeueInterrupted ==
    /\ proc = "booting"
    /\ proc' = "running"
    /\ ReturnToQueue(Interrupted)

\* The error leaves run_delivery_worker_until_stopped, and main with it.
RequeueFails ==
    /\ proc = "booting" /\ dbErrors < MaxDbErrors
    /\ dbErrors' = dbErrors + 1
    /\ ProcessDies
    /\ UNCHANGED <<hist, crashes>>

-----------------------------------------------------------------------------
(* claim_due: one transaction.                                             *)

Due == {m \in Messages : status[m] = "pending" /\ dueAt[m] <= now}

\* ORDER BY next_attempt_at ASC LIMIT BatchSize, ties in any order.
Batches ==
    {B \in SUBSET Due :
        /\ \/ Cardinality(B) = BatchSize
           \/ B = Due /\ Cardinality(B) < BatchSize
        /\ \A m \in B, n \in Due \ B : dueAt[m] <= dueAt[n]}

\* Slip: SELECT without the UPDATE.
ClaimWithoutMark(d, B) ==
    /\ held' = [held EXCEPT ![d] = B]
    /\ seen' = [seen EXCEPT ![d] = [m \in Messages |->
                                       IF m \in B THEN attempts[m] ELSE 0]]
    /\ pc' = [pc EXCEPT ![d] = "next"]
    /\ UNCHANGED <<now, proc, disk, rows, cur, hosts, hist, fault>>

\* Slip: one UPDATE with the SELECT's condition and not its LIMIT.
ClaimMarksAllDue(d, B) ==
    /\ status' = [m \in Messages |-> IF m \in Due THEN "sending" ELSE status[m]]
    /\ held' = [held EXCEPT ![d] = B]
    /\ seen' = [seen EXCEPT ![d] = [m \in Messages |->
                                       IF m \in B THEN attempts[m] ELSE 0]]
    /\ pc' = [pc EXCEPT ![d] = "next"]
    /\ UNCHANGED <<now, proc, disk, attempts, dueAt, cur, hosts, hist, fault>>

Claim(d, B) ==
    /\ status' = [m \in Messages |-> IF m \in B THEN "sending" ELSE status[m]]
    /\ held' = [held EXCEPT ![d] = B]
    /\ seen' = [seen EXCEPT ![d] = [m \in Messages |->
                                       IF m \in B THEN attempts[m] ELSE 0]]
    /\ pc' = [pc EXCEPT ![d] = "next"]
    /\ UNCHANGED <<now, proc, disk, attempts, dueAt, cur, hosts, hist, fault>>

ClaimDue(d) ==
    /\ proc = "running" /\ pc[d] = "idle" /\ Due # {}
    /\ \E B \in Batches : Claim(d, B)

\* Ok(0) sends the poller to sleep; other callers just return.
NothingDue(d) ==
    /\ proc = "running" /\ pc[d] = "idle" /\ d = Poller /\ Due = {}
    /\ pc' = [pc EXCEPT ![d] = "asleep"]
    /\ UNCHANGED <<now, proc, disk, rows, held, seen, cur, hosts, hist, fault>>

ClaimFails(d) ==
    /\ proc = "running" /\ pc[d] = "idle" /\ d = Poller
    /\ dbErrors < MaxDbErrors
    /\ dbErrors' = dbErrors + 1
    /\ pc' = [pc EXCEPT ![d] = "asleep"]
    /\ UNCHANGED <<now, proc, disk, rows, held, seen, cur, hosts, hist, crashes>>

Wake(d) ==
    /\ pc[d] = "asleep"
    /\ pc' = [pc EXCEPT ![d] = "idle"]
    /\ UNCHANGED <<now, proc, disk, rows, held, seen, cur, hosts, hist, fault>>

-----------------------------------------------------------------------------
(* deliver: read the file, hand it to the relay, record the outcome.       *)

\* The batch is a list in claim order.
Oldest(d) == {m \in held[d] : \A n \in held[d] : dueAt[m] <= dueAt[n]}

\* The relay has one host in relay mode, those of the MX lookup otherwise.
ReadSpool(d, m) ==
    /\ pc[d] = "next" /\ m \in Oldest(d) /\ m \in spool
    /\ cur' = [cur EXCEPT ![d] = m]
    /\ \E n \in 1..MaxHosts : hosts' = [hosts EXCEPT ![d] = n]
    /\ pc' = [pc EXCEPT ![d] = "sending"]
    /\ tries' = [tries EXCEPT ![m] = @ + 1]
    /\ UNCHANGED <<now, proc, disk, rows, held, seen, copies, doubts, fault>>

\* tokio::fs::read fails: the file is gone, or any other error of the read.
Unreadable(d, m) ==
    /\ pc[d] = "next" /\ m \in Oldest(d)
    /\ IF m \in spool
       THEN /\ Cardinality(misread \union {m}) <= MaxMisreads
            /\ misread' = misread \union {m}
       ELSE UNCHANGED misread
    /\ cur' = [cur EXCEPT ![d] = m]
    /\ pc' = [pc EXCEPT ![d] = "unreadable"]
    /\ UNCHANGED <<now, proc, spool, lost, enq, rows, held, seen, hosts, hist, fault>>

\* Slip: the end of the list is missed.
TryNextHostForever(d) ==
    /\ hosts' = [hosts EXCEPT ![d] = @ - 1]
    /\ UNCHANGED pc

\* Slip: no host left is no error.
TryNextHostOrSucceed(d) ==
    /\ hosts' = [hosts EXCEPT ![d] = @ - 1]
    /\ pc' = [pc EXCEPT ![d] = IF hosts[d] = 1 THEN "accepted" ELSE "sending"]

\* The next host of the list, or Err(last_error) after the last one.
TryNextHost(d) ==
    /\ hosts' = [hosts EXCEPT ![d] = @ - 1]
    /\ pc' = [pc EXCEPT ![d] = IF hosts[d] = 1 THEN "refused" ELSE "sending"]

\* Slip: Ok does not leave the loop.
HostAcceptsAndNext(d) ==
    /\ pc[d] = "sending"
    /\ hosts' = [hosts EXCEPT ![d] = @ - 1]
    /\ pc' = [pc EXCEPT ![d] = IF hosts[d] = 1 THEN "accepted" ELSE "sending"]
    /\ copies' = [copies EXCEPT ![cur[d]] = @ + 1]
    /\ UNCHANGED <<now, proc, disk, rows, held, seen, cur, doubts, tries, fault>>

HostAccepts(d) ==
    /\ pc[d] = "sending"
    /\ pc' = [pc EXCEPT ![d] = "accepted"]
    /\ hosts' = [hosts EXCEPT ![d] = 0]
    /\ copies' = [copies EXCEPT ![cur[d]] = @ + 1]
    /\ UNCHANGED <<now, proc, disk, rows, held, seen, cur, doubts, tries, fault>>

HostRefuses(d) ==
    /\ pc[d] = "sending"
    /\ TryNextHost(d)
    /\ UNCHANGED <<now, proc, disk, rows, held, seen, cur, hist, fault>>

\* The host took the message and its answer never came: a timeout or a reset
\* after the final dot is an error to mail-send, and the loop goes on.
HostAcceptsUnheard(d) ==
    /\ pc[d] = "sending"
    /\ TryNextHost(d)
    /\ copies' = [copies EXCEPT ![cur[d]] = @ + 1]
    /\ doubts' = [doubts EXCEPT ![cur[d]] = @ + 1]
    /\ UNCHANGED <<now, proc, disk, rows, held, seen, cur, tries, fault>>

\* No domain part, or a host name the builder rejects: the loop is left.
RelayAborts(d) ==
    /\ pc[d] = "sending"
    /\ pc' = [pc EXCEPT ![d] = "refused"]
    /\ hosts' = [hosts EXCEPT ![d] = 0]
    /\ UNCHANGED <<now, proc, disk, rows, held, seen, cur, hist, fault>>

\* The for loop of drain_outbox moves on.
Finish(d) ==
    /\ held' = [held EXCEPT ![d] = @ \ {cur[d]}]
    /\ seen' = [seen EXCEPT ![d][cur[d]] = 0]
    /\ cur' = [cur EXCEPT ![d] = None]
    /\ pc' = [pc EXCEPT ![d] = IF held[d] = {cur[d]} THEN "idle" ELSE "next"]
    /\ UNCHANGED hosts

MarkDelivered(d) ==
    /\ pc[d] = "accepted"
    /\ status' = [status EXCEPT ![cur[d]] = "delivered"]
    /\ Finish(d)
    /\ UNCHANGED <<now, proc, disk, attempts, dueAt, hist, fault>>

\* backoff: 1 << attempts.clamp(0, 16), at most 360 minutes.
Backoff(n) ==
    LET minutes == 2 ^ (IF n > 16 THEN 16 ELSE n)
    IN  IF minutes > 360 THEN 360 ELSE minutes

\* Slip: the limit is compared with the next attempt.
RecordFailureEarly(m, before) ==
    /\ attempts' = [attempts EXCEPT ![m] = before + 1]
    /\ IF before + 2 >= MaxAttempts
       THEN /\ status' = [status EXCEPT ![m] = "failed"]
            /\ UNCHANGED dueAt
       ELSE /\ status' = [status EXCEPT ![m] = "pending"]
            /\ dueAt' = [dueAt EXCEPT ![m] = now + Backoff(before + 1)]

\* mark_attempt_failed(message_id, before, max_attempts): the new value of
\* attempts comes from the caller's copy of the row.
RecordFailure(m, before) ==
    /\ attempts' = [attempts EXCEPT ![m] = before + 1]
    /\ IF before + 1 >= MaxAttempts
       THEN /\ status' = [status EXCEPT ![m] = "failed"]
            /\ UNCHANGED dueAt
       ELSE /\ status' = [status EXCEPT ![m] = "pending"]
            /\ dueAt' = [dueAt EXCEPT ![m] = now + Backoff(before + 1)]

MarkAttemptFailed(d) ==
    /\ pc[d] \in {"refused", "unreadable"}
    /\ RecordFailure(cur[d], IF pc[d] = "unreadable" THEN MaxAttempts
                                                     ELSE seen[d][cur[d]])
    /\ Finish(d)
    /\ UNCHANGED <<now, proc, disk, hist, fault>>

\* drain_outbox logs the error and goes on; the row keeps its status.
MarkFails(d) ==
    /\ pc[d] \in {"accepted", "refused", "unreadable"}
    /\ dbErrors < MaxDbErrors
    /\ dbErrors' = dbErrors + 1
    /\ Finish(d)
    /\ UNCHANGED <<now, proc, disk, rows, hist, crashes>>

-----------------------------------------------------------------------------
(* The environment.                                                        *)

LoseSpool(m) ==
    /\ m \in spool /\ Cardinality(lost) < MaxLost
    /\ spool' = spool \ {m}
    /\ lost' = lost \union {m}
    /\ UNCHANGED <<now, proc, misread, enq, rows, work, hist, fault>>

\* Time is only told apart while a row waits for it.
Tick ==
    /\ \E m \in Messages : status[m] = "pending" /\ dueAt[m] > now
    /\ now' = now + 1
    /\ UNCHANGED <<proc, disk, rows, work, hist, fault>>

Deliver(d) ==
    \/ \E m \in Messages : ReadSpool(d, m) \/ Unreadable(d, m)
    \/ HostAccepts(d) \/ HostRefuses(d) \/ HostAcceptsUnheard(d) \/ RelayAborts(d)
    \/ MarkDelivered(d) \/ MarkAttemptFailed(d) \/ MarkFails(d)

Poll(d) == ClaimDue(d) \/ NothingDue(d) \/ ClaimFails(d) \/ Wake(d)

Enqueue(m) == WriteSpool(m) \/ InsertRow(m) \/ EnqueueFails(m)

Next ==
    \/ \E m \in Messages : Enqueue(m) \/ LoseSpool(m)
    \/ \E d \in Drainers : Poll(d) \/ Deliver(d)
    \/ Crash \/ Restart \/ RequeueInterrupted \/ RequeueFails
    \/ Tick

Spec == Init /\ [][Next]_vars

\* Tasks of the tokio runtime are polled, Relay::send ends within its
\* timeout, the service manager restarts the process, time passes.  Nothing
\* obliges a caller to enqueue or a one-shot caller to claim.
Fairness ==
    /\ WF_vars(Restart)
    /\ WF_vars(RequeueInterrupted)
    /\ WF_vars(Poll(Poller))
    /\ \A d \in Drainers : WF_vars(Deliver(d))
    /\ WF_vars(Tick)

FairSpec == Spec /\ Fairness

-----------------------------------------------------------------------------
(* Properties.                                                             *)

Statuses == {"absent", "pending", "sending", "delivered", "failed"}
Settled  == {"delivered", "failed"}
Busy     == {"sending", "accepted", "refused", "unreadable"}

\* Every variable has its type.
TypeOK ==
    /\ now \in Nat
    /\ proc \in {"down", "booting", "running"}
    /\ spool \subseteq Messages /\ lost \subseteq Messages /\ misread \subseteq Messages
    /\ enq \in [Messages -> {"new", "spooled", "queued", "aborted"}]
    /\ status \in [Messages -> Statuses]
    /\ attempts \in [Messages -> Nat]
    /\ dueAt \in [Messages -> Nat]
    /\ pc \in [Drainers -> {"idle", "asleep", "next"} \union Busy]
    /\ held \in [Drainers -> SUBSET Messages]
    /\ seen \in [Drainers -> [Messages -> Nat]]
    /\ cur \in [Drainers -> Messages \union {None}]
    /\ hosts \in [Drainers -> Nat]
    /\ copies \in [Messages -> Nat]
    /\ doubts \in [Messages -> Nat]
    /\ tries \in [Messages -> Nat]
    /\ crashes \in Nat /\ dbErrors \in Nat

\* claim_due gives a message to one drainer at a time, and nothing takes its
\* row out of `sending` behind the back of the drainer that holds it.
ExclusiveClaim ==
    \A d \in Drainers : \A m \in held[d] :
        /\ status[m] = "sending"
        /\ \A e \in Drainers \ {d} : m \notin held[e]

\* mark_attempt_failed writes the claim's copy of attempts plus one: that
\* copy is still the column's value, so no failed attempt is ever uncounted.
SnapshotIsFresh ==
    \A d \in Drainers : \A m \in held[d] : seen[d][m] = attempts[m]

\* The recipient gets one copy, and one more at most for each time the worker
\* was left in doubt: an answer that never came, or a restart that found the
\* row in `sending`.
CopiesBounded == \A m \in Messages : copies[m] <= 1 + doubts[m]

\* A message fails only after max_attempts calls of Relay::send that are all
\* counted, however often the process died in between, unless its file could
\* not be read; a pending one has attempts left.
GivesUpOnlyAfterAllTries ==
    \A m \in Messages :
        /\ status[m] = "pending" => attempts[m] < MaxAttempts
        /\ status[m] = "failed" =>
              \/ attempts[m] = MaxAttempts /\ tries[m] >= MaxAttempts
              \/ attempts[m] = MaxAttempts + 1 /\ m \in lost \union misread

\* No row without its file, whatever call or crash cut enqueue short: the
\* file of a queued message exists unless something else removed it.
QueuedHasSpool ==
    \A m \in Messages : status[m] # "absent" => m \in spool \union lost

\* While the worker runs and its statements succeed, a row in `sending` is
\* held by a drainer: none is forgotten there.
NothingStranded ==
    proc = "running" /\ dbErrors = 0 =>
        \A m \in Interrupted : \E d \in Drainers : m \in held[d]

\* `delivered` is never wishful: some host took the message.
DeliveredWasAccepted ==
    \A m \in Messages : status[m] = "delivered" => copies[m] > 0

\* A settled message is left alone: no restart revives it, no late outcome
\* overwrites it, no further copy leaves.
SettledIsFinal ==
    [][\A m \in Messages : status[m] \in Settled =>
          status'[m] = status[m] /\ copies'[m] = copies[m]]_vars

\* Every queued message settles.
EverySettles ==
    \A m \in Messages : status[m] \in {"pending", "sending"} ~> status[m] \in Settled

-----------------------------------------------------------------------------
(* The outbox keeps the promise of DeliveryPromise.                        *)

Mail ==
    [m \in Messages |-> CASE status[m] = "absent" -> "unseen"
                          [] status[m] \in {"pending", "sending"} -> "accepted"
                          [] OTHER -> status[m]]

Abstract == INSTANCE DeliveryPromise WITH mail <- Mail

\* Every behaviour is one of the promise, settling included.
KeepsPromise == Abstract!Promise
=============================================================================
