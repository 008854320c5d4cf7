---------------------------- MODULE Outbox_proofs ----------------------------
(***************************************************************************)
(* Proofs about the outbox, for any number of messages, drainers, hosts,   *)
(* attempts and faults.  The invariants are proved in layers: each one     *)
(* rests on those before it.                                               *)
(***************************************************************************)
EXTENDS Outbox, FiniteSetTheorems, TLAPS

-----------------------------------------------------------------------------
(* Layer 1: types, and what each program counter says of the drainer.      *)

DrainerShape ==
    \A d \in Drainers :
        /\ pc[d] \in {"idle", "asleep"} => held[d] = {}
        /\ pc[d] = "next" => held[d] # {}
        /\ pc[d] \in Busy => cur[d] \in held[d]
        /\ pc[d] = "sending" => hosts[d] > 0
        /\ proc # "running" => pc[d] = "idle"

Typed == TypeOK /\ DrainerShape

\* The delay is a number of minutes, so a due time is one too.
LEMMA BackoffType == \A n \in Nat : Backoff(n) \in Nat
<1> SUFFICES ASSUME NEW n \in Nat PROVE Backoff(n) \in Nat
  OBVIOUS
<1> DEFINE k == IF n > 16 THEN 16 ELSE n
<1>1. k \in 0..16
  OBVIOUS
<1>2. 2 ^ k \in Nat
  <2> HIDE DEF k
  <2> QED
    BY <1>1, ShiftsAreNaturals, Zenon
<1> DEFINE minutes == 2 ^ k
<1>3. (IF minutes > 360 THEN 360 ELSE minutes) \in Nat
  <2> HIDE DEF minutes
  <2>1. minutes \in Nat
    BY <1>2 DEF minutes
  <2> QED
    BY <2>1
<1> QED
  BY <1>3, Zenon DEF Backoff

\* The empty queue of a process that boots is typed.
LEMMA InitTyped == Init => Typed
  BY OutboxAssumption
  DEF Init, Typed, TypeOK, DrainerShape, Statuses, Busy

\* The steps of enqueue, and the loss of a file, keep the types.
LEMMA EnqueueTyped ==
  ASSUME Typed, NEW m \in Messages, Enqueue(m) \/ LoseSpool(m)
  PROVE  Typed'
<1> USE DEF Typed, TypeOK, DrainerShape, Statuses, Busy, disk, rows, work, hist, fault
<1>1. CASE WriteSpool(m)
  BY <1>1 DEF WriteSpool
<1>2. CASE InsertRow(m)
  BY <1>2 DEF InsertRow, NewRow
<1>3. CASE EnqueueFails(m)
  BY <1>3 DEF EnqueueFails
<1>4. CASE LoseSpool(m)
  BY <1>4 DEF LoseSpool
<1> QED
  BY <1>1, <1>2, <1>3, <1>4 DEF Enqueue

\* The steps from sleep to a claim keep the types.
LEMMA PollTyped ==
  ASSUME Typed, NEW d \in Drainers, Poll(d)
  PROVE  Typed'
<1> USE DEF Typed, TypeOK, DrainerShape, Statuses, Busy, disk, rows, work, hist, fault
<1>1. CASE ClaimDue(d)
  <2>1. PICK B \in Batches : Claim(d, B)
    BY <1>1 DEF ClaimDue
  <2>2. B \subseteq Due /\ B # {}
    <3>1. B # {} \/ B # Due
      BY <1>1 DEF ClaimDue
    <3>2. Cardinality({}) = 0
      BY FS_EmptySet
    <3> QED
      BY <3>1, <3>2, OutboxAssumption DEF Batches
  <2> QED
    BY <1>1, <2>1, <2>2 DEF ClaimDue, Claim, Due
<1>2. CASE NothingDue(d)
  BY <1>2 DEF NothingDue
<1>3. CASE ClaimFails(d)
  BY <1>3 DEF ClaimFails
<1>4. CASE Wake(d)
  BY <1>4 DEF Wake
<1> QED
  BY <1>1, <1>2, <1>3, <1>4 DEF Poll

\* The steps of deliver keep the types, and finish a row they hold.
LEMMA DeliverTyped ==
  ASSUME Typed, NEW d \in Drainers, Deliver(d)
  PROVE  Typed'
<1> USE DEF Typed, TypeOK, DrainerShape, Statuses, Busy, disk, rows, work, hist, fault
<1>1. ASSUME NEW m \in Messages, ReadSpool(d, m) PROVE Typed'
  BY <1>1, OutboxAssumption DEF ReadSpool, Oldest
<1>2. ASSUME NEW m \in Messages, Unreadable(d, m) PROVE Typed'
  BY <1>2 DEF Unreadable, Oldest
<1>3. CASE HostAccepts(d)
  BY <1>3 DEF HostAccepts
<1>4. CASE HostRefuses(d)
  BY <1>4 DEF HostRefuses, TryNextHost
<1>5. CASE HostAcceptsUnheard(d)
  BY <1>5 DEF HostAcceptsUnheard, TryNextHost
<1>6. CASE RelayAborts(d)
  BY <1>6 DEF RelayAborts
<1>7. CASE MarkDelivered(d)
  BY <1>7 DEF MarkDelivered, Finish
<1>8. CASE MarkAttemptFailed(d)
  BY <1>8, BackoffType, OutboxAssumption, SMTT(20) DEF MarkAttemptFailed, RecordFailure, Finish
<1>9. CASE MarkFails(d)
  BY <1>9 DEF MarkFails, Finish
<1> QED
  BY <1>1, <1>2, <1>3, <1>4, <1>5, <1>6, <1>7, <1>8, <1>9 DEF Deliver

\* A crash, a restart, the requeue of interrupted rows and the clock keep the
\* types.
LEMMA ProcessTyped ==
  ASSUME Typed, Crash \/ Restart \/ RequeueInterrupted \/ RequeueFails \/ Tick
  PROVE  Typed'
<1> USE DEF Typed, TypeOK, DrainerShape, Statuses, Busy, disk, rows, work, hist, fault
<1>1. CASE Crash
  BY <1>1 DEF Crash, ProcessDies
<1>2. CASE Restart
  BY <1>2 DEF Restart
<1>3. CASE RequeueInterrupted
  BY <1>3 DEF RequeueInterrupted, ReturnToQueue
<1>4. CASE RequeueFails
  BY <1>4 DEF RequeueFails, ProcessDies
<1>5. CASE Tick
  BY <1>5 DEF Tick
<1> QED
  BY <1>1, <1>2, <1>3, <1>4, <1>5

\* Every step keeps the types.
LEMMA NextTyped == Typed /\ [Next]_vars => Typed'
<1> SUFFICES ASSUME Typed, [Next]_vars PROVE Typed'
  OBVIOUS
<1>1. CASE UNCHANGED vars
  BY <1>1 DEF Typed, TypeOK, DrainerShape, vars, disk, rows, work, hist, fault
<1>2. CASE Next
  BY <1>2, EnqueueTyped, PollTyped, DeliverTyped, ProcessTyped DEF Next
<1> QED
  BY <1>1, <1>2

\* The types hold in every reachable state.
LEMMA TypedAlways == Spec => []Typed
  BY InitTyped, NextTyped, PTL DEF Spec

\* Every variable keeps its type, and a drainer always delivers one of the
\* rows it holds.
THEOREM TypeCorrect == Spec => [](TypeOK /\ DrainerShape)
<1>1. Typed => TypeOK /\ DrainerShape
  BY DEF Typed
<1> QED
  BY <1>1, TypedAlways, PTL

-----------------------------------------------------------------------------
(* Layer 2: a claim is exclusive, and its copy of attempts is current.     *)

RowShape == \A m \in Messages : enq[m] = "queued" <=> status[m] # "absent"

Claimed == RowShape /\ ExclusiveClaim /\ SnapshotIsFresh

\* Every step keeps the claims exclusive and the snapshots fresh: rows enter a
\* batch only from `pending`, which no held row is, and only the holder writes
\* the row of a held message.
LEMMA NextClaimed ==
  ASSUME Typed, Claimed, [Next]_vars
  PROVE  Claimed'
<1> USE DEF Typed, TypeOK, DrainerShape, Claimed, RowShape, ExclusiveClaim, SnapshotIsFresh,
             Statuses, Settled, Busy, disk, rows, work, hist, fault
<1>1. ASSUME NEW m \in Messages, WriteSpool(m) PROVE Claimed'
  BY <1>1 DEF WriteSpool
<1>2. ASSUME NEW m \in Messages, InsertRow(m) PROVE Claimed'
  <2> USE <1>2 DEF InsertRow, NewRow
  <2>1. \A d \in Drainers : m \notin held[d]
    OBVIOUS
  <2>2. RowShape'
    OBVIOUS
  <2>3. ExclusiveClaim'
    BY <2>1
  <2>4. SnapshotIsFresh'
    BY <2>1
  <2> QED
    BY <2>2, <2>3, <2>4
<1>3. ASSUME NEW m \in Messages, EnqueueFails(m) PROVE Claimed'
  BY <1>3 DEF EnqueueFails
<1>4. ASSUME NEW m \in Messages, LoseSpool(m) PROVE Claimed'
  BY <1>4 DEF LoseSpool
<1>5. ASSUME NEW d \in Drainers, ClaimDue(d) PROVE Claimed'
  <2>1. PICK B \in Batches : Claim(d, B)
    BY <1>5 DEF ClaimDue
  <2>2. B \subseteq Due
    BY DEF Batches
  <2> QED
    BY <1>5, <2>1, <2>2 DEF ClaimDue, Claim, Due
<1>6. ASSUME NEW d \in Drainers, NothingDue(d) PROVE Claimed'
  BY <1>6 DEF NothingDue
<1>7. ASSUME NEW d \in Drainers, ClaimFails(d) PROVE Claimed'
  BY <1>7 DEF ClaimFails
<1>8. ASSUME NEW d \in Drainers, Wake(d) PROVE Claimed'
  BY <1>8 DEF Wake
<1>9. ASSUME NEW d \in Drainers, NEW m \in Messages, ReadSpool(d, m)
      PROVE  Claimed'
  BY <1>9 DEF ReadSpool, Oldest
<1>10. ASSUME NEW d \in Drainers, NEW m \in Messages, Unreadable(d, m)
      PROVE  Claimed'
  BY <1>10 DEF Unreadable, Oldest
<1>11. ASSUME NEW d \in Drainers, HostAccepts(d) PROVE Claimed'
  BY <1>11 DEF HostAccepts
<1>12. ASSUME NEW d \in Drainers, HostRefuses(d) PROVE Claimed'
  BY <1>12 DEF HostRefuses, TryNextHost
<1>13. ASSUME NEW d \in Drainers, HostAcceptsUnheard(d) PROVE Claimed'
  BY <1>13 DEF HostAcceptsUnheard, TryNextHost
<1>14. ASSUME NEW d \in Drainers, RelayAborts(d) PROVE Claimed'
  BY <1>14 DEF RelayAborts
<1>15. ASSUME NEW d \in Drainers, MarkDelivered(d) PROVE Claimed'
  BY <1>15 DEF MarkDelivered, Finish
<1>16. ASSUME NEW d \in Drainers, MarkAttemptFailed(d) PROVE Claimed'
  BY <1>16 DEF MarkAttemptFailed, RecordFailure, Finish
<1>17. ASSUME NEW d \in Drainers, MarkFails(d) PROVE Claimed'
  BY <1>17 DEF MarkFails, Finish
<1>18. CASE Crash
  BY <1>18 DEF Crash, ProcessDies
<1>19. CASE Restart
  BY <1>19 DEF Restart
<1>20. CASE RequeueInterrupted
  BY <1>20 DEF RequeueInterrupted, ReturnToQueue, Interrupted
<1>21. CASE RequeueFails
  BY <1>21 DEF RequeueFails, ProcessDies
<1>22. CASE Tick
  BY <1>22 DEF Tick
<1>23. CASE UNCHANGED vars
  BY <1>23 DEF vars
<1> QED
  BY <1>1, <1>2, <1>3, <1>4, <1>5, <1>6, <1>7, <1>8, <1>9, <1>10, <1>11,
     <1>12, <1>13, <1>14, <1>15, <1>16, <1>17, <1>18, <1>19, <1>20, <1>21,
     <1>22, <1>23
  DEF Next, Enqueue, Poll, Deliver

\* Claims are exclusive and snapshots fresh in every reachable state.
LEMMA ClaimedAlways == Spec => []Claimed
<1>1. Init => Claimed
  BY DEF Init, Claimed, RowShape, ExclusiveClaim, SnapshotIsFresh
<1>2. Typed /\ Claimed /\ [Next]_vars => Claimed'
  BY NextClaimed
<1> QED
  BY <1>1, <1>2, TypedAlways, PTL DEF Spec

\* A message is delivered by one drainer at a time, from a row that stays
\* `sending` while it is held.
THEOREM ClaimsAreExclusive == Spec => []ExclusiveClaim
<1>1. Claimed => ExclusiveClaim
  BY DEF Claimed
<1> QED
  BY <1>1, ClaimedAlways, PTL

\* What drain_outbox knows of attempts is what the row still says, so
\* mark_attempt_failed loses no count.
THEOREM SnapshotsAreFresh == Spec => []SnapshotIsFresh
<1>1. Claimed => SnapshotIsFresh
  BY DEF Claimed
<1> QED
  BY <1>1, ClaimedAlways, PTL

-----------------------------------------------------------------------------
(* Layer 3: copies.  CopiesBounded is not inductive: what keeps the next   *)
(* attempt from adding a copy too many is that a row which may still be    *)
(* sent has used up no more than its doubts.                               *)

Accounted ==
    /\ \A m \in Messages :
          /\ copies[m] <= 1 + doubts[m]
          /\ status[m] \in {"absent", "pending", "failed"} => copies[m] <= doubts[m]
          /\ status[m] = "delivered" => copies[m] > 0
    /\ \A d \in Drainers :
          /\ pc[d] = "accepted" => copies[cur[d]] > 0
          /\ \A m \in held[d] : \/ copies[m] <= doubts[m]
                                \/ pc[d] = "accepted" /\ cur[d] = m

\* Every step keeps the account of copies: a host takes one only in `sending`,
\* and leaving that state without `accepted` adds a doubt.
LEMMA NextAccounted ==
  ASSUME Typed, Claimed, Accounted, [Next]_vars
  PROVE  Accounted'
<1> USE DEF Typed, TypeOK, DrainerShape, Claimed, RowShape, ExclusiveClaim,
             SnapshotIsFresh, Accounted,
             Statuses, Settled, Busy, disk, rows, work, hist, fault
<1>1. ASSUME NEW m \in Messages, WriteSpool(m) PROVE Accounted'
  BY <1>1 DEF WriteSpool
<1>2. ASSUME NEW m \in Messages, InsertRow(m) PROVE Accounted'
  BY <1>2 DEF InsertRow, NewRow
<1>3. ASSUME NEW m \in Messages, EnqueueFails(m) PROVE Accounted'
  BY <1>3 DEF EnqueueFails
<1>4. ASSUME NEW m \in Messages, LoseSpool(m) PROVE Accounted'
  BY <1>4 DEF LoseSpool
<1>5. ASSUME NEW d \in Drainers, ClaimDue(d) PROVE Accounted'
  <2>1. PICK B \in Batches : Claim(d, B)
    BY <1>5 DEF ClaimDue
  <2>2. B \subseteq Due
    BY DEF Batches
  <2> QED
    BY <1>5, <2>1, <2>2 DEF ClaimDue, Claim, Due
<1>6. ASSUME NEW d \in Drainers, NothingDue(d) PROVE Accounted'
  BY <1>6 DEF NothingDue
<1>7. ASSUME NEW d \in Drainers, ClaimFails(d) PROVE Accounted'
  BY <1>7 DEF ClaimFails
<1>8. ASSUME NEW d \in Drainers, Wake(d) PROVE Accounted'
  BY <1>8 DEF Wake
<1>9. ASSUME NEW d \in Drainers, NEW m \in Messages, ReadSpool(d, m)
      PROVE  Accounted'
  BY <1>9 DEF ReadSpool, Oldest
<1>10. ASSUME NEW d \in Drainers, NEW m \in Messages, Unreadable(d, m)
      PROVE  Accounted'
  BY <1>10 DEF Unreadable, Oldest
<1>11. ASSUME NEW d \in Drainers, HostAccepts(d) PROVE Accounted'
  BY <1>11 DEF HostAccepts
<1>12. ASSUME NEW d \in Drainers, HostRefuses(d) PROVE Accounted'
  BY <1>12 DEF HostRefuses, TryNextHost
<1>13. ASSUME NEW d \in Drainers, HostAcceptsUnheard(d) PROVE Accounted'
  BY <1>13 DEF HostAcceptsUnheard, TryNextHost
<1>14. ASSUME NEW d \in Drainers, RelayAborts(d) PROVE Accounted'
  BY <1>14 DEF RelayAborts
<1>15. ASSUME NEW d \in Drainers, MarkDelivered(d) PROVE Accounted'
  BY <1>15 DEF MarkDelivered, Finish
<1>16. ASSUME NEW d \in Drainers, MarkAttemptFailed(d) PROVE Accounted'
  BY <1>16 DEF MarkAttemptFailed, RecordFailure, Finish
<1>17. ASSUME NEW d \in Drainers, MarkFails(d) PROVE Accounted'
  BY <1>17 DEF MarkFails, Finish
<1>18. CASE Crash
  BY <1>18 DEF Crash, ProcessDies
<1>19. CASE Restart
  BY <1>19 DEF Restart
<1>20. CASE RequeueInterrupted
  BY <1>20 DEF RequeueInterrupted, ReturnToQueue, Interrupted
<1>21. CASE RequeueFails
  BY <1>21 DEF RequeueFails, ProcessDies
<1>22. CASE Tick
  BY <1>22 DEF Tick
<1>23. CASE UNCHANGED vars
  BY <1>23 DEF vars
<1> QED
  BY <1>1, <1>2, <1>3, <1>4, <1>5, <1>6, <1>7, <1>8, <1>9, <1>10, <1>11,
     <1>12, <1>13, <1>14, <1>15, <1>16, <1>17, <1>18, <1>19, <1>20, <1>21,
     <1>22, <1>23
  DEF Next, Enqueue, Poll, Deliver

\* The account of copies holds in every reachable state.
LEMMA AccountedAlways == Spec => []Accounted
<1>1. Init => Accounted
  BY DEF Init, Accounted
<1>2. Typed /\ Claimed /\ Accounted /\ [Next]_vars => Accounted'
  BY NextAccounted
<1> QED
  BY <1>1, <1>2, TypedAlways, ClaimedAlways, PTL DEF Spec

\* The recipient gets one copy and one more for each doubt at most.
THEOREM CopiesAreBounded == Spec => []CopiesBounded
<1>1. Accounted => CopiesBounded
  BY DEF Accounted, CopiesBounded
<1> QED
  BY <1>1, AccountedAlways, PTL

\* `delivered` is only written after a host took a copy.
THEOREM DeliveredIsTrue == Spec => []DeliveredWasAccepted
<1>1. Accounted => DeliveredWasAccepted
  BY DEF Accounted, DeliveredWasAccepted
<1> QED
  BY <1>1, AccountedAlways, PTL

-----------------------------------------------------------------------------
(* Layer 4: attempts.  The column never runs ahead of the calls made, and  *)
(* while a call is under way it is behind by one.                          *)

Counted ==
    /\ GivesUpOnlyAfterAllTries
    /\ \A m \in Messages : /\ status[m] = "sending" => attempts[m] < MaxAttempts
                           /\ status[m] \in {"pending", "sending"} => attempts[m] <= tries[m]
                           /\ status[m] = "absent" => attempts[m] = 0
    /\ \A d \in Drainers :
          /\ pc[d] \in {"sending", "accepted", "refused"} => attempts[cur[d]] < tries[cur[d]]
          /\ pc[d] = "unreadable" => cur[d] \in lost \union misread
    /\ QueuedHasSpool
    /\ \A m \in Messages : enq[m] = "spooled" => m \in spool \union lost

\* Every step keeps the count of tries: the attempts column never exceeds the
\* calls of Relay::send that were made, whatever is requeued in between.
LEMMA NextCounted ==
  ASSUME Typed, Claimed, Counted, [Next]_vars
  PROVE  Counted'
<1> USE DEF Typed, TypeOK, DrainerShape, Claimed, RowShape, ExclusiveClaim,
             SnapshotIsFresh, Counted, GivesUpOnlyAfterAllTries, QueuedHasSpool,
             Statuses, Settled, Busy, disk, rows, work, hist, fault
<1>1. ASSUME NEW m \in Messages, WriteSpool(m) PROVE Counted'
  BY <1>1 DEF WriteSpool
<1>2. ASSUME NEW m \in Messages, InsertRow(m) PROVE Counted'
  <2> USE <1>2 DEF InsertRow, NewRow
  <2>1. status[m] = "absent" /\ m \in spool \union lost
    OBVIOUS
  <2>2. \A d \in Drainers : m \notin held[d]
    BY <2>1
  <2>3. \A n \in Messages \ {m} : status'[n] = status[n] /\ attempts'[n] = attempts[n]
    OBVIOUS
  <2>4. status'[m] = "pending" /\ attempts'[m] = 0
    OBVIOUS
  <2>5. \A d \in Drainers : pc[d] \in Busy => attempts'[cur[d]] = attempts[cur[d]]
    BY <2>2, <2>3
  <2>6. GivesUpOnlyAfterAllTries'
    BY <2>3, <2>4, OutboxAssumption
  <2> QED
    BY <2>1, <2>3, <2>4, <2>5, <2>6
<1>3. ASSUME NEW m \in Messages, EnqueueFails(m) PROVE Counted'
  BY <1>3 DEF EnqueueFails
<1>4. ASSUME NEW m \in Messages, LoseSpool(m) PROVE Counted'
  BY <1>4 DEF LoseSpool
<1>5. ASSUME NEW d \in Drainers, ClaimDue(d) PROVE Counted'
  <2>1. PICK B \in Batches : Claim(d, B)
    BY <1>5 DEF ClaimDue
  <2>2. B \subseteq Due
    BY DEF Batches
  <2> QED
    BY <1>5, <2>1, <2>2 DEF ClaimDue, Claim, Due
<1>6. ASSUME NEW d \in Drainers, NothingDue(d) PROVE Counted'
  BY <1>6 DEF NothingDue
<1>7. ASSUME NEW d \in Drainers, ClaimFails(d) PROVE Counted'
  BY <1>7 DEF ClaimFails
<1>8. ASSUME NEW d \in Drainers, Wake(d) PROVE Counted'
  BY <1>8 DEF Wake
<1>9. ASSUME NEW d \in Drainers, NEW m \in Messages, ReadSpool(d, m)
      PROVE  Counted'
  BY <1>9 DEF ReadSpool, Oldest
<1>10. ASSUME NEW d \in Drainers, NEW m \in Messages, Unreadable(d, m)
      PROVE  Counted'
  BY <1>10 DEF Unreadable, Oldest
<1>11. ASSUME NEW d \in Drainers, HostAccepts(d) PROVE Counted'
  BY <1>11 DEF HostAccepts
<1>12. ASSUME NEW d \in Drainers, HostRefuses(d) PROVE Counted'
  BY <1>12 DEF HostRefuses, TryNextHost
<1>13. ASSUME NEW d \in Drainers, HostAcceptsUnheard(d) PROVE Counted'
  BY <1>13 DEF HostAcceptsUnheard, TryNextHost
<1>14. ASSUME NEW d \in Drainers, RelayAborts(d) PROVE Counted'
  BY <1>14 DEF RelayAborts
<1>15. ASSUME NEW d \in Drainers, MarkDelivered(d) PROVE Counted'
  BY <1>15 DEF MarkDelivered, Finish
<1>16. ASSUME NEW d \in Drainers, MarkAttemptFailed(d) PROVE Counted'
  <2> DEFINE m == cur[d]
             n == attempts'[m]
  <2>1. m \in Messages /\ m \in held[d] /\ status[m] = "sending"
    BY <1>16 DEF MarkAttemptFailed
  <2>2. \A k \in Messages \ {m} : status'[k] = status[k] /\ attempts'[k] = attempts[k]
    BY <1>16 DEF MarkAttemptFailed, RecordFailure
  <2>3. /\ pc[d] = "unreadable" => n = MaxAttempts + 1
        /\ pc[d] = "refused" => n = attempts[m] + 1
        /\ status'[m] = IF n >= MaxAttempts THEN "failed" ELSE "pending"
    BY <1>16, <2>1, OutboxAssumption DEF MarkAttemptFailed, RecordFailure
  <2>4. pc[d] \in {"refused", "unreadable"}
    BY <1>16 DEF MarkAttemptFailed
  <2>5. UNCHANGED <<tries, spool, lost, misread, enq>>
    BY <1>16 DEF MarkAttemptFailed
  <2>6. /\ status'[m] = "pending" => n < MaxAttempts /\ n <= tries[m]
        /\ status'[m] = "failed" =>
              \/ n = MaxAttempts /\ tries[m] >= MaxAttempts
              \/ n = MaxAttempts + 1 /\ m \in lost \union misread
    <3>1. CASE pc[d] = "unreadable"
      BY <3>1, <2>3, OutboxAssumption
    <3>2. CASE pc[d] = "refused"
      <4>1. attempts[m] < tries[m] /\ attempts[m] < MaxAttempts
        BY <3>2, <2>1
      <4>2. attempts[m] \in Nat /\ tries[m] \in Nat /\ MaxAttempts \in Nat
        BY <2>1, OutboxAssumption
      <4>3. n = attempts[m] + 1 /\ status'[m] = IF n >= MaxAttempts THEN "failed" ELSE "pending"
        BY <3>2, <2>3
      <4> HIDE DEF m, n, Typed, TypeOK, DrainerShape, Claimed, Counted,
                   GivesUpOnlyAfterAllTries
      <4>4. n <= tries[m] /\ (n >= MaxAttempts => n = MaxAttempts)
        BY <4>1, <4>2, <4>3
      <4> QED
        BY <4>2, <4>3, <4>4
    <3> QED
      BY <3>1, <3>2, <2>4
  <2>7. GivesUpOnlyAfterAllTries' /\ QueuedHasSpool'
    BY <2>1, <2>2, <2>5, <2>6
  <2>8. \A k \in Messages :
          /\ status'[k] = "sending" => attempts'[k] < MaxAttempts
          /\ status'[k] \in {"pending", "sending"} => attempts'[k] <= tries'[k]
          /\ status'[k] = "absent" => attempts'[k] = 0
    BY <2>1, <2>2, <2>3, <2>5, <2>6
  <2>9. \A e \in Drainers \ {d} :
          /\ pc'[e] = pc[e] /\ cur'[e] = cur[e]
          /\ pc[e] \in Busy => attempts'[cur[e]] = attempts[cur[e]]
    BY <1>16, <2>1, <2>2 DEF MarkAttemptFailed, Finish
  <2>10. pc'[d] \notin Busy
    BY <1>16 DEF MarkAttemptFailed, Finish
  <2> QED
    BY <2>5, <2>7, <2>8, <2>9, <2>10
<1>17. ASSUME NEW d \in Drainers, MarkFails(d) PROVE Counted'
  BY <1>17 DEF MarkFails, Finish
<1>18. CASE Crash
  BY <1>18 DEF Crash, ProcessDies
<1>19. CASE Restart
  BY <1>19 DEF Restart
<1>20. CASE RequeueInterrupted
  BY <1>20 DEF RequeueInterrupted, ReturnToQueue, Interrupted
<1>21. CASE RequeueFails
  BY <1>21 DEF RequeueFails, ProcessDies
<1>22. CASE Tick
  BY <1>22 DEF Tick
<1>23. CASE UNCHANGED vars
  BY <1>23 DEF vars
<1> QED
  BY <1>1, <1>2, <1>3, <1>4, <1>5, <1>6, <1>7, <1>8, <1>9, <1>10, <1>11,
     <1>12, <1>13, <1>14, <1>15, <1>16, <1>17, <1>18, <1>19, <1>20, <1>21,
     <1>22, <1>23
  DEF Next, Enqueue, Poll, Deliver

\* The count of tries holds in every reachable state.
LEMMA CountedAlways == Spec => []Counted
<1>1. Init => Counted
  BY DEF Init, Counted, GivesUpOnlyAfterAllTries, QueuedHasSpool
<1>2. Typed /\ Claimed /\ Counted /\ [Next]_vars => Counted'
  BY NextCounted
<1> QED
  BY <1>1, <1>2, TypedAlways, ClaimedAlways, PTL DEF Spec

\* A message is given up only after max_attempts counted calls of the relay
\* or with a file that could not be read.
THEOREM GivesUpLate == Spec => []GivesUpOnlyAfterAllTries
<1>1. Counted => GivesUpOnlyAfterAllTries
  BY DEF Counted
<1> QED
  BY <1>1, CountedAlways, PTL

\* No row is without its file unless something outside the program removed it.
THEOREM RowsHaveFiles == Spec => []QueuedHasSpool
<1>1. Counted => QueuedHasSpool
  BY DEF Counted
<1> QED
  BY <1>1, CountedAlways, PTL

-----------------------------------------------------------------------------
(* Layer 5: no row is forgotten in `sending`.                              *)

\* While no statement fails, a row enters `sending` together with its drainer
\* and leaves it when the drainer lets it go.
LEMMA NextHeld ==
  ASSUME Typed, Claimed, NothingStranded, [Next]_vars
  PROVE  NothingStranded'
<1> USE DEF Typed, TypeOK, DrainerShape, Claimed, RowShape, ExclusiveClaim,
             SnapshotIsFresh, NothingStranded, Interrupted,
             Statuses, Settled, Busy, disk, rows, work, hist, fault
<1>1. ASSUME NEW m \in Messages, WriteSpool(m) PROVE NothingStranded'
  BY <1>1 DEF WriteSpool
<1>2. ASSUME NEW m \in Messages, InsertRow(m) PROVE NothingStranded'
  BY <1>2 DEF InsertRow, NewRow
<1>3. ASSUME NEW m \in Messages, EnqueueFails(m) PROVE NothingStranded'
  BY <1>3 DEF EnqueueFails
<1>4. ASSUME NEW m \in Messages, LoseSpool(m) PROVE NothingStranded'
  BY <1>4 DEF LoseSpool
<1>5. ASSUME NEW d \in Drainers, ClaimDue(d) PROVE NothingStranded'
  <2>1. PICK B \in Batches : Claim(d, B)
    BY <1>5 DEF ClaimDue
  <2>2. B \subseteq Due
    BY DEF Batches
  <2> QED
    BY <1>5, <2>1, <2>2 DEF ClaimDue, Claim, Due
<1>6. ASSUME NEW d \in Drainers, NothingDue(d) PROVE NothingStranded'
  BY <1>6 DEF NothingDue
<1>7. ASSUME NEW d \in Drainers, ClaimFails(d) PROVE NothingStranded'
  BY <1>7 DEF ClaimFails
<1>8. ASSUME NEW d \in Drainers, Wake(d) PROVE NothingStranded'
  BY <1>8 DEF Wake
<1>9. ASSUME NEW d \in Drainers, NEW m \in Messages, ReadSpool(d, m)
      PROVE  NothingStranded'
  BY <1>9 DEF ReadSpool, Oldest
<1>10. ASSUME NEW d \in Drainers, NEW m \in Messages, Unreadable(d, m)
      PROVE  NothingStranded'
  BY <1>10 DEF Unreadable, Oldest
<1>11. ASSUME NEW d \in Drainers, HostAccepts(d) PROVE NothingStranded'
  BY <1>11 DEF HostAccepts
<1>12. ASSUME NEW d \in Drainers, HostRefuses(d) PROVE NothingStranded'
  BY <1>12 DEF HostRefuses, TryNextHost
<1>13. ASSUME NEW d \in Drainers, HostAcceptsUnheard(d) PROVE NothingStranded'
  BY <1>13 DEF HostAcceptsUnheard, TryNextHost
<1>14. ASSUME NEW d \in Drainers, RelayAborts(d) PROVE NothingStranded'
  BY <1>14 DEF RelayAborts
<1>15. ASSUME NEW d \in Drainers, MarkDelivered(d) PROVE NothingStranded'
  BY <1>15 DEF MarkDelivered, Finish
<1>16. ASSUME NEW d \in Drainers, MarkAttemptFailed(d) PROVE NothingStranded'
  <2>1. \A m \in Messages \ {cur[d]} : status'[m] = status[m]
    BY <1>16 DEF MarkAttemptFailed, RecordFailure
  <2>2. cur[d] \in Messages /\ status'[cur[d]] # "sending"
    BY <1>16 DEF MarkAttemptFailed, RecordFailure
  <2>3. \A e \in Drainers : \A m \in held[e] \ {cur[d]} : m \in held'[e]
    BY <1>16 DEF MarkAttemptFailed, Finish
  <2>4. UNCHANGED <<proc, dbErrors>>
    BY <1>16 DEF MarkAttemptFailed
  <2> QED
    BY <2>1, <2>2, <2>3, <2>4
<1>17. ASSUME NEW d \in Drainers, MarkFails(d) PROVE NothingStranded'
  BY <1>17 DEF MarkFails, Finish
<1>18. CASE Crash
  BY <1>18 DEF Crash, ProcessDies
<1>19. CASE Restart
  BY <1>19 DEF Restart
<1>20. CASE RequeueInterrupted
  BY <1>20 DEF RequeueInterrupted, ReturnToQueue, Interrupted
<1>21. CASE RequeueFails
  BY <1>21 DEF RequeueFails, ProcessDies
<1>22. CASE Tick
  BY <1>22 DEF Tick
<1>23. CASE UNCHANGED vars
  BY <1>23 DEF vars
<1> QED
  BY <1>1, <1>2, <1>3, <1>4, <1>5, <1>6, <1>7, <1>8, <1>9, <1>10, <1>11,
     <1>12, <1>13, <1>14, <1>15, <1>16, <1>17, <1>18, <1>19, <1>20, <1>21,
     <1>22, <1>23
  DEF Next, Enqueue, Poll, Deliver

\* While the worker runs and no statement failed, every row in `sending` is
\* held by a drainer.
THEOREM NoneStranded == Spec => []NothingStranded
<1>1. Init => NothingStranded
  BY DEF Init, NothingStranded
<1>2. Typed /\ Claimed /\ NothingStranded /\ [Next]_vars => NothingStranded'
  BY NextHeld
<1> QED
  BY <1>1, <1>2, TypedAlways, ClaimedAlways, PTL DEF Spec

-----------------------------------------------------------------------------
(* Settled messages, and the promise.                                      *)

SettledStaysStep ==
    \A m \in Messages : status[m] \in Settled =>
        status'[m] = status[m] /\ copies'[m] = copies[m]

\* No step changes a settled row or sends a copy of its message.
LEMMA SettledStays ==
  ASSUME Typed, Claimed, [Next]_vars
  PROVE  SettledStaysStep
<1> USE DEF Typed, TypeOK, DrainerShape, Claimed, RowShape, ExclusiveClaim,
             SnapshotIsFresh, SettledStaysStep,
             Statuses, Settled, Busy, disk, rows, work, hist, fault
<1>1. ASSUME NEW m \in Messages, WriteSpool(m) PROVE SettledStaysStep
  BY <1>1 DEF WriteSpool
<1>2. ASSUME NEW m \in Messages, InsertRow(m) PROVE SettledStaysStep
  <2>1. enq[m] = "spooled" /\ copies' = copies
    BY <1>2 DEF InsertRow, NewRow
  <2>2. status[m] = "absent"
    BY <2>1
  <2>3. status' = [status EXCEPT ![m] = "pending"]
    BY <1>2 DEF InsertRow, NewRow
  <2> QED
    BY <2>1, <2>2, <2>3
<1>3. ASSUME NEW m \in Messages, EnqueueFails(m) PROVE SettledStaysStep
  BY <1>3 DEF EnqueueFails
<1>4. ASSUME NEW m \in Messages, LoseSpool(m) PROVE SettledStaysStep
  BY <1>4 DEF LoseSpool
<1>5. ASSUME NEW d \in Drainers, ClaimDue(d) PROVE SettledStaysStep
  <2>1. PICK B \in Batches : Claim(d, B)
    BY <1>5 DEF ClaimDue
  <2>2. B \subseteq Due
    BY DEF Batches
  <2> QED
    BY <1>5, <2>1, <2>2 DEF ClaimDue, Claim, Due
<1>6. ASSUME NEW d \in Drainers, NothingDue(d) PROVE SettledStaysStep
  BY <1>6 DEF NothingDue
<1>7. ASSUME NEW d \in Drainers, ClaimFails(d) PROVE SettledStaysStep
  BY <1>7 DEF ClaimFails
<1>8. ASSUME NEW d \in Drainers, Wake(d) PROVE SettledStaysStep
  BY <1>8 DEF Wake
<1>9. ASSUME NEW d \in Drainers, NEW m \in Messages, ReadSpool(d, m)
      PROVE  SettledStaysStep
  BY <1>9 DEF ReadSpool, Oldest
<1>10. ASSUME NEW d \in Drainers, NEW m \in Messages, Unreadable(d, m)
      PROVE  SettledStaysStep
  BY <1>10 DEF Unreadable, Oldest
<1>11. ASSUME NEW d \in Drainers, HostAccepts(d) PROVE SettledStaysStep
  BY <1>11 DEF HostAccepts
<1>12. ASSUME NEW d \in Drainers, HostRefuses(d) PROVE SettledStaysStep
  BY <1>12 DEF HostRefuses, TryNextHost
<1>13. ASSUME NEW d \in Drainers, HostAcceptsUnheard(d) PROVE SettledStaysStep
  BY <1>13 DEF HostAcceptsUnheard, TryNextHost
<1>14. ASSUME NEW d \in Drainers, RelayAborts(d) PROVE SettledStaysStep
  BY <1>14 DEF RelayAborts
<1>15. ASSUME NEW d \in Drainers, MarkDelivered(d) PROVE SettledStaysStep
  BY <1>15 DEF MarkDelivered, Finish
<1>16. ASSUME NEW d \in Drainers, MarkAttemptFailed(d) PROVE SettledStaysStep
  BY <1>16 DEF MarkAttemptFailed, RecordFailure, Finish
<1>17. ASSUME NEW d \in Drainers, MarkFails(d) PROVE SettledStaysStep
  BY <1>17 DEF MarkFails, Finish
<1>18. CASE Crash
  BY <1>18 DEF Crash, ProcessDies
<1>19. CASE Restart
  BY <1>19 DEF Restart
<1>20. CASE RequeueInterrupted
  BY <1>20 DEF RequeueInterrupted, ReturnToQueue, Interrupted
<1>21. CASE RequeueFails
  BY <1>21 DEF RequeueFails, ProcessDies
<1>22. CASE Tick
  BY <1>22 DEF Tick
<1>23. CASE UNCHANGED vars
  BY <1>23 DEF vars
<1> QED
  BY <1>1, <1>2, <1>3, <1>4, <1>5, <1>6, <1>7, <1>8, <1>9, <1>10, <1>11,
     <1>12, <1>13, <1>14, <1>15, <1>16, <1>17, <1>18, <1>19, <1>20, <1>21,
     <1>22, <1>23
  DEF Next, Enqueue, Poll, Deliver

\* No step revives, overwrites or sends a settled message.
THEOREM SettledForever == Spec => SettledIsFinal
<1>1. Typed /\ Claimed /\ [Next]_vars => SettledStaysStep
  BY SettledStays
<1> QED
  BY <1>1, TypedAlways, ClaimedAlways, PTL DEF Spec, SettledIsFinal, SettledStaysStep

\* What a step of the outbox is to the caller of enqueue.
PromiseStep == [Abstract!PromiseNext]_(Abstract!promise)

\* A step that adds no copy, and moves rows only between `pending` and
\* `sending`, is a stutter of the promise.
LEMMA MailStays ==
  ASSUME Typed, copies' = copies,
         \A m \in Messages : \/ status'[m] = status[m]
                             \/ {status[m], status'[m]} = {"pending", "sending"}
  PROVE  PromiseStep
<1>1. Mail' = Mail
  BY DEF Mail
<1> QED
  BY <1>1 DEF PromiseStep, Abstract!promise

\* What a status means to the promise, message by message.
LEMMA MailMoves ==
  ASSUME Typed, NEW m \in Messages, NEW s \in Statuses,
         status' = [status EXCEPT ![m] = s]
  PROVE  Mail' = [Mail EXCEPT ![m] = CASE s = "absent" -> "unseen"
                                       [] s \in {"pending", "sending"} -> "accepted"
                                       [] OTHER -> s]
BY DEF Mail, Typed, TypeOK

\* Every step of the outbox is a step of the promise or a stutter.
LEMMA StepKeepsPromise ==
  ASSUME Typed, Claimed, Accounted, [Next]_vars
  PROVE  PromiseStep
<1> USE DEF Typed, TypeOK, DrainerShape, Claimed, RowShape, ExclusiveClaim,
            Statuses, Busy, disk, rows, work, hist, fault
<1>1. ASSUME NEW m \in Messages, Enqueue(m) \/ LoseSpool(m)
      PROVE  PromiseStep
  <2>1. CASE InsertRow(m)
    <3>1. status[m] = "absent" /\ status' = [status EXCEPT ![m] = "pending"]
      BY <2>1 DEF InsertRow, NewRow
    <3>2. Mail[m] = "unseen" /\ Mail' = [Mail EXCEPT ![m] = "accepted"]
      BY <3>1, MailMoves DEF Mail
    <3>3. Abstract!Accept(m)
      BY <2>1, <3>2 DEF InsertRow, NewRow, Abstract!Accept
    <3> QED
      BY <3>3 DEF PromiseStep, Abstract!PromiseNext
  <2>2. CASE WriteSpool(m)
    BY <2>2, MailStays DEF WriteSpool
  <2>3. CASE EnqueueFails(m)
    BY <2>3, MailStays DEF EnqueueFails
  <2>4. CASE LoseSpool(m)
    BY <2>4, MailStays DEF LoseSpool
  <2> QED
    BY <1>1, <2>1, <2>2, <2>3, <2>4 DEF Enqueue
<1>2. ASSUME NEW d \in Drainers, Poll(d)
      PROVE  PromiseStep
  <2>1. CASE ClaimDue(d)
    <3>1. PICK B \in Batches : Claim(d, B)
      BY <2>1 DEF ClaimDue
    <3>2. \A m \in B : status[m] = "pending"
      BY DEF Batches, Due
    <3> QED
      BY <3>1, <3>2, MailStays DEF Claim
  <2>2. CASE NothingDue(d)
    BY <2>2, MailStays DEF NothingDue
  <2>3. CASE ClaimFails(d)
    BY <2>3, MailStays DEF ClaimFails
  <2>4. CASE Wake(d)
    BY <2>4, MailStays DEF Wake
  <2> QED
    BY <1>2, <2>1, <2>2, <2>3, <2>4 DEF Poll
<1>3. ASSUME NEW d \in Drainers, Deliver(d)
      PROVE  PromiseStep
  <2>1. CASE HostAccepts(d) \/ HostAcceptsUnheard(d)
    <3>1. cur[d] \in Messages /\ status[cur[d]] = "sending"
      BY <2>1 DEF HostAccepts, HostAcceptsUnheard
    <3>2. Mail[cur[d]] = "accepted" /\ Mail' = Mail
      BY <2>1, <3>1 DEF HostAccepts, HostAcceptsUnheard, Mail
    <3>3. Abstract!Transmit(cur[d])
      BY <2>1, <3>2 DEF HostAccepts, HostAcceptsUnheard, Abstract!Transmit
    <3> QED
      BY <3>1, <3>3 DEF PromiseStep, Abstract!PromiseNext
  <2>2. CASE MarkDelivered(d)
    <3>1. cur[d] \in Messages /\ status[cur[d]] = "sending" /\ copies[cur[d]] > 0
      BY <2>2 DEF MarkDelivered, Accounted
    <3>2. Mail[cur[d]] = "accepted" /\ Mail' = [Mail EXCEPT ![cur[d]] = "delivered"]
      BY <2>2, <3>1, MailMoves DEF MarkDelivered, Mail
    <3>3. Abstract!Deliver(cur[d])
      BY <2>2, <3>1, <3>2 DEF MarkDelivered, Abstract!Deliver
    <3> QED
      BY <3>1, <3>3 DEF PromiseStep, Abstract!PromiseNext
  <2>3. CASE MarkAttemptFailed(d)
    <3>1. cur[d] \in Messages /\ status[cur[d]] = "sending" /\ copies' = copies
      BY <2>3 DEF MarkAttemptFailed
    <3>2. PICK s \in {"failed", "pending"} : status' = [status EXCEPT ![cur[d]] = s]
      BY <2>3 DEF MarkAttemptFailed, RecordFailure
    <3>3. CASE s = "pending"
      BY <3>1, <3>2, <3>3, MailStays
    <3>4. CASE s = "failed"
      <4>1. Mail[cur[d]] = "accepted" /\ Mail' = [Mail EXCEPT ![cur[d]] = "failed"]
        BY <3>1, <3>2, <3>4, MailMoves DEF Mail
      <4>2. Abstract!GiveUp(cur[d])
        BY <3>1, <4>1 DEF Abstract!GiveUp
      <4> QED
        BY <3>1, <4>2 DEF PromiseStep, Abstract!PromiseNext
    <3> QED
      BY <3>2, <3>3, <3>4
  <2>4. CASE \E m \in Messages : ReadSpool(d, m) \/ Unreadable(d, m)
    BY <2>4, MailStays DEF ReadSpool, Unreadable
  <2>5. CASE HostRefuses(d) \/ RelayAborts(d)
    BY <2>5, MailStays DEF HostRefuses, RelayAborts
  <2>6. CASE MarkFails(d)
    BY <2>6, MailStays DEF MarkFails
  <2> QED
    BY <1>3, <2>1, <2>2, <2>3, <2>4, <2>5, <2>6 DEF Deliver
<1>4. CASE Crash \/ RequeueFails
  BY <1>4, MailStays DEF Crash, RequeueFails, ProcessDies
<1>5. CASE Restart \/ Tick
  BY <1>5, MailStays DEF Restart, Tick
<1>6. CASE RequeueInterrupted
  BY <1>6, MailStays DEF RequeueInterrupted, ReturnToQueue, Interrupted
<1>7. CASE UNCHANGED vars
  BY <1>7, MailStays DEF vars
<1> QED
  BY <1>1, <1>2, <1>3, <1>4, <1>5, <1>6, <1>7 DEF Next

\* The outbox implements the safety part of DeliveryPromise: a message is
\* accepted once, settles once, as delivered only after a copy was taken, and
\* no copy leaves before the first or after the second.
THEOREM OutboxKeepsPromise == Spec => Abstract!PromiseSafety
<1>1. Init => Abstract!PromiseInit
  BY DEF Init, Abstract!PromiseInit, Mail
<1>2. Typed /\ Claimed /\ Accounted /\ [Next]_vars => PromiseStep
  BY StepKeepsPromise
<1> QED
  BY <1>1, <1>2, TypedAlways, ClaimedAlways, AccountedAlways, PTL
  DEF Spec, PromiseStep, Abstract!PromiseSafety
=============================================================================
