------------------------- MODULE Weiterleitung_proofs -------------------------
(***************************************************************************)
(* Proofs about the whole server, for any number of recipients, tries and  *)
(* faults.  What the outbox does is cited from Outbox_proofs: every step   *)
(* of the composition is a step of the outbox or leaves it alone, so each  *)
(* theorem about Spec is one about MailSpec.                               *)
(***************************************************************************)
EXTENDS Weiterleitung, Outbox_proofs

-----------------------------------------------------------------------------
(* Layer 1: types, and the composition as an outbox.                       *)

\* The envelope of a session after RCPT TO.
LEMMA NamedMore ==
  ASSUME MailTypeOK, NEW t \in Tries, NEW r \in Recipients,
         env' = [env EXCEPT ![t] = Append(@, r)]
  PROVE  /\ env' \in [Tries -> Seq(Recipients)]
         /\ Named(t)' = Named(t) \union {r}
         /\ \A s \in Tries \ {t} : Named(s)' = Named(s)
<1>1. env[t] \in Seq(Recipients) /\ env'[t] = Append(env[t], r)
  BY DEF MailTypeOK
<1>2. /\ Append(env[t], r) \in Seq(Recipients)
      /\ Len(Append(env[t], r)) = Len(env[t]) + 1
      /\ Append(env[t], r)[Len(env[t]) + 1] = r
      /\ \A i \in 1..Len(env[t]) : Append(env[t], r)[i] = env[t][i]
      /\ Len(env[t]) \in Nat
  BY <1>1
<1>3. Named(t)' = Named(t) \union {r}
  <2>1. Named(t)' = {env'[t][i] : i \in 1..Len(env'[t])}
    BY DEF Named
  <2>2. 1..Len(env'[t]) = 1..Len(env[t]) \union {Len(env[t]) + 1}
    BY <1>1, <1>2
  <2> QED
    BY <1>1, <1>2, <2>1, <2>2 DEF Named
<1>4. \A s \in Tries \ {t} : Named(s)' = Named(s)
  BY DEF Named, MailTypeOK
<1>5. env' \in [Tries -> Seq(Recipients)]
  BY <1>2 DEF MailTypeOK
<1> QED
  BY <1>3, <1>4, <1>5

\* What handle is at is a recipient of its envelope.
LEMMA CopyType ==
  ASSUME MailTypeOK, NEW t \in Tries, stage[t] \in {"queue", "count"}
  PROVE  /\ Copy(t) \in Messages
         /\ env[t][at[t]] \in Named(t)
         /\ Copy(t) = <<t, env[t][at[t]]>>
  BY MailAssumption DEF MailTypeOK, Copy, Named

\* The client starts with every recipient, and no session.
LEMMA MailInitTyped == MailInit => MailTypeOK
<1> SUFFICES ASSUME MailInit PROVE MailTypeOK
  OBVIOUS
<1>1. <<>> \in Seq(Recipients)
  OBVIOUS
<1> QED
  BY <1>1, MailAssumption DEF MailInit, MailTypeOK

\* Every step keeps the types, and handle inside its envelope.
LEMMA MailNextTyped ==
  ASSUME MailTypeOK, [MailNext]_<<vars, mail>>
  PROVE  MailTypeOK'
<1> USE MailAssumption DEF MailTypeOK, connection
<1>1. CASE Connect
  BY <1>1 DEF Connect, Tries
<1>2. ASSUME NEW t \in Tries, Break(t) PROVE MailTypeOK'
  BY <1>2 DEF Break
<1>3. ASSUME NEW t \in Tries, NEW r \in Recipients, RcptTo(t, r) PROVE MailTypeOK'
  <2>1. CASE UNCHANGED env
    BY <1>3, <2>1 DEF RcptTo
  <2>2. CASE env' = [env EXCEPT ![t] = Append(@, r)]
    BY <1>3, <2>2, NamedMore DEF RcptTo
  <2> QED
    BY <1>3, <2>1, <2>2 DEF RcptTo
<1>4. ASSUME NEW t \in Tries, SendData(t) PROVE MailTypeOK'
  <2>1. env[t] \in Seq(Recipients) /\ env[t] # <<>>
    BY <1>4 DEF SendData
  <2>2. Len(env[t]) \in Nat /\ Len(env[t]) # 0
    BY <2>1
  <2> QED
    BY <1>4, <2>2 DEF SendData
<1>5. ASSUME NEW t \in Tries, Fail(t) PROVE MailTypeOK'
  BY <1>5 DEF Fail
<1>6. ASSUME NEW t \in Tries, QueueRow(t) PROVE MailTypeOK'
  BY <1>6 DEF QueueRow
<1>7. ASSUME NEW t \in Tries, CountCopy(t) PROVE MailTypeOK'
  <2>1. CASE at[t] < Len(env[t])
    <3>1. at[t] \in 1..Len(env[t]) /\ Len(env[t]) \in Nat
      <4>1. stage[t] = "count" /\ env[t] \in Seq(Recipients)
        BY <1>7 DEF CountCopy
      <4> QED
        BY <4>1
    <3>2. at[t] + 1 \in 1..Len(env[t])
      BY <2>1, <3>1
    <3>3. /\ at' = [at EXCEPT ![t] = at[t] + 1]
          /\ stage' = [stage EXCEPT ![t] = "queue"]
          /\ UNCHANGED <<client, bounced, tried, env, heard, failures>>
      BY <1>7, <2>1 DEF CountCopy
    <3> QED
      BY <3>2, <3>3
  <2>2. CASE Acknowledge(t)
    BY <2>2 DEF Acknowledge
  <2> QED
    BY <1>7, <2>1, <2>2 DEF CountCopy
<1>8. CASE Hangup
  BY <1>8 DEF Hangup
<1>9. CASE UNCHANGED mail
  BY <1>9 DEF mail
<1> QED
  BY <1>1, <1>2, <1>3, <1>4, <1>5, <1>6, <1>7, <1>8, <1>9
  DEF MailNext, Session, NoRoute, QueueFile, QueueFails, CountFails, ProcessEnds, Worker

\* Every step is one of the outbox, or none of it.
LEMMA MailStepIsStep ==
  ASSUME MailTypeOK, [MailNext]_<<vars, mail>>
  PROVE  [Next]_vars
<1>1. ASSUME NEW t \in Tries, QueueFile(t) \/ QueueRow(t) \/ QueueFails(t) PROVE Next
  <2>1. Copy(t) \in Messages
    BY <1>1, CopyType DEF QueueFile, QueueRow, QueueFails
  <2>2. Enqueue(Copy(t))
    BY <1>1 DEF QueueFile, QueueRow, QueueFails, Enqueue
  <2> QED
    BY <2>1, <2>2 DEF Next
<1>2. CASE ProcessEnds \/ Worker
  BY <1>2 DEF ProcessEnds, Worker, Next
<1>3. CASE Connect
  BY <1>3 DEF Connect
<1>4. ASSUME NEW t \in Tries,
             Break(t) \/ SendData(t) \/ NoRoute(t) \/ CountCopy(t) \/ CountFails(t)
      PROVE  UNCHANGED vars
  BY <1>4 DEF Break, SendData, NoRoute, CountCopy, CountFails
<1>5. ASSUME NEW t \in Tries, NEW r \in Recipients, RcptTo(t, r) PROVE UNCHANGED vars
  BY <1>5 DEF RcptTo
<1> QED
  BY <1>1, <1>2, <1>3, <1>4, <1>5 DEF MailNext, Session

\* Every variable of the composition keeps its type.
THEOREM MailTypeCorrect == MailSpec => []MailTypeOK
  BY MailInitTyped, MailNextTyped, PTL DEF MailSpec

\* The composition drives the outbox as Outbox says, so that every theorem about
\* Spec holds of the whole server.
THEOREM MailRunsOutbox == MailSpec => Spec
<1>1. MailInit => Init
  BY DEF MailInit
<1>2. MailTypeOK /\ [MailNext]_<<vars, mail>> => [Next]_vars
  BY MailStepIsStep
<1> QED
  BY <1>1, <1>2, MailTypeCorrect, PTL DEF MailSpec, Spec

-----------------------------------------------------------------------------
(* Layer 2: what was acknowledged is queued.  AckedIsQueued is not         *)
(* inductive: handle has the rows of all recipients before the one it is   *)
(* at, and nobody says 250 before it is over.                              *)

Progress ==
    /\ \A t \in Tries : t > tried => stage[t] = "new" /\ env[t] = <<>>
    /\ \A t \in Tries : heard[t] = "250" => stage[t] = "over"
    /\ \A t \in Tries :
          /\ stage[t] \in {"queue", "count"} =>
                \A i \in 1..(at[t] - 1) : <<t, env[t][i]>> \in Taken
          /\ stage[t] = "count" => <<t, env[t][at[t]]>> \in Taken
    /\ AckedIsQueued

\* A row that is there stays.
LEMMA TakenStays ==
  ASSUME Typed, [Next]_vars
  PROVE  Taken \subseteq Taken'
<1> USE DEF Typed, TypeOK, DrainerShape, Taken, Statuses, Settled, Busy,
            disk, rows, work, hist, fault
<1>1. ASSUME NEW m \in Messages, Enqueue(m) \/ LoseSpool(m) PROVE Taken \subseteq Taken'
  BY <1>1 DEF Enqueue, WriteSpool, InsertRow, NewRow, EnqueueFails, LoseSpool
<1>2. ASSUME NEW d \in Drainers, Poll(d) PROVE Taken \subseteq Taken'
  BY <1>2 DEF Poll, ClaimDue, Claim, NothingDue, ClaimFails, Wake
<1>3. ASSUME NEW d \in Drainers, Deliver(d) PROVE Taken \subseteq Taken'
  <2>1. CASE MarkAttemptFailed(d)
    BY <2>1 DEF MarkAttemptFailed, RecordFailure
  <2>2. CASE MarkDelivered(d)
    BY <2>2 DEF MarkDelivered
  <2>3. CASE status' = status
    BY <2>3
  <2> QED
    BY <1>3, <2>1, <2>2, <2>3
    DEF Deliver, ReadSpool, Unreadable, HostAccepts, HostRefuses, HostAcceptsUnheard,
        RelayAborts, MarkFails
<1>4. CASE Crash \/ Restart \/ RequeueFails \/ Tick \/ UNCHANGED vars
  BY <1>4 DEF Crash, Restart, RequeueFails, ProcessDies, Tick, vars
<1>5. CASE RequeueInterrupted
  BY <1>5 DEF RequeueInterrupted, ReturnToQueue
<1> QED
  BY <1>1, <1>2, <1>3, <1>4, <1>5 DEF Next

\* Every step keeps handle's progress and what the client was told of it.
LEMMA NextProgress ==
  ASSUME Typed, MailTypeOK, Progress, [MailNext]_<<vars, mail>>
  PROVE  Progress'
<1> USE DEF MailTypeOK, Progress, AckedIsQueued, connection
<1>1. Taken \subseteq Taken'
  BY MailStepIsStep, TakenStays
<1> HIDE DEF Taken
<1>2. CASE Connect
  BY <1>1, <1>2 DEF Connect, Tries, Named
<1>3. ASSUME NEW t \in Tries, Break(t) PROVE Progress'
  BY <1>1, <1>3 DEF Break, Named
<1>4. ASSUME NEW t \in Tries, NEW r \in Recipients, RcptTo(t, r) PROVE Progress'
  <2>1. CASE UNCHANGED env
    BY <1>1, <1>4, <2>1 DEF RcptTo, Named
  <2>2. CASE env' = [env EXCEPT ![t] = Append(@, r)]
    <3>1. stage[t] = "rcpt" /\ UNCHANGED <<tried, stage, at, heard>>
      BY <1>4 DEF RcptTo
    <3>2. \A s \in Tries \ {t} : env'[s] = env[s] /\ Named(s)' = Named(s)
      BY <2>2, NamedMore
    <3> QED
      BY <1>1, <3>1, <3>2 DEF Tries, MailAssumption
  <2> QED
    BY <1>4, <2>1, <2>2 DEF RcptTo
<1>5. ASSUME NEW t \in Tries, SendData(t) PROVE Progress'
  BY <1>1, <1>5 DEF SendData, Named
<1>6. ASSUME NEW t \in Tries, Fail(t), stage[t] # "new" PROVE Progress'
  BY <1>1, <1>6 DEF Fail, Named
<1>7. ASSUME NEW t \in Tries, QueueRow(t) PROVE Progress'
  <2>1. Copy(t) \in Messages /\ status' = [status EXCEPT ![Copy(t)] = "pending"]
    BY <1>7, CopyType DEF QueueRow, InsertRow, NewRow
  <2>2. Copy(t) \in Taken'
    BY <2>1 DEF Taken, Typed, TypeOK
  <2> QED
    BY <1>1, <1>7, <2>2 DEF QueueRow, Copy, Named
<1>8. ASSUME NEW t \in Tries, CountCopy(t) PROVE Progress'
  <2>1. /\ stage[t] = "count" /\ at[t] \in 1..Len(env[t]) /\ Len(env[t]) \in Nat
        /\ \A i \in 1..at[t] : <<t, env[t][i]>> \in Taken
    <3>1. stage[t] = "count" /\ at[t] \in 1..Len(env[t]) /\ env[t] \in Seq(Recipients)
      BY <1>8 DEF CountCopy
    <3>2. Len(env[t]) \in Nat
      BY <3>1
    <3>3. \A i \in 1..at[t] : i \in 1..(at[t] - 1) \/ i = at[t]
      BY <3>1, <3>2
    <3>4. /\ \A i \in 1..(at[t] - 1) : <<t, env[t][i]>> \in Taken
          /\ <<t, env[t][at[t]]>> \in Taken
      BY <3>1
    <3> QED
      BY <3>1, <3>2, <3>3, <3>4
  <2>2. CASE at[t] < Len(env[t])
    <3>1. /\ at' = [at EXCEPT ![t] = at[t] + 1]
          /\ stage' = [stage EXCEPT ![t] = "queue"]
          /\ UNCHANGED <<client, bounced, tried, env, heard, failures>>
      BY <1>8, <2>2 DEF CountCopy
    <3>2. \A r \in Tries \ {t} : stage'[r] = stage[r] /\ at'[r] = at[r]
      BY <3>1
    <3>3. /\ stage'[t] = "queue" /\ stage[t] # "new" /\ heard[t] # "250"
          /\ at'[t] - 1 = at[t]
      BY <2>1, <3>1
    <3> QED
      BY <1>1, <2>1, <3>1, <3>2, <3>3 DEF Named
  <2>3. CASE Acknowledge(t) /\ ~(at[t] < Len(env[t]))
    <3>1. \A r \in Named(t) : <<t, r>> \in Taken
      BY <2>1, <2>3 DEF Named
    <3> QED
      BY <1>1, <2>1, <2>3, <3>1 DEF Acknowledge, Named
  <2> QED
    BY <1>8, <2>2, <2>3 DEF CountCopy
<1>9. CASE Hangup
  <2>1. \A t \in Tries : ~(t <= tried) <=> t > tried
    BY MailAssumption DEF Tries
  <2>2. \A t \in Tries : heard'[t] = "250" => heard[t] = "250" /\ t <= tried
    BY <1>9, <2>1 DEF Hangup
  <2>3. \A t \in Tries : stage'[t] = IF t <= tried THEN "over" ELSE "new"
    BY <1>9 DEF Hangup
  <2>4. UNCHANGED <<tried, env, at>>
    BY <1>9 DEF Hangup
  <2> QED
    BY <1>1, <2>1, <2>2, <2>3, <2>4 DEF Named
<1>10. CASE UNCHANGED mail
  BY <1>1, <1>10 DEF mail, Named
<1> QED
  BY <1>2, <1>3, <1>4, <1>5, <1>6, <1>7, <1>8, <1>9, <1>10
  DEF MailNext, Session, NoRoute, QueueFile, QueueFails, CountFails, ProcessEnds, Worker

\* The types of the outbox hold in the composition.
LEMMA TypedInMail == MailSpec => []Typed
  BY MailRunsOutbox, TypedAlways, PTL

\* handle's progress holds in every reachable state.
LEMMA ProgressAlways == MailSpec => []Progress
<1>1. MailInit => Progress
  BY MailAssumption DEF MailInit, Progress, AckedIsQueued
<1>2. Typed /\ MailTypeOK /\ Progress /\ [MailNext]_<<vars, mail>> => Progress'
  BY NextProgress
<1> QED
  BY <1>1, <1>2, MailTypeCorrect, TypedInMail, PTL DEF MailSpec

\* 250 is the truth: every recipient of the envelope has its row in the queue,
\* whatever failed or died in handle, in the outbox or in the process.
THEOREM AcknowledgedIsQueued == MailSpec => []AckedIsQueued
<1>1. Progress => AckedIsQueued
  BY DEF Progress
<1> QED
  BY <1>1, ProgressAlways, PTL

-----------------------------------------------------------------------------
(* Layer 3: no copy without a cause.  The client asks one try at a time    *)
(* and never again for what 250 settled, so a recipient of an acknowledged *)
(* try is in no later envelope.                                            *)

Unsent == \A m \in Messages : status[m] = "absent" => copies[m] = 0

Causes ==
    /\ \A t \in Tries : t < tried => heard[t] # "nothing"
    /\ \A s \in Tries : heard[s] = "250" =>
          /\ client \intersect Named(s) = {}
          /\ \A t \in Tries : t > s => Named(s) \intersect Named(t) = {}
    /\ \A t \in Tries, r \in Recipients :
          enq[<<t, r>>] # "new" => r \in Named(t) /\ stage[t] \notin {"new", "rcpt"}

\* Without a row no host is given a copy.
LEMMA UnsentAlways == Spec => []Unsent
<1>1. Init => Unsent
  BY DEF Init, Unsent
<1>2. ASSUME Typed, Claimed, Unsent, [Next]_vars PROVE Unsent'
  <2> USE DEF Typed, TypeOK, DrainerShape, Claimed, ExclusiveClaim, Unsent, Busy,
              disk, rows, work, hist, fault
  <2>1. \A m \in Messages : status'[m] = "absent" => status[m] = "absent"
    BY <1>2, TakenStays DEF Taken
  <2>2. ASSUME NEW d \in Drainers, HostAccepts(d) \/ HostAcceptsUnheard(d) PROVE Unsent'
    <3>1. cur[d] \in Messages /\ status[cur[d]] = "sending" /\ status' = status
      BY <1>2, <2>2 DEF HostAccepts, HostAcceptsUnheard
    <3>2. copies' = [copies EXCEPT ![cur[d]] = @ + 1]
      BY <2>2 DEF HostAccepts, HostAcceptsUnheard
    <3> QED
      BY <1>2, <3>1, <3>2
  <2>3. CASE copies' = copies
    BY <1>2, <2>1, <2>3
  <2>4. ASSUME NEW d \in Drainers, Poll(d) PROVE copies' = copies
    BY <2>4 DEF Poll, ClaimDue, Claim, NothingDue, ClaimFails, Wake
  <2>5. ASSUME NEW d \in Drainers, Deliver(d) PROVE Unsent'
    BY <2>2, <2>3, <2>5
    DEF Deliver, ReadSpool, Unreadable, HostRefuses, RelayAborts, MarkDelivered,
        MarkAttemptFailed, MarkFails
  <2>6. ASSUME NEW m \in Messages, Enqueue(m) \/ LoseSpool(m) PROVE copies' = copies
    BY <2>6 DEF Enqueue, WriteSpool, InsertRow, NewRow, EnqueueFails, LoseSpool
  <2>7. CASE Crash \/ Restart \/ RequeueInterrupted \/ RequeueFails \/ Tick \/ UNCHANGED vars
    <3>1. copies' = copies
      BY <2>7 DEF Crash, Restart, RequeueInterrupted, ReturnToQueue, RequeueFails,
                  ProcessDies, Tick, vars
    <3> QED
      BY <2>3, <3>1
  <2> QED
    BY <1>2, <2>3, <2>4, <2>5, <2>6, <2>7 DEF Next
<1>3. Typed /\ Claimed /\ Unsent /\ [Next]_vars => Unsent'
  BY <1>2
<1> QED
  BY <1>1, <1>3, TypedAlways, ClaimedAlways, PTL DEF Spec

\* The worker and the clock leave the calls of enqueue alone.
LEMMA WorkerCallsNone ==
  ASSUME Worker
  PROVE  UNCHANGED enq
<1> USE DEF disk
<1>1. ASSUME NEW d \in Drainers, Poll(d) \/ Deliver(d) PROVE enq' = enq
  BY <1>1
  DEF Poll, ClaimDue, Claim, NothingDue, ClaimFails, Wake, Deliver, ReadSpool, Unreadable,
      HostAccepts, HostRefuses, HostAcceptsUnheard, RelayAborts, MarkDelivered,
      MarkAttemptFailed, MarkFails
<1>2. CASE Restart \/ RequeueInterrupted \/ Tick \/ \E m \in Messages : LoseSpool(m)
  BY <1>2 DEF Restart, RequeueInterrupted, ReturnToQueue, Tick, LoseSpool
<1> QED
  BY <1>1, <1>2 DEF Worker

\* Every step keeps the tries apart.
LEMMA NextCauses ==
  ASSUME Typed, MailTypeOK, Progress, Causes, [MailNext]_<<vars, mail>>
  PROVE  Causes'
<1> USE DEF Causes, connection
<1> DEFINE Apart == /\ UNCHANGED <<client, tried, env>>
                    /\ \A t \in Tries : /\ heard'[t] = "nothing" => heard[t] = "nothing"
                                        /\ heard'[t] = "250" => heard[t] = "250"
                    /\ \A t \in Tries, r \in Recipients : enq'[<<t, r>>] # "new" =>
                          \/ enq[<<t, r>>] # "new"
                          \/ r \in Named(t) /\ stage[t] \notin {"new", "rcpt"}
                    /\ \A t \in Tries : stage[t] \notin {"new", "rcpt"} =>
                                         stage'[t] \notin {"new", "rcpt"}
<1>0. UNCHANGED env => \A t \in Tries : Named(t)' = Named(t)
  BY DEF Named
<1>1. Apart => Causes'
  <2> SUFFICES ASSUME Apart PROVE Causes'
    OBVIOUS
  <2>1. \A t \in Tries : t < tried' => heard'[t] # "nothing"
    OBVIOUS
  <2>2. \A s \in Tries : heard'[s] = "250" =>
          /\ client' \intersect Named(s)' = {}
          /\ \A t \in Tries : t > s => Named(s)' \intersect Named(t)' = {}
    BY <1>0
  <2>3. \A t \in Tries, r \in Recipients :
          enq'[<<t, r>>] # "new" => r \in Named(t)' /\ stage'[t] \notin {"new", "rcpt"}
    BY <1>0
  <2> QED
    BY <2>1, <2>2, <2>3
<1>2. CASE Connect
  <2>1. /\ tried' = tried + 1 /\ tried \in 0..MaxTries /\ MaxTries \in Nat
        /\ UNCHANGED <<client, env, heard, enq>>
        /\ stage' = [stage EXCEPT ![tried + 1] = "rcpt"]
        /\ tried + 1 \in Tries /\ stage[tried + 1] = "new"
    BY <1>2, MailAssumption DEF Connect, vars, disk, MailTypeOK, Tries, Progress
  <2>2. \A t \in Tries : t < tried' => heard[t] # "nothing"
    BY <1>2, <2>1 DEF Connect, AtLeisure, Tries
  <2>3. \A t \in Tries : stage[t] \notin {"new", "rcpt"} => stage'[t] \notin {"new", "rcpt"}
    BY <2>1 DEF MailTypeOK
  <2> QED
    BY <1>0, <2>1, <2>2, <2>3
<1>3. ASSUME NEW t \in Tries, Break(t) PROVE Causes'
  BY <1>1, <1>3 DEF Break, vars, disk, MailTypeOK
<1>4. ASSUME NEW t \in Tries, NEW r \in Recipients, RcptTo(t, r) PROVE Causes'
  <2>1. /\ stage[t] = "rcpt" /\ r \in client
        /\ UNCHANGED <<tried, stage, heard, enq>>
        /\ client' \subseteq client
    BY <1>4 DEF RcptTo, vars, disk
  <2>2. CASE UNCHANGED env
    BY <1>0, <2>1, <2>2
  <2>3. CASE env' = [env EXCEPT ![t] = Append(@, r)]
    <3>1. /\ Named(t)' = Named(t) \union {r}
          /\ \A s \in Tries \ {t} : Named(s)' = Named(s)
      BY <2>3, NamedMore
    <3>2. heard[t] # "250"
      BY <2>1 DEF Progress
    <3>3. \A s \in Tries : heard[s] = "250" => r \notin Named(s)
      BY <2>1
    <3>4. \A s \in Tries : heard[s] = "250" =>
             /\ s # t /\ Named(s)' = Named(s)
             /\ \A u \in Tries : u > s => Named(s) \intersect Named(u)' = {}
      BY <3>1, <3>2, <3>3
    <3>5. \A s \in Tries : Named(s) \subseteq Named(s)'
      BY <3>1
    <3> QED
      BY <2>1, <3>4, <3>5
  <2> QED
    BY <1>4, <2>2, <2>3 DEF RcptTo
<1>5. ASSUME NEW t \in Tries, SendData(t) PROVE Causes'
  BY <1>1, <1>5 DEF SendData, vars, disk, MailTypeOK
<1>6. ASSUME NEW t \in Tries, NoRoute(t) \/ CountFails(t) PROVE Causes'
  BY <1>1, <1>6, SMTT(20) DEF NoRoute, CountFails, Fail, vars, disk, MailTypeOK
<1>7. ASSUME NEW t \in Tries, QueueFile(t) \/ QueueRow(t) \/ QueueFails(t) PROVE Causes'
  <2>1. /\ Copy(t) \in Messages /\ env[t][at[t]] \in Named(t)
        /\ Copy(t) = <<t, env[t][at[t]]>> /\ stage[t] = "queue"
    BY <1>7, CopyType DEF QueueFile, QueueRow, QueueFails
  <2>2. PICK e : enq' = [enq EXCEPT ![Copy(t)] = e]
    BY <1>7 DEF QueueFile, QueueRow, QueueFails, WriteSpool, InsertRow, NewRow, EnqueueFails
  <2>3. \A u \in Tries, r \in Recipients : enq'[<<u, r>>] # "new" =>
           enq[<<u, r>>] # "new" \/ (u = t /\ r \in Named(t))
    BY <2>1, <2>2, MailAssumption DEF Typed, TypeOK
  <2>4. \/ UNCHANGED mail
        \/ /\ stage' = [stage EXCEPT ![t] = "count"]
           /\ UNCHANGED <<client, bounced, tried, env, at, heard, failures>>
        \/ Fail(t)
    BY <1>7 DEF QueueFile, QueueRow, QueueFails
  <2>5. /\ UNCHANGED <<client, tried, env>>
        /\ \A u \in Tries : /\ heard'[u] = "nothing" => heard[u] = "nothing"
                            /\ heard'[u] = "250" => heard[u] = "250"
                            /\ stage[u] \notin {"new", "rcpt"} => stage'[u] \notin {"new", "rcpt"}
    BY <2>1, <2>4 DEF Fail, mail, MailTypeOK
  <2> QED
    BY <1>1, <2>1, <2>3, <2>5
<1>8. ASSUME NEW t \in Tries, CountCopy(t) PROVE Causes'
  <2>1. stage[t] = "count" /\ UNCHANGED enq
    BY <1>8 DEF CountCopy, vars, disk
  <2>2. CASE UNCHANGED <<client, bounced, tried, env, heard, failures>>
    BY <1>1, <1>8, <2>1, <2>2 DEF CountCopy, Acknowledge, MailTypeOK
  <2>3. CASE Acknowledge(t) /\ heard[t] # "nothing"
    BY <1>1, <2>1, <2>3 DEF Acknowledge, MailTypeOK
  <2>4. CASE Acknowledge(t) /\ heard[t] = "nothing"
    <3>1. /\ heard' = [heard EXCEPT ![t] = "250"] /\ client' = client \ Named(t)
          /\ stage' = [stage EXCEPT ![t] = "over"]
          /\ UNCHANGED <<tried, env>>
      BY <2>4 DEF Acknowledge
    <3>2. ~(t < tried)
      BY <2>4
    <3>3. \A u \in Tries : u > t => Named(u) = {}
      <4>1. ASSUME NEW u \in Tries, u > t PROVE Named(u) = {}
        <5>1. u > tried
          BY <3>2, <4>1, MailAssumption DEF Tries, MailTypeOK
        <5>2. Len(env[u]) = 0
          BY <5>1 DEF Progress
        <5> QED
          BY <5>2 DEF Named
      <4> QED
        BY <4>1
    <3>4. \A u \in Tries : Named(u)' = Named(u)
      BY <3>1 DEF Named
    <3>5. \A u \in Tries : u # t => heard'[u] = heard[u] /\ stage'[u] = stage[u]
      BY <3>1 DEF MailTypeOK
    <3>6. heard'[t] = "250" /\ stage'[t] = "over"
      BY <3>1 DEF MailTypeOK
    <3> QED
      BY <2>1, <3>1, <3>3, <3>4, <3>5, <3>6
  <2> QED
    BY <1>8, <2>2, <2>3, <2>4 DEF CountCopy, Acknowledge
<1>9. CASE ProcessEnds
  <2>1. \A t \in Tries, r \in Recipients : enq'[<<t, r>>] # "new" => enq[<<t, r>>] # "new"
    BY <1>9, MailAssumption DEF ProcessEnds, Crash, RequeueFails, ProcessDies, Typed, TypeOK
  <2>2. \A t \in Tries : stage[t] # "new" => t <= tried
    <3> HIDE DEF Causes, Apart
    <3>1. tried \in Nat /\ \A t \in Tries : t \in Nat
      BY MailAssumption DEF Tries, MailTypeOK
    <3>2. \A t \in Tries : t > tried => stage[t] = "new"
      BY DEF Progress
    <3> QED
      BY <3>1, <3>2
  <2>3. \A t \in Tries : stage[t] # "new" => stage'[t] = "over"
    BY <1>9, <2>2 DEF ProcessEnds, Hangup
  <2>4. /\ UNCHANGED <<client, tried, env>>
        /\ \A t \in Tries : /\ heard'[t] = "nothing" => heard[t] = "nothing"
                            /\ heard'[t] = "250" => heard[t] = "250"
    BY <1>9 DEF ProcessEnds, Hangup
  <2> QED
    BY <1>1, <2>1, <2>3, <2>4
<1>10. CASE Worker
  <2>1. UNCHANGED enq
    BY <1>10, WorkerCallsNone
  <2>2. UNCHANGED <<client, tried, env, heard, stage>>
    BY <1>10 DEF Worker, mail
  <2> QED
    BY <1>1, <2>1, <2>2
<1>11. CASE UNCHANGED <<vars, mail>>
  BY <1>1, <1>11 DEF vars, disk, mail
<1> QED
  BY <1>2, <1>3, <1>4, <1>5, <1>6, <1>7, <1>8, <1>9, <1>10, <1>11
  DEF MailNext, Session

\* The tries stay apart in every reachable state.
LEMMA CausesAlways == MailSpec => []Causes
<1>1. ASSUME MailInit PROVE Causes
  <2>1. \A t \in Tries : ~(t < tried) /\ heard[t] = "nothing"
    BY <1>1 DEF MailInit, Tries
  <2>2. \A t \in Tries, r \in Recipients : enq[<<t, r>>] = "new"
    BY <1>1, MailAssumption DEF MailInit, Init
  <2> QED
    BY <2>1, <2>2 DEF Causes
<1>2. Typed /\ MailTypeOK /\ Progress /\ Causes /\ [MailNext]_<<vars, mail>> => Causes'
  BY NextCauses
<1> QED
  BY <1>1, <1>2, MailTypeCorrect, TypedInMail, ProgressAlways, PTL DEF MailSpec

\* Whom the client reported undeliverable it does not offer any more, and he is
\* in no envelope but those whose try ended badly.
Reported ==
    /\ client \intersect bounced = {}
    /\ \A t \in Tries : stage[t] \in {"new", "rcpt"} => heard[t] = "nothing"
    /\ \A t \in Tries : heard[t] \notin {"451", "silence"} => bounced \intersect Named(t) = {}

\* Every step keeps the reports true.
LEMMA NextReported ==
  ASSUME MailTypeOK, Progress, Causes, Reported, [MailNext]_<<vars, mail>>
  PROVE  Reported'
<1> DEFINE Steady == /\ UNCHANGED <<bounced, env>> /\ client' \subseteq client
                     /\ \A t \in Tries : /\ heard'[t] \in {heard[t], "250", "451", "silence"}
                                         /\ heard'[t] = "250" => heard[t] \in {"250", "nothing"}
                                         /\ stage'[t] \in {"new", "rcpt"} =>
                                              /\ stage[t] \in {"new", "rcpt"}
                                              /\ heard'[t] = heard[t]
<1>0. UNCHANGED env => \A t \in Tries : Named(t)' = Named(t)
  BY DEF Named
<1>1. Steady => Reported'
  <2> SUFFICES ASSUME Steady PROVE Reported'
    OBVIOUS
  <2>1. client' \intersect bounced' = {}
    BY DEF Reported
  <2>2. \A t \in Tries : stage'[t] \in {"new", "rcpt"} => heard'[t] = "nothing"
    BY DEF Reported
  <2>3. ASSUME NEW t \in Tries, heard'[t] \notin {"451", "silence"}
        PROVE  bounced' \intersect Named(t)' = {}
    <3>1. heard[t] \notin {"451", "silence"}
      BY <2>3
    <3> QED
      BY <1>0, <3>1 DEF Reported
  <2> QED
    BY <2>1, <2>2, <2>3 DEF Reported
<1> HIDE DEF Steady
<1>2. CASE Connect
  <2>1. /\ UNCHANGED <<client, bounced, env, heard>>
        /\ tried + 1 \in Tries /\ stage' = [stage EXCEPT ![tried + 1] = "rcpt"]
    BY <1>2, MailAssumption DEF Connect, MailTypeOK, Tries
  <2>2. heard[tried + 1] = "nothing"
    <3>1. tried + 1 > tried
      BY DEF MailTypeOK
    <3> QED
      BY <2>1, <3>1 DEF Progress, Reported
  <2>3. \A t \in Tries : stage'[t] \in {"new", "rcpt"} => heard'[t] = "nothing"
    BY <2>1, <2>2 DEF MailTypeOK, Reported
  <2> QED
    BY <1>0, <2>1, <2>3 DEF Reported
<1>3. ASSUME NEW t \in Tries, Break(t) PROVE Reported'
  BY <1>1, <1>3 DEF Steady, Break, MailTypeOK
<1>4. ASSUME NEW t \in Tries, NEW r \in Recipients, RcptTo(t, r) PROVE Reported'
  <2>1. stage[t] = "rcpt" /\ heard[t] = "nothing" /\ r \in client \ Named(t) /\ UNCHANGED <<stage, heard>>
    BY <1>4 DEF RcptTo, Reported
  <2>2. CASE env' = [env EXCEPT ![t] = Append(@, r)] /\ UNCHANGED <<client, bounced>>
    <3>1. /\ Named(t)' = Named(t) \union {r}
          /\ \A s \in Tries \ {t} : Named(s)' = Named(s)
      BY <2>2, NamedMore
    <3>2. r \notin bounced
      BY <2>1 DEF Reported
    <3> QED
      BY <2>1, <2>2, <3>1, <3>2 DEF Reported
  <2>3. CASE UNCHANGED env /\ client' = client \ {r} /\ bounced' = bounced \union {r}
    <3>1. ASSUME NEW s \in Tries, heard[s] \notin {"451", "silence"} PROVE r \notin Named(s)
      <4>1. CASE heard[s] = "250"
        BY <2>1, <4>1 DEF Causes
      <4>2. CASE heard[s] = "nothing"
        <5>1. ~(s < tried) /\ ~(t < tried)
          BY <2>1, <4>2 DEF Causes
        <5>2. CASE s = t
          BY <2>1, <5>2
        <5>3. CASE s # t
          <6>1. s > tried \/ t > tried
            BY <5>1, <5>3, MailAssumption DEF MailTypeOK, Tries
          <6>2. CASE s > tried
            <7>1. Len(env[s]) = 0
              BY <6>2 DEF Progress
            <7> QED
              BY <7>1 DEF Named
          <6>3. CASE t > tried
            BY <2>1, <6>3 DEF Progress
          <6> QED
            BY <6>1, <6>2, <6>3
        <5> QED
          BY <5>2, <5>3
      <4> QED
        BY <3>1, <4>1, <4>2 DEF MailTypeOK
    <3> QED
      BY <1>0, <2>1, <2>3, <3>1 DEF Reported
  <2> QED
    BY <1>4, <2>2, <2>3 DEF RcptTo
<1>5. ASSUME NEW t \in Tries, SendData(t) PROVE Reported'
  BY <1>1, <1>5 DEF Steady, SendData, MailTypeOK
<1>6. ASSUME NEW t \in Tries, Fail(t) PROVE Reported'
  BY <1>1, <1>6 DEF Steady, Fail, MailTypeOK
<1>7. ASSUME NEW t \in Tries, QueueRow(t) PROVE Reported'
  BY <1>1, <1>7 DEF Steady, QueueRow, MailTypeOK
<1>8. ASSUME NEW t \in Tries, CountCopy(t) PROVE Reported'
  <2>1. stage[t] = "count"
    BY <1>8 DEF CountCopy
  <2>2. CASE Acknowledge(t)
    BY <1>1, <2>1, <2>2 DEF Steady, Acknowledge, MailTypeOK
  <2>3. CASE /\ stage' = [stage EXCEPT ![t] = "queue"]
             /\ UNCHANGED <<client, bounced, tried, env, heard, failures>>
    BY <1>1, <2>1, <2>3 DEF Steady, MailTypeOK
  <2> QED
    BY <1>8, <2>2, <2>3 DEF CountCopy
<1>9. CASE Hangup
  <2>1. /\ UNCHANGED <<client, bounced, env>>
        /\ \A t \in Tries :
              /\ stage'[t] = IF t <= tried THEN "over" ELSE "new"
              /\ heard'[t] = IF t <= tried /\ heard[t] = "nothing" THEN "silence" ELSE heard[t]
    BY <1>9 DEF Hangup
  <2>2. \A t \in Tries : ~(t <= tried) => stage[t] = "new"
    <3>1. tried \in Nat /\ \A t \in Tries : t \in Nat
      BY MailAssumption DEF Tries, MailTypeOK
    <3>2. \A t \in Tries : t > tried => stage[t] = "new"
      BY DEF Progress
    <3> QED
      BY <3>1, <3>2
  <2> QED
    BY <1>1, <2>1, <2>2 DEF Steady
<1>10. CASE UNCHANGED mail
  BY <1>1, <1>10 DEF Steady, mail, connection, MailTypeOK
<1> QED
  BY <1>2, <1>3, <1>4, <1>5, <1>6, <1>7, <1>8, <1>9, <1>10
  DEF MailNext, Session, NoRoute, QueueFile, QueueFails, CountFails, ProcessEnds, Worker

\* The reports stay true.
LEMMA ReportedAlways == MailSpec => []Reported
<1>1. MailInit => Reported
  BY DEF MailInit, Reported
<1>2. MailTypeOK /\ Progress /\ Causes /\ Reported /\ [MailNext]_<<vars, mail>> => Reported'
  BY NextReported
<1> QED
  BY <1>1, <1>2, MailTypeCorrect, ProgressAlways, CausesAlways, PTL DEF MailSpec

\* Copies go to those the try named, and who got one is offered again or reported
\* undeliverable only after 451 or silence.
THEOREM CopiesHaveCauses == MailSpec => []NoCopyWithoutCause
<1>1. ASSUME MailTypeOK, Typed, Claimed, Unsent, Progress, Causes, Reported
      PROVE  NoCopyWithoutCause
  <2> SUFFICES ASSUME NEW s \in Tries, NEW r \in Recipients, copies[<<s, r>>] > 0
               PROVE  /\ r \in Named(s)
                      /\ heard[s] \notin {"451", "silence"} =>
                            /\ r \notin bounced
                            /\ \A t \in Tries : t > s => r \notin Named(t)
    BY MailAssumption DEF NoCopyWithoutCause
  <2>1. <<s, r>> \in Messages
    BY MailAssumption
  <2>2. status[<<s, r>>] # "absent"
    BY <1>1, <2>1 DEF Unsent, Typed, TypeOK
  <2>3. enq[<<s, r>>] = "queued"
    BY <1>1, <2>1, <2>2 DEF Claimed, RowShape
  <2>4. r \in Named(s)
    BY <1>1, <2>3 DEF Causes
  <2>5. heard[s] \notin {"451", "silence"} => r \notin bounced
    BY <1>1, <2>4 DEF Reported
  <2>6. ASSUME NEW t \in Tries, t > s, r \in Named(t) PROVE heard[s] \in {"451", "silence"}
    <3>1. heard[s] # "250"
      BY <1>1, <2>4, <2>6 DEF Causes
    <3>2. t <= tried
      <4>1. CASE t > tried
        <5>1. Len(env[t]) = 0
          BY <1>1, <4>1 DEF Progress
        <5> QED
          BY <2>6, <5>1 DEF Named
      <4> QED
        BY <1>1, <4>1, MailAssumption DEF Tries, MailTypeOK
    <3>3. heard[s] # "nothing"
      BY <1>1, <2>6, <3>2, MailAssumption DEF Causes, Tries, MailTypeOK
    <3> QED
      BY <1>1, <3>1, <3>3 DEF MailTypeOK
  <2> QED
    BY <2>4, <2>5, <2>6
<1>2. MailTypeOK /\ Typed /\ Claimed /\ Unsent /\ Progress /\ Causes /\ Reported
         => NoCopyWithoutCause
  BY <1>1
<1> QED
  BY <1>2, MailTypeCorrect, MailRunsOutbox, TypedAlways, ClaimedAlways, UnsentAlways,
     ProgressAlways, CausesAlways, ReportedAlways, PTL

-----------------------------------------------------------------------------
(* Layer 4: the whole server hands over as Handover says.                  *)

HandStep == [Told!HandoverNext]_(Told!handover)

\* Who is named, and the row of a copy, say all there is to it.
LEMMA CopyStates ==
  ASSUME Typed, NEW m \in Messages
  PROVE  /\ status[m] \in Settled => CopyState(m) = "settled"
         /\ status[m] \in {"pending", "sending"} => CopyState(m) = "queued"
         /\ status[m] = "absent" /\ m[2] \in Named(m[1]) => CopyState(m) = "offered"
         /\ status[m] = "absent" /\ m[2] \notin Named(m[1]) => CopyState(m) = "none"
  BY DEF CopyState, Settled, Statuses, Typed, TypeOK

\* A row that exists keeps the recipient.
LEMMA TakenIsKept ==
  ASSUME Typed, NEW t \in Tries, NEW r \in Recipients, <<t, r>> \in Taken
  PROVE  Told!Kept(r)
<1>1. <<t, r>> \in Messages /\ status[<<t, r>>] # "absent"
  BY DEF Taken
<1>2. status[<<t, r>>] \in Settled \union {"pending", "sending"}
  BY <1>1 DEF Typed, TypeOK, Statuses, Settled
<1>3. CopyState(<<t, r>>) \in {"queued", "settled"}
  BY <1>1, <1>2, CopyStates
<1>4. <<t, r>>[2] = r
  OBVIOUS
<1> QED
  BY <1>1, <1>3, <1>4 DEF Told!Kept

\* Steps that change neither rows nor envelopes change no copy.
LEMMA CopiesStay ==
  ASSUME UNCHANGED <<status, env>>
  PROVE  \A m \in Messages : CopyState(m)' = CopyState(m)
<1>1. \A t : Named(t)' = Named(t)
  BY DEF Named
<1> QED
  BY <1>1 DEF CopyState

\* The worker and the end of the process settle copies, or change nothing.
LEMMA WorkerHandsOver ==
  ASSUME Typed, Claimed, Accounted, [Next]_vars,
         UNCHANGED <<client, bounced, env>>,
         \A m \in Messages : status[m] = "absent" => status'[m] = "absent"
  PROVE  HandStep
<1> DEFINE copy == [m \in Messages |-> CopyState(m)]
<1>1. Typed'
  BY NextTyped
<1>2. \A t : Named(t)' = Named(t)
  BY DEF Named
<1>3. ASSUME NEW m \in Messages, Mail'[m] = Mail[m] PROVE CopyState(m)' = CopyState(m)
  <2>1. \/ status[m] = "absent" /\ status'[m] = "absent"
        \/ status[m] \in {"pending", "sending"} /\ status'[m] \in {"pending", "sending"}
        \/ status[m] \in Settled /\ status'[m] \in Settled
    BY <1>1, <1>3 DEF Mail, Typed, TypeOK, Statuses, Settled
  <2> QED
    BY <1>2, <2>1 DEF CopyState, Settled
<1>4. CASE Mail' = Mail
  <2>1. copy' = copy
    BY <1>3, <1>4
  <2> QED
    BY <2>1 DEF HandStep, Told!handover
<1>5. ASSUME NEW m \in Messages, Mail[m] = "accepted", NEW s \in Settled,
             Mail' = [Mail EXCEPT ![m] = s]
      PROVE  HandStep
  <2>1. status[m] \in {"pending", "sending"} /\ status'[m] \in Settled
    BY <1>1, <1>5 DEF Mail, Typed, TypeOK, Statuses, Settled
  <2>2. copy[m] = "queued" /\ CopyState(m)' = "settled"
    BY <2>1 DEF CopyState, Settled
  <2>3. \A n \in Messages \ {m} : CopyState(n)' = CopyState(n)
    BY <1>3, <1>5 DEF Mail
  <2>4. copy' = [copy EXCEPT ![m] = "settled"]
    BY <2>2, <2>3
  <2>5. Told!Settle(m)
    BY <2>2, <2>4 DEF Told!Settle, Told!Becomes
  <2> QED
    BY <2>5 DEF HandStep, Told!HandoverNext
<1>6. PromiseStep
  BY StepKeepsPromise
<1>7. ASSUME NEW m \in Messages, Abstract!Accept(m) PROVE FALSE
  <2>1. Mail[m] = "unseen" /\ Mail'[m] = "accepted"
    BY <1>7 DEF Abstract!Accept, Mail
  <2>2. status[m] = "absent"
    BY <2>1 DEF Mail, Typed, TypeOK, Statuses
  <2> QED
    BY <2>1, <2>2 DEF Mail
<1> QED
  BY <1>4, <1>5, <1>6, <1>7
  DEF PromiseStep, Abstract!PromiseNext, Abstract!promise, Abstract!Transmit, Abstract!Deliver,
      Abstract!GiveUp, Settled

\* Every step of the server is one of Handover, or changes nothing of it.
LEMMA StepHandsOver ==
  ASSUME Typed, Claimed, Accounted, MailTypeOK, Progress, Causes, [MailNext]_<<vars, mail>>
  PROVE  HandStep
<1> DEFINE copy == [m \in Messages |-> CopyState(m)]
<1>1. ASSUME UNCHANGED <<status, client, bounced, env>> PROVE HandStep
  BY <1>1, CopiesStay DEF HandStep, Told!handover
<1>2. CASE Connect
  BY <1>1, <1>2 DEF Connect, vars, rows
<1>3. ASSUME NEW t \in Tries, Break(t) \/ SendData(t) \/ NoRoute(t) \/ CountFails(t)
      PROVE  HandStep
  BY <1>1, <1>3 DEF Break, SendData, NoRoute, CountFails, Fail, vars, rows
<1>4. ASSUME NEW t \in Tries, NEW r \in Recipients, RcptTo(t, r) PROVE HandStep
  <2>1. stage[t] = "rcpt" /\ r \in client /\ r \notin Named(t) /\ UNCHANGED status
    BY <1>4 DEF RcptTo, vars, rows
  <2>2. CASE env' = [env EXCEPT ![t] = Append(@, r)] /\ UNCHANGED <<client, bounced>>
    <3>1. /\ Named(t)' = Named(t) \union {r}
          /\ \A s \in Tries \ {t} : Named(s)' = Named(s)
      BY <2>2, NamedMore
    <3>2. <<t, r>> \in Messages /\ status[<<t, r>>] = "absent"
      BY <2>1, MailAssumption DEF Causes, Claimed, RowShape
    <3>3. <<t, r>>[1] = t /\ <<t, r>>[2] = r
      OBVIOUS
    <3>4. CopyState(<<t, r>>) = "none" /\ CopyState(<<t, r>>)' = "offered"
      BY <2>1, <3>1, <3>2, <3>3 DEF CopyState, Settled
    <3>5. ASSUME NEW m \in Messages, m # <<t, r>> PROVE CopyState(m)' = CopyState(m)
      <4>1. PICK u \in Tries, q \in Recipients : m = <<u, q>>
        BY MailAssumption
      <4>2. q \in Named(u)' <=> q \in Named(u)
        BY <3>1, <3>5, <4>1
      <4>3. m[1] = u /\ m[2] = q
        BY <4>1
      <4> QED
        BY <2>1, <4>2, <4>3 DEF CopyState
    <3>6. copy' = [copy EXCEPT ![<<t, r>>] = "offered"]
      BY <3>2, <3>4, <3>5
    <3>7. Told!Offer(<<t, r>>)
      BY <2>1, <2>2, <3>2, <3>3, <3>4, <3>6 DEF Told!Offer, Told!Becomes
    <3> QED
      BY <3>2, <3>7 DEF HandStep, Told!HandoverNext
  <2>3. CASE /\ client' = client \ {r} /\ bounced' = bounced \union {r}
             /\ UNCHANGED env
    <3>1. copy' = copy
      BY <2>1, <2>3, CopiesStay
    <3>2. Told!LetGo({r}, {r})
      BY <2>3, <3>1 DEF Told!LetGo
    <3> QED
      BY <2>1, <3>2 DEF HandStep, Told!HandoverNext
  <2> QED
    BY <1>4, <2>2, <2>3 DEF RcptTo
<1>5. ASSUME NEW t \in Tries, QueueFile(t) \/ QueueFails(t) PROVE HandStep
  BY <1>1, <1>5 DEF QueueFile, QueueFails, WriteSpool, EnqueueFails, Fail, mail, connection, rows
<1>6. ASSUME NEW t \in Tries, QueueRow(t) PROVE HandStep
  <2>1. /\ Copy(t) \in Messages /\ env[t][at[t]] \in Named(t)
        /\ Copy(t) = <<t, env[t][at[t]]>>
    BY <1>6, CopyType DEF QueueRow
  <2>2. Copy(t)[1] = t /\ Copy(t)[2] = env[t][at[t]]
    BY <2>1
  <2>3. /\ status[Copy(t)] = "absent" /\ status' = [status EXCEPT ![Copy(t)] = "pending"]
        /\ UNCHANGED <<client, bounced, env>>
    BY <1>6, <2>1 DEF QueueRow, InsertRow, NewRow, Claimed, RowShape
  <2>4. \A u : Named(u)' = Named(u)
    BY <2>3 DEF Named
  <2>5. status'[Copy(t)] = "pending" /\ \A m \in Messages \ {Copy(t)} : status'[m] = status[m]
    BY <2>1, <2>3 DEF Typed, TypeOK
  <2> HIDE DEF Copy
  <2>6. copy[Copy(t)] = "offered" /\ CopyState(Copy(t))' = "queued"
    <3>1. CopyState(Copy(t)) = "offered"
      BY <2>1, <2>2, <2>3, CopyStates
    <3>2. Copy(t)' = Copy(t)
      BY <1>6 DEF QueueRow, Copy
    <3>3. CopyState(Copy(t))' = "queued"
      BY <2>5, <3>2 DEF CopyState, Settled
    <3> QED
      BY <2>1, <3>1, <3>3
  <2>7. \A m \in Messages \ {Copy(t)} : CopyState(m)' = CopyState(m)
    BY <2>4, <2>5 DEF CopyState
  <2>8. copy' = [copy EXCEPT ![Copy(t)] = "queued"]
    <3>1. Copy(t)' = Copy(t)
      BY <1>6 DEF QueueRow, Copy
    <3> QED
      BY <2>1, <2>6, <2>7, <3>1
  <2>9. Told!Queue(Copy(t))
    BY <2>3, <2>6, <2>8 DEF Told!Queue, Told!Becomes
  <2> QED
    BY <2>1, <2>9 DEF HandStep, Told!HandoverNext
<1>7. ASSUME NEW t \in Tries, CountCopy(t) PROVE HandStep
  <2>1. UNCHANGED <<status, env, bounced>> /\ stage[t] = "count"
    BY <1>7 DEF CountCopy, Acknowledge, vars, rows
  <2>2. CASE UNCHANGED client
    BY <1>1, <2>1, <2>2
  <2>3. CASE ~(at[t] < Len(env[t])) /\ client' = client \ Named(t)
    <3>1. \A r \in Named(t) : r \in Recipients /\ <<t, r>> \in Taken
      <4>1. ASSUME NEW i \in 1..Len(env[t])
            PROVE  env[t][i] \in Recipients /\ <<t, env[t][i]>> \in Taken
        <5>1. env[t] \in Seq(Recipients) /\ at[t] \in 1..Len(env[t])
          BY <2>1 DEF MailTypeOK
        <5>2. Len(env[t]) \in Nat /\ env[t][i] \in Recipients
          BY <5>1
        <5>3. i \in 1..(at[t] - 1) \/ i = at[t]
          BY <2>3, <5>1, <5>2
        <5> QED
          BY <2>1, <5>2, <5>3 DEF Progress
      <4> QED
        BY <4>1 DEF Named
    <3>2. \A r \in Named(t) : Told!Kept(r)
      BY <3>1, TakenIsKept
    <3>3. copy' = copy
      BY <2>1, CopiesStay
    <3> DEFINE R == client \intersect Named(t)
    <3>4. client' = client \ R /\ R \in SUBSET client
      BY <2>3
    <3>5. Told!LetGo(R, {})
      BY <2>1, <3>2, <3>3, <3>4 DEF Told!LetGo
    <3> QED
      BY <3>4, <3>5 DEF HandStep, Told!HandoverNext
  <2> QED
    BY <1>7, <2>2, <2>3 DEF CountCopy, Acknowledge
<1>8. CASE ProcessEnds
  BY <1>1, <1>8 DEF ProcessEnds, Crash, RequeueFails, ProcessDies, Hangup, rows
<1>9. CASE Worker
  <2>1. UNCHANGED <<client, bounced, env>> /\ [Next]_vars
    BY <1>9, MailStepIsStep DEF Worker, mail, connection
  <2>2. ASSUME NEW m \in Messages, status[m] = "absent" PROVE status'[m] = "absent"
    <3>1. UNCHANGED enq
      BY <1>9, WorkerCallsNone
    <3>2. RowShape'
      BY <2>1, NextClaimed DEF Claimed
    <3> QED
      BY <2>2, <3>1, <3>2 DEF Claimed, RowShape
  <2> QED
    BY <2>1, <2>2, WorkerHandsOver
<1>10. CASE UNCHANGED <<vars, mail>>
  BY <1>1, <1>10 DEF vars, mail, rows, connection
<1> QED
  BY <1>2, <1>3, <1>4, <1>5, <1>6, <1>7, <1>8, <1>9, <1>10
  DEF MailNext, Session

\* The whole server implements Handover.
THEOREM ServerHandsOver == MailSpec => HandsOver
<1>1. ASSUME MailInit PROVE Told!HandoverInit
  <2>1. ASSUME NEW m \in Messages PROVE CopyState(m) = "none"
    <3>1. PICK t \in Tries, r \in Recipients : m = <<t, r>>
      BY MailAssumption
    <3>2. Len(env[t]) = 0 /\ status[m] = "absent" /\ m[1] = t
      BY <1>1, <3>1 DEF MailInit, Init
    <3>3. Named(m[1]) = {}
      BY <3>2 DEF Named
    <3> QED
      BY <3>2, <3>3 DEF CopyState, Settled
  <2> QED
    BY <1>1, <2>1 DEF MailInit, Told!HandoverInit
<1>2. Typed /\ Claimed /\ Accounted /\ MailTypeOK /\ Progress /\ Causes
         /\ [MailNext]_<<vars, mail>> => HandStep
  BY StepHandsOver
<1> QED
  BY <1>1, <1>2, MailTypeCorrect, MailRunsOutbox, TypedAlways, ClaimedAlways, AccountedAlways,
     ProgressAlways, CausesAlways, PTL
  DEF MailSpec, HandsOver, HandStep, Told!HandoverSpec

\* No step of Handover forgets a recipient.
LEMMA NoStepForgets ==
  ASSUME Told!NobodyForgotten, HandStep, client \subseteq Recipients
  PROVE  Told!NobodyForgotten'
<1> DEFINE copy == [m \in Messages |-> CopyState(m)]
<1>1. ASSUME NEW m \in Messages, NEW s, Told!Becomes(m, s),
             copy[m] \notin {"queued", "settled"} \/ s \in {"queued", "settled"}
      PROVE  Told!NobodyForgotten'
  <2>1. /\ copy' = [copy EXCEPT ![m] = s] /\ UNCHANGED <<client, bounced>>
        /\ copy' = [n \in Messages |-> CopyState(n)']
    BY <1>1 DEF Told!Becomes
  <2> HIDE DEF copy
  <2>2. ASSUME NEW n \in Messages, CopyState(n) \in {"queued", "settled"}
        PROVE  CopyState(n)' \in {"queued", "settled"}
    BY <1>1, <2>1, <2>2 DEF copy
  <2> QED
    BY <2>1, <2>2 DEF Told!NobodyForgotten, Told!Kept
<1>2. ASSUME NEW R \in SUBSET client, NEW told \in {R, {}}, Told!LetGo(R, told)
      PROVE  Told!NobodyForgotten'
  BY <1>2 DEF Told!LetGo, Told!NobodyForgotten, Told!Kept
<1>3. CASE UNCHANGED Told!handover
  BY <1>3 DEF Told!handover, Told!NobodyForgotten, Told!Kept
<1> QED
  BY <1>1, <1>2, <1>3
  DEF HandStep, Told!HandoverNext, Told!Offer, Told!Queue, Told!Settle

\* Nobody is forgotten: at any time the client still has the recipient, or its
\* sender was told, or a copy for it is in the outbox or settled.
THEOREM ServerForgetsNobody == MailSpec => []Told!NobodyForgotten
<1>1. Told!HandoverInit => Told!NobodyForgotten
  BY DEF Told!HandoverInit, Told!NobodyForgotten
<1>2. MailTypeOK /\ Told!NobodyForgotten /\ HandStep => Told!NobodyForgotten'
  BY NoStepForgets DEF MailTypeOK
<1> QED
  BY <1>1, <1>2, ServerHandsOver, MailTypeCorrect, PTL
  DEF HandsOver, HandStep, Told!HandoverSpec
=============================================================================
