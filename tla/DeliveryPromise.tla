-------------------------- MODULE DeliveryPromise --------------------------
(***************************************************************************)
(* What the outbox promises to whoever calls `enqueue`: a message that was *)
(* accepted is handed to a remote server, perhaps more than once, until it *)
(* settles exactly once, either as delivered, and then some remote server  *)
(* did take a copy, or as failed.  No copy leaves after that.              *)
(***************************************************************************)
EXTENDS Naturals

CONSTANT Messages

VARIABLES mail,     \* mail[m]: what the caller of enqueue may believe of m
          copies    \* copies[m]: copies of m a remote server has taken

promise == <<mail, copies>>

PromiseInit == /\ mail = [m \in Messages |-> "unseen"]
               /\ copies = [m \in Messages |-> 0]

Accept(m) == /\ mail[m] = "unseen"
             /\ mail' = [mail EXCEPT ![m] = "accepted"]
             /\ UNCHANGED copies

Transmit(m) == /\ mail[m] = "accepted"
               /\ copies' = [copies EXCEPT ![m] = @ + 1]
               /\ UNCHANGED mail

Deliver(m) == /\ mail[m] = "accepted"
              /\ copies[m] > 0
              /\ mail' = [mail EXCEPT ![m] = "delivered"]
              /\ UNCHANGED copies

GiveUp(m) == /\ mail[m] = "accepted"
             /\ mail' = [mail EXCEPT ![m] = "failed"]
             /\ UNCHANGED copies

PromiseNext == \E m \in Messages : \/ Accept(m)
                                   \/ Transmit(m)
                                   \/ Deliver(m)
                                   \/ GiveUp(m)

PromiseSafety == PromiseInit /\ [][PromiseNext]_promise

Promise == /\ PromiseSafety
           /\ \A m \in Messages : WF_promise(Deliver(m) \/ GiveUp(m))
=============================================================================
