------------------------------ MODULE Handover ------------------------------
(***************************************************************************)
(* What the sender of a message may expect of weiterleitung: for each      *)
(* recipient somebody always answers, the client until it is told so, the  *)
(* outbox from then on.  The client lets go of a recipient when a copy for *)
(* it is queued, or when it reports the recipient undeliverable; the       *)
(* outbox lets go of a copy when it is delivered or has failed.            *)
(*                                                                         *)
(* A copy <<t, r>> is the one for recipient r that try t asks for.         *)
(***************************************************************************)
CONSTANTS Recipients, Messages

VARIABLES
    client,     \* recipients the client still has to hand over
    bounced,    \* recipients it reported undeliverable
    copy        \* copy[m]: "none", "offered", "queued" or "settled"

handover == <<client, bounced, copy>>

HandoverInit == /\ client = Recipients /\ bounced = {}
                /\ copy = [m \in Messages |-> "none"]

Becomes(m, state) == /\ copy' = [copy EXCEPT ![m] = state]
                     /\ UNCHANGED <<client, bounced>>

Offer(m) == copy[m] = "none" /\ m[2] \in client /\ Becomes(m, "offered")

\* Perhaps after the client lost patience, so that it offers another one.
Queue(m) == copy[m] = "offered" /\ Becomes(m, "queued")

Settle(m) == copy[m] = "queued" /\ Becomes(m, "settled")

Kept(r) == \E m \in Messages : m[2] = r /\ copy[m] \in {"queued", "settled"}

\* The client drops R, some as queued and the others as undeliverable.
LetGo(R, told) == /\ client' = client \ R
                  /\ bounced' = bounced \union told
                  /\ \A r \in R \ told : Kept(r)
                  /\ UNCHANGED copy

HandoverNext == \/ \E R \in SUBSET client : LetGo(R, {}) \/ LetGo(R, R)
                \/ \E m \in Messages : Offer(m) \/ Queue(m) \/ Settle(m)

HandoverSpec == HandoverInit /\ [][HandoverNext]_handover

\* Nobody is forgotten: the client has the recipient, or its sender was told, or
\* the outbox has a copy for it.
NobodyForgotten == \A r \in Recipients : r \in client \union bounced \/ Kept(r)
=============================================================================
