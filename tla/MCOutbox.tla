------------------------------ MODULE MCOutbox ------------------------------
EXTENDS Outbox, TLC

\* Nothing distinguishes messages but their names.
MessageSymmetry == Permutations(Messages)
=============================================================================
