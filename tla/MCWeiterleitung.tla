--------------------------- MODULE MCWeiterleitung ---------------------------
EXTENDS Weiterleitung, TLC

MCMessages == (1..MaxTries) \X Recipients

\* Nothing distinguishes recipients but their names.
RecipientSymmetry == Permutations(Recipients)
=============================================================================
