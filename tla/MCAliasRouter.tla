---------------------------- MODULE MCAliasRouter ----------------------------
EXTENDS AliasRouter, TLC

CONSTANTS s1, s2, home, work, shop, news, id1, id2, tok1, tok2

MCInboxes == {home, work}
Letter(from, header) == [mailFrom |-> from, header |-> header]

\* A seller writes to an alias, also as a bounce with a From header; the mailbox replies.
SellerAndHome == {Letter("seller", "seller"), Letter(None, "seller"), Letter(home, home)}

\* A seller writes to an alias; a bounce says nothing of its sender.
SellerAndBounce == {Letter("seller", "seller"), Letter(None, None)}

\* Connections are told apart by the letters they carry only, keys and tokens by
\* nothing.
Interchangeable ==
    Permutations(Sessions) \union Permutations(AliasIds) \union Permutations(Tokens)
============================================================================
