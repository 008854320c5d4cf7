--------------------------- MODULE MCAdministration ---------------------------
EXTENDS Administration, TLC

CONSTANT i1    \* one of the session ids

MCPages == {"login form", "login", "dashboard", "logout",
            "create mailbox", "create alias", "toggle", "delete alias", "delete mailbox"}

\* The id of the first session is used up, the other ids and the requests are
\* told apart by nothing.
Interchangeable == Permutations(Workers) \union Permutations(SessionIds \ {i1})

\* What four requests, one after the other, leave behind when the process stops:
\* the administrator signed in, made a default mailbox and an alias of it, and
\* saw all messages.
InUse ==
    /\ up = FALSE /\ boots = 1
    /\ config \in [name : {"admin"}, password : {"old"}]
    /\ users = {[id |-> 1, name |-> config.name, password |-> config.password]}
    /\ jar = i1 /\ spent = {i1}
    /\ store = [i \in SessionIds |-> IF i = i1 THEN [Blank EXCEPT !.user = 1] ELSE None]
    /\ req = [w \in Workers |-> Idle]
    /\ requests = 0 /\ pushed = 2 /\ shown = 2
    /\ alone = TRUE /\ away = FALSE
    /\ mailboxes = {[id |-> 1, email |-> "home", default |-> TRUE]}
    /\ aliases = {[id |-> 2, address |-> "shop", mailbox |-> 1, enabled |-> TRUE]}
    /\ ids = 2
    /\ writer = None /\ draft = {} /\ dbErrors = 0
    /\ made = [a \in Addresses |-> IF a = "shop" THEN 1 ELSE 0]
    /\ gone = [a \in Addresses |-> 0]
    /\ flips = [i \in 1..MaxRows |-> 0] /\ raced = {}

MCInit == AdminInit \/ InUse

MCSpec == MCInit /\ [][AdminNext]_<<web, admin>>
=============================================================================
