----------------------------- MODULE EmailAddress -----------------------------
(***************************************************************************)
(* How addresses are read and compared (src/src/domain/email_address.rs,   *)
(* owns_domain of configuration.rs, envelope_sender of smtp/router.rs).    *)
(*                                                                         *)
(* A text is a sequence of characters; a letter in two cases stands for    *)
(* all letters, digits and hyphens, an angle bracket for every character   *)
(* that a local part may not have.  Every text of at most TextBound        *)
(* characters is a state; quotes occur only in what a header says around   *)
(* an address.                                                             *)
(***************************************************************************)
EXTENDS Naturals, Sequences, SequencesExt

CONSTANTS
    MaxLocal,   \* 64
    MaxDomain,  \* 255
    Domains,    \* aliases.domains
    Remarks,    \* what a From header may say before and behind an address
    TextBound   \* bound: characters of a text

VARIABLE text

Letters == {"a", "A"}
TextChars == Letters \union {"@", ".", "<", ">", " "}
Quote == "quote"
HeaderChars == TextChars \union {Quote}

ASSUME AddressAssumption ==
    /\ {MaxLocal, MaxDomain, TextBound} \subseteq Nat
    /\ Domains # <<>>
    /\ \A i \in 1..Len(Domains) : Domains[i] \in Seq(Letters \union {"."})
    /\ Remarks \subseteq Seq(HeaderChars)

Invalid == [local |-> <<>>, domain |-> <<>>]

Lower(s) == [i \in 1..Len(s) |-> IF s[i] = "A" THEN "a" ELSE s[i]]

TrimStart(s, chars) ==
    LET rest == {i \in 1..Len(s) : s[i] \notin chars}
    IN  IF rest = {} THEN <<>> ELSE SubSeq(s, Min(rest), Len(s))
TrimEnd(s, chars) ==
    LET rest == {i \in 1..Len(s) : s[i] \notin chars}
    IN  IF rest = {} THEN <<>> ELSE SubSeq(s, 1, Max(rest))

ValidLocal(l) == /\ l # <<>> /\ Len(l) <= MaxLocal
                 /\ \A i \in 1..Len(l) : l[i] \notin {" ", "<", ">", Quote}

ValidDomain(d) ==
    /\ d # <<>> /\ Len(d) <= MaxDomain
    /\ \E i \in 1..Len(d) : d[i] = "."
    /\ d[1] # "."
    /\ \A i \in 1..Len(d) - 1 : ~(d[i] = "." /\ d[i + 1] = ".")
    /\ \A i \in 1..Len(d) : d[i] \in Letters \union {"."}

\* Slip: the trailing dot of a domain stays.
ReadDomainAsIs(s) == Lower(s)

ReadDomain(s) == Lower(TrimEnd(s, {"."}))

\* EmailAddress::parse; Err is Invalid.
Parse(s) ==
    LET inner == TrimEnd(TrimStart(TrimEnd(TrimStart(s, {" "}), {" "}), {"<"}), {">"})
        ats == {i \in 1..Len(inner) : inner[i] = "@"}
        local == SubSeq(inner, 1, Max(ats) - 1)
        domain == ReadDomain(SubSeq(inner, Max(ats) + 1, Len(inner)))
    IN  IF ats # {} /\ ValidLocal(local) /\ ValidDomain(domain)
        THEN [local |-> local, domain |-> domain]
        ELSE Invalid

Display(a) == a.local \o <<"@">> \o a.domain

Normalised(a) == Lower(a.local) \o <<"@">> \o a.domain

OwnsDomain(domain) ==
    \E i \in 1..Len(Domains) : Lower(Domains[i]) = Lower(TrimEnd(domain, {"."}))

DefaultDomain == Domains[1]

\* Slip: the last closing bracket is taken for the first.
BracketedGreedy(header) ==
    LET opens == {i \in 1..Len(header) : header[i] = "<"}
        closes == {i \in 1..Len(header) : header[i] = ">"}
    IN  IF opens # {} /\ closes # {} /\ Max(closes) > Min(opens)
        THEN SubSeq(header, Min(opens) + 1, Max(closes) - 1)
        ELSE header

\* What stands between the first brackets, or everything.
Bracketed(header) ==
    LET opens == {i \in 1..Len(header) : header[i] = "<"}
        closes == {i \in 1..Len(header) : header[i] = ">"}
    IN  IF opens # {} /\ closes # {} /\ Min(closes) > Min(opens)
        THEN SubSeq(header, Min(opens) + 1, Min(closes) - 1)
        ELSE header

EnvelopeSender(mailFrom, header) ==
    IF Parse(mailFrom) # Invalid THEN Parse(mailFrom) ELSE Parse(Bracketed(header))

-----------------------------------------------------------------------------
AddressInit == text = <<>>

AppendChar == /\ Len(text) < TextBound
              /\ \E c \in TextChars : text' = Append(text, c)

AddressSpec == AddressInit /\ [][AppendChar]_text

-----------------------------------------------------------------------------
(* Properties.                                                             *)

Address == Parse(text)

\* The text with the case of some letters changed.
Respelled(s) ==
    {[i \in 1..Len(s) |-> IF i \in flip /\ s[i] \in Letters
                          THEN CHOOSE c \in Letters : c # s[i] ELSE s[i]]
      : flip \in SUBSET {i \in 1..Len(s) : s[i] \in Letters}}

\* An address finds its row however a client writes it, in other case, in
\* brackets, with the dot of the root, and also as the tables give it back;
\* whether its domain is ours does not depend on that either.
SpellingDoesNotMatter ==
    Address # Invalid =>
        /\ \A other \in Respelled(text) \union
                {text \o <<" ">>, Display(Address), Normalised(Address),
                 Display(Address) \o <<".">>, <<"<">> \o Display(Address) \o <<">">>} :
             /\ Normalised(Parse(other)) = Normalised(Address)
             /\ OwnsDomain(Parse(other).domain) <=> OwnsDomain(Address.domain)
        /\ OwnsDomain(Address.domain) <=>
             \E i \in 1..Len(Domains) : Lower(Domains[i]) = Address.domain

Bracketless(s) == \A i \in 1..Len(s) : s[i] \notin {"<", ">"}

\* A From header: a name, an address in brackets, a remark.
FromHeader(name, address, remark) == name \o <<"<">> \o address \o <<">">> \o remark

\* A bounce has no envelope sender: then the address in the brackets of its From
\* header is taken, whatever remark follows, brackets and addresses included, and
\* whatever name comes first, as long as that holds no bracket.
BounceNamesItsSender ==
    Bracketless(text) =>
        \A name \in Remarks, remark \in Remarks :
            Bracketless(name) => EnvelopeSender(<<>>, FromHeader(name, text, remark)) = Address
=============================================================================
