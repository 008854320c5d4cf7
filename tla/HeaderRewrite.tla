---------------------------- MODULE HeaderRewrite ----------------------------
(***************************************************************************)
(* The header surgery of src/src/smtp/rewrite.rs: where a raw message is   *)
(* cut into headers and body, which header lines are removed, and what the *)
(* rewritten message looks like.                                           *)
(*                                                                         *)
(* A message is a sequence of lines, each ended by CRLF: read_data of the  *)
(* session makes them so.  Of a line the code looks at its first           *)
(* character, its name up to the colon, and whether it is empty; of its    *)
(* text only the people it mentions matter here.  Every message of at most *)
(* MaxLines lines is a state.                                              *)
(***************************************************************************)
EXTENDS Naturals, Sequences, SequencesExt

CONSTANTS
    Names,          \* field names that occur, in lower case
    People,         \* whom a line of the original may mention
    TheMailbox, TheContact, TheAlias, TheReverse,   \* the addresses of a conversation
    LineBound       \* bound: lines of a message

ASSUME RewriteAssumption ==
    /\ TheMailbox \in People
    /\ TheMailbox \notin {TheContact, TheAlias}
    /\ LineBound \in Nat

VARIABLE raw    \* the message that is rewritten

Spellings == {"lower", "other"}     \* "from:"; "From :"

NoName == ""    \* the name of a line that is not a field

Field(name, spelling, who) ==
    [kind |-> "field", name |-> name, spelling |-> spelling, says |-> who]
Plain(kind, who) == [kind |-> kind, name |-> NoName, spelling |-> "lower", says |-> who]

Empty == Plain("empty", {})

Mentions == {{who} : who \in People}

\* A field, its continuation, a line without a colon, or an empty line.
Lines ==
    {Field(name, spelling, who) : name \in Names, spelling \in Spellings, who \in Mentions}
    \union {Plain("fold", who) : who \in Mentions}
    \union {Plain("text", {}), Empty}

-----------------------------------------------------------------------------
(* Reading.                                                                *)

\* Slip: the blank line is looked for from the start of the header block's
\* last line end on, so that it is found one line late.
BlankLineSkippingOne(msg) == {i \in 3..Len(msg) : msg[i] = Empty}

\* "\r\n\r\n" needs a line end before the empty line: the first line does not
\* count.
BlankLines(msg) == {i \in 2..Len(msg) : msg[i] = Empty}

\* split_headers_body: without a blank line everything is header.
HeadersOf(msg) == IF BlankLines(msg) = {} THEN msg
                  ELSE SubSeq(msg, 1, Min(BlankLines(msg)) - 1)
BodyOf(msg) == IF BlankLines(msg) = {} THEN <<>>
               ELSE SubSeq(msg, Min(BlankLines(msg)) + 1, Len(msg))

\* Slip: names are compared as they are written.
NameAsWritten(line) == IF line.spelling = "lower" THEN line.name ELSE "?"

\* name.trim().to_lowercase(); NoName without a colon.
NameOf(line) == line.name

\* Slip: each line is judged alone, so that continuation lines stay.
KeepLineAlone(acc, line, names) ==
    [dropping |-> FALSE,
     kept |-> IF NameOf(line) \in names THEN acc.kept ELSE Append(acc.kept, line)]

\* One turn of the loop: a continuation line shares the fate of its field.
KeepLine(acc, line, names) ==
    LET drop == IF line.kind = "fold" THEN acc.dropping ELSE NameOf(line) \in names
    IN  [dropping |-> drop,
         kept |-> IF drop THEN acc.kept ELSE Append(acc.kept, line)]

StripHeaders(headers, names) ==
    FoldLeft(LAMBDA acc, line : KeepLine(acc, line, names),
             [dropping |-> FALSE, kept |-> <<>>], headers).kept

\* Slip: the loop does not stop at the next field.
ReadLineToEnd(acc, line, name) ==
    IF line.kind = "fold"
    THEN IF acc.found THEN [acc EXCEPT !.value = Append(@, line.says)] ELSE acc
    ELSE IF line.kind = "field" /\ NameOf(line) = name
         THEN [acc EXCEPT !.found = TRUE, !.value = Append(@, line.says)] ELSE acc

\* One turn of the loop of header_value; `over` is its break.
ReadLine(acc, line, name) ==
    CASE acc.over -> acc
      [] ~acc.over /\ line.kind = "fold" ->
            IF acc.found THEN [acc EXCEPT !.value = Append(@, line.says)] ELSE acc
      [] ~acc.over /\ line.kind # "fold" /\ acc.found -> [acc EXCEPT !.over = TRUE]
      [] OTHER -> IF line.kind = "field" /\ NameOf(line) = name
                  THEN [acc EXCEPT !.found = TRUE, !.value = <<line.says>>] ELSE acc

\* The unfolded value, a piece for each line; <<>> is None.
HeaderValue(headers, name) ==
    FoldLeft(LAMBDA acc, line : ReadLine(acc, line, name),
             [found |-> FALSE, over |-> FALSE, value |-> <<>>], headers).value

-----------------------------------------------------------------------------
(* Writing.                                                                *)

\* STRIPPED_HEADERS.
Stripped ==
    {"from", "sender", "reply-to", "return-path", "dkim-signature",
     "domainkey-signature", "arc-authentication-results", "arc-message-signature",
     "arc-seal", "authentication-results", "received-spf", "x-weiterleitung-alias"}

StrippedFromReply == Stripped \union {"to", "cc", "bcc", "x-weiterleitung-sender"}

Own(name, who) == Field(name, "lower", who)

Rewritten(msg, own, names) ==
    own \o StripHeaders(HeadersOf(msg), names) \o <<Empty>> \o BodyOf(msg)

\* rewrite_for_forward: the display name of From shows who wrote.
OwnOfForward == <<Own("from", {TheReverse, TheContact}), Own("reply-to", {TheReverse}),
                  Own("x-weiterleitung-alias", {TheAlias}),
                  Own("x-weiterleitung-sender", {TheContact})>>
RewriteForForward(msg) == Rewritten(msg, OwnOfForward, Stripped)

OwnOfReply == <<Own("from", {TheAlias}), Own("to", {TheContact}),
                Own("x-weiterleitung-alias", {TheAlias})>>
RewriteForReply(msg) == Rewritten(msg, OwnOfReply, StrippedFromReply)

-----------------------------------------------------------------------------
(* Messages, line by line.                                                 *)

RewriteInit == raw = <<>>

AppendLine == /\ Len(raw) < LineBound
              /\ \E line \in Lines : raw' = Append(raw, line)

RewriteSpec == RewriteInit /\ [][AppendLine]_raw

-----------------------------------------------------------------------------
(* Reference definitions, by position instead of by loop.                  *)

\* The line whose fate line i shares: itself, or the field it continues; 0 for
\* continuation lines before any field.
StartOf(headers, i) ==
    LET starts == {j \in 1..i : headers[j].kind # "fold"}
    IN  IF starts = {} THEN 0 ELSE Max(starts)

\* The name of the field that line i is part of.
FieldAt(headers, i) ==
    LET h == StartOf(headers, i)
    IN  IF h = 0 \/ headers[h].kind # "field" THEN NoName ELSE headers[h].name

Surviving(headers, names) == {i \in 1..Len(headers) : FieldAt(headers, i) \notin names}

\* pieces are what stands at those places, in the same order.
InOrder(pieces, at, places) ==
    /\ Len(pieces) = Cardinality(places)
    /\ \A i \in places : pieces[Cardinality({j \in places : j <= i})] = at[i]

\* The first field of that name, with what continues it.
FirstField(headers, name) ==
    LET starts == {i \in 1..Len(headers) : headers[i].kind = "field" /\ headers[i].name = name}
    IN  IF starts = {} THEN {}
        ELSE {i \in Min(starts)..Len(headers) : StartOf(headers, i) = Min(starts)}

\* RFC 5322: the body is what follows the first empty line.
TrueBody(msg) ==
    LET blank == {i \in 1..Len(msg) : msg[i] = Empty}
    IN  IF blank = {} THEN <<>> ELSE SubSeq(msg, Min(blank) + 1, Len(msg))

-----------------------------------------------------------------------------
(* Properties.                                                             *)

\* Exactly the named fields go, however they are spelled, each with all its
\* continuation lines and nothing of its neighbours, in the same order.
StripIsExact ==
    \A names \in {Stripped, StrippedFromReply} :
        InOrder(StripHeaders(HeadersOf(raw), names),
                HeadersOf(raw), Surviving(HeadersOf(raw), names))

\* header_value reads the first field of the name, unfolded to its end and no
\* further: the sender, when the envelope has none.
ValueIsFirstField ==
    \A name \in Names :
        InOrder(HeaderValue(HeadersOf(raw), name),
                [i \in 1..Len(HeadersOf(raw)) |-> HeadersOf(raw)[i].says],
                FirstField(HeadersOf(raw), name))

\* rewrite.rs:3, "the MIME body is forwarded byte for byte": whoever reads the
\* rewritten message finds the body of the original, if that has a header.
BodyIsForwarded ==
    raw # <<>> /\ raw[1] # Empty =>
        /\ TrueBody(RewriteForForward(raw)) = TrueBody(raw)
        /\ TrueBody(RewriteForReply(raw)) = TrueBody(raw)

\* Whoever reads the rewritten message finds one sender, ours, and answers to
\* it, whatever the original claimed; continuation lines with nothing to
\* continue aside, our fields say what we meant.
OneSender ==
    LET Count(headers, name) ==
            Cardinality({i \in 1..Len(headers) : headers[i].kind = "field" /\ headers[i].name = name})
        forward == HeadersOf(RewriteForForward(raw))
        reply == HeadersOf(RewriteForReply(raw))
    IN  /\ Count(forward, "from") = 1 /\ Count(forward, "reply-to") = 1
        /\ Count(reply, "from") = 1 /\ Count(reply, "reply-to") = 0
        /\ HeaderValue(forward, "from") = <<{TheReverse, TheContact}>>
        /\ HeaderValue(reply, "from") = <<{TheAlias}>>
        /\ HeaderValue(reply, "to") = <<{TheContact}>>

\* README.md:8, "so the other side never learns your real address", and
\* rewrite.rs:140, "so the contact only ever sees the alias": no header field of
\* a reply that goes out names the mailbox.
ContactSeesOnlyAlias ==
    LET reply == HeadersOf(RewriteForReply(raw))
    IN  \A i \in 1..Len(reply) : reply[i].kind = "field" => TheMailbox \notin reply[i].says
=============================================================================
