----------------------------- MODULE SmtpSession -----------------------------
(***************************************************************************)
(* One inbound SMTP conversation (src/src/smtp/session.rs, spawned for each*)
(* connection by server.rs): which commands it takes in which order, what  *)
(* it collects in the envelope, how it reads DATA, and what it hands to    *)
(* its MailHandler.  The handler's answers are arbitrary here; module      *)
(* AliasRouter says what they are.                                         *)
(*                                                                         *)
(* A line of a message is a sequence of characters, of which only the dot  *)
(* matters.  The client follows RFC 5321 in DATA: it puts a dot before a   *)
(* line that starts with one.                                              *)
(***************************************************************************)
EXTENDS Integers, Sequences, SequencesExt

CONSTANTS
    Addresses,      \* addresses a client may name, the null sender among them
    Chars,          \* characters of a message, the dot among them
    Lines,          \* lines a message may have
    MaxRecipients,  \* MAX_RECIPIENTS
    MaxSize,        \* inbound.max_message_size
    MaxLines,       \* bound: lines of a message
    MaxMails        \* bound: transactions of a connection

NoAddress == "nobody"

ASSUME SessionAssumption ==
    /\ "." \in Chars
    /\ \A l \in Lines : l \in Seq(Chars)
    /\ NoAddress \notin Addresses
    /\ MaxRecipients \in Nat \ {0} /\ MaxSize \in Nat
    /\ MaxLines \in Nat /\ MaxMails \in Nat

VARIABLES
    stage,      \* what handle_session waits for
    greeted,    \* EHLO or HELO was seen
    haveSender, \* MAIL was accepted
    mailFrom,   \* envelope.mail_from
    rcptTo,     \* envelope.rcpt_to
    data,       \* the lines read_data kept
    tooLarge,   \* read_data gave the message up
    asked,      \* the recipient verify_recipient is looking at
    reply,      \* the last reply code
    meant,      \* history: lines of the message the client is sending
    ended,      \* the client sends no more: the next read returns 0
    ending,     \* history: how DATA ended, "open" while it has not
    vouched,    \* history: recipients accepted since the last MAIL, with its sender
    mails,      \* history: accepted MAIL commands
    handled     \* history: calls of MailHandler::handle

envelope == <<haveSender, mailFrom, rcptTo>>
payload  == <<data, tooLarge, meant, ended, ending>>
history  == <<vouched, mails, handled>>
vars     == <<stage, greeted, envelope, payload, asked, reply, history>>

Init ==
    /\ stage = "command" /\ greeted = FALSE /\ reply = "220"
    /\ haveSender = FALSE /\ mailFrom = NoAddress /\ rcptTo = <<>>
    /\ data = <<>> /\ tooLarge = FALSE /\ meant = <<>>
    /\ ended = FALSE /\ ending = "open"
    /\ asked = NoAddress
    /\ vouched = {} /\ mails = 0 /\ handled = 0

-----------------------------------------------------------------------------
(* Commands.                                                               *)

\* Envelope::default() and have_sender = false.
ResetEnvelope == /\ haveSender' = FALSE
                 /\ mailFrom' = NoAddress
                 /\ rcptTo' = <<>>

Reply(code) == reply' = code

\* A reply that changes nothing: bad order, bad syntax, NOOP, VRFY, STARTTLS.
Only(code) == /\ Reply(code)
              /\ UNCHANGED <<stage, greeted, envelope, payload, asked, history>>

Hello ==
    /\ stage = "command"
    /\ greeted' = TRUE
    /\ ResetEnvelope
    /\ Reply("250")
    /\ UNCHANGED <<stage, payload, asked, history>>

\* Slip: the recipients of an earlier MAIL stay.
NewSenderOnly(address) == haveSender' = TRUE /\ mailFrom' = address /\ UNCHANGED rcptTo

NewSender(address) == haveSender' = TRUE /\ mailFrom' = address /\ rcptTo' = <<>>

Mail(address) ==
    /\ stage = "command"
    /\ \/ ~greeted /\ Only("503")
       \/ greeted /\ Only("501")        \* no FROM:<address>
       \/ /\ greeted /\ mails < MaxMails
          /\ NewSender(address)
          /\ Reply("250")
          /\ vouched' = {} /\ mails' = mails + 1
          /\ UNCHANGED <<stage, greeted, payload, asked, handled>>

\* Slip: the limit is reached one recipient late.
RcptOneTooMany(address) ==
    /\ stage = "command"
    /\ \/ ~haveSender /\ Only("503")
       \/ haveSender /\ Len(rcptTo) > MaxRecipients /\ Only("452")
       \/ /\ haveSender /\ Len(rcptTo) <= MaxRecipients
          /\ stage' = "verify"
          /\ asked' = address
          /\ UNCHANGED <<greeted, envelope, payload, reply, history>>

Rcpt(address) ==
    /\ stage = "command"
    /\ \/ ~haveSender /\ Only("503")
       \/ haveSender /\ Len(rcptTo) >= MaxRecipients /\ Only("452")
       \/ haveSender /\ Len(rcptTo) < MaxRecipients /\ Only("501")
       \/ /\ haveSender /\ Len(rcptTo) < MaxRecipients
          /\ stage' = "verify"
          /\ asked' = address
          /\ UNCHANGED <<greeted, envelope, payload, reply, history>>

\* verify_recipient(&envelope.mail_from, &address) answers.
Verified ==
    /\ stage = "verify"
    /\ stage' = "command" /\ asked' = NoAddress
    /\ \/ /\ rcptTo' = Append(rcptTo, asked)
          /\ vouched' = vouched \union {<<mailFrom, asked>>}
          /\ Reply("250")
       \/ /\ Reply("550")
          /\ UNCHANGED <<rcptTo, vouched>>
    /\ UNCHANGED <<greeted, haveSender, mailFrom, payload, mails, handled>>

DataCommand ==
    /\ stage = "command"
    /\ \/ rcptTo = <<>> /\ Only("503")
       \/ /\ rcptTo # <<>>
          /\ stage' = "data"
          /\ data' = <<>> /\ tooLarge' = FALSE
          /\ meant' = <<>> /\ ending' = "open"
          /\ Reply("354")
          /\ UNCHANGED <<greeted, envelope, ended, asked, history>>

Rset ==
    /\ stage = "command"
    /\ ResetEnvelope
    /\ Reply("250")
    /\ UNCHANGED <<stage, greeted, payload, asked, history>>

Other == stage = "command" /\ \E code \in {"250", "252", "454", "500", "502"} : Only(code)

\* QUIT, the end of the stream, or an error of the socket.
Close ==
    /\ stage = "command"
    /\ stage' = "closed"
    /\ UNCHANGED <<greeted, envelope, payload, asked, reply, history>>

-----------------------------------------------------------------------------
(* read_data.                                                              *)

\* What the client puts on the wire for a line (RFC 5321, 4.5.2).
Stuffed(line) == IF line # <<>> /\ Head(line) = "." THEN <<".">> \o line ELSE line

\* content.strip_prefix(b".")
Unstuffed(line) == IF line # <<>> /\ Head(line) = "." THEN Tail(line) ELSE line

\* data.len(), each line with its CRLF.
Size(lines) == FoldLeft(LAMBDA n, line : n + Len(line) + 2, 0, lines)

\* Slip: the CRLF is not counted.
KeepUncounted(content) ==
    IF Size(data) + Len(content) > MaxSize
    THEN tooLarge' = TRUE /\ UNCHANGED data
    ELSE data' = Append(data, content) /\ UNCHANGED tooLarge

Keep(content) ==
    IF Size(data) + Len(content) + 2 > MaxSize
    THEN tooLarge' = TRUE /\ UNCHANGED data
    ELSE data' = Append(data, content) /\ UNCHANGED tooLarge

DataLine(line) ==
    /\ stage = "data" /\ Len(meant) < MaxLines
    /\ meant' = Append(meant, line)
    /\ IF tooLarge THEN UNCHANGED <<data, tooLarge>> ELSE Keep(Unstuffed(Stuffed(line)))
    /\ UNCHANGED <<stage, greeted, envelope, ended, ending, asked, reply, history>>

NextStage(closing) == stage' = IF closing THEN "closed" ELSE "command"

\* A line that is a single dot was read.  The envelope is taken, not copied.
DotRead(closing) ==
    /\ stage = "data"
    /\ ended' = closing
    /\ IF tooLarge
       THEN /\ NextStage(closing)
            /\ ResetEnvelope
            /\ Reply("552")
            /\ UNCHANGED handled
       ELSE /\ stage' = "handle"
            /\ handled' = handled + 1
            /\ UNCHANGED <<envelope, reply>>
    /\ UNCHANGED <<greeted, data, tooLarge, meant, asked, vouched, mails>>

\* The client says the message is complete, and may leave at once.
FinalDot ==
    /\ ending' = "said"
    /\ \E closing \in BOOLEAN : DotRead(closing)

\* The stream ends after the first byte of a line that was stuffed: read_until
\* returns the dot alone, and strip_eol makes a final dot of it.
CutAfterDot(line) ==
    /\ line # <<>> /\ Stuffed(line)[1] = "."
    /\ ending' = "cut"
    /\ DotRead(TRUE)

\* Slip: the end of the stream ends the message too.
StreamEndsMessage ==
    /\ stage = "data"
    /\ stage' = "handle"
    /\ handled' = handled + 1
    /\ UNCHANGED <<greeted, envelope, payload, asked, reply, vouched, mails>>

\* The stream ends anywhere else inside DATA: 421, and the next read closes the
\* session.
StreamEnds ==
    /\ stage = "data"
    /\ stage' = "closed"
    /\ ResetEnvelope
    /\ Reply("421")
    /\ UNCHANGED <<greeted, payload, asked, history>>

\* Slip: the envelope is cloned.
HandledAndKept ==
    /\ stage = "handle"
    /\ NextStage(ended)
    /\ \E code \in {"250", "451"} : Reply(code)
    /\ UNCHANGED <<greeted, envelope, payload, asked, history>>

\* handle returns; nothing of the envelope is left for another DATA.
Handled ==
    /\ stage = "handle"
    /\ NextStage(ended)
    /\ ResetEnvelope
    /\ \E code \in {"250", "451"} : Reply(code)
    /\ UNCHANGED <<greeted, payload, asked, history>>

\* The socket breaks while the session is not reading commands: a handle call
\* under way still runs to its end, unheard.
Broken ==
    /\ stage \in {"verify", "data", "handle"}
    /\ stage' = "closed"
    /\ UNCHANGED <<greeted, envelope, payload, asked, reply, history>>

Next ==
    \/ Hello \/ DataCommand \/ Rset \/ Other \/ Close \/ Verified
    \/ \E address \in Addresses : Mail(address) \/ Rcpt(address)
    \/ \E line \in Lines : DataLine(line) \/ CutAfterDot(line)
    \/ FinalDot \/ StreamEnds \/ Handled \/ Broken

Spec == Init /\ [][Next]_vars

-----------------------------------------------------------------------------
(* Properties.                                                             *)

\* Every variable has its type, and the envelope no more recipients than the
\* limit: the check at RCPT is exact.
TypeOK ==
    /\ stage \in {"command", "verify", "data", "handle", "closed"}
    /\ greeted \in BOOLEAN /\ haveSender \in BOOLEAN
    /\ mailFrom \in Addresses \union {NoAddress}
    /\ rcptTo \in Seq(Addresses) /\ Len(rcptTo) <= MaxRecipients
    /\ data \in Seq(Lines) /\ tooLarge \in BOOLEAN
    /\ asked \in Addresses \union {NoAddress}
    /\ meant \in Seq(Lines)
    /\ ended \in BOOLEAN /\ ending \in {"open", "said", "cut"}
    /\ mails \in 0..MaxMails /\ handled \in Nat

\* Every recipient of the envelope was accepted for the sender of the
\* envelope, in this transaction: no change of sender, RSET or EHLO lets the
\* verdict for another sender be used.
RecipientsAreVouchedFor ==
    /\ \A i \in 1..Len(rcptTo) : <<mailFrom, rcptTo[i]>> \in vouched
    /\ stage = "handle" => rcptTo # <<>> /\ haveSender

\* A transaction is handed over once: there is no second DATA without a
\* second MAIL, however the first one ended.
HandedOverOnce == handled <= mails

\* What is handed over is what the client meant, line by line: transparency
\* is undone exactly and no line is lost or added.  The client said the message
\* was complete, or its stream ended inside a line that starts with a dot.
DataIsWhole == stage = "handle" => data = meant /\ ending # "open"

\* session.rs:201 answers "Connection closed during DATA" when the client
\* leaves before the end, and session.rs:146 names that end: <CR><LF>.<CR><LF>.
\* So a message is handed over only if the client said it was complete.
CutIsNotAnEnd == stage = "handle" => ending = "said"

\* A message is refused as too large exactly when it is, whichever line
\* crosses the limit and whatever follows it.
SizeIsExact ==
    stage \in {"data", "handle"} => (tooLarge <=> Size(meant) > MaxSize)
=============================================================================
