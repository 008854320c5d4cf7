------------------------- MODULE SmtpSession_proofs -------------------------
(***************************************************************************)
(* Proofs about one SMTP conversation, for any addresses, lines and        *)
(* limits.                                                                 *)
(***************************************************************************)
EXTENDS SmtpSession, SequenceTheorems, TLAPS

\* Removing one leading dot undoes what a client does to a line of DATA.
LEMMA Transparency == \A line \in Lines : Unstuffed(Stuffed(line)) = line
<1> SUFFICES ASSUME NEW line \in Lines PROVE Unstuffed(Stuffed(line)) = line
  OBVIOUS
<1>1. line \in Seq(Chars)
  BY SessionAssumption
<1>2. CASE line # <<>> /\ Head(line) = "."
  <2> DEFINE wire == <<".">> \o line
  <2>1. wire \in Seq(Chars) /\ Len(wire) = 1 + Len(line) /\ wire[1] = "."
    <3>1. <<".">> \in Seq(Chars)
      BY SessionAssumption
    <3> QED
      BY <1>1, <3>1, ConcatProperties
  <2>2. wire # <<>> /\ Head(wire) = "."
    BY <2>1
  <2>3. Tail(wire) = line
    BY <1>1, <2>1
  <2> QED
    BY <1>2, <2>2, <2>3 DEF Stuffed, Unstuffed
<1>3. CASE ~(line # <<>> /\ Head(line) = ".")
  BY <1>3 DEF Stuffed, Unstuffed
<1> QED
  BY <1>2, <1>3

-----------------------------------------------------------------------------
(* Types of the envelope.                                                  *)

EnvelopeType ==
    /\ stage \in {"command", "verify", "data", "handle", "closed"}
    /\ greeted \in BOOLEAN /\ haveSender \in BOOLEAN
    /\ mailFrom \in Addresses \union {NoAddress}
    /\ rcptTo \in Seq(Addresses)
    /\ Len(rcptTo) <= MaxRecipients
    /\ asked \in Addresses \union {NoAddress}
    /\ stage = "verify" => asked \in Addresses /\ haveSender /\ Len(rcptTo) < MaxRecipients
    /\ rcptTo # <<>> => haveSender
    /\ stage \in {"data", "handle"} => rcptTo # <<>>

\* A new connection has an empty envelope.
LEMMA InitEnvelope == Init => EnvelopeType
<1> SUFFICES ASSUME Init PROVE EnvelopeType
  OBVIOUS
<1>1. rcptTo = <<>> /\ Len(rcptTo) = 0
  BY DEF Init
<1>2. rcptTo \in Seq(Addresses) /\ Len(rcptTo) <= MaxRecipients
  BY <1>1, SessionAssumption
<1> QED
  BY <1>1, <1>2 DEF Init, EnvelopeType

\* The empty list of recipients has the type of rcptTo.
LEMMA EmptyFits ==
  \A q : q = <<>> => q \in Seq(Addresses) /\ Len(q) = 0 /\ Len(q) <= MaxRecipients
BY SessionAssumption

\* Every step keeps the types of the envelope, and DATA is only reached with a
\* sender and a recipient.
LEMMA NextEnvelope ==
  ASSUME EnvelopeType, [Next]_vars
  PROVE  EnvelopeType'
<1> USE EmptyFits, SessionAssumption DEF EnvelopeType, envelope, payload, history
<1>1. CASE Hello
  BY <1>1 DEF Hello, ResetEnvelope, Reply
<1>2. CASE DataCommand
  BY <1>2 DEF DataCommand, Only, Reply
<1>3. CASE Rset
  BY <1>3 DEF Rset, ResetEnvelope, Reply
<1>4. CASE Other
  BY <1>4 DEF Other, Only, Reply
<1>5. CASE Close
  BY <1>5 DEF Close
<1>6. CASE Verified
  BY <1>6, SMTT(30) DEF Verified, Reply
<1>7. ASSUME NEW address \in Addresses, Mail(address) PROVE EnvelopeType'
  BY <1>7 DEF Mail, NewSender, Only, Reply
<1>8. ASSUME NEW address \in Addresses, Rcpt(address) PROVE EnvelopeType'
  BY <1>8 DEF Rcpt, Only, Reply
<1>9. ASSUME NEW line \in Lines, DataLine(line) PROVE EnvelopeType'
  BY <1>9 DEF DataLine, Keep
<1>10. ASSUME NEW closing \in BOOLEAN, DotRead(closing) PROVE EnvelopeType'
  BY <1>10 DEF DotRead, NextStage, ResetEnvelope, Reply
<1>11. CASE StreamEnds
  BY <1>11 DEF StreamEnds, ResetEnvelope, Reply
<1>12. CASE Handled
  BY <1>12 DEF Handled, NextStage, ResetEnvelope, Reply
<1>13. CASE Broken
  BY <1>13 DEF Broken
<1>14. CASE UNCHANGED vars
  BY <1>14 DEF vars
<1> QED
  BY <1>1, <1>2, <1>3, <1>4, <1>5, <1>6, <1>7, <1>8,
     <1>9, <1>10, <1>11, <1>12, <1>13, <1>14 DEF Next, FinalDot, CutAfterDot

\* The envelope is typed in every reachable state.
LEMMA EnvelopeAlways == Spec => []EnvelopeType
  BY InitEnvelope, NextEnvelope, PTL DEF Spec

-----------------------------------------------------------------------------
(* Verdicts.                                                               *)

\* There is nobody to vouch for yet.
LEMMA InitVouched == Init => RecipientsAreVouchedFor
<1> SUFFICES ASSUME Init PROVE RecipientsAreVouchedFor
  OBVIOUS
<1>1. Len(rcptTo) = 0
  BY DEF Init
<1> QED
  BY <1>1 DEF Init, RecipientsAreVouchedFor

\* Only Verified adds a recipient, with its verdict; whatever changes the sender
\* or forgets verdicts empties the list.
LEMMA NextVouched ==
  ASSUME EnvelopeType, RecipientsAreVouchedFor, [Next]_vars
  PROVE  RecipientsAreVouchedFor'
<1> USE DEF EnvelopeType, RecipientsAreVouchedFor, envelope, payload, history
<1>1. CASE Hello
  BY <1>1 DEF Hello, ResetEnvelope, Reply
<1>2. CASE DataCommand
  BY <1>2 DEF DataCommand, Only, Reply
<1>3. CASE Rset
  BY <1>3 DEF Rset, ResetEnvelope, Reply
<1>4. CASE Other
  BY <1>4 DEF Other, Only, Reply
<1>5. CASE Close
  BY <1>5 DEF Close
<1>6. CASE Verified
  <2>1. CASE UNCHANGED rcptTo /\ UNCHANGED vouched
    BY <1>6, <2>1 DEF Verified
  <2>2. CASE /\ rcptTo' = Append(rcptTo, asked)
             /\ vouched' = vouched \union {<<mailFrom, asked>>}
    <3>1. mailFrom' = mailFrom /\ stage' = "command"
      BY <1>6 DEF Verified
    <3>2. Len(rcptTo') = Len(rcptTo) + 1 /\ rcptTo'[Len(rcptTo) + 1] = asked
      BY <1>6, <2>2 DEF Verified
    <3>3. \A i \in 1..Len(rcptTo) : rcptTo'[i] = rcptTo[i]
      BY <1>6, <2>2 DEF Verified
    <3>4. \A i \in 1..Len(rcptTo') : <<mailFrom', rcptTo'[i]>> \in vouched'
      BY <2>2, <3>1, <3>2, <3>3
    <3> QED
      BY <3>1, <3>4
  <2> QED
    BY <1>6, <2>1, <2>2 DEF Verified
<1>7. ASSUME NEW address \in Addresses, Mail(address) PROVE RecipientsAreVouchedFor'
  BY <1>7 DEF Mail, NewSender, Only, Reply
<1>8. ASSUME NEW address \in Addresses, Rcpt(address) PROVE RecipientsAreVouchedFor'
  BY <1>8 DEF Rcpt, Only, Reply
<1>9. ASSUME NEW line \in Lines, DataLine(line) PROVE RecipientsAreVouchedFor'
  BY <1>9 DEF DataLine, Keep
<1>10. ASSUME NEW closing \in BOOLEAN, DotRead(closing)
      PROVE  RecipientsAreVouchedFor'
  <2>1. CASE tooLarge
    BY <1>10, <2>1, EmptyFits DEF DotRead, NextStage, ResetEnvelope
  <2>2. CASE ~tooLarge
    BY <1>10, <2>2 DEF DotRead, NextStage
  <2> QED
    BY <2>1, <2>2
<1>11. CASE StreamEnds
  BY <1>11 DEF StreamEnds, ResetEnvelope, Reply
<1>12. CASE Handled
  BY <1>12 DEF Handled, NextStage, ResetEnvelope, Reply
<1>13. CASE Broken
  BY <1>13 DEF Broken
<1>14. CASE UNCHANGED vars
  BY <1>14 DEF vars
<1> QED
  BY <1>1, <1>2, <1>3, <1>4, <1>5, <1>6, <1>7, <1>8,
     <1>9, <1>10, <1>11, <1>12, <1>13, <1>14 DEF Next, FinalDot, CutAfterDot

\* The handler accepted every recipient of the envelope for the sender of the
\* envelope since the last MAIL.
THEOREM VerdictsAreOfThisTransaction == Spec => []RecipientsAreVouchedFor
  BY InitVouched, NextVouched, EnvelopeAlways, PTL DEF Spec

-----------------------------------------------------------------------------
(* Once, and whole.  A sender that is still there has not been used up, and*)
(* the kept lines are the client's until the limit is crossed.             *)

Delivering ==
    /\ mails \in Nat /\ handled \in Nat /\ handled <= mails
    /\ stage \in {"command", "verify", "data"} /\ haveSender => handled < mails
    /\ stage \in {"data", "handle"} /\ ~tooLarge => data = meant
    /\ stage = "handle" => ~tooLarge /\ ending # "open"

\* Every step keeps the account of transactions and of the lines of DATA.
LEMMA NextDelivering ==
  ASSUME EnvelopeType, Delivering, [Next]_vars
  PROVE  Delivering'
<1> USE DEF EnvelopeType, Delivering, envelope, payload, history
<1>1. CASE Hello
  BY <1>1 DEF Hello, ResetEnvelope, Reply
<1>2. CASE DataCommand
  BY <1>2 DEF DataCommand, Only, Reply
<1>3. CASE Rset
  BY <1>3 DEF Rset, ResetEnvelope, Reply
<1>4. CASE Other
  BY <1>4 DEF Other, Only, Reply
<1>5. CASE Close
  BY <1>5 DEF Close
<1>6. CASE Verified
  BY <1>6 DEF Verified, Reply
<1>7. ASSUME NEW address \in Addresses, Mail(address) PROVE Delivering'
  BY <1>7 DEF Mail, NewSender, Only, Reply
<1>8. ASSUME NEW address \in Addresses, Rcpt(address) PROVE Delivering'
  BY <1>8 DEF Rcpt, Only, Reply
<1>9. ASSUME NEW line \in Lines, DataLine(line) PROVE Delivering'
  <2>1. meant' = Append(meant, line) /\ stage = "data" /\ stage' = "data"
    BY <1>9 DEF DataLine
  <2>2. UNCHANGED <<haveSender, mails, handled, ending>>
    BY <1>9 DEF DataLine
  <2>3. CASE tooLarge
    BY <1>9, <2>1, <2>2, <2>3 DEF DataLine
  <2>4. CASE ~tooLarge
    <3>1. Keep(line)
      BY <1>9, <2>4, Transparency DEF DataLine
    <3>2. tooLarge' \/ data' = Append(data, line)
      BY <3>1 DEF Keep
    <3> QED
      BY <2>1, <2>2, <2>4, <3>2
  <2> QED
    BY <2>3, <2>4
<1>10. ASSUME NEW closing \in BOOLEAN, DotRead(closing), ending' # "open"
      PROVE  Delivering'
  <2>1. CASE tooLarge
    BY <1>10, <2>1 DEF DotRead, NextStage, ResetEnvelope
  <2>2. CASE ~tooLarge
    BY <1>10, <2>2 DEF DotRead, NextStage
  <2> QED
    BY <2>1, <2>2
<1>11. CASE StreamEnds
  BY <1>11 DEF StreamEnds, ResetEnvelope, Reply
<1>12. CASE Handled
  BY <1>12 DEF Handled, NextStage, ResetEnvelope, Reply
<1>13. CASE Broken
  BY <1>13 DEF Broken
<1>14. CASE UNCHANGED vars
  BY <1>14 DEF vars
<1> QED
  BY <1>1, <1>2, <1>3, <1>4, <1>5, <1>6, <1>7, <1>8,
     <1>9, <1>10, <1>11, <1>12, <1>13, <1>14 DEF Next, FinalDot, CutAfterDot

\* The account of transactions holds in every reachable state.
LEMMA DeliveringAlways == Spec => []Delivering
<1>1. Init => Delivering
  BY DEF Init, Delivering
<1>2. EnvelopeType /\ Delivering /\ [Next]_vars => Delivering'
  BY NextDelivering
<1> QED
  BY <1>1, <1>2, EnvelopeAlways, PTL DEF Spec

\* A transaction is handed over once, however DATA or the handler ended.
THEOREM HandsOverOnce == Spec => []HandedOverOnce
<1>1. Delivering => HandedOverOnce
  BY DEF Delivering, HandedOverOnce
<1> QED
  BY <1>1, DeliveringAlways, PTL

\* What is handed over is what the client meant, line by line.
THEOREM HandsOverWhole == Spec => []DataIsWhole
<1>1. Delivering => DataIsWhole
  BY DEF Delivering, DataIsWhole
<1> QED
  BY <1>1, DeliveringAlways, PTL

-----------------------------------------------------------------------------
(* Types of the rest.                                                      *)

PayloadType ==
    /\ data \in Seq(Lines) /\ tooLarge \in BOOLEAN /\ meant \in Seq(Lines)
    /\ ended \in BOOLEAN /\ ending \in {"open", "said", "cut"}
    /\ mails \in 0..MaxMails

\* Every step keeps the types of DATA and the bound of transactions.
LEMMA NextPayload ==
  ASSUME PayloadType, [Next]_vars
  PROVE  PayloadType'
<1> USE SessionAssumption DEF PayloadType, envelope, payload, history
<1>0. <<>> \in Seq(Lines)
  OBVIOUS
<1>1. CASE Hello
  BY <1>1 DEF Hello, ResetEnvelope, Reply
<1>2. CASE DataCommand
  BY <1>0, <1>2 DEF DataCommand, Only, Reply
<1>3. CASE Rset
  BY <1>3 DEF Rset, ResetEnvelope, Reply
<1>4. CASE Other
  BY <1>4 DEF Other, Only, Reply
<1>5. CASE Close
  BY <1>5 DEF Close
<1>6. CASE Verified
  BY <1>6 DEF Verified, Reply
<1>7. ASSUME NEW address \in Addresses, Mail(address) PROVE PayloadType'
  BY <1>7 DEF Mail, NewSender, Only, Reply
<1>8. ASSUME NEW address \in Addresses, Rcpt(address) PROVE PayloadType'
  BY <1>8 DEF Rcpt, Only, Reply
<1>9. ASSUME NEW line \in Lines, DataLine(line) PROVE PayloadType'
  <2>1. /\ meant' \in Seq(Lines) /\ Append(data, line) \in Seq(Lines)
        /\ UNCHANGED <<ended, ending, mails>>
    BY <1>9 DEF DataLine
  <2>2. \/ UNCHANGED data /\ tooLarge' \in BOOLEAN
        \/ data' = Append(data, line) /\ tooLarge' \in BOOLEAN
    BY <1>9, Transparency DEF DataLine, Keep
  <2> QED
    BY <2>1, <2>2
<1>10. ASSUME NEW closing \in BOOLEAN, DotRead(closing), ending' \in {"said", "cut"}
      PROVE  PayloadType'
  BY <1>10 DEF DotRead
<1>11. CASE StreamEnds
  BY <1>11 DEF StreamEnds, ResetEnvelope, Reply
<1>12. CASE Handled
  BY <1>12 DEF Handled, NextStage, ResetEnvelope, Reply
<1>13. CASE Broken
  BY <1>13 DEF Broken
<1>14. CASE UNCHANGED vars
  BY <1>14 DEF vars
<1> QED
  BY <1>1, <1>2, <1>3, <1>4, <1>5, <1>6, <1>7, <1>8,
     <1>9, <1>10, <1>11, <1>12, <1>13, <1>14 DEF Next, FinalDot, CutAfterDot

\* DATA and the number of transactions are typed in every reachable state.
LEMMA PayloadAlways == Spec => []PayloadType
<1>1. ASSUME Init PROVE PayloadType
  <2>1. <<>> \in Seq(Lines)
    OBVIOUS
  <2>2. mails = 0 /\ 0 \in 0..MaxMails
    BY <1>1, SessionAssumption DEF Init
  <2> QED
    BY <1>1, <2>1, <2>2 DEF Init, PayloadType
<1>2. PayloadType /\ [Next]_vars => PayloadType'
  BY NextPayload
<1> QED
  BY <1>1, <1>2, PTL DEF Spec

\* Every variable has its type, and the envelope never more recipients than the
\* limit.
THEOREM SessionTyped == Spec => []TypeOK
<1>1. EnvelopeType /\ Delivering /\ PayloadType => TypeOK
  BY DEF EnvelopeType, Delivering, PayloadType, TypeOK
<1> QED
  BY <1>1, EnvelopeAlways, DeliveringAlways, PayloadAlways, PTL

-----------------------------------------------------------------------------
(* The size limit.  Size is a loop; FoldInduction says what a turn does;   *)
(* the loop refers to nothing outside, so x is {}.                         *)

PlusLine(n, line, x) == n + Len(line) + 2

IsNatural(lines, n, x) == n \in Nat

Sizes == INSTANCE FoldInduction
         WITH Elements <- Lines, Op <- PlusLine, Base <- 0, Inv <- IsNatural

\* Size is that loop.
LEMMA SizeIsFold == \A lines : Size(lines) = Sizes!Fold(lines, {})
  BY DEF Size, PlusLine, FoldLeft, MapThenFoldSet, Max,
         Sizes!Fold, Sizes!FoldLeft, Sizes!MapThenFoldSet, Sizes!Max

\* A line has a length.
LEMMA LinesHaveLengths == \A line \in Lines : Len(line) \in Nat
  BY SessionAssumption

\* No lines have no size, a line adds its characters and CRLF, and a size is a
\* natural number.
LEMMA SizeCounts ==
  /\ Size(<<>>) = 0
  /\ \A lines \in Seq(Lines), line \in Lines :
        Size(Append(lines, line)) = Size(lines) + Len(line) + 2
  /\ \A lines \in Seq(Lines) : Size(lines) \in Nat
<1>1. Size(<<>>) = 0
  BY SizeIsFold, Sizes!FoldEmpty
<1>2. \A lines \in Seq(Lines), line \in Lines :
         Size(Append(lines, line)) = Size(lines) + Len(line) + 2
  BY SizeIsFold, Sizes!FoldAppend DEF PlusLine
<1>3. \A lines \in Seq(Lines) : Size(lines) \in Nat
  <2>1. IsNatural(<<>>, 0, {})
    BY DEF IsNatural
  <2>2. \A lines \in Seq(Lines), line \in Lines :
           IsNatural(lines, Sizes!Fold(lines, {}), {}) =>
             IsNatural(Append(lines, line), PlusLine(Sizes!Fold(lines, {}), line, {}), {})
    BY LinesHaveLengths DEF IsNatural, PlusLine
  <2>3. \A lines \in Seq(Lines) : IsNatural(lines, Sizes!Fold(lines, {}), {})
    BY <2>1, <2>2, Sizes!FoldKeeps
  <2> QED
    BY <2>3, SizeIsFold DEF IsNatural
<1> QED
  BY <1>1, <1>2, <1>3

\* The message is given up at the line that crosses the limit, and no later line
\* makes it smaller.
LEMMA NextSize ==
  ASSUME EnvelopeType, Delivering, PayloadType, SizeIsExact, [Next]_vars
  PROVE  SizeIsExact'
<1> USE DEF SizeIsExact, envelope, payload, history
<1>1. CASE Hello
  BY <1>1 DEF Hello, ResetEnvelope, Reply
<1>2. CASE DataCommand
  <2>1. \/ stage' = "data" /\ meant' = <<>> /\ tooLarge' = FALSE
        \/ UNCHANGED <<stage, meant, tooLarge>>
    BY <1>2 DEF DataCommand, Only, Reply
  <2>2. ~(0 > MaxSize)
    BY SessionAssumption
  <2> QED
    BY <2>1, <2>2, SizeCounts
<1>3. CASE Rset
  BY <1>3 DEF Rset, ResetEnvelope, Reply
<1>4. CASE Other
  BY <1>4 DEF Other, Only, Reply
<1>5. CASE Close
  BY <1>5 DEF Close
<1>6. CASE Verified
  BY <1>6 DEF Verified, Reply
<1>7. ASSUME NEW address \in Addresses, Mail(address) PROVE SizeIsExact'
  BY <1>7 DEF Mail, NewSender, Only, Reply
<1>8. ASSUME NEW address \in Addresses, Rcpt(address) PROVE SizeIsExact'
  BY <1>8 DEF Rcpt, Only, Reply
<1>9. ASSUME NEW line \in Lines, DataLine(line) PROVE SizeIsExact'
  <2>1. stage = "data" /\ stage' = stage /\ meant' = Append(meant, line)
    BY <1>9 DEF DataLine
  <2>2. /\ Size(meant) \in Nat /\ Len(line) \in Nat /\ MaxSize \in Nat
        /\ Size(meant') = Size(meant) + Len(line) + 2
    BY <2>1, SizeCounts, LinesHaveLengths, SessionAssumption DEF PayloadType
  <2>3. CASE tooLarge
    <3>1. Size(meant) > MaxSize /\ tooLarge'
      BY <1>9, <2>1, <2>3 DEF DataLine
    <3>2. Size(meant') > MaxSize
      BY <2>2, <3>1
    <3> QED
      BY <3>1, <3>2
  <2>4. CASE ~tooLarge
    <3>1. Keep(line) /\ data = meant
      BY <1>9, <2>1, <2>4, Transparency DEF DataLine, Delivering
    <3>2. IF Size(meant') > MaxSize THEN tooLarge' ELSE tooLarge' = FALSE
      BY <2>2, <2>4, <3>1 DEF Keep, PayloadType
    <3> QED
      BY <2>1, <3>2
  <2> QED
    BY <2>3, <2>4
<1>10. ASSUME NEW closing \in BOOLEAN, DotRead(closing) PROVE SizeIsExact'
  BY <1>10 DEF DotRead, NextStage, ResetEnvelope, Reply
<1>11. CASE StreamEnds
  BY <1>11 DEF StreamEnds, ResetEnvelope, Reply
<1>12. CASE Handled
  BY <1>12 DEF Handled, NextStage, ResetEnvelope, Reply
<1>13. CASE Broken
  BY <1>13 DEF Broken
<1>14. CASE UNCHANGED vars
  BY <1>14 DEF vars
<1> QED
  BY <1>1, <1>2, <1>3, <1>4, <1>5, <1>6, <1>7, <1>8,
     <1>9, <1>10, <1>11, <1>12, <1>13, <1>14 DEF Next, FinalDot, CutAfterDot

\* A message is refused as too large exactly when it is, for any lines and limit.
THEOREM TooLargeIsExact == Spec => []SizeIsExact
<1>1. Init => SizeIsExact
  BY DEF Init, SizeIsExact
<1> QED
  BY <1>1, NextSize, EnvelopeAlways, DeliveringAlways, PayloadAlways, PTL DEF Spec
=============================================================================
