---------------------------- MODULE MCSmtpSession ----------------------------
EXTENDS SmtpSession

\* A null sender and two addresses; lines that start with no, one or two dots.
MCAddresses == {"", "a", "b"}
MCChars == {".", "x"}
MCLines == {<<>>, <<".">>, <<".", ".">>, <<"x">>, <<".", "x">>}
=============================================================================
