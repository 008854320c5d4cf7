------------------------------ MODULE MCMailText ------------------------------
EXTENDS MailText

\* Fields that every message loses, one that only a reply loses, and one that the
\* lists do not know.
MCNames == {"from", "to", "reply-to", "disposition-notification-to"}
MCPeople == {"mailbox", "stranger"}

\* Two domains, one of them configured in upper case.
MCDomains == <<<<"A", ".", "a">>, <<"a", ".", "a", "a">>>>

\* No name, one, a quoted one, one with an address; and a remark in brackets.
MCRemarks == {<<>>, <<"a", " ">>, <<Quote, "a", Quote, " ">>,
                 <<"a", "@", "a", ".", "a", " ">>, <<" ", "<", "a", ">">>}
=============================================================================
