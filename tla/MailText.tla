------------------------------- MODULE MailText -------------------------------
(***************************************************************************)
(* The two text formats of the router side by side: messages and addresses *)
(* have nothing in common, so each is explored while the other is empty.   *)
(***************************************************************************)
EXTENDS HeaderRewrite, EmailAddress

TextInit == RewriteInit /\ AddressInit

TextNext == \/ AppendLine /\ text = <<>> /\ UNCHANGED text
            \/ AppendChar /\ raw = <<>> /\ UNCHANGED raw

TextSpec == TextInit /\ [][TextNext]_<<raw, text>>
=============================================================================
