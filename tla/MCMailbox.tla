------------------------------ MODULE MCMailbox ------------------------------
(* Instances of Mailbox for TLC.                                            *)
EXTENDS Mailbox, TLC

\* Purgers are interchangeable, and so are the attachments of a message.
MailboxSymmetry == Permutations(Purgers) \cup Permutations(Parts)
=============================================================================
