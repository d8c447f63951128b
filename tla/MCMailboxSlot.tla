--------------------------- MODULE MCMailboxSlot ---------------------------
(* Two values of a word tell a torn message from a whole one.              *)
EXTENDS MailboxSlot
CONSTANTS lo, hi
MCWord == {lo, hi}
=============================================================================
