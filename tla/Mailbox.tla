------------------------------ MODULE Mailbox ------------------------------
(***************************************************************************)
(* What one MultiZone IPC mailbox promises to the program that uses it: a  *)
(* channel of capacity one, from one zone to another, in which a message   *)
(* is put and taken whole.                                                 *)
(*                                                                         *)
(* MZONE_SEND and MZONE_RECV never block.  A SEND that returns 1 is the    *)
(* Send step; one that returns 0 found the box full and changes nothing,   *)
(* so it is a stuttering step here, and so is a RECV that returns 0.       *)
(*                                                                         *)
(* A handler that shares its mailbox with a second context that runs RECV  *)
(* is promised less: a message may be lost to it.                          *)
(***************************************************************************)
CONSTANTS Msg,     \* the messages: two 64-bit words
          Empty,   \* the content of a mailbox with no message in it,
                   \* not one of the messages
          Lossy    \* does a second context run RECV?

VARIABLES box,     \* the message in the mailbox, or Empty
          out      \* the last message that the RECV of the handler returned

vars == <<box, out>>

Init == /\ box = Empty
        /\ out = Empty

Send(m) == /\ box = Empty
           /\ box' = m
           /\ out' = out

Recv == /\ box # Empty
        /\ out' = box
        /\ box' = Empty

Lose == /\ Lossy /\ box # Empty
        /\ box' = Empty
        /\ out' = out

Next == Recv \/ Lose \/ \E m \in Msg : Send(m)

Spec == Init /\ [][Next]_vars
=============================================================================
