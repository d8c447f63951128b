---------------------------- MODULE MailboxSlot ----------------------------
(***************************************************************************)
(* One mailbox of a U54 hart at the grain of the instructions of the       *)
(* MZONE_SEND and MZONE_RECV macros (ext/multizone/mss_multizone.h): three *)
(* 64-bit words of shared memory, a flag and the two words of the message, *)
(* plus the CLINT software interrupt of the receiving hart (the doorbell). *)
(*                                                                         *)
(* The sender and the receiver run on different harts, so each memory      *)
(* access is a step of its own.  The receiving hart has two contexts that  *)
(* may run the RECV macro: its software interrupt handler, and, on harts   *)
(* 1 to 3, the main thread that executes the console command "recv" with   *)
(* interrupts enabled.  The handler preempts the main thread, never the    *)
(* other way round.                                                        *)
(*                                                                         *)
(* Stores of one hart to the mailbox reach memory in program order.        *)
(***************************************************************************)
CONSTANTS Word,       \* the values of a 64-bit word that are told apart
          CmdRecv     \* may the operator type "recv" on the hart's console?

ASSUME CmdRecvAssumption == CmdRecv \in BOOLEAN

VARIABLES
  flag, word0, word1, \* the slot: full/empty flag, the two message words
  bell,               \* CLINT MSIP of the receiving hart
  sPc, sArg,          \* sender: next instruction, the message to send
  rPc,                \* receiver contexts: next instruction
  reg0, reg1,         \* receiver contexts: the message copied so far
  out                 \* the last message that the handler's RECV returned

slot   == <<flag, word0, word1>>
sender == <<sPc, sArg>>
vars   == <<slot, bell, sender, rPc, reg0, reg1, out>>

Msg   == Word \X Word
Empty == << >>
Ctx   == {"isr", "main"}

Init == /\ flag = 0
        /\ word0 \in Word
        /\ word1 \in Word
        /\ bell = FALSE
        /\ sPc = "idle"
        /\ sArg \in Msg
        /\ rPc = [c \in Ctx |-> "idle"]
        /\ reg0 \in [Ctx -> Word]
        /\ reg1 \in [Ctx -> Word]
        /\ out = Empty
-----------------------------------------------------------------------------
(* The sender: MZONE_SEND(zone, msg).                                      *)

SendCall == /\ sPc = "idle"
            /\ sArg' \in Msg
            /\ sPc' = "test"
            /\ UNCHANGED <<slot, bell, rPc, reg0, reg1, out>>

\* Mutant: the full/empty test is dropped.
SendTestBlind == /\ sPc = "test"
                 /\ sPc' = "word0"
                 /\ UNCHANGED <<slot, bell, sArg, rPc, reg0, reg1, out>>

\* ld flag; bnez 1f : a full mailbox makes SEND return 0
SendTest == /\ sPc = "test"
            /\ sPc' = IF flag = 0 THEN "word0" ELSE "idle"
            /\ UNCHANGED <<slot, bell, sArg, rPc, reg0, reg1, out>>

\* Mutant: the flag is raised before the second word is written.
SendWord0FlagFirst ==
  /\ sPc = "word0"
  /\ word0' = sArg[1]
  /\ flag' = 1
  /\ sPc' = "word1"
  /\ UNCHANGED <<word1, bell, sArg, rPc, reg0, reg1, out>>

SendWord0 == /\ sPc = "word0"
             /\ word0' = sArg[1]
             /\ sPc' = "word1"
             /\ UNCHANGED <<flag, word1, bell, sArg, rPc, reg0, reg1, out>>

SendWord1 == /\ sPc = "word1"
             /\ word1' = sArg[2]
             /\ sPc' = "flag"
             /\ UNCHANGED <<flag, word0, bell, sArg, rPc, reg0, reg1, out>>

\* Mutant: the store to CLINT MSIP is left out.
SendFlagSilent == /\ sPc = "flag"
                  /\ flag' = 1
                  /\ sPc' = "idle"
                  /\ UNCHANGED <<word0, word1, bell, sArg, rPc, reg0, reg1, out>>

SendFlag == /\ sPc = "flag"
            /\ flag' = 1
            /\ sPc' = "ring"
            /\ UNCHANGED <<word0, word1, bell, sArg, rPc, reg0, reg1, out>>

SendRing == /\ sPc = "ring"
            /\ bell' = TRUE
            /\ sPc' = "idle"
            /\ UNCHANGED <<slot, sArg, rPc, reg0, reg1, out>>

Send == SendCall \/ SendTest \/ SendWord0 \/ SendWord1 \/ SendFlag \/ SendRing
-----------------------------------------------------------------------------
(* The receiver: MZONE_RECV(zone, msg) in context c.                       *)

\* A context runs only when nothing that preempts it is active.
Runs(c) == c = "isr" \/ rPc["isr"] = "idle"

\* What follows RECV: the handler clears the doorbell, the console returns.
AfterRecv(c) == IF c = "isr" THEN "unring" ELSE "idle"

Goto(c, l) == rPc' = [rPc EXCEPT ![c] = l]

\* The software interrupt is taken.
IsrEnter == /\ bell
            /\ rPc["isr"] = "idle"
            /\ Goto("isr", "test")
            /\ UNCHANGED <<slot, bell, sender, reg0, reg1, out>>

\* The operator's "recv" command.
CmdRecvCall == /\ CmdRecv
               /\ Runs("main")
               /\ rPc["main"] = "idle"
               /\ Goto("main", "test")
               /\ UNCHANGED <<slot, bell, sender, reg0, reg1, out>>

RecvTest(c) == /\ Runs(c)
               /\ rPc[c] = "test"
               /\ Goto(c, IF flag = 0 THEN AfterRecv(c) ELSE "word0")
               /\ UNCHANGED <<slot, bell, sender, reg0, reg1, out>>

\* Mutant: the mailbox is freed before the message is copied.
RecvWord0Early(c) == /\ Runs(c)
                     /\ rPc[c] = "word0"
                     /\ reg0' = [reg0 EXCEPT ![c] = word0]
                     /\ flag' = 0
                     /\ Goto(c, "word1")
                     /\ UNCHANGED <<word0, word1, bell, sender, reg1, out>>

RecvWord0(c) == /\ Runs(c)
                /\ rPc[c] = "word0"
                /\ reg0' = [reg0 EXCEPT ![c] = word0]
                /\ Goto(c, "word1")
                /\ UNCHANGED <<slot, bell, sender, reg1, out>>

RecvWord1(c) == /\ Runs(c)
                /\ rPc[c] = "word1"
                /\ reg1' = [reg1 EXCEPT ![c] = word1]
                /\ Goto(c, "clear")
                /\ UNCHANGED <<slot, bell, sender, reg0, out>>

Given(c) == IF c = "isr" THEN <<reg0[c], reg1[c]>> ELSE out

\* Mutant: the flag is left up.
RecvClearNot(c) == /\ Runs(c)
                   /\ rPc[c] = "clear"
                   /\ out' = Given(c)
                   /\ Goto(c, AfterRecv(c))
                   /\ UNCHANGED <<slot, bell, sender, reg0, reg1>>

\* sd zero, flag : the mailbox is free and RECV returns 1
RecvClear(c) == /\ Runs(c)
                /\ rPc[c] = "clear"
                /\ flag' = 0
                /\ out' = Given(c)
                /\ Goto(c, AfterRecv(c))
                /\ UNCHANGED <<word0, word1, bell, sender, reg0, reg1>>

\* clear_soft_interrupt() and mret
IsrUnring == /\ rPc["isr"] = "unring"
             /\ bell' = FALSE
             /\ Goto("isr", "idle")
             /\ UNCHANGED <<slot, sender, reg0, reg1, out>>

Receive(c) == RecvTest(c) \/ RecvWord0(c) \/ RecvWord1(c) \/ RecvClear(c)

Next == \/ Send
        \/ IsrEnter \/ CmdRecvCall \/ IsrUnring
        \/ \E c \in Ctx : Receive(c)

Spec == Init /\ [][Next]_vars

\* Both harts keep executing: a call that was entered runs to its end, and a
\* pending interrupt is taken.  Nobody has to call SEND or type "recv".
Fairness == /\ WF_vars(Send /\ ~SendCall)
            /\ WF_vars(IsrEnter \/ IsrUnring \/ Receive("isr"))
            /\ WF_vars(Receive("main"))

FairSpec == Spec /\ Fairness
-----------------------------------------------------------------------------
TypeOK == /\ flag \in {0, 1}
          /\ word0 \in Word /\ word1 \in Word
          /\ bell \in BOOLEAN
          /\ sPc \in {"idle", "test", "word0", "word1", "flag", "ring"}
          /\ sArg \in Msg
          /\ rPc \in [Ctx -> {"idle", "test", "word0", "word1", "clear",
                              "unring"}]
          /\ rPc["main"] # "unring"
          /\ reg0 \in [Ctx -> Word] /\ reg1 \in [Ctx -> Word]
          /\ out \in Msg \cup {Empty}

\* The message in the mailbox as the two programs see it.
Content == IF flag = 1 THEN <<word0, word1>> ELSE Empty

(* The handler is never handed a mixture of two messages: when it has      *)
(* copied both words and is about to free the slot, they are the message   *)
(* the slot holds.  This is about the order flag/words in both macros, and *)
(* it holds even when the console's "recv" races with the handler.         *)
IsrReceivesWhole ==
  rPc["isr"] = "clear" => Content = <<reg0["isr"], reg1["isr"]>>

(* What becomes visible when the flag goes up is the argument of SEND.     *)
SentWhole == sPc = "flag" => <<word0, word1>> = sArg

(* The words of a full mailbox are stable: while the flag is up nobody     *)
(* writes them, whatever the receiving contexts do.                        *)
FullIsStable ==
  [][flag = 1 /\ flag' = 1 => UNCHANGED <<word0, word1>>]_vars

(* The instructions of the two macros implement the abstract mailbox: no    *)
(* message is duplicated, torn or invented between a SEND that returns 1    *)
(* and a RECV of the handler that returns 1, and none is lost but by the    *)
(* console's recv, which may free a mailbox whose message it has not copied.*)
Abstract == INSTANCE Mailbox WITH box <- Content, Lossy <- CmdRecv

ImplementsMailbox == Abstract!Spec

(* A full mailbox whose doorbell has been rung, or is about to be.         *)
Announced == flag = 1 => bell \/ sPc = "ring"

(* A message is left in its mailbox unannounced in one way only: by the    *)
(* handler, which clears the doorbell after it has looked at the flag (the *)
(* order of Software_h1_IRQHandler).  No step of the sender and no "recv"  *)
(* of the console loses the wake-up.                                       *)
OnlyIsrSilences ==
  [][Announced /\ ~Announced' => rPc["isr"] = "unring"]_vars

(* A ring that finds the handler idle is answered: the message that is in  *)
(* the mailbox when the interrupt is pending is taken out of it.           *)
RungIsTaken == (bell /\ rPc["isr"] = "idle" /\ flag = 1) ~> (flag = 0)
=============================================================================
