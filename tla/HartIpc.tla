------------------------------ MODULE HartIpc ------------------------------
(***************************************************************************)
(* The IPC side of the console firmware of harts 1, 2 and 3 (zones 5, 6    *)
(* and 7; apps/hart1/main.c and its two copies): the software interrupt    *)
(* handler that empties the mailboxes into the inbox, the main loop that   *)
(* serves the inbox and executes console commands, and the trap handler    *)
(* that waits for a key.                                                   *)
(*                                                                         *)
(* The MultiZone kernel on hart 0 is external: it puts messages of zones   *)
(* into the hart's mailboxes, then rings the doorbell (CLINT MSIP of the   *)
(* hart), and takes the hart's messages.  RECV in the handler and SEND are *)
(* single steps, which MailboxSlot justifies; the console's RECV runs with *)
(* interrupts enabled and is split where the handler can cut in.           *)
(***************************************************************************)
EXTENDS Naturals

CONSTANTS LastZone,   \* mailboxes are numbered 1..LastZone (zone1..zone4)
          MaxSends,   \* bound: messages accepted from each zone
          CmdRecv     \* may the operator type "recv" on the console?

ASSUME HartIpcAssumption == /\ LastZone \in Nat \ {0}
                            /\ MaxSends \in Nat
                            /\ CmdRecv \in BOOLEAN

VARIABLES
  full, mem,   \* mailboxes from the zones: flag and message words
  sent,        \* number of messages each zone has put into its mailbox
  ring, msip,  \* the kernel is about to ring; CLINT MSIP of this hart
  isr,         \* handler: 0 = not running, else next mailbox to look at
  inbox,       \* the hart's copy of the last message of each zone
  irq,         \* mstatus.MIE
  pc, mz,      \* main thread: next step, its zone
  out,         \* the zones whose mailbox from this hart is full
  done         \* number of the last message msg_handler served of each zone

mailbox == <<full, mem, sent>>
main    == <<pc, mz>>
vars    == <<mailbox, ring, msip, isr, inbox, irq, main, out, done>>

Zone == 1..LastZone

\* What the code tells apart in a message: "ping", other text, and a message
\* whose first byte is NUL, which reads as an empty inbox.
Kind == {"ping", "text", "nul"}
Message == [n : 1..MaxSends, kind : Kind]
None == [n |-> 0, kind |-> "nul"]
IsEmpty(m) == m.kind = "nul"

Init == /\ full = [z \in Zone |-> FALSE]
        /\ mem = [z \in Zone |-> None]
        /\ sent = [z \in Zone |-> 0]
        /\ ring = FALSE
        /\ msip = FALSE
        /\ isr = 0
        /\ inbox = [z \in Zone |-> None]
        /\ irq = TRUE
        /\ pc = "rx"
        /\ mz = 1
        /\ out = {}
        /\ done = [z \in Zone |-> 0]
-----------------------------------------------------------------------------
(* The MultiZone kernel (external).                                        *)

Post(z, k) ==
  /\ ~ring
  /\ ~full[z]
  /\ sent[z] < MaxSends
  /\ full' = [full EXCEPT ![z] = TRUE]
  /\ mem' = [mem EXCEPT ![z] = [n |-> sent[z] + 1, kind |-> k]]
  /\ sent' = [sent EXCEPT ![z] = @ + 1]
  /\ ring' = TRUE
  /\ UNCHANGED <<msip, isr, inbox, irq, main, out, done>>

Ring == /\ ring
        /\ ring' = FALSE
        /\ msip' = TRUE
        /\ UNCHANGED <<mailbox, isr, inbox, irq, main, out, done>>

Take(z) == /\ z \in out
           /\ out' = out \ {z}
           /\ UNCHANGED <<mailbox, ring, msip, isr, inbox, irq, main, done>>
-----------------------------------------------------------------------------
(* Software_h1_IRQHandler                                                  *)

IsrEnter == /\ irq /\ msip /\ isr = 0
            /\ isr' = 1
            /\ UNCHANGED <<mailbox, ring, msip, inbox, irq, main, out, done>>

\* Mutant: the message is copied, the mailbox stays full.
IsrRecvPeek ==
  /\ isr \in Zone
  /\ isr' = isr + 1
  /\ inbox' = IF full[isr] THEN [inbox EXCEPT ![isr] = mem[isr]] ELSE inbox
  /\ UNCHANGED <<mailbox, ring, msip, irq, main, out, done>>

\* One round of the loop: RECV, and memcpy over whatever the inbox holds.
IsrRecv ==
  /\ isr \in Zone
  /\ isr' = isr + 1
  /\ IF full[isr]
       THEN /\ full' = [full EXCEPT ![isr] = FALSE]
            /\ inbox' = [inbox EXCEPT ![isr] = mem[isr]]
       ELSE UNCHANGED <<full, inbox>>
  /\ UNCHANGED <<mem, sent, ring, msip, irq, main, out, done>>

\* clear_soft_interrupt(), after all mailboxes were looked at, and mret
IsrClear == /\ isr = LastZone + 1
            /\ isr' = 0
            /\ msip' = FALSE
            /\ UNCHANGED <<mailbox, ring, inbox, irq, main, out, done>>

Isr == IsrEnter \/ IsrRecv \/ IsrClear
-----------------------------------------------------------------------------
(* The main loop.  It runs when the handler does not.                      *)

At(l) == isr = 0 /\ pc = l
Goto(l) == pc' = l

\* MZONE_SEND: returns 0 and changes nothing when the mailbox is full
SendTo(z) == out' = out \cup {z}

\* No complete command line: on to the inbox.
NoCommand == /\ At("rx")
             /\ Goto("check")
             /\ UNCHANGED <<mailbox, ring, msip, isr, inbox, irq, mz, out, done>>

CmdSend == /\ At("rx")
           /\ \E z \in Zone : SendTo(z)
           /\ Goto("check")
           /\ UNCHANGED <<mailbox, ring, msip, isr, inbox, irq, mz, done>>

\* "recv": MZONE_RECV in the main thread, interrupts enabled: it finds the
\* mailbox full, copies and prints a message, and frees the mailbox.
CmdRecvTest == /\ CmdRecv
               /\ At("rx")
               /\ \/ /\ mz' \in Zone /\ full[mz']
                     /\ Goto("recvClear")
                  \/ /\ \E z \in Zone : ~full[z]
                     /\ mz' = mz
                     /\ Goto("check")
               /\ UNCHANGED <<mailbox, ring, msip, isr, inbox, irq, out, done>>

CmdRecvClear == /\ At("recvClear")
                /\ full' = [full EXCEPT ![mz] = FALSE]
                /\ mz' = 1
                /\ Goto("check")
                /\ UNCHANGED <<mem, sent, ring, msip, isr, inbox, irq, out, done>>

\* "exec" or "load" traps: the handler waits for a key, interrupts disabled,
\* then restarts main(), which enables them again.  Memory is kept.
CmdTrap == /\ At("rx")
           /\ irq' = FALSE
           /\ Goto("key")
           /\ UNCHANGED <<mailbox, ring, msip, isr, inbox, mz, out, done>>

Key == /\ At("key")
       /\ irq' = TRUE
       /\ Goto("rx")
       /\ UNCHANGED <<mailbox, ring, msip, isr, inbox, mz, out, done>>

\* Mutant: inbox_is_empty looks at one entry only.
CheckFirst == /\ At("check")
              /\ Goto(IF IsEmpty(inbox[1]) THEN "rx" ELSE "mask")
              /\ UNCHANGED <<mailbox, ring, msip, isr, inbox, irq, mz, out,
                             done>>

\* if (!inbox_is_empty()) msg_handler()
Check == /\ At("check")
         /\ Goto(IF \A z \in Zone : IsEmpty(inbox[z]) THEN "rx" ELSE "mask")
         /\ UNCHANGED <<mailbox, ring, msip, isr, inbox, irq, mz, out,
                        done>>

\* Mutant: interrupts stay enabled.
MaskNot == /\ At("mask")
           /\ mz' = 1
           /\ Goto("handle")
           /\ UNCHANGED <<mailbox, ring, msip, isr, inbox, irq, out, done>>

\* __disable_irq()
Mask == /\ At("mask")
        /\ irq' = FALSE
        /\ mz' = 1
        /\ Goto("handle")
        /\ UNCHANGED <<mailbox, ring, msip, isr, inbox, out, done>>

\* One round of msg_handler: answer a ping, print anything else.
Handle ==
  /\ At("handle")
  /\ mz \in Zone
  /\ IF IsEmpty(inbox[mz])
       THEN /\ mz' = mz + 1
            /\ UNCHANGED <<pc, out, done>>
       ELSE /\ IF inbox[mz].kind = "ping" THEN SendTo(mz)
                                          ELSE out' = out
            /\ done' = [done EXCEPT ![mz] = inbox[mz].n]
            /\ Goto("erase")
            /\ mz' = mz
  /\ UNCHANGED <<mailbox, ring, msip, isr, inbox, irq>>

\* Mutant: the message is not erased.
EraseNot == /\ At("erase")
            /\ mz' = mz + 1
            /\ Goto("handle")
            /\ UNCHANGED <<mailbox, ring, msip, isr, inbox, irq, out, done>>

\* *msg = '\0'
Erase == /\ At("erase")
         /\ inbox' = [inbox EXCEPT ![mz] = None]
         /\ mz' = mz + 1
         /\ Goto("handle")
         /\ UNCHANGED <<mailbox, ring, msip, isr, irq, out, done>>

\* __enable_irq()
Unmask == /\ At("handle")
          /\ mz = LastZone + 1
          /\ irq' = TRUE
          /\ mz' = 1
          /\ Goto("rx")
          /\ UNCHANGED <<mailbox, ring, msip, isr, inbox, out, done>>

Command == CmdSend \/ CmdRecvTest \/ CmdTrap
Loop == \/ NoCommand \/ Check \/ Mask \/ Handle \/ Erase \/ Unmask
        \/ CmdRecvClear

Next == \/ \E z \in Zone, k \in Kind : Post(z, k)
        \/ Ring
        \/ \E z \in Zone : Take(z)
        \/ Isr
        \/ Command \/ Loop \/ Key

Spec == Init /\ [][Next]_vars

\* The hart executes whichever of its two contexts can run, and the kernel
\* finishes a SEND it began.  Zones need not send, nor the operator type.
Fairness == /\ WF_vars(Isr)
            /\ WF_vars(Loop \/ Command)
            /\ WF_vars(Ring)

FairSpec == Spec /\ Fairness
-----------------------------------------------------------------------------
TypeOK ==
  /\ full \in [Zone -> BOOLEAN]
  /\ mem \in [Zone -> Message \cup {None}]
  /\ sent \in [Zone -> 0..MaxSends]
  /\ ring \in BOOLEAN /\ msip \in BOOLEAN
  /\ isr \in 0..LastZone + 1
  /\ inbox \in [Zone -> Message \cup {None}]
  /\ irq \in BOOLEAN
  /\ pc \in {"rx", "recvClear", "key", "check", "mask", "handle",
             "erase"}
  /\ mz \in 1..LastZone + 1
  /\ pc \in {"recvClear", "erase"} => mz \in Zone
  /\ out \subseteq Zone
  /\ done \in [Zone -> 0..MaxSends]

Trapped == pc = "key"

\* The latest message accepted from z is in the mailbox, in the inbox, or
\* has been served.
Kept(z) == ~IsEmpty(mem[z]) => full[z] \/ inbox[z] = mem[z] \/ done[z] >= sent[z]

(* The inbox keeps one message per zone and the handler overwrites it, but *)
(* the latest message of a zone is never lost: the main thread erases an   *)
(* inbox entry only after reading it with interrupts disabled, so it       *)
(* cannot erase a message that arrived in between.  Only the operator's    *)
(* recv takes messages away, also one that it has not copied.              *)
OnlyRecvLoses ==
  [][\A z \in Zone : Kept(z) /\ ~Kept(z)' => pc = "recvClear" /\ mz = z]_vars

(* A message is served at most once, and messages of a zone in the order   *)
(* they were sent: what msg_handler serves is newer than what it served.   *)
ServedOnce ==
  [][\A z \in Zone :
       (pc = "handle" /\ pc' = "erase" /\ mz = z) => done'[z] > done[z]]_vars

(* A message in the inbox is served, or superseded by a later one of its   *)
(* zone, unless the console sits in the trap handler waiting for a key.    *)
InboxIsServed ==
  \A z \in Zone, n \in 1..MaxSends :
     (inbox[z].n = n /\ ~IsEmpty(inbox[z]))
       ~> (done[z] >= n \/ inbox[z].n > n \/ Trapped)

(* Every zone can send again: a mailbox that is full when the doorbell is  *)
(* pending and the handler has not started is emptied, whatever commands   *)
(* the operator types, unless the console waits for a key.                 *)
RungIsDrained ==
  \A z \in Zone : (full[z] /\ msip /\ isr = 0) ~> (~full[z] \/ Trapped)

(* What the README shows of a ping: once the mailbox has accepted it, it   *)
(* is served (and answered if the way back is free), unless a later        *)
(* message of its zone supersedes it or recv takes it.                     *)
PingIsServed ==
  \A z \in Zone, n \in 1..MaxSends :
     (full[z] /\ mem[z] = [n |-> n, kind |-> "ping"])
       ~> (done[z] >= n \/ sent[z] > n \/ pc = "recvClear" \/ Trapped)
=============================================================================
