--------------------------- MODULE HartIpcProofs ---------------------------
(***************************************************************************)
(* Proofs about HartIpc, for any number of zones and messages.             *)
(***************************************************************************)
EXTENDS HartIpc, TLAPS

USE HartIpcAssumption DEF HartIpcAssumption, Zone, Kind, Message, None, IsEmpty

LEMMA Bounds == /\ 0 \in 0..LastZone + 1 /\ 1 \in 0..LastZone + 1
                /\ 1 \in 1..LastZone + 1 /\ 1 \in Zone
                /\ 0 \in 0..MaxSends
  OBVIOUS

\* The handler runs only with interrupts enabled, and msg_handler and the trap
\* handler only with interrupts disabled.
Masked == /\ isr # 0 => irq
          /\ pc \in {"handle", "erase", "key"} => ~irq

LEMMA InitTypeOK == Init => TypeOK /\ Masked
<1> SUFFICES ASSUME Init PROVE TypeOK /\ Masked
  OBVIOUS
<1>1. isr \in 0..LastZone + 1 /\ mz \in 1..LastZone + 1
  BY Bounds DEF Init
<1>0. TypeOK
  BY <1>1, Bounds DEF Init, TypeOK
<1>2. Masked
  BY DEF Init, Masked
<1> QED
  BY <1>0, <1>2

LEMMA KernelKeepsTypes ==
  ASSUME TypeOK, Masked,
         Ring \/ \E z \in Zone : Take(z) \/ \E k \in Kind : Post(z, k)
  PROVE  TypeOK' /\ Masked'
<1>1. CASE Ring
  BY <1>1 DEF Ring, TypeOK, Masked, mailbox, main
<1>2. ASSUME NEW z \in Zone, Take(z) PROVE TypeOK' /\ Masked'
  BY <1>2 DEF Take, TypeOK, Masked, mailbox, main
<1>3. ASSUME NEW z \in Zone, NEW k \in Kind, Post(z, k) PROVE TypeOK' /\ Masked'
  <2> DEFINE m == [n |-> sent[z] + 1, kind |-> k]
  <2>1. m \in Message
    BY <1>3 DEF Post, TypeOK
  <2>2. mem' \in [Zone -> Message \cup {None}]
    BY <1>3, <2>1 DEF Post, TypeOK
  <2>3. sent' \in [Zone -> 0..MaxSends]
    BY <1>3 DEF Post, TypeOK
  <2> QED
    BY <1>3, <2>2, <2>3 DEF Post, TypeOK, Masked, main
<1> QED
  BY <1>1, <1>2, <1>3

LEMMA IsrKeepsTypes == TypeOK /\ Masked /\ Isr => TypeOK' /\ Masked'
<1> SUFFICES ASSUME TypeOK, Masked, Isr PROVE TypeOK' /\ Masked'
  OBVIOUS
<1>1. CASE IsrEnter
  BY <1>1 DEF IsrEnter, TypeOK, Masked, mailbox, main
<1>2. CASE IsrRecv
  <2>1. full' \in [Zone -> BOOLEAN] /\ inbox' \in [Zone -> Message \cup {None}]
    BY <1>2 DEF IsrRecv, TypeOK
  <2>2. /\ isr \in Zone /\ isr' \in 0..LastZone + 1
        /\ UNCHANGED <<mem, sent, ring, msip, irq, pc, mz, out, done>>
    BY <1>2 DEF IsrRecv, main
  <2>3. TypeOK'
    BY <2>1, <2>2 DEF TypeOK
  <2>4. Masked'
    BY <2>2 DEF Masked
  <2> QED
    BY <2>3, <2>4
<1>3. CASE IsrClear
  <2>1. /\ isr' = 0 /\ msip' = FALSE
        /\ UNCHANGED <<full, mem, sent, ring, inbox, irq, pc, mz, out,
                       done>>
    BY <1>3 DEF IsrClear, mailbox, main
  <2>3. TypeOK'
    BY <2>1, Bounds DEF TypeOK
  <2>2. Masked'
    BY <1>3 DEF IsrClear, Masked, main
  <2> QED
    BY <2>2, <2>3
<1> QED
  BY <1>1, <1>2, <1>3 DEF Isr

LEMMA CommandKeepsTypes ==
  TypeOK /\ Masked /\ (Command \/ Key) => TypeOK' /\ Masked'
<1> SUFFICES ASSUME TypeOK, Masked, Command \/ Key PROVE TypeOK' /\ Masked'
  OBVIOUS
<1> USE DEF At, Goto
<1>1. CASE CmdSend
  <2>1. out' \subseteq Zone
    BY <1>1 DEF CmdSend, SendTo, TypeOK
  <2> QED
    BY <1>1, <2>1 DEF CmdSend, TypeOK, Masked, mailbox
<1>2. CASE CmdRecvTest
  <2>1. /\ mz' \in 1..LastZone + 1 /\ (pc' = "recvClear" => mz' \in Zone)
        /\ pc' \in {"recvClear", "check"}
        /\ UNCHANGED <<full, mem, sent, ring, msip, isr, inbox, irq, out,
                       done>>
    BY <1>2 DEF CmdRecvTest, TypeOK, mailbox
  <2>2. pc = "rx" /\ isr = 0
    BY <1>2 DEF CmdRecvTest
  <2> QED
    BY <2>1, <2>2 DEF TypeOK, Masked
<1>3. CASE CmdTrap
  BY <1>3 DEF CmdTrap, TypeOK, Masked, mailbox
<1>4. CASE Key
  BY <1>4 DEF Key, TypeOK, Masked, mailbox
<1> QED
  BY <1>1, <1>2, <1>3, <1>4 DEF Command

LEMMA LoopKeepsTypes == TypeOK /\ Masked /\ Loop => TypeOK' /\ Masked'
<1> SUFFICES ASSUME TypeOK, Masked, Loop PROVE TypeOK' /\ Masked'
  OBVIOUS
<1> USE DEF At, Goto
<1>1. CASE NoCommand
  BY <1>1 DEF NoCommand, TypeOK, Masked, mailbox
<1>2. CASE Check
  BY <1>2 DEF Check, TypeOK, Masked, mailbox
<1>3. CASE Mask
  <2>1. TypeOK'
    BY <1>3, Bounds DEF Mask, TypeOK, mailbox
  <2>2. Masked'
    BY <1>3 DEF Mask, Masked
  <2> QED
    BY <2>1, <2>2
<1>4. CASE Handle
  <2>0. out \subseteq Zone
        /\ done \in [Zone -> 0..MaxSends] /\ mz \in Zone
        /\ inbox[mz].n \in 0..MaxSends
    <3>1. mz \in Zone
      BY <1>4 DEF Handle
    <3>2. inbox[mz] \in Message \cup {None}
      BY <3>1 DEF TypeOK
    <3> QED
      BY <3>1, <3>2 DEF TypeOK
  <2>1. out' \subseteq Zone
    BY <1>4, <2>0 DEF Handle, SendTo
  <2>2. done' \in [Zone -> 0..MaxSends]
    BY <1>4, <2>0 DEF Handle
  <2>3. /\ mz' \in 1..LastZone + 1 /\ (pc' = "erase" => mz' \in Zone)
        /\ pc' \in {"handle", "erase"}
    BY <1>4, <2>0 DEF Handle
  <2>4. TypeOK'
    <3>1. UNCHANGED <<full, mem, sent, ring, msip, isr, inbox, irq>>
      BY <1>4 DEF Handle, mailbox
    <3> QED
      BY <2>1, <2>2, <2>3, <3>1 DEF TypeOK
  <2>5. Masked'
    BY <1>4 DEF Handle, Masked
  <2> QED
    BY <2>4, <2>5
<1>5. CASE Erase
  BY <1>5 DEF Erase, TypeOK, Masked, mailbox
<1>6. CASE Unmask
  <2>1. TypeOK'
    BY <1>6 DEF Unmask, TypeOK, mailbox
  <2>2. Masked'
    BY <1>6 DEF Unmask, Masked
  <2> QED
    BY <2>1, <2>2
<1>7. CASE CmdRecvClear
  <2>1. TypeOK'
    BY <1>7, Bounds DEF CmdRecvClear, TypeOK
  <2>2. Masked'
    BY <1>7 DEF CmdRecvClear, Masked
  <2> QED
    BY <2>1, <2>2
<1> QED
  BY <1>1, <1>2, <1>3, <1>4, <1>5, <1>6, <1>7 DEF Loop

LEMMA NextKeepsTypes == TypeOK /\ Masked /\ [Next]_vars => TypeOK' /\ Masked'
<1> SUFFICES ASSUME TypeOK, Masked, [Next]_vars PROVE TypeOK' /\ Masked'
  OBVIOUS
<1>1. CASE UNCHANGED vars
  BY <1>1 DEF vars, mailbox, main, TypeOK, Masked
<1>2. CASE Ring \/ \E z \in Zone : Take(z) \/ \E k \in Kind : Post(z, k)
  BY <1>2, KernelKeepsTypes
<1> QED
  BY <1>1, <1>2, IsrKeepsTypes, CommandKeepsTypes, LoopKeepsTypes DEF Next

(* Type correctness of the hart, whatever is sent and typed.               *)
THEOREM TypeCorrect == Spec => []TypeOK
<1>1. Init => TypeOK /\ Masked
  BY InitTypeOK
<1>2. TypeOK /\ Masked /\ [Next]_vars => (TypeOK /\ Masked)'
  BY NextKeepsTypes
<1> QED
  BY <1>1, <1>2, PTL DEF Spec
-----------------------------------------------------------------------------
(* The numbers of a zone's messages tell where they are.                    *)

\* The number of what main is about to erase, or erased last, is done[z].
Fresh(z) == \/ inbox[z].n > done[z]
            \/ pc = "erase" /\ mz = z /\ inbox[z].n = done[z]

Numbered(z) ==
  /\ mem[z].n = sent[z]
  /\ done[z] <= sent[z]
  /\ inbox[z].n <= sent[z]
  /\ full[z] => done[z] < sent[z] /\ inbox[z].n < sent[z]
  /\ ~IsEmpty(inbox[z]) => Fresh(z)

Erasing == pc = "erase" => ~IsEmpty(inbox[mz]) /\ inbox[mz].n = done[mz]

IInv == /\ TypeOK /\ Masked
        /\ \A z \in Zone : Numbered(z)
        /\ Erasing

\* What a step keeps: the invariant, and the latest message of each zone.
Keeps == IInv' /\ \A z \in Zone : Kept(z) => Kept(z)' \/ (pc = "recvClear" /\ mz = z)

LEMMA InitIInv == Init => IInv
<1> SUFFICES ASSUME Init PROVE IInv
  OBVIOUS
<1>1. TypeOK /\ Masked
  BY InitTypeOK
<1>2. \A z \in Zone : Numbered(z)
  BY DEF Init, Numbered
<1>3. Erasing
  BY DEF Init, Erasing
<1> QED
  BY <1>1, <1>2, <1>3 DEF IInv

LEMMA NumbersAreNat ==
  ASSUME TypeOK, NEW z \in Zone
  PROVE  sent[z] \in Nat /\ done[z] \in Nat /\ inbox[z].n \in Nat
<1>1. inbox[z] \in Message \cup {None}
  BY DEF TypeOK
<1>2. inbox[z].n \in 0..MaxSends
  BY <1>1
<1>3. sent[z] \in 0..MaxSends /\ done[z] \in 0..MaxSends
  BY DEF TypeOK
<1> QED
  BY <1>2, <1>3

\* Steps that touch neither mailbox nor inbox nor what was served, and the
\* console's recv, which may free a mailbox.
LEMMA QuietKeepsIInv ==
  ASSUME IInv, TypeOK', Masked', UNCHANGED <<mem, sent, inbox, done>>,
         \A z \in Zone : full'[z] # full[z] => pc = "recvClear" /\ mz = z /\ ~full'[z],
         \/ UNCHANGED main
         \/ pc # "erase" /\ pc' # "erase"
  PROVE  Keeps
<1>1. ASSUME NEW z \in Zone PROVE Numbered(z)'
  <2>1. Numbered(z)
    BY DEF IInv
  <2>2. Fresh(z) => Fresh(z)'
    BY DEF Fresh, main
  <2>3. full'[z] => full[z]
    OBVIOUS
  <2> QED
    BY <2>1, <2>2, <2>3 DEF Numbered
<1>2. Erasing'
  BY DEF IInv, Erasing, main
<1>3. ASSUME NEW z \in Zone, Kept(z) PROVE Kept(z)' \/ (pc = "recvClear" /\ mz = z)
  BY <1>3 DEF Kept
<1> QED
  BY <1>1, <1>2, <1>3 DEF IInv, Keeps

LEMMA PostKeepsIInv ==
  ASSUME IInv, TypeOK', Masked', NEW z \in Zone, NEW k \in Kind, Post(z, k)
  PROVE  Keeps
<1>1. ASSUME NEW y \in Zone PROVE Numbered(y)' /\ (Kept(y) => Kept(y)')
  <2>1. Numbered(y) /\ (Fresh(y) => Fresh(y)')
    BY DEF IInv, Post, Fresh, main
  <2>2. sent[y] \in Nat /\ done[y] \in Nat /\ inbox[y].n \in Nat
    BY NumbersAreNat DEF IInv
  <2>3. CASE y # z
    <3>1. /\ full'[y] = full[y] /\ mem'[y] = mem[y] /\ sent'[y] = sent[y]
          /\ inbox' = inbox /\ done' = done
      BY <2>3 DEF Post, IInv, TypeOK
    <3> QED
      BY <2>1, <3>1 DEF Numbered, Kept
  <2>4. CASE y = z
    <3>1. /\ full'[y] /\ mem'[y].n = sent[y] + 1 /\ sent'[y] = sent[y] + 1
          /\ inbox' = inbox /\ done' = done
      BY <2>4 DEF Post, IInv, TypeOK
    <3> QED
      BY <2>1, <2>2, <3>1 DEF Numbered, Kept
  <2> QED
    BY <2>3, <2>4
<1>2. Erasing'
  BY DEF IInv, Erasing, Post, main
<1> QED
  BY <1>1, <1>2 DEF IInv, Keeps

LEMMA IsrRecvKeepsIInv ==
  ASSUME IInv, TypeOK', Masked', IsrRecv
  PROVE  Keeps
<1>0. pc # "erase" /\ isr \in Zone
  BY DEF IInv, Masked, IsrRecv
<1>1. ASSUME NEW y \in Zone PROVE Numbered(y)' /\ (Kept(y) => Kept(y)')
  <2>1. Numbered(y)
    BY DEF IInv
  <2>2. sent[y] \in Nat /\ done[y] \in Nat /\ inbox[y].n \in Nat
    BY NumbersAreNat DEF IInv
  <2>3. UNCHANGED <<mem, sent, done, pc, mz>>
    BY DEF IsrRecv, main
  <2>4. CASE y = isr /\ full[y]
    <3>1. ~full'[y] /\ inbox'[y] = mem[y]
      BY <2>4 DEF IsrRecv, IInv, TypeOK
    <3> QED
      BY <2>1, <2>2, <2>3, <2>4, <3>1 DEF Numbered, Fresh, Kept
  <2>5. CASE ~(y = isr /\ full[y])
    <3>1. full'[y] = full[y] /\ inbox'[y] = inbox[y]
      BY <2>5 DEF IsrRecv, IInv, TypeOK
    <3> QED
      BY <2>1, <2>3, <3>1 DEF Numbered, Fresh, Kept
  <2> QED
    BY <2>4, <2>5
<1>2. Erasing'
  BY <1>0 DEF IInv, Erasing, IsrRecv, main
<1> QED
  BY <1>1, <1>2 DEF IInv, Keeps

LEMMA HandleKeepsIInv ==
  ASSUME IInv, TypeOK', Masked', Handle
  PROVE  Keeps
<1>0. pc = "handle" /\ mz \in Zone
  BY DEF Handle, At
<1>1. CASE IsEmpty(inbox[mz])
  BY <1>0, <1>1, QuietKeepsIInv DEF Handle, mailbox
<1>2. CASE ~IsEmpty(inbox[mz])
  <2>1. /\ UNCHANGED <<full, mem, sent, inbox, mz>>
        /\ pc' = "erase"
        /\ done' = [done EXCEPT ![mz] = inbox[mz].n]
    BY <1>2 DEF Handle, mailbox, Goto
  <2>2. done'[mz] = inbox[mz].n
    BY <1>0, <2>1 DEF IInv, TypeOK
  <2>3. ASSUME NEW y \in Zone PROVE Numbered(y)' /\ (Kept(y) => Kept(y)')
    <3>1. Numbered(y)
      BY DEF IInv
    <3>2. sent[y] \in Nat /\ done[y] \in Nat /\ inbox[y].n \in Nat
      BY NumbersAreNat DEF IInv
    <3>3. CASE y = mz
      BY <1>0, <1>2, <2>1, <2>2, <3>1, <3>2, <3>3 DEF Numbered, Fresh, Kept
    <3>4. CASE y # mz
      <4>1. done'[y] = done[y]
        BY <2>1, <3>4 DEF IInv, TypeOK
      <4> QED
        BY <1>0, <2>1, <3>1, <3>4, <4>1 DEF Numbered, Fresh, Kept
    <3> QED
      BY <3>3, <3>4
  <2>4. Erasing'
    BY <1>2, <2>1, <2>2 DEF Erasing
  <2> QED
    BY <2>3, <2>4 DEF IInv, Keeps
<1> QED
  BY <1>1, <1>2

LEMMA EraseKeepsIInv ==
  ASSUME IInv, TypeOK', Masked', Erase
  PROVE  Keeps
<1>0. /\ pc = "erase" /\ mz \in Zone /\ pc' = "handle"
      /\ UNCHANGED <<full, mem, sent, done>>
      /\ inbox[mz].n = done[mz]
  BY DEF Erase, At, Goto, IInv, TypeOK, Erasing, mailbox
<1>1. ASSUME NEW y \in Zone PROVE Numbered(y)' /\ (Kept(y) => Kept(y)')
  <2>1. Numbered(y)
    BY DEF IInv
  <2>2. sent[y] \in Nat /\ done[y] \in Nat
    BY DEF IInv, TypeOK
  <2>3. CASE y = mz
    <3>1. inbox'[y] = None
      BY <2>3 DEF Erase, IInv, TypeOK
    <3> QED
      BY <1>0, <2>1, <2>2, <2>3, <3>1 DEF Numbered, Kept
  <2>4. CASE y # mz
    <3>1. inbox'[y] = inbox[y]
      BY <2>4 DEF Erase, IInv, TypeOK
    <3> QED
      BY <1>0, <2>1, <2>4, <3>1 DEF Numbered, Fresh, Kept
  <2> QED
    BY <2>3, <2>4
<1>2. Erasing'
  BY <1>0 DEF Erasing
<1> QED
  BY <1>1, <1>2 DEF IInv, Keeps

LEMMA NextKeepsIInv == IInv /\ [Next]_vars => Keeps
<1> SUFFICES ASSUME IInv, [Next]_vars PROVE Keeps
  OBVIOUS
<1>0. TypeOK' /\ Masked'
  BY NextKeepsTypes DEF IInv
<1>1. CASE UNCHANGED vars
  BY <1>0, <1>1, QuietKeepsIInv DEF vars, mailbox
<1>2. ASSUME NEW z \in Zone, NEW k \in Kind, Post(z, k) PROVE Keeps
  BY <1>0, <1>2, PostKeepsIInv
<1>3. CASE Ring \/ \E z \in Zone : Take(z)
  BY <1>0, <1>3, QuietKeepsIInv DEF Ring, Take, mailbox
<1>4. CASE Isr
  <2>1. CASE IsrRecv
    BY <1>0, <2>1, IsrRecvKeepsIInv
  <2>2. CASE IsrEnter \/ IsrClear
    BY <1>0, <2>2, QuietKeepsIInv DEF IsrEnter, IsrClear, mailbox
  <2> QED
    BY <1>4, <2>1, <2>2 DEF Isr
<1>5. CASE Command \/ Key
  BY <1>0, <1>5, QuietKeepsIInv
     DEF Command, CmdRecvTest, CmdSend, CmdTrap, Key, At, Goto, mailbox
<1>6. CASE Loop
  <2>1. CASE Handle
    BY <1>0, <2>1, HandleKeepsIInv
  <2>2. CASE Erase
    BY <1>0, <2>2, EraseKeepsIInv
  <2>3. CASE NoCommand \/ Check \/ Mask \/ Unmask
    BY <1>0, <2>3, QuietKeepsIInv
       DEF NoCommand, Check, Mask, Unmask, At, Goto, mailbox
  <2>4. CASE CmdRecvClear
    <3>1. /\ pc = "recvClear" /\ pc' = "check" /\ UNCHANGED <<mem, sent, inbox, done>>
          /\ full' = [full EXCEPT ![mz] = FALSE]
      BY <2>4 DEF CmdRecvClear, At, Goto
    <3>2. \A z \in Zone : full'[z] # full[z] => mz = z /\ ~full'[z]
      BY <3>1 DEF IInv, TypeOK
    <3> QED
      BY <1>0, <3>1, <3>2, QuietKeepsIInv
  <2> QED
    BY <1>6, <2>1, <2>2, <2>3, <2>4 DEF Loop
<1> QED
  BY <1>1, <1>2, <1>3, <1>4, <1>5, <1>6 DEF Next

LEMMA AlwaysIInv == Spec => []IInv
<1>1. IInv /\ [Next]_vars => IInv'
  BY NextKeepsIInv DEF Keeps
<1> QED
  BY InitIInv, <1>1, PTL DEF Spec

(* The latest message of every zone stays in its mailbox, in the inbox, or *)
(* is served, unless the console's recv takes it out of the mailbox behind *)
(* the handler's back.                                                     *)
THEOREM OnlyRecvCanLose == Spec => OnlyRecvLoses
<1>1. IInv /\ [Next]_vars =>
        [\A z \in Zone : Kept(z) /\ ~Kept(z)' => pc = "recvClear" /\ mz = z]_vars
  BY NextKeepsIInv DEF Keeps
<1> QED
  BY <1>1, AlwaysIInv, PTL DEF Spec, OnlyRecvLoses

(* msg_handler serves the messages of a zone in order and none twice.      *)
THEOREM ServesOnce == Spec => ServedOnce
<1>1. ASSUME IInv, Next,
             NEW z \in Zone, pc = "handle", pc' = "erase", mz = z
      PROVE  done'[z] > done[z]
  <2>1. Handle
    BY <1>1 DEF Next, Post, Ring, Take, Isr, IsrEnter, IsrRecv, IsrClear,
                Command, CmdSend, CmdRecvTest, CmdTrap, Key, Loop, NoCommand,
                Check, Mask, Erase, Unmask, CmdRecvClear,
                At, Goto, main
  <2>2. ~IsEmpty(inbox[z]) /\ done' = [done EXCEPT ![z] = inbox[z].n]
    BY <1>1, <2>1 DEF Handle
  <2>3. done'[z] = inbox[z].n
    BY <1>1, <2>2 DEF IInv, TypeOK
  <2> QED
    BY <1>1, <2>2, <2>3 DEF IInv, Numbered, Fresh
<1>2. IInv /\ [Next]_vars =>
        [\A z \in Zone :
           (pc = "handle" /\ pc' = "erase" /\ mz = z) => done'[z] > done[z]]_vars
  BY <1>1
<1> QED
  BY <1>2, AlwaysIInv, PTL DEF Spec, ServedOnce
=============================================================================
