------------------------- MODULE MailboxSlotProofs -------------------------
(***************************************************************************)
(* Proofs about MailboxSlot, for every set of word values.                 *)
(***************************************************************************)
EXTENDS MailboxSlot, TLAPS

USE DEF Ctx, Msg, Empty, slot, sender

\* The sender writes the words only while the mailbox is empty.
SenderInv ==
  /\ sPc \in {"word0", "word1", "flag"} => flag = 0
  /\ sPc \in {"word1", "flag"} => word0 = sArg[1]
  /\ sPc = "flag" => word1 = sArg[2]

\* The handler, once it has seen the flag up, has copied a prefix of the
\* message that is still in the mailbox.
IsrInv ==
  /\ rPc["isr"] \in {"word0", "word1", "clear"} => flag = 1
  /\ rPc["isr"] \in {"word1", "clear"} => reg0["isr"] = word0
  /\ rPc["isr"] = "clear" => reg1["isr"] = word1

\* Without the console's "recv" only the handler receives.
SingleReceiver == ~CmdRecv => rPc["main"] = "idle"

IInv == TypeOK /\ SenderInv /\ IsrInv /\ SingleReceiver

LEMMA InitIInv == Init => IInv
  BY DEF Init, IInv, TypeOK, SenderInv, IsrInv, SingleReceiver

LEMMA SenderKeepsIInv == IInv /\ Send => IInv'
<1> SUFFICES ASSUME IInv, Send PROVE IInv'
  OBVIOUS
<1> USE DEF IInv
<1>1. CASE SendCall
  BY <1>1 DEF SendCall, TypeOK, SenderInv, IsrInv, SingleReceiver
<1>2. CASE SendTest
  BY <1>2 DEF SendTest, TypeOK, SenderInv, IsrInv, SingleReceiver
<1>3. CASE SendWord0
  BY <1>3 DEF SendWord0, TypeOK, SenderInv, IsrInv, SingleReceiver
<1>4. CASE SendWord1
  BY <1>4 DEF SendWord1, TypeOK, SenderInv, IsrInv, SingleReceiver
<1>5. CASE SendFlag
  BY <1>5 DEF SendFlag, TypeOK, SenderInv, IsrInv, SingleReceiver
<1>6. CASE SendRing
  BY <1>6 DEF SendRing, TypeOK, SenderInv, IsrInv, SingleReceiver
<1> QED
  BY <1>1, <1>2, <1>3, <1>4, <1>5, <1>6 DEF Send

LEMMA ReceiverKeepsIInv ==
  ASSUME NEW c \in Ctx, IInv, Receive(c)
  PROVE  IInv'
<1> USE DEF IInv, Goto, Runs, AfterRecv, Given
<1>1. CASE RecvTest(c)
  BY <1>1 DEF RecvTest, TypeOK, SenderInv, IsrInv, SingleReceiver
<1>2. CASE RecvWord0(c)
  BY <1>2 DEF RecvWord0, TypeOK, SenderInv, IsrInv, SingleReceiver
<1>3. CASE RecvWord1(c)
  BY <1>3 DEF RecvWord1, TypeOK, SenderInv, IsrInv, SingleReceiver
<1>4. CASE RecvClear(c)
  BY <1>4 DEF RecvClear, TypeOK, SenderInv, IsrInv, SingleReceiver
<1> QED
  BY <1>1, <1>2, <1>3, <1>4 DEF Receive

LEMMA NextKeepsIInv == IInv /\ [Next]_vars => IInv'
<1> SUFFICES ASSUME IInv, [Next]_vars PROVE IInv'
  OBVIOUS
<1>1. CASE Send
  BY <1>1, SenderKeepsIInv
<1>2. CASE IsrEnter
  BY <1>2 DEF IInv, IsrEnter, Goto, TypeOK, SenderInv, IsrInv, SingleReceiver
<1>3. CASE CmdRecvCall
  BY <1>3 DEF IInv, CmdRecvCall, Runs, Goto, TypeOK, SenderInv, IsrInv,
              SingleReceiver
<1>4. CASE IsrUnring
  BY <1>4 DEF IInv, IsrUnring, Goto, TypeOK, SenderInv, IsrInv, SingleReceiver
<1>5. CASE \E c \in Ctx : Receive(c)
  BY <1>5, ReceiverKeepsIInv
<1>6. CASE UNCHANGED vars
  BY <1>6 DEF IInv, vars, TypeOK, SenderInv, IsrInv, SingleReceiver
<1> QED
  BY <1>1, <1>2, <1>3, <1>4, <1>5, <1>6 DEF Next

LEMMA Invariance == Spec => []IInv
  BY InitIInv, NextKeepsIInv, PTL DEF Spec

(* Every variable keeps its type, for every set of words.                  *)
THEOREM TypeCorrect == Spec => []TypeOK
<1>1. IInv => TypeOK
  BY DEF IInv
<1> QED
  BY <1>1, Invariance, PTL

(* The interrupt handler never receives a mixture of two messages, whether *)
(* or not the console's "recv" races with it.                              *)
THEOREM IsrReceivesWholeMessages == Spec => []IsrReceivesWhole
<1>1. IInv => IsrReceivesWhole
  BY DEF IInv, TypeOK, IsrInv, IsrReceivesWhole, Content
<1> QED
  BY <1>1, Invariance, PTL

(* The message that becomes visible is the argument of SEND.               *)
THEOREM SendsItsArgument == Spec => []SentWhole
<1>1. IInv => SentWhole
  BY DEF IInv, TypeOK, SenderInv, SentWhole
<1> QED
  BY <1>1, Invariance, PTL

(* Nobody writes the words of a full mailbox.                              *)
THEOREM FullMailboxIsStable == Spec => FullIsStable
<1>1. IInv /\ [Next]_vars =>
        [flag = 1 /\ flag' = 1 => UNCHANGED <<word0, word1>>]_vars
  BY DEF IInv, SenderInv, Next, Send, SendCall, SendTest, SendWord0, SendWord1,
         SendFlag, SendRing, IsrEnter, CmdRecvCall, IsrUnring, Receive,
         RecvTest, RecvWord0, RecvWord1, RecvClear, vars
<1> QED
  BY <1>1, Invariance, PTL DEF Spec, FullIsStable

(* The doorbell of a full mailbox is cleared by the handler only, after it *)
(* has looked at the flag.                                                 *)
THEOREM OnlyTheIsrSilences == Spec => OnlyIsrSilences
<1>1. IInv /\ [Next]_vars =>
        [Announced /\ ~Announced' => rPc["isr"] = "unring"]_vars
  BY DEF IInv, TypeOK, SenderInv, Next, Send, SendCall, SendTest, SendWord0,
         SendWord1, SendFlag, SendRing, IsrEnter, CmdRecvCall, IsrUnring,
         Receive, RecvTest, RecvWord0, RecvWord1, RecvClear, Announced, vars
<1> QED
  BY <1>1, Invariance, PTL DEF Spec, OnlyIsrSilences
-----------------------------------------------------------------------------
(* Refinement.                                                             *)

LEMMA InitRefines == Init => Abstract!Init
  BY DEF Init, Abstract!Init, Content

LEMMA SendRefines == IInv /\ Send => [Abstract!Next]_(Abstract!vars)
<1> SUFFICES ASSUME IInv, Send PROVE [Abstract!Next]_(Abstract!vars)
  OBVIOUS
<1> USE DEF Abstract!vars, Content
<1>1. CASE SendFlag
  <2>1. Abstract!Send(<<word0, word1>>)
    BY <1>1 DEF IInv, SenderInv, SendFlag, Abstract!Send
  <2>2. <<word0, word1>> \in Msg
    BY DEF IInv, TypeOK
  <2> QED
    BY <2>1, <2>2 DEF Abstract!Next
<1>2. CASE SendWord0 \/ SendWord1
  BY <1>2 DEF IInv, SenderInv, SendWord0, SendWord1
<1>3. CASE SendCall \/ SendTest \/ SendRing
  BY <1>3 DEF SendCall, SendTest, SendRing
<1> QED
  BY <1>1, <1>2, <1>3 DEF Send

LEMMA ReceiveRefines ==
  ASSUME NEW c \in Ctx, IInv, Receive(c)
  PROVE  [Abstract!Next]_(Abstract!vars)
<1> USE DEF Abstract!vars, Content
<1>1. CASE RecvClear(c) /\ c = "isr"
  <2>1. flag = 1 /\ reg0[c] = word0 /\ reg1[c] = word1
    BY <1>1 DEF IInv, IsrInv, RecvClear
  <2>2. Abstract!Recv
    BY <1>1, <2>1 DEF RecvClear, Given, Abstract!Recv
  <2> QED
    BY <2>2 DEF Abstract!Next
<1>2. CASE RecvClear(c) /\ c = "main"
  <2>1. CmdRecv
    BY <1>2 DEF IInv, SingleReceiver, RecvClear
  <2>2. CASE flag = 1
    BY <1>2, <2>1, <2>2 DEF RecvClear, Given, Abstract!Lose, Abstract!Next
  <2>3. CASE flag # 1
    BY <1>2, <2>3 DEF RecvClear, Given
  <2> QED
    BY <2>2, <2>3
<1>3. CASE RecvTest(c) \/ RecvWord0(c) \/ RecvWord1(c)
  BY <1>3 DEF RecvTest, RecvWord0, RecvWord1
<1> QED
  BY <1>1, <1>2, <1>3 DEF Receive

(* The instructions of MZONE_SEND and MZONE_RECV implement the abstract     *)
(* mailbox, which loses messages only if the console may run RECV too:      *)
(* nothing is duplicated or torn.                                          *)
THEOREM Refinement == Spec => ImplementsMailbox
<1>1. IInv /\ [Next]_vars => [Abstract!Next]_(Abstract!vars)
  <2> SUFFICES ASSUME IInv, [Next]_vars
               PROVE  [Abstract!Next]_(Abstract!vars)
    OBVIOUS
  <2>1. CASE Send
    BY <2>1, SendRefines
  <2>2. CASE \E c \in Ctx : Receive(c)
    BY <2>2, ReceiveRefines
  <2>3. CASE IsrEnter \/ CmdRecvCall \/ IsrUnring \/ UNCHANGED vars
    BY <2>3 DEF IsrEnter, CmdRecvCall, IsrUnring, vars, Abstract!vars, Content
  <2> QED
    BY <2>1, <2>2, <2>3 DEF Next
<1> QED
  BY <1>1, InitRefines, Invariance, PTL
     DEF Spec, ImplementsMailbox, Abstract!Spec
=============================================================================
