---------------------------- MODULE RobotProofs ----------------------------
(***************************************************************************)
(* Proofs about Robot, for any number of zones and any messages.           *)
(***************************************************************************)
EXTENDS Robot, TLAPS

USE DEF Timer, TimeCmp, KeyInHand

\* Steps of main between the tests of msg_handler and the end of what they
\* protect.
Starting == {"command", "start"}
AtKey == {"key"} \cup KeyInHand
Processing == {"look", "accept", "erase", "seqTimer"} \cup Starting \cup AtKey

\* The tick's tasks only ever reset man_cmd and sequence, so what main tested
\* still holds when it acts.
Tested == /\ pc \in Starting => man = "stop"
          /\ pc \in AtKey => sequence = "null"

Types == /\ timer \in [Timer -> TimeCmp]
         /\ inbox \in [Zone -> Text \cup {"none"}]
         /\ zone \in Zone
         /\ man \in {"stop", "move"}
         /\ pc \in Processing => msie = FALSE

IInv == Types /\ Tested /\ ManualExcludesSequence /\ ManualHasDeadline

USE DEF Starting, AtKey, Processing

LEMMA InitIInv == Init => IInv
  BY RobotAssumption DEF Init, IInv, Types, Tested, ManualExcludesSequence, ManualHasDeadline,
         Zone, RobotAssumption

LEMMA WakeKeepsPlace ==
  ASSUME Wake
  PROVE  /\ UNCHANGED zone
         /\ pc' = pc \/ (pc = "sleep" /\ pc' = "event")
  BY DEF Wake

\* The tick and its tasks.
LEMMA TickKeepsIInv ==
  ASSUME IInv, NEW e \in Host, NEW late \in SUBSET Timer, NEW starts \in BOOLEAN,
         Tick(e, late, starts)
  PROVE  IInv'
<1> USE DEF IInv
<1>1. Wake /\ UNCHANGED <<msie, inbox, zone>>
  BY DEF Tick, ipc, Wake
<1>2. timer' \in [Timer -> TimeCmp]
  <2>1. ASSUME NEW t \in Timer PROVE NextTime(t) \in TimeCmp
    BY DEF NextTime, Timer, TimeCmp
  <2>2. \A t \in Timer : timer[t] \in TimeCmp
    BY DEF Types
  <2> DEFINE due == late \cup {t \in Timer : timer[t] = "due"}
  <2>3. timer' = [t \in Timer |-> IF t \in due THEN NextTime(t) ELSE timer[t]]
    BY DEF Tick
  <2> HIDE DEF due
  <2> QED
    BY <2>1, <2>2, <2>3
<1>3. man' = man \/ man' = "stop"
  BY DEF Tick
<1>4. sequence' = sequence \/ sequence' = "null"
  BY DEF Tick, RobotSeqTask, owi
<1>5. man' = "move" => timer'["cmd"] = timer["cmd"]
  <2> SUFFICES ASSUME man' = "move" PROVE timer'["cmd"] = timer["cmd"]
    OBVIOUS
  <2> DEFINE due == late \cup {t \in Timer : timer[t] = "due"}
  <2>1. "cmd" \notin due
    BY DEF Tick
  <2>2. \A t \in Timer \ due : timer'[t] = timer[t]
    BY DEF Tick
  <2> QED
    BY <2>1, <2>2
<1>6. Types'
  BY <1>1, <1>2, <1>3, WakeKeepsPlace DEF Types
<1>7. Tested'
  BY <1>1, <1>3, <1>4, WakeKeepsPlace DEF Tested
<1>8. ManualExcludesSequence'
  BY <1>3, <1>4 DEF ManualExcludesSequence
<1>9. ManualHasDeadline'
  BY <1>1, <1>3, <1>5, WakeKeepsPlace DEF ManualHasDeadline
<1> QED
  BY <1>6, <1>7, <1>8, <1>9

LEMMA IrqKeepsIInv ==
  ASSUME IInv, XferData \/ XferDone \/ Software
  PROVE  IInv'
<1>1. Wake /\ UNCHANGED <<msie, man, sequence, timer, zone>>
  BY DEF XferData, XferDone, Software, ipc, owi, Wake
<1>2. inbox' \in [Zone -> Text \cup {"none"}]
  BY DEF XferData, XferDone, Software, Receive, ipc, IInv, Types
<1> QED
  BY <1>1, <1>2, WakeKeepsPlace
     DEF IInv, Types, Tested, ManualExcludesSequence, ManualHasDeadline

\* Steps of main that leave the command, the sequence, the timers and the
\* inbox alone.
LEMMA QuietKeepsIInv ==
  ASSUME IInv, UNCHANGED <<man, sequence, timer, inbox>>, zone' \in Zone,
         pc' \in Processing => msie' = FALSE,
         pc' \in Starting => man = "stop",
         pc' \in AtKey => sequence = "null",
         pc \in KeyInHand /\ pc' \notin KeyInHand => man = "stop" \/ timer["cmd"] # "never"
  PROVE  IInv'
  BY DEF IInv, Types, Tested, ManualExcludesSequence, ManualHasDeadline

LEMMA QuietSteps ==
  ASSUME IInv,
         \/ IfEvent \/ Switch \/ TellConnected \/ TellDisconnected
         \/ ClearEvent \/ Mask \/ Look \/ Accept \/ StopReq \/ Command
         \/ TestMan \/ Unmask
  PROVE  IInv'
<1> USE DEF Step, Stay, owi, ipc, IInv, Types, Tested
<1>1. CASE IfEvent \/ Switch \/ TellConnected \/ TellDisconnected \/ ClearEvent
  BY <1>1, QuietKeepsIInv
     DEF IfEvent, Switch, TellConnected, TellDisconnected, ClearEvent
<1>2. CASE Mask \/ Look \/ Accept \/ StopReq
  BY <1>2, QuietKeepsIInv DEF Mask, Look, Accept, StopReq
<1>3. CASE Command
  <2>1. /\ pc = "command"
        /\ pc' \in {"erase", "key", "start"}
        /\ pc' = "key" => NotRunning
        /\ UNCHANGED <<man, sequence, timer, inbox, msie, zone>>
    BY <1>3 DEF Command
  <2> QED
    BY <2>1, QuietKeepsIInv DEF NotRunning
<1>4. CASE TestMan
  BY <1>4, QuietKeepsIInv DEF TestMan
<1>5. CASE Unmask
  <2>1. zone' \in Zone
    BY <1>5, RobotAssumption DEF Unmask, Zone, RobotAssumption
  <2> QED
    BY <1>5, <2>1, QuietKeepsIInv DEF Unmask
<1> QED
  BY <1>1, <1>2, <1>3, <1>4, <1>5

\* timer_set
LEMMA TimerSetKeepsIInv ==
  ASSUME IInv, NEW l, NEW m, NEW t \in Timer, NEW v \in TimeCmp \ {"never"},
         TimerSet(l, m, t, v), m \notin Starting \cup AtKey,
         m \in Processing => l \in Processing,
         l \in KeyInHand => t = "cmd"
  PROVE  IInv'
<1>1. /\ pc = l /\ pc' = m
      /\ UNCHANGED <<man, sequence, inbox, msie, zone>>
      /\ timer' = [timer EXCEPT ![t] = v]
  BY DEF TimerSet, Step, Stay, owi, ipc
<1>2. timer' \in [Timer -> TimeCmp]
  BY <1>1 DEF IInv, Types
<1>3. timer'["cmd"] = timer["cmd"] \/ timer'["cmd"] # "never"
  BY <1>1 DEF IInv, Types
<1>4. t = "cmd" => timer'["cmd"] # "never"
  BY <1>1 DEF IInv, Types
<1> QED
  BY <1>1, <1>2, <1>3, <1>4
     DEF IInv, Types, Tested, ManualExcludesSequence, ManualHasDeadline

\* usb_write in the main thread
LEMMA UsbWriteKeepsIInv ==
  ASSUME IInv,
         \/ Data("gripBuf", "gripPipe", "move")
         \/ Pipe("gripPipe", "gripStart", "gripTimer")
         \/ Start("gripStart", "gripTimer")
         \/ Data("keyBuf", "keyPipe", man)
         \/ Pipe("keyPipe", "keyStart", "keyTimer")
         \/ Start("keyStart", "keyTimer")
  PROVE  IInv'
  BY QuietKeepsIInv
     DEF Data, Pipe, Start, Step, Stay, owi, ipc, IInv, Types, Tested

LEMMA UsbEventKeepsIInv == IInv /\ UsbEvent => IInv'
<1> SUFFICES ASSUME IInv, UsbEvent PROVE IInv'
  OBVIOUS
<1>1. CASE GripOpen
  <2>1. CASE TimerSet("gripTimer", "clear", "cmd", "set")
    BY <2>1, TimerSetKeepsIInv
  <2> QED
    BY <1>1, <2>1, UsbWriteKeepsIInv DEF GripOpen
<1>2. CASE Halt
  <2>1. /\ pc = "halt" /\ pc' \in {"clear", "halt"}
        /\ sequence' \in {sequence, "null"}
        /\ UNCHANGED <<man, timer, inbox, msie, zone>>
    BY <1>2 DEF Halt, Store, ipc
  <2> QED
    BY <2>1 DEF IInv, Types, Tested, ManualExcludesSequence, ManualHasDeadline
<1> QED
  BY <1>1, <1>2, QuietSteps DEF UsbEvent

LEMMA InboxKeepsIInv == IInv /\ Inbox => IInv'
<1> SUFFICES ASSUME IInv, Inbox PROVE IInv'
  OBVIOUS
<1>1. CASE SeqStart
  <2>1. /\ pc = "start" /\ pc' \in {"start", "seqTimer"}
        /\ UNCHANGED <<man, timer, inbox, msie, zone>>
    BY <1>1 DEF SeqStart, ipc
  <2> QED
    BY <2>1 DEF IInv, Types, Tested, ManualExcludesSequence, ManualHasDeadline
<1>2. CASE SeqTimer
  BY <1>2, TimerSetKeepsIInv DEF SeqTimer
<1>3. CASE ManualMove
  <2>1. CASE SetMan
    <3>1. /\ pc = "key" /\ pc' = "keyTest" /\ man' = "move"
          /\ UNCHANGED <<sequence, timer, inbox, msie, zone>>
      BY <2>1 DEF SetMan, Step, Stay, owi, ipc
    <3> QED
      BY <3>1 DEF IInv, Types, Tested, ManualExcludesSequence, ManualHasDeadline
  <2>2. CASE TimerSet("keyTimer", "erase", "cmd", "set")
    BY <2>2, TimerSetKeepsIInv
  <2> QED
    BY <1>3, <2>1, <2>2, QuietSteps, UsbWriteKeepsIInv DEF ManualMove
<1>4. CASE Erase
  <2>1. /\ pc = "erase" /\ pc' = "unmask"
        /\ inbox' = [inbox EXCEPT ![zone] = "none"]
        /\ UNCHANGED <<man, sequence, timer, msie, zone>>
    BY <1>4 DEF Erase, Step, Stay, owi
  <2> QED
    BY <2>1 DEF IInv, Types, Tested, ManualExcludesSequence, ManualHasDeadline
<1> QED
  BY <1>1, <1>2, <1>3, <1>4, QuietSteps DEF Inbox

LEMMA WfiKeepsIInv == IInv /\ Wfi => IInv'
<1> SUFFICES ASSUME IInv, Wfi PROVE IInv'
  OBVIOUS
<1>1. /\ pc = "wfi" /\ pc' = "sleep"
      /\ UNCHANGED <<man, sequence, inbox, msie, zone>>
  BY DEF Wfi, Step, Stay, owi, ipc
<1>2. timer' \in [Timer -> TimeCmp]
  BY DEF Wfi, IInv, Types
<1>3. timer["cmd"] # "never" => timer'["cmd"] # "never"
  BY DEF Wfi, IInv, Types
<1> QED
  BY <1>1, <1>2, <1>3
     DEF IInv, Types, Tested, ManualExcludesSequence, ManualHasDeadline

LEMMA NextKeepsIInv == IInv /\ [Next]_vars => IInv'
<1> SUFFICES ASSUME IInv, [Next]_vars PROVE IInv'
  OBVIOUS
<1>1. CASE UNCHANGED vars
  BY <1>1 DEF vars, main, owi, ipc, IInv, Types, Tested,
              ManualExcludesSequence, ManualHasDeadline
<1>2. CASE SysTick
  BY <1>2, TickKeepsIInv DEF SysTick
<1>3. CASE Loop
  BY <1>3, UsbEventKeepsIInv, InboxKeepsIInv, WfiKeepsIInv DEF Loop
<1> QED
  BY <1>1, <1>2, <1>3, IrqKeepsIInv DEF Next

LEMMA AlwaysIInv == Spec => []IInv
  BY InitIInv, NextKeepsIInv, PTL DEF Spec

(* A manual command and a sequence never drive the arm together.           *)
THEOREM ExcludesSequence == Spec => []ManualExcludesSequence
<1>1. IInv => ManualExcludesSequence
  BY DEF IInv
<1> QED
  BY <1>1, AlwaysIInv, PTL

(* A manual command always has its timer set, or main is about to set it.  *)
THEOREM HasDeadline == Spec => []ManualHasDeadline
<1>1. IInv => ManualHasDeadline
  BY DEF IInv
<1> QED
  BY <1>1, AlwaysIInv, PTL

(* What main processes and erases is the message it has tested: no other   *)
(* message arrives in its place meanwhile.                                 *)
THEOREM IsSettled == Spec => Settled
<1> DEFINE At == pc \in {"accept", "command", "key", "start", "erase"}
           Same == inbox'[zone] = inbox[zone] \/ inbox'[zone] = "none"
<1>1. IInv /\ [Next]_vars => [At => Same]_vars
  <2> SUFFICES ASSUME IInv, Next, At PROVE Same
    BY DEF vars
  <2>1. CASE SysTick \/ XferData \/ XferDone
    BY <2>1 DEF SysTick, Tick, XferData, XferDone, ipc
  <2>2. CASE Software
    BY <2>2 DEF Software, IInv, Types
  <2>3. CASE UsbEvent \/ Wfi
    BY <2>3 DEF UsbEvent, IfEvent, Switch, TellConnected, GripOpen, Data, Pipe,
                Start, TimerSet, TellDisconnected, Halt, ClearEvent, Wfi, Step,
                ipc
  <2>4. CASE Inbox
    <3>1. CASE Erase
      BY <3>1 DEF Erase, IInv, Types
    <3> QED
      BY <2>4, <3>1 DEF Inbox, Mask, Look, Accept, StopReq, Command, SeqStart,
                        SeqTimer, ManualMove, SetMan, TestMan, Data, Pipe,
                        Start, TimerSet, Unmask, ipc
  <2> QED
    BY <2>1, <2>2, <2>3, <2>4 DEF Next, Loop
<1> QED
  BY <1>1, AlwaysIInv, PTL DEF Spec, Settled
-----------------------------------------------------------------------------
(* The STOP of a manual command.                                           *)

\* Main is between a transfer it may have started and the timer it sets.
Sending == KeyInHand \cup {"gripTimer"}

\* The control pipe has no transfer of usb_write.
Quiet == cep \in {"idle", "stack"}

\* The timer is armed at the end of a pass that found no transfer of usb_write
\* on the pipe.  Until it fires only main can start one, since no sequence
\* runs, and after doing so main sets the timer again.
FreeAtDeadline ==
  /\ timer["cmd"] # "due"
  /\ man = "move" /\ timer["cmd"] = "armed" => Quiet \/ pc \in Sending

\* What a STOP at the deadline meets
Sent == cep' = "setup" /\ buf' = "stop"
StopMeets == Sent \/ cep' = "stack" \/ pc \in Sending

LEMMA TickKeepsFree ==
  ASSUME IInv, FreeAtDeadline, NEW e \in Host, NEW late \in SUBSET Timer, NEW starts \in BOOLEAN,
         Tick(e, late, starts)
  PROVE  /\ FreeAtDeadline'
         /\ man = "move" /\ man' = "stop" => StopMeets
<1> DEFINE due == late \cup {t \in Timer : timer[t] = "due"}
<1>1. /\ timer' = [t \in Timer |-> IF t \in due THEN NextTime(t) ELSE timer[t]]
      /\ man' = IF "cmd" \in due THEN "stop" ELSE man
      /\ "cmd" \in due => timer["cmd"] = "armed"
      /\ UsbWrite(Written(due), starts) /\ Wake
  BY DEF Tick, FreeAtDeadline
<1> HIDE DEF due
<1>2. timer'["cmd"] = IF "cmd" \in due THEN "never" ELSE timer["cmd"]
  BY <1>1 DEF NextTime
<1>3. man = "move" /\ "cmd" \notin due => cep' \in {cep, "stack"}
  <2> SUFFICES ASSUME man = "move", "cmd" \notin due PROVE cep' \in {cep, "stack"}
    OBVIOUS
  <2>1. sequence = "null"
    BY DEF IInv, Types, ManualExcludesSequence
  <2>2. Written(due) = "none"
    BY <2>1 DEF Written, SeqOver
  <2> QED
    BY <1>1, <2>2 DEF UsbWrite
<1>4. pc \in Sending => pc' \in Sending
  BY <1>1, WakeKeepsPlace DEF Sending
<1>5. man' = "move" => man = "move" /\ "cmd" \notin due
  BY <1>1 DEF IInv, Types
<1>6. FreeAtDeadline'
  BY <1>2, <1>3, <1>4, <1>5 DEF FreeAtDeadline, Quiet
<1>7. "cmd" \in due /\ Quiet => Sent \/ cep' = "stack"
  <2> SUFFICES ASSUME "cmd" \in due, Quiet PROVE Sent \/ cep' = "stack"
    OBVIOUS
  <2>1. Written(due) = "stop"
    BY DEF Written
  <2> QED
    BY <1>1, <2>1 DEF UsbWrite, Quiet, Sent
<1>8. man = "move" /\ man' = "stop" => "cmd" \in due
  BY <1>1
<1> QED
  BY <1>1, <1>6, <1>7, <1>8 DEF FreeAtDeadline, StopMeets

\* Steps that do not occupy the pipe, and leave the command and its timer alone
LEMMA SameKeepsFree ==
  ASSUME FreeAtDeadline, man' = man, timer'["cmd"] = timer["cmd"],
         Quiet => Quiet' \/ pc' \in Sending,
         pc \in Sending => pc' \in Sending \/ man' # "move"
  PROVE  FreeAtDeadline'
  BY DEF FreeAtDeadline

LEMMA LoopKeepsFree ==
  ASSUME IInv, FreeAtDeadline, UsbEvent \/ Inbox
  PROVE  FreeAtDeadline' /\ ~(man = "move" /\ man' = "stop")
<1> USE DEF Step, Stay, xfer, Sending, Quiet
<1>1. ASSUME NEW l, NEW m, NEW v \in {"set", "due"}, NEW t \in Timer, TimerSet(l, m, t, v),
             t = "cmd" => v = "set", t = "seq" => l \notin Sending
      PROVE  FreeAtDeadline' /\ man' = man
  <2>1. pc = l /\ pc' = m /\ cep' = cep /\ man' = man /\ timer' = [timer EXCEPT ![t] = v]
    BY <1>1 DEF TimerSet
  <2>2. CASE t = "cmd"
    <3>1. timer'["cmd"] = "set"
      BY <1>1, <2>1, <2>2 DEF IInv, Types
    <3> QED
      BY <2>1, <3>1 DEF FreeAtDeadline
  <2>3. CASE t = "seq"
    <3>1. timer'["cmd"] = timer["cmd"]
      BY <2>1, <2>3 DEF IInv, Types
    <3> QED
      BY <1>1, <2>1, <2>3, <3>1, SameKeepsFree
  <2> QED
    BY <2>1, <2>2, <2>3
<1>2. CASE \/ TimerSet("gripTimer", "clear", "cmd", "set")
           \/ TimerSet("keyTimer", "erase", "cmd", "set") \/ SeqTimer
  BY <1>1, <1>2 DEF SeqTimer
<1>3. CASE IfEvent \/ Switch \/ TellConnected \/ TellDisconnected \/ ClearEvent \/ Halt
  BY <1>3, SameKeepsFree DEF IfEvent, Switch, TellConnected, TellDisconnected, ClearEvent, Halt
<1>4. CASE Mask \/ Look \/ Accept \/ StopReq \/ Command \/ SeqStart \/ Erase \/ Unmask
  BY <1>4, SameKeepsFree DEF Mask, Look, Accept, StopReq, Command, SeqStart, Erase, Unmask
<1>5. CASE \/ Data("gripBuf", "gripPipe", "move")
           \/ Pipe("gripPipe", "gripStart", "gripTimer")
           \/ Start("gripStart", "gripTimer")
           \/ Data("keyBuf", "keyPipe", man)
           \/ Pipe("keyPipe", "keyStart", "keyTimer")
           \/ Start("keyStart", "keyTimer")
  BY <1>5, SameKeepsFree DEF Data, Pipe, Start
<1>6. CASE TestMan
  BY <1>6, SameKeepsFree DEF TestMan
<1>7. CASE SetMan
  BY <1>7 DEF SetMan, FreeAtDeadline
<1> QED
  BY <1>2, <1>3, <1>4, <1>5, <1>6, <1>7 DEF UsbEvent, GripOpen, Inbox, ManualMove

LEMMA WfiKeepsFree ==
  ASSUME IInv, FreeAtDeadline, Wfi
  PROVE  FreeAtDeadline' /\ man' = man
<1>1. pc = "wfi" /\ man' = man /\ cep' = cep
  BY DEF Wfi, Step, xfer
<1>2. timer'["cmd"] = CASE timer["cmd"] = "set" -> "wait"
                        [] timer["cmd"] = "wait" /\ cep \in {"idle", "stack"} -> "armed"
                        [] OTHER -> timer["cmd"]
  BY DEF Wfi
<1>3. timer'["cmd"] # "due" /\ (timer'["cmd"] = "armed" => timer["cmd"] = "armed" \/ Quiet)
  BY <1>2 DEF FreeAtDeadline, Quiet
<1> QED
  BY <1>1, <1>3 DEF FreeAtDeadline, Sending, Quiet

LEMMA NextKeepsFree ==
  ASSUME IInv, FreeAtDeadline, [Next]_vars
  PROVE  /\ FreeAtDeadline'
         /\ man = "move" /\ man' = "stop" => StopMeets
<1>1. CASE UNCHANGED vars
  BY <1>1 DEF vars, xfer, main, FreeAtDeadline, Quiet
<1>2. CASE SysTick
  BY <1>2, TickKeepsFree DEF SysTick
<1>3. CASE XferData \/ XferDone \/ Software
  <2>1. UNCHANGED <<man, timer>> /\ (Quiet => Quiet') /\ Wake
    BY <1>3 DEF XferData, XferDone, Software, xfer, Quiet
  <2>2. pc \in Sending => pc' \in Sending
    BY <2>1, WakeKeepsPlace DEF Sending
  <2> QED
    BY <2>1, <2>2, SameKeepsFree
<1>4. CASE Loop
  BY <1>4, LoopKeepsFree, WfiKeepsFree DEF Loop
<1> QED
  BY <1>1, <1>2, <1>3, <1>4 DEF Next

(* The STOP that ends a manual command is in a transfer to the arm, unless *)
(* a transfer of the USB stack has the pipe, or main is about to set the   *)
(* timer anew: after the command, which an older deadline has ended, or    *)
(* after the grip of a new connection.                                     *)
THEOREM StopIsSent == Spec => OnlyStackDropsStop
<1>1. Init => FreeAtDeadline
  BY DEF Init, FreeAtDeadline
<1>2. IInv /\ FreeAtDeadline /\ [Next]_vars => FreeAtDeadline'
  BY NextKeepsFree
<1>3. IInv /\ FreeAtDeadline /\ [Next]_vars =>
        [man = "move" /\ man' = "stop"
           => \/ cep' = "setup" /\ buf' = "stop"
              \/ cep' = "stack"
              \/ pc \in KeyInHand \cup {"gripTimer"}]_vars
  BY NextKeepsFree DEF Sending, StopMeets, Sent
<1> QED
  BY <1>1, <1>2, <1>3, AlwaysIInv, PTL DEF Spec, OnlyStackDropsStop
-----------------------------------------------------------------------------
(* The timer of the sequence.                                              *)

\* What a tick does to the sequence and its timer.
LEMMA TickAndSequence ==
  ASSUME NEW e \in Host, NEW late \in SUBSET Timer, NEW starts \in BOOLEAN,
         Tick(e, late, starts)
  PROVE  /\ event => event'
         /\ conn' => conn \/ event'
         /\ \/ UNCHANGED owi /\ timer'["seq"] = timer["seq"]
            \/ /\ timer["seq"] \in {"armed", "due"}
               /\ RobotSeqTask /\ timer'["seq"] = NextTime("seq")
<1>1. /\ event => event'
      /\ conn' => conn \/ event'
  BY Zenon DEF Tick, UsbHostTask, Host
<1> DEFINE due == late \cup {t \in Timer : timer[t] = "due"}
<1>2. /\ timer' = [t \in Timer |-> IF t \in due THEN NextTime(t) ELSE timer[t]]
      /\ IF "seq" \in due THEN RobotSeqTask ELSE UNCHANGED owi
      /\ "seq" \in due => timer["seq"] \in {"armed", "due"}
  BY DEF Tick
<1> HIDE DEF due
<1>3. timer'["seq"] = IF "seq" \in due THEN NextTime("seq") ELSE timer["seq"]
  BY <1>2
<1> QED
  BY <1>1, <1>2, <1>3

\* When robot_seq_task has run, a connected arm has a sequence if and only if
\* its timer is set.
LEMMA SeqTaskAndTimer ==
  ASSUME RobotSeqTask, timer'["seq"] = NextTime("seq")
  PROVE  /\ timer'["seq"] # "never" => sequence' # "null"
         /\ timer'["seq"] = "never" /\ conn' => sequence' = "null"
<1>1. CASE ~conn' \/ SeqOver
  BY <1>1 DEF RobotSeqTask, NextTime
<1>2. CASE conn' /\ ~SeqOver
  BY <1>2 DEF RobotSeqTask, NextTime, SeqOver
<1> QED
  BY <1>1, <1>2

\* The steps that leave the sequence and its timer alone.
LEMMA OtherStepsAndSequence ==
  ASSUME IInv,
         \/ XferData \/ XferDone \/ Software
         \/ IfEvent \/ Switch \/ TellConnected \/ GripOpen \/ TellDisconnected
         \/ Mask \/ Look \/ Accept \/ StopReq \/ Command \/ ManualMove \/ Erase
         \/ Unmask \/ Wfi
  PROVE  /\ UNCHANGED <<conn, event, sequence>>
         /\ timer'["seq"] = "never" <=> timer["seq"] = "never"
         /\ pc \in {"start", "seqTimer"} => pc' = pc
<1>1. CASE XferData \/ XferDone \/ Software
  BY <1>1 DEF XferData, XferDone, Software, usb, owi, Wake
<1>2. CASE IfEvent \/ Switch \/ TellConnected \/ TellDisconnected
  BY <1>2 DEF IfEvent, Switch, TellConnected, TellDisconnected, Step, usb, owi
<1>3. CASE Mask \/ Look \/ Accept \/ StopReq \/ Command \/ Erase \/ Unmask
  BY <1>3 DEF Mask, Look, Accept, StopReq, Command, Erase, Unmask, Step, usb, owi
<1>4. CASE GripOpen \/ ManualMove
  <2>1. ASSUME NEW l, NEW m, TimerSet(l, m, "cmd", "set"), l \notin {"start", "seqTimer"}
        PROVE  /\ UNCHANGED <<conn, event, sequence>>
               /\ timer'["seq"] = timer["seq"]
               /\ pc \notin {"start", "seqTimer"}
    BY <2>1 DEF TimerSet, Step, usb, owi, IInv, Types
  <2>2. CASE TimerSet("gripTimer", "clear", "cmd", "set") \/ TimerSet("keyTimer", "erase", "cmd", "set")
    BY <2>1, <2>2
  <2> QED
    BY <1>4, <2>2 DEF GripOpen, ManualMove, Data, Pipe, Start, SetMan, TestMan, Step, usb, owi
<1>5. CASE Wfi
  BY <1>5 DEF Wfi, Step, owi, IInv, Types
<1> QED
  BY <1>1, <1>2, <1>3, <1>4, <1>5

\* owi_sequence_start never stores NULL.
LEMMA StartStoresName ==
  ASSUME IInv, SeqStart
  PROVE  /\ pc = "start" /\ pc' \in {"start", "seqTimer"}
         /\ UNCHANGED <<conn, event, timer>>
         /\ sequence' = sequence \/ sequence' # "null"
<1>1. inbox[zone] \in Text \cup {"none"}
  BY DEF IInv, Types
<1>2. SeqOf(inbox[zone]) # "null"
  BY <1>1, RobotAssumption DEF SeqOf, RobotAssumption
<1> QED
  BY <1>2 DEF SeqStart, Store, usb

(* A sequence that runs on a connected arm loses its timer in one way only:  *)
(* main clears a usb_event that was set again after it looked at usb_state. *)
THEOREM ClearStrands == Spec => OnlyClearStrands
<1>1. IInv /\ [Next]_vars => [Timed /\ ~Timed' => pc = "clear"]_vars
  <2> SUFFICES ASSUME IInv, Next, Timed, ~Timed' PROVE pc = "clear"
    BY DEF vars
  <2> USE DEF Timed
  <2>1. CASE SysTick
    <3>1. PICK e \in Host, late \in SUBSET Timer, starts \in BOOLEAN : Tick(e, late, starts)
      BY <2>1 DEF SysTick
    <3>2. pc \in {"start", "seqTimer"} => pc' = pc
      BY <3>1 DEF Tick, Wake
    <3> QED
      BY <3>1, <3>2, TickAndSequence, SeqTaskAndTimer DEF owi
  <2>2. CASE SeqStart
    BY <2>2, StartStoresName
  <2>3. CASE SeqTimer
    BY <2>3 DEF SeqTimer, TimerSet, IInv, Types
  <2>4. CASE Halt
    BY <2>4 DEF Halt, Store, usb
  <2>5. CASE ClearEvent
    BY <2>5 DEF ClearEvent, Step
  <2> QED
    BY <2>1, <2>2, <2>3, <2>4, <2>5, OtherStepsAndSequence
       DEF Next, Loop, UsbEvent, Inbox
<1> QED
  BY <1>1, AlwaysIInv, PTL DEF Spec, OnlyClearStrands

(* The timer of a sequence outlives it only when main ends the sequence of   *)
(* an unplugged arm, or sets the timer of a start that a tick has undone.    *)
THEOREM HaltOrphans == Spec => OnlyHaltOrphans
<1>1. IInv /\ [Next]_vars => [~Orphan /\ Orphan' => pc \in {"halt", "seqTimer"}]_vars
  <2> SUFFICES ASSUME IInv, Next, ~Orphan, Orphan' PROVE pc \in {"halt", "seqTimer"}
    BY DEF vars
  <2> USE DEF Orphan
  <2>1. CASE SysTick
    <3>1. PICK e \in Host, late \in SUBSET Timer, starts \in BOOLEAN : Tick(e, late, starts)
      BY <2>1 DEF SysTick
    <3> QED
      BY <3>1, TickAndSequence, SeqTaskAndTimer DEF owi
  <2>2. CASE SeqStart
    BY <2>2, StartStoresName
  <2>3. CASE SeqTimer \/ Halt \/ ClearEvent
    BY <2>3 DEF SeqTimer, TimerSet, Halt, ClearEvent, Step, owi
  <2> QED
    BY <2>1, <2>2, <2>3, OtherStepsAndSequence DEF Next, Loop, UsbEvent, Inbox
<1> QED
  BY <1>1, AlwaysIInv, PTL DEF Spec, OnlyHaltOrphans
-----------------------------------------------------------------------------
(* owi_sequence_next stays in the table of the sequence, and type            *)
(* correctness.                                                            *)

HIDE DEF Timer, TimeCmp, KeyInHand, Starting, AtKey, Processing

\* main looks at the detach of an arm before a new one can appear.
Settling == /\ settle \in 0..2
            /\ pc = "switch" => event
            /\ ~conn /\ event =>
                 \/ settle = 2
                 \/ settle = 1 /\ pc \in {"sleep", "event", "switch", "disconnected",
                                          "halt", "clear"}
            /\ pc \in {"disconnected", "halt"} => ~conn /\ settle # 0

\* What main has read of the message it processes
Message == /\ pc \in {"accept", "command"} => inbox[zone] \notin {"none", "ping"}
           /\ pc = "start" => inbox[zone] \in {"start", "fold", "unfold"}

\* Between calls, the statics of owi_sequence.c fit the sequence.
Fit == IF sequence = "null" THEN stepIdx = 0
       ELSE size = Len(Steps[sequence]) /\ stepIdx < size

\* owi_sequence_stop; no task uses what it has stored, the arm is unplugged.
Halting == /\ "sequence" \in todo \/ sequence = "null"
           /\ "stepIdx" \in todo \/ stepIdx = 0

\* owi_sequence_start: the timer of an earlier sequence may fire once.
Begun == /\ sequence = "null" \/ ("sequence" \notin todo /\ sequence = SeqOf(inbox[zone]))
         /\ "size" \in todo \/ size = Len(Steps[SeqOf(inbox[zone])])
         /\ stepIdx \in {0, 1}
         /\ stepIdx = 1 => sequence # "null" /\ timer["seq"] \notin {"armed", "due"}

Statics == /\ sequence \in SeqName \cup {"null"}
           /\ stepIdx \in 0..13 /\ size \in {0, 4, 5, 14}
           /\ pc \notin {"start", "halt"} => Fit
           /\ pc = "halt" => Halting
           /\ pc = "start" => Begun

Others == /\ conn \in BOOLEAN /\ event \in BOOLEAN /\ stop \in BOOLEAN /\ msie \in BOOLEAN
          /\ cep \in {"idle", "setup", "status", "stack"}
          /\ buf \in {"stop", "move"}
          /\ todo \subseteq Field

Stack == gen \in {"off", "descr", "request"}

SInv == IInv /\ Settling /\ Message /\ Statics /\ Others /\ Stack

-----------------------------------------------------------------------------
(* The tables of owi_sequence.c.                                           *)

LEMMA Tables ==
  /\ \A s \in SeqName : Len(Steps[s]) \in {4, 5, 14}
  /\ \A s \in SeqName : \A i \in 1..Len(Steps[s]) : Steps[s][i] \in {"stop", "move"}
<1>1. Len(Steps["main"]) = 14 /\ Len(Steps["fold"]) = 5 /\ Len(Steps["unfold"]) = 4
  BY DEF Steps
<1>2. \A i \in 1..14 : Steps["main"][i] \in {"stop", "move"}
  BY DEF Steps
<1>3. \A i \in 1..5 : Steps["fold"][i] \in {"stop", "move"}
  BY DEF Steps
<1>4. \A i \in 1..4 : Steps["unfold"][i] \in {"stop", "move"}
  BY DEF Steps
<1> QED
  BY <1>1, <1>2, <1>3, <1>4 DEF SeqName

LEMMA SeqOfKind ==
  ASSUME NEW m \in {"start", "fold", "unfold"}
  PROVE  SeqOf(m) \in SeqName
  BY DEF SeqOf, SeqName

LEMMA NextOfFit ==
  ASSUME sequence \in SeqName, Fit, stepIdx \in 0..13
  PROVE  NextIdx \in 0..(Len(Steps[sequence]) - 1)
<1>1. sequence # "null"
  BY DEF SeqName
<1>2. size \in {4, 5, 14} /\ size = Len(Steps[sequence]) /\ stepIdx < size
  BY <1>1, Tables DEF Fit
<1>3. NextIdx = (stepIdx + 1) % size
  <2>1. size # 0
    BY <1>2
  <2> QED
    BY <2>1, Zenon DEF NextIdx, Rem
<1>4. CASE size = 4
  BY <1>2, <1>3, <1>4
<1>5. CASE size = 5
  BY <1>2, <1>3, <1>5
<1>6. CASE size = 14
  BY <1>2, <1>3, <1>6
<1> QED
  BY <1>2, <1>4, <1>5, <1>6

LEMMA NextOfBegun ==
  ASSUME stepIdx = 0, size \in {0, 4, 5, 14}
  PROVE  NextIdx = 1
  BY DEF NextIdx, Rem

\* The step a task is about to take is in the table, but for main in
\* owi_sequence_stop.
LEMMA NextInTable ==
  ASSUME SInv, sequence # "null", timer["seq"] \in {"armed", "due"}, pc # "halt"
  PROVE  /\ sequence \in SeqName
         /\ NextIdx \in 0..(Len(Steps[sequence]) - 1)
         /\ pc = "start" => stepIdx = 0 /\ NextIdx = 1
<1>1. sequence \in SeqName /\ stepIdx \in 0..13 /\ size \in {0, 4, 5, 14}
  BY DEF SInv, Statics
<1>2. CASE pc = "start"
  <2>1. stepIdx = 0
    BY <1>2 DEF SInv, Statics, Begun
  <2>2. NextIdx = 1
    BY <1>1, <2>1, NextOfBegun
  <2>3. Len(Steps[sequence]) \in {4, 5, 14}
    BY <1>1, Tables
  <2>4. 1 \in 0..(Len(Steps[sequence]) - 1)
    <3>1. ASSUME NEW n \in {4, 5, 14} PROVE 1 \in 0..(n - 1)
      BY <3>1
    <3> QED
      BY <2>3, <3>1, Zenon
  <2>5. NextIdx \in 0..(Len(Steps[sequence]) - 1)
    BY <2>2, <2>4, Zenon
  <2> QED
    BY <1>1, <2>1, <2>2, <2>5, Zenon
<1>3. CASE pc # "start"
  BY <1>1, <1>3, NextOfFit DEF SInv, Statics
<1> QED
  BY <1>2, <1>3
-----------------------------------------------------------------------------
(* One lemma per part of the invariant.                                    *)

LEMMA InitSInv == Init => SInv
<1> SUFFICES ASSUME Init PROVE SInv
  OBVIOUS
<1>1. IInv
  BY InitIInv
<1>2. Settling /\ Message
  BY DEF Init, Settling, Message
<1>3. Statics
  BY DEF Init, Statics, Fit
<1>4. Others
  <2>1. conn \in BOOLEAN /\ event \in BOOLEAN /\ stop \in BOOLEAN /\ msie \in BOOLEAN
    BY Zenon DEF Init
  <2>2. /\ cep \in {"idle", "setup", "status", "stack"} /\ todo \subseteq Field
        /\ buf \in {"stop", "move"}
    BY DEF Init
  <2> QED
    BY <2>1, <2>2, Zenon DEF Others
<1>5. Stack
  BY DEF Init, Stack
<1> QED
  BY <1>1, <1>2, <1>3, <1>4, <1>5, Zenon DEF SInv

LEMMA MainWakes ==
  ASSUME Wake
  PROVE  UNCHANGED <<zone, todo>> /\ (pc' = pc \/ (pc = "sleep" /\ pc' = "event"))
  BY DEF Wake

LEMMA KeepsSettling ==
  ASSUME SInv, Next
  PROVE  Settling'
<1> USE DEF Settling, Step
<1>0. Settling /\ conn \in BOOLEAN /\ event \in BOOLEAN
  BY DEF SInv, Others
<1>1. ASSUME NEW e \in Host, NEW starts \in BOOLEAN, UsbHostTask(e, starts), Wake
      PROVE  Settling'
  <2>1. CASE e = "none"
    BY <1>0, <1>1, <2>1, MainWakes DEF UsbHostTask
  <2>2. CASE e = "assigned"
    BY <1>0, <1>1, <2>2, MainWakes DEF UsbHostTask
  <2>3. CASE e = "detached"
    BY <1>0, <1>1, <2>3, MainWakes DEF UsbHostTask
  <2> QED
    BY <2>1, <2>2, <2>3 DEF Host
<1>2. CASE SysTick
  BY <1>1, <1>2 DEF SysTick, Tick
<1>3. CASE XferData \/ XferDone \/ Software
  BY <1>0, <1>3, MainWakes DEF XferData, XferDone, Software, usb
<1>4. CASE IfEvent
  BY <1>0, <1>4 DEF IfEvent, usb
<1>5. CASE Switch
  BY <1>0, <1>5 DEF Switch, usb
<1>6. CASE TellConnected \/ TellDisconnected \/ Halt \/ ClearEvent
  BY <1>0, <1>6 DEF TellConnected, TellDisconnected, Halt, ClearEvent, usb
<1>7. CASE GripOpen
  BY <1>0, <1>7 DEF GripOpen, Data, Pipe, Start, TimerSet, usb
<1>8. CASE Mask \/ Look \/ Accept \/ StopReq \/ Command \/ SeqStart \/ Erase \/ Unmask
  BY <1>0, <1>8 DEF Mask, Look, Accept, StopReq, Command, SeqStart, Erase, Unmask, usb
<1>9. CASE SeqTimer \/ ManualMove
  BY <1>0, <1>9 DEF SeqTimer, ManualMove, SetMan, TestMan, Data, Pipe, Start, TimerSet, usb
<1>10. CASE Wfi
  BY <1>0, <1>10 DEF Wfi
<1> QED
  BY <1>2, <1>3, <1>4, <1>5, <1>6, <1>7, <1>8, <1>9, <1>10 DEF Next, Loop, UsbEvent, Inbox

LEMMA KeepsMessage ==
  ASSUME SInv, Next
  PROVE  Message'
<1> USE DEF Message, Step, Stay
<1>0. /\ Message
      /\ inbox \in [Zone -> Text \cup {"none"}] /\ zone \in Zone
      /\ pc \in Processing => msie = FALSE
  BY DEF SInv, IInv, Types
<1>1. CASE SysTick
  BY <1>0, <1>1, MainWakes DEF SysTick, Tick, ipc
<1>2. CASE XferData \/ XferDone
  <2>1. Wake /\ inbox' = inbox
    BY <1>2 DEF XferData, XferDone, ipc
  <2>2. zone' = zone /\ (pc' = pc \/ pc' = "event")
    BY <2>1 DEF Wake
  <2> QED
    BY <1>0, <2>1, <2>2
<1>3. CASE Software
  <2>1. pc \notin Processing /\ (pc' = pc \/ pc' = "event")
    BY <1>0, <1>3 DEF Software, Wake
  <2> QED
    BY <2>1 DEF Processing, Starting
<1>4. CASE UsbEvent
  BY <1>0, <1>4 DEF UsbEvent, IfEvent, Switch, TellConnected, TellDisconnected, Halt, ClearEvent,
                    GripOpen, Data, Pipe, Start, TimerSet, ipc
<1>5. CASE Look
  BY <1>0, <1>5 DEF Look, ipc
<1>6. CASE Accept
  BY <1>0, <1>6 DEF Accept, ipc
<1>7. CASE Command
  <2>1. inbox[zone] \in {"ping", "stop", "start", "fold", "unfold", "key", "other", "none"}
    BY <1>0, RobotAssumption DEF RobotAssumption
  <2> QED
    BY <1>0, <1>7, <2>1 DEF Command, ipc
<1>8. CASE SeqStart
  BY <1>0, <1>8 DEF SeqStart, ipc
<1>9. CASE Mask \/ StopReq \/ Erase \/ Unmask
  BY <1>9 DEF Mask, StopReq, Erase, Unmask
<1>10. CASE SeqTimer \/ ManualMove \/ Wfi
  BY <1>10 DEF SeqTimer, ManualMove, SetMan, TestMan, Data, Pipe, Start, TimerSet, Wfi
<1> QED
  BY <1>1, <1>2, <1>3, <1>4, <1>5, <1>6, <1>7, <1>8, <1>9, <1>10 DEF Next, Loop, Inbox

\* What a task writes
LEMMA WrittenInTable ==
  ASSUME SInv, NEW due \in SUBSET Timer, conn' => pc # "halt",
         \A t \in due : timer[t] \in {"armed", "due"}
  PROVE  Written(due) \in {"none", "stop", "move"}
<1>1. CASE "cmd" \in due
  BY <1>1 DEF Written
<1>2. CASE "cmd" \notin due /\ "seq" \in due /\ conn' /\ ~SeqOver
  <2>1. sequence # "null" /\ timer["seq"] \in {"armed", "due"}
    BY <1>2 DEF SeqOver
  <2>2. sequence \in SeqName /\ NextIdx \in 0..(Len(Steps[sequence]) - 1)
    BY <1>2, <2>1, NextInTable
  <2>3. NextIdx + 1 \in 1..Len(Steps[sequence])
    <3>1. ASSUME NEW n \in {4, 5, 14}, NEW i \in 0..(n - 1) PROVE i + 1 \in 1..n
      BY <3>1
    <3> QED
      BY <2>2, <3>1, Tables, Zenon
  <2>4. Steps[sequence][NextIdx + 1] \in {"stop", "move"}
    BY <2>2, <2>3, Tables, Zenon
  <2>5. Written(due) = Steps[sequence][NextIdx + 1]
    BY <1>2, Zenon DEF Written
  <2> QED
    BY <2>4, <2>5
<1>3. CASE "cmd" \notin due /\ ~("seq" \in due /\ conn' /\ ~SeqOver)
  BY <1>3, Zenon DEF Written
<1> QED
  BY <1>1, <1>2, <1>3

\* robot_seq_task, as far as the sequence goes
LEMMA SeqTaskKeepsStatics ==
  ASSUME SInv, RobotSeqTask, timer["seq"] \in {"armed", "due"},
         timer'["seq"] = NextTime("seq"),
         conn' => pc # "halt", UNCHANGED <<inbox, zone, todo>>,
         pc' = "start" <=> pc = "start", pc' = "halt" <=> pc = "halt"
  PROVE  Statics'
<1>0. Statics
  BY DEF SInv
<1>1. CASE ~conn'
  <2>1. UNCHANGED owi
    BY <1>1, Zenon DEF RobotSeqTask
  <2>2. timer'["seq"] = "never"
    BY <1>1, Zenon DEF NextTime
  <2> QED
    BY <1>0, <2>1, <2>2 DEF owi, Statics, Fit, Halting, Begun
<1>2. CASE conn' /\ SeqOver
  <2>1. sequence' = "null" /\ UNCHANGED <<stepIdx, size, stop>>
    BY <1>2, Zenon DEF RobotSeqTask
  <2>2. CASE pc = "start"
    BY <1>0, <2>1, <2>2 DEF Statics, Begun
  <2>3. CASE pc # "start"
    BY <1>0, <1>2, <2>1, <2>3 DEF Statics, Fit, SeqOver
  <2> QED
    BY <2>2, <2>3
<1>3. CASE conn' /\ ~SeqOver
  <2>1. stepIdx' = NextIdx /\ UNCHANGED <<sequence, size>>
    BY <1>3, Zenon DEF RobotSeqTask
  <2>2. sequence # "null"
    BY <1>3 DEF SeqOver
  <2>3. /\ sequence \in SeqName
        /\ NextIdx \in 0..(Len(Steps[sequence]) - 1)
        /\ pc = "start" => stepIdx = 0 /\ NextIdx = 1
    BY <1>3, <2>2, NextInTable
  <2>4. CASE pc = "start"
    <3>1. timer'["seq"] = "set"
      BY <1>3, <2>3, <2>4 DEF NextTime, Instant
    <3> QED
      BY <1>0, <2>1, <2>2, <2>3, <2>4, <3>1 DEF Statics, Begun
  <2>5. CASE pc # "start"
    <3>1. size = Len(Steps[sequence])
      BY <1>0, <1>3, <2>2, <2>5, Zenon DEF Statics, Fit
    <3>2. ASSUME NEW n \in {4, 5, 14}, NEW i \in 0..(n - 1) PROVE i \in 0..13 /\ i < n
      BY <3>2
    <3>3. NextIdx \in 0..13 /\ NextIdx < size
      BY <2>3, <3>1, <3>2, Tables, Zenon
    <3> QED
      BY <1>0, <1>3, <2>1, <2>2, <2>5, <3>1, <3>3 DEF Statics, Fit
  <2> QED
    BY <2>4, <2>5
<1> QED
  BY <1>1, <1>2, <1>3

LEMMA TickKeepsStatics ==
  ASSUME SInv, NEW e \in Host, NEW late \in SUBSET Timer, NEW starts \in BOOLEAN,
         Tick(e, late, starts)
  PROVE  Statics'
<1>1. /\ UNCHANGED <<inbox, zone, todo>>
      /\ pc' = "start" <=> pc = "start"
      /\ pc' = "halt" <=> pc = "halt"
  BY DEF Tick, Wake, ipc
<1>2. conn' => pc # "halt"
  BY DEF Tick, UsbHostTask, SInv, Settling, Others
<1>3. CASE UNCHANGED owi /\ timer'["seq"] = timer["seq"]
  BY <1>1, <1>3 DEF SInv, Statics, Fit, Halting, Begun, owi
<1> QED
  BY <1>1, <1>2, <1>3, TickAndSequence, SeqTaskKeepsStatics

\* Steps of main and interrupts that leave the sequence and its timer alone
LEMMA QuietKeepsStatics ==
  ASSUME SInv, UNCHANGED <<sequence, stepIdx, size>>,
         pc' \notin {"start", "halt"}, pc \notin {"start", "halt"}
  PROVE  Statics'
  BY DEF SInv, Statics, Fit

\* An interrupt during owi_sequence_start or _stop
LEMMA IrqKeepsStatics ==
  ASSUME SInv, XferData \/ XferDone \/ Software
  PROVE  Statics'
<1>1. /\ UNCHANGED <<sequence, stepIdx, size, timer, todo, zone>>
      /\ pc' = pc \/ (pc = "sleep" /\ pc' = "event")
      /\ inbox' = inbox \/ pc \notin Processing
  BY DEF XferData, XferDone, Software, Wake, owi, ipc, SInv, IInv, Types
<1>2. CASE pc = "start"
  <2>1. pc' = pc /\ inbox' = inbox
    BY <1>1, <1>2 DEF Processing, Starting
  <2> QED
    BY <1>1, <1>2, <2>1 DEF SInv, Statics, Begun
<1>3. CASE pc = "halt"
  BY <1>1, <1>3 DEF SInv, Statics, Halting
<1>4. CASE pc \notin {"start", "halt"}
  BY <1>1, <1>4, QuietKeepsStatics
<1> QED
  BY <1>2, <1>3, <1>4

\* owi_sequence_start; a tick may take the first step before its end
LEMMA StartKeepsStatics ==
  ASSUME SInv, SeqStart
  PROVE  Statics'
<1> DEFINE s == SeqOf(inbox[zone])
<1>1. PICK f \in todo : Store(f, s)
  BY DEF SeqStart
<1>2. /\ s \in SeqName /\ s # "null"
      /\ Len(Steps[s]) \in {4, 5, 14}
  <2>1. s \in SeqName
    BY SeqOfKind DEF SInv, Message, SeqStart
  <2> QED
    BY <2>1, Tables DEF SeqName
<1>3. /\ pc = "start" /\ UNCHANGED <<timer, inbox, zone>>
      /\ pc' = IF todo' = {} THEN "seqTimer" ELSE "start"
      /\ todo' = todo \ {f} /\ f \in Field
      /\ Statics /\ Begun
  BY <1>1 DEF SeqStart, Store, ipc, SInv, Statics, Others
<1>4. /\ sequence' = IF f = "sequence" THEN s ELSE sequence
      /\ stepIdx' = IF f = "stepIdx" THEN 0 ELSE stepIdx
      /\ size' = IF f = "size" THEN Len(Steps[s]) ELSE size
  BY <1>1, <1>2 DEF Store
<1> HIDE DEF s
<1>5. Begun'
  <2>1. sequence' = "null" \/ ("sequence" \notin todo' /\ sequence' = s)
    BY <1>3, <1>4 DEF Begun, s
  <2>2. "size" \in todo' \/ size' = Len(Steps[s])
    BY <1>3, <1>4 DEF Begun, s
  <2>3. /\ stepIdx' \in {0, 1}
        /\ stepIdx' = 1 => sequence' # "null" /\ timer["seq"] \notin {"armed", "due"}
    BY <1>2, <1>3, <1>4 DEF Begun
  <2> QED
    BY <1>3, <2>1, <2>2, <2>3 DEF Begun, s
<1>6. todo' = {} => Fit'
  <2> SUFFICES ASSUME todo' = {} PROVE Fit'
    OBVIOUS
  <2>1. size' = Len(Steps[s]) /\ (sequence' = "null" \/ sequence' = s)
    BY <1>3, <1>5 DEF Begun, s
  <2>2. stepIdx' \in {0, 1} /\ (stepIdx' = 1 => sequence' # "null")
    BY <1>5 DEF Begun
  <2>3. stepIdx' < Len(Steps[s])
    <3>1. ASSUME NEW n \in {4, 5, 14}, NEW i \in {0, 1} PROVE i < n
      BY <3>1
    <3> QED
      BY <1>2, <2>2, <3>1, Zenon
  <2> QED
    BY <1>2, <2>1, <2>2, <2>3 DEF Fit
<1>7. /\ sequence' \in SeqName \cup {"null"}
      /\ stepIdx' \in 0..13 /\ size' \in {0, 4, 5, 14}
  BY <1>2, <1>3, <1>4 DEF Statics
<1> QED
  BY <1>3, <1>5, <1>6, <1>7 DEF Statics

\* owi_sequence_stop
LEMMA HaltKeepsStatics ==
  ASSUME SInv, Halt
  PROVE  Statics'
<1>1. PICK f \in todo : Store(f, "null")
  BY DEF Halt
<1>2. /\ pc = "halt" /\ pc' = IF todo' = {} THEN "clear" ELSE "halt"
      /\ todo' = todo \ {f} /\ f \in Field
      /\ Statics /\ Halting
  BY <1>1 DEF Halt, Store, SInv, Statics, Others
<1>3. /\ sequence' = IF f = "sequence" THEN "null" ELSE sequence
      /\ stepIdx' = IF f = "stepIdx" THEN 0 ELSE stepIdx
      /\ size' = IF f = "size" THEN 0 ELSE size
  BY <1>1 DEF Store
<1>4. Halting'
  BY <1>2, <1>3 DEF Halting
<1>5. todo' = {} => Fit'
  BY <1>4 DEF Halting, Fit
<1>6. /\ sequence' \in SeqName \cup {"null"}
      /\ stepIdx' \in 0..13 /\ size' \in {0, 4, 5, 14}
  BY <1>2, <1>3 DEF Statics
<1> QED
  BY <1>2, <1>4, <1>5, <1>6 DEF Statics

\* The steps of the USB event
LEMMA UsbEventKeepsStatics ==
  ASSUME SInv, UsbEvent
  PROVE  Statics'
<1> USE DEF Step, owi
<1>1. CASE TellDisconnected
  BY <1>1 DEF TellDisconnected, SInv, Statics, Halting, Field
<1>2. CASE Halt
  BY <1>2, HaltKeepsStatics
<1>3. CASE IfEvent \/ Switch \/ TellConnected \/ ClearEvent
  BY <1>3, QuietKeepsStatics DEF IfEvent, Switch, TellConnected, ClearEvent
<1>4. CASE GripOpen
  <2>1. /\ pc \notin {"start", "halt"} /\ pc' \notin {"start", "halt"}
        /\ UNCHANGED <<sequence, stepIdx, size>>
    BY <1>4 DEF GripOpen, Data, Pipe, Start, TimerSet
  <2> QED
    BY <2>1, QuietKeepsStatics
<1> QED
  BY <1>1, <1>2, <1>3, <1>4 DEF UsbEvent

\* The steps of the inbox
LEMMA InboxKeepsStatics ==
  ASSUME SInv, Inbox
  PROVE  Statics'
<1> USE DEF Step, owi
<1>1. CASE SeqStart
  BY <1>1, StartKeepsStatics
<1>2. CASE Command
  <2>1. /\ pc = "command" /\ pc' \in {"erase", "key", "start"}
        /\ UNCHANGED <<sequence, stepIdx, size, timer, inbox, zone>>
        /\ pc' = "start" => sequence = "null" /\ todo' = Field
    BY <1>2 DEF Command, NotRunning, ipc
  <2>2. CASE pc' = "start"
    BY <2>1, <2>2 DEF SInv, Statics, Fit, Begun, Field
  <2>3. CASE pc' # "start"
    BY <2>1, <2>3, QuietKeepsStatics
  <2> QED
    BY <2>2, <2>3
<1>3. CASE Mask \/ Look \/ Accept \/ StopReq \/ Erase \/ Unmask
  <2>1. /\ pc \notin {"start", "halt"} /\ pc' \notin {"start", "halt"}
        /\ UNCHANGED <<sequence, stepIdx, size>>
    BY <1>3 DEF Mask, Look, Accept, StopReq, Erase, Unmask
  <2> QED
    BY <2>1, QuietKeepsStatics
<1>4. CASE SeqTimer \/ ManualMove
  <2>1. /\ pc \notin {"start", "halt"} /\ pc' \notin {"start", "halt"}
        /\ UNCHANGED <<sequence, stepIdx, size>>
    BY <1>4 DEF SeqTimer, ManualMove, SetMan, TestMan, Data, Pipe, Start, TimerSet
  <2> QED
    BY <2>1, QuietKeepsStatics
<1> QED
  BY <1>1, <1>2, <1>3, <1>4 DEF Inbox

LEMMA KeepsStatics ==
  ASSUME SInv, Next
  PROVE  Statics'
<1>1. CASE SysTick
  BY <1>1, TickKeepsStatics DEF SysTick
<1>2. CASE Wfi
  BY <1>2, QuietKeepsStatics DEF Wfi, Step, owi
<1> QED
  BY <1>1, <1>2, IrqKeepsStatics, UsbEventKeepsStatics, InboxKeepsStatics DEF Next, Loop

\* Others is kept by a step that gives each variable one of these values.
LEMMA SameOthers ==
  ASSUME Others,
         conn' = conn, event' = event \/ event' = FALSE,
         stop' = stop \/ stop' = TRUE \/ stop' = FALSE,
         msie' = msie \/ msie' = TRUE \/ msie' = FALSE,
         cep' \in {cep, "idle", "setup", "status", "stack"},
         buf' \in {buf, "stop", "move"},
         todo' \subseteq todo \/ todo' = Field
  PROVE  Others'
<1>1. conn' \in BOOLEAN /\ event' \in BOOLEAN /\ stop' \in BOOLEAN /\ msie' \in BOOLEAN
  BY Zenon DEF Others
<1>2. /\ cep' \in {"idle", "setup", "status", "stack"}
      /\ buf' \in {"stop", "move"}
      /\ todo' \subseteq Field
  BY DEF Others
<1> QED
  BY <1>1, <1>2, Zenon DEF Others

LEMMA KeepsOthers ==
  ASSUME SInv, Next
  PROVE  Others'
<1>0. Others
  BY DEF SInv
<1>1. CASE SysTick
  <2>1. PICK e \in Host, late \in SUBSET Timer, starts \in BOOLEAN : Tick(e, late, starts)
    BY <1>1 DEF SysTick
  <2> DEFINE due == late \cup {t \in Timer : timer[t] = "due"}
  <2>2. conn' \in BOOLEAN /\ event' \in BOOLEAN /\ stop' \in BOOLEAN
    <3>1. conn' \in BOOLEAN /\ event' \in BOOLEAN
      BY <1>0, <2>1, Zenon DEF Tick, UsbHostTask, Others
    <3>2. stop' \in BOOLEAN
      BY <1>0, <2>1, TickAndSequence, Zenon DEF RobotSeqTask, owi, Others
    <3> QED
      BY <3>1, <3>2
  <2>3. /\ msie' = msie /\ todo' = todo
        /\ buf' = IF Written(due) = "none" THEN buf ELSE Written(due)
        /\ cep' \in {cep, "setup", "stack"}
    BY <2>1 DEF Tick, UsbWrite, Wake, ipc
  <2>4. Written(due) \in {"none", "stop", "move"}
    <3>1. conn' => pc # "halt"
      BY <2>1, Zenon DEF Tick, UsbHostTask, SInv, Settling, Host
    <3>2. due \in SUBSET Timer /\ \A t \in due : timer[t] \in {"armed", "due"}
      BY <2>1 DEF Tick
    <3> HIDE DEF due
    <3> QED
      BY <3>1, <3>2, WrittenInTable
  <2> QED
    BY <1>0, <2>2, <2>3, <2>4, Zenon DEF Others
<1>2. CASE XferData \/ XferDone \/ Software
  <2>1. /\ UNCHANGED <<conn, event, stop, msie, buf, todo>>
        /\ cep' \in {cep, "status", "idle"}
    BY <1>2 DEF XferData, XferDone, Software, Wake, usb, xfer, owi, ipc
  <2> QED
    BY <1>0, <2>1, SameOthers
<1>3. CASE UsbEvent
  <2>1. CASE Halt
    <3>1. PICK f \in todo : Store(f, "null")
      BY <2>1 DEF Halt
    <3>2. stop' = TRUE \/ stop' = stop
      BY <3>1 DEF Store
    <3>3. /\ UNCHANGED <<conn, event, msie, buf, cep>>
          /\ todo' \subseteq todo
      BY <2>1, <3>1 DEF Halt, Store, usb, xfer, ipc
    <3> QED
      BY <1>0, <3>2, <3>3, SameOthers
  <2>2. CASE UsbEvent /\ ~Halt
    <3>1. /\ UNCHANGED <<conn, stop, msie>>
          /\ event' = event \/ event' = FALSE
          /\ cep' \in {cep, "setup"} /\ buf' \in {buf, "move"}
          /\ todo' \subseteq todo \/ todo' = Field
      BY <2>2 DEF UsbEvent, IfEvent, Switch, TellConnected, TellDisconnected, ClearEvent,
                  GripOpen, Data, Pipe, Start, TimerSet, Stay, usb, xfer, owi, ipc
    <3> QED
      BY <1>0, <3>1, SameOthers
  <2> QED
    BY <1>3, <2>1, <2>2
<1>4. CASE Inbox
  <2>1. CASE SeqStart
    <3>1. PICK f \in todo : Store(f, SeqOf(inbox[zone]))
      BY <2>1 DEF SeqStart
    <3>2. stop' = TRUE \/ stop' = FALSE \/ stop' = stop
      BY <3>1, Zenon DEF Store
    <3>3. /\ UNCHANGED <<conn, event, msie, buf, cep>>
          /\ todo' \subseteq todo
      BY <2>1, <3>1 DEF SeqStart, Store, usb, xfer, ipc
    <3> QED
      BY <1>0, <3>2, <3>3, SameOthers
  <2>2. CASE Mask \/ Unmask
    <3>1. /\ UNCHANGED <<conn, event, stop, buf, cep, todo>>
          /\ msie' = TRUE \/ msie' = FALSE
      BY <2>2 DEF Mask, Unmask, Stay, usb, xfer, owi
    <3> QED
      BY <1>0, <3>1, SameOthers
  <2>3. CASE StopReq
    <3>1. /\ UNCHANGED <<conn, event, msie, buf, cep, todo>>
          /\ stop' = TRUE
      BY <2>3 DEF StopReq, Stay, usb, xfer, ipc
    <3> QED
      BY <1>0, <3>1, SameOthers
  <2>4. CASE Look \/ Accept \/ Command \/ SeqTimer \/ ManualMove \/ Erase
    <3>1. /\ UNCHANGED <<conn, event, stop, msie>>
          /\ cep' \in {cep, "setup"} /\ buf' \in {buf, man}
          /\ todo' \subseteq todo \/ todo' = Field
      BY <2>4 DEF Look, Accept, Command, SeqTimer, ManualMove, Erase, SetMan, TestMan,
                  Data, Pipe, Start, TimerSet, Stay, usb, xfer, owi, ipc
    <3> QED
      BY <1>0, <3>1, SameOthers DEF SInv, IInv, Types
  <2> QED
    BY <1>4, <2>1, <2>2, <2>3, <2>4 DEF Inbox
<1>5. CASE Wfi
  <2>1. UNCHANGED <<conn, event, stop, msie, buf, cep, todo>>
    BY <1>5 DEF Wfi, Stay, xfer, owi, ipc
  <2> QED
    BY <1>0, <2>1, SameOthers
<1> QED
  BY <1>1, <1>2, <1>3, <1>4, <1>5 DEF Next, Loop

LEMMA KeepsStack ==
  ASSUME SInv, Next
  PROVE  Stack'
<1>0. Stack
  BY DEF SInv
<1> USE DEF Stack
<1>1. CASE SysTick
  <2>1. PICK e \in Host, late \in SUBSET Timer, starts \in BOOLEAN : Tick(e, late, starts)
    BY <1>1 DEF SysTick
  <2>2. gen' \in {gen, "off", "descr", "request"}
    BY <2>1 DEF Tick, UsbHostTask
  <2> QED
    BY <1>0, <2>2
<1>2. CASE XferData
  BY <1>0, <1>2 DEF XferData, usb
<1>3. CASE XferDone \/ Software
  BY <1>0, <1>3 DEF XferDone, Software, usb, xfer
<1>4. CASE UsbEvent /\ ~GripOpen
  BY <1>0, <1>4 DEF UsbEvent, IfEvent, Switch, TellConnected, TellDisconnected, Halt, ClearEvent,
                    usb, xfer
<1>5. CASE GripOpen \/ ManualMove \/ SeqTimer
  BY <1>0, <1>5 DEF GripOpen, ManualMove, SetMan, TestMan, Data, Pipe, Start, SeqTimer, TimerSet,
                    usb, xfer
<1>6. CASE Mask \/ Look \/ Accept \/ StopReq \/ Command \/ SeqStart \/ Erase \/ Unmask \/ Wfi
  BY <1>0, <1>6 DEF Mask, Look, Accept, StopReq, Command, SeqStart, Erase, Unmask, Wfi, usb, xfer
<1> QED
  BY <1>1, <1>2, <1>3, <1>4, <1>5, <1>6 DEF Next, Loop, Inbox, UsbEvent

LEMMA NextKeepsSInv == SInv /\ [Next]_vars => SInv'
<1> SUFFICES ASSUME SInv, [Next]_vars PROVE SInv'
  OBVIOUS
<1>1. CASE Next
  BY <1>1, NextKeepsIInv, KeepsSettling, KeepsMessage, KeepsStatics, KeepsOthers, KeepsStack,
     Zenon DEF SInv
<1>2. CASE UNCHANGED vars
  <2> USE <1>2 DEF vars
  <2>1. Settling'
    BY DEF SInv, Settling, usb, main
  <2>2. Message'
    BY DEF SInv, Message, ipc, main
  <2>3. Statics'
    BY DEF SInv, Statics, Fit, Halting, Begun, owi, ipc, main
  <2>4. Others'
    BY SameOthers DEF SInv, usb, xfer, owi, ipc, main
  <2>5. Stack'
    BY DEF SInv, Stack, usb, xfer
  <2> QED
    BY <2>1, <2>2, <2>3, <2>4, <2>5, NextKeepsIInv, Zenon DEF SInv
<1> QED
  BY <1>1, <1>2

LEMMA AlwaysSInv == Spec => []SInv
  BY InitSInv, NextKeepsSInv, PTL DEF Spec

(* Every variable of the robot firmware keeps its type; in particular the  *)
(* statics of owi_sequence.c stay those of a sequence while it runs.       *)
THEOREM TypeCorrect == Spec => []TypeOK
<1>1. SInv => TypeOK
  BY DEF SInv, IInv, Types, Settling, Statics, Others, Stack, TypeOK
<1> QED
  BY <1>1, AlwaysSInv, PTL

(* owi_sequence_next never leaves the table of its sequence.               *)
THEOREM StaysInTable == Spec => []StepInBounds
<1>1. SInv => StepInBounds
  <2> SUFFICES ASSUME SInv, timer["seq"] \in {"armed", "due"}, conn, ~SeqOver
               PROVE  NextIdx < Len(Steps[sequence])
    BY DEF StepInBounds
  <2>1. sequence # "null" /\ pc # "halt"
    BY DEF SeqOver, SInv, Settling
  <2>2. sequence \in SeqName /\ NextIdx \in 0..(Len(Steps[sequence]) - 1)
    BY <2>1, NextInTable
  <2>3. ASSUME NEW n \in {4, 5, 14}, NEW i \in 0..(n - 1) PROVE i < n
    BY <2>3
  <2> QED
    BY <2>2, <2>3, Tables, Zenon
<1> QED
  BY <1>1, AlwaysSInv, PTL
=============================================================================
