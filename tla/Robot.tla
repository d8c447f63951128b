------------------------------- MODULE Robot -------------------------------
(***************************************************************************)
(* The robot firmware of hart 4 (zone 8): apps/hart4/main.c and            *)
(* owi_sequence.c.  The main loop, whose statements are steps, is          *)
(* interrupted between any two of them by the interrupt handlers, each an  *)
(* atomic step: the 1 ms tick, which runs the timer tasks and, through the *)
(* USB host task, the connection callbacks; the end of a USB transfer; and *)
(* the software interrupt, which puts a message into the inbox.            *)
(*                                                                         *)
(* The mailbox and its doorbell are MailboxSlot and HartIpc; here a        *)
(* message appears in the inbox whenever the software interrupt is         *)
(* enabled.  The USB host driver is external, and so is the arm (Arm).     *)
(***************************************************************************)
EXTENDS Naturals, Sequences

CONSTANTS LastZone,  \* messages come from zones 1..LastZone (zone1..zone4)
          Text       \* the messages that zones send

ASSUME RobotAssumption ==
  /\ LastZone \in Nat \ {0}
  /\ Text \subseteq {"ping", "stop", "start", "fold", "unfold", "key", "other"}

VARIABLES
  conn, event,     \* usb_state = CONNECTED; usb_event
  settle,          \* passes of the main loop before a new device can appear
  gen,             \* the class driver: has transfers of its own to start
  cep, buf,        \* control pipe; usb_data_buf
  man,             \* man_cmd: "stop" or "move"
  sequence, stepIdx, size, stop, \* the statics of owi_sequence.c
  timer,           \* timecmp of ROBOT_SEQ_TASK and ROBOT_CMD_TASK
  msie, inbox,     \* mie.MSIP; the last message of each zone
  pc, zone, todo   \* main: next step, zone, stores of owi_sequence left to do

usb  == <<conn, event, settle, gen>>
xfer == <<cep, buf>>
owi  == <<sequence, stepIdx, size, stop>>
ipc  == <<msie, inbox>>
main == <<pc, zone, todo>>
vars == <<usb, xfer, man, owi, timer, ipc, main>>

Zone == 1..LastZone
SeqName == {"main", "fold", "unfold"}
Field == {"sequence", "stepIdx", "size", "stop"}

Timer == {"seq", "cmd"}  \* ROBOT_SEQ_TASK, ROBOT_CMD_TASK

\* UINT64_MAX; set in this pass of the main loop; in the one before; earlier,
\* so that its time may have come; set to the current time or to 0.  The
\* shortest interval is 90 ms: longer than a transfer, and than the passes of
\* the main loop that the ticks in it start.
TimeCmp == {"never", "set", "wait", "armed", "due"}

\* The tables of owi_sequence.c: does a step move a motor?
Steps == [main   |-> <<"stop", "move", "move", "move", "move", "move", "stop",
                       "move", "move", "move", "move", "move", "move", "move">>,
          fold   |-> <<"stop", "move", "move", "move", "move">>,
          unfold |-> <<"stop", "move", "move", "move">>]

\* Step 0 of the FOLD and UNFOLD sequences lasts 0 ms.
Instant(s, i) == s # "main" /\ i = 0

Init == /\ conn = FALSE /\ event = FALSE /\ settle = 0 /\ gen = "off"
        /\ cep = "idle" /\ buf = "stop" /\ man = "stop"
        /\ sequence = "null" /\ stepIdx = 0 /\ size = 0 /\ stop = TRUE
        /\ timer = [t \in Timer |-> "never"]
        /\ msie = TRUE /\ inbox = [z \in Zone |-> "none"]
        /\ pc = "event" /\ zone = 1 /\ todo = {}
-----------------------------------------------------------------------------
(* Interrupt handlers.  Any of them ends a wfi.                            *)

Wake == /\ pc' = IF pc = "sleep" THEN "event" ELSE pc
        /\ UNCHANGED <<zone, todo>>

\* The callbacks of the USB host task: USB_DEV_class_driver_assigned and
\* USB_DEV_dettached.  The host driver (external) waits for a new device to
\* settle, resets and addresses it first, which takes longer than two passes
\* of the main loop.
Host == {"none", "assigned", "detached"}

\* The transfers that the task starts on the control pipe: the host driver's
\* before usb_state says connected, and then the class driver's (UsbGen), whose
\* first waits for the pipe and whose others replace what is on it.
MayTransfer == ~conn \/ (gen = "descr" /\ cep = "idle") \/ gen = "request"

UsbHostTask(e, starts) ==
  /\ e = "assigned" => ~conn /\ settle = 0
  /\ e = "detached" => conn
  /\ starts => e = "none" /\ MayTransfer
  /\ conn' = (e = "assigned" \/ (conn /\ e = "none"))
  /\ event' = (event \/ e # "none")
  /\ settle' = IF e = "detached" THEN 2 ELSE settle
  /\ gen' = CASE e = "assigned" -> "descr"
                [] e = "detached" -> "off"
                [] e = "none" /\ conn /\ starts -> "request"
                [] OTHER -> gen

\* RISC-V rem: the dividend when the divisor is zero
Rem(a, b) == IF b = 0 THEN a ELSE a % b

\* mutants: the stop request is not looked at; one step too many
SeqOverIgnoresStop == sequence = "null"
NextIdxOffByOne == Rem(stepIdx + 1, size + 1)

\* robot_seq_task and owi_sequence_next
SeqOver == sequence = "null" \/ (stop /\ stepIdx = 0)
NextIdx == Rem(stepIdx + 1, size)

RobotSeqTask ==
  \/ ~conn' /\ UNCHANGED owi
  \/ /\ conn' /\ SeqOver
     /\ sequence' = "null"
     /\ UNCHANGED <<stepIdx, size, stop>>
  \/ /\ conn' /\ ~SeqOver
     /\ stepIdx' = NextIdx
     /\ stop' = (stop \/ Instant(sequence, NextIdx))
     /\ UNCHANGED <<sequence, size>>

\* mutant: the timer of a sequence that is over is set again
NextTimeAgain(t) ==
  CASE t = "cmd" -> "never"
    [] t = "seq" /\ ~conn' -> "never"
    [] t = "seq" /\ conn' /\ ~SeqOver /\ Instant(sequence, NextIdx) -> "due"
    [] OTHER -> "set"

\* The time at which a task that has run is due again: the sequence's after
\* the duration of the step, if there is one.
NextTime(t) ==
  CASE t = "cmd" \/ ~conn' \/ SeqOver -> "never"
    [] t = "seq" /\ conn' /\ ~SeqOver ->
         IF Instant(sequence, NextIdx) THEN "due" ELSE "set"

\* mutant: robot_cmd_task does not write
WrittenNoStop(due) ==
  IF "seq" \in due /\ conn' /\ ~SeqOver THEN Steps[sequence][NextIdx + 1]
  ELSE "none"

\* What the tasks of a tick write, robot_cmd_task after robot_seq_task
Written(due) ==
  IF "cmd" \in due THEN "stop"
  ELSE IF "seq" \in due /\ conn' /\ ~SeqOver THEN Steps[sequence][NextIdx + 1]
  ELSE "none"

\* usb_write by a timer task, after the USB host task of the same tick: a
\* transfer starts if the pipe is free; if it is not, the command is dropped,
\* but its data may reach a transfer that has not sent its own yet.
UsbWrite(cmd, starts) ==
  LET pipe == IF starts THEN "stack" ELSE cep
  IN /\ buf' = IF cmd = "none" THEN buf ELSE cmd
     /\ cep' = IF cmd # "none" /\ pipe = "idle" THEN "setup" ELSE pipe

\* SysTick_Handler: the tasks that are due, some of the armed ones (late)
\* among them.  The tasks of a tick write before any transfer moves on: a
\* write that follows another in the same tick replaces its data.
Tick(e, late, starts) ==
  LET due == late \cup {t \in Timer : timer[t] = "due"}
  IN /\ Wake
     /\ \A t \in late : timer[t] = "armed"
     /\ UsbHostTask(e, starts)
     /\ timer' = [t \in Timer |-> IF t \in due THEN NextTime(t) ELSE timer[t]]
     /\ IF "seq" \in due THEN RobotSeqTask ELSE UNCHANGED owi
     /\ man' = IF "cmd" \in due THEN "stop" ELSE man
     /\ UsbWrite(Written(due), starts)
     /\ UNCHANGED ipc

\* A control transfer of usb_write: the data stage, which the arm obeys or
\* which fails, then the end, as of a transfer of the stack's own.
XferData == /\ cep = "setup"
            /\ cep' = "status"
            /\ Wake
            /\ UNCHANGED <<usb, buf, man, owi, timer, ipc>>

XferDone == /\ cep \in {"status", "stack"}
            /\ cep' = "idle"
            /\ Wake
            /\ UNCHANGED <<usb, buf, man, owi, timer, ipc>>

\* Software_h4_IRQHandler: a message from each of some zones
Receive(zs, msg) == inbox' = [z \in Zone |-> IF z \in zs THEN msg[z] ELSE inbox[z]]

Software == /\ msie
            /\ \E zs \in SUBSET Zone : \E msg \in [zs -> Text] : Receive(zs, msg)
            /\ Wake
            /\ UNCHANGED <<usb, xfer, man, owi, timer, msie>>
-----------------------------------------------------------------------------
(* The main loop: the USB event.                                           *)

Step(l, m) == pc = l /\ pc' = m
Stay == UNCHANGED <<zone, todo>>

IfEvent == /\ Step("event", IF event THEN "switch" ELSE "mask")
           /\ Stay
           /\ UNCHANGED <<usb, xfer, man, owi, timer, ipc>>

Switch == /\ Step("switch", IF conn THEN "connected" ELSE "disconnected")
          /\ Stay
          /\ UNCHANGED <<usb, xfer, man, owi, timer, ipc>>

\* MZONE_SEND "USB CONNECT" to zones 1 and 2; the zones are not modelled.
TellConnected == /\ Step("connected", "gripBuf")
                 /\ Stay
                 /\ UNCHANGED <<usb, xfer, man, owi, timer, ipc>>

TellDisconnected ==
  /\ Step("disconnected", "halt")
  /\ todo' = Field
  /\ UNCHANGED <<usb, xfer, man, owi, timer, ipc, zone>>

\* usb_write in the main thread: data, test of the pipe, start
Data(l, m, cmd) == /\ Step(l, m)
                   /\ buf' = cmd
                   /\ Stay
                   /\ UNCHANGED <<usb, cep, man, owi, timer, ipc>>
Pipe(l, m, n) == /\ Step(l, IF cep = "idle" THEN m ELSE n)
                 /\ Stay
                 /\ UNCHANGED <<usb, xfer, man, owi, timer, ipc>>
Start(l, m) == /\ Step(l, m)
               /\ cep' = "setup"
               /\ Stay
               /\ UNCHANGED <<usb, buf, man, owi, timer, ipc>>
TimerSet(l, m, t, v) == /\ Step(l, m)
                        /\ timer' = [timer EXCEPT ![t] = v]
                        /\ Stay
                        /\ UNCHANGED <<usb, xfer, man, owi, ipc>>

GripOpen == \/ Data("gripBuf", "gripPipe", "move")
            \/ Pipe("gripPipe", "gripStart", "gripTimer")
            \/ Start("gripStart", "gripTimer")
            \/ TimerSet("gripTimer", "clear", "cmd", "set")

\* A function of owi_sequence.c stores its statics; the compiler may choose
\* the order, since none of them is volatile.
Store(f, s) ==
  /\ f \in todo
  /\ todo' = todo \ {f}
  /\ sequence' = IF f = "sequence" THEN s ELSE sequence
  /\ stepIdx' = IF f = "stepIdx" THEN 0 ELSE stepIdx
  /\ size' = IF f = "size" THEN (IF s = "null" THEN 0 ELSE Len(Steps[s])) ELSE size
  /\ stop' = IF f = "stop" THEN s = "null" ELSE stop

\* owi_sequence_stop
Halt == /\ pc = "halt"
        /\ \E f \in todo : Store(f, "null")
        /\ pc' = IF todo' = {} THEN "clear" ELSE "halt"
        /\ UNCHANGED <<usb, xfer, man, timer, ipc, zone>>

ClearEvent == /\ Step("clear", "mask")
              /\ event' = FALSE
              /\ Stay
              /\ UNCHANGED <<conn, settle, gen, xfer, man, owi, timer, ipc>>
-----------------------------------------------------------------------------
(* The main loop: the inbox, one zone after the other.                     *)

\* mutant: the software interrupt stays enabled
MaskNot == /\ Step("mask", "look")
           /\ Stay
           /\ UNCHANGED <<usb, xfer, man, owi, timer, ipc>>

Mask == /\ Step("mask", "look")
        /\ msie' = FALSE
        /\ Stay
        /\ UNCHANGED <<usb, xfer, man, owi, timer, inbox>>

\* An empty entry, and a ping, which is answered, need no more steps.
Look == /\ Step("look", CASE inbox[zone] = "none" -> "unmask"
                          [] inbox[zone] = "ping" -> "erase"
                          [] OTHER -> "accept")
        /\ Stay
        /\ UNCHANGED <<usb, xfer, man, owi, timer, ipc>>

Accept == /\ Step("accept", IF conn /\ man = "stop" THEN "command" ELSE "erase")
          /\ Stay
          /\ UNCHANGED <<usb, xfer, man, owi, timer, ipc>>

\* owi_sequence_stop_req
StopReq == /\ Step("command", "erase")
           /\ inbox[zone] = "stop"
           /\ stop' = TRUE
           /\ Stay
           /\ UNCHANGED <<usb, xfer, man, sequence, stepIdx, size, timer, ipc>>

\* !owi_sequence_is_running()
NotRunning == sequence = "null"

\* mutant: keys are accepted while a sequence runs
CommandAny == /\ inbox[zone] # "stop"
              /\ Step("command",
                   CASE inbox[zone] = "key" -> "key"
                     [] ~NotRunning \/ inbox[zone] = "other" -> "erase"
                     [] OTHER -> "start")
              /\ todo' = IF pc' = "start" THEN Field ELSE {}
              /\ UNCHANGED <<usb, xfer, man, owi, timer, ipc, zone>>

Command == /\ inbox[zone] # "stop"
           /\ Step("command",
                CASE ~NotRunning -> "erase"
                  [] NotRunning /\ inbox[zone] = "key" -> "key"
                  [] NotRunning /\ inbox[zone] = "other" -> "erase"
                  [] OTHER -> "start")
           /\ todo' = IF pc' = "start" THEN Field ELSE {}
           /\ UNCHANGED <<usb, xfer, man, owi, timer, ipc, zone>>

\* owi_sequence_start
SeqOf(m) == IF m = "start" THEN "main" ELSE m

\* mutant: no timer_set
SeqStartUntimed == /\ pc = "start"
                   /\ \E f \in todo : Store(f, SeqOf(inbox[zone]))
                   /\ pc' = IF todo' = {} THEN "erase" ELSE "start"
                   /\ UNCHANGED <<usb, xfer, man, timer, ipc, zone>>

SeqStart == /\ pc = "start"
            /\ \E f \in todo : Store(f, SeqOf(inbox[zone]))
            /\ pc' = IF todo' = {} THEN "seqTimer" ELSE "start"
            /\ UNCHANGED <<usb, xfer, man, timer, ipc, zone>>

SeqTimer == TimerSet("seqTimer", "erase", "seq", "due")

\* man_cmd = 0x000001, ...
SetMan == /\ Step("key", "keyTest")
          /\ man' = "move"
          /\ Stay
          /\ UNCHANGED <<usb, xfer, owi, timer, ipc>>

\* if (man_cmd != CMD_STOP)
TestMan == /\ Step("keyTest", IF man = "stop" THEN "erase" ELSE "keyBuf")
           /\ Stay
           /\ UNCHANGED <<usb, xfer, man, owi, timer, ipc>>

\* mutant: no timer_set for a command that usb_write drops
ManualMoveUntimed == \/ SetMan
                     \/ TestMan
                     \/ Data("keyBuf", "keyPipe", man)
                     \/ Pipe("keyPipe", "keyStart", "erase")
                     \/ Start("keyStart", "keyTimer")
                     \/ TimerSet("keyTimer", "erase", "cmd", "set")

ManualMove == \/ SetMan
              \/ TestMan
              \/ Data("keyBuf", "keyPipe", man)
              \/ Pipe("keyPipe", "keyStart", "keyTimer")
              \/ Start("keyStart", "keyTimer")
              \/ TimerSet("keyTimer", "erase", "cmd", "set")

Erase == /\ Step("erase", "unmask")
         /\ inbox' = [inbox EXCEPT ![zone] = "none"]
         /\ Stay
         /\ UNCHANGED <<usb, xfer, man, owi, timer, msie>>

\* mutant: one zone too many
UnmaskPastLast == /\ Step("unmask", IF zone > LastZone THEN "wfi" ELSE "mask")
                  /\ msie' = TRUE
                  /\ zone' = IF zone > LastZone THEN 1 ELSE zone + 1
                  /\ UNCHANGED <<usb, xfer, man, owi, timer, inbox, todo>>

Unmask == /\ Step("unmask", IF zone = LastZone THEN "wfi" ELSE "mask")
          /\ msie' = TRUE
          /\ zone' = IF zone = LastZone THEN 1 ELSE zone + 1
          /\ UNCHANGED <<usb, xfer, man, owi, timer, inbox, todo>>

\* wfi.  The end of a pass.  By the time a timer is armed, the transfer that
\* was started before it is over, or has lost the pipe to the stack.
Wfi == /\ Step("wfi", "sleep")
       /\ timer' = [t \in Timer |->
                      CASE timer[t] = "set" -> "wait"
                        [] timer[t] = "wait" /\ cep \in {"idle", "stack"} -> "armed"
                        [] OTHER -> timer[t]]
       /\ settle' = IF settle = 0 THEN 0 ELSE settle - 1
       /\ Stay
       /\ UNCHANGED <<conn, event, gen, xfer, man, owi, ipc>>

SysTick == \E e \in Host, late \in SUBSET Timer, starts \in BOOLEAN : Tick(e, late, starts)

UsbEvent == \/ IfEvent \/ Switch \/ TellConnected \/ GripOpen
            \/ TellDisconnected \/ Halt \/ ClearEvent

Inbox == \/ Mask \/ Look \/ Accept \/ StopReq \/ Command \/ SeqStart
         \/ SeqTimer \/ ManualMove \/ Erase \/ Unmask

Loop == UsbEvent \/ Inbox \/ Wfi

Next == SysTick \/ XferData \/ XferDone \/ Software \/ Loop

Spec == Init /\ [][Next]_vars

\* The hart runs its main loop, the 1 ms tick comes, transfers end and time
\* passes.  Nobody has to plug, unplug or send anything.
Fairness == /\ WF_vars(Loop)
            /\ WF_vars(SysTick)
            /\ WF_vars(XferData \/ XferDone)
            /\ \A t \in Timer :
                 WF_vars(/\ timer[t] = "armed"
                         /\ \E e \in Host, late \in SUBSET Timer, starts \in BOOLEAN :
                              t \in late /\ Tick(e, late, starts))

FairSpec == Spec /\ Fairness
-----------------------------------------------------------------------------
TypeOK ==
  /\ conn \in BOOLEAN /\ event \in BOOLEAN
  /\ settle \in 0..2 /\ gen \in {"off", "descr", "request"}
  /\ cep \in {"idle", "setup", "status", "stack"}
  /\ buf \in {"stop", "move"}
  /\ man \in {"stop", "move"}
  /\ sequence \in SeqName \cup {"null"}
  /\ stepIdx \in 0..13 /\ size \in 0..14 /\ stop \in BOOLEAN
  /\ timer \in [Timer -> TimeCmp]
  /\ msie \in BOOLEAN
  /\ inbox \in [Zone -> Text \cup {"none"}]
  /\ zone \in Zone
  /\ todo \subseteq Field

(* A manual command and a sequence never drive the arm together, although  *)
(* the checks that keep them apart and what they guard are interrupted.    *)
ManualExcludesSequence == ~(man = "move" /\ sequence # "null")

(* main is at a key it has accepted, and has yet to set its timer.         *)
KeyInHand == {"keyTest", "keyBuf", "keyPipe", "keyStart", "keyTimer"}

(* A manual command always has a deadline: the timer that ends it is set,  *)
(* or the main loop is about to set it.                                    *)
ManualHasDeadline == man = "move" => timer["cmd"] # "never" \/ pc \in KeyInHand

(* owi_sequence_next never leaves the table of the sequence, even when the *)
(* tick interrupts the start of one.                                       *)
StepInBounds ==
  timer["seq"] \in {"armed", "due"} /\ conn /\ ~SeqOver
     => NextIdx < Len(Steps[sequence])

(* The entry main erases from the inbox is the message it has processed:   *)
(* no message arrives in it while main is at it.                           *)
Settled == [][(pc \in {"accept", "command", "key", "start", "erase"})
                => (inbox'[zone] = inbox[zone] \/ inbox'[zone] = "none")]_vars

Timed == (sequence # "null" /\ conn) =>
            \/ timer["seq"] # "never"
            \/ event
            \/ pc \in {"start", "seqTimer"}

(* A sequence that runs on a connected arm without a timer to continue it  *)
(* comes about in one way only: main clears a usb_event that was set again *)
(* after it had looked at usb_state.                                       *)
OnlyClearStrands == [][Timed /\ ~Timed' => pc = "clear"]_vars

Orphan == timer["seq"] # "never" /\ sequence = "null"

(* The timer of a sequence outlives it in two ways only: main ends the     *)
(* sequence of an unplugged arm and leaves the timer as it is, and main     *)
(* sets the timer of a start that the tick of such a timer has undone.      *)
OnlyHaltOrphans == [][~Orphan /\ Orphan' => pc \in {"halt", "seqTimer"}]_vars

(* Every manual command ends (or the arm is unplugged: a new connection    *)
(* sets the timer again).                                                  *)
ManualEnds == (man = "move" /\ conn) ~> (man = "stop" \/ ~conn)

(* A sequence whose timer runs ends once a stop is requested, and FOLD and  *)
(* UNFOLD, whose step 0 takes no time, by themselves (or the arm is         *)
(* unplugged).                                                             *)
SequenceEnds == (/\ sequence # "null" /\ conn /\ timer["seq"] # "never"
                 /\ stop \/ sequence # "main")
                  ~> (sequence = "null" \/ ~conn)

(* Once main has set its timer, the STOP that ends a manual command is in   *)
(* a transfer to the arm, unless a transfer of the USB stack has the pipe:  *)
(* it is never dropped because of a transfer of usb_write.  (An older        *)
(* deadline, that of the connection, may end the command before, and drop   *)
(* its STOP; main then sets the timer after all.)                          *)
OnlyStackDropsStop ==
  [][man = "move" /\ man' = "stop"
       => \/ cep' = "setup" /\ buf' = "stop"
          \/ cep' = "stack"
          \/ pc \in KeyInHand \cup {"gripTimer"}]_vars

(* README: "remotely stop the robot sequence".  A stop request ends the    *)
(* sequence of a connected arm.                                            *)
StopIsObeyed == (stop /\ sequence # "null" /\ conn)
                  ~> (sequence = "null" \/ ~conn)
=============================================================================
