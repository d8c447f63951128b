# Verification of the MultiZone IoT firmware for PolarFire SoC

TLA+ models of the firmware in this repository, checked with TLC, and theorems
about them, proved with TLAPS.  Paths are relative to `src/`.

## 1. The system

The firmware runs on the five harts of a PolarFire SoC.

| Part | Source | State it keeps | Operations |
| --- | --- | --- | --- |
| Boot loader, hart 0 (E51) | `apps/hart0/boot/e51.c`, `mss_entry.S`, `diskio.c` | images in memory, MSIP of harts 1-4 | mount, load each image, release the harts, start the kernel |
| MultiZone kernel, hart 0 | `ext/multizone` (binary) | mailboxes, virtual interrupts | schedules zones 1-4, moves messages (external) |
| Zone 1, MQTT client | `apps/hart0/zone1` (binary) | - | relays messages between a broker and the zones (external) |
| Zone 2, UART console | `apps/hart0/zone2/main.c` | UART buffer, command line, history, inbox of four pieces of 16 bytes per zone | interrupt handlers, `readline`, `cmd_handler`, `msg_handler` |
| Zone 3, LEDs and buttons | `apps/hart0/zone3/main.c` | inbox of 1 message per zone, debounce, counters | message loop, timer, button broadcast, restart |
| Zone 4, synchronous messaging | `apps/hart0/zone4/main.c` | - | polled receive loop |
| Harts 1-3 ("zones 5-7"), console | `apps/hart{1,2,3}/main.c`, three copies | inbox of 1 message per zone, command line, history | software interrupt handler, main loop, commands, trap handler |
| Hart 4 ("zone 8"), robot | `apps/hart4/main.c`, `owi_sequence.c` | USB connection and event, manual command, sequence and step, timers, inbox | main loop, 1 ms tick and its tasks, USB callbacks, software interrupt |
| USB class driver, hart 4 | `ext/icicle-kit-es/.../mss_usb_host_gen.c` | enumeration state, event flags | task run by the tick, callbacks |
| Mailbox IPC | `ext/multizone/mss_multizone.h` | per mailbox: a flag and two words | `MZONE_SEND`, `MZONE_RECV` |

Zones and harts share nothing but mailboxes, one per pair of sender and
receiver, each with room for one message of 16 bytes.  SEND and RECV never
block and return whether they did something; SEND to a hart also raises the
software interrupt of the receiver (the doorbell).  On a hart, the handler of
that interrupt moves messages from the mailboxes into an inbox, which the main
loop serves between console input (harts 1-3) or USB events (hart 4).

What is hard about it is the concurrency: lock-free mailboxes between harts, a
doorbell that is shared by all mailboxes of a hart, and on every hart a main
loop that shares plain variables with interrupt handlers and protects them now
and then by masking.  Time matters in the robot, whose commands end by timers.

What makes each part correct:

- *Mailbox*: a message is handed over whole, once, or not accepted; a full
  mailbox is announced.
- *Console and robot inbox*: the latest message of a zone is served, once, and
  no half-processed entry changes underfoot.
- *Robot*: manual commands and sequences exclude each other; every command
  ends; the step index stays in its table; a stop request and an unplugged arm
  are acted on.
- *Zone 2*: no byte or message is lost but by a full buffer; the zone does not
  sleep on pending input; the line editor never leaves its line.
- *Zones 3 and 4*: a message is served however the interrupt bits are set.
- *USB driver*: each completion is matched with the transfer that is waiting.
- *Boot*: a hart starts only after all loading is over, with what the loader has
  left for it; a waiting hart is released.

PROJECT.json lists every part with its status, and the hazards with the lines
where they bite.

## 2. The modules

| Module | Models | Code it stands for |
| --- | --- | --- |
| `Mailbox` | what a mailbox promises: a channel of capacity one | abstract |
| `MailboxSlot` | SEND and RECV, one memory access per step | `ext/multizone/mss_multizone.h` |
| `HartIpc` | message side of harts 1-3 | `apps/hart1/main.c` |
| `Robot` | hart 4 | `apps/hart4/main.c`, `owi_sequence.c` |
| `Arm` | the arm at the other end of the control pipe of `Robot` | external |
| `UsbGen` | USB class driver of hart 4 | `mss_usb_host_gen.c` |
| `RxQueue` | what the UART buffer promises: a queue that drops at its limit | abstract |
| `UartBuffer` | the buffer between `uart_isr` and `readline` | `apps/hart0/zone2/main.c` |
| `Editor` | what the line editor promises: text before and after a cursor, a history | abstract |
| `LineEditor` | `readline`, the trim, history, tokens | `apps/hart1/main.c`, `apps/hart0/zone2/main.c` |
| `Zone2` | handlers, inbox, main loop, sleep and restart of zone 2, over `RxQueue` | `apps/hart0/zone2/main.c` |
| `Zone3`, `Zone4` | the other two programs of hart 0 | `apps/hart0/zone3/main.c`, `zone4/main.c` |
| `Boot` | loader of hart 0 and wait loop of harts 1-4 | `apps/hart0/boot/e51.c`, `mss_entry.S` |
| `Hart0` | zones 3 and 4 and the loader side by side | composition |
| `MailboxSlotProofs`, `HartIpcProofs`, `RobotProofs`, `UsbGenProofs`, `UartBufferProofs`, `LineEditorProofs`, `Zone2Proofs`, `Hart0Proofs` | theorems | |
| `MCMailboxSlot`, `MCRobot`, `MCConsole`, `MCZone2`, `MCHart0` | instances for TLC | |

Definitions whose comment says "mutant" are not part of the specifications.
Each is a wrong version of the definition that follows it, with which the
property named in PROJECT.json fails.  The lines of each definition are in
PROJECT.json.

### Mailbox, MailboxSlot

`flag`, `word0`, `word1` are the three 64-bit words of a mailbox; each
instruction of the two macros that touches memory is an action.  `Word` is any
set: the code never looks into a word.  The receiving hart has two contexts:
the interrupt handler, and on harts 1-3 the main thread executing `recv`, which
the handler may preempt at any instruction (`Runs`).  Stores of a hart reach
memory in program order; the macros contain no fence, so this is an assumption
about the hardware.  The handler is shown with one mailbox: the test of this
mailbox, then the clear of the doorbell.

`ImplementsMailbox` is the refinement: with the box read as "the two words if
the flag is up, else empty", every step is a step of `Mailbox` or a stutter.
`Mailbox` has a `Lose` step, which `Lossy` allows only where the console may run
`recv`: without it the handler gets every message once and whole.  With it the
console may print a message that the handler gets too, or a mixture, or free
the mailbox under a message it has not copied; the handler may miss messages
but never gets a torn or a repeated one.

### HartIpc

A variable for each thing the two contexts share: the mailboxes (`full`,
`mem`), `msip`, the `inbox`, and `irq` (mstatus.MIE).  `isr` is the position of
the handler in its loop.  The main thread moves only while the handler does not
run.  A message is its number and what the code tells apart in it: "ping",
other text, or a first byte NUL, which makes an inbox entry look empty.
`IsrClear` is `clear_soft_interrupt()`, after the scan.  A command that traps
leads to `pc = "key"` with interrupts disabled, until a key restarts `main`;
the restart keeps mailboxes and inbox, as `main` does not reset them.  The
sender's side (`Post`, `Ring`, `Take`) is external.  SEND and the handler's
RECV are single steps here because `MailboxSlot` implements `Mailbox`; the
console's RECV, which the handler may interrupt, is two: it finds the mailbox
full, and frees it.

### Robot

`pc` is the statement the main loop is at.  `Tick` is the whole 1 ms interrupt:
USB host task with its callbacks, `robot_seq_task`, `robot_cmd_task`, in that
order.  `Software` is the message interrupt, and `XferData`/`XferDone` are the
two halves of a USB control transfer that matter: the data is sent or the
transfer fails, later the pipe is free.  They can come between any two steps of
the main loop.  The four statics of `owi_sequence.c` are not volatile, so
`owi_sequence_start` and `owi_sequence_stop` store them in any order (`todo`).

The USB host task may also start transfers of its own on the control pipe
(`starts`, `MayTransfer`): the host driver's before the arm counts as connected,
and then the class driver's, of which the first waits for a free pipe and the
others (SET_CONFIG, the two descriptors, SET_IDLE) replace what is on it, a
transfer of `usb_write` included.  `gen` says only which of the two kinds comes
next; the states of the enumeration are `UsbGen`'s.

`Arm` adds what the arm does (`motor`): it obeys the data of a transfer that does
not fail.  `lost` remembers that the arm moves although the last command written
is STOP, because a transfer of the stack or a failure has cost it that STOP.

Abstractions: a command is "stop" or "move"; a message is one of seven kinds;
the sequence tables keep their lengths, their STOP steps and their 0 ms steps;
the light bit is left out, and so are the messages to zones 1 and 2, whose
result the program ignores.  A timer's compare value is "never", "due" (0 or
now), or one of three ages since it was set.  The ages say what is known of
time: the shortest interval in the program is 90 ms, which is longer than a
transfer and than a pass of the main loop, so a timer cannot fire before the
pass after the next, nor before the transfer that `usb_write` started before it
has ended or lost the pipe.  Likewise the host driver lets a new device settle,
resets and addresses it before it assigns the class driver, which takes longer
than two passes of the main loop (`settle`).

### UsbGen

One action per `case` of `MSS_USBH_GEN_task` (`Enumerate`, `Handle`), and one
per callback of the vendor's host driver, which is external.  The driver waits
for the end of a transfer by looking at one event flag, set by
`usbh_gen_cep_done_cb` for every transfer on the control pipe, those of the
robot's `usb_write` included.  `event` remembers, which the flag does not, whose
end it was; `misled` records that the driver has taken another's end for its
own.  `usb_write` is two steps, because the tick may run the driver between its
test of the pipe and its start.  `ok` is the status with which the host driver
reports success of a control transfer.  The vendor's sources are not in the
repository; if it is 0 the flag is never set by a success, hence both values.
Release keeps the events and the state of the polling, as the code does.

### RxQueue, UartBuffer

`uart_isr` is one step that appends up to `Burst` bytes and drops what does not
fit.  `readline`'s loop is a step per statement: the test, made with interrupts
enabled, the masking, the byte, the comparison of the indices, their reset, and
the unmasking.  `ImplementsQueue` reads the buffer as the bytes between the
indices; the room comes back only when the reader has caught up.  A command or
message that restarts the zone is `Restart`, and `crt0`, which clears the
buffer, is `Start`.  `RxQueue` may lose its bytes (`Clear`) only then:
`starting` is the zone's `pc = "start"`, so a reset of the indices with bytes
unread is no step of the queue.

### Editor, LineEditor

The code of harts 1-3 and of zone 2 is the same but for the trim of the line;
the model has zone 2's, which also covers the other.  One action per branch of
`readline`, one key at a time.  `line` is the array with its NUL and whatever
lies behind it; `before` is the byte in front of the array, which the trim at
line 688 may overwrite.  `Run` is the command, whose `strtok` has put NULs
into the line, and the emptying of the line.  `Editor` knows neither array nor
cursor index nor escape state: it has the text left and right of the cursor and
the list of past lines, and takes a line that is full to lose its last
character.

### Zone2

A piece is one 16-byte message; a text longer than that comes in several, and is
complete when one holds a NUL ("open" pieces have none).  A piece carries its
number and that of the first piece of its message, so that a message with a
piece missing, or put together from pieces that do not belong together, shows.
Two histories say which pieces are excused: `taken` by the command `recv`, and
`dropped` by the inbox when it overflows, is served or is cleared.  A handler is
one step: handlers do not nest.  The main loop is a step per statement that
reads or writes what a handler shares: `GetByte`/`NoByte`, the commands,
`msg_handler` with the message interrupt masked, the two tests before
`MZONE_WFI`.  `late` is the set of sources that came since main looked.  The
restart (`Start`) clears what `crt0` clears: buffer, inbox and the table of
handlers, and leaves the interrupt enables as they are; an interrupt that then
finds no handler leads to "nowhere".

### Zone3, Zone4, Boot

`Zone3`: the handlers of messages, of the 500 ms timer and of the buttons with
their debounce; the main loop with its polling when a message has cleared
mstatus.MIE, sleep, restart and block.  `size` is the length of the text built
for a button, whose number the code prints into 16 bytes, and 0 if none was
built since the start.  `pressed` is what the PLIC has pending.

`Zone4`: the polled receive loop; its only trap handler loops for ever, so a
message that sets mstatus.MIE makes the next one the last.

`Boot`: volume and files are what they are from the start (the file system is
external); the loader reads image after image and releases the harts, each of
which clears its MSIP, waits for it, and runs its image unless the first word
is zero.  An image is zero, old, partly read or new.

`Hart0` puts the three into one module, with the variables of each under names
of their own; they share none.

### How they compose

`MailboxSlot` implements `Mailbox`, whose single steps `HartIpc`, `Zone2`,
`Zone3` and `Zone4` use; `UartBuffer` implements `RxQueue`, which `Zone2`
instantiates; `LineEditor` implements `Editor` and stands where `Zone2` and
`HartIpc` have "a command".  `UsbGen` and `Robot` share the control pipe: in
`UsbGen` the robot may write at any time, and in `Robot` any tick of a connected
arm may start a transfer of the class driver.

## 3. The runs

| Run | Module | Bounds | Checks |
| --- | --- | --- | --- |
| `Slot` | `MCMailboxSlot` | 2 word values, `recv` at any time | `IsrReceivesWhole`, `ImplementsMailbox`, `FullIsStable`, `OnlyIsrSilences`, `RungIsTaken` |
| `Hart` | `HartIpc` | 2 zones, 2 messages each, `recv`, traps | `OnlyRecvLoses`, `ServedOnce`, `InboxIsServed`, `RungIsDrained` |
| `HartPing` | `HartIpc` | 2 zones, 1 message each | violation of `PingIsServed` |
| `RobotSafe` | `Robot` | 1 zone; stop, start, fold, a key | `TypeOK`, `ManualExcludesSequence`, `ManualHasDeadline`, `StepInBounds`, `Settled`, `OnlyClearStrands`, `OnlyStackDropsStop`, `OnlyHaltOrphans` |
| `RobotLive` | `MCRobot` | 1 zone; keys, or unfold and stop, or start and stop | `ManualEnds`, `KeysStop`, `SequenceEnds` |
| `RobotStop` | `Robot` | 1 zone; start, stop | violation of `StopIsObeyed` |
| `Console` | `MCConsole` | buffer of 5 bytes, bursts of 3; line of 4, history of 2 | `TypeOK`, `HistoryPacked`, `ImplementsEditor`, `ImplementsQueue` |
| `Zone2` | `MCZone2` | 2 zones, inbox of 4 pieces, 4 scenarios | `TypeOK`, `SleepsOnlyOnLateInput`, `ServesRun`, `RunIsServed`, `ByteIsRead` |
| `Zone2Restart` | `Zone2` | 1 zone, 2 pieces | violation of `EveryInterruptHasHandler` |
| `Hart0` | `MCHart0` | 2 zones, 2 messages each; 11 presses; 2 zone images, 2 harts | `TextFits`, `HartRunsWhatWasLoaded`, `OnlyStartLoses`, `MessageIsHandled`, `MessageIsTaken`, `HartIsReleased` |
| `Usb` | `UsbGen` | 3 devices, one unsuitable | `ReadyHasEndpoint`, `InStep`, `OnlyForeignEndsRefuse`, `EnumerationEnds` |
| `UsbRetry` | `UsbGen` | the same | violation of `RetryIsTried` |

Why the bounds are enough.

- Two word values distinguish an old from a new word, which is all that tearing
  is about.
- The races of a hart with its mailboxes are between the mailbox being scanned
  and one before it: two zones; two messages from each give every overtaking of
  an unserved message by a later one.
- The robot treats all zones alike, one after the other, so one zone that sends
  for ever shows every order of messages except two messages in one pass.
  Nothing bounds how often the arm is unplugged or how many messages are sent.
  `RobotLive` takes the messages in three mixes because liveness is costly.
  Keys alone are checked with all transfers of the USB stack and all failures.
  With sequences, which do not look at the pipe, there are only the transfers of
  `usb_write` on it, and the arm is not watched (`OwnTransfers`).  With MAIN, which has fourteen
  steps and which only a stop ends, the arm also stays plugged in once it is,
  and a message comes when the one before has been read (`Quiet`).
- A buffer of five bytes takes bursts that fit, that fit in part and that do
  not fit.  A line of four holds text on both sides of the cursor, is filled and
  overfilled, and is trimmed at both ends; a history of two overflows.
  `MCConsole` gives each behaviour one of three sets of keys, because all keys
  at all positions are too many: history and blanks, editing inside a line,
  and typing.
- `MaxSends` bounds the pieces a zone sends: five open ones overflow the inbox
  of zone 2 (`INBOX_SIZE`, the code's own 4).  `MCZone2` has four scenarios: one
  zone that overflows its inbox; one zone whose message of three pieces `recv`
  takes apart; two zones with typing; timer, restarts and exceptions.  The UART
  queue has capacity 1 there, as its limit is `UartBuffer`'s subject.
- Zones 3 and 4 serve zones in turn, so two; the number of a button gets its
  second digit at ten presses, and `MSG_SIZE` is 12 there so that this is where
  the text no longer fits, as six digits do not in the code's 16.  Zone 3 is
  checked without messages and without presses: with messages no button is
  pressed, so that the zone sleeps and only messages and the timer wake it.
- One bad file at a time and one device of each kind show each case of the
  loader and of the enumeration; in `Usb` nothing bounds how often devices come
  and go.

`CHECK_DEADLOCK FALSE` is in `Zone2` and `Hart0` only: a zone may really end
(in a trap handler that loops for ever, blocked by a message, or nowhere) and a
boot ends.

Fairness.  A hart keeps executing the context that can run: weak fairness of
handlers and main loops, since the hardware takes an enabled interrupt and
handlers are finite.  Strong fairness where an interrupt is enabled and
disabled in turns (message and timer handler in zone 3, the handler of zone 4):
it is taken at one of the times at which it is enabled.  In `Zone2` strong
fairness of `NoByte` says that the console is not flooded for ever; without it
messages wait as long as bytes keep coming, because `readline` returns only
when the buffer is empty.  `RunIsServed` also counts a message as done that an
overflow of the inbox or a restart has removed; `ServesRun` is about what is
served.  In `Robot` the 1 ms tick comes, USB transfers end, a
timer that was set fires.  In `UsbGen` the task runs every millisecond and
transfers end; strong fairness of `Enumerate` covers the test of the control
pipe, which the robot leaves idle again and again, its commands being at least
90 ms apart.  Nobody has to send a message, type a command, press the key the
trap handler waits for, or plug in the arm.

### What the violations show

- `HartPing` (`apps/hart1/main.c` 75, same in harts 2-4): the handler scans the
  mailboxes of zones 1 to 4, then clears the software interrupt.  A message that
  arrives, with its ring, in a mailbox already scanned is in its mailbox with no
  doorbell pending.  It is found only when some other message rings; the zone
  that sent it cannot send another, as its mailbox is full.  `OnlyIsrSilences`
  shows that this is the only way to lose the wake-up, so clearing before the
  scan would repair it.
- `RobotStop` (`apps/hart4/main.c` 252): `usb_event` is cleared after
  `usb_state` was looked at, with interrupts on.  A disconnection in between is
  lost: "USB DISCONNECT" is not sent, `owi_sequence_stop` is not called, and the
  sequence survives with no timer.  After the next connection `stop` only sets a
  flag that nobody reads and `start` is refused.  `OnlyClearStrands` shows that
  the lost event is the only way to get there.
- `Zone2Restart` (`apps/hart0/zone2/main.c` 563, and the message at 442; zone 3
  does the same at `zone3/main.c` 173): the restart runs `crt0` with interrupts
  enabled while it clears the table of their handlers.
- `UsbRetry` (`mss_usb_host_gen.c` 540): a NAK time-out sets the state
  `USBH_GEN_DEVICE_RETRY`, for which the task has no case.

`MotorStops` is checked with keys only (`KeysStop`), and says that the arm's
last STOP is lost to nothing but a transfer of the USB stack or a failure
(`lost`); such a STOP is lost for good, as `usb_write` returns nothing and
nobody repeats it.  With sequences it fails in a corner: the timer of a sequence
that a disconnection cut short may fire, after the next connection, between two
stores of `owi_sequence_start`; the step it sends is then the first step, the
index is reset, and a stop that arrives before the next tick ends the sequence
without a STOP being written.  `OnlyHaltOrphans` shows where such timers come
from.

## 4. What is proved

Every invariant, action property and refinement of the passing runs is also a
theorem: the run shows it on a small instance, the theorem for every value of
the constants.  No theorem needs more than the named assumptions on the
constants (`CmdRecvAssumption`, `HartIpcAssumption`, `RobotAssumption`,
`EditorAssumption`, `Zone2Assumption`, `Zone3Assumption`, `BootAssumption`,
...), all of which TLC evaluates too.  No invariant below is inductive alone;
each module names its strengthening (`IInv`, `SInv`, `Zone3Inv`, `BootInv`).

`MailboxSlotProofs`, for every set of words, with or without `recv`:
`IsrReceivesWholeMessages`, `FullMailboxIsStable`, `OnlyTheIsrSilences` and
`Refinement` are the safety properties of `Slot`; `TypeCorrect` and
`SendsItsArgument` (the message that becomes visible is the one given to SEND)
are proved only.  The strengthening relates both programs to the slot: past its
test the sender has found the flag down and is the only one who raises it, so
the flag is down while it writes, and the words it has written are those of its
argument; past its test the handler has found the flag up, nobody but a receiver
lowers it and the console cannot run while the handler does, so the words are
stable and what the handler has copied is what is there.

`HartIpcProofs`, for any number of zones and messages, with or without `recv`:
`TypeCorrect`; `OnlyRecvCanLose`; `ServesOnce`.  `Numbered` says of each zone
where its latest message is, and that a message in the mailbox is newer than
those in the inbox and served; `Erasing` that between `msg_handler`'s reading
and its erasing the inbox entry is the one just served, which holds because
interrupts are masked from before the first entry is tested until the last is
erased (`Masked`).

`RobotProofs`, for any number of zones and any subset of the seven kinds of
message, has two invariants.

- `IInv`, for `ExcludesSequence`, `HasDeadline`, `IsSettled`, `ClearStrands` and
  `HaltOrphans`.  `Tested` says that between a test of `man_cmd` or of the
  sequence in the main loop and the store that relies on it the tested fact
  still holds: the tick, which may come in between, can end a sequence or a
  command but never begin one.  For `StopIsSent` it is joined by
  `FreeAtDeadline`: when the deadline of a manual command falls due, no transfer
  of `usb_write` is on the control pipe.  It holds because the timer is armed at
  the end of a pass that found none; from then on no sequence runs, so only the
  main loop can start one, and then it sets the timer again before the tick may
  see it due.  The pipe may be the USB stack's then, and the theorem says that
  this is the only way for the tick to drop the STOP.
- `SInv`, for `TypeCorrect` and `StaysInTable`: the step index stays in the
  table of its sequence although the four statics are stored in any order and a
  tick may run `owi_sequence_next` in between.  `Fit` is what holds between
  calls.  `Begun` is what holds during a start: the index is 0, or 1 if the
  timer of an earlier sequence fired, which it does at most once as it is not
  due again before the start is over; and the size may still be another
  sequence's or 0 (the remainder by 0 is the dividend on RISC-V), from which 1
  is still a step of every table.  During a stop nothing is claimed of the
  index, and need not be: the arm is unplugged, and `Settling` (a new one
  appears only after the main loop has dealt with the old one's detach) keeps
  the tasks from using it.

`UsbGenProofs`, for any set of devices: `TypeCorrect`, `KnowsEndpoint`,
`KeepsInStep`, `RefusesOnForeignEnds`.  `OfDevice` says that descriptor and
endpoint are none or of the device that is there; `OneEnd` that a transfer of
the driver, or its end, is there only while the driver waits for it, until it is
misled; `Early` that the first end of its own the driver sees is that of the
descriptor.

`UartBufferProofs`, for buffers and bursts of any size: `TypeCorrect` (no index
leaves the buffer) and `Refinement`, that buffer, `uart_isr` and reader
implement `RxQueue`, which loses bytes that do not fit, and those it has when
the zone starts again, but no others.  `Masked` says that interrupts are off
from before a byte is taken until the indices are reset, `Level` that equal
indices are 0 outside that section.

`LineEditorProofs`, for lines and histories of any size and any set of keys:
`TypeCorrect` (the last cell of the line is always NUL, the cursor is in the
string, history entries are lines), `HistoryIsPacked` (the shape of the history;
its order is the refinement's), and `Refinement`, that array, cursor and history
implement `Editor`.  The first lemmas say of each operator on strings in arrays
(`DeleteAt`, `InsertAt`, `Strcpy`, the two trims, `Tokens`) what string it
leaves.  The refinement reads the string as its two parts at the cursor
(`Parts`, which determines both: `PartsAreUnique`) and the history as the
sequence of the entries in use, which are the first ones (`EntriesAreFirst`);
then one lemma per branch of `readline` and one for the command says that the
step is the editor's step of that name.

`Zone2Proofs`, for any number of zones and pieces, any buffer and burst, any
subset of texts and commands: `TypeCorrect`, `SleepIsSafe` and
`ServedMessagesAreRuns`.  `MailInOrder` and `Ordered` say that the pieces of a
zone keep their order from inbox to mailbox, also when a full inbox starts again
at its first place; `DueAccounted` and `InboxAccounted` that of
the message that is due every piece that has left the mailbox is in the inbox or
lost, and that behind the first piece in the inbox only `recv` has taken any.
`ShownIsPast` says that what was shown is older than all that can still be
shown.  It is not true while `crt0` runs again: the inbox may then still hold
what was shown, so for that time only the mailbox is claimed to be ahead.
`FoundEmpty` says that between the tests of the main loop and `MZONE_WFI` a
tested source is still empty or has come late.

`Hart0Proofs`, for any number of zones, messages, images and harts:

- `NoMessageIsLost` (zone 3) from `InOrder`: the mailbox holds the latest
  message of its zone, the inbox the latest that was taken from the mailbox.
- `ButtonTextFits` (zone 3) from `TextIsOfAPress`: the text has the number of a
  press.  `LongText` says that a number whose text exceeds `MSG_SIZE` is at
  least the power of ten at which that many digits begin; this for room of 12 to
  16 bytes and up to 10^9 presses, so that the powers of ten are constants.
- `HartsRunWhatWasLoaded` (loader) from `LoadedInOrder`, that the loader
  releases when every image is as its file is (`AllLoaded`), or when a zone's
  image has failed and no hart's has been touched (`Stopped`); `HasProgram`,
  that an image that runs is not zero; and `ReleasedOnly`, that a hart sees an
  interrupt it has not cleared itself only once the loader has begun to release.

Only model-checked is liveness, as fairness and ENABLED are beyond the prover:
`RungIsTaken`, `InboxIsServed`, `RungIsDrained`, `ManualEnds`, `KeysStop`,
`SequenceEnds`, `RunIsServed`, `ByteIsRead`, `MessageIsHandled`,
`MessageIsTaken`, `HartIsReleased`, `EnumerationEnds`.

## 5. Not modelled

FatFs and printf are third-party code, copied into the repository; they are
24,000 of its 30,000 lines, of which the models therefore cover a small share.
The MultiZone kernel and zone 1 are binaries and appear as external steps.  The
disk layer is thin wrappers around the vendor's driver.  Entry code, newlib
stubs, headers, linker scripts, register setup and the configuration of the
vendor's library have no state of their own.  Of the modelled programs these are
left out: the arguments and output of the console commands (load, store, exec,
pmp, stats, DMA), the LEDs, the robot's light bit and its messages to the zones,
the decoding of USB reports, and the protocol request and OUT transfers of the
class driver, which nothing starts.

Three hazards have no property: the clear of the doorbell in hart 4's handler,
which is the code of harts 1-3 (`HartPing`); the robot's broadcasts of a
connection, whose result the program ignores; and the IN pipe of the class
driver, which is not configured again for a second device: the driver only
reads the data into a report that nothing uses.

## 6. Plan

Done: `Mailbox`, `MailboxSlot`, `HartIpc`, `Robot`, `UartBuffer`, `LineEditor`,
`Zone2`, `Zone3`, `Zone4`, `UsbGen`, `Boot`, and the proofs above, which cover
every safety property of the runs.

Next, in order of importance:

1. `Robot` and `UsbGen` as one system: each now allows the other more transfers
   than it makes.
2. That the mailboxes in `HartIpc`, `Zone2` and `Zone3` take only the steps of
   `Mailbox`, as theorems; it is visible in their actions but stated nowhere.
3. Safety properties of `Zone4`, whose only property is liveness.
4. The disk layer of the boot loader, if it grows beyond wrappers.
