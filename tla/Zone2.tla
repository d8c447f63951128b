------------------------------- MODULE Zone2 -------------------------------
(***************************************************************************)
(* Zone 2, the UART console: its main loop, its interrupt handlers, the     *)
(* inbox in which pieces of messages are collected, sleep and restart.  The *)
(* UART buffer is the queue that UartBuffer implements.  A handler is one   *)
(* step: handlers do not nest and the main loop waits.                      *)
(***************************************************************************)
EXTENDS Integers, Sequences

CONSTANTS LastZone,  \* zones that send: 8
          Text,      \* kinds of pieces that are sent
          Cmd,       \* kinds of commands that are typed
          MaxSends,  \* bound: pieces of a zone
          Capacity, Burst \* of the UART buffer: 32 and 8

ASSUME Zone2Assumption ==
  /\ LastZone \in Nat \ {0} /\ MaxSends \in Nat /\ Capacity \in Nat \ {0} /\ Burst \in Nat
  /\ Text \subseteq {"ping", "restart", "text", "open", "nul"}
  /\ Cmd \subseteq {"print", "recv", "timer", "restart", "trap"}

VARIABLES queue, room, got,  \* UART buffer, and the byte readline took last
          mem, last,    \* mailboxes to this zone; piece put last into each
          msg, len,     \* inbox
          mie, MIE,     \* enabled sources; mstatus.MIE
          mtvec,        \* trap_vect is registered / and its entries are set
          pc, zone,     \* the main loop, and its index over zones
          shown,        \* what msg_handler dealt with last
          late,         \* sources handled since main looked at the buffers
          taken, dropped \* history: numbers of the pieces of each zone that the
                        \* command recv took, and that the inbox lost

buffer == <<queue, room, got>>
mail == <<mem, last>>
history == <<taken, dropped>>
inbox == <<msg, len>>
csrs == <<mie, MIE, mtvec>>
vars == <<buffer, mail, inbox, csrs, pc, zone, shown, late, history>>

Zones == 1..LastZone
Byte == {"CR", "key"}
INBOX_SIZE == 4 \* in pieces of MSG_SIZE

Q == INSTANCE RxQueue WITH starting <- pc = "start"

\* A piece has its number and that of the first piece of its message.
NoPiece == [n |-> 0, kind |-> "nul", first |-> 0]

Init == /\ Q!Init
        /\ mem = [z \in Zones |-> NoPiece] /\ last = [z \in Zones |-> NoPiece]
        /\ msg = [z \in Zones |-> [i \in 1..INBOX_SIZE |-> NoPiece]]
        /\ len = [z \in Zones |-> 0]
        /\ mie = {} /\ MIE = 0 /\ mtvec = {}
        /\ pc = "start" /\ zone = 1
        /\ shown = [zone |-> 1, pieces |-> <<>>] /\ late = {}
        /\ taken = [z \in Zones |-> {}] /\ dropped = [z \in Zones |-> {}]
-----------------------------------------------------------------------------
(* The kernel and the other zones (external).  A piece in a mailbox keeps   *)
(* the message interrupt pending.                                          *)

\* The first piece of the message of the piece that comes next
First(z) == IF last[z].kind = "open" THEN last[z].first ELSE last[z].n + 1

Post(z) == /\ mem[z] = NoPiece /\ last[z].n < MaxSends
           /\ \E k \in Text :
                last' = [last EXCEPT ![z] = [n |-> @.n + 1, kind |-> k, first |-> First(z)]]
           /\ mem' = [mem EXCEPT ![z] = last'[z]]
           /\ UNCHANGED <<buffer, inbox, csrs, pc, zone, shown, late, history>>

Mail == \E z \in Zones : mem[z] # NoPiece
-----------------------------------------------------------------------------
(* The handlers.                                                           *)

\* A sleeping zone runs on after the handler.
Handler(source) == /\ MIE = 1 /\ source \in mie /\ source \in mtvec
                   /\ pc' = IF pc = "asleep" THEN "read" ELSE pc
                   /\ late' = late \cup {source}

\* mutant: the limit is one piece too high
LenOffByOne(z) == IF len[z] > INBOX_SIZE THEN 0 ELSE len[z]

\* if (in->len >= INBOX_SIZE) in->len = 0
Len0(z) == IF len[z] >= INBOX_SIZE THEN 0 ELSE len[z]

\* The numbers of the pieces of zone z from place k of its inbox on
Numbers(z, k) == {msg[z][i].n : i \in k..len[z]}

msi_isr == /\ Handler("msi") /\ Mail
           /\ msg' = [z \in Zones |-> IF mem[z] = NoPiece THEN msg[z]
                                      ELSE [i \in DOMAIN msg[z] \cup {Len0(z) + 1} |->
                                              IF i = Len0(z) + 1 THEN mem[z] ELSE msg[z][i]]]
           /\ len' = [z \in Zones |-> IF mem[z] = NoPiece THEN len[z] ELSE Len0(z) + 1]
           /\ mem' = [z \in Zones |-> NoPiece]
           /\ dropped' = [z \in Zones |-> IF mem[z] # NoPiece /\ Len0(z) = 0
                                          THEN dropped[z] \cup Numbers(z, 1) ELSE dropped[z]]
           /\ UNCHANGED <<buffer, last, csrs, zone, shown, taken>>

uart_isr == /\ Handler("uart")
            /\ \E bytes \in Q!Bursts : Q!Put(bytes)
            /\ UNCHANGED <<mail, inbox, csrs, zone, shown, history>>

\* prints; the timer is for one shot
tmr_isr == /\ Handler("tmr")
           /\ mie' = mie \ {"tmr"}
           /\ UNCHANGED <<buffer, mail, inbox, MIE, mtvec, zone, shown, history>>

\* An interrupt that finds no handler in the table
NoHandler == /\ MIE = 1
             /\ \E source \in mie \ mtvec : source = "msi" => Mail
             /\ pc' = "nowhere"
             /\ UNCHANGED <<buffer, mail, inbox, csrs, zone, shown, late, history>>
-----------------------------------------------------------------------------
(* crt0 and main.                                                          *)

Goto(here, there) == pc = here /\ pc' = there

\* crt0 clears buffer, inbox and trap_vect; mie, mstatus and mtvec keep what
\* they have.
Start == /\ Goto("start", "init")
         /\ Q!Clear
         /\ msg' = [z \in Zones |-> [i \in 1..INBOX_SIZE |-> NoPiece]]
         /\ len' = [z \in Zones |-> 0]
         /\ mtvec' = {}
         /\ dropped' = [z \in Zones |-> dropped[z] \cup Numbers(z, 1)]
         /\ UNCHANGED <<mail, mie, MIE, zone, shown, late, taken>>

\* Banner; then the handlers are entered into the table, and the interrupts
\* enabled.
Setup == /\ Goto("init", "read")
         /\ mtvec' = {"msi", "uart", "tmr"}
         /\ mie' = mie \cup {"msi", "uart"}
         /\ MIE' = 1
         /\ UNCHANGED <<buffer, mail, inbox, zone, shown, late, history>>

\* mutant: the index is not advanced
GetByteAgain == /\ pc = "read" /\ queue # <<>>
                /\ got' = queue[1]
                /\ pc' = IF got' = "CR" THEN "cmd" ELSE "read"
                /\ UNCHANGED <<queue, room, mail, inbox, csrs, zone, shown, late, history>>

\* readline, one byte
GetByte == /\ pc = "read"
           /\ Q!Get
           /\ pc' = IF got' = "CR" THEN "cmd" ELSE "read"
           /\ UNCHANGED <<mail, inbox, csrs, zone, shown, late, history>>

NoByte == /\ Goto("read", "msgs") /\ queue = <<>>
          /\ UNCHANGED <<buffer, mail, inbox, csrs, zone, shown, late, history>>

\* Commands that print, or send to another zone
Reply == /\ "print" \in Cmd /\ Goto("cmd", "msgs")
         /\ UNCHANGED <<buffer, mail, inbox, csrs, zone, shown, late, history>>

\* recv takes a piece from the handler.
Recv == /\ "recv" \in Cmd /\ Goto("cmd", "msgs")
        /\ \E z \in Zones : /\ mem[z] # NoPiece
                           /\ mem' = [mem EXCEPT ![z] = NoPiece]
                           /\ taken' = [taken EXCEPT ![z] = @ \cup {mem[z].n}]
        /\ UNCHANGED <<buffer, last, inbox, csrs, zone, shown, late, dropped>>

Timer == /\ "timer" \in Cmd /\ Goto("cmd", "msgs")
         /\ mie' = mie \cup {"tmr"}
         /\ UNCHANGED <<buffer, mail, inbox, MIE, mtvec, zone, shown, late, history>>

Restart == /\ "restart" \in Cmd /\ Goto("cmd", "start")
           /\ UNCHANGED <<buffer, mail, inbox, csrs, zone, shown, late, history>>

\* An exception that cannot be skipped: trp_isr runs with interrupts disabled.
Trap == /\ "trap" \in Cmd /\ Goto("cmd", "trap")
        /\ MIE' = 0
        /\ UNCHANGED <<buffer, mail, inbox, mie, mtvec, zone, shown, late, history>>

\* A key is pressed.
TrapKey == /\ Goto("trap", "start")
           /\ UNCHANGED <<buffer, mail, inbox, csrs, zone, shown, late, history>>
-----------------------------------------------------------------------------
(* msg_handler.                                                            *)

Masked == /\ Goto("msgs", "msg") /\ zone' = 1
          /\ mie' = mie \ {"msi"}
          /\ UNCHANGED <<buffer, mail, inbox, MIE, mtvec, shown, late, history>>

\* The terminator is in piece i.
Ended(z, i) == msg[z][i].kind # "open" /\ \A j \in 1..(i - 1) : msg[z][j].kind = "open"

\* mutant: the pieces are not counted
EndAnywhere(z) == IF \E i \in 1..INBOX_SIZE : Ended(z, i)
                  THEN CHOOSE i \in 1..INBOX_SIZE : Ended(z, i) ELSE 0

\* The piece with the terminator, 0 if there is none or the string is empty:
\* len > 0 && len != in->len
End(z) == IF \E i \in 1..len[z] : Ended(z, i) /\ msg[z][1].kind # "nul"
          THEN CHOOSE i \in 1..len[z] : Ended(z, i) ELSE 0

\* mutant: the last zone is left out
NextZoneShort == IF zone + 1 < LastZone THEN pc' = "msg" /\ zone' = zone + 1 /\ mie' = mie
                 ELSE pc' = "tests" /\ zone' = 1 /\ mie' = mie \cup {"msi"}

NextZone == IF zone < LastZone THEN pc' = "msg" /\ zone' = zone + 1 /\ mie' = mie
         ELSE pc' = "tests" /\ zone' = 1 /\ mie' = mie \cup {"msi"}

\* Reply pong to a ping, print any other text, and drop what is behind it.
Serve == /\ pc = "msg" /\ End(zone) # 0
         /\ shown' = [zone |-> zone, pieces |-> SubSeq(msg[zone], 1, End(zone))]
         /\ IF End(zone) = 1 /\ msg[zone][1].kind = "restart"
            THEN pc' = "start" /\ UNCHANGED <<len, zone, mie, dropped>>
            ELSE /\ len' = [len EXCEPT ![zone] = 0] /\ NextZone
                 /\ dropped' = [dropped EXCEPT ![zone] = @ \cup Numbers(zone, End(zone) + 1)]
         /\ UNCHANGED <<buffer, mail, msg, MIE, mtvec, late, taken>>

Skip == /\ pc = "msg" /\ End(zone) = 0
        /\ NextZone
        /\ UNCHANGED <<buffer, mail, inbox, MIE, mtvec, shown, late, history>>
-----------------------------------------------------------------------------
(* if (buffer_empty() && inbox_is_empty()) MZONE_WFI() else MZONE_YIELD()  *)

Empty == \A z \in Zones : len[z] = 0

\* mutant: one empty buffer is enough
BufferEmptyOr == /\ pc = "tests"
                 /\ pc' = IF queue = <<>> THEN "wfi" ELSE "inbox"
                 /\ late' = {}
                 /\ UNCHANGED <<buffer, mail, inbox, csrs, zone, shown, history>>

BufferEmpty == /\ pc = "tests"
               /\ pc' = IF queue = <<>> THEN "inbox" ELSE "read"
               /\ late' = {}
               /\ UNCHANGED <<buffer, mail, inbox, csrs, zone, shown, history>>

InboxEmpty == /\ pc = "inbox"
              /\ pc' = IF Empty THEN "wfi" ELSE "read"
              /\ late' = late \ {"msi"}
              /\ UNCHANGED <<buffer, mail, inbox, csrs, zone, shown, history>>

\* The kernel (external) suspends the zone if no interrupt is pending.
Wfi == /\ pc = "wfi" /\ pc' = IF Mail THEN "read" ELSE "asleep"
       /\ UNCHANGED <<buffer, mail, inbox, csrs, zone, shown, late, history>>

cmd_handler == Reply \/ Recv \/ Timer \/ Restart \/ Trap
msg_handler == Masked \/ Serve \/ Skip
main == \/ Start \/ Setup \/ GetByte \/ NoByte \/ cmd_handler \/ msg_handler
        \/ BufferEmpty \/ InboxEmpty \/ Wfi

Next == \/ main \/ msi_isr \/ uart_isr \/ tmr_isr \/ NoHandler \/ TrapKey
        \/ \E z \in Zones : Post(z)

Spec == Init /\ [][Next]_vars

\* Zone and handlers run.  NoByte: the console is not flooded for ever.
Fairness == WF_vars(main) /\ WF_vars(msi_isr) /\ SF_vars(NoByte)

FairSpec == Spec /\ Fairness
-----------------------------------------------------------------------------
Piece == [n : 0..MaxSends, kind : {"ping", "restart", "text", "open", "nul"},
          first : 0..MaxSends]

(* No piece is stored outside its inbox.                                   *)
TypeOK == /\ queue \in Seq(Byte) /\ got \in Byte /\ room \in 0..(Capacity - Len(queue))
          /\ mem \in [Zones -> Piece] /\ last \in [Zones -> Piece]
          /\ msg \in [Zones -> [1..INBOX_SIZE -> Piece]]
          /\ len \in [Zones -> 0..INBOX_SIZE]
          /\ mie \subseteq {"msi", "uart", "tmr"} /\ MIE \in {0, 1}
          /\ mtvec \in {{}, {"msi", "uart", "tmr"}}
          /\ pc \in {"start", "init", "read", "cmd", "trap", "msgs", "msg", "tests",
                     "inbox", "wfi", "asleep", "nowhere"}
          /\ zone \in Zones /\ late \subseteq {"msi", "uart", "tmr"}
          /\ taken \in [Zones -> SUBSET (0..MaxSends)]
          /\ dropped \in [Zones -> SUBSET (0..MaxSends)]

(* What msg_handler prints or answers is the message of its first piece, up *)
(* to the end of the string and never again: every piece from the message's  *)
(* first on is there, but for those that recv took and, at its beginning,     *)
(* those the inbox lost when it was full, served or cleared.  Nothing left    *)
(* in the inbox from earlier is taken for a part of it.                     *)
ServesRun ==
  [][shown' # shown =>
       LET s == shown'.pieces
           z == shown'.zone
           e == Len(s) IN
       /\ \A i \in 1..(e - 1) : s[i].kind = "open" /\ s[i].n < s[i + 1].n
       /\ s[e].kind # "open" /\ s[1].n > 0
       /\ \A n \in s[1].first..s[e].n :
            \/ \E i \in 1..e : s[i].n = n
            \/ n \in taken[z]
            \/ n < s[1].n /\ n \in dropped[z]
       /\ z = shown.zone /\ shown.pieces # <<>> =>
            s[1].n > shown.pieces[Len(shown.pieces)].n]_vars

(* Zone 2 goes to sleep on a byte or a piece only if it came between the    *)
(* two tests of main and MZONE_WFI.                                         *)
SleepsOnlyOnLateInput ==
  pc = "asleep" => /\ queue # <<>> => "uart" \in late
                   /\ \A z \in Zones : len[z] # 0 => "msi" \in late

(* Every interrupt that is taken finds its handler.                         *)
EveryInterruptHasHandler == pc # "nowhere"

(* A message that is complete is served (or lost to a full inbox or to a     *)
(* restart), and a byte read, unless it came late and the zone sleeps (then   *)
(* the next interrupt of any kind wakes it), or a trap waits for a key, or    *)
(* an interrupt came at the start.                                          *)
Idle == pc \in {"asleep", "trap", "nowhere"}
RunIsServed == \A z \in Zones : End(z) # 0 ~> End(z) = 0 \/ Idle
ByteIsRead == queue # <<>> ~> queue = <<>> \/ Idle
=============================================================================
