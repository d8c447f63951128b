------------------------------- MODULE Zone3 -------------------------------
(***************************************************************************)
(* Zone 3: LEDs, buttons, and messages that come by interrupt or, when a    *)
(* message has disabled interrupts, by polling.  Handlers do not nest and   *)
(* are one step.                                                           *)
(***************************************************************************)
EXTENDS Integers, FiniteSets

CONSTANTS LastZone,  \* zones that send: 8
          Text,      \* kinds of messages sent
          MaxSends,  \* bound: messages of a zone
          MaxCount,  \* bound: times a button is announced
          MSG_SIZE   \* sizeof msg: 16; 12 has room for one digit

ASSUME Zone3Assumption ==
  /\ LastZone \in Nat \ {0} /\ MaxSends \in Nat
  /\ MaxCount \in 0..10^9 \* far from where an unsigned counter wraps
  /\ MSG_SIZE \in 12..16
  /\ Text \subseteq {"ping", "restart", "mie0", "mie1", "block", "other"}

VARIABLES mem, sent,     \* mailboxes to this zone; messages sent by each zone
          inbox, served, \* inbox; number of the latest message served
          mie, MIE,      \* enabled sources; mstatus.MIE
          mtvec,         \* sources with an entry in trap_vect
          timer,         \* running, due, or off
          pc, zone,
          pressed,       \* buttons whose interrupt the PLIC has pending
          quiet,         \* buttons whose debounce time is over
          count,         \* times each button was announced
          size           \* characters of the text last built since the start,
                         \* with its NUL

mail == <<mem, sent>>
csrs == <<mie, MIE, mtvec>>
buttons == <<pressed, quiet, count, size>>
vars == <<mail, inbox, served, csrs, timer, pc, zone, buttons>>

Zones == 1..LastZone
Button == {"SW2", "SW3"}
Sources == {"msi", "tmr", "plic"}
NoMsg == [n |-> 0, kind |-> "none"]

Init == /\ mem = [z \in Zones |-> NoMsg] /\ sent = [z \in Zones |-> 0]
        /\ inbox = [z \in Zones |-> NoMsg] /\ served = [z \in Zones |-> 0]
        /\ mie = {} /\ MIE = 0 /\ mtvec = {} /\ timer = "off"
        /\ pc = "start" /\ zone = 1
        /\ pressed = {} /\ quiet = Button
        /\ count = [b \in Button |-> 0] /\ size = 0
-----------------------------------------------------------------------------
(* Other zones, kernel and time (external).                                *)

Post(z) == /\ mem[z] = NoMsg /\ sent[z] < MaxSends
           /\ sent' = [sent EXCEPT ![z] = @ + 1]
           /\ \E k \in Text : mem' = [mem EXCEPT ![z] = [n |-> sent'[z], kind |-> k]]
           /\ UNCHANGED <<inbox, served, csrs, timer, pc, zone, buttons>>

Press(b) == /\ b \notin pressed /\ count[b] < MaxCount
            /\ pressed' = pressed \cup {b}
            /\ UNCHANGED <<mail, inbox, served, csrs, timer, pc, zone, quiet, count, size>>

Expire == /\ timer = "running" /\ timer' = "due"
          /\ UNCHANGED <<mail, inbox, served, csrs, pc, zone, buttons>>

Debounced == /\ quiet # Button /\ quiet' = Button
             /\ UNCHANGED <<mail, inbox, served, csrs, timer, pc, zone, pressed, count, size>>

Pending(source) == /\ source \in mie
                   /\ \/ source = "msi" /\ \E z \in Zones : mem[z] # NoMsg
                      \/ source = "tmr" /\ timer = "due"
                      \/ source = "plic" /\ pressed # {}
-----------------------------------------------------------------------------
(* The handlers.                                                           *)

Handler(source) == /\ MIE = 1 /\ source \in mtvec /\ Pending(source)
                   /\ pc' = IF pc = "asleep" THEN "poll" ELSE pc

\* mutant: the result of RECV is ignored
ReceiveAlways == inbox' = mem /\ mem' = [z \in Zones |-> NoMsg]

\* RECV from every zone
Receive == /\ inbox' = [z \in Zones |-> IF mem[z] = NoMsg THEN inbox[z] ELSE mem[z]]
           /\ mem' = [z \in Zones |-> NoMsg]

msi_handler == /\ Handler("msi")
               /\ Receive
               /\ UNCHANGED <<sent, served, csrs, timer, zone, buttons>>

\* mutant: the timer is not set again
TimerOnce == /\ Handler("tmr")
             /\ timer' = "off"
             /\ UNCHANGED <<mail, inbox, served, csrs, zone, buttons>>

tmr_handler == /\ Handler("tmr")
               /\ timer' = "running"
               /\ UNCHANGED <<mail, inbox, served, csrs, zone, buttons>>

Digits(n) == CHOOSE d \in 1..10 : n < 10 ^ d /\ (d > 1 => n >= 10 ^ (d - 1))

\* mutant: the number is read after it was increased
SizeLate(n) == 9 + Digits(n + 1) + 1 + 1

\* "IRQ SW2 (", the number, ")", NUL
Size(n) == 9 + Digits(n) + 1 + 1

\* The text is sent to every zone; a full mailbox is not noticed.
plic_handler(b) == /\ Handler("plic") /\ b \in pressed
                   /\ pressed' = pressed \ {b}
                   /\ IF b \in quiet
                      THEN /\ quiet' = quiet \ {b}
                           /\ size' = Size(count[b])
                           /\ count' = [count EXCEPT ![b] = @ + 1]
                      ELSE UNCHANGED <<quiet, count, size>>
                   /\ UNCHANGED <<mail, inbox, served, csrs, timer, zone>>

\* An interrupt that finds no handler in the table
NoHandler == /\ MIE = 1 /\ \E source \in Sources \ mtvec : Pending(source)
             /\ pc' = "nowhere"
             /\ UNCHANGED <<mail, inbox, served, csrs, timer, zone, buttons>>
-----------------------------------------------------------------------------
(* crt0 and main.                                                          *)

\* crt0 clears the inbox, the table and the statics of plic_handler.
Start == /\ pc = "start" /\ pc' = "setup"
         /\ inbox' = [z \in Zones |-> NoMsg]
         /\ mtvec' = {}
         /\ quiet' = Button /\ count' = [b \in Button |-> 0] /\ size' = 0
         /\ UNCHANGED <<mail, served, mie, MIE, timer, zone, pressed>>

\* Interrupts are enabled when "poll" is reached: nothing is polled there.
Setup == /\ pc = "setup" /\ pc' = "poll" /\ zone' = 1
         /\ mtvec' = Sources /\ timer' = "running"
         /\ mie' = Sources /\ MIE' = 1
         /\ UNCHANGED <<mail, inbox, served, buttons>>

\* msg[0] = '\0', unless the zone starts again or stops
Erase(k) == inbox' = IF k \in {"restart", "block"} THEN inbox
                     ELSE [inbox EXCEPT ![zone] = NoMsg]

NextZone == IF zone < LastZone THEN pc' = "scan" /\ zone' = zone + 1 /\ mie' = mie
            ELSE pc' = "wfi" /\ zone' = 1 /\ mie' = mie \cup {"msi"}

Serve == /\ pc = "scan" /\ inbox[zone] # NoMsg
         /\ LET k == inbox[zone].kind IN
            /\ Erase(k)
            /\ served' = [served EXCEPT ![zone] = inbox[zone].n]
            /\ MIE' = CASE k \in {"mie0", "block"} -> 0
                        [] k = "mie1" -> 1
                        [] OTHER -> MIE
            /\ CASE k = "restart" -> pc' = "start" /\ UNCHANGED <<zone, mie>>
                 [] k = "block" -> pc' = "blocked" /\ UNCHANGED <<zone, mie>>
                 [] OTHER -> NextZone
         /\ UNCHANGED <<mail, mtvec, timer, buttons>>

Skip == /\ pc = "scan" /\ inbox[zone] = NoMsg
        /\ NextZone
        /\ UNCHANGED <<mail, inbox, served, MIE, mtvec, timer, buttons>>

\* MZONE_WFI (external) resumes for an enabled source, whatever MIE is.
Wfi == /\ pc = "wfi"
       /\ pc' = IF \E source \in Sources : Pending(source) THEN "poll" ELSE "asleep"
       /\ UNCHANGED <<mail, inbox, served, csrs, timer, zone, buttons>>

Resume == /\ pc = "asleep" /\ MIE = 0 /\ \E source \in Sources : Pending(source)
          /\ pc' = "poll"
          /\ UNCHANGED <<mail, inbox, served, csrs, timer, zone, buttons>>

\* With interrupts disabled, poll; then CSRC(mie, 1<<3).
Poll == /\ pc = "poll" /\ pc' = "scan"
        /\ IF MIE = 0 THEN Receive ELSE UNCHANGED <<inbox, mem>>
        /\ mie' = mie \ {"msi"}
        /\ UNCHANGED <<sent, served, MIE, mtvec, timer, zone, buttons>>

main == Start \/ Setup \/ Serve \/ Skip \/ Wfi \/ Resume \/ Poll

Next == \/ main \/ msi_handler \/ tmr_handler \/ (\E b \in Button : plic_handler(b) \/ Press(b))
        \/ NoHandler \/ Expire \/ Debounced \/ \E z \in Zones : Post(z)

Spec == Init /\ [][Next]_vars
-----------------------------------------------------------------------------
Kept(z) == sent[z] \in {mem[z].n, inbox[z].n, served[z]}

(* However interrupts were set by messages, the latest message of a zone is *)
(* in its mailbox, in the inbox, or served: only a start loses it.          *)
OnlyStartLoses == [][\A z \in Zones : Kept(z) /\ ~Kept(z)' => pc = "start"]_vars

(* A message is handled in the end, with interrupts or without, be it by    *)
(* the 500 ms timer that wakes the zone; unless one blocks the zone, or an   *)
(* interrupt finds no handler while the zone starts again.                  *)
MessageIsHandled == \A z \in Zones : (mem[z] # NoMsg \/ inbox[z] # NoMsg) ~>
                                     (mem[z] = NoMsg /\ inbox[z] = NoMsg) \/ pc \in {"blocked", "nowhere"}

(* The text of a button fits its 16 bytes until the number has six digits.  *)
TextFits == size > MSG_SIZE => \E b \in Button : count[b] > 10 ^ (MSG_SIZE - 11)
=============================================================================
