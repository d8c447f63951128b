------------------------------- MODULE Zone4 -------------------------------
(***************************************************************************)
(* Zone 4: messages polled with interrupts disabled.  The only trap handler *)
(* never returns.                                                          *)
(***************************************************************************)
EXTENDS Naturals

CONSTANTS LastZone, \* zones that send: 8
          Text,     \* kinds of messages sent: "ping", "restart", "mie0", "mie1",
                    \* "block", "other"
          MaxSends  \* bound: messages of a zone

VARIABLES mem, sent,  \* mailboxes to this zone; messages sent by each zone
          mie, MIE,   \* message interrupt enabled; mstatus.MIE
          pc, zone

vars == <<mem, sent, mie, MIE, pc, zone>>

Zones == 1..LastZone

Init == /\ mem = [z \in Zones |-> "none"] /\ sent = [z \in Zones |-> 0]
        /\ mie = 0 /\ MIE = 0 /\ pc = "start" /\ zone = 1

\* Other zones (external)
Post(z) == /\ mem[z] = "none" /\ sent[z] < MaxSends
           /\ sent' = [sent EXCEPT ![z] = @ + 1]
           /\ \E k \in Text : mem' = [mem EXCEPT ![z] = k]
           /\ UNCHANGED <<mie, MIE, pc, zone>>

Mail == \E z \in Zones : mem[z] # "none"

\* for( ;; );
trap_handler == /\ MIE = 1 /\ mie = 1 /\ Mail /\ pc # "trap"
                /\ pc' = "trap"
                /\ UNCHANGED <<mem, sent, mie, MIE, zone>>

Start == /\ pc = "start" /\ pc' = "scan" /\ zone' = 1
         /\ mie' = 1 /\ MIE' = 0
         /\ UNCHANGED <<mem, sent>>

\* mutant: the last zone is left out
NextZoneShort == IF zone + 1 < LastZone THEN pc' = "scan" /\ zone' = zone + 1
                 ELSE pc' = "wfi" /\ zone' = 1

NextZone == IF zone < LastZone THEN pc' = "scan" /\ zone' = zone + 1
            ELSE pc' = "wfi" /\ zone' = 1

Serve == /\ pc = "scan" /\ mem[zone] # "none"
         /\ mem' = [mem EXCEPT ![zone] = "none"]
         /\ MIE' = CASE mem[zone] = "mie0" -> 0 [] mem[zone] = "mie1" -> 1 [] OTHER -> MIE
         /\ CASE mem[zone] = "restart" -> pc' = "start" /\ zone' = zone
              [] mem[zone] = "block" -> pc' = "blocked" /\ zone' = zone
              [] OTHER -> NextZone
         /\ UNCHANGED <<sent, mie>>

Skip == /\ pc = "scan" /\ mem[zone] = "none"
        /\ NextZone
        /\ UNCHANGED <<mem, sent, mie, MIE>>

\* MZONE_WFI (external) resumes for a message if its interrupt is enabled.
Wfi == /\ pc = "wfi" /\ mie = 1 /\ Mail
       /\ pc' = "scan" /\ zone' = 1
       /\ UNCHANGED <<mem, sent, mie, MIE>>

main == Start \/ Serve \/ Skip \/ Wfi

Next == main \/ trap_handler \/ \E z \in Zones : Post(z)
-----------------------------------------------------------------------------
(* A ping is answered, and any other message taken, unless a message        *)
(* blocks the zone or enables the interrupts that end in trap_handler.      *)
MessageIsTaken == \A z \in Zones : mem[z] # "none" ~> mem[z] = "none" \/ pc \in {"blocked", "trap"}
=============================================================================
