------------------------------ MODULE RxQueue ------------------------------
(***************************************************************************)
(* What the UART buffer of zone 2 promises its reader: bytes in the order   *)
(* in which they came, each once.  The buffer has room for Capacity bytes   *)
(* and gets its room back only when it has been emptied; what comes beyond  *)
(* the room left is lost, and nothing else is until the zone starts again.   *)
(***************************************************************************)
EXTENDS Naturals, Sequences

CONSTANTS Byte, Capacity,
          Burst   \* most bytes that come at once

VARIABLES queue, room,
          got,     \* the byte taken last
          starting \* the zone is in crt0 (the environment's)

vars == <<queue, room, got>>

Init == queue = <<>> /\ room = Capacity /\ got \in Byte

Bursts == UNION {[1..n -> Byte] : n \in 1..Burst}

\* bytes come
Put(bytes) == /\ queue' = queue \o SubSeq(bytes, 1, IF Len(bytes) <= room THEN Len(bytes) ELSE room)
              /\ room' = IF Len(bytes) <= room THEN room - Len(bytes) ELSE 0
              /\ got' = got

Get == /\ queue # <<>>
       /\ got' = queue[1]
       /\ queue' = Tail(queue)
       /\ room' = IF queue' = <<>> THEN Capacity ELSE room

\* crt0 clears the buffer: never while the zone runs
Clear == starting /\ queue' = <<>> /\ room' = Capacity /\ got' \in Byte

Next == (\E bytes \in Bursts : Put(bytes)) \/ Get \/ Clear

Spec == Init /\ [][Next]_vars
=============================================================================
