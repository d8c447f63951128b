----------------------------- MODULE UartBuffer -----------------------------
(***************************************************************************)
(* The UART buffer of zone 2: uart_isr appends, readline takes, and both    *)
(* indices go back to 0 when the reader has caught up.  readline masks the  *)
(* interrupts while it takes a byte, but not while it tests for one.        *)
(***************************************************************************)
EXTENDS Integers, Sequences

CONSTANTS Byte,
          BUFFER_SIZE,  \* 32
          Burst         \* sizeof temp: 8

ASSUME BufferAssumption == BUFFER_SIZE \in Nat \ {0} /\ Burst \in Nat \ {0} /\ Byte # {}

VARIABLES data, r, w,   \* buffer
          MIE,          \* bit 3 of mstatus
          c,            \* readline's c
          pc            \* where readline is

bufferVars == <<data, r, w, MIE, c, pc>>

Cells == 0..(BUFFER_SIZE - 1)

BufferInit == /\ data \in {[i \in Cells |-> b] : b \in Byte} /\ r = 0 /\ w = 0
        /\ MIE = 1 /\ c \in Byte /\ pc = "test"

\* MIN(count, BUFFER_SIZE - buffer.w)
Accepted(n) == IF n < BUFFER_SIZE - w THEN n ELSE BUFFER_SIZE - w

Bursts == UNION {[1..n -> Byte] : n \in 1..Burst}

\* The handler, with the bytes that read() found in the UART
uart_isr(temp) ==
  /\ MIE = 1
  /\ data' = [i \in Cells |-> IF w <= i /\ i < w + Accepted(Len(temp)) THEN temp[i - w + 1]
                              ELSE data[i]]
  /\ w' = w + Accepted(Len(temp))
  /\ UNCHANGED <<r, MIE, c, pc>>

\* while ( !eol && buffer.w > buffer.r )
Test == /\ pc = "test" /\ w > r
        /\ pc' = "mask"
        /\ UNCHANGED <<data, r, w, MIE, c>>

Mask == /\ pc = "mask"
        /\ MIE' = 0 /\ pc' = "take"
        /\ UNCHANGED <<data, r, w, c>>

Take == /\ pc = "take"
        /\ c' = data[r] /\ r' = r + 1
        /\ pc' = "check"
        /\ UNCHANGED <<data, w, MIE>>

\* mutant: the indices are reset with a byte still unread
CaughtUpEarly == /\ pc = "check"
                 /\ pc' = IF r + 1 >= w THEN "reset" ELSE "unmask"
                 /\ UNCHANGED <<data, r, w, MIE, c>>

CaughtUp == /\ pc = "check"
            /\ pc' = IF r >= w THEN "reset" ELSE "unmask"
            /\ UNCHANGED <<data, r, w, MIE, c>>

Reset == /\ pc = "reset"
         /\ r' = 0 /\ w' = 0
         /\ pc' = "unmask"
         /\ UNCHANGED <<data, MIE, c>>

Unmask == /\ pc = "unmask"
          /\ MIE' = 1 /\ pc' = "key"
          /\ UNCHANGED <<data, r, w, c>>

\* The rest of the loop, and of main when the line is complete
EndKey == /\ pc = "key"
       /\ pc' = "test"
       /\ UNCHANGED <<data, r, w, MIE, c>>

\* The line was the command restart.
Restart == /\ pc = "key"
           /\ pc' = "start"
           /\ UNCHANGED <<data, r, w, MIE, c>>

\* crt0 clears the buffer.
Start == /\ pc = "start"
         /\ data' \in {[i \in Cells |-> b] : b \in Byte}
         /\ r' = 0 /\ w' = 0 /\ c' \in Byte
         /\ pc' = "test"
         /\ UNCHANGED MIE

ReadBuffer == Test \/ Mask \/ Take \/ CaughtUp \/ Reset \/ Unmask \/ EndKey \/ Restart \/ Start

BufferNext == (\E temp \in Bursts : uart_isr(temp)) \/ ReadBuffer

BufferSpec == BufferInit /\ [][BufferNext]_bufferVars
-----------------------------------------------------------------------------
Places == {"test", "mask", "take", "check", "reset", "unmask", "key", "start"}

InBuffer == /\ data \in [Cells -> Byte] /\ c \in Byte
            /\ w \in 0..BUFFER_SIZE /\ r \in 0..w
            /\ pc \in {"mask", "take"} => r < w

(* The indices stay in the buffer, and a byte that is taken is there.      *)
BufferTypeOK == InBuffer /\ MIE \in {0, 1} /\ pc \in Places

Q == INSTANCE RxQueue WITH Capacity <- BUFFER_SIZE, got <- c, starting <- pc = "start",
       queue <- [i \in 1..(w - r) |-> data[r + i - 1]],
       room <- IF r = w THEN BUFFER_SIZE ELSE BUFFER_SIZE - w

(* The buffer is a queue that loses bytes only at its limit, or when the    *)
(* zone starts again: no interrupt between the steps of readline makes it    *)
(* lose, repeat or reorder one, and its reset drops none.                   *)
ImplementsQueue == Q!Spec
=============================================================================
