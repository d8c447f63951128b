----------------------------- MODULE MCConsole -----------------------------
(* The UART buffer and the line editor of the console side by side.  A       *)
(* behaviour is of the buffer, or of the editor with some of the keys and    *)
(* lines of at most so many characters.                                    *)
EXTENDS LineEditor, UartBuffer

VARIABLES keys, most

Scenarios ==
  {[keys |-> {},                                           most |-> 0],
   [keys |-> {"ESC", "[", "A", "B", " ", "BS", "CR", "ctl"}, most |-> 2],
   [keys |-> {"ESC", "[", "3", "~", "C", "D", "BS"},         most |-> Size],
   [keys |-> {"x", " ", "BS", "CR"},                         most |-> Size]}

OfBuffer == keys = {}

\* In a behaviour of the editor the buffer has one initial state.
Still == \E b \in Byte : c = b /\ data = [j \in Cells |-> b] /\ b = CHOOSE d \in Byte : TRUE

MCInit == /\ \E s \in Scenarios : keys = s.keys /\ most = s.most
          /\ Init /\ BufferInit
          /\ OfBuffer \/ Still

Edit == \/ ~eol /\ (\E k \in keys : Press(k)) /\ Strlen(line') <= most
        \/ Run

MCNext == /\ \/ ~OfBuffer /\ Edit /\ UNCHANGED bufferVars
             \/ OfBuffer /\ BufferNext /\ UNCHANGED vars
          /\ UNCHANGED <<keys, most>>

MCSpec == MCInit /\ [][MCNext]_<<keys, most, vars, bufferVars>>
=============================================================================
