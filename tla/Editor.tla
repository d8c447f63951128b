------------------------------- MODULE Editor -------------------------------
(***************************************************************************)
(* What the line editor of the consoles promises: text before and after    *)
(* the cursor, never more than Size characters; past command lines, the    *)
(* latest first, each as it was run and different from the one before, of  *)
(* which at most Depth are kept; a command line without blanks around it.  *)
(* The strings, the cursor index and the escape sequences of readline are  *)
(* in LineEditor, which implements this.                                   *)
(***************************************************************************)
EXTENDS Naturals, Sequences

CONSTANTS Char,   \* what can be typed
          Blank,  \* the space
          Size,   \* characters of a line
          Depth   \* lines of history

VARIABLES left, right,  \* text before and after the cursor
          past, seen,   \* history; how many entries back the user has gone
          ready         \* the line was entered: right is the command

vars == <<left, right, past, seen, ready>>

Init == left = <<>> /\ right = <<>> /\ past = <<>> /\ seen = 0 /\ ready = FALSE

DropLast(s) == SubSeq(s, 1, Len(s) - 1)

\* A line that is full loses its last character.
Insert == /\ Len(left) < Size
          /\ \E c \in Char : left' = Append(left, c)
          /\ right' = IF Len(left) + Len(right) = Size THEN DropLast(right) ELSE right
          /\ UNCHANGED <<past, seen, ready>>

Backspace == /\ left # <<>>
             /\ left' = DropLast(left)
             /\ UNCHANGED <<right, past, seen, ready>>

Delete == /\ right # <<>>
          /\ right' = Tail(right)
          /\ UNCHANGED <<left, past, seen, ready>>

Left == /\ left # <<>>
        /\ left' = DropLast(left)
        /\ right' = <<left[Len(left)]>> \o right
        /\ UNCHANGED <<past, seen, ready>>

Right == /\ right # <<>>
         /\ left' = Append(left, right[1])
         /\ right' = Tail(right)
         /\ UNCHANGED <<past, seen, ready>>

Recall(n) == /\ n \in 1..Len(past)
             /\ seen' = n
             /\ left' = past[n]
             /\ right' = <<>>
             /\ UNCHANGED <<past, ready>>

Up == Recall(seen + 1)
Down == Recall(seen - 1)

Ink(s) == {i \in 1..Len(s) : s[i] # Blank}

\* t is s without the blanks at its ends
IsTrim(t, s) ==
  IF Ink(s) = {} THEN t = <<>>
  ELSE \E i, j \in Ink(s) : /\ \A k \in Ink(s) : i <= k /\ k <= j
                            /\ t = SubSeq(s, i, j)

Keep(s) == IF Len(s) > Depth THEN SubSeq(s, 1, Depth) ELSE s

Enter == /\ IsTrim(right', left \o right)
         /\ left' = <<>>
         /\ past' = IF right' = <<>> \/ (past # <<>> /\ past[1] = right') THEN past
                    ELSE Keep(<<right'>> \o past)
         /\ seen' = 0
         /\ ready' = TRUE

Run == /\ ready' = FALSE
       /\ left' = <<>> /\ right' = <<>>
       /\ UNCHANGED <<past, seen>>

Edit == Insert \/ Backspace \/ Delete \/ Left \/ Right \/ Up \/ Down \/ Enter

Next == (~ready /\ Edit) \/ (ready /\ Run)

Spec == Init /\ [][Next]_vars
=============================================================================
