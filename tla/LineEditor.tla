----------------------------- MODULE LineEditor -----------------------------
(***************************************************************************)
(* readline, the line editor of the consoles of zone 2 and of harts 1 to   *)
(* 3, one key at a time, and what becomes of the line once it is entered.  *)
(* The line is an array of Size+1 characters holding a C string: bytes     *)
(* behind the first NUL are whatever was there.  The history is touched    *)
(* only by strlen, strcmp and strcpy, so that an entry is its string.      *)
(***************************************************************************)
EXTENDS Naturals, Integers, Sequences, FiniteSets

CONSTANTS Key,    \* the keys that are typed
          Size,   \* sizeof(inputline)-1: 32
          Depth   \* entries of history: 8

ASSUME EditorAssumption == /\ Size \in Nat \ {0} /\ Depth \in Nat \ {0}
                           /\ "NUL" \notin Key

VARIABLES line,    \* inputline
          before,  \* the byte in front of inputline
          p, esc,  \* cursor; how much of an escape sequence was read
          history, h, \* history entries; the one shown, -1 for none
          eol      \* readline returned 1: the command is running

vars == <<line, before, p, esc, history, h, eol>>

NUL == "NUL"
Blank == " "
Printable == Key \ {"ESC", "CR", "BS", "ctl"}
Index == 0..Size

\* strlen, and the string in an array
IsLen(s, n) == n \in Index /\ s[n] = NUL /\ \A i \in 0..(n - 1) : s[i] # NUL
Strlen(s) == CHOOSE n \in Index : IsLen(s, n)
Str(s) == [i \in 1..Strlen(s) |-> s[i - 1]]

\* strcpy(s, t)
Strcpy(s, t) == [i \in Index |-> IF i < Len(t) THEN t[i + 1]
                                 ELSE IF i = Len(t) THEN NUL ELSE s[i]]

\* mutant: stops one cell short
DeleteAtShort(s, i) ==
  [j \in Index |-> IF i <= j /\ j + 1 < Strlen(s) THEN s[j + 1] ELSE s[j]]

\* The loops that close the gap at i, and that make room at i
DeleteAt(s, i) ==
  [j \in Index |-> IF i <= j /\ j < Strlen(s) THEN s[j + 1] ELSE s[j]]

InsertAt(s, i, c) ==
  [j \in Index |-> IF j = i THEN c ELSE IF i < j /\ j < Size THEN s[j - 1] ELSE s[j]]

\* The trim loops: blanks at the end are overwritten with NUL, those at the
\* front are deleted one by one.
TrimEnd(s) ==
  [i \in Index |-> IF i < Strlen(s) /\ \A j \in i..(Strlen(s) - 1) : s[j] = Blank
                   THEN NUL ELSE s[i]]

Lead(s) == CHOOSE n \in 0..Strlen(s) : /\ s[n] # Blank
                                       /\ \A i \in 0..(n - 1) : s[i] = Blank
TrimFront(s) ==
  [i \in Index |-> IF i + Lead(s) <= Strlen(s) THEN s[i + Lead(s)]
                   ELSE IF i <= Strlen(s) THEN NUL ELSE s[i]]

Init == /\ line = [i \in Index |-> NUL]
        /\ before \in {Blank, "other"}
        /\ p = 0 /\ esc = 0 /\ eol = FALSE
        /\ history = [i \in 0..(Depth - 1) |-> <<>>] /\ h = -1
-----------------------------------------------------------------------------
(* One action per branch of readline.                                      *)

Escape(c) == /\ \/ c = "ESC" /\ esc' = 1
                \/ esc = 1 /\ c = "[" /\ esc' = 2
                \/ esc = 2 /\ c = "3" /\ esc' = 3
             /\ UNCHANGED <<line, before, p, history, h, eol>>

Del(c) == /\ esc = 3 /\ c = "~"
          /\ esc' = 0
          /\ line' = DeleteAt(line, p)
          /\ UNCHANGED <<before, p, history, h, eol>>

\* mutant: the cursor passes the end of the text
RightFree(c) == /\ esc = 2 /\ c = "C"
                /\ esc' = 0
                /\ p' = IF p < Size THEN p + 1 ELSE p
                /\ UNCHANGED <<line, before, history, h, eol>>

Right(c) == /\ esc = 2 /\ c = "C"
            /\ esc' = 0
            /\ p' = IF p < Strlen(line) THEN p + 1 ELSE p
            /\ UNCHANGED <<line, before, history, h, eol>>

Left(c) == /\ esc = 2 /\ c = "D"
           /\ esc' = 0
           /\ p' = IF p > 0 THEN p - 1 ELSE p
           /\ UNCHANGED <<line, before, history, h, eol>>

\* Show entry i of the history if there is one.
Recall(i) == /\ esc' = 0
             /\ IF i \in 0..(Depth - 1) /\ history[i] # <<>>
                THEN /\ h' = i
                     /\ line' = Strcpy(line, history[i])
                     /\ p' = Len(history[i])
                ELSE UNCHANGED <<line, p, h>>
             /\ UNCHANGED <<before, history, eol>>

Up(c) == esc = 2 /\ c = "A" /\ Recall(h + 1)
Down(c) == esc = 2 /\ c = "B" /\ Recall(h - 1)

Backspace(c) == /\ c = "BS" /\ p > 0 /\ esc = 0
                /\ p' = p - 1
                /\ line' = DeleteAt(line, p - 1)
                /\ UNCHANGED <<before, esc, history, h, eol>>

Insert(c) == /\ c \in Printable /\ p < Size /\ esc = 0
             /\ line' = InsertAt(line, p, c)
             /\ p' = p + 1
             /\ UNCHANGED <<before, esc, history, h, eol>>

\* mutant: compared with the entry shown, not with the latest
SaveShown(s) ==
  IF s = <<>> \/ (h >= 0 /\ s = history[h]) THEN history
  ELSE [i \in 0..(Depth - 1) |-> IF i = 0 THEN s ELSE history[i - 1]]

\* Save a line to the history.
Save(s) ==
  IF s = <<>> \/ s = history[0] THEN history
  ELSE [i \in 0..(Depth - 1) |-> IF i = 0 THEN s ELSE history[i - 1]]

\* inputline[strlen-1] is the byte before the array when the line is empty, as
\* it is once its last blank was cut.
Underflow == IF Strlen(TrimEnd(line)) = 0 /\ before = Blank THEN NUL ELSE before

Enter(c) == /\ c = "CR"
            /\ p' = 0 /\ esc' = 0 /\ eol' = TRUE
            /\ line' = TrimFront(TrimEnd(line))
            /\ before' = Underflow
            /\ history' = Save(Str(line'))
            /\ h' = -1

Taken(c) == \/ c \in {"ESC", "CR"}
            \/ esc = 1 /\ c = "["
            \/ esc = 2 /\ c \in {"3", "A", "B", "C", "D"}
            \/ esc = 3 /\ c = "~"
            \/ esc = 0 /\ c = "BS" /\ p > 0
            \/ esc = 0 /\ c \in Printable /\ p < Size

Ignore(c) == /\ ~Taken(c)
             /\ esc' = 0
             /\ UNCHANGED <<line, before, p, history, h, eol>>

Press(c) == \/ Escape(c) \/ Del(c) \/ Right(c) \/ Left(c) \/ Up(c) \/ Down(c)
            \/ Backspace(c) \/ Insert(c) \/ Enter(c) \/ Ignore(c)

readline == ~eol /\ \E c \in Key : Press(c)
-----------------------------------------------------------------------------
(* main: run the command, empty the line.                                  *)

\* strtok overwrites the blank behind each of the first nine tokens.
TokenEnd(s, i) == i \in 1..(Strlen(s) - 1) /\ s[i] = Blank /\ s[i - 1] # Blank
Tokens(s) ==
  [i \in Index |-> IF TokenEnd(s, i) /\ Cardinality({j \in 1..i : TokenEnd(s, j)}) <= 9
                   THEN NUL ELSE s[i]]

\* cmd_handler(); inputline[0]='\0'
Run == /\ eol
       /\ eol' = FALSE
       /\ line' = [Tokens(line) EXCEPT ![0] = NUL]
       /\ UNCHANGED <<before, p, esc, history, h>>

Next == readline \/ Run

Spec == Init /\ [][Next]_vars
-----------------------------------------------------------------------------
Lines == UNION {[1..n -> Printable] : n \in Index}

(* The line is a string with the cursor inside; history entries are lines. *)
TypeOK == /\ line \in [Index -> Printable \cup {NUL}] /\ line[Size] = NUL
          /\ \E n \in Index : IsLen(line, n) /\ p \in 0..n
          /\ before \in {Blank, "other", NUL}
          /\ esc \in 0..3 /\ eol \in BOOLEAN
          /\ history \in [0..(Depth - 1) -> Lines]
          /\ h \in -1..(Depth - 1)

Entries == {i \in 0..(Depth - 1) : history[i] # <<>>}

(* The shape of the history that recall relies on and no single line of     *)
(* readline says: the entries in use come first and together, none is blank *)
(* or has blanks at its ends, none repeats its neighbour, and the entry     *)
(* shown exists.  That the latest line is entry 0 and in which order the    *)
(* others follow is said by ImplementsEditor.                              *)
HistoryPacked ==
  /\ \A i \in Entries : \A j \in 0..i : j \in Entries
  /\ \A i \in Entries : history[i][1] # Blank /\ history[i][Len(history[i])] # Blank
  /\ \A i \in Entries \ {0} : history[i] # history[i - 1]
  /\ h >= 0 => h \in Entries

\* What the editor's user sees of the variables
TextLeft == SubSeq(Str(line), 1, p)
TextRight == SubSeq(Str(line), p + 1, Strlen(line))
Past == [i \in 1..Cardinality(Entries) |-> history[i - 1]]

E == INSTANCE Editor WITH Char <- Printable, left <- TextLeft, right <- TextRight,
                          past <- Past, seen <- h + 1, ready <- eol

(* readline and main implement an editor of a text with a cursor, in spite  *)
(* of the bytes left behind the terminator, the blank line that is trimmed  *)
(* past its start, and a full line that still takes characters.            *)
ImplementsEditor == E!Spec
=============================================================================
