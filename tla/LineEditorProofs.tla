-------------------------- MODULE LineEditorProofs --------------------------
(***************************************************************************)
(* Proofs about LineEditor, for lines and histories of any size and any    *)
(* set of keys.                                                            *)
(***************************************************************************)
EXTENDS LineEditor, WellFoundedInduction, FiniteSetTheorems, SequenceTheorems, TLAPS

USE DEF Index

LEMMA Constants == /\ Size \in Nat /\ Size > 0 /\ Depth \in Nat /\ Depth > 0
                   /\ NUL \notin Printable /\ Blank # NUL
  BY EditorAssumption DEF Printable, NUL, Blank

USE Constants

LEMMA Least ==
  ASSUME NEW S \in SUBSET Nat, S # {}
  PROVE  \E x \in S : \A y \in S : x <= y
<1>1. PICK x \in S : \A y \in S : ~(<<y, x>> \in OpToRel(<, Nat))
  BY NatLessThanWellFounded, WFMin, Zenon
<1>2. \A y \in S : ~(y < x)
  BY <1>1, <<x, x>> \in Nat \X Nat DEF OpToRel
<1> QED
  BY <1>2
-----------------------------------------------------------------------------
(* Strings in an array.                                                    *)

\* The last cell always ends the string: InsertAt relies on it.
Cells == {s \in [Index -> Printable \cup {NUL}] : s[Size] = NUL}

LEMMA StrlenIs ==
  ASSUME NEW s, NEW n, IsLen(s, n)
  PROVE  Strlen(s) = n
<1>1. \A m \in Index : IsLen(s, m) => m = n
  BY DEF IsLen
<1> QED
  BY <1>1 DEF Strlen, IsLen

LEMMA StrIs ==
  ASSUME NEW s \in Cells, NEW n, IsLen(s, n)
  PROVE  /\ Str(s) = [i \in 1..n |-> s[i - 1]]
         /\ Str(s) \in [1..n -> Printable]
         /\ Str(s) \in Lines
         /\ Len(Str(s)) = n
<1>1. Strlen(s) = n /\ n \in Index
  BY StrlenIs DEF IsLen
<1>2. \A i \in 1..n : s[i - 1] \in Printable
  BY <1>1 DEF IsLen, Cells
<1>3. Str(s) \in [1..n -> Printable]
  BY <1>1, <1>2 DEF Str
<1> QED
  BY <1>1, <1>3 DEF Str, Lines

LEMMA DeleteIs ==
  ASSUME NEW s \in Cells, NEW n, IsLen(s, n), NEW i \in 0..n
  PROVE  /\ DeleteAt(s, i) \in Cells
         /\ i = n => DeleteAt(s, i) = s
         /\ i < n => IsLen(DeleteAt(s, i), n - 1)
         /\ DeleteAt(s, i) = [j \in Index |-> IF i <= j /\ j < n THEN s[j + 1] ELSE s[j]]
<1>1. Strlen(s) = n /\ n \in Index
  BY StrlenIs DEF IsLen
<1>2. DeleteAt(s, i) = [j \in Index |-> IF i <= j /\ j < n THEN s[j + 1] ELSE s[j]]
  BY <1>1 DEF DeleteAt
<1>3. DeleteAt(s, i) \in Cells
  BY <1>1, <1>2 DEF Cells
<1>4. i = n => DeleteAt(s, i) = s
  BY <1>1, <1>2 DEF Cells
<1>5. ASSUME i < n PROVE IsLen(DeleteAt(s, i), n - 1)
  BY <1>1, <1>2, <1>5 DEF IsLen, Cells
<1> QED
  BY <1>2, <1>3, <1>4, <1>5

LEMMA InsertIs ==
  ASSUME NEW s \in Cells, NEW n, IsLen(s, n),
         NEW i \in 0..n, i < Size, NEW c \in Printable
  PROVE  /\ InsertAt(s, i, c) \in Cells
         /\ IsLen(InsertAt(s, i, c), IF n < Size THEN n + 1 ELSE Size)
         /\ \A j \in Index : InsertAt(s, i, c)[j] =
              IF j = i THEN c ELSE IF i < j /\ j < Size THEN s[j - 1] ELSE s[j]
<1> DEFINE t == InsertAt(s, i, c)
           m == IF n < Size THEN n + 1 ELSE Size
<1>1. n \in Index /\ c # NUL
  BY DEF IsLen
<1>2. /\ t \in Cells
      /\ \A j \in Index : t[j] = IF j = i THEN c
                                ELSE IF i < j /\ j < Size THEN s[j - 1] ELSE s[j]
  BY <1>1 DEF InsertAt, Cells
<1> HIDE DEF t
<1>3. m \in Index /\ m > 0 /\ t[m] = NUL
  <2>1. CASE n < Size
    BY <1>1, <1>2, <2>1, m = n + 1 DEF IsLen, Cells
  <2>2. CASE n = Size
    BY <1>1, <1>2, <2>2, m = Size DEF IsLen
  <2> QED
    BY <1>1, <2>1, <2>2
<1>4. ASSUME NEW j \in 0..(m - 1) PROVE t[j] # NUL
  <2>1. j \in Index /\ j < Size
    BY <1>3
  <2>2. CASE j = i
    BY <1>1, <1>2, <2>1, <2>2
  <2>3. CASE i < j
    BY <1>1, <1>2, <2>1, <2>3, j - 1 \in 0..(n - 1) DEF IsLen
  <2>4. CASE j < i
    BY <1>1, <1>2, <2>1, <2>4, j \in 0..(n - 1) DEF IsLen
  <2> QED
    BY <2>1, <2>2, <2>3, <2>4
<1> QED
  BY <1>2, <1>3, <1>4 DEF IsLen, t

LEMMA StrcpyIs ==
  ASSUME NEW s \in Cells, NEW t \in Lines
  PROVE  /\ Strcpy(s, t) \in Cells
         /\ IsLen(Strcpy(s, t), Len(t))
         /\ Str(Strcpy(s, t)) = t
<1>1. PICK n \in Index : t \in [1..n -> Printable]
  BY DEF Lines
<1>2. Len(t) = n /\ \A i \in 1..n : t[i] # NUL
  BY <1>1
<1>3. Strcpy(s, t) \in Cells
  BY <1>1, <1>2 DEF Strcpy, Cells
<1>4. IsLen(Strcpy(s, t), n)
  BY <1>1, <1>2 DEF Strcpy, IsLen
<1>5. \A i \in 1..n : Strcpy(s, t)[i - 1] = t[i]
  BY <1>1, <1>2 DEF Strcpy
<1>6. Str(Strcpy(s, t)) = [i \in 1..n |-> Strcpy(s, t)[i - 1]]
  BY <1>3, <1>4, StrIs
<1>7. Str(Strcpy(s, t)) = t
  BY <1>1, <1>5, <1>6
<1> QED
  BY <1>2, <1>3, <1>4, <1>7
-----------------------------------------------------------------------------
(* The trim.                                                               *)

LEMMA BlanksAtEnd ==
  ASSUME NEW s, NEW n \in Nat
  PROVE  \E m \in 0..n : /\ \A i \in m..(n - 1) : s[i] = Blank
                         /\ m > 0 => s[m - 1] # Blank
<1> DEFINE B == {m \in 0..n : \A i \in m..(n - 1) : s[i] = Blank}
<1>1. n \in B /\ B \in SUBSET Nat
  OBVIOUS
<1>2. PICK m \in B : \A k \in B : m <= k
  <2> HIDE DEF B
  <2> QED
    BY <1>1, Least
<1>3. m \in 0..n /\ \A i \in m..(n - 1) : s[i] = Blank
  OBVIOUS
<1>4. ASSUME m > 0, s[m - 1] = Blank PROVE FALSE
  <2>1. m - 1 \in 0..n /\ \A i \in (m - 1)..(n - 1) : i = m - 1 \/ i \in m..(n - 1)
    BY <1>3, <1>4
  <2>2. m - 1 \in B
    BY <1>3, <1>4, <2>1
  <2> QED
    BY <1>2, <1>3, <2>2
<1> QED
  BY <1>3, <1>4

LEMMA BlanksAtFront ==
  ASSUME NEW s, NEW n \in Nat, s[n] # Blank
  PROVE  \E k \in 0..n : s[k] # Blank /\ \A i \in 0..(k - 1) : s[i] = Blank
<1> DEFINE B == {i \in 0..n : s[i] # Blank}
<1>1. n \in B /\ B \in SUBSET Nat
  OBVIOUS
<1>2. PICK k \in B : \A i \in B : k <= i
  <2> HIDE DEF B
  <2> QED
    BY <1>1, Least
<1>3. ASSUME NEW i \in 0..(k - 1) PROVE s[i] = Blank
  BY <1>2
<1> QED
  BY <1>3

LEMMA TrimEndIs ==
  ASSUME NEW s \in Cells, NEW n, IsLen(s, n)
  PROVE  /\ TrimEnd(s) \in Cells
         /\ \E m \in 0..n : /\ IsLen(TrimEnd(s), m)
                            /\ m > 0 => s[m - 1] # Blank
                            /\ \A i \in 0..(m - 1) : TrimEnd(s)[i] = s[i]
                            /\ \A i \in m..(n - 1) : s[i] = Blank
<1>1. Strlen(s) = n /\ n \in Index /\ n \in Nat
  BY StrlenIs DEF IsLen
<1> DEFINE t == TrimEnd(s)
<1>2. PICK m \in 0..n : /\ \A i \in m..(n - 1) : s[i] = Blank
                        /\ m > 0 => s[m - 1] # Blank
  BY <1>1, BlanksAtEnd, Zenon
<1>3. /\ t \in Cells
      /\ \A i \in Index : t[i] = IF i < n /\ \A j \in i..(n - 1) : s[j] = Blank
                                 THEN NUL ELSE s[i]
  <2>1. t = [i \in Index |-> IF i < n /\ \A j \in i..(n - 1) : s[j] = Blank
                             THEN NUL ELSE s[i]]
    BY <1>1 DEF TrimEnd
  <2>2. \A i \in Index : s[i] \in Printable \cup {NUL}
    BY DEF Cells
  <2>3. t \in [Index -> Printable \cup {NUL}]
    BY <2>1, <2>2
  <2> QED
    BY <1>1, <2>1, <2>3 DEF Cells
<1> HIDE DEF t
<1>4. ASSUME NEW i \in 0..(m - 1) PROVE t[i] = s[i]
  <2>1. i \in Index /\ m - 1 \in i..(n - 1)
    BY <1>1, <1>2
  <2> QED
    BY <1>2, <1>3, <2>1
<1>5. m \in Index /\ t[m] = NUL
  <2>1. CASE m = n
    BY <1>1, <1>3, <2>1 DEF IsLen
  <2>2. CASE m < n
    BY <1>1, <1>2, <1>3, <2>2
  <2> QED
    BY <1>1, <2>1, <2>2
<1>6. IsLen(t, m)
  BY <1>1, <1>4, <1>5 DEF IsLen
<1> QED
  BY <1>2, <1>3, <1>4, <1>6 DEF t

LEMMA TrimFrontIs ==
  ASSUME NEW s \in Cells, NEW n, IsLen(s, n)
  PROVE  /\ TrimFront(s) \in Cells
         /\ \E k \in 0..n : /\ s[k] # Blank
                            /\ \A i \in 0..(k - 1) : s[i] = Blank
                            /\ IsLen(TrimFront(s), n - k)
                            /\ \A i \in 0..(n - k) : TrimFront(s)[i] = s[i + k]
<1>1. Strlen(s) = n /\ n \in Index /\ n \in Nat /\ s[n] # Blank
  BY StrlenIs DEF IsLen
<1> DEFINE t == TrimFront(s)
<1>2. PICK k \in 0..n : s[k] # Blank /\ \A i \in 0..(k - 1) : s[i] = Blank
  BY <1>1, BlanksAtFront
<1>3. \A j \in 0..n : (s[j] # Blank /\ \A i \in 0..(j - 1) : s[i] = Blank) => j = k
  BY <1>1, <1>2
<1>4. Lead(s) = k
  BY <1>1, <1>2, <1>3 DEF Lead
<1>5. /\ t \in Cells
      /\ \A i \in Index : t[i] = IF i + k <= n THEN s[i + k]
                                ELSE IF i <= n THEN NUL ELSE s[i]
  BY <1>1, <1>2, <1>4 DEF TrimFront, Cells
<1> HIDE DEF t
<1>6. \A i \in 0..(n - k) : i \in Index /\ t[i] = s[i + k]
  BY <1>1, <1>2, <1>5
<1>7. IsLen(t, n - k)
  <2>1. n - k \in Index /\ t[n - k] = NUL
    BY <1>1, <1>2, <1>6 DEF IsLen
  <2>2. ASSUME NEW i \in 0..((n - k) - 1) PROVE t[i] # NUL
    <3>1. i + k \in 0..(n - 1) /\ t[i] = s[i + k]
      BY <1>1, <1>2, <1>6
    <3> QED
      BY <3>1 DEF IsLen
  <2> QED
    BY <2>1, <2>2 DEF IsLen
<1> QED
  BY <1>2, <1>5, <1>6, <1>7 DEF t

\* A line that is entered becomes what is between its first and its last ink.
LEMMA TrimIs ==
  ASSUME NEW s \in Cells, NEW n, IsLen(s, n)
  PROVE  \E m \in 0..n : \E k \in 0..m :
           /\ IsLen(TrimEnd(s), m)
           /\ TrimFront(TrimEnd(s)) \in Cells
           /\ IsLen(TrimFront(TrimEnd(s)), m - k)
           /\ \A i \in 0..((m - k) - 1) : TrimFront(TrimEnd(s))[i] = s[i + k]
           /\ \A i \in (0..(k - 1)) \cup (m..(n - 1)) : s[i] = Blank
           /\ IF m = k THEN m = 0 ELSE s[k] # Blank /\ s[m - 1] # Blank
<1>1. n \in Nat
  BY DEF IsLen
<1>2. TrimEnd(s) \in Cells
  BY TrimEndIs
<1>3. PICK m \in 0..n : /\ IsLen(TrimEnd(s), m)
                        /\ m > 0 => s[m - 1] # Blank
                        /\ \A i \in 0..(m - 1) : TrimEnd(s)[i] = s[i]
                        /\ \A i \in m..(n - 1) : s[i] = Blank
  BY TrimEndIs
<1>4. TrimFront(TrimEnd(s)) \in Cells
  BY <1>2, <1>3, TrimFrontIs
<1>5. PICK k \in 0..m :
           /\ TrimEnd(s)[k] # Blank
           /\ \A i \in 0..(k - 1) : TrimEnd(s)[i] = Blank
           /\ IsLen(TrimFront(TrimEnd(s)), m - k)
           /\ \A i \in 0..(m - k) : TrimFront(TrimEnd(s))[i] = TrimEnd(s)[i + k]
  BY <1>2, <1>3, TrimFrontIs
<1>6. \A i \in 0..(k - 1) : s[i] = Blank
  BY <1>1, <1>3, <1>5
<1>7. \A i \in 0..((m - k) - 1) : TrimFront(TrimEnd(s))[i] = s[i + k]
  <2> TAKE i \in 0..((m - k) - 1)
  <2>1. i \in 0..(m - k) /\ i + k \in 0..(m - 1)
    BY <1>1
  <2> QED
    BY <1>3, <1>5, <2>1
<1>8. m = k => m = 0
  BY <1>1, <1>3, <1>6
<1>9. m # k => s[k] # Blank /\ s[m - 1] # Blank
  BY <1>1, <1>3, <1>5
<1> QED
  BY <1>3, <1>4, <1>5, <1>6, <1>7, <1>8, <1>9
-----------------------------------------------------------------------------
(* The invariant.                                                          *)

IInv == TypeOK /\ HistoryPacked /\ (eol => p = 0)

\* What IInv says of the line, in the terms of the lemmas
LEMMA LineIs ==
  ASSUME IInv
  PROVE  line \in Cells /\ \E n \in Index : IsLen(line, n) /\ p \in 0..n
  BY DEF IInv, TypeOK, Cells

LEMMA InitIInv == Init => IInv
<1> SUFFICES ASSUME Init PROVE IInv
  OBVIOUS
<1>1. IsLen(line, 0) /\ line \in Cells
  BY DEF Init, IsLen, Cells
<1>2. <<>> \in Lines
  BY <<>> \in [1..0 -> Printable] DEF Lines
<1>3. TypeOK
  <2>1. \E n \in Index : IsLen(line, n) /\ p \in 0..n
    BY <1>1, 0 \in Index, 0 \in 0..0 DEF Init
  <2>2. history \in [0..(Depth - 1) -> Lines]
    BY <1>2 DEF Init
  <2>3. h \in -1..(Depth - 1) /\ esc \in 0..3
    BY DEF Init
  <2>6. eol \in BOOLEAN
    BY DEF Init
  <2>4. before \in {Blank, "other", NUL}
    BY DEF Init
  <2>5. line \in [Index -> Printable \cup {NUL}] /\ line[Size] = NUL
    BY <1>1 DEF Cells
  <2> QED
    BY <2>1, <2>2, <2>3, <2>4, <2>5, <2>6 DEF TypeOK
<1>4. Entries = {}
  BY DEF Init, Entries
<1> QED
  BY <1>3, <1>4 DEF Init, IInv, HistoryPacked

LEMMA RecallKeepsIInv ==
  ASSUME IInv, NEW i \in Int, ~eol, Recall(i)
  PROVE  IInv'
<1>1. CASE i \in 0..(Depth - 1) /\ history[i] # <<>>
  <2>1. history[i] \in Lines /\ line \in Cells
    BY <1>1, LineIs DEF IInv, TypeOK
  <2>2. line' \in Cells /\ IsLen(line', p') /\ p' \in 0..p'
    BY <1>1, <2>1, StrcpyIs DEF Recall, IsLen
  <2>3. \E n \in Index : IsLen(line', n) /\ p' \in 0..n
    BY <2>2 DEF IsLen
  <2>4. TypeOK'
    BY <1>1, <2>2, <2>3 DEF Recall, IInv, TypeOK, Cells
  <2>5. Entries' = Entries /\ h' \in Entries
    BY <1>1 DEF Recall, Entries
  <2> QED
    BY <2>4, <2>5 DEF Recall, IInv, HistoryPacked
<1>2. CASE ~(i \in 0..(Depth - 1) /\ history[i] # <<>>)
  BY <1>2 DEF Recall, IInv, TypeOK, HistoryPacked, Entries
<1> QED
  BY <1>1, <1>2

LEMMA SaveKeepsHistory ==
  ASSUME IInv, NEW t \in Lines,
         t # <<>> => t[1] # Blank /\ t[Len(t)] # Blank,
         history' = Save(t), h' = -1
  PROVE  /\ history' \in [0..(Depth - 1) -> Lines]
         /\ HistoryPacked'
<1>1. CASE t = <<>> \/ t = history[0]
  BY <1>1 DEF Save, IInv, TypeOK, HistoryPacked, Entries
<1>2. CASE t # <<>> /\ t # history[0]
  <2>1. history' \in [0..(Depth - 1) -> Lines]
    BY <1>2 DEF Save, IInv, TypeOK
  <2>2. \A i \in 0..(Depth - 1) : history'[i] = IF i = 0 THEN t ELSE history[i - 1]
    BY <1>2 DEF Save
  <2>3. ASSUME NEW i \in Entries', NEW j \in 0..i PROVE j \in Entries'
    <3>1. i \in 0..(Depth - 1) /\ history'[i] # <<>> /\ j \in 0..(Depth - 1)
      BY DEF Entries
    <3>2. CASE j = 0
      BY <1>2, <2>2, <3>1, <3>2 DEF Entries
    <3>3. CASE j > 0
      <4>1. i - 1 \in Entries /\ j - 1 \in 0..(i - 1)
        BY <2>2, <3>1, <3>3 DEF Entries
      <4>2. j - 1 \in Entries
        BY <4>1 DEF IInv, HistoryPacked
      <4> QED
        BY <2>2, <3>1, <3>3, <4>2 DEF Entries
    <3> QED
      BY <3>1, <3>2, <3>3
  <2>4. \A i \in Entries' : /\ history'[i][1] # Blank
                            /\ history'[i][Len(history'[i])] # Blank
    BY <1>2, <2>2 DEF IInv, HistoryPacked, Entries
  <2>5. \A i \in Entries' \ {0} : history'[i] # history'[i - 1]
    BY <1>2, <2>2 DEF IInv, HistoryPacked, Entries
  <2> QED
    BY <2>1, <2>3, <2>4, <2>5 DEF HistoryPacked
<1> QED
  BY <1>1, <1>2

LEMMA EnterKeepsIInv ==
  ASSUME IInv, NEW c \in Key, Enter(c)
  PROVE  IInv'
<1>1. PICK n \in Index : line \in Cells /\ IsLen(line, n)
  BY LineIs
<1>2. PICK m \in 0..n : \E k \in 0..m :
         /\ line' \in Cells
         /\ IsLen(line', m - k)
         /\ \A i \in 0..((m - k) - 1) : line'[i] = line[i + k]
         /\ IF m = k THEN m = 0 ELSE line[k] # Blank /\ line[m - 1] # Blank
  BY <1>1, TrimIs DEF Enter
<1>3. PICK k \in 0..m :
         /\ line' \in Cells
         /\ IsLen(line', m - k)
         /\ \A i \in 0..((m - k) - 1) : line'[i] = line[i + k]
         /\ IF m = k THEN m = 0 ELSE line[k] # Blank /\ line[m - 1] # Blank
  BY <1>2
<1> DEFINE t == Str(line')
<1>4. /\ t \in Lines /\ Len(t) = m - k
      /\ t = [i \in 1..(m - k) |-> line'[i - 1]]
  BY <1>3, StrIs
<1>5. t # <<>> => t[1] # Blank /\ t[Len(t)] # Blank
  <2> SUFFICES ASSUME t # <<>> PROVE t[1] # Blank /\ t[Len(t)] # Blank
    OBVIOUS
  <2>1. m - k > 0
    BY <1>4
  <2>2. t[1] = line[k] /\ t[m - k] = line[m - 1]
    BY <1>3, <1>4, <2>1
  <2> QED
    BY <1>3, <1>4, <2>1, <2>2
<1>6. history' \in [0..(Depth - 1) -> Lines] /\ HistoryPacked'
  BY <1>4, <1>5, SaveKeepsHistory DEF Enter
<1>7. before' \in {Blank, "other", NUL}
  BY DEF Enter, Underflow, IInv, TypeOK
<1> QED
  BY <1>3, <1>6, <1>7 DEF Enter, IInv, TypeOK, Cells, IsLen

\* What an action has to show if it leaves the history alone
LEMMA SameHistory ==
  ASSUME IInv, line' \in Cells, NEW n \in Index, IsLen(line', n), p' \in 0..n,
         before' = before, esc' \in 0..3, eol' = eol, ~eol,
         history' = history, h' = h
  PROVE  IInv'
<1>1. TypeOK'
  BY DEF IInv, TypeOK, Cells
<1>2. Entries' = Entries
  BY DEF Entries
<1> QED
  BY <1>1, <1>2 DEF IInv, HistoryPacked

LEMMA KeyKeepsIInv ==
  ASSUME IInv, readline
  PROVE  IInv'
<1>1. PICK n \in Index : line \in Cells /\ IsLen(line, n) /\ p \in 0..n
  BY LineIs
<1>2. PICK c \in Key : \/ Escape(c) \/ Del(c) \/ Right(c) \/ Left(c)
                       \/ Up(c) \/ Down(c) \/ Backspace(c) \/ Insert(c)
                       \/ Enter(c) \/ Ignore(c)
  BY DEF readline, Press
<1>3. ~eol /\ Strlen(line) = n /\ n \in Nat /\ h \in Int
  BY <1>1, StrlenIs DEF readline, Press, IInv, TypeOK
<1>4. CASE Escape(c) \/ Right(c) \/ Left(c) \/ Ignore(c)
  <2>1. /\ line' = line /\ before' = before /\ eol' = eol
        /\ history' = history /\ h' = h /\ esc' \in 0..3 /\ p' \in 0..n
    BY <1>1, <1>3, <1>4 DEF Escape, Right, Left, Ignore
  <2> QED
    BY <1>1, <1>3, <2>1, SameHistory
<1>5. CASE Del(c)
  <2>1. \E m \in Index : IsLen(line', m) /\ p \in 0..m
    <3>1. CASE p = n
      BY <1>1, <1>5, <3>1, DeleteIs DEF Del
    <3>2. CASE p < n
      BY <1>1, <1>3, <1>5, <3>2, DeleteIs, p \in 0..(n - 1), n - 1 \in Index DEF Del
    <3> QED
      BY <1>1, <1>3, <3>1, <3>2
  <2>2. line' \in Cells
    BY <1>1, <1>5, DeleteIs DEF Del
  <2> QED
    BY <1>3, <1>5, <2>1, <2>2, SameHistory DEF Del
<1>6. CASE Up(c)
  BY <1>3, <1>6, RecallKeepsIInv DEF Up
<1>7. CASE Down(c)
  BY <1>3, <1>7, RecallKeepsIInv DEF Down
<1>8. CASE Backspace(c)
  <2>1. p - 1 \in 0..n /\ p - 1 < n /\ n - 1 \in Index /\ p - 1 \in 0..(n - 1)
    BY <1>1, <1>3, <1>8 DEF Backspace
  <2>2. line' \in Cells /\ IsLen(line', n - 1)
    BY <1>1, <1>8, <2>1, DeleteIs DEF Backspace
  <2> QED
    BY <1>3, <1>8, <2>1, <2>2, SameHistory DEF Backspace
<1>9. CASE Insert(c)
  <2> DEFINE m == IF n < Size THEN n + 1 ELSE Size
  <2>1. m \in Index /\ p + 1 \in 0..m
    BY <1>1, <1>3, <1>9 DEF Insert
  <2>2. line' \in Cells /\ IsLen(line', m)
    BY <1>1, <1>9, InsertIs DEF Insert
  <2> HIDE DEF m
  <2> QED
    BY <1>3, <1>9, <2>1, <2>2, SameHistory DEF Insert
<1>10. CASE Enter(c)
  BY <1>10, EnterKeepsIInv
<1> QED
  BY <1>2, <1>4, <1>5, <1>6, <1>7, <1>8, <1>9, <1>10

LEMMA RunIs ==
  ASSUME NEW s \in Cells
  PROVE  /\ [Tokens(s) EXCEPT ![0] = NUL] \in Cells
         /\ IsLen([Tokens(s) EXCEPT ![0] = NUL], 0)
<1> DEFINE t == Tokens(s)
<1>1. /\ t \in [Index -> Printable \cup {NUL}]
      /\ t[Size] = NUL
  BY DEF Tokens, Cells
<1> HIDE DEF t
<1>2. [t EXCEPT ![0] = NUL] \in Cells /\ IsLen([t EXCEPT ![0] = NUL], 0)
  BY <1>1 DEF Cells, IsLen
<1> QED
  BY <1>2 DEF t

LEMMA RunKeepsIInv ==
  ASSUME IInv, Run
  PROVE  IInv'
<1>1. line' \in Cells /\ IsLen(line', 0)
  BY LineIs, RunIs DEF Run
<1>2. p' = 0
  BY DEF Run, IInv
<1>3. \E n \in Index : IsLen(line', n) /\ p' \in 0..n
  BY <1>1, <1>2, 0 \in Index, 0 \in 0..0
<1>4. TypeOK' /\ Entries' = Entries
  BY <1>1, <1>3 DEF Run, IInv, TypeOK, Cells, Entries
<1> QED
  BY <1>4 DEF Run, IInv, HistoryPacked

LEMMA NextKeepsIInv == IInv /\ [Next]_vars => IInv'
<1> SUFFICES ASSUME IInv, [Next]_vars PROVE IInv'
  OBVIOUS
<1>1. CASE UNCHANGED vars
  BY <1>1 DEF vars, IInv, TypeOK, HistoryPacked, Entries
<1> QED
  BY <1>1, KeyKeepsIInv, RunKeepsIInv DEF Next

LEMMA AlwaysIInv == Spec => []IInv
  BY InitIInv, NextKeepsIInv, PTL DEF Spec

(* The line is always a string that its last cell ends, with the cursor    *)
(* inside: no branch of readline leaves the array but the trim.            *)
THEOREM TypeCorrect == Spec => []TypeOK
<1>1. IInv => TypeOK
  BY DEF IInv
<1> QED
  BY <1>1, AlwaysIInv, PTL

(* The shape of the history, whatever is browsed, edited and entered again: *)
(* trimmed lines, none like its neighbour, without gaps, and the entry shown *)
(* is one of them.  Their order is a matter of Refinement.                 *)
THEOREM HistoryIsPacked == Spec => []HistoryPacked
<1>1. IInv => HistoryPacked
  BY DEF IInv
<1> QED
  BY <1>1, AlwaysIInv, PTL
-----------------------------------------------------------------------------
(* The editor.                                                             *)

LeftOf(s, q) == SubSeq(Str(s), 1, q)
RightOf(s, q) == SubSeq(Str(s), q + 1, Strlen(s))

\* l and r have the characters that a string of length n has before and
\* behind q.
Parts(s, n, q, l, r) ==
  /\ l \in Seq(Printable) /\ Len(l) = q /\ \A i \in 1..q : l[i] = s[i - 1]
  /\ r \in Seq(Printable) /\ Len(r) = n - q /\ \A i \in 1..(n - q) : r[i] = s[q + i - 1]

LEMMA PartsAre ==
  ASSUME NEW s \in Cells, NEW n, IsLen(s, n), NEW q \in 0..n
  PROVE  Parts(s, n, q, LeftOf(s, q), RightOf(s, q))
<1>1. Strlen(s) = n /\ n \in Nat
  BY StrlenIs DEF IsLen
<1> DEFINE t == Str(s)
<1>2. /\ t \in [1..n -> Printable] /\ Len(t) = n
      /\ \A i \in 1..n : t[i] = s[i - 1]
  BY StrIs
<1> HIDE DEF t
<1>3. /\ SubSeq(t, 1, q) \in Seq(Printable) /\ Len(SubSeq(t, 1, q)) = q
      /\ \A i \in 1..q : SubSeq(t, 1, q)[i] = s[i - 1]
  <2>1. \A i \in 1..q : t[i] \in Printable /\ t[i] = s[i - 1]
    BY <1>1, <1>2
  <2> QED
    BY <1>1, <2>1, SubSeqProperties
<1>4. /\ SubSeq(t, q + 1, n) \in Seq(Printable) /\ Len(SubSeq(t, q + 1, n)) = n - q
      /\ \A i \in 1..(n - q) : SubSeq(t, q + 1, n)[i] = s[q + i - 1]
  <2>1. \A i \in (q + 1)..n : t[i] \in Printable /\ t[i] = s[i - 1]
    BY <1>1, <1>2
  <2>2. /\ SubSeq(t, q + 1, n) \in Seq(Printable)
        /\ Len(SubSeq(t, q + 1, n)) = IF q + 1 <= n THEN n - (q + 1) + 1 ELSE 0
        /\ \A i \in 1..(n - (q + 1) + 1) : SubSeq(t, q + 1, n)[i] = t[q + 1 + i - 1]
    BY <1>1, <2>1, SubSeqProperties
  <2>3. \A i \in 1..(n - q) : /\ i \in 1..(n - (q + 1) + 1)
                              /\ q + i \in (q + 1)..n /\ q + 1 + i - 1 = q + i
    BY <1>1
  <2> QED
    BY <1>1, <2>1, <2>2, <2>3
<1> QED
  BY <1>1, <1>3, <1>4 DEF Parts, LeftOf, RightOf, t

LEMMA PartsAreUnique ==
  ASSUME NEW s, NEW n, NEW q, NEW l, NEW r, NEW u, NEW v,
         Parts(s, n, q, l, r), Parts(s, n, q, u, v)
  PROVE  l = u /\ r = v
<1>1. l = u
  BY SeqEqual DEF Parts
<1>2. r = v
  BY SeqEqual DEF Parts
<1> QED
  BY <1>1, <1>2

LEMMA DropLastIs ==
  ASSUME NEW s \in Seq(Printable), s # <<>>
  PROVE  /\ E!DropLast(s) \in Seq(Printable) /\ Len(E!DropLast(s)) = Len(s) - 1
         /\ \A i \in 1..(Len(s) - 1) : E!DropLast(s)[i] = s[i]
<1>1. Len(s) \in Nat /\ Len(s) > 0
  OBVIOUS
<1> DEFINE k == Len(s) - 1
           t == SubSeq(s, 1, k)
<1>2. k \in Nat /\ \A i \in 1..k : s[i] \in Printable
  BY <1>1
<1> HIDE DEF k
<1>3. /\ t \in Seq(Printable) /\ Len(t) = IF 1 <= k THEN k - 1 + 1 ELSE 0
      /\ \A i \in 1..(k - 1 + 1) : t[i] = s[1 + i - 1]
  BY <1>2, SubSeqProperties
<1> HIDE DEF t
<1>4. Len(t) = k /\ \A i \in 1..k : t[i] = s[i]
  BY <1>2, <1>3
<1> QED
  BY <1>3, <1>4 DEF E!DropLast, t, k

\* The text that the editor sees, character by character
LEMMA TextIs ==
  ASSUME IInv
  PROVE  \E n \in Nat : /\ line \in Cells /\ IsLen(line, n) /\ Strlen(line) = n
                        /\ n <= Size /\ p \in Nat /\ p <= n
                        /\ Parts(line, n, p, TextLeft, TextRight)
<1>1. PICK n \in Index : line \in Cells /\ IsLen(line, n) /\ p \in 0..n
  BY LineIs
<1>2. Strlen(line) = n
  BY <1>1, StrlenIs
<1>3. TextLeft = LeftOf(line, p) /\ TextRight = RightOf(line, p)
  BY DEF TextLeft, TextRight, LeftOf, RightOf
<1>4. Parts(line, n, p, LeftOf(line, p), RightOf(line, p))
  BY <1>1, PartsAre
<1>5. n \in Nat /\ n <= Size /\ p \in Nat /\ p <= n
  BY <1>1
<1> QED
  BY <1>1, <1>2, <1>3, <1>4, <1>5

\* A step that leaves the history alone is one of the editor if it does this
\* to the text.
LEMMA StepIs ==
  ASSUME line' \in Cells, NEW n \in Nat, IsLen(line', n), p' \in 0..n,
         NEW l, NEW r, Parts(line', n, p', l, r)
  PROVE  TextLeft' = l /\ TextRight' = r
<1>1. Parts(line', n, p', LeftOf(line', p'), RightOf(line', p'))
  BY PartsAre
<1>2. l = LeftOf(line', p') /\ r = RightOf(line', p')
  BY <1>1, PartsAreUnique
<1> QED
  BY <1>2 DEF TextLeft, TextRight, LeftOf, RightOf

LEMMA SamePast ==
  ASSUME history' = history
  PROVE  Past' = Past
BY DEF Past, Entries

LEMMA InsertIsStep ==
  ASSUME IInv, NEW c \in Key, Insert(c)
  PROVE  E!Insert
<1>1. PICK n \in Nat :
           /\ line \in Cells /\ IsLen(line, n) /\ Strlen(line) = n
           /\ n <= Size /\ p \in Nat /\ p <= n
           /\ Parts(line, n, p, TextLeft, TextRight)
  BY TextIs
<1>2. /\ TextLeft \in Seq(Printable) /\ Len(TextLeft) = p
      /\ \A i \in 1..p : TextLeft[i] = line[i - 1]
      /\ TextRight \in Seq(Printable) /\ Len(TextRight) = n - p
      /\ \A i \in 1..(n - p) : TextRight[i] = line[p + i - 1]
  BY <1>1 DEF Parts
<1> DEFINE l == TextLeft
           r == TextRight
           m == IF n < Size THEN n + 1 ELSE Size
           l1 == Append(l, c)
           r1 == IF Len(l) + Len(r) = Size THEN E!DropLast(r) ELSE r
<1>3. l \in Seq(Printable) /\ r \in Seq(Printable) /\ Len(l) = p /\ Len(r) = n - p
  BY <1>2
<1>4. c \in Printable /\ p < Size /\ p' = p + 1
  BY DEF Insert
<1>5. /\ line' \in Cells /\ IsLen(line', m)
      /\ \A j \in Index : line'[j] = IF j = p THEN c
                                     ELSE IF p < j /\ j < Size THEN line[j - 1] ELSE line[j]
  <2>1. p \in 0..n
    BY <1>1
  <2> QED
    BY <1>1, <1>4, <2>1, InsertIs DEF Insert
<1>6. /\ m \in Nat /\ p' \in 0..m /\ m <= Size /\ m - p' <= n - p
      /\ IF n < Size THEN m = n + 1 ELSE n = Size /\ m = n
  BY <1>1, <1>4
<1> HIDE DEF m, l, r
<1>7. /\ l1 \in Seq(Printable) /\ Len(l1) = p + 1 /\ l1[p + 1] = c
      /\ \A i \in 1..p : l1[i] = l[i]
  BY <1>3, <1>4, AppendProperties
<1>8. /\ r1 \in Seq(Printable) /\ Len(r1) = m - p'
      /\ \A i \in 1..(m - p') : r1[i] = r[i]
  <2>1. CASE n < Size
    <3>1. Len(l) + Len(r) # Size /\ m - p' = n - p
      BY <1>1, <1>3, <1>4, <1>6, <2>1
    <3> QED
      BY <1>3, <3>1
  <2>2. CASE n = Size
    <3>1. r # <<>> /\ Len(l) + Len(r) = Size
      BY <1>1, <1>3, <1>4, <2>2
    <3>2. /\ E!DropLast(r) \in Seq(Printable) /\ Len(E!DropLast(r)) = Len(r) - 1
          /\ \A i \in 1..(Len(r) - 1) : E!DropLast(r)[i] = r[i]
      BY <1>3, <3>1, DropLastIs
    <3> QED
      BY <1>1, <1>3, <1>4, <1>6, <2>2, <3>1, <3>2
  <2> QED
    BY <1>1, <2>1, <2>2
<1> HIDE DEF l1, r1
<1>9. ASSUME NEW i \in 1..p' PROVE l1[i] = line'[i - 1]
  <2>1. CASE i = p + 1
    BY <1>1, <1>4, <1>5, <1>7, <2>1, i - 1 = p, p \in Index
  <2>2. CASE i # p + 1
    <3>1. i \in 1..p /\ i - 1 \in Index /\ i - 1 < p
      BY <1>1, <1>4, <2>2
    <3>2. line'[i - 1] = line[i - 1]
      BY <1>1, <1>5, <3>1
    <3> QED
      BY <1>2, <1>7, <3>1, <3>2 DEF l
  <2> QED
    BY <2>1, <2>2
<1>10. ASSUME NEW i \in 1..(m - p') PROVE r1[i] = line'[p' + i - 1]
  <2>1. /\ i \in 1..(n - p) /\ p' + i - 1 = p + i
        /\ p + i \in Index /\ p < p + i /\ p + i < Size
    BY <1>1, <1>4, <1>6
  <2>2. line'[p + i] = line[p + i - 1]
    BY <1>1, <1>5, <2>1
  <2> QED
    BY <1>2, <1>8, <2>1, <2>2 DEF r
<1>11. TextLeft' = l1 /\ TextRight' = r1
  BY <1>4, <1>5, <1>6, <1>7, <1>8, <1>9, <1>10, StepIs DEF Parts
<1> QED
  BY <1>3, <1>4, <1>11, SamePast DEF E!Insert, Insert, l1, r1, l, r

LEMMA BackspaceIsStep ==
  ASSUME IInv, NEW c \in Key, Backspace(c)
  PROVE  E!Backspace
<1>1. PICK n \in Nat :
           /\ line \in Cells /\ IsLen(line, n) /\ Strlen(line) = n
           /\ n <= Size /\ p \in Nat /\ p <= n
           /\ Parts(line, n, p, TextLeft, TextRight)
  BY TextIs
<1>2. /\ TextLeft \in Seq(Printable) /\ Len(TextLeft) = p
      /\ \A i \in 1..p : TextLeft[i] = line[i - 1]
      /\ TextRight \in Seq(Printable) /\ Len(TextRight) = n - p
      /\ \A i \in 1..(n - p) : TextRight[i] = line[p + i - 1]
  BY <1>1 DEF Parts
<1> DEFINE l == TextLeft
           r == TextRight
           l1 == E!DropLast(l)
<1>3. p > 0 /\ p' = p - 1 /\ p - 1 \in 0..n /\ p - 1 < n
  BY <1>1 DEF Backspace
<1>4. /\ line' \in Cells /\ IsLen(line', n - 1)
      /\ line' = [j \in Index |-> IF p - 1 <= j /\ j < n THEN line[j + 1] ELSE line[j]]
  <2>1. line' = DeleteAt(line, p - 1)
    BY DEF Backspace
  <2>2. /\ DeleteAt(line, p - 1) \in Cells
        /\ IsLen(DeleteAt(line, p - 1), n - 1)
        /\ DeleteAt(line, p - 1) = [j \in Index |-> IF p - 1 <= j /\ j < n
                                                    THEN line[j + 1] ELSE line[j]]
    <3> DEFINE i == p - 1
    <3>1. i \in 0..n /\ i < n
      BY <1>3
    <3> HIDE DEF i
    <3>2. /\ DeleteAt(line, i) \in Cells /\ IsLen(DeleteAt(line, i), n - 1)
          /\ DeleteAt(line, i) = [j \in Index |-> IF i <= j /\ j < n
                                                 THEN line[j + 1] ELSE line[j]]
      BY <1>1, <3>1, DeleteIs
    <3> QED
      BY <3>2 DEF i
  <2> QED
    BY <2>1, <2>2
<1>5. /\ l # <<>> /\ l1 \in Seq(Printable) /\ Len(l1) = p - 1
      /\ \A i \in 1..(p - 1) : l1[i] = l[i]
  <2>1. l \in Seq(Printable) /\ Len(l) = p
    BY <1>2
  <2> HIDE DEF l
  <2>2. l # <<>>
    BY <1>3, <2>1
  <2> QED
    BY <2>1, <2>2, DropLastIs
<1> HIDE DEF l1, l, r
<1>6. ASSUME NEW i \in 1..p' PROVE l1[i] = line'[i - 1]
  <2>1. i - 1 \in Index /\ ~(p - 1 <= i - 1) /\ i \in 1..p /\ i \in 1..(p - 1)
    BY <1>1, <1>3
  <2> QED
    BY <1>2, <1>4, <1>5, <2>1 DEF l
<1>7. n - 1 \in Nat /\ p' \in 0..(n - 1) /\ Len(r) = n - 1 - p'
  BY <1>2, <1>3 DEF r
<1>8. ASSUME NEW i \in 1..(n - 1 - p') PROVE r[i] = line'[p' + i - 1]
  <2>1. /\ i \in 1..(n - p) /\ p' + i - 1 \in Index
        /\ p - 1 <= p' + i - 1 /\ p' + i - 1 < n /\ p' + i - 1 + 1 = p + i - 1
    BY <1>1, <1>3
  <2> QED
    BY <1>2, <1>4, <2>1 DEF r
<1>9. TextLeft' = l1 /\ TextRight' = r
  BY <1>1, <1>2, <1>3, <1>4, <1>5, <1>6, <1>7, <1>8, StepIs DEF Parts, r
<1> QED
  BY <1>5, <1>9, SamePast DEF E!Backspace, Backspace, l1, l, r

LEMMA DelIsStep ==
  ASSUME IInv, NEW c \in Key, Del(c)
  PROVE  E!Delete \/ UNCHANGED E!vars
<1>1. PICK n \in Nat :
           /\ line \in Cells /\ IsLen(line, n) /\ Strlen(line) = n
           /\ n <= Size /\ p \in Nat /\ p <= n
           /\ Parts(line, n, p, TextLeft, TextRight)
  BY TextIs
<1>2. /\ TextLeft \in Seq(Printable) /\ Len(TextLeft) = p
      /\ \A i \in 1..p : TextLeft[i] = line[i - 1]
      /\ TextRight \in Seq(Printable) /\ Len(TextRight) = n - p
      /\ \A i \in 1..(n - p) : TextRight[i] = line[p + i - 1]
  BY <1>1 DEF Parts
<1>3. p' = p
  BY DEF Del
<1>4. CASE p = n
  <2>1. line' = line
    BY <1>1, <1>4, DeleteIs DEF Del
  <2>2. TextLeft' = TextLeft /\ TextRight' = TextRight
    BY <1>3, <2>1 DEF TextLeft, TextRight
  <2> QED
    BY <2>2, SamePast DEF Del, E!vars
<1>5. CASE p < n
  <2> DEFINE l == TextLeft
             r == TextRight
             r1 == Tail(r)
  <2>1. /\ line' \in Cells /\ IsLen(line', n - 1)
        /\ line' = [j \in Index |-> IF p <= j /\ j < n THEN line[j + 1] ELSE line[j]]
    BY <1>1, <1>5, p \in 0..n, DeleteIs DEF Del
  <2>2. r # <<>>
    BY <1>2, <1>5
  <2>3. /\ r1 \in Seq(Printable) /\ Len(r1) = n - p - 1
        /\ \A i \in 1..(n - p - 1) : r1[i] = r[i + 1]
    BY <1>2, <2>2, HeadTailProperties
  <2> HIDE DEF l, r, r1
  <2>4. ASSUME NEW i \in 1..p' PROVE l[i] = line'[i - 1]
    <3>1. i - 1 \in Index /\ ~(p <= i - 1) /\ i \in 1..p
      BY <1>1, <1>3
    <3> QED
      BY <1>2, <2>1, <3>1 DEF l
  <2>5. ASSUME NEW i \in 1..(n - 1 - p') PROVE r1[i] = line'[p' + i - 1]
    <3>1. /\ i \in 1..(n - p - 1) /\ i + 1 \in 1..(n - p) /\ p' + i - 1 \in Index
          /\ p <= p' + i - 1 /\ p' + i - 1 < n /\ p' + i - 1 + 1 = p + (i + 1) - 1
      BY <1>1, <1>3, <1>5
    <3> QED
      BY <1>2, <2>1, <2>3, <3>1 DEF r
  <2>6. n - 1 \in Nat /\ p' \in 0..(n - 1) /\ Len(r1) = n - 1 - p' /\ Len(l) = p'
    BY <1>2, <1>3, <1>5, <2>3 DEF l
  <2>7. TextLeft' = l /\ TextRight' = r1
    BY <1>1, <2>1, <2>3, <2>4, <2>5, <2>6, StepIs DEF Parts, l
  <2> QED
    BY <2>2, <2>7, SamePast DEF E!Delete, Del, l, r, r1
<1> QED
  BY <1>1, <1>4, <1>5

LEMMA LeftIsStep ==
  ASSUME IInv, NEW c \in Key, Left(c)
  PROVE  E!Left \/ UNCHANGED E!vars
<1>1. PICK n \in Nat :
           /\ line \in Cells /\ IsLen(line, n) /\ Strlen(line) = n
           /\ n <= Size /\ p \in Nat /\ p <= n
           /\ Parts(line, n, p, TextLeft, TextRight)
  BY TextIs
<1>2. /\ TextLeft \in Seq(Printable) /\ Len(TextLeft) = p
      /\ \A i \in 1..p : TextLeft[i] = line[i - 1]
      /\ TextRight \in Seq(Printable) /\ Len(TextRight) = n - p
      /\ \A i \in 1..(n - p) : TextRight[i] = line[p + i - 1]
  BY <1>1 DEF Parts
<1>3. line' = line
  BY DEF Left
<1>4. CASE p = 0
  <2>1. TextLeft' = TextLeft /\ TextRight' = TextRight
    BY <1>3, <1>4 DEF Left, TextLeft, TextRight
  <2> QED
    BY <2>1, SamePast DEF Left, E!vars
<1>5. CASE p > 0
  <2> DEFINE l == TextLeft
             r == TextRight
             l1 == E!DropLast(l)
             e == <<l[Len(l)]>>
             r1 == e \o r
  <2> HIDE DEF l, r
  <2>1. p' = p - 1
    BY <1>5 DEF Left
  <2>2. /\ l \in Seq(Printable) /\ Len(l) = p /\ l # <<>>
        /\ r \in Seq(Printable) /\ Len(r) = n - p
    BY <1>5, <1>2 DEF l, r
  <2>3. /\ l1 \in Seq(Printable) /\ Len(l1) = p - 1
        /\ \A i \in 1..(p - 1) : l1[i] = l[i]
    BY <2>2, DropLastIs
  <2>4. e \in Seq(Printable) /\ Len(e) = 1 /\ e[1] = l[p]
    BY <1>1, <1>5, <2>2
  <2> HIDE DEF l1, e
  <2>5. /\ r1 \in Seq(Printable) /\ Len(r1) = 1 + (n - p)
        /\ \A i \in 1..(1 + (n - p)) : r1[i] = IF i <= 1 THEN e[i] ELSE r[i - 1]
    <3>1. /\ r1 \in Seq(Printable) /\ Len(r1) = Len(e) + Len(r)
          /\ \A i \in 1..(Len(e) + Len(r)) : r1[i] = IF i <= Len(e) THEN e[i]
                                                   ELSE r[i - Len(e)]
      BY <2>2, <2>4, ConcatProperties
    <3> HIDE DEF r1
    <3> QED
      BY <2>2, <2>4, <3>1
  <2> HIDE DEF r1
  <2>6. ASSUME NEW i \in 1..p' PROVE l1[i] = line'[i - 1]
    <3>1. i \in 1..(p - 1) /\ i \in 1..p
      BY <1>1, <2>1
    <3> QED
      BY <1>3, <1>2, <2>3, <3>1 DEF l
  <2>7. ASSUME NEW i \in 1..(n - p') PROVE r1[i] = line'[p' + i - 1]
    <3>1. i \in 1..(1 + (n - p)) /\ p' + i - 1 = p + (i - 1) - 1
      BY <1>1, <2>1
    <3>2. CASE i = 1
      BY <1>3, <1>2, <1>5, <2>4, <2>5, <3>1, <3>2, p \in 1..p DEF l
    <3>3. CASE i # 1
      <4>1. i - 1 \in 1..(n - p) /\ r1[i] = r[i - 1]
        BY <1>1, <2>5, <3>1, <3>3
      <4> QED
        BY <1>3, <1>2, <3>1, <4>1 DEF r
    <3> QED
      BY <3>2, <3>3
  <2>8. p' \in 0..n /\ Len(l1) = p' /\ Len(r1) = n - p'
    BY <1>1, <1>5, <2>1, <2>3, <2>5
  <2>9. TextLeft' = l1 /\ TextRight' = r1
    BY <1>1, <1>3, <2>3, <2>5, <2>6, <2>7, <2>8, StepIs DEF Parts
  <2> QED
    BY <2>2, <2>9, SamePast DEF E!Left, Left, l, r, l1, e, r1
<1> QED
  BY <1>1, <1>4, <1>5

LEMMA RightIsStep ==
  ASSUME IInv, NEW c \in Key, Right(c)
  PROVE  E!Right \/ UNCHANGED E!vars
<1>1. PICK n \in Nat :
           /\ line \in Cells /\ IsLen(line, n) /\ Strlen(line) = n
           /\ n <= Size /\ p \in Nat /\ p <= n
           /\ Parts(line, n, p, TextLeft, TextRight)
  BY TextIs
<1>2. /\ TextLeft \in Seq(Printable) /\ Len(TextLeft) = p
      /\ \A i \in 1..p : TextLeft[i] = line[i - 1]
      /\ TextRight \in Seq(Printable) /\ Len(TextRight) = n - p
      /\ \A i \in 1..(n - p) : TextRight[i] = line[p + i - 1]
  BY <1>1 DEF Parts
<1>3. line' = line
  BY DEF Right
<1>4. CASE p = n
  <2>1. TextLeft' = TextLeft /\ TextRight' = TextRight
    BY <1>1, <1>3, <1>4 DEF Right, TextLeft, TextRight
  <2> QED
    BY <2>1, SamePast DEF Right, E!vars
<1>5. CASE p < n
  <2> DEFINE l == TextLeft
             r == TextRight
             l1 == Append(l, r[1])
             r1 == Tail(r)
  <2> HIDE DEF l, r
  <2>1. p' = p + 1
    BY <1>1, <1>5 DEF Right
  <2>2. /\ l \in Seq(Printable) /\ Len(l) = p
        /\ r \in Seq(Printable) /\ Len(r) = n - p /\ r # <<>>
        /\ r[1] \in Printable /\ r[1] = line[p + 1 - 1]
    BY <1>1, <1>5, <1>2 DEF l, r
  <2>3. /\ l1 \in Seq(Printable) /\ Len(l1) = p + 1 /\ l1[p + 1] = r[1]
        /\ \A i \in 1..p : l1[i] = l[i]
    BY <2>2, AppendProperties
  <2>4. /\ r1 \in Seq(Printable) /\ Len(r1) = n - p - 1
        /\ \A i \in 1..(n - p - 1) : r1[i] = r[i + 1]
    BY <2>2, HeadTailProperties
  <2> HIDE DEF l1, r1
  <2>5. ASSUME NEW i \in 1..p' PROVE l1[i] = line'[i - 1]
    <3>1. i = p + 1 \/ i \in 1..p
      BY <1>1, <2>1
    <3> QED
      BY <1>3, <1>2, <2>2, <2>3, <3>1 DEF l
  <2>6. ASSUME NEW i \in 1..(n - p') PROVE r1[i] = line'[p' + i - 1]
    <3>1. /\ i \in 1..(n - p - 1) /\ i + 1 \in 1..(n - p)
          /\ p' + i - 1 = p + (i + 1) - 1
      BY <1>1, <2>1
    <3> QED
      BY <1>3, <1>2, <2>4, <3>1 DEF r
  <2>7. p' \in 0..n /\ Len(l1) = p' /\ Len(r1) = n - p'
    BY <1>1, <1>5, <2>1, <2>3, <2>4
  <2>8. TextLeft' = l1 /\ TextRight' = r1
    BY <1>1, <1>3, <2>3, <2>4, <2>5, <2>6, <2>7, StepIs DEF Parts
  <2> QED
    BY <2>2, <2>8, SamePast DEF E!Right, Right, l, r, l1, r1
<1> QED
  BY <1>1, <1>4, <1>5

\* The entries of a history f, k of them, are its first ones.
Gapless(f) == \A i \in 0..(Depth - 1) : f[i] # <<>> => \A j \in 0..i : f[j] # <<>>
Filled(f) == {i \in 0..(Depth - 1) : f[i] # <<>>}
First(f, k) == /\ k \in 0..Depth /\ Filled(f) = 0..(k - 1) /\ Cardinality(Filled(f)) = k
               /\ [i \in 1..k |-> f[i - 1]] \in Seq(Lines)
               /\ Len([i \in 1..k |-> f[i - 1]]) = k

LEMMA EntriesAreFirst ==
  ASSUME NEW f \in [0..(Depth - 1) -> Lines], Gapless(f)
  PROVE  \E k \in Nat : First(f, k)
<1> DEFINE S == Filled(f)
           T == Nat \ S
<1>1. Depth \in T /\ T \in SUBSET Nat
  BY DEF Filled
<1>2. PICK k \in T : \A j \in T : k <= j
  <2> HIDE DEF T
  <2> QED
    BY <1>1, Least
<1>3. k \in Nat /\ k <= Depth /\ k \notin S
  BY <1>1, <1>2
<1>4. \A j \in 0..(k - 1) : j \in S
  BY <1>2, <1>3
<1>5. \A j \in S : j \in 0..(k - 1)
  BY <1>3 DEF Gapless, Filled
<1>6. S = 0..(k - 1)
  BY <1>4, <1>5
<1>7. Cardinality(0..(k - 1)) = k
  <2>1. Cardinality(0..(k - 1)) = IF 0 > k - 1 THEN 0 ELSE k - 1 - 0 + 1
    BY <1>3, FS_Interval
  <2> QED
    BY <1>3, <2>1
<1> DEFINE t == [i \in 1..k |-> f[i - 1]]
<1>8. t \in [1..k -> Lines]
  BY <1>3
<1> HIDE DEF t
<1>9. t \in Seq(Lines) /\ Len(t) = k
  BY <1>3, <1>8
<1> QED
  BY <1>3, <1>6, <1>7, <1>9 DEF First, t

LEMMA PastIs ==
  ASSUME IInv
  PROVE  \E k \in 0..Depth : /\ Entries = 0..(k - 1)
                             /\ Past = [i \in 1..k |-> history[i - 1]]
                             /\ Past \in Seq(Lines) /\ Len(Past) = k
<1>1. history \in [0..(Depth - 1) -> Lines] /\ Gapless(history)
  BY DEF IInv, TypeOK, HistoryPacked, Gapless, Entries
<1>2. Entries = Filled(history)
  BY DEF Entries, Filled
<1>3. PICK k \in Nat : First(history, k)
  BY <1>1, EntriesAreFirst
<1>4. Past = [i \in 1..k |-> history[i - 1]]
  BY <1>2, <1>3 DEF Past, First
<1> QED
  BY <1>2, <1>3, <1>4 DEF First

LEMMA RecallIsStep ==
  ASSUME IInv, NEW i \in Int, Recall(i)
  PROVE  E!Recall(i + 1) \/ UNCHANGED E!vars
<1>1. CASE i \in 0..(Depth - 1) /\ history[i] # <<>>
  <2> DEFINE t == history[i]
  <2>1. t \in Lines /\ line \in Cells
    BY <1>1, LineIs DEF IInv, TypeOK
  <2>2. PICK n \in Index : t \in [1..n -> Printable]
    BY <2>1 DEF Lines
  <2>3. t \in Seq(Printable) /\ Len(t) = n /\ n \in Nat
    BY <2>2
  <2> HIDE DEF t
  <2>4. line' = Strcpy(line, t) /\ p' = n /\ h' = i /\ history' = history /\ eol' = eol
    BY <1>1, <2>3 DEF Recall, t
  <2>5. line' \in Cells /\ IsLen(line', n) /\ Str(line') = t
    BY <2>1, <2>3, <2>4, StrcpyIs
  <2>6. \A j \in 1..n : t[j] = line'[j - 1]
    BY <2>5, StrIs
  <2>7. TextLeft' = t /\ TextRight' = <<>>
    <3>1. Parts(line', n, p', t, <<>>)
      BY <2>3, <2>4, <2>6 DEF Parts
    <3>2. p' \in 0..n
      BY <2>3, <2>4
    <3> QED
      BY <2>3, <2>5, <3>1, <3>2, StepIs
  <2>8. PICK k \in 0..Depth : /\ Entries = 0..(k - 1)
                              /\ Past = [j \in 1..k |-> history[j - 1]]
                              /\ Len(Past) = k
    BY PastIs
  <2>9. i + 1 \in 1..Len(Past) /\ Past[i + 1] = t
    <3>1. i \in Entries
      BY <1>1 DEF Entries
    <3> QED
      BY <2>8, <3>1 DEF t
  <2> QED
    BY <2>4, <2>7, <2>9, SamePast DEF E!Recall
<1>2. CASE ~(i \in 0..(Depth - 1) /\ history[i] # <<>>)
  <2>1. line' = line /\ p' = p /\ h' = h /\ history' = history /\ eol' = eol
    BY <1>2 DEF Recall
  <2> QED
    BY <2>1, SamePast DEF E!vars, TextLeft, TextRight
<1> QED
  BY <1>1, <1>2

\* A line is saved in front of the past ones, and the oldest is dropped.
LEMMA SaveIsKeep ==
  ASSUME IInv, NEW t \in Lines,
         t # <<>> => t[1] # Blank /\ t[Len(t)] # Blank,
         history' = Save(t), h' = -1
  PROVE  Past' = IF t = <<>> \/ (Past # <<>> /\ Past[1] = t) THEN Past
                 ELSE E!Keep(<<t>> \o Past)
<1>1. PICK k \in 0..Depth : /\ Entries = 0..(k - 1)
                            /\ Past = [i \in 1..k |-> history[i - 1]]
                            /\ Past \in Seq(Lines) /\ Len(Past) = k
  BY PastIs
<1>2. CASE t = <<>> \/ t = history[0]
  <2>1. Past' = Past
    BY <1>2, SamePast DEF Save
  <2>2. t # <<>> => Past # <<>> /\ Past[1] = t
    <3> SUFFICES ASSUME t # <<>> PROVE Past # <<>> /\ Past[1] = t
      OBVIOUS
    <3>1. 0 \in Entries
      BY <1>2 DEF Entries
    <3> QED
      BY <1>1, <1>2, <3>1
  <2> QED
    BY <2>1, <2>2
<1>3. CASE t # <<>> /\ t # history[0]
  <2>1. /\ history' \in [0..(Depth - 1) -> Lines]
        /\ \A i \in 0..(Depth - 1) : history'[i] = IF i = 0 THEN t ELSE history[i - 1]
    BY <1>3 DEF Save, IInv, TypeOK
  <2>2. HistoryPacked'
    BY SaveKeepsHistory
  <2>3. Gapless(history')
    BY <2>2 DEF HistoryPacked, Gapless, Entries
  <2>4. PICK m \in Nat : First(history', m)
    BY <2>1, <2>3, EntriesAreFirst
  <2>5. m = IF k < Depth THEN k + 1 ELSE Depth
    <3>1. /\ m \in 0..Depth
          /\ \A i \in 0..(Depth - 1) : history'[i] # <<>> <=> i \in 0..(m - 1)
      BY <2>4 DEF First, Filled
    <3>2. \A i \in 0..(Depth - 1) : history[i] # <<>> <=> i \in 0..(k - 1)
      BY <1>1 DEF Entries
    <3>3. m # 0
      BY <1>3, <2>1, <3>1, 0 \in 0..(Depth - 1)
    <3>4. CASE m < Depth
      <4>1. history'[m] = <<>> /\ history'[m - 1] # <<>> /\ history'[m] = history[m - 1]
        BY <2>1, <3>1, <3>3, <3>4
      <4>2. m - 1 >= k
        BY <3>2, <3>3, <3>4, <4>1
      <4>3. CASE m = 1
        BY <4>2, <4>3, <3>4
      <4>4. CASE m > 1
        <5>1. history'[m - 1] = history[m - 2] /\ m - 2 \in 0..(Depth - 1)
          BY <2>1, <3>4, <4>4
        <5> QED
          BY <3>2, <3>4, <4>1, <4>2, <4>4, <5>1
      <4> QED
        BY <3>1, <3>3, <4>3, <4>4
    <3>5. CASE m = Depth
      <4>1. CASE m = 1
        BY <3>5, <4>1
      <4>2. CASE m > 1
        <5>1. history'[m - 1] = history[m - 2] /\ m - 2 \in 0..(Depth - 1) /\ m - 1 \in 0..(m - 1)
          BY <2>1, <3>5, <4>2
        <5> QED
          BY <3>1, <3>2, <3>5, <4>2, <5>1
      <4> QED
        BY <3>1, <3>3, <4>1, <4>2
    <3> QED
      BY <3>1, <3>4, <3>5
  <2> DEFINE u == [i \in 1..m |-> history'[i - 1]]
             w == <<t>> \o Past
  <2>6. Past' = u /\ u \in Seq(Lines) /\ Len(u) = m
    <3>1. Past' = [i \in 1..Cardinality(Filled(history')) |-> history'[i - 1]]
      BY DEF Past, Entries, Filled
    <3> QED
      BY <2>4, <3>1 DEF First
  <2>7. \A i \in 1..m : u[i] = IF i = 1 THEN t ELSE Past[i - 1]
    <3> TAKE i \in 1..m
    <3>1. u[i] = history'[i - 1] /\ i - 1 \in 0..(Depth - 1)
      BY <2>5
    <3>2. i # 1 => i - 1 \in 1..k /\ history'[i - 1] = history[i - 1 - 1]
      BY <2>1, <2>5, <3>1
    <3> QED
      BY <1>1, <2>1, <3>1, <3>2
  <2>8. /\ w \in Seq(Lines) /\ Len(w) = k + 1
        /\ \A i \in 1..(k + 1) : w[i] = IF i = 1 THEN t ELSE Past[i - 1]
    <3> DEFINE e == <<t>>
    <3>1. e \in Seq(Lines) /\ Len(e) = 1 /\ e[1] = t
      OBVIOUS
    <3> HIDE DEF e
    <3>2. /\ e \o Past \in Seq(Lines) /\ Len(e \o Past) = Len(e) + Len(Past)
          /\ \A i \in 1..(Len(e) + Len(Past)) : (e \o Past)[i] =
                IF i <= Len(e) THEN e[i] ELSE Past[i - Len(e)]
      BY <1>1, <3>1, ConcatProperties
    <3> DEFINE v == e \o Past
    <3> HIDE DEF v
    <3>3. /\ v \in Seq(Lines) /\ Len(v) = k + 1
          /\ \A i \in 1..(k + 1) : v[i] = IF i <= 1 THEN e[i] ELSE Past[i - 1]
      BY <1>1, <3>1, <3>2 DEF v
    <3>4. \A i \in 1..(k + 1) : v[i] = IF i = 1 THEN t ELSE Past[i - 1]
      BY <3>1, <3>3
    <3> QED
      BY <3>3, <3>4 DEF v, e
  <2> HIDE DEF u, w
  <2>9. E!Keep(w) \in Seq(Lines) /\ Len(E!Keep(w)) = m /\ \A i \in 1..m : E!Keep(w)[i] = w[i]
    <3>1. CASE k < Depth
      BY <2>5, <2>8, <3>1 DEF E!Keep
    <3>2. CASE k = Depth
      <4> DEFINE v == SubSeq(w, 1, Depth)
      <4>1. \A i \in 1..Depth : w[i] \in Lines
        BY <2>8, <3>2
      <4>2. /\ v \in Seq(Lines) /\ Len(v) = IF 1 <= Depth THEN Depth - 1 + 1 ELSE 0
            /\ \A i \in 1..(Depth - 1 + 1) : v[i] = w[1 + i - 1]
        BY <4>1, SubSeqProperties
      <4> HIDE DEF v
      <4>3. Len(v) = Depth /\ \A i \in 1..Depth : v[i] = w[i]
        BY <4>2
      <4>4. E!Keep(w) = v
        BY <2>8, <3>2 DEF E!Keep, v
      <4> QED
        BY <2>5, <3>2, <4>2, <4>3, <4>4
    <3> QED
      BY <3>1, <3>2
  <2>10. \A i \in 1..m : u[i] = E!Keep(w)[i]
    <3> TAKE i \in 1..m
    <3>1. i \in 1..(k + 1)
      BY <2>5
    <3> QED
      BY <2>7, <2>8, <2>9, <3>1
  <2>11. u = E!Keep(w)
    BY <2>6, <2>9, <2>10, SeqEqual
  <2>12. ~(Past # <<>> /\ Past[1] = t)
    <3> SUFFICES ASSUME Past # <<>> PROVE Past[1] # t
      OBVIOUS
    <3>1. k > 0
      BY <1>1
    <3> QED
      BY <1>1, <1>3, <3>1
  <2> QED
    BY <1>3, <2>6, <2>11, <2>12 DEF w
<1> QED
  BY <1>2, <1>3

LEMMA EnterIsStep ==
  ASSUME IInv, NEW c \in Key, Enter(c)
  PROVE  E!Enter
<1>1. PICK n \in Nat :
           /\ line \in Cells /\ IsLen(line, n) /\ Strlen(line) = n
           /\ n <= Size /\ p \in Nat /\ p <= n
           /\ Parts(line, n, p, TextLeft, TextRight)
  BY TextIs
<1> DEFINE w == TextLeft \o TextRight
<1>2. w \in Seq(Printable) /\ Len(w) = n /\ \A i \in 1..n : w[i] = line[i - 1]
  <2> DEFINE l == TextLeft
             r == TextRight
  <2>1. /\ l \in Seq(Printable) /\ Len(l) = p /\ \A i \in 1..p : l[i] = line[i - 1]
        /\ r \in Seq(Printable) /\ Len(r) = n - p
        /\ \A i \in 1..(n - p) : r[i] = line[p + i - 1]
    BY <1>1 DEF Parts
  <2> HIDE DEF l, r
  <2>2. /\ l \o r \in Seq(Printable) /\ Len(l \o r) = Len(l) + Len(r)
        /\ \A i \in 1..(Len(l) + Len(r)) : (l \o r)[i] = IF i <= Len(l) THEN l[i] ELSE r[i - Len(l)]
    BY <2>1, ConcatProperties
  <2> DEFINE v == l \o r
  <2> HIDE DEF v
  <2>3. v \in Seq(Printable) /\ Len(v) = n
    BY <1>1, <2>1, <2>2 DEF v
  <2>4. ASSUME NEW i \in 1..n PROVE v[i] = line[i - 1]
    <3>1. v[i] = IF i <= p THEN l[i] ELSE r[i - p]
      BY <1>1, <2>1, <2>2 DEF v
    <3>2. CASE i <= p
      BY <1>1, <2>1, <3>1, <3>2
    <3>3. CASE i > p
      <4>1. i - p \in 1..(n - p) /\ p + (i - p) - 1 = i - 1
        BY <1>1, <3>3
      <4> QED
        BY <1>1, <2>1, <3>1, <3>3, <4>1
    <3> QED
      BY <1>1, <3>2, <3>3
  <2> QED
    BY <2>3, <2>4 DEF v, l, r
<1> HIDE DEF w
<1>3. PICK m \in 0..n : \E k \in 0..m :
         /\ line' \in Cells
         /\ IsLen(line', m - k)
         /\ \A i \in 0..((m - k) - 1) : line'[i] = line[i + k]
         /\ \A i \in (0..(k - 1)) \cup (m..(n - 1)) : line[i] = Blank
         /\ IF m = k THEN m = 0 ELSE line[k] # Blank /\ line[m - 1] # Blank
  BY <1>1, TrimIs DEF Enter
<1>4. PICK k \in 0..m :
         /\ line' \in Cells
         /\ IsLen(line', m - k)
         /\ \A i \in 0..((m - k) - 1) : line'[i] = line[i + k]
         /\ \A i \in (0..(k - 1)) \cup (m..(n - 1)) : line[i] = Blank
         /\ IF m = k THEN m = 0 ELSE line[k] # Blank /\ line[m - 1] # Blank
  BY <1>3
<1> DEFINE t == Str(line')
<1>5. /\ t \in Lines /\ t \in Seq(Printable) /\ Len(t) = m - k /\ m - k \in Nat
      /\ \A i \in 1..(m - k) : t[i] = line'[i - 1] /\ t[i] = w[i + k]
  <2>1. t \in Lines /\ Len(t) = m - k /\ t = [i \in 1..(m - k) |-> line'[i - 1]]
        /\ t \in [1..(m - k) -> Printable]
    BY <1>4, StrIs
  <2> HIDE DEF t
  <2>2. ASSUME NEW i \in 1..(m - k) PROVE t[i] = line'[i - 1] /\ t[i] = w[i + k]
    <3>1. i - 1 \in 0..((m - k) - 1) /\ i + k \in 1..n /\ i - 1 + k = i + k - 1
      BY <1>1
    <3> QED
      BY <1>2, <1>4, <2>1, <3>1
  <2>3. m - k \in Nat /\ t \in Seq(Printable)
    BY <2>1
  <2> QED
    BY <2>1, <2>2, <2>3
<1>6. t # <<>> => t[1] # Blank /\ t[Len(t)] # Blank
  <2> HIDE DEF t
  <2> SUFFICES ASSUME t # <<>> PROVE t[1] # Blank /\ t[Len(t)] # Blank
    OBVIOUS
  <2>1. m - k > 0 /\ 1 + k \in 1..n /\ m - k + k = m /\ m \in 1..n /\ 1 + k - 1 = k
    BY <1>1, <1>5
  <2>2. t[1] = w[1 + k] /\ t[m - k] = w[m]
    BY <1>5, <2>1
  <2>3. w[1 + k] = line[k] /\ w[m] = line[m - 1]
    BY <1>2, <2>1
  <2> QED
    BY <1>4, <1>5, <2>1, <2>2, <2>3
<1>7. E!IsTrim(t, w)
  <2> HIDE DEF t
  <2>1. E!Ink(w) = {i \in 1..n : w[i] # Blank}
    BY <1>2 DEF E!Ink
  <2>2. CASE m = k
    <3>1. ASSUME NEW i \in 1..n PROVE w[i] = Blank
      <4>1. i - 1 \in m..(n - 1)
        BY <1>4, <2>2
      <4> QED
        BY <1>2, <1>4, <4>1
    <3>2. E!Ink(w) = {} /\ t = <<>>
      BY <1>5, <2>1, <2>2, <3>1
    <3> QED
      BY <3>2 DEF E!IsTrim
  <2>3. CASE m # k
    <3>1. k + 1 \in 1..n /\ m \in 1..n /\ k + 1 - 1 = k
      BY <1>1, <2>3
    <3>2. k + 1 \in E!Ink(w) /\ m \in E!Ink(w)
      BY <1>2, <1>4, <2>1, <2>3, <3>1
    <3>3. ASSUME NEW j \in E!Ink(w) PROVE k + 1 <= j /\ j <= m
      <4>1. j \in 1..n /\ line[j - 1] # Blank
        BY <1>2, <2>1
      <4>2. j - 1 \notin (0..(k - 1)) \cup (m..(n - 1))
        BY <1>4, <4>1
      <4> QED
        BY <4>1, <4>2
    <3>4. t = SubSeq(w, k + 1, m)
      <4> DEFINE v == SubSeq(w, k + 1, m)
      <4>1. \A i \in (k + 1)..m : w[i] \in Printable
        BY <1>2
      <4>2. /\ v \in Seq(Printable) /\ Len(v) = IF k + 1 <= m THEN m - (k + 1) + 1 ELSE 0
            /\ \A i \in 1..(m - (k + 1) + 1) : v[i] = w[k + 1 + i - 1]
        BY <4>1, SubSeqProperties
      <4> HIDE DEF v
      <4>3. Len(v) = m - k /\ \A i \in 1..(m - k) : v[i] = w[i + k]
        BY <2>3, <4>2
      <4>4. t = v
        BY <1>5, <4>2, <4>3, SeqEqual
      <4> QED
        BY <4>4 DEF v
    <3> QED
      BY <3>2, <3>3, <3>4 DEF E!IsTrim
  <2> QED
    BY <2>2, <2>3
<1>8. TextLeft' = <<>> /\ TextRight' = t
  <2> HIDE DEF t
  <2>1. p' = 0 /\ p' \in 0..(m - k)
    BY <1>5 DEF Enter
  <2>2. Parts(line', m - k, p', <<>>, t)
    BY <1>5, <2>1 DEF Parts
  <2> QED
    BY <1>4, <1>5, <2>1, <2>2, StepIs
<1>9. Past' = IF t = <<>> \/ (Past # <<>> /\ Past[1] = t) THEN Past
              ELSE E!Keep(<<t>> \o Past)
  BY <1>5, <1>6, SaveIsKeep DEF Enter
<1> HIDE DEF t
<1> QED
  BY <1>7, <1>8, <1>9 DEF E!Enter, Enter, w

LEMMA RunIsStep ==
  ASSUME IInv, Run
  PROVE  E!Run
<1>1. line' \in Cells /\ IsLen(line', 0)
  BY LineIs, RunIs DEF Run
<1>2. p' = 0 /\ p' \in 0..0
  BY DEF Run, IInv
<1>3. Parts(line', 0, p', <<>>, <<>>)
  BY <1>2 DEF Parts
<1>4. TextLeft' = <<>> /\ TextRight' = <<>>
  BY <1>1, <1>2, <1>3, 0 \in Nat, StepIs
<1> QED
  BY <1>4, SamePast DEF E!Run, Run

LEMMA InitIsInit == Init => E!Init
<1> SUFFICES ASSUME Init PROVE E!Init
  OBVIOUS
<1>1. line \in Cells /\ IsLen(line, 0) /\ p \in 0..0
  BY DEF Init, IsLen, Cells
<1>2. Parts(line, 0, p, LeftOf(line, p), RightOf(line, p))
  BY <1>1, PartsAre
<1>3. Parts(line, 0, p, <<>>, <<>>)
  BY DEF Init, Parts
<1>4. LeftOf(line, p) = <<>> /\ RightOf(line, p) = <<>>
  BY <1>2, <1>3, PartsAreUnique
<1>5. Past = <<>>
  <2>1. Entries = {}
    BY DEF Init, Entries
  <2>2. Cardinality(Entries) = 0
    BY <2>1, FS_EmptySet
  <2> QED
    BY <2>2 DEF Past
<1> QED
  BY <1>4, <1>5 DEF Init, E!Init, TextLeft, TextRight, LeftOf, RightOf

LEMMA KeyIsStep ==
  ASSUME IInv, readline
  PROVE  E!Next \/ UNCHANGED E!vars
<1>1. PICK c \in Key : \/ Escape(c) \/ Del(c) \/ Right(c) \/ Left(c)
                       \/ Up(c) \/ Down(c) \/ Backspace(c) \/ Insert(c)
                       \/ Enter(c) \/ Ignore(c)
  BY DEF readline, Press
<1>2. ~eol /\ h \in Int
  BY DEF readline, IInv, TypeOK
<1>3. CASE Escape(c) \/ Ignore(c)
  <2>1. line' = line /\ p' = p /\ h' = h /\ history' = history /\ eol' = eol
    BY <1>3 DEF Escape, Ignore
  <2> QED
    BY <2>1, SamePast DEF E!vars, TextLeft, TextRight
<1>4. CASE Up(c)
  <2>1. E!Recall(h + 1 + 1) \/ UNCHANGED E!vars
    BY <1>2, <1>4, RecallIsStep DEF Up
  <2> QED
    BY <1>2, <2>1 DEF E!Next, E!Edit, E!Up
<1>5. CASE Down(c)
  <2>1. E!Recall(h - 1 + 1) \/ UNCHANGED E!vars
    BY <1>2, <1>5, RecallIsStep DEF Down
  <2>2. h - 1 + 1 = h + 1 - 1
    BY <1>2
  <2> QED
    BY <1>2, <2>1, <2>2 DEF E!Next, E!Edit, E!Down
<1> QED
  BY <1>1, <1>2, <1>3, <1>4, <1>5, InsertIsStep, BackspaceIsStep, DelIsStep, LeftIsStep,
     RightIsStep, EnterIsStep DEF E!Next, E!Edit

(* readline, with its array, its cursor index and its escape sequences, is   *)
(* an editor of the text before and after a cursor and of a list of past    *)
(* lines, for lines and histories of any size.                              *)
THEOREM Refinement == Spec => ImplementsEditor
<1>1. Init => E!Init
  BY InitIsInit
<1>2. IInv /\ [Next]_vars => [E!Next]_(E!vars)
  <2> SUFFICES ASSUME IInv, [Next]_vars PROVE E!Next \/ UNCHANGED E!vars
    OBVIOUS
  <2>1. CASE UNCHANGED vars
    BY <2>1, SamePast DEF vars, E!vars, TextLeft, TextRight
  <2>2. CASE Run
    BY <2>2, RunIsStep DEF Run, E!Next
  <2> QED
    BY <2>1, <2>2, KeyIsStep DEF Next
<1> QED
  BY <1>1, <1>2, AlwaysIInv, PTL DEF Spec, ImplementsEditor, E!Spec
=============================================================================
