----------------------------- MODULE Zone2Proofs -----------------------------
(***************************************************************************)
(* Zone 2 keeps its types, takes from its inbox what there is of a message,  *)
(* each once, and sleeps only on late input.                                *)
(***************************************************************************)
EXTENDS Zone2, SequenceTheorems, TLAPS

\* The number of the latest piece of zone z that has left its mailbox
Left(z) == IF mem[z] = NoPiece THEN last[z].n ELSE last[z].n - 1

\* The first piece of the message of the piece that leaves the mailbox next
Due(z) == IF mem[z] = NoPiece THEN First(z) ELSE last[z].first

\* A mailbox has the piece that was sent last.
MailInOrder ==
  \A z \in Zones : /\ last[z] = NoPiece \/ last[z].first \in 1..last[z].n
                   /\ mem[z] # NoPiece => mem[z] = last[z] /\ last[z].n > 0

\* The inbox of zone z has pieces that have left its mailbox, in their order;
\* one that ends a message is before the message that is due.
Ordered(z) ==
  \A k \in 1..len[z] :
    /\ msg[z][k].n \in 1..Left(z) /\ msg[z][k].first \in 1..msg[z][k].n
    /\ \A j \in 1..(k - 1) : msg[z][j].n < msg[z][k].n
    /\ msg[z][k].kind # "open" => msg[z][k].n < Due(z)

InInbox(z, n) == \E k \in 1..len[z] : msg[z][k].n = n

Lost(z) == taken[z] \cup dropped[z]

\* Of the message that is due, every piece that has left the mailbox is in the
\* inbox or lost.
DueAccounted(z) == \A n \in Due(z)..Left(z) : n \in Lost(z) \/ InInbox(z, n)

\* Behind the first piece in the inbox only recv has taken any, and the pieces
\* of its message before it are lost.
InboxAccounted(z) ==
  len[z] > 0 =>
    /\ \A n \in msg[z][1].n..Left(z) : n \in taken[z] \/ InInbox(z, n)
    /\ \A n \in msg[z][1].first..(msg[z][1].n - 1) : n \in Lost(z)

Accounted(z) == Ordered(z) /\ DueAccounted(z) /\ InboxAccounted(z)

InboxInOrder == \A z \in Zones : Accounted(z)

LastShown == shown.pieces[Len(shown.pieces)].n

\* What was shown is behind everything that can still be shown, except while
\* the zone starts again: then crt0 clears the inbox first.
ShownIsPast ==
  /\ shown.zone \in Zones /\ shown.pieces \in Seq(Piece)
  /\ shown.pieces # <<>> =>
       /\ LastShown <= Left(shown.zone)
       /\ pc \notin {"start", "nowhere"} =>
            \A k \in 1..len[shown.zone] : msg[shown.zone][k].n > LastShown

\* What the tests of main have found empty is empty, but for late input.
FoundEmpty ==
  /\ pc \in {"inbox", "wfi", "asleep"} /\ queue # <<>> => "uart" \in late
  /\ pc \in {"wfi", "asleep"} => \A z \in Zones : len[z] # 0 => "msi" \in late

IInv == TypeOK /\ MailInOrder /\ InboxInOrder /\ ShownIsPast /\ FoundEmpty
-----------------------------------------------------------------------------
LEMMA NoPieceIsPiece == NoPiece \in Piece /\ NoPiece.n = 0
  BY Zone2Assumption DEF NoPiece, Piece

LEMMA FirstZone == 1 \in Zones
  BY Zone2Assumption DEF Zones

(* A burst of uart_isr fills the buffer up to the room it has.             *)
LEMMA PutKeepsType ==
  ASSUME TypeOK, NEW bytes \in Q!Bursts, Q!Put(bytes)
  PROVE  /\ queue' \in Seq(Byte) /\ got' \in Byte
         /\ room' \in 0..(Capacity - Len(queue'))
<1> DEFINE fits == IF Len(bytes) <= room THEN Len(bytes) ELSE room
           part == SubSeq(bytes, 1, fits)
<1>1. bytes \in Seq(Byte) /\ Len(bytes) \in Nat /\ \A k \in 1..Len(bytes) : bytes[k] \in Byte
  BY Zone2Assumption DEF Q!Bursts
<1>2. queue \in Seq(Byte) /\ got \in Byte /\ room \in 0..(Capacity - Len(queue)) /\ Len(queue) \in Nat
  BY DEF TypeOK
<1>3. room \in Nat /\ Capacity \in Int
  BY <1>2, Zone2Assumption
<1>4. fits \in Nat /\ fits <= Len(bytes) /\ fits <= room
  BY <1>1, <1>3
<1>5. part \in Seq(Byte) /\ Len(part) = fits
  <2>1. \A k \in 1..fits : bytes[k] \in Byte
    BY <1>1, <1>4
  <2> HIDE DEF fits
  <2>2. part \in Seq(Byte) /\ Len(part) = IF 1 <= fits THEN fits - 1 + 1 ELSE 0
    BY <1>4, <2>1, SubSeqProperties DEF part
  <2> QED BY <1>4, <2>2
<1>6. queue' = queue \o part /\ room' = room - fits /\ got' = got
  BY <1>1, <1>3 DEF Q!Put
<1> HIDE DEF fits, part
<1>7. queue' \in Seq(Byte) /\ Len(queue') = Len(queue) + fits
  BY <1>2, <1>5, <1>6, ConcatProperties
<1> QED BY <1>2, <1>3, <1>4, <1>6, <1>7

(* readline takes one byte.                                                *)
LEMMA GetKeepsType ==
  ASSUME TypeOK, Q!Get
  PROVE  /\ queue' \in Seq(Byte) /\ got' \in Byte
         /\ room' \in 0..(Capacity - Len(queue'))
<1>1. queue \in Seq(Byte) /\ room \in 0..(Capacity - Len(queue)) /\ queue # <<>> /\ Len(queue) \in Nat
  BY DEF TypeOK, Q!Get
<1>2. queue' \in Seq(Byte) /\ Len(queue') = Len(queue) - 1 /\ got' \in Byte
  <2>1. Len(queue) \in Nat \ {0}
    BY <1>1, EmptySeq
  <2> QED BY <1>1, <2>1, HeadTailProperties, ElementOfSeq DEF Q!Get
<1>3. room' \in 0..(Capacity - Len(queue'))
  <2>1. CASE queue' = <<>>
    <3>1. room' = Capacity
      BY <2>1 DEF Q!Get
    <3>2. Len(queue') = 0
      BY <2>1, EmptySeq
    <3> QED BY <3>1, <3>2, Zone2Assumption
  <2>2. CASE queue' # <<>>
    BY <2>2, <1>1, <1>2, Zone2Assumption DEF Q!Get
  <2> QED BY <2>1, <2>2
<1> QED BY <1>2, <1>3
-----------------------------------------------------------------------------
(* The piece a zone sends next.                                            *)
LEMMA PostSends ==
  ASSUME TypeOK, NEW z \in Zones, Post(z)
  PROVE  \E p \in Piece : /\ p.n = last[z].n + 1 /\ p.first = First(z)
                          /\ last' = [last EXCEPT ![z] = p] /\ mem' = [mem EXCEPT ![z] = p]
<1>1. last \in [Zones -> Piece] /\ last[z].n \in 0..MaxSends /\ last[z].first \in 0..MaxSends
  BY DEF TypeOK, Piece
<1>2. last[z].n + 1 \in 0..MaxSends
  BY <1>1, Zone2Assumption DEF Post
<1>3. First(z) \in 0..MaxSends
  BY <1>1, <1>2 DEF First
<1>4. PICK k \in Text :
        last' = [last EXCEPT ![z] = [n |-> last[z].n + 1, kind |-> k, first |-> First(z)]]
  BY <1>1 DEF Post
<1> DEFINE p == [n |-> last[z].n + 1, kind |-> k, first |-> First(z)]
<1>5. p \in Piece /\ p.n = last[z].n + 1 /\ p.first = First(z)
  BY <1>2, <1>3, Zone2Assumption DEF Piece
<1>6. last'[z] = p /\ mem' = [mem EXCEPT ![z] = last'[z]]
  BY <1>1, <1>4 DEF Post
<1> HIDE DEF p
<1>7. last' = [last EXCEPT ![z] = p] /\ mem' = [mem EXCEPT ![z] = p]
  BY <1>4, <1>6 DEF p
<1> QED BY <1>5, <1>7

(* msg_handler's scan finds the first terminator among the pieces counted.  *)
LEMMA EndIsFirst ==
  ASSUME TypeOK, NEW z \in Zones, End(z) # 0
  PROVE  /\ End(z) \in 1..len[z] /\ msg[z][End(z)].kind # "open"
         /\ \A j \in 1..(End(z) - 1) : msg[z][j].kind = "open"
<1>1. \E k \in 1..len[z] : Ended(z, k) /\ msg[z][1].kind # "nul"
  BY DEF End
<1>2. End(z) = CHOOSE k \in 1..len[z] : Ended(z, k)
  BY <1>1 DEF End
<1>3. End(z) \in 1..len[z] /\ Ended(z, End(z))
  BY <1>1, <1>2
<1> QED BY <1>3 DEF Ended

(* Every handler of zone 2 and every step of its main loop keeps the types. *)
LEMMA NextKeepsType == TypeOK /\ [Next]_vars => TypeOK'
<1> SUFFICES ASSUME TypeOK, [Next]_vars PROVE TypeOK'
  OBVIOUS
<1> USE Zone2Assumption, NoPieceIsPiece, FirstZone
<1> DEFINE Buffered == /\ queue' \in Seq(Byte) /\ got' \in Byte
                       /\ room' \in 0..(Capacity - Len(queue'))
           Controls == /\ mie' \subseteq {"msi", "uart", "tmr"} /\ MIE' \in {0, 1}
                       /\ mtvec' \in {{}, {"msi", "uart", "tmr"}}
                       /\ pc' \in {"start", "init", "read", "cmd", "trap", "msgs", "msg",
                                   "tests", "inbox", "wfi", "asleep", "nowhere"}
                       /\ zone' \in Zones /\ late' \subseteq {"msi", "uart", "tmr"}
           Mails == mem' \in [Zones -> Piece] /\ last' \in [Zones -> Piece]
           Histories == /\ taken' \in [Zones -> SUBSET (0..MaxSends)]
                        /\ dropped' \in [Zones -> SUBSET (0..MaxSends)]
           Inboxes == /\ msg' \in [Zones -> [1..INBOX_SIZE -> Piece]]
                      /\ len' \in [Zones -> 0..INBOX_SIZE]
<1>a. /\ mem \in [Zones -> Piece] /\ last \in [Zones -> Piece]
      /\ taken \in [Zones -> SUBSET (0..MaxSends)]
      /\ dropped \in [Zones -> SUBSET (0..MaxSends)]
  BY DEF TypeOK
<1>b. /\ \A z \in Zones : msg[z] \in [1..INBOX_SIZE -> Piece] /\ len[z] \in 0..INBOX_SIZE
      /\ msg \in [Zones -> [1..INBOX_SIZE -> Piece]] /\ len \in [Zones -> 0..INBOX_SIZE]
  BY DEF TypeOK
<1>c. /\ mie \subseteq {"msi", "uart", "tmr"} /\ MIE \in {0, 1}
      /\ mtvec \in {{}, {"msi", "uart", "tmr"}}
      /\ zone \in Zones /\ late \subseteq {"msi", "uart", "tmr"}
  BY DEF TypeOK
<1>0. SUFFICES Buffered /\ Controls /\ Mails /\ Inboxes /\ Histories
  BY DEF TypeOK
<1>1. Buffered
  <2>1. CASE UNCHANGED buffer
    BY <2>1 DEF buffer, TypeOK
  <2>2. CASE \E bytes \in Q!Bursts : Q!Put(bytes)
    BY <2>2, PutKeepsType
  <2>3. CASE Q!Get
    BY <2>3, GetKeepsType
  <2>4. CASE Q!Clear
    BY <2>4, EmptySeq DEF Q!Clear
  <2> QED BY <2>1, <2>2, <2>3, <2>4
       DEF Next, main, cmd_handler, msg_handler, msi_isr, uart_isr, tmr_isr, NoHandler, TrapKey,
           Post, Start, Setup, GetByte, NoByte, Reply, Recv, Timer, Restart, Trap, Masked, Serve,
           Skip, BufferEmpty, InboxEmpty, Wfi, vars
<1>2. Mails
  <2>1. CASE UNCHANGED mail
    BY <2>1 DEF mail, TypeOK
  <2>2. ASSUME NEW z \in Zones, Post(z) PROVE Mails
    <3>1. PICK p \in Piece : last' = [last EXCEPT ![z] = p] /\ mem' = [mem EXCEPT ![z] = p]
      BY <2>2, PostSends
    <3> QED BY <1>a, <3>1
  <2>3. CASE Recv
    BY <2>3 DEF Recv, TypeOK
  <2>4. CASE msi_isr
    BY <2>4 DEF msi_isr, TypeOK
  <2> QED BY <2>1, <2>2, <2>3, <2>4
       DEF Next, main, cmd_handler, msg_handler, uart_isr, tmr_isr, NoHandler, TrapKey,
           Start, Setup, GetByte, NoByte, Reply, Timer, Restart, Trap, Masked, Serve,
           Skip, BufferEmpty, InboxEmpty, Wfi, vars
<1>3. Inboxes
  <2>1. CASE UNCHANGED inbox
    BY <2>1 DEF inbox, TypeOK
  <2>2. CASE msi_isr
    <3> DEFINE stored(z) == [k \in DOMAIN msg[z] \cup {Len0(z) + 1} |->
                               IF k = Len0(z) + 1 THEN mem[z] ELSE msg[z][k]]
    <3>1. \A z \in Zones : Len0(z) + 1 \in 1..INBOX_SIZE
      BY <1>b DEF Len0, INBOX_SIZE
    <3>2. ASSUME NEW z \in Zones PROVE stored(z) \in [1..INBOX_SIZE -> Piece]
      <4>1. DOMAIN msg[z] \cup {Len0(z) + 1} = 1..INBOX_SIZE
        BY <3>1, <1>b
      <4>2. mem[z] \in Piece /\ \A k \in 1..INBOX_SIZE : msg[z][k] \in Piece
        BY <1>a, <1>b
      <4> QED BY <4>1, <4>2
    <3>3. msg' = [z \in Zones |-> IF mem[z] = NoPiece THEN msg[z] ELSE stored(z)]
      BY <2>2 DEF msi_isr
    <3> HIDE DEF stored
    <3>4. msg' \in [Zones -> [1..INBOX_SIZE -> Piece]]
      BY <3>2, <3>3, <1>b
    <3>5. len' = [z \in Zones |-> IF mem[z] = NoPiece THEN len[z] ELSE Len0(z) + 1]
      BY <2>2 DEF msi_isr
    <3> QED BY <3>1, <3>4, <3>5, <1>b DEF INBOX_SIZE
  <2>3. CASE Start
    BY <2>3 DEF Start, INBOX_SIZE
  <2>4. CASE Serve
    BY <2>4, <1>b DEF Serve, INBOX_SIZE
  <2> QED BY <2>1, <2>2, <2>3, <2>4
       DEF Next, main, cmd_handler, msg_handler, uart_isr, tmr_isr, NoHandler, TrapKey,
           Post, Setup, GetByte, NoByte, Reply, Recv, Timer, Restart, Trap, Masked,
           Skip, BufferEmpty, InboxEmpty, Wfi, vars, mail
<1>4. Controls
  <2>1. CASE msi_isr \/ uart_isr \/ tmr_isr \/ NoHandler \/ TrapKey \/ \E z \in Zones : Post(z)
    BY <2>1 DEF msi_isr, uart_isr, tmr_isr, Handler, NoHandler, TrapKey, Goto, Post, csrs, TypeOK
  <2>2. CASE Start \/ Setup \/ GetByte \/ NoByte
    BY <2>2 DEF Start, Setup, GetByte, NoByte, Goto, csrs, TypeOK
  <2>3. CASE cmd_handler
    BY <2>3 DEF cmd_handler, Reply, Recv, Timer, Restart, Trap, Goto, csrs, TypeOK
  <2>4. CASE Masked \/ Serve \/ Skip
    <3> DEFINE Advanced == /\ mie' \subseteq {"msi", "uart", "tmr"} /\ zone' \in Zones
                           /\ pc' \in {"msg", "tests"}
    <3>1. NextZone => Advanced
      <4>1. zone < LastZone => zone + 1 \in Zones
        BY <1>c DEF Zones
      <4>2. mie \cup {"msi"} \subseteq {"msi", "uart", "tmr"}
        BY <1>c
      <4>3. CASE zone < LastZone
        BY <4>1, <4>3, <1>c DEF NextZone
      <4>4. CASE ~(zone < LastZone)
        BY <4>2, <4>4 DEF NextZone
      <4> QED BY <4>3, <4>4
    <3> HIDE DEF Advanced
    <3>2. CASE Masked
      BY <3>2, <1>c DEF Masked, Goto
    <3>3. CASE Serve
      BY <3>1, <3>3, <1>c DEF Serve, Advanced
    <3>4. CASE Skip
      BY <3>1, <3>4, <1>c DEF Skip, Advanced
    <3> QED BY <2>4, <3>2, <3>3, <3>4
  <2>5. CASE BufferEmpty \/ InboxEmpty \/ Wfi
    BY <2>5 DEF BufferEmpty, InboxEmpty, Wfi, csrs, TypeOK
  <2>6. CASE UNCHANGED vars
    BY <2>6 DEF vars, csrs, TypeOK
  <2> QED BY <2>1, <2>2, <2>3, <2>4, <2>5, <2>6 DEF Next, main, msg_handler
<1>5. Histories
  <2>0. ASSUME NEW z \in Zones, NEW k \in Nat \ {0} PROVE Numbers(z, k) \subseteq 0..MaxSends
    <3> SUFFICES ASSUME NEW m \in k..len[z] PROVE msg[z][m].n \in 0..MaxSends
      BY DEF Numbers
    <3>1. m \in 1..INBOX_SIZE
      BY <1>b DEF INBOX_SIZE
    <3>2. msg[z][m] \in Piece
      BY <1>b, <3>1
    <3> QED BY <3>2 DEF Piece
  <2>1. CASE UNCHANGED history
    BY <1>a, <2>1 DEF history
  <2>2. CASE Recv
    <3>1. PICK z \in Zones : taken' = [taken EXCEPT ![z] = taken[z] \cup {mem[z].n}]
      BY <1>a, <2>2 DEF Recv
    <3>2. mem[z].n \in 0..MaxSends /\ dropped' = dropped
      BY <1>a, <2>2 DEF Recv, Piece
    <3> QED BY <1>a, <3>1, <3>2
  <2>3. CASE msi_isr
    <3>1. \A z \in Zones : Numbers(z, 1) \subseteq 0..MaxSends
      BY <2>0
    <3> HIDE DEF Numbers
    <3> QED BY <1>a, <2>3, <3>1 DEF msi_isr
  <2>4. CASE Start
    <3>1. \A z \in Zones : Numbers(z, 1) \subseteq 0..MaxSends
      BY <2>0
    <3> QED BY <1>a, <2>4, <3>1 DEF Start
  <2>5. CASE Serve
    <3>1. End(zone) \in 1..len[zone]
      BY <1>c, <2>5, EndIsFirst DEF Serve
    <3>2. End(zone) + 1 \in Nat \ {0}
      BY <3>1, <1>b, <1>c DEF INBOX_SIZE
    <3>3. Numbers(zone, End(zone) + 1) \subseteq 0..MaxSends
      BY <2>0, <3>2, <1>c
    <3>4. \/ dropped' = dropped
          \/ dropped' = [dropped EXCEPT ![zone] = dropped[zone] \cup Numbers(zone, End(zone) + 1)]
      BY <2>5 DEF Serve
    <3>5. taken' = taken
      BY <2>5 DEF Serve
    <3> QED BY <1>a, <3>3, <3>4, <3>5
  <2> QED BY <2>1, <2>2, <2>3, <2>4, <2>5
       DEF Next, main, cmd_handler, msg_handler, uart_isr, tmr_isr, NoHandler, TrapKey,
           Post, Setup, GetByte, NoByte, Reply, Timer, Restart, Trap, Masked,
           Skip, BufferEmpty, InboxEmpty, Wfi, vars
<1> QED BY <1>1, <1>2, <1>3, <1>4, <1>5
-----------------------------------------------------------------------------
(* Only these steps change a mailbox or the inbox.                         *)
LEMMA MailSteps ==
  [Next]_vars => \/ UNCHANGED <<mem, last, msg, len, taken, dropped>>
                 \/ \E z \in Zones : Post(z)
                 \/ Recv \/ msi_isr \/ Start \/ Serve
  BY DEF Next, main, cmd_handler, msg_handler, uart_isr, tmr_isr, NoHandler, TrapKey, Setup,
         GetByte, NoByte, Reply, Timer, Restart, Trap, Masked, Skip, BufferEmpty,
         InboxEmpty, Wfi, vars, mail, inbox, history

(* A piece that is put into a mailbox has not left it.                     *)
LEMMA PostEffect ==
  ASSUME TypeOK, MailInOrder, NEW z \in Zones, Post(z)
  PROVE  /\ MailInOrder' /\ msg' = msg /\ len' = len /\ taken' = taken /\ dropped' = dropped
         /\ \A y \in Zones : Left(y)' = Left(y) /\ Due(y)' = Due(y)
<1>1. mem \in [Zones -> Piece] /\ last \in [Zones -> Piece]
  BY DEF TypeOK
<1>2. PICK p \in Piece : /\ p.n = last[z].n + 1 /\ p.first = First(z)
                         /\ last' = [last EXCEPT ![z] = p] /\ mem' = [mem EXCEPT ![z] = p]
  BY PostSends
<1>3. mem[z] = NoPiece /\ UNCHANGED <<msg, len, taken, dropped>>
  BY DEF Post, inbox, history
<1>4. last[z].n \in Nat /\ First(z) \in 1..(last[z].n + 1)
  <2>1. last[z].n \in Nat
    BY <1>1, Zone2Assumption DEF Piece
  <2>2. CASE last[z] = NoPiece
    BY <2>1, <2>2 DEF First, NoPiece
  <2>3. CASE last[z].first \in 1..last[z].n
    BY <2>1, <2>3 DEF First
  <2> QED BY <2>1, <2>2, <2>3 DEF MailInOrder
<1>5. p # NoPiece
  BY <1>2, <1>4, NoPieceIsPiece
<1>6. mem'[z] = p /\ last'[z] = p /\ \A y \in Zones \ {z} : mem'[y] = mem[y] /\ last'[y] = last[y]
  BY <1>1, <1>2
<1>7. MailInOrder'
  BY <1>2, <1>4, <1>6 DEF MailInOrder
<1>8. Left(z)' = Left(z) /\ Due(z)' = Due(z)
  <2>1. p.n - 1 = last[z].n
    BY <1>2, <1>4
  <2> QED BY <1>2, <1>3, <1>5, <1>6, <2>1 DEF Left, Due
<1>9. \A y \in Zones \ {z} : Left(y)' = Left(y) /\ Due(y)' = Due(y)
  BY <1>6 DEF Left, Due, First
<1> QED BY <1>3, <1>7, <1>8, <1>9

\* What is known of zone y stays as it is.
Same(y) == /\ Left(y)' = Left(y) /\ Due(y)' = Due(y) /\ taken'[y] = taken[y]
           /\ dropped'[y] = dropped[y] /\ msg'[y] = msg[y] /\ len'[y] = len[y]

\* The piece of zone y leaves its mailbox; behind the last piece of a message
\* the next message is due.
Leaves(y) == /\ mem[y] # NoPiece /\ mem'[y] = NoPiece /\ Left(y)' = Left(y) + 1
             /\ last[y].n = Left(y) + 1 /\ last[y].first = Due(y)
             /\ Due(y)' = IF last[y].kind = "open" THEN Due(y) ELSE Left(y) + 2

LEMMA LeavesIs ==
  ASSUME TypeOK, MailInOrder, NEW y \in Zones, mem[y] # NoPiece, mem'[y] = NoPiece,
         last'[y] = last[y]
  PROVE  Leaves(y)
<1>1. last[y].n \in Nat
  BY Zone2Assumption DEF TypeOK, Piece
<1>2. Left(y) = last[y].n - 1 /\ Left(y)' = last[y].n /\ Due(y) = last[y].first /\ Due(y)' = First(y)'
  BY DEF Left, Due
<1>3. First(y)' = IF last[y].kind = "open" THEN last[y].first ELSE last[y].n + 1
  BY DEF First
<1> QED BY <1>1, <1>2, <1>3 DEF Leaves

LEMMA RecvEffect ==
  ASSUME TypeOK, MailInOrder, Recv
  PROVE  /\ MailInOrder' /\ msg' = msg /\ len' = len /\ dropped' = dropped
         /\ \A y \in Zones : \/ Same(y)
                             \/ Leaves(y) /\ taken'[y] = taken[y] \cup {Left(y) + 1}
<1>1. mem \in [Zones -> Piece] /\ taken \in [Zones -> SUBSET (0..MaxSends)]
  BY DEF TypeOK
<1>2. PICK z \in Zones : /\ mem[z] # NoPiece
                         /\ mem' = [mem EXCEPT ![z] = NoPiece]
                         /\ taken' = [taken EXCEPT ![z] = taken[z] \cup {mem[z].n}]
  BY <1>1 DEF Recv
<1>3. last' = last /\ msg' = msg /\ len' = len /\ dropped' = dropped
  BY DEF Recv, inbox
<1>4. mem'[z] = NoPiece /\ \A y \in Zones \ {z} : mem'[y] = mem[y] /\ taken'[y] = taken[y]
  BY <1>1, <1>2
<1>5. MailInOrder'
  BY <1>3, <1>4 DEF MailInOrder
<1>6. Leaves(z)
  BY <1>2, <1>3, <1>4, LeavesIs
<1>7. taken'[z] = taken[z] \cup {Left(z) + 1}
  BY <1>1, <1>2, <1>6 DEF MailInOrder, Leaves
<1>8. \A y \in Zones \ {z} : Same(y)
  BY <1>3, <1>4 DEF Same, Left, Due, First
<1> QED BY <1>3, <1>5, <1>6, <1>7, <1>8

\* The piece of zone y comes behind those in its inbox, or in front if that is
\* full, which loses what it had.
Stores(y) ==
  /\ Leaves(y) /\ taken'[y] = taken[y]
  /\ len'[y] = Len0(y) + 1 /\ msg'[y][len'[y]] = last[y]
  /\ \A k \in 1..Len0(y) : msg'[y][k] = msg[y][k]
  /\ dropped'[y] = IF Len0(y) = 0 THEN dropped[y] \cup Numbers(y, 1) ELSE dropped[y]

(* The message handler takes the pieces of all mailboxes.                  *)
LEMMA MsiEffect ==
  ASSUME TypeOK, MailInOrder, msi_isr
  PROVE  MailInOrder' /\ \A y \in Zones : Same(y) \/ Stores(y)
<1>1. /\ mem \in [Zones -> Piece] /\ last \in [Zones -> Piece]
      /\ msg \in [Zones -> [1..INBOX_SIZE -> Piece]] /\ len \in [Zones -> 0..INBOX_SIZE]
  BY DEF TypeOK
<1>2. /\ mem' = [z \in Zones |-> NoPiece] /\ last' = last /\ taken' = taken
      /\ len' = [z \in Zones |-> IF mem[z] = NoPiece THEN len[z] ELSE Len0(z) + 1]
  BY DEF msi_isr
<1>d. dropped' = [z \in Zones |-> IF mem[z] # NoPiece /\ Len0(z) = 0
                                  THEN dropped[z] \cup Numbers(z, 1) ELSE dropped[z]]
  BY DEF msi_isr
<1>3. MailInOrder'
  BY <1>2 DEF MailInOrder
<1>4. ASSUME NEW y \in Zones, mem[y] = NoPiece PROVE Same(y)
  <2>1. msg'[y] = msg[y] /\ len'[y] = len[y] /\ mem'[y] = mem[y]
    BY <1>2, <1>4 DEF msi_isr
  <2>2. dropped'[y] = dropped[y]
    BY <1>d, <1>4
  <2> QED BY <1>2, <2>1, <2>2 DEF Same, Left, Due, First
<1>5. ASSUME NEW y \in Zones, mem[y] # NoPiece PROVE Stores(y)
  <2>1. Leaves(y)
    BY <1>2, <1>5, LeavesIs
  <2>2. Len0(y) \in 0..(INBOX_SIZE - 1) /\ 1..Len0(y) \subseteq 1..INBOX_SIZE
    <3>1. len[y] \in 0..4
      BY <1>1 DEF INBOX_SIZE
    <3>2. Len0(y) \in 0..3
      BY <3>1 DEF Len0, INBOX_SIZE
    <3> HIDE DEF Len0
    <3> QED BY <3>2 DEF INBOX_SIZE
  <2>3. msg'[y] = [k \in DOMAIN msg[y] \cup {Len0(y) + 1} |->
                     IF k = Len0(y) + 1 THEN mem[y] ELSE msg[y][k]]
    BY <1>5 DEF msi_isr
  <2>4. msg[y] \in [1..INBOX_SIZE -> Piece] /\ len'[y] = Len0(y) + 1
    BY <1>1, <1>2, <1>5
  <2>5. msg'[y][Len0(y) + 1] = mem[y] /\ \A k \in 1..Len0(y) : msg'[y][k] = msg[y][k]
    <3>1. Len0(y) \in Int /\ DOMAIN msg[y] = 1..INBOX_SIZE
      BY <2>2, <2>4
    <3>2. \A k \in 1..Len0(y) : k \in DOMAIN msg[y] /\ k # Len0(y) + 1
      BY <2>2, <3>1
    <3> QED BY <2>3, <3>2, Zenon
  <2>6. dropped'[y] = IF Len0(y) = 0 THEN dropped[y] \cup Numbers(y, 1) ELSE dropped[y]
    BY <1>d, <1>5
  <2>7. mem[y] = last[y] /\ taken'[y] = taken[y]
    BY <1>2, <1>5 DEF MailInOrder
  <2> QED BY <2>1, <2>4, <2>5, <2>6, <2>7 DEF Stores
<1> QED BY <1>3, <1>4, <1>5

LEMMA InboxTypes ==
  ASSUME TypeOK, NEW y \in Zones
  PROVE  /\ Left(y) \in Int /\ Due(y) \in Int /\ len[y] \in 0..4
         /\ \A k \in 1..len[y] : msg[y][k] \in Piece /\ msg[y][k].n \in Nat /\ msg[y][k].first \in Nat
<1>1. last[y] \in Piece /\ last[y].n \in Nat /\ last[y].first \in Nat
  BY Zone2Assumption DEF TypeOK, Piece
<1>2. Left(y) \in Int /\ Due(y) \in Int
  BY <1>1 DEF Left, Due, First
<1>3. len[y] \in 0..4 /\ msg[y] \in [1..4 -> Piece]
  BY DEF TypeOK, INBOX_SIZE
<1>4. \A k \in 1..len[y] : k \in 1..4
  BY <1>3
<1>5. \A k \in 1..len[y] : msg[y][k] \in Piece
  BY <1>3, <1>4
<1> QED BY <1>2, <1>3, <1>5, Zone2Assumption DEF Piece

LEMMA SameKeeps ==
  ASSUME NEW y \in Zones, Accounted(y), Same(y)
  PROVE  Accounted(y)'
  BY DEF Accounted, Ordered, DueAccounted, InboxAccounted, Lost, InInbox, Same

(* A piece that recv has taken leaves a gap that is recorded.              *)
LEMMA RecvKeeps ==
  ASSUME TypeOK, NEW y \in Zones, Accounted(y), Leaves(y), Left(y) + 1 \in taken'[y],
         taken[y] \subseteq taken'[y], dropped'[y] = dropped[y], msg'[y] = msg[y], len'[y] = len[y]
  PROVE  Accounted(y)'
<1>1. /\ Left(y) \in Int /\ Due(y) \in Int /\ Left(y)' = Left(y) + 1
      /\ Due(y)' \in {Due(y), Left(y) + 2}
  BY InboxTypes DEF Leaves
<1>2. ASSUME NEW k \in 1..len[y], msg[y][k].n \in 1..Left(y)
      PROVE  msg[y][k].n \in 1..Left(y)' /\ (msg[y][k].n < Due(y) => msg[y][k].n < Due(y)')
  BY <1>1, <1>2
<1>3. Ordered(y)'
  BY <1>2 DEF Accounted, Ordered
<1>4. \A n : InInbox(y, n)' <=> InInbox(y, n)
  BY DEF InInbox
<1>5. Left(y) + 1 \in Lost(y)' /\ Lost(y) \subseteq Lost(y)'
  BY DEF Lost
<1>6. DueAccounted(y)'
  <2> SUFFICES ASSUME NEW n \in Due(y)'..Left(y)' PROVE n \in Lost(y)' \/ InInbox(y, n)
    BY <1>4 DEF DueAccounted
  <2>1. n \in Due(y)..Left(y) \/ n = Left(y) + 1
    BY <1>1
  <2> QED BY <1>5, <2>1 DEF Accounted, DueAccounted
<1>7. InboxAccounted(y)'
  <2> SUFFICES ASSUME len[y] > 0
               PROVE  /\ \A n \in msg[y][1].n..Left(y)' : n \in taken'[y] \/ InInbox(y, n)
                      /\ \A n \in msg[y][1].first..(msg[y][1].n - 1) : n \in Lost(y)'
    BY <1>4 DEF InboxAccounted
  <2>1. 1 \in 1..len[y]
    BY InboxTypes
  <2>2. msg[y][1].n \in Nat
    BY <2>1, InboxTypes
  <2>3. ASSUME NEW n \in msg[y][1].n..Left(y)' PROVE n \in taken'[y] \/ InInbox(y, n)
    <3>1. n \in msg[y][1].n..Left(y) \/ n = Left(y) + 1
      BY <1>1, <2>2
    <3> QED BY <3>1 DEF Accounted, InboxAccounted
  <2>4. \A n \in msg[y][1].first..(msg[y][1].n - 1) : n \in Lost(y)
    BY DEF Accounted, InboxAccounted
  <2> QED BY <1>5, <2>3, <2>4
<1> QED BY <1>3, <1>6, <1>7 DEF Accounted

(* A piece behind the others in the inbox.                                 *)
LEMMA AppendKeeps ==
  ASSUME TypeOK, MailInOrder, NEW y \in Zones, Accounted(y), Stores(y), Len0(y) = len[y], len[y] > 0
  PROVE  Accounted(y)'
<1>1. /\ Left(y) \in Int /\ Due(y) \in Int /\ len[y] \in 0..4
      /\ \A k \in 1..len[y] : msg[y][k].n \in Nat
  BY InboxTypes
<1>2. /\ Left(y)' = Left(y) + 1 /\ last[y].n = Left(y) + 1 /\ last[y].first = Due(y)
      /\ Due(y)' = IF last[y].kind = "open" THEN Due(y) ELSE Left(y) + 2
      /\ len'[y] = len[y] + 1 /\ msg'[y][len[y] + 1] = last[y]
      /\ \A k \in 1..len[y] : msg'[y][k] = msg[y][k]
      /\ taken'[y] = taken[y] /\ dropped'[y] = dropped[y]
  BY DEF Stores, Leaves
<1>3. last[y].first \in 1..last[y].n
  BY DEF MailInOrder, Stores, Leaves
<1>4. \A k \in 1..len'[y] : k \in 1..len[y] \/ k = len[y] + 1
  BY <1>1, <1>2
<1>5. ASSUME NEW k \in 1..len[y]
      PROVE  /\ msg[y][k].n \in 1..Left(y) /\ msg[y][k].first \in 1..msg[y][k].n
             /\ \A j \in 1..(k - 1) : msg[y][j].n < msg[y][k].n
             /\ msg[y][k].kind # "open" => msg[y][k].n < Due(y)
  BY DEF Accounted, Ordered
<1>6. Ordered(y)'
  <2>1. ASSUME NEW k \in 1..len[y]
        PROVE  /\ msg'[y][k].n \in 1..Left(y)' /\ msg'[y][k].first \in 1..msg'[y][k].n
               /\ \A j \in 1..(k - 1) : msg'[y][j].n < msg'[y][k].n
               /\ msg'[y][k].kind # "open" => msg'[y][k].n < Due(y)'
    <3>1. \A j \in 1..(k - 1) : j \in 1..len[y]
      BY <1>1
    <3>2. msg'[y][k] = msg[y][k] /\ \A j \in 1..(k - 1) : msg'[y][j] = msg[y][j]
      BY <1>2, <3>1
    <3>3. msg[y][k].n \in 1..Left(y)' /\ (msg[y][k].n < Due(y) => msg[y][k].n < Due(y)')
      BY <1>1, <1>2, <1>5
    <3> QED BY <1>5, <3>2, <3>3
  <2>2. /\ last[y].n \in 1..Left(y)'
        /\ last[y].kind # "open" => last[y].n < Due(y)'
    BY <1>1, <1>2, <1>3
  <2>3. ASSUME NEW j \in 1..len[y] PROVE msg'[y][j].n < last[y].n
    BY <1>1, <1>2, <1>5
  <2>4. ASSUME NEW k \in 1..len'[y]
        PROVE  /\ msg'[y][k].n \in 1..Left(y)' /\ msg'[y][k].first \in 1..msg'[y][k].n
               /\ \A j \in 1..(k - 1) : msg'[y][j].n < msg'[y][k].n
               /\ msg'[y][k].kind # "open" => msg'[y][k].n < Due(y)'
    <3>1. CASE k \in 1..len[y]
      BY <2>1, <3>1
    <3>2. CASE k = len[y] + 1
      <4>0. msg'[y][k] = last[y]
        BY <1>2, <3>2, Zenon
      <4>1. k - 1 = len[y]
        BY <1>1, <3>2
      <4>2. \A j \in 1..(k - 1) : msg'[y][j].n < last[y].n
        BY <2>3, <4>1
      <4> QED BY <1>3, <2>2, <4>0, <4>2
    <3> QED BY <1>4, <3>1, <3>2
  <2> QED BY <2>4 DEF Ordered
<1>7. /\ \A n : n = Left(y) + 1 => InInbox(y, n)'
      /\ \A n : InInbox(y, n) => InInbox(y, n)'
  <2>1. len[y] + 1 \in 1..len'[y] /\ \A k \in 1..len[y] : k \in 1..len'[y]
    BY <1>1, <1>2
  <2> QED BY <1>2, <2>1 DEF InInbox
<1>8. DueAccounted(y)'
  <2> SUFFICES ASSUME NEW n \in Due(y)'..Left(y)' PROVE n \in Lost(y)' \/ InInbox(y, n)'
    BY DEF DueAccounted
  <2>1. n \in Due(y)..Left(y) \/ n = Left(y) + 1
    BY <1>1, <1>2
  <2>2. Lost(y)' = Lost(y)
    BY <1>2 DEF Lost
  <2> QED BY <1>7, <2>1, <2>2 DEF Accounted, DueAccounted
<1>9. InboxAccounted(y)'
  <2>1. 1 \in 1..len[y]
    BY <1>1
  <2>2. msg'[y][1] = msg[y][1] /\ msg[y][1].n \in Nat
    BY <1>1, <1>2, <2>1
  <2>3. ASSUME NEW n \in msg[y][1].n..Left(y)' PROVE n \in taken'[y] \/ InInbox(y, n)'
    <3>1. n \in msg[y][1].n..Left(y) \/ n = Left(y) + 1
      BY <1>1, <1>2, <2>2
    <3> QED BY <1>2, <1>7, <3>1 DEF Accounted, InboxAccounted
  <2>4. \A n \in msg[y][1].first..(msg[y][1].n - 1) : n \in Lost(y)'
    BY <1>2 DEF Accounted, InboxAccounted, Lost
  <2> QED BY <2>2, <2>3, <2>4 DEF InboxAccounted
<1> QED BY <1>6, <1>8, <1>9 DEF Accounted

(* A piece in front of an inbox that is empty or full: what the inbox had is *)
(* lost.                                                                   *)
LEMMA FrontKeeps ==
  ASSUME TypeOK, MailInOrder, NEW y \in Zones, Accounted(y), Stores(y), Len0(y) = 0
  PROVE  Accounted(y)'
<1>1. Left(y) \in Int /\ Due(y) \in Int
  BY InboxTypes
<1>2. /\ Left(y)' = Left(y) + 1 /\ last[y].n = Left(y) + 1 /\ last[y].first = Due(y)
      /\ Due(y)' = IF last[y].kind = "open" THEN Due(y) ELSE Left(y) + 2
      /\ len'[y] = 1 /\ msg'[y][1] = last[y]
      /\ taken'[y] = taken[y] /\ dropped'[y] = dropped[y] \cup Numbers(y, 1)
  BY DEF Stores, Leaves
<1>3. last[y].first \in 1..last[y].n
  BY DEF MailInOrder, Stores, Leaves
<1>4. Ordered(y)'
  <2>1. \A k \in 1..len'[y] : k = 1 /\ 1..(k - 1) = {}
    BY <1>2
  <2>2. last[y].n \in 1..Left(y)' /\ (last[y].kind # "open" => last[y].n < Due(y)')
    BY <1>1, <1>2, <1>3
  <2> QED BY <1>2, <1>3, <2>1, <2>2 DEF Ordered
<1>5. \A n \in Due(y)..Left(y) : n \in Lost(y)'
  BY <1>2 DEF Accounted, DueAccounted, InInbox, Numbers, Lost
<1>6. \A n : n = Left(y) + 1 => InInbox(y, n)'
  <2>1. 1 \in 1..len'[y]
    BY <1>2
  <2> QED BY <1>2, <2>1 DEF InInbox
<1>7. DueAccounted(y)'
  <2> SUFFICES ASSUME NEW n \in Due(y)'..Left(y)' PROVE n \in Lost(y)' \/ InInbox(y, n)'
    BY DEF DueAccounted
  <2>1. n \in Due(y)..Left(y) \/ n = Left(y) + 1
    BY <1>1, <1>2
  <2> QED BY <1>5, <1>6, <2>1
<1>8. InboxAccounted(y)'
  <2>1. \A n \in last[y].n..Left(y)' : n = Left(y) + 1
    BY <1>1, <1>2
  <2>2. \A n \in last[y].first..(last[y].n - 1) : n \in Due(y)..Left(y)
    BY <1>1, <1>2
  <2> QED BY <1>2, <1>5, <1>6, <2>1, <2>2 DEF InboxAccounted
<1> QED BY <1>4, <1>7, <1>8 DEF Accounted

(* An inbox that is emptied: what was in it and is not lost was before the   *)
(* message that is due.                                                    *)
LEMMA EmptyKeeps ==
  ASSUME NEW y \in Zones, Accounted(y), len'[y] = 0, Left(y)' = Left(y), Due(y)' = Due(y),
         taken'[y] = taken[y], dropped[y] \subseteq dropped'[y],
         \A n \in Due(y)..Left(y) : InInbox(y, n) => n \in dropped'[y]
  PROVE  Accounted(y)'
<1>1. 1..len'[y] = {}
  OBVIOUS
<1>2. Ordered(y)' /\ InboxAccounted(y)'
  BY <1>1 DEF Ordered, InboxAccounted
<1>3. DueAccounted(y)'
  BY DEF Accounted, DueAccounted, Lost
<1> QED BY <1>2, <1>3 DEF Accounted

(* Serving a message drops what is behind it in the inbox.                 *)
LEMMA ServeKeeps ==
  ASSUME TypeOK, InboxInOrder, Serve
  PROVE  InboxInOrder'
<1>1. /\ msg' = msg /\ mem' = mem /\ last' = last /\ taken' = taken
      /\ zone \in Zones /\ len \in [Zones -> 0..INBOX_SIZE]
      /\ dropped \in [Zones -> SUBSET (0..MaxSends)]
  BY DEF Serve, mail, TypeOK
<1>2. \A y \in Zones : Left(y)' = Left(y) /\ Due(y)' = Due(y)
  BY <1>1 DEF Left, Due, First
<1> DEFINE e == End(zone)
<1>3. /\ e \in 1..len[zone] /\ msg[zone][e].kind # "open"
      /\ \A j \in 1..(e - 1) : msg[zone][j].kind = "open"
  BY <1>1, EndIsFirst DEF Serve
<1>4. \/ len' = len /\ dropped' = dropped
      \/ /\ len' = [len EXCEPT ![zone] = 0]
         /\ dropped' = [dropped EXCEPT ![zone] = dropped[zone] \cup Numbers(zone, e + 1)]
  BY DEF Serve
<1> HIDE DEF e
<1>5. ASSUME NEW y \in Zones PROVE Accounted(y)'
  <2>1. CASE len'[y] = len[y] /\ dropped'[y] = dropped[y]
    <3>1. Same(y)
      BY <1>1, <1>2, <2>1 DEF Same
    <3> QED BY <3>1, SameKeeps DEF InboxInOrder
  <2>2. CASE y = zone /\ len'[y] = 0 /\ dropped'[y] = dropped[y] \cup Numbers(zone, e + 1)
    <3>1. ASSUME NEW n \in Due(y)..Left(y), InInbox(y, n) PROVE n \in dropped'[y]
      <4>1. PICK k \in 1..len[y] : msg[y][k].n = n
        BY <3>1 DEF InInbox
      <4>2. /\ e \in 1..len[y] /\ msg[y][e].n < Due(y) /\ msg[y][e].n \in Nat
            /\ \A j \in 1..(e - 1) : msg[y][j].n < msg[y][e].n
        BY <1>3, <2>2, InboxTypes DEF InboxInOrder, Accounted, Ordered
      <4>3. n \in Int /\ Due(y) <= n /\ len[y] \in Int /\ Due(y) \in Int
        BY <3>1, InboxTypes
      <4>4. k \notin 1..(e - 1) /\ k # e
        BY <4>1, <4>2, <4>3
      <4>5. k \in (e + 1)..len[y]
        BY <4>2, <4>3, <4>4
      <4> QED BY <2>2, <4>1, <4>5 DEF Numbers
    <3> QED BY <1>1, <1>2, <2>2, <3>1, EmptyKeeps DEF InboxInOrder
  <2>3. \/ len'[y] = len[y] /\ dropped'[y] = dropped[y]
        \/ y = zone /\ len'[y] = 0 /\ dropped'[y] = dropped[y] \cup Numbers(zone, e + 1)
    BY <1>1, <1>4
  <2> QED BY <2>1, <2>2, <2>3
<1> QED BY <1>5 DEF InboxInOrder

(* The pieces in the inbox are in order and every other one of their         *)
(* messages is accounted for, whatever comes, is served, dropped or taken by *)
(* recv.                                                                   *)
LEMMA NextKeepsOrder ==
  TypeOK /\ MailInOrder /\ InboxInOrder /\ [Next]_vars => MailInOrder' /\ InboxInOrder'
<1> SUFFICES ASSUME TypeOK, MailInOrder, InboxInOrder, [Next]_vars
             PROVE  MailInOrder' /\ InboxInOrder'
  OBVIOUS
<1>1. CASE UNCHANGED <<mem, last, msg, len, taken, dropped>>
  <2>1. \A y \in Zones : Same(y)
    BY <1>1 DEF Same, Left, Due, First
  <2> QED BY <1>1, <2>1, SameKeeps DEF MailInOrder, InboxInOrder
<1>2. ASSUME NEW z \in Zones, Post(z) PROVE MailInOrder' /\ InboxInOrder'
  <2>1. \A y \in Zones : Same(y)
    BY <1>2, PostEffect DEF Same
  <2> QED BY <1>2, <2>1, PostEffect, SameKeeps DEF InboxInOrder
<1>3. CASE Recv
  <2>1. MailInOrder' /\ msg' = msg /\ len' = len /\ dropped' = dropped
    BY <1>3, RecvEffect
  <2>2. ASSUME NEW y \in Zones PROVE Accounted(y)'
    <3>1. CASE Same(y)
      BY <3>1, SameKeeps DEF InboxInOrder
    <3>2. CASE Leaves(y) /\ taken'[y] = taken[y] \cup {Left(y) + 1}
      BY <2>1, <3>2, RecvKeeps DEF InboxInOrder
    <3> QED BY <1>3, <3>1, <3>2, RecvEffect
  <2> QED BY <2>1, <2>2 DEF InboxInOrder
<1>4. CASE msi_isr
  <2>1. ASSUME NEW y \in Zones PROVE Accounted(y)'
    <3>1. CASE Same(y)
      BY <3>1, SameKeeps DEF InboxInOrder
    <3>2. CASE Stores(y)
      <4>1. Len0(y) = 0 \/ (Len0(y) = len[y] /\ len[y] > 0)
        BY InboxTypes DEF Len0, INBOX_SIZE
      <4> QED BY <3>2, <4>1, AppendKeeps, FrontKeeps DEF InboxInOrder
    <3> QED BY <1>4, <3>1, <3>2, MsiEffect
  <2> QED BY <1>4, <2>1, MsiEffect DEF InboxInOrder
<1>5. CASE Start
  <2>1. /\ mem' = mem /\ last' = last /\ taken' = taken
        /\ \A y \in Zones : len'[y] = 0 /\ dropped'[y] = dropped[y] \cup Numbers(y, 1)
    BY <1>5 DEF Start, mail
  <2>2. ASSUME NEW y \in Zones PROVE Accounted(y)'
    <3>1. Left(y)' = Left(y) /\ Due(y)' = Due(y)
      BY <2>1 DEF Left, Due, First
    <3>2. \A n : InInbox(y, n) => n \in dropped'[y]
      BY <2>1 DEF InInbox, Numbers
    <3> QED BY <2>1, <3>1, <3>2, EmptyKeeps DEF InboxInOrder
  <2> QED BY <2>1, <2>2 DEF MailInOrder, InboxInOrder
<1>6. CASE Serve
  <2>1. mem' = mem /\ last' = last
    BY <1>6 DEF Serve, mail
  <2> QED BY <1>6, <2>1, ServeKeeps DEF MailInOrder
<1> QED BY <1>1, <1>2, <1>3, <1>4, <1>5, <1>6, MailSteps
-----------------------------------------------------------------------------
(* The zone leaves its start only when crt0 has run, and an interrupt that   *)
(* found no handler is never left.                                          *)
LEMMA StartSteps ==
  [Next]_vars => Start \/ (pc \in {"start", "nowhere"} => pc' \in {"start", "nowhere"})
  BY DEF Next, main, cmd_handler, msg_handler, msi_isr, uart_isr, tmr_isr, Handler, NoHandler,
         TrapKey, Post, Setup, GetByte, NoByte, Reply, Recv, Timer, Restart, Trap, Masked, Serve,
         Skip, BufferEmpty, InboxEmpty, Wfi, Goto, vars

(* Only msg_handler shows a message.                                       *)
LEMMA ShownSteps == [Next]_vars => Serve \/ shown' = shown
  BY DEF Next, main, cmd_handler, msg_handler, msi_isr, uart_isr, tmr_isr, NoHandler,
         TrapKey, Post, Start, Setup, GetByte, NoByte, Reply, Recv, Timer, Restart, Trap, Masked,
         Skip, BufferEmpty, InboxEmpty, Wfi, vars

(* The string that is shown: the pieces up to the one with the terminator.  *)
LEMMA ServedPieces ==
  ASSUME TypeOK, Serve
  PROVE  LET s == shown'.pieces IN
         /\ zone \in Zones /\ shown'.zone = zone /\ s \in Seq(Piece) /\ Len(s) = End(zone)
         /\ End(zone) \in 1..len[zone] /\ len[zone] \in 1..INBOX_SIZE
         /\ \A k \in 1..Len(s) : s[k] = msg[zone][k]
<1>1. /\ zone \in Zones /\ msg[zone] \in [1..INBOX_SIZE -> Piece] /\ len[zone] \in 0..INBOX_SIZE
      /\ shown' = [zone |-> zone, pieces |-> SubSeq(msg[zone], 1, End(zone))]
  BY DEF TypeOK, Serve
<1>2. End(zone) \in 1..len[zone]
  BY <1>1, EndIsFirst DEF Serve
<1> DEFINE e == End(zone)
<1>5. e \in 1..INBOX_SIZE /\ len[zone] \in 1..INBOX_SIZE /\ e \in Int /\ e >= 1
  BY <1>1, <1>2 DEF INBOX_SIZE
<1> HIDE DEF e
<1>6. \A k \in 1..e : msg[zone][k] \in Piece
  <2>1. \A k \in 1..e : k \in 1..INBOX_SIZE
    BY <1>5 DEF INBOX_SIZE
  <2> QED BY <2>1, <1>1
<1>7. /\ SubSeq(msg[zone], 1, e) \in Seq(Piece) /\ Len(SubSeq(msg[zone], 1, e)) = e
      /\ \A k \in 1..e : SubSeq(msg[zone], 1, e)[k] = msg[zone][k]
  BY <1>5, <1>6, SubSeqProperties
<1> QED BY <1>1, <1>2, <1>5, <1>7 DEF e

(* What was shown stays behind what is in the inbox, in the mailboxes and    *)
(* yet to come.                                                            *)
LEMMA NextKeepsShown ==
  ASSUME TypeOK, MailInOrder, InboxInOrder, ShownIsPast, [Next]_vars
  PROVE  ShownIsPast'
<1>1. CASE Serve
  <2>0. PICK z \in Zones : z = zone
    BY DEF TypeOK
  <2> DEFINE s == shown'.pieces
             e == Len(s)
  <2>1. /\ shown'.zone = z /\ s \in Seq(Piece) /\ e \in 1..len[z] /\ len[z] \in 1..INBOX_SIZE
        /\ s[e] = msg[z][e]
    BY <1>1, <2>0, ServedPieces
  <2>2. msg[z][e].n \in 1..Left(z)
    BY <2>1 DEF InboxInOrder, Accounted, Ordered
  <2>3. Left(z)' = Left(z) /\ Left(z) \in Int
    BY <1>1, InboxTypes DEF Serve, mail, Left
  <2>4. pc' \notin {"start", "nowhere"} => len'[z] = 0
    BY <1>1, <2>0 DEF Serve, TypeOK
  <2>5. LastShown' = msg[z][e].n
    BY <2>1 DEF LastShown
  <2>6. LastShown' <= Left(z)'
    BY <2>2, <2>3, <2>5
  <2> QED BY <2>0, <2>1, <2>4, <2>6 DEF ShownIsPast
<1>2. CASE ~Serve
  <2>1. shown' = shown
    BY <1>2, ShownSteps
  <2>2. SUFFICES ASSUME shown.pieces # <<>>
                 PROVE  /\ LastShown <= Left(shown.zone)'
                        /\ pc' \notin {"start", "nowhere"} =>
                             \A k \in 1..len'[shown.zone] : msg'[shown.zone][k].n > LastShown
    BY <2>1 DEF ShownIsPast, LastShown
  <2>3. PICK z \in Zones : z = shown.zone
    BY DEF ShownIsPast
  <2>4. Left(z) \in Int /\ len[z] \in 0..4 /\ LastShown <= Left(z)
    BY <2>2, <2>3, InboxTypes DEF ShownIsPast
  <2>6. pc \notin {"start", "nowhere"} => \A k \in 1..len[z] : msg[z][k].n > LastShown
    BY <2>2, <2>3 DEF ShownIsPast
  <2> SUFFICES /\ LastShown <= Left(z)'
               /\ pc' \notin {"start", "nowhere"} =>
                    \A k \in 1..len'[z] : msg'[z][k].n > LastShown
    BY <2>1, <2>3
  <2>a. LastShown \in Int
    <3>1. Len(shown.pieces) \in 1..Len(shown.pieces)
      BY <2>2, EmptySeq DEF ShownIsPast
    <3>2. shown.pieces[Len(shown.pieces)] \in Piece
      BY <3>1, ElementOfSeq DEF ShownIsPast
    <3> QED BY <3>2, Zone2Assumption DEF LastShown, Piece
  <2>7. CASE Left(z)' \in {Left(z), Left(z) + 1} /\ msg'[z] = msg[z] /\ len'[z] = len[z] /\ ~Start
    <3>1. LastShown <= Left(z)'
      BY <2>4, <2>7, <2>a
    <3> QED BY <2>6, <2>7, <3>1, StartSteps
  <2>8. CASE Start
    <3>1. Left(z)' = Left(z) /\ len'[z] = 0
      BY <2>8 DEF Start, mail, Left
    <3> QED BY <2>4, <3>1
  <2>9. CASE msi_isr /\ Stores(z)
    <3>1. pc' \notin {"start", "nowhere"} => pc \notin {"start", "nowhere"}
      BY <2>9 DEF msi_isr, Handler
    <3>2. /\ Left(z)' = Left(z) + 1
          /\ len'[z] = Len0(z) + 1 /\ msg'[z][len'[z]].n = Left(z) + 1
          /\ \A k \in 1..Len0(z) : msg'[z][k] = msg[z][k]
      BY <2>9 DEF Stores, Leaves
    <3>3. Len0(z) \in {0, len[z]}
      BY DEF Len0
    <3>4. LastShown <= Left(z)'
      BY <2>4, <2>a, <3>2
    <3>5. ASSUME pc' \notin {"start", "nowhere"}, NEW k \in 1..len'[z]
          PROVE  msg'[z][k].n > LastShown
      <4>1. CASE k = Len0(z) + 1
        BY <2>4, <2>a, <3>2, <4>1
      <4>2. CASE k # Len0(z) + 1
        <5>1. Len0(z) \in Int /\ k \in 1..Len0(z) /\ k \in 1..len[z]
          BY <2>4, <3>2, <3>3, <4>2
        <5> QED BY <2>6, <3>1, <3>2, <3>5, <5>1
      <4> QED BY <4>1, <4>2
    <3> QED BY <3>4, <3>5
  <2>10. CASE Same(z) /\ ~Start
    BY <2>7, <2>10 DEF Same
  <2>11. CASE UNCHANGED <<mem, last, msg, len, taken, dropped>> /\ ~Start
    BY <2>7, <2>11 DEF Left
  <2>12. CASE \E y \in Zones : Post(y) /\ ~Start
    BY <2>7, <2>12, PostEffect
  <2>13. CASE Recv /\ ~Start
    <3>1. msg' = msg /\ len' = len /\ (Same(z) \/ Leaves(z))
      BY <2>13, RecvEffect
    <3> QED BY <2>7, <2>10, <2>13, <3>1 DEF Leaves
  <2>14. CASE msi_isr /\ ~Start
    <3>1. Same(z) \/ Stores(z)
      BY <2>14, MsiEffect
    <3> QED BY <2>9, <2>10, <2>14, <3>1
  <2> QED
    BY <1>2, <2>8, <2>11, <2>12, <2>13, <2>14, MailSteps
<1> QED BY <1>1, <1>2
-----------------------------------------------------------------------------
(* Between the tests of main and sleep only the handlers run: they record    *)
(* what they brought.                                                      *)
LEMMA NextKeepsFoundEmpty ==
  ASSUME TypeOK, FoundEmpty, [Next]_vars
  PROVE  FoundEmpty'
<1> DEFINE Tested == {"inbox", "wfi", "asleep"}
<1>1. CASE UNCHANGED vars
  BY <1>1 DEF vars, buffer, inbox, FoundEmpty
<1>2. CASE Start \/ Setup \/ GetByte \/ NoByte \/ cmd_handler \/ TrapKey \/ Masked
  <2>1. pc' \notin Tested
    BY <1>2 DEF Start, Setup, GetByte, NoByte, cmd_handler, Reply, Recv, Timer, Restart, Trap,
                TrapKey, Masked, Goto
  <2> QED BY <2>1 DEF FoundEmpty
<1>3. CASE Serve \/ Skip
  <2>1. NextZone => pc' \notin Tested
    BY DEF NextZone
  <2>2. pc' \notin Tested
    BY <1>3, <2>1 DEF Serve, Skip
  <2> QED BY <2>2 DEF FoundEmpty
<1>4. CASE NoHandler
  <2>1. pc' \notin Tested
    BY <1>4 DEF NoHandler
  <2> QED BY <2>1 DEF FoundEmpty
<1>5. CASE BufferEmpty
  BY <1>5 DEF BufferEmpty, buffer, FoundEmpty
<1>6. CASE InboxEmpty
  BY <1>6 DEF InboxEmpty, Empty, buffer, inbox, FoundEmpty
<1>7. CASE Wfi
  BY <1>7 DEF Wfi, buffer, inbox, FoundEmpty
<1>8. ASSUME NEW z \in Zones, Post(z) PROVE FoundEmpty'
  BY <1>8 DEF Post, buffer, inbox, FoundEmpty
<1>9. CASE msi_isr
  BY <1>9 DEF msi_isr, Handler, buffer, FoundEmpty
<1>10. CASE uart_isr
  BY <1>10 DEF uart_isr, Handler, inbox, FoundEmpty
<1>11. CASE tmr_isr
  BY <1>11 DEF tmr_isr, Handler, buffer, inbox, FoundEmpty
<1> QED BY <1>1, <1>2, <1>3, <1>4, <1>5, <1>6, <1>7, <1>8, <1>9, <1>10, <1>11
        DEF Next, main, msg_handler
-----------------------------------------------------------------------------
LEMMA InitIInv == Init => IInv
<1> SUFFICES ASSUME Init PROVE IInv
  OBVIOUS
<1> USE Zone2Assumption, NoPieceIsPiece, FirstZone
<1>1. TypeOK
  BY EmptySeq DEF Init, Q!Init, TypeOK, INBOX_SIZE
<1>2. MailInOrder /\ FoundEmpty
  BY DEF Init, MailInOrder, FoundEmpty
<1>4. ASSUME NEW z \in Zones PROVE Accounted(z)
  <2>1. len[z] = 0 /\ Left(z) = 0 /\ Due(z) = 1
    BY <1>4 DEF Init, Left, Due, First, NoPiece
  <2>2. 1..len[z] = {} /\ Due(z)..Left(z) = {}
    BY <2>1
  <2> QED BY <2>1, <2>2 DEF Accounted, Ordered, DueAccounted, InboxAccounted
<1>3. ShownIsPast
  BY EmptySeq DEF Init, ShownIsPast
<1> QED BY <1>1, <1>2, <1>3, <1>4 DEF IInv, InboxInOrder

LEMMA NextIInv == IInv /\ [Next]_vars => IInv'
  BY NextKeepsType, NextKeepsOrder, NextKeepsShown, NextKeepsFoundEmpty DEF IInv

LEMMA AlwaysIInv == Spec => []IInv
  BY InitIInv, NextIInv, PTL DEF Spec

(* Whatever comes over the UART and from the zones, and whenever the zone    *)
(* starts again, no byte is stored beyond the buffer's room and no piece     *)
(* outside its inbox.                                                      *)
THEOREM TypeCorrect == Spec => []TypeOK
  BY AlwaysIInv, PTL DEF IInv

(* The zone never sleeps on a byte or a piece that was there when main       *)
(* looked: only what a handler brought after the test can be waiting.       *)
THEOREM SleepIsSafe == Spec => []SleepsOnlyOnLateInput
<1>1. IInv => SleepsOnlyOnLateInput
  BY DEF IInv, FoundEmpty, SleepsOnlyOnLateInput
<1> QED BY <1>1, AlwaysIInv, PTL

(* What msg_handler shows, for any number of zones and pieces, is the message *)
(* of its first piece up to its end, and never a piece that was shown before: *)
(* nothing of the message is missing but pieces that recv took and, at its     *)
(* beginning, pieces that the inbox lost (full, served with the message before *)
(* or cleared by a restart).                                               *)
THEOREM ServedMessagesAreRuns == Spec => ServesRun
<1> DEFINE Run == LET s == shown'.pieces
                      z == shown'.zone
                      e == Len(s) IN
                  /\ \A i \in 1..(e - 1) : s[i].kind = "open" /\ s[i].n < s[i + 1].n
                  /\ s[e].kind # "open" /\ s[1].n > 0
                  /\ \A n \in s[1].first..s[e].n :
                       \/ \E i \in 1..e : s[i].n = n
                       \/ n \in taken[z]
                       \/ n < s[1].n /\ n \in dropped[z]
                  /\ z = shown.zone /\ shown.pieces # <<>> =>
                       s[1].n > shown.pieces[Len(shown.pieces)].n
<1>1. ASSUME IInv, [Next]_vars, shown' # shown PROVE Run
  <2>1. Serve
    BY <1>1, ShownSteps
  <2>0. PICK z \in Zones : z = zone
    BY <1>1 DEF IInv, TypeOK
  <2> DEFINE s == shown'.pieces
             e == End(zone)
  <2>2. /\ shown'.zone = z /\ Len(s) = e
        /\ e \in 1..len[z] /\ len[z] \in 1..INBOX_SIZE
        /\ \A k \in 1..Len(s) : s[k] = msg[z][k]
    BY <1>1, <2>0, <2>1, ServedPieces DEF IInv
  <2>3. /\ msg[z][e].kind # "open"
        /\ \A j \in 1..(e - 1) : msg[z][j].kind = "open"
    BY <1>1, <2>0, <2>1, EndIsFirst DEF IInv, Serve
  <2>4. /\ Ordered(z) /\ InboxAccounted(z)
        /\ \A k \in 1..len[z] : msg[z][k].n \in Nat /\ msg[z][k].first \in Nat
    BY <1>1, InboxTypes DEF IInv, InboxInOrder, Accounted
  <2>5. e \in Int /\ e >= 1 /\ e <= len[z] /\ len[z] \in Int
    BY <2>2 DEF INBOX_SIZE
  <2> HIDE DEF s, e
  <2>6. \A k \in 1..e : k \in 1..len[z] /\ s[k] = msg[z][k]
    BY <2>2, <2>5
  <2>7. 1 \in 1..e /\ e \in 1..e /\ s[1] = msg[z][1] /\ s[e] = msg[z][e]
    BY <2>5, <2>6
  <2>8. ASSUME NEW i \in 1..(e - 1)
        PROVE  s[i].kind = "open" /\ s[i].n < s[i + 1].n
    <3>1. i \in 1..e /\ i + 1 \in 1..e /\ i \in 1..(i + 1 - 1)
      BY <2>5
    <3>2. s[i] = msg[z][i] /\ s[i + 1] = msg[z][i + 1] /\ i + 1 \in 1..len[z]
      BY <2>6, <3>1
    <3>3. msg[z][i].n < msg[z][i + 1].n
      BY <2>4, <3>1, <3>2 DEF Ordered
    <3> QED BY <2>3, <3>2, <3>3
  <2>9. s[e].kind # "open" /\ s[1].n > 0
    BY <2>3, <2>4, <2>6, <2>7 DEF Ordered
  <2>10. ASSUME NEW n \in s[1].first..s[e].n
         PROVE  \/ \E i \in 1..e : s[i].n = n
                \/ n \in taken[z]
                \/ n < s[1].n /\ n \in dropped[z]
    <3>1. /\ n \in msg[z][1].first..msg[z][e].n /\ n \in Int
          /\ msg[z][e].n \in 1..Left(z) /\ msg[z][1].n \in Nat /\ Left(z) \in Int
      BY <1>1, <2>4, <2>6, <2>7, InboxTypes DEF Ordered, IInv
    <3>2. CASE n < msg[z][1].n
      <4>1. n \in msg[z][1].first..(msg[z][1].n - 1)
        BY <2>4, <2>6, <2>7, <3>1, <3>2
      <4>2. n \in Lost(z)
        BY <2>4, <2>5, <4>1 DEF InboxAccounted
      <4> QED BY <2>7, <3>2, <4>2 DEF Lost
    <3>3. CASE ~(n < msg[z][1].n)
      <4>1. n \in msg[z][1].n..Left(z)
        BY <3>1, <3>3
      <4>2. n \in taken[z] \/ InInbox(z, n)
        BY <2>4, <2>5, <4>1 DEF InboxAccounted
      <4>3. ASSUME InInbox(z, n) PROVE \E i \in 1..e : s[i].n = n
        <5>1. PICK k \in 1..len[z] : msg[z][k].n = n
          BY <4>3 DEF InInbox
        <5>2. e \in 1..(k - 1) => msg[z][e].n < msg[z][k].n
          BY <2>4, <5>1 DEF Ordered
        <5>3. n <= msg[z][e].n /\ msg[z][e].n \in Int
          BY <3>1
        <5>4. k \in 1..e
          BY <2>5, <3>1, <5>1, <5>2, <5>3
        <5> QED BY <2>6, <5>1, <5>4
      <4> QED BY <4>2, <4>3
    <3> QED BY <3>2, <3>3
  <2>11. shown'.zone = shown.zone /\ shown.pieces # <<>> => s[1].n > LastShown
    BY <1>1, <2>1, <2>2, <2>6, <2>7 DEF IInv, ShownIsPast, Serve
  <2> QED BY <2>2, <2>8, <2>9, <2>10, <2>11 DEF s, LastShown
<1>2. IInv /\ [Next]_vars => (shown' # shown => Run)
  BY <1>1
<1>3. QED BY <1>2, AlwaysIInv, PTL DEF Spec, ServesRun
=============================================================================
