----------------------------- MODULE Hart0Proofs -----------------------------
(***************************************************************************)
(* Zone 3 loses messages only when it starts, and its buttons' texts fit;   *)
(* a hart runs only what the boot loader has left in memory for it.         *)
(***************************************************************************)
EXTENDS Hart0, TLAPS

Msg == [n : 0..MaxSends, kind : Text \cup {"none"}]

Types == /\ mem \in [Zones -> Msg] /\ inbox \in [Zones -> Msg]
         /\ sent \in [Zones -> 0..MaxSends] /\ served \in [Zones -> 0..MaxSends]
         /\ zone \in Zones /\ quiet \subseteq Button /\ pressed \subseteq Button
         /\ count \in [Button -> 0..MaxCount] /\ size \in Nat
         /\ \A b \in pressed : count[b] < MaxCount

\* The number of the latest message of zone z that has left its mailbox
Taken(z) == IF mem[z] = NoMsg THEN sent[z] ELSE sent[z] - 1

\* A mailbox has the latest message of its zone, the inbox the latest that
\* was taken.
InOrder == \A z \in Zones : /\ mem[z] # NoMsg => mem[z].n = sent[z]
                            /\ inbox[z] # NoMsg => inbox[z].n = Taken(z)

\* The text that was built last has the number of a button's last press.
TextIsOfAPress == size # 0 => \E b \in Button : count[b] > 0 /\ size = Size(count[b] - 1)

Zone3Inv == Types /\ InOrder /\ TextIsOfAPress

\* What was in memory before the boot
Earlier == {"zero", "old"}

\* What f_load leaves of image n
AsFiled(n) == CASE file[n] = "good" -> {"new"}
                [] file[n] = "unreadable" -> {"part"}
                [] OTHER -> Earlier

\* The images up to image n are loaded, those behind the next are untouched.
LoadedTo(n) ==
  \A m \in Loader!Images :
    /\ m <= n /\ m # 1 => image[m] \in AsFiled(m)
    /\ m > n + 1 => image[m] \in Earlier

\* No image of a zone up to image n has failed.
NoneFailed(n) == \A m \in 1..LastZoneImage : m <= n => ~Loader!Fails(m)

BootTypes == /\ free \in {0, 1} /\ file \in [Loader!Images -> Loader!File]
             /\ image \in [Loader!Images -> {"zero", "old", "part", "new"}]
             /\ e51 \in {"mount", "load", "read", "release", "tee", "abort"}
             /\ i \in Nat /\ msip \in [Loader!Hart -> {0, 1}]
             /\ u54 \in [Loader!Hart -> {"clear", "wait", "look", "run"}]

AllLoaded == LoadedTo(Loader!LastImage) /\ NoneFailed(Loader!LastImage)

Stopped == /\ \E n \in 1..LastZoneImage : Loader!Fails(n)
           /\ \A h \in Loader!Hart : image[Loader!Of(h)] \in Earlier

\* The loader releases when the loop is over and no zone's image has failed, or
\* when one has, and then no image of a hart has been touched.
LoadedInOrder ==
  /\ e51 = "mount" => i = 1 /\ \A m \in Loader!Images : image[m] \in Earlier
  /\ e51 \in {"load", "read"} => i \in Loader!Images /\ LoadedTo(i - 1) /\ NoneFailed(i - 1)
  /\ e51 = "load" => image[i] \in Earlier
  /\ e51 = "read" => Loader!Reads(i) /\ image[i] = "part"
  /\ e51 = "release" => i \in Loader!Hart
  /\ e51 \in {"release", "tee"} => AllLoaded \/ Stopped

\* A hart that has cleared its interrupt leaves its loop only when released.
ReleasedOnly ==
  \A h \in Loader!Hart :
    (msip[h] = 1 /\ u54[h] # "clear") \/ u54[h] \in {"look", "run"}
      => e51 \in {"release", "tee"}

\* A hart that runs has found its image's first word.
HasProgram == \A h \in Loader!Hart : u54[h] = "run" => image[Loader!Of(h)] # "zero"

BootInv == BootTypes /\ LoadedInOrder /\ ReleasedOnly /\ HasProgram
-----------------------------------------------------------------------------
(* Zone 3                                                                  *)

LEMMA NoMsgIsMsg == NoMsg \in Msg /\ NoMsg.n = 0
  BY Zone3Assumption DEF NoMsg, Msg

LEMMA FirstZone == 1 \in Zones
  BY Zone3Assumption DEF Zones

(* Only these steps touch mailboxes, inbox and what was served.            *)
LEMMA MailSteps ==
  [Next]_vars => \/ UNCHANGED <<mem, sent, inbox, served>>
                 \/ \E z \in Zones : Post(z)
                 \/ Receive /\ UNCHANGED <<sent, served>>
                 \/ Start \/ Serve
  BY DEF Next, main, msi_handler, tmr_handler, plic_handler, NoHandler, Expire, Debounced,
         Press, Setup, Skip, Wfi, Resume, Poll, vars, mail

(* Only these steps touch what is known of the buttons.                    *)
LEMMA ButtonSteps ==
  [Next]_vars => \/ UNCHANGED buttons
                 \/ Debounced \/ Start
                 \/ \E b \in Button : plic_handler(b) \/ Press(b)
  BY DEF Next, main, msi_handler, tmr_handler, NoHandler, Expire, Setup, Serve, Skip, Wfi,
         Resume, Poll, Post, vars

(* The index over the zones stays one of them.                             *)
LEMMA ZoneStep == Types /\ [Next]_vars => zone' \in Zones
<1> SUFFICES ASSUME Types, [Next]_vars PROVE zone' \in Zones
  OBVIOUS
<1>1. zone \in Zones
  BY DEF Types
<1>2. NextZone => zone' \in Zones
  <2>1. zone < LastZone => zone + 1 \in Zones
    BY <1>1, Zone3Assumption DEF Zones
  <2> QED BY <2>1, FirstZone DEF NextZone
<1>3. Serve => zone' \in Zones
  <2>1. Serve => NextZone \/ zone' = zone
    BY DEF Serve
  <2> QED BY <1>1, <1>2, <2>1
<1>4. Skip => zone' \in Zones
  BY <1>2 DEF Skip
<1> QED BY <1>1, <1>3, <1>4, FirstZone
        DEF Next, main, msi_handler, tmr_handler, plic_handler, NoHandler, Expire, Debounced,
            Press, Start, Setup, Wfi, Resume, Poll, Post, vars

LEMMA Powers ==
  /\ 10 ^ 1 = 10
  /\ 10 ^ 2 = 100
  /\ 10 ^ 3 = 1000
  /\ 10 ^ 4 = 10000
  /\ 10 ^ 5 = 100000
  /\ 10 ^ 6 = 1000000
  /\ 10 ^ 7 = 10000000
  /\ 10 ^ 8 = 100000000
  /\ 10 ^ 9 = 1000000000
<1>1. 10 ^ 1 = 10
  OBVIOUS
<1>2. 10 ^ 2 = 100
  OBVIOUS
<1>3. 10 ^ 3 = 1000
  OBVIOUS
<1>4. 10 ^ 4 = 10000
  OBVIOUS
<1>5. 10 ^ 5 = 100000
  OBVIOUS
<1>6. 10 ^ 6 = 1000000
  OBVIOUS
<1>7. 10 ^ 7 = 10000000
  OBVIOUS
<1>8. 10 ^ 8 = 100000000
  OBVIOUS
<1>9. 10 ^ 9 = 1000000000
  OBVIOUS
<1> QED BY <1>1, <1>2, <1>3, <1>4, <1>5, <1>6, <1>7, <1>8, <1>9

(* The number of digits that utoa prints.                                  *)
LEMMA DigitsExist ==
  ASSUME NEW n \in Nat, n < 10 ^ 9
  PROVE  \E d \in 1..10 : n < 10 ^ d /\ (d > 1 => n >= 10 ^ (d - 1))
<1> DEFINE Found == \E d \in 1..10 : n < 10 ^ d /\ (d > 1 => n >= 10 ^ (d - 1))
<1> SUFFICES Found
  BY Zenon
<1>1. CASE n < 10
  <2>1. n < 10 ^ 1
    BY <1>1, Powers
  <2> QED BY <2>1
<1>2. CASE n >= 10 /\ n < 100
  <2>1. n < 10 ^ 2 /\ n >= 10 ^ (2 - 1)
    BY <1>2, Powers
  <2> QED BY <2>1
<1>3. CASE n >= 100 /\ n < 1000
  <2>1. n < 10 ^ 3 /\ n >= 10 ^ (3 - 1)
    BY <1>3, Powers
  <2> QED BY <2>1
<1>4. CASE n >= 1000 /\ n < 10000
  <2>1. n < 10 ^ 4 /\ n >= 10 ^ (4 - 1)
    BY <1>4, Powers
  <2> QED BY <2>1
<1>5. CASE n >= 10000 /\ n < 100000
  <2>1. n < 10 ^ 5 /\ n >= 10 ^ (5 - 1)
    BY <1>5, Powers
  <2> QED BY <2>1
<1>6. CASE n >= 100000 /\ n < 1000000
  <2>1. n < 10 ^ 6 /\ n >= 10 ^ (6 - 1)
    BY <1>6, Powers
  <2> QED BY <2>1
<1>7. CASE n >= 1000000 /\ n < 10000000
  <2>1. n < 10 ^ 7 /\ n >= 10 ^ (7 - 1)
    BY <1>7, Powers
  <2> QED BY <2>1
<1>8. CASE n >= 10000000 /\ n < 100000000
  <2>1. n < 10 ^ 8 /\ n >= 10 ^ (8 - 1)
    BY <1>8, Powers
  <2> QED BY <2>1
<1>9. CASE n >= 100000000 /\ n < 1000000000
  <2>1. n < 10 ^ 9 /\ n >= 10 ^ (9 - 1)
    BY <1>9, Powers
  <2> QED BY <2>1
<1>10. n < 1000000000
  BY Powers
<1> HIDE DEF Found
<1> QED BY <1>1, <1>2, <1>3, <1>4, <1>5, <1>6, <1>7, <1>8, <1>9, <1>10

LEMMA DigitsOf ==
  ASSUME NEW n \in Nat, n < 10 ^ 9
  PROVE  /\ Digits(n) \in 1..10 /\ n < 10 ^ Digits(n)
         /\ Digits(n) > 1 => n >= 10 ^ (Digits(n) - 1)
  BY DigitsExist DEF Digits

\* Of a number of up to ten digits, the number of digits before the last
Before == 1..9

LEMMA PowersGrow ==
  ASSUME NEW k \in Before
  PROVE  /\ 10 ^ k \in Nat /\ 10 ^ k >= 10
         /\ k >= 2 => 10 ^ k >= 100
         /\ k >= 3 => 10 ^ k >= 1000
         /\ k >= 4 => 10 ^ k >= 10000
         /\ k >= 5 => 10 ^ k >= 100000
<1>1. CASE k = 1
  BY <1>1, Powers
<1>2. CASE k = 2
  BY <1>2, Powers
<1>3. CASE k = 3
  BY <1>3, Powers
<1>4. CASE k = 4
  BY <1>4, Powers
<1>5. CASE k = 5
  BY <1>5, Powers
<1>6. CASE k = 6
  BY <1>6, Powers
<1>7. CASE k = 7
  BY <1>7, Powers
<1>8. CASE k = 8
  BY <1>8, Powers
<1>9. CASE k = 9
  BY <1>9, Powers
<1> QED BY <1>1, <1>2, <1>3, <1>4, <1>5, <1>6, <1>7, <1>8, <1>9 DEF Before

(* A number whose text is longer than a message has room for has more       *)
(* digits than that: it is at least the first such number.                  *)
LEMMA LongText ==
  ASSUME NEW n \in Nat, n < 10 ^ 9, Size(n) > MSG_SIZE
  PROVE  n >= 10 ^ (MSG_SIZE - 11) /\ 10 ^ (MSG_SIZE - 11) \in Nat
<1> DEFINE d == Digits(n)
           m == MSG_SIZE - 11
<1>1. d \in Nat /\ d >= 1 /\ d <= 10 /\ (d > 1 => n >= 10 ^ (d - 1))
  BY DigitsOf
<1>2. d + 11 > MSG_SIZE
  BY <1>1 DEF Size
<1>3. m \in {1, 2, 3, 4, 5} /\ d > m
  BY <1>1, <1>2, Zone3Assumption
<1> HIDE DEF d, m
<1>4. d - 1 \in {1, 2, 3, 4, 5, 6, 7, 8, 9} /\ d - 1 >= m
  BY <1>1, <1>3
<1>5. 10 ^ (d - 1) >= 10 ^ m /\ 10 ^ m \in Nat /\ 10 ^ (d - 1) \in Nat
  <2> DEFINE k == d - 1
  <2>0. k \in Before /\ k >= m
    BY <1>4 DEF Before
  <2> HIDE DEF k
  <2>a. PICK p \in Nat : /\ p = 10 ^ k /\ p >= 10
                         /\ k >= 2 => p >= 100
                         /\ k >= 3 => p >= 1000
                         /\ k >= 4 => p >= 10000
                         /\ k >= 5 => p >= 100000
    BY <2>0, PowersGrow
  <2> SUFFICES p >= 10 ^ m /\ 10 ^ m \in Nat /\ p \in Nat
    BY <2>a DEF k
  <2>1. CASE m = 1
    <3>1. 10 ^ m = 10 ^ 1
      BY <2>1
    <3>2. 10 ^ 1 = 10
      OBVIOUS
    <3> QED BY <2>a, <3>1, <3>2
  <2>2. CASE m = 2
    BY <2>0, <2>2, <2>a, 10 ^ 2 = 100
  <2>3. CASE m = 3
    BY <2>0, <2>3, <2>a, 10 ^ 3 = 1000
  <2>4. CASE m = 4
    BY <2>0, <2>4, <2>a, 10 ^ 4 = 10000
  <2>5. CASE m = 5
    BY <2>0, <2>5, <2>a, 10 ^ 5 = 100000
  <2> QED BY <1>3, <2>1, <2>2, <2>3, <2>4, <2>5
<1>6. d > 1 /\ n >= 10 ^ (d - 1)
  BY <1>1, <1>3
<1>7. n >= 10 ^ m /\ 10 ^ m \in Nat
  BY <1>5, <1>6
<1> QED BY <1>7 DEF m

LEMMA NextKeepsTypes == Types /\ [Next]_vars => Types'
<1> SUFFICES ASSUME Types, [Next]_vars PROVE Types'
  OBVIOUS
<1> USE Zone3Assumption, NoMsgIsMsg
<1> DEFINE Mails == /\ mem' \in [Zones -> Msg] /\ inbox' \in [Zones -> Msg]
                    /\ sent' \in [Zones -> 0..MaxSends] /\ served' \in [Zones -> 0..MaxSends]
           Buttons == /\ quiet' \subseteq Button /\ pressed' \subseteq Button
                      /\ count' \in [Button -> 0..MaxCount] /\ size' \in Nat
                      /\ \A b \in pressed' : count'[b] < MaxCount
<1>1. /\ mem \in [Zones -> Msg] /\ inbox \in [Zones -> Msg] /\ zone \in Zones
      /\ sent \in [Zones -> 0..MaxSends] /\ served \in [Zones -> 0..MaxSends]
  BY DEF Types
<1>2. /\ quiet \subseteq Button /\ count \in [Button -> 0..MaxCount] /\ size \in Nat
      /\ pressed \subseteq Button /\ \A b \in pressed : count[b] < MaxCount
  BY DEF Types
<1>3. Mails
  <2>1. CASE UNCHANGED <<mem, sent, inbox, served>>
    BY <1>1, <2>1
  <2>2. ASSUME NEW z \in Zones, Post(z) PROVE Mails
    <3>1. sent[z] \in Nat /\ sent[z] < MaxSends /\ sent' = [sent EXCEPT ![z] = sent[z] + 1]
      BY <1>1, <2>2 DEF Post
    <3>2. sent[z] + 1 \in 0..MaxSends /\ sent' \in [Zones -> 0..MaxSends]
      BY <1>1, <3>1
    <3>3. PICK k \in Text : mem' = [mem EXCEPT ![z] = [n |-> sent[z] + 1, kind |-> k]]
      BY <1>1, <2>2, <3>1 DEF Post
    <3>4. [n |-> sent[z] + 1, kind |-> k] \in Msg
      BY <3>2 DEF Msg
    <3>5. mem' \in [Zones -> Msg]
      BY <1>1, <3>3, <3>4
    <3> QED BY <1>1, <2>2, <3>2, <3>5 DEF Post
  <2>3. CASE Receive /\ UNCHANGED <<sent, served>>
    BY <1>1, <2>3 DEF Receive
  <2>4. CASE Start
    BY <1>1, <2>4 DEF Start, mail
  <2>5. CASE Serve
    <3>1. inbox[zone] \in Msg /\ inbox[zone].n \in 0..MaxSends
      BY <1>1 DEF Msg
    <3>2. /\ mem' = mem /\ sent' = sent /\ served' = [served EXCEPT ![zone] = inbox[zone].n]
          /\ inbox' = inbox \/ inbox' = [inbox EXCEPT ![zone] = NoMsg]
      BY <2>5 DEF Serve, Erase, mail
    <3> QED BY <1>1, <3>1, <3>2
  <2> QED BY <2>1, <2>2, <2>3, <2>4, <2>5, MailSteps
<1>4. Buttons
  <2>1. CASE UNCHANGED buttons
    BY <1>2, <2>1 DEF buttons
  <2>2. CASE Debounced
    BY <1>2, <2>2 DEF Debounced
  <2>3. CASE Start
    BY <1>2, <2>3 DEF Start
  <2>4. ASSUME NEW b \in Button, plic_handler(b) PROVE Buttons
    <3>0. b \in pressed /\ pressed' = pressed \ {b} /\ count[b] < MaxCount
      BY <1>2, <2>4 DEF plic_handler
    <3>1. CASE UNCHANGED <<quiet, count, size>>
      BY <1>2, <3>0, <3>1
    <3>2. CASE ~UNCHANGED <<quiet, count, size>>
      <4>1. /\ quiet' = quiet \ {b} /\ size' = Size(count[b])
            /\ count' = [count EXCEPT ![b] = count[b] + 1]
        BY <1>2, <2>4, <3>2 DEF plic_handler
      <4>2. count[b] \in Nat /\ count[b] < 10 ^ 9 /\ count[b] + 1 \in 0..MaxCount
        BY <1>2, <3>0, Powers
      <4>3. size' \in Nat
        BY <4>1, <4>2, DigitsOf DEF Size
      <4>4. count' \in [Button -> 0..MaxCount]
        BY <1>2, <4>1, <4>2
      <4>5. \A c \in pressed' : count'[c] < MaxCount
        BY <1>2, <3>0, <4>1
      <4> QED BY <1>2, <3>0, <4>1, <4>3, <4>4, <4>5
    <3> QED BY <3>1, <3>2
  <2>5. ASSUME NEW b \in Button, Press(b) PROVE Buttons
    BY <1>2, <2>5 DEF Press
  <2> QED BY <2>1, <2>2, <2>3, <2>4, <2>5, ButtonSteps
<1> QED BY <1>3, <1>4, ZoneStep DEF Types

(* What Post, the two receivers and the scan do to a mailbox and its inbox. *)
LEMMA NextKeepsInOrder ==
  ASSUME Types, InOrder, [Next]_vars
  PROVE  /\ InOrder'
         /\ \A z \in Zones : Kept(z) /\ ~Kept(z)' => pc = "start"
<1> USE Zone3Assumption, NoMsgIsMsg
<1>1. /\ mem \in [Zones -> Msg] /\ inbox \in [Zones -> Msg] /\ zone \in Zones
      /\ sent \in [Zones -> 0..MaxSends] /\ served \in [Zones -> 0..MaxSends]
  BY DEF Types
<1>2. \A z \in Zones : sent[z] \in Nat
  BY <1>1
<1>3. CASE UNCHANGED <<mem, sent, inbox, served>>
  BY <1>3 DEF InOrder, Taken, Kept
<1>4. ASSUME NEW y \in Zones, Post(y)
      PROVE  InOrder' /\ \A z \in Zones : Kept(z) => Kept(z)'
  <2>1. /\ mem[y] = NoMsg /\ sent' = [sent EXCEPT ![y] = sent[y] + 1]
        /\ inbox' = inbox /\ served' = served
    BY <1>1, <1>4 DEF Post
  <2>2. PICK k \in Text : mem' = [mem EXCEPT ![y] = [n |-> sent[y] + 1, kind |-> k]]
    BY <1>1, <1>4, <2>1 DEF Post
  <2>3. sent'[y] = sent[y] + 1 /\ mem'[y].n = sent[y] + 1 /\ mem'[y] # NoMsg
    BY <1>1, <1>2, <2>1, <2>2
  <2>4. \A z \in Zones \ {y} : mem'[z] = mem[z] /\ sent'[z] = sent[z]
    BY <1>1, <2>1, <2>2
  <2>5. ASSUME NEW z \in Zones
        PROVE  /\ mem'[z] # NoMsg => mem'[z].n = sent'[z]
               /\ Taken(z)' = Taken(z)
               /\ Kept(z) => Kept(z)'
    BY <1>2, <2>1, <2>3, <2>4 DEF InOrder, Taken, Kept
  <2> QED BY <2>1, <2>5 DEF InOrder
<1>5. ASSUME Receive, UNCHANGED <<sent, served>>
      PROVE  InOrder' /\ \A z \in Zones : Kept(z) => Kept(z)'
  <2>1. ASSUME NEW z \in Zones
        PROVE  /\ mem'[z] = NoMsg
               /\ mem[z] = NoMsg => inbox'[z] = inbox[z]
               /\ mem[z] # NoMsg => inbox'[z] = mem[z] /\ mem[z].n = sent[z]
    BY <1>5 DEF Receive, InOrder
  <2>2. ASSUME NEW z \in Zones PROVE inbox'[z] # NoMsg => inbox'[z].n = Taken(z)'
    BY <1>5, <2>1 DEF InOrder, Taken
  <2>3. ASSUME NEW z \in Zones, Kept(z) PROVE Kept(z)'
    BY <1>5, <2>1, <2>3 DEF Kept
  <2> QED BY <2>1, <2>2, <2>3 DEF InOrder
<1>6. CASE Start
  BY <1>6 DEF Start, mail, InOrder, Kept
<1>7. ASSUME Serve
      PROVE  InOrder' /\ \A z \in Zones : Kept(z) => Kept(z)'
  <2>1. /\ mem' = mem /\ sent' = sent /\ served' = [served EXCEPT ![zone] = inbox[zone].n]
        /\ inbox' = inbox \/ inbox' = [inbox EXCEPT ![zone] = NoMsg]
        /\ inbox[zone] # NoMsg
    BY <1>7 DEF Serve, Erase, mail
  <2>2. PICK y \in Zones : y = zone
    BY <1>1
  <2>3. served'[y] = Taken(y) /\ inbox'[y] \in {inbox[y], NoMsg}
    BY <1>1, <2>1, <2>2 DEF InOrder
  <2>4. \A z \in Zones \ {y} : served'[z] = served[z] /\ inbox'[z] = inbox[z]
    BY <1>1, <2>1, <2>2
  <2>5. ASSUME NEW z \in Zones PROVE Taken(z)' = Taken(z)
    BY <2>1 DEF Taken
  <2>6. InOrder'
    BY <2>1, <2>3, <2>4, <2>5 DEF InOrder
  <2>7. Kept(y)'
    BY <2>1, <2>3 DEF Taken, InOrder, Kept
  <2>8. ASSUME NEW z \in Zones \ {y}, Kept(z) PROVE Kept(z)'
    BY <2>1, <2>4, <2>8 DEF Kept
  <2> QED BY <2>6, <2>7, <2>8
<1> QED BY <1>3, <1>4, <1>5, <1>6, <1>7, MailSteps

(* A start forgets the text; a press builds the next one.                  *)
LEMMA NextKeepsText ==
  ASSUME Types, TextIsOfAPress, [Next]_vars
  PROVE  TextIsOfAPress'
<1>1. CASE UNCHANGED buttons \/ Debounced \/ \E b \in Button : Press(b)
  BY <1>1 DEF buttons, Debounced, Press, TextIsOfAPress
<1>2. CASE Start
  BY <1>2 DEF Start, TextIsOfAPress
<1>3. ASSUME NEW b \in Button, plic_handler(b), ~UNCHANGED <<quiet, count, size>>
      PROVE  TextIsOfAPress'
  <2>1. size' = Size(count[b]) /\ count' = [count EXCEPT ![b] = count[b] + 1]
    BY <1>3 DEF plic_handler, Types
  <2>2. count[b] \in Nat /\ count'[b] = count[b] + 1
    BY <2>1, Zone3Assumption DEF Types
  <2>3. count'[b] > 0 /\ count'[b] - 1 = count[b]
    BY <2>2
  <2> QED BY <2>1, <2>3 DEF TextIsOfAPress
<1>4. CASE UNCHANGED <<quiet, count, size>>
  BY <1>4 DEF TextIsOfAPress
<1> QED BY <1>1, <1>2, <1>3, <1>4, ButtonSteps

LEMMA InitZone3Inv == Init => Zone3Inv
<1> USE Zone3Assumption, NoMsgIsMsg, FirstZone
<1>1. Init => Types
  BY DEF Init, Types
<1>2. Init => InOrder /\ TextIsOfAPress
  BY DEF Init, InOrder, TextIsOfAPress
<1> QED BY <1>1, <1>2 DEF Zone3Inv

LEMMA NextZone3Inv == Zone3Inv /\ [Next]_vars => Zone3Inv'
  BY NextKeepsTypes, NextKeepsInOrder, NextKeepsText DEF Zone3Inv

LEMMA AlwaysZone3Inv == Spec => []Zone3Inv
  BY InitZone3Inv, NextZone3Inv, PTL DEF Spec

(* The text of a button is built within its 16 bytes as long as the number   *)
(* has at most five digits, for any messages, restarts and presses.         *)
THEOREM ButtonTextFits == Spec => []TextFits
<1>1. Zone3Inv => TextFits
  <2> SUFFICES ASSUME Zone3Inv, size > MSG_SIZE
               PROVE  \E b \in Button : count[b] > 10 ^ (MSG_SIZE - 11)
    BY DEF TextFits
  <2>1. PICK b \in Button : count[b] > 0 /\ size = Size(count[b] - 1)
    BY Zone3Assumption DEF Zone3Inv, Types, TextIsOfAPress
  <2>2. count[b] \in Nat /\ count[b] - 1 \in Nat /\ count[b] - 1 < 10 ^ 9
    BY <2>1, Zone3Assumption, Powers DEF Zone3Inv, Types
  <2>3. count[b] - 1 >= 10 ^ (MSG_SIZE - 11) /\ 10 ^ (MSG_SIZE - 11) \in Nat
    BY <2>1, <2>2, LongText
  <2> DEFINE p == 10 ^ (MSG_SIZE - 11)
  <2> HIDE DEF p
  <2>4. count[b] - 1 >= p /\ p \in Nat
    BY <2>3 DEF p
  <2>5. count[b] > p
    BY <2>2, <2>4
  <2> QED BY <2>5 DEF p
<1> QED BY <1>1, AlwaysZone3Inv, PTL

(* The latest message of a zone is never lost but by a start, for any       *)
(* number of zones and messages, by interrupt or by polling.               *)
THEOREM NoMessageIsLost == Spec => OnlyStartLoses
<1>1. Zone3Inv /\ [Next]_vars => \A z \in Zones : Kept(z) /\ ~Kept(z)' => pc = "start"
  BY NextKeepsInOrder DEF Zone3Inv
<1> QED BY <1>1, AlwaysZone3Inv, PTL DEF Spec, OnlyStartLoses
-----------------------------------------------------------------------------
(* Boot                                                                    *)

\* There is an image of a zone and one of a hart.
LEMMA HartImages ==
  ASSUME NEW h \in Loader!Hart
  PROVE  /\ Loader!Of(h) \in Loader!Images /\ Loader!Of(h) # 1
         /\ Loader!Of(h) <= Loader!LastImage
  BY BootAssumption DEF Loader!Hart, Loader!Of, Loader!Images, Loader!LastImage

LEMMA InitBootInv == Loader!Init => BootInv
<1> SUFFICES ASSUME Loader!Init PROVE BootInv
  OBVIOUS
<1>1. BootTypes
  BY DEF Loader!Init, BootTypes
<1>2. LoadedInOrder /\ ReleasedOnly /\ HasProgram
  BY DEF Loader!Init, LoadedInOrder, ReleasedOnly, HasProgram, Earlier
<1> QED BY <1>1, <1>2 DEF BootInv

LEMMA MountStep ==
  ASSUME BootInv, Loader!Mount
  PROVE  BootInv'
<1>1. BootTypes'
  BY DEF Loader!Mount, Loader!disk, BootInv, BootTypes
<1>2. LoadedInOrder'
  <2>1. /\ i = 1 /\ i' = 1 /\ e51' \in {"load", "abort"} /\ i \in Loader!Images
        /\ \A m \in Loader!Images : image'[m] \in Earlier
    BY BootAssumption DEF Loader!Mount, BootInv, LoadedInOrder, Loader!Images
  <2>2. LoadedTo(0)' /\ NoneFailed(0)'
    BY <2>1, BootAssumption DEF LoadedTo, NoneFailed, Loader!Images
  <2> QED BY <2>1, <2>2 DEF LoadedInOrder
<1>3. ReleasedOnly' /\ HasProgram'
  BY DEF Loader!Mount, BootInv, ReleasedOnly, HasProgram
<1> QED BY <1>1, <1>2, <1>3 DEF BootInv

LEMMA ReadStep ==
  ASSUME BootInv, Loader!f_read
  PROVE  BootInv'
<1>0. /\ e51 = "load" /\ e51' = "read" /\ i' = i /\ file' = file /\ free' = free
      /\ Loader!Reads(i)
      /\ image' = [image EXCEPT ![i] = "part"] /\ msip' = msip /\ u54' = u54
      /\ i \in Loader!Images /\ LoadedTo(i - 1) /\ NoneFailed(i - 1)
      /\ image \in [Loader!Images -> {"zero", "old", "part", "new"}]
  BY DEF Loader!f_read, Loader!disk, BootInv, BootTypes, LoadedInOrder
<1>1. BootTypes'
  BY <1>0 DEF BootInv, BootTypes
<1>2. LoadedInOrder'
  <2>1. ASSUME NEW m \in Loader!Images, m <= i - 1 \/ m > i - 1 + 1 PROVE image'[m] = image[m]
    <3>1. m # i
      BY <1>0, <2>1, BootAssumption DEF Loader!Images
    <3> QED BY <1>0, <3>1
  <2>2. LoadedTo(i - 1)'
    BY <1>0, <2>1 DEF LoadedTo, AsFiled
  <2>3. Loader!Reads(i)' /\ NoneFailed(i - 1)'
    BY <1>0 DEF Loader!Reads, Loader!Fails, NoneFailed
  <2>4. image'[i] = "part"
    BY <1>0
  <2> QED BY <1>0, <2>2, <2>3, <2>4 DEF LoadedInOrder
<1>3. ReleasedOnly' /\ HasProgram'
  BY <1>0 DEF BootInv, ReleasedOnly, HasProgram
<1> QED BY <1>1, <1>2, <1>3 DEF BootInv

(* f_load returns: the image is as its file is, and the loop goes on behind   *)
(* it or ends.                                                             *)
LEMMA LoadStep ==
  ASSUME BootInv, Loader!f_load
  PROVE  BootInv'
<1>0. /\ e51 \in {"load", "read"} /\ file' = file /\ free' = free
      /\ msip' = msip /\ u54' = u54
      /\ i \in Loader!Images /\ LoadedTo(i - 1) /\ NoneFailed(i - 1)
      /\ e51' = Loader!AfterLoad(i).e51 /\ i' = Loader!AfterLoad(i).i
      /\ image \in [Loader!Images -> {"zero", "old", "part", "new"}]
      /\ file \in [Loader!Images -> Loader!File]
  BY DEF Loader!f_load, Loader!disk, BootInv, BootTypes, LoadedInOrder
<1>a. \/ image' = image /\ e51 = "load" /\ ~Loader!Reads(i) /\ image[i] \in Earlier
      \/ /\ image' = image /\ e51 = "read" /\ file[i] = "unreadable" /\ image[i] = "part"
      \/ /\ image' = [image EXCEPT ![i] = "new"] /\ e51 = "read" /\ file[i] = "good"
  <2>1. CASE e51 = "load"
    BY <2>1, <1>0 DEF Loader!f_load, BootInv, LoadedInOrder
  <2>2. CASE e51 = "read"
    BY <2>2, <1>0 DEF Loader!f_load, BootInv, LoadedInOrder, Loader!Reads
  <2> QED BY <1>0, <2>1, <2>2
<1>n. PICK n \in Loader!Images : n = i
  BY <1>0
<1>e. \A m \in Loader!Images \ {i} : image'[m] = image[m]
  BY <1>0, <1>a
<1>f. i # 1 => image'[i] \in AsFiled(i)
  BY <1>0, <1>a DEF AsFiled, Earlier, Loader!Reads, Loader!File
<1>b. LoadedTo(n)' /\ \A m \in Loader!Images : m > i => image'[m] \in Earlier
  <2>1. ASSUME NEW m \in Loader!Images, m <= i, m # 1 PROVE image'[m] \in AsFiled(m)
    <3>1. CASE m = i
      BY <3>1, <2>1, <1>f
    <3>2. CASE m # i
      <4>1. m <= i - 1
        BY <3>2, <2>1, <1>0, BootAssumption DEF Loader!Images
      <4> QED BY <3>2, <4>1, <2>1, <1>0, <1>e DEF LoadedTo
    <3> QED BY <3>1, <3>2
  <2>2. ASSUME NEW m \in Loader!Images, m > i PROVE image'[m] \in Earlier
    <3>1. m > i - 1 + 1 /\ m # i
      BY <2>2, <1>0, BootAssumption DEF Loader!Images
    <3> QED BY <3>1, <1>0, <1>e DEF LoadedTo
  <2>3. \A m \in Loader!Images : m > i + 1 => m > i
    BY <1>0, BootAssumption DEF Loader!Images
  <2>4. \A m : AsFiled(m)' = AsFiled(m)
    BY <1>0 DEF AsFiled
  <2> QED BY <1>n, <2>1, <2>2, <2>3, <2>4 DEF LoadedTo
<1>c. \/ e51' = "abort" /\ i' = i
      \/ e51' = "release" /\ i' = 1 /\ Loader!Fails(i) /\ Loader!IsZone(i)
      \/ /\ e51' = "load" /\ i' = i + 1 /\ i < Loader!LastImage
         /\ ~(Loader!Fails(i) /\ Loader!IsZone(i))
      \/ /\ e51' = "release" /\ i' = 1 /\ ~(i < Loader!LastImage)
         /\ ~(Loader!Fails(i) /\ Loader!IsZone(i))
  <2>1. CASE Loader!Fails(i) /\ Loader!IsZone(i) /\ free = 0
    BY <2>1, <1>0 DEF Loader!AfterLoad
  <2>2. CASE Loader!Fails(i) /\ Loader!IsZone(i) /\ free > 0
    BY <2>2, <1>0 DEF Loader!AfterLoad
  <2>3. CASE ~(Loader!Fails(i) /\ Loader!IsZone(i)) /\ i < Loader!LastImage
    BY <2>3, <1>0 DEF Loader!AfterLoad
  <2>4. CASE ~(Loader!Fails(i) /\ Loader!IsZone(i)) /\ ~(i < Loader!LastImage)
    BY <2>4, <1>0 DEF Loader!AfterLoad
  <2> QED BY <2>1, <2>2, <2>3, <2>4 DEF BootInv, BootTypes
<1>d. ~(Loader!Fails(i) /\ Loader!IsZone(i)) => NoneFailed(n)'
  <2>1. \A m : Loader!Fails(m)' <=> Loader!Fails(m)
    BY <1>0 DEF Loader!Fails, Loader!Reads
  <2> SUFFICES ASSUME ~(Loader!Fails(i) /\ Loader!IsZone(i)),
                      NEW m \in 1..LastZoneImage, m <= i
               PROVE  ~Loader!Fails(m)
    BY <1>n, <2>1 DEF NoneFailed
  <2>2. CASE m = i
    BY <2>2, BootAssumption DEF Loader!IsZone
  <2>3. CASE m # i
    <3>1. m <= i - 1
      BY <2>3, <1>0, BootAssumption DEF Loader!Images
    <3> QED BY <3>1, <1>0 DEF NoneFailed
  <2> QED BY <2>2, <2>3
<1>1. BootTypes'
  <2>1. image' \in [Loader!Images -> {"zero", "old", "part", "new"}]
    BY <1>0, <1>a
  <2>2. e51' \in {"load", "release", "abort"} /\ i' \in Nat
    BY <1>0, <1>c, BootAssumption DEF Loader!Images
  <2> QED BY <1>0, <2>1, <2>2 DEF BootInv, BootTypes
<1>2. LoadedInOrder'
  <2>1. CASE e51' = "abort"
    BY <2>1 DEF LoadedInOrder
  <2>2. CASE e51' = "release" /\ i' = 1 /\ Loader!Fails(i) /\ Loader!IsZone(i)
    <3>1. PICK j \in 1..LastZoneImage : j = i
      BY <2>2, <1>0, BootAssumption DEF Loader!IsZone, Loader!Images
    <3>2. Loader!Fails(j)' /\ 1 \in Loader!Hart
      BY <2>2, <3>1, <1>0, BootAssumption DEF Loader!Fails, Loader!Reads, Loader!Hart
    <3>3. ASSUME NEW h \in Loader!Hart PROVE image'[Loader!Of(h)] \in Earlier
      <4>1. Loader!Of(h) \in Loader!Images /\ Loader!Of(h) > i
        BY <3>1, HartImages, BootAssumption DEF Loader!Hart, Loader!Of
      <4> QED BY <4>1, <1>b
    <3> QED BY <2>2, <3>1, <3>2, <3>3 DEF LoadedInOrder, Stopped
  <2>3. CASE /\ e51' = "load" /\ i' = i + 1 /\ i < Loader!LastImage
             /\ ~(Loader!Fails(i) /\ Loader!IsZone(i))
    <3>1. i' \in Loader!Images /\ i' - 1 = i /\ i' > i
      BY <2>3, <1>0, BootAssumption DEF Loader!Images, Loader!LastImage
    <3>2. LoadedTo(i - 1)' /\ NoneFailed(i - 1)'
      BY <1>b, <1>d, <1>n, <2>3, <3>1 DEF LoadedTo, NoneFailed
    <3>3. image'[i'] \in Earlier
      BY <1>b, <3>1
    <3> QED BY <2>3, <3>1, <3>2, <3>3 DEF LoadedInOrder
  <2>4. CASE /\ e51' = "release" /\ i' = 1 /\ ~(i < Loader!LastImage)
             /\ ~(Loader!Fails(i) /\ Loader!IsZone(i))
    <3>1. i = Loader!LastImage
      BY <2>4, <1>0, BootAssumption DEF Loader!LastImage, Loader!Images
    <3>2. AllLoaded' /\ 1 \in Loader!Hart
      BY <3>1, <2>4, <1>b, <1>d, <1>n, BootAssumption
      DEF AllLoaded, LoadedTo, NoneFailed, Loader!Hart, Loader!LastImage
    <3> QED BY <2>4, <3>2 DEF LoadedInOrder
  <2> QED BY <1>c, <2>1, <2>2, <2>3, <2>4
<1>3. ReleasedOnly' /\ HasProgram'
  BY <1>0, <1>c DEF BootInv, ReleasedOnly, HasProgram
<1> QED BY <1>1, <1>2, <1>3 DEF BootInv

(* What is said of the memory stays true while files and memory stay.       *)
LEMMA SameMemory ==
  ASSUME image' = image, file' = file
  PROVE  /\ \A n : /\ LoadedTo(n)' <=> LoadedTo(n)
                   /\ NoneFailed(n)' <=> NoneFailed(n)
                   /\ Loader!Reads(n)' <=> Loader!Reads(n)
         /\ AllLoaded' <=> AllLoaded
         /\ Stopped' <=> Stopped
  BY DEF LoadedTo, AsFiled, NoneFailed, AllLoaded, Stopped, Loader!Fails, Loader!Reads

LEMMA ReleaseStep ==
  ASSUME BootInv, Loader!Release
  PROVE  BootInv'
<1>0. /\ e51 = "release" /\ e51' \in {"release", "tee"} /\ file' = file /\ free' = free
      /\ image' = image
      /\ u54' = u54 /\ msip' = [msip EXCEPT ![i] = 1] /\ i \in Loader!Hart
      /\ e51' = "release" => i < LastHart /\ i' = i + 1
      /\ i' \in {i, i + 1}
  BY DEF Loader!Release, Loader!disk, BootInv, LoadedInOrder
<1>1. BootTypes'
  <2>1. i' \in Nat
    BY <1>0, BootAssumption DEF Loader!Hart
  <2> QED BY <1>0, <2>1 DEF BootInv, BootTypes
<1>2. LoadedInOrder'
  <2>1. e51' = "release" => i' \in Loader!Hart
    BY <1>0, BootAssumption DEF Loader!Hart
  <2>2. AllLoaded' \/ Stopped'
    BY <1>0, SameMemory DEF BootInv, LoadedInOrder
  <2> QED BY <1>0, <2>1, <2>2 DEF LoadedInOrder
<1>3. ReleasedOnly' /\ HasProgram'
  BY <1>0 DEF BootInv, ReleasedOnly, HasProgram
<1> QED BY <1>1, <1>2, <1>3 DEF BootInv

(* A hart in the entry code: its interrupt is cleared before it waits.      *)
LEMMA EntryStep ==
  ASSUME BootInv, NEW h \in Loader!Hart, Loader!entry(h)
  PROVE  BootInv'
<1>0. /\ file' = file /\ free' = free
      /\ image' = image /\ e51' = e51 /\ i' = i
      /\ msip \in [Loader!Hart -> {0, 1}]
      /\ u54 \in [Loader!Hart -> {"clear", "wait", "look", "run"}]
  BY DEF Loader!entry, Loader!Clear, Loader!Wait, Loader!Look, Loader!disk, BootInv, BootTypes
<1>a. /\ \A k \in Loader!Hart \ {h} : msip'[k] = msip[k] /\ u54'[k] = u54[k]
      /\ \/ u54'[h] = "wait" /\ msip'[h] = 0
         \/ u54[h] = "wait" /\ msip[h] = 1 /\ u54'[h] = "look"
         \/ u54[h] = "look" /\ u54'[h] = "clear"
         \/ u54[h] = "look" /\ u54'[h] = "run" /\ image[Loader!Of(h)] # "zero"
      /\ msip' \in [Loader!Hart -> {0, 1}]
      /\ u54' \in [Loader!Hart -> {"clear", "wait", "look", "run"}]
  <2>1. CASE Loader!Clear(h)
    BY <2>1, <1>0 DEF Loader!Clear, Loader!Goto
  <2>2. CASE Loader!Wait(h)
    BY <2>2, <1>0 DEF Loader!Wait, Loader!Goto
  <2>3. CASE Loader!Look(h)
    BY <2>3, <1>0 DEF Loader!Look, Loader!Goto
  <2> QED BY <2>1, <2>2, <2>3 DEF Loader!entry
<1>1. BootTypes'
  BY <1>0, <1>a DEF BootInv, BootTypes
<1>2. LoadedInOrder'
  BY <1>0, SameMemory DEF BootInv, LoadedInOrder
<1>3. ReleasedOnly' /\ HasProgram'
  BY <1>0, <1>a DEF BootInv, ReleasedOnly, HasProgram
<1> QED BY <1>1, <1>2, <1>3 DEF BootInv

LEMMA NextBootInv == BootInv /\ [Loader!Next]_(Loader!vars) => BootInv'
<1> SUFFICES ASSUME BootInv, [Loader!Next]_(Loader!vars) PROVE BootInv'
  OBVIOUS
<1>1. CASE UNCHANGED Loader!vars
  <2>1. /\ image' = image /\ file' = file /\ free' = free /\ e51' = e51 /\ i' = i
        /\ msip' = msip /\ u54' = u54
    BY <1>1 DEF Loader!vars, Loader!disk
  <2> QED BY <2>1, SameMemory DEF BootInv, BootTypes, LoadedInOrder, ReleasedOnly, HasProgram
<1> QED BY <1>1, MountStep, ReadStep, LoadStep, ReleaseStep, EntryStep
        DEF Loader!Next, Loader!loader

(* Whatever the memory and the interrupts were at power-on, and whatever is  *)
(* wrong with the files, for any number of harts: a hart runs exactly what    *)
(* the loader leaves for it when all loading is over.                       *)
THEOREM HartsRunWhatWasLoaded == Loader!Spec => []HartRunsWhatWasLoaded
<1>1. BootInv => HartRunsWhatWasLoaded
  <2> SUFFICES ASSUME BootInv, NEW h \in Loader!Hart, u54[h] = "run"
               PROVE  image[Loader!Of(h)] = Loader!Loaded(Loader!Of(h))
    BY DEF HartRunsWhatWasLoaded, Loader!HartRunsWhatWasLoaded
  <2> DEFINE n == Loader!Of(h)
  <2>1. n \in Loader!Images /\ n # 1 /\ n <= Loader!LastImage
    BY HartImages
  <2>2. image[n] # "zero" /\ (AllLoaded \/ Stopped)
    BY DEF BootInv, ReleasedOnly, LoadedInOrder, HasProgram
  <2>3. CASE Stopped
    <3>1. image[n] = "old"
      BY <2>2, <2>3 DEF Stopped, Earlier
    <3> QED BY <2>3, <3>1 DEF Stopped, Loader!Loaded
  <2>4. CASE AllLoaded
    <3>1. ~\E z \in 1..LastZoneImage : Loader!Fails(z)
      BY <2>4, BootAssumption DEF AllLoaded, NoneFailed, Loader!LastImage
    <3>2. image[n] \in AsFiled(n)
      BY <2>1, <2>4 DEF AllLoaded, LoadedTo
    <3> QED BY <2>2, <3>1, <3>2 DEF AsFiled, Earlier, Loader!Loaded
  <2> QED BY <2>2, <2>3, <2>4
<1> QED BY <1>1, InitBootInv, NextBootInv, PTL DEF Loader!Spec
=============================================================================
