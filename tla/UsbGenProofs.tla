---------------------------- MODULE UsbGenProofs ----------------------------
(***************************************************************************)
(* Proofs about UsbGen, for any devices.                                    *)
(***************************************************************************)
EXTENDS UsbGen, TLAPS

Own == {"descr", "request"}
OwnEnd == {"own", "failed"}

\* What the driver keeps is of the device that is there, and nobody reads but
\* a driver that is ready.
OfDevice == /\ desc \in {none, device}
            /\ gen \in Configured => ep = device /\ device \in Good
            /\ reading = 1 => gen = "DEVICE_READY"
            /\ gen \in {"WAIT_GET_CLASS_DESCR", "ERROR"} => device # none

\* A transfer of the driver is under way, or its end is there, only while the
\* driver waits for it.
OneEnd == misled = 0 =>
            /\ cep \in Own => event \notin OwnEnd
            /\ cep \in Own \/ event \in OwnEnd =>
                 gen \in Waits \cup {"WAIT_GET_CLASS_DESCR"}

\* The first end that is the driver's own is that of the descriptor.
Early == /\ gen \in {"IDLE", "GET_CLASS_DESCR"} => cep \notin Own /\ event \notin OwnEnd
         /\ gen = "WAIT_GET_CLASS_DESCR" =>
              cep # "request" /\ (event = "own" => desc = device)

IInv == TypeOK /\ OfDevice /\ OneEnd /\ Early

LEMMA InitIInv == Init => IInv
  BY DeviceAssumption DEF Init, IInv, TypeOK, OfDevice, OneEnd, Early, Own, OwnEnd, Cep, Event, State,
     Configured, Requests, Waits

LEMMA HostKeepsIInv ==
  ASSUME IInv, \/ \E d \in Device : Allocate(d)
               \/ Release
               \/ \E good \in BOOLEAN : CepDone(good)
               \/ \E status \in {"data", "nak", "error"} : RxDone(status)
               \/ RobotTest \/ RobotStart
  PROVE  IInv'
<1> USE DeviceAssumption DEF IInv, TypeOK, OfDevice, OneEnd, Early, Own, OwnEnd, Cep, Event, State,
    Configured, Requests, Waits, usb, pipe
<1>1. CASE \E d \in Device : Allocate(d)
  <2>1. PICK d \in Device : Allocate(d)
    BY <1>1
  <2>2. gen \notin Configured \cup {"WAIT_GET_CLASS_DESCR", "ERROR"} /\ desc = none
    BY <2>1 DEF Allocate
  <2> QED
    BY <2>1, <2>2 DEF Allocate
<1>2. CASE Release
  BY <1>2 DEF Release
<1>3. CASE \E good \in BOOLEAN : CepDone(good)
  <2>1. PICK good \in BOOLEAN : CepDone(good)
    BY <1>3
  <2> QED
    BY <2>1 DEF CepDone
<1>4. CASE \E status \in {"data", "nak", "error"} : RxDone(status)
  <2>1. PICK status \in {"data", "nak", "error"} : RxDone(status)
    BY <1>4
  <2> QED
    BY <2>1 DEF RxDone
<1>5. CASE RobotTest \/ RobotStart
  BY <1>5 DEF RobotTest, RobotStart
<1> QED
  BY <1>1, <1>2, <1>3, <1>4, <1>5

LEMMA TakeIs ==
  ASSUME TypeOK, OneEnd, TakeEvent
  PROVE  misled' = 0 => cep \notin Own
<1>1. event \in Event /\ event # "none" /\ (misled' = 0 => event # "foreign" /\ misled = 0)
  BY DEF TypeOK, TakeEvent
<1>2. misled' = 0 => event \in OwnEnd /\ misled = 0
  BY <1>1 DEF Event, OwnEnd
<1> QED
  BY <1>2 DEF OneEnd

LEMMA TaskKeepsIInv ==
  ASSUME IInv, Enumerate \/ Handle
  PROVE  IInv'
<1> USE DeviceAssumption DEF IInv, TypeOK, OfDevice, OneEnd, Early, Own, OwnEnd, Cep, Event, State,
    Configured, Requests, Waits, usb, pipe, To
<1>1. CASE Idle \/ GetClassDescr \/ DevSettle
  BY <1>1 DEF Idle, GetClassDescr, DevSettle
<1>2. CASE WaitGetClassDescr
  <2>1. desc = none => Extract(desc) = none
    BY DEF Extract
  <2>2. /\ misled' \in {0, 1} /\ event' = "none" /\ (misled' = 0 => misled = 0 /\ event # "foreign")
        /\ UNCHANGED <<usb, cep, alloc, desc, pipe>>
        /\ gen = "WAIT_GET_CLASS_DESCR" /\ event # "none"
    BY <1>2 DEF WaitGetClassDescr, TakeEvent
  <2>3. misled' = 0 => cep' \notin Own
    <3>1. TakeEvent
      BY <1>2 DEF WaitGetClassDescr
    <3> QED
      BY <2>2, <3>1, TakeIs
  <2>4. CASE Extract(desc) = none
    <3>1. gen' = "ERROR" /\ ep' = ep
      BY <1>2, <2>4 DEF WaitGetClassDescr
    <3> QED
      BY <2>2, <2>3, <3>1
  <2>5. CASE Extract(desc) # none
    <3>1. gen' = "SET_CONFIG" /\ ep' = desc /\ desc \in Good
      BY <1>2, <2>5 DEF WaitGetClassDescr, Extract
    <3>2. desc = device
      BY <3>1
    <3> QED
      BY <2>2, <2>3, <3>1, <3>2
  <2> QED
    BY <2>4, <2>5
<1>3. CASE SetConfig \/ GetGenDesc \/ GetReportDesc \/ SetIdle
  BY <1>3 DEF SetConfig, GetGenDesc, GetReportDesc, SetIdle, Request
<1>4. CASE WaitSetConfig \/ WaitGetGenDesc \/ WaitGetReportDesc \/ WaitSetIdle
  <2>1. /\ misled' \in {0, 1} /\ event' = "none" /\ (misled' = 0 => misled = 0 /\ event # "foreign")
        /\ event # "none" /\ UNCHANGED <<usb, cep, alloc, desc, ep, pipe>>
        /\ gen \in Waits /\ gen' \in Configured /\ (gen' = "DEVICE_READY" \/ reading = 0)
    BY <1>4 DEF WaitSetConfig, WaitGetGenDesc, WaitGetReportDesc, WaitSetIdle, Wait, TakeEvent
  <2>2. misled' = 0 => cep' \notin Own
    <3>1. TakeEvent
      BY <1>4 DEF WaitSetConfig, WaitGetGenDesc, WaitGetReportDesc, WaitSetIdle, Wait
    <3> QED
      BY <2>1, <3>1, TakeIs
  <2>3. TypeOK'
    BY <2>1
  <2>4. OfDevice'
    BY <2>1
  <2>5. OneEnd' /\ Early'
    BY <2>1, <2>2
  <2> QED
    BY <2>3, <2>4, <2>5
<1>5. CASE Handle
  BY <1>5 DEF Handle
<1> QED
  BY <1>1, <1>2, <1>3, <1>4, <1>5 DEF Enumerate

LEMMA NextKeepsIInv == IInv /\ [Next]_vars => IInv'
<1> SUFFICES ASSUME IInv, [Next]_vars PROVE IInv'
  OBVIOUS
<1>1. CASE UNCHANGED vars
  BY <1>1 DEF vars, usb, pipe, IInv, TypeOK, OfDevice, OneEnd, Early
<1>2. CASE Next
  BY <1>2, HostKeepsIInv, TaskKeepsIInv DEF Next
<1> QED
  BY <1>1, <1>2

LEMMA AlwaysIInv == Spec => []IInv
  BY InitIInv, NextKeepsIInv, PTL DEF Spec

(* UsbGen is type-correct.                                                 *)
THEOREM TypeCorrect == Spec => []TypeOK
<1>1. IInv => TypeOK
  BY DEF IInv
<1> QED
  BY <1>1, AlwaysIInv, PTL

(* A configured device is one whose endpoint the driver knows, however       *)
(* devices come and go and the robot writes.                                *)
THEOREM KnowsEndpoint == Spec => []ReadyHasEndpoint
<1>1. IInv => ReadyHasEndpoint
  BY DEF IInv, OfDevice, ReadyHasEndpoint
<1> QED
  BY <1>1, AlwaysIInv, PTL

(* The driver's transfers follow each other until it takes another's end    *)
(* for its own.                                                            *)
THEOREM KeepsInStep == Spec => []InStep
<1>1. IInv => InStep
  BY DEF IInv, OneEnd, InStep, Own, Requests, Waits
<1> QED
  BY <1>1, AlwaysIInv, PTL

(* A good device is refused only on a failed transfer or another's end.     *)
THEOREM RefusesOnForeignEnds == Spec => OnlyForeignEndsRefuse
<1>1. ASSUME IInv, Next, gen' = "ERROR", gen # "ERROR", device \in Good
      PROVE  event \in {"failed", "foreign"}
  <2>1. gen = "WAIT_GET_CLASS_DESCR" /\ event # "none" /\ Extract(desc) = none
    BY <1>1 DEF Next, vars, usb, pipe, Allocate, Release, CepDone, RxDone, RobotTest, RobotStart,
       Enumerate, Idle, GetClassDescr, WaitGetClassDescr, SetConfig, WaitSetConfig, DevSettle,
       GetGenDesc, WaitGetGenDesc, GetReportDesc, WaitGetReportDesc, SetIdle, WaitSetIdle,
       Handle, Request, Wait, To, TakeEvent
  <2>2. event # "own"
    <3>1. device # none /\ (event = "own" => desc = device)
      BY <1>1, <2>1 DEF IInv, OfDevice, Early
    <3> QED
      BY <1>1, <2>1, <3>1 DEF Extract
  <2> QED
    BY <1>1, <2>1, <2>2 DEF IInv, TypeOK, Event
<1>2. IInv /\ [Next]_vars =>
        [gen' = "ERROR" /\ gen # "ERROR" /\ device \in Good => event \in {"failed", "foreign"}]_vars
  BY <1>1
<1> QED
  BY <1>2, AlwaysIInv, PTL DEF Spec, OnlyForeignEndsRefuse
=============================================================================
