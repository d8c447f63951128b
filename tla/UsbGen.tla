------------------------------- MODULE UsbGen -------------------------------
(***************************************************************************)
(* The USB class driver of the robot, mss_usb_host_gen.c: the enumeration,   *)
(* one state per millisecond, and the polling of the interrupt pipe.  The    *)
(* host driver under it is external; it allocates and releases the class      *)
(* driver and reports the end of transfers.  The control pipe is shared with  *)
(* usb_write of the robot (apps/hart4/main.c), whose main loop the tick may    *)
(* interrupt between its test of the pipe and its start of the transfer; a     *)
(* transfer that is started on a busy pipe replaces the other.               *)
(***************************************************************************)
EXTENDS Naturals

CONSTANTS Device, \* what can be attached
          Good,   \* those with an interrupt IN endpoint
          none

ASSUME DeviceAssumption == Good \subseteq Device /\ none \notin Device

VARIABLES
  device,          \* attached, addressed and given to this driver
  ok,              \* the status of a transfer that succeeds: 0 for a read; for
                   \* a control transfer it is up to the host driver
  cep, writing,    \* control pipe; usb_write has found it idle
  gen,             \* g_gen_state
  alloc, event,    \* g_usbh_gen_alloc_event; _cep_event
  desc, ep,        \* whose descriptor and endpoint g_gen_conf_desc and
                   \* g_tdev_in_ep hold
  machine, reading, rx, \* GEN_Machine_state; a read is going on; _rx_event
  misled           \* an end was taken that was not of the transfer waited for

usb  == <<device, ok, writing>>
pipe == <<machine, reading, rx>>
vars == <<usb, cep, gen, alloc, event, desc, ep, pipe, misled>>

\* No event (zero); the end of the driver's transfer, good or bad; any other
\* end.  The driver can only tell the first from the rest.
Event == {"none", "own", "failed", "foreign"}

\* Idle; the transfer of the configuration descriptor; another one of this
\* driver; one of the robot; one to a device that is gone
Cep == {"idle", "descr", "request", "robot", "gone"}

Init == /\ device = none /\ ok \in {0, 1} /\ cep = "idle" /\ writing = 0
        /\ gen = "IDLE" /\ alloc = 0 /\ event = "none"
        /\ desc = none /\ ep = none
        /\ machine = "IDLE" /\ reading = 0 /\ rx = 0
        /\ misled = 0
-----------------------------------------------------------------------------
(* The host driver (external) and the callbacks.                           *)

\* usbh_gen_allocate_cb
Allocate(d) == /\ device = none /\ cep = "idle"
               /\ device' = d
               /\ alloc' = 1
               /\ UNCHANGED <<ok, cep, writing, gen, event, desc, ep, pipe, misled>>

\* mutant: the descriptor is not erased
ReleaseKeepsDesc == /\ device # none
                    /\ device' = none
                    /\ cep' = IF cep = "idle" THEN "idle" ELSE "gone"
                    /\ gen' = "IDLE" /\ ep' = none
                    /\ event' = IF event = "none" THEN "none" ELSE "foreign"
                    /\ reading' = 0 /\ misled' = 0
                    /\ UNCHANGED <<ok, writing, alloc, desc, machine, rx>>

\* usbh_gen_release_cb.  The events and the state of the polling stay.
Release == /\ device # none
           /\ device' = none
           /\ cep' = IF cep = "idle" THEN "idle" ELSE "gone"
           /\ gen' = "IDLE" /\ desc' = none /\ ep' = none
           /\ event' = IF event = "none" THEN "none" ELSE "foreign"
           /\ reading' = 0 /\ misled' = 0
           /\ UNCHANGED <<ok, writing, alloc, machine, rx>>

\* usbh_gen_cep_done_cb stores the status as the event.
CepDone(good) ==
  /\ cep # "idle" /\ (good => cep # "gone")
  /\ event' = CASE good /\ ok = 0 -> "none"
                [] cep \in {"descr", "request"} /\ good /\ ok = 1 -> "own"
                [] cep \in {"descr", "request"} /\ ~good -> "failed"
                [] cep \in {"robot", "gone"} /\ ~(good /\ ok = 0) -> "foreign"
  /\ desc' = IF good /\ cep = "descr" THEN device ELSE desc
  /\ cep' = "idle"
  /\ UNCHANGED <<usb, gen, alloc, ep, pipe, misled>>

\* usbh_gen_rx_cb: data, NAKs until the timeout, or another error, which
\* ASSERT ignores in the build.
RxDone(status) ==
  /\ reading = 1
  /\ reading' = 0
  /\ rx' = IF status = "data" THEN 1 ELSE rx
  /\ gen' = IF status = "nak" THEN "DEVICE_RETRY" ELSE gen
  /\ UNCHANGED <<usb, cep, alloc, event, desc, ep, machine, misled>>
-----------------------------------------------------------------------------
(* usb_write of the robot, whose transfers end in usbh_gen_cep_done_cb too.  *)

RobotTest == /\ writing = 0 /\ cep = "idle" /\ device # none
             /\ writing' = 1
             /\ UNCHANGED <<device, ok, cep, gen, alloc, event, desc, ep, pipe, misled>>

RobotStart == /\ writing = 1 /\ writing' = 0
              /\ cep' = IF device = none THEN "gone" ELSE "robot"
              /\ UNCHANGED <<device, ok, gen, alloc, event, desc, ep, pipe, misled>>
-----------------------------------------------------------------------------
(* MSS_USBH_GEN_task: one case per action.                                 *)

To(here, there) == gen = here /\ gen' = there

Idle == /\ To("IDLE", "GET_CLASS_DESCR") /\ alloc = 1
        /\ alloc' = 0
        /\ UNCHANGED <<usb, cep, event, desc, ep, pipe, misled>>

\* The address is 0, and the state not ADDRESS, when no device is attached.
GetClassDescr == /\ To("GET_CLASS_DESCR", "WAIT_GET_CLASS_DESCR")
                 /\ device # none /\ cep = "idle"
                 /\ cep' = "descr"
                 /\ UNCHANGED <<usb, alloc, event, desc, ep, pipe, misled>>

\* mutant: the event stays
TakeEventKept == /\ event # "none"
                 /\ event' = event
                 /\ misled' = IF event = "foreign" THEN 1 ELSE misled

\* if (g_usbh_gen_cep_event) g_usbh_gen_cep_event = 0
TakeEvent == /\ event # "none"
             /\ event' = "none"
             /\ misled' = IF event = "foreign" THEN 1 ELSE misled

\* mutant: no device passes the test of the attributes
ExtractNone(d) == none

\* MSS_USBH_GEN_extract_tdev_ep_desc
Extract(d) == IF d \in Good THEN d ELSE none

WaitGetClassDescr ==
  /\ gen = "WAIT_GET_CLASS_DESCR" /\ TakeEvent
  /\ IF Extract(desc) = none THEN gen' = "ERROR" /\ ep' = ep
     ELSE gen' = "SET_CONFIG" /\ ep' = Extract(desc)
  /\ UNCHANGED <<usb, cep, alloc, desc, pipe>>

\* A request, and the wait for its end.  The pipe is not looked at.
Request(here, there) == /\ To(here, there)
                        /\ cep' = "request"
                        /\ UNCHANGED <<usb, alloc, event, ep, pipe, misled>>

Wait(here, there) == /\ To(here, there) /\ TakeEvent
                     /\ UNCHANGED <<usb, cep, alloc, desc, ep, pipe>>

SetConfig == Request("SET_CONFIG", "WAIT_SET_CONFIG") /\ UNCHANGED desc
WaitSetConfig == Wait("WAIT_SET_CONFIG", "WAIT_DEV_SETTLE")

\* After 60 ms
DevSettle == /\ To("WAIT_DEV_SETTLE", "REQ_GET_GEN_DESC")
             /\ UNCHANGED <<usb, cep, alloc, event, desc, ep, pipe, misled>>

GetGenDesc == Request("REQ_GET_GEN_DESC", "WAIT_GET_GEN_DESC") /\ desc' = none
WaitGetGenDesc == Wait("WAIT_GET_GEN_DESC", "REQ_GET_REPORT_DESC")
GetReportDesc == /\ Request("REQ_GET_REPORT_DESC", "WAIT_REQ_GET_REPORT_DESC")
                 /\ UNCHANGED desc
WaitGetReportDesc == Wait("WAIT_REQ_GET_REPORT_DESC", "REQ_SET_IDLE")
SetIdle == Request("REQ_SET_IDLE", "WAIT_REQ_SET_IDLE") /\ UNCHANGED desc

\* mutant: ready is reached when the request is made
WaitSetIdleNot == /\ gen = "WAIT_REQ_SET_IDLE"
                  /\ UNCHANGED vars

WaitSetIdle == Wait("WAIT_REQ_SET_IDLE", "DEVICE_READY")

\* USBH_GEN_Handle
Handle == /\ gen = "DEVICE_READY"
          /\ \/ machine = "IDLE" /\ machine' = "READ_DATA" /\ UNCHANGED <<reading, rx>>
             \/ /\ machine = "READ_DATA" /\ machine' = "POLL"
                /\ reading' = 1 /\ UNCHANGED rx
             \/ machine = "POLL" /\ machine' = "WAIT_READ_DATA" /\ UNCHANGED <<reading, rx>>
             \/ /\ machine = "WAIT_READ_DATA" /\ rx = 1
                /\ rx' = 0 /\ machine' = "READ_DATA" /\ UNCHANGED reading
          /\ UNCHANGED <<usb, cep, gen, alloc, event, desc, ep, misled>>

Enumerate == \/ Idle \/ GetClassDescr \/ WaitGetClassDescr \/ SetConfig \/ WaitSetConfig
             \/ DevSettle \/ GetGenDesc \/ WaitGetGenDesc \/ GetReportDesc
             \/ WaitGetReportDesc \/ SetIdle \/ WaitSetIdle

Next == \/ \E d \in Device : Allocate(d)
        \/ Release
        \/ \E good \in BOOLEAN : CepDone(good)
        \/ \E status \in {"data", "nak", "error"} : RxDone(status)
        \/ RobotTest \/ RobotStart \/ Enumerate \/ Handle

Spec == Init /\ [][Next]_vars

\* The task runs every millisecond, transfers end, and the robot, whose
\* commands are at least 90 ms apart, leaves the pipe idle again and again.
Fairness == /\ SF_vars(Enumerate) /\ WF_vars(Handle) /\ WF_vars(RobotStart)
            /\ WF_vars(\E good \in BOOLEAN : CepDone(good))

FairSpec == Spec /\ Fairness
-----------------------------------------------------------------------------
Requests == {"SET_CONFIG", "REQ_GET_GEN_DESC", "REQ_GET_REPORT_DESC", "REQ_SET_IDLE"}
Waits == {"WAIT_SET_CONFIG", "WAIT_GET_GEN_DESC", "WAIT_REQ_GET_REPORT_DESC",
          "WAIT_REQ_SET_IDLE"}
Configured == Requests \cup Waits \cup {"WAIT_DEV_SETTLE", "DEVICE_READY", "DEVICE_RETRY"}
State == Configured \cup {"IDLE", "GET_CLASS_DESCR", "WAIT_GET_CLASS_DESCR", "ERROR"}

TypeOK == /\ device \in Device \cup {none} /\ ok \in {0, 1}
          /\ cep \in Cep /\ writing \in {0, 1}
          /\ gen \in State /\ alloc \in {0, 1} /\ event \in Event
          /\ desc \in Device \cup {none} /\ ep \in Good \cup {none}
          /\ machine \in {"IDLE", "READ_DATA", "POLL", "WAIT_READ_DATA"}
          /\ reading \in {0, 1} /\ rx \in {0, 1} /\ misled \in {0, 1}

(* Once a device is configured the driver knows its endpoint, and not that   *)
(* of a device that was there before, though no event is cleared when a       *)
(* device goes and the ends of the robot's transfers look like its own.      *)
ReadyHasEndpoint == gen \in Configured => ep = device /\ device \in Good

(* The driver asks for the next thing only after its transfer has ended,     *)
(* until it takes another's end for its own.                                *)
InStep == gen \in Requests /\ misled = 0 => cep \notin {"descr", "request"}

(* A good device is refused only if the transfer of its descriptor failed,   *)
(* or another's end was taken for the end of it.                            *)
OnlyForeignEndsRefuse ==
  [][gen' = "ERROR" /\ gen # "ERROR" /\ device \in Good => event \in {"failed", "foreign"}]_vars

(* If the host driver reports success with a status that is not zero, every  *)
(* device that stays is enumerated, or found bad, whatever earlier devices   *)
(* left behind and whenever the robot writes.                               *)
EnumerationEnds ==
  (device # none /\ ok = 1)
    ~> (gen \in {"DEVICE_READY", "DEVICE_RETRY", "ERROR"} \/ device = none)

(* "Device responding with NAKs. Retry" (mss_usb_host_gen.c:540).           *)
RetryIsTried == gen = "DEVICE_RETRY" ~> gen # "DEVICE_RETRY"
=============================================================================
