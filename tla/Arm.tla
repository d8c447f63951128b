-------------------------------- MODULE Arm --------------------------------
(***************************************************************************)
(* The robot arm (external) at the end of the control pipe that Robot       *)
(* writes to: it executes the command whose data it has received last.      *)
(***************************************************************************)
EXTENDS Robot

VARIABLES motor, \* what the arm executes
          lost   \* history: the arm moves, and a transfer of the USB stack's
                 \* own, or a failure, has cost it the STOP written last

armVars == <<vars, motor, lost>>

ArmInit == Init /\ motor = "stop" /\ lost = FALSE

\* The arm moves, and the last that usb_write was given is a STOP.
Unstopped == motor' = "move" /\ buf' = "stop"

\* A transfer of the stack replaces one whose data is still to be sent, or has
\* the pipe that a task finds busy.
ArmTick == \E e \in Host, late \in SUBSET Timer, starts \in BOOLEAN :
             LET cmd == Written(late \cup {t \in Timer : timer[t] = "due"})
             IN /\ Tick(e, late, starts)
                /\ motor' = motor
                /\ lost' = (/\ Unstopped
                            /\ \/ lost
                               \/ starts /\ cep = "setup"
                               \/ cmd # "none" /\ cep' = "stack")

\* The arm obeys, or the transfer fails.
ArmData == /\ XferData
           /\ motor' \in {motor, buf}
           /\ lost' = Unstopped

\* usb_write in the main thread finds the pipe the stack's.
ArmLoop == /\ Loop
           /\ motor' = motor
           /\ lost' = (/\ Unstopped
                       /\ lost \/ (pc \in {"keyPipe", "gripPipe"} /\ cep = "stack"))

ArmNext == \/ ArmTick \/ ArmData \/ ArmLoop
           \/ (XferDone \/ Software) /\ UNCHANGED <<motor, lost>>

ArmSpec == ArmInit /\ [][ArmNext]_armVars /\ Fairness
-----------------------------------------------------------------------------
(* An arm that moves although neither a manual command nor a sequence is   *)
(* in force stops, or is given one, or is unplugged, as long as neither a  *)
(* transfer of the USB stack nor a failure costs it a STOP: none is         *)
(* lost for good to the robot's own transfers and the data they share.      *)
MotorStops == (motor = "move" /\ sequence = "null" /\ man = "stop" /\ conn /\ ~lost)
                ~> (motor = "stop" \/ sequence # "null" \/ man = "move" \/ ~conn \/ lost)
=============================================================================
