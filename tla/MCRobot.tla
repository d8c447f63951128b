------------------------------ MODULE MCRobot ------------------------------
(* In each behaviour the zones send one mix of messages.                   *)
EXTENDS Arm

VARIABLE mix

Mixes == {{"key"}, {"unfold", "stop"}, {"start", "stop"}}

\* Sequences do not look at the control pipe: with them the stack has none of
\* its own transfers on it, and the arm is not watched.
OwnTransfers == cep' # "stack" /\ UNCHANGED <<motor, lost>>

\* MAIN, which only a stop ends, has many steps: with it the arm stays plugged
\* in, and a message comes only when the one before has been read.
Quiet == /\ conn => conn'
         /\ \A z \in Zone : inbox'[z] \in {inbox[z], "none"} \/ inbox[z] = "none"

MCInit == ArmInit /\ mix \in Mixes

MCNext == /\ ArmNext
          /\ \A z \in Zone : inbox'[z] \in mix \cup {"none"}
          /\ mix # {"key"} => OwnTransfers
          /\ "start" \in mix => Quiet
          /\ UNCHANGED mix

MCSpec == MCInit /\ [][MCNext]_<<armVars, mix>> /\ Fairness

(* With manual commands only, an arm left moving is stopped.               *)
KeysStop == mix = {"key"} => MotorStops
=============================================================================
