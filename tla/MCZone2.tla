------------------------------ MODULE MCZone2 ------------------------------
(* Each behaviour is of one scenario: the pieces that come from each zone   *)
(* and the commands that are typed.                                        *)
EXTENDS Zone2

VARIABLE scenario

Scenarios ==
  {[text |-> {"open", "ping"}, sends |-> <<5, 0>>, cmd |-> {}],
   [text |-> {"open", "ping"}, sends |-> <<3, 0>>, cmd |-> {"recv"}],
   [text |-> {"open", "ping"}, sends |-> <<2, 1>>, cmd |-> {"print"}],
   [text |-> {"ping", "nul", "restart"}, sends |-> <<2, 0>>, cmd |-> {"print", "timer", "restart", "trap"}]}

ASSUME ScenarioAssumption == LastZone = 2 /\ \A s \in Scenarios : s.text \subseteq Text

MCInit == Init /\ scenario \in Scenarios

MCNext == /\ Next
          /\ \A z \in Zones : /\ mem'[z].kind \in scenario.text \cup {"nul"}
                              /\ last'[z].n <= scenario.sends[z]
          /\ taken' # taken => "recv" \in scenario.cmd
          /\ queue' # <<>> => scenario.cmd # {}
          /\ "tmr" \in mie' \ mie => "timer" \in scenario.cmd
          /\ pc = "cmd" /\ pc' = "start" => "restart" \in scenario.cmd
          /\ pc = "cmd" /\ pc' = "trap" => "trap" \in scenario.cmd
          /\ UNCHANGED scenario

MCSpec == MCInit /\ [][MCNext]_<<vars, scenario>> /\ Fairness
=============================================================================
