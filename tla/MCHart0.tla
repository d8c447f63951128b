------------------------------ MODULE MCHart0 ------------------------------
(* One of the programs of hart 0 runs in each behaviour, the others keep     *)
(* their first state.  "buttons" is zone 3 without messages, "messages"      *)
(* zone 3 without buttons.  One file at most is bad.                        *)
EXTENDS Hart0

VARIABLE program

all == <<program, vars, vars4, bootVars>>

NoDisk == /\ volume = "bad" /\ free = 0
          /\ file = [n \in Loader!Images |-> "good"]
          /\ image = [n \in Loader!Images |-> "zero"]
          /\ msip = [h \in Loader!Hart |-> 0]

MCInit == /\ program \in {"buttons", "messages", "zone4", "boot"}
          /\ Init /\ Z4!Init /\ Loader!Init
          /\ program # "boot" => NoDisk
          /\ Cardinality({n \in Loader!Images : file[n] # "good"}) <= 1

OnZone3(A) == /\ A
              /\ \/ program = "buttons" /\ sent' = sent
                 \/ program = "messages" /\ pressed' = {}
              /\ UNCHANGED <<program, vars4, bootVars>>
OnZone4(A) == program = "zone4" /\ A /\ UNCHANGED <<program, vars, bootVars>>
OnBoot(A) == program = "boot" /\ A /\ UNCHANGED <<program, vars, vars4>>

MCNext == OnZone3(Next) \/ OnZone4(Z4!Next) \/ OnBoot(Loader!Next)

\* Each program runs; in zone 3 an interrupt that is enabled again and again
\* is taken, and the timer runs out.
MCFairness == /\ WF_all(OnZone3(main)) /\ WF_all(OnZone3(Expire))
              /\ SF_all(OnZone3(msi_handler)) /\ SF_all(OnZone3(tmr_handler))
              /\ WF_all(OnZone4(Z4!main)) /\ SF_all(OnZone4(Z4!trap_handler))
              /\ WF_all(OnBoot(Loader!loader))
              /\ \A h \in Loader!Hart : WF_all(OnBoot(Loader!entry(h)))

MCSpec == MCInit /\ [][MCNext]_all /\ MCFairness
=============================================================================
