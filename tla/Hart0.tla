------------------------------- MODULE Hart0 -------------------------------
(* The small programs of hart 0 side by side: zone 3, zone 4, the boot loader *)
EXTENDS Zone3

CONSTANTS LastZoneImage,  \* images for zones are 1..LastZoneImage
          LastHart        \* harts 1..LastHart are released

ASSUME BootAssumption == LastZoneImage \in Nat \ {0} /\ LastHart \in Nat \ {0}

VARIABLES mem4, sent4, mie4, MIE4, pc4, zone4,
          volume, free, file, image, e51, i, msip, u54

Z4 == INSTANCE Zone4 WITH mem <- mem4, sent <- sent4, mie <- mie4, MIE <- MIE4,
                          pc <- pc4, zone <- zone4
Loader == INSTANCE Boot

vars4 == <<mem4, sent4, mie4, MIE4, pc4, zone4>>
bootVars == <<volume, free, file, image, e51, i, msip, u54>>

(* Zone4, Boot *)
MessageIsTaken == Z4!MessageIsTaken
HartRunsWhatWasLoaded == Loader!HartRunsWhatWasLoaded
HartIsReleased == Loader!HartIsReleased
=============================================================================
