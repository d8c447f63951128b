-------------------------------- MODULE Boot --------------------------------
(***************************************************************************)
(* The boot of the SoC: the loader on hart 0 (e51.c) mounts the eMMC volume, *)
(* reads the images of the zones, then those of the application harts, and   *)
(* releases the harts, which wait in the entry code (mss_entry.S).  The file *)
(* system is external: a file is good, or one of the ways it is not.         *)
(***************************************************************************)
EXTENDS Naturals

CONSTANTS LastZoneImage, \* zone1.bin .. zone4.bin
          LastHart       \* hart1.bin .. hart4.bin, harts 1..4

VARIABLES volume, free, file, \* what is on the eMMC; it does not change
          image,              \* memory of each image
          e51, i,             \* the loader; its loop index
          msip, u54           \* the application harts

disk == <<volume, free, file>>
vars == <<disk, image, e51, i, msip, u54>>

Hart == 1..LastHart
Images == 1..(LastZoneImage + LastHart)
Of(h) == LastZoneImage + h  \* the image of hart h
IsZone(n) == n <= LastZoneImage

File == {"good", "missing", "badSize", "unreadable"}

\* The memory is cleared or has the image of an earlier boot.
Init == /\ volume \in {"ok", "bad"} /\ free \in {0, 1} /\ file \in [Images -> File]
        /\ \E content \in {"zero", "old"} : image = [n \in Images |-> content]
        /\ e51 = "mount" /\ i = 1
        /\ msip \in [Hart -> {0, 1}] /\ u54 = [h \in Hart |-> "clear"]
-----------------------------------------------------------------------------
(* The loader.                                                             *)

Mount == /\ e51 = "mount"
         /\ e51' = IF volume = "ok" THEN "load" ELSE "abort"
         /\ UNCHANGED <<disk, image, i, msip, u54>>

\* f_load reads a file that opens and whose size is right, but never zone1.bin.
Reads(n) == file[n] \in {"good", "unreadable"} /\ n # 1

\* Its result: a file of a wrong size counts as loaded.
Fails(n) == file[n] = "missing" \/ (Reads(n) /\ file[n] = "unreadable")

LastImage == LastZoneImage + LastHart

f_read == /\ e51 = "load" /\ Reads(i)
          /\ image' = [image EXCEPT ![i] = "part"]
          /\ e51' = "read"
          /\ UNCHANGED <<disk, i, msip, u54>>

\* An image of a hart may fail; the first one of a zone ends the loop, or the
\* boot if the volume is full.
AfterLoad(n) == CASE Fails(n) /\ IsZone(n) /\ free = 0 -> [e51 |-> "abort", i |-> n]
                  [] Fails(n) /\ IsZone(n) /\ free > 0 -> [e51 |-> "release", i |-> 1]
                  [] ~(Fails(n) /\ IsZone(n)) /\ n < LastImage -> [e51 |-> "load", i |-> n + 1]
                  [] OTHER -> [e51 |-> "release", i |-> 1]

f_load == /\ \/ e51 = "load" /\ ~Reads(i) /\ UNCHANGED image
             \/ /\ e51 = "read"
                /\ image' = IF file[i] = "good" THEN [image EXCEPT ![i] = "new"] ELSE image
          /\ e51' = AfterLoad(i).e51 /\ i' = AfterLoad(i).i
          /\ UNCHANGED <<disk, msip, u54>>

\* mutant: the last hart is left out
ReleaseShort == /\ e51 = "release"
                /\ msip' = [msip EXCEPT ![i] = 1]
                /\ e51' = IF i + 1 < LastHart THEN "release" ELSE "tee"
                /\ i' = IF i + 1 < LastHart THEN i + 1 ELSE i
                /\ UNCHANGED <<disk, image, u54>>

\* CLINT->MSIP[i] = 1
Release == /\ e51 = "release"
           /\ msip' = [msip EXCEPT ![i] = 1]
           /\ e51' = IF i < LastHart THEN "release" ELSE "tee"
           /\ i' = IF i < LastHart THEN i + 1 ELSE i
           /\ UNCHANGED <<disk, image, u54>>

loader == Mount \/ f_read \/ f_load \/ Release
-----------------------------------------------------------------------------
(* The entry code of an application hart.                                  *)

Goto(h, here, there) == u54[h] = here /\ u54' = [u54 EXCEPT ![h] = there]

\* 0: sw zero, (a1)
Clear(h) == /\ Goto(h, "clear", "wait")
            /\ msip' = [msip EXCEPT ![h] = 0]
            /\ UNCHANGED <<disk, image, e51, i>>

\* mutant: wfi, which may resume at any time, without the loop around it
WaitOnce(h) == /\ Goto(h, "wait", "look")
               /\ UNCHANGED <<disk, image, e51, i, msip>>

\* 1: wfi, until mip.MSIP
Wait(h) == /\ Goto(h, "wait", "look") /\ msip[h] = 1
           /\ UNCHANGED <<disk, image, e51, i, msip>>

\* Run the image, or wait again if its first word is zero.
Look(h) == /\ Goto(h, "look", IF image[Of(h)] = "zero" THEN "clear" ELSE "run")
           /\ UNCHANGED <<disk, image, e51, i, msip>>

entry(h) == Clear(h) \/ Wait(h) \/ Look(h)

Next == loader \/ \E h \in Hart : entry(h)

Spec == Init /\ [][Next]_vars
-----------------------------------------------------------------------------
\* What the loader leaves in the memory of image n when it releases the harts:
\* a file that is missing or has a wrong size leaves an image of an earlier
\* boot, and so does the first zone's file that fails to all images after it.
Loaded(n) == CASE \E z \in 1..LastZoneImage : Fails(z) -> "old"
               [] OTHER -> CASE file[n] = "good" -> "new"
                             [] file[n] = "unreadable" -> "part"
                             [] OTHER -> "old"

(* A hart runs only what the loader has left for it when all loading is      *)
(* over, whatever its interrupt was at power-on: never an image that is       *)
(* still read, and one of an earlier boot only where the files give none.    *)
HartRunsWhatWasLoaded ==
  \A h \in Hart : u54[h] = "run" => image[Of(h)] = Loaded(Of(h))

(* A hart that waits before the loader releases it runs in the end, unless   *)
(* the boot is aborted or it has no program.  (The release of a hart that has *)
(* yet to clear its interrupt is lost.)                                    *)
HartIsReleased ==
  \A h \in Hart :
    (u54[h] = "wait" /\ e51 \in {"load", "read"}) ~>
      (u54[h] = "run" \/ e51 = "abort" \/ (e51 = "tee" /\ image[Of(h)] = "zero"))
=============================================================================
