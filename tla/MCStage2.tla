------------------------------ MODULE MCStage2 ------------------------------
(***************************************************************************)
(* Builds and drives for TLC.                                              *)
(***************************************************************************)
EXTENDS Stage2

\* Around a chunk, around the end of the segment (127 sectors) and past it
Builds == {1, 16, 20, 112, 120, 127, 128, 144}
\* Floppy disks of 1440 and 720 KiB, and a hard disk
Drives == {[heads |-> 2, secs |-> 18], [heads |-> 2, secs |-> 9],
           [heads |-> 16, secs |-> 63]}

=============================================================================
