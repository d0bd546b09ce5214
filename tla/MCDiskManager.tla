--------------------------- MODULE MCDiskManager ---------------------------
(* Small instances of the disk manager: four pages in a file that is to    *)
(* start with room for two, or three in a file with room for one, so that  *)
(* it has to double twice.  When set_len fails the file starts with just   *)
(* that room, or with what an earlier run has left.                        *)
EXTENDS DiskManagerProps

MCPageId == 0 .. 3
MCFileLengths == {2, 3}

MCPageId3 == 0 .. 2
MCFileLengths1 == {1, 2, 4}
=============================================================================
