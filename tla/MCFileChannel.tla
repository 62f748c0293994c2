--------------------------- MODULE MCFileChannel ---------------------------
(* Blocks of three bytes, headers of two: a file of a few blocks or records.  *)
EXTENDS FileChannel

(* What works with vfsops.c; the rest is in the violation run.                *)
MCUses(d) == IF d = "fat" THEN {"seq", "append", "rel", "replace", "seek"} ELSE {"seq", "seek"}
AllUses(d) == {"seq", "append", "rel", "replace", "seek"}
=============================================================================
