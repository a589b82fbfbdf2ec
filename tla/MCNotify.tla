------------------------------- MODULE MCNotify -------------------------------
(* Small instances of Notify for TLC. *)
EXTENDS Notify, TLC

CONSTANTS pa, pb, pc, file1, file2

\* Two names of one file, and a file with one.
MCFile == pa :> file1 @@ pb :> file1 @@ pc :> file2
==============================================================================
