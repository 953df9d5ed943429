----------------------------- MODULE MCForward ------------------------------
(***************************************************************************)
(* One folder with a loop and a pull handler, for TLC.                     *)
(***************************************************************************)
EXTENDS Forward, TLC

CONSTANTS f, g, h, w, v, loop, pull

\* Any file may stand for any other, and any handler.
Alike == Permutations(File) \cup Permutations(Writer)
=============================================================================
