----------------------------- MODULE MCSettings -----------------------------
(***************************************************************************)
(* One home directory for TLC: a field v set in the form, a serial s that  *)
(* peers teach and that a command takes off the list again.                *)
(***************************************************************************)
EXTENDS Settings

CONSTANTS v, s, unrevoke, form

Changes == {unrevoke, form}
AddsOf == [c \in Changes |-> IF c = unrevoke THEN {} ELSE {v}]
RemovesOf == [c \in Changes |-> IF c = unrevoke THEN {s} ELSE {}]
=============================================================================
