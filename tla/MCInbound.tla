----------------------------- MODULE MCInbound ------------------------------
(***************************************************************************)
(* Two generations of a node, for TLC: the second has other limits.        *)
(***************************************************************************)
EXTENDS Inbound, TLC

CONSTANTS c1, c2, c3, pull, x, y

\* The limits of the first generation and of the second.
TwoThenOne == <<2, 1>>
OneThenTwo == <<1, 2>>
OneAndOne == <<1, 1>>

\* One handler, or one address, is like another.
Alike == Permutations(Conn) \cup Permutations(Address)
=============================================================================
