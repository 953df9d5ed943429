------------------------------ MODULE MCRelay -------------------------------
(***************************************************************************)
(* Small networks for Relay.  a and b have a host, c can only dial out.    *)
(***************************************************************************)
EXTENDS Relay

CONSTANTS a, b, c, f, g

ABC == {a, b, c}
AB == {a, b}
OneFile == {f}
TwoFiles == {f, g}

\* Everybody knows everybody.
Everyone == [n \in ABC |-> ABC]
Nobody == [n \in ABC |-> {}]

\* f goes from b to c, which cannot be dialled.
FromB == [x \in OneFile |-> b]
ToC == [x \in OneFile |-> c]

\* Any view of who is server.
AnyLeader == [n \in ABC |-> {None, a, b}]

\* Everybody sees a.
SteadyLeader == [n \in ABC |-> {a}]

\* c does not know b.  f goes from b to c and g from c to b.
GapList == [n \in ABC |-> IF n = c THEN {a, c} ELSE ABC]
GapFrom == [x \in TwoFiles |-> IF x = f THEN b ELSE c]
GapTo == [x \in TwoFiles |-> IF x = f THEN c ELSE b]
=============================================================================
