---------------------------- MODULE MCMembership ----------------------------
(***************************************************************************)
(* Three nodes with one list for TLC: a and b have a host, c can only      *)
(* dial out, although it listens and may serve.                            *)
(***************************************************************************)
EXTENDS Membership

CONSTANTS a, b, c

ABC == {a, b, c}
AB == {a, b}

\* c after the two others.
CLast == [n \in ABC |-> <<a, b, c>>]

Nobody == [n \in ABC |-> {}]
All == ABC \X ABC

\* The first certificate of a is revoked, and a gets a second.
KeyOfA == {<<a, 1>>}
=============================================================================
