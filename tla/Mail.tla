-------------------------------- MODULE Mail --------------------------------
(***************************************************************************)
(* What AMail promises about one file handed to it (docs/DESIGN.md, "What  *)
(* AMail is not": a file is deleted from the sender only after the         *)
(* receiver acknowledged it).  Seen from outside, a file is on its way,    *)
(* has arrived in the inbox of its destination, or has been refused and    *)
(* put aside in a failed/ folder with a note.  There is no state in which  *)
(* it is simply gone.  A file may be copied on its way, so a copy can      *)
(* still arrive after another one was refused; once arrived, it stays so.  *)
(***************************************************************************)
CONSTANT File           \* the files handed to the network

VARIABLE status         \* what has become of each file

Status == {"travelling", "arrived", "refused"}

TypeOK == status \in [File -> Status]

Init == status = [f \in File |-> "travelling"]

\* A copy of f is stored in the inbox of its destination.
Arrive(f) ==
    /\ status[f] # "arrived"
    /\ status' = [status EXCEPT ![f] = "arrived"]

\* A copy of f is put aside in failed/, and none had arrived before.
Refuse(f) ==
    /\ status[f] = "travelling"
    /\ status' = [status EXCEPT ![f] = "refused"]

Next == \E f \in File : Arrive(f) \/ Refuse(f)

Spec == Init /\ [][Next]_status

\* No file travels for ever.
Settled == \A f \in File : <>(status[f] # "travelling")
=============================================================================
