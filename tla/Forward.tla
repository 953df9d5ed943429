------------------------------ MODULE Forward -------------------------------
(***************************************************************************)
(* One folder forward/<to>/<origin>/ of a relay, as the file system has    *)
(* it: files and sidecars are written, moved and removed one by one, and   *)
(* whoever empties the folder works from a listing made beforehand         *)
(* (internal/mailbox/mailbox.go; Node.deliverHeld, Node.handlePull and     *)
(* Node.pushItem).  Relay takes all of this for a few atomic steps.        *)
(*                                                                         *)
(* Writers are connection handlers that hold a file each; all files were   *)
(* announced under one name, so they compete for its numbered variants.    *)
(* The sender of a file comes again until it hears that the file is held.  *)
(* Takers are the delivery loop and the pull handlers.                     *)
(***************************************************************************)
EXTENDS Integers, FiniteSets

CONSTANTS
    File,       \* files of one name, from one origin, to one node
    Slots,      \* bound: the variants of the name; 1 is the name itself
    Writer,     \* the handlers that hold files
    Taker,      \* the loop and the pull handlers
    Loop,       \* the loop
    MayRestart, \* whether the node is restarted in place
    MaxFaults,  \* bound: failed writes, broken connections, stops
    None        \* no file

ASSUME FolderAssumption ==
    /\ None \notin File
    /\ Slots \subseteq Nat \ {0}
    /\ IsFiniteSet(Writer)
    /\ Loop \in Taker
    /\ MayRestart \in BOOLEAN
    /\ MaxFaults \in Nat

VARIABLES
    data,       \* [Slots -> File or None]: the file under each name
    meta,       \* [Slots -> File or None]: whose sidecar is beside it
    writer,     \* what each handler that holds a file is doing
    told,       \* the files whose senders heard that they are held
    taker,      \* what each taker is doing
    node,       \* how often the node was restarted in place
    ended,      \* [File -> Nat]: copies delivered or put in failed/
    faults,     \* how many faults there have been
    mishaps     \* which of what the promise depends on has happened

senders == <<writer, told, mishaps>>
vars == <<data, meta, senders, taker, node, ended, faults>>

-----------------------------------------------------------------------------
\* A handler that has the whole body and its hash is right. "chosen": a free name
\* is found; "placed": the file has it; "written": the sidecar is beside it, and
\* the answer is to be sent.  The sender "waits" for it or is "gone".
Idle == [pc |-> "idle", file |-> None, at |-> 0, sender |-> "gone"]

Writing == {w \in [pc : {"idle", "chosen", "placed", "written"}, file : File \cup {None},
                   at : {0} \cup Slots, sender : {"waits", "gone"}] :
               IF w.pc = "idle" THEN w = Idle ELSE w.file # None /\ w.at # 0}

\* "overlap": two handlers were placing files at once; "untold": a sidecar was
\* written and the sender did not hear of it; "sidecar": one could not be written.
Mishap == {"overlap", "untold", "sidecar"}

\* What a listing knows of a file: its name, and whose proof was beside it.
Entry == [slot : Slots, proof : File \cup {None}]

NoEntry == [slot |-> 0, proof |-> None]

\* A taker with the entries it has still to see to, the node whose in-flight
\* set it uses, the entry it has claimed and the content it found there.
\* "sent": waiting for the answer; "stored", "refused": the answer is there;
\* "cleared": the file is gone, its sidecar is not yet.
Taking == {r \in [pc : {"between", "sent", "stored", "refused", "cleared"},
                  todo : SUBSET Entry, node : Nat, entry : Entry \cup {NoEntry},
                  body : File \cup {None}] :
              IF r.pc = "between" THEN r.entry = NoEntry
                                  ELSE r.entry # NoEntry /\ r.body # None}

TypeOK ==
    /\ data \in [Slots -> File \cup {None}]
    /\ meta \in [Slots -> File \cup {None}]
    /\ writer \in [Writer -> Writing] /\ told \subseteq File
    /\ mishaps \subseteq Mishap
    /\ taker \in [Taker -> Taking]
    /\ node \in Nat
    /\ ended \in [File -> Nat]
    /\ faults \in Nat

Listing == {[slot |-> k, proof |-> meta[k]] : k \in {j \in Slots : data[j] # None}}

\* Wrong: a name is free if there is no sidecar.
FreeOfSidecar(k) == meta[k] = None /\ \A j \in Slots : j < k => meta[j] # None

\* uniquePath looks at the names in order and takes the first free one.
FirstFree(k) == data[k] = None /\ \A j \in Slots : j < k => data[j] # None

\* Wrong: no in-flight set.
NeverClaimed(t, k) == FALSE

\* Another taker has the path in the in-flight set that t uses.
Claimed(t, k) ==
    \E u \in Taker \ {t} : taker[u].entry.slot = k /\ taker[u].node = taker[t].node

\* The destination accepts what matches the proof sent along, which covers
\* the name without a number.
Genuine(t) == taker[t].entry.slot = 1 /\ taker[t].entry.proof = taker[t].body

\* Wrong: the path is not taken out of the in-flight set.
StillClaimed(r) == [r EXCEPT !.pc = "between", !.body = None]

\* The sender of f waits for an answer, or is going to send it.
Waits(w) == writer[w].sender = "waits"
Waiting(f) == \E w \in Writer : Waits(w) /\ writer[w].file = f
Coming(f) == f \notin told /\ ~Waiting(f)

AtWork(w) == writer[w].pc \in {"chosen", "placed"}

\* The taker is done with its entry and releases the path.
Released(r) == [r EXCEPT !.pc = "between", !.entry = NoEntry, !.body = None]

\* It gives the entry up; a pull ends with that.
GivenUp(t) == [Released(taker[t]) EXCEPT !.todo = IF t = Loop THEN @ ELSE {}]

\* It has sent the file that has the name now, with the proof that was listed.
Sending(t, e) == [pc |-> "sent", todo |-> taker[t].todo \ {e},
                  node |-> taker[t].node, entry |-> e, body |-> data[e.slot]]

Fault == faults < MaxFaults /\ faults' = faults + 1

Note(mishap, happens) == mishaps' = mishaps \cup (IF happens THEN {mishap} ELSE {})

-----------------------------------------------------------------------------
Init ==
    /\ data = [k \in Slots |-> None]
    /\ meta = [k \in Slots |-> None]
    /\ writer = [w \in Writer |-> Idle] /\ told = {} /\ mishaps = {}
    /\ taker = [t \in Taker |-> [pc |-> "between", todo |-> {}, node |-> 0,
                                 entry |-> NoEntry, body |-> None]]
    /\ node = 0
    /\ ended = [f \in File |-> 0]
    /\ faults = 0

(* Holding a file.                                                         *)

Choose(w, f) ==
    /\ writer[w].pc = "idle" /\ Coming(f)
    /\ \E k \in Slots :
          /\ FirstFree(k)
          /\ writer' = [writer EXCEPT ![w] =
                [pc |-> "chosen", file |-> f, at |-> k, sender |-> "waits"]]
    /\ Note("overlap", \E v \in Writer : AtWork(v))
    /\ UNCHANGED <<data, meta, told, taker, node, ended, faults>>

\* os.Rename replaces what has taken the name in the meantime.
Rename(w) ==
    /\ writer[w].pc = "chosen"
    /\ data' = [data EXCEPT ![writer[w].at] = writer[w].file]
    /\ writer' = [writer EXCEPT ![w].pc = "placed"]
    /\ UNCHANGED <<meta, told, mishaps, taker, node, ended, faults>>

WriteSidecar(w) ==
    /\ writer[w].pc = "placed"
    /\ meta' = [meta EXCEPT ![writer[w].at] = writer[w].file]
    /\ writer' = [writer EXCEPT ![w].pc = "written"]
    /\ Note("untold", ~Waits(w))
    /\ UNCHANGED <<data, told, taker, node, ended, faults>>

\* It cannot be written: whatever has the name is removed, and the sender, if it
\* is still there, is told to keep the file.
SidecarFails(w) ==
    /\ writer[w].pc = "placed" /\ Fault
    /\ data' = [data EXCEPT ![writer[w].at] = None]
    /\ \E m \in {meta[writer[w].at], None} : meta' = [meta EXCEPT ![writer[w].at] = m]
    /\ writer' = [writer EXCEPT ![w] = Idle]
    /\ Note("sidecar", TRUE)
    /\ UNCHANGED <<told, taker, node, ended>>

\* Wrong: the sender is told as soon as the file has its name.
AnswerEarly(w) ==
    /\ writer[w].pc \in {"placed", "written"}
    /\ told' = told \cup (IF Waits(w) THEN {writer[w].file} ELSE {})
    /\ writer' = IF writer[w].pc = "written" THEN [writer EXCEPT ![w] = Idle]
                 ELSE [writer EXCEPT ![w].sender = "gone"]
    /\ UNCHANGED <<data, meta, mishaps, taker, node, ended, faults>>

\* The last OK: a sender that hears it deletes its copy.
Answer(w) ==
    /\ writer[w].pc = "written"
    /\ told' = told \cup (IF Waits(w) THEN {writer[w].file} ELSE {})
    /\ writer' = [writer EXCEPT ![w] = Idle]
    /\ UNCHANGED <<data, meta, mishaps, taker, node, ended, faults>>

\* The connection to the sender breaks, the sender stops or takes too long, or the
\* answer is lost: the handler goes on, and the sender comes again.
HangUp(w) ==
    /\ Waits(w) /\ Fault
    /\ writer' = [writer EXCEPT ![w].sender = "gone"]
    /\ Note("untold", writer[w].pc = "written")
    /\ UNCHANGED <<data, meta, told, taker, node, ended>>

(* Emptying the folder.                                                    *)

List(t) ==
    /\ taker[t].pc = "between" /\ taker[t].todo = {}
    /\ Listing # {}
    /\ taker' = [taker EXCEPT ![t].todo = Listing, ![t].node = node]
    /\ UNCHANGED <<data, meta, senders, node, ended, faults>>

\* Claimed by another taker, or gone by now.
Skip(t, e) ==
    /\ taker[t].pc = "between" /\ e \in taker[t].todo
    /\ Claimed(t, e.slot) \/ data[e.slot] = None
    /\ taker' = [taker EXCEPT ![t].todo = @ \ {e}]
    /\ UNCHANGED <<data, meta, senders, node, ended, faults>>

\* The file that has the name now is opened and sent, with the proof that was
\* listed.
Take(t, e) ==
    /\ taker[t].pc = "between" /\ e \in taker[t].todo
    /\ ~Claimed(t, e.slot) /\ data[e.slot] # None
    /\ taker' = [taker EXCEPT ![t] = Sending(t, e)]
    /\ UNCHANGED <<data, meta, senders, node, ended, faults>>

\* The destination stores the file and answers.
Accepted(t) ==
    /\ taker[t].pc = "sent" /\ Genuine(t)
    /\ ended' = [ended EXCEPT ![taker[t].body] = @ + 1]
    /\ taker' = [taker EXCEPT ![t].pc = "stored"]
    /\ UNCHANGED <<data, meta, senders, node, faults>>

Rejected(t) ==
    /\ taker[t].pc = "sent" /\ ~Genuine(t)
    /\ taker' = [taker EXCEPT ![t].pc = "refused"]
    /\ UNCHANGED <<data, meta, senders, node, ended, faults>>

\* No route, or no room: the file stays where it is; a pull ends here.
KeepIt(t) ==
    /\ taker[t].pc = "sent"
    /\ taker' = [taker EXCEPT ![t] = GivenUp(t)]
    /\ UNCHANGED <<data, meta, senders, node, ended, faults>>

\* Wrong: a refused file stays where it is.
RefusedStays(t) ==
    /\ taker[t].pc = "refused"
    /\ taker' = [taker EXCEPT ![t] = Released(taker[t])]
    /\ UNCHANGED <<data, meta, senders, node, ended, faults>>

\* Mailbox.Fail: the file that has the name is moved to failed/.  If there is
\* none, nothing is done.
PutAside(t) ==
    LET k == taker[t].entry.slot
    IN  /\ taker[t].pc = "refused"
        /\ IF data[k] = None
           THEN /\ taker' = [taker EXCEPT ![t] = Released(taker[t])]
                /\ UNCHANGED <<data, ended>>
           ELSE /\ data' = [data EXCEPT ![k] = None]
                /\ ended' = [ended EXCEPT ![data[k]] = @ + 1]
                /\ taker' = [taker EXCEPT ![t].pc = "cleared"]
        /\ UNCHANGED <<meta, senders, node, faults>>

\* Mailbox.Remove: the file that has the name is deleted ...
Delete(t) ==
    /\ taker[t].pc = "stored"
    /\ data' = [data EXCEPT ![taker[t].entry.slot] = None]
    /\ taker' = [taker EXCEPT ![t].pc = "cleared"]
    /\ UNCHANGED <<meta, senders, node, ended, faults>>

\* ... and then the sidecar that has it, and the path is released.
DeleteSidecar(t) ==
    /\ taker[t].pc = "cleared"
    /\ meta' = [meta EXCEPT ![taker[t].entry.slot] = None]
    /\ taker' = [taker EXCEPT ![t] = Released(taker[t])]
    /\ UNCHANGED <<data, senders, node, ended, faults>>

\* The connection breaks; the answer, if there was one, is lost.
Break(t) ==
    /\ taker[t].pc \in {"sent", "stored"} /\ Fault
    /\ taker' = [taker EXCEPT ![t] = GivenUp(t)]
    /\ UNCHANGED <<data, meta, senders, node, ended>>

\* The process ends: the files are all that is left, and the senders that waited
\* come again.
Crash ==
    /\ Fault
    /\ writer' = [w \in Writer |-> Idle]
    /\ Note("untold", \E w \in Writer : writer[w].pc = "written" /\ Waits(w))
    /\ taker' = [t \in Taker |-> [Released(taker[t]) EXCEPT !.todo = {}]]
    /\ UNCHANGED <<data, meta, told, node, ended>>

\* cmdRun waits for the loop, not for the handlers, and starts a new Node with
\* an in-flight set of its own.
RestartInPlace ==
    /\ MayRestart /\ taker[Loop].pc = "between" /\ Fault
    /\ node' = node + 1
    /\ taker' = [taker EXCEPT ![Loop].todo = {}]
    /\ UNCHANGED <<data, meta, senders, ended>>

-----------------------------------------------------------------------------
Write(w) ==
    \/ \E f \in File : Choose(w, f)
    \/ Rename(w) \/ WriteSidecar(w) \/ SidecarFails(w) \/ Answer(w) \/ HangUp(w)

Empty(t) ==
    \/ List(t) \/ \E e \in taker[t].todo : Skip(t, e) \/ Take(t, e)
    \/ Accepted(t) \/ Rejected(t) \/ KeepIt(t)
    \/ PutAside(t) \/ Delete(t) \/ DeleteSidecar(t) \/ Break(t)

Next == (\E w \in Writer : Write(w)) \/ (\E t \in Taker : Empty(t))
        \/ Crash \/ RestartInPlace

Spec == Init /\ [][Next]_vars

\* Handlers and takers go on, the loop comes round again, and the destination
\* is reached and has room now and then.
Fairness ==
    /\ \A f \in File : WF_vars(\E w \in Writer : Choose(w, f))
    /\ \A w \in Writer : WF_vars(Rename(w) \/ WriteSidecar(w) \/ Answer(w))
    /\ \A t \in Taker :
         /\ WF_vars(\E e \in taker[t].todo : Skip(t, e) \/ Take(t, e))
         /\ WF_vars(PutAside(t) \/ Delete(t) \/ DeleteSidecar(t))
         /\ SF_vars(Accepted(t)) /\ SF_vars(Rejected(t))
    /\ WF_vars(List(Loop))

FairSpec == Spec /\ Fairness

-----------------------------------------------------------------------------
(* Properties.                                                             *)

\* A file whose sender heard that it is held, and has deleted it, is in the folder
\* until it is delivered or moved to failed/ (docs/DESIGN.md, "What AMail is not":
\* a file is deleted from the sender only after the receiver acknowledged it).
HeldStays == \A f \in told : ended[f] > 0 \/ \E k \in Slots : data[k] = f

\* There are no other ways to lose it than these: two handlers place files at once,
\* the node is restarted in place, or a sidecar cannot be written and a sender did
\* not hear that another was.  Stale listings, stops and lost answers are not enough.
Sound ==
    /\ node = 0 /\ "overlap" \notin mishaps
    /\ ~({"untold", "sidecar"} \subseteq mishaps)
LossNeedsMishap == Sound => HeldStays

\* Nothing is ever overwritten (README.md, How a file travels).
NothingOverwritten ==
    [][\A k \in Slots : data[k] # None => data'[k] \in {data[k], None}]_vars

\* Every file comes to one end, and to two more for every fault at most: a stop
\* makes a sender that was not told come again, and what was stored is sent again.
\* A node that was restarted in place may end each copy again.  Stale listings,
\* names that are used again and several takers make no copy by themselves.
CopiesCountFaults == \A f \in File : ended[f] <= (1 + 2 * faults) * (1 + node)

-----------------------------------------------------------------------------
(* The invariant that is inductive.                                        *)

\* A sender waits for one handler, and not once it was told.
OneSender ==
    \A w, v \in Writer : Waits(w) =>
        /\ writer[w].file \notin told
        /\ Waits(v) /\ writer[v].file = writer[w].file => v = w

\* Of the takers of one node, one at most is at work on a name, and only a file
\* that has the name itself is ever stored.
OnePerNode ==
    \A t, u \in Taker :
        /\ taker[t].entry.slot # 0 /\ taker[t].entry.slot = taker[u].entry.slot
        /\ taker[t].node = taker[u].node
        => t = u

FirstStored ==
    /\ \A t \in Taker : taker[t].node <= node
    /\ \A t \in Taker : taker[t].pc = "stored" => taker[t].entry.slot = 1

\* Where every sender was told, a proof is of a file that is held, or about to be.
Known(p) ==
    p \in told \/ \E w \in Writer : /\ writer[w].pc = "written" /\ Waits(w)
                                    /\ writer[w].file = p
ProofsTold ==
    "untold" \notin mishaps =>
        /\ \A k \in Slots : meta[k] # None => Known(meta[k])
        /\ \A t \in Taker : \A e \in taker[t].todo \cup {taker[t].entry} :
              e.proof # None => Known(e.proof)

\* One handler at a time has a name, it is free until the file has it, and nobody
\* else takes it away; the sender that has hung up comes again.
OneAtWork == \A w, v \in Writer : AtWork(w) /\ AtWork(v) => w = v

NameKept ==
    \A w \in Writer :
        /\ writer[w].pc = "chosen" => data[writer[w].at] = None
        /\ writer[w].pc = "placed" =>
              \/ data[writer[w].at] = writer[w].file
              \/ data[writer[w].at] = None /\ ended[writer[w].file] > 0
        /\ AtWork(w) /\ ~Waits(w) => Coming(writer[w].file)

\* What a taker may delete is what it sent.
SentIsThere ==
    \A t \in Taker :
        /\ taker[t].pc = "sent" /\ Genuine(t) =>
              data[taker[t].entry.slot] = taker[t].body
        /\ taker[t].pc = "stored" =>
              /\ Genuine(t) /\ ended[taker[t].body] > 0
              /\ data[taker[t].entry.slot] = taker[t].body

\* A file that is held, or about to be, is there or has come to its end.
KnownStays ==
    \A f \in File : Known(f) => ended[f] > 0 \/ \E k \in Slots : data[k] = f

Keeping == OneAtWork /\ NameKept /\ SentIsThere /\ KnownStays

Names(f) == {k \in Slots : data[k] = f}

\* How often f may yet be placed without a fault.
Placing(f) == {w \in Writer : writer[w].pc = "chosen" /\ writer[w].file = f}
ToPlace(f) == (IF Coming(f) THEN 1 ELSE 0) + Cardinality(Placing(f))

\* The nodes whose takers may yet see to the file that has the name itself,
\* those where one has stored a file and not deleted it, and those where one has
\* sent f.
Nodes(T) == {taker[t].node : t \in T}
Sources == {node} \cup
    Nodes({t \in Taker : \E e \in taker[t].todo \cup {taker[t].entry} : e.slot = 1})
Storing == Nodes({t \in Taker : taker[t].pc = "stored"})
Offering(f) ==
    Nodes({t \in Taker : taker[t].pc = "sent" /\ Genuine(t) /\ taker[t].body = f})

\* The nodes that may yet end f under the name itself.
Enders(f) == IF 1 \in Names(f) THEN Sources \ Storing ELSE Offering(f)

\* How often f may yet come to an end without a fault: wherever it is placed, every
\* node may end it if it has the name itself, and otherwise it is put aside.
EndsToCome(f) ==
    ToPlace(f) * (1 + node) + Cardinality(Names(f) \ {1}) + Cardinality(Enders(f))

EndsBounded ==
    \A f \in File :
        IsFiniteSet(Names(f)) /\ ended[f] + EndsToCome(f) <= (1 + 2 * faults) * (1 + node)

IInv ==
    /\ TypeOK /\ OneSender /\ OnePerNode /\ FirstStored /\ ProofsTold
    /\ Sound => Keeping
    /\ EndsBounded

-----------------------------------------------------------------------------
\* In the end every sender has heard that its file is held, and the folder is
\* empty.
Empties == <>[](told = File /\ \A k \in Slots : data[k] = None)
=============================================================================
