--------------------------- MODULE Forward_proofs ---------------------------
(***************************************************************************)
(* A file whose sender heard that it is held stays in the folder, unless   *)
(* handlers place files at once, the node is restarted in place, or a      *)
(* sidecar cannot be written where an answer was lost.  And a file comes   *)
(* to no more ends than one and two for every fault, for every node there  *)
(* was.                                                                    *)
(***************************************************************************)
EXTENDS Forward, FiniteSetTheorems, TLAPS

LEMMA ListingType ==
    ASSUME TypeOK
    PROVE  /\ Listing \in SUBSET Entry
           /\ \A e \in Listing : /\ e.slot \in Slots /\ data[e.slot] # None
                                 /\ e.proof = meta[e.slot]
BY DEF Listing, Entry, TypeOK

\* What replaces the record of a taker.
LEMMA ReleasedType ==
    ASSUME FolderAssumption, NEW r \in Taking
    PROVE  /\ Released(r) \in Taking /\ Released(r).pc = "between"
           /\ Released(r).entry = NoEntry /\ Released(r).node = r.node
           /\ Released(r).todo = r.todo
BY DEF Taking, Released

LEMMA TodoType ==
    ASSUME NEW r \in Taking, NEW S \in SUBSET Entry
    PROVE  LET q == [r EXCEPT !.todo = S]
           IN  /\ q \in Taking /\ q.pc = r.pc /\ q.entry = r.entry
               /\ q.node = r.node /\ q.todo = S /\ q.body = r.body
BY DEF Taking

LEMMA StageType ==
    ASSUME NEW r \in Taking, r.pc # "between",
           NEW p \in {"sent", "stored", "refused", "cleared"}
    PROVE  LET q == [r EXCEPT !.pc = p]
           IN  /\ q \in Taking /\ q.pc = p /\ q.entry = r.entry
               /\ q.node = r.node /\ q.todo = r.todo /\ q.body = r.body
BY DEF Taking

\* A taker gives up its entry, and what is left of its listing or not.
LEMMA GiveUpType ==
    ASSUME FolderAssumption, TypeOK, NEW t \in Taker
    PROVE  /\ GivenUp(t) \in Taking /\ GivenUp(t).pc = "between"
           /\ GivenUp(t).entry = NoEntry /\ GivenUp(t).node = taker[t].node
           /\ GivenUp(t).todo \subseteq taker[t].todo
<1> DEFINE s == Released(taker[t])
           S == IF t = Loop THEN s.todo ELSE {}
           q == [s EXCEPT !.todo = S]
<1>0. taker[t] \in Taking  BY DEF TypeOK
<1>1. /\ s \in Taking /\ s.pc = "between" /\ s.entry = NoEntry
      /\ s.node = taker[t].node /\ s.todo = taker[t].todo
  BY <1>0, ReleasedType
<1>2. S \in SUBSET Entry /\ S \subseteq taker[t].todo  BY <1>1 DEF Taking
<1>3. GivenUp(t) = q  BY DEF GivenUp
<1> HIDE DEF S, s
<1>4. /\ q \in Taking /\ q.pc = "between" /\ q.entry = NoEntry
      /\ q.node = s.node /\ q.todo = S
  BY <1>1, <1>2, TodoType
<1> HIDE DEF q
<1>5. QED  BY <1>1, <1>2, <1>3, <1>4

-----------------------------------------------------------------------------
(* What each step of a taker does to it.                                   *)

LEMMA OneTaker ==
    ASSUME TypeOK, NEW t \in Taker, NEW q \in Taking,
           taker' = [taker EXCEPT ![t] = q]
    PROVE  /\ taker' \in [Taker -> Taking] /\ taker'[t] = q
           /\ \A u \in Taker \ {t} : taker'[u] = taker[u]
BY DEF TypeOK

\* The step of t leaves the others alone, and gives t no entry.
Frees(t) ==
    /\ taker' \in [Taker -> Taking]
    /\ \A u \in Taker \ {t} : taker'[u] = taker[u]
    /\ taker'[t].pc = "between" /\ taker'[t].entry = NoEntry
    /\ taker'[t].node = taker[t].node
    /\ taker'[t].todo \subseteq taker[t].todo

\* The step of t leaves the others alone, and takes t on to stage p.
Moves(t, p) ==
    /\ taker' \in [Taker -> Taking]
    /\ \A u \in Taker \ {t} : taker'[u] = taker[u]
    /\ taker'[t].pc = p /\ taker'[t].entry = taker[t].entry
    /\ taker'[t].node = taker[t].node /\ taker'[t].todo = taker[t].todo
    /\ taker'[t].body = taker[t].body

LEMMA Releasing ==
    ASSUME FolderAssumption, TypeOK, NEW t \in Taker,
           taker' = [taker EXCEPT ![t] = Released(taker[t])]
    PROVE  Frees(t)
<1>1. taker[t] \in Taking  BY DEF TypeOK
<1>2. PICK q \in Taking : q = Released(taker[t])  BY <1>1, ReleasedType
<1>3. /\ q.pc = "between" /\ q.entry = NoEntry /\ q.node = taker[t].node
      /\ q.todo = taker[t].todo
  BY <1>1, <1>2, ReleasedType
<1>4. taker' = [taker EXCEPT ![t] = q]  BY <1>2
<1>5. QED  BY <1>3, <1>4, OneTaker DEF Frees

LEMMA GivingUp ==
    ASSUME FolderAssumption, TypeOK, NEW t \in Taker,
           taker' = [taker EXCEPT ![t] = GivenUp(t)]
    PROVE  Frees(t)
<1>1. PICK q \in Taking : q = GivenUp(t)  BY GiveUpType
<1>2. /\ q.pc = "between" /\ q.entry = NoEntry /\ q.node = taker[t].node
      /\ q.todo \subseteq taker[t].todo
  BY <1>1, GiveUpType
<1>3. taker' = [taker EXCEPT ![t] = q]  BY <1>1
<1>4. QED  BY <1>2, <1>3, OneTaker DEF Frees

LEMMA MovingOn ==
    ASSUME TypeOK, NEW t \in Taker, taker[t].pc # "between",
           NEW p \in {"sent", "stored", "refused", "cleared"},
           taker' = [taker EXCEPT ![t].pc = p]
    PROVE  Moves(t, p)
<1>1. taker[t] \in Taking  BY DEF TypeOK
<1> DEFINE new == [taker[t] EXCEPT !.pc = p]
<1>2. /\ new \in Taking /\ new.pc = p /\ new.entry = taker[t].entry
      /\ new.node = taker[t].node /\ new.todo = taker[t].todo
      /\ new.body = taker[t].body
  BY <1>1, StageType
<1>3. taker' = [taker EXCEPT ![t] = new]  BY DEF TypeOK
<1> HIDE DEF new
<1>4. QED  BY <1>2, <1>3, OneTaker DEF Moves

LEMMA Listed ==
    ASSUME TypeOK, NEW t \in Taker, List(t)
    PROVE  /\ taker' \in [Taker -> Taking]
           /\ \A u \in Taker \ {t} : taker'[u] = taker[u]
           /\ taker'[t].pc = "between" /\ taker'[t].entry = taker[t].entry
           /\ taker'[t].node = node /\ taker'[t].todo = Listing
<1>1. taker[t] \in Taking /\ taker[t].pc = "between" /\ node \in Nat
  BY DEF TypeOK, List
<1>2. Listing \in SUBSET Entry  BY ListingType
<1> DEFINE r == [taker[t] EXCEPT !.todo = Listing]
           q == [r EXCEPT !.node = node]
<1>3. taker' = [taker EXCEPT ![t] = q]  BY DEF List, TypeOK
<1>4. r \in Taking /\ r.pc = "between" /\ r.entry = taker[t].entry /\ r.todo = Listing
  BY <1>1, <1>2, TodoType
<1> HIDE DEF r
<1>5. q \in Taking /\ q.pc = "between" /\ q.entry = r.entry /\ q.todo = r.todo
      /\ q.node = node
  BY <1>1, <1>4 DEF Taking
<1> HIDE DEF q
<1>6. QED  BY <1>3, <1>4, <1>5, OneTaker

LEMMA Skipped ==
    ASSUME TypeOK, NEW t \in Taker, NEW e \in taker[t].todo, Skip(t, e)
    PROVE  /\ taker' \in [Taker -> Taking]
           /\ \A u \in Taker \ {t} : taker'[u] = taker[u]
           /\ taker'[t].pc = "between" /\ taker'[t].entry = taker[t].entry
           /\ taker'[t].node = taker[t].node /\ taker'[t].todo \subseteq taker[t].todo
<1>1. taker[t] \in Taking /\ taker[t].pc = "between"  BY DEF TypeOK, Skip
<1>2. PICK S \in SUBSET Entry : S = taker[t].todo \ {e}  BY <1>1 DEF Taking
<1> DEFINE q == [taker[t] EXCEPT !.todo = S]
<1>3. taker' = [taker EXCEPT ![t] = q]  BY <1>2 DEF Skip, TypeOK
<1>4. /\ q \in Taking /\ q.pc = "between" /\ q.entry = taker[t].entry
      /\ q.todo = S /\ q.node = taker[t].node
  BY <1>1, TodoType
<1> HIDE DEF q
<1>5. QED  BY <1>2, <1>3, <1>4, OneTaker

LEMMA Taken ==
    ASSUME FolderAssumption, TypeOK, NEW t \in Taker, NEW e \in taker[t].todo,
           Take(t, e)
    PROVE  /\ taker' \in [Taker -> Taking]
           /\ \A u \in Taker \ {t} : taker'[u] = taker[u]
           /\ taker'[t].pc = "sent" /\ taker'[t].entry = e
           /\ taker'[t].node = taker[t].node /\ taker'[t].todo \subseteq taker[t].todo
           /\ taker'[t].body = data[e.slot]
<1>1. taker[t] \in Taking /\ data[e.slot] # None /\ data \in [Slots -> File \cup {None}]
  BY DEF TypeOK, Take
<1>2. e \in Entry /\ e # NoEntry  BY <1>1 DEF Taking, Entry, NoEntry, FolderAssumption
<1>3. data[e.slot] \in File /\ taker[t].todo \ {e} \in SUBSET Entry
      /\ taker[t].node \in Nat
  BY <1>1, <1>2 DEF Entry, Taking
<1>4. PICK q \in Taking : q = Sending(t, e)
  BY <1>1, <1>2, <1>3 DEF Taking, Sending, FolderAssumption
<1>5. /\ q.pc = "sent" /\ q.entry = e /\ q.node = taker[t].node
      /\ q.todo \subseteq taker[t].todo /\ q.body = data[e.slot]
  BY <1>4 DEF Sending
<1>6. taker' = [taker EXCEPT ![t] = q]  BY <1>4 DEF Take
<1>7. QED  BY <1>5, <1>6, OneTaker

-----------------------------------------------------------------------------
(* What each step of a writer does to it.                                  *)

\* The step of w leaves the other writers alone, and takes w to stage p with file
\* x and name k, and the sender to s.
Writes(w, p, x, k, s) ==
    /\ writer' \in [Writer -> Writing]
    /\ \A v \in Writer \ {w} : writer'[v] = writer[v]
    /\ writer'[w].pc = p /\ writer'[w].file = x
    /\ writer'[w].at = k /\ writer'[w].sender = s

LEMMA BusyType ==
    ASSUME TypeOK, NEW w \in Writer, writer[w].pc # "idle"
    PROVE  /\ writer[w].file \in File /\ writer[w].at \in Slots
           /\ writer[w].at # 0 /\ writer[w].sender \in {"waits", "gone"}
BY DEF TypeOK, Writing

LEMMA WaitsBusy ==
    ASSUME TypeOK, NEW w \in Writer, Waits(w) PROVE writer[w].pc # "idle"
BY DEF TypeOK, Writing, Idle, Waits

LEMMA OneWriter ==
    ASSUME TypeOK, NEW w \in Writer, NEW r \in Writing,
           writer' = [writer EXCEPT ![w] = r]
    PROVE  Writes(w, r.pc, r.file, r.at, r.sender)
BY DEF Writes, TypeOK

LEMMA WritingOn ==
    ASSUME TypeOK, NEW w \in Writer, writer[w].pc # "idle",
           NEW p \in {"placed", "written"}, writer' = [writer EXCEPT ![w].pc = p]
    PROVE  Writes(w, p, writer[w].file, writer[w].at, writer[w].sender)
<1> DEFINE r == [writer[w] EXCEPT !.pc = p]
<1>1. /\ r \in Writing /\ r.pc = p /\ r.file = writer[w].file
      /\ r.at = writer[w].at /\ r.sender = writer[w].sender
  BY DEF TypeOK, Writing
<1>2. writer' = [writer EXCEPT ![w] = r]  BY DEF TypeOK
<1> HIDE DEF r
<1>3. QED  BY <1>1, <1>2, OneWriter

LEMMA Stopping ==
    ASSUME FolderAssumption, TypeOK, NEW w \in Writer, writer' = [writer EXCEPT ![w] = Idle]
    PROVE  Writes(w, "idle", None, 0, "gone")
<1>1. Idle \in Writing  BY DEF Writing, Idle
<1>2. Idle.pc = "idle" /\ Idle.file = None /\ Idle.at = 0 /\ Idle.sender = "gone"
  BY DEF Idle
<1>3. QED  BY <1>1, <1>2, OneWriter

LEMMA Chosen ==
    ASSUME FolderAssumption, TypeOK, NEW w \in Writer, NEW f \in File, Choose(w, f)
    PROVE  \E k \in Slots : FirstFree(k) /\ Writes(w, "chosen", f, k, "waits")
<1>1. PICK k \in Slots :
          /\ FirstFree(k)
          /\ writer' = [writer EXCEPT ![w] =
                [pc |-> "chosen", file |-> f, at |-> k, sender |-> "waits"]]
  BY DEF Choose
<1> DEFINE r == [pc |-> "chosen", file |-> f, at |-> k, sender |-> "waits"]
<1>2. r \in Writing /\ r.pc = "chosen" /\ r.file = f /\ r.at = k /\ r.sender = "waits"
  BY DEF Writing, FolderAssumption
<1>3. writer' = [writer EXCEPT ![w] = r]  BY <1>1
<1> HIDE DEF r
<1>4. QED  BY <1>1, <1>2, <1>3, OneWriter

LEMMA HungUp ==
    ASSUME TypeOK, NEW w \in Writer, HangUp(w)
    PROVE  /\ Writes(w, writer[w].pc, writer[w].file, writer[w].at, "gone")
           /\ writer[w].pc # "idle" /\ writer[w].sender = "waits"
<1> DEFINE r == [writer[w] EXCEPT !.sender = "gone"]
<1>1. writer[w].pc # "idle" /\ writer[w].sender = "waits"
  BY WaitsBusy DEF HangUp, Waits
<1>2. /\ r \in Writing /\ r.pc = writer[w].pc /\ r.file = writer[w].file
      /\ r.at = writer[w].at /\ r.sender = "gone"
  BY <1>1 DEF TypeOK, Writing
<1>3. writer' = [writer EXCEPT ![w] = r]  BY DEF HangUp, TypeOK
<1> HIDE DEF r
<1>4. QED  BY <1>1, <1>2, <1>3, OneWriter

\* The steps of a handler, and what each is for the writer.
LEMMA Renamed ==
    ASSUME TypeOK, NEW w \in Writer, Rename(w)
    PROVE  /\ Writes(w, "placed", writer[w].file, writer[w].at, writer[w].sender)
           /\ writer[w].pc = "chosen" /\ writer[w].at \in Slots /\ writer[w].at # 0
           /\ writer[w].file \in File
BY WritingOn, BusyType DEF Rename

LEMMA SidecarWritten ==
    ASSUME TypeOK, NEW w \in Writer, WriteSidecar(w)
    PROVE  /\ Writes(w, "written", writer[w].file, writer[w].at, writer[w].sender)
           /\ writer[w].pc = "placed" /\ writer[w].at \in Slots /\ writer[w].at # 0
           /\ writer[w].file \in File
BY WritingOn, BusyType DEF WriteSidecar

LEMMA SidecarFailed ==
    ASSUME FolderAssumption, TypeOK, NEW w \in Writer, SidecarFails(w)
    PROVE  /\ Writes(w, "idle", None, 0, "gone")
           /\ writer[w].pc = "placed" /\ writer[w].at \in Slots /\ writer[w].at # 0
           /\ writer[w].file \in File
BY Stopping, BusyType DEF SidecarFails

LEMMA Answered ==
    ASSUME FolderAssumption, TypeOK, NEW w \in Writer, Answer(w)
    PROVE  /\ Writes(w, "idle", None, 0, "gone")
           /\ writer[w].pc = "written" /\ writer[w].at \in Slots
           /\ writer[w].file \in File
BY Stopping, BusyType DEF Answer

-----------------------------------------------------------------------------
(* Types.                                                                  *)

LEMMA ForwardTypeInit == ASSUME FolderAssumption, Init PROVE TypeOK
BY DEF Init, TypeOK, Writing, Idle, Taking, FolderAssumption

LEMMA Noted ==
    ASSUME TypeOK, NEW m \in Mishap, NEW c, Note(m, c)
    PROVE  mishaps' \subseteq Mishap /\ mishaps \subseteq mishaps'
BY DEF TypeOK, Note

LEMMA WriteType ==
    ASSUME FolderAssumption, TypeOK, NEW w \in Writer, Write(w)
    PROVE  TypeOK' /\ mishaps \subseteq mishaps'
<1>1. ASSUME NEW f \in File, Choose(w, f) PROVE TypeOK' /\ mishaps \subseteq mishaps'
  <2>1. writer' \in [Writer -> Writing]  BY <1>1, Chosen DEF Writes
  <2>2. mishaps' \subseteq Mishap /\ mishaps \subseteq mishaps'
    BY <1>1, Noted DEF Choose, Mishap
  <2>3. QED  BY <1>1, <2>1, <2>2 DEF Choose, TypeOK
<1>2. CASE Rename(w)  BY <1>2, Renamed DEF Rename, Writes, TypeOK
<1>3. CASE WriteSidecar(w)
  <2>1. mishaps' \subseteq Mishap /\ mishaps \subseteq mishaps'
    BY <1>3, Noted DEF WriteSidecar, Mishap
  <2>2. QED  BY <1>3, <2>1, SidecarWritten DEF WriteSidecar, Writes, TypeOK
<1>4. CASE SidecarFails(w)
  <2>1. mishaps' \subseteq Mishap /\ mishaps \subseteq mishaps'
    BY <1>4, Noted DEF SidecarFails, Mishap
  <2>2. PICK m \in {meta[writer[w].at], None} :
            meta' = [meta EXCEPT ![writer[w].at] = m]
    BY <1>4 DEF SidecarFails
  <2>3. meta' \in [Slots -> File \cup {None}]
    BY <1>4, <2>2, SidecarFailed DEF TypeOK
  <2>4. faults' \in Nat  BY <1>4 DEF SidecarFails, Fault, TypeOK
  <2>5. data' \in [Slots -> File \cup {None}]  BY <1>4 DEF SidecarFails, TypeOK
  <2>6. QED
    BY <1>4, <2>1, <2>3, <2>4, <2>5, SidecarFailed DEF SidecarFails, Writes, TypeOK
<1>5. CASE Answer(w)
  <2>1. told' \subseteq File  BY <1>5, Answered DEF Answer, TypeOK
  <2>2. QED  BY <1>5, <2>1, Answered DEF Answer, Writes, TypeOK
<1>6. CASE HangUp(w)
  <2>1. mishaps' \subseteq Mishap /\ mishaps \subseteq mishaps'
    BY <1>6, Noted DEF HangUp, Mishap
  <2>2. faults' \in Nat  BY <1>6 DEF HangUp, Fault, TypeOK
  <2>3. QED  BY <1>6, <2>1, <2>2, HungUp DEF HangUp, Writes, TypeOK
<1>7. QED  BY <1>1, <1>2, <1>3, <1>4, <1>5, <1>6 DEF Write

\* A taker that is not between two entries has a name and a file.
LEMMA EntryType ==
    ASSUME FolderAssumption, TypeOK, NEW t \in Taker, taker[t].pc # "between"
    PROVE  taker[t].entry.slot \in Slots /\ taker[t].body \in File
BY DEF TypeOK, Taking, Entry

LEMMA EmptyType ==
    ASSUME FolderAssumption, TypeOK, NEW t \in Taker, Empty(t) PROVE TypeOK'
<1>1. CASE List(t)  BY <1>1, Listed DEF List, senders, TypeOK
<1>2. ASSUME NEW e \in taker[t].todo, Skip(t, e) PROVE TypeOK'
  BY <1>2, Skipped DEF Skip, senders, TypeOK
<1>3. ASSUME NEW e \in taker[t].todo, Take(t, e) PROVE TypeOK'
  BY <1>3, Taken DEF Take, senders, TypeOK
<1>4. CASE Accepted(t)
  <2>1. Moves(t, "stored")  BY <1>4, MovingOn DEF Accepted
  <2>2. taker[t].body \in File  BY <1>4, EntryType DEF Accepted
  <2>3. ended' \in [File -> Nat]  BY <1>4, <2>2 DEF Accepted, TypeOK
  <2>4. QED  BY <1>4, <2>1, <2>3 DEF Accepted, Moves, senders, TypeOK
<1>5. CASE Rejected(t)
  <2>1. Moves(t, "refused")  BY <1>5, MovingOn DEF Rejected
  <2>2. QED  BY <1>5, <2>1 DEF Rejected, Moves, senders, TypeOK
<1>6. CASE KeepIt(t)  BY <1>6, GivingUp DEF KeepIt, Frees, senders, TypeOK
<1>7. CASE Break(t)
  <2>1. Frees(t)  BY <1>7, GivingUp DEF Break
  <2>2. QED  BY <1>7, <2>1 DEF Break, Fault, Frees, senders, TypeOK
<1>8. CASE PutAside(t)
  <2>1. taker[t].pc = "refused"  BY <1>8 DEF PutAside
  <2>2. CASE data[taker[t].entry.slot] = None
    <3>1. Frees(t)  BY <1>8, <2>2, Releasing DEF PutAside
    <3>2. QED  BY <1>8, <2>2, <3>1 DEF PutAside, Frees, senders, TypeOK
  <2>3. CASE data[taker[t].entry.slot] # None
    <3>1. Moves(t, "cleared")  BY <1>8, <2>1, <2>3, MovingOn DEF PutAside
    <3>2. QED  BY <1>8, <2>3, <3>1 DEF PutAside, Moves, senders, TypeOK
  <2>4. QED  BY <2>2, <2>3
<1>9. CASE Delete(t)
  <2>1. Moves(t, "cleared")  BY <1>9, MovingOn DEF Delete
  <2>2. QED  BY <1>9, <2>1 DEF Delete, Moves, senders, TypeOK
<1>10. CASE DeleteSidecar(t)
  BY <1>10, Releasing DEF DeleteSidecar, Frees, senders, TypeOK
<1>11. QED
  BY <1>1, <1>2, <1>3, <1>4, <1>5, <1>6, <1>7, <1>8, <1>9, <1>10 DEF Empty
\* A taker leaves the handlers and their senders alone.
LEMMA EmptyFrame ==
    ASSUME NEW t \in Taker, Empty(t)
    PROVE  /\ UNCHANGED <<senders, node>>
           /\ UNCHANGED <<writer, told, mishaps>>
BY DEF Empty, List, Skip, Take, Accepted, Rejected, KeepIt, PutAside, Delete,
       DeleteSidecar, Break, senders


\* What a crash leaves of the takers and the writers.
LEMMA Crashed ==
    ASSUME FolderAssumption, TypeOK, Crash
    PROVE  /\ TypeOK' /\ mishaps \subseteq mishaps'
           /\ \A w \in Writer : writer'[w].pc = "idle" /\ writer'[w].sender = "gone"
           /\ \A t \in Taker : /\ taker'[t].pc = "between" /\ taker'[t].todo = {}
                               /\ taker'[t].entry = NoEntry
                               /\ taker'[t].node = taker[t].node
<1>1. writer' \in [Writer -> Writing]  BY DEF Crash, TypeOK, Writing, Idle
<1>2. \A w \in Writer : writer'[w].pc = "idle" /\ writer'[w].sender = "gone"
  BY DEF Crash, Idle
<1>3. ASSUME NEW t \in Taker
      PROVE  LET q == [Released(taker[t]) EXCEPT !.todo = {}]
             IN  /\ q \in Taking /\ q.pc = "between" /\ q.todo = {}
                 /\ q.entry = NoEntry /\ q.node = taker[t].node
  <2>1. taker[t] \in Taking  BY DEF TypeOK
  <2>2. PICK r \in Taking : r = Released(taker[t])  BY <2>1, ReleasedType
  <2>3. r.pc = "between" /\ r.entry = NoEntry /\ r.node = taker[t].node
    BY <2>1, <2>2, ReleasedType
  <2>4. QED  BY <2>2, <2>3, TodoType
<1>4. taker' = [t \in Taker |-> [Released(taker[t]) EXCEPT !.todo = {}]]
  BY DEF Crash
<1>5. /\ taker' \in [Taker -> Taking]
      /\ \A t \in Taker : /\ taker'[t].pc = "between" /\ taker'[t].todo = {}
                          /\ taker'[t].entry = NoEntry
                          /\ taker'[t].node = taker[t].node
  BY <1>3, <1>4
<1>6. mishaps' \subseteq Mishap /\ mishaps \subseteq mishaps'
  BY Noted DEF Crash, Mishap
<1>7. TypeOK'  BY <1>1, <1>5, <1>6 DEF Crash, Fault, TypeOK
<1>8. QED  BY <1>2, <1>5, <1>6, <1>7

\* What a restart in place leaves of the takers.
LEMMA Restarted ==
    ASSUME FolderAssumption, TypeOK, RestartInPlace
    PROVE  \A t \in Taker : /\ taker'[t].pc = taker[t].pc
                            /\ taker'[t].entry = taker[t].entry
                            /\ taker'[t].node = taker[t].node
                            /\ taker'[t].body = taker[t].body
                            /\ taker'[t].todo \subseteq taker[t].todo
<1>1. Loop \in Taker /\ taker[Loop] \in Taking  BY DEF TypeOK, FolderAssumption
<1> DEFINE q == [taker[Loop] EXCEPT !.todo = {}]
<1>2. /\ q.pc = taker[Loop].pc /\ q.entry = taker[Loop].entry
      /\ q.node = taker[Loop].node /\ q.todo = {} /\ q.body = taker[Loop].body
  BY <1>1, TodoType
<1>3. taker' = [taker EXCEPT ![Loop] = q]  BY DEF RestartInPlace, TypeOK
<1> HIDE DEF q
<1>4. taker'[Loop] = q /\ \A t \in Taker \ {Loop} : taker'[t] = taker[t]
  BY <1>1, <1>3 DEF TypeOK
<1>5. QED  BY <1>2, <1>4

LEMMA RestartType ==
    ASSUME FolderAssumption, TypeOK, RestartInPlace PROVE TypeOK'
<1>1. PICK r \in Taking : r = taker[Loop]  BY DEF TypeOK, FolderAssumption
<1>2. [r EXCEPT !.todo = {}] \in Taking  BY TodoType
<1>3. taker' = [taker EXCEPT ![Loop] = [r EXCEPT !.todo = {}]]
  BY <1>1 DEF RestartInPlace, TypeOK
<1>4. taker' \in [Taker -> Taking]  BY <1>2, <1>3 DEF TypeOK
<1>5. QED  BY <1>4 DEF RestartInPlace, Fault, senders, TypeOK

LEMMA ForwardTypeNext ==
    ASSUME FolderAssumption, TypeOK, [Next]_vars
    PROVE  TypeOK' /\ mishaps \subseteq mishaps'
<1>1. CASE RestartInPlace  BY <1>1, RestartType DEF RestartInPlace, senders
<1>2. CASE UNCHANGED vars  BY <1>2 DEF vars, senders, TypeOK
<1>3. ASSUME NEW t \in Taker, Empty(t) PROVE TypeOK' /\ mishaps \subseteq mishaps'
  <2>1. UNCHANGED senders  BY <1>3, EmptyFrame
  <2>2. QED  BY <1>3, <2>1, EmptyType DEF senders
<1>4. QED  BY <1>1, <1>2, <1>3, WriteType, Crashed DEF Next

\* The types are right in every behaviour.
THEOREM ForwardTypeCorrect == Spec => []TypeOK
<1>1. Init => TypeOK  BY ForwardTypeInit, FolderAssumption
<1>2. TypeOK /\ [Next]_vars => TypeOK'  BY ForwardTypeNext, FolderAssumption
<1>3. QED  BY <1>1, <1>2, PTL DEF Spec

-----------------------------------------------------------------------------
(* Senders.                                                                *)

LEMMA SendersWrite ==
    ASSUME FolderAssumption, TypeOK, OneSender, NEW w \in Writer, Write(w)
    PROVE  OneSender'
<1> USE DEF Writes, Waits
<1>1. ASSUME NEW f \in File, Choose(w, f) PROVE OneSender'
  <2>1. PICK k \in Slots : Writes(w, "chosen", f, k, "waits")  BY <1>1, Chosen
  <2>2. f \notin told /\ told' = told /\ \A v \in Writer : Waits(v) => writer[v].file # f
    BY <1>1 DEF Choose, Coming, Waiting
  <2>3. QED  BY <2>1, <2>2 DEF OneSender
<1>2. CASE Rename(w)  BY <1>2, Renamed DEF Rename, OneSender
<1>3. CASE WriteSidecar(w)  BY <1>3, SidecarWritten DEF WriteSidecar, OneSender
<1>4. CASE SidecarFails(w)  BY <1>4, SidecarFailed DEF SidecarFails, OneSender
<1>5. CASE Answer(w)
  <2>1. Writes(w, "idle", None, 0, "gone")  BY <1>5, Answered
  <2>2. ASSUME NEW v \in Writer, Waits(v)' PROVE writer'[v].file \notin told'
    <3>1. v # w /\ writer'[v] = writer[v]  BY <2>1, <2>2
    <3>2. Waits(v) /\ writer[v].file \notin told  BY <2>2, <3>1 DEF OneSender
    <3>3. Waits(w) => writer[v].file # writer[w].file  BY <3>1, <3>2 DEF OneSender
    <3>4. QED  BY <1>5, <3>1, <3>2, <3>3 DEF Answer
  <2>3. QED  BY <2>1, <2>2 DEF OneSender
<1>6. CASE HangUp(w)  BY <1>6, HungUp DEF HangUp, OneSender
<1>7. QED  BY <1>1, <1>2, <1>3, <1>4, <1>5, <1>6 DEF Write

LEMMA SendersNext ==
    ASSUME FolderAssumption, TypeOK, OneSender, [Next]_vars PROVE OneSender'
<1>1. ASSUME UNCHANGED <<writer, told>> PROVE OneSender'
  BY <1>1 DEF OneSender, Waits
<1>2. CASE RestartInPlace \/ UNCHANGED vars
  BY <1>1, <1>2 DEF RestartInPlace, vars, senders
<1>3. ASSUME NEW t \in Taker, Empty(t) PROVE OneSender'
  BY <1>1, <1>3, EmptyFrame
<1>4. CASE Crash  BY <1>4, Crashed DEF OneSender, Waits
<1>5. QED  BY <1>2, <1>3, <1>4, SendersWrite DEF Next

-----------------------------------------------------------------------------
(* Claims.                                                                 *)

ClaimsInv == OnePerNode /\ FirstStored

\* A taker that is given no entry, or keeps the one it has.
LEMMA ClaimsFrame ==
    ASSUME TypeOK, ClaimsInv, NEW t \in Taker, node' = node,
           \A u \in Taker \ {t} : taker'[u] = taker[u],
           taker'[t].entry \in {taker[t].entry, NoEntry},
           taker'[t].entry = NoEntry \/ taker'[t].node = taker[t].node,
           taker'[t].node \in {taker[t].node, node},
           taker'[t].pc = "stored" => taker'[t].entry.slot = 1
    PROVE  ClaimsInv'
<1>1. OnePerNode'  BY DEF ClaimsInv, OnePerNode, NoEntry
<1>2. node \in Nat  BY DEF TypeOK
<1>3. FirstStored'  BY <1>2 DEF ClaimsInv, FirstStored
<1>4. QED  BY <1>1, <1>3 DEF ClaimsInv

LEMMA ClaimsEmpty ==
    ASSUME FolderAssumption, TypeOK, ClaimsInv, NEW t \in Taker, Empty(t)
    PROVE  ClaimsInv'
<1>0. node' = node  BY EmptyFrame
<1>1. ASSUME Frees(t) PROVE ClaimsInv'  BY <1>0, <1>1, ClaimsFrame DEF Frees
<1>2. ASSUME NEW p \in {"stored", "refused", "cleared"}, Moves(t, p),
             p = "stored" => taker[t].entry.slot = 1
      PROVE  ClaimsInv'
  BY <1>0, <1>2, ClaimsFrame DEF Moves
<1>3. CASE List(t)
  <2>1. taker[t].pc = "between" /\ taker[t].entry = NoEntry
    BY <1>3 DEF List, TypeOK, Taking
  <2>2. QED  BY <1>0, <1>3, <2>1, Listed, ClaimsFrame
<1>4. ASSUME NEW e \in taker[t].todo, Skip(t, e) PROVE ClaimsInv'
  BY <1>0, <1>4, Skipped, ClaimsFrame
<1>5. ASSUME NEW e \in taker[t].todo, Take(t, e) PROVE ClaimsInv'
  <2>1. /\ \A u \in Taker \ {t} : taker'[u] = taker[u]
        /\ taker'[t].pc = "sent" /\ taker'[t].entry = e
        /\ taker'[t].node = taker[t].node
    BY <1>5, Taken
  <2>2. ~Claimed(t, e.slot)  BY <1>5 DEF Take
  <2>3. OnePerNode'  BY <2>1, <2>2 DEF Claimed, ClaimsInv, OnePerNode
  <2>4. FirstStored'  BY <1>0, <2>1 DEF ClaimsInv, FirstStored
  <2>5. QED  BY <2>3, <2>4 DEF ClaimsInv
<1>6. CASE Accepted(t)
  <2>1. Moves(t, "stored") /\ taker[t].entry.slot = 1
    BY <1>6, MovingOn DEF Accepted, Genuine
  <2>2. QED  BY <1>2, <2>1
<1>7. CASE Rejected(t)  BY <1>2, <1>7, MovingOn DEF Rejected
<1>8. CASE KeepIt(t)  BY <1>1, <1>8, GivingUp DEF KeepIt
<1>9. CASE Break(t)  BY <1>1, <1>9, GivingUp DEF Break
<1>10. CASE PutAside(t)
  <2>1. taker[t].pc # "between"  BY <1>10 DEF PutAside
  <2>2. CASE data[taker[t].entry.slot] = None
    BY <1>1, <1>10, <2>2, Releasing DEF PutAside
  <2>3. CASE data[taker[t].entry.slot] # None
    BY <1>2, <1>10, <2>1, <2>3, MovingOn DEF PutAside
  <2>4. QED  BY <2>2, <2>3
<1>11. CASE Delete(t)  BY <1>2, <1>11, MovingOn DEF Delete
<1>12. CASE DeleteSidecar(t)  BY <1>1, <1>12, Releasing DEF DeleteSidecar
<1>13. QED
  BY <1>3, <1>4, <1>5, <1>6, <1>7, <1>8, <1>9, <1>10, <1>11, <1>12 DEF Empty

LEMMA ClaimsNext ==
    ASSUME FolderAssumption, TypeOK, ClaimsInv, [Next]_vars PROVE ClaimsInv'
<1>1. CASE UNCHANGED vars
  BY <1>1 DEF vars, ClaimsInv, OnePerNode, FirstStored
<1>2. CASE RestartInPlace
  <2>1. node' = node + 1 /\ node \in Nat  BY <1>2 DEF RestartInPlace, TypeOK
  <2>2. \A t \in Taker : taker[t].node \in Nat  BY DEF TypeOK, Taking
  <2>3. OnePerNode'  BY <1>2, Restarted DEF ClaimsInv, OnePerNode
  <2>4. FirstStored'  BY <1>2, <2>1, <2>2, Restarted DEF ClaimsInv, FirstStored
  <2>5. QED  BY <2>3, <2>4 DEF ClaimsInv
<1>3. CASE Crash
  <2>1. node' = node  BY <1>3 DEF Crash
  <2>2. QED  BY <1>3, <2>1, Crashed DEF ClaimsInv, OnePerNode, FirstStored, NoEntry
<1>4. ASSUME NEW w \in Writer, Write(w) PROVE ClaimsInv'
  <2>1. UNCHANGED <<taker, node>>
    BY <1>4 DEF Write, Choose, Rename, WriteSidecar, SidecarFails, Answer, HangUp
  <2>2. QED  BY <2>1 DEF ClaimsInv, OnePerNode, FirstStored
<1>5. QED  BY <1>1, <1>2, <1>3, <1>4, ClaimsEmpty DEF Next

-----------------------------------------------------------------------------
(* Proofs.                                                                 *)

\* The entries a taker has still to see to, and the one it is at work on.
AtHand(t) == taker[t].todo \cup {taker[t].entry}

\* A proof is there, beside a file or in what a taker listed.
Shown(p) ==
    \/ \E k \in Slots : meta[k] = p
    \/ \E t \in Taker : \E e \in AtHand(t) : e.proof = p

LEMMA ProofsFrom ==
    ASSUME FolderAssumption, ProofsTold, "untold" \notin mishaps,
           NEW p \in File, Shown(p)
    PROVE  Known(p)
BY DEF ProofsTold, Shown, AtHand, FolderAssumption

LEMMA ProofsTo ==
    ASSUME TypeOK', "untold" \notin mishaps' => \A p \in File : Shown(p)' => Known(p)'
    PROVE  ProofsTold'
<1>1. SUFFICES ASSUME "untold" \notin mishaps'
      PROVE  /\ \A k \in Slots : meta'[k] # None => Known(meta[k])'
             /\ \A t \in Taker : \A e \in taker'[t].todo \cup {taker'[t].entry} :
                   e.proof # None => Known(e.proof)'
  BY DEF ProofsTold
<1>2. ASSUME NEW k \in Slots, meta'[k] # None PROVE Known(meta[k])'
  BY <1>1, <1>2 DEF TypeOK, Shown
<1>3. ASSUME NEW t \in Taker, NEW e \in taker'[t].todo \cup {taker'[t].entry},
             e.proof # None
      PROVE  Known(e.proof)'
  <2>1. e \in Entry \cup {NoEntry}  BY DEF TypeOK, Taking
  <2>2. e.proof \in File  BY <1>3, <2>1 DEF Entry, NoEntry
  <2>3. Shown(e.proof)'  BY DEF Shown, AtHand
  <2>4. QED  BY <1>1, <2>2, <2>3
<1>4. QED  BY <1>2, <1>3

\* Where every sender is told, what is known stays known.
LEMMA KnownKept ==
    ASSUME FolderAssumption, TypeOK, [Next]_vars, "untold" \notin mishaps',
           NEW p, Known(p)
    PROVE  Known(p)'
<1>1. ASSUME told \subseteq told',
             \A w \in Writer : writer[w].pc = "written" /\ Waits(w) =>
                 \/ writer'[w] = writer[w]
                 \/ writer[w].file \in told'
      PROVE  Known(p)'
  BY <1>1 DEF Known, Waits
<1>2. ASSUME UNCHANGED <<writer, told>> PROVE Known(p)'  BY <1>1, <1>2
<1>3. CASE RestartInPlace \/ UNCHANGED vars
  BY <1>2, <1>3 DEF RestartInPlace, vars, senders
<1>4. ASSUME NEW t \in Taker, Empty(t) PROVE Known(p)'  BY <1>2, <1>4, EmptyFrame
<1>5. CASE Crash
  <2>1. \A w \in Writer : ~(writer[w].pc = "written" /\ Waits(w))
    BY <1>5 DEF Crash, Note
  <2>2. told' = told  BY <1>5 DEF Crash
  <2>3. QED  BY <1>1, <2>1, <2>2
<1>6. ASSUME NEW w \in Writer, Write(w) PROVE Known(p)'
  <2>1. ASSUME NEW q, NEW x, NEW k, NEW s, Writes(w, q, x, k, s), told \subseteq told',
               writer[w].pc = "written" /\ Waits(w) => writer[w].file \in told'
        PROVE  Known(p)'
    BY <1>1, <2>1 DEF Writes
  <2>2. ASSUME NEW f \in File, Choose(w, f) PROVE Known(p)'
    BY <2>1, <2>2, Chosen DEF Choose
  <2>3. CASE Rename(w)  BY <2>1, <2>3, Renamed DEF Rename
  <2>4. CASE WriteSidecar(w)  BY <2>1, <2>4, SidecarWritten DEF WriteSidecar
  <2>5. CASE SidecarFails(w)  BY <2>1, <2>5, SidecarFailed DEF SidecarFails
  <2>6. CASE Answer(w)  BY <2>1, <2>6, Answered DEF Answer
  <2>7. CASE HangUp(w)
    <3>1. writer[w].pc # "written" /\ told' = told  BY <2>7 DEF HangUp, Note
    <3>2. QED  BY <2>1, <2>7, <3>1, HungUp
  <2>8. QED  BY <1>6, <2>2, <2>3, <2>4, <2>5, <2>6, <2>7 DEF Write
<1>7. QED  BY <1>3, <1>4, <1>5, <1>6 DEF Next

\* A proof is there because it was, or because its sidecar has been written.
LEMMA ShownFrom ==
    ASSUME FolderAssumption, TypeOK, [Next]_vars, "untold" \notin mishaps',
           NEW p \in File, Shown(p)'
    PROVE  Shown(p) \/ Known(p)'
<1>1. ASSUME \A k \in Slots : meta'[k] \in {meta[k], None},
             \A t \in Taker : \A e \in AtHand(t)' : e \in AtHand(t) \cup Listing \cup {NoEntry}
      PROVE  Shown(p)
  <2>1. CASE \E k \in Slots : meta'[k] = p
    BY <1>1, <2>1 DEF Shown, FolderAssumption
  <2>2. ASSUME NEW t \in Taker, NEW e \in AtHand(t)', e.proof = p PROVE Shown(p)
    <3>1. CASE e \in AtHand(t)  BY <2>2, <3>1 DEF Shown
    <3>2. CASE e \in Listing  BY <2>2, <3>2, ListingType DEF Shown
    <3>3. CASE e = NoEntry  BY <2>2, <3>3 DEF NoEntry, FolderAssumption
    <3>4. QED  BY <1>1, <2>2, <3>1, <3>2, <3>3
  <2>3. QED  BY <2>1, <2>2 DEF Shown
<1>2. CASE UNCHANGED vars  BY <1>1, <1>2 DEF vars, AtHand
<1>3. CASE RestartInPlace
  <2>1. \A t \in Taker : AtHand(t)' \subseteq AtHand(t)  BY <1>3, Restarted DEF AtHand
  <2>2. meta' = meta  BY <1>3 DEF RestartInPlace
  <2>3. QED  BY <1>1, <2>1, <2>2
<1>4. CASE Crash
  <2>1. \A t \in Taker : AtHand(t)' = {NoEntry}  BY <1>4, Crashed DEF AtHand
  <2>2. meta' = meta  BY <1>4 DEF Crash
  <2>3. QED  BY <1>1, <2>1, <2>2
<1>5. ASSUME NEW t \in Taker, Empty(t) PROVE Shown(p)
  <2>1. ASSUME \A u \in Taker \ {t} : taker'[u] = taker[u],
               \/ taker'[t].entry \in {taker[t].entry, NoEntry}
               \/ taker'[t].entry \in taker[t].todo,
               taker'[t].todo \subseteq taker[t].todo \/ taker'[t].todo = Listing,
               \A k \in Slots : meta'[k] \in {meta[k], None}
        PROVE  Shown(p)
    BY <1>1, <2>1 DEF AtHand
  <2>2. ASSUME Frees(t), \A k \in Slots : meta'[k] \in {meta[k], None} PROVE Shown(p)
    BY <2>1, <2>2 DEF Frees
  <2>3. ASSUME NEW q, Moves(t, q), meta' = meta PROVE Shown(p)
    BY <2>1, <2>3 DEF Moves
  <2>4. CASE List(t)  BY <2>1, <2>4, Listed DEF List
  <2>5. ASSUME NEW e \in taker[t].todo, Skip(t, e) PROVE Shown(p)
    BY <2>1, <2>5, Skipped DEF Skip
  <2>6. ASSUME NEW e \in taker[t].todo, Take(t, e) PROVE Shown(p)
    <3>1. meta' = meta  BY <2>6 DEF Take
    <3>2. /\ \A u \in Taker \ {t} : taker'[u] = taker[u]
          /\ taker'[t].entry = e /\ taker'[t].todo \subseteq taker[t].todo
      BY <2>6, Taken
    <3>3. QED  BY <2>1, <3>1, <3>2
  <2>7. CASE Accepted(t)  BY <2>3, <2>7, MovingOn DEF Accepted
  <2>8. CASE Rejected(t)  BY <2>3, <2>8, MovingOn DEF Rejected
  <2>9. CASE KeepIt(t)  BY <2>2, <2>9, GivingUp DEF KeepIt
  <2>10. CASE Break(t)  BY <2>2, <2>10, GivingUp DEF Break
  <2>11. CASE PutAside(t)
    <3>1. taker[t].pc # "between" /\ meta' = meta  BY <2>11 DEF PutAside
    <3>2. CASE data[taker[t].entry.slot] = None
      BY <2>2, <2>11, <3>1, <3>2, Releasing DEF PutAside
    <3>3. CASE data[taker[t].entry.slot] # None
      BY <2>3, <2>11, <3>1, <3>3, MovingOn DEF PutAside
    <3>4. QED  BY <3>2, <3>3
  <2>12. CASE Delete(t)  BY <2>3, <2>12, MovingOn DEF Delete
  <2>13. CASE DeleteSidecar(t)
    <3>1. Frees(t) /\ \A k \in Slots : meta'[k] \in {meta[k], None}
      BY <2>13, Releasing DEF DeleteSidecar, TypeOK
    <3>2. QED  BY <2>2, <3>1
  <2>14. QED
    BY <1>5, <2>4, <2>5, <2>6, <2>7, <2>8, <2>9, <2>10, <2>11, <2>12, <2>13 DEF Empty
<1>6. ASSUME NEW w \in Writer, Write(w) PROVE Shown(p) \/ Known(p)'
  <2>1. ASSUME taker' = taker, \A k \in Slots : meta'[k] \in {meta[k], None}
        PROVE  Shown(p)
    BY <1>1, <2>1 DEF AtHand
  <2>2. ASSUME NEW f \in File, Choose(w, f) PROVE Shown(p)  BY <2>1, <2>2 DEF Choose
  <2>3. CASE Rename(w) \/ Answer(w) \/ HangUp(w)
    BY <2>1, <2>3 DEF Rename, Answer, HangUp
  <2>4. CASE SidecarFails(w)
    <3>1. \A k \in Slots : meta'[k] \in {meta[k], None}
      BY <2>4 DEF SidecarFails, TypeOK
    <3>2. QED  BY <2>1, <2>4, <3>1 DEF SidecarFails
  <2>5. CASE WriteSidecar(w)
    <3>0. PICK x \in File : x = writer[w].file  BY <2>5, SidecarWritten
    <3>1. /\ Writes(w, "written", x, writer[w].at, writer[w].sender)
          /\ writer[w].at \in Slots
      BY <2>5, <3>0, SidecarWritten
    <3>2. Waits(w)  BY <2>5 DEF WriteSidecar, Note
    <3>3. Known(x)'  BY <3>1, <3>2 DEF Known, Writes, Waits
    <3>4. taker' = taker /\ \A k \in Slots : meta'[k] \in {meta[k], x}
      BY <2>5, <3>0 DEF WriteSidecar, TypeOK
    <3>5. Shown(p) \/ p = x
      <4>1. CASE \E k \in Slots : meta'[k] = p  BY <3>4, <4>1 DEF Shown
      <4>2. CASE \E t \in Taker : \E e \in AtHand(t)' : e.proof = p
        BY <3>4, <4>2 DEF Shown, AtHand
      <4>3. QED  BY <4>1, <4>2 DEF Shown
    <3>6. QED  BY <3>3, <3>5
  <2>6. QED  BY <1>6, <2>2, <2>3, <2>4, <2>5 DEF Write
<1>7. QED  BY <1>2, <1>3, <1>4, <1>5, <1>6 DEF Next

LEMMA ProofsNext ==
    ASSUME FolderAssumption, TypeOK, ProofsTold, [Next]_vars PROVE ProofsTold'
<1>1. TypeOK' /\ mishaps \subseteq mishaps'  BY ForwardTypeNext
<1>2. ASSUME "untold" \notin mishaps', NEW p \in File, Shown(p)' PROVE Known(p)'
  <2>1. "untold" \notin mishaps  BY <1>1, <1>2
  <2>2. Shown(p) => Known(p)  BY <2>1, ProofsFrom
  <2>3. QED  BY <1>2, <2>2, ShownFrom, KnownKept
<1>3. QED  BY <1>1, <1>2, ProofsTo

-----------------------------------------------------------------------------
(* What is held stays, as long as the mishaps are not those of Sound.      *)

Firm == TypeOK /\ ClaimsInv /\ node = 0 /\ Keeping

LEMMA Exclusive ==
    ASSUME TypeOK, ClaimsInv, node = 0, NEW t \in Taker, NEW u \in Taker,
           taker[t].entry.slot # 0, taker[t].entry.slot = taker[u].entry.slot
    PROVE  t = u
<1>1. /\ taker[t].node \in Nat /\ taker[u].node \in Nat
      /\ taker[t].node <= 0 /\ taker[u].node <= 0
  BY DEF TypeOK, Taking, ClaimsInv, FirstStored
<1>2. taker[t].node = taker[u].node  BY <1>1
<1>3. QED  BY <1>2 DEF ClaimsInv, OnePerNode

LEMMA SoundBefore ==
    ASSUME FolderAssumption, TypeOK, [Next]_vars, Sound'
    PROVE  Sound /\ node = 0 /\ node' = 0
<1>1. mishaps \subseteq mishaps' /\ node' = 0 /\ node \in Nat
  BY ForwardTypeNext DEF Sound, TypeOK
<1>2. node' = node \/ node' = node + 1
  BY EmptyFrame DEF Next, Write, Choose, Rename, WriteSidecar, SidecarFails, Answer, HangUp,
         Crash, RestartInPlace, vars
<1>3. QED  BY <1>1, <1>2 DEF Sound

\* A file whose sidecar is not written yet is not known.
LEMMA AtWorkUnknown ==
    ASSUME TypeOK, OneSender, NameKept, NEW w \in Writer, AtWork(w)
    PROVE  ~Known(writer[w].file)
<1>1. CASE Waits(w)  BY <1>1 DEF OneSender, Known, AtWork
<1>2. CASE ~Waits(w)  BY <1>2 DEF NameKept, Coming, Waiting, Known
<1>3. QED  BY <1>1, <1>2

\* Where files come to an end, or leave the folder that nobody knows of.
LEMMA KnownFrame ==
    ASSUME FolderAssumption, TypeOK, TypeOK', KnownStays,
           \A x \in File : ended'[x] >= ended[x],
           \A f \in File : Known(f)' => Known(f),
           \A k \in Slots : data[k] # None /\ data'[k] # data[k] =>
               ended'[data[k]] > 0 \/ ~Known(data[k])
    PROVE  KnownStays'
<1>1. \A x \in File : ended[x] \in Nat /\ ended'[x] \in Nat  BY DEF TypeOK
<1>2. SUFFICES ASSUME NEW f \in File, Known(f)
               PROVE  ended'[f] > 0 \/ \E k \in Slots : data'[k] = f
  BY DEF KnownStays
<1>3. CASE ended[f] > 0  BY <1>1, <1>3
<1>4. ASSUME NEW k \in Slots, data[k] = f
      PROVE  ended'[f] > 0 \/ \E j \in Slots : data'[j] = f
  <2>1. data[k] # None  BY <1>4 DEF FolderAssumption
  <2>2. data'[k] = data[k] \/ ended'[data[k]] > 0  BY <1>2, <1>4, <2>1
  <2>3. QED  BY <1>4, <2>2
<1>5. QED  BY <1>2, <1>3, <1>4 DEF KnownStays

\* A step of a taker: what leaves the folder has come to an end.
LEMMA Emptied ==
    ASSUME FolderAssumption, TypeOK, TypeOK', Keeping, UNCHANGED <<writer, told>>,
           \A x \in File : ended'[x] >= ended[x],
           \A k \in Slots :
               \/ data'[k] = data[k]
               \/ data'[k] = None /\ (data[k] # None => ended'[data[k]] > 0)
    PROVE  OneAtWork' /\ NameKept' /\ KnownStays'
<1>1. \A x \in File : ended[x] \in Nat /\ ended'[x] \in Nat  BY DEF TypeOK
<1>2. OneAtWork'  BY DEF Keeping, OneAtWork, AtWork
<1>3. ASSUME NEW w \in Writer
      PROVE  /\ writer[w].pc = "chosen" => data'[writer[w].at] = None
             /\ writer[w].pc = "placed" =>
                   \/ data'[writer[w].at] = writer[w].file
                   \/ data'[writer[w].at] = None /\ ended'[writer[w].file] > 0
             /\ AtWork(w) /\ ~Waits(w) => Coming(writer[w].file)
  <2>1. CASE writer[w].pc = "chosen"
    BY <2>1, BusyType DEF Keeping, NameKept
  <2>2. CASE writer[w].pc = "placed"
    <3>1. writer[w].at \in Slots /\ writer[w].file \in File  BY <2>2, BusyType
    <3>2. \/ data[writer[w].at] = writer[w].file
          \/ data[writer[w].at] = None /\ ended[writer[w].file] > 0
      BY <2>2 DEF Keeping, NameKept
    <3>3. \/ data'[writer[w].at] = writer[w].file
          \/ data'[writer[w].at] = None /\ ended'[writer[w].file] > 0
      <4>1. CASE data'[writer[w].at] = data[writer[w].at]  BY <1>1, <3>1, <3>2, <4>1
      <4>2. CASE data'[writer[w].at] # data[writer[w].at]
        BY <1>1, <3>1, <3>2, <4>2 DEF FolderAssumption
      <4>3. QED  BY <4>1, <4>2
    <3>4. QED  BY <2>2, <3>3 DEF Keeping, NameKept
  <2>3. QED  BY <2>1, <2>2 DEF AtWork
<1>4. NameKept'  BY <1>3 DEF NameKept, AtWork, Waits, Coming, Waiting
<1>5. \A f \in File : Known(f)' => Known(f)  BY DEF Known, Waits
<1>6. KnownStays'  BY <1>5, KnownFrame DEF Keeping
<1>7. QED  BY <1>2, <1>4, <1>6

\* Where only t moved, and t is between two entries or is clearing up, what
\* the others sent is still there.
LEMMA SentKept ==
    ASSUME SentIsThere, NEW t \in Taker, TypeOK, TypeOK',
           \A u \in Taker \ {t} : taker'[u] = taker[u],
           taker'[t].pc \in {"between", "refused", "cleared"},
           \A u \in Taker \ {t} : taker[u].pc \in {"sent", "stored"} =>
               data'[taker[u].entry.slot] = data[taker[u].entry.slot],
           \A x \in File : ended'[x] >= ended[x]
    PROVE  SentIsThere'
<1>1. SUFFICES ASSUME NEW u \in Taker, u # t
               PROVE  /\ taker'[u].pc = "sent" /\ Genuine(u)' =>
                           data'[taker'[u].entry.slot] = taker'[u].body
                      /\ taker'[u].pc = "stored" =>
                           /\ Genuine(u)' /\ ended'[taker'[u].body] > 0
                           /\ data'[taker'[u].entry.slot] = taker'[u].body
  BY DEF SentIsThere
<1>2. taker'[u] = taker[u] /\ (Genuine(u)' <=> Genuine(u))  BY <1>1 DEF Genuine
<1>3. taker[u].pc # "between" => taker[u].body \in File
  BY DEF TypeOK, Taking
<1>4. \A x \in File : ended[x] \in Nat /\ ended'[x] \in Nat  BY DEF TypeOK
<1>5. QED  BY <1>1, <1>2, <1>3, <1>4 DEF SentIsThere

\* A step of a taker that leaves the files and the ends alone, and nothing sent.
LEMMA QuietKeeps ==
    ASSUME FolderAssumption, Firm, TypeOK', NEW t \in Taker,
           UNCHANGED <<writer, told, data, ended>>,
           \A u \in Taker \ {t} : taker'[u] = taker[u],
           taker'[t].pc \in {"between", "refused", "cleared"}
    PROVE  Keeping'
<1>1. TypeOK /\ Keeping  BY DEF Firm
<1>2. \A x \in File : ended'[x] >= ended[x]  BY <1>1 DEF TypeOK
<1>3. OneAtWork' /\ NameKept' /\ KnownStays'  BY <1>1, <1>2, Emptied
<1>4. SentIsThere'  BY <1>1, <1>2, SentKept DEF Keeping
<1>5. QED  BY <1>3, <1>4 DEF Keeping

LEMMA TakeKeeps ==
    ASSUME FolderAssumption, Firm, TypeOK', NEW t \in Taker, NEW e \in taker[t].todo,
           Take(t, e), UNCHANGED <<writer, told>>
    PROVE  Keeping'
<1>1. TypeOK /\ Keeping  BY DEF Firm
<1>2. /\ \A u \in Taker \ {t} : taker'[u] = taker[u]
      /\ taker'[t].pc = "sent" /\ taker'[t].entry = e
      /\ taker'[t].body = data[e.slot]
  BY <1>1, Taken
<1>3. UNCHANGED <<data, ended>>  BY DEF Take
<1>4. \A x \in File : ended'[x] >= ended[x]  BY <1>1, <1>3 DEF TypeOK
<1>5. OneAtWork' /\ NameKept' /\ KnownStays'  BY <1>1, <1>3, <1>4, Emptied
<1>6. \A u \in Taker \ {t} : Genuine(u)' <=> Genuine(u)  BY <1>2 DEF Genuine
<1>7. SentIsThere'  BY <1>1, <1>2, <1>3, <1>6 DEF Keeping, SentIsThere
<1>8. QED  BY <1>5, <1>7 DEF Keeping

LEMMA AcceptedKeeps ==
    ASSUME FolderAssumption, Firm, TypeOK', NEW t \in Taker, Accepted(t),
           UNCHANGED <<writer, told>>
    PROVE  Keeping'
<1>1. TypeOK /\ Keeping  BY DEF Firm
<1>2. Moves(t, "stored") /\ taker[t].pc = "sent" /\ Genuine(t) /\ data' = data
  BY <1>1, MovingOn DEF Accepted
<1>3. taker[t].body \in File  BY <1>1, <1>2, EntryType
<1>4. /\ ended'[taker[t].body] > 0
      /\ \A x \in File : ended'[x] >= ended[x] /\ ended[x] \in Nat /\ ended'[x] \in Nat
  BY <1>1, <1>3 DEF Accepted, TypeOK
<1>5. OneAtWork' /\ NameKept' /\ KnownStays'  BY <1>1, <1>2, <1>4, Emptied
<1>6. \A u \in Taker : taker'[u].entry = taker[u].entry /\ taker'[u].body = taker[u].body
  BY <1>2 DEF Moves
<1>7. \A u \in Taker : Genuine(u)' <=> Genuine(u)  BY <1>6 DEF Genuine
<1>8. ASSUME NEW u \in Taker
      PROVE  /\ taker'[u].pc = "sent" /\ Genuine(u)' =>
                   data'[taker'[u].entry.slot] = taker'[u].body
             /\ taker'[u].pc = "stored" =>
                   /\ Genuine(u)' /\ ended'[taker'[u].body] > 0
                   /\ data'[taker'[u].entry.slot] = taker'[u].body
  <2>1. CASE u = t
    BY <1>1, <1>2, <1>4, <1>6, <1>7, <2>1 DEF Moves, Keeping, SentIsThere
  <2>2. CASE u # t
    <3>1. taker'[u] = taker[u]  BY <1>2, <2>2 DEF Moves
    <3>2. taker[u].pc = "stored" => ended'[taker[u].body] > 0
      BY <1>1, <1>4, EntryType DEF Keeping, SentIsThere
    <3>3. QED  BY <1>1, <1>2, <1>7, <3>1, <3>2 DEF Keeping, SentIsThere
  <2>3. QED  BY <2>1, <2>2
<1>9. SentIsThere'  BY <1>8 DEF SentIsThere
<1>10. QED  BY <1>5, <1>9 DEF Keeping

\* What leaves the folder has come to an end, and no other taker has sent it.
LEMMA Clearing ==
    ASSUME FolderAssumption, Firm, TypeOK', NEW t \in Taker,
           taker[t].pc # "between", Moves(t, "cleared"), UNCHANGED <<writer, told>>,
           data' = [data EXCEPT ![taker[t].entry.slot] = None],
           ended'[data[taker[t].entry.slot]] > 0,
           \A x \in File : ended'[x] >= ended[x]
    PROVE  Keeping'
<1> DEFINE k == taker[t].entry.slot
<1>1. TypeOK /\ ClaimsInv /\ node = 0 /\ Keeping  BY DEF Firm
<1>2. k \in Slots /\ k # 0  BY <1>1, EntryType DEF FolderAssumption
<1>3. data'[k] = None /\ \A j \in Slots \ {k} : data'[j] = data[j]
  BY <1>1, <1>2 DEF TypeOK
<1>4. ended'[data[k]] > 0  OBVIOUS
<1>5. \A u \in Taker \ {t} : taker[u].pc \in {"sent", "stored"} =>
          taker[u].entry.slot \in Slots \ {k}
  BY <1>1, <1>2, EntryType, Exclusive
<1>6. SentIsThere'
  <2>1. /\ \A u \in Taker \ {t} : taker'[u] = taker[u]
        /\ taker'[t].pc \in {"between", "refused", "cleared"}
    BY DEF Moves
  <2>2. \A u \in Taker \ {t} : taker[u].pc \in {"sent", "stored"} =>
            data'[taker[u].entry.slot] = data[taker[u].entry.slot]
    BY <1>3, <1>5
  <2>3. QED  BY <1>1, <2>1, <2>2, SentKept DEF Keeping
<1> HIDE DEF k
<1>7. OneAtWork' /\ NameKept' /\ KnownStays'  BY <1>1, <1>3, <1>4, Emptied
<1>8. QED  BY <1>6, <1>7 DEF Keeping

\* The steps of a taker.
LEMMA EmptyKeeps ==
    ASSUME FolderAssumption, Firm, NEW t \in Taker, Empty(t) PROVE Keeping'
<1>0. /\ TypeOK /\ TypeOK' /\ UNCHANGED <<writer, told>>
      /\ \A x \in File : ended[x] \in Nat
  BY EmptyType, EmptyFrame DEF Firm, TypeOK
<1>1. CASE List(t)  BY <1>0, <1>1, Listed, QuietKeeps DEF List
<1>2. ASSUME NEW e \in taker[t].todo, Skip(t, e) PROVE Keeping'
  BY <1>0, <1>2, Skipped, QuietKeeps DEF Skip
<1>3. ASSUME NEW e \in taker[t].todo, Take(t, e) PROVE Keeping'
  BY <1>0, <1>3, TakeKeeps
<1>4. CASE Accepted(t)  BY <1>0, <1>4, AcceptedKeeps
<1>5. CASE Rejected(t)
  <2>1. Moves(t, "refused") /\ UNCHANGED <<data, ended>>
    BY <1>0, <1>5, MovingOn DEF Rejected
  <2>2. QED  BY <1>0, <2>1, QuietKeeps DEF Moves
<1>6. CASE KeepIt(t)
  <2>1. Frees(t) /\ UNCHANGED <<data, ended>>  BY <1>0, <1>6, GivingUp DEF KeepIt
  <2>2. QED  BY <1>0, <2>1, QuietKeeps DEF Frees
<1>7. CASE Break(t)
  <2>1. Frees(t) /\ UNCHANGED <<data, ended>>  BY <1>0, <1>7, GivingUp DEF Break
  <2>2. QED  BY <1>0, <2>1, QuietKeeps DEF Frees
<1>8. CASE PutAside(t)
  <2> DEFINE k == taker[t].entry.slot
  <2>1. taker[t].pc = "refused"  BY <1>8 DEF PutAside
  <2>2. CASE data[k] = None
    <3>1. Frees(t) /\ UNCHANGED <<data, ended>>
      BY <1>0, <1>8, <2>2, Releasing DEF PutAside
    <3>2. QED  BY <1>0, <3>1, QuietKeeps DEF Frees
  <2>3. CASE data[k] # None
    <3>1. k \in Slots  BY <1>0, <2>1, EntryType
    <3>2. data[k] \in File  BY <1>0, <2>3, <3>1 DEF TypeOK
    <3>3. Moves(t, "cleared")  BY <1>0, <1>8, <2>1, <2>3, MovingOn DEF PutAside
    <3>4. data' = [data EXCEPT ![k] = None]  BY <1>8, <2>3 DEF PutAside
    <3>5. ended' = [ended EXCEPT ![data[k]] = @ + 1]
      BY <1>8, <2>3 DEF PutAside
    <3>6. ended'[data[k]] > 0 /\ \A x \in File : ended'[x] >= ended[x]
      BY <1>0, <3>2, <3>5 DEF TypeOK
    <3>7. QED  BY <1>0, <2>1, <3>3, <3>4, <3>6, Clearing
  <2>4. QED  BY <2>2, <2>3
<1>9. CASE Delete(t)
  <2>1. /\ taker[t].pc = "stored" /\ ended' = ended
        /\ data' = [data EXCEPT ![taker[t].entry.slot] = None]
    BY <1>9 DEF Delete
  <2>2. Moves(t, "cleared")  BY <1>0, <1>9, MovingOn DEF Delete
  <2>3. ended'[data[taker[t].entry.slot]] > 0
    BY <2>1 DEF Firm, Keeping, SentIsThere
  <2>4. \A x \in File : ended'[x] >= ended[x]  BY <1>0, <2>1
  <2>5. data' = [data EXCEPT ![taker[t].entry.slot] = None] /\ taker[t].pc # "between"
    BY <2>1
  <2>6. QED  BY <1>0, <2>2, <2>3, <2>4, <2>5, Clearing
<1>10. CASE DeleteSidecar(t)
  <2>1. Frees(t) /\ UNCHANGED <<data, ended>>  BY <1>0, <1>10, Releasing DEF DeleteSidecar
  <2>2. QED  BY <1>0, <2>1, QuietKeeps DEF Frees
<1>11. QED
  BY <1>1, <1>2, <1>3, <1>4, <1>5, <1>6, <1>7, <1>8, <1>9, <1>10 DEF Empty

\* What a taker has sent that the destination takes.
LEMMA SentIs ==
    ASSUME FolderAssumption, TypeOK, SentIsThere, NEW t \in Taker,
           taker[t].pc = "stored" \/ (taker[t].pc = "sent" /\ Genuine(t))
    PROVE  /\ taker[t].body \in File /\ taker[t].entry.slot \in Slots
           /\ data[taker[t].entry.slot] = taker[t].body /\ Shown(taker[t].body)
<1>1. taker[t].body \in File /\ taker[t].entry.slot \in Slots  BY EntryType
<1>2. Genuine(t) /\ data[taker[t].entry.slot] = taker[t].body  BY DEF SentIsThere
<1>3. Shown(taker[t].body)  BY <1>2 DEF Genuine, Shown, AtHand
<1>4. QED  BY <1>1, <1>2, <1>3

LEMMA SentFrame ==
    ASSUME SentIsThere, UNCHANGED <<taker, ended>>,
           \A t \in Taker :
               taker[t].pc = "stored" \/ (taker[t].pc = "sent" /\ Genuine(t)) =>
                   data'[taker[t].entry.slot] = data[taker[t].entry.slot]
    PROVE  SentIsThere'
<1>1. \A t \in Taker : Genuine(t)' <=> Genuine(t)  BY DEF Genuine
<1>2. QED  BY <1>1 DEF SentIsThere

\* A step of a handler that leaves the files alone, and nobody at work without the
\* name and the sender that it had.
LEMMA CalmKeeps ==
    ASSUME FolderAssumption, TypeOK, TypeOK', Keeping, NEW w \in Writer,
           NEW p, NEW s, Writes(w, p, writer[w].file, writer[w].at, s) \/ p = "idle",
           UNCHANGED <<data, ended, taker>>, writer'[w].pc = p,
           \A v \in Writer \ {w} : writer'[v] = writer[v],
           p \in {"idle", writer[w].pc},
           \A v \in Writer : AtWork(v)' /\ ~Waits(v)' => Coming(writer[v].file)',
           \A f \in File : Known(f)' => Known(f)
    PROVE  Keeping'
<1>1. \A x \in File : ended[x] \in Nat /\ ended'[x] >= ended[x]  BY DEF TypeOK
<1>2. \A v \in Writer : writer'[v].pc # "idle" =>
          /\ writer'[v].pc = writer[v].pc
          /\ writer'[v].file = writer[v].file /\ writer'[v].at = writer[v].at
  BY DEF Writes
<1>3. OneAtWork'  BY <1>2 DEF Keeping, OneAtWork, AtWork
<1>4. NameKept'  BY <1>2 DEF Keeping, NameKept, AtWork
<1>5. KnownStays'  BY <1>1, KnownFrame DEF Keeping
<1>6. SentIsThere'  BY SentFrame DEF Keeping
<1>7. QED  BY <1>3, <1>4, <1>5, <1>6 DEF Keeping

LEMMA ChooseKeeps ==
    ASSUME FolderAssumption, TypeOK, TypeOK', Keeping, Sound', NEW w \in Writer,
           NEW f \in File, Choose(w, f)
    PROVE  Keeping'
<1>1. PICK k \in Slots : FirstFree(k) /\ Writes(w, "chosen", f, k, "waits")
  BY Chosen
<1>2. UNCHANGED <<data, ended, taker, told>> /\ writer[w].pc = "idle"  BY DEF Choose
<1>3. \A v \in Writer : ~AtWork(v)  BY DEF Choose, Note, Sound
<1>4. \A v \in Writer \ {w} : ~AtWork(v)'  BY <1>1, <1>3 DEF Writes, AtWork
<1>5. OneAtWork'  BY <1>4 DEF OneAtWork
<1>6. NameKept'
  BY <1>1, <1>2, <1>4 DEF NameKept, Writes, AtWork, Waits, FirstFree
<1>7. \A x \in File : ended[x] \in Nat /\ ended'[x] >= ended[x]  BY <1>2 DEF TypeOK
<1>8. \A x \in File : Known(x)' => Known(x)  BY <1>1, <1>2 DEF Known, Writes, Waits
<1>9. KnownStays'  BY <1>2, <1>7, <1>8, KnownFrame DEF Keeping
<1>10. SentIsThere'  BY <1>2, SentFrame DEF Keeping
<1>11. QED  BY <1>5, <1>6, <1>9, <1>10 DEF Keeping

\* The name is still free.
LEMMA RenameKeeps ==
    ASSUME FolderAssumption, TypeOK, TypeOK', Keeping, NEW w \in Writer, Rename(w)
    PROVE  Keeping'
<1>1. PICK k \in Slots, x \in File : k = writer[w].at /\ x = writer[w].file
  BY Renamed
<1>2. Writes(w, "placed", x, k, writer[w].sender) /\ writer[w].pc = "chosen"
  BY <1>1, Renamed
<1>3. UNCHANGED <<told, taker, ended>> /\ data' = [data EXCEPT ![k] = x]
  BY <1>1 DEF Rename
<1>4. data[k] = None  BY <1>1, <1>2 DEF Keeping, NameKept
<1>5. data'[k] = x /\ \A j \in Slots \ {k} : data'[j] = data[j]  BY <1>3 DEF TypeOK
<1>6. \A v \in Writer \ {w} : ~AtWork(v) /\ ~AtWork(v)'
  BY <1>2 DEF Keeping, OneAtWork, AtWork, Writes
<1>7. OneAtWork'  BY <1>6 DEF OneAtWork
<1>8. \A f \in File : (Known(f)' <=> Known(f)) /\ (Coming(f)' <=> Coming(f))
  BY <1>1, <1>2, <1>3 DEF Known, Coming, Waiting, Writes, Waits
<1>9. NameKept'
  <2>1. AtWork(w) /\ (Waits(w)' <=> Waits(w))  BY <1>2 DEF AtWork, Waits, Writes
  <2>2. ~Waits(w) => Coming(x)  BY <1>1, <2>1 DEF Keeping, NameKept
  <2>3. ~Waits(w)' => Coming(x)'  BY <1>8, <2>1, <2>2
  <2>4. writer'[w].pc = "placed" /\ data'[writer'[w].at] = writer'[w].file
        /\ writer'[w].file = x
    BY <1>2, <1>5 DEF Writes
  <2>5. QED  BY <1>6, <2>3, <2>4 DEF NameKept, AtWork
<1>10. \A y \in File : ended[y] \in Nat /\ ended'[y] >= ended[y]  BY <1>3 DEF TypeOK
<1>11. KnownStays'  BY <1>4, <1>5, <1>8, <1>10, KnownFrame DEF Keeping
<1>12. SentIsThere'
  <2>1. ASSUME NEW t \in Taker,
               taker[t].pc = "stored" \/ (taker[t].pc = "sent" /\ Genuine(t))
        PROVE  data'[taker[t].entry.slot] = data[taker[t].entry.slot]
    <3>1. /\ taker[t].entry.slot \in Slots
          /\ data[taker[t].entry.slot] \in File
      BY <2>1, SentIs DEF Keeping
    <3>2. QED  BY <1>4, <1>5, <3>1 DEF FolderAssumption
  <2>2. QED  BY <1>3, <2>1, SentFrame DEF Keeping
<1>13. QED  BY <1>7, <1>9, <1>11, <1>12 DEF Keeping

\* The file that is to be known is there, or was taken already.
LEMMA SidecarKeeps ==
    ASSUME FolderAssumption, TypeOK, TypeOK', Keeping, NEW w \in Writer, WriteSidecar(w)
    PROVE  Keeping'
<1>1. PICK k \in Slots, x \in File : k = writer[w].at /\ x = writer[w].file
  BY SidecarWritten
<1>2. Writes(w, "written", x, k, writer[w].sender) /\ writer[w].pc = "placed"
  BY <1>1, SidecarWritten
<1>3. UNCHANGED <<data, told, taker, ended>>  BY DEF WriteSidecar
<1>4. \A v \in Writer : ~AtWork(v)'
  BY <1>2 DEF Keeping, OneAtWork, AtWork, Writes
<1>5. OneAtWork' /\ NameKept'  BY <1>4 DEF OneAtWork, NameKept, AtWork
<1>6. SentIsThere'  BY <1>3, SentFrame DEF Keeping
<1>7. data[k] = x \/ ended[x] > 0  BY <1>1, <1>2 DEF Keeping, NameKept
<1>8. \A f \in File : Known(f)' => Known(f) \/ f = x
  BY <1>2, <1>3 DEF Known, Writes, Waits
<1>9. KnownStays'  BY <1>3, <1>7, <1>8 DEF Keeping, KnownStays
<1>10. QED  BY <1>5, <1>6, <1>9 DEF Keeping

\* What is removed is nobody else's file: every proof there is is of a file that
\* is known, and this one is not.
LEMMA FailKeeps ==
    ASSUME FolderAssumption, TypeOK, TypeOK', OneSender, ProofsTold, Keeping, Sound',
           NEW w \in Writer, SidecarFails(w)
    PROVE  Keeping'
<1>1. PICK k \in Slots, x \in File : k = writer[w].at /\ x = writer[w].file
  BY SidecarFailed
<1>2. Writes(w, "idle", None, 0, "gone") /\ writer[w].pc = "placed"
  BY SidecarFailed
<1>3. UNCHANGED <<told, taker, ended>> /\ data' = [data EXCEPT ![k] = None]
  BY <1>1 DEF SidecarFails
<1>4. data'[k] = None /\ \A j \in Slots \ {k} : data'[j] = data[j]  BY <1>3 DEF TypeOK
<1>5. \A v \in Writer : ~AtWork(v)'
  BY <1>2 DEF Keeping, OneAtWork, AtWork, Writes
<1>6. OneAtWork' /\ NameKept'  BY <1>5 DEF OneAtWork, NameKept, AtWork
<1>7. "untold" \notin mishaps
  BY ForwardTypeNext DEF SidecarFails, Note, Sound
<1>8. ~Known(x) /\ (data[k] = x \/ data[k] = None)
  BY <1>1, <1>2, AtWorkUnknown DEF Keeping, NameKept, AtWork
<1>9. \A f \in File : Known(f)' => Known(f)  BY <1>2, <1>3 DEF Known, Writes, Waits
<1>10. \A y \in File : ended[y] \in Nat /\ ended'[y] >= ended[y]  BY <1>3 DEF TypeOK
<1>11. KnownStays'  BY <1>4, <1>8, <1>9, <1>10, KnownFrame DEF Keeping
<1>12. SentIsThere'
  <2>1. ASSUME NEW t \in Taker,
               taker[t].pc = "stored" \/ (taker[t].pc = "sent" /\ Genuine(t))
        PROVE  data'[taker[t].entry.slot] = data[taker[t].entry.slot]
    <3>1. /\ taker[t].body \in File /\ taker[t].entry.slot \in Slots
          /\ data[taker[t].entry.slot] = taker[t].body /\ Shown(taker[t].body)
      BY <2>1, SentIs DEF Keeping
    <3>2. Known(taker[t].body)  BY <1>7, <3>1, ProofsFrom
    <3>3. data[taker[t].entry.slot] # x /\ data[taker[t].entry.slot] # None
      BY <1>8, <3>1, <3>2 DEF FolderAssumption
    <3>4. QED  BY <1>4, <1>8, <3>1, <3>3
  <2>2. QED  BY <1>3, <2>1, SentFrame DEF Keeping
<1>13. QED  BY <1>6, <1>11, <1>12 DEF Keeping

LEMMA AnswerKeeps ==
    ASSUME FolderAssumption, TypeOK, TypeOK', OneSender, Keeping, NEW w \in Writer,
           Answer(w)
    PROVE  Keeping'
<1>1. Writes(w, "idle", None, 0, "gone") /\ writer[w].pc = "written"
  BY Answered
<1>2. /\ UNCHANGED <<data, ended, taker>>
      /\ told' = told \cup (IF Waits(w) THEN {writer[w].file} ELSE {})
  BY DEF Answer
<1>3. \A f \in File : Known(f)' => Known(f)  BY <1>1, <1>2 DEF Known, Writes, Waits
<1>4. ASSUME NEW v \in Writer, AtWork(v)', ~Waits(v)' PROVE Coming(writer[v].file)'
  <2>1. v # w /\ writer'[v] = writer[v]  BY <1>1, <1>4 DEF Writes, AtWork
  <2>2. PICK x : x = writer[v].file  OBVIOUS
  <2>3. Coming(x)  BY <1>4, <2>1, <2>2 DEF AtWork, Waits, Keeping, NameKept
  <2>4. Coming(x)'  BY <1>1, <1>2, <2>3 DEF Coming, Waiting, Writes, Waits
  <2>5. QED  BY <2>1, <2>2, <2>4
<1>5. QED  BY <1>1, <1>2, <1>3, <1>4, CalmKeeps DEF Writes

LEMMA HangUpKeeps ==
    ASSUME FolderAssumption, TypeOK, TypeOK', OneSender, Keeping, NEW w \in Writer,
           HangUp(w)
    PROVE  Keeping'
<1>1. /\ Writes(w, writer[w].pc, writer[w].file, writer[w].at, "gone")
      /\ Waits(w)
  BY HungUp DEF Waits
<1>2. UNCHANGED <<data, ended, taker, told>>  BY DEF HangUp
<1>3. \A f \in File : Known(f)' => Known(f)  BY <1>1, <1>2 DEF Known, Writes, Waits
<1>4. ASSUME NEW v \in Writer, AtWork(v)', ~Waits(v)' PROVE Coming(writer[v].file)'
  <2>1. PICK x : x = writer[v].file /\ x = writer'[v].file  BY <1>1 DEF Writes
  <2>2. CASE v = w
    <3>1. x \notin told /\ \A u \in Writer \ {w} : ~(Waits(u) /\ writer[u].file = x)
      BY <1>1, <2>1, <2>2 DEF OneSender
    <3>2. Coming(x)'  BY <1>1, <1>2, <3>1 DEF Coming, Waiting, Writes, Waits
    <3>3. QED  BY <2>1, <3>2
  <2>3. CASE v # w
    <3>1. AtWork(v) /\ ~Waits(v)  BY <1>1, <1>4, <2>3 DEF Writes, AtWork, Waits
    <3>2. Coming(x)  BY <2>1, <3>1 DEF Keeping, NameKept
    <3>3. Coming(x)'  BY <1>1, <1>2, <3>2 DEF Coming, Waiting, Writes, Waits
    <3>4. QED  BY <2>1, <3>3
  <2>4. QED  BY <2>2, <2>3
<1>5. QED  BY <1>1, <1>2, <1>3, <1>4, CalmKeeps DEF Writes

LEMMA CrashKeeps ==
    ASSUME FolderAssumption, TypeOK, Keeping, Crash PROVE Keeping'
<1>1. TypeOK' /\ UNCHANGED <<data, told, ended>>  BY Crashed DEF Crash
<1>2. OneAtWork' /\ NameKept'  BY Crashed DEF OneAtWork, NameKept, AtWork
<1>3. SentIsThere'  BY Crashed DEF SentIsThere
<1>4. \A f \in File : Known(f)' => Known(f)  BY <1>1, Crashed DEF Known, Waits
<1>5. KnownStays'  BY <1>1, <1>4 DEF Keeping, KnownStays
<1>6. QED  BY <1>2, <1>3, <1>5 DEF Keeping

LEMMA KeepingNext ==
    ASSUME FolderAssumption, TypeOK, OneSender, ClaimsInv, ProofsTold,
           Sound => Keeping, [Next]_vars, Sound'
    PROVE  Keeping'
<1>1. Keeping /\ node = 0 /\ node' = 0 /\ TypeOK'
  BY SoundBefore, ForwardTypeNext
<1>2. CASE UNCHANGED vars
  BY <1>1, <1>2 DEF vars, senders, Keeping, OneAtWork, NameKept, SentIsThere, KnownStays,
     AtWork, Waits, Coming, Waiting, Genuine, Known
<1>3. CASE RestartInPlace  BY <1>1, <1>3 DEF RestartInPlace
<1>4. CASE Crash  BY <1>1, <1>4, CrashKeeps
<1>5. ASSUME NEW t \in Taker, Empty(t) PROVE Keeping'
  BY <1>1, <1>5, EmptyKeeps DEF Firm
<1>6. ASSUME NEW w \in Writer, Write(w) PROVE Keeping'
  BY <1>1, <1>6, ChooseKeeps, RenameKeeps, SidecarKeeps, FailKeeps, AnswerKeeps,
     HangUpKeeps DEF Write
<1>7. QED  BY <1>2, <1>3, <1>4, <1>5, <1>6 DEF Next

-----------------------------------------------------------------------------
(* The sets that EndsToCome counts.                                        *)

LEMMA SmallerSet ==
    ASSUME NEW S, NEW T, IsFiniteSet(S), T \subseteq S
    PROVE  /\ IsFiniteSet(T) /\ Cardinality(T) <= Cardinality(S)
           /\ Cardinality(T) \in Nat /\ Cardinality(S) \in Nat
BY FS_Subset, FS_CardinalityType

LEMMA OneMore ==
    ASSUME NEW S, NEW T, NEW x, IsFiniteSet(S), T \subseteq S \cup {x}
    PROVE  /\ IsFiniteSet(T) /\ Cardinality(T) <= Cardinality(S) + 1
           /\ Cardinality(T) \in Nat /\ Cardinality(S) \in Nat
<1>1. Cardinality(S) \in Nat  BY FS_CardinalityType
<1>2. /\ IsFiniteSet(S \cup {x})
      /\ Cardinality(S \cup {x}) = IF x \in S THEN Cardinality(S) ELSE Cardinality(S) + 1
  BY FS_AddElement
<1>3. /\ IsFiniteSet(T) /\ Cardinality(T) <= Cardinality(S \cup {x})
      /\ Cardinality(T) \in Nat
  BY <1>2, SmallerSet
<1>4. QED  BY <1>1, <1>2, <1>3

LEMMA OneLess ==
    ASSUME NEW S, NEW T, NEW x \in S, IsFiniteSet(S), T \subseteq S \ {x}
    PROVE  /\ IsFiniteSet(T) /\ Cardinality(T) <= Cardinality(S) - 1
           /\ Cardinality(T) \in Nat /\ Cardinality(S) \in Nat
<1>1. IsFiniteSet(S \ {x}) /\ Cardinality(S \ {x}) = Cardinality(S) - 1
  BY FS_RemoveElement
<1>2. QED  BY <1>1, SmallerSet, FS_CardinalityType

\* A node that may see to the name itself, and what it is to be one.
LEMMA SourceIs ==
    \A n : n \in Sources <=>
        n = node \/ \E t \in Taker : \E e \in AtHand(t) : e.slot = 1 /\ n = taker[t].node
BY DEF Sources, Nodes, AtHand

LEMMA StoringIs ==
    \A n : n \in Storing <=>
        \E t \in Taker : taker[t].pc = "stored" /\ n = taker[t].node
BY DEF Storing, Nodes

LEMMA OfferingIs ==
    ASSUME NEW f
    PROVE  \A n : n \in Offering(f) <=>
        \E t \in Taker : /\ taker[t].pc = "sent" /\ Genuine(t) /\ taker[t].body = f
                         /\ n = taker[t].node
BY DEF Offering, Nodes

\* What a node has sent it may store, and has not stored: no other taker of the
\* node is at work on the name.
LEMMA OfferingApart ==
    ASSUME TypeOK, ClaimsInv, NEW f \in File
    PROVE  Offering(f) \subseteq Sources \ Storing
<1>1. SUFFICES ASSUME NEW n \in Offering(f) PROVE n \in Sources /\ n \notin Storing
  OBVIOUS
<1>2. PICK t \in Taker : /\ taker[t].pc = "sent" /\ taker[t].entry.slot = 1
                         /\ n = taker[t].node
  BY OfferingIs DEF Genuine
<1>3. n \in Sources  BY <1>2, SourceIs DEF AtHand
<1>4. ASSUME NEW u \in Taker, taker[u].pc = "stored", n = taker[u].node PROVE FALSE
  <2>1. taker[u].entry.slot = 1  BY <1>4 DEF ClaimsInv, FirstStored
  <2>2. taker[t].entry.slot # 0 /\ taker[t].entry.slot = taker[u].entry.slot
        /\ taker[t].node = taker[u].node
    BY <1>2, <1>4, <2>1
  <2>3. t = u  BY <2>2 DEF ClaimsInv, OnePerNode
  <2>4. QED  BY <1>2, <1>4, <2>3
<1>5. QED  BY <1>3, <1>4, StoringIs

LEMMA EndersKnown ==
    ASSUME TypeOK, ClaimsInv, NEW f \in File
    PROVE  /\ Offering(f) \subseteq Enders(f) /\ Enders(f) \subseteq Sources \ Storing
           /\ IsFiniteSet(Enders(f)) /\ Cardinality(Enders(f)) \in Nat
           /\ IsFiniteSet(Sources) /\ Cardinality(Sources) <= 1 + node
           /\ Cardinality(Sources) \in Nat
<1>1. Offering(f) \subseteq Enders(f) /\ Enders(f) \subseteq Sources \ Storing
  BY OfferingApart DEF Enders
<1>2. node \in Nat /\ IsFiniteSet(0 .. node) /\ Cardinality(0 .. node) = 1 + node
  BY FS_Interval DEF TypeOK
<1>3. \A t \in Taker : taker[t].node \in 0 .. node
  BY <1>2 DEF TypeOK, Taking, ClaimsInv, FirstStored
<1>4. Sources \subseteq 0 .. node  BY <1>2, <1>3, SourceIs
<1>5. /\ IsFiniteSet(Sources) /\ Cardinality(Sources) <= 1 + node
      /\ Cardinality(Sources) \in Nat
  BY <1>2, <1>4, SmallerSet
<1>6. IsFiniteSet(Enders(f)) /\ Cardinality(Enders(f)) \in Nat
  BY <1>1, <1>5, SmallerSet
<1>7. QED  BY <1>1, <1>5, <1>6

LEMMA PlacingKnown ==
    ASSUME FolderAssumption, NEW f
    PROVE  /\ IsFiniteSet(Placing(f)) /\ Cardinality(Placing(f)) \in Nat
           /\ IsFiniteSet(Placing(f))' /\ Cardinality(Placing(f))' \in Nat
           /\ ToPlace(f) \in Nat /\ ToPlace(f)' \in Nat
<1>1. IsFiniteSet(Writer) /\ Placing(f) \subseteq Writer /\ Placing(f)' \subseteq Writer
  BY DEF FolderAssumption, Placing
<1>2. /\ IsFiniteSet(Placing(f)) /\ Cardinality(Placing(f)) \in Nat
      /\ IsFiniteSet(Placing(f)') /\ Cardinality(Placing(f)') \in Nat
  BY <1>1, SmallerSet
<1>3. QED  BY <1>2 DEF ToPlace

-----------------------------------------------------------------------------
(* What a step may do to the count.                                        *)

LEMMA PlacedLess ==
    ASSUME FolderAssumption, NEW f, Coming(f)' => Coming(f),
           Placing(f)' \subseteq Placing(f)
    PROVE  ToPlace(f)' <= ToPlace(f)
<1>1. Cardinality(Placing(f)') <= Cardinality(Placing(f))
  BY PlacingKnown, SmallerSet
<1>2. QED  BY <1>1, PlacingKnown DEF ToPlace

LEMMA PlacedMore ==
    ASSUME FolderAssumption, NEW f, Placing(f)' \subseteq Placing(f)
    PROVE  ToPlace(f)' <= ToPlace(f) + 1
<1>1. Cardinality(Placing(f)') <= Cardinality(Placing(f))
  BY PlacingKnown, SmallerSet
<1>2. QED  BY <1>1, PlacingKnown DEF ToPlace

\* So many ends are to come, for R nodes, where p placements are to come, n names
\* are to be put aside and e nodes may end the file.
LEMMA Products ==
    ASSUME NEW R \in Nat, NEW p \in Nat, NEW q \in Nat
    PROVE  /\ p * R \in Nat /\ q * R \in Nat
           /\ q <= p => q * R <= p * R
           /\ q <= p + 1 => q * R <= p * R + R
           /\ q <= p - 1 => q * R <= p * R - R
<1>1. /\ p * R \in Nat /\ q * R \in Nat  OBVIOUS
<1>2. ASSUME NEW a \in Nat, NEW b \in Nat, a <= b PROVE a * R <= b * R
  <2>1. b - a \in Nat  BY <1>2
  <2>2. (b - a) * R \in Nat  BY <2>1
  <2>3. (b - a) * R = b * R - a * R  OBVIOUS
  <2>4. a * R \in Nat /\ b * R \in Nat  OBVIOUS
  <2>5. QED  BY <2>2, <2>3, <2>4
<1>3. (p + 1) * R = p * R + R /\ p + 1 \in Nat  OBVIOUS
<1>4. q <= p => q * R <= p * R  BY <1>2
<1>5. q <= p + 1 => q * R <= p * R + R  BY <1>2, <1>3
<1>6. q <= p - 1 => q * R <= p * R - R
  <2>1. (q + 1) * R = q * R + R /\ q + 1 \in Nat  OBVIOUS
  <2>2. SUFFICES ASSUME q <= p - 1 PROVE q * R <= p * R - R  OBVIOUS
  <2>3. (q + 1) * R <= p * R  BY <1>2, <2>1, <2>2
  <2>4. QED  BY <1>1, <2>1, <2>3
<1>7. QED  BY <1>1, <1>4, <1>5, <1>6

\* The count of f does not grow but by the faults.
Fewer(f) ==
    /\ IsFiniteSet(Names(f))' /\ EndsToCome(f)' \in Int
    /\ ended'[f] + EndsToCome(f)' <=
           ended[f] + EndsToCome(f) + 2 * (1 + node) * (faults' - faults)

\* A step that keeps the node and the promise of it: what it adds to the ends and
\* to what is in the folder, it takes from what is to be placed, or it is a fault.
LEMMA Balance ==
    ASSUME FolderAssumption, TypeOK, TypeOK', NEW f \in File, node' = node,
           NEW n \in Nat, NEW m \in Nat, NEW e \in Nat, NEW d \in Nat,
           n = Cardinality(Names(f) \ {1}), m = Cardinality(Names(f)' \ {1}),
           e = Cardinality(Enders(f)), d = Cardinality(Enders(f)'),
           IsFiniteSet(Names(f)'),
           \/ /\ ToPlace(f)' <= ToPlace(f) /\ faults' = faults
              /\ ended'[f] + m + d <= ended[f] + n + e
           \/ /\ ToPlace(f)' <= ToPlace(f) - 1 /\ faults' = faults
              /\ ended'[f] = ended[f] /\ m + d <= n + e + 1 + node
           \/ /\ ToPlace(f)' <= ToPlace(f) + 1 /\ faults' = faults + 1
              /\ ended'[f] = ended[f] /\ m + d <= n + e + 1
    PROVE  Fewer(f)
<1>1. /\ node \in Nat /\ faults \in Nat /\ faults' \in Nat
      /\ ended[f] \in Nat /\ ended'[f] \in Nat
  BY DEF TypeOK
<1>2. PICK R \in Nat : R = 1 + node /\ R >= 1  BY <1>1
<1>3. PICK p \in Nat, q \in Nat : p = ToPlace(f) /\ q = ToPlace(f)'
  BY PlacingKnown
<1>4. EndsToCome(f) = p * R + n + e /\ EndsToCome(f)' = q * R + m + d
  BY <1>2, <1>3 DEF EndsToCome
<1>5. /\ p * R \in Nat /\ q * R \in Nat
      /\ q <= p => q * R <= p * R
      /\ q <= p + 1 => q * R <= p * R + R
      /\ q <= p - 1 => q * R <= p * R - R
  BY Products
<1>6. PICK P \in Nat, Q \in Nat : P = p * R /\ Q = q * R  BY <1>5
<1>7. PICK F \in Nat : /\ F = 2 * R * (faults' - faults)
                       /\ faults' = faults => F = 0
                       /\ faults' = faults + 1 => F = 2 * R
  <2>1. CASE faults' = faults
    <3>1. faults' - faults = 0  BY <1>1, <2>1
    <3>2. QED  BY <1>1, <2>1, <3>1
  <2>2. CASE faults' = faults + 1
    <3>1. faults' - faults = 1  BY <1>1, <2>2
    <3>2. 2 * R * (faults' - faults) = 2 * R /\ 2 * R \in Nat  BY <3>1
    <3>3. QED  BY <1>1, <2>2, <3>2
  <2>3. QED  BY <2>1, <2>2
<1>8. /\ ended'[f] + (Q + m + d) <= ended[f] + (P + n + e) + F
      /\ F = 2 * R * (faults' - faults)
  <2>1. CASE q <= p /\ faults' = faults /\ ended'[f] + m + d <= ended[f] + n + e
    BY <1>1, <1>5, <1>6, <1>7, <2>1
  <2>2. CASE /\ q <= p - 1 /\ faults' = faults
             /\ ended'[f] = ended[f] /\ m + d <= n + e + 1 + node
    BY <1>1, <1>2, <1>5, <1>6, <1>7, <2>2
  <2>3. CASE /\ q <= p + 1 /\ faults' = faults + 1
             /\ ended'[f] = ended[f] /\ m + d <= n + e + 1
    BY <1>1, <1>2, <1>5, <1>6, <1>7, <2>3
  <2>4. QED  BY <1>3, <2>1, <2>2, <2>3
<1>9. Q + m + d \in Int  OBVIOUS
<1>10. QED  BY <1>2, <1>4, <1>6, <1>8, <1>9 DEF Fewer

LEMMA Lessening ==
    ASSUME FolderAssumption, TypeOK, TypeOK', ClaimsInv, NEW f \in File,
           IsFiniteSet(Names(f)), UNCHANGED <<node, faults>>, ended'[f] = ended[f],
           ToPlace(f)' <= ToPlace(f), Names(f)' \subseteq Names(f),
           Enders(f)' \subseteq Enders(f)
    PROVE  Fewer(f)
<1>1. IsFiniteSet(Names(f)') /\ IsFiniteSet(Names(f) \ {1})  BY SmallerSet
<1>2. /\ Cardinality(Names(f)' \ {1}) <= Cardinality(Names(f) \ {1})
      /\ Cardinality(Names(f)' \ {1}) \in Nat /\ Cardinality(Names(f) \ {1}) \in Nat
  BY <1>1, SmallerSet
<1>3. /\ Cardinality(Enders(f)') <= Cardinality(Enders(f))
      /\ Cardinality(Enders(f)') \in Nat /\ Cardinality(Enders(f)) \in Nat
  BY EndersKnown, SmallerSet
<1>4. ended[f] \in Nat  BY DEF TypeOK
<1>5. QED  BY <1>1, <1>2, <1>3, <1>4, Balance

LEMMA EndedByName ==
    ASSUME FolderAssumption, TypeOK, TypeOK', ClaimsInv, NEW f \in File,
           IsFiniteSet(Names(f)), UNCHANGED <<node, faults>>, ended'[f] = ended[f] + 1,
           ToPlace(f)' <= ToPlace(f), NEW k \in Names(f), k # 1,
           Names(f)' \subseteq Names(f) \ {k}, Enders(f)' \subseteq Enders(f)
    PROVE  Fewer(f)
<1> DEFINE S == Names(f) \ {1}
           T == Names(f)' \ {1}
<1>1. IsFiniteSet(Names(f)') /\ IsFiniteSet(S)  BY SmallerSet
<1>2. k \in S /\ T \subseteq S \ {k}  OBVIOUS
<1> HIDE DEF S, T
<1>3. /\ Cardinality(T) <= Cardinality(S) - 1
      /\ Cardinality(T) \in Nat /\ Cardinality(S) \in Nat
  BY <1>1, <1>2, OneLess
<1>4. /\ Cardinality(Enders(f)') <= Cardinality(Enders(f))
      /\ Cardinality(Enders(f)') \in Nat /\ Cardinality(Enders(f)) \in Nat
  BY EndersKnown, SmallerSet
<1>5. ended[f] \in Nat  BY DEF TypeOK
<1>6. ended'[f] + Cardinality(T) + Cardinality(Enders(f)')
          <= ended[f] + Cardinality(S) + Cardinality(Enders(f))
  BY <1>3, <1>4, <1>5
<1>7. QED  BY <1>1, <1>3, <1>4, <1>6, Balance DEF S, T

LEMMA EndedByNode ==
    ASSUME FolderAssumption, TypeOK, TypeOK', ClaimsInv, NEW f \in File,
           IsFiniteSet(Names(f)), UNCHANGED <<node, faults>>, ended'[f] = ended[f] + 1,
           ToPlace(f)' <= ToPlace(f), NEW n \in Enders(f),
           Names(f)' \subseteq Names(f), Enders(f)' \subseteq Enders(f) \ {n}
    PROVE  Fewer(f)
<1>1. IsFiniteSet(Names(f)') /\ IsFiniteSet(Names(f) \ {1})  BY SmallerSet
<1>2. /\ Cardinality(Names(f)' \ {1}) <= Cardinality(Names(f) \ {1})
      /\ Cardinality(Names(f)' \ {1}) \in Nat /\ Cardinality(Names(f) \ {1}) \in Nat
  BY <1>1, SmallerSet
<1>3. /\ Cardinality(Enders(f)') <= Cardinality(Enders(f)) - 1
      /\ Cardinality(Enders(f)') \in Nat /\ Cardinality(Enders(f)) \in Nat
  BY EndersKnown, OneLess
<1>4. ended[f] \in Nat  BY DEF TypeOK
<1>5. ended'[f] + Cardinality(Names(f)' \ {1}) + Cardinality(Enders(f)')
          <= ended[f] + Cardinality(Names(f) \ {1}) + Cardinality(Enders(f))
  BY <1>2, <1>3, <1>4
<1>6. QED  BY <1>1, <1>2, <1>3, <1>5, Balance

LEMMA Faulting ==
    ASSUME FolderAssumption, TypeOK, TypeOK', ClaimsInv, NEW f \in File,
           IsFiniteSet(Names(f)), node' = node, faults' = faults + 1,
           ended'[f] = ended[f], ToPlace(f)' <= ToPlace(f) + 1,
           Names(f)' \subseteq Names(f), NEW n, Enders(f)' \subseteq Enders(f) \cup {n}
    PROVE  Fewer(f)
<1>1. IsFiniteSet(Names(f)') /\ IsFiniteSet(Names(f) \ {1})  BY SmallerSet
<1>2. /\ Cardinality(Names(f)' \ {1}) <= Cardinality(Names(f) \ {1})
      /\ Cardinality(Names(f)' \ {1}) \in Nat /\ Cardinality(Names(f) \ {1}) \in Nat
  BY <1>1, SmallerSet
<1>3. /\ Cardinality(Enders(f)') <= Cardinality(Enders(f)) + 1
      /\ Cardinality(Enders(f)') \in Nat /\ Cardinality(Enders(f)) \in Nat
  BY EndersKnown, OneMore
<1>4. ended[f] \in Nat  BY DEF TypeOK
<1>5. Cardinality(Names(f)' \ {1}) + Cardinality(Enders(f)')
          <= Cardinality(Names(f) \ {1}) + Cardinality(Enders(f)) + 1
  BY <1>2, <1>3
<1>6. QED  BY <1>1, <1>2, <1>3, <1>5, Balance

-----------------------------------------------------------------------------
(* The steps of a taker.                                                   *)

\* Only t moved, and t is not given an entry for the name itself that it did not
\* have, but by a listing for this node.
OnlyMoves(t) ==
    /\ node' = node
    /\ \A u \in Taker \ {t} : taker'[u] = taker[u]
    /\ \A e \in AtHand(t)' : e.slot = 1 =>
          \/ taker'[t].node = node
          \/ taker'[t].node = taker[t].node /\ \E d \in AtHand(t) : d.slot = 1

LEMMA PlacedSame ==
    ASSUME FolderAssumption, NEW f, UNCHANGED <<writer, told>>
    PROVE  ToPlace(f)' = ToPlace(f) /\ ToPlace(f)' <= ToPlace(f)
<1>1. ToPlace(f)' = ToPlace(f)  BY DEF ToPlace, Coming, Waiting, Waits, Placing
<1>2. QED  BY <1>1, PlacingKnown

LEMMA SourcesShrink ==
    ASSUME NEW t \in Taker, OnlyMoves(t)
    PROVE  Sources' \subseteq Sources
<1>1. ASSUME NEW n \in Sources' PROVE n \in Sources
  <2>1. CASE n = node'  BY <2>1, SourceIs DEF OnlyMoves
  <2>2. ASSUME NEW u \in Taker, NEW e \in AtHand(u)', e.slot = 1, n = taker'[u].node
        PROVE  n \in Sources
    <3>1. CASE u = t  BY <2>2, <3>1, SourceIs DEF OnlyMoves
    <3>2. CASE u # t
      <4>1. taker'[u] = taker[u]  BY <3>2 DEF OnlyMoves
      <4>2. QED  BY <2>2, <4>1, SourceIs DEF AtHand
    <3>3. QED  BY <3>1, <3>2
  <2>3. n = node' \/ \E u \in Taker : \E e \in AtHand(u)' : e.slot = 1 /\ n = taker'[u].node
    BY <1>1 DEF Sources, Nodes, AtHand
  <2>4. QED  BY <2>1, <2>2, <2>3
<1>2. QED  BY <1>1

LEMMA OfferingShrinks ==
    ASSUME NEW t \in Taker, OnlyMoves(t), taker'[t].pc # "sent", NEW f \in File
    PROVE  Offering(f)' \subseteq Offering(f)
<1>1. ASSUME NEW u \in Taker, taker'[u].pc = "sent", Genuine(u)', taker'[u].body = f
      PROVE  taker'[u].node \in Offering(f)
  <2>1. taker'[u] = taker[u]  BY <1>1 DEF OnlyMoves
  <2>2. Genuine(u)  BY <1>1, <2>1 DEF Genuine
  <2>3. QED  BY <1>1, <2>1, <2>2, OfferingIs
<1>2. QED  BY <1>1 DEF Offering, Nodes

LEMMA StoringStays ==
    ASSUME NEW t \in Taker, OnlyMoves(t), taker[t].pc # "stored"
    PROVE  Storing \subseteq Storing'
<1>1. ASSUME NEW u \in Taker, taker[u].pc = "stored" PROVE taker[u].node \in Storing'
  <2>1. taker'[u] = taker[u]  BY <1>1 DEF OnlyMoves
  <2>2. QED  BY <1>1, <2>1 DEF Storing, Nodes
<1>2. QED  BY <1>1, StoringIs

LEMMA EndersShrink ==
    ASSUME TypeOK, ClaimsInv, NEW t \in Taker, OnlyMoves(t), taker'[t].pc # "sent",
           NEW f \in File, Names(f)' \subseteq Names(f),
           taker[t].pc # "stored" \/ 1 \notin Names(f)'
    PROVE  Enders(f)' \subseteq Enders(f)
<1>1. Sources' \subseteq Sources  BY SourcesShrink
<1>2. Offering(f)' \subseteq Offering(f) /\ Offering(f) \subseteq Enders(f)
  BY OfferingShrinks, EndersKnown
<1>3. CASE 1 \notin Names(f)'
  BY <1>2, <1>3 DEF Enders
<1>4. CASE 1 \in Names(f)'
  <2>1. Storing \subseteq Storing'  BY <1>4, StoringStays
  <2>2. 1 \in Names(f)  BY <1>4
  <2>3. Enders(f)' = Sources' \ Storing' /\ Enders(f) = Sources \ Storing
    BY <1>4, <2>2 DEF Enders
  <2>4. QED  BY <1>1, <2>1, <2>3
<1>5. QED  BY <1>3, <1>4

\* A step of a taker that brings nothing to an end.
LEMMA QuietCount ==
    ASSUME FolderAssumption, TypeOK, TypeOK', ClaimsInv, NEW f \in File, IsFiniteSet(Names(f)),
           NEW t \in Taker, OnlyMoves(t), taker'[t].pc # "sent",
           UNCHANGED <<writer, told, faults>>, ended'[f] = ended[f],
           Names(f)' \subseteq Names(f),
           taker[t].pc # "stored" \/ 1 \notin Names(f)'
    PROVE  Fewer(f)
<1>1. Enders(f)' \subseteq Enders(f)  BY EndersShrink
<1>2. QED  BY <1>1, PlacedSame, Lessening DEF OnlyMoves

\* Where f is asked for by its name, and names a file that is not there.
LEMMA NamesShrink ==
    ASSUME FolderAssumption, TypeOK, NEW f \in File,
           \A k \in Slots : data'[k] \in {data[k], None}
    PROVE  Names(f)' \subseteq Names(f)
BY DEF Names, FolderAssumption

\* The destination stores what it was sent.
LEMMA AcceptedCount ==
    ASSUME FolderAssumption, TypeOK, TypeOK', ClaimsInv, NEW f \in File,
           IsFiniteSet(Names(f)), NEW t \in Taker, Accepted(t)
    PROVE  Fewer(f)
<1>1. Moves(t, "stored") /\ taker[t].pc = "sent" /\ Genuine(t)
  BY MovingOn DEF Accepted
<1>2. UNCHANGED <<data, writer, told, node, faults>>  BY EmptyFrame DEF Accepted, Empty
<1>3. Names(f)' = Names(f)  BY <1>2 DEF Names
<1>4. OnlyMoves(t)  BY <1>1, <1>2 DEF OnlyMoves, Moves, AtHand
<1>5. CASE taker[t].body # f
  <2>1. ended'[f] = ended[f]  BY <1>5 DEF Accepted, TypeOK
  <2>2. QED  BY <1>1, <1>2, <1>3, <1>4, <2>1, QuietCount DEF Moves
<1>6. CASE taker[t].body = f
  <2> DEFINE n == taker[t].node
  <2>1. ended'[f] = ended[f] + 1  BY <1>6 DEF Accepted, TypeOK
  <2>2. taker[t].entry.proof = f /\ taker[t].entry.slot = 1 /\ f # None
    BY <1>1, <1>6 DEF Genuine, FolderAssumption
  <2>4. Enders(f)' \subseteq Enders(f)
    BY <1>1, <1>3, <1>4, EndersShrink DEF Moves
  <2>5. n \in Enders(f)  BY <1>1, <1>6, OfferingIs, EndersKnown
  <2>6. n \in Storing'  BY <1>1 DEF Moves, Storing, Nodes
  <2>7. n \notin Offering(f)'
    <3>1. SUFFICES ASSUME NEW u \in Taker, taker'[u].pc = "sent", Genuine(u)',
                          taker'[u].node = n
                   PROVE  FALSE
      BY DEF Offering, Nodes
    <3>2. u # t  BY <1>1, <3>1 DEF Moves
    <3>3. taker'[u] = taker[u]  BY <1>4, <3>2 DEF OnlyMoves
    <3>4. taker[u].entry.slot = 1 /\ taker[u].node = taker[t].node
      BY <3>1, <3>3 DEF Genuine
    <3>5. taker[t].entry.slot # 0 /\ taker[t].entry.slot = taker[u].entry.slot
      BY <2>2, <3>4
    <3>6. u = t  BY <3>4, <3>5 DEF ClaimsInv, OnePerNode
    <3>7. QED  BY <3>2, <3>6
  <2>8. n \notin Enders(f)'  BY <2>6, <2>7 DEF Enders
  <2> HIDE DEF n
  <2>9. Enders(f)' \subseteq Enders(f) \ {n}  BY <2>4, <2>8
  <2>10. QED  BY <1>2, <1>3, <2>1, <2>5, <2>9, PlacedSame, EndedByNode
<1>7. QED  BY <1>5, <1>6

\* The file that has the name of a refused one is put in failed/.
LEMMA PutAsideCount ==
    ASSUME FolderAssumption, TypeOK, TypeOK', ClaimsInv, NEW f \in File,
           IsFiniteSet(Names(f)), NEW t \in Taker, PutAside(t)
    PROVE  Fewer(f)
<1> DEFINE k == taker[t].entry.slot
<1>1. taker[t].pc = "refused" /\ UNCHANGED <<writer, told, node, faults>>
  BY EmptyFrame DEF PutAside, Empty
<1>2. k \in Slots /\ k # 0  BY <1>1, EntryType DEF FolderAssumption
<1>3. CASE data[k] = None
  <2>1. Frees(t) /\ UNCHANGED <<data, ended>>
    BY <1>3, Releasing DEF PutAside
  <2>2. Names(f)' = Names(f)  BY <2>1 DEF Names
  <2>3. OnlyMoves(t)  BY <1>1, <2>1 DEF OnlyMoves, Frees, AtHand, NoEntry
  <2>4. QED  BY <1>1, <2>1, <2>2, <2>3, QuietCount DEF Frees
<1>4. CASE data[k] # None
  <2>1. Moves(t, "cleared")  BY <1>1, <1>4, MovingOn DEF PutAside
  <2>2. data' = [data EXCEPT ![k] = None] /\ ended' = [ended EXCEPT ![data[k]] = @ + 1]
    BY <1>4 DEF PutAside
  <2>3. OnlyMoves(t)  BY <1>1, <2>1 DEF OnlyMoves, Moves, AtHand
  <2>4. Names(f)' \subseteq Names(f)
    BY <1>2, <2>2, NamesShrink DEF TypeOK
  <2>5. Enders(f)' \subseteq Enders(f)
    BY <1>1, <2>1, <2>3, <2>4, EndersShrink DEF Moves
  <2>7. CASE data[k] # f
    <3>1. ended'[f] = ended[f]  BY <2>2, <2>7 DEF TypeOK
    <3>2. QED  BY <1>1, <2>1, <2>3, <2>4, <3>1, QuietCount DEF Moves
  <2>8. CASE data[k] = f
    <3>1. ended'[f] = ended[f] + 1  BY <2>2, <2>8 DEF TypeOK
    <3>2. k \in Names(f) /\ k \notin Names(f)'
      BY <1>2, <2>2, <2>8 DEF Names, TypeOK, FolderAssumption
    <3>3. Names(f)' \subseteq Names(f) \ {k}  BY <2>4, <3>2
    <3>4. CASE k # 1
      <4> HIDE DEF k
      <4>1. QED  BY <1>1, <2>5, <3>1, <3>2, <3>3, <3>4, PlacedSame, EndedByName
    <3>5. CASE k = 1
      <4> DEFINE n == taker[t].node
      <4>1. n \in Sources  BY <3>5, SourceIs DEF AtHand
      <4>2. ASSUME NEW u \in Taker, taker[u].entry.slot = 1, taker[u].node = n PROVE u = t
        BY <3>5, <4>2 DEF ClaimsInv, OnePerNode
      <4>3. n \notin Storing
        <5>1. SUFFICES ASSUME NEW u \in Taker, taker[u].pc = "stored", taker[u].node = n
                       PROVE  FALSE
          BY StoringIs
        <5>2. u = t  BY <4>2, <5>1 DEF ClaimsInv, FirstStored
        <5>3. QED  BY <1>1, <5>1, <5>2
      <4>4. n \in Enders(f)  BY <3>2, <3>5, <4>1, <4>3 DEF Enders
      <4>5. n \notin Offering(f)'
        <5>1. SUFFICES ASSUME NEW u \in Taker, taker'[u].pc = "sent", Genuine(u)',
                              taker'[u].node = n
                       PROVE  FALSE
          BY DEF Offering, Nodes
        <5>2. u # t  BY <2>1, <5>1 DEF Moves
        <5>3. taker'[u] = taker[u]  BY <2>3, <5>2 DEF OnlyMoves
        <5>4. taker[u].entry.slot = 1 /\ taker[u].node = n
          BY <5>1, <5>3 DEF Genuine
        <5>5. QED  BY <4>2, <5>2, <5>4
      <4>6. Enders(f)' = Offering(f)'  BY <3>2, <3>5 DEF Enders
      <4>7. Enders(f)' \subseteq Enders(f) \ {n}  BY <2>5, <4>5, <4>6
      <4> HIDE DEF n
      <4>8. QED  BY <1>1, <2>4, <3>1, <4>4, <4>7, PlacedSame, EndedByNode
    <3>6. QED  BY <3>4, <3>5
  <2>9. QED  BY <2>7, <2>8
<1>5. QED  BY <1>3, <1>4

LEMMA EmptyCount ==
    ASSUME FolderAssumption, TypeOK, TypeOK', ClaimsInv, NEW f \in File,
           IsFiniteSet(Names(f)), NEW t \in Taker, Empty(t)
    PROVE  Fewer(f)
<1>0. UNCHANGED <<writer, told, node>>  BY EmptyFrame
<1>1. ASSUME UNCHANGED <<data, ended, faults>>, OnlyMoves(t), taker[t].pc # "stored",
             taker'[t].pc # "sent"
      PROVE  Fewer(f)
  <2>1. Names(f)' = Names(f)  BY <1>1 DEF Names
  <2>2. QED  BY <1>0, <1>1, <2>1, QuietCount
<1>2. ASSUME UNCHANGED <<data, ended, faults>>, Frees(t), taker[t].pc # "stored"
      PROVE  Fewer(f)
  <2>1. OnlyMoves(t)  BY <1>0, <1>2 DEF OnlyMoves, Frees, AtHand, NoEntry
  <2>2. QED  BY <1>1, <1>2, <2>1 DEF Frees
<1>3. CASE List(t)
  <2>1. /\ UNCHANGED <<data, ended, faults>> /\ taker[t].pc = "between"
        /\ taker[t].entry = NoEntry
    BY <1>3 DEF List, TypeOK, Taking
  <2>2. OnlyMoves(t)  BY <1>0, <1>3, Listed DEF OnlyMoves
  <2>3. QED  BY <1>1, <1>3, <2>1, <2>2, Listed
<1>4. ASSUME NEW e \in taker[t].todo, Skip(t, e) PROVE Fewer(f)
  <2>1. UNCHANGED <<data, ended, faults>> /\ taker[t].pc = "between"
    BY <1>4 DEF Skip
  <2>2. OnlyMoves(t)  BY <1>0, <1>4, Skipped DEF OnlyMoves, AtHand
  <2>3. QED  BY <1>1, <1>4, <2>1, <2>2, Skipped
<1>5. ASSUME NEW e \in taker[t].todo, Take(t, e) PROVE Fewer(f)
  <2>1. /\ \A u \in Taker \ {t} : taker'[u] = taker[u]
        /\ taker'[t].pc = "sent" /\ taker'[t].entry = e
        /\ taker'[t].node = taker[t].node /\ taker'[t].todo \subseteq taker[t].todo
        /\ taker'[t].body = data[e.slot]
    BY <1>5, Taken
  <2>2. UNCHANGED <<data, ended, faults>> /\ taker[t].pc = "between"
    BY <1>5 DEF Take
  <2>3. OnlyMoves(t)  BY <1>0, <2>1 DEF OnlyMoves, AtHand
  <2>4. Names(f)' = Names(f)  BY <2>2 DEF Names
  <2>5. Sources' \subseteq Sources  BY <2>3, SourcesShrink
  <2>6. Storing \subseteq Storing'  BY <2>2, <2>3, StoringStays
  <2>7. CASE 1 \in Names(f)
    <3>1. Enders(f)' \subseteq Enders(f)  BY <2>4, <2>5, <2>6, <2>7 DEF Enders
    <3>2. QED  BY <1>0, <2>2, <2>4, <3>1, PlacedSame, Lessening
  <2>8. CASE 1 \notin Names(f)
    <3>1. ASSUME NEW u \in Taker, taker'[u].pc = "sent", Genuine(u)', taker'[u].body = f
          PROVE  taker'[u].node \in Offering(f)
      <4>1. CASE u = t
        <5>1. e.slot = 1 /\ data[e.slot] = f  BY <2>1, <3>1, <4>1 DEF Genuine
        <5>2. e \in Entry  BY DEF TypeOK, Taking
        <5>3. QED  BY <2>8, <5>1, <5>2 DEF Names, Entry
      <4>2. CASE u # t
        <5>1. taker'[u] = taker[u]  BY <2>1, <4>2
        <5>2. Genuine(u)  BY <3>1, <5>1 DEF Genuine
        <5>3. QED  BY <3>1, <5>1, <5>2, OfferingIs
      <4>3. QED  BY <4>1, <4>2
    <3>2. Offering(f)' \subseteq Offering(f)  BY <3>1 DEF Offering, Nodes
    <3>3. Enders(f)' \subseteq Enders(f)  BY <2>4, <2>8, <3>2 DEF Enders
    <3>4. QED  BY <1>0, <2>2, <2>4, <3>3, PlacedSame, Lessening
  <2>9. QED  BY <2>7, <2>8
<1>6. CASE Rejected(t)
  <2>1. Moves(t, "refused") /\ UNCHANGED <<data, ended, faults>> /\ taker[t].pc = "sent"
    BY <1>6, MovingOn DEF Rejected
  <2>2. OnlyMoves(t)  BY <1>0, <2>1 DEF OnlyMoves, Moves, AtHand
  <2>3. QED  BY <1>1, <2>1, <2>2 DEF Moves
<1>7. CASE KeepIt(t)
  <2>1. Frees(t) /\ UNCHANGED <<data, ended, faults>> /\ taker[t].pc = "sent"
    BY <1>7, GivingUp DEF KeepIt
  <2>2. QED  BY <1>2, <2>1
<1>8. CASE Break(t)
  <2>1. Frees(t) /\ UNCHANGED <<data, ended>> /\ faults' = faults + 1
    BY <1>8, GivingUp DEF Break, Fault
  <2>2. OnlyMoves(t)  BY <1>0, <2>1 DEF OnlyMoves, Frees, AtHand, NoEntry
  <2>3. Names(f)' = Names(f)  BY <2>1 DEF Names
  <2>4. Sources' \subseteq Sources  BY <2>2, SourcesShrink
  <2>5. Storing \subseteq Storing' \cup {taker[t].node}
    <3>1. ASSUME NEW u \in Taker, taker[u].pc = "stored", u # t
          PROVE  taker[u].node \in Storing'
      <4>1. taker'[u] = taker[u]  BY <2>2, <3>1 DEF OnlyMoves
      <4>2. QED  BY <3>1, <4>1 DEF Storing, Nodes
    <3>2. QED  BY <3>1, StoringIs
  <2>6. Offering(f)' \subseteq Offering(f)  BY <2>1, <2>2, OfferingShrinks DEF Frees
  <2>7. Enders(f)' \subseteq Enders(f) \cup {taker[t].node}
    BY <2>3, <2>4, <2>5, <2>6 DEF Enders
  <2>8. ToPlace(f)' <= ToPlace(f) + 1  BY <1>0, PlacedSame, PlacingKnown
  <2>9. QED  BY <1>0, <2>1, <2>3, <2>7, <2>8, Faulting
<1>9. CASE Delete(t)
  <2>1. Moves(t, "cleared") /\ UNCHANGED <<ended, faults>> /\ taker[t].pc = "stored"
        /\ data' = [data EXCEPT ![taker[t].entry.slot] = None]
    BY <1>9, MovingOn DEF Delete
  <2>2. taker[t].entry.slot = 1 /\ taker[t].entry.slot \in Slots
    BY <2>1, EntryType DEF ClaimsInv, FirstStored
  <2>3. OnlyMoves(t)  BY <1>0, <2>1 DEF OnlyMoves, Moves, AtHand
  <2>4. Names(f)' \subseteq Names(f)
    BY <2>1, <2>2, NamesShrink DEF TypeOK
  <2>5. 1 \notin Names(f)'
    BY <2>1, <2>2 DEF Names, TypeOK, FolderAssumption
  <2>6. QED  BY <1>0, <2>1, <2>3, <2>4, <2>5, QuietCount DEF Moves
<1>10. CASE DeleteSidecar(t)
  <2>1. Frees(t) /\ UNCHANGED <<data, ended, faults>> /\ taker[t].pc = "cleared"
    BY <1>10, Releasing DEF DeleteSidecar
  <2>2. QED  BY <1>2, <2>1
<1>11. QED
  BY <1>3, <1>4, <1>5, <1>6, <1>7, <1>8, <1>9, <1>10, AcceptedCount, PutAsideCount
  DEF Empty

-----------------------------------------------------------------------------
(* The steps of a handler.                                                 *)

\* A handler leaves the nodes that may end f alone, or may take its name away.
LEMMA SameEnders ==
    ASSUME TypeOK, ClaimsInv, UNCHANGED <<taker, node>>, NEW f \in File,
           1 \in Names(f)' => 1 \in Names(f)
    PROVE  Enders(f)' \subseteq Enders(f)
<1>1. Sources' = Sources /\ Storing' = Storing /\ Offering(f)' = Offering(f)
  BY DEF Sources, Storing, Offering, Nodes, Genuine
<1>2. CASE 1 \in Names(f)'  BY <1>1, <1>2 DEF Enders
<1>3. CASE 1 \notin Names(f)'
  <2>1. Enders(f)' = Offering(f)  BY <1>1, <1>3 DEF Enders
  <2>2. QED  BY <2>1, EndersKnown
<1>4. QED  BY <1>2, <1>3

LEMMA ChooseCount ==
    ASSUME FolderAssumption, TypeOK, TypeOK', ClaimsInv, NEW f \in File,
           IsFiniteSet(Names(f)), NEW w \in Writer, NEW g \in File, Choose(w, g)
    PROVE  Fewer(f)
<1>1. PICK k \in Slots : Writes(w, "chosen", g, k, "waits")  BY Chosen
<1>2. /\ UNCHANGED <<data, told, taker, node, ended, faults>>
      /\ writer[w].pc = "idle" /\ Coming(g)
  BY DEF Choose
<1>3. Names(f)' = Names(f)  BY <1>2 DEF Names
<1>4. Enders(f)' \subseteq Enders(f)  BY <1>2, <1>3, SameEnders
<1>5. \A v \in Writer \ {w} : writer'[v] = writer[v]  BY <1>1 DEF Writes
<1>6. ToPlace(f)' <= ToPlace(f)
  <2>1. CASE f = g
    <3>1. Placing(f)' \subseteq Placing(f) \cup {w}  BY <1>5 DEF Placing
    <3>2. Cardinality(Placing(f)') <= Cardinality(Placing(f)) + 1
      BY <3>1, PlacingKnown, OneMore
    <3>3. ~Coming(f)'  BY <1>1, <2>1 DEF Coming, Waiting, Waits, Writes
    <3>4. Coming(f)  BY <1>2, <2>1
    <3>5. QED  BY <3>2, <3>3, <3>4, PlacingKnown DEF ToPlace
  <2>2. CASE f # g
    <3>1. Placing(f)' \subseteq Placing(f)  BY <1>1, <2>2 DEF Placing, Writes
    <3>2. ~Waits(w)  BY <1>2, WaitsBusy
    <3>3. Coming(f)' => Coming(f)
      BY <1>2, <1>5, <3>2 DEF Coming, Waiting, Waits
    <3>4. QED  BY <3>1, <3>3, PlacedLess
  <2>3. QED  BY <2>1, <2>2
<1>7. QED  BY <1>2, <1>3, <1>4, <1>6, Lessening

\* The one place where f comes into the folder: every node may end it.
LEMMA RenameCount ==
    ASSUME FolderAssumption, TypeOK, TypeOK', ClaimsInv, NEW f \in File,
           IsFiniteSet(Names(f)), NEW w \in Writer, Rename(w)
    PROVE  Fewer(f)
<1>1. PICK k \in Slots, x \in File : k = writer[w].at /\ x = writer[w].file
  BY Renamed
<1>2. Writes(w, "placed", x, k, writer[w].sender) /\ writer[w].pc = "chosen"
  BY <1>1, Renamed
<1>3. /\ UNCHANGED <<told, taker, node, ended, faults>>
      /\ data' = [data EXCEPT ![k] = x]
  BY <1>1 DEF Rename
<1>4. data'[k] = x /\ \A j \in Slots \ {k} : data'[j] = data[j]  BY <1>3 DEF TypeOK
<1>5. Coming(f)' <=> Coming(f)
  BY <1>1, <1>2, <1>3 DEF Coming, Waiting, Waits, Writes
<1>6. CASE f # x
  <2>1. Names(f)' \subseteq Names(f)  BY <1>4, <1>6 DEF Names
  <2>2. Enders(f)' \subseteq Enders(f)  BY <1>3, <2>1, SameEnders
  <2>3. Placing(f)' \subseteq Placing(f)  BY <1>2 DEF Placing, Writes
  <2>4. QED  BY <1>3, <1>5, <2>1, <2>2, <2>3, PlacedLess, Lessening
<1>7. CASE f = x
  <2>1. w \in Placing(f) /\ Placing(f)' \subseteq Placing(f) \ {w}
    BY <1>1, <1>2, <1>7 DEF Placing, Writes
  <2>2. Cardinality(Placing(f)') <= Cardinality(Placing(f)) - 1
    BY <2>1, PlacingKnown, OneLess
  <2>3. ToPlace(f)' <= ToPlace(f) - 1
    BY <1>5, <2>2, PlacingKnown DEF ToPlace
  <2>4. Names(f)' \subseteq Names(f) \cup {k}  BY <1>4 DEF Names
  <2>5. IsFiniteSet(Names(f)')  BY <2>4, OneMore
  <2>6. node \in Nat  BY DEF TypeOK
  <2>7. IsFiniteSet(Names(f) \ {1})  BY SmallerSet
  <2>8. CASE k = 1
    <3>1. Names(f)' \ {1} \subseteq Names(f) \ {1}  BY <2>4, <2>8
    <3>2. /\ Cardinality(Names(f)' \ {1}) <= Cardinality(Names(f) \ {1})
          /\ Cardinality(Names(f)' \ {1}) \in Nat /\ Cardinality(Names(f) \ {1}) \in Nat
      BY <2>7, <3>1, SmallerSet
    <3>3. Enders(f)' \subseteq Sources
      <4>1. Sources' = Sources /\ Offering(f)' = Offering(f)
        BY <1>3 DEF Sources, Offering, Nodes, Genuine
      <4>2. Offering(f) \subseteq Sources  BY EndersKnown
      <4>3. QED  BY <4>1, <4>2 DEF Enders
    <3>4. /\ Cardinality(Enders(f)') <= Cardinality(Sources)
          /\ Cardinality(Enders(f)') \in Nat
      BY <3>3, EndersKnown, SmallerSet
    <3>5. Cardinality(Enders(f)') <= 1 + node /\ Cardinality(Enders(f)) \in Nat
      BY <2>6, <3>4, EndersKnown
    <3>6. Cardinality(Names(f)' \ {1}) + Cardinality(Enders(f)')
              <= Cardinality(Names(f) \ {1}) + Cardinality(Enders(f)) + 1 + node
      BY <2>6, <3>2, <3>4, <3>5
    <3>7. QED  BY <1>3, <2>3, <2>5, <3>2, <3>4, <3>5, <3>6, Balance
  <2>9. CASE k # 1
    <3>1. Names(f)' \ {1} \subseteq (Names(f) \ {1}) \cup {k}  BY <2>4
    <3>2. /\ Cardinality(Names(f)' \ {1}) <= Cardinality(Names(f) \ {1}) + 1
          /\ Cardinality(Names(f)' \ {1}) \in Nat /\ Cardinality(Names(f) \ {1}) \in Nat
      BY <2>7, <3>1, OneMore
    <3>3. Enders(f)' \subseteq Enders(f)  BY <1>3, <2>4, <2>9, SameEnders
    <3>4. /\ Cardinality(Enders(f)') <= Cardinality(Enders(f))
          /\ Cardinality(Enders(f)') \in Nat /\ Cardinality(Enders(f)) \in Nat
      BY <3>3, EndersKnown, SmallerSet
    <3>5. Cardinality(Names(f)' \ {1}) + Cardinality(Enders(f)')
              <= Cardinality(Names(f) \ {1}) + Cardinality(Enders(f)) + 1 + node
      BY <2>6, <3>2, <3>4
    <3>6. QED  BY <1>3, <2>3, <2>5, <3>2, <3>4, <3>5, Balance
  <2>10. QED  BY <2>8, <2>9
<1>8. QED  BY <1>6, <1>7

LEMMA WriteCount ==
    ASSUME FolderAssumption, TypeOK, TypeOK', ClaimsInv, NEW f \in File,
           IsFiniteSet(Names(f)), NEW w \in Writer, Write(w)
    PROVE  Fewer(f)
<1>1. ASSUME UNCHANGED <<data, taker, node, ended, faults>>,
             ToPlace(f)' <= ToPlace(f)
      PROVE  Fewer(f)
  <2>1. Names(f)' = Names(f)  BY <1>1 DEF Names
  <2>2. QED  BY <1>1, <2>1, SameEnders, Lessening
<1>2. ASSUME UNCHANGED <<taker, node, ended>>, faults' = faults + 1,
             \A k \in Slots : data'[k] \in {data[k], None},
             Placing(f)' \subseteq Placing(f)
      PROVE  Fewer(f)
  <2>1. Names(f)' \subseteq Names(f)  BY <1>2, NamesShrink
  <2>2. Enders(f)' \subseteq Enders(f)  BY <1>2, <2>1, SameEnders
  <2>3. ToPlace(f)' <= ToPlace(f) + 1  BY <1>2, PlacedMore
  <2>4. Enders(f)' \subseteq Enders(f) \cup {node} /\ ended'[f] = ended[f]
    BY <1>2, <2>2
  <2>5. QED  BY <1>2, <2>1, <2>3, <2>4, Faulting
<1>3. ASSUME NEW p, NEW k, NEW s, Writes(w, p, writer[w].file, k, s),
             p \in {"written", writer[w].pc}
      PROVE  Placing(f)' \subseteq Placing(f)
  BY <1>3 DEF Placing, Writes
<1>4. ASSUME NEW g \in File, Choose(w, g) PROVE Fewer(f)  BY <1>4, ChooseCount
<1>5. CASE Rename(w)  BY <1>5, RenameCount
<1>6. CASE WriteSidecar(w)
  <2>1. Writes(w, "written", writer[w].file, writer[w].at, writer[w].sender)
    BY <1>6, SidecarWritten
  <2>2. told' = told  BY <1>6 DEF WriteSidecar
  <2>3. Coming(f)' => Coming(f)
    BY <2>1, <2>2 DEF Coming, Waiting, Waits, Writes
  <2>4. ToPlace(f)' <= ToPlace(f)  BY <1>3, <2>1, <2>3, PlacedLess
  <2>5. QED  BY <1>1, <1>6, <2>4 DEF WriteSidecar
<1>7. CASE SidecarFails(w)
  <2>1. \A k \in Slots : data'[k] \in {data[k], None}
    BY <1>7 DEF SidecarFails, TypeOK
  <2>2. Placing(f)' \subseteq Placing(f)
    BY <1>7, SidecarFailed DEF Placing, Writes
  <2>3. QED  BY <1>2, <1>7, <2>1, <2>2 DEF SidecarFails, Fault
<1>8. CASE Answer(w)
  <2>1. Writes(w, "idle", None, 0, "gone")  BY <1>8, Answered
  <2>2. told' = told \cup (IF Waits(w) THEN {writer[w].file} ELSE {})
    BY <1>8 DEF Answer
  <2>3. Coming(f)' => Coming(f)
    BY <2>1, <2>2 DEF Coming, Waiting, Waits, Writes
  <2>4. Placing(f)' \subseteq Placing(f)  BY <2>1 DEF Placing, Writes
  <2>5. ToPlace(f)' <= ToPlace(f)  BY <2>3, <2>4, PlacedLess
  <2>6. QED  BY <1>1, <1>8, <2>5 DEF Answer
<1>9. CASE HangUp(w)
  <2>1. Placing(f)' \subseteq Placing(f)  BY <1>3, <1>9, HungUp
  <2>2. QED  BY <1>2, <1>9, <2>1 DEF HangUp, Fault
<1>10. QED  BY <1>4, <1>5, <1>6, <1>7, <1>8, <1>9 DEF Write

-----------------------------------------------------------------------------
(* Stops, and the theorems.                                                *)

LEMMA CrashCount ==
    ASSUME FolderAssumption, TypeOK, TypeOK', ClaimsInv, NEW f \in File,
           IsFiniteSet(Names(f)), Crash
    PROVE  Fewer(f)
<1>1. UNCHANGED <<data, node, ended>> /\ faults' = faults + 1
  BY DEF Crash, Fault
<1>2. Names(f)' = Names(f)  BY <1>1 DEF Names
<1>3. Sources' \subseteq {node}
  BY <1>1, Crashed DEF Sources, Nodes, NoEntry
<1>4. Offering(f)' = {}  BY Crashed DEF Offering, Nodes
<1>5. Enders(f)' \subseteq Enders(f) \cup {node}  BY <1>3, <1>4 DEF Enders
<1>6. Placing(f)' \subseteq Placing(f)  BY Crashed DEF Placing
<1>7. ToPlace(f)' <= ToPlace(f) + 1  BY <1>6, PlacedMore
<1>8. QED  BY <1>1, <1>2, <1>5, <1>7, Faulting

LEMMA StepCount ==
    ASSUME FolderAssumption, TypeOK, TypeOK', ClaimsInv, NEW f \in File,
           IsFiniteSet(Names(f)), [Next]_vars, ~RestartInPlace
    PROVE  Fewer(f) /\ node' = node
<1>1. CASE UNCHANGED vars
  <2>1. Names(f)' = Names(f) /\ Enders(f)' = Enders(f)
    BY <1>1 DEF vars, Names, Enders, Sources, Storing, Offering, Nodes, Genuine
  <2>2. UNCHANGED <<writer, told, node, ended, faults>>  BY <1>1 DEF vars, senders
  <2>3. QED  BY <2>1, <2>2, PlacedSame, Lessening
<1>2. ASSUME NEW w \in Writer, Write(w) PROVE Fewer(f) /\ node' = node
  <2>1. node' = node
    BY <1>2 DEF Write, Choose, Rename, WriteSidecar, SidecarFails, Answer, HangUp
  <2>2. QED  BY <1>2, <2>1, WriteCount
<1>3. ASSUME NEW t \in Taker, Empty(t) PROVE Fewer(f) /\ node' = node
  BY <1>3, EmptyCount, EmptyFrame
<1>4. CASE Crash  BY <1>4, CrashCount DEF Crash
<1>5. QED  BY <1>1, <1>2, <1>3, <1>4 DEF Next

LEMMA EndsKnown ==
    ASSUME FolderAssumption, TypeOK, ClaimsInv, NEW f \in File, IsFiniteSet(Names(f))
    PROVE  /\ EndsToCome(f) \in Nat /\ ToPlace(f) \in Nat
           /\ Cardinality(Names(f) \ {1}) \in Nat /\ Cardinality(Enders(f)) \in Nat
<1>1. Cardinality(Names(f) \ {1}) \in Nat  BY SmallerSet
<1>2. node \in Nat  BY DEF TypeOK
<1>3. ToPlace(f) * (1 + node) \in Nat  BY <1>2, PlacingKnown
<1>4. QED  BY <1>1, <1>3, PlacingKnown, EndersKnown DEF EndsToCome

\* With one node more, whatever is to be placed may be ended once more.
LEMMA OneNodeMore ==
    ASSUME NEW R \in Nat, R >= 1, NEW F \in Nat, NEW p \in Nat, NEW a \in Nat,
           NEW n \in Nat, NEW e \in Nat, NEW d \in Nat, d <= e + 1,
           a + (p * R + n + e) <= (1 + 2 * F) * R
    PROVE  a + (p * (R + 1) + n + d) <= (1 + 2 * (F + 1)) * (R + 1)
<1>1. PICK q \in Nat : q = 1 + 2 * F  OBVIOUS
<1>2. p * R \in Nat /\ q * R \in Nat  OBVIOUS
<1>3. a + (p * R + n + e) <= q * R  BY <1>1
<1>4. p <= q
  <2>1. SUFFICES ASSUME q <= p - 1 PROVE FALSE  BY <1>1
  <2>2. q * R <= p * R - R  BY <2>1, Products
  <2>3. QED  BY <1>2, <1>3, <2>2
<1>5. p * (R + 1) = p * R + p  OBVIOUS
<1>6. (1 + 2 * (F + 1)) * (R + 1) = q * R + q + 2 * R + 2
  <2>1. 1 + 2 * (F + 1) = q + 2  BY <1>1
  <2>2. (q + 2) * (R + 1) = q * R + q + 2 * R + 2  OBVIOUS
  <2>3. QED  BY <2>1, <2>2
<1>7. QED  BY <1>2, <1>3, <1>4, <1>5, <1>6

LEMMA RestartCount ==
    ASSUME FolderAssumption, TypeOK, TypeOK', ClaimsInv, NEW f \in File,
           IsFiniteSet(Names(f)), RestartInPlace,
           ended[f] + EndsToCome(f) <= (1 + 2 * faults) * (1 + node)
    PROVE  /\ IsFiniteSet(Names(f)')
           /\ ended'[f] + EndsToCome(f)' <= (1 + 2 * faults') * (1 + node')
<1>1. /\ UNCHANGED <<data, writer, told, ended>>
      /\ faults' = faults + 1 /\ node' = node + 1
  BY DEF RestartInPlace, Fault, senders
<1>2. Names(f)' = Names(f)  BY <1>1 DEF Names
<1>3. Sources' \subseteq Sources \cup {node + 1}
  <2>1. ASSUME NEW u \in Taker, NEW e \in AtHand(u)', e.slot = 1
        PROVE  taker'[u].node \in Sources
    <3>1. e \in AtHand(u) /\ taker'[u].node = taker[u].node
      BY <2>1, Restarted DEF AtHand
    <3>2. QED  BY <2>1, <3>1, SourceIs
  <2>2. QED  BY <1>1, <2>1 DEF Sources, Nodes, AtHand
<1>4. Storing' = Storing /\ Offering(f)' = Offering(f)
  BY Restarted DEF Storing, Offering, Nodes, Genuine
<1>5. Enders(f)' \subseteq Enders(f) \cup {node + 1}
  BY <1>2, <1>3, <1>4 DEF Enders
<1>6. /\ Cardinality(Enders(f)') <= Cardinality(Enders(f)) + 1
      /\ Cardinality(Enders(f)') \in Nat
  BY <1>5, EndersKnown, OneMore
<1>7. PICK p \in Nat, n \in Nat, e \in Nat, d \in Nat :
          /\ p = ToPlace(f) /\ n = Cardinality(Names(f) \ {1})
          /\ e = Cardinality(Enders(f)) /\ d = Cardinality(Enders(f)')
  BY <1>6, EndsKnown
<1>8. PICK R \in Nat : R = 1 + node /\ R >= 1 /\ R + 1 = 1 + node'
  BY <1>1 DEF TypeOK
<1>9. EndsToCome(f) = p * R + n + e  BY <1>7, <1>8 DEF EndsToCome
<1>10. EndsToCome(f)' = p * (R + 1) + n + d
  BY <1>1, <1>2, <1>7, <1>8, PlacedSame DEF EndsToCome
<1>11. PICK a \in Nat, F \in Nat : a = ended[f] /\ F = faults  BY DEF TypeOK
<1>12. a + (p * R + n + e) <= (1 + 2 * F) * R  BY <1>8, <1>9, <1>11
<1>13. a + (p * (R + 1) + n + d) <= (1 + 2 * (F + 1)) * (R + 1)
  BY <1>6, <1>7, <1>8, <1>12, OneNodeMore
<1>14. QED  BY <1>1, <1>2, <1>8, <1>10, <1>11, <1>13

LEMMA CountNext ==
    ASSUME FolderAssumption, TypeOK, ClaimsInv, EndsBounded, [Next]_vars
    PROVE  EndsBounded'
<1>1. TypeOK'  BY ForwardTypeNext
<1>2. ASSUME NEW f \in File
      PROVE  /\ IsFiniteSet(Names(f)')
             /\ ended'[f] + EndsToCome(f)' <= (1 + 2 * faults') * (1 + node')
  <2>1. IsFiniteSet(Names(f)) /\ ended[f] + EndsToCome(f) <= (1 + 2 * faults) * (1 + node)
    BY DEF EndsBounded
  <2>2. CASE RestartInPlace  BY <1>1, <2>1, <2>2, RestartCount
  <2>3. CASE ~RestartInPlace
    <3>1. Fewer(f) /\ node' = node  BY <1>1, <2>1, <2>3, StepCount
    <3>2. PICK R \in Nat : R = 1 + node  BY DEF TypeOK
    <3>3. PICK F \in Nat, G \in Nat : F = faults /\ G = faults'  BY <1>1 DEF TypeOK
    <3>4. (1 + 2 * F) * R + 2 * R * (G - F) = (1 + 2 * G) * R  OBVIOUS
    <3>5. ended'[f] + EndsToCome(f)' <= ended[f] + EndsToCome(f) + 2 * R * (G - F)
      BY <3>1, <3>2, <3>3 DEF Fewer
    <3>6. ended[f] + EndsToCome(f) <= (1 + 2 * F) * R  BY <2>1, <3>2, <3>3
    <3>7. /\ ended[f] + EndsToCome(f) \in Int /\ ended'[f] + EndsToCome(f)' \in Int
          /\ (1 + 2 * F) * R \in Int /\ 2 * R * (G - F) \in Int
      <4>1. ended[f] \in Nat /\ ended'[f] \in Nat  BY <1>1 DEF TypeOK
      <4>2. EndsToCome(f) \in Nat /\ EndsToCome(f)' \in Int
        BY <2>1, <3>1, EndsKnown DEF Fewer
      <4>3. (1 + 2 * F) * R \in Int /\ 2 * R * (G - F) \in Int  OBVIOUS
      <4>4. QED  BY <4>1, <4>2, <4>3
    <3>8. ended'[f] + EndsToCome(f)' <= (1 + 2 * F) * R + 2 * R * (G - F)
      BY <3>5, <3>6, <3>7
    <3>9. ended'[f] + EndsToCome(f)' <= (1 + 2 * G) * R  BY <3>4, <3>8
    <3>10. QED  BY <3>1, <3>2, <3>3, <3>9 DEF Fewer
  <2>4. QED  BY <2>2, <2>3
<1>3. QED  BY <1>2 DEF EndsBounded

LEMMA CountInit == ASSUME FolderAssumption, Init PROVE EndsBounded
<1>1. SUFFICES ASSUME NEW f \in File
               PROVE  /\ IsFiniteSet(Names(f))
                      /\ ended[f] + EndsToCome(f) <= (1 + 2 * faults) * (1 + node)
  BY DEF EndsBounded
<1>2. Names(f) = {}  BY DEF Init, Names, FolderAssumption
<1>3. Placing(f) = {}  BY DEF Init, Placing, Idle
<1>4. Offering(f) = {}  BY DEF Init, Offering, Nodes
<1>5. Enders(f) = {}  BY <1>2, <1>4 DEF Enders
<1>6. Cardinality({}) = 0 /\ IsFiniteSet({})  BY FS_EmptySet
<1>7. ended[f] = 0 /\ faults = 0 /\ node = 0  BY DEF Init
<1>8. ToPlace(f) \in {0, 1}  BY <1>3, <1>6 DEF ToPlace
<1>9. Names(f) \ {1} = {}  BY <1>2
<1>10. EndsToCome(f) \in {0, 1}  BY <1>5, <1>6, <1>7, <1>8, <1>9 DEF EndsToCome
<1>11. (1 + 2 * faults) * (1 + node) = 1  BY <1>7
<1>12. QED  BY <1>2, <1>6, <1>7, <1>10, <1>11

LEMMA ForwardInvInit == ASSUME FolderAssumption, Init PROVE IInv
<1>1. TypeOK  BY ForwardTypeInit
<1>2. OneSender /\ OnePerNode /\ FirstStored
  BY DEF Init, OneSender, OnePerNode, FirstStored, Waits, Idle, NoEntry
<1>3. ProofsTold  BY DEF Init, ProofsTold, NoEntry
<1>4. OneAtWork /\ NameKept  BY DEF Init, OneAtWork, NameKept, AtWork, Idle
<1>5. SentIsThere /\ KnownStays
  BY DEF Init, SentIsThere, KnownStays, Known, Waits, Idle
<1>6. QED  BY <1>1, <1>2, <1>3, <1>4, <1>5, CountInit DEF IInv, Keeping

LEMMA ForwardInvNext == ASSUME FolderAssumption, IInv, [Next]_vars PROVE IInv'
<1>1. TypeOK' /\ OneSender' /\ ProofsTold'
  BY ForwardTypeNext, SendersNext, ProofsNext DEF IInv
<1>2. OnePerNode' /\ FirstStored'  BY ClaimsNext DEF IInv, ClaimsInv
<1>3. Sound' => Keeping'  BY KeepingNext DEF IInv, ClaimsInv
<1>4. EndsBounded'  BY CountNext DEF IInv, ClaimsInv
<1>5. QED  BY <1>1, <1>2, <1>3, <1>4 DEF IInv

\* The invariant holds, on which the two theorems below rest: for any files, names,
\* handlers and takers, stops, restarts and broken connections.
THEOREM ForwardInvariant == Spec => []IInv
<1>1. Init => IInv  BY ForwardInvInit, FolderAssumption
<1>2. IInv /\ [Next]_vars => IInv'  BY ForwardInvNext, FolderAssumption
<1>3. QED  BY <1>1, <1>2, PTL DEF Spec

\* A file whose sender heard that it is held is in the folder until it is delivered
\* or moved to failed/, unless handlers placed files at once, the node was restarted
\* in place, or a sidecar failed where another's answer was lost (Mailbox.Hold,
\* Node.handleDeliver).
THEOREM HeldFilesStay == Spec => []LossNeedsMishap
<1>1. IInv => LossNeedsMishap
  BY DEF IInv, LossNeedsMishap, Keeping, KnownStays, Known, HeldStays, TypeOK
<1>2. QED  BY <1>1, ForwardInvariant, PTL

\* A file is delivered or moved to failed/ once, and twice more at most for every
\* fault, for every node there was: whatever is overwritten, and however many takers
\* work from old listings (Node.inflight, Mailbox.Fail, Mailbox.Remove).
THEOREM CopiesAreFaults == Spec => []CopiesCountFaults
<1>1. IInv => CopiesCountFaults
  <2>1. SUFFICES ASSUME IInv, NEW f \in File
                 PROVE  ended[f] <= (1 + 2 * faults) * (1 + node)
    BY DEF CopiesCountFaults
  <2>2. TypeOK /\ ClaimsInv  BY <2>1 DEF IInv, ClaimsInv
  <2>3. IsFiniteSet(Names(f)) /\ ended[f] + EndsToCome(f) <= (1 + 2 * faults) * (1 + node)
    BY <2>1 DEF IInv, EndsBounded
  <2>4. EndsToCome(f) \in Nat /\ ended[f] \in Nat
    BY <2>2, <2>3, FolderAssumption, EndsKnown DEF TypeOK
  <2>5. faults \in Nat /\ node \in Nat /\ (1 + 2 * faults) * (1 + node) \in Nat
    BY <2>2 DEF TypeOK
  <2>6. QED  BY <2>3, <2>4, <2>5
<1>2. QED  BY <1>1, ForwardInvariant, PTL
=============================================================================
