-------------------------- MODULE Settings_proofs ---------------------------
(***************************************************************************)
(* For any number of commands and forms, whatever they change, and with    *)
(* failures at any time: a configuration that can be loaded is lost only   *)
(* to saves that overlap, a save that is alone tells the truth, turns keep *)
(* one another's changes, and no restart is missed.                        *)
(***************************************************************************)
EXTENDS Settings, TLAPS

\* What a writer may be is kept by loading, stopping and saving.
LEMMA DoingKept ==
    ASSUME TypeOK, NEW w \in Writer
    PROVE  /\ writer[w] \in Doing /\ Nobody \in Doing
           /\ Readable => Loaded \in Doing
           /\ \A p \in {"done", "failed", "saved"} : Stopped(p) \in Doing
           /\ \A ok \in BOOLEAN : AfterSave(w, ok) \in Doing
           /\ Outdated(w) \in Doing /\ Killed(w) \in Doing
<1>1. writer[w] \in Doing
  BY DEF TypeOK
<1>2. Nobody \in Doing
  BY DEF Nobody, Doing
<1>3. Readable => Loaded \in Doing
  BY DEF Loaded, Nobody, Doing, TypeOK, Readable, Now
<1>4. \A p \in {"done", "failed", "saved"} : Stopped(p) \in Doing
  BY DEF Stopped, Nobody, Doing
<1>5. \A ok \in BOOLEAN : AfterSave(w, ok) \in Doing
  BY <1>1, <1>4 DEF AfterSave, Doing
<1>6. Outdated(w) \in Doing
  BY <1>1 DEF Outdated, Doing
<1>7. Killed(w) \in Doing
  BY <1>1, <1>2, <1>4 DEF Killed
<1> QED BY <1>1, <1>2, <1>3, <1>4, <1>5, <1>6, <1>7

\* The temporary file is not the one that config.json names.
LEMMA TmpFileType ==
    ASSUME TypeOK, NEW w \in Writer, NEW copy \in SUBSET Item, Open(w, copy)
    PROVE  /\ TmpFile \in Inode
           /\ tmp = None => TmpFile # config /\ \A u \in Writer : writer[u].file # TmpFile
BY SettingsAssumption DEF Open, TmpFile, Unused, TypeOK

\* When a save has ended the writer is not saving.
LEMMA AfterSaveIdle ==
    ASSUME TypeOK, NEW w \in Writer, NEW ok \in BOOLEAN
    PROVE  AfterSave(w, ok).pc \notin {"opened", "written"} /\ AfterSave(w, ok).file = None
<1>1. writer[w] \in Doing
  BY DEF TypeOK
<1> QED BY <1>1 DEF AfterSave, Stopped, Nobody, Doing

\* What is said of one writer holds of all when the others stay as they are.
LEMMA OneWriter ==
    ASSUME TypeOK, NEW w \in Writer, NEW d \in Doing,
           d.pc \in {"opened", "written"} => d.file \in Inode,
           writer' = [writer EXCEPT ![w] = d]
    PROVE  /\ writer' \in [Writer -> Doing]
           /\ \A u \in Writer : Saving(u)' => writer'[u].file \in Inode
           /\ writer'[w] = d /\ \A u \in Writer \ {w} : writer'[u] = writer[u]
<1>1. writer \in [Writer -> Doing]
  BY DEF TypeOK
<1>2. writer' \in [Writer -> Doing] /\ writer'[w] = d
      /\ \A u \in Writer \ {w} : writer'[u] = writer[u]
  BY <1>1
<1>3. ASSUME NEW u \in Writer, Saving(u)' PROVE writer'[u].file \in Inode
  <2>1. CASE u = w
    BY <1>2, <1>3, <2>1 DEF Saving
  <2>2. CASE u # w
    BY <1>2, <1>3, <2>2 DEF Saving, TypeOK
  <2> QED BY <2>1, <2>2
<1> QED BY <1>2, <1>3

\* The states a save goes through.
LEMMA Phases ==
    ASSUME TypeOK, NEW w \in Writer, NEW copy \in SUBSET Item, NEW i \in Inode, NEW b \in BOOLEAN
    PROVE  /\ [writer[w] EXCEPT !.pc = "opened", !.copy = copy, !.file = i, !.alone = b] \in Doing
           /\ [writer[w] EXCEPT !.alone = FALSE] \in Doing
           /\ \A p \in {"failed", "done", "written"} : [writer[w] EXCEPT !.pc = p] \in Doing
BY DEF TypeOK, Doing

\* Beginning a save keeps the types.
LEMMA OpenType ==
    ASSUME TypeOK, NEW w \in Writer, NEW copy \in SUBSET Item, Open(w, copy)
    PROVE  /\ tmp' \in Inode /\ content' \in [Inode -> Broken \cup SUBSET Item]
           /\ writer' \in [Writer -> Doing] /\ overlapped' \in BOOLEAN /\ config' \in Inode
           /\ \A u \in Writer : Saving(u)' => writer'[u].file \in Inode
<1>1. TmpFile \in Inode
  BY TmpFileType
<1> DEFINE others == {v \in Writer \ {w} : Saving(v)}
           mine == [writer[w] EXCEPT !.pc = "opened", !.copy = copy, !.file = TmpFile,
                                     !.alone = others = {}]
           theirs(v) == [writer[v] EXCEPT !.alone = FALSE]
<1>2. mine \in Doing /\ \A v \in Writer : theirs(v) \in Doing
  BY <1>1, Phases
<1>3. mine.file = TmpFile /\ \A v \in Writer : theirs(v).file = writer[v].file
                                              /\ theirs(v).pc = writer[v].pc
  BY DEF TypeOK, Doing
<1>4. writer' = [v \in Writer |-> IF v = w THEN mine
                                  ELSE IF v \in others THEN theirs(v) ELSE writer[v]]
  BY DEF Open
<1> HIDE DEF mine, theirs
<1>5. writer' \in [Writer -> Doing]
  BY <1>2, <1>4 DEF TypeOK
<1>6. \A u \in Writer : Saving(u)' => writer'[u].file \in Inode
  BY <1>1, <1>3, <1>4 DEF Saving, TypeOK
<1>7. content' \in [Inode -> Broken \cup SUBSET Item]
  BY <1>1 DEF Open, TypeOK, Broken
<1> QED BY <1>1, <1>5, <1>6, <1>7 DEF Open, TypeOK

\* The types are kept by every step.
LEMMA TypeStep == ASSUME TypeOK, [Next]_vars PROVE TypeOK'
<1> USE SettingsAssumption DEF fvars, Node, Writer
<1>1. ASSUME NEW c \in Command, Load(c) PROVE TypeOK'
  <2>1. CASE Readable /\ writer' = [writer EXCEPT ![c] = Loaded]
    <3>1. Loaded.pc = "ready"
      BY DEF Loaded, Nobody
    <3> QED BY <1>1, <2>1, <3>1, DoingKept, OneWriter DEF Load, TypeOK
  <2>2. CASE writer' = [writer EXCEPT ![c].pc = "failed"]
    <3>1. [writer[c] EXCEPT !.pc = "failed"] \in Doing
      BY Phases
    <3>2. [writer[c] EXCEPT !.pc = "failed"].pc = "failed"
      BY DoingKept DEF Doing
    <3>3. writer' = [writer EXCEPT ![c] = [writer[c] EXCEPT !.pc = "failed"]]
      BY <2>2
    <3> QED BY <1>1, <3>1, <3>2, <3>3, OneWriter DEF Load, TypeOK
  <2> QED BY <1>1, <2>1, <2>2 DEF Load
<1>2. ASSUME NEW c \in Command, Change(c) PROVE TypeOK'
  <2>1. (writer[c].copy \ Removes[c]) \cup Adds[c] \in SUBSET Item
    BY DoingKept DEF Doing
  <2> QED BY <1>2, <2>1, OpenType DEF Change, Edited, TypeOK
<1>3. ASSUME NEW c \in Command, AskRestart(c) PROVE TypeOK'
  <2>1. [writer[c] EXCEPT !.pc = "done"] \in Doing
    BY <1>3, Phases
  <2>3. [writer[c] EXCEPT !.pc = "done"].pc = "done"
    BY <1>3, DoingKept DEF Doing
  <2>2. writer' = [writer EXCEPT ![c] = [writer[c] EXCEPT !.pc = "done"]]
    BY <1>3 DEF AskRestart
  <2> QED BY <1>3, <2>1, <2>2, <2>3, OneWriter DEF AskRestart, TypeOK
<1>4. ASSUME NEW c \in Command, FormRefused(c) PROVE TypeOK'
  <2>1. Stopped("failed").pc = "failed"
    BY DEF Stopped, Nobody
  <2> QED BY <1>4, <2>1, DoingKept, OneWriter DEF FormRefused, TypeOK
<1>5. ASSUME NEW c \in Command, KillCommand(c) PROVE TypeOK'
  <2>1. Stopped("failed").pc = "failed"
    BY DEF Stopped, Nobody
  <2>2. events' \in Nat
    BY <1>5 DEF KillCommand, TypeOK
  <2>3. /\ writer' \in [Writer -> Doing]
        /\ \A u \in Writer : Saving(u)' => writer'[u].file \in Inode
    BY <1>5, <2>1, DoingKept, OneWriter DEF KillCommand
  <2> QED BY <1>5, <2>2, <2>3 DEF KillCommand, TypeOK
<1>6. ASSUME NEW g \in Node, NEW s \in Taught, Learn(g, s) PROVE TypeOK'
  <2>1. writer[g].copy \cup {s} \in SUBSET Item
    BY DoingKept DEF Doing
  <2> QED BY <1>6, <2>1, OpenType DEF Learn, TypeOK
<1>7. ASSUME NEW w \in Writer, Write(w) PROVE TypeOK'
  <2>1. writer[w] \in Doing /\ writer[w].file \in Inode
    BY <1>7, DoingKept DEF Write, TypeOK, Saving
  <2>2. writer' \in [Writer -> Doing]
    BY <1>7, <2>1 DEF Write, TypeOK, Doing
  <2>3. content' \in [Inode -> Broken \cup SUBSET Item]
    BY <1>7, <2>1 DEF Write, TypeOK, Broken, Doing
  <2> QED BY <1>7, <2>1, <2>2, <2>3 DEF Write, TypeOK, Saving
<1>8. ASSUME NEW w \in Writer, WriteFails(w) PROVE TypeOK'
  <2>1. writer[w] \in Doing /\ writer[w].file \in Inode
    BY <1>8, DoingKept DEF WriteFails, TypeOK, Saving
  <2>2. writer' \in [Writer -> Doing] /\ \A u \in Writer : Saving(u)' => writer'[u].file \in Inode
    BY <1>8, DoingKept, AfterSaveIdle, OneWriter DEF WriteFails
  <2>3. content' \in [Inode -> Broken \cup SUBSET Item]
    BY <1>8, <2>1 DEF WriteFails, TypeOK, Broken
  <2>4. missing' \subseteq Item /\ events' \in Nat
    BY <1>8, <2>1 DEF WriteFails, TypeOK, Doing
  <2> QED BY <1>8, <2>2, <2>3, <2>4 DEF WriteFails, TypeOK, Saving
<1>9. ASSUME NEW w \in Writer, Rename(w) PROVE TypeOK'
  <2>1. CASE tmp # None /\ Install(w)
    <3>1. writer' \in [Writer -> Doing]
      BY <2>1, DoingKept DEF Install
    <3>2. ASSUME NEW u \in Writer, Saving(u)' PROVE writer'[u].file \in Inode
      <4>1. u # w
        BY <2>1, <3>2, AfterSaveIdle DEF Install, Saving
      <4>2. writer'[u] = Outdated(u)
        BY <2>1, <4>1 DEF Install
      <4>3. Outdated(u).pc = writer[u].pc /\ Outdated(u).file = writer[u].file
        BY DoingKept DEF Outdated, Doing
      <4> QED BY <3>2, <4>2, <4>3 DEF Saving, TypeOK
    <3>3. content' \in [Inode -> Broken \cup SUBSET Item]
      BY <2>1 DEF Install, TypeOK, Broken
    <3>4. missing' \subseteq Item
      BY <2>1 DEF Install, Items, TypeOK, Now
    <3> QED BY <1>9, <2>1, <3>1, <3>2, <3>3, <3>4 DEF Install, Rename, TypeOK
  <2>2. CASE tmp = None /\ writer' = [writer EXCEPT ![w] = AfterSave(w, FALSE)]
             /\ UNCHANGED <<fvars, missing, unread>>
    BY <1>9, <2>2, DoingKept, AfterSaveIdle, OneWriter DEF Rename, TypeOK
  <2> QED BY <1>9, <2>1, <2>2 DEF Rename
<1>10. ASSUME Ended, events' \in Nat PROVE TypeOK'
  BY <1>10, DoingKept DEF Ended, TypeOK, Saving, Killed, Stopped, Nobody
<1>11. CASE LoadNode
  <2>1. writer' \in [Writer -> Doing]
    BY <1>11, DoingKept DEF LoadNode, TypeOK
  <2>2. \A u \in Writer : Saving(u)' => writer'[u].file \in Inode
    BY <1>11, DoingKept DEF LoadNode, TypeOK, Saving, Loaded, Nobody
  <2> QED BY <1>11, <2>1, <2>2 DEF LoadNode, TypeOK
<1>12. CASE PressRestart \/ Start \/ TakeRestart \/ Wait
  <2>1. UNCHANGED <<fvars, writer, unread, overlapped, missing>>
    BY <1>12 DEF PressRestart, Start, TakeRestart, Wait
  <2>2. \A u \in Writer : Saving(u)' <=> Saving(u)
    BY <2>1 DEF Saving
  <2>3. events' \in Nat
    BY <1>12 DEF PressRestart, Start, TakeRestart, Wait, TypeOK
  <2>4. asked' \in BOOLEAN
    BY <1>12 DEF PressRestart, Start, TakeRestart, Wait, TypeOK
  <2>5. run' \in {"down", "loading", "starting", "running"}
    BY <1>12 DEF PressRestart, Start, TakeRestart, Wait, TypeOK
  <2> QED BY <2>1, <2>2, <2>3, <2>4, <2>5 DEF TypeOK
<1>13. CASE CannotLoad \/ Kill
  BY <1>10, <1>13 DEF CannotLoad, Kill, TypeOK
<1>14. CASE UNCHANGED vars
  BY <1>14 DEF vars, TypeOK, Saving
<1> QED
  BY <1>1, <1>2, <1>3, <1>4, <1>5, <1>6, <1>7, <1>8, <1>9, <1>11, <1>12, <1>13, <1>14
  DEF Next, SaveStep

LEMMA TypeInit == Init => TypeOK
<1> SUFFICES ASSUME Init PROVE TypeOK
  OBVIOUS
<1>1. Nobody \in Doing /\ Nobody.pc = "idle"
  BY DEF Nobody, Doing
<1>2. \A w \in Writer : writer[w] = Nobody
  BY DEF Init
<1>3. content \in [Inode -> Broken \cup SUBSET Item]
  BY SettingsAssumption DEF Init, Broken
<1> QED BY <1>1, <1>2, <1>3 DEF Init, TypeOK, Saving

\* Every reachable state has the types of TypeOK.
THEOREM SettingsTypeCorrect == Spec => []TypeOK
BY TypeInit, TypeStep, PTL DEF Spec

-----------------------------------------------------------------------------
\* A save that is alone has the temporary file to itself.
LEMMA AloneHasTmp ==
    ASSUME TypeOK, IInv, NEW w \in Writer, Saving(w), writer[w].alone \/ ~overlapped
    PROVE  Sound(w) /\ tmp \in Inode /\ tmp # config /\ writer[w].alone
BY DEF IInv, AloneIsSound, OverlapSeen, FilesOpen, Sound, TypeOK

\* Steps that leave the files alone, and of each writer either leave it, stop
\* it, or have a command load the file.
Stops(w) == /\ writer'[w].pc \notin {"ready", "opened", "written"}
            /\ writer'[w].file = None /\ (w \in Node => writer'[w].copy = {})
Quiet ==
    /\ UNCHANGED <<fvars, overlapped, missing>>
    /\ \A w \in Writer : \/ writer'[w] = writer[w]
                         \/ Stops(w)
                         \/ w \in Command /\ Readable /\ writer'[w] = Loaded

\* What the invariant says of files and copies.
FilesInv == /\ tmp # config /\ FilesOpen /\ AloneIsSound /\ OverlapSeen /\ NeverTorn
            /\ CopiesFresh /\ LearnedIsSaved

\* Quiet steps keep it.
LEMMA QuietKeeps == ASSUME TypeOK, IInv, Quiet PROVE FilesInv'
<1>1. Loaded.pc = "ready" /\ Loaded.file = None /\ Loaded.copy = Now
  BY DEF Loaded, Nobody
<1>2. \A w \in Writer : Saving(w)' => writer'[w] = writer[w] /\ Saving(w)
  BY <1>1 DEF Quiet, Stops, Saving
<1>3. FilesOpen'
  BY <1>1 DEF Quiet, Stops, Saving, IInv, FilesOpen
<1>4. AloneIsSound'
  BY <1>2 DEF Quiet, IInv, AloneIsSound, Sound, fvars
<1>5. OverlapSeen'
  BY <1>2 DEF Quiet, IInv, OverlapSeen
<1>6. (tmp # config)' /\ NeverTorn'
  BY DEF Quiet, IInv, NeverTorn, Readable, Now, fvars
<1>7. CopiesFresh'
  <2> SUFFICES ASSUME ~overlapped, NEW w \in Writer, Changing(w)', ~writer'[w].stale
               PROVE  Kept(w) \subseteq writer'[w].copy
    BY DEF CopiesFresh, Quiet, Kept, Items, Now, fvars
  <2>1. CASE writer'[w] = writer[w]
    BY <2>1 DEF IInv, CopiesFresh, Changing
  <2>2. CASE Readable /\ writer'[w] = Loaded
    BY <1>1, <2>2 DEF Kept, Items, Readable
  <2> QED BY <2>1, <2>2 DEF Quiet, Stops, Changing
<1>8. LearnedIsSaved'
  <2>1. New \in Writer /\ New \notin Command /\ New \in Node
    BY SettingsAssumption DEF Writer, Node
  <2>2. CASE writer'[New] = writer[New]
    BY <2>2 DEF Quiet, IInv, LearnedIsSaved, Saving, Now, fvars
  <2>3. CASE Stops(New)
    BY <2>1, <2>3 DEF Stops, LearnedIsSaved
  <2> QED BY <2>1, <2>2, <2>3 DEF Quiet
<1> QED BY <1>3, <1>4, <1>5, <1>6, <1>7, <1>8 DEF FilesInv

\* The steps of commands and forms that are not saves, and those of the loop
\* of amail run that do not load, are quiet.
LEMMA QuietSteps ==
    ASSUME TypeOK, IInv,
           \/ \E c \in Command : Load(c) \/ AskRestart(c) \/ FormRefused(c) \/ KillCommand(c)
           \/ PressRestart \/ Start \/ TakeRestart \/ Wait \/ CannotLoad \/ Kill
           \/ UNCHANGED vars
    PROVE  Quiet
<1>1. \A w \in Writer : writer[w] \in Doing /\ (~Saving(w) => writer[w].file = None)
  BY DEF TypeOK, IInv, FilesOpen
<1>2. /\ \A p \in {"done", "failed"} : Stopped(p).pc = p /\ Stopped(p).file = None
      /\ Nobody.pc = "idle" /\ Nobody.file = None /\ Nobody.copy = {}
  BY DEF Stopped, Nobody
<1>3. Node \cap Command = {}
  BY SettingsAssumption
<1>4. ASSUME NEW c \in Command, Load(c) PROVE Quiet
  <2>1. c \in Writer /\ c \notin Node /\ UNCHANGED <<fvars, overlapped, missing>>
        /\ \A w \in Writer \ {c} : writer'[w] = writer[w]
    BY <1>3, <1>4 DEF Load, Writer, TypeOK
  <2>2. CASE Readable /\ writer' = [writer EXCEPT ![c] = Loaded]
    BY <2>1, <2>2 DEF Quiet, TypeOK
  <2>3. CASE writer' = [writer EXCEPT ![c].pc = "failed"]
    <3>1. writer'[c].pc = "failed" /\ writer'[c].file = writer[c].file
      BY <1>1, <2>1, <2>3 DEF TypeOK, Doing
    <3>2. Stops(c)
      BY <1>1, <1>4, <2>1, <3>1 DEF Stops, Load, Saving
    <3> QED BY <2>1, <3>2 DEF Quiet
  <2> QED BY <1>4, <2>2, <2>3 DEF Load
<1>5. ASSUME NEW c \in Command, AskRestart(c) PROVE Quiet
  <2>1. c \in Writer /\ c \notin Node /\ UNCHANGED <<fvars, overlapped, missing>>
        /\ \A w \in Writer \ {c} : writer'[w] = writer[w]
    BY <1>3, <1>5 DEF AskRestart, Writer, TypeOK
  <2>2. writer'[c].pc = "done" /\ writer'[c].file = writer[c].file
    BY <1>1, <1>5, <2>1 DEF AskRestart, TypeOK, Doing
  <2>3. Stops(c)
    BY <1>1, <1>5, <2>1, <2>2 DEF Stops, AskRestart, Saving
  <2> QED BY <2>1, <2>3 DEF Quiet
<1>6. ASSUME NEW c \in Command, FormRefused(c) \/ KillCommand(c) PROVE Quiet
  <2>1. c \in Writer /\ c \notin Node /\ UNCHANGED <<fvars, overlapped, missing>>
        /\ writer' = [writer EXCEPT ![c] = Stopped("failed")]
    BY <1>3, <1>6 DEF FormRefused, KillCommand, Writer
  <2>2. writer'[c] = Stopped("failed") /\ \A w \in Writer \ {c} : writer'[w] = writer[w]
    BY <2>1 DEF TypeOK
  <2>3. Stops(c)
    BY <1>2, <2>1, <2>2 DEF Stops
  <2> QED BY <2>1, <2>2, <2>3 DEF Quiet
<1>7. ASSUME Ended PROVE Quiet
  <2>1. \A w \in Writer : writer'[w] = Killed(w)
    BY <1>7 DEF Ended
  <2>2. \A w \in Writer : Killed(w) = writer[w] \/ (w \in Node /\ Killed(w) = Nobody)
                          \/ (w \notin Node /\ Killed(w) = Stopped("failed"))
    BY DEF Killed
  <2> QED BY <1>2, <1>7, <2>1, <2>2 DEF Quiet, Stops, Ended
<1>8. CASE PressRestart \/ Start \/ TakeRestart \/ Wait \/ UNCHANGED vars
  BY <1>8 DEF Quiet, PressRestart, Start, TakeRestart, Wait, vars
<1> QED BY <1>4, <1>5, <1>6, <1>7, <1>8 DEF CannotLoad, Kill

\* Beginning a save: alone when nobody else is saving, and then the temporary
\* file is its own and empty.
LEMMA OpenKeeps ==
    ASSUME TypeOK, IInv, NEW w \in Writer, ~Saving(w), NEW copy \in SUBSET Item, Open(w, copy),
           w \in Node => writer[w].pc = "ready" /\ writer[w].copy \subseteq copy,
           ~writer[w].stale /\ ~overlapped => Kept(w) \subseteq copy,
           missing' = missing
    PROVE  FilesInv'
<1> DEFINE others == {v \in Writer \ {w} : Saving(v)}
<1>1. /\ TmpFile \in Inode /\ tmp' = TmpFile /\ tmp' # config /\ config' = config
      /\ content' = [content EXCEPT ![TmpFile] = Empty] /\ tmp' # None
  <2>1. TmpFile \in Inode /\ TmpFile # config
    <3>1. CASE tmp = None
      BY <3>1, TmpFileType
    <3>2. CASE tmp # None
      BY <3>2, TmpFileType DEF TmpFile, IInv
    <3> QED BY <3>1, <3>2
  <2> QED BY <2>1, SettingsAssumption DEF Open
<1>2. writer[w] \in Doing /\ \A v \in Writer : writer[v] \in Doing
  BY DEF TypeOK
<1>3. /\ writer'[w].pc = "opened" /\ writer'[w].copy = copy /\ writer'[w].file = tmp'
      /\ writer'[w].alone = (others = {}) /\ writer'[w].stale = writer[w].stale
  BY <1>1, <1>2 DEF Open, Doing
<1>4. \A v \in Writer \ {w} :
         /\ writer'[v].pc = writer[v].pc /\ writer'[v].copy = writer[v].copy
         /\ writer'[v].file = writer[v].file /\ writer'[v].stale = writer[v].stale
         /\ Saving(v) => ~writer'[v].alone
  BY <1>2 DEF Open, Doing
<1>5. Now' = Now
  BY <1>1 DEF Now, TypeOK
<1>6. overlapped' = (overlapped \/ others # {})
  BY DEF Open
<1>7. FilesOpen'
  BY <1>1, <1>3, <1>4 DEF FilesOpen, IInv, Saving
<1>8. AloneIsSound'
  <2> SUFFICES ASSUME NEW v \in Writer, Saving(v)', writer'[v].alone PROVE Sound(v)'
    BY DEF AloneIsSound
  <2>1. v = w /\ others = {}
    BY <1>3, <1>4 DEF Saving
  <2>2. \A u \in Writer : Saving(u)' => u = w
    BY <1>4, <2>1 DEF Saving
  <2>3. content'[tmp'] = Empty
    BY <1>1 DEF TypeOK
  <2> QED BY <1>3, <2>1, <2>2, <2>3 DEF Sound
<1>9. OverlapSeen'
  BY <1>3, <1>4, <1>6 DEF OverlapSeen, Saving
<1>10. NeverTorn' /\ (tmp # config)'
  BY <1>1, <1>5, <1>6 DEF IInv, NeverTorn, Readable
<1>11. CopiesFresh'
  <2> SUFFICES ASSUME ~overlapped, NEW v \in Writer, Changing(v)', ~writer'[v].stale
               PROVE  Kept(v)' \subseteq writer'[v].copy
    BY <1>6 DEF CopiesFresh
  <2>1. Kept(v)' = Kept(v)
    BY <1>5 DEF Kept
  <2>2. CASE v = w
    BY <1>3, <2>1, <2>2
  <2>3. CASE v # w
    BY <1>4, <2>1, <2>3 DEF Changing, IInv, CopiesFresh
  <2> QED BY <2>2, <2>3
<1>12. LearnedIsSaved'
  <2>1. New \in Writer
    BY DEF Writer, Node
  <2>2. CASE New = w
    BY <1>3, <2>2 DEF LearnedIsSaved, Saving
  <2>3. CASE New # w
    BY <1>4, <1>5, <1>6, <2>1, <2>3 DEF LearnedIsSaved, Saving, IInv
  <2> QED BY <2>2, <2>3
<1> QED BY <1>7, <1>8, <1>9, <1>10, <1>11, <1>12 DEF FilesInv

\* Writing: what a writer that is alone writes is its copy.
LEMMA WriteKeeps == ASSUME TypeOK, IInv, NEW w \in Writer, Write(w) PROVE FilesInv'
<1>1. /\ Saving(w) /\ writer[w].file \in Inode /\ UNCHANGED <<config, tmp, overlapped, missing>>
      /\ writer' = [writer EXCEPT ![w].pc = "written"]
  BY DEF Write, Saving, TypeOK
<1>2. \A v \in Writer : writer[v] \in Doing
  BY DEF TypeOK
<1>3. /\ writer'[w].pc = "written"
      /\ \A v \in Writer : /\ writer'[v].copy = writer[v].copy /\ writer'[v].file = writer[v].file
                           /\ writer'[v].stale = writer[v].stale
                           /\ writer'[v].alone = writer[v].alone
                           /\ v # w => writer'[v] = writer[v]
  BY <1>1, <1>2 DEF Doing, TypeOK
<1>4. \A v \in Writer : Saving(v)' <=> Saving(v)
  BY <1>1, <1>3 DEF Saving
<1>5. writer[w].alone => content'[tmp'] = writer[w].copy
  <2> SUFFICES ASSUME writer[w].alone PROVE content'[tmp'] = writer[w].copy
    OBVIOUS
  <2>1. Sound(w) /\ writer[w].pc = "opened" /\ tmp \in Inode
    BY <1>1, AloneHasTmp DEF Write
  <2>2. content[writer[w].file] = Empty
    BY <2>1 DEF Sound
  <2>3. content' = [content EXCEPT ![writer[w].file] = writer[w].copy]
    BY <2>2 DEF Write
  <2> QED BY <1>1, <2>1, <2>3 DEF Sound, TypeOK
<1>6. overlapped \/ Now' = Now
  <2>1. overlapped \/ writer[w].file # config
    BY <1>1, AloneHasTmp DEF Sound
  <2> QED BY <1>1, <2>1 DEF Write, Now, TypeOK
<1>7. FilesOpen'
  BY <1>3, <1>4 DEF IInv, FilesOpen
<1>8. AloneIsSound'
  <2> SUFFICES ASSUME NEW v \in Writer, Saving(v)', writer'[v].alone PROVE Sound(v)'
    BY DEF AloneIsSound
  <2>1. Sound(v)
    BY <1>3, <1>4 DEF IInv, AloneIsSound
  <2>2. v = w
    BY <1>1, <2>1 DEF Sound
  <2> QED BY <1>1, <1>3, <1>4, <1>5, <2>1, <2>2 DEF Sound
<1>9. OverlapSeen' /\ (tmp # config)' /\ NeverTorn'
  BY <1>1, <1>3, <1>4, <1>6 DEF IInv, OverlapSeen, NeverTorn, Readable
<1>10. CopiesFresh'
  <2>1. \A v \in Writer : (Changing(v)' <=> Changing(v)) /\ (overlapped \/ Kept(v)' = Kept(v))
    BY <1>1, <1>3, <1>6 DEF Changing, Saving, Kept
  <2> QED BY <1>1, <1>3, <2>1 DEF IInv, CopiesFresh
<1>11. LearnedIsSaved'
  <2>1. New \in Writer
    BY DEF Writer, Node
  <2> QED BY <1>1, <1>3, <1>4, <1>6, <2>1 DEF IInv, LearnedIsSaved
<1> QED BY <1>7, <1>8, <1>9, <1>10, <1>11 DEF FilesInv

\* What is left of a writer when its save has ended.
LEMMA AfterSaveIs ==
    ASSUME TypeOK, NEW w \in Writer, Saving(w), NEW ok \in BOOLEAN
    PROVE  /\ ~(AfterSave(w, ok).pc \in {"opened", "written"}) /\ AfterSave(w, ok).file = None
           /\ w \in Node => /\ AfterSave(w, ok).copy = writer[w].copy
                            /\ AfterSave(w, ok).stale = (writer[w].stale /\ ~ok)
           /\ w \notin Node => AfterSave(w, ok).pc # "ready"
<1>1. writer[w] \in Doing
  BY DEF TypeOK
<1> QED BY <1>1 DEF AfterSave, Stopped, Nobody, Doing

\* A save that fails leaves config.json alone unless another overlaps, and only
\* a node remembers what could not be put there.
LEMMA FailKeeps ==
    ASSUME TypeOK, IInv, NEW w \in Writer, Saving(w),
           UNCHANGED <<config, tmp, overlapped>>, content' \in [Inode -> Broken \cup SUBSET Item],
           \A i \in Inode \ {writer[w].file} : content'[i] = content[i],
           writer' = [writer EXCEPT ![w] = AfterSave(w, FALSE)],
           missing \subseteq missing',
           ~overlapped /\ w \in Node => writer[w].copy \ Items(Now) \subseteq missing'
    PROVE  FilesInv'
<1>1. writer'[w] = AfterSave(w, FALSE) /\ \A v \in Writer \ {w} : writer'[v] = writer[v]
  BY DEF TypeOK
<1>2. \A v \in Writer : Saving(v)' => v # w /\ Saving(v)
  BY <1>1, AfterSaveIs DEF Saving
<1>3. overlapped \/ Now' = Now
  <2>1. overlapped \/ writer[w].file # config
    BY AloneHasTmp DEF Sound
  <2> QED BY <2>1 DEF Now, TypeOK
<1>4. FilesOpen'
  BY <1>1, AfterSaveIs DEF IInv, FilesOpen, Saving
<1>5. AloneIsSound' /\ OverlapSeen'
  <2>1. \A v \in Writer : Saving(v)' => ~writer'[v].alone
    BY <1>1, <1>2, AloneHasTmp DEF Sound
  <2>2. overlapped \/ \A v \in Writer : ~Saving(v)'
    BY <1>1, <1>2, <2>1 DEF IInv, OverlapSeen
  <2> QED BY <2>1, <2>2 DEF AloneIsSound, OverlapSeen
<1>6. (tmp # config)' /\ NeverTorn'
  BY <1>3 DEF IInv, NeverTorn, Readable
<1>7. CopiesFresh'
  <2> SUFFICES ASSUME ~overlapped, NEW v \in Writer, Changing(v)', ~writer'[v].stale
               PROVE  Kept(v)' \subseteq writer'[v].copy
    BY DEF CopiesFresh
  <2>1. Kept(v)' = Kept(v)
    BY <1>3 DEF Kept
  <2>2. CASE v = w
    <3>1. w \in Node
      BY <1>1, <2>2, AfterSaveIs DEF Changing
    <3> QED BY <1>1, <2>1, <2>2, <3>1, AfterSaveIs DEF IInv, CopiesFresh, Changing, Saving
  <2>3. CASE v # w
    BY <1>1, <2>1, <2>3 DEF IInv, CopiesFresh, Changing
  <2> QED BY <2>2, <2>3
<1>8. LearnedIsSaved'
  <2>1. New \in Writer /\ New \in Node
    BY DEF Writer, Node
  <2> SUFFICES ASSUME ~overlapped, ~Saving(New)'
               PROVE  writer'[New].copy \cap Taught \subseteq Items(Now)' \cup missing'
    BY DEF LearnedIsSaved
  <2>2. CASE New = w
    BY <1>1, <1>3, <2>1, <2>2, AfterSaveIs
  <2>3. CASE New # w
    BY <1>1, <1>3, <2>1, <2>3 DEF IInv, LearnedIsSaved, Saving
  <2> QED BY <2>2, <2>3
<1> QED BY <1>4, <1>5, <1>6, <1>7, <1>8 DEF FilesInv

\* A rename by a writer that was alone puts its copy in config.json, and the
\* copies of the others are outdated; otherwise saves have overlapped.
LEMMA InstallKeeps ==
    ASSUME TypeOK, IInv, NEW w \in Writer, writer[w].pc = "written", tmp # None, Install(w),
           UNCHANGED overlapped
    PROVE  FilesInv'
<1>1. /\ config' = tmp /\ tmp' = None /\ tmp \in Inode /\ tmp # config
      /\ writer'[w] = AfterSave(w, TRUE)
      /\ \A v \in Writer \ {w} : writer'[v] = Outdated(v)
      /\ missing' = (missing \ Items(content[tmp])) \cup (Items(Now) \ Items(content[tmp]))
  BY DEF Install, TypeOK, IInv
<1>2. Saving(w)
  BY DEF Saving
<1>3. Now' = content[tmp]
  BY <1>1 DEF Install, Now, TypeOK
<1>4. overlapped \/ Now' = writer[w].copy
  BY <1>2, <1>3, AloneHasTmp DEF Sound
<1>5. \A v \in Writer :
         /\ Outdated(v).pc = writer[v].pc /\ Outdated(v).file = writer[v].file
         /\ Outdated(v).alone = writer[v].alone /\ Outdated(v).copy = writer[v].copy
         /\ Changing(v) => Outdated(v).stale
  BY DEF Outdated, TypeOK, Doing, Changing
<1>6. \A v \in Writer : Saving(v)' => v # w /\ Saving(v)
  BY <1>1, <1>2, <1>5, AfterSaveIs DEF Saving
<1>7. FilesOpen'
  <2> SUFFICES ASSUME NEW v \in Writer PROVE Saving(v)' <=> writer'[v].file # None
    BY DEF FilesOpen
  <2>1. CASE v = w
    BY <1>1, <1>2, <2>1, AfterSaveIs DEF Saving
  <2>2. CASE v # w
    BY <1>1, <1>5, <2>2 DEF IInv, FilesOpen, Saving
  <2> QED BY <2>1, <2>2
<1>8. AloneIsSound' /\ OverlapSeen'
  <2>1. \A v \in Writer : Saving(v)' => ~writer'[v].alone
    BY <1>1, <1>2, <1>5, <1>6, AloneHasTmp DEF Sound
  <2>2. overlapped \/ \A v \in Writer : ~Saving(v)'
    BY <1>1, <1>5, <1>6, <2>1 DEF IInv, OverlapSeen
  <2> QED BY <2>1, <2>2 DEF AloneIsSound, OverlapSeen
<1>9. (tmp # config)' /\ NeverTorn'
  <2>1. tmp' # config'
    BY <1>1, SettingsAssumption
  <2>2. writer[w].copy \notin Broken
    BY SettingsAssumption DEF TypeOK, Doing
  <2> QED BY <1>4, <2>1, <2>2 DEF NeverTorn, Readable
<1>10. CopiesFresh'
  <2> SUFFICES ASSUME ~overlapped, NEW v \in Writer, Changing(v)', ~writer'[v].stale
               PROVE  Kept(v)' \subseteq writer'[v].copy
    BY DEF CopiesFresh
  <2>1. v = w
    BY <1>1, <1>5 DEF Changing
  <2>2. w \in Node /\ writer'[w].copy = writer[w].copy
    BY <1>1, <1>2, <2>1, AfterSaveIs DEF Changing
  <2> QED BY <1>4, <2>1, <2>2 DEF Kept, Items
<1>11. LearnedIsSaved'
  <2>1. New \in Writer /\ New \in Node
    BY DEF Writer, Node
  <2> SUFFICES ASSUME ~overlapped, ~Saving(New)'
               PROVE  writer'[New].copy \cap Taught \subseteq Items(Now') \cup missing'
    BY DEF LearnedIsSaved, Items
  <2>2. CASE New = w
    <3>1. writer[w].copy \notin Broken
      BY SettingsAssumption DEF TypeOK, Doing
    <3> QED BY <1>1, <1>2, <1>4, <2>1, <2>2, <3>1, AfterSaveIs DEF Items
  <2>3. CASE New # w
    <3>1. writer[New].copy \cap Taught \subseteq Items(Now) \cup missing
      BY <1>1, <1>5, <2>1, <2>3 DEF IInv, LearnedIsSaved, Saving
    <3> QED BY <1>1, <1>3, <1>5, <2>1, <2>3, <3>1
  <2> QED BY <2>2, <2>3
<1> QED BY <1>7, <1>8, <1>9, <1>10, <1>11 DEF FilesInv

\* A new node has what is in the file; its predecessor keeps its copy, and the
\* save it may be in the midst of.
LEMMA LoadNodeKeeps == ASSUME TypeOK, IInv, LoadNode PROVE FilesInv'
<1>1. /\ Readable /\ ~Saving(Old) /\ UNCHANGED <<config, tmp, content, overlapped, missing>>
      /\ New \in Writer /\ Old \in Writer /\ New # Old
      /\ Node \cap Command = {} /\ New \in Node /\ Old \in Node
  BY SettingsAssumption DEF LoadNode, fvars, Writer, Node
<1>2. /\ writer'[New] = Loaded /\ writer'[Old] = writer[New]
      /\ \A v \in Writer \ Node : writer'[v] = writer[v]
  BY <1>1 DEF LoadNode, TypeOK, Node
<1>3. Loaded.pc = "ready" /\ Loaded.file = None /\ Loaded.copy = Now
  BY DEF Loaded, Nobody
<1>4. \A v \in Writer : v = New \/ v = Old \/ v \in Writer \ Node
  BY DEF Node
<1>5. FilesOpen'
  BY <1>1, <1>2, <1>3, <1>4 DEF IInv, FilesOpen, Saving
<1>6. AloneIsSound'
  <2> SUFFICES ASSUME NEW v \in Writer, Saving(v)', writer'[v].alone PROVE Sound(v)'
    BY DEF AloneIsSound
  <2>1. v # New
    BY <1>2, <1>3 DEF Saving
  <2>2. CASE v = Old
    <3>1. Sound(New)
      BY <1>1, <1>2, <2>2 DEF IInv, AloneIsSound, Saving
    <3>2. ASSUME NEW u \in Writer, Saving(u)' PROVE u = Old
      BY <1>1, <1>2, <1>3, <1>4, <3>1, <3>2 DEF Sound, Saving
    <3> QED BY <1>1, <1>2, <2>2, <3>1, <3>2 DEF Sound
  <2>3. CASE v \in Writer \ Node
    <3>1. Sound(v)
      BY <1>2, <2>3 DEF IInv, AloneIsSound, Saving
    <3>2. ASSUME NEW u \in Writer, Saving(u)' PROVE u = v
      BY <1>1, <1>2, <1>3, <1>4, <2>3, <3>1, <3>2 DEF Sound, Saving
    <3> QED BY <1>1, <1>2, <2>3, <3>1, <3>2 DEF Sound
  <2> QED BY <1>4, <2>1, <2>2, <2>3
<1>7. OverlapSeen'
  BY <1>1, <1>2, <1>3, <1>4 DEF IInv, OverlapSeen, Saving
<1>8. (tmp # config)' /\ NeverTorn' /\ Now' = Now
  BY <1>1 DEF IInv, NeverTorn, Readable, Now
<1>9. CopiesFresh'
  <2> SUFFICES ASSUME ~overlapped, NEW v \in Writer, Changing(v)', ~writer'[v].stale
               PROVE  Kept(v) \subseteq writer'[v].copy
    BY <1>1, <1>8 DEF CopiesFresh, Kept
  <2>1. CASE v = New
    BY <1>1, <1>2, <1>3, <2>1 DEF Kept, Items, Readable
  <2>2. CASE v = Old
    <3>1. Kept(New) \subseteq writer[New].copy
      BY <1>1, <1>2, <2>2 DEF IInv, CopiesFresh, Changing
    <3> QED BY <1>1, <1>2, <2>2, <3>1 DEF Kept
  <2>3. CASE v \in Writer \ Node
    BY <1>2, <2>3 DEF IInv, CopiesFresh, Changing
  <2> QED BY <1>4, <2>1, <2>2, <2>3
<1>10. LearnedIsSaved'
  BY <1>1, <1>2, <1>3, <1>8 DEF LearnedIsSaved, Items, Readable
<1> QED BY <1>5, <1>6, <1>7, <1>8, <1>9, <1>10 DEF FilesInv

\* Every step keeps what is said of files and copies.
LEMMA FilesStep == ASSUME TypeOK, IInv, [Next]_vars PROVE FilesInv'
<1>1. /\ Node \subseteq Writer /\ Command \subseteq Writer /\ Node \cap Command = {}
      /\ \A w \in Writer : writer[w] \in Doing
  BY SettingsAssumption DEF TypeOK, Writer
<1>2. ASSUME NEW c \in Command, Change(c) PROVE FilesInv'
  <2> DEFINE copy == (writer[c].copy \ Removes[c]) \cup Adds[c]
  <2>1. copy \in SUBSET Item /\ ~Saving(c)
    BY <1>1, <1>2, SettingsAssumption DEF Change, Edited, Doing, Saving
  <2>2. ~writer[c].stale /\ ~overlapped => Kept(c) \subseteq copy
    BY <1>1, <1>2 DEF Change, Edited, IInv, CopiesFresh, Changing, Kept
  <2>3. Open(c, copy) /\ missing' = missing
    BY <1>2 DEF Change, Edited
  <2> QED BY <1>1, <2>1, <2>2, <2>3, OpenKeeps
<1>3. ASSUME NEW g \in Node, NEW s \in Taught, Learn(g, s) PROVE FilesInv'
  <2> DEFINE copy == writer[g].copy \cup {s}
  <2>1. copy \in SUBSET Item /\ ~Saving(g)
    BY <1>1, <1>3, SettingsAssumption DEF Learn, Doing, Saving
  <2>2. ~writer[g].stale /\ ~overlapped => Kept(g) \subseteq copy
    BY <1>1, <1>3 DEF Learn, IInv, CopiesFresh, Changing
  <2>3. Open(g, copy) /\ missing' = missing /\ writer[g].pc = "ready"
    BY <1>3 DEF Learn
  <2> QED BY <1>1, <2>1, <2>2, <2>3, OpenKeeps
<1>4. ASSUME NEW w \in Writer, WriteFails(w) PROVE FilesInv'
  <2>1. /\ Saving(w) /\ writer[w].file \in Inode /\ UNCHANGED <<config, tmp, overlapped>>
        /\ content' = [content EXCEPT ![writer[w].file] = Garbage]
        /\ writer' = [writer EXCEPT ![w] = AfterSave(w, FALSE)]
    BY <1>4 DEF WriteFails, Saving, TypeOK
  <2>2. content' \in [Inode -> Broken \cup SUBSET Item]
        /\ \A i \in Inode \ {writer[w].file} : content'[i] = content[i]
    BY <2>1 DEF TypeOK, Broken
  <2>3. missing \subseteq missing' /\ (w \in Node => writer[w].copy \ Items(Now) \subseteq missing')
    BY <1>4 DEF WriteFails
  <2> QED BY <2>1, <2>2, <2>3, FailKeeps
<1>5. ASSUME NEW w \in Writer, Rename(w) PROVE FilesInv'
  <2>1. writer[w].pc = "written" /\ Saving(w) /\ UNCHANGED overlapped
    BY <1>5 DEF Rename, Saving
  <2>2. CASE tmp # None /\ Install(w)
    BY <2>1, <2>2, InstallKeeps
  <2>3. CASE tmp = None /\ writer' = [writer EXCEPT ![w] = AfterSave(w, FALSE)]
             /\ UNCHANGED <<fvars, missing, unread>>
    <3>1. overlapped
      BY <2>1, <2>3, AloneHasTmp, SettingsAssumption
    <3> QED BY <2>1, <2>3, <3>1, FailKeeps DEF fvars, TypeOK
  <2> QED BY <1>5, <2>2, <2>3 DEF Rename
<1>6. CASE LoadNode
  BY <1>6, LoadNodeKeeps
<1>7. CASE \/ \E c \in Command : Load(c) \/ AskRestart(c) \/ FormRefused(c) \/ KillCommand(c)
           \/ PressRestart \/ Start \/ TakeRestart \/ Wait \/ CannotLoad \/ Kill
           \/ UNCHANGED vars
  BY <1>7, QuietSteps, QuietKeeps
<1> QED BY <1>2, <1>3, <1>4, <1>5, <1>6, <1>7, WriteKeeps DEF Next, SaveStep

-----------------------------------------------------------------------------
\* A form that is about to ask for a restart is not disturbed by the others.
LEMMA RestartStep == ASSUME TypeOK, IInv, [Next]_vars PROVE NoMissedRestart'
<1>1. /\ Node \subseteq Writer /\ Command \subseteq Writer /\ Node \cap Command = {}
      /\ Form \subseteq Command /\ \A w \in Writer : writer[w] \in Doing
  BY SettingsAssumption DEF TypeOK, Writer
<1> DEFINE About(c) == writer[c].pc = "saved"
<1>2. CASE UNCHANGED <<asked, run, unread>> /\ \A c \in Form : About(c) => About(c)'
  BY <1>2 DEF IInv, NoMissedRestart
<1>3. ASSUME NEW c \in Command, Load(c) \/ FormRefused(c) \/ KillCommand(c) PROVE NoMissedRestart'
  <2>1. UNCHANGED <<asked, run, unread>> /\ \A v \in Writer \ {c} : writer'[v] = writer[v]
    BY <1>1, <1>3 DEF Load, FormRefused, KillCommand, TypeOK
  <2>2. c \in Form => ~About(c)
    BY <1>3 DEF Load, FormRefused, KillCommand
  <2> QED BY <1>1, <1>2, <2>1, <2>2
<1>4. ASSUME NEW w \in Writer, ~About(w), NEW copy, Open(w, copy), UNCHANGED <<asked, run, unread>>
      PROVE  NoMissedRestart'
  <2>1. \A v \in Writer : About(v) => About(v)'
    BY <1>1, <1>4 DEF Open, Doing
  <2> QED BY <1>1, <1>2, <1>4, <2>1
<1>5. ASSUME NEW c \in Command, AskRestart(c) PROVE NoMissedRestart'
  BY <1>5 DEF AskRestart, NoMissedRestart
<1>6. ASSUME NEW w \in Writer, Write(w) \/ WriteFails(w) PROVE NoMissedRestart'
  <2>1. UNCHANGED <<asked, run, unread>> /\ ~About(w)
        /\ \A v \in Writer \ {w} : writer'[v] = writer[v]
    BY <1>6 DEF Write, WriteFails, TypeOK
  <2> QED BY <1>1, <1>2, <2>1
<1>7. ASSUME NEW w \in Writer, Rename(w) PROVE NoMissedRestart'
  <2>1. UNCHANGED <<asked, run>> /\ ~About(w)
    BY <1>7 DEF Rename
  <2>2. CASE tmp # None /\ Install(w)
    <3>1. \A v \in Writer \ {w} : writer'[v].pc = writer[v].pc
      BY <1>1, <2>2 DEF Install, Outdated, Doing
    <3>2. CASE w \in Form
      <4>1. AfterSave(w, TRUE).pc = "saved"
        BY <1>1, <3>2 DEF AfterSave, Stopped, Nobody
      <4> QED BY <2>2, <3>2, <4>1 DEF Install, NoMissedRestart
    <3>3. CASE w \notin Form
      BY <1>1, <2>1, <2>2, <3>1, <3>3 DEF Install, IInv, NoMissedRestart
    <3> QED BY <3>2, <3>3
  <2>3. CASE writer' = [writer EXCEPT ![w] = AfterSave(w, FALSE)] /\ UNCHANGED unread
    BY <1>1, <1>2, <2>1, <2>3 DEF TypeOK
  <2> QED BY <1>7, <2>2, <2>3 DEF Rename
<1>8. CASE LoadNode \/ Start \/ TakeRestart
  BY <1>8 DEF LoadNode, Start, TakeRestart, NoMissedRestart
<1>9. CASE PressRestart \/ UNCHANGED vars
  BY <1>9 DEF PressRestart, vars, IInv, NoMissedRestart
<1>10. CASE Wait
  BY <1>10 DEF Wait, IInv, NoMissedRestart
<1>11. CASE CannotLoad \/ Kill
  BY <1>11 DEF CannotLoad, Kill, Ended, NoMissedRestart
<1>12. ASSUME NEW c \in Command, Change(c) PROVE NoMissedRestart'
  BY <1>1, <1>4, <1>12 DEF Change, Edited
<1>13. ASSUME NEW g \in Node, NEW s \in Taught, Learn(g, s) PROVE NoMissedRestart'
  BY <1>1, <1>4, <1>13 DEF Learn
<1> QED BY <1>3, <1>5, <1>6, <1>7, <1>8, <1>9, <1>10, <1>11, <1>12, <1>13 DEF Next, SaveStep

-----------------------------------------------------------------------------
\* A save that was alone ends well and config.json is what it wrote.
LEMMA AloneSaves ==
    ASSUME TypeOK, IInv, NEW w \in Writer, writer[w].alone, Rename(w)
    PROVE  /\ writer'[w].pc # "failed" /\ content'[config'] = writer[w].copy
           /\ Install(w)
<1>1. Saving(w) /\ writer[w].pc = "written"
  BY DEF Rename, Saving
<1>2. Sound(w) /\ tmp # None /\ tmp # config /\ tmp \in Inode
  BY <1>1, AloneHasTmp, SettingsAssumption
<1>3. Install(w)
  BY <1>2 DEF Rename
<1>4. AfterSave(w, TRUE).pc # "failed"
  <2>1. writer[w] \in Doing
    BY DEF TypeOK
  <2> QED BY <2>1 DEF AfterSave, Stopped, Nobody, Doing
<1>5. writer'[w] = AfterSave(w, TRUE)
  BY <1>3 DEF Install
<1>6. content'[config'] = content[tmp]
  BY <1>2, <1>3 DEF Install, TypeOK
<1> QED BY <1>1, <1>2, <1>3, <1>4, <1>5, <1>6 DEF Sound

(* What forms have saved.                                                  *)

\* A form that is saving was so before, or one that has saved had saved, and
\* nothing leaves the file that is not missed.
FormKept(c) ==
    /\ Saving(c)' => Saving(c) /\ writer'[c].copy = writer[c].copy
    /\ writer'[c].pc \in {"saved", "done"} => writer[c].pc \in {"saved", "done"}
NothingGone == Items(Now) \cup missing \subseteq Items(Now') \cup missing'

LEMMA FormsKept ==
    ASSUME IInv, overlapped => overlapped', overlapped' \/ NothingGone,
           overlapped' \/ \A c \in Form : FormKept(c)
    PROVE  FormsSaved'
<1> SUFFICES ASSUME ~overlapped', NEW c \in Form
             PROVE  /\ Saving(c)' => Adds[c] \subseteq writer'[c].copy
                    /\ writer'[c].pc \in {"saved", "done"} =>
                          Adds[c] \subseteq Items(Now') \cup missing'
  BY DEF FormsSaved, Items
<1>1. /\ Saving(c) => Adds[c] \subseteq writer[c].copy
      /\ writer[c].pc \in {"saved", "done"} => Adds[c] \subseteq Items(Now) \cup missing
  BY DEF IInv, FormsSaved
<1> QED BY <1>1 DEF FormKept, NothingGone

\* What begins a save leaves config.json alone, and the copies of the others.
LEMMA FormsOpen ==
    ASSUME TypeOK, IInv, NEW w \in Writer, ~Saving(w), NEW copy \in SUBSET Item, Open(w, copy),
           w \in Form => Adds[w] \subseteq copy, missing' = missing
    PROVE  FormsSaved'
<1>1. TmpFile # config /\ content' = [content EXCEPT ![TmpFile] = Empty] /\ config' = config
  BY TmpFileType DEF Open, TmpFile, IInv
<1>2. Now' = Now
  BY <1>1 DEF Now, TypeOK
<1>3. \A v \in Writer : writer[v] \in Doing
  BY DEF TypeOK
<1>4. writer'[w].pc = "opened" /\ writer'[w].copy = copy
      /\ \A v \in Writer \ {w} : writer'[v].pc = writer[v].pc /\ writer'[v].copy = writer[v].copy
  BY <1>3 DEF Open, Doing
<1>5. overlapped => overlapped'
  BY DEF Open
<1> SUFFICES ASSUME ~overlapped', NEW c \in Form
             PROVE  /\ Saving(c)' => Adds[c] \subseteq writer'[c].copy
                    /\ writer'[c].pc \in {"saved", "done"} =>
                          Adds[c] \subseteq Items(Now') \cup missing'
  BY DEF FormsSaved, Items
<1>6. /\ Saving(c) => Adds[c] \subseteq writer[c].copy
      /\ writer[c].pc \in {"saved", "done"} => Adds[c] \subseteq Items(Now) \cup missing
  BY <1>5 DEF IInv, FormsSaved
<1>7. c \in Writer
  BY SettingsAssumption DEF Writer
<1>8. CASE c = w
  BY <1>4, <1>8
<1>9. CASE c # w
  BY <1>2, <1>4, <1>6, <1>7, <1>9 DEF Saving
<1> QED BY <1>8, <1>9

\* A save that has the temporary file to itself puts what it wrote in the place of
\* what was there.
LEMMA FormsRename ==
    ASSUME TypeOK, IInv, NEW w \in Writer, Rename(w)
    PROVE  FormsSaved'
<1> SUFFICES ASSUME ~overlapped PROVE FormsSaved'
  BY DEF Rename, FormsSaved
<1>1. Saving(w) /\ writer[w].pc = "written"
  BY DEF Rename, Saving
<1>2. writer[w].alone /\ Sound(w) /\ tmp \in Inode /\ tmp # config
  BY <1>1, AloneHasTmp
<1>3. Install(w) /\ content'[config'] = writer[w].copy
  BY <1>2, AloneSaves
<1>4. Now' = writer[w].copy /\ content[tmp] = writer[w].copy
  BY <1>1, <1>2, <1>3 DEF Now, Sound
<1>5. NothingGone
  BY <1>3, <1>4 DEF NothingGone, Install
<1>6. \A v \in Writer \ {w} : writer'[v].pc = writer[v].pc /\ writer'[v].copy = writer[v].copy
  BY <1>3 DEF Install, Outdated, TypeOK, Doing
<1> SUFFICES ASSUME NEW c \in Form
             PROVE  /\ Saving(c)' => Adds[c] \subseteq writer'[c].copy
                    /\ writer'[c].pc \in {"saved", "done"} =>
                          Adds[c] \subseteq Items(Now') \cup missing'
  BY DEF FormsSaved, Items
<1>7. /\ Saving(c) => Adds[c] \subseteq writer[c].copy
      /\ writer[c].pc \in {"saved", "done"} => Adds[c] \subseteq Items(Now) \cup missing
  BY DEF IInv, FormsSaved
<1>8. c \in Writer /\ c \in Command /\ c \notin Node
  BY SettingsAssumption DEF Writer
<1>9. CASE c = w
  <2>1. writer'[c] = Stopped("saved")
    BY <1>3, <1>8, <1>9 DEF Install, AfterSave
  <2>2. ~Saving(c)'
    BY <2>1 DEF Saving, Stopped, Nobody
  <2>3. writer[w].copy \notin Broken
    BY SettingsAssumption DEF TypeOK, Doing
  <2> QED BY <1>1, <1>4, <1>7, <1>9, <2>2, <2>3 DEF Items
<1>10. CASE c # w
  BY <1>5, <1>6, <1>7, <1>8, <1>10 DEF Saving, NothingGone
<1> QED BY <1>9, <1>10

LEMMA FormsStep == ASSUME TypeOK, IInv, [Next]_vars PROVE FormsSaved'
<1>1. /\ Node \subseteq Writer /\ Command \subseteq Writer /\ Node \cap Command = {}
      /\ Form \subseteq Command /\ \A w \in Writer : writer[w] \in Doing
  BY SettingsAssumption DEF TypeOK, Writer
<1>2. ASSUME NEW c \in Command, Change(c) PROVE FormsSaved'
  <2> DEFINE copy == (writer[c].copy \ Removes[c]) \cup Adds[c]
  <2>1. copy \in SUBSET Item /\ ~Saving(c) /\ Adds[c] \subseteq copy
    BY <1>1, <1>2, SettingsAssumption DEF Change, Doing, Saving
  <2>2. Open(c, copy) /\ missing' = missing
    BY <1>2 DEF Change, Edited
  <2> HIDE DEF copy
  <2> QED BY <1>1, <2>1, <2>2, FormsOpen
<1>3. ASSUME NEW g \in Node, NEW s \in Taught, Learn(g, s) PROVE FormsSaved'
  <2> DEFINE copy == writer[g].copy \cup {s}
  <2>1. copy \in SUBSET Item /\ ~Saving(g) /\ g \notin Form
    BY <1>1, <1>3, SettingsAssumption DEF Learn, Doing, Saving
  <2>2. Open(g, copy) /\ missing' = missing
    BY <1>3 DEF Learn
  <2> HIDE DEF copy
  <2> QED BY <1>1, <2>1, <2>2, FormsOpen
<1>4. ASSUME NEW w \in Writer, Write(w) \/ WriteFails(w) PROVE FormsSaved'
  <2>1. Saving(w) /\ config' = config /\ overlapped' = overlapped /\ missing \subseteq missing'
    BY <1>4 DEF Write, WriteFails, Saving
  <2>2. overlapped \/ writer[w].file # config
    BY <2>1, AloneHasTmp DEF Sound
  <2>3. overlapped \/ Now' = Now
    BY <1>4, <2>1, <2>2 DEF Write, WriteFails, Now, TypeOK
  <2>4. \A c \in Form : FormKept(c)
    <3> SUFFICES ASSUME NEW c \in Form PROVE FormKept(c)
      OBVIOUS
    <3>1. CASE c # w
      BY <1>1, <1>4, <3>1 DEF Write, WriteFails, FormKept, Saving, TypeOK
    <3>2. CASE c = w /\ Write(w)
      BY <1>1, <2>1, <3>2 DEF Write, FormKept, Saving, TypeOK, Doing
    <3>3. CASE c = w /\ WriteFails(w)
      <4>1. writer'[c] = Stopped("failed")
        BY <1>1, <3>3 DEF WriteFails, AfterSave, TypeOK
      <4> QED BY <4>1 DEF FormKept, Saving, Stopped, Nobody
    <3> QED BY <1>4, <3>1, <3>2, <3>3
  <2>5. overlapped \/ NothingGone
    BY <2>1, <2>3 DEF NothingGone, Items
  <2> QED BY <2>1, <2>4, <2>5, FormsKept
<1>5. ASSUME UNCHANGED <<fvars, overlapped, missing>>, \A c \in Form : FormKept(c)
      PROVE  FormsSaved'
  <2>1. NothingGone
    BY <1>5 DEF NothingGone, Items, Now, fvars
  <2> QED BY <1>5, <2>1, FormsKept
<1>6. CASE LoadNode
  <2>1. \A c \in Form : writer'[c] = writer[c]
    BY <1>1, <1>6 DEF LoadNode, TypeOK, Node
  <2> QED BY <1>5, <1>6, <2>1 DEF LoadNode, FormKept, Saving
<1>7. CASE \/ \E c \in Command : Load(c) \/ AskRestart(c) \/ FormRefused(c) \/ KillCommand(c)
           \/ PressRestart \/ Start \/ TakeRestart \/ Wait \/ CannotLoad \/ Kill
           \/ UNCHANGED vars
  <2>1. UNCHANGED <<fvars, overlapped, missing>>
    BY <1>7 DEF Load, AskRestart, FormRefused, KillCommand, PressRestart, Start, TakeRestart,
                Wait, CannotLoad, Kill, Ended, vars
  <2>2. ASSUME NEW c \in Command, Load(c) \/ AskRestart(c) \/ FormRefused(c) \/ KillCommand(c),
               NEW f \in Form
        PROVE  FormKept(f)
    <3>1. CASE f # c
      BY <1>1, <2>2, <3>1 DEF Load, AskRestart, FormRefused, KillCommand, FormKept, Saving, TypeOK
    <3>2. CASE f = c
      <4>1. /\ writer'[c].pc \in {"ready", "failed", "done"}
            /\ writer'[c].pc = "done" => writer[c].pc = "saved"
        <5>1. Loaded.pc = "ready" /\ Stopped("failed").pc = "failed"
          BY DEF Loaded, Nobody, Stopped
        <5>2. c \in Writer /\ writer \in [Writer -> Doing] /\ writer[c] \in Doing
          BY <1>1 DEF TypeOK
        <5>3. CASE Load(c)
          <6>1. writer'[c].pc \in {"ready", "failed"}
            BY <5>1, <5>2, <5>3 DEF Load, Doing
          <6> QED BY <6>1
        <5>4. CASE FormRefused(c) \/ KillCommand(c)
          BY <5>1, <5>2, <5>4 DEF FormRefused, KillCommand
        <5>5. CASE AskRestart(c)
          BY <5>2, <5>5 DEF AskRestart, Doing
        <5> QED BY <2>2, <5>3, <5>4, <5>5
      <4> QED BY <3>2, <4>1 DEF FormKept, Saving
    <3> QED BY <3>1, <3>2
  <2>3. CASE CannotLoad \/ Kill
    <3> SUFFICES ASSUME NEW f \in Form PROVE FormKept(f)
      BY <1>5, <2>1
    <3>1. writer'[f] \in {writer[f], Nobody, Stopped("failed")}
      BY <1>1, <2>3 DEF CannotLoad, Kill, Ended, Killed
    <3>2. Nobody.pc = "idle" /\ Stopped("failed").pc = "failed"
      BY DEF Nobody, Stopped
    <3> QED BY <3>1, <3>2 DEF FormKept, Saving
  <2>4. CASE PressRestart \/ Start \/ TakeRestart \/ Wait \/ UNCHANGED vars
    <3>1. writer' = writer
      BY <2>4 DEF PressRestart, Start, TakeRestart, Wait, vars
    <3> QED BY <1>5, <2>1, <3>1 DEF FormKept, Saving
  <2> QED BY <1>5, <1>7, <2>1, <2>2, <2>3, <2>4
<1> QED BY <1>2, <1>3, <1>4, <1>6, <1>7, FormsRename DEF Next, SaveStep

\* The invariant is inductive.
LEMMA SettingsStep == ASSUME TypeOK, IInv, [Next]_vars PROVE IInv'
BY FilesStep, RestartStep, FormsStep DEF FilesInv, IInv

LEMMA SettingsInit == Init => IInv
<1> SUFFICES ASSUME Init PROVE IInv
  OBVIOUS
<1>1. Nobody.pc = "idle" /\ Nobody.file = None /\ Nobody.copy = {}
  BY DEF Nobody
<1>2. \A w \in Writer : writer[w] = Nobody
  BY DEF Init
<1>3. New \in Writer
  BY DEF Writer, Node
<1>4. Readable
  BY SettingsAssumption DEF Init, Readable, Now
<1>5. tmp # config
  BY SettingsAssumption DEF Init
<1>6. LearnedIsSaved
  BY <1>1, <1>2, <1>3 DEF LearnedIsSaved
<1>7. FormsSaved
  BY <1>1, <1>2, SettingsAssumption DEF FormsSaved, Saving, Writer
<1> QED
  BY <1>1, <1>2, <1>4, <1>5, <1>6, <1>7
  DEF IInv, Init, FilesOpen, AloneIsSound, OverlapSeen, NeverTorn, CopiesFresh,
      NoMissedRestart, Saving, Changing

\* The files, the copies and the requests for restarts stay in order.
THEOREM SettingsInvariant == Spec => []IInv
BY TypeInit, TypeStep, SettingsInit, SettingsStep, PTL DEF Spec

\* A configuration that can be loaded is lost only to saves that overlap.
THEOREM ConfigNeverTorn == Spec => []NeverTorn
<1>1. IInv => NeverTorn
  BY DEF IInv
<1> QED BY <1>1, SettingsInvariant, PTL

\* A revoked serial that the node refuses is also in the file.
THEOREM LearnedSerialsSaved == Spec => []LearnedIsSaved
<1>1. IInv => LearnedIsSaved
  BY DEF IInv
<1> QED BY <1>1, SettingsInvariant, PTL

\* No request for a restart is missed by all.
THEOREM RestartNotMissed == Spec => []NoMissedRestart
<1>1. IInv => NoMissedRestart
  BY DEF IInv
<1> QED BY <1>1, SettingsInvariant, PTL

\* A save that was alone ends well and config.json is what it wrote (config.go,
\* Save).
THEOREM SavesTellTruth == Spec => SaveTellsTruth
<1>1. ASSUME TypeOK, IInv, [Next]_vars
      PROVE  [\A w \in Writer : writer[w].alone /\ Rename(w) =>
                 writer'[w].pc # "failed" /\ content'[config'] = writer[w].copy]_vars
  BY <1>1, AloneSaves
<1> QED
  BY <1>1, SettingsInvariant, SettingsTypeCorrect, PTL DEF Spec, SaveTellsTruth

\* Who saves without another's save since its load loses nothing of the others.
THEOREM SavesKeepOthers == Spec => KeepsOthers
<1>1. ASSUME TypeOK, IInv, [Next]_vars
      PROVE  [\A w \in Writer : Rename(w) /\ ~writer[w].stale /\ ~overlapped =>
                 Kept(w) \subseteq Items(content'[config'])]_vars
  <2> SUFFICES ASSUME NEW w \in Writer, Rename(w), ~writer[w].stale, ~overlapped
               PROVE  Kept(w) \subseteq Items(content'[config'])
    OBVIOUS
  <2>1. Saving(w) /\ Changing(w)
    BY DEF Rename, Saving, Changing
  <2>2. content'[config'] = writer[w].copy
    BY <1>1, <2>1, AloneHasTmp, AloneSaves
  <2>3. Kept(w) \subseteq writer[w].copy
    BY <1>1, <2>1 DEF IInv, CopiesFresh
  <2>4. writer[w].copy \notin Broken
    BY <1>1, SettingsAssumption DEF TypeOK, Doing
  <2> QED BY <2>2, <2>3, <2>4 DEF Items
<1> QED
  BY <1>1, SettingsInvariant, SettingsTypeCorrect, PTL DEF Spec, KeepsOthers

\* What a form of the web interface has saved is in what the node loads next,
\* unless another save has taken it out: with NoMissedRestart, all of TakesEffect
\* but that cmdRun goes on (main.go, cmdRun; ui.go, apiSettings).
THEOREM FormsReachTheNode == Spec => LoadsWhatWasSaved
<1>1. ASSUME TypeOK, IInv, [Next]_vars
      PROVE  [LoadNode /\ ~overlapped =>
                 \A c \in Form : writer[c].pc \in {"saved", "done"} =>
                    Adds[c] \subseteq writer'[New].copy \cup missing]_vars
  <2> SUFFICES ASSUME LoadNode, ~overlapped, NEW c \in Form, writer[c].pc \in {"saved", "done"}
               PROVE  Adds[c] \subseteq writer'[New].copy \cup missing
    OBVIOUS
  <2>1. New # Old /\ New \in Writer
    BY SettingsAssumption DEF Writer, Node
  <2>2. writer'[New] = Loaded
    BY <1>1, <2>1 DEF LoadNode, TypeOK
  <2>3. writer'[New].copy = Items(Now)
    BY <2>2 DEF Loaded, Nobody, LoadNode, Readable, Items
  <2> QED BY <1>1, <2>3 DEF IInv, FormsSaved
<1> QED
  BY <1>1, SettingsInvariant, SettingsTypeCorrect, PTL DEF Spec, LoadsWhatWasSaved
=============================================================================
