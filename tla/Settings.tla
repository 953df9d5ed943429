------------------------------ MODULE Settings ------------------------------
(***************************************************************************)
(* config.json of one home directory and everyone who rewrites it: the     *)
(* commands of amail, the settings form of the web interface and the node  *)
(* itself, which keeps the configuration in memory and saves all of it     *)
(* when a peer teaches it a revoked serial.  Each loads the whole file and  *)
(* later writes the whole file, by way of config.json.tmp; nothing keeps   *)
(* two of them apart.  The form then asks for a restart in place, after    *)
(* which the new node reads the file again while handlers of the old one   *)
(* may still be at work.                                                   *)
(*                                                                         *)
(* A configuration is the set of its items: entries of the two lists,      *)
(* revoked serials, values of other fields.                                *)
(***************************************************************************)
EXTENDS Integers

CONSTANTS
    Item,       \* what a configuration can hold
    Taught,     \* the revoked serials that peers may teach the node
    Command,    \* changes to be made, each once
    Form,       \* those made in the form
    Adds,       \* [Command -> SUBSET Item]
    Removes,    \* [Command -> SUBSET Item]
    Initial,    \* what is in config.json
    Inode,      \* files that the two names can stand for
    MaxEvents,  \* bound: processes killed, writes that fail, restarts by hand
    New, Old,   \* the node and the one before it, whose handlers still run
    Empty, Garbage, \* a file that was truncated, and one that two have written
    None

Node == {New, Old}
Writer == Command \cup Node
Broken == {Empty, Garbage}

ASSUME SettingsAssumption ==
    /\ Taught \subseteq Item /\ Initial \subseteq Item /\ Form \subseteq Command
    /\ Adds \in [Command -> SUBSET Item] /\ Removes \in [Command -> SUBSET Item]
    /\ New # Old /\ Node \cap Command = {}
    /\ None \notin Inode /\ Inode # {}
    /\ \A c \in SUBSET Item : c \notin Broken
    /\ MaxEvents \in Nat

VARIABLES
    config, tmp,    \* the files that config.json and config.json.tmp name
    content,        \* [Inode -> what is in the file]
    writer,         \* [Writer -> what each is doing, and its copy]
    run,            \* the loop of amail run: "down", "loading" the file, "starting"
                    \* the node, or "running", when it waits for a restart
    asked,          \* whether a restart waits in the channel
    unread,         \* whether the form has saved since the file was last loaded
    overlapped,     \* whether two saves have overlapped
    missing,        \* items that a save has taken out of config.json, or that the
                    \* node could not put there
    events          \* those that have happened

fvars == <<config, tmp, content>>
vars == <<fvars, writer, run, asked, unread, overlapped, missing, events>>

-----------------------------------------------------------------------------
\* "ready": the configuration is in memory; "opened": the temporary file is
\* truncated, "written": and written; "saved": and renamed, and the form is
\* about to ask for a restart.  stale: somebody else has renamed since the copy
\* was loaded; alone: nobody else has been saving at the same time.
Doing ==
    [pc : {"idle", "ready", "opened", "written", "saved", "done", "failed"},
     copy : SUBSET Item, file : Inode \cup {None},
     stale : BOOLEAN, alone : BOOLEAN]

Saving(w) == writer[w].pc \in {"opened", "written"}

TypeOK ==
    /\ config \in Inode /\ tmp \in Inode \cup {None}
    /\ content \in [Inode -> Broken \cup SUBSET Item]
    /\ writer \in [Writer -> Doing]
    /\ \A w \in Writer : Saving(w) => writer[w].file \in Inode
    /\ run \in {"down", "loading", "starting", "running"}
    /\ asked \in BOOLEAN /\ unread \in BOOLEAN /\ overlapped \in BOOLEAN
    /\ missing \subseteq Item /\ events \in Nat

Now == content[config]
Readable == Now \notin Broken
Nobody == [pc |-> "idle", copy |-> {}, file |-> None, stale |-> FALSE, alone |-> TRUE]

\* Wrong: the form does not keep what it does not show.
LoadedShown == [Nobody EXCEPT !.pc = "ready", !.copy = Now \ Taught]

Loaded == [Nobody EXCEPT !.pc = "ready", !.copy = Now]
Items(c) == IF c \in Broken THEN {} ELSE c

Stopped(pc) == [Nobody EXCEPT !.pc = pc]

\* Wrong: the file is closed, but the save goes on.
KilledHalf(w) ==
    IF w \in Node THEN Nobody
    ELSE IF w \in Form THEN [writer[w] EXCEPT !.file = None] ELSE writer[w]

\* A process that is killed; the page with the form stays in the browser.
Killed(w) ==
    IF w \in Node THEN Nobody
    ELSE IF w \in Form /\ (Saving(w) \/ writer[w].pc = "saved")
         THEN Stopped("failed")
         ELSE writer[w]

-----------------------------------------------------------------------------
Init ==
    /\ config \in Inode /\ tmp = None
    /\ content = [i \in Inode |-> IF i = config THEN Initial ELSE Empty]
    /\ writer = [w \in Writer |-> Nobody]
    /\ run = "down" /\ asked = FALSE /\ unread = FALSE
    /\ overlapped = FALSE /\ missing = {} /\ events = 0

\* A command begins with the file, the form with what GET returned.
Load(c) ==
    /\ writer[c].pc = "idle" /\ (c \in Form => run # "down")
    /\ \/ Readable /\ writer' = [writer EXCEPT ![c] = Loaded]
       \/ ~Readable /\ writer' = [writer EXCEPT ![c].pc = "failed"]
    /\ UNCHANGED <<fvars, run, asked, unread, overlapped, missing, events>>

\* The temporary file is the one that has the name, or a new one.
Unused(i) == i # config /\ \A w \in Writer : writer[w].file # i

\* Wrong: config.json is written in place.
InPlace == config

TmpFile == IF tmp # None THEN tmp ELSE CHOOSE i \in Inode : Unused(i)

\* Save, first half: os.WriteFile opens the temporary file and truncates it.
Open(w, copy) ==
    LET others == {v \in Writer \ {w} : Saving(v)} IN
    /\ tmp # None \/ \E i \in Inode : Unused(i)
    /\ tmp' = TmpFile /\ content' = [content EXCEPT ![TmpFile] = Empty]
    /\ writer' = [v \in Writer |->
          IF v = w
          THEN [writer[w] EXCEPT !.pc = "opened", !.copy = copy, !.file = TmpFile,
                                 !.alone = others = {}]
          ELSE IF v \in others THEN [writer[v] EXCEPT !.alone = FALSE]
          ELSE writer[v]]
    /\ overlapped' = (overlapped \/ others # {})
    /\ UNCHANGED config

\* AddPeer, RemovePeer, AddBlock, RemoveBlock, AddRevoked and the fields of the form.
Edited(c) == (writer[c].copy \ Removes[c]) \cup Adds[c]

Change(c) ==
    /\ writer[c].pc = "ready"
    /\ c \in Form => run # "down" /\ Readable
    /\ Open(c, Edited(c))
    /\ UNCHANGED <<run, asked, unread, missing, events>>

\* The form is refused when the file cannot be loaded.
FormRefused(c) ==
    /\ c \in Form /\ writer[c].pc = "ready" /\ run # "down" /\ ~Readable
    /\ writer' = [writer EXCEPT ![c] = Stopped("failed")]
    /\ UNCHANGED <<fvars, run, asked, unread, overlapped, missing, events>>

\* Wrong: only the memory learns.
LearnInMemory(g, s) ==
    /\ writer[g].pc = "ready" /\ s \notin writer[g].copy
    /\ writer' = [writer EXCEPT ![g].copy = @ \cup {s}]
    /\ UNCHANGED <<fvars, run, asked, unread, overlapped, missing, events>>

\* learnRevoked adds what is new to the copy in memory and saves all of that.
Learn(g, s) ==
    /\ writer[g].pc = "ready" /\ s \notin writer[g].copy
    /\ Open(g, writer[g].copy \cup {s})
    /\ UNCHANGED <<run, asked, unread, missing, events>>

\* Into a file that nobody else has written meanwhile; otherwise a longer text
\* may stick out from under a shorter one.
Write(w) ==
    /\ writer[w].pc = "opened"
    /\ \E c \in {writer[w].copy} \cup
                (IF content[writer[w].file] = Empty THEN {} ELSE {Garbage}) :
          content' = [content EXCEPT ![writer[w].file] = c]
    /\ writer' = [writer EXCEPT ![w].pc = "written"]
    /\ UNCHANGED <<config, tmp, run, asked, unread, overlapped, missing, events>>

\* The node keeps its copy and only logs an error.
AfterSave(w, ok) ==
    IF w \in Node
    THEN [writer[w] EXCEPT !.pc = "ready", !.file = None, !.stale = @ /\ ~ok]
    ELSE Stopped(IF ~ok THEN "failed" ELSE IF w \in Form THEN "saved" ELSE "done")

\* os.WriteFile fails half-way, on a full disk for example.
WriteFails(w) ==
    /\ writer[w].pc = "opened" /\ events < MaxEvents /\ events' = events + 1
    /\ content' = [content EXCEPT ![writer[w].file] = Garbage]
    /\ writer' = [writer EXCEPT ![w] = AfterSave(w, FALSE)]
    /\ missing' = IF w \in Node THEN missing \cup (writer[w].copy \ Items(Now))
                  ELSE missing
    /\ UNCHANGED <<config, tmp, run, asked, unread, overlapped>>

Outdated(w) ==
    IF writer[w].pc \in {"ready", "opened", "written"}
    THEN [writer[w] EXCEPT !.stale = TRUE] ELSE writer[w]

Install(w) ==
    /\ config' = tmp /\ tmp' = None
    /\ content' = IF \E v \in Writer \ {w} : writer[v].file = config THEN content
                  ELSE [content EXCEPT ![config] = Empty]
    /\ writer' = [v \in Writer |-> IF v = w THEN AfterSave(w, TRUE) ELSE Outdated(v)]
    /\ missing' = (missing \ Items(content[tmp]))
                      \cup (Items(Now) \ Items(content[tmp]))
    /\ unread' = (unread \/ w \in Form)

\* Wrong: renamed before all of it is written.
RenameEarly(w) ==
    /\ Saving(w) /\ tmp # None /\ Install(w)
    /\ UNCHANGED <<run, asked, overlapped, events>>

\* Save, second half: whatever has the name of the temporary file becomes
\* config.json; if another has renamed it, that is an error.
Rename(w) ==
    /\ writer[w].pc = "written"
    /\ \/ tmp # None /\ Install(w)
       \/ /\ tmp = None
          /\ writer' = [writer EXCEPT ![w] = AfterSave(w, FALSE)]
          /\ UNCHANGED <<fvars, missing, unread>>
    /\ UNCHANGED <<run, asked, overlapped, events>>

\* Wrong: the channel holds none, and nobody waits for it but the loop.
AskUnheard(c) ==
    /\ writer[c].pc = "saved"
    /\ writer' = [writer EXCEPT ![c].pc = "done"]
    /\ asked' = (asked \/ run = "running")
    /\ UNCHANGED <<fvars, run, unread, overlapped, missing, events>>

\* Restart puts a token into a channel that holds one; a second is not needed.
AskRestart(c) ==
    /\ writer[c].pc = "saved"
    /\ writer' = [writer EXCEPT ![c].pc = "done"]
    /\ asked' = TRUE
    /\ UNCHANGED <<fvars, run, unread, overlapped, missing, events>>

\* The button of the web interface.
PressRestart ==
    /\ run # "down" /\ events < MaxEvents
    /\ asked' = TRUE /\ events' = events + 1
    /\ UNCHANGED <<fvars, writer, run, unread, overlapped, missing>>

(* amail run.                                                              *)

Start ==
    /\ run = "down" /\ Readable
    /\ run' = "loading" /\ asked' = FALSE
    /\ UNCHANGED <<fvars, writer, unread, overlapped, missing, events>>

TakeRestart ==
    /\ run = "running" /\ asked
    /\ run' = "loading" /\ asked' = FALSE
    /\ UNCHANGED <<fvars, writer, unread, overlapped, missing, events>>

\* Wrong: the new node is given the configuration of the one before.
LoadOnce ==
    /\ run = "loading" /\ Readable /\ ~Saving(Old)
    /\ run' = "starting"
    /\ writer' = [writer EXCEPT ![New] = IF @.pc = "idle" THEN Loaded ELSE @,
                                ![Old] = writer[New]]
    /\ unread' = FALSE
    /\ UNCHANGED <<fvars, asked, overlapped, missing, events>>

\* The loop of the node before has ended, its handlers have not.
LoadNode ==
    /\ run = "loading" /\ Readable /\ ~Saving(Old)
    /\ run' = "starting"
    /\ writer' = [writer EXCEPT ![New] = Loaded, ![Old] = writer[New]]
    /\ unread' = FALSE
    /\ UNCHANGED <<fvars, asked, overlapped, missing, events>>

Wait ==
    /\ run = "starting"
    /\ run' = "running"
    /\ UNCHANGED <<fvars, writer, asked, unread, overlapped, missing, events>>

\* What is lost when the process ends, whatever ends it.
Ended ==
    /\ run' = "down" /\ asked' = FALSE
    /\ writer' = [w \in Writer |-> Killed(w)]
    /\ UNCHANGED <<fvars, unread, overlapped, missing>>

CannotLoad == run = "loading" /\ ~Readable /\ Ended /\ UNCHANGED events

Kill == run # "down" /\ events < MaxEvents /\ events' = events + 1 /\ Ended

KillCommand(c) ==
    /\ c \notin Form /\ Saving(c) /\ events < MaxEvents
    /\ events' = events + 1
    /\ writer' = [writer EXCEPT ![c] = Stopped("failed")]
    /\ UNCHANGED <<fvars, run, asked, unread, overlapped, missing>>

-----------------------------------------------------------------------------
SaveStep(w) == Write(w) \/ WriteFails(w) \/ Rename(w)

Next ==
    \/ \E c \in Command :
          \/ Load(c) \/ Change(c) \/ AskRestart(c) \/ FormRefused(c) \/ KillCommand(c)
    \/ \E g \in Node, s \in Taught : Learn(g, s)
    \/ \E w \in Writer : SaveStep(w)
    \/ PressRestart \/ Start \/ TakeRestart \/ LoadNode \/ Wait \/ CannotLoad \/ Kill

Spec == Init /\ [][Next]_vars

\* A save that is begun goes on; the loop of amail run waits for the channel at
\* all times, and the service manager starts the process again.  Nobody has to
\* begin a change.
Fairness ==
    /\ \A w \in Writer : WF_vars(SaveStep(w))
    /\ \A c \in Form : WF_vars(AskRestart(c))
    /\ WF_vars(Start \/ TakeRestart \/ LoadNode \/ Wait \/ CannotLoad)

FairSpec == Spec /\ Fairness

-----------------------------------------------------------------------------
(* Properties.                                                             *)

\* Only saves that overlap can leave a config.json that cannot be loaded, and
\* keep the node from starting; a process that is killed while it saves cannot
\* (config.go, Save: the temporary file and the rename).
NeverTorn == overlapped \/ Readable

\* A save that nobody else's overlapped ends well, and what is in config.json
\* then is what it wrote.
SaveTellsTruth ==
    [][\A w \in Writer : writer[w].alone /\ Rename(w) =>
          writer'[w].pc # "failed" /\ content'[config'] = writer[w].copy]_vars

Kept(w) == Items(Now) \ (IF w \in Command THEN Removes[w] ELSE {})

\* What is saved leaves alone all that the others have put there, unless one
\* of them has saved between its load and its save: commands, forms and the
\* node do not lose one another's changes by taking turns.
KeepsOthers ==
    [][\A w \in Writer : Rename(w) /\ ~writer[w].stale /\ ~overlapped =>
          Kept(w) \subseteq Items(content'[config'])]_vars

\* A revoked serial that the node refuses is in the file as well, for the time
\* after a restart, unless a save has taken it out or failed.
LearnedIsSaved ==
    ~Saving(New) /\ ~overlapped =>
       writer[New].copy \cap Taught \subseteq Items(Now) \cup missing

\* Settings that were saved are not left unread: until the file is loaded
\* again, a restart is asked for or about to be, although a second request is
\* dropped when one is waiting.
NoMissedRestart ==
    unread => \/ asked \/ run \in {"down", "loading"}
              \/ \E c \in Form : writer[c].pc = "saved"

\* What the form saved is in force in the end, or another save has taken it
\* out, or the file can no longer be loaded.
TakesEffect ==
    \A c \in Form : writer[c].pc = "saved" ~>
       \/ run = "running" /\ Adds[c] \subseteq writer[New].copy
       \/ Adds[c] \cap missing # {} \/ ~Readable \/ overlapped

-----------------------------------------------------------------------------
(* The invariant that is inductive.                                        *)

Changing(w) == writer[w].pc \in {"ready", "opened", "written"}

Sound(w) ==
    /\ tmp = writer[w].file
    /\ \A u \in Writer : Saving(u) => u = w
    /\ content[tmp] = IF writer[w].pc = "opened" THEN Empty ELSE writer[w].copy

FilesOpen == \A w \in Writer : Saving(w) <=> writer[w].file # None
AloneIsSound == \A w \in Writer : Saving(w) /\ writer[w].alone => Sound(w)
OverlapSeen == overlapped \/ \A w \in Writer : Saving(w) => writer[w].alone
CopiesFresh ==
    overlapped \/ \A w \in Writer :
       Changing(w) /\ ~writer[w].stale => Kept(w) \subseteq writer[w].copy

\* What a form was to add is in the file once it has saved, or another save has
\* taken it out.
FormsSaved ==
    overlapped \/ \A c \in Form :
       /\ Saving(c) => Adds[c] \subseteq writer[c].copy
       /\ writer[c].pc \in {"saved", "done"} => Adds[c] \subseteq Items(Now) \cup missing

IInv ==
    /\ tmp # config /\ FilesOpen /\ AloneIsSound /\ OverlapSeen /\ NeverTorn
    /\ CopiesFresh /\ LearnedIsSaved /\ NoMissedRestart /\ FormsSaved

\* Whenever the node loads the file it gets what every form has saved by then,
\* unless another save has taken it out (what TakesEffect rests on, beside
\* NoMissedRestart).
LoadsWhatWasSaved ==
    [][LoadNode /\ ~overlapped =>
          \A c \in Form : writer[c].pc \in {"saved", "done"} =>
             Adds[c] \subseteq writer'[New].copy \cup missing]_vars
=============================================================================
