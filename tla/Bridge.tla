------------------------------- MODULE Bridge -------------------------------
(***************************************************************************)
(* E-mail in, an answer by e-mail out: the gateway (internal/gateway) makes *)
(* a note of an e-mail, AMail carries it to another node, the processor    *)
(* there (internal/processor) runs a command on it, and AMail carries the  *)
(* reply back to the gateway, which sends it as an e-mail.  Gateway and    *)
(* processor each remember what they have dealt with, in memory and in a   *)
(* state file, and stop and start on their own.                            *)
(*                                                                         *)
(* A request may be any note for the processor and a reply any #email      *)
(* file; they are named by the e-mail they go back to.  All have one file   *)
(* name, so that they compete for its numbered variants in an inbox.       *)
(***************************************************************************)
EXTENDS Integers, FiniteSets

CONSTANTS
    Mail,           \* the e-mails in the Maildir, later ones included
    Slots,          \* bound: the paths in an inbox; 1 is the name itself
    EmailDelete,    \* email_delete_after_send
    UserDeletes,    \* whether the user deletes files from an inbox
    MaxFaults,      \* bound: stops, failed writes and reads, second copies
    None            \* nothing

ASSUME BridgeAssumption ==
    /\ None \notin Mail /\ None \notin Slots
    /\ Slots \subseteq Nat \ {0} /\ Mail \cap Slots = {}
    /\ EmailDelete \in BOOLEAN /\ UserDeletes \in BOOLEAN /\ MaxFaults \in Nat

VARIABLES
    requests,   \* [Mail -> Nat]: notes on their way to the processor
    replies,    \* [Mail -> Nat]: notes on their way back
    notes,      \* [Slots -> Mail or None]: the processor's inbox
    mails,      \* [Slots -> Mail or None]: the gateway's inbox
    gateway,    \* what the gateway is doing
    gseen,      \* the keys it remembers
    gstate,     \* the keys in its state file
    processor,  \* what the processor is doing
    pseen,      \* the keys it remembers
    pstate,     \* the keys in its state file
    ran,        \* [Slots -> Nat]: commands started on the note of a path
    lapsed,     \* paths that are not in the state file because writing failed
    sent,       \* [Mail -> Nat]: e-mails sent
    closed,     \* e-mails that were refused or had no answer, or whose request or
                \* reply was lost to a fault or deleted
    shadowed,   \* e-mails whose request or reply had a path remembered before
    faults      \* how many faults there have been

gvars == <<mails, gateway, gseen, gstate, sent>>
pvars == <<notes, processor, pseen, pstate, ran, lapsed>>
vars == <<gvars, pvars, requests, replies, closed, shadowed, faults>>

-----------------------------------------------------------------------------
Key == Mail \cup Slots

\* "written": the e-mail is converted, "sending": the command is running,
\* "sent": it has ended well; then the key is remembered, "clearing": and the
\* file is to be removed.
GatewayDoing ==
    [pc : {"idle", "written", "sending", "sent", "clearing"},
     key : Key \cup {None}, note : Mail \cup {None}]

\* "running": the key is remembered, "replying": the command is started.
ProcessorDoing ==
    [pc : {"idle", "running", "replying"},
     key : Slots \cup {None}, note : Mail \cup {None}]

\* Wrong: what was done is not forgotten.
StillBusy == [pc |-> "running", key |-> None, note |-> None]

Resting == [pc |-> "idle", key |-> None, note |-> None]

TypeOK ==
    /\ requests \in [Mail -> Nat] /\ replies \in [Mail -> Nat]
    /\ notes \in [Slots -> Mail \cup {None}]
    /\ mails \in [Slots -> Mail \cup {None}]
    /\ gateway \in GatewayDoing /\ gseen \subseteq Key /\ gstate \subseteq Key
    /\ gateway.pc # "idle" => gateway.note \in Mail
    /\ gateway.pc = "written" => gateway.key \in Mail
    /\ gateway.pc \in {"sending", "sent", "clearing"} => gateway.key \in Slots
    /\ processor \in ProcessorDoing
    /\ IF processor.pc = "idle"
       THEN processor.note = None
       ELSE processor.key \in Slots /\ processor.note \in Mail
    /\ pseen \subseteq Slots /\ pstate \subseteq Slots
    /\ ran \in [Slots -> Nat] /\ lapsed \subseteq Slots
    /\ sent \in [Mail -> Nat]
    /\ closed \subseteq Mail /\ shadowed \subseteq Mail
    /\ faults \in Nat

\* AMail puts a file under the first free name.
FirstFree(inbox, k) == inbox[k] = None /\ \A j \in Slots : j < k => inbox[j] # None

Fault == faults < MaxFaults /\ faults' = faults + 1
NoFault == faults' = faults

-----------------------------------------------------------------------------
Init ==
    /\ requests = [m \in Mail |-> 0] /\ replies = [m \in Mail |-> 0]
    /\ notes = [k \in Slots |-> None] /\ mails = [k \in Slots |-> None]
    /\ gateway = Resting /\ gseen = {} /\ gstate = {}
    /\ processor = Resting /\ pseen = {} /\ pstate = {}
    /\ ran = [k \in Slots |-> 0] /\ lapsed = {}
    /\ sent = [m \in Mail |-> 0]
    /\ closed = {} /\ shadowed = {}
    /\ faults = 0

(* The gateway, from e-mail to AMail.                                      *)

\* remember: to memory, and to the state file unless that fails, which it does
\* not tell.
GatewayRemembers(k) ==
    /\ gseen' = gseen \cup {k}
    /\ \/ gstate' = gstate \cup {k} /\ NoFault
       \/ gstate' = gstate /\ Fault

\* No tag, or a sender that is not allowed.
Ignore(m) ==
    /\ gateway.pc = "idle" /\ m \notin gseen
    /\ GatewayRemembers(m)
    /\ closed' = closed \cup {m}
    /\ UNCHANGED <<pvars, mails, gateway, sent, requests, replies, shadowed>>

\* The note is written into the outbox, or not, or not all of it.
Convert(m) ==
    /\ gateway.pc = "idle" /\ m \notin gseen
    /\ gateway' = [pc |-> "written", key |-> m, note |-> m]
    /\ \/ /\ requests' = [requests EXCEPT ![m] = @ + 1]
          /\ closed' = closed /\ NoFault
       \/ /\ \E i \in {0, 1} : requests' = [requests EXCEPT ![m] = @ + i]
          /\ closed' = closed \cup {m} /\ Fault
    /\ UNCHANGED <<pvars, mails, gseen, gstate, sent, replies, shadowed>>

\* Whatever came of it, the e-mail is remembered.
RememberMail ==
    /\ gateway.pc = "written"
    /\ GatewayRemembers(gateway.key)
    /\ gateway' = Resting
    /\ UNCHANGED <<pvars, mails, sent, requests, replies, closed, shadowed>>

(* The gateway, from AMail to e-mail.                                      *)

\* A wrong recipient, or too much: remembered.  So is a file that cannot be
\* read, as one that is not for the gateway.
Refuse(k) ==
    /\ gateway.pc = "idle" /\ k \notin gseen /\ mails[k] # None
    /\ GatewayRemembers(k)
    /\ closed' = closed \cup {mails[k]}
    /\ UNCHANGED <<pvars, mails, gateway, sent, requests, replies, shadowed>>

Send(k) ==
    /\ gateway.pc = "idle" /\ k \notin gseen /\ mails[k] # None
    /\ gateway' = [pc |-> "sending", key |-> k, note |-> mails[k]]
    /\ UNCHANGED <<pvars, mails, gseen, gstate, sent, requests, replies,
                   closed, shadowed, faults>>

Sent ==
    /\ gateway.pc = "sending"
    /\ sent' = [sent EXCEPT ![gateway.note] = @ + 1]
    /\ gateway' = [gateway EXCEPT !.pc = "sent"]
    /\ UNCHANGED <<pvars, mails, gseen, gstate, requests, replies, closed,
                   shadowed, faults>>

\* Wrong: a send that failed is remembered as if it had been refused.
GiveUpSend ==
    /\ gateway.pc = "sending"
    /\ GatewayRemembers(gateway.key)
    /\ gateway' = Resting
    /\ UNCHANGED <<pvars, mails, sent, requests, replies, closed, shadowed>>

\* The command fails, perhaps after it has sent the e-mail; the next poll
\* tries again.
SendFails ==
    /\ gateway.pc = "sending"
    /\ \/ sent' = sent /\ NoFault
       \/ sent' = [sent EXCEPT ![gateway.note] = @ + 1] /\ Fault
    /\ gateway' = Resting
    /\ UNCHANGED <<pvars, mails, gseen, gstate, requests, replies, closed,
                   shadowed>>

\* Wrong: the file is kept but not remembered.
ForgetSent ==
    /\ gateway.pc = "sent"
    /\ gateway' = Resting
    /\ UNCHANGED <<pvars, mails, gseen, gstate, sent, requests, replies, closed,
                   shadowed, faults>>

\* The path is remembered, for whatever file has it by now.
RememberSent ==
    /\ gateway.pc = "sent"
    /\ GatewayRemembers(gateway.key)
    /\ gateway' =
         IF EmailDelete THEN [gateway EXCEPT !.pc = "clearing"] ELSE Resting
    /\ shadowed' = shadowed \cup ({mails[gateway.key]} \ {gateway.note, None})
    /\ UNCHANGED <<pvars, mails, sent, requests, replies, closed>>

RemoveSent ==
    /\ gateway.pc = "clearing"
    /\ mails' = [mails EXCEPT ![gateway.key] = None]
    /\ gateway' = Resting
    /\ UNCHANGED <<pvars, gseen, gstate, sent, requests, replies, closed,
                   shadowed, faults>>

GatewayStops ==
    /\ Fault
    /\ gateway' = Resting /\ gseen' = gstate
    /\ UNCHANGED <<pvars, mails, gstate, sent, requests, replies, closed,
                   shadowed>>

(* The processor.                                                          *)

\* Wrong: the key goes to memory only.
MemoryOnly(k) == pseen' = pseen \cup {k} /\ UNCHANGED <<pstate, lapsed, faults>>

ProcessorRemembers(k) ==
    /\ pseen' = pseen \cup {k}
    /\ \/ pstate' = pstate \cup {k} /\ UNCHANGED <<lapsed, faults>>
       \/ pstate' = pstate /\ lapsed' = lapsed \cup {k} /\ Fault

\* No handler for it, or an origin that is not allowed; or it cannot be read.
Reject(k) ==
    /\ processor.pc = "idle" /\ k \notin pseen /\ notes[k] # None
    /\ ProcessorRemembers(k)
    /\ closed' = closed \cup {notes[k]}
    /\ UNCHANGED <<gvars, notes, processor, ran, requests, replies, shadowed>>

\* The note is read, and remembered before its command runs.
Take(k) ==
    /\ processor.pc = "idle" /\ k \notin pseen /\ notes[k] # None
    /\ ProcessorRemembers(k)
    /\ processor' = [pc |-> "running", key |-> k, note |-> notes[k]]
    /\ UNCHANGED <<gvars, notes, ran, requests, replies, closed, shadowed>>

Run ==
    /\ processor.pc = "running"
    /\ ran' = [ran EXCEPT ![processor.key] = @ + 1]
    /\ processor' = [processor EXCEPT !.pc = "replying"]
    /\ UNCHANGED <<gvars, notes, pseen, pstate, lapsed, requests, replies,
                   closed, shadowed, faults>>

\* There is nothing after the tag; or the command fails and errors are not
\* reported.
NoAnswer ==
    /\ processor.pc # "idle"
    /\ closed' = closed \cup {processor.note}
    /\ processor' = Resting
    /\ UNCHANGED <<gvars, notes, pseen, pstate, ran, lapsed, requests,
                   replies, shadowed, faults>>

\* The command has ended, well or not.  The reply is written into the outbox,
\* or that fails.
Reply ==
    /\ processor.pc = "replying"
    /\ \/ /\ replies' = [replies EXCEPT ![processor.note] = @ + 1]
          /\ closed' = closed /\ NoFault
       \/ /\ replies' = replies
          /\ closed' = closed \cup {processor.note} /\ Fault
    /\ processor' = Resting
    /\ UNCHANGED <<gvars, notes, pseen, pstate, ran, lapsed, requests,
                   shadowed>>

\* Wrong: it starts again without reading its state file.
StartsEmpty ==
    /\ Fault
    /\ processor' = Resting /\ pseen' = {}
    /\ closed' = closed \cup ({processor.note} \ {None})
    /\ UNCHANGED <<gvars, notes, pstate, ran, lapsed, requests, replies,
                   shadowed>>

ProcessorStops ==
    /\ Fault
    /\ processor' = Resting /\ pseen' = pstate
    /\ closed' = closed \cup ({processor.note} \ {None})
    /\ UNCHANGED <<gvars, notes, pstate, ran, lapsed, requests, replies,
                   shadowed>>

(* AMail, and the user.                                                    *)

\* A note arrives, once or, after a fault on the way, once more.
RequestArrives(m) ==
    /\ requests[m] > 0
    /\ \E k \in Slots :
         /\ FirstFree(notes, k)
         /\ notes' = [notes EXCEPT ![k] = m]
         /\ shadowed' = IF k \in pseen THEN shadowed \cup {m} ELSE shadowed
    /\ \/ requests' = [requests EXCEPT ![m] = @ - 1] /\ NoFault
       \/ requests' = requests /\ Fault
    /\ UNCHANGED <<gvars, processor, pseen, pstate, ran, lapsed, replies,
                   closed>>

ReplyArrives(m) ==
    /\ replies[m] > 0
    /\ \E k \in Slots :
         /\ FirstFree(mails, k)
         /\ mails' = [mails EXCEPT ![k] = m]
         /\ shadowed' = IF k \in gseen THEN shadowed \cup {m} ELSE shadowed
    /\ \/ replies' = [replies EXCEPT ![m] = @ - 1] /\ NoFault
       \/ replies' = replies /\ Fault
    /\ UNCHANGED <<pvars, gateway, gseen, gstate, sent, requests, closed>>

\* A note deleted before it is seen is lost, one that is being sent perhaps.
DeleteNote(k) ==
    /\ UserDeletes /\ notes[k] # None
    /\ notes' = [notes EXCEPT ![k] = None]
    /\ closed' = IF k \in pseen THEN closed ELSE closed \cup {notes[k]}
    /\ UNCHANGED <<gvars, processor, pseen, pstate, ran, lapsed, requests,
                   replies, shadowed, faults>>

DeleteMail(k) ==
    /\ UserDeletes /\ mails[k] # None
    /\ mails' = [mails EXCEPT ![k] = None]
    /\ closed' = IF k \in gseen THEN closed ELSE closed \cup {mails[k]}
    /\ UNCHANGED <<pvars, gateway, gseen, gstate, sent, requests, replies,
                   shadowed, faults>>

-----------------------------------------------------------------------------
Gateway ==
    \/ RememberMail \/ RememberSent \/ RemoveSent \/ Sent \/ SendFails
    \/ \E m \in Mail : Ignore(m) \/ Convert(m)
    \/ \E k \in Slots : Refuse(k) \/ Send(k)

Processor ==
    \/ Run \/ NoAnswer \/ Reply
    \/ \E k \in Slots : Reject(k) \/ Take(k)

Carry == \E m \in Mail : RequestArrives(m) \/ ReplyArrives(m)

Next ==
    \/ Gateway \/ GatewayStops \/ Processor \/ ProcessorStops \/ Carry
    \/ \E k \in Slots : DeleteNote(k) \/ DeleteMail(k)

Spec == Init /\ [][Next]_vars

\* Each is one loop that polls and looks at one thing after another; a command
\* is stopped after a time.  That a send succeeds if it is tried again and
\* again, and that AMail brings what is in an outbox, is assumed of the world.
Fairness ==
    /\ WF_vars(Gateway) /\ SF_vars(Sent)
    /\ WF_vars(Processor)
    /\ WF_vars(Carry)

FairSpec == Spec /\ Fairness

-----------------------------------------------------------------------------
(* Properties.                                                             *)

\* The command is started at most once for a note, however often and wherever
\* the processor stops, unless the state file could not be written
\* (processor.go: "never run a command twice, even if it fails").
RunOnce == \A k \in Slots \ lapsed : ran[k] <= 1

\* Where a command has run, its note is remembered; while one is about to, it
\* has not run before.  (The strengthening of RunOnce that is inductive.)
RememberedFirst ==
    /\ pstate \subseteq pseen /\ pseen \subseteq pstate \cup lapsed
    /\ \A k \in Slots \ lapsed : ran[k] > 0 => k \in pstate
    /\ processor.pc = "running" /\ processor.key \notin lapsed =>
         processor.key \in pstate /\ ran[processor.key] = 0

OnceInv == RememberedFirst /\ RunOnce

\* Of one e-mail, each answer beyond the first is the consequence of a fault:
\* a stop, a state file that was not written, a file that arrived twice, a
\* send that failed after all.
SentCountsFaults == \A m \in Mail : sent[m] <= 1 + faults

\* Why SentCountsFaults holds: what may still become an answer to m counts as
\* one.  An e-mail that may yet be converted ...
ToConvert(m) == m \notin gstate /\ ~(gateway.pc = "written" /\ gateway.key = m)

\* ... the notes that may yet be taken, now or after a restart ...
NotesFor(m) == {k \in Slots \ pstate : notes[k] = m}

\* ... and the replies that may yet be sent, beside the one that is.
MailsFor(m) ==
    {k \in Slots \ gstate :
        mails[k] = m /\ ~(/\ gateway.pc \in {"sending", "sent"}
                         /\ gateway.key = k /\ gateway.note = m)}

One(holds) == IF holds THEN 1 ELSE 0

Answers(m) ==
    One(ToConvert(m)) + requests[m] + Cardinality(NotesFor(m))
    + One(processor.note = m) + replies[m] + Cardinality(MailsFor(m))
    + One(gateway.pc = "sending" /\ gateway.note = m) + sent[m]

AnswersBounded ==
    \A m \in Mail : /\ IsFiniteSet(NotesFor(m)) /\ IsFiniteSet(MailsFor(m))
                    /\ Answers(m) <= 1 + faults

Dealt(m) == sent[m] > 0 \/ m \in closed

\* Where an e-mail is between its conversion and its answer.
Underway(m) ==
    \/ requests[m] > 0 \/ \E k \in Slots \ pseen : notes[k] = m
    \/ processor.note = m
    \/ replies[m] > 0 \/ \E k \in Slots \ gseen : mails[k] = m

\* No e-mail is forgotten: once the gateway has converted it, it is on its way
\* somewhere, or it was answered, refused, or lost to what Accounted names.
NoneForgotten ==
    \A m \in Mail :
       m \in gseen \/ (gateway.pc = "written" /\ gateway.key = m) =>
          Underway(m) \/ Dealt(m) \/ m \in shadowed

SentNoted ==
    /\ gstate \subseteq gseen
    /\ gateway.pc \in {"sent", "clearing"} => sent[gateway.note] > 0
    /\ gateway.pc = "clearing" => gateway.key \in gseen

IInv == OnceInv /\ AnswersBounded /\ NoneForgotten /\ SentNoted

\* Every e-mail is answered in the end, or it or a note of it was refused, or
\* lost to a fault or to the user, or had a path remembered for another.
Accounted == \A m \in Mail : <>(Dealt(m) \/ m \in shadowed)

\* The same without the paths (docs/GATEWAY.md: "when it arrives in the gateway
\* node's inbox, the rest of the file is sent as the e-mail body").
Answered == \A m \in Mail : <>Dealt(m)
=============================================================================
