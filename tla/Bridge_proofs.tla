---------------------------- MODULE Bridge_proofs ---------------------------
(***************************************************************************)
(* For any number of e-mails and paths, and faults at any time: the types, *)
(* that no command is started twice for a note, that no e-mail has more    *)
(* answers than one and one for every fault, and that none is forgotten.   *)
(***************************************************************************)
EXTENDS Bridge, FiniteSetTheorems, TLAPS

\* Doing nothing is one of the things a gateway and a processor may do.
LEMMA RestingType == Resting \in GatewayDoing /\ Resting \in ProcessorDoing
BY DEF Resting, GatewayDoing, ProcessorDoing

\* remember keeps the types, of whatever has been dealt with.
LEMMA GatewayRemembersType ==
    ASSUME TypeOK, NEW k \in Key, GatewayRemembers(k)
    PROVE  gseen' \subseteq Key /\ gstate' \subseteq Key /\ faults' \in Nat
BY BridgeAssumption DEF TypeOK, GatewayRemembers, Fault, NoFault

LEMMA ProcessorRemembersType ==
    ASSUME TypeOK, NEW k \in Slots, ProcessorRemembers(k)
    PROVE  /\ pseen' \subseteq Slots /\ pstate' \subseteq Slots
           /\ lapsed' \subseteq Slots /\ faults' \in Nat
<1>1. pseen \subseteq Slots /\ pstate \subseteq Slots /\ lapsed \subseteq Slots
  BY DEF TypeOK
<1>2. pseen' \subseteq Slots
  BY <1>1 DEF ProcessorRemembers
<1>3. pstate' \subseteq Slots /\ lapsed' \subseteq Slots
  BY <1>1 DEF ProcessorRemembers
<1>4. faults' \in Nat
  BY DEF ProcessorRemembers, Fault, TypeOK
<1> QED BY <1>2, <1>3, <1>4

\* Every step of the gateway keeps the types (inboundOnce, emailOnce).
LEMMA GatewayType == ASSUME TypeOK, Gateway PROVE TypeOK'
<1> USE BridgeAssumption, RestingType DEF TypeOK, gvars, pvars
<1>1. CASE RememberMail
  BY <1>1, GatewayRemembersType DEF RememberMail, Key, Resting
<1>2. CASE RememberSent
  <2>1. gateway.key \in Slots /\ gateway \in GatewayDoing
    BY <1>2 DEF RememberSent
  <2>2. mails[gateway.key] \in Mail \cup {None}
    BY <2>1
  <2>3. gateway' \in GatewayDoing /\ gateway'.pc # "written"
        /\ (gateway'.pc # "idle" => gateway'.note \in Mail)
        /\ (gateway'.pc \in {"sending", "sent", "clearing"} => gateway'.key \in Slots)
    BY <1>2, <2>1 DEF RememberSent, GatewayDoing, Resting
  <2> QED BY <1>2, <2>1, <2>2, <2>3, GatewayRemembersType DEF RememberSent, Key
<1>3. CASE RemoveSent
  BY <1>3 DEF RemoveSent, Resting
<1>4. CASE Sent
  <2>1. sent' \in [Mail -> Nat]
    BY <1>4 DEF Sent
  <2>2. /\ gateway' \in GatewayDoing /\ gateway'.pc = "sent"
        /\ gateway'.key \in Slots /\ gateway'.note \in Mail
    BY <1>4 DEF Sent, GatewayDoing
  <2> QED BY <1>4, <2>1, <2>2 DEF Sent
<1>5. CASE SendFails
  BY <1>5 DEF SendFails, Fault, NoFault, Resting
<1>6. ASSUME NEW m \in Mail, Ignore(m) PROVE TypeOK'
  BY <1>6, GatewayRemembersType DEF Ignore, Key
<1>7. ASSUME NEW m \in Mail, Convert(m) PROVE TypeOK'
  BY <1>7 DEF Convert, Fault, NoFault, GatewayDoing, Key
<1>8. ASSUME NEW k \in Slots, Refuse(k) PROVE TypeOK'
  BY <1>8, GatewayRemembersType DEF Refuse, Key
<1>9. ASSUME NEW k \in Slots, Send(k) PROVE TypeOK'
  BY <1>9 DEF Send, GatewayDoing, Key
<1> QED BY <1>1, <1>2, <1>3, <1>4, <1>5, <1>6, <1>7, <1>8, <1>9 DEF Gateway

\* So does every step of the processor (Once, handle, reply).
LEMMA ProcessorType == ASSUME TypeOK, Processor PROVE TypeOK'
<1> USE BridgeAssumption, RestingType DEF TypeOK, gvars, pvars
<1>1. CASE Run
  BY <1>1 DEF Run, ProcessorDoing
<1>2. CASE NoAnswer
  BY <1>2 DEF NoAnswer, Resting
<1>3. CASE Reply
  BY <1>3 DEF Reply, Fault, NoFault, Resting
<1>4. ASSUME NEW k \in Slots, Reject(k) PROVE TypeOK'
  BY <1>4, ProcessorRemembersType DEF Reject
<1>5. ASSUME NEW k \in Slots, Take(k) PROVE TypeOK'
  BY <1>5, ProcessorRemembersType DEF Take, ProcessorDoing
<1> QED BY <1>1, <1>2, <1>3, <1>4, <1>5 DEF Processor

\* And everything else: AMail, the user, a stop.
LEMMA OtherType ==
    ASSUME TypeOK,
           \/ GatewayStops \/ ProcessorStops \/ Carry
           \/ \E k \in Slots : DeleteNote(k) \/ DeleteMail(k)
    PROVE  TypeOK'
<1> USE BridgeAssumption, RestingType DEF TypeOK, gvars, pvars
<1>1. CASE GatewayStops
  BY <1>1 DEF GatewayStops, Fault, Resting
<1>2. CASE ProcessorStops
  BY <1>2 DEF ProcessorStops, Fault, Resting, ProcessorDoing
<1>3. ASSUME NEW m \in Mail, RequestArrives(m) PROVE TypeOK'
  BY <1>3 DEF RequestArrives, Fault, NoFault
<1>4. ASSUME NEW m \in Mail, ReplyArrives(m) PROVE TypeOK'
  BY <1>4 DEF ReplyArrives, Fault, NoFault
<1>5. ASSUME NEW k \in Slots, DeleteNote(k) PROVE TypeOK'
  BY <1>5 DEF DeleteNote
<1>6. ASSUME NEW k \in Slots, DeleteMail(k) PROVE TypeOK'
  BY <1>6 DEF DeleteMail
<1> QED BY <1>1, <1>2, <1>3, <1>4, <1>5, <1>6 DEF Carry

\* Every reachable state of gateway, processor and inboxes has the types of
\* TypeOK, for any number of e-mails, paths and faults.
THEOREM BridgeTypeCorrect == Spec => []TypeOK
<1>1. Init => TypeOK
  BY BridgeAssumption, RestingType DEF Init, TypeOK, Resting
<1>2. TypeOK /\ [Next]_vars => TypeOK'
  <2>1. CASE Next
    BY <2>1, GatewayType, ProcessorType, OtherType DEF Next
  <2>2. CASE UNCHANGED vars
    BY <2>2 DEF vars, gvars, pvars, TypeOK, GatewayDoing, ProcessorDoing
  <2> QED BY <2>1, <2>2
<1> QED BY <1>1, <1>2, PTL DEF Spec

\* RunOnce is inductive with RememberedFirst: the key is in memory and in the
\* state file before the command is started, and a restart reads the file.
LEMMA ProcessorKeepsOnce == ASSUME TypeOK, OnceInv, Processor PROVE OnceInv'
<1> USE DEF OnceInv, RememberedFirst, RunOnce
<1>1. CASE Run
  <2>1. processor.key \in Slots /\ processor'.pc = "replying"
    BY <1>1 DEF Run, TypeOK, ProcessorDoing
  <2>2. ASSUME NEW k \in Slots \ lapsed, ran'[k] > 0
        PROVE  k \in pstate /\ ran'[k] <= 1
    <3>1. CASE k = processor.key
      BY <1>1, <2>2, <3>1 DEF Run, TypeOK
    <3>2. CASE k # processor.key
      BY <1>1, <2>2, <3>2 DEF Run, TypeOK
    <3> QED BY <3>1, <3>2
  <2>3. ran' \in [Slots -> Nat]
    BY <1>1 DEF Run, TypeOK
  <2>4. UNCHANGED <<pseen, pstate, lapsed>>
    BY <1>1 DEF Run
  <2> QED BY <2>1, <2>2, <2>3, <2>4
<1>2. CASE NoAnswer
  BY <1>2 DEF NoAnswer, Resting
<1>3. CASE Reply
  BY <1>3 DEF Reply, Resting
<1>4. ASSUME NEW k \in Slots, Reject(k) PROVE OnceInv'
  BY <1>4 DEF Reject, ProcessorRemembers
<1>5. ASSUME NEW k \in Slots, Take(k) PROVE OnceInv'
  \* A key that was not seen is not in the state file, so unless writing the
  \* file has failed its command has never been started.
  <2>1. k \notin pseen /\ k \notin pstate /\ ran' = ran
    BY <1>5 DEF Take
  <2>2. k \notin lapsed => ran[k] = 0
    BY <2>1 DEF TypeOK
  <2>3. processor'.key = k /\ ProcessorRemembers(k)
    BY <1>5 DEF Take
  <2> QED BY <2>1, <2>2, <2>3 DEF ProcessorRemembers
<1> QED BY <1>1, <1>2, <1>3, <1>4, <1>5 DEF Processor

LEMMA OthersKeepOnce ==
    ASSUME OnceInv,
           \/ Gateway \/ GatewayStops \/ Carry
           \/ \E k \in Slots : DeleteNote(k) \/ DeleteMail(k)
    PROVE  OnceInv'
<1>1. UNCHANGED <<processor, pseen, pstate, ran, lapsed>>
  BY DEF Gateway, RememberMail, RememberSent, RemoveSent, Sent, SendFails,
         Ignore, Convert, Refuse, Send, GatewayStops, Carry, RequestArrives,
         ReplyArrives, DeleteNote, DeleteMail, gvars, pvars
<1> QED BY <1>1 DEF OnceInv, RememberedFirst, RunOnce

\* The strengthening of RunOnce holds in every behaviour.
THEOREM OnceAlways == Spec => []OnceInv
<1>1. Init => OnceInv
  BY DEF Init, OnceInv, RememberedFirst, RunOnce, Resting
<1>2. TypeOK /\ OnceInv /\ [Next]_vars => OnceInv'
  <2> SUFFICES ASSUME TypeOK, OnceInv, [Next]_vars PROVE OnceInv'
    OBVIOUS
  <2>1. CASE ProcessorStops
    BY <2>1 DEF ProcessorStops, Resting, OnceInv, RememberedFirst, RunOnce
  <2>2. CASE UNCHANGED vars
    BY <2>2 DEF vars, pvars, OnceInv, RememberedFirst, RunOnce
  <2> QED BY <2>1, <2>2, ProcessorKeepsOnce, OthersKeepOnce DEF Next
<1> QED BY <1>1, <1>2, BridgeTypeCorrect, PTL DEF Spec

\* No command is started twice for a note whose key the state file has,
\* however often and wherever the processor stops.
THEOREM CommandsRunOnce == Spec => []RunOnce
<1>1. OnceInv => RunOnce
  BY DEF OnceInv
<1> QED BY <1>1, OnceAlways, PTL

-----------------------------------------------------------------------------
(* How many answers an e-mail can get.  No step adds to what may become an *)
(* answer to it, but for a fault, which adds one.                          *)

LEMMA SmallerSet ==
    ASSUME NEW S, NEW T, IsFiniteSet(S), T \subseteq S
    PROVE  /\ IsFiniteSet(T) /\ Cardinality(T) <= Cardinality(S)
           /\ Cardinality(T) \in Nat /\ Cardinality(S) \in Nat
BY FS_Subset, FS_CardinalityType

LEMMA OneMore ==
    ASSUME NEW S, NEW T, NEW x, IsFiniteSet(S), T \subseteq S \cup {x}
    PROVE  /\ IsFiniteSet(T) /\ Cardinality(T) <= Cardinality(S) + 1
           /\ Cardinality(T) \in Nat /\ Cardinality(S) \in Nat
<1>1. Cardinality(S) \in Nat
  BY FS_CardinalityType
<1>2. /\ IsFiniteSet(S \cup {x})
      /\ Cardinality(S \cup {x}) = IF x \in S THEN Cardinality(S) ELSE Cardinality(S) + 1
  BY FS_AddElement
<1>3. /\ IsFiniteSet(T) /\ Cardinality(T) <= Cardinality(S \cup {x})
      /\ Cardinality(T) \in Nat
  BY <1>2, SmallerSet
<1> QED BY <1>1, <1>2, <1>3

LEMMA OneLess ==
    ASSUME NEW S, NEW T, NEW x \in S, IsFiniteSet(S), T \subseteq S \ {x}
    PROVE  /\ IsFiniteSet(T) /\ Cardinality(T) <= Cardinality(S) - 1
           /\ Cardinality(T) \in Nat /\ Cardinality(S) \in Nat
<1>1. IsFiniteSet(S \ {x}) /\ Cardinality(S \ {x}) = Cardinality(S) - 1
  BY FS_RemoveElement
<1> QED BY <1>1, SmallerSet, FS_CardinalityType

Finite(m) == IsFiniteSet(NotesFor(m)) /\ IsFiniteSet(MailsFor(m))

\* No more than before, and one for a fault.
NoMore(m) == Finite(m)' /\ Answers(m)' <= Answers(m) + (faults' - faults)

LEMMA AnswersTerms ==
    ASSUME TypeOK, NEW m \in Mail, Finite(m)
    PROVE  /\ One(ToConvert(m)) \in {0, 1} /\ One(processor.note = m) \in {0, 1}
           /\ One(gateway.pc = "sending" /\ gateway.note = m) \in {0, 1}
           /\ requests[m] \in Nat /\ replies[m] \in Nat /\ sent[m] \in Nat
           /\ Cardinality(NotesFor(m)) \in Nat /\ Cardinality(MailsFor(m)) \in Nat
           /\ faults \in Nat
BY FS_CardinalityType DEF TypeOK, Finite, One

\* What a gateway's step cannot touch, and a processor's.
LEMMA GatewayFrame ==
    ASSUME NEW m \in Mail, UNCHANGED <<notes, processor, pstate>>
    PROVE  NotesFor(m)' = NotesFor(m)
           /\ One(processor.note = m)' = One(processor.note = m)
BY DEF NotesFor, One

LEMMA ProcessorFrame ==
    ASSUME NEW m \in Mail, UNCHANGED <<mails, gateway, gstate, sent>>
    PROVE  /\ MailsFor(m)' = MailsFor(m) /\ sent'[m] = sent[m]
           /\ One(ToConvert(m))' = One(ToConvert(m))
           /\ One(gateway.pc = "sending" /\ gateway.note = m)'
                = One(gateway.pc = "sending" /\ gateway.note = m)
BY DEF MailsFor, ToConvert, One

\* A key in the state file is one less to deal with (remember).
LEMMA GatewayRemembersOnce ==
    ASSUME TypeOK, NEW m \in Mail, NEW k \in Key, GatewayRemembers(k)
    PROVE  /\ gstate \subseteq gstate'
           /\ k \in gstate' \/ faults' = faults + 1
           /\ faults' >= faults
BY DEF GatewayRemembers, NoFault, Fault, TypeOK

\* Sending m, and the state of its e-mail, as numbers.
Mailing(m) == One(gateway.pc = "sending" /\ gateway.note = m)

LEMMA GatewaySum ==
    ASSUME TypeOK, TypeOK', NEW m \in Mail, Finite(m),
           UNCHANGED <<notes, processor, pstate, replies>>, IsFiniteSet(MailsFor(m))',
           One(ToConvert(m))' + requests'[m] + Cardinality(MailsFor(m))' + Mailing(m)'
              + sent'[m]
           <= One(ToConvert(m)) + requests[m] + Cardinality(MailsFor(m)) + Mailing(m)
              + sent[m] + (faults' - faults)
    PROVE  NoMore(m)
<1>1. NotesFor(m)' = NotesFor(m) /\ One(processor.note = m)' = One(processor.note = m)
  BY GatewayFrame
<1>2. Finite(m)'
  BY <1>1 DEF Finite
<1>3. /\ One(ToConvert(m)) \in {0, 1} /\ One(processor.note = m) \in {0, 1}
      /\ Mailing(m) \in {0, 1}
      /\ requests[m] \in Nat /\ replies[m] \in Nat /\ sent[m] \in Nat
      /\ Cardinality(NotesFor(m)) \in Nat /\ Cardinality(MailsFor(m)) \in Nat
      /\ faults \in Nat
  BY AnswersTerms DEF Mailing
<1>4. /\ One(ToConvert(m))' \in {0, 1} /\ Mailing(m)' \in {0, 1}
      /\ requests'[m] \in Nat /\ sent'[m] \in Nat
      /\ Cardinality(MailsFor(m))' \in Nat /\ faults' \in Nat
  BY <1>2, FS_CardinalityType DEF TypeOK, Finite, Mailing, One
<1>5. Answers(m)' <= Answers(m) + (faults' - faults)
  <2>1. Answers(m) = One(ToConvert(m)) + requests[m] + Cardinality(NotesFor(m))
           + One(processor.note = m) + replies[m] + Cardinality(MailsFor(m))
           + Mailing(m) + sent[m]
    BY DEF Answers, Mailing
  <2>2. Answers(m)' = One(ToConvert(m))' + requests'[m] + Cardinality(NotesFor(m))
           + One(processor.note = m) + replies[m] + Cardinality(MailsFor(m))'
           + Mailing(m)' + sent'[m]
    BY <1>1 DEF Answers, Mailing
  <2> QED BY <1>3, <1>4, <2>1, <2>2
<1> QED BY <1>2, <1>5 DEF NoMore

LEMMA GatewayAnswers ==
    ASSUME TypeOK, TypeOK', SentNoted, NEW m \in Mail, Finite(m),
           Gateway \/ GatewayStops
    PROVE  NoMore(m)
<1> DEFINE A == MailsFor(m)  B == MailsFor(m)'
<1>1. /\ One(ToConvert(m)) \in {0, 1} /\ Mailing(m) \in {0, 1}
      /\ requests[m] \in Nat /\ sent[m] \in Nat /\ IsFiniteSet(A)
      /\ Cardinality(A) \in Nat /\ faults \in Nat /\ faults' \in Nat
  BY AnswersTerms DEF Mailing, Finite, TypeOK
<1>2. One(ToConvert(m))' \in {0, 1} /\ Mailing(m)' \in {0, 1}
  BY DEF Mailing, One
<1>3. UNCHANGED <<notes, processor, pstate, replies>>
  BY DEF Gateway, RememberMail, RememberSent, RemoveSent, Sent, SendFails,
         Ignore, Convert, Refuse, Send, GatewayStops, gvars, pvars
<1> HIDE DEF A, B
<1>4. ASSUME NEW k \in Key, GatewayRemembers(k), UNCHANGED <<mails, requests, sent>>,
             ToConvert(m)' => ToConvert(m) \/ (k = m /\ k \notin gstate'),
             Mailing(m)' = Mailing(m),
             B \subseteq A \/ (B \subseteq A \cup {k} /\ k \in Slots /\ k \notin gstate')
      PROVE  NoMore(m)
  <2>1. faults' >= faults /\ (k \notin gstate' => faults' = faults + 1)
    BY <1>4, GatewayRemembersOnce
  <2>2. k \in Slots => k # m
    BY BridgeAssumption
  <2>3. CASE B \subseteq A
    <3>1. IsFiniteSet(B) /\ Cardinality(B) <= Cardinality(A) /\ Cardinality(B) \in Nat
      BY <1>1, <2>3, SmallerSet
    <3>2. One(ToConvert(m))' <= One(ToConvert(m)) + (faults' - faults)
      <4>1. CASE ~ToConvert(m)'
        <5>1. One(ToConvert(m))' = 0
          BY <4>1 DEF One
        <5> QED BY <1>1, <2>1, <5>1
      <4>2. CASE ToConvert(m)
        <5>1. One(ToConvert(m)) = 1
          BY <4>2 DEF One
        <5> QED BY <1>1, <1>2, <2>1, <5>1
      <4>3. CASE k \notin gstate'
        BY <1>1, <1>2, <2>1, <4>3
      <4> QED BY <1>4, <4>1, <4>2, <4>3
    <3> QED BY <1>1, <1>2, <1>3, <1>4, <3>1, <3>2, GatewaySum DEF A, B
  <2>4. CASE B \subseteq A \cup {k} /\ k \in Slots /\ k \notin gstate'
    <3>1. IsFiniteSet(B) /\ Cardinality(B) <= Cardinality(A) + 1 /\ Cardinality(B) \in Nat
      BY <1>1, <2>4, OneMore
    <3>2. One(ToConvert(m))' <= One(ToConvert(m))
      BY <1>1, <1>4, <2>2, <2>4 DEF One
    <3> QED BY <1>1, <1>2, <1>3, <1>4, <2>1, <2>4, <3>1, <3>2, GatewaySum DEF A, B
  <2> QED BY <1>4, <2>3, <2>4
<1>5. CASE RememberMail
  <2>1. /\ gateway.key \in Key /\ GatewayRemembers(gateway.key) /\ gateway'.pc = "idle"
        /\ UNCHANGED <<mails, requests, sent>> /\ gateway.pc = "written"
    BY <1>5 DEF RememberMail, Resting, TypeOK, Key
  <2>2. B \subseteq A
    BY <2>1 DEF A, B, MailsFor, GatewayRemembers
  <2>3. Mailing(m)' = Mailing(m)
    BY <2>1 DEF Mailing, One
  <2>4. ToConvert(m)' => ToConvert(m) \/ (gateway.key = m /\ gateway.key \notin gstate')
    BY <2>1 DEF ToConvert, GatewayRemembers
  <2> QED BY <1>4, <2>1, <2>2, <2>3, <2>4
<1>6. CASE RememberSent
  <2>1. /\ gateway.key \in Slots /\ gateway.key \in Key
        /\ GatewayRemembers(gateway.key) /\ gateway'.pc \in {"idle", "clearing"}
        /\ UNCHANGED <<mails, requests, sent>> /\ gateway.pc = "sent"
    BY <1>6 DEF RememberSent, Resting, TypeOK, Key, GatewayDoing
  <2>2. B \subseteq A \/ (B \subseteq A \cup {gateway.key} /\ gateway.key \notin gstate')
    BY <2>1 DEF A, B, MailsFor, GatewayRemembers
  <2>3. Mailing(m)' = Mailing(m)
    BY <2>1 DEF Mailing, One
  <2>4. ToConvert(m)' => ToConvert(m)
    BY <2>1 DEF ToConvert, GatewayRemembers
  <2> QED BY <1>4, <2>1, <2>2, <2>3, <2>4
<1>7. ASSUME NEW k \in Key, gateway.pc = "idle", gateway' = gateway,
             GatewayRemembers(k), UNCHANGED <<mails, requests, sent>>
      PROVE  NoMore(m)
  <2>1. B \subseteq A
    BY <1>7 DEF A, B, MailsFor, GatewayRemembers
  <2>2. Mailing(m)' = Mailing(m)
    BY <1>7 DEF Mailing, One
  <2>3. ToConvert(m)' => ToConvert(m)
    BY <1>7 DEF ToConvert, GatewayRemembers
  <2> QED BY <1>4, <1>7, <2>1, <2>2, <2>3
<1>8. ASSUME NEW x \in Mail, Ignore(x) PROVE NoMore(m)
  BY <1>7, <1>8 DEF Ignore, Key
<1>9. ASSUME NEW k \in Slots, Refuse(k) PROVE NoMore(m)
  BY <1>7, <1>9 DEF Refuse, Key
<1>10. ASSUME NEW x \in Mail, Convert(x) PROVE NoMore(m)
  <2>1. /\ gateway.pc = "idle" /\ x \notin gstate /\ gateway'.pc = "written"
        /\ gateway'.key = x /\ UNCHANGED <<mails, gstate, sent>>
    BY <1>10 DEF Convert, SentNoted
  <2>2. B = A
    BY <2>1 DEF A, B, MailsFor
  <2>3. Mailing(m)' = 0 /\ Mailing(m) = 0
    BY <2>1 DEF Mailing, One
  <2>4. /\ m = x => One(ToConvert(m)) = 1 /\ One(ToConvert(m))' = 0
        /\ m # x => One(ToConvert(m))' = One(ToConvert(m))
    BY <2>1 DEF ToConvert, One
  <2>5. requests'[m] <= requests[m] + (IF m = x THEN 1 ELSE 0)
        /\ faults' >= faults /\ requests'[m] \in Nat
    BY <1>10, <1>1 DEF Convert, TypeOK, NoFault, Fault
  <2> QED BY <1>1, <1>2, <1>3, <2>1, <2>2, <2>3, <2>4, <2>5, GatewaySum DEF A, B
<1>11. ASSUME NEW k \in Slots, Send(k) PROVE NoMore(m)
  <2>1. /\ gateway.pc = "idle" /\ k \notin gstate
        /\ gateway'.pc = "sending" /\ gateway'.key = k /\ gateway'.note = mails[k]
        /\ UNCHANGED <<mails, gstate, sent, requests, faults>>
    BY <1>11 DEF Send, SentNoted
  <2>2. One(ToConvert(m))' = One(ToConvert(m)) /\ Mailing(m) = 0
    BY <2>1 DEF ToConvert, One, Mailing
  <2>3. CASE mails[k] = m
    <3>1. k \in A /\ B \subseteq A \ {k}
      BY <2>1, <2>3 DEF A, B, MailsFor
    <3>2. IsFiniteSet(B) /\ Cardinality(B) <= Cardinality(A) - 1 /\ Cardinality(B) \in Nat
      BY <1>1, <3>1, OneLess
    <3> QED BY <1>1, <1>2, <1>3, <2>1, <2>2, <3>2, GatewaySum DEF A, B
  <2>4. CASE mails[k] # m
    <3>1. B \subseteq A
      BY <2>1, <2>4 DEF A, B, MailsFor
    <3>2. IsFiniteSet(B) /\ Cardinality(B) <= Cardinality(A) /\ Cardinality(B) \in Nat
      BY <1>1, <3>1, SmallerSet
    <3>3. Mailing(m)' = 0
      BY <2>1, <2>4 DEF Mailing, One
    <3> QED BY <1>1, <1>2, <1>3, <2>1, <2>2, <3>2, <3>3, GatewaySum DEF A, B
  <2> QED BY <2>3, <2>4
<1>12. CASE Sent
  <2>1. /\ gateway.pc = "sending" /\ gateway'.pc = "sent"
        /\ gateway'.key = gateway.key /\ gateway'.note = gateway.note
        /\ UNCHANGED <<mails, gstate, requests, faults>>
    BY <1>12 DEF Sent, TypeOK, GatewayDoing
  <2>2. B = A
    BY <2>1 DEF A, B, MailsFor
  <2>3. One(ToConvert(m))' = One(ToConvert(m))
    BY <2>1 DEF ToConvert, One
  <2>4. sent'[m] + Mailing(m)' = sent[m] + Mailing(m)
    BY <1>12, <2>1 DEF Sent, TypeOK, Mailing, One
  <2> QED BY <1>1, <1>2, <1>3, <2>1, <2>2, <2>3, <2>4, GatewaySum DEF A, B, TypeOK
<1>13. CASE SendFails
  <2>1. /\ gateway.pc = "sending" /\ gateway'.pc = "idle"
        /\ UNCHANGED <<mails, gstate, requests>>
    BY <1>13 DEF SendFails, Resting
  <2>2. One(ToConvert(m))' = One(ToConvert(m))
    BY <2>1 DEF ToConvert, One
  <2>3. sent'[m] <= sent[m] + (faults' - faults) /\ sent'[m] \in Nat
    BY <1>13, <1>1 DEF SendFails, TypeOK, Fault, NoFault
  <2>4. CASE gateway.note = m
    <3>1. B \subseteq A \cup {gateway.key}
      BY <2>1 DEF A, B, MailsFor
    <3>2. IsFiniteSet(B) /\ Cardinality(B) <= Cardinality(A) + 1 /\ Cardinality(B) \in Nat
      BY <1>1, <3>1, OneMore
    <3>3. Mailing(m) = 1 /\ Mailing(m)' = 0
      BY <2>1, <2>4 DEF Mailing, One
    <3> QED BY <1>1, <1>2, <1>3, <2>1, <2>2, <2>3, <3>2, <3>3, GatewaySum DEF A, B
  <2>5. CASE gateway.note # m
    <3>1. B = A
      BY <2>1, <2>5 DEF A, B, MailsFor
    <3>2. Mailing(m) = 0 /\ Mailing(m)' = 0
      BY <2>1, <2>5 DEF Mailing, One
    <3> QED BY <1>1, <1>2, <1>3, <2>1, <2>2, <2>3, <3>1, <3>2, GatewaySum DEF A, B
  <2> QED BY <2>4, <2>5
<1>14. CASE RemoveSent
  <2>1. /\ gateway.pc = "clearing" /\ gateway'.pc = "idle"
        /\ mails' = [mails EXCEPT ![gateway.key] = None]
        /\ UNCHANGED <<gstate, sent, requests, faults>>
    BY <1>14 DEF RemoveSent, Resting
  <2>2. B \subseteq A
    BY <2>1, BridgeAssumption DEF A, B, MailsFor, TypeOK
  <2>3. IsFiniteSet(B) /\ Cardinality(B) <= Cardinality(A) /\ Cardinality(B) \in Nat
    BY <1>1, <2>2, SmallerSet
  <2>4. One(ToConvert(m))' = One(ToConvert(m)) /\ Mailing(m)' = Mailing(m)
    BY <2>1 DEF ToConvert, One, Mailing
  <2> QED BY <1>1, <1>2, <1>3, <2>1, <2>3, <2>4, GatewaySum DEF A, B
<1>15. CASE GatewayStops
  <2>1. /\ gateway'.pc = "idle" /\ faults' = faults + 1
        /\ UNCHANGED <<mails, gstate, sent, requests>>
    BY <1>15 DEF GatewayStops, Fault, Resting
  <2>2. Mailing(m)' = 0
    BY <2>1 DEF Mailing, One
  <2>3. CASE gateway.pc \in {"sending", "sent"}
    <3>1. B \subseteq A \cup {gateway.key}
      BY <2>1 DEF A, B, MailsFor
    <3>2. IsFiniteSet(B) /\ Cardinality(B) <= Cardinality(A) + 1 /\ Cardinality(B) \in Nat
      BY <1>1, <3>1, OneMore
    <3>3. One(ToConvert(m))' = One(ToConvert(m))
      BY <2>1, <2>3 DEF ToConvert, One
    <3> QED BY <1>1, <1>2, <1>3, <2>1, <2>2, <3>2, <3>3, GatewaySum DEF A, B, TypeOK
  <2>4. CASE gateway.pc \notin {"sending", "sent"}
    <3>1. B = A
      BY <2>1, <2>4 DEF A, B, MailsFor
    <3> QED BY <1>1, <1>2, <1>3, <2>1, <2>2, <3>1, GatewaySum DEF A, B
  <2> QED BY <2>3, <2>4
<1> QED BY <1>5, <1>6, <1>8, <1>9, <1>10, <1>11, <1>12, <1>13, <1>14, <1>15 DEF Gateway

\* A processor's step, AMail's and the user's leave the gateway alone, so that
\* its terms of Answers need not be looked at again.
LEMMA ProcessorSum ==
    ASSUME TypeOK, TypeOK', NEW m \in Mail, Finite(m),
           UNCHANGED <<mails, gateway, gstate, sent>>, IsFiniteSet(NotesFor(m))',
           requests'[m] + Cardinality(NotesFor(m))' + One(processor.note = m)'
              + replies'[m]
           <= requests[m] + Cardinality(NotesFor(m)) + One(processor.note = m)
              + replies[m] + (faults' - faults)
    PROVE  NoMore(m)
<1>1. /\ MailsFor(m)' = MailsFor(m) /\ sent'[m] = sent[m]
      /\ One(ToConvert(m))' = One(ToConvert(m)) /\ Mailing(m)' = Mailing(m)
  BY ProcessorFrame DEF Mailing
<1>2. Finite(m)'
  BY <1>1 DEF Finite
<1>3. /\ One(ToConvert(m)) \in {0, 1} /\ One(processor.note = m) \in {0, 1}
      /\ Mailing(m) \in {0, 1}
      /\ requests[m] \in Nat /\ replies[m] \in Nat /\ sent[m] \in Nat
      /\ Cardinality(NotesFor(m)) \in Nat /\ Cardinality(MailsFor(m)) \in Nat
      /\ faults \in Nat
  BY AnswersTerms DEF Mailing
<1>4. /\ One(processor.note = m)' \in {0, 1}
      /\ requests'[m] \in Nat /\ replies'[m] \in Nat
      /\ Cardinality(NotesFor(m))' \in Nat /\ faults' \in Nat
  BY <1>2, FS_CardinalityType DEF TypeOK, Finite, One
<1>5. Answers(m)' <= Answers(m) + (faults' - faults)
  <2>1. Answers(m) = One(ToConvert(m)) + requests[m] + Cardinality(NotesFor(m))
           + One(processor.note = m) + replies[m] + Cardinality(MailsFor(m))
           + Mailing(m) + sent[m]
    BY DEF Answers, Mailing
  <2>2. Answers(m)' = One(ToConvert(m)) + requests'[m] + Cardinality(NotesFor(m))'
           + One(processor.note = m)' + replies'[m] + Cardinality(MailsFor(m))
           + Mailing(m) + sent[m]
    BY <1>1 DEF Answers, Mailing
  <2> QED BY <1>3, <1>4, <2>1, <2>2
<1> QED BY <1>2, <1>5 DEF NoMore

LEMMA ProcessorAnswers ==
    ASSUME TypeOK, TypeOK', OnceInv, NEW m \in Mail, Finite(m),
           Processor \/ ProcessorStops
    PROVE  NoMore(m)
<1> DEFINE A == NotesFor(m)  B == NotesFor(m)'
<1>1. /\ One(processor.note = m) \in {0, 1} /\ One(processor.note = m)' \in {0, 1}
      /\ requests[m] \in Nat /\ replies[m] \in Nat /\ IsFiniteSet(A)
      /\ Cardinality(A) \in Nat /\ faults \in Nat /\ faults' \in Nat
  BY AnswersTerms DEF One, Finite, TypeOK
<1>2. None \notin Mail /\ Resting.note = None
  BY BridgeAssumption DEF Resting
<1>3. UNCHANGED <<mails, gateway, gstate, sent, notes, requests>>
  BY DEF Processor, Run, NoAnswer, Reply, Reject, Take, ProcessorStops, gvars
<1> HIDE DEF A, B
<1>4. ASSUME UNCHANGED pstate PROVE B = A
  BY <1>3, <1>4 DEF A, B, NotesFor
<1>5. CASE Run
  <2>1. processor'.note = processor.note /\ UNCHANGED <<pstate, replies, faults>>
    BY <1>5 DEF Run, TypeOK, ProcessorDoing
  <2>2. One(processor.note = m)' = One(processor.note = m)
    BY <2>1 DEF One
  <2> QED BY <1>1, <1>3, <1>4, <2>1, <2>2, ProcessorSum DEF A, B
<1>6. ASSUME processor' = Resting, UNCHANGED <<pstate, replies>>, faults' >= faults
      PROVE  NoMore(m)
  <2>1. One(processor.note = m)' = 0
    BY <1>2, <1>6 DEF One
  <2> QED BY <1>1, <1>3, <1>4, <1>6, <2>1, ProcessorSum DEF A, B
<1>7. CASE NoAnswer
  BY <1>6, <1>7, <1>1 DEF NoAnswer
<1>8. CASE ProcessorStops
  BY <1>6, <1>8, <1>1 DEF ProcessorStops, Fault
<1>9. CASE Reply
  <2>1. processor' = Resting /\ UNCHANGED pstate /\ processor.note \in Mail
    BY <1>9 DEF Reply, TypeOK
  <2>2. One(processor.note = m)' = 0
    BY <1>2, <2>1 DEF One
  <2>3. replies'[m] <= replies[m] + One(processor.note = m) /\ faults' >= faults
        /\ replies'[m] \in Nat
    BY <1>1, <1>9, <2>1 DEF Reply, One, TypeOK, NoFault, Fault
  <2> QED BY <1>1, <1>3, <1>4, <2>1, <2>2, <2>3, ProcessorSum DEF A, B
<1>10. ASSUME NEW k \in Slots, ProcessorRemembers(k)
       PROVE  \/ k \in pstate' /\ pstate' = pstate \cup {k} /\ faults' = faults
              \/ pstate' = pstate /\ faults' = faults + 1
  BY <1>10 DEF ProcessorRemembers, Fault
<1>11. ASSUME NEW k \in Slots, Reject(k) PROVE NoMore(m)
  <2>1. UNCHANGED <<processor, replies>> /\ ProcessorRemembers(k)
    BY <1>11 DEF Reject
  <2>2. B \subseteq A /\ faults' >= faults
    BY <1>1, <1>3, <1>10, <2>1 DEF A, B, NotesFor
  <2>3. IsFiniteSet(B) /\ Cardinality(B) <= Cardinality(A) /\ Cardinality(B) \in Nat
    BY <1>1, <2>2, SmallerSet
  <2>4. One(processor.note = m)' = One(processor.note = m)
    BY <2>1 DEF One
  <2> QED BY <1>1, <1>3, <2>1, <2>2, <2>3, <2>4, ProcessorSum DEF A, B
<1>12. ASSUME NEW k \in Slots, Take(k) PROVE NoMore(m)
  \* The note goes from the inbox to the processor; where the state file could
  \* not be written it is in both.
  <2>1. /\ processor'.note = notes[k] /\ UNCHANGED replies /\ ProcessorRemembers(k)
        /\ k \notin pstate
    BY <1>12 DEF Take, OnceInv, RememberedFirst
  <2>2. B \subseteq A /\ faults' >= faults
    BY <1>1, <1>3, <1>10, <2>1 DEF A, B, NotesFor
  <2>3. IsFiniteSet(B) /\ Cardinality(B) <= Cardinality(A) /\ Cardinality(B) \in Nat
    BY <1>1, <2>2, SmallerSet
  <2>4. CASE notes[k] # m
    <3>1. One(processor.note = m)' = 0
      BY <2>1, <2>4 DEF One
    <3> QED BY <1>1, <1>3, <2>1, <2>2, <2>3, <3>1, ProcessorSum DEF A, B
  <2>5. CASE pstate' = pstate /\ faults' = faults + 1
    BY <1>1, <1>3, <2>1, <2>3, <2>5, ProcessorSum DEF A, B
  <2>6. CASE notes[k] = m /\ pstate' = pstate \cup {k} /\ faults' = faults
    <3>1. k \in A /\ B \subseteq A \ {k}
      BY <1>3, <2>1, <2>6 DEF A, B, NotesFor
    <3>2. Cardinality(B) <= Cardinality(A) - 1
      BY <1>1, <3>1, OneLess
    <3> QED BY <1>1, <1>3, <2>1, <2>3, <2>6, <3>2, ProcessorSum DEF A, B
  <2> QED BY <1>10, <2>1, <2>4, <2>5, <2>6
<1> QED BY <1>5, <1>7, <1>8, <1>9, <1>11, <1>12 DEF Processor

\* AMail takes a note from the outbox for each that it brings, or it is a
\* fault; and the user takes notes away.
LEMMA CarryAnswers ==
    ASSUME TypeOK, TypeOK', NEW m \in Mail, Finite(m), NEW x \in Mail,
           RequestArrives(x) \/ ReplyArrives(x)
    PROVE  NoMore(m)
<1>1. /\ requests[m] \in Nat /\ replies[m] \in Nat /\ sent[m] \in Nat
      /\ Mailing(m) \in {0, 1} /\ One(processor.note = m) \in {0, 1}
      /\ One(ToConvert(m)) \in {0, 1}
      /\ IsFiniteSet(NotesFor(m)) /\ IsFiniteSet(MailsFor(m))
      /\ Cardinality(NotesFor(m)) \in Nat /\ Cardinality(MailsFor(m)) \in Nat
      /\ faults \in Nat
  BY AnswersTerms DEF Mailing, Finite
<1>2. None # x /\ None # m
  BY BridgeAssumption
<1>3. CASE RequestArrives(x)
  <2>1. /\ UNCHANGED <<mails, gateway, gstate, sent, processor, replies, pstate>>
        /\ One(processor.note = m)' = One(processor.note = m)
    BY <1>3 DEF RequestArrives, gvars, One
  <2>2. PICK k \in Slots : notes[k] = None /\ notes' = [notes EXCEPT ![k] = x]
    BY <1>3 DEF RequestArrives, FirstFree
  <2>3. \/ requests' = [requests EXCEPT ![x] = @ - 1] /\ faults' = faults
        \/ requests' = requests /\ faults' = faults + 1
    BY <1>3 DEF RequestArrives, Fault, NoFault
  <2>4. CASE x = m
    <3>1. NotesFor(m)' \subseteq NotesFor(m) \cup {k}
      BY <2>1, <2>2 DEF NotesFor, TypeOK
    <3>2. /\ IsFiniteSet(NotesFor(m)') /\ Cardinality(NotesFor(m)') \in Nat
          /\ Cardinality(NotesFor(m)') <= Cardinality(NotesFor(m)) + 1
      BY <1>1, <3>1, OneMore
    <3>3. requests'[m] + 1 <= requests[m] + (faults' - faults) /\ requests'[m] \in Nat
      BY <1>1, <2>3, <2>4 DEF TypeOK
    <3> QED BY <1>1, <2>1, <2>3, <3>2, <3>3, ProcessorSum
  <2>5. CASE x # m
    <3>1. NotesFor(m)' = NotesFor(m)
      BY <1>2, <2>1, <2>2, <2>5 DEF NotesFor, TypeOK
    <3>2. requests'[m] = requests[m] /\ faults' >= faults /\ faults' \in Nat
      BY <1>1, <2>3, <2>5 DEF TypeOK
    <3> QED BY <1>1, <2>1, <3>1, <3>2, ProcessorSum
  <2> QED BY <2>4, <2>5
<1>4. CASE ReplyArrives(x)
  <2>1. /\ UNCHANGED <<notes, processor, gateway, gstate, sent, requests, pstate>>
        /\ NotesFor(m)' = NotesFor(m) /\ Mailing(m)' = Mailing(m)
        /\ One(ToConvert(m))' = One(ToConvert(m))
        /\ One(processor.note = m)' = One(processor.note = m)
    BY <1>4 DEF ReplyArrives, pvars, One, Mailing, ToConvert, NotesFor
  <2>2. PICK k \in Slots : mails[k] = None /\ mails' = [mails EXCEPT ![k] = x]
    BY <1>4 DEF ReplyArrives, FirstFree
  <2>3. \/ replies' = [replies EXCEPT ![x] = @ - 1] /\ faults' = faults
        \/ replies' = replies /\ faults' = faults + 1
    BY <1>4 DEF ReplyArrives, Fault, NoFault
  <2>4. /\ Answers(m) = One(ToConvert(m)) + requests[m] + Cardinality(NotesFor(m))
             + One(processor.note = m) + replies[m] + Cardinality(MailsFor(m))
             + Mailing(m) + sent[m]
        /\ Answers(m)' = One(ToConvert(m)) + requests[m] + Cardinality(NotesFor(m))
             + One(processor.note = m) + replies'[m] + Cardinality(MailsFor(m)')
             + Mailing(m) + sent[m]
    BY <2>1 DEF Answers, Mailing
  <2>5. CASE x = m
    <3>1. MailsFor(m)' \subseteq MailsFor(m) \cup {k}
      BY <2>1, <2>2 DEF MailsFor, TypeOK
    <3>2. /\ IsFiniteSet(MailsFor(m)') /\ Cardinality(MailsFor(m)') \in Nat
          /\ Cardinality(MailsFor(m)') <= Cardinality(MailsFor(m)) + 1
      BY <1>1, <3>1, OneMore
    <3>3. replies'[m] + 1 <= replies[m] + (faults' - faults) /\ replies'[m] \in Nat
          /\ faults' \in Nat
      BY <1>1, <2>3, <2>5 DEF TypeOK
    <3> QED BY <1>1, <2>1, <2>4, <3>2, <3>3 DEF NoMore, Finite
  <2>6. CASE x # m
    <3>1. MailsFor(m)' = MailsFor(m)
      BY <1>2, <2>1, <2>2, <2>6 DEF MailsFor, TypeOK
    <3>2. replies'[m] = replies[m] /\ faults' >= faults /\ faults' \in Nat
      BY <1>1, <2>3, <2>6 DEF TypeOK
    <3> QED BY <1>1, <2>1, <2>4, <3>1, <3>2 DEF NoMore, Finite
  <2> QED BY <2>5, <2>6
<1> QED BY <1>3, <1>4

LEMMA UserAnswers ==
    ASSUME TypeOK, TypeOK', NEW m \in Mail, Finite(m), NEW k \in Slots,
           DeleteNote(k) \/ DeleteMail(k)
    PROVE  NoMore(m)
<1>1. None # m /\ IsFiniteSet(NotesFor(m)) /\ IsFiniteSet(MailsFor(m)) /\ faults \in Nat
  BY BridgeAssumption DEF Finite, TypeOK
<1>2. /\ requests[m] \in Nat /\ replies[m] \in Nat /\ sent[m] \in Nat
      /\ Mailing(m) \in {0, 1} /\ One(processor.note = m) \in {0, 1}
      /\ One(ToConvert(m)) \in {0, 1}
  BY AnswersTerms DEF Mailing
<1>3. /\ UNCHANGED <<requests, replies, sent, faults>>
      /\ One(processor.note = m)' = One(processor.note = m)
      /\ One(ToConvert(m))' = One(ToConvert(m)) /\ Mailing(m)' = Mailing(m)
  BY DEF DeleteNote, DeleteMail, gvars, pvars, One, ToConvert, Mailing
<1>4. NotesFor(m)' \subseteq NotesFor(m)
  BY <1>1 DEF DeleteNote, DeleteMail, NotesFor, TypeOK, gvars, pvars
<1>5. MailsFor(m)' \subseteq MailsFor(m)
  BY <1>1 DEF DeleteNote, DeleteMail, MailsFor, TypeOK, gvars, pvars
<1>6. /\ IsFiniteSet(NotesFor(m)') /\ Cardinality(NotesFor(m)') \in Nat
      /\ Cardinality(NotesFor(m)') <= Cardinality(NotesFor(m))
      /\ Cardinality(NotesFor(m)) \in Nat
  BY <1>1, <1>4, SmallerSet
<1>7. /\ IsFiniteSet(MailsFor(m)') /\ Cardinality(MailsFor(m)') \in Nat
      /\ Cardinality(MailsFor(m)') <= Cardinality(MailsFor(m))
      /\ Cardinality(MailsFor(m)) \in Nat
  BY <1>1, <1>5, SmallerSet
<1>8. /\ Answers(m) = One(ToConvert(m)) + requests[m] + Cardinality(NotesFor(m))
           + One(processor.note = m) + replies[m] + Cardinality(MailsFor(m))
           + Mailing(m) + sent[m]
      /\ Answers(m)' = One(ToConvert(m)) + requests[m] + Cardinality(NotesFor(m)')
           + One(processor.note = m) + replies[m] + Cardinality(MailsFor(m)')
           + Mailing(m) + sent[m]
  BY <1>3 DEF Answers, Mailing
<1> QED BY <1>1, <1>2, <1>3, <1>6, <1>7, <1>8 DEF NoMore, Finite

LEMMA KeepsNoted == ASSUME TypeOK, SentNoted, [Next]_vars PROVE SentNoted'
<1> USE DEF SentNoted
<1>1. CASE UNCHANGED <<gateway, gseen, gstate, sent>>
  BY <1>1
<1>2. ASSUME NEW k, GatewayRemembers(k) PROVE (gstate \subseteq gseen)' /\ k \in gseen'
             /\ gseen \subseteq gseen'
  BY <1>2 DEF GatewayRemembers
<1>3. CASE RememberMail
  BY <1>2, <1>3 DEF RememberMail, Resting
<1>4. CASE RememberSent
  <2>1. /\ GatewayRemembers(gateway.key) /\ gateway.pc = "sent" /\ sent' = sent
        /\ gateway' = IF EmailDelete THEN [gateway EXCEPT !.pc = "clearing"] ELSE Resting
    BY <1>4 DEF RememberSent
  <2>2. CASE EmailDelete
    <3>1. /\ gateway'.pc = "clearing" /\ gateway'.key = gateway.key
          /\ gateway'.note = gateway.note
      BY <2>1, <2>2 DEF TypeOK, GatewayDoing
    <3> QED BY <1>2, <2>1, <3>1
  <2>3. CASE ~EmailDelete
    BY <1>2, <2>1, <2>3 DEF Resting
  <2> QED BY <2>2, <2>3
<1>5. CASE RemoveSent
  BY <1>5 DEF RemoveSent, Resting
<1>6. CASE Sent
  <2>1. /\ gateway'.pc = "sent" /\ gateway'.note = gateway.note
        /\ gateway.note \in Mail /\ UNCHANGED <<gseen, gstate>>
    BY <1>6 DEF Sent, TypeOK, GatewayDoing
  <2>2. sent'[gateway.note] > 0
    BY <1>6, <2>1 DEF Sent, TypeOK
  <2> QED BY <2>1, <2>2
<1>7. CASE SendFails
  BY <1>7 DEF SendFails, Resting
<1>8. ASSUME NEW x \in Mail, Ignore(x) PROVE SentNoted'
  BY <1>2, <1>8 DEF Ignore
<1>9. ASSUME NEW x \in Mail, Convert(x) PROVE SentNoted'
  BY <1>9 DEF Convert
<1>10. ASSUME NEW k \in Slots, Refuse(k) PROVE SentNoted'
  BY <1>2, <1>10 DEF Refuse
<1>11. ASSUME NEW k \in Slots, Send(k) PROVE SentNoted'
  BY <1>11 DEF Send
<1>12. CASE GatewayStops
  BY <1>12 DEF GatewayStops, Resting
<1>13. CASE Processor \/ ProcessorStops \/ Carry
            \/ \E k \in Slots : DeleteNote(k) \/ DeleteMail(k)
  <2>1. UNCHANGED <<gateway, gseen, gstate, sent>>
    BY <1>13 DEF Processor, Run, NoAnswer, Reply, Reject, Take, ProcessorStops, Carry,
                 RequestArrives, ReplyArrives, DeleteNote, DeleteMail, gvars
  <2> QED BY <1>1, <2>1
<1>14. CASE UNCHANGED vars
  BY <1>1, <1>14 DEF vars, gvars
<1> QED BY <1>3, <1>4, <1>5, <1>6, <1>7, <1>8, <1>9, <1>10, <1>11, <1>12, <1>13, <1>14
        DEF Next, Gateway

-----------------------------------------------------------------------------
(* That no e-mail is forgotten.                                            *)

\* The e-mails that the gateway has converted, and what NoneForgotten says of
\* one.
Converted(m) == m \in gseen \/ (gateway.pc = "written" /\ gateway.key = m)
Remains(m) == Underway(m) \/ Dealt(m) \/ m \in shadowed

LEMMA GatewayForgetsNone ==
    ASSUME TypeOK, SentNoted, NEW m \in Mail, Converted(m) => Remains(m),
           Gateway \/ GatewayStops
    PROVE  (Converted(m) => Remains(m))'
<1> USE DEF Converted, Remains, Underway, Dealt
<1>1. m \notin Slots /\ m # None
  BY BridgeAssumption
<1>2. /\ UNCHANGED <<notes, processor, pseen, replies>> /\ closed \subseteq closed'
      /\ shadowed \subseteq shadowed'
  BY DEF Gateway, RememberMail, RememberSent, RemoveSent, Sent, SendFails,
         Ignore, Convert, Refuse, Send, GatewayStops, gvars, pvars
<1>3. CASE RememberMail
  <2>1. /\ gateway.key \in Mail /\ gseen' = gseen \cup {gateway.key}
        /\ gateway.pc = "written" /\ gateway'.pc = "idle"
        /\ UNCHANGED <<requests, sent, mails>>
    BY <1>3 DEF RememberMail, GatewayRemembers, TypeOK, Resting
  <2>2. \A k \in Slots : k \in gseen' => k \in gseen
    BY <2>1, BridgeAssumption
  <2> QED BY <1>2, <2>1, <2>2
<1>4. CASE RememberSent
  <2>1. /\ gateway.key \in Slots /\ gseen' = gseen \cup {gateway.key}
        /\ gateway.pc = "sent" /\ gateway'.pc \in {"idle", "clearing"}
        /\ UNCHANGED <<requests, sent, mails>>
        /\ shadowed' = shadowed \cup ({mails[gateway.key]} \ {gateway.note, None})
    BY <1>4 DEF RememberSent, GatewayRemembers, TypeOK, Resting, GatewayDoing
  <2>2. mails[gateway.key] = m => m \in shadowed' \/ sent'[m] > 0
    BY <1>1, <2>1 DEF SentNoted
  <2> QED BY <1>1, <1>2, <2>1, <2>2
<1>5. CASE RemoveSent
  <2>1. /\ gateway.key \in gseen /\ mails' = [mails EXCEPT ![gateway.key] = None]
        /\ gateway'.pc = "idle" /\ UNCHANGED <<requests, sent, gseen>>
    BY <1>5 DEF RemoveSent, SentNoted, Resting
  <2>2. \A k \in Slots \ gseen : mails'[k] = mails[k]
    BY <2>1 DEF TypeOK
  <2> QED BY <1>2, <2>1, <2>2
<1>6. CASE Sent
  <2>1. /\ UNCHANGED <<requests, mails, gseen>> /\ gateway'.pc = "sent"
        /\ sent' = [sent EXCEPT ![gateway.note] = @ + 1]
    BY <1>6 DEF Sent, TypeOK, GatewayDoing
  <2>2. sent[m] > 0 => sent'[m] > 0
    BY <2>1 DEF TypeOK
  <2> QED BY <1>2, <2>1, <2>2
<1>7. CASE SendFails
  <2>1. /\ UNCHANGED <<requests, mails, gseen>> /\ gateway'.pc = "idle"
        /\ (sent[m] > 0 => sent'[m] > 0)
    BY <1>7 DEF SendFails, Resting, TypeOK
  <2> QED BY <1>2, <2>1
<1>8. ASSUME NEW x \in Mail, Ignore(x) PROVE (Converted(m) => Remains(m))'
  <2>1. /\ x \in closed' /\ gseen' = gseen \cup {x}
        /\ UNCHANGED <<requests, sent, mails, gateway>>
    BY <1>8 DEF Ignore, GatewayRemembers
  <2>2. \A k \in Slots : k \in gseen' => k \in gseen
    BY <2>1, BridgeAssumption
  <2> QED BY <1>2, <2>1, <2>2
<1>9. ASSUME NEW x \in Mail, Convert(x) PROVE (Converted(m) => Remains(m))'
  <2>1. /\ gateway' = [pc |-> "written", key |-> x, note |-> x]
        /\ UNCHANGED <<sent, mails, gseen>>
    BY <1>9 DEF Convert
  <2>2. x \in closed' \/ requests'[x] > 0
    BY <1>9 DEF Convert, TypeOK
  <2>3. requests[m] > 0 => requests'[m] > 0
    BY <1>9 DEF Convert, TypeOK
  <2> QED BY <1>2, <2>1, <2>2, <2>3
<1>10. ASSUME NEW k \in Slots, Refuse(k) PROVE (Converted(m) => Remains(m))'
  <2>1. /\ mails[k] \in closed' /\ gseen' = gseen \cup {k}
        /\ UNCHANGED <<requests, sent, mails, gateway>>
    BY <1>10 DEF Refuse, GatewayRemembers
  <2> QED BY <1>1, <1>2, <2>1
<1>11. ASSUME NEW k \in Slots, Send(k) PROVE (Converted(m) => Remains(m))'
  BY <1>2, <1>11 DEF Send
<1>12. CASE GatewayStops
  <2>1. /\ gseen' \subseteq gseen /\ gateway'.pc = "idle"
        /\ UNCHANGED <<requests, sent, mails>>
    BY <1>12 DEF GatewayStops, SentNoted, Resting
  <2> QED BY <1>2, <2>1
<1> QED BY <1>3, <1>4, <1>5, <1>6, <1>7, <1>8, <1>9, <1>10, <1>11, <1>12 DEF Gateway

LEMMA OthersForgetNone ==
    ASSUME TypeOK, OnceInv, NEW m \in Mail, Converted(m) => Remains(m),
           \/ Processor \/ ProcessorStops \/ Carry
           \/ \E k \in Slots : DeleteNote(k) \/ DeleteMail(k)
    PROVE  (Converted(m) => Remains(m))'
<1> USE DEF Remains, Underway, Dealt
<1>1. m # None /\ Resting.note = None
  BY BridgeAssumption DEF Resting
<1>2. /\ UNCHANGED <<gateway, gseen, sent>> /\ closed \subseteq closed'
      /\ shadowed \subseteq shadowed' /\ Converted(m)' = Converted(m)
  BY DEF Processor, Run, NoAnswer, Reply, Reject, Take, ProcessorStops, Carry,
         RequestArrives, ReplyArrives, DeleteNote, DeleteMail, gvars, Converted
<1>3. CASE Run
  <2>1. /\ UNCHANGED <<requests, replies, notes, mails, pseen>>
        /\ processor'.note = processor.note
    BY <1>3 DEF Run, TypeOK, ProcessorDoing, gvars
  <2> QED BY <1>2, <2>1
<1>4. CASE NoAnswer
  <2>1. /\ UNCHANGED <<requests, replies, notes, mails, pseen>>
        /\ processor.note \in closed'
    BY <1>4 DEF NoAnswer, gvars
  <2> QED BY <1>2, <2>1
<1>5. CASE Reply
  <2>1. UNCHANGED <<requests, notes, mails, pseen>> /\ processor.note \in Mail
    BY <1>5 DEF Reply, gvars, TypeOK
  <2>2. /\ replies[m] > 0 => replies'[m] > 0
        /\ processor.note = m => replies'[m] > 0 \/ m \in closed'
    BY <1>5 DEF Reply, TypeOK
  <2> QED BY <1>2, <2>1, <2>2
<1>6. ASSUME NEW k \in Slots, Reject(k) PROVE (Converted(m) => Remains(m))'
  <2>1. /\ UNCHANGED <<requests, replies, notes, mails, processor>>
        /\ notes[k] \in closed' /\ pseen' = pseen \cup {k}
    BY <1>6 DEF Reject, ProcessorRemembers, gvars
  <2> QED BY <1>2, <2>1
<1>7. ASSUME NEW k \in Slots, Take(k) PROVE (Converted(m) => Remains(m))'
  <2>1. /\ UNCHANGED <<requests, replies, notes, mails>> /\ processor'.note = notes[k]
        /\ pseen' = pseen \cup {k} /\ processor.pc = "idle"
    BY <1>7 DEF Take, ProcessorRemembers, gvars
  <2>2. processor.note # m
    BY <1>1, <2>1 DEF TypeOK
  <2> QED BY <1>2, <2>1, <2>2
<1>8. CASE ProcessorStops
  <2>1. /\ UNCHANGED <<requests, replies, notes, mails>> /\ pseen' \subseteq pseen
        /\ (processor.note = m => m \in closed')
    BY <1>1, <1>8 DEF ProcessorStops, gvars, OnceInv, RememberedFirst
  <2> QED BY <1>2, <2>1
<1>9. ASSUME NEW x \in Mail, RequestArrives(x) PROVE (Converted(m) => Remains(m))'
  <2>1. UNCHANGED <<replies, mails, processor, pseen>>
    BY <1>9 DEF RequestArrives, gvars
  <2>2. PICK k \in Slots : /\ notes[k] = None /\ notes' = [notes EXCEPT ![k] = x]
                           /\ k \in pseen => x \in shadowed'
    BY <1>9 DEF RequestArrives, FirstFree
  <2>3. notes'[k] = x /\ \A j \in Slots : notes[j] = m => notes'[j] = m
    BY <1>1, <2>2 DEF TypeOK
  <2>4. m # x /\ requests[m] > 0 => requests'[m] > 0
    BY <1>9 DEF RequestArrives, TypeOK
  <2> QED BY <1>2, <2>1, <2>2, <2>3, <2>4
<1>10. ASSUME NEW x \in Mail, ReplyArrives(x) PROVE (Converted(m) => Remains(m))'
  <2>1. UNCHANGED <<requests, notes, processor, pseen>>
    BY <1>10 DEF ReplyArrives, pvars
  <2>2. PICK k \in Slots : /\ mails[k] = None /\ mails' = [mails EXCEPT ![k] = x]
                           /\ k \in gseen => x \in shadowed'
    BY <1>10 DEF ReplyArrives, FirstFree
  <2>3. mails'[k] = x /\ \A j \in Slots : mails[j] = m => mails'[j] = m
    BY <1>1, <2>2 DEF TypeOK
  <2>4. m # x /\ replies[m] > 0 => replies'[m] > 0
    BY <1>10 DEF ReplyArrives, TypeOK
  <2> QED BY <1>2, <2>1, <2>2, <2>3, <2>4
<1>11. ASSUME NEW k \in Slots, DeleteNote(k) PROVE (Converted(m) => Remains(m))'
  <2>1. /\ UNCHANGED <<requests, replies, mails, processor, pseen>>
        /\ notes' = [notes EXCEPT ![k] = None]
        /\ k \notin pseen => notes[k] \in closed'
    BY <1>11 DEF DeleteNote, gvars
  <2>2. \A j \in Slots : j # k => notes'[j] = notes[j]
    BY <2>1 DEF TypeOK
  <2> QED BY <1>2, <2>1, <2>2
<1>12. ASSUME NEW k \in Slots, DeleteMail(k) PROVE (Converted(m) => Remains(m))'
  <2>1. /\ UNCHANGED <<requests, replies, notes, processor, pseen>>
        /\ mails' = [mails EXCEPT ![k] = None]
        /\ k \notin gseen => mails[k] \in closed'
    BY <1>12 DEF DeleteMail, pvars
  <2>2. \A j \in Slots : j # k => mails'[j] = mails[j]
    BY <2>1 DEF TypeOK
  <2> QED BY <1>2, <2>1, <2>2
<1> QED BY <1>3, <1>4, <1>5, <1>6, <1>7, <1>8, <1>9, <1>10, <1>11, <1>12
        DEF Processor, Carry

-----------------------------------------------------------------------------
(* The theorems.                                                           *)

LEMMA IInvInit == Init => IInv
<1> SUFFICES ASSUME Init PROVE IInv
  OBVIOUS
<1>1. OnceInv
  BY DEF Init, OnceInv, RememberedFirst, RunOnce, Resting
<1>2. SentNoted
  BY DEF Init, SentNoted, Resting
<1>3. NoneForgotten
  BY DEF Init, NoneForgotten, Resting
<1>4. ASSUME NEW m \in Mail
      PROVE  IsFiniteSet(NotesFor(m)) /\ IsFiniteSet(MailsFor(m)) /\ Answers(m) <= 1 + faults
  <2>1. NotesFor(m) = {} /\ MailsFor(m) = {}
    BY BridgeAssumption DEF Init, NotesFor, MailsFor
  <2>2. /\ One(processor.note = m) = 0 /\ One(gateway.pc = "sending" /\ gateway.note = m) = 0
        /\ One(ToConvert(m)) = 1
    BY BridgeAssumption DEF Init, Resting, One, ToConvert
  <2>3. requests[m] = 0 /\ replies[m] = 0 /\ sent[m] = 0 /\ faults = 0
    BY DEF Init
  <2> QED BY <2>1, <2>2, <2>3, FS_EmptySet DEF Answers
<1> QED BY <1>1, <1>2, <1>3, <1>4 DEF IInv, AnswersBounded

LEMMA StepAnswers ==
    ASSUME TypeOK, TypeOK', OnceInv, SentNoted, NEW m \in Mail, Finite(m), [Next]_vars
    PROVE  NoMore(m)
<1>1. CASE UNCHANGED vars
  <2>1. /\ NotesFor(m)' = NotesFor(m) /\ MailsFor(m)' = MailsFor(m)
        /\ Answers(m)' = Answers(m) /\ faults' = faults
    BY <1>1 DEF vars, gvars, pvars, NotesFor, MailsFor, Answers, ToConvert, One
  <2> QED BY <2>1, AnswersTerms DEF NoMore, Finite, Answers
<1>2. CASE Carry
  BY <1>2, CarryAnswers DEF Carry
<1>3. CASE \E k \in Slots : DeleteNote(k) \/ DeleteMail(k)
  BY <1>3, UserAnswers
<1> QED BY <1>1, <1>2, <1>3, GatewayAnswers, ProcessorAnswers DEF Next

LEMMA IInvStep == ASSUME TypeOK, TypeOK', IInv, OnceInv', [Next]_vars PROVE IInv'
<1>1. OnceInv /\ SentNoted
  BY DEF IInv
<1>2. SentNoted'
  BY <1>1, KeepsNoted
<1>3. AnswersBounded'
  <2>1. ASSUME NEW m \in Mail
        PROVE  IsFiniteSet(NotesFor(m))' /\ IsFiniteSet(MailsFor(m))'
               /\ Answers(m)' <= 1 + faults'
    <3>1. Finite(m) /\ Answers(m) <= 1 + faults
      BY DEF IInv, AnswersBounded, Finite
    <3>2. Finite(m)' /\ Answers(m)' <= Answers(m) + (faults' - faults)
      BY <1>1, <3>1, StepAnswers DEF NoMore
    <3>3. Answers(m) \in Int /\ Answers(m)' \in Int /\ faults \in Int /\ faults' \in Int
      <4>1. Answers(m) \in Int
        BY <3>1, AnswersTerms DEF Answers
      <4>2. /\ One(ToConvert(m))' \in {0, 1} /\ One(processor.note = m)' \in {0, 1}
            /\ One(gateway.pc = "sending" /\ gateway.note = m)' \in {0, 1}
            /\ requests'[m] \in Nat /\ replies'[m] \in Nat /\ sent'[m] \in Nat
            /\ Cardinality(NotesFor(m))' \in Nat /\ Cardinality(MailsFor(m))' \in Nat
        BY <3>2, FS_CardinalityType DEF TypeOK, Finite, One
      <4>3. Answers(m)' \in Int
        BY <4>2 DEF Answers
      <4> QED BY <4>1, <4>3 DEF TypeOK
    <3> QED BY <3>1, <3>2, <3>3 DEF Finite
  <2> QED BY <2>1 DEF AnswersBounded
<1>4. NoneForgotten'
  <2> SUFFICES ASSUME NEW m \in Mail PROVE (Converted(m) => Remains(m))'
    BY DEF NoneForgotten, Converted, Remains
  <2>1. Converted(m) => Remains(m)
    BY DEF IInv, NoneForgotten, Converted, Remains
  <2>2. CASE UNCHANGED vars
    BY <2>1, <2>2 DEF vars, gvars, pvars, Converted, Remains, Underway, Dealt
  <2> QED BY <1>1, <2>1, <2>2, GatewayForgetsNone, OthersForgetNone DEF Next
<1> QED BY <1>2, <1>3, <1>4 DEF IInv

\* What the run checks of gateway and processor together, that the bound on the
\* answers counts correctly and that no e-mail is forgotten included, holds for
\* any number of e-mails, paths and faults.
THEOREM BridgeInvariant == Spec => []IInv
<1>1. TypeOK /\ TypeOK' /\ IInv /\ OnceInv' /\ [Next]_vars => IInv'
  BY IInvStep
<1> QED BY <1>1, IInvInit, BridgeTypeCorrect, OnceAlways, PTL DEF Spec

\* Every answer to an e-mail beyond the first is the consequence of a fault
\* (inboundOnce, Once, emailOnce: each deals with a key once, and what it
\* remembers survives unless writing the state file failed).
THEOREM AnswersCountFaults == Spec => []SentCountsFaults
<1>1. TypeOK /\ IInv => SentCountsFaults
  <2> SUFFICES ASSUME TypeOK, IInv, NEW m \in Mail PROVE sent[m] <= 1 + faults
    BY DEF SentCountsFaults
  <2>1. Finite(m) /\ Answers(m) <= 1 + faults
    BY DEF IInv, AnswersBounded, Finite
  <2>2. sent[m] <= Answers(m) /\ sent[m] \in Nat /\ Answers(m) \in Int /\ faults \in Nat
    BY <2>1, AnswersTerms DEF Answers
  <2> QED BY <2>1, <2>2
<1> QED BY <1>1, BridgeTypeCorrect, BridgeInvariant, PTL

\* An e-mail that the gateway has converted is on its way somewhere, or was
\* answered, refused or lost to a fault, to the user or to a path remembered
\* before: what Accounted rests on, whatever the scheduling.
THEOREM NoEmailForgotten == Spec => []NoneForgotten
<1>1. IInv => NoneForgotten
  BY DEF IInv
<1> QED BY <1>1, BridgeInvariant, PTL
=============================================================================
