------------------------- MODULE Membership_proofs --------------------------
(***************************************************************************)
(* For any number of nodes, any lists and any routes between them: no node *)
(* forgets a serial it refuses, those who told of a serial refuse it, and  *)
(* where nothing but the order of one list tells the nodes apart, it makes *)
(* them expect the same server; a discovery over nodes that stay as they   *)
(* are ends with the one it is expected to find.                           *)
(***************************************************************************)
EXTENDS Membership, TLAPS, WellFoundedInduction

\* A set of places that is not empty has a first.
LEMMA LeastExists ==
    ASSUME NEW T, T \subseteq Nat, T # {}
    PROVE  \E x \in T : \A y \in T : x <= y
<1> DEFINE R == {ss \in Nat \X Nat : ss[1] < ss[2]}
<1>1. IsWellFoundedOn(R, Nat)
  BY NatLessThanWellFounded DEF OpToRel
<1>2. PICK x \in T : \A y \in T : ~(<<y, x>> \in R)
  <2> HIDE DEF R
  <2> QED BY <1>1, WFMin
<1>3. ASSUME NEW y \in T PROVE x <= y
  <2>1. x \in Nat /\ y \in Nat
    OBVIOUS
  <2>2. y < x => <<y, x>> \in R
    BY <2>1
  <2>3. ~(y < x)
    BY <1>2, <2>2
  <2> QED BY <2>1, <2>3
<1> QED BY <1>3

\* The entries: the list as it is, or with the node itself behind it.
LEMMA EntriesAre ==
    ASSUME NEW n \in Node
    PROVE  /\ Entries[n] \in Seq(Node) /\ Len(Whitelist[n]) \in Nat
           /\ Whitelist[n] \in Seq(Node) /\ Len(Entries[n]) \in Nat
           /\ \A i \in 1..Len(Whitelist[n]) :
                 i \in 1..Len(Entries[n]) /\ Entries[n][i] = Whitelist[n][i]
           /\ \A i \in 1..Len(Entries[n]) : i \notin 1..Len(Whitelist[n]) => Entries[n][i] = n
<1>1. Whitelist[n] \in Seq(Node)
  BY MembershipAssumption
<1>2. CASE n \in Listed[n]
  BY <1>1, <1>2 DEF Entries
<1>3. CASE n \notin Listed[n]
  <2>1. Entries[n] = Append(Whitelist[n], n)
    BY <1>3 DEF Entries
  <2> QED BY <1>1, <2>1
<1> QED BY <1>2, <1>3

-----------------------------------------------------------------------------
\* Under Uniform the choices of a node that runs are the places of the nodes with
\* a host, and places after one of them.
LEMMA UniformChoices ==
    ASSUME TypeOK, Uniform, NEW n \in up
    PROVE  LET H == {i \in 1..Len(Whitelist[n]) : Whitelist[n][i] \in Hosted \cap up} IN
           /\ H \subseteq Choices(n) /\ H # {}
           /\ \A j \in Choices(n) : j \in H \/ \E i \in H : i < j
<1> DEFINE hosted == Hosted \cap up
           H == {i \in 1..Len(Whitelist[n]) : Whitelist[n][i] \in hosted}
<1>1. n \in Node /\ listening \subseteq up
  BY DEF TypeOK
<1>2. /\ hosted \subseteq Listed[n] /\ hosted # {}
      /\ \A p \in hosted : CanServe(p) /\ (p = n \/ Answers(n, p))
      /\ n \in hosted \/ ~CanServe(n)
            \/ \E i, j \in 1..Len(Entries[n]) : /\ Entries[n][i] \in hosted /\ i < j
                                                /\ Entries[n][j] = n
  BY DEF Uniform
<1>3. H \subseteq Choices(n)
  BY <1>1, <1>2, EntriesAre DEF Choices
<1>4. H # {}
  BY <1>1, <1>2 DEF Listed
<1>5. ASSUME NEW j \in Choices(n), j \notin H PROVE \E i \in H : i < j
  <2>1. j \in 1..Len(Entries[n])
    BY DEF Choices
  <2>2. CASE Entries[n][j] # n
    <3>1. Entries[n][j] \in hosted
      BY <1>1, <2>2 DEF Choices, Answers, Connects
    <3> QED BY <1>1, <1>5, <2>1, <2>2, <3>1, EntriesAre
  <2>3. CASE Entries[n][j] = n
    <3>1. CanServe(n)
      BY <2>3 DEF Choices
    <3>2. CASE n \in hosted
      <4>1. PICK k \in 1..Len(Whitelist[n]) : Whitelist[n][k] = n
        BY <1>1, <1>2, <3>2 DEF Listed
      <4>2. Entries[n] = Whitelist[n]
        BY <1>1, <4>1 DEF Entries, Listed
      <4> QED BY <1>5, <2>1, <2>3, <3>2, <4>2
    <3>3. CASE n \notin hosted
      <4>1. PICK i, k \in 1..Len(Entries[n]) : /\ Entries[n][i] \in hosted /\ i < k
                                               /\ Entries[n][k] = n
        BY <1>2, <3>1, <3>3
      <4>2. i \in H
        BY <1>1, <3>3, <4>1, EntriesAre
      <4>3. k = j
        <5>1. CASE n \in Listed[n]
          <6>1. Entries[n] = Whitelist[n]
            BY <1>1, <5>1 DEF Entries
          <6> QED BY <1>1, <2>1, <2>3, <4>1, <6>1, MembershipAssumption
        <5>2. CASE n \notin Listed[n]
          <6>1. Entries[n] = Append(Whitelist[n], n) /\ Whitelist[n] \in Seq(Node)
            BY <1>1, <5>2, MembershipAssumption DEF Entries
          <6>2. \A x \in 1..Len(Entries[n]) : Entries[n][x] = n => x = Len(Whitelist[n]) + 1
            BY <1>1, <5>2, <6>1, EntriesAre DEF Listed
          <6> QED BY <2>1, <2>3, <4>1, <6>2
        <5> QED BY <5>1, <5>2
      <4> QED BY <4>1, <4>2, <4>3
    <3> QED BY <3>2, <3>3
  <2> QED BY <2>2, <2>3
<1> QED BY <1>3, <1>4, <1>5

\* Where nothing but the order tells the nodes apart they expect one server: the
\* rule of discover is enough for them to agree without a word about it.
THEOREM SameOrderSameServer ==
    ASSUME TypeOK, Uniform, NEW n \in up, NEW m \in up
    PROVE  Expected(n) = Expected(m)
<1> DEFINE W == Whitelist[n]
           H == {i \in 1..Len(W) : W[i] \in Hosted \cap up}
<1>1. Whitelist[m] = W /\ n \in Node /\ m \in Node
  BY DEF Uniform, TypeOK
<1>2. H # {} /\ H \subseteq Nat
  BY <1>1, UniformChoices
<1>3. PICK h \in H : \A i \in H : h <= i
  <2> HIDE DEF H
  <2> QED BY <1>2, LeastExists
<1>4. ASSUME NEW x \in up, Whitelist[x] = W PROVE Expected(x) = W[h]
  <2>1. /\ H \subseteq Choices(x) /\ x \in Node
        /\ \A j \in Choices(x) : j \in H \/ \E i \in H : i < j
    BY <1>4, UniformChoices DEF TypeOK
  <2>2. Choices(x) \subseteq Nat
    BY <2>1, EntriesAre DEF Choices
  <2>3. \A j \in Choices(x) : h <= j
    BY <1>2, <1>3, <2>1, <2>2
  <2>4. First(Choices(x)) = h
    <3>1. h \in Choices(x)
      BY <2>1
    <3>2. \A k \in Choices(x) : (\A j \in Choices(x) : k <= j) => k = h
      BY <2>2, <2>3, <3>1
    <3> QED BY <2>3, <3>1, <3>2 DEF First
  <2>5. Entries[x][h] = W[h]
    BY <1>4, <2>1, EntriesAre
  <2> QED BY <2>1, <2>4, <2>5 DEF Expected
<1> QED BY <1>1, <1>4

-----------------------------------------------------------------------------
\* A discovery goes from one phase to the next at the same entry.
LEMMA NextPhase ==
    ASSUME NEW r \in Ask, NEW l \in SUBSET Serial, NEW p \in {"asked", "answered", "broken"}
    PROVE  LET a == [r EXCEPT !.pc = p, !.list = l] IN
           a \in Ask /\ a.at = r.at /\ a.pc = p
BY DEF Ask

\* And with its list.
LEMMA NextList ==
    ASSUME NEW r \in Ask, NEW l, NEW p PROVE [r EXCEPT !.pc = p, !.list = l].list = l
BY DEF Ask

\* How a discovery may change: begun, gone on, ended, or in one of its phases.
LEMMA AskKept ==
    ASSUME TypeOK, NEW n \in Node, NEW a \in Ask,
           a.pc # "idle" => n \in up' /\ a.at \in 1..Len(Entries[n]) + 1,
           a.pc \in {"asked", "answered", "broken"} =>
              a.at \in 1..Len(Entries[n]) /\ Entries[n][a.at] # n,
           ask' = [ask EXCEPT ![n] = a], up' = up \/ up' = up \cup {n}
    PROVE  /\ ask' \in [Node -> Ask]
           /\ \A m \in Node : Proper(m)'
<1>1. ask' \in [Node -> Ask]
  BY DEF TypeOK
<1>2. ASSUME NEW m \in Node
      PROVE  Proper(m)'
  <2>1. CASE m = n
    BY <2>1 DEF TypeOK, Proper, Waiting, Asked
  <2>2. CASE m # n
    BY <2>2 DEF TypeOK, Proper, Waiting, Asked
  <2> QED BY <2>1, <2>2
<1> QED BY <1>1, <1>2

\* What peers tell is a set of serials, and so is what is saved.
LEMMA LearnType ==
    ASSUME TypeOK, NEW new \in [Node -> SUBSET Serial], Learn(new)
    PROVE  known' \in [Node -> SUBSET Serial] /\ saved' \in [Node -> SUBSET Serial]
BY DEF Learn, TypeOK

\* The types are kept by every step.
LEMMA TypeStep == ASSUME TypeOK, [Next]_vars PROVE TypeOK'
<1>1. /\ \A n \in Node : Rest \in Ask /\ Rest.pc = "idle"
      /\ \A i \in Nat : Walking(i) \in Ask /\ Walking(i).pc = "walking"
      /\ \A n \in Node : ask[n] \in Ask /\ ask[n].at \in Nat /\ ask[n].at + 1 \in Nat
  BY DEF Rest, Walking, Ask, TypeOK, Serial
<1>0. \A n \in Node : 1 \in 1..Len(Entries[n]) + 1
  BY EntriesAre
<1>2. ASSUME NEW n \in Node, Start(n) PROVE TypeOK'
  <2>1. ask' \in [Node -> Ask] /\ \A m \in Node : Proper(m)'
    <3>1. Walking(1) \in Ask /\ Walking(1).pc = "walking" /\ Walking(1).at = 1
      BY <1>1 DEF Walking
    <3> QED BY <1>0, <1>2, <3>1, AskKept DEF Start
  <2>2. listening' \subseteq up' /\ up' \subseteq Node /\ events' \in Nat
    BY <1>2 DEF Start, TypeOK, Event
  <2>3. key' \in [Node -> {1, 2}] /\ known' \in [Node -> SUBSET Serial]
    BY <1>2 DEF Start, TypeOK
  <2> QED BY <1>2, <2>1, <2>2, <2>3 DEF Start, TypeOK
<1>3. ASSUME NEW n \in Node, Crash(n) PROVE TypeOK'
  <2>1. \A m \in Node : [ask[m] EXCEPT !.pc = "broken", !.list = {}] \in Ask
    BY <1>1, NextPhase
  <2>2. ask' \in [Node -> Ask]
    BY <1>1, <1>3, <2>1 DEF Crash
  <2>3. ASSUME NEW m \in Node
        PROVE  Proper(m)'
    <3>1. CASE m = n
      BY <1>1, <1>3, <3>1 DEF Crash, Proper, Waiting
    <3>2. CASE m # n /\ ask'[m] = ask[m]
      BY <1>3, <3>2 DEF Crash, TypeOK, Proper, Waiting, Asked
    <3>3. CASE m # n /\ ask[m].pc = "asked"
               /\ ask'[m] = [ask[m] EXCEPT !.pc = "broken", !.list = {}]
      <4>1. ask'[m].at = ask[m].at
        BY <1>1, <3>3 DEF Ask
      <4> QED BY <1>3, <3>3, <4>1 DEF Crash, TypeOK, Proper, Waiting, Asked
    <3> QED BY <1>3, <3>1, <3>2, <3>3 DEF Crash
  <2>4. listening' \subseteq up' /\ up' \subseteq Node
    BY <1>3 DEF Crash, TypeOK
  <2>5. events' \in Nat
    <3>1. Event
      BY <1>3 DEF Crash
    <3> QED BY <3>1 DEF Event, TypeOK
  <2>6. known' \in [Node -> SUBSET Serial] /\ leader' \in [Node -> Node \cup {None}]
    BY <1>3 DEF Crash, TypeOK
  <2> QED BY <1>3, <2>2, <2>3, <2>4, <2>5, <2>6 DEF Crash, TypeOK
<1>4. ASSUME NEW n \in Node, NEW s \in Revocable, Revoke(n, s) PROVE TypeOK'
  <2>1. s \in Serial
    BY MembershipAssumption DEF Serial
  <2>2. saved' \in [Node -> SUBSET Serial] /\ events' \in Nat
    BY <1>4, <2>1 DEF Revoke, TypeOK, Event
  <2> QED BY <1>4, <2>2 DEF Revoke, TypeOK, Proper, Waiting, Asked
<1>5. ASSUME NEW n \in Node, n \in up, NEW l \in Node \cup {None}, SetRole(n, l),
             UNCHANGED <<up, listening, key, events>>,
             known' \in [Node -> SUBSET Serial], saved' \in [Node -> SUBSET Serial]
      PROVE  TypeOK'
  <2>1. ask' \in [Node -> Ask] /\ \A m \in Node : Proper(m)'
    BY <1>1, <1>5, AskKept DEF SetRole
  <2>2. leader' \in [Node -> Node \cup {None}]
    BY <1>5 DEF SetRole, TypeOK
  <2> QED BY <1>5, <2>1, <2>2 DEF TypeOK
<1>6. ASSUME NEW n \in Node, n \in up, NEW i \in 1..Len(Entries[n]) + 1,
             ask' = [ask EXCEPT ![n] = Walking(i)],
             UNCHANGED <<up, listening, key, known, saved, leader>>, events' \in Nat
      PROVE  TypeOK'
  <2>1. Walking(i) \in Ask /\ Walking(i).pc = "walking" /\ Walking(i).at = i
    BY <1>1, EntriesAre DEF Walking
  <2>2. ask' \in [Node -> Ask] /\ \A m \in Node : Proper(m)'
    BY <1>6, <2>1, AskKept
  <2> QED BY <1>6, <2>2 DEF TypeOK
<1>7. ASSUME NEW n \in Node, GoOn(n), At(n) \/ Waiting(n),
             UNCHANGED <<up, listening, key, known, saved, leader>>, events' \in Nat
      PROVE  TypeOK'
  <2>1. n \in up /\ ask[n].at \in 1..Len(Entries[n])
    BY <1>1, <1>7, EntriesAre DEF At, TypeOK, Proper, Waiting
  <2>2. ask[n].at + 1 \in 1..Len(Entries[n]) + 1
    BY <2>1, EntriesAre
  <2> QED BY <1>6, <1>7, <2>1, <2>2 DEF GoOn
<1>8. ASSUME NEW n \in Node, Begin(n) PROVE TypeOK'
  BY <1>0, <1>6, <1>8 DEF Begin, TypeOK
<1>9. ASSUME NEW n \in Node, Skip(n) \/ Broken(n) \/ Lost(n) PROVE TypeOK'
  <2>1. events' \in Nat
    BY <1>9 DEF Skip, Broken, Lost, Event, TypeOK
  <2> QED BY <1>7, <1>9, <2>1 DEF Skip, Broken, Lost, Waiting
<1>10. ASSUME NEW n \in Node, Self(n) \/ Finish(n) PROVE TypeOK'
  <2>1. n \in up
    BY <1>10 DEF Self, Finish, At, TypeOK, Proper
  <2>2. UNCHANGED <<up, listening, key, known, saved, events>>
    BY <1>10 DEF Self, Finish
  <2>3. CASE At(n) /\ GoOn(n) /\ UNCHANGED leader
    BY <1>7, <2>2, <2>3 DEF TypeOK
  <2>4. CASE SetRole(n, n) \/ SetRole(n, None)
    BY <1>5, <2>1, <2>2, <2>4 DEF TypeOK
  <2> QED BY <1>10, <2>3, <2>4 DEF Self, Finish
<1>11. ASSUME NEW n \in Node, Connect(n) PROVE TypeOK'
  <2> DEFINE a == [ask[n] EXCEPT !.pc = "asked", !.list = known[n]]
  <2>1. a \in Ask /\ a.at = ask[n].at /\ a.pc = "asked"
    <3>1. ask[n] \in Ask /\ known[n] \in SUBSET Serial
      BY <1>1 DEF TypeOK
    <3> QED BY <3>1, NextPhase
  <2>2. /\ n \in up /\ ask[n].at \in 1..Len(Entries[n]) /\ Entries[n][ask[n].at] # n
        /\ ask[n].at \in 1..Len(Entries[n]) + 1
    BY <1>1, <1>11, EntriesAre DEF Connect, At, TypeOK, Proper, Asked
  <2>3. ask' = [ask EXCEPT ![n] = a]
    BY <1>11 DEF Connect
  <2>4. ask' \in [Node -> Ask] /\ \A m \in Node : Proper(m)'
    <3> HIDE DEF a
    <3> QED BY <1>11, <2>1, <2>2, <2>3, AskKept DEF Connect
  <2> QED BY <1>11, <2>4 DEF Connect, TypeOK
<1>12. ASSUME NEW n \in Node, Handle(n) PROVE TypeOK'
  <2> DEFINE p == Asked(n)
             list == known[p] \cup ask[n].list
             a == [ask[n] EXCEPT !.pc = "answered", !.list = list]
  <2>1. /\ n \in up /\ ask[n].at \in 1..Len(Entries[n]) /\ Entries[n][ask[n].at] # n
        /\ ask[n].at \in 1..Len(Entries[n]) + 1 /\ p \in Node
    BY <1>1, <1>12, EntriesAre DEF Handle, TypeOK, Proper, Asked, Waiting
  <2>2. list \in SUBSET Serial /\ [known EXCEPT ![p] = list] \in [Node -> SUBSET Serial]
    BY <1>1, <2>1 DEF TypeOK, Ask
  <2>3. a \in Ask /\ a.at = ask[n].at /\ a.pc = "answered"
    <3>1. ask[n] \in Ask
      BY <1>1
    <3> HIDE DEF list
    <3> QED BY <2>2, <3>1, NextPhase
  <2>4. ask' = [ask EXCEPT ![n] = a] /\ Learn([known EXCEPT ![p] = list])
    BY <1>12 DEF Handle
  <2>5. ask' \in [Node -> Ask] /\ \A m \in Node : Proper(m)'
    <3> HIDE DEF a
    <3> QED BY <1>12, <2>1, <2>3, <2>4, AskKept DEF Handle
  <2>6. known' \in [Node -> SUBSET Serial] /\ saved' \in [Node -> SUBSET Serial]
    BY <2>2, <2>4, LearnType
  <2> QED BY <1>12, <2>5, <2>6 DEF Handle, TypeOK
<1>13. ASSUME NEW n \in Node, Answer(n) PROVE TypeOK'
  <2>1. n \in up /\ Asked(n) \in Node
    BY <1>1, <1>13, EntriesAre DEF Answer, TypeOK, Proper, Asked, Waiting
  <2>2. [known EXCEPT ![n] = @ \cup ask[n].list] \in [Node -> SUBSET Serial]
    BY <1>1 DEF TypeOK, Ask
  <2>3. known' \in [Node -> SUBSET Serial] /\ saved' \in [Node -> SUBSET Serial]
    BY <1>13, <2>2, LearnType DEF Answer
  <2> QED BY <1>5, <1>13, <2>1, <2>3 DEF Answer
<1>14. ASSUME NEW n \in Node, NEW p \in Node, Contact(n, p) PROVE TypeOK'
  <2> DEFINE new(who) == [m \in Node |-> IF m \in who THEN known[n] \cup known[p] ELSE known[m]]
  <2>1. PICK who \in {{p}, {n, p}} : Learn(new(who))
    BY <1>14 DEF Contact
  <2>2. known' \in [Node -> SUBSET Serial] /\ saved' \in [Node -> SUBSET Serial]
    <3>1. new(who) \in [Node -> SUBSET Serial]
      BY DEF TypeOK
    <3> HIDE DEF new
    <3> QED BY <2>1, <3>1, LearnType
  <2> QED BY <1>14, <2>2 DEF Contact, TypeOK, Proper, Waiting, Asked
<1>15. CASE UNCHANGED vars
  BY <1>15 DEF vars, TypeOK, Proper, Waiting, Asked
<1> QED
  BY <1>2, <1>3, <1>4, <1>8, <1>9, <1>10, <1>11, <1>12, <1>13, <1>14, <1>15
  DEF Next, Discover

LEMMA TypeInit == Init => TypeOK
<1> SUFFICES ASSUME Init PROVE TypeOK
  OBVIOUS
<1>1. Rest \in Ask /\ Rest.pc = "idle"
  BY DEF Rest, Ask, Serial
<1>2. \A n \in Node : ask[n] = Rest
  BY DEF Init
<1> QED BY <1>1, <1>2 DEF Init, TypeOK, Proper, Waiting, Serial

\* Every reachable state has the types of TypeOK.
THEOREM MembershipTypeCorrect == Spec => []TypeOK
BY TypeInit, TypeStep, PTL DEF Spec

-----------------------------------------------------------------------------
\* Learning keeps what is refused, in memory and in the file.
LEMMA LearnKeeps ==
    ASSUME TypeOK, KnownSaved, NEW new \in [Node -> SUBSET Serial],
           \A m \in Node : known[m] \subseteq new[m],
           \A m \in Node \ up : new[m] = known[m],
           Learn(new), up' = up
    PROVE  /\ KnownSaved'
           /\ \A m \in Node : Refused(m) \subseteq Refused(m)' /\ Refused(m)' \subseteq saved'[m]
           /\ \A m \in up : Refused(m)' = new[m]
<1>1. known' = new /\ \A m \in Node : saved'[m] = IF new[m] = known[m] THEN saved[m] ELSE new[m]
  BY DEF Learn
<1>2. up \subseteq Node
  BY DEF TypeOK
<1>3. KnownSaved'
  BY <1>1, <1>2 DEF KnownSaved
<1>4. ASSUME NEW m \in Node
      PROVE  Refused(m) \subseteq Refused(m)' /\ Refused(m)' \subseteq saved'[m]
  <2>1. CASE m \in up
    BY <1>1, <1>3, <2>1 DEF Refused, KnownSaved
  <2>2. CASE m \notin up
    BY <1>1, <2>2 DEF Refused
  <2> QED BY <2>1, <2>2
<1> QED BY <1>1, <1>3, <1>4 DEF Refused

\* What every step keeps: the serials that are refused, and who told of them.
Kept == /\ KnownSaved'
        /\ \A m \in Node : Refused(m) \subseteq Refused(m)' \cap saved'[m]

\* It is enough that a discovery tells nothing new, or only what is refused.
LEMMA NewsKept ==
    ASSUME TypeOK, IInv, Kept,
           \A m \in Node :
              \/ ask'[m].pc \notin {"asked", "answered"}
              \/ ask'[m] = ask[m] /\ (ask[m].pc = "asked" => Asked(m) \in up')
              \/ ask'[m].pc = "asked" /\ Asked(m)' \in up' /\ ask'[m].list \subseteq Refused(m)'
              \/ ask'[m].pc = "answered" /\ ask'[m].list \subseteq Refused(Asked(m))'
    PROVE  IInv'
<1>1. \A m \in Node : ask[m].pc \in {"asked", "answered"} => Asked(m) \in Node
  BY EntriesAre DEF TypeOK, Proper, Waiting, Asked
<1>2. \A m \in Node : ask'[m] = ask[m] => Asked(m)' = Asked(m)
  BY DEF Asked
<1>3. AskedRuns'
  BY <1>2 DEF IInv, AskedRuns
<1>4. ASSUME NEW m \in Node, ask'[m].pc = "asked" PROVE ask'[m].list \subseteq Refused(m)'
  BY <1>4 DEF IInv, TellersRefuse, Kept
<1>5. ASSUME NEW m \in Node, ask'[m].pc = "answered"
      PROVE  ask'[m].list \subseteq Refused(Asked(m))'
  <2>1. CASE ask'[m] = ask[m]
    <3>1. ask[m].list \subseteq Refused(Asked(m)) /\ Asked(m) \in Node
      BY <1>1, <1>5, <2>1 DEF IInv, TellersRefuse
    <3>2. Refused(Asked(m)) \subseteq IF Asked(m) \in up' THEN known'[Asked(m)] ELSE saved'[Asked(m)]
      BY <3>1 DEF Kept, Refused
    <3>3. Refused(Asked(m))' = IF Asked(m) \in up' THEN known'[Asked(m)] ELSE saved'[Asked(m)]
      BY <1>2, <2>1 DEF Refused
    <3> QED BY <2>1, <3>1, <3>2, <3>3
  <2>2. CASE ask'[m] # ask[m]
    BY <1>5, <2>2
  <2> QED BY <2>1, <2>2
<1> QED BY <1>3, <1>4, <1>5 DEF IInv, Kept, TellersRefuse

\* No step makes a node forget, and the invariant is inductive.
LEMMA InvStep == ASSUME TypeOK, IInv, [Next]_vars PROVE IInv' /\ Kept
<1>1. KnownSaved
  BY DEF IInv
<1>2. \A m \in Node : /\ ask[m] \in Ask
                      /\ ask[m].pc \in {"asked", "answered"} => Asked(m) \in Node
                      /\ ask[m].pc = "asked" => Asked(m) \in up
  BY EntriesAre DEF TypeOK, Proper, Waiting, Asked, IInv, AskedRuns
<1>3. Rest.pc = "idle" /\ \A i \in Nat : Walking(i).pc = "walking"
  BY DEF Rest, Walking
<1>4. ASSUME UNCHANGED <<up, known, saved>>
      PROVE  Kept /\ \A m \in Node : Refused(m)' = Refused(m)
  BY <1>1, <1>4 DEF Kept, KnownSaved, Refused, TypeOK
<1>5. ASSUME NEW n \in Node, Start(n) PROVE IInv' /\ Kept
  <2>1. /\ up' = up \cup {n} /\ saved' = saved
        /\ known' = [known EXCEPT ![n] = saved[n]] /\ ask' = [ask EXCEPT ![n] = Walking(1)]
    BY <1>5 DEF Start
  <2>2. Kept
    BY <1>1, <2>1 DEF Kept, KnownSaved, Refused, TypeOK
  <2>3. \A m \in Node : ask'[m].pc \in {"asked", "answered"} => ask'[m] = ask[m]
    BY <1>3, <2>1 DEF TypeOK
  <2> QED BY <1>2, <2>1, <2>2, <2>3, NewsKept
<1>6. ASSUME NEW n \in Node, Crash(n) PROVE IInv' /\ Kept
  <2>1. up' = up \ {n} /\ saved' = saved /\ known' = [known EXCEPT ![n] = {}]
    BY <1>6 DEF Crash
  <2>2. Kept
    BY <1>1, <2>1 DEF Kept, KnownSaved, Refused, TypeOK
  <2>3. ASSUME NEW m \in Node, ask'[m].pc \in {"asked", "answered"}
        PROVE  ask'[m] = ask[m] /\ (ask[m].pc = "asked" => Asked(m) \in up')
    <3>1. ask'[m] # Rest
      BY <1>3, <2>3
    <3>2. ~(m # n /\ ask[m].pc = "asked" /\ Asked(m) = n)
      BY <1>2, <1>6, <2>3, NextPhase DEF Crash, Serial
    <3> QED BY <1>2, <1>6, <2>1, <3>1, <3>2 DEF Crash
  <2> QED BY <2>2, <2>3, NewsKept
<1>7. ASSUME NEW n \in Node, NEW s \in Revocable, Revoke(n, s) PROVE IInv' /\ Kept
  <2>1. UNCHANGED <<up, known, ask>> /\ \A m \in Node : saved[m] \subseteq saved'[m]
    BY <1>7 DEF Revoke, TypeOK
  <2>2. Kept
    BY <1>1, <2>1 DEF Kept, KnownSaved, Refused, TypeOK
  <2> QED BY <1>2, <2>1, <2>2, NewsKept
<1>8. ASSUME NEW n \in Node, Begin(n) \/ Self(n) \/ Skip(n) \/ Broken(n) \/ Finish(n) \/ Lost(n)
      PROVE  IInv' /\ Kept
  <2>1. UNCHANGED <<up, known, saved>>
    BY <1>8 DEF Begin, Self, Skip, Broken, Finish, Lost
  <2>2. \E r \in {Rest} \cup {Walking(i) : i \in Nat} : ask' = [ask EXCEPT ![n] = r]
    <3>1. ask[n].at \in Nat /\ ask[n].at + 1 \in Nat
      BY <1>2 DEF Ask
    <3>2. ask' \in {[ask EXCEPT ![n] = Walking(1)], [ask EXCEPT ![n] = Rest],
                    [ask EXCEPT ![n] = Walking(ask[n].at + 1)]}
      BY <1>8 DEF Begin, Self, Skip, Broken, Finish, Lost, GoOn, SetRole, TypeOK
    <3> QED BY <3>1, <3>2
  <2>3. \A m \in Node : ask'[m].pc \in {"asked", "answered"} => ask'[m] = ask[m]
    BY <1>3, <2>2 DEF TypeOK
  <2> QED BY <1>2, <1>4, <2>1, <2>3, NewsKept
<1>9. ASSUME NEW n \in Node, Connect(n) PROVE IInv' /\ Kept
  <2>1. /\ UNCHANGED <<up, known, saved>> /\ n \in up /\ Asked(n) \in up
        /\ ask' = [ask EXCEPT ![n] = [@ EXCEPT !.pc = "asked", !.list = known[n]]]
    <3>1. Connects(n, Asked(n)) /\ UNCHANGED <<up, known, saved>>
      BY <1>9 DEF Connect, Answers
    <3>2. n \in up /\ Asked(n) \in up
      BY <3>1 DEF Connects, TypeOK
    <3> QED BY <1>9, <3>1, <3>2 DEF Connect
  <2> DEFINE r == [ask[n] EXCEPT !.pc = "asked", !.list = known[n]]
  <2>2. /\ ask'[n].pc = "asked" /\ ask'[n].list = known[n] /\ Asked(n)' = Asked(n)
    <3>1. known[n] \in SUBSET Serial /\ ask[n] \in Ask
      BY DEF TypeOK
    <3>2. r \in Ask /\ r.at = ask[n].at /\ r.pc = "asked"
      BY <3>1, NextPhase
    <3>3. r.list = known[n]
      BY <3>1, NextList
    <3>4. ask'[n] = r
      BY <2>1 DEF TypeOK
    <3> HIDE DEF r
    <3> QED BY <3>2, <3>3, <3>4 DEF Asked
  <2>3. Refused(n)' = known[n]
    BY <2>1 DEF Refused
  <2>4. \A m \in Node \ {n} : ask'[m] = ask[m]
    BY <2>1 DEF TypeOK
  <2> QED BY <1>2, <1>4, <2>1, <2>2, <2>3, <2>4, NewsKept
<1>10. ASSUME NEW n \in Node, Handle(n) PROVE IInv' /\ Kept
  <2>0. PICK p \in Node : p = Asked(n) /\ p \in up
    BY <1>2, <1>10 DEF Handle
  <2> DEFINE list == known[p] \cup ask[n].list
             new == [known EXCEPT ![p] = list]
             r == [ask[n] EXCEPT !.pc = "answered", !.list = list]
  <2>1. list \in SUBSET Serial /\ Learn(new) /\ up' = up /\ ask' = [ask EXCEPT ![n] = r]
    BY <1>2, <1>10, <2>0 DEF Handle, TypeOK, Ask
  <2>2. new \in [Node -> SUBSET Serial] /\ new[p] = list
        /\ (\A m \in Node : known[m] \subseteq new[m])
        /\ \A m \in Node \ up : new[m] = known[m]
    BY <2>0, <2>1 DEF TypeOK
  <2>3. Kept /\ Refused(p)' = list
    <3> HIDE DEF new, list, r
    <3> QED BY <1>1, <2>0, <2>1, <2>2, LearnKeeps DEF Kept
  <2>4. r \in Ask /\ r.at = ask[n].at /\ r.pc = "answered"
    <3> HIDE DEF list
    <3> QED BY <1>2, <2>1, NextPhase
  <2>5. r.list = list
    <3> HIDE DEF list
    <3> QED BY <1>2, NextList
  <2>6. ask'[n] = r /\ \A m \in Node \ {n} : ask'[m] = ask[m]
    BY <2>1 DEF TypeOK
  <2>7. Asked(n)' = p
    <3> HIDE DEF r
    <3> QED BY <2>0, <2>4, <2>6 DEF Asked
  <2>8. Refused(Asked(n))' = list
    <3> HIDE DEF list, r
    <3> QED BY <2>3, <2>7 DEF Refused
  <2> HIDE DEF r, list
  <2> QED BY <1>2, <2>1, <2>3, <2>4, <2>5, <2>6, <2>8, NewsKept
<1>11. ASSUME NEW n \in Node, Answer(n) PROVE IInv' /\ Kept
  <2> DEFINE new == [known EXCEPT ![n] = @ \cup ask[n].list]
  <2>1. Learn(new) /\ up' = up /\ n \in up /\ ask' = [ask EXCEPT ![n] = Rest]
    BY <1>11 DEF Answer, SetRole, TypeOK, Proper
  <2>2. new \in [Node -> SUBSET Serial] /\ (\A m \in Node : known[m] \subseteq new[m])
        /\ \A m \in Node \ up : new[m] = known[m]
    BY <1>2, <2>1 DEF TypeOK, Ask
  <2>3. Kept
    <3> HIDE DEF new
    <3> QED BY <1>1, <2>1, <2>2, LearnKeeps DEF Kept
  <2>4. \A m \in Node : ask'[m].pc \in {"asked", "answered"} => ask'[m] = ask[m]
    BY <1>3, <2>1 DEF TypeOK
  <2> QED BY <1>2, <2>1, <2>3, <2>4, NewsKept
<1>12. ASSUME NEW n \in Node, NEW p \in Node, Contact(n, p) PROVE IInv' /\ Kept
  <2>0. PICK who \in {{p}, {n, p}} :
          Learn([m \in Node |-> IF m \in who THEN known[n] \cup known[p] ELSE known[m]])
    BY <1>12 DEF Contact
  <2> DEFINE new == [m \in Node |-> IF m \in who THEN known[n] \cup known[p] ELSE known[m]]
  <2>1. Learn(new) /\ up' = up /\ n \in up /\ p \in up /\ ask' = ask
    BY <1>12, <2>0 DEF Contact, Answers, Connects, TypeOK
  <2>2. new \in [Node -> SUBSET Serial] /\ (\A m \in Node : known[m] \subseteq new[m])
        /\ \A m \in Node \ up : new[m] = known[m]
    BY <2>1 DEF TypeOK
  <2>3. Kept
    <3> HIDE DEF new
    <3> QED BY <1>1, <2>1, <2>2, LearnKeeps DEF Kept
  <2> QED BY <1>2, <2>1, <2>3, NewsKept
<1>13. CASE UNCHANGED vars
  BY <1>2, <1>4, <1>13, NewsKept DEF vars
<1> QED
  BY <1>5, <1>6, <1>7, <1>8, <1>9, <1>10, <1>11, <1>12, <1>13 DEF Next, Discover

LEMMA InvInit == Init => IInv
<1> SUFFICES ASSUME Init PROVE IInv
  OBVIOUS
<1>1. \A n \in Node : ask[n].pc = "idle"
  BY DEF Init, Rest
<1>2. up = {}
  BY DEF Init
<1> QED BY <1>1, <1>2 DEF IInv, KnownSaved, AskedRuns, TellersRefuse

\* What a node knows is in its file, an ask is with a node that runs, and what was
\* told is refused by who told it: the conjuncts need one another.
THEOREM MembershipInvariant == Spec => []IInv
BY TypeInit, TypeStep, InvInit, InvStep, PTL DEF Spec

\* What a node has told others it refuses itself, also after a crash.
THEOREM TellersRefuseAlways == Spec => []TellersRefuse
<1>1. IInv => TellersRefuse
  BY DEF IInv
<1> QED BY <1>1, MembershipInvariant, PTL

\* A serial that is refused is refused for good, in memory and in the file.
THEOREM NothingForgotten == Spec => NeverForgets
<1>1. TypeOK /\ IInv /\ [Next]_vars =>
         [\A n \in Node : Refused(n) \subseteq Refused(n)' \cap saved'[n]]_vars
  BY InvStep DEF Kept
<1> QED BY <1>1, MembershipTypeCorrect, MembershipInvariant, PTL DEF Spec, NeverForgets

-----------------------------------------------------------------------------
(* One discovery.                                                          *)

Still == UNCHANGED <<up, listening, key, known, events>>

\* What a node could choose it still can.
LEMMA StillChoices ==
    ASSUME Still, NEW n
    PROVE  Choices(n)' = Choices(n) /\ Expected(n)' = Expected(n) /\ CanServe(n)' = CanServe(n)
<1>1. \A p : Answers(n, p)' = Answers(n, p)
  BY DEF Still, Answers, Connects, SerialOf
<1>2. CanServe(n)' = CanServe(n)
  BY DEF Still, CanServe
<1>3. Choices(n)' = Choices(n)
  BY <1>1, <1>2 DEF Choices
<1> QED BY <1>2, <1>3 DEF Expected

\* The first choice is the one that has none before it.
LEMMA FirstChoice ==
    ASSUME NEW n \in Node, NEW h \in Choices(n), \A i \in Choices(n) : h <= i
    PROVE  Expected(n) = Entries[n][h]
<1>1. Choices(n) \subseteq Nat
  BY EntriesAre DEF Choices
<1>2. \A k \in Choices(n) : (\A j \in Choices(n) : k <= j) => k = h
  BY <1>1
<1>3. First(Choices(n)) = h
  BY <1>2 DEF First
<1> QED BY <1>3 DEF Expected

\* The steps that leave a node's discovery alone.
LEMMA OthersCourse ==
    ASSUME Still, NEW n, ask'[n] = ask[n], leader'[n] = leader[n], OnCourse(n)
    PROVE  OnCourse(n)'
BY StillChoices DEF OnCourse, Waiting

\* Those that end it.
LEMMA EndsWell ==
    ASSUME TypeOK, Still, NEW n \in Node, NEW l, SetRole(n, l), l = Expected(n)
    PROVE  OnCourse(n)'
<1>1. ask'[n].pc = "idle" /\ leader'[n] = l
  BY DEF TypeOK, SetRole, Rest
<1> QED BY <1>1, StillChoices DEF OnCourse

\* The one that goes past an entry.
LEMMA GoesOnWell ==
    ASSUME TypeOK, Still, NEW n \in Node, At(n), GoOn(n), ask[n].at \notin Choices(n), OnCourse(n)
    PROVE  OnCourse(n)'
<1>1. ask[n].at \in Nat /\ Choices(n) \subseteq Nat
  BY EntriesAre DEF TypeOK, Ask, Choices
<1>2. ask'[n].pc = "walking" /\ ask'[n].at = ask[n].at + 1
  BY DEF TypeOK, GoOn, Walking
<1>3. \A i \in Choices(n) : ask[n].at <= i /\ ask[n].at # i
  BY DEF At, OnCourse
<1>4. \A i \in Choices(n) : ask[n].at + 1 <= i
  BY <1>1, <1>3
<1> QED BY <1>2, <1>4, StillChoices DEF OnCourse, Waiting

LEMMA CourseStep ==
    ASSUME TypeOK, Still, [Next]_vars, NEW n \in up, OnCourse(n) \/ Begin(n)
    PROVE  OnCourse(n)'
<1>1. n \in Node /\ ask[n] \in Ask /\ Proper(n)
  BY DEF TypeOK
<1>2. CASE Begin(n)
  <2>1. ask'[n] = Walking(1)
    BY <1>1, <1>2 DEF Begin, TypeOK
  <2>2. \A i \in Choices(n) : 1 <= i
    BY <1>1, EntriesAre DEF Choices
  <2> QED BY <2>1, <2>2, StillChoices DEF OnCourse, Walking, Waiting
<1> SUFFICES ASSUME OnCourse(n), ~Begin(n) PROVE OnCourse(n)'
  BY <1>2
\* The step is the node's own.
<1>3. CASE Self(n)
  <2>1. ask[n].at \in 1..Len(Entries[n])
    BY <1>1, <1>3, EntriesAre DEF Self, At, Proper
  <2>2. ask[n].at \in Choices(n) <=> CanServe(n)
    BY <1>3, <2>1 DEF Self, Asked, Choices
  <2>3. CASE CanServe(n) /\ SetRole(n, n)
    <3>1. \A i \in Choices(n) : ask[n].at <= i
      BY <1>3 DEF Self, At, OnCourse
    <3>2. Expected(n) = n
      BY <1>1, <1>3, <2>2, <2>3, <3>1, FirstChoice DEF Self, Asked
    <3> QED BY <1>1, <2>3, <3>2, EndsWell
  <2>4. CASE ~CanServe(n) /\ GoOn(n)
    BY <1>1, <1>3, <2>2, <2>4, GoesOnWell DEF Self
  <2> QED BY <1>3, <2>3, <2>4 DEF Self
<1>4. CASE Skip(n)
  <2>1. ask[n].at \notin Choices(n)
    BY <1>4 DEF Skip, Asked, Choices
  <2> QED BY <1>1, <1>4, <2>1, GoesOnWell DEF Skip
<1>5. CASE Connect(n)
  <2>1. ask[n].at \in Choices(n)
    <3>1. ask[n].at \in 1..Len(Entries[n])
      BY <1>1, <1>5, EntriesAre DEF Connect, At, Proper
    <3> QED BY <1>5, <3>1 DEF Connect, Asked, Choices
  <2>2. ask'[n] = [ask[n] EXCEPT !.pc = "asked", !.list = known[n]]
    BY <1>1, <1>5 DEF Connect, TypeOK
  <2>3. ask'[n].pc = "asked" /\ ask'[n].at = ask[n].at
    BY <1>1, <2>2 DEF Ask
  <2>4. \A i \in Choices(n) : ask[n].at <= i
    BY <1>5 DEF Connect, At, OnCourse
  <2> QED BY <2>1, <2>3, <2>4, StillChoices DEF OnCourse, Waiting
<1>6. CASE Handle(n)
  <2>1. ask'[n].pc = "answered" /\ ask'[n].at = ask[n].at
    BY <1>1, <1>6 DEF Handle, TypeOK, Ask
  <2>2. ask[n].at \in Choices(n) /\ \A i \in Choices(n) : ask[n].at <= i
    BY <1>6 DEF Handle, OnCourse, Waiting
  <2> QED BY <2>1, <2>2, StillChoices DEF OnCourse, Waiting
<1>7. CASE Answer(n)
  <2>1. ask[n].at \in Choices(n) /\ \A i \in Choices(n) : ask[n].at <= i
    BY <1>7 DEF Answer, OnCourse, Waiting
  <2>2. Expected(n) = Asked(n)
    BY <1>1, <2>1, FirstChoice DEF Asked
  <2> QED BY <1>1, <1>7, <2>2, EndsWell DEF Answer
<1>8. CASE Finish(n)
  <2>1. ask[n].pc = "walking" /\ ~(ask[n].at <= Len(Entries[n]))
    BY <1>8 DEF Finish, At
  <2>2. \A i \in Choices(n) : ask[n].at <= i
    BY <2>1 DEF OnCourse
  <2>3. ask[n].at \in Nat /\ Len(Entries[n]) \in Nat
    BY <1>1, EntriesAre DEF Ask
  <2>4. Choices(n) = {}
    BY <2>1, <2>2, <2>3 DEF Choices
  <2>5. Expected(n) = None
    BY <2>4 DEF Expected
  <2> QED BY <1>1, <1>8, <2>5, EndsWell DEF Finish
<1>9. ~Broken(n)
  BY DEF Broken, OnCourse
<1>10. CASE Discover(n)
  BY <1>3, <1>4, <1>5, <1>6, <1>7, <1>8, <1>9, <1>10 DEF Discover
\* Another's, or none of these.
<1>11. ASSUME NEW m \in Node, m # n, Discover(m) PROVE OnCourse(n)'
  <2>1. ask'[n] = ask[n] /\ leader'[n] = leader[n]
    BY <1>1, <1>11 DEF Discover, Begin, Self, Skip, Connect, Handle, Answer, Broken, Finish,
                       GoOn, SetRole, TypeOK
  <2> QED BY <2>1, OthersCourse
<1>12. ASSUME NEW m \in Node, Start(m) PROVE FALSE
  BY <1>12 DEF Start, Still
<1>13. ASSUME NEW m \in Node, Crash(m) \/ Lost(m) \/ \E s \in Revocable : Revoke(m, s) PROVE FALSE
  <2>1. events' = events + 1
    BY <1>13 DEF Crash, Lost, Revoke, Event
  <2>2. events \in Nat /\ events' = events
    BY DEF TypeOK, Still
  <2> QED BY <2>1, <2>2
<1>14. ASSUME NEW m \in Node, NEW p \in Node, Contact(m, p) PROVE OnCourse(n)'
  BY <1>14, OthersCourse DEF Contact
<1>15. CASE UNCHANGED vars
  BY <1>15, OthersCourse DEF vars
<1> QED BY <1>10, <1>11, <1>12, <1>13, <1>14, <1>15 DEF Next

\* A discovery over a network that stays as it is finds the first entry of the list
\* that answers, and all that follow find the same: of Settled, what is left is
\* that discoveries go on (node.go, discover).
THEOREM DiscoveryFindsFirst == Spec => StaysOnCourse
<1>1. TypeOK /\ [Next]_vars =>
        [UNCHANGED <<up, listening, key, known, events>> =>
            \A n \in up : OnCourse(n) \/ Begin(n) => OnCourse(n)']_vars
  BY CourseStep DEF Still
<1> QED BY <1>1, MembershipTypeCorrect, PTL DEF Spec, StaysOnCourse
=============================================================================
