---------------------------- MODULE Relay_proofs ----------------------------
(***************************************************************************)
(* Proofs about Relay, for any network, any files and any number of        *)
(* faults: the type invariant, and that no file is ever lost.              *)
(***************************************************************************)
EXTENDS Relay, TLAPS

-----------------------------------------------------------------------------
(* Lemmas on the operators.                                                *)

\* The items a loop can find are items.
LEMMA WaitingType ==
    ASSUME TypeOK, NetworkAssumption, NEW n \in Node, NEW it \in Waiting(n)
    PROVE  it \in Item
<1>1. CASE it \in forward[n]  BY <1>1 DEF TypeOK, Held
<1>2. ASSUME NEW f \in File, it = OutItem(f) PROVE it \in Item
  <2>1. 0 \in Nat /\ 0 \in {0} \cup Slots  OBVIOUS
  <2>2. QED  BY <1>2, <2>1 DEF OutItem, Item
<1>3. QED  BY <1>1, <1>2 DEF Waiting, TypeOK

\* A loop that is not idle has an item.
LEMMA LoopType ==
    ASSUME TypeOK, NEW n \in Node, loop[n] # Idle
    PROVE  loop[n] \in Busy /\ loop[n].item \in Item
           /\ loop[n] = [pc |-> loop[n].pc, item |-> loop[n].item]
BY DEF TypeOK, Busy

\* Giving up an attempt leaves a loop that is idle or tries the next way.
LEMMA GiveUpType ==
    ASSUME NEW l \in Busy \cup {Idle}
    PROVE  /\ GiveUp(l) \in Busy \cup {Idle}
           /\ GiveUp(l) # Idle => /\ l \in Busy /\ GiveUp(l).item = l.item
                                  /\ GiveUp(l).pc = "next"
<1>1. CASE l.pc \in {"direct", "sentDirect"}
  <2>1. l # Idle  BY <1>1 DEF Idle
  <2>2. l \in Busy  BY <2>1
  <2>3. PICK p \in {"direct", "sentDirect", "next", "sentNext"}, i \in Item :
           l = [pc |-> p, item |-> i]
    BY <2>2 DEF Busy
  <2>4. GiveUp(l) = [pc |-> "next", item |-> i]  BY <1>1, <2>3 DEF GiveUp
  <2>5. QED  BY <2>2, <2>3, <2>4 DEF Busy
<1>2. CASE l.pc \notin {"direct", "sentDirect"}
  BY <1>2 DEF GiveUp
<1>3. QED  BY <1>1, <1>2

\* Taking a file away leaves well-typed folders and removes no other path.
LEMMA TakeAwayType ==
    ASSUME TypeOK, NEW n \in Node, NEW it \in Item, TakeAway(n, it)
    PROVE  outbox' \subseteq File /\ forward' \in [Node -> SUBSET Held]
BY DEF TypeOK, TakeAway

LEMMA PutAsideType ==
    ASSUME TypeOK, NEW n \in Node, NEW it \in Item, PutAside(n, it)
    PROVE  /\ outbox' \subseteq File /\ forward' \in [Node -> SUBSET Held]
           /\ failed' \in [File -> Nat]
           /\ \A f \in File : failed'[f] >= failed[f]
           /\ Present(n, it) => failed'[it.file] > 0
<1>1. TakeAway(n, it)  BY DEF PutAside
<1>2. it.file \in File  BY DEF Item
<1>3. QED  BY <1>1, <1>2, TakeAwayType DEF PutAside, TypeOK

\* What is put into forward/.
LEMMA BareType ==
    ASSUME NetworkAssumption, NEW f \in File, NEW k \in Slots
    PROVE  /\ Bare(f, k) \in Held /\ Bare(f, k) \in Item /\ k # 0
           /\ Bare(f, k).file = f /\ Bare(f, k).slot = k
           /\ ~Bare(f, k).proof /\ Rank(Bare(f, k)) = 0
BY DEF Bare, Held, Item, NetworkAssumption, Rank

LEMMA CopiedType ==
    ASSUME NEW t \in Transfer, t.at # 0
    PROVE  /\ Copied(t) \in Held /\ Copied(t).file = t.item.file
           /\ Copied(t).slot = t.at
           /\ Rank(Copied(t)) > Rank(t.item)
BY DEF Copied, HopsHeld, Held, Item, Transfer, Rank

\* What replaces a transfer is a transfer.
LEMMA DetachedType ==
    ASSUME TypeOK, NEW t \in Transfer, NEW c \in {"forgotten", "gone"}
    PROVE  /\ Detached(t, c) \in Transfer /\ Detached(t, c).kind = t.kind
           /\ Detached(t, c).src = t.src /\ Detached(t, c).dst = t.dst
           /\ Detached(t, c).item = t.item /\ Detached(t, c).stage = t.stage
           /\ Detached(t, c).claim = c /\ Detached(t, c).at = t.at
<1> DEFINE u == [t EXCEPT !.claim = c]
<1>1. /\ u \in Transfer /\ u.kind = t.kind /\ u.src = t.src /\ u.dst = t.dst
      /\ u.item = t.item /\ u.stage = t.stage /\ u.claim = c /\ u.at = t.at
  BY DEF Transfer
<1>2. faults + 1 \in Nat  BY DEF TypeOK
<1> DEFINE v == [u EXCEPT !.fault = faults + 1]
<1>3. Detached(t, c) = v  BY DEF Detached
<1> HIDE DEF u
<1>4. /\ v \in Transfer /\ v.kind = u.kind /\ v.src = u.src /\ v.dst = u.dst
      /\ v.item = u.item /\ v.stage = u.stage /\ v.claim = u.claim
      /\ v.at = u.at
  BY <1>1, <1>2 DEF Transfer
<1>5. QED  BY <1>1, <1>3, <1>4

LEMMA BegunType ==
    ASSUME NEW k \in {"deliver", "pull", "local"}, NEW s \in Node, NEW d \in Node,
           NEW it \in Item, k = "local" => it.slot = 0
    PROVE  Begun(k, s, d, it) \in Transfer
BY DEF Begun, Transfer

LEMMA AnsweredType ==
    ASSUME NEW t \in Transfer
    PROVE  LET u == [t EXCEPT !.stage = "stored"]
           IN  /\ u \in Transfer /\ u.kind = t.kind /\ u.src = t.src
               /\ u.dst = t.dst /\ u.item = t.item /\ u.claim = t.claim
               /\ u.stage = "stored"
BY DEF Transfer

LEMMA PlacedType ==
    ASSUME NetworkAssumption, NEW t \in Transfer, NEW k \in Slots
    PROVE  /\ Placed(t, k) \in Transfer /\ Placed(t, k).kind = t.kind
           /\ Placed(t, k).src = t.src /\ Placed(t, k).dst = t.dst
           /\ Placed(t, k).item = t.item /\ Placed(t, k).claim = t.claim
           /\ Placed(t, k).stage = "placed" /\ Placed(t, k).at = k
<1>0. k \in {0} \cup Slots /\ k # 0  BY DEF NetworkAssumption
<1> DEFINE u == [t EXCEPT !.at = k]
<1>1. /\ u \in Transfer /\ u.kind = t.kind /\ u.src = t.src /\ u.dst = t.dst
      /\ u.item = t.item /\ u.claim = t.claim /\ u.at = k
  BY <1>0 DEF Transfer
<1> DEFINE v == [u EXCEPT !.stage = "placed"]
<1>2. Placed(t, k) = v  BY DEF Placed
<1> HIDE DEF u
<1>3. /\ v \in Transfer /\ v.kind = u.kind /\ v.src = u.src /\ v.dst = u.dst
      /\ v.item = u.item /\ v.claim = u.claim /\ v.at = u.at /\ v.stage = "placed"
  BY <1>0, <1>1 DEF Transfer
<1>4. QED  BY <1>1, <1>2, <1>3

-----------------------------------------------------------------------------
(* Type correctness.                                                       *)

LEMMA TypeInit == ASSUME NetworkAssumption PROVE Init => TypeOK
BY DEF Init, TypeOK, NetworkAssumption

LEMMA TypeNext ==
    ASSUME NetworkAssumption, TypeOK, [Next]_vars
    PROVE  TypeOK'
<1>1. ASSUME NEW n \in Node, Discover(n) PROVE TypeOK'
  BY <1>1 DEF Discover, TypeOK, NetworkAssumption
<1>2. ASSUME NEW n \in Node, NEW it \in Waiting(n), ItemStep(n, it) PROVE TypeOK'
  <2> it \in Item /\ it.file \in File  BY WaitingType DEF Item, Held
  <2>1. CASE Route(n, it)
    <3>1. [pc |-> IF Dest[it.file] \in Hosted THEN "direct" ELSE "next",
           item |-> it] \in Busy
      BY DEF Busy
    <3>2. loop' \in [Node -> Busy \cup {Idle}]  BY <2>1, <3>1 DEF Route, TypeOK
    <3>3. QED  BY <2>1, <3>2 DEF Route, TypeOK
  <2>2. CASE RouteFatal(n, it)
    BY <2>2, PutAsideType DEF RouteFatal, TypeOK
  <2>3. CASE DeliverToSelf(n, it)
    <3>1. [pc |-> "sentNext", item |-> it] \in Busy  BY DEF Busy
    <3>2. loop' \in [Node -> Busy \cup {Idle}]
      BY <2>3, <3>1 DEF DeliverToSelf, TypeOK
    <3>3. Begun("local", n, n, it) \in Transfer
      BY <2>3, BegunType DEF DeliverToSelf
    <3>5. wire' \subseteq Transfer  BY <2>3, <3>3 DEF DeliverToSelf, TypeOK
    <3>4. QED  BY <2>3, <3>2, <3>5 DEF DeliverToSelf, TypeOK
  <2>4. QED  BY <1>2, <2>1, <2>2, <2>3 DEF ItemStep
<1>3. ASSUME NEW n \in Node, Unavailable(n) PROVE TypeOK'
  <2>1. loop[n] \in Busy \cup {Idle}  BY DEF TypeOK
  <2>2. GiveUp(loop[n]) \in Busy \cup {Idle}  BY <2>1, GiveUpType
  <2>3. QED  BY <1>3, <2>2 DEF Unavailable, TypeOK
<1>4. ASSUME NEW n \in Node, Refused(n) PROVE TypeOK'
  <2>1. loop[n] # Idle  BY <1>4 DEF Refused, Target, Idle
  <2>2. loop[n].item \in Item  BY <2>1, LoopType
  <2>3. QED  BY <1>4, <2>2, PutAsideType DEF Refused, TypeOK
<1>5. ASSUME NEW n \in Node, Send(n) PROVE TypeOK'
  <2>1. loop[n].pc \in {"direct", "next"} /\ loop[n] # Idle
    BY <1>5 DEF Send, Target, Idle
  <2>2. loop[n].item \in Item /\ loop[n].item.file \in File
        /\ loop[n] = [pc |-> loop[n].pc, item |-> loop[n].item]
    BY <2>1, LoopType DEF Item
  <2>3. Target(n) \in Node
    BY <1>5, <2>1, <2>2 DEF Send, Target, RelayOK, TypeOK, NetworkAssumption
  <2>5. wire' \subseteq Transfer  BY <1>5, <2>2, <2>3, BegunType DEF Send, TypeOK
  <2>6. PICK p \in {"sentDirect", "sentNext"} :
          loop' = [loop EXCEPT ![n] = [pc |-> p, item |-> loop[n].item]]
    BY <1>5, <2>1, <2>2 DEF Send
  <2>7. [pc |-> p, item |-> loop[n].item] \in Busy  BY <2>2 DEF Busy
  <2>8. loop' \in [Node -> Busy \cup {Idle}]  BY <2>6, <2>7 DEF TypeOK
  <2>9. QED  BY <1>5, <2>5, <2>8 DEF Send, TypeOK
<1>6. ASSUME NEW n \in Node, HoldOwn(n) PROVE TypeOK'
  <2>1. loop[n].pc = "next" /\ loop[n] # Idle  BY <1>6 DEF HoldOwn, Idle
  <2>2. loop[n].item \in Item  BY <2>1, LoopType
  <2>7. Begun("local", n, n, loop[n].item) \in Transfer
    BY <1>6, <2>2, BegunType DEF HoldOwn
  <2>3. wire' \subseteq Transfer  BY <1>6, <2>7 DEF HoldOwn, TypeOK
  <2>4. [pc |-> "sentNext", item |-> loop[n].item] \in Busy  BY <2>2 DEF Busy
  <2>5. loop' \in [Node -> Busy \cup {Idle}]  BY <1>6, <2>4 DEF HoldOwn, TypeOK
  <2>6. QED  BY <1>6, <2>3, <2>5 DEF HoldOwn, TypeOK
<1>8. ASSUME NEW n \in Node, Keep(n) PROVE TypeOK'
  BY <1>8 DEF Keep, TypeOK
<1>9. ASSUME NEW n \in Node, leader[n] # None, NEW it \in forward[leader[n]],
             Pull(n, it)
      PROVE  TypeOK'
  <2>1. leader[n] \in Node /\ it \in Item  BY <1>9 DEF TypeOK, Held
  <2>2. Begun("pull", leader[n], n, it) \in Transfer  BY <2>1, BegunType
  <2>3. QED  BY <1>9, <2>2 DEF Pull, TypeOK
<1>10. ASSUME NEW n \in Node, Crash(n) PROVE TypeOK'
  <2>1. faults' \in Nat  BY <1>10 DEF Crash, Fault, TypeOK
  <2>2. AfterCrash(n) \subseteq Transfer
    <3>1. \A t \in wire : t \in Transfer /\ Detached(t, "gone") \in Transfer
      BY DetachedType DEF TypeOK
    <3>2. QED  BY <3>1 DEF AfterCrash
  <2>3. \A m \in Node : loop'[m] \in Busy \cup {Idle}
    BY <1>10, GiveUpType DEF Crash, TypeOK
  <2>4. QED  BY <1>10, <2>1, <2>2, <2>3 DEF Crash, TypeOK
<1>11. ASSUME NEW n \in Node, RestartInPlace(n) PROVE TypeOK'
  <2>1. faults' \in Nat  BY <1>11 DEF RestartInPlace, Fault, TypeOK
  <2>2. \A t \in wire : t \in Transfer /\ Detached(t, "forgotten") \in Transfer
    BY DetachedType DEF TypeOK
  <2>3. wire' \subseteq Transfer  BY <1>11, <2>2 DEF RestartInPlace
  <2>4. QED  BY <1>11, <2>1, <2>3 DEF RestartInPlace, TypeOK
<1>12. ASSUME NEW t \in wire, WireStep(t) PROVE TypeOK'
  <2> DEFINE T == [t EXCEPT !.stage = "stored"]
             G == Detached(t, "gone")
  <2>0. t \in Transfer /\ t.item \in Item /\ t.item.file \in File
        /\ t.item.hops \in Nat /\ t.src \in Node /\ t.dst \in Node
    BY DEF TypeOK, Transfer, Item
  <2>a. T \in Transfer /\ G \in Transfer  BY <2>0, AnsweredType, DetachedType
  <2>b. loop[t.src] \in Busy \cup {Idle}  BY <2>0 DEF TypeOK
  <2>c. StopWaiting(t) => loop' \in [Node -> Busy \cup {Idle}]
    BY <2>0, <2>b, GiveUpType DEF StopWaiting, TypeOK
  <2>d. Answered(t) \subseteq Transfer  BY <2>a DEF Answered, TypeOK
  <2>1. CASE Store(t)
    BY <2>1, <2>0, <2>d DEF Store, TypeOK
  <2>e. CASE Place(t)
    <3>1. PICK k \in Slots :
             /\ forward' = [forward EXCEPT ![t.dst] = @ \cup {Bare(t.item.file, k)}]
             /\ wire' = (wire \ {t}) \cup {Placed(t, k)}
      BY <2>e DEF Place
    <3>2. Bare(t.item.file, k) \in Held /\ Placed(t, k) \in Transfer
      BY <2>0, BareType, PlacedType
    <3>3. forward' \in [Node -> SUBSET Held]
      <4> DEFINE b == Bare(t.item.file, k)
      <4>1. b \in Held  BY <3>2
      <4>2. forward' = [forward EXCEPT ![t.dst] = @ \cup {b}]  BY <3>1
      <4> HIDE DEF b
      <4>3. QED  BY <4>1, <4>2, <2>0 DEF TypeOK
    <3>4. wire' \subseteq Transfer  BY <3>1, <3>2 DEF TypeOK
    <3>5. QED  BY <2>e, <3>3, <3>4 DEF Place, TypeOK
  <2>f. CASE WriteSidecar(t)
    <3>1. forward' \in [Node -> SUBSET Held]
      <4>1. \A x \in forward[t.dst] : x \in Held  BY <2>0 DEF TypeOK
      <4>2. \A x \in forward[t.dst] : x.slot = t.at => Copied(t) \in Held
        BY <4>1, <2>0, CopiedType DEF Held
      <4> DEFINE S == {IF x.file = t.item.file /\ x.slot = t.at
                       THEN Copied(t) ELSE x : x \in forward[t.dst]}
      <4>3. S \subseteq Held  BY <4>1, <4>2
      <4>4. forward' = [forward EXCEPT ![t.dst] = S]  BY <2>f DEF WriteSidecar
      <4> HIDE DEF S
      <4>5. QED  BY <4>3, <4>4 DEF TypeOK
    <3>2. QED  BY <2>f, <3>1, <2>d DEF WriteSidecar, TypeOK
  <2>g. CASE SidecarFails(t)
    <3> DEFINE b == Bare(t.item.file, t.at)
    <3>1. b.file \in File /\ b.slot = t.at  BY <2>0 DEF Bare
    <3>2. outbox' \subseteq File /\ forward' \in [Node -> SUBSET Held]
      BY <2>g, <2>0 DEF SidecarFails, TakeAway, TypeOK
    <3>3. loop' \in [Node -> Busy \cup {Idle}]
      BY <2>g, <2>c DEF SidecarFails, TypeOK
    <3>4. QED  BY <2>g, <3>2, <3>3 DEF SidecarFails, Fault, TypeOK
  <2>2. CASE PullRefused(t)
    BY <2>2, <2>0, PutAsideType DEF PullRefused, TypeOK
  <2>3. CASE NoRoom(t)
    BY <2>3, <2>c DEF NoRoom, TypeOK
  <2>4. CASE Ack(t)
    BY <2>4, <2>0, TakeAwayType DEF Ack, TypeOK
  <2>5. CASE Break(t)
    BY <2>5, <2>a, <2>c DEF Break, Fault, TypeOK
  <2>6. CASE Discard(t)
    BY <2>6 DEF Discard, TypeOK
  <2>7. QED  BY <1>12, <2>1, <2>e, <2>f, <2>g, <2>2, <2>3, <2>4, <2>5, <2>6 DEF WireStep
<1>13. CASE UNCHANGED vars
  BY <1>13 DEF vars, TypeOK
<1>14. QED
  BY <1>1, <1>2, <1>3, <1>4, <1>5, <1>6, <1>8, <1>9, <1>10, <1>11,
     <1>12, <1>13 DEF Next, LoopStep

\* Every variable keeps its type in every behaviour of the network.
THEOREM TypeCorrect == Spec => []TypeOK
<1>1. Init => TypeOK  BY TypeInit, NetworkAssumption
<1>2. TypeOK /\ [Next]_vars => TypeOK'  BY TypeNext, NetworkAssumption
<1>3. QED  BY <1>1, <1>2, PTL DEF Spec

-----------------------------------------------------------------------------
(* Nothing is lost.  A step either adds copies, or takes one copy away that *)
(* has a copy further on, or is no longer needed because the file is done. *)

\* Counters of finished copies never fall.
Grows == \A f \in File : inbox'[f] >= inbox[f] /\ failed'[f] >= failed[f]

\* Every guarantee of a copy further on is kept.
Up == \A f \in File, r \in Nat : Above(f, r) => Above(f, r)'

\* Why the item of a path may be taken away.
SafeToTake(n, it) ==
    \/ Done(it.file)'
    \/ it \in Waiting(n) /\ it.proof /\ Above(it.file, Rank(it))
    \/ it.slot # 0 /\ ~Present(n, it)
    \/ it \in forward[n] /\ ~it.proof

LEMMA RankType == ASSUME NEW it \in Item PROVE Rank(it) \in Nat
BY DEF Rank, Item

\* What is done stays done.
LEMMA DoneStays ==
    ASSUME TypeOK, TypeOK', Grows, NEW f \in File, Done(f)
    PROVE  Done(f)'
BY DEF TypeOK, Grows, Done

\* Steps that only add copies.
LEMMA Adding ==
    ASSUME TypeOK, TypeOK', NoLoss, Grows, outbox' = outbox,
           \A n \in Node : forward[n] \subseteq forward'[n]
    PROVE  Up /\ NoLoss'
<1>1. ASSUME NEW f \in File, NEW r \in Nat, Above(f, r) PROVE Above(f, r)'
  BY <1>1, DoneStays DEF Above
<1>2. QED  BY <1>1, 0 \in Nat DEF Up, NoLoss

\* Steps that take one item away.
LEMMA TakingUp ==
    ASSUME TypeOK, TypeOK', PathsDistinct, Grows,
           NEW n \in Node, NEW it \in Item, TakeAway(n, it), SafeToTake(n, it)
    PROVE  Up
<1> SUFFICES ASSUME NEW f \in File, NEW r \in Nat, Above(f, r)
             PROVE  Above(f, r)'
  BY DEF Up
<1>1. CASE Done(f)  BY <1>1, DoneStays DEF Above
<1>2. ASSUME NEW m \in Node, NEW x \in forward[m], x.file = f, Rank(x) > r
      PROVE  Above(f, r)'
  <2>1. CASE x \in forward'[m]  BY <1>2, <2>1 DEF Above
  <2>2. CASE x \notin forward'[m]
    <3>1. m = n /\ it.slot # 0 /\ SamePath(x, it)
      BY <2>2 DEF TakeAway, TypeOK
    <3>2. it.file = f  BY <3>1, <1>2 DEF SamePath
    <3>3. Present(n, it)  BY <3>1 DEF Present, Waiting
    <3>4. CASE Done(it.file)'  BY <3>2, <3>4 DEF Above
    <3>7. CASE it \in forward[n] /\ ~it.proof
      <4>1. x = it  BY <3>1, <3>7 DEF PathsDistinct
      <4>2. Rank(x) = 0  BY <4>1, <3>7 DEF Rank
      <4>3. QED  BY <4>2, <1>2
    <3>5. CASE it \in Waiting(n) /\ Above(it.file, Rank(it))
      <4>1. it \in forward[n]  BY <3>1, <3>5 DEF Waiting, OutItem
      <4>2. x = it  BY <4>1, <3>1 DEF PathsDistinct
      <4>3. CASE Done(f)  BY <4>3, DoneStays DEF Above
      <4>4. ASSUME NEW k \in Node, NEW y \in forward[k], y.file = f,
                   Rank(y) > Rank(it)
            PROVE  Above(f, r)'
        <5>1. y \in Item /\ Rank(y) \in Nat /\ Rank(it) \in Nat
          BY RankType DEF TypeOK, Held
        <5>2. ~(k = n /\ SamePath(y, it))  BY <4>1, <4>4, <5>1 DEF PathsDistinct
        <5>3. y \in forward'[k]  BY <5>2, <3>1 DEF TakeAway, TypeOK
        <5>4. Rank(y) > r  BY <4>2, <4>4, <1>2, <5>1
        <5>5. QED  BY <5>3, <5>4, <4>4 DEF Above
      <4>5. QED  BY <3>2, <3>5, <4>3, <4>4 DEF Above
    <3>6. QED  BY <3>1, <3>3, <3>4, <3>5, <3>7 DEF SafeToTake
  <2>3. QED  BY <2>1, <2>2
<1>3. QED  BY <1>1, <1>2 DEF Above

LEMMA TakingKeeps ==
    ASSUME TypeOK, TypeOK', NoLoss, PathsDistinct, Grows,
           NEW n \in Node, NEW it \in Item, TakeAway(n, it), SafeToTake(n, it)
    PROVE  Up /\ NoLoss' /\ PathsDistinct'
<1>1. Up  BY TakingUp
<1>2. PathsDistinct'  BY DEF PathsDistinct, TakeAway, TypeOK
<1>3. ASSUME NEW f \in File PROVE f \in outbox' \/ Above(f, 0)'
  <2>1. CASE Above(f, 0)  BY <2>1, <1>1 DEF Up
  <2>2. CASE f \in outbox /\ f \notin outbox'
    <3>1. it.slot = 0 /\ it.file = f  BY <2>2 DEF TakeAway
    <3>2. Rank(it) = 0  BY <3>1 DEF Rank
    <3>3. CASE Done(it.file)'  BY <3>1, <3>3 DEF Above
    <3>4. CASE Above(it.file, Rank(it))  BY <3>1, <3>2, <3>4, <1>1 DEF Up
    <3>5. QED  BY <3>1, <3>3, <3>4 DEF SafeToTake, TypeOK, Held
  <2>3. QED  BY <2>1, <2>2 DEF NoLoss
<1>4. QED  BY <1>1, <1>2, <1>3 DEF NoLoss

\* A loop whose item is taken away by somebody else has a file that is done.
LEMMA TakingLoop ==
    ASSUME TypeOK, TypeOK', NetworkAssumption, LoopItemThere, PathsDistinct,
           Grows, NEW n \in Node, NEW it \in Item, TakeAway(n, it), SafeToTake(n, it),
           \A m \in Node : loop'[m] # Idle =>
               loop[m] # Idle /\ loop'[m].item = loop[m].item,
           \/ loop'[n] = Idle \/ Done(it.file)'
           \/ it.slot # 0 /\ ~Present(n, it)
           \/ it \in forward[n] /\ ~it.proof
    PROVE  LoopItemThere'
<1> SUFFICES ASSUME NEW m \in Node, NEW x, loop'[m] # Idle, x = loop'[m].item
             PROVE  \/ Done(x.file)' \/ x \in Waiting(m)'
                    \/ ~x.proof /\ x.slot # 0
  BY DEF LoopItemThere, Done, Waiting, OutItem
<1>1. x = loop[m].item /\ loop[m] # Idle  OBVIOUS
<1>2. x \in Item /\ x.file \in File  BY <1>1, LoopType DEF Item
<1>3. Done(x.file) \/ x \in Waiting(m) \/ (~x.proof /\ x.slot # 0)
  BY <1>1 DEF LoopItemThere
<1>4. CASE Done(x.file)  BY <1>2, <1>4, DoneStays
<1>5. CASE x \in Waiting(m) /\ x \notin Waiting(m)'
  <2>1. CASE it.slot = 0
    <3>1. forward' = forward /\ outbox' = outbox \ {it.file}
      BY <2>1 DEF TakeAway
    <3>2. PICK g \in outbox : Origin[g] = m /\ x = OutItem(g)
      BY <3>1, <1>5 DEF Waiting
    <3>3. g = it.file  BY <3>1, <3>2, <1>5 DEF Waiting
    <3>4. x.file = it.file  BY <3>2, <3>3 DEF OutItem
    <3>5. CASE Done(it.file)'  BY <3>4, <3>5 DEF Done
    <3>6. CASE it \in Waiting(n) /\ ~Done(it.file)'
      <4>1. CASE it \in forward[n]
        BY <4>1, <2>1 DEF TypeOK, Held
      <4>2. CASE it \notin forward[n]
        <5>1. Origin[it.file] = n  BY <3>6, <4>2 DEF Waiting, OutItem
        <5>2. QED  BY <5>1, <3>2, <3>3, <3>6, <4>2, <2>1
      <4>3. QED  BY <4>1, <4>2
    <3>7. CASE it \in forward[n]
      BY <2>1, <3>7 DEF TypeOK, Held
    <3>8. QED  BY <2>1, <3>5, <3>6, <3>7 DEF SafeToTake
  <2>2. CASE it.slot # 0
    <3>1. outbox' = outbox  BY <2>2 DEF TakeAway
    <3>2. x \in forward[m] /\ x \notin forward'[m]  BY <3>1, <1>5 DEF Waiting
    <3>3. m = n /\ SamePath(x, it)  BY <3>2, <2>2 DEF TakeAway, TypeOK
    <3>4. Present(n, it) /\ x.file = it.file
      BY <3>2, <3>3 DEF Present, Waiting, SamePath
    <3>5. CASE Done(it.file)'  BY <3>4, <3>5 DEF Done
    <3>6. CASE it \in forward[n] /\ ~it.proof
      <4>1. x = it  BY <3>2, <3>3, <3>6 DEF PathsDistinct
      <4>2. QED  BY <4>1, <3>6, <2>2
    <3>7. QED  BY <3>3, <3>4, <3>5, <3>6
  <2>3. QED  BY <2>1, <2>2
<1>6. QED  BY <1>3, <1>4, <1>5

\* Transfers that were there before keep what is known of them.
LEMMA WireKeeps ==
    ASSUME TypeOK, TypeOK', StoredMeansSafe, PullsReachDest, Grows, Up,
           \A u \in wire' : u.kind = "pull" \/ u.stage = "stored" =>
               \E t \in wire : /\ t.kind = u.kind /\ t.dst = u.dst
                               /\ t.item = u.item /\ t.stage = u.stage
    PROVE  StoredMeansSafe' /\ PullsReachDest'
<1>1. ASSUME NEW u \in wire', u.stage = "stored"
      PROVE  Above(u.item.file, Rank(u.item))'
  <2>1. u.item \in Item /\ u.item.file \in File /\ Rank(u.item) \in Nat
    BY RankType DEF TypeOK, Transfer, Item
  <2>2. Above(u.item.file, Rank(u.item))  BY <1>1 DEF StoredMeansSafe
  <2>3. QED  BY <2>1, <2>2 DEF Up
<1>2. ASSUME NEW u \in wire', u.kind = "pull"
      PROVE  /\ Dest[u.item.file] = u.dst
             /\ u.item.slot # 0 /\ u.stage # "placed"
             /\ u.stage = "stored" => inbox'[u.item.file] > 0
  <2>1. u.item.file \in File  BY DEF TypeOK, Transfer, Item
  <2>2. /\ Dest[u.item.file] = u.dst
        /\ u.item.slot # 0 /\ u.stage # "placed"
        /\ u.stage = "stored" => inbox[u.item.file] > 0
    BY <1>2 DEF PullsReachDest
  <2>3. QED  BY <2>1, <2>2 DEF TypeOK, Grows
<1>3. QED  BY <1>1, <1>2 DEF StoredMeansSafe, PullsReachDest

\* The loops of the deliveries still under way have not moved.
LEMMA DeliveriesKeep ==
    ASSUME LoopWaits, OneDelivery,
           \A u \in wire' : u.kind # "pull" /\ u.claim # "gone" =>
               u \in wire /\ loop'[u.src] = loop[u.src]
    PROVE  LoopWaits' /\ OneDelivery'
BY DEF LoopWaits, OneDelivery

\* u is what has become of t, if that matters to the file it placed.
Follows(u, t) ==
    /\ t.stage = "placed" /\ t.dst = u.dst /\ t.item = u.item /\ t.at = u.at

\* Files that have been placed stay there until their sidecar is written, if
\* no two transfers become one.
LEMMA PlacedKeeps ==
    ASSUME TypeOK, TypeOK', PlacedThere, Grows,
           \A u, v \in wire' : u.stage = "placed" /\ v.stage = "placed" =>
               \E t, w \in wire : Follows(u, t) /\ Follows(v, w) /\ (t = w => u = v),
           \A u \in wire' : u.stage = "placed" =>
               \/ Done(u.item.file)'
               \/ Bare(u.item.file, u.at) \in forward[u.dst] =>
                     Bare(u.item.file, u.at) \in forward'[u.dst]
    PROVE  PlacedThere'
<1> SUFFICES ASSUME NEW u \in wire', u.stage = "placed", ~Done(u.item.file)'
             PROVE  /\ Bare(u.item.file, u.at) \in forward'[u.dst]
                    /\ \A v \in wire' : (/\ v.stage = "placed" /\ v.dst = u.dst
                                         /\ v.at = u.at
                                         /\ v.item.file = u.item.file) => v = u
  BY DEF PlacedThere, Done, Bare
<1>1. u.item.file \in File  BY DEF TypeOK, Transfer, Item
<1>2. ~Done(u.item.file)  BY <1>1, DoneStays
<1>3. PICK t \in wire : Follows(u, t)  OBVIOUS
<1>4. Bare(u.item.file, u.at) \in forward[u.dst]
  BY <1>2, <1>3 DEF PlacedThere, Follows
<1>5. ASSUME NEW v \in wire', v.stage = "placed", v.dst = u.dst, v.at = u.at,
             v.item.file = u.item.file
      PROVE  v = u
  <2>1. PICK a, w \in wire : Follows(u, a) /\ Follows(v, w) /\ (a = w => u = v)
    BY <1>5
  <2>2. a = w  BY <2>1, <1>2, <1>5 DEF PlacedThere, Follows
  <2>3. QED  BY <2>1, <2>2
<1>6. QED  BY <1>4, <1>5

\* Nothing that a loop works on has been taken away.
LEMMA LoopKeeps ==
    ASSUME TypeOK, TypeOK', LoopItemThere, Grows, outbox' = outbox,
           \A n \in Node : forward[n] \subseteq forward'[n],
           \A n \in Node : loop'[n] # Idle =>
               \/ loop[n] # Idle /\ loop'[n].item = loop[n].item
               \/ loop'[n].item \in Waiting(n)
    PROVE  LoopItemThere'
<1> SUFFICES ASSUME NEW n \in Node, NEW x, loop'[n] # Idle, x = loop'[n].item
             PROVE  \/ Done(x.file)' \/ x \in Waiting(n)'
                    \/ ~x.proof /\ x.slot # 0
  BY DEF LoopItemThere, Done, Waiting, OutItem
<1>1. Waiting(n) \subseteq Waiting(n)'  BY DEF Waiting
<1>2. CASE loop[n] # Idle /\ x = loop[n].item
  <2>1. x.file \in File  BY <1>2, LoopType DEF Item
  <2>2. Done(x.file) \/ x \in Waiting(n) \/ (~x.proof /\ x.slot # 0)
    BY <1>2 DEF LoopItemThere
  <2>3. QED  BY <2>1, <2>2, <1>1, DoneStays
<1>3. QED  BY <1>1, <1>2

-----------------------------------------------------------------------------
(* The inductive invariant, action by action.                              *)

LEMMA InvInit == ASSUME NetworkAssumption PROVE Init => KeepInv
<1> SUFFICES ASSUME Init PROVE KeepInv  OBVIOUS
<1>1. TypeOK  BY TypeInit
<1>2. NoLoss  BY DEF Init, NoLoss
<1>3. StoredMeansSafe /\ PullsReachDest /\ PlacedThere /\ LoopWaits /\ OneDelivery
  BY DEF Init, StoredMeansSafe, PullsReachDest, PlacedThere, LoopWaits, OneDelivery
<1>4. LoopItemThere  BY DEF Init, LoopItemThere
<1>5. PathsDistinct  BY DEF Init, PathsDistinct
<1>6. QED  BY <1>1, <1>2, <1>3, <1>4, <1>5 DEF KeepInv

\* A step of a loop that changes neither folders nor counters nor the wire.
LEMMA LoopOnly ==
    ASSUME KeepInv, TypeOK', UNCHANGED <<outbox, forward, inbox, failed, wire>>,
           NEW n \in Node, \A m \in Node \ {n} : loop'[m] = loop[m],
           \/ loop'[n] = Idle
           \/ loop[n] # Idle /\ loop'[n].item = loop[n].item
           \/ loop'[n].item \in Waiting(n),
           \/ loop[n] = loop'[n]
           \/ loop[n].pc \notin {"sentDirect", "sentNext"}
    PROVE  KeepInv'
<1>1. Grows  BY DEF KeepInv, TypeOK, Grows
<1>2. Up /\ NoLoss'  BY <1>1, Adding DEF KeepInv
<1>3. StoredMeansSafe' /\ PullsReachDest'  BY <1>1, <1>2, WireKeeps DEF KeepInv
<1>4. PlacedThere'
  <2>1. \A u \in wire' : u.stage = "placed" => u \in wire /\ Follows(u, u)
    BY DEF Follows
  <2>2. QED  BY <1>1, <2>1, PlacedKeeps DEF KeepInv
<1>5. LoopItemThere'  BY <1>1, LoopKeeps DEF KeepInv
<1>6. PathsDistinct'  BY DEF KeepInv, PathsDistinct
<1>7. LoopWaits' /\ OneDelivery'
  <2>1. \A u \in wire' : u.kind # "pull" /\ u.claim # "gone" =>
            u \in wire /\ loop'[u.src] = loop[u.src]
    BY DEF KeepInv, LoopWaits, TypeOK, Transfer
  <2>2. QED  BY <2>1, DeliveriesKeep DEF KeepInv
<1>8. QED  BY <1>2, <1>3, <1>4, <1>5, <1>6, <1>7 DEF KeepInv

\* A step that starts a transfer: a pull, or one the loop of n waits for.
LEMMA Beginning ==
    ASSUME KeepInv, TypeOK', UNCHANGED <<outbox, forward, inbox, failed>>,
           NEW n \in Node, \A m \in Node \ {n} : loop'[m] = loop[m],
           NEW new \in Transfer, wire' = wire \cup {new}, new.stage = "open",
           \/ /\ new.kind = "pull" /\ loop' = loop
              /\ Dest[new.item.file] = new.dst /\ new.item.slot # 0
           \/ /\ new.kind # "pull" /\ new.src = n /\ new.item.proof
              /\ loop'[n].pc \in {"sentDirect", "sentNext"}
              /\ loop'[n].item = new.item
              /\ loop[n].pc \notin {"sentDirect", "sentNext"}
              /\ \/ loop[n] # Idle /\ loop[n].item = new.item
                 \/ new.item \in Waiting(n)
    PROVE  KeepInv'
<1>1. Grows  BY DEF KeepInv, TypeOK, Grows
<1>2. Up /\ NoLoss'  BY <1>1, Adding DEF KeepInv
<1>3. StoredMeansSafe'
  <2>1. ASSUME NEW u \in wire', u.stage = "stored"
        PROVE  Above(u.item.file, Rank(u.item))'
    <3>1. u \in wire  BY <2>1
    <3>2. u.item \in Item /\ u.item.file \in File
      BY <3>1 DEF KeepInv, TypeOK, Transfer, Item
    <3>3. QED  BY <3>1, <3>2, <2>1, <1>2, RankType DEF KeepInv, StoredMeansSafe, Up
  <2>2. QED  BY <2>1 DEF StoredMeansSafe
<1>4. PullsReachDest'  BY DEF KeepInv, PullsReachDest
<1>5. PlacedThere'
  <2>1. \A u \in wire' : u.stage = "placed" => u \in wire /\ Follows(u, u)
    BY DEF Follows
  <2>2. QED  BY <1>1, <2>1, PlacedKeeps DEF KeepInv
<1>6. LoopItemThere'
  <2>1. \A m \in Node : loop'[m] # Idle =>
            \/ loop[m] # Idle /\ loop'[m].item = loop[m].item
            \/ loop'[m].item \in Waiting(m)
    OBVIOUS
  <2>2. QED  BY <1>1, <2>1, LoopKeeps DEF KeepInv
<1>7. PathsDistinct'  BY DEF KeepInv, PathsDistinct
<1>8. CASE new.kind = "pull"
  <2>1. \A u \in wire' : u.kind # "pull" /\ u.claim # "gone" =>
            u \in wire /\ loop'[u.src] = loop[u.src]
    BY <1>8
  <2>2. QED
    BY <1>2, <1>3, <1>4, <1>5, <1>6, <1>7, <2>1, DeliveriesKeep DEF KeepInv
<1>9. CASE new.kind # "pull"
  <2>1. \A u \in wire' : u.kind # "pull" /\ u.claim # "gone" =>
            \/ u = new
            \/ u \in wire /\ u.src \in Node \ {n} /\ loop'[u.src] = loop[u.src]
               /\ loop[u.src].pc \in {"sentDirect", "sentNext"}
               /\ loop[u.src].item = u.item /\ u.item.proof
    BY <1>9 DEF KeepInv, LoopWaits, TypeOK, Transfer
  <2>2. LoopWaits'  BY <1>9, <2>1 DEF LoopWaits
  <2>3. OneDelivery'  BY <1>9, <2>1 DEF OneDelivery, KeepInv
  <2>4. QED
    BY <1>2, <1>3, <1>4, <1>5, <1>6, <1>7, <2>2, <2>3 DEF KeepInv
<1>10. QED  BY <1>8, <1>9

\* Steps that take an item away; loops give up or become idle, and transfers
\* may end.
LEMMA Taking ==
    ASSUME KeepInv, TypeOK', NetworkAssumption, Grows, wire' \subseteq wire,
           NEW n \in Node, NEW it \in Item, TakeAway(n, it), SafeToTake(n, it),
           \A m \in Node : \/ loop'[m] \in {loop[m], Idle}
                           \/ loop'[m] = GiveUp(loop[m]),
           \A u \in wire' : u.kind # "pull" /\ u.claim # "gone" =>
               loop'[u.src] = loop[u.src],
           \/ loop'[n] = Idle \/ Done(it.file)'
           \/ it.slot # 0 /\ ~Present(n, it)
           \/ it \in forward[n] /\ ~it.proof,
           it \in forward[n] /\ ~it.proof => Done(it.file)' \/
               \A u \in wire' : ~(/\ u.stage = "placed" /\ u.dst = n
                                  /\ u.at = it.slot /\ u.item.file = it.file)
    PROVE  KeepInv'
<1>1. Up /\ NoLoss' /\ PathsDistinct'  BY TakingKeeps DEF KeepInv
<1>2. StoredMeansSafe' /\ PullsReachDest'  BY <1>1, WireKeeps DEF KeepInv
<1>3. PlacedThere'
  <2>1. \A u \in wire' : u.stage = "placed" => u \in wire /\ Follows(u, u)
    BY DEF Follows
  <2>2. ASSUME NEW u \in wire', u.stage = "placed", ~Done(u.item.file)',
               Bare(u.item.file, u.at) \in forward[u.dst]
        PROVE  Bare(u.item.file, u.at) \in forward'[u.dst]
    <3> DEFINE b == Bare(u.item.file, u.at)
    <3>1. b.file = u.item.file /\ b.slot = u.at /\ ~b.proof  BY DEF Bare
    <3> HIDE DEF b
    <3> SUFFICES ASSUME b \notin forward'[u.dst] PROVE FALSE
      BY DEF b
    <3>2. u.dst \in Node  BY DEF TypeOK, Transfer
    <3>3. u.dst = n /\ SamePath(b, it) /\ it.slot # 0
      BY <2>2, <3>2 DEF TakeAway, KeepInv, TypeOK, b
    <3>4. it.file = u.item.file /\ it.slot = u.at
      BY <3>1, <3>3 DEF SamePath
    <3>5. Present(n, it)  BY <2>2, <3>3 DEF Present, Waiting, b
    <3>6. ~Done(it.file)'  BY <2>2, <3>4 DEF Done
    <3>7. it \in forward[n]
      BY <3>3, <3>5, <3>6 DEF SafeToTake, Waiting, OutItem
    <3>8. it = b  BY <2>2, <3>3, <3>7 DEF KeepInv, PathsDistinct, b
    <3>9. QED  BY <2>2, <3>1, <3>3, <3>4, <3>6, <3>7, <3>8
  <2>3. QED  BY <2>1, <2>2, PlacedKeeps DEF KeepInv
<1>4. LoopItemThere'
  <2>1. \A m \in Node : loop'[m] # Idle =>
            loop[m] # Idle /\ loop'[m].item = loop[m].item
    <3> SUFFICES ASSUME NEW m \in Node, loop'[m] # Idle,
                        loop'[m] = GiveUp(loop[m])
                 PROVE  loop[m] # Idle /\ loop'[m].item = loop[m].item
      OBVIOUS
    <3>1. loop[m] \in Busy /\ loop'[m].item = loop[m].item
      BY GiveUpType DEF KeepInv, TypeOK
    <3>2. QED  BY <3>1 DEF Busy, Idle
  <2>2. QED  BY <2>1, TakingLoop DEF KeepInv
<1>5. LoopWaits' /\ OneDelivery'  BY DeliveriesKeep DEF KeepInv
<1>6. QED  BY <1>1, <1>2, <1>3, <1>4, <1>5 DEF KeepInv

\* A file put aside is done, if it was there at all.
LEMMA PuttingAside ==
    ASSUME TypeOK, TypeOK', NEW n \in Node, NEW it \in Item, PutAside(n, it),
           inbox' = inbox, it.slot = 0 => Present(n, it) \/ Done(it.file)
    PROVE  /\ TakeAway(n, it) /\ Grows /\ SafeToTake(n, it)
           /\ Done(it.file)' \/ (it.slot # 0 /\ ~Present(n, it))
<1>1. TakeAway(n, it)  BY DEF PutAside
<1>2. it.file \in File  BY DEF Item
<1>3. Grows  BY PutAsideType DEF Grows, TypeOK
<1>4. Present(n, it) => Done(it.file)'  BY PutAsideType DEF Done
<1>5. Done(it.file) => Done(it.file)'  BY <1>2, <1>3, DoneStays
<1>6. QED  BY <1>1, <1>3, <1>4, <1>5 DEF SafeToTake

LEMMA InvLoop ==
    ASSUME NetworkAssumption, KeepInv, TypeOK', NEW n \in Node, LoopStep(n)
    PROVE  KeepInv'
<1> TypeOK  BY DEF KeepInv
<1>1. CASE Discover(n)  BY <1>1, LoopOnly DEF Discover, LoopFree, Idle
<1>2. CASE Unavailable(n)
  <2>1. loop[n] # Idle /\ loop[n].pc \in {"direct", "next"}
    BY <1>2 DEF Unavailable, Target, Idle
  <2>2. loop' = [loop EXCEPT ![n] = GiveUp(loop[n])]  BY <1>2 DEF Unavailable
  <2>3. loop'[n] = GiveUp(loop[n])  BY <2>2 DEF TypeOK
  <2>4. loop'[n] = Idle \/ loop'[n].item = loop[n].item
    BY <2>3, GiveUpType DEF TypeOK
  <2>5. UNCHANGED <<outbox, forward, inbox, failed, wire>>
        /\ \A m \in Node \ {n} : loop'[m] = loop[m]
    BY <1>2 DEF Unavailable, TypeOK
  <2>6. QED  BY <2>1, <2>4, <2>5, LoopOnly
<1>3. CASE Refused(n)
  <2>1. loop[n] # Idle /\ loop[n].pc \in {"direct", "next"}
    BY <1>3 DEF Refused, Target, Idle
  <2>2. PICK x \in Item : x = loop[n].item  BY <2>1, LoopType
  <2>3. x.slot = 0 => Present(n, x) \/ Done(x.file)
    BY <2>1, <2>2 DEF KeepInv, LoopItemThere, Present, SamePath
  <2>4. PutAside(n, x) /\ inbox' = inbox /\ wire' = wire
        /\ loop' = [loop EXCEPT ![n] = Idle]
    BY <1>3, <2>2 DEF Refused
  <2>5. loop'[n] = Idle /\ \A m \in Node \ {n} : loop'[m] = loop[m]
    BY <2>4 DEF TypeOK
  <2>6. /\ TakeAway(n, x) /\ Grows /\ SafeToTake(n, x)
        /\ Done(x.file)' \/ (x.slot # 0 /\ ~Present(n, x))
    BY <2>3, <2>4, PuttingAside
  <2>7. \A u \in wire' : u.kind # "pull" /\ u.claim # "gone" =>
            loop'[u.src] = loop[u.src]
    BY <2>1, <2>4, <2>5 DEF KeepInv, LoopWaits, TypeOK, Transfer
  <2>8. x \in forward[n] => Present(n, x)  BY DEF Present, Waiting, SamePath
  <2>9. QED  BY <2>4, <2>5, <2>6, <2>7, <2>8, Taking
<1>4. CASE Send(n)
  <2>1. loop[n] # Idle /\ loop[n].pc \in {"direct", "next"}
    BY <1>4 DEF Send, Target, Idle
  <2>2. loop[n].item \in Item /\ loop[n].item.file \in File
        /\ loop[n] = [pc |-> loop[n].pc, item |-> loop[n].item]
    BY <2>1, LoopType DEF Item
  <2>3. Target(n) \in Node
    BY <1>4, <2>1, <2>2 DEF Send, Target, RelayOK, TypeOK, NetworkAssumption
  <2> DEFINE new == Begun("deliver", n, Target(n), loop[n].item)
  <2>4. new \in Transfer  BY <2>2, <2>3, BegunType
  <2>5. new.kind = "deliver" /\ new.src = n /\ new.item = loop[n].item
        /\ new.stage = "open"
    BY DEF Begun
  <2>6. loop[n].item.proof  BY <1>4 DEF Send, Refuses, Genuine
  <2>7. wire' = wire \cup {new} /\ UNCHANGED <<outbox, forward, inbox, failed>>
    BY <1>4 DEF Send
  <2>8. loop'[n].pc \in {"sentDirect", "sentNext"} /\ loop'[n].item = loop[n].item
        /\ \A m \in Node \ {n} : loop'[m] = loop[m]
    BY <1>4 DEF Send, TypeOK
  <2> HIDE DEF new
  <2>9. QED  BY <2>1, <2>4, <2>5, <2>6, <2>7, <2>8, Beginning
<1>5. CASE HoldOwn(n)
  <2>1. loop[n] # Idle /\ loop[n].pc = "next" /\ loop[n].item.slot = 0
    BY <1>5 DEF HoldOwn, Idle
  <2>2. PICK x \in Item : x = loop[n].item  BY <2>1, LoopType
  <2> DEFINE new == Begun("local", n, n, x)
  <2>3. new \in Transfer  BY <2>1, <2>2, BegunType
  <2>4. new.kind = "local" /\ new.src = n /\ new.item = x /\ new.stage = "open"
    BY DEF Begun
  <2>5. x.proof  BY <2>1, <2>2 DEF Item
  <2>6. wire' = wire \cup {new} /\ UNCHANGED <<outbox, forward, inbox, failed>>
    BY <1>5, <2>2 DEF HoldOwn
  <2>7. loop'[n].pc \in {"sentDirect", "sentNext"} /\ loop'[n].item = x
        /\ \A m \in Node \ {n} : loop'[m] = loop[m]
    BY <1>5, <2>2 DEF HoldOwn, TypeOK
  <2> HIDE DEF new
  <2>8. QED  BY <2>1, <2>2, <2>3, <2>4, <2>5, <2>6, <2>7, Beginning
<1>6. CASE Keep(n)
  <2>1. loop'[n] = Idle /\ \A m \in Node \ {n} : loop'[m] = loop[m]
    BY <1>6 DEF Keep, TypeOK
  <2>2. loop[n].pc = "next"  BY <1>6 DEF Keep
  <2>3. QED  BY <1>6, <2>1, <2>2, LoopOnly DEF Keep
<1>7. QED  BY <1>1, <1>2, <1>3, <1>4, <1>5, <1>6 DEF LoopStep

LEMMA InvItem ==
    ASSUME NetworkAssumption, KeepInv, TypeOK', NEW n \in Node,
           NEW it \in Waiting(n), ItemStep(n, it)
    PROVE  KeepInv'
<1> TypeOK  BY DEF KeepInv
<1> it \in Item /\ it.file \in File  BY WaitingType DEF Item
<1>1. CASE Route(n, it)
  <2>1. /\ loop[n] = Idle /\ loop'[n].item = it
        /\ \A m \in Node \ {n} : loop'[m] = loop[m]
    BY <1>1 DEF Route, LoopFree, TypeOK
  <2>2. QED  BY <1>1, <2>1, LoopOnly DEF Route, Idle
<1>2. CASE RouteFatal(n, it)
  <2>1. Present(n, it)  BY DEF Present, SamePath
  <2>2. PutAside(n, it) /\ UNCHANGED <<inbox, loop, wire>> /\ loop[n] = Idle
    BY <1>2 DEF RouteFatal, LoopFree
  <2>3. /\ TakeAway(n, it) /\ Grows /\ SafeToTake(n, it)
        /\ Done(it.file)' \/ (it.slot # 0 /\ ~Present(n, it))
    BY <2>1, <2>2, PuttingAside
  <2>4. QED  BY <2>1, <2>2, <2>3, Taking
<1>3. CASE DeliverToSelf(n, it)
  <2> DEFINE new == Begun("local", n, n, it)
  <2>1. new \in Transfer  BY <1>3, BegunType DEF DeliverToSelf
  <2>2. new.kind = "local" /\ new.src = n /\ new.item = it /\ new.stage = "open"
    BY DEF Begun
  <2>3. wire' = wire \cup {new} /\ UNCHANGED <<outbox, forward, inbox, failed>>
    BY <1>3 DEF DeliverToSelf
  <2>4. loop'[n].pc \in {"sentDirect", "sentNext"} /\ loop'[n].item = it
        /\ loop[n] = Idle /\ \A m \in Node \ {n} : loop'[m] = loop[m]
    BY <1>3 DEF DeliverToSelf, LoopFree, TypeOK
  <2>5. it.proof  BY <1>3 DEF DeliverToSelf, Item
  <2> HIDE DEF new
  <2>6. QED  BY <2>1, <2>2, <2>3, <2>4, <2>5, Beginning DEF Idle
<1>4. QED  BY <1>1, <1>2, <1>3 DEF ItemStep

LEMMA InvPull ==
    ASSUME KeepInv, TypeOK', NEW n \in Node, leader[n] # None,
           NEW it \in forward[leader[n]], Pull(n, it)
    PROVE  KeepInv'
<1>1. leader[n] \in Node /\ it \in Item /\ it.slot # 0
  BY DEF KeepInv, TypeOK, Held
<1> DEFINE new == Begun("pull", leader[n], n, it)
<1>2. new \in Transfer  BY <1>1, BegunType
<1>3. new.kind = "pull" /\ new.dst = n /\ new.item = it /\ new.stage = "open"
  BY DEF Begun
<1>4. wire' = wire \cup {new} /\ Dest[it.file] = n
      /\ UNCHANGED <<outbox, forward, inbox, failed, loop>>
  BY DEF Pull
<1> HIDE DEF new
<1>5. QED  BY <1>1, <1>2, <1>3, <1>4, Beginning

\* Steps that leave the folders and counters alone and may end transfers or
\* mark them as abandoned, while loops give up.
LEMMA WireOnly ==
    ASSUME KeepInv, TypeOK', UNCHANGED <<outbox, forward, inbox, failed>>,
           \A u \in wire' : u.kind = "pull" \/ u.stage = "stored" =>
               \E t \in wire : /\ t.kind = u.kind /\ t.dst = u.dst
                               /\ t.item = u.item /\ t.stage = u.stage,
           \A u, v \in wire' : u.stage = "placed" /\ v.stage = "placed" =>
               \E t, w \in wire : Follows(u, t) /\ Follows(v, w) /\ (t = w => u = v),
           \A u \in wire' : u.kind # "pull" /\ u.claim # "gone" =>
               u \in wire /\ loop'[u.src] = loop[u.src],
           \A n \in Node : \/ loop'[n] \in {loop[n], Idle}
                           \/ loop'[n] = GiveUp(loop[n])
    PROVE  KeepInv'
<1>1. Grows  BY DEF KeepInv, TypeOK, Grows
<1>2. Up /\ NoLoss'  BY <1>1, Adding DEF KeepInv
<1>3. StoredMeansSafe' /\ PullsReachDest'  BY <1>1, <1>2, WireKeeps DEF KeepInv
<1>4. PlacedThere'  BY <1>1, PlacedKeeps DEF KeepInv
<1>5. \A n \in Node : loop'[n] # Idle =>
          loop[n] # Idle /\ loop'[n].item = loop[n].item
  <2> SUFFICES ASSUME NEW n \in Node, loop'[n] # Idle, loop'[n] = GiveUp(loop[n])
               PROVE  loop[n] # Idle /\ loop'[n].item = loop[n].item
    OBVIOUS
  <2>1. loop[n] \in Busy /\ loop'[n].item = loop[n].item
    BY GiveUpType DEF KeepInv, TypeOK
  <2>2. QED  BY <2>1 DEF Busy, Idle
<1>6. LoopItemThere'  BY <1>1, <1>5, LoopKeeps DEF KeepInv
<1>7. PathsDistinct'  BY DEF KeepInv, PathsDistinct
<1>8. LoopWaits' /\ OneDelivery'  BY DeliveriesKeep DEF KeepInv
<1>9. QED  BY <1>2, <1>3, <1>4, <1>6, <1>7, <1>8 DEF KeepInv

LEMMA InvCrash ==
    ASSUME KeepInv, TypeOK', NEW n \in Node, Crash(n)
    PROVE  KeepInv'
<1> TypeOK  BY DEF KeepInv
<1> DEFINE lost == {t \in wire : t.dst = n /\ t.stage # "stored"}
           mute == {t \in wire \ lost : t.src = n /\ t.claim # "gone"}
<1>1. wire' = (wire \ (lost \cup mute)) \cup
              {Detached(t, "gone") : t \in {u \in mute : u.stage # "stored"}}
  BY DEF Crash, AfterCrash
<1>2. \A u \in wire' :
         \/ u \in wire \ (lost \cup mute)
         \/ \E t \in mute : /\ u = Detached(t, "gone")
                            /\ u.kind = t.kind /\ u.dst = t.dst /\ u.item = t.item
                            /\ u.stage = t.stage /\ u.at = t.at /\ u.claim = "gone"
  BY <1>1, DetachedType DEF TypeOK
<1>3. \A u \in wire' : u.kind # "pull" /\ u.claim # "gone" =>
          u \in wire /\ loop'[u.src] = loop[u.src]
  <2> SUFFICES ASSUME NEW u \in wire', u.kind # "pull", u.claim # "gone"
               PROVE  u \in wire /\ loop'[u.src] = loop[u.src]
    OBVIOUS
  <2>1. u \in wire /\ u \notin lost /\ u \notin mute  BY <1>2
  <2>2. u.src \in Node /\ u.src # n  BY <2>1 DEF TypeOK, Transfer
  <2>3. ~ \E t \in wire : /\ t.kind = "deliver" /\ t.src = u.src
                          /\ t.dst = n /\ t.stage # "stored" /\ t.claim # "gone"
    BY <2>1 DEF KeepInv, OneDelivery
  <2>4. QED  BY <2>1, <2>2, <2>3 DEF Crash
<1>4. \A m \in Node : \/ loop'[m] \in {loop[m], Idle}
                      \/ loop'[m] = GiveUp(loop[m])
  BY DEF Crash
<1>5. \A u \in wire' : u.kind = "pull" \/ u.stage = "stored" =>
          \E t \in wire : /\ t.kind = u.kind /\ t.dst = u.dst
                          /\ t.item = u.item /\ t.stage = u.stage
  BY <1>2
<1>6. \A u, v \in wire' : u.stage = "placed" /\ v.stage = "placed" =>
          \E t, w \in wire : Follows(u, t) /\ Follows(v, w) /\ (t = w => u = v)
  <2> SUFFICES ASSUME NEW u \in wire', NEW v \in wire',
                      u.stage = "placed", v.stage = "placed"
               PROVE  \E t, w \in wire :
                         Follows(u, t) /\ Follows(v, w) /\ (t = w => u = v)
    OBVIOUS
  <2>1. PICK t \in wire : /\ Follows(u, t)
                          /\ \/ u = t /\ t \notin mute
                             \/ u = Detached(t, "gone") /\ t \in mute
    BY <1>2 DEF Follows
  <2>2. PICK w \in wire : /\ Follows(v, w)
                          /\ \/ v = w /\ w \notin mute
                             \/ v = Detached(w, "gone") /\ w \in mute
    BY <1>2 DEF Follows
  <2>3. t = w => u = v  BY <2>1, <2>2
  <2>4. QED  BY <2>1, <2>2, <2>3
<1>7. QED  BY <1>3, <1>4, <1>5, <1>6, WireOnly DEF Crash

LEMMA InvRestart ==
    ASSUME KeepInv, TypeOK', NEW n \in Node, RestartInPlace(n)
    PROVE  KeepInv'
<1> TypeOK  BY DEF KeepInv
<1> DEFINE fgt(t) == t.kind = "pull" /\ t.src = n /\ t.claim = "claimed"
<1>1. \A u \in wire' : \E t \in wire :
         /\ u.kind = t.kind /\ u.dst = t.dst /\ u.item = t.item
         /\ u.stage = t.stage /\ u.at = t.at
         /\ u = IF fgt(t) THEN Detached(t, "forgotten") ELSE t
  <2>1. wire' = {IF fgt(t) THEN Detached(t, "forgotten") ELSE t : t \in wire}
    BY DEF RestartInPlace
  <2>2. \A t \in wire : t \in Transfer  BY DEF TypeOK
  <2> HIDE DEF fgt
  <2>3. QED  BY <2>1, <2>2, DetachedType
<1>2. \A u \in wire' : u.kind # "pull" => u \in wire
  BY <1>1
<1>3. \A u, v \in wire' : u.stage = "placed" /\ v.stage = "placed" =>
          \E t, w \in wire : Follows(u, t) /\ Follows(v, w) /\ (t = w => u = v)
  <2> HIDE DEF fgt
  <2>1. QED  BY <1>1 DEF Follows
<1>4. QED  BY <1>1, <1>2, <1>3, WireOnly DEF RestartInPlace

\* What a transfer is answered with.
LEMMA AnsweredWire ==
    ASSUME TypeOK, NEW t \in wire, NEW u \in Answered(t)
    PROVE  \/ u \in wire \ {t}
           \/ /\ u.kind = t.kind /\ u.src = t.src /\ u.dst = t.dst
              /\ u.item = t.item /\ u.claim = t.claim /\ u.stage = "stored"
<1>1. t \in Transfer  BY DEF TypeOK
<1>2. QED  BY <1>1, AnsweredType DEF Answered

\* The deliveries still under way are those before, when t is answered.
LEMMA AnsweredDeliveries ==
    ASSUME KeepInv, NEW t \in wire, wire' = Answered(t), loop' = loop
    PROVE  LoopWaits' /\ OneDelivery'
<1>1. \A u \in wire' : \/ u \in wire \ {t}
                       \/ /\ u = [t EXCEPT !.stage = "stored"]
                          /\ u.kind = t.kind /\ u.src = t.src
                          /\ u.item = t.item /\ u.claim = t.claim
  <2>1. t \in Transfer  BY DEF KeepInv, TypeOK
  <2>2. QED  BY <2>1, AnsweredType DEF Answered
<1> DEFINE T == [t EXCEPT !.stage = "stored"]
<1> HIDE DEF T
<1>2. \A u \in wire' : \/ u \in wire \ {t}
                       \/ /\ u = T /\ u.kind = t.kind /\ u.src = t.src
                          /\ u.item = t.item /\ u.claim = t.claim
  BY <1>1 DEF T
<1>3. LoopWaits'  BY <1>2 DEF KeepInv, LoopWaits
<1>4. OneDelivery'  BY <1>2 DEF KeepInv, OneDelivery
<1>5. QED  BY <1>3, <1>4

LEMMA InvStore ==
    ASSUME NetworkAssumption, KeepInv, TypeOK', NEW t \in wire, Store(t)
    PROVE  KeepInv'
<1> TypeOK  BY DEF KeepInv
<1>0. t \in Transfer /\ t.item \in Item /\ t.item.file \in File
  BY DEF TypeOK, Transfer, Item
<1>1. /\ UNCHANGED <<outbox, forward, failed, loop>> /\ wire' = Answered(t)
      /\ t.stage = "open"
  BY DEF Store
<1>2. Grows /\ Done(t.item.file)'  BY <1>0 DEF Store, TypeOK, Grows, Done
<1>3. Up /\ NoLoss'  BY <1>1, <1>2, Adding DEF KeepInv
<1>4. StoredMeansSafe'
  <2>1. ASSUME NEW u \in wire', u.stage = "stored"
        PROVE  Above(u.item.file, Rank(u.item))'
    <3>1. CASE u.item = t.item  BY <3>1, <1>2 DEF Above
    <3>2. CASE u \in wire
      <4>1. u.item \in Item /\ u.item.file \in File
        BY <3>2 DEF TypeOK, Transfer, Item
      <4>2. QED
        BY <3>2, <4>1, <2>1, <1>3, RankType DEF KeepInv, StoredMeansSafe, Up
    <3>3. QED  BY <3>1, <3>2, <1>1, AnsweredWire
  <2>2. QED  BY <2>1 DEF StoredMeansSafe
<1>5. PullsReachDest'
  <2>1. ASSUME NEW u \in wire', u.kind = "pull"
        PROVE  /\ Dest[u.item.file] = u.dst
               /\ u.item.slot # 0 /\ u.stage # "placed"
               /\ u.stage = "stored" => inbox'[u.item.file] > 0
    <3>1. CASE u.kind = t.kind /\ u.item = t.item /\ u.dst = t.dst
               /\ u.stage = "stored"
      <4>1. Dest[t.item.file] = t.dst /\ t.item.slot # 0
        BY <2>1, <3>1 DEF KeepInv, PullsReachDest
      <4>2. inbox'[t.item.file] > 0  BY <1>0 DEF Store, TypeOK
      <4>3. QED  BY <3>1, <4>1, <4>2
    <3>2. CASE u \in wire
      <4>1. u.item.file \in File  BY <3>2 DEF TypeOK, Transfer, Item
      <4>2. QED
        BY <3>2, <4>1, <2>1, <1>2 DEF KeepInv, PullsReachDest, TypeOK, Grows
    <3>3. QED  BY <3>1, <3>2, <1>1, AnsweredWire
  <2>2. QED  BY <2>1 DEF PullsReachDest
<1>6. PlacedThere'
  <2>1. \A u \in wire' : u.stage = "placed" => u \in wire /\ Follows(u, u)
    BY <1>1, AnsweredWire DEF Follows
  <2>2. QED  BY <1>1, <1>2, <2>1, PlacedKeeps DEF KeepInv
<1>7. LoopItemThere'  BY <1>1, <1>2, LoopKeeps DEF KeepInv
<1>8. PathsDistinct'  BY <1>1 DEF KeepInv, PathsDistinct
<1>9. LoopWaits' /\ OneDelivery'  BY <1>1, AnsweredDeliveries
<1>10. QED  BY <1>3, <1>4, <1>5, <1>6, <1>7, <1>8, <1>9 DEF KeepInv

LEMMA InvPlace ==
    ASSUME NetworkAssumption, KeepInv, TypeOK', NEW t \in wire, Place(t)
    PROVE  KeepInv'
<1> TypeOK  BY DEF KeepInv
<1>0. t \in Transfer /\ t.item \in Item /\ t.item.file \in File /\ t.dst \in Node
  BY DEF TypeOK, Transfer, Item
<1>1. PICK k \in Slots :
        /\ FirstFree(t.dst, t.item.file, k)
        /\ forward' = [forward EXCEPT ![t.dst] = @ \cup {Bare(t.item.file, k)}]
        /\ wire' = (wire \ {t}) \cup {Placed(t, k)}
  BY DEF Place
<1> DEFINE P == Placed(t, k)
           b == Bare(t.item.file, k)
<1>2. /\ P.kind = t.kind /\ P.src = t.src /\ P.dst = t.dst /\ P.at = k
      /\ P.item = t.item /\ P.claim = t.claim /\ P.stage = "placed"
  BY <1>0, PlacedType
<1>3. b \in Held /\ b.file = t.item.file /\ b.slot = k /\ k # 0
  BY <1>0, BareType
<1>4. t.stage = "open" /\ Dest[t.item.file] # t.dst
      /\ UNCHANGED <<outbox, inbox, failed, loop>>
  BY DEF Place
<1>5. /\ forward' = [forward EXCEPT ![t.dst] = @ \cup {b}]
      /\ wire' = (wire \ {t}) \cup {P}
  BY <1>1
<1> HIDE DEF P
<1>6. Grows  BY <1>4 DEF TypeOK, Grows
<1>7. \A n \in Node : forward[n] \subseteq forward'[n]  BY <1>5 DEF TypeOK
<1>8. Up /\ NoLoss'  BY <1>4, <1>6, <1>7, Adding DEF KeepInv
<1>9. StoredMeansSafe' /\ PullsReachDest'
  <2>1. t.kind # "pull"  BY <1>4 DEF KeepInv, PullsReachDest
  <2>2. QED  BY <1>2, <1>5, <1>6, <1>8, <2>1, WireKeeps DEF KeepInv
<1>10. PlacedThere'
  <2> SUFFICES ASSUME NEW u \in wire', u.stage = "placed", ~Done(u.item.file)'
               PROVE  /\ Bare(u.item.file, u.at) \in forward'[u.dst]
                      /\ \A v \in wire' : (/\ v.stage = "placed" /\ v.dst = u.dst
                                           /\ v.at = u.at
                                           /\ v.item.file = u.item.file) => v = u
    BY DEF PlacedThere, Done, Bare
  <2>1. ~Done(u.item.file)  BY <1>4 DEF Done
  <2>2. ASSUME NEW v \in wire, v.stage = "placed", v.dst = t.dst,
               v.item.file = t.item.file, ~Done(v.item.file)
        PROVE  v.at # k
    <3>1. Bare(v.item.file, v.at) \in forward[t.dst]
      BY <2>2 DEF KeepInv, PlacedThere
    <3>2. ~(v.item.file = t.item.file /\ v.at = k)
      BY <3>1, <1>1 DEF FirstFree, Bare
    <3>3. QED  BY <3>2, <2>2
  <2>3. CASE u = P
    <3>1. Bare(u.item.file, u.at) \in forward'[u.dst]
      BY <2>3, <1>0, <1>2, <1>3, <1>5 DEF TypeOK
    <3>2. QED  BY <2>1, <2>2, <2>3, <3>1, <1>2, <1>5
  <2>4. CASE u \in wire
    <3>1. Bare(u.item.file, u.at) \in forward[u.dst]
      BY <2>1, <2>4 DEF KeepInv, PlacedThere
    <3>2. u.dst \in Node  BY <2>4 DEF TypeOK, Transfer
    <3>3. Bare(u.item.file, u.at) \in forward'[u.dst]  BY <3>1, <3>2, <1>7
    <3>4. ASSUME NEW v \in wire', v.stage = "placed", v.dst = u.dst, v.at = u.at,
                 v.item.file = u.item.file
          PROVE  v = u
      <4>1. v # P  BY <2>1, <2>2, <2>4, <3>4, <1>2
      <4>2. QED  BY <4>1, <3>4, <2>1, <2>4, <1>5 DEF KeepInv, PlacedThere
    <3>5. QED  BY <3>1, <3>3, <3>4
  <2>5. QED  BY <2>3, <2>4, <1>5
<1>11. LoopItemThere'  BY <1>4, <1>6, <1>7, LoopKeeps DEF KeepInv
<1>12. PathsDistinct'
  <2>1. \A x \in forward[t.dst] : ~SamePath(x, b) /\ ~SamePath(b, x)
    BY <1>1, <1>3 DEF FirstFree, SamePath
  <2> HIDE DEF b
  <2>2. QED  BY <1>0, <1>5, <2>1 DEF KeepInv, PathsDistinct, TypeOK
<1>13. LoopWaits'  BY <1>2, <1>4, <1>5 DEF KeepInv, LoopWaits
<1>14. OneDelivery'  BY <1>2, <1>5 DEF KeepInv, OneDelivery
<1>15. QED
  BY <1>8, <1>9, <1>10, <1>11, <1>12, <1>13, <1>14 DEF KeepInv

LEMMA InvSidecar ==
    ASSUME NetworkAssumption, KeepInv, TypeOK', NEW t \in wire, WriteSidecar(t)
    PROVE  KeepInv'
<1> TypeOK  BY DEF KeepInv
<1>0. t \in Transfer /\ t.item \in Item /\ t.item.file \in File /\ t.dst \in Node
  BY DEF TypeOK, Transfer, Item
<1> DEFINE AtPath(x) == x.file = t.item.file /\ x.slot = t.at
           S == {IF AtPath(x) THEN Copied(t) ELSE x : x \in forward[t.dst]}
<1>1. /\ forward' = [forward EXCEPT ![t.dst] = S] /\ wire' = Answered(t)
      /\ t.stage = "placed" /\ UNCHANGED <<outbox, inbox, failed, loop>>
  BY DEF WriteSidecar
<1>2. forward'[t.dst] = S /\ \A n \in Node \ {t.dst} : forward'[n] = forward[n]
  BY <1>0, <1>1 DEF TypeOK
<1>3. Grows /\ \A f \in File : Done(f) => Done(f)'
  BY <1>1 DEF TypeOK, Grows, Done
<1>4. \/ Done(t.item.file)
      \/ Bare(t.item.file, t.at) \in forward[t.dst]
  BY <1>1 DEF KeepInv, PlacedThere
<1>5. \A x \in forward[t.dst] :
          AtPath(x) => Done(t.item.file) \/ (~x.proof /\ Rank(x) = 0)
  <2> SUFFICES ASSUME NEW x \in forward[t.dst], AtPath(x),
                      Bare(t.item.file, t.at) \in forward[t.dst]
               PROVE  ~x.proof /\ Rank(x) = 0
    BY <1>4
  <2>1. x = Bare(t.item.file, t.at)
    BY <1>0 DEF KeepInv, PathsDistinct, SamePath, Bare
  <2>2. QED  BY <2>1 DEF Bare, Rank
<1>6. \A n \in Node : \A x \in forward[n] :
          \/ x \in forward'[n]
          \/ x.file = t.item.file /\ (Done(t.item.file) \/ (~x.proof /\ Rank(x) = 0))
  BY <1>2, <1>5
<1>7. Up
  <2> SUFFICES ASSUME NEW f \in File, NEW r \in Nat, Above(f, r)
               PROVE  Above(f, r)'
    BY DEF Up
  <2>1. CASE Done(f)  BY <2>1, <1>3 DEF Above
  <2>2. ASSUME NEW n \in Node, NEW x \in forward[n], x.file = f, Rank(x) > r,
               ~Done(f)
        PROVE  Above(f, r)'
    <3>1. x \in forward'[n]  BY <2>2, <1>6
    <3>2. QED  BY <2>2, <3>1 DEF Above
  <2>3. QED  BY <2>1, <2>2 DEF Above
<1>8. NoLoss'  BY <1>1, <1>7, 0 \in Nat DEF Up, KeepInv, NoLoss
<1>9. Above(t.item.file, Rank(t.item))'
  <2>1. CASE Done(t.item.file)  BY <2>1, <1>0, <1>3 DEF Above
  <2>2. CASE Bare(t.item.file, t.at) \in forward[t.dst]
    <3>1. AtPath(Bare(t.item.file, t.at))  BY DEF Bare
    <3>2. Copied(t) \in S  BY <2>2, <3>1
    <3> HIDE DEF S
    <3>3. Copied(t) \in forward'[t.dst]  BY <3>2, <1>2
    <3>4. t.at # 0  BY <1>0, <1>1 DEF Transfer
    <3>5. Rank(Copied(t)) > Rank(t.item) /\ Copied(t).file = t.item.file
      BY <1>0, <3>4, CopiedType
    <3>6. QED  BY <3>3, <3>5, <1>0 DEF Above
  <2>3. QED  BY <2>1, <2>2, <1>4
<1>10. StoredMeansSafe'
  <2>1. ASSUME NEW u \in wire', u.stage = "stored"
        PROVE  Above(u.item.file, Rank(u.item))'
    <3>1. CASE u.item = t.item  BY <3>1, <1>9
    <3>2. CASE u \in wire
      <4>1. u.item \in Item /\ u.item.file \in File
        BY <3>2 DEF TypeOK, Transfer, Item
      <4>2. QED
        BY <3>2, <4>1, <2>1, <1>7, RankType DEF KeepInv, StoredMeansSafe, Up
    <3>3. QED  BY <3>1, <3>2, <1>1, AnsweredWire
  <2>2. QED  BY <2>1 DEF StoredMeansSafe
<1>11. PullsReachDest'
  <2>1. t.kind # "pull"  BY <1>1 DEF KeepInv, PullsReachDest
  <2>2. \A u \in wire' : u.kind = "pull" => u \in wire
    BY <1>1, <2>1, AnsweredWire
  <2>3. QED  BY <1>1, <2>2 DEF KeepInv, PullsReachDest
<1>12. PlacedThere'
  <2>1. \A u \in wire' : u.stage = "placed" => u \in wire \ {t} /\ Follows(u, u)
    BY <1>1, AnsweredWire DEF Follows
  <2>2. ASSUME NEW u \in wire', u.stage = "placed", ~Done(u.item.file)',
               Bare(u.item.file, u.at) \in forward[u.dst]
        PROVE  Bare(u.item.file, u.at) \in forward'[u.dst]
    <3>1. u \in wire /\ u # t /\ u.dst \in Node
      BY <2>1, <2>2 DEF TypeOK, Transfer
    <3>2. ~Done(u.item.file)  BY <2>2, <1>1 DEF Done
    <3>3. ~(u.dst = t.dst /\ u.at = t.at /\ u.item.file = t.item.file)
      BY <3>1, <3>2, <2>2, <1>1 DEF KeepInv, PlacedThere
    <3>4. u.dst = t.dst => ~AtPath(Bare(u.item.file, u.at))
      BY <3>3 DEF Bare
    <3> HIDE DEF AtPath
    <3>5. QED  BY <3>1, <3>4, <2>2, <1>2
  <2>3. QED  BY <2>1, <2>2, <1>3, PlacedKeeps DEF KeepInv
<1>13. LoopItemThere'
  <2> SUFFICES ASSUME NEW n \in Node, NEW x, loop[n] # Idle, x = loop[n].item
               PROVE  \/ Done(x.file)' \/ x \in Waiting(n)'
                      \/ ~x.proof /\ x.slot # 0
    BY <1>1 DEF LoopItemThere, Done, Waiting, OutItem
  <2>1. x \in Item /\ x.file \in File  BY LoopType DEF Item
  <2>2. Done(x.file) \/ x \in Waiting(n) \/ (~x.proof /\ x.slot # 0)
    BY DEF KeepInv, LoopItemThere
  <2>3. CASE x \in forward[n] /\ x \notin forward'[n]
    <3>1. x.slot # 0  BY <2>3 DEF TypeOK, Held
    <3>2. QED  BY <2>1, <2>3, <3>1, <1>3, <1>6
  <2>4. QED  BY <2>1, <2>2, <2>3, <1>1, <1>3 DEF Waiting
<1>14. PathsDistinct'
  <2>1. \A x \in forward[t.dst] : AtPath(x) => x.slot = t.at /\ x.slot # 0
    BY <1>0 DEF TypeOK, Held
  <2>2. \A x \in forward[t.dst] : AtPath(x) => SamePath(Copied(t), x)
    BY DEF Copied, SamePath
  <2>3. ASSUME NEW x \in S, NEW y \in S, SamePath(x, y) PROVE x = y
    <3>1. PICK v \in forward[t.dst] : x = IF AtPath(v) THEN Copied(t) ELSE v
      OBVIOUS
    <3>2. PICK w \in forward[t.dst] : y = IF AtPath(w) THEN Copied(t) ELSE w
      OBVIOUS
    <3>3. SamePath(x, v) /\ SamePath(y, w)
      BY <3>1, <3>2, <2>2 DEF SamePath
    <3>4. v = w  BY <1>0, <2>3, <3>3 DEF KeepInv, PathsDistinct, SamePath
    <3>5. QED  BY <3>1, <3>2, <3>4
  <2> HIDE DEF S
  <2>4. QED  BY <1>2, <2>3 DEF KeepInv, PathsDistinct
<1>15. LoopWaits' /\ OneDelivery'  BY <1>1, AnsweredDeliveries
<1>16. QED
  BY <1>7, <1>8, <1>10, <1>11, <1>12, <1>13, <1>14, <1>15 DEF KeepInv

\* The other steps of a transfer: it is answered badly, breaks or ends.
LEMMA InvWire ==
    ASSUME NetworkAssumption, KeepInv, TypeOK', NEW t \in wire, WireStep(t)
    PROVE  KeepInv'
<1> TypeOK  BY DEF KeepInv
<1>0. t \in Transfer /\ t.item \in Item /\ t.item.file \in File
      /\ t.src \in Node /\ t.dst \in Node
  BY DEF TypeOK, Transfer, Item
<1>1. CASE Store(t)  BY <1>1, InvStore
<1>2. CASE Place(t)  BY <1>2, InvPlace
<1>3. CASE WriteSidecar(t)  BY <1>3, InvSidecar
<1>4. ASSUME StopWaiting(t), t.claim # "gone"
      PROVE  /\ \A u \in wire : u # t /\ u.kind # "pull" /\ u.claim # "gone" =>
                    loop'[u.src] = loop[u.src]
             /\ \A n \in Node : \/ loop'[n] \in {loop[n], Idle}
                                \/ loop'[n] = GiveUp(loop[n])
  <2>1. CASE t.kind = "pull"  BY <2>1, <1>4 DEF StopWaiting
  <2>2. CASE t.kind # "pull"
    <3>1. \A u \in wire : u # t /\ u.kind # "pull" /\ u.claim # "gone" =>
              u.src \in Node /\ u.src # t.src
      BY <2>2, <1>4 DEF KeepInv, OneDelivery, TypeOK, Transfer
    <3>2. QED  BY <2>2, <3>1, <1>4 DEF StopWaiting, TypeOK
  <2>3. QED  BY <2>1, <2>2
<1>5. CASE SidecarFails(t)
  <2> DEFINE b == Bare(t.item.file, t.at)
  <2>1. /\ t.stage = "placed" /\ TakeAway(t.dst, b) /\ wire' = wire \ {t}
        /\ UNCHANGED <<inbox, failed>>
        /\ IF t.claim = "gone" THEN loop' = loop ELSE StopWaiting(t)
    BY <1>5 DEF SidecarFails
  <2>2. Grows  BY <2>1 DEF TypeOK, Grows
  <2>3. Done(t.item.file) => Done(t.item.file)'  BY <1>0, <2>2, DoneStays
  <2>5. t.at # 0  BY <2>1, <1>0 DEF Transfer
  <2>11. t.at \in Slots  BY <1>0, <2>5 DEF Transfer
  <2>12. PICK x \in Item : x = b  BY <1>0, <2>11, BareType
  <2>13. x.file = t.item.file /\ x.slot = t.at /\ ~x.proof
    BY <2>12 DEF Bare
  <2>14. \/ Done(x.file)'
        \/ /\ x \in forward[t.dst]
           /\ \A u \in wire' : ~(/\ u.stage = "placed" /\ u.dst = t.dst
                                 /\ u.at = x.slot /\ u.item.file = x.file)
    BY <2>1, <2>3, <2>12, <2>13 DEF KeepInv, PlacedThere, Done
  <2>15. SafeToTake(t.dst, x)  BY <2>13, <2>14 DEF SafeToTake
  <2>16. /\ \A n \in Node : \/ loop'[n] \in {loop[n], Idle}
                           \/ loop'[n] = GiveUp(loop[n])
        /\ \A u \in wire' : u.kind # "pull" /\ u.claim # "gone" =>
               loop'[u.src] = loop[u.src]
    BY <2>1, <1>4
  <2> HIDE DEF b
  <2>17. TakeAway(t.dst, x) /\ wire' \subseteq wire  BY <2>1, <2>12
  <2>18. PICK n \in Node : n = t.dst  BY <1>0
  <2>19. QED  BY <2>2, <2>13, <2>14, <2>15, <2>16, <2>17, <2>18, Taking
<1>6. CASE PullRefused(t)
  <2>1. t.item.slot # 0
    BY <1>6, NetworkAssumption DEF PullRefused, KeepInv, PullsReachDest
  <2>2. PutAside(t.src, t.item) /\ UNCHANGED <<inbox, loop>> /\ wire' \subseteq wire
    BY <1>6 DEF PullRefused
  <2>3. PICK x \in Item, n \in Node : x = t.item /\ n = t.src  BY <1>0
  <2>4. /\ TakeAway(n, x) /\ Grows /\ SafeToTake(n, x)
        /\ Done(x.file)' \/ (x.slot # 0 /\ ~Present(n, x))
    BY <2>1, <2>2, <2>3, PuttingAside
  <2>5. x \in forward[n] => Present(n, x)  BY DEF Present, Waiting, SamePath
  <2>6. QED  BY <2>2, <2>4, <2>5, Taking
<1>7. ASSUME wire' \subseteq (wire \ {t}) \cup {Detached(t, "gone")},
             t.claim # "gone", StopWaiting(t),
             UNCHANGED <<outbox, forward, inbox, failed>>
      PROVE  KeepInv'
  <2>1. \A u \in wire' : \/ u \in wire \ {t}
                         \/ /\ u = Detached(t, "gone") /\ u.claim = "gone"
                            /\ u.kind = t.kind /\ u.dst = t.dst /\ u.at = t.at
                            /\ u.item = t.item /\ u.stage = t.stage
    BY <1>0, <1>7, DetachedType
  <2>2. \A u \in wire' : u.kind = "pull" \/ u.stage = "stored" =>
           \E v \in wire : /\ v.kind = u.kind /\ v.dst = u.dst
                           /\ v.item = u.item /\ v.stage = u.stage
    BY <2>1
  <2>3. \A u, v \in wire' : u.stage = "placed" /\ v.stage = "placed" =>
            \E s, w \in wire : Follows(u, s) /\ Follows(v, w) /\ (s = w => u = v)
    BY <2>1 DEF Follows
  <2>4. \A u \in wire' : u.kind # "pull" /\ u.claim # "gone" =>
           u \in wire /\ loop'[u.src] = loop[u.src]
    BY <2>1, <1>4, <1>7
  <2>5. \A n \in Node : \/ loop'[n] \in {loop[n], Idle}
                        \/ loop'[n] = GiveUp(loop[n])
    BY <1>4, <1>7
  <2>6. QED  BY <1>7, <2>2, <2>3, <2>4, <2>5, WireOnly
<1>8. CASE NoRoom(t)  BY <1>7, <1>8 DEF NoRoom
<1>9. CASE Break(t)  BY <1>7, <1>9 DEF Break
<1>10. CASE Ack(t)
  <2>1. TakeAway(t.src, t.item) /\ wire' = wire \ {t} /\ UNCHANGED <<inbox, failed>>
        /\ t.stage = "stored" /\ t.claim # "gone"
    BY <1>10 DEF Ack
  <2>2. Grows  BY <2>1 DEF Grows, TypeOK
  <2>3. Above(t.item.file, Rank(t.item))  BY <2>1 DEF KeepInv, StoredMeansSafe
  <2>4. PICK x \in Item, n \in Node : x = t.item /\ n = t.src  BY <1>0
  <2>5. Done(x.file) => Done(x.file)'  BY <1>0, <2>2, <2>4, DoneStays
  <2>6. CASE t.kind # "pull"
    <3>1. loop[n].item = x /\ loop[n] # Idle /\ x.proof
      BY <2>1, <2>4, <2>6 DEF KeepInv, LoopWaits, Idle
    <3>2. Done(x.file) \/ x \in Waiting(n)  BY <3>1 DEF KeepInv, LoopItemThere
    <3>3. SafeToTake(n, x)  BY <2>3, <2>4, <2>5, <3>1, <3>2 DEF SafeToTake
    <3>4. loop'[n] = Idle /\ \A m \in Node \ {n} : loop'[m] = loop[m]
      BY <1>10, <2>4, <2>6 DEF Ack, TypeOK
    <3>5. \A u \in wire' : u.kind # "pull" /\ u.claim # "gone" =>
              loop'[u.src] = loop[u.src]
      BY <2>1, <2>4, <2>6, <3>4 DEF KeepInv, OneDelivery, TypeOK, Transfer
    <3>6. QED  BY <2>1, <2>2, <2>4, <3>1, <3>3, <3>4, <3>5, Taking
  <2>7. CASE t.kind = "pull"
    <3>1. Done(x.file)  BY <2>1, <2>4, <2>7 DEF KeepInv, PullsReachDest, Done
    <3>2. SafeToTake(n, x)  BY <2>5, <3>1 DEF SafeToTake
    <3>3. loop' = loop  BY <1>10, <2>7 DEF Ack
    <3>4. QED  BY <2>1, <2>2, <2>4, <2>5, <3>1, <3>2, <3>3, Taking
  <2>8. QED  BY <2>6, <2>7
<1>11. CASE Discard(t)
  <2>1. wire' \subseteq wire /\ UNCHANGED <<outbox, forward, inbox, failed, loop>>
    BY <1>11 DEF Discard
  <2>2. \A u, v \in wire' : u.stage = "placed" /\ v.stage = "placed" =>
            \E s, w \in wire : Follows(u, s) /\ Follows(v, w) /\ (s = w => u = v)
    BY <2>1 DEF Follows
  <2>3. QED  BY <2>1, <2>2, WireOnly
<1>12. QED
  BY <1>1, <1>2, <1>3, <1>5, <1>6, <1>8, <1>9, <1>10, <1>11 DEF WireStep

LEMMA InvNext == ASSUME NetworkAssumption, KeepInv, [Next]_vars PROVE KeepInv'
<1>1. TypeOK'  BY TypeNext DEF KeepInv
<1>2. CASE UNCHANGED vars
  <2>1. \A u, v \in wire' : u.stage = "placed" /\ v.stage = "placed" =>
            \E s, w \in wire : Follows(u, s) /\ Follows(v, w) /\ (s = w => u = v)
    BY <1>2 DEF Follows, vars
  <2>2. QED  BY <1>1, <1>2, <2>1, WireOnly DEF vars, KeepInv, TypeOK
<1>3. ASSUME NEW n \in Node, LoopStep(n) PROVE KeepInv'  BY <1>1, <1>3, InvLoop
<1>4. ASSUME NEW n \in Node, Crash(n) PROVE KeepInv'  BY <1>1, <1>4, InvCrash
<1>5. ASSUME NEW n \in Node, RestartInPlace(n) PROVE KeepInv'
  BY <1>1, <1>5, InvRestart
<1>6. ASSUME NEW n \in Node, NEW it \in Waiting(n), ItemStep(n, it) PROVE KeepInv'
  BY <1>1, <1>6, InvItem
<1>7. ASSUME NEW n \in Node, leader[n] # None, NEW it \in forward[leader[n]],
             Pull(n, it)
      PROVE  KeepInv'
  BY <1>1, <1>7, InvPull
<1>8. ASSUME NEW t \in wire, WireStep(t) PROVE KeepInv'  BY <1>1, <1>8, InvWire
<1>9. QED  BY <1>2, <1>3, <1>4, <1>5, <1>6, <1>7, <1>8 DEF Next

\* The inductive invariant holds in every behaviour.
THEOREM Inductive == Spec => []KeepInv
<1>1. Init => KeepInv  BY InvInit, NetworkAssumption
<1>2. KeepInv /\ [Next]_vars => KeepInv'  BY InvNext, NetworkAssumption
<1>3. QED  BY <1>1, <1>2, PTL DEF Spec

\* No file is ever lost, whatever breaks: there is always a copy of it in the
\* outbox, in a forward/ folder, in the inbox or in failed/.
THEOREM NothingLost == Spec => []NoLoss
<1>1. KeepInv => NoLoss  BY DEF KeepInv
<1>2. QED  BY <1>1, Inductive, PTL

\* A reply "stored" is always covered by a copy further on.
THEOREM RepliesTrue == Spec => []StoredMeansSafe
<1>1. KeepInv => StoredMeansSafe  BY DEF KeepInv
<1>2. QED  BY <1>1, Inductive, PTL

-----------------------------------------------------------------------------
(* The network keeps the promise of Mail.                                  *)

\* What Fate comes to once "lost" is excluded.
KeptFate == [f \in File |-> IF inbox[f] > 0 THEN "arrived"
                        ELSE IF failed[f] > 0 THEN "refused" ELSE "travelling"]

LEMMA FateKept == ASSUME NoLoss PROVE Fate = KeptFate
<1>1. \A f \in File : Fate[f] = KeptFate[f]
  BY DEF NoLoss, Fate, KeptFate, Above, Done
<1>2. QED  BY <1>1 DEF Fate, KeptFate

\* A step finishes at most one copy.
LEMMA OneCopy ==
    ASSUME NetworkAssumption, TypeOK, [Next]_vars
    PROVE  \/ UNCHANGED <<inbox, failed>>
           \/ \E f \in File : /\ inbox' = [inbox EXCEPT ![f] = @ + 1]
                              /\ UNCHANGED failed
           \/ \E f \in File : /\ failed' = [failed EXCEPT ![f] = @ + 1]
                              /\ UNCHANGED inbox
<1> DEFINE Goal == \/ UNCHANGED <<inbox, failed>>
                   \/ \E f \in File : /\ inbox' = [inbox EXCEPT ![f] = @ + 1]
                                      /\ UNCHANGED failed
                   \/ \E f \in File : /\ failed' = [failed EXCEPT ![f] = @ + 1]
                                      /\ UNCHANGED inbox
<1>1. ASSUME NEW n \in Node, LoopStep(n) PROVE Goal
  <2>1. CASE Refused(n)
    <3>1. loop[n] # Idle  BY <2>1 DEF Refused, Target, Idle
    <3>2. loop[n].item.file \in File  BY <3>1, LoopType DEF Item
    <3>3. QED  BY <2>1, <3>2 DEF Refused, PutAside
  <2>2. CASE ~Refused(n)
    BY <1>1, <2>2 DEF LoopStep, Discover, Unavailable, Send, HoldOwn, Keep
  <2>3. QED  BY <2>1, <2>2
<1>2. ASSUME NEW n \in Node, Crash(n) PROVE Goal  BY <1>2 DEF Crash
<1>3. ASSUME NEW n \in Node, RestartInPlace(n) PROVE Goal
  BY <1>3 DEF RestartInPlace
<1>4. ASSUME NEW n \in Node, NEW it \in Waiting(n), ItemStep(n, it) PROVE Goal
  <2>1. it.file \in File  BY WaitingType DEF Item
  <2>2. QED
    BY <1>4, <2>1 DEF ItemStep, Route, RouteFatal, DeliverToSelf, PutAside
<1>5. ASSUME NEW n \in Node, leader[n] # None, NEW it \in forward[leader[n]],
             Pull(n, it)
      PROVE  Goal
  BY <1>5 DEF Pull
<1>6. ASSUME NEW t \in wire, WireStep(t) PROVE Goal
  <2>1. t.item.file \in File  BY DEF TypeOK, Transfer, Item
  <2>2. CASE Store(t)  BY <2>1, <2>2 DEF Store
  <2>3. CASE PullRefused(t)  BY <2>1, <2>3 DEF PullRefused, PutAside
  <2>4. CASE \/ NoRoom(t) \/ Ack(t) \/ Break(t) \/ Discard(t)
             \/ Place(t) \/ WriteSidecar(t) \/ SidecarFails(t)
    BY <2>4 DEF NoRoom, Ack, Break, Discard, Place, WriteSidecar, SidecarFails
  <2>5. QED  BY <1>6, <2>2, <2>3, <2>4 DEF WireStep
<1>7. CASE UNCHANGED vars  BY <1>7 DEF vars
<1>8. QED  BY <1>1, <1>2, <1>3, <1>4, <1>5, <1>6, <1>7 DEF Next

LEMMA PromiseInit == ASSUME NetworkAssumption, Init PROVE Promise!Init
<1>1. NoLoss  BY InvInit DEF KeepInv
<1>2. KeptFate = [f \in File |-> "travelling"]  BY DEF Init, KeptFate
<1>3. QED  BY <1>1, <1>2, FateKept DEF Promise!Init

LEMMA PromiseNext ==
    ASSUME NetworkAssumption, KeepInv, KeepInv', [Next]_vars
    PROVE  [Promise!Next]_Fate
<1>1. Fate = KeptFate /\ Fate' = KeptFate'
  <2>1. Fate = KeptFate  BY FateKept DEF KeepInv
  <2>2. \A f \in File : Fate'[f] = KeptFate'[f]
    BY DEF KeepInv, NoLoss, Fate, KeptFate, Above, Done
  <2>3. Fate' = KeptFate'  BY <2>2 DEF Fate, KeptFate
  <2>4. QED  BY <2>1, <2>3
<1>2. inbox \in [File -> Nat] /\ failed \in [File -> Nat]  BY DEF KeepInv, TypeOK
<1>3. CASE UNCHANGED <<inbox, failed>>
  BY <1>1, <1>3 DEF KeptFate
<1>4. ASSUME NEW f \in File, inbox' = [inbox EXCEPT ![f] = @ + 1],
             UNCHANGED failed
      PROVE  KeptFate' = KeptFate \/ Promise!Arrive(f)
  <2>1. CASE KeptFate[f] = "arrived"
    <3>1. inbox[f] > 0  BY <2>1 DEF KeptFate
    <3>2. \A g \in File : inbox'[g] > 0 <=> inbox[g] > 0  BY <1>2, <1>4, <3>1
    <3>3. KeptFate' = KeptFate  BY <1>4, <3>2 DEF KeptFate
    <3>4. QED  BY <3>3
  <2>2. CASE KeptFate[f] # "arrived"
    <3>1. inbox'[f] > 0 /\ \A g \in File \ {f} : inbox'[g] = inbox[g]
      BY <1>2, <1>4
    <3>2. KeptFate' = [KeptFate EXCEPT ![f] = "arrived"]  BY <1>4, <3>1 DEF KeptFate
    <3>3. QED  BY <1>1, <2>2, <3>2 DEF Promise!Arrive
  <2>3. QED  BY <2>1, <2>2
<1>5. ASSUME NEW f \in File, failed' = [failed EXCEPT ![f] = @ + 1],
             UNCHANGED inbox
      PROVE  KeptFate' = KeptFate \/ Promise!Refuse(f)
  <2>1. CASE KeptFate[f] # "travelling"
    <3>1. inbox[f] > 0 \/ failed[f] > 0  BY <2>1 DEF KeptFate
    <3>2. failed'[f] > 0 /\ \A g \in File \ {f} : failed'[g] = failed[g]
      BY <1>2, <1>5
    <3>3. KeptFate' = KeptFate  BY <1>5, <3>1, <3>2 DEF KeptFate
    <3>4. QED  BY <3>3
  <2>2. CASE KeptFate[f] = "travelling"
    <3>1. ~(inbox[f] > 0)  BY <2>2 DEF KeptFate
    <3>2. failed'[f] > 0 /\ \A g \in File \ {f} : failed'[g] = failed[g]
      BY <1>2, <1>5
    <3>3. KeptFate' = [KeptFate EXCEPT ![f] = "refused"]  BY <1>5, <3>1, <3>2 DEF KeptFate
    <3>4. QED  BY <1>1, <2>2, <3>3 DEF Promise!Refuse
  <2>3. QED  BY <2>1, <2>2
<1>6. CASE \E f \in File : /\ inbox' = [inbox EXCEPT ![f] = @ + 1]
                           /\ UNCHANGED failed
  BY <1>1, <1>4, <1>6 DEF Promise!Next
<1>7. CASE \E f \in File : /\ failed' = [failed EXCEPT ![f] = @ + 1]
                           /\ UNCHANGED inbox
  BY <1>1, <1>5, <1>7 DEF Promise!Next
<1>8. QED  BY <1>3, <1>6, <1>7, OneCopy DEF KeepInv

\* The network implements the promise made for each file: a file travels, and
\* then arrives or is refused, and is never simply gone.
THEOREM PromiseKept == Spec => KeepsPromise
<1>1. Init => Promise!Init  BY PromiseInit, NetworkAssumption
<1>2. KeepInv /\ KeepInv' /\ [Next]_vars => [Promise!Next]_Fate
  BY PromiseNext, NetworkAssumption
<1>3. QED
  BY <1>1, <1>2, Inductive, PTL DEF Spec, KeepsPromise, Promise!Spec
=============================================================================
