-------------------------- MODULE RelayOnce_proofs ---------------------------
(***************************************************************************)
(* More about Relay, for any network and any files: no file is sent twice  *)
(* at the same time, however the steps of loops, handlers and faults       *)
(* interleave, and until something breaks no file ends more than once.     *)
(***************************************************************************)
EXTENDS Relay_proofs

-----------------------------------------------------------------------------
(* The in-flight set.                                                      *)

Exclusive == LoopExclusive /\ PullsExclusive

ClaimedPull(t) == t.kind = "pull" /\ t.claim = "claimed"

\* No loop takes up another item; some may drop theirs.
LoopsKeep == \A n \in Node : loop'[n] # Idle =>
                loop[n] # Idle /\ loop'[n].item = loop[n].item

LEMMA SamePathType ==
    ASSUME NEW x, NEW y, SamePath(x, y)
    PROVE  SamePath(y, x) /\ \A z : SamePath(y, z) <=> SamePath(x, z)
BY DEF SamePath

\* Where no loop takes up an item and no pull begins, nothing is claimed anew.
LEMMA FewerClaims ==
    ASSUME TypeOK, Exclusive, LoopsKeep, wire' \subseteq Transfer,
           \A u \in wire' : ClaimedPull(u) => u \in wire
    PROVE  Exclusive'
<1>1. \A u \in wire' : u.src \in Node  BY DEF Transfer
<1>2. LoopExclusive'
  BY <1>1 DEF Exclusive, LoopExclusive, ClaimedPull, LoopsKeep
<1>3. PullsExclusive'
  BY DEF Exclusive, PullsExclusive, ClaimedPull
<1>4. QED  BY <1>2, <1>3 DEF Exclusive

\* A transfer that goes on keeps the claim it had.
LEMMA SameClaims ==
    ASSUME TypeOK, Exclusive, LoopsKeep, NEW t \in wire, NEW T \in Transfer,
           wire' \subseteq (wire \ {t}) \cup {T},
           T.kind = t.kind, T.src = t.src, T.item = t.item, T.claim = t.claim
    PROVE  Exclusive'
<1> DEFINE Was(u) == IF u \in wire \ {t} THEN u ELSE t
<1>1. \A u \in wire' : /\ Was(u) \in wire /\ Was(u).kind = u.kind
                       /\ Was(u).src = u.src /\ Was(u).item = u.item
                       /\ Was(u).claim = u.claim /\ u.src \in Node
  BY DEF TypeOK, Transfer
<1>2. \A u, v \in wire' : Was(u) = Was(v) => u = v
  OBVIOUS
<1> HIDE DEF Was
<1>3. LoopExclusive'
  BY <1>1 DEF Exclusive, LoopExclusive, LoopsKeep
<1>4. PullsExclusive'
  BY <1>1, <1>2 DEF Exclusive, PullsExclusive
<1>5. QED  BY <1>3, <1>4 DEF Exclusive

\* The loop claims a path that is free (claim, before deliverOutbox or
\* deliverHeld goes on).
LEMMA LoopClaims ==
    ASSUME TypeOK, TypeOK', Exclusive, NEW n \in Node, NEW it,
           ~Claimed(n, it), loop'[n].item = it,
           \A m \in Node \ {n} : loop'[m] = loop[m],
           \A u \in wire' : ClaimedPull(u) => u \in wire
    PROVE  Exclusive'
<1>1. ASSUME NEW u \in wire', ClaimedPull(u), loop'[u.src] # Idle
      PROVE  ~SamePath(loop'[u.src].item, u.item)
  <2>1. u \in wire /\ u.src \in Node  BY <1>1 DEF TypeOK, Transfer
  <2>2. CASE u.src = n
    BY <1>1, <2>1, <2>2 DEF Claimed, ClaimedPull, SamePath
  <2>3. CASE u.src # n
    BY <1>1, <2>1, <2>3 DEF Exclusive, LoopExclusive, ClaimedPull
  <2>4. QED  BY <2>2, <2>3
<1>2. LoopExclusive'  BY <1>1 DEF LoopExclusive, ClaimedPull
<1>3. PullsExclusive'
  BY DEF Exclusive, PullsExclusive, ClaimedPull
<1>4. QED  BY <1>2, <1>3 DEF Exclusive

\* So does the handler of a pull (handlePull).
LEMMA PullClaims ==
    ASSUME TypeOK, TypeOK', Exclusive, NEW n \in Node, NEW it, Pull(n, it)
    PROVE  Exclusive'
<1> DEFINE s == leader[n]  T == Begun("pull", s, n, it)
<1>1. ~Claimed(s, it) /\ wire' = wire \cup {T} /\ loop' = loop
  BY DEF Pull
<1>2. T.src = s /\ T.item = it /\ T.kind = "pull"  BY DEF Begun
<1> HIDE DEF T
<1>3. \A u \in wire' : u \in wire \/ u = T  BY <1>1
<1>4. \A u \in wire : u.src = s /\ ClaimedPull(u) => ~SamePath(u.item, it)
  BY <1>1 DEF Claimed, ClaimedPull
<1>5. LoopExclusive'
  BY <1>1, <1>2, <1>3 DEF Exclusive, LoopExclusive, Claimed
<1>6. PullsExclusive'
  BY <1>2, <1>3, <1>4, SamePathType DEF Exclusive, PullsExclusive, ClaimedPull
<1>7. QED  BY <1>5, <1>6 DEF Exclusive

\* A loop that stops waiting takes up nothing.
LEMMA StopWaitingKeeps ==
    ASSUME TypeOK, NEW t \in wire, StopWaiting(t)
    PROVE  LoopsKeep
<1>1. t.src \in Node  BY DEF TypeOK, Transfer
<1>2. loop[t.src] \in Busy \cup {Idle}  BY <1>1 DEF TypeOK
<1>3. GiveUp(loop[t.src]) # Idle =>
         loop[t.src] # Idle /\ GiveUp(loop[t.src]).item = loop[t.src].item
  <2>1. CASE loop[t.src] = Idle  BY <2>1 DEF GiveUp, Idle
  <2>2. CASE loop[t.src] # Idle  BY <2>2, <1>2, GiveUpType
  <2>3. QED  BY <2>1, <2>2
<1>4. QED  BY <1>1, <1>3 DEF StopWaiting, LoopsKeep, TypeOK

LEMMA GiveUpKeeps ==
    ASSUME TypeOK, NEW n \in Node
    PROVE  GiveUp(loop[n]) # Idle =>
              loop[n] # Idle /\ GiveUp(loop[n]).item = loop[n].item
<1>1. loop[n] \in Busy \cup {Idle}  BY DEF TypeOK
<1>2. CASE loop[n] = Idle  BY <1>2 DEF GiveUp, Idle
<1>3. CASE loop[n] # Idle  BY <1>3, <1>1, GiveUpType
<1>4. QED  BY <1>2, <1>3

LEMMA ExclusiveWire ==
    ASSUME KeepInv, KeepInv', Exclusive, NEW t \in wire, WireStep(t)
    PROVE  Exclusive'
<1> TypeOK /\ TypeOK'  BY DEF KeepInv
<1>0. t \in Transfer /\ wire' \subseteq Transfer  BY DEF TypeOK
<1>1. ASSUME wire' = Answered(t), loop' = loop PROVE Exclusive'
  <2> DEFINE T == [t EXCEPT !.stage = "stored"]
  <2>1. T \in Transfer /\ T.kind = t.kind /\ T.src = t.src /\ T.item = t.item
        /\ T.claim = t.claim
    BY <1>0, AnsweredType
  <2>2. wire' \subseteq (wire \ {t}) \cup {T}  BY <1>1 DEF Answered
  <2> HIDE DEF T
  <2>3. LoopsKeep  BY <1>1 DEF LoopsKeep
  <2>4. QED  BY <2>1, <2>2, <2>3, SameClaims
<1>2. ASSUME wire' \subseteq wire, LoopsKeep PROVE Exclusive'
  BY <1>0, <1>2, FewerClaims
<1>3. CASE Store(t)  BY <1>1, <1>3 DEF Store
<1>4. CASE WriteSidecar(t)  BY <1>1, <1>4 DEF WriteSidecar
<1>5. CASE Place(t)
  <2>1. PICK k \in Slots : wire' = (wire \ {t}) \cup {Placed(t, k)}
    BY <1>5 DEF Place
  <2>2. /\ Placed(t, k) \in Transfer /\ Placed(t, k).kind = t.kind
        /\ Placed(t, k).src = t.src /\ Placed(t, k).item = t.item
        /\ Placed(t, k).claim = t.claim
    BY <1>0, NetworkAssumption, PlacedType
  <2>3. LoopsKeep  BY <1>5 DEF Place, LoopsKeep
  <2>4. QED  BY <2>1, <2>2, <2>3, SameClaims
<1>6. CASE SidecarFails(t)
  <2>1. wire' \subseteq wire /\ (loop' = loop \/ StopWaiting(t))
    BY <1>6 DEF SidecarFails
  <2>2. QED  BY <1>2, <2>1, StopWaitingKeeps DEF LoopsKeep
<1>7. CASE PullRefused(t)  BY <1>2, <1>7 DEF PullRefused, LoopsKeep
<1>8. CASE NoRoom(t)  BY <1>2, <1>8, StopWaitingKeeps DEF NoRoom
<1>9. CASE Discard(t)  BY <1>2, <1>9 DEF Discard, LoopsKeep
<1>10. CASE Ack(t)
  <2>1. LoopsKeep  BY <1>10 DEF Ack, LoopsKeep, TypeOK
  <2>2. QED  BY <1>2, <1>10, <2>1 DEF Ack
<1>11. CASE Break(t)
  <2>1. wire' \subseteq wire \cup {Detached(t, "gone")}  BY <1>11 DEF Break
  <2>2. Detached(t, "gone").claim = "gone"  BY <1>0, DetachedType
  <2>3. \A u \in wire' : ClaimedPull(u) => u \in wire
    BY <2>1, <2>2 DEF ClaimedPull
  <2>4. LoopsKeep  BY <1>11, StopWaitingKeeps DEF Break
  <2>5. QED  BY <1>0, <2>3, <2>4, FewerClaims
<1>12. QED
  BY <1>3, <1>4, <1>5, <1>6, <1>7, <1>8, <1>9, <1>10, <1>11 DEF WireStep

LEMMA ExclusiveLoop ==
    ASSUME KeepInv, KeepInv', Exclusive, NEW n \in Node, LoopStep(n)
    PROVE  Exclusive'
<1> TypeOK /\ TypeOK'  BY DEF KeepInv
<1>0. wire' \subseteq Transfer  BY DEF TypeOK
<1>1. CASE Discover(n)
  BY <1>0, <1>1, FewerClaims DEF Discover, LoopsKeep
<1>2. CASE Unavailable(n)
  <2>1. LoopsKeep  BY <1>2, GiveUpKeeps DEF Unavailable, LoopsKeep, TypeOK
  <2>2. QED  BY <1>0, <1>2, <2>1, FewerClaims DEF Unavailable
<1>3. CASE Refused(n)
  <2>1. LoopsKeep  BY <1>3 DEF Refused, LoopsKeep, TypeOK
  <2>2. QED  BY <1>0, <1>3, <2>1, FewerClaims DEF Refused
<1>4. CASE Send(n)
  <2>1. loop[n] # Idle  BY <1>4 DEF Send, Target, Idle
  <2>2. LoopsKeep  BY <1>4, <2>1 DEF Send, LoopsKeep, TypeOK
  <2>3. Begun("deliver", n, Target(n), loop[n].item).kind # "pull"  BY DEF Begun
  <2>4. \A u \in wire' : ClaimedPull(u) => u \in wire
    BY <1>4, <2>3 DEF Send, ClaimedPull
  <2>5. QED  BY <1>0, <2>2, <2>4, FewerClaims
<1>5. CASE HoldOwn(n)
  <2>1. loop[n] # Idle  BY <1>5 DEF HoldOwn, Idle
  <2>2. LoopsKeep  BY <1>5, <2>1 DEF HoldOwn, LoopsKeep, TypeOK
  <2>3. Begun("local", n, n, loop[n].item).kind # "pull"  BY DEF Begun
  <2>4. \A u \in wire' : ClaimedPull(u) => u \in wire
    BY <1>5, <2>3 DEF HoldOwn, ClaimedPull
  <2>5. QED  BY <1>0, <2>2, <2>4, FewerClaims
<1>6. CASE Keep(n)
  <2>1. LoopsKeep  BY <1>6 DEF Keep, LoopsKeep, TypeOK
  <2>2. QED  BY <1>0, <1>6, <2>1, FewerClaims DEF Keep
<1>7. QED  BY <1>1, <1>2, <1>3, <1>4, <1>5, <1>6 DEF LoopStep

LEMMA ExclusiveItem ==
    ASSUME KeepInv, KeepInv', Exclusive, NEW n \in Node, NEW it \in Waiting(n),
           ItemStep(n, it)
    PROVE  Exclusive'
<1> TypeOK /\ TypeOK'  BY DEF KeepInv
<1>0. wire' \subseteq Transfer  BY DEF TypeOK
<1>1. CASE Route(n, it)
  <2>1. /\ ~Claimed(n, it) /\ loop'[n].item = it /\ wire' = wire
        /\ \A m \in Node \ {n} : loop'[m] = loop[m]
    BY <1>1 DEF Route, TypeOK
  <2>2. QED  BY <2>1, LoopClaims
<1>2. CASE RouteFatal(n, it)
  BY <1>0, <1>2, FewerClaims DEF RouteFatal, LoopsKeep
<1>3. CASE DeliverToSelf(n, it)
  <2>1. /\ ~Claimed(n, it) /\ loop'[n].item = it
        /\ wire' = wire \cup {Begun("local", n, n, it)}
        /\ \A m \in Node \ {n} : loop'[m] = loop[m]
    BY <1>3 DEF DeliverToSelf, TypeOK
  <2>2. Begun("local", n, n, it).kind # "pull"  BY DEF Begun
  <2>3. \A u \in wire' : ClaimedPull(u) => u \in wire
    BY <2>1, <2>2 DEF ClaimedPull
  <2>4. QED  BY <2>1, <2>3, LoopClaims
<1>4. QED  BY <1>1, <1>2, <1>3 DEF ItemStep

\* A crash takes claims away, a restart in place forgets them.
LEMMA ExclusiveStops ==
    ASSUME KeepInv, KeepInv', Exclusive, NEW n \in Node,
           Crash(n) \/ RestartInPlace(n)
    PROVE  Exclusive'
<1> TypeOK /\ TypeOK'  BY DEF KeepInv
<1>0. wire' \subseteq Transfer  BY DEF TypeOK
<1>1. CASE Crash(n)
  <2>1. \A u \in wire : Detached(u, "gone").claim = "gone"
    BY DetachedType DEF TypeOK
  <2>2. \A u \in wire' : ClaimedPull(u) => u \in wire
    BY <1>1, <2>1 DEF Crash, AfterCrash, ClaimedPull
  <2>3. LoopsKeep  BY <1>1, GiveUpKeeps DEF Crash, LoopsKeep
  <2>4. QED  BY <1>0, <2>2, <2>3, FewerClaims
<1>2. CASE RestartInPlace(n)
  <2>1. \A u \in wire : Detached(u, "forgotten").claim = "forgotten"
    BY DetachedType DEF TypeOK
  <2>2. \A u \in wire' : ClaimedPull(u) => u \in wire
    BY <1>2, <2>1 DEF RestartInPlace, ClaimedPull
  <2>3. LoopsKeep  BY <1>2 DEF RestartInPlace, LoopsKeep
  <2>4. QED  BY <1>0, <2>2, <2>3, FewerClaims
<1>3. QED  BY <1>1, <1>2

LEMMA ExclusiveNext ==
    ASSUME KeepInv, KeepInv', Exclusive, [Next]_vars
    PROVE  Exclusive'
<1> TypeOK /\ TypeOK'  BY DEF KeepInv
<1>1. CASE UNCHANGED vars
  BY <1>1, FewerClaims DEF vars, LoopsKeep, TypeOK
<1>2. CASE \E n \in Node, it \in UNION {forward[m] : m \in Node} : Pull(n, it)
  BY <1>2, PullClaims
<1>3. \A n \in Node : \A it \in forward[leader[n]] :
         leader[n] # None => it \in UNION {forward[m] : m \in Node}
  BY DEF TypeOK
<1>4. QED
  BY <1>1, <1>2, <1>3, ExclusiveLoop, ExclusiveStops, ExclusiveItem,
     ExclusiveWire DEF Next

\* The loop waits for the one delivery it has begun, so the in-flight set
\* keeps it from what is being pulled and pulls from one another.
LEMMA ExclusiveSentOnce == ASSUME KeepInv, Exclusive PROVE SentOnce
<1> SUFFICES ASSUME NEW t \in wire, NEW u \in wire, t.src = u.src,
                    t.claim = "claimed", u.claim = "claimed",
                    SamePath(t.item, u.item)
             PROVE  t = u
  BY DEF SentOnce
<1>1. CASE t.kind = "pull" /\ u.kind = "pull"
  BY <1>1 DEF Exclusive, PullsExclusive
<1>2. CASE t.kind # "pull" /\ u.kind # "pull"
  BY <1>2 DEF KeepInv, OneDelivery
<1>3. ASSUME NEW v \in wire, NEW w \in wire, v.src = w.src,
             v.kind = "pull", v.claim = "claimed",
             w.kind # "pull", w.claim = "claimed", SamePath(w.item, v.item)
      PROVE  FALSE
  <2>1. loop[v.src] # Idle /\ loop[v.src].item = w.item
    BY <1>3 DEF KeepInv, LoopWaits, Idle
  <2>2. QED  BY <1>3, <2>1 DEF Exclusive, LoopExclusive
<1>4. QED  BY <1>1, <1>2, <1>3, SamePathType

\* While the loop works on a path no pull has a claim on it, and no two pulls have
\* (node.go, claim and release).
THEOREM ExclusiveAlways == Spec => []Exclusive
<1>1. Init => Exclusive
  BY DEF Init, Exclusive, LoopExclusive, PullsExclusive
<1>2. KeepInv /\ KeepInv' /\ Exclusive /\ [Next]_vars => Exclusive'
  BY ExclusiveNext
<1>3. QED  BY <1>1, <1>2, Inductive, PTL DEF Spec

\* The loop and the pulls never send the same file at the same time, whatever
\* breaks, unless a restart in place has forgotten a handler's claim.
THEOREM FilesSentOnce == Spec => []SentOnce
<1>1. KeepInv /\ Exclusive => SentOnce  BY ExclusiveSentOnce
<1>2. QED  BY <1>1, Inductive, ExclusiveAlways, PTL

-----------------------------------------------------------------------------
(* Until something breaks, there is one copy of a file that can still come *)
(* to an end.  A path of n is the place of an item: a file and a slot.     *)

LEMMA OutItemPath ==
    ASSUME NEW f
    PROVE  OutItem(f).file = f /\ OutItem(f).slot = 0
BY DEF OutItem

\* An item of slot 0 waits in the outbox of its origin, another one in forward/.
LEMMA WaitingPath ==
    ASSUME NetworkAssumption, TypeOK, NEW n \in Node, NEW x \in Waiting(n)
    PROVE  /\ x.file \in File /\ x.slot \in {0} \cup Slots
           /\ x.slot = 0 => x.file \in outbox /\ Origin[x.file] = n /\ x = OutItem(x.file)
           /\ x.slot # 0 => x \in forward[n]
<1>1. x \in Item  BY WaitingType
<1>2. CASE x \in forward[n]  BY <1>1, <1>2 DEF TypeOK, Held, Item
<1>3. ASSUME NEW f \in outbox, Origin[f] = n, x = OutItem(f) PROVE x.slot = 0 /\ x.file = f
  BY <1>3, OutItemPath
<1>4. QED  BY <1>1, <1>2, <1>3 DEF Waiting, Item

\* TakeAway clears the path of an item that is there, and no other.
LEMMA TakesPath ==
    ASSUME NetworkAssumption, TypeOK, TypeOK', NEW n \in Node, NEW it \in Item,
           TakeAway(n, it), Present(n, it)
    PROVE  /\ \A m \in Node : Waiting(m)' \subseteq Waiting(m)
           /\ \A m \in Node : \A x \in Waiting(m) :
                 ~(m = n /\ SamePath(x, it)) => x \in Waiting(m)'
           /\ \A x \in Waiting(n)' : ~SamePath(x, it)
<1>1. PICK y \in Waiting(n) : SamePath(y, it)  BY DEF Present
<1>2. CASE it.slot = 0
  <2>1. y.file = it.file /\ Origin[it.file] = n
    BY <1>1, <1>2, WaitingPath DEF SamePath
  <2>2. outbox' = outbox \ {it.file} /\ forward' = forward
    BY <1>2 DEF TakeAway
  <2>3. \A m \in Node : \A x \in forward[m] : x.slot # 0  BY DEF TypeOK, Held
  <2>4. \A m \in Node : Waiting(m)' =
           {OutItem(f) : f \in {g \in outbox \ {it.file} : Origin[g] = m}} \cup forward[m]
    BY <2>2 DEF Waiting
  <2>5. ASSUME NEW m \in Node, NEW x \in Waiting(m), ~(m = n /\ SamePath(x, it))
        PROVE  x \in Waiting(m)'
    <3>1. CASE x \in forward[m]  BY <2>4, <3>1
    <3>2. ASSUME NEW f \in outbox, Origin[f] = m, x = OutItem(f)
          PROVE  x \in Waiting(m)'
      <4>1. f # it.file
        BY <2>1, <2>5, <3>2, <1>2, OutItemPath DEF SamePath
      <4>2. QED  BY <2>4, <3>2, <4>1
    <3>3. QED  BY <3>1, <3>2 DEF Waiting
  <2>6. ASSUME NEW x \in Waiting(n)' PROVE ~SamePath(x, it)
    <3>1. CASE x \in forward[n]  BY <1>2, <2>3, <3>1 DEF SamePath
    <3>2. ASSUME NEW f \in outbox \ {it.file}, x = OutItem(f)
          PROVE  ~SamePath(x, it)
      BY <3>2, OutItemPath DEF SamePath
    <3>3. QED  BY <2>4, <3>1, <3>2
  <2>7. \A m \in Node : Waiting(m)' \subseteq Waiting(m)
    BY <2>4 DEF Waiting
  <2>8. QED  BY <2>5, <2>6, <2>7
<1>3. CASE it.slot # 0
  <2>1. forward' = [forward EXCEPT ![n] = {x \in @ : ~SamePath(x, it)}]
        /\ outbox' = outbox
    BY <1>3 DEF TakeAway
  <2>2. forward'[n] = {x \in forward[n] : ~SamePath(x, it)}
        /\ \A m \in Node \ {n} : forward'[m] = forward[m]
    BY <2>1 DEF TypeOK
  <2>3. \A f \in outbox : ~SamePath(OutItem(f), it)
    BY <1>3, OutItemPath DEF SamePath
  <2>4. \A m \in Node : Waiting(m)' =
           {OutItem(f) : f \in {g \in outbox : Origin[g] = m}} \cup forward'[m]
    BY <2>1 DEF Waiting
  <2>5. QED  BY <2>2, <2>3, <2>4 DEF Waiting
<1>4. QED  BY <1>2, <1>3

Intact ==
    /\ ClaimedAndThere /\ OneLive
    /\ \A f \in File : inbox[f] + failed[f] <= 1

\* A transfer that holds its path back until the item is deleted.
Blocks(t, n, x) == t.src = n /\ SamePath(t.item, x) /\ t.stage # "open"

BlocksStay == \A t \in wire : t.stage # "open" =>
    \E u \in wire' : u.src = t.src /\ u.item = t.item /\ u.stage # "open"

LEMMA StillBlocked ==
    ASSUME BlocksStay, NEW m \in Node, NEW y \in Waiting(m)', Live(m, y)',
           NEW x \in Waiting(m), SamePath(x, y)
    PROVE  Live(m, x)
<1> SUFFICES ASSUME NEW t \in wire, t.src = m, SamePath(t.item, x),
                    t.stage # "open"
             PROVE  FALSE
  BY DEF Live
<1>1. PICK u \in wire' : u.src = m /\ u.item = t.item /\ u.stage # "open"
  BY DEF BlocksStay
<1>2. SamePath(u.item, y)  BY <1>1 DEF SamePath
<1>3. QED  BY <1>1, <1>2 DEF Live

\* Everything that is live was live before, in the same place.
NoneNew == \A m \in Node : \A y \in Waiting(m)' :
    Live(m, y)' => \E x \in Waiting(m) : Live(m, x) /\ SamePath(x, y)

LEMMA SameLive ==
    ASSUME KeepInv, KeepInv', Intact, NoneNew, UNCHANGED <<inbox, failed>>
    PROVE  OneLive' /\ \A f \in File : inbox'[f] + failed'[f] <= 1
<1>1. OneLive'
  BY DEF Intact, OneLive, NoneNew, SamePath, Done
<1>2. QED  BY <1>1 DEF Intact

\* One copy comes to its end.
LEMMA EndsOne ==
    ASSUME NetworkAssumption, KeepInv, KeepInv', Intact, NoneNew,
           NEW n \in Node, NEW x \in Waiting(n), Live(n, x),
           \A y \in Waiting(n)' : SamePath(x, y) => ~Live(n, y)',
           \A f \in File : inbox'[f] + failed'[f]
               = inbox[f] + failed[f] + IF f = x.file THEN 1 ELSE 0
    PROVE  OneLive' /\ \A f \in File : inbox'[f] + failed'[f] <= 1
<1>0. /\ TypeOK /\ TypeOK' /\ x.file \in File
      /\ inbox \in [File -> Nat] /\ failed \in [File -> Nat]
      /\ inbox' \in [File -> Nat] /\ failed' \in [File -> Nat]
  BY WaitingPath DEF KeepInv, TypeOK
<1>1. ~Done(x.file)  BY DEF Intact, OneLive
<1>2. ASSUME NEW f \in File PROVE inbox'[f] + failed'[f] <= 1
  BY <1>0, <1>1, <1>2 DEF Done, Intact
<1>3. ASSUME NEW m \in Node, NEW y \in Waiting(m)', Live(m, y)'
      PROVE  y.file # x.file
  <2>1. PICK v \in Waiting(m) : Live(m, v) /\ SamePath(v, y)
    BY <1>3 DEF NoneNew
  <2>2. SUFFICES ASSUME y.file = x.file PROVE FALSE  OBVIOUS
  <2>3. m = n /\ SamePath(x, v)
    BY <2>1, <2>2 DEF Intact, OneLive, SamePath
  <2>4. QED  BY <1>3, <2>1, <2>3 DEF SamePath
<1>4. ASSUME NEW f \in File, f # x.file PROVE Done(f)' <=> Done(f)
  BY <1>0, <1>4 DEF Done
<1>5. ASSUME NEW m \in Node, NEW y \in Waiting(m)', Live(m, y)' PROVE ~Done(y.file)'
  <2>1. y.file \in File  BY <1>0, <1>5, WaitingPath DEF Waiting, KeepInv, TypeOK, OutItem, Held, Item
  <2>2. PICK v \in Waiting(m) : Live(m, v) /\ SamePath(v, y)
    BY <1>5 DEF NoneNew
  <2>3. ~Done(y.file)  BY <2>2 DEF Intact, OneLive, SamePath
  <2>4. QED  BY <1>3, <1>4, <1>5, <2>1, <2>3
<1>6. OneLive'
  <2>1. ASSUME NEW m \in Node, NEW k \in Node, NEW y \in Waiting(m)',
               NEW z \in Waiting(k)', Live(m, y)', Live(k, z)', y.file = z.file
        PROVE  m = k /\ SamePath(y, z)
    <3>1. PICK v \in Waiting(m) : Live(m, v) /\ SamePath(v, y)
      BY <2>1 DEF NoneNew
    <3>2. PICK w \in Waiting(k) : Live(k, w) /\ SamePath(w, z)
      BY <2>1 DEF NoneNew
    <3>3. QED  BY <2>1, <3>1, <3>2 DEF Intact, OneLive, SamePath
  <2>2. QED  BY <1>5, <2>1 DEF OneLive
<1>7. QED  BY <1>2, <1>6

\* A transfer that is open sends a live copy.
LEMMA OpenIsLive ==
    ASSUME KeepInv, Exclusive, Intact, NEW t \in wire, t.stage = "open"
    PROVE  \E x \in Waiting(t.src) : SamePath(x, t.item) /\ Live(t.src, x)
<1>1. PICK x \in Waiting(t.src) : SamePath(x, t.item)
  BY DEF Intact, ClaimedAndThere, Present
<1>2. SentOnce  BY ExclusiveSentOnce
<1>3. \A u \in wire : u.src = t.src /\ SamePath(u.item, x) => u = t
  BY <1>1, <1>2 DEF SentOnce, Intact, ClaimedAndThere, SamePath
<1>4. Live(t.src, x)  BY <1>3 DEF Live
<1>5. QED  BY <1>1, <1>4

\* Steps that move no file.
LEMMA CalmStep ==
    ASSUME KeepInv, KeepInv', Intact, UNCHANGED <<outbox, forward, inbox, failed>>,
           \A t \in wire : t.stage # "open" => t \in wire',
           \A u \in wire' : u \in wire \/ (u.claim = "claimed" /\ Present(u.src, u.item)),
           \A n \in Node : loop'[n] # Idle =>
              \/ loop[n] # Idle /\ loop'[n].item = loop[n].item
              \/ Present(n, loop'[n].item)
    PROVE  Intact'
<1>1. \A n \in Node : Waiting(n)' = Waiting(n)  BY DEF Waiting
<1>2. \A n \in Node : \A it : Present(n, it)' <=> Present(n, it)
  BY <1>1 DEF Present
<1>3. \A u \in wire' : u.src \in Node  BY DEF KeepInv, TypeOK, Transfer
<1>4. ClaimedAndThere'
  <2>1. ASSUME NEW u \in wire' PROVE u.claim = "claimed" /\ Present(u.src, u.item)'
    BY <1>2, <1>3 DEF Intact, ClaimedAndThere
  <2>2. ASSUME NEW n \in Node, loop'[n] # Idle PROVE Present(n, loop[n].item)'
    <3>1. PICK z : z = loop'[n].item  OBVIOUS
    <3>2. Present(n, z)'  BY <1>2, <2>2, <3>1 DEF Intact, ClaimedAndThere
    <3>3. QED  BY <3>1, <3>2 DEF Present, Waiting
  <2>3. QED  BY <2>1, <2>2 DEF ClaimedAndThere, Present
<1>5. BlocksStay  BY DEF BlocksStay
<1>6. NoneNew
  <2>1. ASSUME NEW m \in Node, NEW y \in Waiting(m)', Live(m, y)'
        PROVE  y \in Waiting(m) /\ Live(m, y) /\ SamePath(y, y)
    BY <1>1, <1>5, <2>1, StillBlocked DEF SamePath
  <2>2. QED  BY <2>1 DEF NoneNew
<1>7. QED  BY <1>4, <1>6, SameLive DEF Intact

\* Steps that take away one item, in hand or copied on, and nothing beside it.
LEMMA TakenStep ==
    ASSUME NetworkAssumption, KeepInv, KeepInv', Intact,
           NEW n \in Node, NEW it \in Item, TakeAway(n, it), Present(n, it),
           wire' \subseteq wire,
           \A t \in wire : t.stage # "open" /\ t \notin wire' =>
              t.src = n /\ SamePath(t.item, it),
           \A u \in wire' : ~(u.src = n /\ SamePath(u.item, it)),
           \A m \in Node : loop'[m] # Idle =>
              loop[m] # Idle /\ loop'[m].item = loop[m].item
              /\ ~(m = n /\ SamePath(loop[m].item, it))
    PROVE  /\ ClaimedAndThere' /\ NoneNew
           /\ \A x \in Waiting(n)' : ~SamePath(x, it)
<1> TypeOK /\ TypeOK'  BY DEF KeepInv
<1>1. /\ \A m \in Node : Waiting(m)' \subseteq Waiting(m)
      /\ \A m \in Node : \A x \in Waiting(m) :
            ~(m = n /\ SamePath(x, it)) => x \in Waiting(m)'
      /\ \A x \in Waiting(n)' : ~SamePath(x, it)
  BY TakesPath
<1>2. ASSUME NEW m \in Node, NEW z, Present(m, z), ~(m = n /\ SamePath(z, it))
      PROVE  Present(m, z)'
  BY <1>1, <1>2 DEF Present, SamePath
<1>3. \A u \in wire' : u \in wire /\ u.src \in Node
  BY DEF TypeOK, Transfer
<1>4. ClaimedAndThere'
  <2>1. ASSUME NEW u \in wire' PROVE u.claim = "claimed" /\ Present(u.src, u.item)'
    BY <1>2, <1>3 DEF Intact, ClaimedAndThere
  <2>2. ASSUME NEW m \in Node, loop'[m] # Idle PROVE Present(m, loop[m].item)'
    <3>1. PICK z : z = loop'[m].item  OBVIOUS
    <3>2. Present(m, z)'  BY <1>2, <2>2, <3>1 DEF Intact, ClaimedAndThere
    <3>3. QED  BY <3>1, <3>2 DEF Present, Waiting
  <2>3. QED  BY <2>1, <2>2 DEF ClaimedAndThere, Present
<1>5. NoneNew
  <2>1. ASSUME NEW m \in Node, NEW y \in Waiting(m)', Live(m, y)'
        PROVE  y \in Waiting(m) /\ Live(m, y) /\ SamePath(y, y)
    <3>1. y \in Waiting(m)  BY <1>1
    <3>2. \A t \in wire : t.src = m /\ SamePath(t.item, y) => t.stage = "open"
      <4>1. SUFFICES ASSUME NEW t \in wire, t.src = m, SamePath(t.item, y),
                            t.stage # "open"
                     PROVE  FALSE
        OBVIOUS
      <4>2. t \notin wire'  BY <2>1, <4>1 DEF Live
      <4>3. m = n /\ SamePath(y, it)  BY <4>1, <4>2 DEF SamePath
      <4>4. QED  BY <1>1, <4>3
    <3>3. QED  BY <3>1, <3>2 DEF Live, SamePath
  <2>2. QED  BY <2>1 DEF NoneNew
<1>6. QED  BY <1>1, <1>4, <1>5

\* A live item is put aside in failed/.
LEMMA AsideStep ==
    ASSUME NetworkAssumption, KeepInv, KeepInv', Intact,
           NEW n \in Node, NEW it \in Item, PutAside(n, it), Present(n, it),
           wire' \subseteq wire, UNCHANGED inbox,
           \A t \in wire : t.stage # "open" => t \in wire',
           \A t \in wire : t.src = n /\ SamePath(t.item, it) =>
              t.stage = "open" /\ t \notin wire',
           \A m \in Node : loop'[m] # Idle =>
              loop[m] # Idle /\ loop'[m].item = loop[m].item
              /\ ~(m = n /\ SamePath(loop[m].item, it))
    PROVE  Intact'
<1> TypeOK  BY DEF KeepInv
<1>1. TakeAway(n, it)  BY DEF PutAside
<1>2. /\ ClaimedAndThere' /\ NoneNew
      /\ \A x \in Waiting(n)' : ~SamePath(x, it)
  BY <1>1, TakenStep
<1>3. PICK x \in Waiting(n) : SamePath(x, it)  BY DEF Present
<1>4. Live(n, x)  BY <1>3 DEF Live, SamePath
<1>5. x.file = it.file /\ it.file \in File  BY <1>3 DEF SamePath, Item
<1>6. ASSUME NEW f \in File
      PROVE  inbox'[f] + failed'[f]
                = inbox[f] + failed[f] + IF f = x.file THEN 1 ELSE 0
  <2>1. failed' = [failed EXCEPT ![it.file] = @ + 1]  BY DEF PutAside
  <2>2. inbox \in [File -> Nat] /\ failed \in [File -> Nat]  BY DEF TypeOK
  <2>3. QED  BY <1>5, <2>1, <2>2
<1>7. \A y \in Waiting(n)' : SamePath(x, y) => ~Live(n, y)'
  BY <1>2, <1>3 DEF SamePath
<1>8. QED  BY <1>2, <1>4, <1>6, <1>7, EndsOne DEF Intact

\* A path that the loop may take up, or works on and has not sent, is sent by
\* nobody.
LEMMA FreePath ==
    ASSUME NetworkAssumption, KeepInv, Exclusive, Intact, NEW n \in Node, NEW it,
           \/ loop[n] = Idle /\ ~Claimed(n, it)
           \/ loop[n].pc \in {"direct", "next"} /\ loop[n].item = it
    PROVE  \A t \in wire : t.src = n => ~SamePath(t.item, it)
<1> SUFFICES ASSUME NEW t \in wire, t.src = n, SamePath(t.item, it) PROVE FALSE
  OBVIOUS
<1>1. t.claim = "claimed"  BY DEF Intact, ClaimedAndThere
<1>2. CASE t.kind = "pull"
  BY <1>1, <1>2 DEF Claimed, Exclusive, LoopExclusive, SamePath, Idle
<1>3. CASE t.kind # "pull"
  BY <1>1, <1>3 DEF KeepInv, LoopWaits, Idle
<1>4. QED  BY <1>2, <1>3

LEMMA IntactItem ==
    ASSUME NetworkAssumption, KeepInv, KeepInv', Exclusive, Intact,
           NEW n \in Node, NEW it \in Waiting(n), ItemStep(n, it)
    PROVE  Intact'
<1> TypeOK  BY DEF KeepInv
<1>0. it \in Item /\ Present(n, it)  BY WaitingType DEF Present, SamePath
<1>1. CASE Route(n, it)
  <2>1. \A m \in Node : loop'[m] # Idle =>
           \/ loop[m] # Idle /\ loop'[m].item = loop[m].item
           \/ Present(m, loop'[m].item)
    BY <1>0, <1>1 DEF Route, TypeOK
  <2>2. QED  BY <1>1, <2>1, CalmStep DEF Route
<1>2. CASE RouteFatal(n, it)
  <2>1. /\ loop[n] = Idle /\ ~Claimed(n, it) /\ PutAside(n, it)
        /\ UNCHANGED <<inbox, wire, loop>>
    BY <1>2 DEF RouteFatal, LoopFree
  <2>2. \A t \in wire : t.src = n => ~SamePath(t.item, it)
    BY <2>1, FreePath
  <2>3. QED  BY <1>0, <2>1, <2>2, AsideStep
<1>3. CASE DeliverToSelf(n, it)
  <2> DEFINE T == Begun("local", n, n, it)
  <2>1. T.claim = "claimed" /\ T.src = n /\ T.item = it  BY DEF Begun
  <2> HIDE DEF T
  <2>2. \A m \in Node : loop'[m] # Idle =>
           \/ loop[m] # Idle /\ loop'[m].item = loop[m].item
           \/ Present(m, loop'[m].item)
    BY <1>0, <1>3 DEF DeliverToSelf, TypeOK
  <2>3. wire' = wire \cup {T}  BY <1>3 DEF DeliverToSelf, T
  <2>4. UNCHANGED <<outbox, forward, inbox, failed>>  BY <1>3 DEF DeliverToSelf
  <2>5. QED  BY <1>0, <2>1, <2>2, <2>3, <2>4, CalmStep
<1>4. QED  BY <1>1, <1>2, <1>3 DEF ItemStep

LEMMA IntactLoop ==
    ASSUME NetworkAssumption, KeepInv, KeepInv', Exclusive, Intact,
           NEW n \in Node, LoopStep(n)
    PROVE  Intact'
<1> TypeOK  BY DEF KeepInv
<1>1. CASE Discover(n)
  BY <1>1, CalmStep DEF Discover
<1>2. CASE Unavailable(n)
  <2>1. \A m \in Node : loop'[m] # Idle =>
           loop[m] # Idle /\ loop'[m].item = loop[m].item
    BY <1>2, GiveUpKeeps DEF Unavailable, TypeOK
  <2>2. QED  BY <1>2, <2>1, CalmStep DEF Unavailable
<1>3. CASE Refused(n)
  <2>1. loop[n].pc \in {"direct", "next"} /\ loop[n] # Idle
    BY <1>3 DEF Refused, Target, Idle
  <2>2. PICK it \in Item : it = loop[n].item  BY <2>1, LoopType
  <2>3. Present(n, it)  BY <2>1, <2>2 DEF Intact, ClaimedAndThere
  <2>4. \A t \in wire : t.src = n => ~SamePath(t.item, it)
    BY <2>1, <2>2, FreePath
  <2>5. PutAside(n, it) /\ UNCHANGED <<inbox, wire>>
        /\ loop'[n] = Idle /\ \A m \in Node \ {n} : loop'[m] = loop[m]
    BY <1>3, <2>2 DEF Refused, TypeOK
  <2>6. QED  BY <2>3, <2>4, <2>5, AsideStep
<1>4. CASE Send(n)
  <2> DEFINE T == Begun("deliver", n, Target(n), loop[n].item)
  <2>1. T.claim = "claimed" /\ T.src = n /\ T.item = loop[n].item  BY DEF Begun
  <2>2. wire' = wire \cup {T} /\ Present(n, loop[n].item) /\ loop[n] # Idle
    BY <1>4 DEF Send, Target, Idle
  <2> HIDE DEF T
  <2>3. \A m \in Node : loop'[m] # Idle =>
           loop[m] # Idle /\ loop'[m].item = loop[m].item
    BY <1>4, <2>2 DEF Send, TypeOK
  <2>4. UNCHANGED <<outbox, forward, inbox, failed>>  BY <1>4 DEF Send
  <2>5. QED  BY <2>1, <2>2, <2>3, <2>4, CalmStep
<1>5. CASE HoldOwn(n)
  <2> DEFINE T == Begun("local", n, n, loop[n].item)
  <2>1. T.claim = "claimed" /\ T.src = n /\ T.item = loop[n].item  BY DEF Begun
  <2>2. wire' = wire \cup {T} /\ Present(n, loop[n].item) /\ loop[n] # Idle
    BY <1>5 DEF HoldOwn, Idle
  <2> HIDE DEF T
  <2>3. \A m \in Node : loop'[m] # Idle =>
           loop[m] # Idle /\ loop'[m].item = loop[m].item
    BY <1>5, <2>2 DEF HoldOwn, TypeOK
  <2>4. UNCHANGED <<outbox, forward, inbox, failed>>  BY <1>5 DEF HoldOwn
  <2>5. QED  BY <2>1, <2>2, <2>3, <2>4, CalmStep
<1>6. CASE Keep(n)
  <2>1. \A m \in Node : loop'[m] # Idle =>
           loop[m] # Idle /\ loop'[m].item = loop[m].item
    BY <1>6 DEF Keep, TypeOK
  <2>2. QED  BY <1>6, <2>1, CalmStep DEF Keep
<1>7. QED  BY <1>1, <1>2, <1>3, <1>4, <1>5, <1>6 DEF LoopStep

LEMMA IntactPull ==
    ASSUME KeepInv, KeepInv', Intact, NEW n \in Node, leader[n] # None,
           NEW it \in forward[leader[n]], Pull(n, it)
    PROVE  Intact'
<1> DEFINE s == leader[n]  T == Begun("pull", s, n, it)
<1>1. T.claim = "claimed" /\ T.src = s /\ T.item = it  BY DEF Begun
<1>2. Present(s, it)  BY DEF Present, Waiting, SamePath
<1>3. wire' = wire \cup {T} /\ UNCHANGED <<outbox, forward, inbox, failed, loop>>
  BY DEF Pull
<1> HIDE DEF T, s
<1>4. QED  BY <1>1, <1>2, <1>3, CalmStep

\* The loop works on a path of its own while a pull handler sends another.
LEMMA LoopElsewhere ==
    ASSUME KeepInv, Exclusive, Intact, NEW t \in wire, NEW m \in Node,
           loop'[m] # Idle,
           loop' = IF t.kind = "pull" THEN loop
                                      ELSE [loop EXCEPT ![t.src] = Idle]
    PROVE  /\ loop[m] # Idle /\ loop'[m].item = loop[m].item
           /\ ~(m = t.src /\ SamePath(loop[m].item, t.item))
<1>1. t.src \in Node /\ t.claim = "claimed"
  BY DEF KeepInv, TypeOK, Transfer, Intact, ClaimedAndThere
<1>2. CASE t.kind = "pull"
  BY <1>1, <1>2 DEF Exclusive, LoopExclusive
<1>3. CASE t.kind # "pull"
  BY <1>1, <1>3 DEF KeepInv, TypeOK
<1>4. QED  BY <1>2, <1>3

\* The other transfers of the same sender send other paths.
LEMMA OthersElsewhere ==
    ASSUME KeepInv, Exclusive, Intact, NEW t \in wire, NEW u \in wire, u # t,
           u.src = t.src
    PROVE  ~SamePath(u.item, t.item)
BY ExclusiveSentOnce DEF SentOnce, Intact, ClaimedAndThere

\* The receiver has the file and says so: the sender's copy is live no more.
LEMMA AnsweredStep ==
    ASSUME KeepInv, KeepInv', Exclusive, Intact, NEW t \in wire, NEW T \in Transfer,
           wire' = (wire \ {t}) \cup {T}, T.src = t.src, T.item = t.item,
           T.claim = t.claim, T.stage # "open",
           loop' = loop,
           \A m \in Node : \A x \in Waiting(m) : \E y \in Waiting(m)' : SamePath(x, y)
    PROVE  /\ ClaimedAndThere' /\ BlocksStay
           /\ \A y \in Waiting(t.src)' : SamePath(y, t.item) => ~Live(t.src, y)'
<1>1. \A m \in Node : \A z : Present(m, z) => Present(m, z)'
  BY DEF Present, SamePath
<1>2. \A u \in wire' : /\ u \in wire \/ u = T
                       /\ u.src \in Node
  BY DEF KeepInv, TypeOK, Transfer
<1>3. ClaimedAndThere'
  <2>1. ASSUME NEW u \in wire' PROVE u.claim = "claimed" /\ Present(u.src, u.item)'
    <3>1. u.claim = "claimed" /\ Present(u.src, u.item)
      BY <1>2 DEF Intact, ClaimedAndThere
    <3>2. QED  BY <1>1, <1>2, <3>1
  <2>2. ASSUME NEW m \in Node, loop'[m] # Idle PROVE Present(m, loop[m].item)'
    <3>1. PICK z : z = loop[m].item  OBVIOUS
    <3>2. Present(m, z)'  BY <1>1, <2>2, <3>1 DEF Intact, ClaimedAndThere
    <3>3. QED  BY <3>1, <3>2 DEF Present, Waiting
  <2>3. QED  BY <2>1, <2>2 DEF ClaimedAndThere, Present
<1>4. BlocksStay  BY DEF BlocksStay
<1>5. \A y \in Waiting(t.src)' : SamePath(y, t.item) => ~Live(t.src, y)'
  BY SamePathType DEF Live
<1>6. QED  BY <1>3, <1>4, <1>5

LEMMA IntactStore ==
    ASSUME NetworkAssumption, KeepInv, KeepInv', Exclusive, Intact,
           NEW t \in wire, Store(t)
    PROVE  Intact'
<1> TypeOK  BY DEF KeepInv
<1> DEFINE T == [t EXCEPT !.stage = "stored"]
<1>1. t \in Transfer /\ t.src \in Node /\ t.claim # "gone" /\ t.stage = "open"
  BY DEF TypeOK, Transfer, Intact, ClaimedAndThere, Store
<1>2. /\ T \in Transfer /\ T.src = t.src /\ T.item = t.item
      /\ T.claim = t.claim /\ T.stage # "open"
  BY <1>1, AnsweredType
<1>3. wire' = (wire \ {t}) \cup {T}  BY <1>1 DEF Store, Answered
<1> HIDE DEF T
<1>4. UNCHANGED <<outbox, forward, failed, loop>>
      /\ inbox' = [inbox EXCEPT ![t.item.file] = @ + 1]
  BY DEF Store
<1>5. \A m \in Node : Waiting(m)' = Waiting(m)  BY <1>4 DEF Waiting
<1>6. \A m \in Node : \A x \in Waiting(m) : \E y \in Waiting(m)' : SamePath(x, y)
  BY <1>5 DEF SamePath
<1>7. /\ ClaimedAndThere' /\ BlocksStay
      /\ \A y \in Waiting(t.src)' : SamePath(y, t.item) => ~Live(t.src, y)'
  BY <1>1, <1>2, <1>3, <1>4, <1>6, AnsweredStep
<1>8. PICK x \in Waiting(t.src) : SamePath(x, t.item) /\ Live(t.src, x)
  BY <1>1, OpenIsLive
<1>9. x.file = t.item.file  BY <1>8 DEF SamePath
<1>10. ASSUME NEW f \in File
       PROVE  inbox'[f] + failed'[f]
                 = inbox[f] + failed[f] + IF f = x.file THEN 1 ELSE 0
  BY <1>4, <1>9 DEF TypeOK
<1>11. NoneNew
  <2>1. ASSUME NEW m \in Node, NEW y \in Waiting(m)', Live(m, y)'
        PROVE  y \in Waiting(m) /\ Live(m, y) /\ SamePath(y, y)
    BY <1>5, <1>7, <2>1, StillBlocked DEF SamePath
  <2>2. QED  BY <2>1 DEF NoneNew
<1>12. \A y \in Waiting(t.src)' : SamePath(x, y) => ~Live(t.src, y)'
  BY <1>7, <1>8, SamePathType
<1>13. QED  BY <1>1, <1>7, <1>8, <1>10, <1>11, <1>12, EndsOne DEF Intact

\* The copy that a relay places is live in place of the sender's.
LEMMA IntactPlace ==
    ASSUME NetworkAssumption, KeepInv, KeepInv', Exclusive, Intact,
           NEW t \in wire, Place(t)
    PROVE  Intact'
<1> TypeOK /\ TypeOK'  BY DEF KeepInv
<1> DEFINE d == t.dst
<1>1. /\ t \in Transfer /\ t.src \in Node /\ d \in Node /\ t.item.file \in File
      /\ t.claim # "gone" /\ t.stage = "open"
  BY DEF TypeOK, Transfer, Item, Intact, ClaimedAndThere, Place
<1>2. PICK k \in Slots :
         /\ FirstFree(d, t.item.file, k)
         /\ forward' = [forward EXCEPT ![d] = @ \cup {Bare(t.item.file, k)}]
         /\ wire' = (wire \ {t}) \cup {Placed(t, k)}
  BY DEF Place
<1>3. PICK b : b = Bare(t.item.file, k)  OBVIOUS
<1>4. b.file = t.item.file /\ b.slot = k /\ k # 0  BY <1>1, <1>3, BareType
<1>5. PICK T \in Transfer : /\ T = Placed(t, k) /\ T.src = t.src /\ T.item = t.item
                            /\ T.claim = t.claim /\ T.stage # "open"
  BY <1>1, PlacedType
<1>6. forward'[d] = forward[d] \cup {b}
      /\ \A m \in Node \ {d} : forward'[m] = forward[m]
  BY <1>1, <1>2, <1>3 DEF TypeOK
<1>7. UNCHANGED <<outbox, inbox, failed, loop>>  BY DEF Place
<1>8. \A m \in Node : Waiting(m)' = Waiting(m) \cup IF m = d THEN {b} ELSE {}
  BY <1>6, <1>7 DEF Waiting
<1>9. \A m \in Node : \A x \in Waiting(m) : \E y \in Waiting(m)' : SamePath(x, y)
  BY <1>8 DEF SamePath
<1>10. /\ ClaimedAndThere' /\ BlocksStay
       /\ \A y \in Waiting(t.src)' : SamePath(y, t.item) => ~Live(t.src, y)'
  BY <1>1, <1>2, <1>5, <1>7, <1>9, AnsweredStep
<1>11. PICK x \in Waiting(t.src) : SamePath(x, t.item) /\ Live(t.src, x)
  BY <1>1, OpenIsLive
<1>12. ~Done(b.file)
  BY <1>1, <1>4, <1>11 DEF Intact, OneLive, SamePath
<1>13. ASSUME NEW m \in Node, NEW y \in Waiting(m)', Live(m, y)'
       PROVE  \/ m = d /\ y = b
              \/ y \in Waiting(m) /\ Live(m, y) /\ y.file # b.file
  <2>1. SUFFICES ASSUME y \in Waiting(m)
                 PROVE  Live(m, y) /\ y.file # b.file
    BY <1>8
  <2>2. Live(m, y)  BY <1>10, <1>13, <2>1, StillBlocked DEF SamePath
  <2>3. ASSUME y.file = b.file PROVE FALSE
    <3>1. m = t.src /\ SamePath(y, x)
      BY <1>1, <1>4, <1>11, <2>1, <2>2, <2>3 DEF Intact, OneLive, SamePath
    <3>2. QED  BY <1>10, <1>11, <1>13, <3>1 DEF SamePath
  <2>4. QED  BY <2>2, <2>3
<1>14. OneLive'
  <2>1. ASSUME NEW m \in Node, NEW n \in Node, NEW y \in Waiting(m)',
               NEW z \in Waiting(n)', Live(m, y)', Live(n, z)', y.file = z.file
        PROVE  m = n /\ SamePath(y, z)
    <3>1. CASE m = d /\ y = b
      BY <1>13, <2>1, <3>1 DEF SamePath
    <3>2. CASE y.file # b.file
      BY <1>13, <2>1, <3>2 DEF Intact, OneLive
    <3>3. QED  BY <1>13, <2>1, <3>1, <3>2
  <2>2. ASSUME NEW m \in Node, NEW y \in Waiting(m)', Live(m, y)'
        PROVE  ~Done(y.file)'
    BY <1>7, <1>12, <1>13, <2>2 DEF Intact, OneLive, Done
  <2>3. QED  BY <2>1, <2>2 DEF OneLive
<1>15. QED  BY <1>7, <1>10, <1>14 DEF Intact

\* The sidecar changes what a listing finds, not where.
LEMMA IntactSidecar ==
    ASSUME NetworkAssumption, KeepInv, KeepInv', Exclusive, Intact,
           NEW t \in wire, WriteSidecar(t)
    PROVE  Intact'
<1> TypeOK  BY DEF KeepInv
<1> DEFINE T == [t EXCEPT !.stage = "stored"]
           Was(x) == x.file = t.item.file /\ x.slot = t.at
           New(x) == IF Was(x) THEN Copied(t) ELSE x
<1>1. t \in Transfer /\ t.dst \in Node /\ t.claim # "gone" /\ t.stage = "placed"
  BY DEF TypeOK, Transfer, Intact, ClaimedAndThere, WriteSidecar
<1>2. /\ T \in Transfer /\ T.src = t.src /\ T.item = t.item
      /\ T.claim = t.claim /\ T.stage # "open"
  BY <1>1, AnsweredType
<1>3. wire' = (wire \ {t}) \cup {T}  BY <1>1 DEF WriteSidecar, Answered
<1> HIDE DEF T
<1>4. UNCHANGED <<outbox, inbox, failed, loop>>  BY DEF WriteSidecar
<1>5. /\ forward'[t.dst] = {New(x) : x \in forward[t.dst]}
      /\ \A m \in Node \ {t.dst} : forward'[m] = forward[m]
  BY <1>1 DEF WriteSidecar, TypeOK
<1>6. \A x : SamePath(x, New(x)) /\ SamePath(New(x), x)
  BY DEF SamePath, Copied
<1> HIDE DEF New
<1>7. /\ \A m \in Node : \A x \in Waiting(m) : \E y \in Waiting(m)' : SamePath(x, y)
      /\ \A m \in Node : \A y \in Waiting(m)' : \E x \in Waiting(m) : SamePath(x, y)
  <2>1. ASSUME NEW m \in Node
        PROVE  /\ \A x \in Waiting(m) : \E y \in Waiting(m)' : SamePath(x, y)
               /\ \A y \in Waiting(m)' : \E x \in Waiting(m) : SamePath(x, y)
    <3>1. /\ \A x \in forward[m] : \E y \in forward'[m] : SamePath(x, y)
          /\ \A y \in forward'[m] : \E x \in forward[m] : SamePath(x, y)
      <4>1. CASE m = t.dst  BY <1>5, <1>6, <4>1
      <4>2. CASE m # t.dst  BY <1>5, <4>2 DEF SamePath
      <4>3. QED  BY <4>1, <4>2
    <3>2. QED  BY <1>4, <3>1 DEF Waiting, SamePath
  <2>2. QED  BY <2>1
<1>8. ClaimedAndThere' /\ BlocksStay
  BY <1>1, <1>2, <1>3, <1>4, <1>7, AnsweredStep
<1>9. NoneNew
  BY <1>7, <1>8, StillBlocked DEF NoneNew
<1>10. QED  BY <1>4, <1>8, <1>9, SameLive DEF Intact

\* The sender deletes a copy that was copied on.
LEMMA IntactAck ==
    ASSUME NetworkAssumption, KeepInv, KeepInv', Exclusive, Intact,
           NEW t \in wire, Ack(t)
    PROVE  Intact'
<1>1. PICK n \in Node, it \in Item : n = t.src /\ it = t.item
  BY DEF KeepInv, TypeOK, Transfer
<1>2. /\ TakeAway(n, it) /\ wire' = wire \ {t} /\ UNCHANGED <<inbox, failed>>
      /\ loop' = IF t.kind = "pull" THEN loop ELSE [loop EXCEPT ![t.src] = Idle]
  BY <1>1 DEF Ack
<1>3. Present(n, it)  BY <1>1 DEF Intact, ClaimedAndThere
<1>4. \A u \in wire' : ~(u.src = n /\ SamePath(u.item, it))
  BY <1>1, <1>2, OthersElsewhere
<1>5. \A m \in Node : loop'[m] # Idle =>
         loop[m] # Idle /\ loop'[m].item = loop[m].item
         /\ ~(m = n /\ SamePath(loop[m].item, it))
  BY <1>1, <1>2, LoopElsewhere
<1>6. \A u \in wire : u.stage # "open" /\ u \notin wire' =>
         u.src = n /\ SamePath(u.item, it)
  BY <1>1, <1>2 DEF SamePath
<1>7. ClaimedAndThere' /\ NoneNew
  BY <1>2, <1>3, <1>4, <1>5, <1>6, TakenStep
<1>8. QED  BY <1>2, <1>7, SameLive DEF Intact

LEMMA IntactWire ==
    ASSUME NetworkAssumption, KeepInv, KeepInv', Exclusive, Intact,
           faults = 0, faults' = 0, NEW t \in wire, WireStep(t)
    PROVE  Intact'
<1>0. t.claim = "claimed"  BY DEF Intact, ClaimedAndThere
<1>1. CASE PullRefused(t)
  <2>1. PICK n \in Node, it \in Item : n = t.src /\ it = t.item
    BY DEF KeepInv, TypeOK, Transfer
  <2>2. /\ PutAside(n, it) /\ wire' = wire \ {t} /\ UNCHANGED <<inbox, loop>>
        /\ t.kind = "pull" /\ t.stage = "open"
    BY <1>1, <2>1 DEF PullRefused
  <2>3. Present(n, it)  BY <2>1 DEF Intact, ClaimedAndThere
  <2>4. \A u \in wire : u.src = n /\ SamePath(u.item, it) => u = t
    BY <2>1, OthersElsewhere
  <2>5. \A m \in Node : loop'[m] # Idle =>
           loop[m] # Idle /\ loop'[m].item = loop[m].item
           /\ ~(m = n /\ SamePath(loop[m].item, it))
    BY <2>1, <2>2, LoopElsewhere
  <2>6. QED  BY <2>2, <2>3, <2>4, <2>5, AsideStep
<1>2. CASE NoRoom(t)
  <2>1. LoopsKeep  BY <1>2, StopWaitingKeeps DEF NoRoom, KeepInv
  <2>2. QED  BY <1>2, <2>1, CalmStep DEF NoRoom, LoopsKeep
<1>3. CASE SidecarFails(t) \/ Break(t)
  BY <1>3 DEF SidecarFails, Break, Fault
<1>4. CASE Discard(t)  BY <1>0, <1>4 DEF Discard
<1>5. QED
  BY <1>1, <1>2, <1>3, <1>4, IntactStore, IntactPlace, IntactSidecar,
     IntactAck DEF WireStep

LEMMA IntactNext ==
    ASSUME NetworkAssumption, KeepInv, KeepInv', Exclusive, [Next]_vars,
           faults' = 0, faults = 0 => Intact
    PROVE  Intact'
<1>1. faults = 0
  <2>1. faults' \in {faults, faults + 1}
    <3>1. ASSUME NEW n \in Node, LoopStep(n) PROVE faults' = faults
      BY <3>1 DEF LoopStep, Discover, Unavailable, Refused, Send, HoldOwn, Keep
    <3>2. ASSUME NEW n \in Node, NEW it, ItemStep(n, it) PROVE faults' = faults
      BY <3>2 DEF ItemStep, Route, RouteFatal, DeliverToSelf
    <3>3. ASSUME NEW n \in Node, NEW it, Pull(n, it) PROVE faults' = faults
      BY <3>3 DEF Pull
    <3>4. ASSUME NEW n \in Node, Crash(n) \/ RestartInPlace(n)
          PROVE  faults' = faults + 1
      BY <3>4 DEF Crash, RestartInPlace, Fault
    <3>5. ASSUME NEW t \in wire, WireStep(t) PROVE faults' \in {faults, faults + 1}
      BY <3>5 DEF WireStep, Store, Place, WriteSidecar, SidecarFails, PullRefused,
                  NoRoom, Ack, Break, Discard, Fault
    <3>6. QED  BY <3>1, <3>2, <3>3, <3>4, <3>5 DEF Next, vars
  <2>2. QED  BY <2>1 DEF KeepInv, TypeOK
<1>2. Intact  BY <1>1
<1>3. CASE UNCHANGED vars  BY <1>2, <1>3, CalmStep DEF vars
<1>4. ASSUME NEW n \in Node, Crash(n) \/ RestartInPlace(n) PROVE FALSE
  BY <1>1, <1>4 DEF Crash, RestartInPlace, Fault
<1>5. ASSUME NEW n \in Node, leader[n] # None, NEW it \in forward[leader[n]],
             Pull(n, it)
      PROVE  Intact'
  BY <1>2, <1>5, IntactPull
<1>6. QED
  BY <1>1, <1>2, <1>3, <1>4, <1>5, IntactLoop, IntactItem, IntactWire DEF Next

LEMMA IntactInit == ASSUME NetworkAssumption, Init PROVE Intact
<1>1. \A n \in Node : Waiting(n) = {OutItem(f) : f \in {g \in File : Origin[g] = n}}
  BY DEF Init, Waiting
<1>2. OneLive
  <2>1. ASSUME NEW n \in Node, NEW m \in Node, NEW x \in Waiting(n),
               NEW y \in Waiting(m), x.file = y.file
        PROVE  n = m /\ SamePath(x, y)
    BY <1>1, <2>1, OutItemPath DEF SamePath
  <2>2. \A n \in Node : \A x \in Waiting(n) : x.file \in File
    BY <1>1, OutItemPath
  <2>3. QED  BY <2>1, <2>2 DEF OneLive, Done, Init
<1>3. ClaimedAndThere  BY DEF Init, ClaimedAndThere
<1>4. QED  BY <1>2, <1>3 DEF Intact, Init

\* Until something breaks, what is being sent is still there, and of each file
\* there is one copy that may yet be sent, or none if it is done.
THEOREM IntactUntilFault == Spec => [](faults = 0 => Intact)
<1>1. Init => (faults = 0 => Intact)  BY IntactInit, NetworkAssumption
<1>2. /\ KeepInv /\ KeepInv' /\ Exclusive /\ (faults = 0 => Intact)
      /\ [Next]_vars
      => (faults = 0 => Intact)'
  BY IntactNext, NetworkAssumption
<1>3. QED  BY <1>1, <1>2, Inductive, ExclusiveAlways, PTL DEF Spec

\* Until something breaks no file ends more than once: the in-flight set and
\* the order of copying and deleting leave no other window.
THEOREM NoDuplicatesWithoutFaults == Spec => []DuplicatesNeedFaults
<1>1. (faults = 0 => Intact) => DuplicatesNeedFaults
  BY DEF Intact, DuplicatesNeedFaults
<1>2. QED  BY <1>1, IntactUntilFault, PTL

\* The whole inductive invariant: nothing is lost, nothing is sent twice at a
\* time, and nothing ends twice before something breaks.
THEOREM RelayInvariant == Spec => []IInv
<1>1. KeepInv /\ Exclusive /\ (faults = 0 => Intact) => IInv
  BY DEF Exclusive, Intact, IInv, OnceInv, DuplicatesNeedFaults
<1>2. QED  BY <1>1, Inductive, ExclusiveAlways, IntactUntilFault, PTL
=============================================================================
