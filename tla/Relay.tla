------------------------------- MODULE Relay --------------------------------
(***************************************************************************)
(* How the nodes of an AMail network pass files to one another, from the   *)
(* outbox of the origin to the inbox of the destination: the delivery      *)
(* routine of internal/node/node.go (deliverOutbox, deliverHeld, route,    *)
(* finish, handleDeliver, handlePull, pushItem, pull), the transfer        *)
(* protocol of internal/node/client.go (Deliver, Pull) and the folders of  *)
(* internal/mailbox/mailbox.go.  A node runs one delivery loop and any     *)
(* number of connection handlers.  It may crash between any two steps, or  *)
(* be restarted in place by cmd/amail/main.go; a connection may break at   *)
(* any moment and take the reply with it.                                  *)
(*                                                                         *)
(* Which node acts as server is left to chance here (Discover), so what is *)
(* shown holds however the election goes.                                  *)
(***************************************************************************)
EXTENDS Integers

CONSTANTS
    Node,           \* the nodes
    File,           \* the files, each with a name of its own
    Origin, Dest,   \* [File -> Node]: who sends it, and to whom
    Whitelist,      \* [Node -> SUBSET Node]: the ids each node knows
    Blacklist,      \* [Node -> SUBSET Node]: the ids each node blocks
    Hosted,         \* the nodes that have a host entry, so can be dialled
    Leaders,        \* [Node -> SUBSET (Node \cup {None})]: servers it may see
    MaxHops,        \* relays allowed
    Slots,          \* bound: a name has this many numbered variants at most
    MaxFaults,      \* bound: crashes, restarts and broken connections
    MayRestart,     \* whether nodes are restarted in place
    None            \* no node

ASSUME NetworkAssumption ==
    /\ None \notin Node
    /\ Origin \in [File -> Node]
    /\ Dest \in [File -> Node]
    /\ Whitelist \in [Node -> SUBSET Node]
    /\ Blacklist \in [Node -> SUBSET Node]
    /\ Hosted \subseteq Node
    /\ Leaders \in [Node -> SUBSET (Node \cup {None})]
    /\ \A n \in Node : Leaders[n] \subseteq Hosted \cup {n, None}
    /\ MaxHops \in Nat
    /\ Slots \subseteq Nat \ {0}
    /\ MaxFaults \in Nat
    /\ MayRestart \in BOOLEAN

VARIABLES
    outbox,     \* the files still in the outbox of their origin
    forward,    \* [Node -> SUBSET Item]: what each node holds for others
    inbox,      \* [File -> Nat]: copies in the inbox of its destination
    failed,     \* [File -> Nat]: copies in failed/ folders
    leader,     \* the server each node sees: itself, another node or None
    loop,       \* the delivery loop of each node and the item it works on
    wire,       \* the transfers under way
    faults      \* how many faults there have been

vars == <<outbox, forward, inbox, failed, leader, loop, wire, faults>>

-----------------------------------------------------------------------------
(* Items, transfers and the loop.                                          *)

\* A file waiting on disk, as a directory listing finds it.  Slot 0 is the
\* outbox of its origin, slot 1 is forward/<to>/<origin>/<name>, slot k > 1
\* the variant "<name> (k)".  proof: its sidecar, with the origin's hash and
\* signature and the hop count, is there (an outbox file is signed at once).
Item == {it \in [file : File, slot : {0} \cup Slots, hops : Nat,
                 from : Node \cup {None}, proof : BOOLEAN] :
            it.slot = 0 => it.proof}

\* What a forward/ folder can hold.
Held == {it \in Item : it.slot # 0}

OutItem(f) == [file |-> f, slot |-> 0, hops |-> 0, from |-> None, proof |-> TRUE]

\* A copy placed under its name, its sidecar not yet written.
Bare(f, k) == [file |-> f, slot |-> k, hops |-> 0, from |-> None, proof |-> FALSE]

\* A transfer of an item: delivered by the loop of src, pulled by the loop of
\* dst, or copied by the loop of src into a folder of its own ("local").
\* "open": the body is on its way; "placed": it is in forward/ of dst in slot
\* at, without its sidecar; "stored": dst has it and the reply is on its way.
\* While src waits for the reply it holds the claim on the item's path
\* ("claimed"), unless a restart in place has forgotten it ("forgotten"); a
\* src that no longer waits is "gone".  fault is the number of the fault that
\* changed it.
Transfer == {t \in [kind : {"deliver", "pull", "local"}, src : Node, dst : Node,
                    item : Item, stage : {"open", "placed", "stored"},
                    at : {0} \cup Slots,
                    claim : {"claimed", "forgotten", "gone"}, fault : Nat] :
                /\ t.kind = "local" => t.item.slot = 0
                /\ t.stage = "placed" => t.at # 0}

Begun(kind, s, d, it) ==
    [kind |-> kind, src |-> s, dst |-> d, item |-> it, stage |-> "open",
     at |-> 0, claim |-> "claimed", fault |-> 0]

Idle == [pc |-> "idle", item |-> None]

Busy == [pc : {"direct", "sentDirect", "next", "sentNext"}, item : Item]

TypeOK ==
    /\ outbox \subseteq File
    /\ forward \in [Node -> SUBSET Held]
    /\ inbox \in [File -> Nat]
    /\ failed \in [File -> Nat]
    /\ leader \in [Node -> Node \cup {None}]
    /\ loop \in [Node -> Busy \cup {Idle}]
    /\ wire \subseteq Transfer
    /\ faults \in Nat

Trusts(n, m) == m \in Whitelist[n] \ Blacklist[n]

\* What the loop of n can find on its disk.
Waiting(n) ==
    {OutItem(f) : f \in {g \in outbox : Origin[g] = n}} \cup forward[n]

SamePath(a, b) == a.file = b.file /\ a.slot = b.slot

\* Wrong: only the loop uses the in-flight set, the pull handlers do not.
ClaimedByLoop(n, it) == loop[n] # Idle /\ SamePath(loop[n].item, it)

\* Wrong: no in-flight set.
NeverClaimed(n, it) == FALSE

\* Whether the path of an item of n is in the in-flight set of n.
Claimed(n, it) ==
    \/ loop[n] # Idle /\ SamePath(loop[n].item, it)
    \/ \E t \in wire : /\ t.kind = "pull" /\ t.src = n
                       /\ t.claim = "claimed" /\ SamePath(t.item, it)

\* The loop of n is between two items: not delivering, and not reading from
\* a server it pulls from.
LoopFree(n) ==
    /\ loop[n] = Idle
    /\ \A t \in wire : ~(t.kind = "pull" /\ t.dst = n)

\* The origin proof of an item can be verified: it is there, and covers the
\* name the file has.
Genuine(it) == it.proof /\ it.slot <= 1

\* The announcement s makes of an item is answered with "reject" by d.
Refuses(d, s, it) ==
    \/ ~Trusts(d, s) \/ Origin[it.file] \in Blacklist[d]
    \/ Dest[it.file] # d
       /\ (it.hops >= MaxHops \/ ~Trusts(d, Dest[it.file]))
    \/ ~Genuine(it)

\* uniquePath: k is the first free variant of the name of f at n.
FirstFree(n, f, k) ==
    /\ k \in Slots
    /\ \A x \in forward[n] : ~(x.file = f /\ x.slot = k)
    /\ \A j \in Slots : j < k => \E x \in forward[n] : x.file = f /\ x.slot = j

\* The file of a path is taken out of the folder it waits in.
TakeAway(n, it) ==
    IF it.slot = 0
    THEN outbox' = outbox \ {it.file} /\ UNCHANGED forward
    ELSE /\ forward' = [forward EXCEPT ![n] = {x \in @ : ~SamePath(x, it)}]
         /\ UNCHANGED outbox

\* Whether it is still there to be taken.
Present(n, it) == \E x \in Waiting(n) : SamePath(x, it)

\* Wrong: a refused file is deleted instead of moved to failed/.
PutAsideDeletes(n, it) == TakeAway(n, it) /\ UNCHANGED failed

\* Mailbox.Fail: a missing file is not moved.
PutAside(n, it) ==
    /\ TakeAway(n, it)
    /\ failed' = IF Present(n, it) THEN [failed EXCEPT ![it.file] = @ + 1]
                                   ELSE failed

-----------------------------------------------------------------------------
Init ==
    /\ outbox = File
    /\ forward = [n \in Node |-> {}]
    /\ inbox = [f \in File |-> 0]
    /\ failed = [f \in File |-> 0]
    /\ leader = [n \in Node |-> None]
    /\ loop = [n \in Node |-> Idle]
    /\ wire = {}
    /\ faults = 0

\* The loop looks for a server.
Discover(n) ==
    /\ LoopFree(n)
    /\ \E l \in Leaders[n] : leader' = [leader EXCEPT ![n] = l]
    /\ UNCHANGED <<outbox, forward, inbox, failed, loop, wire, faults>>

\* The loop takes up an item and starts to route it.
Route(n, it) ==
    /\ LoopFree(n) /\ it \in Waiting(n) /\ ~Claimed(n, it)
    /\ Dest[it.file] # n /\ Trusts(n, Dest[it.file])
    /\ loop' = [loop EXCEPT ![n] =
                  [pc |-> IF Dest[it.file] \in Hosted THEN "direct" ELSE "next",
                   item |-> it]]
    /\ UNCHANGED <<outbox, forward, inbox, failed, leader, wire, faults>>

\* A destination it may not send to: the item is put aside at once.
RouteFatal(n, it) ==
    /\ LoopFree(n) /\ it \in Waiting(n) /\ ~Claimed(n, it)
    /\ Dest[it.file] # n /\ ~Trusts(n, Dest[it.file])
    /\ PutAside(n, it)
    /\ UNCHANGED <<inbox, leader, loop, wire, faults>>

\* A file addressed to its own origin is copied into the inbox.
DeliverToSelf(n, it) ==
    /\ LoopFree(n) /\ it \in Waiting(n) /\ ~Claimed(n, it)
    /\ Dest[it.file] = n /\ it.slot = 0
    /\ loop' = [loop EXCEPT ![n] = [pc |-> "sentNext", item |-> it]]
    /\ wire' = wire \cup {Begun("local", n, n, it)}
    /\ UNCHANGED <<outbox, forward, inbox, failed, leader, faults>>

\* The server a client may relay an item through.
RelayOK(n, it) ==
    /\ leader[n] \notin {n, None, Dest[it.file], it.from}
    /\ leader[n] \in Whitelist[n]

\* The node the loop of n is about to offer its item to, or None.
Target(n) ==
    CASE loop[n].pc = "direct" -> Dest[loop[n].item.file]
      [] loop[n].pc = "next" /\ RelayOK(n, loop[n].item) -> leader[n]
      [] OTHER -> None

\* Wrong: the loop moves on but does not forget the item.
GiveUpKeepsItem(l) ==
    [l EXCEPT !.pc = IF @ \in {"direct", "sentDirect"} THEN "next" ELSE "idle"]

\* What the loop does when the attempt at hand comes to nothing.
GiveUp(l) == IF l.pc \in {"direct", "sentDirect"} THEN [l EXCEPT !.pc = "next"]
                                                  ELSE Idle

\* The peer cannot be dialled, or has no room.
Unavailable(n) ==
    /\ Target(n) # None
    /\ loop' = [loop EXCEPT ![n] = GiveUp(@)]
    /\ UNCHANGED <<outbox, forward, inbox, failed, leader, wire, faults>>

\* The peer refuses the announcement for good.
Refused(n) ==
    /\ Target(n) # None /\ Refuses(Target(n), n, loop[n].item)
    /\ PutAside(n, loop[n].item)
    /\ loop' = [loop EXCEPT ![n] = Idle]
    /\ UNCHANGED <<inbox, leader, wire, faults>>

\* The peer accepts the announcement and the body follows.
Send(n) ==
    /\ Target(n) # None /\ ~Refuses(Target(n), n, loop[n].item)
    /\ Present(n, loop[n].item)
    /\ wire' = wire \cup {Begun("deliver", n, Target(n), loop[n].item)}
    /\ loop' = [loop EXCEPT ![n] =
                  [pc |-> IF loop[n].pc = "direct" THEN "sentDirect" ELSE "sentNext",
                   item |-> loop[n].item]]
    /\ UNCHANGED <<outbox, forward, inbox, failed, leader, faults>>

\* A server that cannot reach the destination keeps the file: it copies an
\* outbox item into its own forward/ folder.
HoldOwn(n) ==
    /\ loop[n].pc = "next" /\ leader[n] = n /\ loop[n].item.slot = 0
    /\ Present(n, loop[n].item)
    /\ wire' = wire \cup {Begun("local", n, n, loop[n].item)}
    /\ loop' = [loop EXCEPT ![n] = [pc |-> "sentNext", item |-> loop[n].item]]
    /\ UNCHANGED <<outbox, forward, inbox, failed, leader, faults>>

\* Nothing can be done with the item now: it stays for the next round.
Keep(n) ==
    /\ loop[n].pc = "next"
    /\ IF leader[n] = n THEN loop[n].item.slot # 0
                        ELSE ~RelayOK(n, loop[n].item)
    /\ loop' = [loop EXCEPT ![n] = Idle]
    /\ UNCHANGED <<outbox, forward, inbox, failed, leader, wire, faults>>

\* The loop of n asks its server s for what it holds, and the handler of s
\* sends an item.
Pull(n, it) ==
    LET s == leader[n]
    IN  /\ LoopFree(n) /\ s \notin {n, None}
        /\ s \in Whitelist[n] /\ Trusts(s, n)
        /\ it \in forward[s] /\ Dest[it.file] = n /\ ~Claimed(s, it)
        /\ wire' = wire \cup {Begun("pull", s, n, it)}
        /\ UNCHANGED <<outbox, forward, inbox, failed, leader, loop, faults>>

\* What becomes of a transfer when dst answers.
Answered(t) ==
    (wire \ {t}) \cup IF t.claim = "gone" THEN {} ELSE {[t EXCEPT !.stage = "stored"]}

\* The whole body has come to its destination, which puts it in its inbox.
Store(t) ==
    /\ t.stage = "open" /\ Genuine(t.item) /\ Dest[t.item.file] = t.dst
    /\ wire' = Answered(t)
    /\ inbox' = [inbox EXCEPT ![t.item.file] = @ + 1]
    /\ UNCHANGED <<outbox, forward, failed, leader, loop, faults>>

\* What it becomes when the file has been put under its name.
Placed(t, k) == [[t EXCEPT !.at = k] EXCEPT !.stage = "placed"]

\* Wrong: the reply is sent as soon as the file is in its place.
PlaceAnswers(t) ==
    /\ t.stage = "open" /\ Genuine(t.item) /\ Dest[t.item.file] # t.dst
    /\ \E k \in Slots :
         /\ FirstFree(t.dst, t.item.file, k)
         /\ forward' = [forward EXCEPT ![t.dst] = @ \cup {Bare(t.item.file, k)}]
    /\ wire' = Answered(t)
    /\ UNCHANGED <<outbox, inbox, failed, leader, loop, faults>>

\* The whole body has come to a relay, which places it under a free name in
\* its forward/ folder ...
Place(t) ==
    /\ t.stage = "open" /\ Genuine(t.item) /\ Dest[t.item.file] # t.dst
    /\ \E k \in Slots :
         /\ FirstFree(t.dst, t.item.file, k)
         /\ forward' = [forward EXCEPT ![t.dst] = @ \cup {Bare(t.item.file, k)}]
         /\ wire' = (wire \ {t}) \cup {Placed(t, k)}
    /\ UNCHANGED <<outbox, inbox, failed, leader, loop, faults>>

\* Wrong: a relayed file is held with the hop count it came with.
SameHops(t) == t.item.hops

\* The hop count a relay keeps.
HopsHeld(t) == IF t.kind = "local" THEN 0 ELSE t.item.hops + 1

\* What a listing finds in its place once the sidecar is written.
Copied(t) == [file |-> t.item.file, slot |-> t.at, hops |-> HopsHeld(t),
              from |-> t.src, proof |-> TRUE]

\* ... and then writes the sidecar, whatever file has the name by now.
WriteSidecar(t) ==
    /\ t.stage = "placed"
    /\ forward' = [forward EXCEPT ![t.dst] =
         {IF x.file = t.item.file /\ x.slot = t.at THEN Copied(t) ELSE x : x \in @}]
    /\ wire' = Answered(t)
    /\ UNCHANGED <<outbox, inbox, failed, leader, loop, faults>>

\* The puller refuses a held item whose proof is missing or does not fit.
PullRefused(t) ==
    /\ t.stage = "open" /\ t.kind = "pull" /\ t.claim # "gone" /\ ~Genuine(t.item)
    /\ PutAside(t.src, t.item)
    /\ wire' = wire \ {t}
    /\ UNCHANGED <<inbox, leader, loop, faults>>

\* The loop of src stops waiting for the outcome of a transfer of its own.
StopWaiting(t) ==
    loop' = IF t.kind = "pull" THEN loop ELSE [loop EXCEPT ![t.src] = GiveUp(@)]

\* The receiver cannot store the body and says "busy": src keeps the item.
NoRoom(t) ==
    /\ t.stage = "open" /\ t.claim # "gone"
    /\ wire' = wire \ {t}
    /\ StopWaiting(t)
    /\ UNCHANGED <<outbox, forward, inbox, failed, leader, faults>>

\* The reply arrives and src takes the item out of its folder.
Ack(t) ==
    /\ t.stage = "stored" /\ t.claim # "gone"
    /\ TakeAway(t.src, t.item)
    /\ wire' = wire \ {t}
    /\ loop' = IF t.kind = "pull" THEN loop ELSE [loop EXCEPT ![t.src] = Idle]
    /\ UNCHANGED <<inbox, failed, leader, faults>>

-----------------------------------------------------------------------------
(* Faults.                                                                 *)

\* A transfer whose claim is lost to the next fault.
Detached(t, claim) == [[t EXCEPT !.claim = claim] EXCEPT !.fault = faults + 1]

Fault == faults < MaxFaults /\ faults' = faults + 1

\* The sidecar cannot be written: the file is removed again.
SidecarFails(t) ==
    /\ t.stage = "placed" /\ Fault
    /\ TakeAway(t.dst, Bare(t.item.file, t.at))
    /\ wire' = wire \ {t}
    /\ IF t.claim = "gone" THEN UNCHANGED loop ELSE StopWaiting(t)
    /\ UNCHANGED <<inbox, failed, leader>>

\* Wrong: a broken connection counts as delivered.
BreakDelivers(t) ==
    /\ t.kind # "local" /\ t.claim # "gone" /\ Fault
    /\ TakeAway(t.src, t.item)
    /\ wire' = wire \ {t}
    /\ loop' = IF t.kind = "pull" THEN loop ELSE [loop EXCEPT ![t.src] = Idle]
    /\ UNCHANGED <<inbox, failed, leader>>

\* Wrong: no idle limit, so src waits on a dead connection for ever.
BreakUnnoticed(t) ==
    /\ t.kind # "local" /\ t.claim # "gone" /\ Fault
    /\ wire' = (wire \ {t}) \cup
         IF t.stage = "stored" THEN {}
         ELSE {Detached(t, "gone")}
    /\ UNCHANGED <<outbox, forward, inbox, failed, leader, loop>>

\* The connection breaks under src, which keeps the item.  The reply is
\* lost; a body that was already sent may still be stored.
Break(t) ==
    /\ t.kind # "local" /\ t.claim # "gone" /\ Fault
    /\ wire' = (wire \ {t}) \cup
         IF t.stage = "stored" THEN {}
         ELSE {Detached(t, "gone")}
    /\ StopWaiting(t)
    /\ UNCHANGED <<outbox, forward, inbox, failed, leader>>

\* The body of an abandoned transfer never comes to its end.
Discard(t) ==
    /\ t.stage = "open" /\ t.claim = "gone"
    /\ wire' = wire \ {t}
    /\ UNCHANGED <<outbox, forward, inbox, failed, leader, loop, faults>>

\* What is on the wire after n has crashed: what n was reading is lost, and
\* n waits for no reply.
AfterCrash(n) ==
    LET lost == {t \in wire : t.dst = n /\ t.stage # "stored"}
        mute == {t \in wire \ lost : t.src = n /\ t.claim # "gone"}
    IN  (wire \ (lost \cup mute)) \cup
        {Detached(t, "gone") :
            t \in {u \in mute : u.stage # "stored"}}

\* n stops and is started again: the folders are all that is left.
Crash(n) ==
    /\ Fault
    /\ wire' = AfterCrash(n)
    /\ loop' = [m \in Node |->
         IF m = n THEN Idle
         ELSE IF \E t \in wire : /\ t.kind = "deliver" /\ t.src = m
                                 /\ t.dst = n /\ t.stage # "stored"
                                 /\ t.claim # "gone"
         THEN GiveUp(loop[m]) ELSE loop[m]]
    /\ leader' = [leader EXCEPT ![n] = None]
    /\ UNCHANGED <<outbox, forward, inbox, failed>>

\* Settings were saved: cmdRun waits for the loop, not for the handlers, and
\* starts a new Node whose in-flight set is empty.
RestartInPlace(n) ==
    /\ MayRestart /\ LoopFree(n) /\ Fault
    /\ wire' = {IF t.kind = "pull" /\ t.src = n /\ t.claim = "claimed"
                THEN Detached(t, "forgotten")
                ELSE t : t \in wire}
    /\ leader' = [leader EXCEPT ![n] = None]
    /\ UNCHANGED <<outbox, forward, inbox, failed, loop>>

-----------------------------------------------------------------------------
LoopStep(n) ==
    \/ Discover(n) \/ Unavailable(n) \/ Refused(n) \/ Send(n)
    \/ HoldOwn(n) \/ Keep(n)

ItemStep(n, it) == Route(n, it) \/ RouteFatal(n, it) \/ DeliverToSelf(n, it)

WireStep(t) ==
    \/ Store(t) \/ Place(t) \/ WriteSidecar(t) \/ SidecarFails(t)
    \/ PullRefused(t) \/ NoRoom(t) \/ Ack(t) \/ Break(t) \/ Discard(t)

Next ==
    \/ \E n \in Node : \/ LoopStep(n) \/ Crash(n) \/ RestartInPlace(n)
                       \/ \E it \in Waiting(n) : ItemStep(n, it)
                       \/ leader[n] # None /\ \E it \in forward[leader[n]] : Pull(n, it)
    \/ \E t \in wire : WireStep(t)

Spec == Init /\ [][Next]_vars

-----------------------------------------------------------------------------
(* Fairness.  The loop runs on two tickers and goes through every item it  *)
(* lists, so an item that can be taken up again and again is taken up      *)
(* (strong fairness per file); a step of the loop or of a handler, once    *)
(* begun, ends (time limits and idle limits).  The environment is assumed  *)
(* to let a peer be reached, and to leave it room, now and then.  Nothing  *)
(* is assumed of faults.                                                   *)

TakeUp(f) ==
    \E n \in Node : \E it \in Waiting(n) : it.file = f /\ ItemStep(n, it)

Offer(f) ==
    \E n \in Node : /\ loop[n] # Idle /\ loop[n].item.file = f
                    /\ (Send(n) \/ Refused(n))

PullFile(f) ==
    \E n \in Node : /\ leader[n] # None
                    /\ \E it \in forward[leader[n]] : it.file = f /\ Pull(n, it)

Settle(f) ==
    \E t \in wire : /\ t.item.file = f /\ t.claim # "gone"
                    /\ (Store(t) \/ Place(t) \/ PullRefused(t))

LoopGoesOn(n) ==
    Unavailable(n) \/ Refused(n) \/ Send(n) \/ HoldOwn(n) \/ Keep(n)

Answer(n) ==
    \E t \in wire : /\ t.dst = n
                    /\ (Store(t) \/ Place(t) \/ WriteSidecar(t) \/ PullRefused(t)
                        \/ NoRoom(t) \/ Discard(t))

Conclude(n) == \E t \in wire : t.src = n /\ Ack(t)

Fairness ==
    /\ \A n \in Node : /\ SF_vars(Discover(n)) /\ WF_vars(LoopGoesOn(n))
                       /\ WF_vars(Answer(n)) /\ WF_vars(Conclude(n))
    /\ \A f \in File : /\ SF_vars(TakeUp(f)) /\ SF_vars(Offer(f))
                       /\ SF_vars(PullFile(f)) /\ SF_vars(Settle(f))

FairSpec == Spec /\ Fairness

-----------------------------------------------------------------------------
(* Properties.                                                             *)

\* A copy that nobody will move any more.
Done(f) == inbox[f] > 0 \/ failed[f] > 0

\* How far a copy has come: the outbox, then one more for every relay.  A
\* copy without its sidecar counts for nothing yet: it would be refused.
Rank(it) == IF it.slot = 0 \/ ~it.proof THEN 0 ELSE it.hops + 1

\* There is a copy of f further on than rank r.
Above(f, r) ==
    \/ Done(f)
    \/ \E n \in Node : \E x \in forward[n] : x.file = f /\ Rank(x) > r

\* No file is ever lost (node.go finish and pushItem, mailbox.go moveTo and
\* Remove): whatever crashes and breaks, it is in the outbox of its origin, in
\* the forward/ folder of some node, in the inbox of its destination or in
\* failed/.
NoLoss ==
    \A f \in File : f \in outbox \/ Above(f, 0)

\* A reply that says "stored" is true, and stays true: by the time it reaches
\* the sender the receiver may have passed the file on, but a copy further on
\* than the sender's exists, so the sender may delete its own (client.go
\* Deliver and Pull; a reply sent before the file is in place breaks this).
StoredMeansSafe ==
    \A t \in wire : t.stage = "stored" => Above(t.item.file, Rank(t.item))

\* The inductive invariant.  A copy may be deleted only because a copy
\* further on exists; the copy furthest on is in no such danger, since every
\* hop adds one to the rank.
PullsReachDest ==
    \A t \in wire : t.kind = "pull" =>
        /\ Dest[t.item.file] = t.dst /\ t.item.slot # 0 /\ t.stage # "placed"
        /\ t.stage = "stored" => inbox[t.item.file] > 0

PlacedThere ==
    \A t \in wire : t.stage = "placed" =>
        \/ Done(t.item.file)
        \/ /\ Bare(t.item.file, t.at) \in forward[t.dst]
           /\ \A u \in wire : (/\ u.stage = "placed" /\ u.dst = t.dst /\ u.at = t.at
                               /\ u.item.file = t.item.file) => u = t

LoopItemThere ==
    \A n \in Node : loop[n] # Idle =>
        \/ Done(loop[n].item.file)
        \/ loop[n].item \in Waiting(n)
        \/ ~loop[n].item.proof /\ loop[n].item.slot # 0

PathsDistinct ==
    \A n \in Node : \A x, y \in forward[n] : SamePath(x, y) => x = y

LoopWaits ==
    \A t \in wire : t.kind # "pull" /\ t.claim # "gone" =>
        /\ loop[t.src].pc \in {"sentDirect", "sentNext"}
        /\ loop[t.src].item = t.item /\ t.item.proof

OneDelivery ==
    \A t, u \in wire :
        (/\ t.kind # "pull" /\ u.kind # "pull" /\ t.src = u.src
         /\ t.claim # "gone" /\ u.claim # "gone") => t = u

KeepInv ==
    /\ TypeOK /\ NoLoss /\ StoredMeansSafe /\ PullsReachDest /\ PlacedThere
    /\ LoopItemThere /\ PathsDistinct /\ LoopWaits /\ OneDelivery

\* A file reaches the end more than once only if something broke on the way:
\* the in-flight set and the order of copy and delete leave no other window.
\* (One crash may cost two copies: one between HoldFile and MarkSent, one
\* of the pull handler that was already sending the held copy.)
DuplicatesNeedFaults ==
    \A f \in File : faults = 0 => inbox[f] + failed[f] <= 1

\* Where all nodes trust one another and agree on the order of servers, a
\* genuine file is put aside in failed/ only if something broke on the way.
RefusalNeedsFault ==
    \A f \in File : faults = 0 => failed[f] = 0

\* The poll loop and the pulls never send the same file at the same time (the
\* in-flight set, node.go claim and release).  A handler that was at work when
\* the node was restarted in place is out of it: the new set is empty.
SentOnce ==
    \A t, u \in wire :
        (/\ t.src = u.src /\ t.claim = "claimed" /\ u.claim = "claimed"
         /\ SamePath(t.item, u.item)) => t = u

\* Why SentOnce holds: a pull takes no path that the loop works on, and the loop
\* none that is being pulled, and no path is pulled twice.
LoopExclusive ==
    \A t \in wire :
        t.kind = "pull" /\ t.claim = "claimed" /\ loop[t.src] # Idle =>
            ~SamePath(loop[t.src].item, t.item)

PullsExclusive ==
    \A t, u \in wire :
        (/\ t.kind = "pull" /\ u.kind = "pull" /\ t.src = u.src
         /\ t.claim = "claimed" /\ u.claim = "claimed" /\ SamePath(t.item, u.item))
        => t = u

\* Why DuplicatesNeedFaults holds: until something breaks, every transfer has
\* its claim, what it sends and what a loop works on are still there, and of
\* each file there is one copy that may still be sent or put aside, or none if
\* the file is done.  A copy that was copied on and is to be deleted is none.
ClaimedAndThere ==
    /\ \A t \in wire : t.claim = "claimed" /\ Present(t.src, t.item)
    /\ \A n \in Node : loop[n] # Idle => Present(n, loop[n].item)

Live(n, it) ==
    /\ it \in Waiting(n)
    /\ \A t \in wire : t.src = n /\ SamePath(t.item, it) => t.stage = "open"

OneLive ==
    /\ \A n, m \in Node : \A x \in Waiting(n), y \in Waiting(m) :
          Live(n, x) /\ Live(m, y) /\ x.file = y.file => n = m /\ SamePath(x, y)
    /\ \A n \in Node : \A x \in Waiting(n) : Live(n, x) => ~Done(x.file)

OnceInv ==
    /\ LoopExclusive /\ PullsExclusive
    /\ faults = 0 => ClaimedAndThere /\ OneLive /\ DuplicatesNeedFaults

IInv == KeepInv /\ OnceInv

\* What has become of each file, as its sender and receiver see it.
Fate == [f \in File |->
    IF inbox[f] > 0 THEN "arrived"
    ELSE IF failed[f] > 0 THEN "refused"
    ELSE IF f \in outbox \/ \E n \in Node : \E x \in forward[n] : x.file = f
    THEN "travelling" ELSE "lost"]

Promise == INSTANCE Mail WITH status <- Fate

\* The network implements what AMail promises of each file (Mail): it is on
\* its way, arrives or is refused, and is never simply gone.
KeepsPromise == Promise!Spec

\* Every file comes to rest in the end, arrived or put aside with a note
\* (README.md, How a file travels: without a route it waits; docs/DESIGN.md,
\* "mixed reachability resolves itself").
Settles == Promise!Settled
=============================================================================
