------------------------------ MODULE Inbound -------------------------------
(***************************************************************************)
(* What a node takes in: connections, under the limits of its limiter      *)
(* (limits.go), and files, as far as the mailbox has room for them         *)
(* (roomFor).  A connection is admitted, shakes hands, makes its request   *)
(* and, if it brings a file, announces, sends and leaves it; the pull of   *)
(* the node's own loop stores files beside them.  The count of the mailbox *)
(* passes over files with names like a.tmp or .a, which are taken in like  *)
(* any other.  A restart in place gives the node other settings, a new     *)
(* limiter and a new count, while handlers of the old one go on with       *)
(* theirs.                                                                 *)
(***************************************************************************)
EXTENDS Integers, FiniteSets

CONSTANTS
    Conn,       \* handlers of connections, of all generations together
    Pull,       \* the one that pulls
    Address,    \* where connections come from
    MaxConns,   \* [1..MaxGen -> Nat]: the max_connections each generation has,
    MaxStrikes, \* its max_per_ip_per_min,
    Cap,        \* and its max_mailbox_mb
    MostConns,  \* the largest max_connections there is,
    MostCap,    \* and the largest max_mailbox_mb
    LeastPerIP, \* 4 in the code
    MaxFile,    \* the largest max_file_mb of the network: pull does not ask its own
    Sizes,      \* the sizes of the files that are sent
    MaxHidden,  \* bound: no more hidden files come once so much is there
    MaxGen,     \* bound: how many generations there are
    None

ASSUME InboundAssumption ==
    /\ Pull \notin Conn /\ IsFiniteSet(Conn) /\ None \notin Address
    /\ MaxGen \in Nat \ {0} /\ MostConns \in Nat \ {0} /\ MostCap \in Nat
    /\ LeastPerIP \in Nat \ {0} /\ MaxHidden \in Nat
    /\ MaxFile \in Nat \ {0} /\ Sizes \subseteq 1..MaxFile

ASSUME SettingsAssumption ==
    \A g \in 1..MaxGen : /\ MaxConns[g] \in 1..MostConns /\ MaxStrikes[g] \in Nat \ {0}
                         /\ Cap[g] \in 0..MostCap

VARIABLES
    gen,        \* the generation of the node that runs
    handler,    \* [Handler -> Task]
    active,     \* its limiter: open connections,
    activeIP,   \* [Address -> Int]: those from one address
    strikes,    \* [Address -> Nat]: failed handshakes in its current minute
    usage,      \* [1..MaxGen -> Nat \cup {-1}]: what each counted, -1 if nothing yet
    shown,      \* what the network has put into the mailbox and is still there,
    hidden      \* and the same of files that no scan finds

limiter == <<active, activeIP, strikes>>
stored == <<shown, hidden>>
vars == <<gen, handler, limiter, usage, stored>>

-----------------------------------------------------------------------------
Handler == Conn \cup {Pull}

\* "shaking" hands; "serving" a request; a file is "accepted", then "placed" under
\* its name, then counted; "ending" and not released yet.  A "hidden" file
\* has one of the names that IsTemp is for, or is in a folder whose name begins with
\* a dot.
Task == [stage : {"free", "shaking", "serving", "accepted", "placed", "ending"},
         ip : Address \cup {None}, gen : 1..MaxGen, size : 0..MaxFile, kind : {"shown", "hidden"}]

Free == [stage |-> "free", ip |-> None, gen |-> 1, size |-> 0, kind |-> "shown"]

TypeOK ==
    /\ gen \in 1..MaxGen
    /\ handler \in [Handler -> Task] /\ \A c \in Handler : handler[c].gen <= gen
    /\ \A c \in Conn : handler[c].stage # "free" => handler[c].ip \in Address
    /\ active \in Nat /\ activeIP \in [Address -> Nat] /\ strikes \in [Address -> Nat]
    /\ usage \in [1..MaxGen -> Nat \cup {-1}] /\ shown \in Nat /\ hidden \in Nat
    /\ \A c \in Handler : handler[c].stage \in {"accepted", "placed"} =>
                             usage[handler[c].gen] # -1

\* newLimiter
PerIP == IF MaxConns[gen] \div 4 < LeastPerIP THEN LeastPerIP ELSE MaxConns[gen] \div 4

\* The connections the running node has open, and those from one address.
Current == {c \in Conn : handler[c].stage # "free" /\ handler[c].gen = gen}
From(a) == {c \in Current : handler[c].ip = a}
Shaking(a) == {c \in From(a) : handler[c].stage = "shaking"}

At(stage) == {c \in Handler : handler[c].stage = stage}
Shown(stage) == {c \in At(stage) : handler[c].kind = "shown"}
Hidden(stage) == At(stage) \ Shown(stage)

\* How much the files of several handlers take, counted unit by unit.
SizeIn(h, S) == Cardinality({b \in S \X (1..MaxFile) : b[2] <= h[b[1]].size})
Size(S) == SizeIn(handler, S)

Become(c, stage) == handler' = [handler EXCEPT ![c].stage = stage]

-----------------------------------------------------------------------------
Init ==
    /\ gen = 1 /\ handler = [c \in Handler |-> Free]
    /\ active = 0 /\ activeIP = [a \in Address |-> 0] /\ strikes = [a \in Address |-> 0]
    /\ usage = [g \in 1..MaxGen |-> -1] /\ shown = 0 /\ hidden = 0

(* Connections.                                                            *)

Open(c, a) ==
    /\ handler[c].stage = "free"
    /\ handler' = [handler EXCEPT ![c] =
          [stage |-> "shaking", ip |-> a, gen |-> gen, size |-> 0, kind |-> "shown"]]
    /\ active' = active + 1 /\ activeIP' = [activeIP EXCEPT ![a] = @ + 1]
    /\ UNCHANGED <<gen, strikes, usage, stored>>

\* Wrong: any number, from different addresses.
AdmitAll(c, a) ==
    /\ strikes[a] < MaxStrikes[gen] /\ activeIP[a] < PerIP
    /\ Open(c, a)

\* Wrong: strikes are counted and not looked at.
AdmitStruck(c, a) ==
    /\ activeIP[a] < PerIP /\ active < MaxConns[gen]
    /\ Open(c, a)

\* accept and admit; otherwise the connection is closed at once.
Admit(c, a) ==
    /\ strikes[a] < MaxStrikes[gen] /\ activeIP[a] < PerIP /\ active < MaxConns[gen]
    /\ Open(c, a)

\* A restart cancels the handshakes, not what comes after them.
Handshake(c) ==
    /\ handler[c].stage = "shaking" /\ handler[c].gen = gen /\ Become(c, "serving")
    /\ UNCHANGED <<gen, limiter, usage, stored>>

\* No certificate of the network, or none in 10 s: the address has a strike, with
\* the limiter the connection was admitted by.
Strike(c) ==
    /\ handler[c].stage = "shaking" /\ Become(c, "ending")
    /\ strikes' = IF handler[c].gen = gen
                  THEN [strikes EXCEPT ![handler[c].ip] = @ + 1] ELSE strikes
    /\ UNCHANGED <<gen, active, activeIP, usage, stored>>

\* Any other end: an address or a peer that is blocked or not listed, a peer over
\* its allowance, a request of another kind, a file that is refused, a body that
\* does not come within the idle time or does not fit its hash.
TurnAway(c) ==
    /\ handler[c].stage \in {"shaking", "serving", "accepted"} /\ Become(c, "ending")
    /\ UNCHANGED <<gen, limiter, usage, stored>>

\* Wrong: the limiter of the node that runs, whoever admitted the connection.
ReleaseAny(c) ==
    /\ handler[c].stage = "ending"
    /\ handler' = [handler EXCEPT ![c] = Free]
    /\ active' = active - 1 /\ activeIP' = [activeIP EXCEPT ![handler[c].ip] = @ - 1]
    /\ UNCHANGED <<gen, strikes, usage, stored>>

\* The deferred release, once, of the limiter that admitted it.
Release(c) ==
    /\ handler[c].stage = "ending"
    /\ handler' = [handler EXCEPT ![c] = Free]
    /\ IF handler[c].gen = gen
       THEN active' = active - 1 /\ activeIP' = [activeIP EXCEPT ![handler[c].ip] = @ - 1]
       ELSE UNCHANGED <<active, activeIP>>
    /\ UNCHANGED <<gen, strikes, usage, stored>>

\* The minute is over.
Expire(a) ==
    /\ strikes[a] > 0 /\ strikes' = [strikes EXCEPT ![a] = 0]
    /\ UNCHANGED <<gen, handler, active, activeIP, usage, stored>>

(* Files.                                                                  *)

\* Usage: what was counted less than 30 s ago, or a new scan.  walkFiles passes over
\* the hidden files; of those that are placed and not yet counted, it may miss some:
\* they appear in a folder it has been through.
Seen(g) ==
    ({usage[g]} \ {-1}) \cup {shown - Size(missed) : missed \in SUBSET Shown("placed")}

\* A file of size s, hidden or not, is accepted by generation g.
Accepted(c, s, g, kind) ==
    [handler[c] EXCEPT !.stage = "accepted", !.gen = g, !.size = s, !.kind = kind]

\* Wrong: whether there is room is asked without the file.
RoomBefore(c, s, g, refused) ==
    \E u \in Seen(g), kind \in {"shown", "hidden"} :
       /\ kind = "hidden" => hidden < MaxHidden
       /\ usage' = [usage EXCEPT ![g] = u]
       /\ handler' = [handler EXCEPT ![c] =
             IF u <= Cap[g] THEN Accepted(c, s, g, kind) ELSE refused]
       /\ UNCHANGED <<gen, limiter, stored>>

\* roomFor; without room the answer is "busy".
Room(c, s, g, refused) ==
    \E u \in Seen(g), kind \in {"shown", "hidden"} :
       /\ kind = "hidden" => hidden < MaxHidden
       /\ usage' = [usage EXCEPT ![g] = u]
       /\ handler' = [handler EXCEPT ![c] =
             IF u + s <= Cap[g] THEN Accepted(c, s, g, kind) ELSE refused]
       /\ UNCHANGED <<gen, limiter, stored>>

\* handleDeliver up to "send body".
Announce(c, s) ==
    /\ c \in Conn /\ handler[c].stage = "serving"
    /\ Room(c, s, handler[c].gen, [handler[c] EXCEPT !.stage = "ending"])

\* pull: an item comes from the server.
Offer(s) == handler[Pull] = Free /\ Room(Pull, s, gen, Free)

\* So much more is in the mailbox, in files like the one c has.
Stores(c, size) ==
    IF handler[c].kind = "hidden" THEN hidden' = hidden + size /\ UNCHANGED shown
                       ELSE shown' = shown + size /\ UNCHANGED hidden

\* writeUnique: the whole body has come and has its name.
Place(c) ==
    /\ handler[c].stage = "accepted" /\ Become(c, "placed")
    /\ Stores(c, handler[c].size)
    /\ UNCHANGED <<gen, limiter, usage>>

After(c) ==
    IF c = Pull THEN Free
    ELSE [handler[c] EXCEPT !.stage = "ending", !.size = 0, !.kind = "shown"]

\* Wrong: what has been placed is only counted by the next scan.
CountLater(c) ==
    /\ handler[c].stage = "placed"
    /\ handler' = [handler EXCEPT ![c] = After(c)]
    /\ UNCHANGED <<gen, limiter, usage, stored>>

\* addUsage, of the Mailbox the handler has.
Count(c) ==
    /\ handler[c].stage = "placed"
    /\ handler' = [handler EXCEPT ![c] = After(c)]
    /\ usage' = [usage EXCEPT ![handler[c].gen] = @ + handler[c].size]
    /\ UNCHANGED <<gen, limiter, stored>>

\* Hold cannot write the sidecar and removes the file.
Unplace(c) ==
    /\ c \in Conn /\ handler[c].stage = "placed"
    /\ handler' = [handler EXCEPT ![c] = After(c)]
    /\ Stores(c, -handler[c].size)
    /\ UNCHANGED <<gen, limiter, usage>>

\* The connection to the server breaks, or the item is not what was announced.
PullFails ==
    /\ handler[Pull].stage = "accepted"
    /\ handler' = [handler EXCEPT ![Pull] = Free]
    /\ UNCHANGED <<gen, limiter, usage, stored>>

\* A file leaves the mailbox: relayed, read and deleted, answered.
Leave(s) ==
    /\ \/ shown - s >= Size(Shown("placed")) /\ shown' = shown - s /\ UNCHANGED hidden
       \/ hidden - s >= Size(Hidden("placed"))
             /\ hidden' = hidden - s /\ UNCHANGED shown
    /\ UNCHANGED <<gen, handler, limiter, usage>>

\* cmdRun: the loop has ended, the handlers need not have; the settings are others.
RestartInPlace ==
    /\ gen < MaxGen /\ handler[Pull] = Free
    /\ gen' = gen + 1
    /\ active' = 0 /\ activeIP' = [a \in Address |-> 0] /\ strikes' = [a \in Address |-> 0]
    /\ UNCHANGED <<handler, usage, stored>>

-----------------------------------------------------------------------------
Connection(c) ==
    \/ \E a \in Address : Admit(c, a)
    \/ Handshake(c) \/ Strike(c) \/ TurnAway(c) \/ Release(c)

File(c) == \/ \E s \in Sizes : Announce(c, s)
           \/ Place(c) \/ Count(c) \/ Unplace(c)

Next ==
    \/ \E c \in Conn : Connection(c)
    \/ \E c \in Handler : File(c)
    \/ \E a \in Address : Expire(a)
    \/ \E s \in Sizes : Offer(s) \/ Leave(s)
    \/ PullFails \/ RestartInPlace

Spec == Init /\ [][Next]_vars

-----------------------------------------------------------------------------
(* Properties.                                                             *)

\* Whatever ends a connection, and whenever, the limiter counts those that are
\* open: none is leaked, none given back twice, and none of another generation
\* is taken from the count of this one (limits.go, release).
Counted ==
    /\ active = Cardinality(Current)
    /\ \A a \in Address : activeIP[a] = Cardinality(From(a))

\* A node has at most so many connections open, and so many from one address
\* (docs/DESIGN.md, Limits).
CapsHold ==
    /\ Cardinality(Current) <= MaxConns[gen]
    /\ \A a \in Address : Cardinality(From(a)) <= PerIP

\* An address that presents no certificate has no more handshakes fail in a
\* minute than the limit and what it had under way when it reached it.
StrikesBounded ==
    \A a \in Address :
       strikes[a] + Cardinality(Shaking(a)) < MaxStrikes[gen] + PerIP

\* How far what a scan finds can grow past the cap: the room is checked before the
\* body comes, so every connection may bring one file more, in every generation.
RoomBound == shown <= MostCap + MaxFile * (MostConns * gen)

\* c has just been allowed to bring a file, and there is no other under way.
AcceptsAlone(c) ==
    /\ handler'[c].stage = "accepted" /\ handler[c].stage # "accepted" /\ gen = 1
    /\ At("accepted") \cup At("placed") = {}

\* Of files that come one after the other, what a scan finds never passes the cap:
\* each is counted before the next is accepted, whatever was cached (Usage).
OneByOneFits ==
    [][\A c \in Handler :
          AcceptsAlone(c) => shown + handler'[c].size <= Cap[1]]_vars

-----------------------------------------------------------------------------
(* The invariant that is inductive.                                        *)

\* Handlers that nodes before this one have left behind.
Left(stages) ==
    {c \in Conn : handler[c].gen < gen /\ handler[c].stage \in stages}

Own(stage) == {c \in Shown(stage) : handler[c].gen = gen}

PlacedStored == Size(Shown("placed")) <= shown
PlacedHidden == Size(Hidden("placed")) <= hidden

NotYetCounted == \A g \in 1..MaxGen : g > gen => usage[g] = -1

PullsForNow == handler[Pull].stage # "free" => handler[Pull].gen = gen

FewLeft == Cardinality(Left({"shaking", "serving", "accepted", "placed", "ending"}))
              <= MostConns * (gen - 1)

\* What a scan finds and is not counted is about to be, or others have left it.
Uncounted ==
    usage[gen] # -1 =>
       shown + MaxFile * Cardinality(Left({"serving", "accepted"}))
          <= usage[gen] + Size(Own("placed")) + MaxFile * (MostConns * (gen - 1))

\* Whatever comes in and can be seen has been allowed for.
AllowedFor ==
    shown + Size(Shown("accepted")) + MaxFile * Cardinality(Left({"serving"}))
       <= MostCap + MaxFile * (MostConns * gen)

IInv ==
    /\ Counted /\ CapsHold /\ StrikesBounded /\ PlacedStored /\ PlacedHidden
    /\ NotYetCounted /\ PullsForNow /\ FewLeft /\ Uncounted /\ AllowedFor
=============================================================================
