----------------------------- MODULE Membership -----------------------------
(***************************************************************************)
(* Which node acts as server, and which certificates are refused.  Every   *)
(* node walks its whitelist in order and asks each entry for its status;   *)
(* the first that answers, or the node itself when its own turn comes, is  *)
(* its server (discover).  With every request and reply the two exchange   *)
(* the revoked serials they know; a connection to or from the owner of     *)
(* such a certificate is refused.  Nodes crash and start again, perhaps    *)
(* with a new certificate, requests get lost, and the operator revokes.    *)
(***************************************************************************)
EXTENDS Integers, Sequences

CONSTANTS
    Node,
    Whitelist,  \* [Node -> Seq(Node)]: the ids each knows, in order
    Blacklist,  \* [Node -> SUBSET Node]
    Hosted,     \* the nodes that have a host entry
    Listens,    \* those that are to open a port
    Eligible,   \* those with server_eligible set
    Reach,      \* SUBSET (Node \X Node): who gets through to whom
    Rekeyed,    \* bound: the nodes that get a second certificate
    Revocable,  \* bound: the serials that are revoked by the operator
    MaxEvents,  \* bound: crashes, requests that are lost, revocations
    None        \* no node

ASSUME MembershipAssumption ==
    /\ None \notin Node
    /\ Whitelist \in [Node -> Seq(Node)] /\ Blacklist \in [Node -> SUBSET Node]
    /\ \A n \in Node : \A i, j \in 1..Len(Whitelist[n]) :
          Whitelist[n][i] = Whitelist[n][j] => i = j
    /\ Hosted \subseteq Node /\ Listens \subseteq Node /\ Eligible \subseteq Node
    /\ Reach \subseteq Node \X Node /\ Rekeyed \subseteq Node
    /\ Revocable \subseteq Node \X {1, 2}
    /\ MaxEvents \in Nat

VARIABLES
    up,         \* the nodes that run
    listening,  \* those of them that have their port
    key,        \* [Node -> {1, 2}]: the certificate it was started with
    known,      \* [Node -> SUBSET Serial]: revoked serials, in memory
    saved,      \* [Node -> SUBSET Serial]: and in config.json
    leader,     \* [Node -> Node \cup {None}]: its server; itself in role
                \* "server", None while it is searching
    ask,        \* [Node -> Ask]: how far its discovery is
    events      \* how many of them have happened

vars == <<up, listening, key, known, saved, leader, ask, events>>

-----------------------------------------------------------------------------
\* A certificate: its owner and which of the owner's it is.
Serial == Node \X {1, 2}
SerialOf(n) == <<n, key[n]>>

Listed == [n \in Node |-> {Whitelist[n][i] : i \in 1..Len(Whitelist[n])}]

\* The entries a discovery goes through: those before the node's own, the node
\* itself, those after it; a node that is not listed comes last.
Entries == [n \in Node |->
    IF n \in Listed[n] THEN Whitelist[n] ELSE Append(Whitelist[n], n)]

\* "walking" the list, at entry at; the entry has been "asked" and list is the
\* request's, or it has "answered" and list is the reply's; or the connection
\* is "broken".
Ask == [pc : {"idle", "walking", "asked", "answered", "broken"},
        at : Nat, list : SUBSET Serial]

Rest == [pc |-> "idle", at |-> 0, list |-> {}]
Walking(i) == [pc |-> "walking", at |-> i, list |-> {}]
Asked(n) == Entries[n][ask[n].at]
Waiting(n) == ask[n].pc \in {"asked", "answered", "broken"}

\* Only a node that runs asks, and only others that it has listed.
Proper(n) ==
    /\ ask[n].pc # "idle" => n \in up /\ ask[n].at \in 1..Len(Entries[n]) + 1
    /\ Waiting(n) => ask[n].at \in 1..Len(Entries[n]) /\ Asked(n) # n

TypeOK ==
    /\ listening \subseteq up /\ up \subseteq Node
    /\ key \in [Node -> {1, 2}]
    /\ known \in [Node -> SUBSET Serial] /\ saved \in [Node -> SUBSET Serial]
    /\ leader \in [Node -> Node \cup {None}]
    /\ ask \in [Node -> Ask]
    /\ \A n \in Node : Proper(n)
    /\ events \in Nat

\* eligible
CanServe(n) == n \in listening /\ n \in Eligible

\* allowed
Allowed(n, p) == p = n \/ Whitelist[n] = <<>> \/ p \in Listed[n]

\* A connection from n to p: dial and handle, up to the request.
Connects(n, p) ==
    /\ n \in up /\ p \in listening /\ p # n /\ <<n, p>> \in Reach
    /\ SerialOf(p) \notin known[n] /\ SerialOf(n) \notin known[p]
    /\ n \notin Blacklist[p] /\ Allowed(p, n)

\* What reachable asks of an entry before and during its request.
Answers(n, p) == p \in Hosted /\ p \notin Blacklist[n] /\ Connects(n, p)

\* Wrong: what peers tell is kept in memory only.
LearnInMemory(new) == known' = new /\ UNCHANGED saved

\* Wrong: it is saved beside the list, which stays as it was when it was loaded.
LearnOnDisk(new) ==
    /\ saved' = [n \in Node |-> IF new[n] = known[n] THEN saved[n] ELSE new[n]]
    /\ UNCHANGED known

\* learnRevoked: if there is anything new, all that is in memory is saved, over
\* what is in the file.
Learn(new) ==
    /\ known' = new
    /\ saved' = [n \in Node |-> IF new[n] = known[n] THEN saved[n] ELSE new[n]]

-----------------------------------------------------------------------------
Init ==
    /\ up = {} /\ listening = {}
    /\ key = [n \in Node |-> 1]
    /\ known = [n \in Node |-> {}] /\ saved = [n \in Node |-> {}]
    /\ leader = [n \in Node |-> None]
    /\ ask = [n \in Node |-> Rest]
    /\ events = 0

Event == events < MaxEvents /\ events' = events + 1

(* A node starts and stops.                                                *)

\* loadNode, New and startListener; the port may be taken.
\* A certificate that was installed since it last ran (join) is loaded now.
Start(n) ==
    /\ n \notin up /\ up' = up \cup {n}
    /\ \/ listening' = listening \cup ({n} \cap Listens) /\ UNCHANGED events
       \/ n \in Listens /\ Event /\ UNCHANGED listening
    /\ \/ UNCHANGED key
       \/ n \in Rekeyed /\ key' = [key EXCEPT ![n] = 2]
    /\ known' = [known EXCEPT ![n] = saved[n]]
    /\ ask' = [ask EXCEPT ![n] = Walking(1)]
    /\ UNCHANGED <<saved, leader>>

\* Wrong: the port of a node that has stopped still counts as open.
CrashListening(n) ==
    /\ n \in up /\ Event
    /\ up' = up \ {n} /\ UNCHANGED listening
    /\ known' = [known EXCEPT ![n] = {}] /\ leader' = [leader EXCEPT ![n] = None]
    /\ ask' = [ask EXCEPT ![n] = Rest]
    /\ UNCHANGED <<key, saved>>

\* Who had asked it gets no answer, unless that is on its way already.
Crash(n) ==
    /\ n \in up /\ Event
    /\ up' = up \ {n} /\ listening' = listening \ {n}
    /\ known' = [known EXCEPT ![n] = {}] /\ leader' = [leader EXCEPT ![n] = None]
    /\ ask' = [m \in Node |->
          IF m = n THEN Rest
          ELSE IF ask[m].pc = "asked" /\ Asked(m) = n
               THEN [ask[m] EXCEPT !.pc = "broken", !.list = {}] ELSE ask[m]]
    /\ UNCHANGED <<key, saved>>

\* ca revoke and revoked add write the file; a node that runs does not look.
Revoke(n, s) ==
    /\ s \notin saved[n] /\ Event
    /\ saved' = [saved EXCEPT ![n] = @ \cup {s}]
    /\ UNCHANGED <<up, listening, key, known, leader, ask>>

(* discover, by entries of the whitelist.                                  *)

\* Wrong: only once.
BeginOnce(n) ==
    /\ n \in up /\ ask[n].pc = "idle" /\ leader[n] = None
    /\ ask' = [ask EXCEPT ![n] = Walking(1)]
    /\ UNCHANGED <<up, listening, key, known, saved, leader, events>>

\* The ticker.
Begin(n) ==
    /\ n \in up /\ ask[n].pc = "idle"
    /\ ask' = [ask EXCEPT ![n] = Walking(1)]
    /\ UNCHANGED <<up, listening, key, known, saved, leader, events>>

At(n) == ask[n].pc = "walking" /\ ask[n].at <= Len(Entries[n])

GoOn(n) == ask' = [ask EXCEPT ![n] = Walking(@.at + 1)]

SetRole(n, l) == leader' = [leader EXCEPT ![n] = l] /\ ask' = [ask EXCEPT ![n] = Rest]

\* Wrong: a node that can serve does not look at those before it again.
SelfFirst(n) ==
    /\ At(n) /\ CanServe(n) /\ SetRole(n, n)
    /\ UNCHANGED <<up, listening, key, known, saved, events>>

\* The node's own turn.
Self(n) ==
    /\ At(n) /\ Asked(n) = n
    /\ \/ CanServe(n) /\ SetRole(n, n)
       \/ ~CanServe(n) /\ GoOn(n) /\ UNCHANGED leader
    /\ UNCHANGED <<up, listening, key, known, saved, events>>

Skip(n) ==
    /\ At(n) /\ Asked(n) # n /\ ~Answers(n, Asked(n)) /\ GoOn(n)
    /\ UNCHANGED <<up, listening, key, known, saved, leader, events>>

\* The handshake succeeds and the request is sent.
Connect(n) ==
    /\ At(n) /\ Asked(n) # n /\ Answers(n, Asked(n))
    /\ ask' = [ask EXCEPT ![n].pc = "asked", ![n].list = known[n]]
    /\ UNCHANGED <<up, listening, key, known, saved, leader, events>>

\* handle learns and replies with what it knows then.
Handle(n) ==
    /\ ask[n].pc = "asked"
    /\ LET p == Asked(n)
           list == known[p] \cup ask[n].list
       IN /\ Learn([known EXCEPT ![p] = list])
          /\ ask' = [ask EXCEPT ![n].pc = "answered", ![n].list = list]
    /\ UNCHANGED <<up, listening, key, leader, events>>

\* The reply is read: that entry is the server.
Answer(n) ==
    /\ ask[n].pc = "answered"
    /\ Learn([known EXCEPT ![n] = @ \cup ask[n].list])
    /\ SetRole(n, Asked(n))
    /\ UNCHANGED <<up, listening, key, events>>

Broken(n) ==
    /\ ask[n].pc = "broken" /\ GoOn(n)
    /\ UNCHANGED <<up, listening, key, known, saved, leader, events>>

\* No reply within the time allowed, an error instead of one, or a throttled
\* request; the peer may have handled it.
Lost(n) ==
    /\ ask[n].pc \in {"asked", "answered"} /\ Event /\ GoOn(n)
    /\ UNCHANGED <<up, listening, key, known, saved, leader>>

\* Nobody: searching.
Finish(n) ==
    /\ ask[n].pc = "walking" /\ ~At(n) /\ SetRole(n, None)
    /\ UNCHANGED <<up, listening, key, known, saved, events>>

\* A file that is delivered, or files that are pulled, which may or may not happen,
\* by the loop that discovers: p learns from the request, n from a reply, unless
\* it is refused or gets none.
Contact(n, p) ==
    /\ ask[n].pc = "idle" /\ p \in Listed[n] /\ Answers(n, p)
    /\ \E who \in {{p}, {n, p}} :
          Learn([m \in Node |-> IF m \in who THEN known[n] \cup known[p] ELSE known[m]])
    /\ UNCHANGED <<up, listening, key, leader, ask, events>>

-----------------------------------------------------------------------------
Discover(n) ==
    \/ Begin(n) \/ Self(n) \/ Skip(n) \/ Connect(n) \/ Handle(n) \/ Answer(n)
    \/ Broken(n) \/ Finish(n)

Next ==
    \/ \E n \in Node : Start(n) \/ Crash(n) \/ Discover(n) \/ Lost(n)
    \/ \E n \in Node, s \in Revocable : Revoke(n, s)
    \/ \E n, p \in Node : Contact(n, p)

Spec == Init /\ [][Next]_vars

\* A node that runs looks again and again, and a connection has an end; nobody
\* has to start a node or to send mail.
FairSpec == Spec /\ \A n \in Node : WF_vars(Discover(n))

-----------------------------------------------------------------------------
(* Properties.                                                             *)

Refused(n) == IF n \in up THEN known[n] ELSE saved[n]

\* A serial that a node refuses it refuses for good, in memory and in the file,
\* whatever stops it and whatever it learns (docs/SECURITY.md, Membership).
NeverForgets == [][\A n \in Node : Refused(n) \subseteq Refused(n)' \cap saved'[n]]_vars

\* What a node has told others it refuses itself, even if it has crashed since:
\* no serial is known only to those who heard of it.
TellersRefuse ==
    \A n \in Node : /\ ask[n].pc = "asked" => ask[n].list \subseteq Refused(n)
                    /\ ask[n].pc = "answered" => ask[n].list \subseteq Refused(Asked(n))

\* The entries of n that would do as its server, by place.
Choices(n) ==
    {i \in 1..Len(Entries[n]) :
        LET p == Entries[n][i] IN IF p = n THEN CanServe(n) ELSE Answers(n, p)}

First(S) == CHOOSE i \in S : \A j \in S : i <= j

Expected(n) == IF Choices(n) = {} THEN None ELSE Entries[n][First(Choices(n))]

\* When no more happens every node follows for good the first of its list that
\* answers it, and takes over or steps back for that: whatever it saw, asked
\* or was told before (docs/DESIGN.md, Roles and election: fail over).
Settled == <>[](\A n \in up : leader[n] = Expected(n))

\* One list, on which all that can be dialled can serve and answer everybody, and
\* nobody else can serve before one of them.
Uniform ==
    LET hosted == Hosted \cap up IN
    \A n \in up :
       /\ \A m \in up : Whitelist[m] = Whitelist[n]
       /\ hosted \subseteq Listed[n] /\ hosted # {}
       /\ \A p \in hosted : CanServe(p) /\ (p = n \/ Answers(n, p))
       /\ n \in hosted \/ ~CanServe(n)
             \/ \E i, j \in 1..Len(Entries[n]) : /\ Entries[n][i] \in hosted /\ i < j
                                                 /\ Entries[n][j] = n

\* Nodes sharing the same whitelist order agree on the server (docs/DESIGN.md),
\* in the end, where nothing but the order tells the nodes apart.
Agreement == <>[](Uniform => \A n, m \in up : leader[n] = leader[m])

\* In the end all that follow one server refuse what it refuses.  Nodes that
\* follow different servers may never hear of one another's serials.
FollowersRefuseAlike ==
    <>[](\A n \in up : leader[n] \in up => known[n] = known[leader[n]])

-----------------------------------------------------------------------------
(* The invariant that is inductive.                                        *)

KnownSaved == \A n \in up : known[n] \subseteq saved[n]
AskedRuns == \A n \in Node : ask[n].pc = "asked" => Asked(n) \in up

IInv == KnownSaved /\ AskedRuns /\ TellersRefuse

-----------------------------------------------------------------------------
(* What Settled rests on.                                                  *)

\* A discovery that goes on has found nothing before the entry it is at, and the
\* one it waits for is there; one that is over has found the right server.
OnCourse(n) ==
    IF ask[n].pc = "idle" THEN leader[n] = Expected(n)
    ELSE /\ ask[n].pc # "broken"
         /\ \A i \in Choices(n) : ask[n].at <= i
         /\ Waiting(n) => ask[n].at \in Choices(n)

\* While nobody comes or goes, no request is lost and no serial is new, a discovery
\* that begins comes to the first of the list that answers, and those after it stay
\* there, whatever the other nodes do meanwhile (node.go, discover).
StaysOnCourse ==
    [][UNCHANGED <<up, listening, key, known, events>> =>
          \A n \in up : OnCourse(n) \/ Begin(n) => OnCourse(n)']_vars
=============================================================================
