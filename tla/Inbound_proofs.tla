--------------------------- MODULE Inbound_proofs ---------------------------
(***************************************************************************)
(* For any limits, any number of connections and any number of restarts in *)
(* place: the limiter counts what is open and keeps it under its caps, and *)
(* what a scan finds in the mailbox outgrows its cap by no more than a     *)
(* file for every connection that each generation of the node may have     *)
(* open, and not at all while files come one after the other.  No such     *)
(* bound holds of the files that walkFiles passes over.                    *)
(***************************************************************************)
EXTENDS Inbound, TLAPS, FiniteSetTheorems

-----------------------------------------------------------------------------
(* Counting.                                                               *)

\* Two sets that differ in one element at most.
LEMMA CountChange ==
    ASSUME NEW S, NEW T, NEW c, IsFiniteSet(S), S \ {c} = T \ {c}
    PROVE  /\ IsFiniteSet(T) /\ Cardinality(S) \in Nat /\ Cardinality(T) \in Nat
           /\ Cardinality(T) = Cardinality(S) - (IF c \in S THEN 1 ELSE 0)
                                              + (IF c \in T THEN 1 ELSE 0)
<1> DEFINE R == S \ {c}
<1>1. IsFiniteSet(R) /\ Cardinality(R) = IF c \in S THEN Cardinality(S) - 1 ELSE Cardinality(S)
  BY FS_RemoveElement
<1>2. c \notin R
  OBVIOUS
<1>3. /\ IsFiniteSet(R \cup {c}) /\ Cardinality(R \cup {c}) = Cardinality(R) + 1
  BY <1>1, <1>2, FS_AddElement
<1>4. T = R \cup {c} \/ T = R
  OBVIOUS
<1>5. c \in T <=> T = R \cup {c}
  BY <1>2, <1>4
<1>6. IsFiniteSet(T)
  BY <1>1, <1>3, <1>4
<1>7. Cardinality(S) \in Nat /\ Cardinality(T) \in Nat /\ Cardinality(R) \in Nat
  BY <1>1, <1>6, FS_CardinalityType
<1>8. Cardinality(S) = Cardinality(R) + (IF c \in S THEN 1 ELSE 0)
  BY <1>1, <1>7
<1>9. Cardinality(T) = Cardinality(R) + (IF c \in T THEN 1 ELSE 0)
  <2>1. CASE c \in T
    BY <1>3, <1>5, <2>1
  <2>2. CASE c \notin T
    <3>1. T = R
      BY <1>4, <1>5, <2>2
    <3> HIDE DEF R
    <3> QED BY <1>7, <2>2, <3>1
  <2> QED BY <2>1, <2>2
<1> HIDE DEF R
<1> QED BY <1>6, <1>7, <1>8, <1>9

LEMMA HandlersFinite ==
    IsFiniteSet(Handler) /\ \A S \in SUBSET Handler :
        IsFiniteSet(S) /\ Cardinality(S) \in Nat
<1>1. IsFiniteSet(Handler)
  BY InboundAssumption, FS_AddElement DEF Handler
<1> QED BY <1>1, FS_Subset, FS_CardinalityType

LEMMA Product ==
    ASSUME NEW m \in Nat, NEW n \in Nat
    PROVE  /\ m * n \in Nat /\ m * (n + 1) = m * n + m
           /\ n > 0 => m * (n - 1) = m * n - m
OBVIOUS

LEMMA ProductMonotonic ==
    ASSUME NEW m \in Nat, NEW n \in Nat, NEW k \in Nat, n <= k
    PROVE  m * n <= m * k
<1>1. PICK d \in Nat : k = n + d
  <2>1. k - n \in Nat /\ k = n + (k - n)
    OBVIOUS
  <2> QED BY <2>1
<1>2. m * k = m * n + m * d /\ m * d \in Nat /\ m * n \in Nat
  BY <1>1
<1> QED BY <1>2

-----------------------------------------------------------------------------
(* Sizes.                                                                  *)

Units(h, S) == {b \in S \X (1..MaxFile) : b[2] <= h[b[1]].size}

LEMMA SizeIsCount ==
    ASSUME NEW h, NEW S \in SUBSET Handler
    PROVE  /\ SizeIn(h, S) = Cardinality(Units(h, S)) /\ IsFiniteSet(Units(h, S))
           /\ SizeIn(h, S) \in Nat
           /\ SizeIn(h, S) <= MaxFile * Cardinality(S)
<1>1. SizeIn(h, S) = Cardinality(Units(h, S))
  BY DEF SizeIn, Units
<1>2. IsFiniteSet(S) /\ Cardinality(S) \in Nat
  BY HandlersFinite
<1>3. IsFiniteSet(1..MaxFile) /\ Cardinality(1..MaxFile) = MaxFile /\ MaxFile \in Nat
  BY FS_Interval, InboundAssumption
<1>4. /\ IsFiniteSet(S \X (1..MaxFile))
      /\ Cardinality(S \X (1..MaxFile)) = Cardinality(S) * MaxFile
  BY <1>2, <1>3, FS_Product
<1>5. Units(h, S) \in SUBSET (S \X (1..MaxFile))
  BY DEF Units
<1>6. /\ IsFiniteSet(Units(h, S))
      /\ Cardinality(Units(h, S)) <= Cardinality(S) * MaxFile
  BY <1>4, <1>5, FS_Subset
<1>7. Cardinality(Units(h, S)) \in Nat
  BY <1>6, FS_CardinalityType
<1>8. Cardinality(S) * MaxFile = MaxFile * Cardinality(S)
  BY <1>2, <1>3
<1> QED BY <1>1, <1>6, <1>7, <1>8

LEMMA SizeMonotonic ==
    ASSUME NEW h, NEW T \in SUBSET Handler, NEW S \in SUBSET T
    PROVE  SizeIn(h, S) <= SizeIn(h, T)
<1>1. Units(h, S) \in SUBSET Units(h, T)
  BY DEF Units
<1> QED BY <1>1, SizeIsCount, FS_Subset

LEMMA SizeOfUnion ==
    ASSUME NEW h, NEW S \in SUBSET Handler, NEW T \in SUBSET Handler, S \cap T = {}
    PROVE  SizeIn(h, S \cup T) = SizeIn(h, S) + SizeIn(h, T)
<1>1. Units(h, S \cup T) = Units(h, S) \cup Units(h, T)
  BY DEF Units
<1>2. Units(h, S) \cap Units(h, T) = {}
  BY DEF Units
<1>3. Cardinality({}) = 0
  BY FS_EmptySet
<1>4. /\ IsFiniteSet(Units(h, S)) /\ IsFiniteSet(Units(h, T))
      /\ Cardinality(Units(h, S)) \in Nat /\ Cardinality(Units(h, T)) \in Nat
  BY SizeIsCount
<1> DEFINE x == Cardinality(Units(h, S))
           y == Cardinality(Units(h, T))
           z == Cardinality(Units(h, S) \cap Units(h, T))
<1>5. Cardinality(Units(h, S) \cup Units(h, T)) = x + y - z
  BY <1>4, FS_Union
<1>6. z = 0 /\ x \in Nat /\ y \in Nat
  BY <1>2, <1>3, <1>4
<1>7. Cardinality(Units(h, S \cup T)) = x + y - z
  BY <1>1, <1>5
<1>8. SizeIn(h, S \cup T) = x + y - z /\ SizeIn(h, S) = x /\ SizeIn(h, T) = y
  BY <1>7, SizeIsCount
<1> HIDE DEF x, y, z
<1> QED BY <1>6, <1>8

LEMMA SizeOfOne ==
    ASSUME NEW h \in [Handler -> Task], NEW c \in Handler
    PROVE  SizeIn(h, {c}) = h[c].size
<1>1. h[c].size \in 0..MaxFile /\ h[c].size \in Nat /\ MaxFile \in Nat
  BY InboundAssumption DEF Task
<1> DEFINE n == h[c].size
           f == [i \in 1..n |-> <<c, i>>]
<1>2. Units(h, {c}) = {<<c, i>> : i \in 1..n}
  BY <1>1 DEF Units
<1>3. f \in Bijection(1..n, Units(h, {c}))
  <2>1. f \in [1..n -> Units(h, {c})]
    BY <1>2
  <2>2. \A i, j \in 1..n : f[i] = f[j] => i = j
    OBVIOUS
  <2>3. \A u \in Units(h, {c}) : \E i \in 1..n : f[i] = u
    BY <1>2
  <2> QED BY <2>1, <2>2, <2>3, Zenon DEF Bijection, Injection, Surjection, IsInjective
<1>4. ExistsBijection(1..n, Units(h, {c}))
  BY <1>3 DEF ExistsBijection
<1>5. IsFiniteSet(1..n) /\ Cardinality(1..n) = n
  <2>1. n \in Nat
    BY <1>1
  <2> HIDE DEF n
  <2> QED BY <2>1, FS_Interval
<1>6. Cardinality(Units(h, {c})) = n
  BY <1>4, <1>5, FS_Bijection
<1> QED BY <1>6, SizeIsCount

LEMMA SizeUnchanged ==
    ASSUME NEW h, NEW k, NEW S \in SUBSET Handler,
           \A c \in S : h[c].size = k[c].size
    PROVE  SizeIn(h, S) = SizeIn(k, S)
<1>1. Units(h, S) = Units(k, S)
  BY DEF Units
<1> QED BY <1>1, SizeIsCount

\* What one handler adds to a sum of sizes, or takes from it.
LEMMA SizeChange ==
    ASSUME NEW h \in [Handler -> Task], NEW k \in [Handler -> Task], NEW c \in Handler,
           \A d \in Handler \ {c} : k[d] = h[d],
           NEW S \in SUBSET Handler, NEW T \in SUBSET Handler, S \ {c} = T \ {c}
    PROVE  /\ SizeIn(h, S) \in Nat /\ SizeIn(k, T) \in Nat
           /\ SizeIn(k, T) = SizeIn(h, S) - (IF c \in S THEN h[c].size ELSE 0)
                                          + (IF c \in T THEN k[c].size ELSE 0)
<1> DEFINE R == S \ {c}
<1>1. R \in SUBSET Handler /\ {c} \in SUBSET Handler /\ R \cap {c} = {}
  OBVIOUS
<1>2. SizeIn(h, R) = SizeIn(k, R)
  BY <1>1, SizeUnchanged
<1>3. /\ SizeIn(h, R \cup {c}) = SizeIn(h, R) + h[c].size
      /\ SizeIn(k, R \cup {c}) = SizeIn(k, R) + k[c].size
  <2>1. /\ SizeIn(h, R \cup {c}) = SizeIn(h, R) + SizeIn(h, {c})
        /\ SizeIn(k, R \cup {c}) = SizeIn(k, R) + SizeIn(k, {c})
    <3> HIDE DEF R
    <3> QED BY <1>1, SizeOfUnion
  <2>2. SizeIn(h, {c}) = h[c].size /\ SizeIn(k, {c}) = k[c].size
    BY SizeOfOne
  <2> QED BY <2>1, <2>2
<1>4. S = IF c \in S THEN R \cup {c} ELSE R
  OBVIOUS
<1>5. T = IF c \in T THEN R \cup {c} ELSE R
  OBVIOUS
<1>6. h[c].size \in Nat /\ k[c].size \in Nat
  BY InboundAssumption DEF Task
<1>7. SizeIn(h, R) \in Nat /\ SizeIn(h, S) \in Nat /\ SizeIn(k, T) \in Nat
  BY <1>1, SizeIsCount
<1> HIDE DEF R
<1>8. SizeIn(h, S) = SizeIn(h, R) + (IF c \in S THEN h[c].size ELSE 0)
  <2>1. CASE c \in S
    BY <1>3, <1>4, <2>1
  <2>2. CASE c \notin S
    BY <1>4, <1>7, <2>2
  <2> QED BY <2>1, <2>2
<1>9. SizeIn(k, T) = SizeIn(h, R) + (IF c \in T THEN k[c].size ELSE 0)
  BY <1>2, <1>3, <1>5, <1>7
<1> QED BY <1>6, <1>7, <1>8, <1>9
-----------------------------------------------------------------------------
(* What the actions do to a handler.                                       *)

\* Handler c becomes r, and no other changes.
Turns(c, r) ==
    /\ c \in Handler /\ gen' = gen /\ r \in Task
    /\ handler' = [handler EXCEPT ![c] = r]

LEMMA Constants ==
    /\ Free \in Task /\ MaxFile \in Nat /\ MostConns \in Nat /\ MostConns > 0
    /\ MostCap \in Nat
    /\ Sizes \subseteq 1..MaxFile /\ Sizes \subseteq Nat
    /\ \A t \in Task : t.size \in Nat /\ t.gen \in Nat
    /\ Conn \subseteq Handler /\ Pull \in Handler /\ Pull \notin Conn
    /\ MaxGen \in Nat /\ 1 \in 1..MaxGen
    /\ \A g \in 1..MaxGen : /\ MaxConns[g] \in Nat /\ MaxConns[g] <= MostConns
                            /\ MaxStrikes[g] \in Nat \ {0}
                            /\ Cap[g] \in Nat /\ Cap[g] <= MostCap
<1>1. Free \in Task
  BY InboundAssumption DEF Free, Task
<1>2. ASSUME NEW g \in 1..MaxGen
      PROVE  /\ MaxConns[g] \in 1..MostConns /\ MaxStrikes[g] \in Nat \ {0}
             /\ Cap[g] \in 0..MostCap
  BY SettingsAssumption
<1> QED BY <1>1, <1>2, InboundAssumption DEF Task, Handler

\* The settings of the node that runs.
LEMMA Settings ==
    ASSUME gen \in 1..MaxGen
    PROVE  /\ MaxConns[gen] \in Nat /\ MaxStrikes[gen] \in Nat \ {0} /\ PerIP \in Nat
           /\ MaxConns[gen] <= MostConns
<1>1. MaxConns[gen] \div 4 \in Nat
  BY Constants
<1> QED BY <1>1, Constants, InboundAssumption DEF PerIP

LEMMA NextSettings ==
    ASSUME gen' \in 1..MaxGen
    PROVE  MaxConns[gen'] \in Nat /\ MaxStrikes[gen'] \in Nat \ {0} /\ PerIP' \in Nat
<1>1. MaxConns[gen'] \in Nat /\ MaxConns[gen'] \div 4 \in Nat
  BY Constants
<1> QED BY <1>1, Constants, InboundAssumption DEF PerIP

LEMMA EndOf ==
    ASSUME NEW t \in Task
    PROVE  LET r == [t EXCEPT !.stage = "ending", !.size = 0, !.kind = "shown"] IN
           /\ r \in Task /\ r.gen = t.gen /\ r.ip = t.ip /\ r.stage = "ending"
           /\ r.size = 0 /\ r.kind = "shown"
<1> DEFINE p == [t EXCEPT !.stage = "ending"]
           q == [p EXCEPT !.size = 0]
           r == [q EXCEPT !.kind = "shown"]
<1>1. p \in Task /\ p.gen = t.gen /\ p.ip = t.ip /\ p.stage = "ending"
  BY DEF Task
<1>2. 0 \in 0..MaxFile
  BY Constants
<1>3. q \in Task /\ q.gen = p.gen /\ q.ip = p.ip /\ q.stage = p.stage /\ q.size = 0
  <2> HIDE DEF p
  <2> QED BY <1>1, <1>2 DEF Task
<1>4. /\ r \in Task /\ r.gen = q.gen /\ r.ip = q.ip /\ r.stage = q.stage /\ r.size = q.size
      /\ r.kind = "shown"
  <2> HIDE DEF q
  <2> QED BY <1>3 DEF Task
<1>5. r = [t EXCEPT !.stage = "ending", !.size = 0, !.kind = "shown"]
  OBVIOUS
<1> QED BY <1>1, <1>3, <1>4, <1>5

LEMMA Stages ==
    ASSUME TypeOK, NEW c \in Handler, NEW st \in {"shaking", "serving", "accepted", "placed", "ending"},
           handler' = [handler EXCEPT ![c].stage = st], gen' = gen
    PROVE  Turns(c, [handler[c] EXCEPT !.stage = st])
BY DEF Turns, TypeOK, Task

\* The outcome of Room.
LEMMA Rooms ==
    ASSUME TypeOK, NEW c \in Handler, NEW s \in Sizes, NEW g \in 1..MaxGen,
           NEW refused \in Task, Room(c, s, g, refused)
    PROVE  \E u \in Seen(g), kind \in {"shown", "hidden"} :
              /\ usage' = [usage EXCEPT ![g] = u]
              /\ \/ u + s <= Cap[g] /\ Turns(c, Accepted(c, s, g, kind))
                 \/ Turns(c, refused)
              /\ UNCHANGED <<gen, limiter, stored>>
<1>1. PICK u \in Seen(g), kind \in {"shown", "hidden"} :
       /\ usage' = [usage EXCEPT ![g] = u]
       /\ handler' = [handler EXCEPT ![c] =
             IF u + s <= Cap[g] THEN Accepted(c, s, g, kind) ELSE refused]
       /\ UNCHANGED <<gen, limiter, stored>>
  BY DEF Room
<1>2. Accepted(c, s, g, kind) \in Task
  <2>1. handler[c] \in Task /\ s \in 0..MaxFile
    BY Constants DEF TypeOK
  <2> QED BY <2>1 DEF Task, Accepted
<1> QED BY <1>1, <1>2 DEF Turns

\* What handler c becomes when its file is accepted.
LEMMA AcceptedIs ==
    ASSUME TypeOK, NEW c \in Handler, NEW s \in Sizes, NEW g \in 1..MaxGen, NEW kind \in {"shown", "hidden"}
    PROVE  LET r == Accepted(c, s, g, kind) IN
           /\ r \in Task /\ r.stage = "accepted" /\ r.gen = g /\ r.size = s /\ r.kind = kind
           /\ r.ip = handler[c].ip
<1>1. handler[c] \in Task /\ s \in 0..MaxFile
  BY Constants DEF TypeOK
<1> QED BY <1>1 DEF Task, Accepted

LEMMA SeenIsNat ==
    ASSUME TypeOK, PlacedStored, NEW g \in 1..MaxGen
    PROVE  Seen(g) \subseteq Nat
<1>1. usage[g] \in Nat \cup {-1} /\ shown \in Nat
  BY DEF TypeOK
<1>2. Shown("placed") \in SUBSET Handler
  BY DEF Shown, At
<1>3. ASSUME NEW missed \in SUBSET Shown("placed") PROVE shown - Size(missed) \in Nat
  <2>1. Size(missed) \in Nat /\ Size(missed) <= Size(Shown("placed"))
    BY <1>2, SizeIsCount, SizeMonotonic DEF Size
  <2>2. Size(Shown("placed")) \in Nat
    BY <1>2, SizeIsCount DEF Size
  <2> QED BY <1>1, <2>1, <2>2 DEF PlacedStored
<1> QED BY <1>1, <1>3 DEF Seen

-----------------------------------------------------------------------------
(* Types.                                                                  *)

HandlersOK ==
    /\ handler \in [Handler -> Task] /\ \A c \in Handler : handler[c].gen <= gen
    /\ \A c \in Conn : handler[c].stage # "free" => handler[c].ip \in Address
    /\ \A c \in Handler : handler[c].stage \in {"accepted", "placed"} =>
                             usage[handler[c].gen] # -1

NumbersOK ==
    /\ gen \in 1..MaxGen
    /\ active \in Nat /\ activeIP \in [Address -> Nat] /\ strikes \in [Address -> Nat]
    /\ usage \in [1..MaxGen -> Nat \cup {-1}] /\ shown \in Nat /\ hidden \in Nat

LEMMA TypeParts ==
    (TypeOK <=> HandlersOK /\ NumbersOK) /\ (TypeOK' <=> HandlersOK' /\ NumbersOK')
BY DEF TypeOK, HandlersOK, NumbersOK

LEMMA TurnsOK ==
    ASSUME TypeOK, NEW c, NEW r, Turns(c, r), r.gen <= gen,
           c \in Conn /\ r.stage # "free" => r.ip \in Address,
           \A g \in 1..MaxGen : usage[g] # -1 => usage'[g] # -1,
           r.stage \in {"accepted", "placed"} => usage'[r.gen] # -1
    PROVE  HandlersOK'
<1>1. handler' \in [Handler -> Task] /\ \A d \in Handler : handler'[d] = IF d = c THEN r ELSE handler[d]
  BY DEF TypeOK, Turns
<1>2. \A d \in Handler : handler'[d].gen <= gen'
  BY <1>1 DEF TypeOK, Turns
<1>3. \A d \in Conn : handler'[d].stage # "free" => handler'[d].ip \in Address
  BY <1>1, Constants DEF TypeOK
<1>4. ASSUME NEW d \in Handler, handler'[d].stage \in {"accepted", "placed"}
      PROVE  usage'[handler'[d].gen] # -1
  <2>1. CASE d = c
    BY <1>1, <1>4, <2>1
  <2>2. CASE d # c
    <3>1. handler[d].gen \in 1..MaxGen
      BY DEF TypeOK, Task
    <3> QED BY <1>1, <1>4, <2>2, <3>1 DEF TypeOK
  <2> QED BY <2>1, <2>2
<1> QED BY <1>1, <1>2, <1>3, <1>4 DEF HandlersOK
LEMMA InitType == Init => TypeOK
BY Constants DEF Init, TypeOK, Handler, Free

\* Connections.
LEMMA ConnectionType ==
    ASSUME TypeOK, Counted, NEW c \in Conn, Connection(c)
    PROVE  TypeOK'
<1> USE Constants
<1>1. HandlersOK /\ NumbersOK
  BY TypeParts
<1>2. ASSUME NEW a \in Address, Admit(c, a) PROVE TypeOK'
  <2> DEFINE r == [stage |-> "shaking", ip |-> a, gen |-> gen, size |-> 0, kind |-> "shown"]
  <2>1. Turns(c, r) /\ r.gen <= gen /\ r.ip \in Address /\ r.stage = "shaking"
    BY <1>2 DEF Admit, Open, Turns, Task, TypeOK
  <2>2. HandlersOK'
    <3> HIDE DEF r
    <3> QED BY <2>1, <1>2, TurnsOK DEF Admit, Open
  <2>3. NumbersOK'
    BY <1>1, <1>2 DEF NumbersOK, stored, Admit, Open
  <2> QED BY <2>2, <2>3, TypeParts
<1>3. ASSUME NEW st \in {"serving", "ending"}, handler[c].stage # "free",
             handler' = [handler EXCEPT ![c].stage = st], gen' = gen, usage' = usage
      PROVE  HandlersOK'
  <2> DEFINE r == [handler[c] EXCEPT !.stage = st]
  <2>1. Turns(c, r)
    BY <1>3, Stages
  <2>2. r.gen <= gen /\ r.ip \in Address /\ r.stage = st
    BY <1>3 DEF TypeOK, Task
  <2> HIDE DEF r
  <2> QED BY <1>3, <2>1, <2>2, TurnsOK
<1>4. CASE Handshake(c)
  <2>1. HandlersOK'
    BY <1>3, <1>4 DEF Handshake, Become
  <2>2. NumbersOK'
    BY <1>1, <1>4 DEF NumbersOK, stored, Handshake, limiter
  <2> QED BY <2>1, <2>2, TypeParts
<1>5. CASE Strike(c)
  <2>1. HandlersOK'
    BY <1>3, <1>5 DEF Strike, Become
  <2>2. handler[c].ip \in Address
    BY <1>5 DEF Strike, TypeOK
  <2>3. strikes' \in [Address -> Nat]
    BY <1>1, <1>5, <2>2 DEF NumbersOK, stored, Strike
  <2>4. NumbersOK'
    BY <1>1, <1>5, <2>3 DEF NumbersOK, stored, Strike
  <2> QED BY <2>1, <2>4, TypeParts
<1>6. CASE TurnAway(c)
  <2>1. HandlersOK'
    BY <1>3, <1>6 DEF TurnAway, Become
  <2>2. NumbersOK'
    BY <1>1, <1>6 DEF NumbersOK, stored, TurnAway, limiter
  <2> QED BY <2>1, <2>2, TypeParts
<1>7. CASE Release(c)
  <2>1. Turns(c, Free)
    BY <1>7 DEF Release, Turns
  <2>2. Free.gen <= gen /\ Free.stage = "free" /\ usage' = usage
    BY <1>1, <1>7 DEF Release, Free, NumbersOK
  <2>4. HandlersOK'
    BY <2>1, <2>2, TurnsOK
  <2>3. NumbersOK'
    <3>1. CASE handler[c].gen = gen
      <4>1. c \in Current /\ c \in From(handler[c].ip) /\ handler[c].ip \in Address
        BY <1>7, <3>1 DEF Release, Current, From, TypeOK
      <4>2. ASSUME NEW S \in SUBSET Handler, c \in S PROVE Cardinality(S) \in Nat \ {0}
        <5>1. IsFiniteSet(S) /\ Cardinality(S) \in Nat
          BY HandlersFinite
        <5> QED BY <4>2, <5>1, FS_EmptySet
      <4>3. Current \in SUBSET Handler /\ From(handler[c].ip) \in SUBSET Handler
        BY DEF Current, From
      <4>4. active \in Nat \ {0} /\ activeIP[handler[c].ip] \in Nat \ {0}
        BY <4>1, <4>2, <4>3 DEF Counted
      <4>5. active - 1 \in Nat /\ activeIP[handler[c].ip] - 1 \in Nat
        BY <4>4
      <4> QED BY <1>1, <1>7, <3>1, <4>1, <4>5 DEF NumbersOK, stored, Release
    <3>2. CASE handler[c].gen # gen
      BY <1>1, <1>7, <3>2 DEF NumbersOK, stored, Release
    <3> QED BY <3>1, <3>2
  <2> QED BY <2>4, <2>3, TypeParts
<1> QED BY <1>2, <1>4, <1>5, <1>6, <1>7 DEF Connection

\* Where Room is asked.
LEMMA RoomType ==
    ASSUME TypeOK, PlacedStored, PlacedHidden, NEW c \in Handler, NEW s \in Sizes, NEW g \in 1..gen,
           NEW refused \in Task, Room(c, s, g, refused),
           refused.gen <= gen, refused.stage \notin {"accepted", "placed"},
           c \in Conn /\ refused.stage # "free" => refused.ip \in Address,
           c \in Conn => handler[c].stage # "free"
    PROVE  TypeOK'
<1> USE Constants
<1>1. HandlersOK /\ NumbersOK /\ g \in 1..MaxGen
  BY TypeParts DEF NumbersOK
<1>2. PICK u \in Seen(g), kind \in {"shown", "hidden"} :
         /\ usage' = [usage EXCEPT ![g] = u]
         /\ Turns(c, Accepted(c, s, g, kind)) \/ Turns(c, refused)
         /\ UNCHANGED <<gen, limiter, stored>>
  BY <1>1, Rooms
<1>3. u \in Nat
  BY <1>1, SeenIsNat
<1>4. usage' \in [1..MaxGen -> Nat \cup {-1}] /\ usage'[g] # -1
      /\ \A k \in 1..MaxGen : usage[k] # -1 => usage'[k] # -1
  BY <1>1, <1>2, <1>3 DEF NumbersOK
<1>5. NumbersOK'
  BY <1>1, <1>2, <1>4 DEF NumbersOK, limiter, stored
<1> DEFINE r == Accepted(c, s, g, kind)
<1>6. CASE Turns(c, r)
  <2>1. r.gen = g /\ r.gen <= gen /\ (c \in Conn => r.ip \in Address)
    BY <1>1, AcceptedIs DEF TypeOK
  <2> HIDE DEF r
  <2> QED BY <1>4, <1>5, <1>6, <2>1, TurnsOK, TypeParts
<1>7. CASE Turns(c, refused)
  BY <1>4, <1>5, <1>7, TurnsOK, TypeParts
<1> QED BY <1>2, <1>6, <1>7

LEMMA FileType ==
    ASSUME TypeOK, PlacedStored, PlacedHidden, NEW c \in Handler, File(c)
    PROVE  TypeOK'
<1> USE Constants
<1>1. HandlersOK /\ NumbersOK /\ handler[c] \in Task /\ handler[c].gen \in 1..MaxGen
      /\ handler[c].gen \in 1..gen
  BY TypeParts DEF HandlersOK, NumbersOK, Task
<1>2. ASSUME NEW s \in Sizes, Announce(c, s) PROVE TypeOK'
  <2> DEFINE r == [handler[c] EXCEPT !.stage = "ending"]
  <2>1. r \in Task /\ r.gen <= gen /\ r.stage = "ending"
    BY <1>1 DEF Task
  <2>2. c \in Conn => handler[c].stage # "free" /\ r.ip \in Address
    BY <1>1, <1>2 DEF Announce, HandlersOK, Task
  <2>3. Room(c, s, handler[c].gen, r)
    BY <1>2 DEF Announce
  <2> HIDE DEF r
  <2> QED BY <1>1, <2>1, <2>2, <2>3, RoomType
<1>3. ASSUME c \in Conn => handler[c].stage = "placed",
             handler' = [handler EXCEPT ![c] = After(c)], gen' = gen,
             \A g \in 1..MaxGen : usage[g] # -1 => usage'[g] # -1
      PROVE  HandlersOK'
  <2>1. CASE c = Pull
    <3>1. After(c) = Free /\ Turns(c, Free) /\ c \notin Conn
      BY <1>3, <2>1 DEF Turns, After
    <3>2. Free.gen <= gen /\ Free.stage = "free"
      BY <1>1 DEF Free, NumbersOK
    <3> QED BY <1>3, <3>1, <3>2, TurnsOK
  <2>2. CASE c # Pull
    <3> DEFINE r == [handler[c] EXCEPT !.stage = "ending", !.size = 0, !.kind = "shown"]
    <3>1. r \in Task /\ r.gen <= gen /\ r.stage = "ending" /\ r.ip = handler[c].ip
      <4>1. handler[c].gen <= gen
        BY <1>1 DEF HandlersOK
      <4> QED BY <1>1, <4>1, EndOf
    <3>2. After(c) = r /\ c \in Conn /\ r.ip \in Address
      BY <1>1, <1>3, <2>2, <3>1 DEF After, Handler, HandlersOK
    <3>3. Turns(c, r)
      BY <1>3, <3>1, <3>2 DEF Turns
    <3> HIDE DEF r
    <3> QED BY <1>3, <3>1, <3>2, <3>3, TurnsOK
  <2> QED BY <2>1, <2>2
<1>4. CASE Place(c)
  <2> DEFINE r == [handler[c] EXCEPT !.stage = "placed"]
  <2>1. Turns(c, r)
    BY <1>4, Stages DEF Place, Become
  <2>2. /\ r.gen <= gen /\ r.stage = "placed" /\ usage'[r.gen] # -1
        /\ c \in Conn => r.ip \in Address
    BY <1>1, <1>4 DEF Place, HandlersOK, Task
  <2>3. HandlersOK'
    <3> HIDE DEF r
    <3> QED BY <1>4, <2>1, <2>2, TurnsOK DEF Place
  <2>4. NumbersOK'
    BY <1>1, <1>4 DEF NumbersOK, Place, Stores, limiter
  <2> QED BY <2>3, <2>4, TypeParts
<1>5. CASE Count(c)
  <2>1. usage[handler[c].gen] \in Nat /\ handler[c].size \in Nat
    BY <1>1, <1>5 DEF Count, HandlersOK, NumbersOK
  <2>2. /\ usage' \in [1..MaxGen -> Nat \cup {-1}]
        /\ \A g \in 1..MaxGen : usage[g] # -1 => usage'[g] # -1
    BY <1>1, <1>5, <2>1 DEF Count, NumbersOK
  <2>3. HandlersOK'
    BY <1>3, <1>5, <2>2 DEF Count
  <2>4. NumbersOK'
    BY <1>1, <1>5, <2>2 DEF NumbersOK, stored, Count, limiter
  <2> QED BY <2>3, <2>4, TypeParts
<1>6. CASE Unplace(c)
  <2>1. HandlersOK'
    BY <1>3, <1>6 DEF Unplace
  <2>2. IF handler[c].kind = "hidden" THEN hidden - handler[c].size \in Nat
                           ELSE shown - handler[c].size \in Nat
    <3>1. c \in IF handler[c].kind = "hidden" THEN Hidden("placed") ELSE Shown("placed")
      BY <1>1, <1>6 DEF Unplace, At, Shown, Hidden, Task
    <3>2. Size({c}) = handler[c].size
      BY <1>1, SizeOfOne DEF Size, HandlersOK
    <3>3. ASSUME NEW S \in SUBSET Handler, c \in S
          PROVE  handler[c].size <= Size(S) /\ Size(S) \in Nat
      <4>1. {c} \in SUBSET S
        BY <3>3
      <4> QED BY <3>2, <4>1, SizeMonotonic, SizeIsCount DEF Size
    <3>4. Hidden("placed") \in SUBSET Handler /\ Shown("placed") \in SUBSET Handler
      BY DEF Hidden, Shown, At
    <3>5. handler[c].size \in Nat /\ shown \in Nat /\ hidden \in Nat
      BY <1>1 DEF NumbersOK
    <3>6. CASE handler[c].kind = "hidden"
      BY <3>1, <3>3, <3>4, <3>5, <3>6 DEF PlacedHidden
    <3>7. CASE handler[c].kind # "hidden"
      BY <3>1, <3>3, <3>4, <3>5, <3>7 DEF PlacedStored
    <3> QED BY <3>6, <3>7
  <2>3. NumbersOK'
    BY <1>1, <1>6, <2>2 DEF NumbersOK, Unplace, Stores, limiter
  <2> QED BY <2>1, <2>3, TypeParts
<1> QED BY <1>2, <1>4, <1>5, <1>6 DEF File

LEMMA StepType ==
    ASSUME TypeOK, Counted, PlacedStored, PlacedHidden, [Next]_vars
    PROVE  TypeOK'
<1> USE Constants
<1>1. HandlersOK /\ NumbersOK
  BY TypeParts
<1>2. CASE UNCHANGED vars
  BY <1>2 DEF vars, limiter, stored, TypeOK
<1>3. ASSUME NEW a \in Address, Expire(a) PROVE TypeOK'
  BY <1>3 DEF Expire, stored, TypeOK
<1>4. ASSUME NEW s \in Sizes, Offer(s) PROVE TypeOK'
  <2>1. gen \in 1..gen /\ Free.gen <= gen /\ Free.stage = "free"
    BY <1>1 DEF NumbersOK, stored, Free
  <2>2. Room(Pull, s, gen, Free)
    BY <1>4 DEF Offer
  <2> QED BY <2>1, <2>2, RoomType
<1>5. ASSUME NEW s \in Sizes, Leave(s) PROVE TypeOK'
  <2>1. Size(Shown("placed")) \in Nat /\ Size(Hidden("placed")) \in Nat
    <3>1. Hidden("placed") \in SUBSET Handler /\ Shown("placed") \in SUBSET Handler
      BY DEF Hidden, Shown, At
    <3> QED BY <3>1, SizeIsCount DEF Size
  <2>2. shown' \in Nat /\ hidden' \in Nat
    BY <1>1, <1>5, <2>1 DEF Leave, NumbersOK
  <2> QED BY <1>5, <2>2 DEF Leave, TypeOK, limiter
<1>6. CASE PullFails
  <2>1. Turns(Pull, Free)
    BY <1>6 DEF PullFails, Turns
  <2>2. HandlersOK'
    <3>1. Free.gen <= gen /\ Free.stage = "free" /\ usage' = usage
      BY <1>1, <1>6 DEF PullFails, Free, NumbersOK
    <3> QED BY <2>1, <3>1, TurnsOK
  <2>3. NumbersOK'
    BY <1>1, <1>6 DEF NumbersOK, stored, PullFails, limiter
  <2> QED BY <2>2, <2>3, TypeParts
<1>7. CASE RestartInPlace
  <2>1. gen' \in 1..MaxGen /\ \A c \in Handler : handler[c].gen <= gen'
    BY <1>1, <1>7 DEF RestartInPlace, HandlersOK, NumbersOK, Task
  <2>2. HandlersOK'
    BY <1>1, <1>7, <2>1 DEF RestartInPlace, HandlersOK
  <2>3. NumbersOK'
    BY <1>1, <1>7, <2>1 DEF RestartInPlace, NumbersOK, stored
  <2> QED BY <2>2, <2>3, TypeParts
<1> QED BY <1>2, <1>3, <1>4, <1>5, <1>6, <1>7, ConnectionType, FileType DEF Next

-----------------------------------------------------------------------------
(* The limiter.                                                            *)

Limits == Counted /\ CapsHold /\ StrikesBounded

\* Connections that stay open, none of them shaking hands anew.
LEMMA SameConnections ==
    ASSUME TypeOK, TypeOK', Limits, UNCHANGED <<gen, limiter>>,
           \A c \in Conn : /\ handler'[c].stage = "free" <=> handler[c].stage = "free"
                           /\ handler[c].stage # "free" => /\ handler'[c].ip = handler[c].ip
                                                           /\ handler'[c].gen = handler[c].gen
                           /\ handler'[c].stage = "shaking" => handler[c].stage = "shaking"
    PROVE  Limits'
<1> USE Settings
<1>0. gen \in 1..MaxGen /\ gen' = gen /\ PerIP' = PerIP
  BY DEF TypeOK, PerIP
<1>1. Current' = Current /\ \A a \in Address : From(a)' = From(a)
  BY DEF Current, From
<1>2. \A a \in Address : Shaking(a)' \subseteq Shaking(a)
  BY <1>1 DEF Shaking, From, Current
<1>3. ASSUME NEW a \in Address
      PROVE  strikes'[a] + Cardinality(Shaking(a)') < MaxStrikes[gen] + PerIP
  <2>1. Shaking(a) \in SUBSET Handler /\ Shaking(a)' \in SUBSET Shaking(a)
    BY <1>2, Constants DEF Shaking, From, Current
  <2>2. /\ Cardinality(Shaking(a)') <= Cardinality(Shaking(a))
        /\ Cardinality(Shaking(a)') \in Nat /\ Cardinality(Shaking(a)) \in Nat
    BY <2>1, HandlersFinite, FS_Subset, FS_CardinalityType
  <2>3. strikes'[a] = strikes[a] /\ strikes[a] \in Nat
    BY DEF limiter, TypeOK
  <2>4. strikes[a] + Cardinality(Shaking(a)) < MaxStrikes[gen] + PerIP
    BY DEF Limits, StrikesBounded
  <2> QED BY <1>0, <2>2, <2>3, <2>4
<1>4. StrikesBounded'
  BY <1>0, <1>3 DEF StrikesBounded
<1>5. Counted' /\ CapsHold'
  BY <1>0, <1>1 DEF Limits, Counted, CapsHold, limiter
<1> QED BY <1>4, <1>5 DEF Limits

LEMMA ConnectionLimits ==
    ASSUME TypeOK, TypeOK', Limits, NEW c \in Conn, Connection(c)
    PROVE  Limits'
<1> USE Constants
<1>0. /\ gen \in Nat /\ MaxConns[gen] \in Nat /\ MaxStrikes[gen] \in Nat /\ PerIP \in Nat
      /\ gen' = gen => PerIP' = PerIP
  BY Settings DEF TypeOK, PerIP
<1> DEFINE own == handler[c].ip
<1>1. handler \in [Handler -> Task] /\ c \in Handler
  BY DEF TypeOK
<1>2. /\ active = Cardinality(Current) /\ active <= MaxConns[gen]
      /\ Current \in SUBSET Handler /\ IsFiniteSet(Current) /\ active \in Nat
  BY HandlersFinite DEF Limits, Counted, CapsHold, Current, TypeOK
<1>3. \A a \in Address : /\ activeIP[a] = Cardinality(From(a)) /\ activeIP[a] <= PerIP
                         /\ From(a) \in SUBSET Handler /\ IsFiniteSet(From(a)) /\ activeIP[a] \in Nat
  BY HandlersFinite DEF Limits, Counted, CapsHold, From, Current, TypeOK
<1>4. \A a \in Address : /\ strikes[a] \in Nat /\ strikes[a] + Cardinality(Shaking(a)) < MaxStrikes[gen] + PerIP
                         /\ Shaking(a) \in SUBSET From(a) /\ IsFiniteSet(Shaking(a))
                         /\ Cardinality(Shaking(a)) \in Nat
  BY <1>3, FS_Subset, FS_CardinalityType DEF Limits, StrikesBounded, Shaking, TypeOK
<1>5. ASSUME NEW a \in Address, Admit(c, a) PROVE Limits'
  <2>1. handler' = [handler EXCEPT ![c] = [stage |-> "shaking", ip |-> a, gen |-> gen, size |-> 0, kind |-> "shown"]]
        /\ gen' = gen /\ handler[c].stage = "free" /\ strikes' = strikes
    BY <1>5 DEF Admit, Open
  <2>2. /\ Current' = Current \cup {c} /\ c \notin Current
        /\ From(a)' = From(a) \cup {c} /\ c \notin From(a)
        /\ \A b \in Address \ {a} : From(b)' = From(b) /\ Shaking(b)' = Shaking(b)
    <3> DEFINE r == [stage |-> "shaking", ip |-> a, gen |-> gen, size |-> 0, kind |-> "shown"]
    <3>1. /\ handler' = [handler EXCEPT ![c] = r]
          /\ r.stage = "shaking" /\ r.ip = a /\ r.gen = gen
      BY <2>1
    <3> HIDE DEF r
    <3>2. /\ handler'[c] = r /\ \A d \in Conn \ {c} : handler'[d] = handler[d]
      BY <1>1, <3>1, Constants
    <3>3. Current' = Current \cup {c} /\ c \notin Current
      BY <2>1, <3>1, <3>2 DEF Current
    <3>4. \A b \in Address : From(b)' = From(b) \cup (IF b = a THEN {c} ELSE {}) /\ c \notin From(b)
      BY <3>1, <3>2, <3>3 DEF From, Current
    <3>5. \A b \in Address \ {a} : Shaking(b)' = Shaking(b)
      BY <3>2, <3>4 DEF Shaking, From, Current
    <3> QED BY <3>3, <3>4, <3>5
  <2>3. /\ Cardinality(Current') = active + 1 /\ Cardinality(From(a)') = activeIP[a] + 1
    <3>1. Cardinality(Current \cup {c}) = active + 1
      BY <1>2, <2>2, FS_AddElement
    <3>2. Cardinality(From(a) \cup {c}) = activeIP[a] + 1
      BY <1>3, <2>2, FS_AddElement
    <3> QED BY <2>2, <3>1, <3>2
  <2>4. /\ active' = active + 1 /\ activeIP' = [activeIP EXCEPT ![a] = @ + 1]
        /\ strikes[a] < MaxStrikes[gen] /\ activeIP[a] < PerIP /\ active < MaxConns[gen]
    BY <1>5 DEF Admit, Open
  <2>5. active' = Cardinality(Current') /\ Cardinality(Current') <= MaxConns[gen]
    BY <1>0, <1>2, <2>3, <2>4
  <2>6. ASSUME NEW b \in Address
        PROVE  activeIP'[b] = Cardinality(From(b)') /\ Cardinality(From(b)') <= PerIP
    <3>1. activeIP \in [Address -> Nat]
      BY DEF TypeOK
    <3>2. CASE b = a
      BY <1>0, <1>3, <2>3, <2>4, <3>1, <3>2
    <3>3. CASE b # a
      BY <1>3, <2>2, <2>4, <3>1, <3>3
    <3> QED BY <3>2, <3>3
  <2>7. ASSUME NEW b \in Address
        PROVE  strikes'[b] + Cardinality(Shaking(b)') < MaxStrikes[gen] + PerIP
    <3>1. CASE b = a
      <4>1. Shaking(a)' \in SUBSET (From(a)') /\ IsFiniteSet(From(a)')
        BY <1>3, <2>2, FS_AddElement DEF Shaking
      <4>2. Cardinality(Shaking(a)') <= Cardinality(From(a)') /\ Cardinality(Shaking(a)') \in Nat
            /\ Cardinality(From(a)') \in Nat
        BY <4>1, FS_Subset, FS_CardinalityType
      <4>3. Cardinality(From(a)') <= PerIP /\ strikes[a] < MaxStrikes[gen] /\ strikes[a] \in Nat
        BY <1>4, <2>4, <2>6
      <4> QED BY <1>0, <2>1, <3>1, <4>2, <4>3
    <3>2. CASE b # a
      BY <1>4, <2>1, <2>2, <3>2
    <3> QED BY <3>1, <3>2
  <2> QED BY <1>0, <2>1, <2>5, <2>6, <2>7 DEF Limits, Counted, CapsHold, StrikesBounded
<1>6. CASE Handshake(c)
  BY <1>1, <1>6, SameConnections DEF Handshake, Become, Task, limiter
<1>7. CASE TurnAway(c)
  BY <1>1, <1>7, SameConnections DEF TurnAway, Become, Task, limiter
<1>8. CASE Strike(c)
  <2>1. handler' = [handler EXCEPT ![c].stage = "ending"] /\ gen' = gen /\ handler[c].stage = "shaking"
        /\ active' = active /\ activeIP' = activeIP /\ own \in Address
    BY <1>1, <1>8 DEF Strike, Become, TypeOK
  <2>2. Current' = Current /\ \A a \in Address : From(a)' = From(a)
    BY <1>1, <2>1 DEF Current, From, Task
  <2>3. \A a \in Address : Shaking(a)' = Shaking(a) \ {c}
    BY <1>1, <2>1 DEF Current, From, Shaking, Task
  <2>4. \A a \in Address : c \in Shaking(a) <=> a = own /\ handler[c].gen = gen
    BY <2>1 DEF Current, From, Shaking
  <2>5. strikes' = IF handler[c].gen = gen THEN [strikes EXCEPT ![own] = @ + 1] ELSE strikes
    BY <1>8 DEF Strike
  <2>6. ASSUME NEW a \in Address
        PROVE  strikes'[a] + Cardinality(Shaking(a)') < MaxStrikes[gen] + PerIP
    <3>1. Cardinality(Shaking(a)') = IF c \in Shaking(a) THEN Cardinality(Shaking(a)) - 1
                                     ELSE Cardinality(Shaking(a))
      BY <1>4, <2>3, FS_RemoveElement
    <3>2. strikes'[a] = IF c \in Shaking(a) THEN strikes[a] + 1 ELSE strikes[a]
      BY <2>1, <2>4, <2>5 DEF TypeOK
    <3> QED BY <1>4, <3>1, <3>2
  <2>7. StrikesBounded'
    BY <1>0, <2>1, <2>6 DEF StrikesBounded
  <2> QED BY <1>0, <2>1, <2>2, <2>7 DEF Limits, Counted, CapsHold
<1>9. CASE Release(c)
  <2>1. handler' = [handler EXCEPT ![c] = Free] /\ gen' = gen /\ handler[c].stage = "ending"
        /\ strikes' = strikes /\ own \in Address
    BY <1>1, <1>9 DEF Release, TypeOK
  <2>2. Current' = Current \ {c} /\ \A a \in Address : From(a)' = From(a) \ {c}
    BY <1>1, <2>1 DEF Current, From, Free
  <2>3. \A a \in Address : Shaking(a)' = Shaking(a)
    BY <1>1, <2>1 DEF Current, From, Shaking, Free
  <2>4. /\ c \in Current <=> handler[c].gen = gen
        /\ \A a \in Address : c \in From(a) <=> a = own /\ handler[c].gen = gen
    BY <2>1 DEF Current, From
  <2>5. IF handler[c].gen = gen
        THEN active' = active - 1 /\ activeIP' = [activeIP EXCEPT ![own] = @ - 1]
        ELSE active' = active /\ activeIP' = activeIP
    BY <1>9 DEF Release
  <2>6. active' = Cardinality(Current') /\ Cardinality(Current') <= MaxConns[gen]
    <3>1. Cardinality(Current') = IF c \in Current THEN active - 1 ELSE active
      BY <1>2, <2>2, FS_RemoveElement
    <3> QED BY <1>0, <1>2, <2>4, <2>5, <3>1
  <2>7. ASSUME NEW a \in Address
        PROVE  activeIP'[a] = Cardinality(From(a)') /\ Cardinality(From(a)') <= PerIP
    <3>1. Cardinality(From(a)') = IF c \in From(a) THEN activeIP[a] - 1 ELSE activeIP[a]
      BY <1>3, <2>2, FS_RemoveElement
    <3>2. activeIP'[a] = IF c \in From(a) THEN activeIP[a] - 1 ELSE activeIP[a]
      BY <2>1, <2>4, <2>5 DEF TypeOK
    <3> QED BY <1>0, <1>3, <3>1, <3>2
  <2>8. StrikesBounded'
    BY <1>0, <1>4, <2>1, <2>3 DEF StrikesBounded
  <2> QED BY <1>0, <2>1, <2>6, <2>7, <2>8 DEF Limits, Counted, CapsHold
<1> QED BY <1>5, <1>6, <1>7, <1>8, <1>9 DEF Connection

\* Where Room is asked, the connection ends or goes on.
LEMMA RoomLimits ==
    ASSUME TypeOK, TypeOK', Limits, NEW c \in Handler, NEW s \in Sizes,
           NEW refused \in Task, NEW g \in 1..MaxGen, Room(c, s, g, refused),
           c \in Conn => /\ handler[c].stage # "free" /\ handler[c].gen = g
                         /\ refused = [handler[c] EXCEPT !.stage = "ending"]
    PROVE  Limits'
<1>1. handler \in [Handler -> Task]
  BY DEF TypeOK
<1>2. PICK kind \in {"shown", "hidden"} : /\ Turns(c, Accepted(c, s, g, kind)) \/ Turns(c, refused)
                             /\ UNCHANGED <<gen, limiter>>
  BY Rooms
<1>5. PICK r \in {Accepted(c, s, g, kind), refused} : Turns(c, r)
  BY <1>2
<1>3. c \in Conn => /\ r.stage \in {"accepted", "ending"} /\ r.ip = handler[c].ip
                    /\ r.gen = handler[c].gen
  BY <1>1, <1>5, AcceptedIs DEF Task
<1>4. \A d \in Handler : handler'[d] = IF d = c THEN r ELSE handler[d]
  BY <1>1, <1>5 DEF Turns
<1> QED BY <1>2, <1>3, <1>4, SameConnections, Constants

LEMMA FileLimits ==
    ASSUME TypeOK, TypeOK', Limits, NEW c \in Handler, File(c)
    PROVE  Limits'
<1> USE Constants
<1>1. handler \in [Handler -> Task] /\ handler[c] \in Task /\ handler[c].gen \in 1..MaxGen
  BY DEF TypeOK, Task
<1>2. ASSUME NEW s \in Sizes, Announce(c, s) PROVE Limits'
  <2>1. [handler[c] EXCEPT !.stage = "ending"] \in Task
    BY <1>1 DEF Task
  <2> QED BY <1>1, <1>2, <2>1, RoomLimits DEF Announce
<1>3. CASE Place(c)
  BY <1>1, <1>3, SameConnections DEF Place, Become, Task, limiter
<1>4. ASSUME handler[c].stage = "placed", handler' = [handler EXCEPT ![c] = After(c)],
             UNCHANGED <<gen, limiter>>
      PROVE  Limits'
  <2>1. ASSUME NEW d \in Conn
        PROVE  /\ handler'[d].stage = "free" <=> handler[d].stage = "free"
               /\ handler'[d].ip = handler[d].ip /\ handler'[d].gen = handler[d].gen
               /\ handler'[d].stage = "shaking" => handler[d].stage = "shaking"
    <3>1. CASE d = c
      <4>1. handler'[d] = [handler[c] EXCEPT !.stage = "ending", !.size = 0, !.kind = "shown"]
        BY <1>1, <1>4, <3>1 DEF After
      <4> QED BY <1>1, <1>4, <3>1, <4>1, EndOf
    <3>2. CASE d # c
      BY <1>1, <1>4, <3>2
    <3> QED BY <3>1, <3>2
  <2> QED BY <1>4, <2>1, SameConnections
<1>5. CASE Count(c)
  BY <1>4, <1>5 DEF Count
<1>6. CASE Unplace(c)
  BY <1>4, <1>6 DEF Unplace
<1> QED BY <1>2, <1>3, <1>5, <1>6 DEF File

LEMMA StepLimits ==
    ASSUME TypeOK, TypeOK', Limits, [Next]_vars
    PROVE  Limits'
<1> USE Constants
<1>0. /\ gen \in Nat /\ MaxStrikes[gen] \in Nat /\ PerIP \in Nat
      /\ gen' = gen => PerIP' = PerIP
  BY Settings DEF TypeOK, PerIP
<1>1. handler \in [Handler -> Task]
  BY DEF TypeOK
<1>2. ASSUME handler' = handler, UNCHANGED <<gen, limiter>> PROVE Limits'
  BY <1>2, SameConnections
<1>3. CASE UNCHANGED vars
  BY <1>2, <1>3 DEF vars
<1>4. ASSUME NEW a \in Address, Expire(a) PROVE Limits'
  <2>1. Current' = Current /\ \A b \in Address : From(b)' = From(b) /\ Shaking(b)' = Shaking(b)
    BY <1>4 DEF Expire, Current, From, Shaking
  <2>2. gen' = gen /\ active' = active /\ activeIP' = activeIP /\ strikes' = [strikes EXCEPT ![a] = 0]
    BY <1>4 DEF Expire
  <2>3. ASSUME NEW b \in Address
        PROVE  strikes'[b] + Cardinality(Shaking(b)') < MaxStrikes[gen] + PerIP
    <3>1. strikes'[b] <= strikes[b] /\ strikes[b] \in Nat /\ strikes'[b] \in Nat
      BY <2>2 DEF TypeOK
    <3>2. Shaking(b) \in SUBSET Handler
      BY DEF Shaking, From, Current
    <3>3. Cardinality(Shaking(b)) \in Nat
      BY <3>2, HandlersFinite
    <3>4. strikes[b] + Cardinality(Shaking(b)) < MaxStrikes[gen] + PerIP
      BY DEF Limits, StrikesBounded
    <3> QED BY <1>0, <2>1, <3>1, <3>3, <3>4
  <2> QED BY <1>0, <2>1, <2>2, <2>3 DEF Limits, Counted, CapsHold, StrikesBounded
<1>5. ASSUME NEW s \in Sizes, Offer(s) PROVE Limits'
  <2>1. gen \in 1..MaxGen
    BY DEF TypeOK
  <2> QED BY <1>5, <2>1, RoomLimits DEF Offer
<1>6. ASSUME NEW s \in Sizes, Leave(s) PROVE Limits'
  BY <1>2, <1>6 DEF Leave
<1>7. CASE PullFails
  <2>1. \A c \in Conn : handler'[c] = handler[c]
    BY <1>1, <1>7 DEF PullFails
  <2> QED BY <1>7, <2>1, SameConnections DEF PullFails
<1>8. CASE RestartInPlace
  <2>1. gen' = gen + 1 /\ handler' = handler /\ gen \in Nat
    BY <1>8 DEF RestartInPlace, TypeOK
  <2>2. \A c \in Conn : handler[c].gen <= gen /\ handler[c].gen \in Nat
    BY DEF TypeOK
  <2>3. Current' = {}
    BY <2>1, <2>2 DEF Current
  <2>4. \A a \in Address : From(a)' = {} /\ Shaking(a)' = {}
    BY <2>3 DEF From, Shaking
  <2>5. /\ active' = 0 /\ \A a \in Address : activeIP'[a] = 0 /\ strikes'[a] = 0
    BY <1>8 DEF RestartInPlace
  <2>11. MaxConns[gen'] \in Nat /\ MaxStrikes[gen'] \in Nat \ {0} /\ PerIP' \in Nat
    BY NextSettings DEF TypeOK
  <2>6. Cardinality({}) = 0 /\ 0 + 0 < MaxStrikes[gen'] + PerIP'
    BY <2>11, FS_EmptySet
  <2>7. Cardinality(Current') = 0 /\ \A a \in Address : /\ Cardinality(From(a)') = 0
                                                       /\ Cardinality(Shaking(a)') = 0
    BY <2>3, <2>4, <2>6
  <2>8. Counted'
    BY <2>5, <2>7 DEF Counted
  <2>9. CapsHold'
    BY <2>7, <2>11 DEF CapsHold
  <2>10. StrikesBounded'
    BY <2>5, <2>6, <2>7 DEF StrikesBounded
  <2> QED BY <2>8, <2>9, <2>10 DEF Limits
<1> QED BY <1>3, <1>4, <1>5, <1>6, <1>7, <1>8, ConnectionLimits, FileLimits DEF Next

-----------------------------------------------------------------------------
(* The mailbox.                                                            *)

Started == {"shaking", "serving", "accepted", "placed", "ending"}

\* What is under way, in all and of the node that runs, and who is left behind.
Acc == Size(Shown("accepted"))
Plc == Size(Shown("placed"))
OwnAcc == Size(Own("accepted"))
OwnPlc == Size(Own("placed"))
Behind == Cardinality(Left({"serving", "accepted"}))
BehindServing == Cardinality(Left({"serving"}))
BehindAll == Cardinality(Left(Started))

\* What the file of a handler adds to what a scan finds.
Adds(r) == IF r.kind = "hidden" THEN 0 ELSE r.size

LEMMA AddsNat ==
    ASSUME NEW t \in Task
    PROVE  Adds(t) \in Nat /\ Adds(t) <= t.size /\ t.size <= MaxFile
BY InboundAssumption DEF Adds, Task

\* What they may have brought before the running node looked, and what all may.
Before == MaxFile * (MostConns * (gen - 1))
Everyone == MaxFile * (MostConns * gen)

Room4All ==
    /\ PlacedStored /\ NotYetCounted /\ PullsForNow /\ FewLeft /\ Uncounted /\ AllowedFor

LEMMA SetsOfHandlers ==
    /\ \A st : Shown(st) \in SUBSET Handler /\ Own(st) \in SUBSET Handler
    /\ \A S : Left(S) \in SUBSET Handler
    /\ \A S : IsFiniteSet(Left(S)) /\ Cardinality(Left(S)) \in Nat
BY HandlersFinite, Constants DEF At, Shown, Own, Left

LEMMA NumbersNat ==
    /\ Acc \in Nat /\ Plc \in Nat /\ OwnAcc \in Nat /\ OwnPlc \in Nat
    /\ Behind \in Nat /\ BehindServing \in Nat /\ BehindAll \in Nat
<1>1. /\ Acc \in Nat /\ Plc \in Nat /\ OwnAcc \in Nat /\ OwnPlc \in Nat
  BY SetsOfHandlers, SizeIsCount DEF Acc, Plc, OwnAcc, OwnPlc, Size
<1>2. Behind \in Nat /\ BehindServing \in Nat /\ BehindAll \in Nat
  BY SetsOfHandlers DEF Behind, BehindServing, BehindAll
<1> QED BY <1>1, <1>2

LEMMA ProductsNat == MaxFile * Behind \in Nat /\ MaxFile * BehindServing \in Nat
BY NumbersNat, Product, Constants

LEMMA Bounds ==
    ASSUME TypeOK
    PROVE  /\ Before \in Nat /\ Everyone \in Nat /\ gen \in Nat /\ gen - 1 \in Nat
           /\ Everyone = Before + MaxFile * MostConns /\ MaxFile * MostConns \in Nat
<1>1. gen \in Nat /\ gen - 1 \in Nat
  BY DEF TypeOK
<1>2. MostConns * gen = MostConns * (gen - 1) + MostConns /\ MostConns * (gen - 1) \in Nat
  BY <1>1, Constants
<1> DEFINE x == MostConns * (gen - 1)
<1>3. MaxFile * (x + MostConns) = MaxFile * x + MaxFile * MostConns
      /\ MaxFile * x \in Nat /\ MaxFile * MostConns \in Nat
  <2>1. x \in Nat
    BY <1>2
  <2> HIDE DEF x
  <2> QED BY <2>1, Constants
<1>4. Before = MaxFile * x /\ Everyone = MaxFile * (x + MostConns)
  BY <1>2 DEF Before, Everyone
<1> HIDE DEF x
<1> QED BY <1>1, <1>3, <1>4

\* What is left behind is a part of what there is.
LEMMA Parts ==
    ASSUME TypeOK, PullsForNow, NEW st \in {"accepted", "placed"}
    PROVE  /\ Shown(st) = Own(st) \cup (Shown(st) \cap Left({st}))
           /\ Own(st) \cap (Shown(st) \cap Left({st})) = {}
<1>1. \A c \in Handler : handler[c].gen \in Nat /\ handler[c].gen <= gen /\ gen \in Nat
  BY Constants DEF TypeOK
<1>2. \A c \in Handler \ Conn : c = Pull
  BY DEF Handler
<1> QED BY <1>1, <1>2, Constants DEF PullsForNow, At, Shown, Own, Left

LEMMA LeftParts ==
    /\ Behind = BehindServing + Cardinality(Left({"accepted"}))
    /\ Behind + Cardinality(Left({"placed"})) <= BehindAll
<1>1. Left({"serving", "accepted"}) = Left({"serving"}) \cup Left({"accepted"})
      /\ Left({"serving"}) \cap Left({"accepted"}) = {}
  BY DEF Left
<1>2. Left({"serving", "accepted"}) \cap Left({"placed"}) = {}
      /\ Left({"serving", "accepted"}) \cup Left({"placed"}) \in SUBSET Left(Started)
  BY DEF Left, Started
<1>3. Cardinality({}) = 0
  BY FS_EmptySet
<1> DEFINE x == Cardinality(Left({"accepted"}))
           y == Cardinality(Left({"placed"}))
<1>4. x \in Nat /\ y \in Nat /\ Behind \in Nat /\ BehindServing \in Nat /\ BehindAll \in Nat
  BY SetsOfHandlers, NumbersNat
<1>5. Behind = BehindServing + x - 0
  BY <1>1, <1>3, SetsOfHandlers, FS_Union DEF Behind, BehindServing
<1>6. Cardinality(Left({"serving", "accepted"}) \cup Left({"placed"})) = Behind + y - 0
  BY <1>2, <1>3, SetsOfHandlers, FS_Union DEF Behind
<1>7. Cardinality(Left({"serving", "accepted"}) \cup Left({"placed"})) <= BehindAll
  BY <1>2, SetsOfHandlers, FS_Subset DEF BehindAll
<1> HIDE DEF x, y
<1>8. Behind + y <= BehindAll
  BY <1>4, <1>6, <1>7
<1> QED BY <1>4, <1>5, <1>8 DEF x, y

\* A file each.
LEMMA LeftSizes ==
    ASSUME TypeOK, Room4All
    PROVE  /\ Acc + MaxFile * BehindServing <= OwnAcc + MaxFile * Behind
           /\ Plc + MaxFile * Behind <= OwnPlc + Before
<1> DEFINE x == Cardinality(Left({"accepted"}))
           y == Cardinality(Left({"placed"}))
           a == Size(Shown("accepted") \cap Left({"accepted"}))
           b == Size(Shown("placed") \cap Left({"placed"}))
<1>1. PullsForNow /\ FewLeft
  BY DEF Room4All
<1>2. Acc = OwnAcc + a /\ Plc = OwnPlc + b
  <2>1. ASSUME NEW st \in {"accepted", "placed"}
        PROVE  Size(Shown(st)) = Size(Own(st)) + Size(Shown(st) \cap Left({st}))
    <3>1. /\ Own(st) \in SUBSET Handler /\ Shown(st) \cap Left({st}) \in SUBSET Handler
          /\ Own(st) \cap (Shown(st) \cap Left({st})) = {}
          /\ Shown(st) = Own(st) \cup (Shown(st) \cap Left({st}))
      BY <1>1, Parts, SetsOfHandlers
    <3>2. Size(Own(st) \cup (Shown(st) \cap Left({st})))
             = Size(Own(st)) + Size(Shown(st) \cap Left({st}))
      BY <3>1, SizeOfUnion DEF Size
    <3> QED BY <3>1, <3>2
  <2> QED BY <2>1 DEF Acc, Plc, OwnAcc, OwnPlc
<1>3. /\ a \in Nat /\ b \in Nat /\ a <= MaxFile * x /\ b <= MaxFile * y
      /\ x \in Nat /\ y \in Nat
  <2>1. ASSUME NEW st
        PROVE  /\ Size(Shown(st) \cap Left({st})) \in Nat /\ Cardinality(Left({st})) \in Nat
               /\ Size(Shown(st) \cap Left({st})) <= MaxFile * Cardinality(Left({st}))
    <3>1. Left({st}) \in SUBSET Handler /\ Shown(st) \cap Left({st}) \in SUBSET Left({st})
          /\ Cardinality(Left({st})) \in Nat
      BY SetsOfHandlers
    <3>2. Size(Shown(st) \cap Left({st})) <= Size(Left({st}))
      BY <3>1, SizeMonotonic DEF Size
    <3>3. Size(Left({st})) <= MaxFile * Cardinality(Left({st})) /\ Size(Left({st})) \in Nat
          /\ Size(Shown(st) \cap Left({st})) \in Nat
      BY <3>1, SizeIsCount DEF Size
    <3>4. MaxFile * Cardinality(Left({st})) \in Nat
      BY <3>1, Product, Constants
    <3> QED BY <3>1, <3>2, <3>3, <3>4
  <2> QED BY <2>1
<1>4. Behind = BehindServing + x /\ Behind + y <= BehindAll
  BY LeftParts
<1>5. BehindAll <= MostConns * (gen - 1) /\ MostConns * (gen - 1) \in Nat
  BY <1>1, Bounds, Product, Constants DEF FewLeft, BehindAll, Started
<1> HIDE DEF x, y, a, b
<1>6. MaxFile * Behind = MaxFile * BehindServing + MaxFile * x
  BY <1>3, <1>4, NumbersNat, Constants
<1>7. Acc + MaxFile * BehindServing <= OwnAcc + MaxFile * Behind
  BY <1>2, <1>3, <1>6, NumbersNat, Product, Constants
<1>8. Behind + y \in Nat /\ Behind + y <= MostConns * (gen - 1)
  BY <1>3, <1>4, <1>5, NumbersNat
<1>9. MaxFile * (Behind + y) <= Before
  BY <1>5, <1>8, ProductMonotonic, Constants DEF Before
<1>10. MaxFile * (Behind + y) = MaxFile * Behind + MaxFile * y /\ MaxFile * y \in Nat
  BY <1>3, NumbersNat, Constants
<1>11. Before \in Nat
  BY Bounds
<1>12. Plc + MaxFile * Behind <= OwnPlc + Before
  BY <1>2, <1>3, <1>9, <1>10, <1>11, NumbersNat, ProductsNat
<1> QED BY <1>7, <1>12

\* Files that are under way beside one that comes in.
LEMMA OwnSizes ==
    ASSUME TypeOK, Limits, Room4All, NEW c \in Handler,
           c = Pull \/ (handler[c].gen = gen /\ handler[c].stage = "serving"),
           handler[c].stage \notin {"accepted", "placed"}
    PROVE  OwnAcc + OwnPlc <= MaxFile * MostConns
<1> DEFINE T == Own("accepted") \cup Own("placed")
<1>1. T \in SUBSET Handler /\ Own("accepted") \cap Own("placed") = {}
  BY DEF Own, Shown, At
<1>2. Size(T) = OwnAcc + OwnPlc
  BY <1>1, SetsOfHandlers, SizeOfUnion DEF Size, OwnAcc, OwnPlc
<1>3. Size(T) <= MaxFile * Cardinality(T)
  BY <1>1, SizeIsCount DEF Size
<1>4. Cardinality(T) \in Nat
  BY <1>1, HandlersFinite
<1>5. Current \in SUBSET Handler /\ IsFiniteSet(Current) /\ Cardinality(Current) \in Nat
      /\ Cardinality(Current) <= MostConns
  <2>1. Current \in SUBSET Handler /\ Cardinality(Current) <= MaxConns[gen]
    BY DEF Limits, CapsHold, Current, Handler
  <2>2. MaxConns[gen] \in Nat /\ MaxConns[gen] <= MostConns /\ MostConns \in Nat
    BY Settings, Constants DEF TypeOK
  <2> QED BY <2>1, <2>2, HandlersFinite
<1>6. Cardinality(T) <= MostConns
  <2>1. CASE c = Pull
    <3>1. T \in SUBSET Current
      BY <2>1 DEF Own, Shown, At, Current, Handler
    <3> QED BY <1>4, <1>5, <3>1, FS_Subset, Constants
  <2>2. CASE c # Pull
    <3>1. c \in Current /\ Pull \notin Current \ {c}
      BY <2>2, Constants DEF Current, Handler
    <3>2. T \in SUBSET ((Current \ {c}) \cup {Pull})
      BY <2>2 DEF Own, Shown, At, Current, Handler
    <3>3. IsFiniteSet(Current \ {c}) /\ Cardinality(Current \ {c}) = Cardinality(Current) - 1
      BY <1>5, <3>1, FS_RemoveElement
    <3>4. /\ IsFiniteSet((Current \ {c}) \cup {Pull})
          /\ Cardinality((Current \ {c}) \cup {Pull}) = Cardinality(Current \ {c}) + 1
      BY <3>1, <3>3, FS_AddElement
    <3>5. Cardinality(T) <= Cardinality((Current \ {c}) \cup {Pull})
      BY <3>2, <3>4, FS_Subset
    <3> HIDE DEF T
    <3> QED BY <1>4, <1>5, <3>3, <3>4, <3>5, Constants
  <2> QED BY <2>1, <2>2
<1> HIDE DEF T
<1>7. MaxFile * Cardinality(T) <= MaxFile * MostConns /\ MaxFile * Cardinality(T) \in Nat
      /\ MaxFile * MostConns \in Nat
  BY <1>4, <1>6, ProductMonotonic, Product, Constants
<1> QED BY <1>2, <1>3, <1>7, NumbersNat

\* What the running node sees of its mailbox is true but for what Uncounted allows.
LEMMA SeenIsTrue ==
    ASSUME TypeOK, Room4All, NEW u \in Seen(gen)
    PROVE  shown + MaxFile * Behind <= u + OwnPlc + Before
<1>1. gen \in 1..MaxGen /\ shown \in Nat
  BY DEF TypeOK
<1>2. CASE u = usage[gen] /\ u # -1
  BY <1>2 DEF Room4All, Uncounted, Behind, OwnPlc, Before
<1>3. ASSUME NEW missed \in SUBSET Shown("placed"), u = shown - Size(missed)
      PROVE  shown + MaxFile * Behind <= u + OwnPlc + Before
  <2>1. Size(missed) <= Plc /\ Size(missed) \in Nat
    <3>1. Shown("placed") \in SUBSET Handler /\ missed \in SUBSET Handler
      BY DEF Shown, At
    <3> QED BY <3>1, SizeMonotonic, SizeIsCount DEF Size, Plc
  <2>2. Plc + MaxFile * Behind <= OwnPlc + Before
    BY LeftSizes
  <2> QED BY <1>1, <1>3, <2>1, <2>2, NumbersNat, ProductsNat, Bounds
<1> QED BY <1>2, <1>3 DEF Seen

\* A handler changes: what becomes of the numbers.
LEMMA Sums ==
    ASSUME TypeOK, NEW c, NEW r, Turns(c, r)
    PROVE  /\ Acc' = Acc - (IF handler[c].stage = "accepted" THEN Adds(handler[c]) ELSE 0)
                          + (IF r.stage = "accepted" THEN Adds(r) ELSE 0)
           /\ Plc' = Plc - (IF handler[c].stage = "placed" THEN Adds(handler[c]) ELSE 0)
                          + (IF r.stage = "placed" THEN Adds(r) ELSE 0)
           /\ OwnPlc' = OwnPlc
                - (IF handler[c].stage = "placed" /\ handler[c].gen = gen THEN Adds(handler[c]) ELSE 0)
                + (IF r.stage = "placed" /\ r.gen = gen THEN Adds(r) ELSE 0)
           /\ Behind' = Behind
                - (IF /\ c \in Conn /\ handler[c].gen < gen
                      /\ handler[c].stage \in {"serving", "accepted"} THEN 1 ELSE 0)
                + (IF c \in Conn /\ r.gen < gen /\ r.stage \in {"serving", "accepted"} THEN 1 ELSE 0)
           /\ BehindServing' = BehindServing
                - (IF c \in Conn /\ handler[c].gen < gen /\ handler[c].stage \in {"serving"} THEN 1 ELSE 0)
                + (IF c \in Conn /\ r.gen < gen /\ r.stage \in {"serving"} THEN 1 ELSE 0)
           /\ BehindAll' = BehindAll
                - (IF c \in Conn /\ handler[c].gen < gen /\ handler[c].stage \in Started THEN 1 ELSE 0)
                + (IF c \in Conn /\ r.gen < gen /\ r.stage \in Started THEN 1 ELSE 0)
<1>1. /\ handler \in [Handler -> Task] /\ handler' \in [Handler -> Task] /\ c \in Handler
      /\ gen' = gen /\ handler'[c] = r
      /\ \A d \in Handler \ {c} : handler'[d] = handler[d]
  BY DEF TypeOK, Turns
<1>2. ASSUME NEW st
      PROVE  /\ Shown(st) \in SUBSET Handler /\ Shown(st)' \in SUBSET Handler
             /\ Shown(st) \ {c} = Shown(st)' \ {c}
             /\ c \in Shown(st) <=> handler[c].stage = st /\ handler[c].kind = "shown"
             /\ c \in Shown(st)' <=> r.stage = st /\ r.kind = "shown"
             /\ Own(st) \in SUBSET Handler /\ Own(st)' \in SUBSET Handler
             /\ Own(st) \ {c} = Own(st)' \ {c}
             /\ c \in Own(st) <=> handler[c].stage = st /\ handler[c].kind = "shown" /\ handler[c].gen = gen
             /\ c \in Own(st)' <=> r.stage = st /\ r.kind = "shown" /\ r.gen = gen
  BY <1>1 DEF At, Shown, Own
<1>3. ASSUME NEW S
      PROVE  Cardinality(Left(S)') = Cardinality(Left(S))
                - (IF c \in Conn /\ handler[c].gen < gen /\ handler[c].stage \in S THEN 1 ELSE 0)
                + (IF c \in Conn /\ r.gen < gen /\ r.stage \in S THEN 1 ELSE 0)
  <2>1. /\ Left(S) \ {c} = Left(S)' \ {c} /\ IsFiniteSet(Left(S))
        /\ c \in Left(S) <=> c \in Conn /\ handler[c].gen < gen /\ handler[c].stage \in S
        /\ c \in Left(S)' <=> c \in Conn /\ r.gen < gen /\ r.stage \in S
    <3>1. \A d \in Conn \ {c} : handler'[d] = handler[d]
      BY <1>1, Constants
    <3>2. Left(S) \ {c} = Left(S)' \ {c}
      BY <1>1, <3>1 DEF Left
    <3>3. IsFiniteSet(Left(S))
      BY SetsOfHandlers
    <3> QED BY <1>1, <3>2, <3>3 DEF Left
  <2>2. Cardinality(Left(S)') = Cardinality(Left(S)) - (IF c \in Left(S) THEN 1 ELSE 0)
                                                     + (IF c \in Left(S)' THEN 1 ELSE 0)
    BY <2>1, CountChange
  <2> QED BY <2>1, <2>2
<1>4. ASSUME NEW st
      PROVE  /\ Size(Shown(st))' = Size(Shown(st)) - (IF handler[c].stage = st THEN Adds(handler[c]) ELSE 0)
                                             + (IF r.stage = st THEN Adds(r) ELSE 0)
             /\ Size(Own(st))' = Size(Own(st))
                  - (IF handler[c].stage = st /\ handler[c].gen = gen THEN Adds(handler[c]) ELSE 0)
                  + (IF r.stage = st /\ r.gen = gen THEN Adds(r) ELSE 0)
  <2>1. SizeIn(handler', Shown(st)') = SizeIn(handler, Shown(st))
           - (IF c \in Shown(st) THEN handler[c].size ELSE 0) + (IF c \in Shown(st)' THEN handler'[c].size ELSE 0)
    BY <1>1, <1>2, SizeChange
  <2>2. SizeIn(handler', Own(st)') = SizeIn(handler, Own(st))
           - (IF c \in Own(st) THEN handler[c].size ELSE 0) + (IF c \in Own(st)' THEN handler'[c].size ELSE 0)
    BY <1>1, <1>2, SizeChange
  <2>3. /\ Size(Shown(st))' = SizeIn(handler', Shown(st)') /\ Size(Shown(st)) = SizeIn(handler, Shown(st))
        /\ Size(Own(st))' = SizeIn(handler', Own(st)') /\ Size(Own(st)) = SizeIn(handler, Own(st))
    BY DEF Size
  <2>4. /\ handler[c].kind = "shown" => Adds(handler[c]) = handler[c].size
        /\ handler[c].kind # "shown" => Adds(handler[c]) = 0
        /\ r.kind = "shown" => Adds(r) = r.size
        /\ r.kind # "shown" => Adds(r) = 0
    BY <1>1 DEF Adds, Turns, Task
  <2> QED BY <1>1, <1>2, <2>1, <2>2, <2>3, <2>4
<1>5. Acc' = Acc - (IF handler[c].stage = "accepted" THEN Adds(handler[c]) ELSE 0)
                 + (IF r.stage = "accepted" THEN Adds(r) ELSE 0)
  BY <1>4 DEF Acc
<1>6. Plc' = Plc - (IF handler[c].stage = "placed" THEN Adds(handler[c]) ELSE 0)
                 + (IF r.stage = "placed" THEN Adds(r) ELSE 0)
  BY <1>4 DEF Plc
<1>7. OwnPlc' = OwnPlc
         - (IF handler[c].stage = "placed" /\ handler[c].gen = gen THEN Adds(handler[c]) ELSE 0)
         + (IF r.stage = "placed" /\ r.gen = gen THEN Adds(r) ELSE 0)
  BY <1>4 DEF OwnPlc
<1>8. Behind' = Behind
         - (IF c \in Conn /\ handler[c].gen < gen /\ handler[c].stage \in {"serving", "accepted"} THEN 1 ELSE 0)
         + (IF c \in Conn /\ r.gen < gen /\ r.stage \in {"serving", "accepted"} THEN 1 ELSE 0)
  BY <1>3 DEF Behind
<1>9. BehindServing' = BehindServing
         - (IF c \in Conn /\ handler[c].gen < gen /\ handler[c].stage \in {"serving"} THEN 1 ELSE 0)
         + (IF c \in Conn /\ r.gen < gen /\ r.stage \in {"serving"} THEN 1 ELSE 0)
  BY <1>3 DEF BehindServing
<1>10. BehindAll' = BehindAll
         - (IF c \in Conn /\ handler[c].gen < gen /\ handler[c].stage \in Started THEN 1 ELSE 0)
         + (IF c \in Conn /\ r.gen < gen /\ r.stage \in Started THEN 1 ELSE 0)
  BY <1>3 DEF BehindAll, Started
<1> QED BY <1>5, <1>6, <1>7, <1>8, <1>9, <1>10

LEMMA OneLess ==
    ASSUME NEW n \in Nat, NEW k \in {n, n - 1}
    PROVE  /\ k = n - 1 => MaxFile * k = MaxFile * n - MaxFile
           /\ MaxFile * n \in Nat /\ MaxFile * k \in Int /\ MaxFile * k <= MaxFile * n
<1>1. MaxFile * (n - 1) = MaxFile * n - MaxFile /\ MaxFile * n \in Nat /\ MaxFile \in Nat
  BY Constants
<1> QED BY <1>1

\* What there is to show of a step of one handler.
LEMMA TurnKeeps ==
    ASSUME TypeOK, Room4All, NEW c, NEW r, Turns(c, r),
           c = Pull /\ r.stage # "free" => r.gen = gen,
           c \in Conn /\ r.gen < gen /\ r.stage \in Started
              => handler[c].gen < gen /\ handler[c].stage \in Started,
           \A g \in 1..MaxGen : g > gen => usage'[g] = -1,
           Plc' <= shown',
           usage'[gen] # -1 => shown' + MaxFile * Behind' <= usage'[gen] + OwnPlc' + Before,
           shown' + Acc' + MaxFile * BehindServing' <= MostCap + Everyone
    PROVE  Room4All'
<1>1. gen' = gen /\ c \in Handler /\ handler' = [handler EXCEPT ![c] = r]
      /\ handler \in [Handler -> Task]
  BY DEF Turns, TypeOK
<1>2. PlacedStored' /\ NotYetCounted'
  BY <1>1 DEF PlacedStored, NotYetCounted, Plc
<1>3. PullsForNow'
  BY <1>1, Constants DEF PullsForNow, Room4All
<1>4. FewLeft'
  <2>1. BehindAll <= MostConns * (gen - 1) /\ MostConns * (gen - 1) \in Nat
    BY Bounds, Product, Constants DEF Room4All, FewLeft, BehindAll, Started
  <2>2. BehindAll' = BehindAll
           - (IF c \in Conn /\ handler[c].gen < gen /\ handler[c].stage \in Started THEN 1 ELSE 0)
           + (IF c \in Conn /\ r.gen < gen /\ r.stage \in Started THEN 1 ELSE 0)
    BY Sums
  <2>3. BehindAll' <= BehindAll
    BY <2>2, NumbersNat
  <2>4. BehindAll' <= MostConns * (gen - 1)
    <3> DEFINE x == MostConns * (gen - 1)
    <3>1. BehindAll' \in Int /\ BehindAll \in Nat /\ x \in Nat /\ BehindAll <= x
      BY <2>1, <2>2, NumbersNat
    <3> HIDE DEF x
    <3>2. BehindAll' <= x
      BY <2>3, <3>1
    <3> QED BY <3>2 DEF x
  <2> QED BY <1>1, <2>4 DEF FewLeft, BehindAll, Started
<1>5. Uncounted' /\ AllowedFor'
  BY <1>1 DEF Uncounted, AllowedFor, Behind, OwnPlc, Before, Acc, BehindServing, Everyone
<1> QED BY <1>2, <1>3, <1>4, <1>5 DEF Room4All

LEMMA LessUnderWay ==
    ASSUME NEW st \in Nat, NEW acc \in Nat, NEW x \in Nat, NEW most \in Nat,
           NEW acc2 \in Int, NEW y \in Int, acc2 <= acc, y <= x, st + acc + x <= most
    PROVE  st + acc2 + y <= most
OBVIOUS

\* Nothing is placed, and nothing accepted.
LEMMA Withdraws ==
    ASSUME TypeOK, Room4All, NEW c, NEW r, Turns(c, r),
           handler[c].stage # "placed", r.stage \notin {"accepted", "placed"},
           r.gen < gen => r.stage \in {"free", "ending"},
           c \in Conn /\ r.gen < gen /\ r.stage \in Started
              => handler[c].gen < gen /\ handler[c].stage \in Started,
           c = Pull => r.stage = "free",
           \A g \in 1..MaxGen : g > gen => usage'[g] = -1,
           usage'[gen] # -1 => usage'[gen] \in Seen(gen),
           usage' \in [1..MaxGen -> Nat \cup {-1}], shown' = shown
    PROVE  Room4All'
<1>1. Adds(handler[c]) \in Nat /\ shown \in Nat /\ gen \in 1..MaxGen
  BY AddsNat DEF Turns, TypeOK
<1>2. Plc' = Plc /\ OwnPlc' = OwnPlc
  BY <1>1, Sums, NumbersNat
<1>3. Acc' \in {Acc, Acc - Adds(handler[c])}
  BY <1>1, Sums, NumbersNat
<1>4. Behind' \in {Behind, Behind - 1} /\ BehindServing' \in {BehindServing, BehindServing - 1}
  <2>1. r.stage \notin {"serving", "accepted"} \/ ~(r.gen < gen)
    OBVIOUS
  <2>2. /\ Behind' = Behind
         - (IF c \in Conn /\ handler[c].gen < gen /\ handler[c].stage \in {"serving", "accepted"} THEN 1 ELSE 0) + 0
        /\ BehindServing' = BehindServing
         - (IF c \in Conn /\ handler[c].gen < gen /\ handler[c].stage \in {"serving"} THEN 1 ELSE 0) + 0
    BY <2>1, Sums
  <2> QED BY <2>2, NumbersNat
<1>5. MaxFile * Behind' <= MaxFile * Behind /\ MaxFile * Behind' \in Int
  BY <1>4, OneLess, NumbersNat
<1>6. MaxFile * BehindServing' <= MaxFile * BehindServing /\ MaxFile * BehindServing' \in Int
  BY <1>4, OneLess, NumbersNat
<1>7. Plc' <= shown'
  BY <1>2 DEF Room4All, PlacedStored, Plc
<1>8. ASSUME usage'[gen] # -1
      PROVE  shown' + MaxFile * Behind' <= usage'[gen] + OwnPlc' + Before
  <2>1. shown + MaxFile * Behind <= usage'[gen] + OwnPlc + Before
    BY <1>8, SeenIsTrue
  <2>2. usage'[gen] \in Nat
    BY <1>1, <1>8
  <2> DEFINE x == MaxFile * Behind
             y == MaxFile * Behind'
  <2>3. /\ y <= x /\ x \in Nat /\ y \in Int /\ shown + x <= usage'[gen] + OwnPlc + Before
        /\ shown' = shown /\ shown \in Nat /\ OwnPlc' = OwnPlc
        /\ OwnPlc \in Nat /\ Before \in Nat
    BY <1>1, <1>2, <1>5, <2>1, ProductsNat, NumbersNat, Bounds
  <2> HIDE DEF x, y
  <2>4. shown' + y <= usage'[gen] + OwnPlc' + Before
    BY <2>2, <2>3
  <2> QED BY <2>4 DEF y
<1>9. shown' + Acc' + MaxFile * BehindServing' <= MostCap + Everyone
  <2>1. shown + Acc + MaxFile * BehindServing <= MostCap + Everyone
    BY DEF Room4All, AllowedFor, Acc, BehindServing, Everyone
  <2> DEFINE x == MaxFile * BehindServing
             y == MaxFile * BehindServing'
             most == MostCap + Everyone
  <2>2. y <= x /\ x \in Nat /\ y \in Int /\ shown + Acc + x <= most /\ most \in Nat
    BY <1>6, <2>1, NumbersNat, Bounds, Constants
  <2> HIDE DEF x, y, most
  <2>3. Acc' <= Acc /\ Acc' \in Int /\ Acc \in Nat
    BY <1>1, <1>3, NumbersNat
  <2>4. shown' = shown /\ shown \in Nat
    BY <1>1
  <2>5. shown' + Acc' + y <= most
    BY <2>2, <2>3, <2>4, LessUnderWay
  <2> QED BY <2>5 DEF y, most
<1> QED BY <1>7, <1>8, <1>9, TurnKeeps

LEMMA AcceptedFits ==
    ASSUME NEW st \in Nat, NEW acc \in Nat, NEW own \in Nat, NEW plc \in Nat,
           NEW x \in Nat, NEW y \in Nat, NEW z \in Nat, NEW before \in Nat,
           NEW cap \in Nat, NEW s \in Nat, NEW u \in Nat, u + s <= cap,
           st + y <= u + plc + before, own + plc <= z, acc + x <= own + y
    PROVE  st + acc + s + x <= cap + (before + z)
OBVIOUS

LEMMA AcceptedBehind ==
    ASSUME NEW st \in Nat, NEW acc \in Nat, NEW x \in Nat, NEW file \in Nat,
           NEW most \in Nat, NEW s \in Nat, s <= file, st + acc + x <= most
    PROVE  st + (acc + s) + (x - file) <= most
OBVIOUS

\* A file is accepted.
LEMMA Accepts ==
    ASSUME TypeOK, Limits, Room4All, NEW c \in Handler, NEW s \in Sizes, NEW g \in 1..gen,
           NEW u \in Seen(g), u + s <= MostCap, usage' = [usage EXCEPT ![g] = u], shown' = shown,
           NEW r, Turns(c, r), r.stage = "accepted", r.gen = g, r.size = s, r.kind \in {"shown", "hidden"},
           \/ c = Pull /\ handler[c].stage = "free" /\ g = gen
           \/ c \in Conn /\ handler[c].stage = "serving" /\ handler[c].gen = g
    PROVE  Room4All'
<1>1. /\ r.stage = "accepted" /\ r.gen = g /\ r.size = s /\ handler[c].gen \in Nat
      /\ s \in Nat /\ s <= MaxFile /\ shown \in Nat /\ gen \in 1..MaxGen /\ g \in 1..MaxGen
      /\ usage \in [1..MaxGen -> Nat \cup {-1}] /\ MaxFile \in Nat /\ MostCap \in Nat
      /\ Pull \notin Conn
  BY Constants DEF TypeOK, Task
<1>2. Turns(c, r) /\ u + s <= MostCap
  OBVIOUS
<1> DEFINE a == Adds(r)
<1>6. a \in Nat /\ a <= s /\ a <= MaxFile /\ (u \in Nat => u + a <= MostCap)
  <2>1. a \in Nat /\ a <= s
    BY <1>1, AddsNat DEF Turns
  <2> QED BY <1>1, <1>2, <2>1
<1>3. \A k \in 1..MaxGen : k > gen => usage'[k] = -1
  BY <1>1 DEF Room4All, NotYetCounted
<1>4. Plc' = Plc /\ OwnPlc' = OwnPlc /\ Acc' = Acc + a
  <2>1. handler[c].stage \notin {"accepted", "placed"} /\ r.stage = "accepted" /\ r.size = s
    BY <1>1
  <2>2. /\ Acc' = Acc - 0 + a /\ Plc' = Plc - 0 + 0 /\ OwnPlc' = OwnPlc - 0 + 0
    BY <1>2, <2>1, Sums
  <2> QED BY <1>1, <1>6, <2>2, NumbersNat
<1> HIDE DEF a
<1>5. Behind' = Behind /\ BehindServing' = BehindServing - (IF g < gen THEN 1 ELSE 0)
  <2>1. CASE c = Pull
    <3>1. c \notin Conn /\ ~(g < gen)
      BY <1>1, <2>1
    <3>2. Behind' = Behind - 0 + 0 /\ BehindServing' = BehindServing - 0 + 0
      BY <1>2, <3>1, Sums
    <3> QED BY <3>1, <3>2, NumbersNat
  <2>2. CASE c \in Conn
    <3>1. handler[c].gen = g /\ r.gen = g /\ handler[c].stage = "serving"
      BY <1>1, <2>2
    <3>2. /\ Behind' = Behind - (IF g < gen THEN 1 ELSE 0) + (IF g < gen THEN 1 ELSE 0)
          /\ BehindServing' = BehindServing - (IF g < gen THEN 1 ELSE 0) + 0
      BY <1>1, <1>2, <2>2, <3>1, Sums
    <3> QED BY <3>2, NumbersNat
  <2> QED BY <2>1, <2>2
<1>7. Plc' <= shown'
  BY <1>4 DEF Room4All, PlacedStored, Plc
<1>8. u \in Nat
  BY <1>1, SeenIsNat DEF Room4All
<1>9. shown + Acc + MaxFile * BehindServing <= MostCap + Everyone
  BY DEF Room4All, AllowedFor, Acc, BehindServing, Everyone
<1>10. CASE g = gen
  <2>1. shown + MaxFile * Behind <= u + OwnPlc + Before
    BY <1>10, SeenIsTrue
  <2>2. OwnAcc + OwnPlc <= MaxFile * MostConns
    <3>1. /\ c = Pull \/ (handler[c].gen = gen /\ handler[c].stage = "serving")
          /\ handler[c].stage \notin {"accepted", "placed"}
      BY <1>10
    <3> QED BY <3>1, OwnSizes
  <2>3. Acc + MaxFile * BehindServing <= OwnAcc + MaxFile * Behind
    BY LeftSizes
  <2>4. usage'[gen] = u
    BY <1>1, <1>10
  <2>5. shown + Acc + a + MaxFile * BehindServing <= MostCap + Everyone
    <3> DEFINE x == MaxFile * BehindServing
               y == MaxFile * Behind
               z == MaxFile * MostConns
               most == MostCap + Everyone
    <3>1. /\ x \in Nat /\ y \in Nat /\ z \in Nat /\ Before \in Nat
          /\ shown + y <= u + OwnPlc + Before /\ OwnAcc + OwnPlc <= z
          /\ Acc + x <= OwnAcc + y /\ most = MostCap + (Before + z)
      BY <2>1, <2>2, <2>3, NumbersNat, ProductsNat, Bounds
    <3> HIDE DEF x, y, z, most
    <3>2. shown + Acc + a + x <= MostCap + (Before + z)
      BY <1>1, <1>6, <1>8, <3>1, NumbersNat, AcceptedFits
    <3>3. shown + Acc + a + x <= most
      BY <3>1, <3>2
    <3> QED BY <3>3 DEF x, most
  <2>6. BehindServing' = BehindServing
    BY <1>1, <1>5, <1>10, NumbersNat
  <2>7. shown' + Acc' + MaxFile * BehindServing' <= MostCap + Everyone
    <3>1. shown' + Acc' = shown + Acc + a
      BY <1>1, <1>4, <1>6, NumbersNat
    <3> QED BY <2>5, <2>6, <3>1
  <2> QED BY <1>1, <1>2, <1>3, <1>4, <1>5, <1>7, <1>10, <2>1, <2>4, <2>7, TurnKeeps
<1>11. CASE g < gen
  <2>1. usage'[gen] = usage[gen]
    BY <1>1, <1>11
  <2>2. usage[gen] # -1 => shown + MaxFile * Behind <= usage[gen] + OwnPlc + Before
    BY DEF Room4All, Uncounted, Behind, OwnPlc, Before
  <2>3. MaxFile * BehindServing' = MaxFile * BehindServing - MaxFile
    BY <1>5, <1>11, OneLess, NumbersNat
  <2>4. shown' + Acc' + MaxFile * BehindServing' <= MostCap + Everyone
    <3> DEFINE x == MaxFile * BehindServing
               y == MaxFile * BehindServing'
               most == MostCap + Everyone
    <3>1. /\ x \in Nat /\ y = x - MaxFile
      BY <2>3, ProductsNat
    <3>2. shown + Acc + x <= most /\ most \in Nat
      BY <1>9, Bounds, Constants
    <3> HIDE DEF x, y, most
    <3>3. shown + (Acc + a) + (x - MaxFile) <= most
      BY <1>1, <1>6, <3>1, <3>2, NumbersNat, AcceptedBehind
    <3>4. shown' + Acc' + y <= most
      BY <1>4, <3>1, <3>3
    <3> QED BY <3>4 DEF y, most
  <2>5. handler[c].gen < gen /\ handler[c].stage \in Started
    BY <1>1, <1>11 DEF Started
  <2> QED BY <1>1, <1>2, <1>3, <1>4, <1>5, <1>7, <1>11, <2>1, <2>2, <2>4, <2>5, TurnKeeps
<1> QED BY <1>1, <1>10, <1>11

-----------------------------------------------------------------------------
(* Steps of the mailbox.                                                   *)

LEMMA ConnectionRoom ==
    ASSUME TypeOK, Room4All, NEW c \in Conn, Connection(c)
    PROVE  Room4All'
<1>1. /\ handler \in [Handler -> Task] /\ c \in Handler /\ c # Pull /\ gen \in 1..MaxGen
      /\ handler[c].gen \in Nat /\ handler[c].gen <= gen /\ handler[c].stage \in Started \cup {"free"}
      /\ handler[c] \in Task
  BY Constants DEF TypeOK, Task, Started
<1>2. ASSUME UNCHANGED <<usage, stored>>
      PROVE  /\ \A g \in 1..MaxGen : g > gen => usage'[g] = -1
             /\ usage'[gen] # -1 => usage'[gen] \in Seen(gen)
             /\ usage' \in [1..MaxGen -> Nat \cup {-1}]
  BY <1>2 DEF Room4All, NotYetCounted, Seen, stored, TypeOK
<1>3. ASSUME NEW a \in Address, Admit(c, a) PROVE Room4All'
  <2> DEFINE r == [stage |-> "shaking", ip |-> a, gen |-> gen, size |-> 0, kind |-> "shown"]
  <2>1. Turns(c, r) /\ r.gen = gen /\ r.stage = "shaking" /\ handler[c].stage = "free"
        /\ UNCHANGED <<usage, stored>>
    BY <1>1, <1>3, Constants DEF Admit, Open, Turns, Task
  <2>2. gen \in Nat /\ ~(gen < gen)
    BY <1>1
  <2> HIDE DEF r
  <2> QED BY <1>1, <1>2, <2>1, <2>2, Withdraws DEF stored
<1>4. ASSUME NEW st \in {"serving", "ending"}, handler[c].stage \in {"shaking", "serving", "accepted"},
             handler' = [handler EXCEPT ![c].stage = st],
             st = "serving" => handler[c].gen = gen, UNCHANGED <<gen, usage, stored>>
      PROVE  Room4All'
  <2> DEFINE r == [handler[c] EXCEPT !.stage = st]
  <2>1. Turns(c, r)
    BY <1>1, <1>4, Stages
  <2>2. r.gen = handler[c].gen /\ r.stage = st
    BY <1>1 DEF Task
  <2>3. /\ handler[c].stage # "placed" /\ handler[c].stage \in Started
        /\ r.stage \notin {"accepted", "placed"} /\ r.gen < gen => r.stage = "ending"
    BY <1>1, <1>4, <2>2 DEF Started
  <2> HIDE DEF r
  <2> QED BY <1>1, <1>2, <1>4, <2>1, <2>2, <2>3, Withdraws DEF stored
<1>5. CASE Handshake(c)
  BY <1>4, <1>5 DEF Handshake, Become
<1>6. CASE Strike(c)
  BY <1>4, <1>6 DEF Strike, Become
<1>7. CASE TurnAway(c)
  BY <1>4, <1>7 DEF TurnAway, Become
<1>8. CASE Release(c)
  <2>1. Turns(c, Free) /\ handler[c].stage = "ending" /\ UNCHANGED <<usage, stored>>
    BY <1>1, <1>8, Constants DEF Release, Turns
  <2>2. Free.stage = "free" /\ Free.stage \notin Started
    BY DEF Free, Started
  <2> QED BY <1>1, <1>2, <2>1, <2>2, Withdraws DEF stored
<1> QED BY <1>3, <1>5, <1>6, <1>7, <1>8 DEF Connection

\* Room is asked by a handler that serves, or by the one that pulls.
LEMMA RoomRoom ==
    ASSUME TypeOK, Limits, Room4All, NEW c \in Handler, NEW s \in Sizes, NEW g \in 1..gen,
           NEW refused \in Task, Room(c, s, g, refused),
           \/ c = Pull /\ handler[c].stage = "free" /\ g = gen /\ refused.stage = "free"
           \/ /\ c \in Conn /\ handler[c].stage = "serving" /\ handler[c].gen = g
              /\ refused.stage = "ending" /\ refused.gen = g
    PROVE  Room4All'
<1>1. /\ g \in 1..MaxGen /\ gen \in 1..MaxGen /\ handler \in [Handler -> Task] /\ gen \in Nat
      /\ usage \in [1..MaxGen -> Nat \cup {-1}] /\ handler[c] \in Task /\ Pull \notin Conn
  BY Constants DEF TypeOK
<1>2. PICK u \in Seen(g), kind \in {"shown", "hidden"} :
         /\ usage' = [usage EXCEPT ![g] = u]
         /\ (u + s <= Cap[g] /\ Turns(c, Accepted(c, s, g, kind))) \/ Turns(c, refused)
         /\ gen' = gen /\ shown' = shown
  BY <1>1, Rooms DEF stored
<1> DEFINE r == Accepted(c, s, g, kind)
<1>3. r.stage = "accepted" /\ r.gen = g /\ r.size = s /\ r.kind \in {"shown", "hidden"}
  BY <1>1, AcceptedIs
<1> HIDE DEF r
<1>4. CASE u + s <= Cap[g] /\ Turns(c, r)
  <2>1. u \in Nat /\ s \in Nat /\ Cap[g] \in Nat /\ Cap[g] <= MostCap /\ MostCap \in Nat
    BY <1>1, SeenIsNat, Constants DEF Room4All
  <2>2. u + s <= MostCap
    BY <1>4, <2>1
  <2> QED BY <1>2, <1>3, <1>4, <2>2, Accepts
<1>5. CASE Turns(c, refused)
  <2>1. u \in Nat
    BY <1>1, SeenIsNat DEF Room4All
  <2>2. /\ \A k \in 1..MaxGen : k > gen => usage'[k] = -1
        /\ usage' \in [1..MaxGen -> Nat \cup {-1}]
        /\ usage'[gen] # -1 => usage'[gen] \in Seen(gen)
    <3>1. g = gen => usage'[gen] = u
      BY <1>1, <1>2
    <3>2. g # gen => usage'[gen] = usage[gen]
      BY <1>1, <1>2
    <3>3. usage[gen] # -1 => usage[gen] \in Seen(gen)
      BY DEF Seen
    <3>4. \A k \in 1..MaxGen : k > gen => usage'[k] = -1
      BY <1>1, <1>2 DEF Room4All, NotYetCounted
    <3>5. usage' \in [1..MaxGen -> Nat \cup {-1}]
      BY <1>1, <1>2, <2>1
    <3> QED BY <1>2, <3>1, <3>2, <3>3, <3>4, <3>5
  <2>3. CASE c = Pull
    <3>1. /\ handler[c].stage # "placed" /\ refused.stage = "free" /\ c \notin Conn
      BY <1>1, <2>3
    <3> QED BY <1>2, <1>5, <2>2, <3>1, Withdraws
  <2>4. CASE c \in Conn
    <3>1. /\ handler[c].stage = "serving" /\ handler[c].gen = g /\ c # Pull
          /\ refused.stage = "ending" /\ refused.gen = g /\ handler[c].stage \in Started
      BY <1>1, <2>4 DEF Started
    <3>2. handler[c].stage # "placed" /\ refused.stage \notin {"accepted", "placed"}
      BY <3>1
    <3> QED BY <1>2, <1>5, <2>2, <3>1, <3>2, Withdraws
  <2> QED BY <2>3, <2>4 DEF Handler
<1> QED BY <1>2, <1>4, <1>5 DEF r

LEMMA PlaceFits ==
    ASSUME NEW st \in Nat, NEW x \in Nat, NEW file \in Nat, NEW size \in Nat, NEW u \in Nat,
           NEW plc \in Nat, NEW before \in Nat, size <= file
    PROVE  /\ st + x <= u + plc + before => (st + size) + x <= u + (plc + size) + before
           /\ st + x <= u + plc + before => (st + size) + (x - file) <= u + plc + before
OBVIOUS

LEMMA CountFits ==
    ASSUME NEW st \in Nat, NEW x \in Nat, NEW size \in Nat, NEW b \in Nat, b <= size, NEW u \in Nat,
           NEW plc \in Nat, NEW before \in Nat, st + x <= u + plc + before
    PROVE  /\ st + x <= (u + size) + (plc - b + 0) + before
           /\ (st - b) + x <= u + (plc - b + 0) + before
           /\ (st - b) + x <= u + (plc - 0 + 0) + before
           /\ st + x <= u + (plc - 0 + 0) + before
OBVIOUS

LEMMA SameSum ==
    ASSUME NEW st \in Nat, NEW acc \in Nat, NEW size \in Nat
    PROVE  (st + size) + (acc - size + 0) = st + acc
OBVIOUS

LEMMA LessStored ==
    ASSUME NEW st \in Nat, NEW less \in Int, less <= st, NEW x \in Nat, NEW acc \in Nat,
           NEW most \in Nat, st + acc + x <= most
    PROVE  less + acc + x <= most
OBVIOUS

LEMMA PlaceRoom ==
    ASSUME TypeOK, Room4All, NEW c \in Handler, Place(c)
    PROVE  Room4All'
<1> DEFINE q == handler[c]
           r == [handler[c] EXCEPT !.stage = "placed"]
           b == Adds(q)
<1>1. /\ handler \in [Handler -> Task] /\ q \in Task /\ q.size \in Nat /\ q.size <= MaxFile
      /\ b \in Nat /\ b <= MaxFile
      /\ q.gen \in Nat /\ q.gen <= gen /\ q.stage = "accepted" /\ shown \in Nat
      /\ MaxFile \in Nat /\ gen \in 1..MaxGen /\ gen \in Nat /\ Pull \notin Conn
      /\ usage \in [1..MaxGen -> Nat \cup {-1}]
  BY Constants, AddsNat DEF TypeOK, Task, Place
<1>2. Turns(c, r) /\ shown' = shown + b /\ usage' = usage
  <2>1. Turns(c, r) /\ usage' = usage
    BY Stages DEF Place, Become
  <2>2. shown' = shown + b
    BY <1>1 DEF Place, Stores, Adds
  <2> QED BY <2>1, <2>2
<1>3. r.gen = q.gen /\ r.size = q.size /\ r.stage = "placed" /\ Adds(r) = b
  BY <1>1 DEF Task, Adds
<1>4. c = Pull => q.gen = gen
  BY <1>1 DEF Room4All, PullsForNow
<1>5. c \in Conn \/ c = Pull
  BY DEF Handler
<1> HIDE DEF r
<1>6. Acc' = Acc - b + 0 /\ Plc' = Plc - 0 + b
  BY <1>1, <1>2, <1>3, Sums
<1>7. /\ OwnPlc' = OwnPlc - 0 + (IF q.gen = gen THEN b ELSE 0)
      /\ BehindServing' = BehindServing - 0 + 0
  BY <1>1, <1>2, <1>3, Sums
<1>8. Behind' = Behind - (IF q.gen < gen THEN 1 ELSE 0) + 0
  BY <1>1, <1>2, <1>3, <1>4, <1>5, Sums
<1> HIDE DEF q, b
<1>9. Plc' <= shown'
  BY <1>1, <1>2, <1>6, NumbersNat DEF Room4All, PlacedStored, Plc
<1>10. ASSUME usage'[gen] # -1
       PROVE  shown' + MaxFile * Behind' <= usage'[gen] + OwnPlc' + Before
  <2>1. shown + MaxFile * Behind <= usage[gen] + OwnPlc + Before /\ usage[gen] \in Nat
    BY <1>1, <1>2, <1>10 DEF Room4All, Uncounted, Behind, OwnPlc, Before
  <2>2. CASE q.gen = gen
    <3>1. Behind' = Behind /\ OwnPlc' = OwnPlc + b
      BY <1>1, <1>7, <1>8, <2>2, NumbersNat
    <3>2. (shown + b) + MaxFile * Behind <= usage[gen] + (OwnPlc + b) + Before
      BY <1>1, <2>1, NumbersNat, ProductsNat, Bounds, PlaceFits
    <3> QED BY <1>2, <3>1, <3>2
  <2>3. CASE q.gen < gen
    <3>1. Behind' = Behind - 1 /\ OwnPlc' = OwnPlc
      BY <1>1, <1>7, <1>8, <2>3, NumbersNat
    <3>2. MaxFile * Behind' = MaxFile * Behind - MaxFile
      BY <3>1, OneLess, NumbersNat
    <3>3. (shown + b) + (MaxFile * Behind - MaxFile) <= usage[gen] + OwnPlc + Before
      BY <1>1, <2>1, NumbersNat, ProductsNat, Bounds, PlaceFits
    <3> QED BY <1>2, <3>1, <3>2, <3>3
  <2> QED BY <1>1, <2>2, <2>3
<1>11. shown' + Acc' + MaxFile * BehindServing' <= MostCap + Everyone
  <2>1. shown + Acc + MaxFile * BehindServing <= MostCap + Everyone
    BY DEF Room4All, AllowedFor, Acc, BehindServing, Everyone
  <2>2. shown' + Acc' = shown + Acc /\ BehindServing' = BehindServing
    <3>1. shown' + Acc' = (shown + b) + (Acc - b + 0)
      BY <1>2, <1>6
    <3>2. BehindServing' = BehindServing
      BY <1>7, NumbersNat
    <3> QED BY <1>1, <3>1, <3>2, NumbersNat, SameSum
  <2> QED BY <2>1, <2>2
<1>12. \A g \in 1..MaxGen : g > gen => usage'[g] = -1
  BY <1>2 DEF Room4All, NotYetCounted
<1>13. c \in Conn /\ r.gen < gen /\ r.stage \in Started => handler[c].gen < gen /\ handler[c].stage \in Started
  BY <1>1, <1>3 DEF q, Started
<1> QED BY <1>2, <1>3, <1>4, <1>9, <1>10, <1>11, <1>12, <1>13, TurnKeeps

\* What has been placed is counted, or taken away again.
LEMMA AfterRoom ==
    ASSUME TypeOK, Room4All, NEW c \in Handler, handler[c].stage = "placed",
           handler' = [handler EXCEPT ![c] = After(c)], gen' = gen,
           \/ /\ usage' = [usage EXCEPT ![handler[c].gen] = @ + handler[c].size]
              /\ shown' = shown
           \/ usage' = usage /\ shown' = shown - Adds(handler[c])
    PROVE  Room4All'
<1> DEFINE q == handler[c]
           r == After(c)
           b == Adds(q)
<1>1. /\ handler \in [Handler -> Task] /\ q \in Task /\ q.size \in Nat
      /\ b \in Nat /\ b <= q.size
      /\ q.gen \in Nat /\ q.gen <= gen /\ q.stage = "placed" /\ shown \in Nat
      /\ MaxFile \in Nat /\ gen \in 1..MaxGen /\ gen \in Nat /\ Pull \notin Conn
      /\ usage \in [1..MaxGen -> Nat \cup {-1}] /\ q.gen \in 1..MaxGen /\ usage[q.gen] \in Nat
  <2>1. handler \in [Handler -> Task] /\ q \in Task /\ q.stage = "placed"
    BY DEF TypeOK
  <2>2. b \in Nat /\ b <= q.size /\ q.size \in Nat /\ q.gen \in 1..MaxGen
    BY <2>1, AddsNat DEF Task
  <2>3. /\ q.gen \in Nat /\ q.gen <= gen /\ gen \in 1..MaxGen /\ shown \in Nat
        /\ usage \in [1..MaxGen -> Nat \cup {-1}] /\ usage[q.gen] # -1
    BY <2>2 DEF TypeOK
  <2>4. MaxFile \in Nat /\ Pull \notin Conn /\ gen \in Nat /\ usage[q.gen] \in Nat
    BY <2>2, <2>3, Constants
  <2> QED BY <2>1, <2>2, <2>3, <2>4
<1>2. r \in Task /\ (c = Pull => r.stage = "free") /\ (c # Pull => r.stage = "ending" /\ r.gen = q.gen)
  <2>1. c = Pull => r = Free
    BY DEF After
  <2>2. c # Pull => r = [q EXCEPT !.stage = "ending", !.size = 0, !.kind = "shown"]
    BY DEF After
  <2> HIDE DEF r, q, b
  <2>3. c = Pull => r \in Task /\ r.stage = "free"
    BY <2>1, Constants DEF Free
  <2>4. c # Pull => r \in Task /\ r.stage = "ending" /\ r.gen = q.gen
    BY <1>1, <2>2, EndOf
  <2> QED BY <2>3, <2>4
<1>3. Turns(c, r)
  BY <1>2 DEF Turns
<1> HIDE DEF r
<1>4. r.stage \in {"free", "ending"}
  BY <1>2
<1>5. /\ Acc' = Acc - 0 + 0 /\ Plc' = Plc - b + 0
      /\ OwnPlc' = OwnPlc - (IF q.gen = gen THEN b ELSE 0) + 0
  BY <1>1, <1>3, <1>4, Sums
<1>6. Behind' = Behind - 0 + 0 /\ BehindServing' = BehindServing - 0 + 0
  BY <1>1, <1>3, <1>4, Sums
<1>7. Behind' = Behind /\ BehindServing' = BehindServing /\ Acc' = Acc
  BY <1>5, <1>6, NumbersNat
<1>8. \/ usage' = [usage EXCEPT ![q.gen] = @ + q.size] /\ shown' = shown
      \/ usage' = usage /\ shown' = shown - b
  OBVIOUS
<1>9. c \in Conn /\ r.gen < gen /\ r.stage \in Started => handler[c].gen < gen /\ handler[c].stage \in Started
  BY <1>1, <1>2 DEF Started
<1>10. c = Pull /\ r.stage # "free" => r.gen = gen
  BY <1>2
<1> HIDE DEF q, b
<1>11. Plc' <= shown'
  <2>1. Plc <= shown
    BY DEF Room4All, PlacedStored, Plc
  <2>2. shown' \in {shown, shown - b} /\ Plc' = Plc - b
    BY <1>5, <1>8, NumbersNat, <1>1
  <2> QED BY <1>1, <2>1, <2>2, NumbersNat
<1>12. \A g \in 1..MaxGen : g > gen => usage'[g] = -1
  <2>1. ASSUME NEW g \in 1..MaxGen, g > gen PROVE usage'[g] = usage[g]
    <3>1. g # q.gen
      BY <1>1, <2>1
    <3> QED BY <1>1, <1>8, <3>1
  <2> QED BY <2>1 DEF Room4All, NotYetCounted
<1>13. ASSUME usage'[gen] # -1
       PROVE  shown' + MaxFile * Behind' <= usage'[gen] + OwnPlc' + Before
  <2>1. /\ q.gen = gen => \/ usage'[gen] = usage[gen] + q.size /\ shown' = shown
                          \/ usage'[gen] = usage[gen] /\ shown' = shown - b
        /\ q.gen # gen => usage'[gen] = usage[gen] /\ shown' \in {shown, shown - b}
    BY <1>1, <1>8
  <2>2. usage[gen] # -1 /\ usage[gen] \in Nat
    BY <1>1, <1>13, <2>1
  <2>3. shown + MaxFile * Behind <= usage[gen] + OwnPlc + Before
    BY <2>2 DEF Room4All, Uncounted, Behind, OwnPlc, Before
  <2> DEFINE x == MaxFile * Behind
  <2>4. shown + x <= usage[gen] + OwnPlc + Before /\ x \in Nat /\ Before \in Nat /\ OwnPlc \in Nat
    BY <2>3, ProductsNat, NumbersNat, Bounds
  <2> HIDE DEF x
  <2>5. shown' + x <= usage'[gen] + OwnPlc' + Before
    <3>1. /\ shown + x <= (usage[gen] + q.size) + (OwnPlc - b + 0) + Before
          /\ (shown - b) + x <= usage[gen] + (OwnPlc - b + 0) + Before
          /\ (shown - b) + x <= usage[gen] + (OwnPlc - 0 + 0) + Before
          /\ shown + x <= usage[gen] + (OwnPlc - 0 + 0) + Before
      BY <1>1, <2>2, <2>4, CountFits
    <3>2. CASE q.gen = gen
      <4>1. OwnPlc' = OwnPlc - b + 0
        BY <1>5, <3>2
      <4> QED BY <2>1, <3>1, <3>2, <4>1
    <3>3. CASE q.gen # gen
      <4>1. OwnPlc' = OwnPlc - 0 + 0 /\ OwnPlc - 0 + 0 = OwnPlc
        BY <1>5, <3>3, <2>4
      <4> QED BY <2>1, <2>4, <3>1, <3>3, <4>1
    <3> QED BY <3>2, <3>3
  <2> QED BY <1>7, <2>5 DEF x
<1>14. shown' + Acc' + MaxFile * BehindServing' <= MostCap + Everyone
  <2> DEFINE x == MaxFile * BehindServing
             most == MostCap + Everyone
  <2>1. shown + Acc + x <= most /\ x \in Nat /\ most \in Nat /\ Acc \in Nat
    BY ProductsNat, NumbersNat, Bounds, Constants
    DEF Room4All, AllowedFor, Acc, BehindServing, Everyone
  <2>2. shown' \in {shown, shown - b}
    BY <1>8
  <2> HIDE DEF x, most
  <2>3. shown' + Acc + x <= most
    <3>1. shown' \in Int /\ shown' <= shown
      BY <1>1, <2>2
    <3> QED BY <1>1, <2>1, <3>1, LessStored
  <2> QED BY <1>7, <2>3 DEF x, most
<1> QED BY <1>3, <1>9, <1>10, <1>11, <1>12, <1>13, <1>14, TurnKeeps

LEMMA FileRoom ==
    ASSUME TypeOK, Limits, Room4All, NEW c \in Handler, File(c)
    PROVE  Room4All'
<1>1. ASSUME NEW s \in Sizes, Announce(c, s) PROVE Room4All'
  <2> DEFINE r == [handler[c] EXCEPT !.stage = "ending"]
  <2>1. handler[c] \in Task /\ handler[c].gen \in 1..gen
    BY DEF TypeOK, Task
  <2>2. r \in Task /\ r.stage = "ending" /\ r.gen = handler[c].gen
    BY <2>1 DEF Task
  <2>3. Room(c, s, handler[c].gen, r) /\ c \in Conn /\ handler[c].stage = "serving"
    BY <1>1 DEF Announce
  <2> HIDE DEF r
  <2> QED BY <2>1, <2>2, <2>3, RoomRoom
<1>2. CASE Count(c)
  BY <1>2, AfterRoom DEF Count, stored
<1>3. CASE Unplace(c)
  <2>1. shown' = shown - Adds(handler[c])
    <3>1. shown \in Nat /\ handler[c].size \in Nat
      BY Constants DEF TypeOK
    <3> QED BY <1>3, <3>1 DEF Unplace, Stores, Adds
  <2> QED BY <1>3, <2>1, AfterRoom DEF Unplace
<1> QED BY <1>1, <1>2, <1>3, PlaceRoom DEF File

\* No handler does anything.
LEMMA NobodyRoom ==
    ASSUME TypeOK, TypeOK', Room4All, UNCHANGED <<gen, handler, usage>>, shown' <= shown,
           Plc <= shown'
    PROVE  Room4All'
<1>1. /\ Plc' = Plc /\ Acc' = Acc /\ OwnPlc' = OwnPlc /\ Behind' = Behind
      /\ BehindServing' = BehindServing /\ BehindAll' = BehindAll
  BY DEF Plc, Acc, OwnPlc, Behind, BehindServing, BehindAll, Size, At, Shown, Own, Left
<1>2. /\ shown \in Nat /\ shown' \in Nat /\ gen \in 1..MaxGen /\ MostCap \in Nat
      /\ usage \in [1..MaxGen -> Nat \cup {-1}]
  BY Constants DEF TypeOK
<1>3. PlacedStored' /\ NotYetCounted' /\ PullsForNow' /\ FewLeft'
  BY <1>1 DEF PlacedStored, Plc, Room4All, NotYetCounted, PullsForNow, FewLeft, BehindAll, Started
<1>4. Uncounted'
  <2>1. ASSUME usage[gen] # -1 PROVE shown' + MaxFile * Behind <= usage[gen] + OwnPlc + Before
    <3> DEFINE x == MaxFile * Behind
    <3>1. shown + x <= usage[gen] + OwnPlc + Before /\ x \in Nat /\ Before \in Nat
          /\ OwnPlc \in Nat /\ usage[gen] \in Nat
      BY <1>2, <2>1, ProductsNat, NumbersNat, Bounds
      DEF Room4All, Uncounted, Behind, OwnPlc, Before
    <3> HIDE DEF x
    <3>2. shown' + x <= usage[gen] + OwnPlc + Before
      BY <1>2, <3>1
    <3> QED BY <3>2 DEF x
  <2> QED BY <1>1, <2>1 DEF Uncounted, Behind, OwnPlc, Before
<1>5. AllowedFor'
  <2> DEFINE x == MaxFile * BehindServing
             most == MostCap + Everyone
  <2>1. shown + Acc + x <= most /\ x \in Nat /\ most \in Nat /\ Acc \in Nat
    BY <1>2, ProductsNat, NumbersNat, Bounds
    DEF Room4All, AllowedFor, Acc, BehindServing, Everyone
  <2> HIDE DEF x, most
  <2>2. shown' + Acc + x <= most
    <3>1. shown' \in Int /\ shown' <= shown /\ shown \in Nat
      BY <1>2
    <3> QED BY <2>1, <3>1, LessStored
  <2> QED BY <1>1, <2>2 DEF x, most, AllowedFor, Acc, BehindServing, Everyone
<1> QED BY <1>3, <1>4, <1>5 DEF Room4All

LEMMA RestartRoom ==
    ASSUME TypeOK, Limits, Room4All, RestartInPlace
    PROVE  Room4All'
<1>1. /\ gen' = gen + 1 /\ handler' = handler /\ usage' = usage /\ shown' = shown
      /\ handler[Pull].stage = "free" /\ gen \in Nat /\ gen + 1 \in 1..MaxGen
      /\ MostConns \in Nat /\ MaxFile \in Nat /\ MostCap \in Nat /\ shown \in Nat
  BY Constants DEF RestartInPlace, TypeOK, Free, stored
<1>2. \A c \in Conn : /\ handler[c].gen \in Nat /\ handler[c].gen <= gen
                      /\ handler[c].stage \in Started \cup {"free"}
  BY Constants DEF TypeOK, Task, Started
<1>3. Plc' = Plc /\ Acc' = Acc
  BY <1>1 DEF Plc, Acc, Size, At, Shown
<1>4. /\ Current \in SUBSET Handler /\ IsFiniteSet(Current) /\ Cardinality(Current) \in Nat
      /\ Cardinality(Current) <= MostConns
  BY HandlersFinite, Constants, Settings DEF Limits, CapsHold, Current, TypeOK
<1>5. ASSUME NEW S \in SUBSET Started
      PROVE  /\ Cardinality(Left(S)') <= Cardinality(Left(S)) + MostConns
             /\ Cardinality(Left(S)') \in Nat
  <2>1. Left(S)' \in SUBSET (Left(S) \cup Current)
    BY <1>1, <1>2 DEF Left, Current, Started
  <2>2. /\ IsFiniteSet(Left(S)) /\ Cardinality(Left(S)) \in Nat
        /\ IsFiniteSet(Left(S) \cap Current) /\ Cardinality(Left(S) \cap Current) \in Nat
    BY SetsOfHandlers, HandlersFinite
  <2>3. /\ IsFiniteSet(Left(S) \cup Current)
        /\ Cardinality(Left(S) \cup Current)
              = Cardinality(Left(S)) + Cardinality(Current) - Cardinality(Left(S) \cap Current)
    BY <1>4, <2>2, FS_Union
  <2>4. Cardinality(Left(S)') <= Cardinality(Left(S) \cup Current) /\ Cardinality(Left(S)') \in Nat
    BY <2>1, <2>3, FS_Subset, FS_CardinalityType
  <2> QED BY <1>1, <1>4, <2>2, <2>3, <2>4
<1>6. PlacedStored' /\ NotYetCounted' /\ PullsForNow'
  <2>1. NotYetCounted'
    BY <1>1 DEF Room4All, NotYetCounted, TypeOK
  <2> QED BY <1>1, <1>3, <2>1 DEF Room4All, PlacedStored, Plc, PullsForNow
<1>7. FewLeft'
  <2>1. BehindAll <= MostConns * (gen - 1) /\ BehindAll \in Nat
    BY NumbersNat DEF Room4All, FewLeft, BehindAll, Started
  <2>2. BehindAll' <= BehindAll + MostConns /\ BehindAll' \in Nat
    BY <1>5 DEF BehindAll
  <2>3. MostConns * gen = MostConns * (gen - 1) + MostConns /\ MostConns * (gen - 1) \in Nat
    BY <1>1, Bounds, TypeOK, Product
  <2> DEFINE x == MostConns * (gen - 1)
             y == MostConns * gen
  <2>4. BehindAll <= x /\ x \in Nat /\ y = x + MostConns
    BY <2>1, <2>3
  <2> HIDE DEF x, y
  <2>5. BehindAll' <= y
    BY <1>1, <2>1, <2>2, <2>4
  <2>6. gen' - 1 = gen
    BY <1>1
  <2> QED BY <2>5, <2>6 DEF y, FewLeft, BehindAll, Started
<1>8. Uncounted'
  BY <1>1 DEF Uncounted, Room4All, NotYetCounted
<1>9. AllowedFor'
  <2>1. BehindServing' <= BehindServing + MostConns /\ BehindServing' \in Nat
    BY <1>5 DEF BehindServing, Started
  <2>2. MaxFile * BehindServing' <= MaxFile * (BehindServing + MostConns)
    <3>1. BehindServing + MostConns \in Nat
      BY <1>1, NumbersNat
    <3> QED BY <1>1, <2>1, <3>1, ProductMonotonic
  <2>3. MaxFile * (BehindServing + MostConns) = MaxFile * BehindServing + MaxFile * MostConns
    BY <1>1, NumbersNat
  <2>4. MostConns * (gen + 1) = MostConns * gen + MostConns /\ MostConns * gen \in Nat
    BY <1>1
  <2>5. MaxFile * (MostConns * gen + MostConns) = MaxFile * (MostConns * gen) + MaxFile * MostConns
    BY <1>1, <2>4
  <2>6. Everyone' = Everyone + MaxFile * MostConns
    BY <1>1, <2>4, <2>5 DEF Everyone
  <2>7. shown + Acc + MaxFile * BehindServing <= MostCap + Everyone
    BY DEF Room4All, AllowedFor, Acc, BehindServing, Everyone
  <2> DEFINE x == MaxFile * BehindServing
             y == MaxFile * BehindServing'
             z == MaxFile * MostConns
  <2>8. /\ y <= x + z /\ shown + Acc + x <= MostCap + Everyone /\ Everyone' = Everyone + z
        /\ x \in Nat /\ z \in Nat /\ y \in Nat /\ Acc \in Nat /\ Everyone \in Nat
    BY <1>1, <2>1, <2>2, <2>3, <2>6, <2>7, ProductsNat, NumbersNat, Bounds, Product
  <2> HIDE DEF x, y, z
  <2>9. shown + Acc + y <= MostCap + Everyone'
    BY <1>1, <2>8
  <2>10. shown' + Acc' + MaxFile * BehindServing' <= MostCap + Everyone'
    BY <1>1, <1>3, <2>9 DEF y
  <2> QED BY <2>10 DEF AllowedFor, Acc, BehindServing, Everyone
<1> QED BY <1>6, <1>7, <1>8, <1>9 DEF Room4All

LEMMA StepRoom ==
    ASSUME TypeOK, TypeOK', Limits, Room4All, [Next]_vars
    PROVE  Room4All'
<1>1. Plc <= shown /\ Plc \in Nat /\ shown \in Nat
  BY NumbersNat DEF Room4All, PlacedStored, Plc, TypeOK
<1>2. CASE UNCHANGED vars
  BY <1>1, <1>2, NobodyRoom DEF vars, stored
<1>3. ASSUME NEW a \in Address, Expire(a) PROVE Room4All'
  BY <1>1, <1>3, NobodyRoom DEF Expire, stored
<1>4. ASSUME NEW s \in Sizes, Offer(s) PROVE Room4All'
  <2>1. gen \in 1..gen /\ Free \in Task /\ Free.stage = "free" /\ Pull \in Handler
    BY Constants DEF TypeOK, Free
  <2>2. Room(Pull, s, gen, Free) /\ handler[Pull].stage = "free"
    BY <1>4, <2>1 DEF Offer
  <2> QED BY <2>1, <2>2, RoomRoom
<1>5. ASSUME NEW s \in Sizes, Leave(s) PROVE Room4All'
  <2>1. shown' <= shown /\ Plc <= shown'
    BY <1>1, <1>5, Constants DEF Leave, Plc
  <2> QED BY <1>1, <1>5, <2>1, NobodyRoom DEF Leave
<1>6. CASE PullFails
  <2>1. Turns(Pull, Free) /\ handler[Pull].stage = "accepted" /\ UNCHANGED <<usage, stored>>
    BY <1>6, Constants DEF PullFails, Turns
  <2>2. Free.stage = "free" /\ Pull \notin Conn
    BY Constants DEF Free
  <2>3. /\ \A g \in 1..MaxGen : g > gen => usage'[g] = -1
        /\ usage'[gen] # -1 => usage'[gen] \in Seen(gen)
        /\ usage' \in [1..MaxGen -> Nat \cup {-1}]
    BY <2>1 DEF Room4All, NotYetCounted, Seen, stored, TypeOK
  <2> QED BY <2>1, <2>2, <2>3, Withdraws DEF stored
<1> QED BY <1>2, <1>3, <1>4, <1>5, <1>6, ConnectionRoom, FileRoom, RestartRoom DEF Next

-----------------------------------------------------------------------------
(* The files a scan passes over.                                           *)

Hid == Size(Hidden("placed"))

\* What a handler has in the mailbox and no scan finds.
Hides(r) == IF r.stage = "placed" /\ r.kind = "hidden" THEN r.size ELSE 0

LEMMA HiddenSum ==
    ASSUME TypeOK, NEW c, NEW r, Turns(c, r)
    PROVE  /\ Hid' = Hid - Hides(handler[c]) + Hides(r)
           /\ Hid \in Nat /\ Hides(handler[c]) \in Nat /\ Hides(r) \in Nat
<1>1. /\ handler \in [Handler -> Task] /\ handler' \in [Handler -> Task] /\ c \in Handler
      /\ handler'[c] = r /\ r \in Task /\ handler[c] \in Task
      /\ \A d \in Handler \ {c} : handler'[d] = handler[d]
  BY DEF TypeOK, Turns
<1>2. /\ Hidden("placed") \in SUBSET Handler /\ Hidden("placed")' \in SUBSET Handler
      /\ Hidden("placed") \ {c} = Hidden("placed")' \ {c}
      /\ c \in Hidden("placed") <=> handler[c].stage = "placed" /\ handler[c].kind # "shown"
      /\ c \in Hidden("placed")' <=> r.stage = "placed" /\ r.kind # "shown"
  BY <1>1 DEF At, Shown, Hidden
<1>3. /\ handler[c].kind \in {"shown", "hidden"} /\ r.kind \in {"shown", "hidden"}
      /\ handler[c].size \in Nat /\ r.size \in Nat
  BY <1>1, Constants DEF Task
<1>4. /\ SizeIn(handler, Hidden("placed")) \in Nat
      /\ SizeIn(handler', Hidden("placed")') = SizeIn(handler, Hidden("placed"))
           - (IF c \in Hidden("placed") THEN handler[c].size ELSE 0)
           + (IF c \in Hidden("placed")' THEN handler'[c].size ELSE 0)
  BY <1>1, <1>2, SizeChange
<1>5. Hid = SizeIn(handler, Hidden("placed")) /\ Hid' = SizeIn(handler', Hidden("placed")')
  BY DEF Hid, Size
<1>6. /\ Hides(handler[c]) = IF c \in Hidden("placed") THEN handler[c].size ELSE 0
      /\ Hides(r) = IF c \in Hidden("placed")' THEN r.size ELSE 0
  BY <1>2, <1>3 DEF Hides
<1> QED BY <1>1, <1>3, <1>4, <1>5, <1>6

\* Nothing of that kind is placed.
LEMMA NothingHidden ==
    ASSUME TypeOK, PlacedHidden, NEW c, NEW r, Turns(c, r), r.stage # "placed", hidden' = hidden
    PROVE  PlacedHidden'
<1>1. Hides(r) = 0 /\ hidden \in Nat /\ Hid <= hidden
  BY DEF Hides, TypeOK, PlacedHidden, Hid
<1>2. Hid' <= hidden'
  BY <1>1, HiddenSum
<1> QED BY <1>2 DEF PlacedHidden, Hid

LEMMA RoomHidden ==
    ASSUME TypeOK, PlacedHidden, NEW c \in Handler, NEW s \in Sizes, NEW g \in 1..MaxGen,
           NEW refused \in Task, refused.stage # "placed", Room(c, s, g, refused)
    PROVE  PlacedHidden'
<1>1. PICK u \in Seen(g), kind \in {"shown", "hidden"} :
         /\ \/ u + s <= Cap[g] /\ Turns(c, Accepted(c, s, g, kind))
            \/ Turns(c, refused)
         /\ UNCHANGED <<gen, limiter, stored>>
  BY Rooms
<1>2. Accepted(c, s, g, kind).stage # "placed" /\ hidden' = hidden
  BY <1>1, AcceptedIs DEF stored
<1> QED BY <1>1, <1>2, NothingHidden

LEMMA ConnectionHidden ==
    ASSUME TypeOK, PlacedHidden, NEW c \in Conn, Connection(c)
    PROVE  PlacedHidden'
<1>1. c \in Handler /\ handler[c] \in Task /\ gen \in 1..MaxGen
  BY Constants DEF TypeOK
<1>2. hidden' = hidden
  BY DEF Connection, Admit, Open, Handshake, Strike, TurnAway, Release, stored
<1>3. ASSUME NEW a \in Address, Admit(c, a) PROVE PlacedHidden'
  <2> DEFINE r == [stage |-> "shaking", ip |-> a, gen |-> gen, size |-> 0, kind |-> "shown"]
  <2>1. r \in Task /\ r.stage # "placed"
    BY <1>1, Constants DEF Task
  <2>2. Turns(c, r)
    BY <1>1, <1>3, <2>1 DEF Admit, Open, Turns
  <2> HIDE DEF r
  <2> QED BY <1>2, <2>1, <2>2, NothingHidden
<1>4. ASSUME NEW st \in {"serving", "ending"}, Become(c, st), gen' = gen PROVE PlacedHidden'
  <2>1. Turns(c, [handler[c] EXCEPT !.stage = st])
    BY <1>1, <1>4, Stages DEF Become
  <2>2. [handler[c] EXCEPT !.stage = st].stage # "placed"
    BY <1>1 DEF Task
  <2> QED BY <1>2, <2>1, <2>2, NothingHidden
<1>5. CASE Release(c)
  <2>1. Turns(c, Free) /\ Free.stage # "placed"
    BY <1>1, <1>5, Constants DEF Release, Turns, Free
  <2> QED BY <1>2, <2>1, NothingHidden
<1> QED BY <1>3, <1>4, <1>5 DEF Connection, Handshake, Strike, TurnAway

LEMMA FileHidden ==
    ASSUME TypeOK, PlacedHidden, NEW c \in Handler, File(c)
    PROVE  PlacedHidden'
<1>1. /\ handler[c] \in Task /\ handler[c].gen \in 1..MaxGen /\ hidden \in Nat /\ Hid <= hidden
      /\ handler[c].kind \in {"shown", "hidden"}
  BY DEF TypeOK, Task, PlacedHidden, Hid
<1>2. ASSUME NEW s \in Sizes, Announce(c, s) PROVE PlacedHidden'
  <2>1. [handler[c] EXCEPT !.stage = "ending"] \in Task /\ [handler[c] EXCEPT !.stage = "ending"].stage # "placed"
    BY <1>1 DEF Task
  <2> QED BY <1>1, <1>2, <2>1, RoomHidden DEF Announce
<1>3. CASE Place(c)
  <2> DEFINE r == [handler[c] EXCEPT !.stage = "placed"]
  <2>1. Turns(c, r)
    BY <1>3, Stages DEF Place, Become
  <2>2. r.stage = "placed" /\ r.kind = handler[c].kind /\ r.size = handler[c].size
    BY <1>1 DEF Task
  <2> HIDE DEF r
  <2>3. handler[c].stage = "accepted" /\ Stores(c, handler[c].size)
    BY <1>3 DEF Place
  <2>4. Hides(handler[c]) = 0
    BY <2>3 DEF Hides
  <2>5. CASE handler[c].kind = "hidden"
    <3>1. Hides(r) = handler[c].size /\ hidden' = hidden + handler[c].size
      BY <2>2, <2>3, <2>5 DEF Hides, Stores
    <3>2. Hid' = Hid - Hides(handler[c]) + Hides(r) /\ Hid \in Nat /\ Hides(r) \in Nat
      BY <2>1, HiddenSum
    <3>3. Hid' <= hidden'
      BY <1>1, <2>4, <3>1, <3>2
    <3> QED BY <3>3 DEF PlacedHidden, Hid
  <2>6. CASE handler[c].kind # "hidden"
    <3>1. Hides(r) = 0 /\ hidden' = hidden
      BY <2>2, <2>3, <2>6 DEF Hides, Stores
    <3>2. Hid' = Hid - Hides(handler[c]) + Hides(r) /\ Hid \in Nat
      BY <2>1, HiddenSum
    <3>3. Hid' <= hidden'
      BY <1>1, <2>4, <3>1, <3>2
    <3> QED BY <3>3 DEF PlacedHidden, Hid
  <2> QED BY <2>5, <2>6
<1>4. ASSUME handler' = [handler EXCEPT ![c] = After(c)], gen' = gen
      PROVE  Turns(c, After(c)) /\ Hides(After(c)) = 0 /\ After(c).stage # "placed"
  <2>1. After(c) \in Task /\ After(c).stage # "placed"
    BY <1>1, Constants, EndOf DEF After, Free
  <2> QED BY <1>4, <2>1 DEF Turns, Hides
<1>5. CASE Count(c)
  <2>1. hidden' = hidden /\ handler' = [handler EXCEPT ![c] = After(c)] /\ gen' = gen
    BY <1>5 DEF Count, stored
  <2> QED BY <1>4, <2>1, NothingHidden
<1>6. CASE Unplace(c)
  <2>1. /\ handler' = [handler EXCEPT ![c] = After(c)] /\ gen' = gen
        /\ handler[c].stage = "placed" /\ Stores(c, -handler[c].size)
    BY <1>6 DEF Unplace
  <2>2. /\ Hid' = Hid - Hides(handler[c]) + Hides(After(c)) /\ Hid \in Nat
        /\ Hides(After(c)) = 0 /\ Hides(handler[c]) \in Nat
    BY <1>4, <2>1, HiddenSum
  <2>3. hidden' = hidden - Hides(handler[c])
    <3>1. CASE handler[c].kind = "hidden"
      <4>1. handler[c].size \in Nat
        BY <1>1, Constants
      <4>2. hidden' = hidden + (-handler[c].size) /\ Hides(handler[c]) = handler[c].size
        BY <2>1, <3>1 DEF Hides, Stores
      <4> QED BY <1>1, <4>1, <4>2
    <3>2. CASE handler[c].kind # "hidden"
      <4>1. hidden' = hidden /\ Hides(handler[c]) = 0
        BY <2>1, <3>2 DEF Hides, Stores
      <4> QED BY <1>1, <4>1
    <3> QED BY <3>1, <3>2
  <2>4. Hid' <= hidden'
    BY <1>1, <2>2, <2>3
  <2> QED BY <2>4 DEF PlacedHidden, Hid
<1> QED BY <1>2, <1>3, <1>5, <1>6 DEF File

LEMMA StepHidden ==
    ASSUME TypeOK, PlacedHidden, [Next]_vars
    PROVE  PlacedHidden'
<1>1. ASSUME handler' = handler, hidden' >= Hid PROVE PlacedHidden'
  BY <1>1 DEF PlacedHidden, Hid, Size, Hidden, Shown, At
<1>2. hidden \in Nat /\ Hid \in Nat /\ Hid <= hidden
  <2>1. Hidden("placed") \in SUBSET Handler
    BY DEF Hidden, At
  <2> QED BY <2>1, SizeIsCount DEF TypeOK, PlacedHidden, Hid, Size
<1>3. ASSUME NEW s \in Sizes, Offer(s) PROVE PlacedHidden'
  <2>1. gen \in 1..MaxGen /\ Free \in Task /\ Free.stage # "placed" /\ Pull \in Handler
    BY Constants DEF TypeOK, Free
  <2> QED BY <1>3, <2>1, RoomHidden DEF Offer
<1>4. ASSUME NEW s \in Sizes, Leave(s) PROVE PlacedHidden'
  <2>1. Hid = Size(Hidden("placed")) /\ s \in Nat
    BY Constants DEF Hid
  <2>2. hidden' = hidden \/ hidden' >= Size(Hidden("placed"))
    BY <1>4 DEF Leave
  <2>3. hidden' >= Hid
    BY <1>2, <2>1, <2>2
  <2>4. handler' = handler
    BY <1>4 DEF Leave
  <2> QED BY <1>1, <2>3, <2>4
<1>5. CASE PullFails
  <2>1. Turns(Pull, Free) /\ Free.stage # "placed" /\ hidden' = hidden
    BY <1>5, Constants DEF PullFails, Turns, stored, Free
  <2> QED BY <2>1, NothingHidden
<1>6. CASE handler' = handler /\ hidden' = hidden
  BY <1>1, <1>2, <1>6
<1> QED BY <1>3, <1>4, <1>5, <1>6, ConnectionHidden, FileHidden
        DEF Next, vars, stored, Expire, RestartInPlace

-----------------------------------------------------------------------------
(* The theorems.                                                           *)

LEMMA InitLimits ==
    ASSUME Init
    PROVE  Limits
<1>1. Current = {} /\ \A a \in Address : From(a) = {} /\ Shaking(a) = {}
  BY DEF Init, Current, From, Shaking, Free, Handler
<1>2. Cardinality({}) = 0
  BY FS_EmptySet
<1>3. MaxConns[gen] \in Nat /\ PerIP \in Nat /\ MaxStrikes[gen] \in Nat \ {0}
  BY Constants, Settings DEF Init
<1>4. Counted
  BY <1>1, <1>2 DEF Counted, Init
<1>5. CapsHold
  BY <1>1, <1>2, <1>3 DEF CapsHold
<1>6. StrikesBounded
  <2>1. ASSUME NEW a \in Address
        PROVE  strikes[a] + Cardinality(Shaking(a)) < MaxStrikes[gen] + PerIP
    <3>1. strikes[a] = 0 /\ Cardinality(Shaking(a)) = 0
      BY <1>1, <1>2 DEF Init
    <3> QED BY <1>3, <3>1
  <2> QED BY <2>1 DEF StrikesBounded
<1> QED BY <1>4, <1>5, <1>6 DEF Limits

LEMMA InitRoom ==
    ASSUME Init
    PROVE  Room4All
<1>1. /\ gen = 1 /\ shown = 0 /\ usage = [g \in 1..MaxGen |-> -1]
      /\ \A c \in Handler : handler[c].stage = "free"
  BY DEF Init, Free
<1>2. Shown("accepted") = {} /\ Shown("placed") = {} /\ BehindAll = 0 /\ BehindServing = 0
  <2>1. Cardinality({}) = 0
    BY FS_EmptySet
  <2>2. \A S \in SUBSET Started : Left(S) = {}
    BY <1>1, Constants DEF Left, Started
  <2>3. Left(Started) = {} /\ Left({"serving"}) = {}
    BY <2>2 DEF Started
  <2> QED BY <1>1, <2>1, <2>3 DEF At, Shown, BehindAll, BehindServing
<1>3. Acc = 0 /\ Plc = 0
  <2>1. Cardinality({}) = 0 /\ {} \in SUBSET Handler
    BY FS_EmptySet
  <2>2. Units(handler, {}) = {}
    BY DEF Units
  <2>3. SizeIn(handler, {}) = 0
    BY <2>1, <2>2, SizeIsCount
  <2> QED BY <1>2, <2>3 DEF Acc, Plc, Size
<1>4. MaxFile \in Nat /\ MostConns \in Nat /\ MostCap \in Nat
  BY Constants
<1>5. PlacedStored /\ NotYetCounted /\ PullsForNow
  BY <1>1, <1>3, Constants DEF PlacedStored, Plc, NotYetCounted, PullsForNow
<1>6. FewLeft
  BY <1>1, <1>2, <1>4 DEF FewLeft, BehindAll, Started
<1>7. Uncounted
  BY <1>1, Constants DEF Uncounted
<1>8. AllowedFor
  <2>1. shown + Acc + MaxFile * BehindServing = 0
    BY <1>1, <1>2, <1>3, <1>4
  <2>2. Everyone \in Nat
    <3>1. MostConns * gen \in Nat
      BY <1>1, <1>4
    <3> QED BY <1>4, <3>1, Product DEF Everyone
  <2>3. shown + Acc + MaxFile * BehindServing <= MostCap + Everyone
    BY <1>4, <2>1, <2>2
  <2> QED BY <2>3 DEF AllowedFor, Acc, BehindServing, Everyone
<1> QED BY <1>5, <1>6, <1>7, <1>8 DEF Room4All

LEMMA InitHidden ==
    ASSUME Init
    PROVE  PlacedHidden
<1>1. Hidden("placed") = {} /\ hidden = 0
  BY DEF Init, Free, At, Shown, Hidden
<1>2. {} \in SUBSET Handler /\ Units(handler, {}) = {} /\ Cardinality({}) = 0
  BY FS_EmptySet DEF Units
<1>3. SizeIn(handler, {}) = 0
  BY <1>2, SizeIsCount
<1> QED BY <1>1, <1>3 DEF PlacedHidden, Size

LEMMA InvariantParts ==
    /\ IInv <=> Limits /\ Room4All /\ PlacedHidden
    /\ IInv' <=> Limits' /\ Room4All' /\ PlacedHidden'
BY DEF IInv, Limits, Room4All

\* All variables keep their types: above all no counter of the limiter is ever
\* negative, whatever ends a connection (limits.go, release).
THEOREM InboundTypeCorrect == Spec => []TypeOK
<1>1. Init => TypeOK /\ IInv
  BY InitType, InitLimits, InitRoom, InitHidden, InvariantParts
<1>2. TypeOK /\ IInv /\ [Next]_vars => TypeOK' /\ IInv'
  <2> SUFFICES ASSUME TypeOK, IInv, [Next]_vars PROVE TypeOK' /\ IInv'
    OBVIOUS
  <2>1. Limits /\ Room4All /\ PlacedHidden
    BY InvariantParts
  <2>2. TypeOK'
    BY <2>1, StepType DEF Limits, Room4All
  <2>3. Limits' /\ Room4All' /\ PlacedHidden'
    BY <2>1, <2>2, StepLimits, StepRoom, StepHidden
  <2> QED BY <2>2, <2>3, InvariantParts
<1> QED BY <1>1, <1>2, PTL DEF Spec

\* The counts of the limiter, and the account of the room: what is shown, what is
\* on its way in, and what handlers of earlier generations still bring.
THEOREM InboundInvariant == Spec => []IInv
<1>1. Init => IInv
  BY InitLimits, InitRoom, InitHidden, InvariantParts
<1>2. TypeOK /\ TypeOK' /\ IInv /\ [Next]_vars => IInv'
  <2> SUFFICES ASSUME TypeOK, TypeOK', IInv, [Next]_vars PROVE IInv'
    OBVIOUS
  <2>1. Limits /\ Room4All /\ PlacedHidden
    BY InvariantParts
  <2>2. Limits' /\ Room4All' /\ PlacedHidden'
    BY <2>1, StepLimits, StepRoom, StepHidden
  <2> QED BY <2>2, InvariantParts
<1> QED BY <1>1, <1>2, InboundTypeCorrect, PTL DEF Spec

\* The limiter of the running node counts exactly the connections it has open,
\* through every early return of handle and every restart in place.
THEOREM ConnectionsCounted == Spec => []Counted
<1>1. IInv => Counted
  BY DEF IInv
<1> QED BY <1>1, InboundInvariant, PTL

\* No more connections are open than max_connections, nor from one address than
\* a quarter of them or four (limits.go, newLimiter and admit).
THEOREM CapsAlwaysHold == Spec => []CapsHold
<1>1. IInv => CapsHold
  BY DEF IInv
<1> QED BY <1>1, InboundInvariant, PTL

\* An address that presents no certificate is admitted for no more handshakes in a
\* minute than its limit and what it may have open at once (limits.go, strike).
THEOREM StrikesAlwaysBounded == Spec => []StrikesBounded
<1>1. IInv => StrikesBounded
  BY DEF IInv
<1> QED BY <1>1, InboundInvariant, PTL

\* What a scan finds in the mailbox outgrows the largest max_mailbox_mb there was by
\* no more than one file for every connection that each generation of the node may
\* have (node.go, roomFor).  Files that IsTemp names are outside of this: nothing
\* bounds them (mailbox.go, walkFiles).
THEOREM RoomAlwaysBounded == Spec => []RoomBound
<1>1. TypeOK /\ IInv => RoomBound
  <2> SUFFICES ASSUME TypeOK, IInv PROVE RoomBound
    OBVIOUS
  <2>1. shown + Acc + MaxFile * BehindServing <= MostCap + Everyone
    BY DEF IInv, AllowedFor, Acc, BehindServing, Everyone
  <2>2. /\ shown \in Nat /\ Acc \in Nat /\ MaxFile * BehindServing \in Nat
        /\ MostCap \in Nat /\ Everyone \in Nat
    BY NumbersNat, ProductsNat, Bounds, Constants DEF TypeOK
  <2>3. shown <= MostCap + Everyone
    BY <2>1, <2>2
  <2> QED BY <2>3 DEF RoomBound, Everyone
<1> QED BY <1>1, InboundTypeCorrect, InboundInvariant, PTL

-----------------------------------------------------------------------------
(* One after the other.                                                    *)

\* What the first generation sees while no file is under way is nothing short of
\* what a scan would find.
LEMMA SeenIsAll ==
    ASSUME TypeOK, Room4All, gen = 1, At("accepted") \cup At("placed") = {},
           NEW u \in Seen(1)
    PROVE  u \in Nat /\ shown <= u
<1>1. shown + MaxFile * Behind <= u + OwnPlc + Before
  BY SeenIsTrue
<1>2. u \in Nat
  BY Constants, SeenIsNat DEF Room4All
<1>3. OwnPlc = 0
  <2>1. Own("placed") = {}
    BY DEF Own, Shown
  <2>2. Cardinality({}) = 0 /\ {} \in SUBSET Handler /\ Units(handler, {}) = {}
    BY FS_EmptySet DEF Units
  <2>3. SizeIn(handler, {}) = 0
    BY <2>2, SizeIsCount
  <2> QED BY <2>1, <2>3 DEF OwnPlc, Size
<1>4. Before = 0
  BY Constants DEF Before
<1>5. shown \in Nat /\ MaxFile * Behind \in Nat
  BY ProductsNat DEF TypeOK
<1> QED BY <1>1, <1>2, <1>3, <1>4, <1>5

\* Nothing but the question for room accepts a file.
NoneAccepted ==
    \A d \in Handler : handler'[d].stage = "accepted" => handler[d].stage = "accepted"

LEMMA TurnAccepts ==
    ASSUME NEW c, NEW r, Turns(c, r), r.stage # "accepted"
    PROVE  NoneAccepted
BY DEF Turns, NoneAccepted

LEMMA RoomFits ==
    ASSUME TypeOK, Room4All, gen = 1, At("accepted") \cup At("placed") = {},
           NEW c \in Handler, NEW s \in Sizes, NEW refused \in Task, Room(c, s, 1, refused),
           refused.stage # "accepted",
           NEW d \in Handler, handler'[d].stage = "accepted", handler[d].stage # "accepted"
    PROVE  shown + handler'[d].size <= Cap[1]
<1>1. handler \in [Handler -> Task] /\ shown \in Nat /\ s \in Nat /\ Cap[1] \in Nat
  BY Constants DEF TypeOK
<1>2. PICK u \in Seen(1), kind \in {"shown", "hidden"} :
         (u + s <= Cap[1] /\ Turns(c, Accepted(c, s, 1, kind))) \/ Turns(c, refused)
  BY Constants, Rooms
<1> DEFINE r == Accepted(c, s, 1, kind)
<1>3. u \in Nat /\ shown <= u
  BY SeenIsAll
<1>4. r.size = s
  BY Constants, AcceptedIs
<1> HIDE DEF r
<1>5. CASE u + s <= Cap[1] /\ Turns(c, r)
  <2>1. handler'[d] = IF d = c THEN r ELSE handler[d]
    BY <1>5 DEF Turns
  <2>2. handler'[d].size = s
    BY <1>4, <2>1
  <2> QED BY <1>1, <1>3, <1>5, <2>2
<1>6. CASE Turns(c, refused)
  BY <1>6, TurnAccepts DEF NoneAccepted
<1> QED BY <1>2, <1>5, <1>6 DEF r

LEMMA ConnectionAccepts ==
    ASSUME TypeOK, NEW c \in Conn, Connection(c)
    PROVE  NoneAccepted
<1>1. c \in Handler /\ handler \in [Handler -> Task] /\ handler[c] \in Task
  BY Constants DEF TypeOK
<1>2. ASSUME NEW a \in Address, Admit(c, a) PROVE NoneAccepted
  BY <1>1, <1>2 DEF Admit, Open, NoneAccepted
<1>3. ASSUME Handshake(c) \/ Strike(c) \/ TurnAway(c) PROVE NoneAccepted
  <2>1. \E st \in {"serving", "ending"} : handler' = [handler EXCEPT ![c].stage = st]
    BY <1>3 DEF Handshake, Strike, TurnAway, Become
  <2> QED BY <1>1, <2>1 DEF Task, NoneAccepted
<1>4. CASE Release(c)
  BY <1>1, <1>4 DEF Release, Free, NoneAccepted
<1> QED BY <1>2, <1>3, <1>4 DEF Connection

LEMMA FileAccepts ==
    ASSUME TypeOK, NEW c \in Handler, Place(c) \/ Count(c) \/ Unplace(c)
    PROVE  NoneAccepted
<1>1. handler \in [Handler -> Task] /\ handler[c] \in Task
  BY DEF TypeOK
<1>2. CASE Place(c)
  BY <1>1, <1>2 DEF Place, Become, Task, NoneAccepted
<1>3. CASE Count(c) \/ Unplace(c)
  <2>1. handler' = [handler EXCEPT ![c] = After(c)]
    BY <1>3 DEF Count, Unplace
  <2>2. After(c).stage # "accepted"
    BY <1>1, EndOf DEF After, Free
  <2> QED BY <1>1, <2>1, <2>2 DEF NoneAccepted
<1> QED BY <1>2, <1>3

LEMMA OthersAccept ==
    ASSUME TypeOK, \/ PullFails \/ RestartInPlace \/ UNCHANGED vars
                   \/ \E a \in Address : Expire(a)
                   \/ \E s \in Sizes : Leave(s)
    PROVE  NoneAccepted
<1>1. CASE PullFails
  BY <1>1, Constants DEF PullFails, Free, TypeOK, NoneAccepted
<1>2. CASE handler' = handler
  BY <1>2 DEF NoneAccepted
<1> QED BY <1>1, <1>2 DEF RestartInPlace, vars, Expire, Leave

\* A step of the first generation accepts a file that fits, if no other is under
\* way.
LEMMA StepFits ==
    ASSUME TypeOK, Room4All, [Next]_vars, gen = 1, At("accepted") \cup At("placed") = {},
           NEW d \in Handler, handler'[d].stage = "accepted", handler[d].stage # "accepted"
    PROVE  shown + handler'[d].size <= Cap[1]
<1>1. ~NoneAccepted
  BY DEF NoneAccepted
<1>2. CASE \E c \in Handler, s \in Sizes : Announce(c, s)
  <2>1. PICK c \in Handler, s \in Sizes : Announce(c, s)
    BY <1>2
  <2> DEFINE refused == [handler[c] EXCEPT !.stage = "ending"]
  <2>2. handler[c] \in Task /\ handler[c].gen = 1
    BY <2>1 DEF TypeOK, Task
  <2>3. refused \in Task /\ refused.stage # "accepted"
    BY <2>2 DEF Task
  <2>4. Room(c, s, 1, refused)
    BY <2>1, <2>2 DEF Announce
  <2> HIDE DEF refused
  <2> QED BY <2>3, <2>4, RoomFits
<1>3. CASE \E s \in Sizes : Offer(s)
  <2>1. PICK s \in Sizes : Room(Pull, s, 1, Free)
    BY <1>3 DEF Offer
  <2>2. Free.stage # "accepted"
    BY DEF Free
  <2> QED BY <2>1, <2>2, RoomFits, Constants
<1> QED BY <1>1, <1>2, <1>3, ConnectionAccepts, FileAccepts, OthersAccept
        DEF Next, File

\* While files come one after the other, whoever brings them, the first generation
\* accepts none that would take what a scan finds in its mailbox past
\* max_mailbox_mb, although what it knows of that is up to 30 s old and a file is
\* added to it only after it has its name (node.go, roomFor; mailbox.go, Usage).
\* Files that IsTemp names are not found, and not bounded by it.
THEOREM FilesOneByOneFit == Spec => OneByOneFits
<1>1. TypeOK /\ IInv /\ [Next]_vars =>
        [\A c \in Handler : AcceptsAlone(c) => shown + handler'[c].size <= Cap[1]]_vars
  BY StepFits, InvariantParts DEF AcceptsAlone
<1> QED BY <1>1, InboundTypeCorrect, InboundInvariant, PTL DEF Spec, OneByOneFits
=============================================================================
