------------------------------ MODULE PutsProofs ------------------------------
(***************************************************************************)
(* Proofs about the puts (module Puts): what a client published stands     *)
(* until its time, an older put over it, never comes back, whatever the    *)
(* addresses, the clients, the order of their writes to the store, and     *)
(* however often the daemon stops and starts.                              *)
(*                                                                         *)
(* A put lives in three places that no lock covers together: the cache,    *)
(* the store's file and the expiries still to come.  The invariant says    *)
(* what each of them owes the others between any two steps of a put.       *)
(***************************************************************************)
EXTENDS Puts, WellFoundedInduction, TLAPS

-----------------------------------------------------------------------------
(* Counting up, and what is retained of a sequence. *)

\* A set of numbers has a least one.
LEMMA NatMin ==
    ASSUME NEW S, S \subseteq Nat, S # {}
    PROVE  \E x \in S : \A y \in S : ~(y < x)
<1> DEFINE R == OpToRel(<, Nat)
<1>1. IsWellFoundedOn(R, Nat)
  BY NatLessThanWellFounded
<1>2. \A x, y \in Nat : y < x => <<y, x>> \in R
  BY DEF OpToRel
<1> HIDE DEF R
<1>3. \E x \in S : \A y \in S : ~(<<y, x>> \in R)
  BY <1>1, WFMin
<1> QED BY <1>2, <1>3

\* Induction, over a set instead of an operator.
LEMMA CountUp ==
    ASSUME NEW S, 0 \in S, \A n \in Nat : n \in S => n + 1 \in S
    PROVE  Nat \subseteq S
<1> SUFFICES ASSUME Nat \ S # {} PROVE FALSE
  OBVIOUS
<1>1. PICK x \in Nat \ S : \A y \in Nat \ S : ~(y < x)
  BY NatMin
<1>2. x - 1 \in Nat /\ x - 1 < x
  BY <1>1
<1>3. x - 1 \in S
  BY <1>1, <1>2
<1> QED BY <1>1, <1>2, <1>3

\* What a function that keeps what it is told of the first i elements makes.
Step(f, q, S, i) ==
    IF i = 0 THEN <<>>
    ELSE IF q[i] \in S THEN Append(f[i - 1], q[i]) ELSE f[i - 1]

Keeps(f, q, S, n) == f = [i \in 0..n |-> Step(f, q, S, i)]

LEMMA KeptExists ==
    ASSUME NEW q, NEW S, NEW n \in Nat
    PROVE  \E f : Keeps(f, q, S, n)
<1> DEFINE P == {m \in Nat : \E f : Keeps(f, q, S, m)}
<1>1. 0 \in P
  <2>1. [i \in 0..0 |-> <<>>] = [i \in 0..0 |-> Step([j \in 0..0 |-> <<>>], q, S, i)]
    BY DEF Step
  <2> QED BY <2>1 DEF Keeps
<1>2. ASSUME NEW m \in Nat, m \in P PROVE m + 1 \in P
  <2>1. PICK f : Keeps(f, q, S, m)
    BY <1>2
  <2> DEFINE g == [i \in 0..(m + 1) |-> IF i = m + 1 THEN Step(f, q, S, i) ELSE f[i]]
  <2>2. ASSUME NEW i \in 0..(m + 1) PROVE Step(g, q, S, i) = Step(f, q, S, i)
    <3>1. CASE i = 0
      BY <3>1 DEF Step
    <3>2. CASE i # 0
      <4>1. i - 1 \in 0..(m + 1) /\ i - 1 # m + 1
        BY <3>2
      <4>2. g[i - 1] = f[i - 1]
        BY <4>1
      <4> HIDE DEF g
      <4> QED BY <4>2 DEF Step
    <3> QED BY <3>1, <3>2
  <2>3. ASSUME NEW i \in 0..(m + 1) PROVE g[i] = Step(f, q, S, i)
    BY <2>1 DEF Keeps
  <2>4. g = [i \in 0..(m + 1) |-> g[i]]
    OBVIOUS
  <2> HIDE DEF g
  <2>5. g = [i \in 0..(m + 1) |-> Step(g, q, S, i)]
    BY <2>2, <2>3, <2>4
  <2> QED BY <2>5 DEF Keeps
<1> HIDE DEF P
<1>3. Nat \subseteq P
  BY <1>1, <1>2, CountUp
<1> QED BY <1>3 DEF P

LEMMA RetainedIs ==
    ASSUME NEW T, NEW q \in Seq(T), NEW S
    PROVE  \E f : Keeps(f, q, S, Len(q)) /\ Retained(q, S) = f[Len(q)]
<1> DEFINE k == CHOOSE f : f = [i \in 0..Len(q) |-> Step(f, q, S, i)]
<1>1. k = CHOOSE f : Keeps(f, q, S, Len(q))
  BY DEF Keeps
<1>2. Retained(q, S) = k[Len(q)]
  BY DEF Retained, Step
<1> HIDE DEF k
<1>3. Len(q) \in Nat
  OBVIOUS
<1>4. \E f : Keeps(f, q, S, Len(q))
  BY <1>3, KeptExists
<1>5. Keeps(k, q, S, Len(q))
  BY <1>1, <1>4
<1> QED BY <1>2, <1>5

\* t is what S has of the first n of q, in q's order.
Picks(t, q, S, n) ==
    /\ \A a \in 1..Len(t) : t[a] \in S /\ \E c \in 1..n : t[a] = q[c]
    /\ \A c \in 1..n : q[c] \in S => \E a \in 1..Len(t) : t[a] = q[c]
    /\ \A a, b \in 1..Len(t) :
           a < b => \E c, d \in 1..n : c < d /\ t[a] = q[c] /\ t[b] = q[d]

LEMMA PicksOneMore ==
    ASSUME NEW T, NEW q \in Seq(T), NEW S, NEW n \in Nat, n + 1 \in 1..Len(q),
           NEW t \in Seq(T), Picks(t, q, S, n),
           NEW u, u = IF q[n + 1] \in S THEN Append(t, q[n + 1]) ELSE t
    PROVE  u \in Seq(T) /\ Picks(u, q, S, n + 1)
<1>1. CASE q[n + 1] \notin S
  BY <1>1 DEF Picks
<1>2. CASE q[n + 1] \in S
  <2>1. u = Append(t, q[n + 1]) /\ q[n + 1] \in T
    BY <1>2
  <2>2. /\ u \in Seq(T) /\ Len(u) = Len(t) + 1 /\ u[Len(t) + 1] = q[n + 1]
        /\ \A a \in 1..Len(t) : u[a] = t[a]
        /\ Len(t) \in Nat
    BY <2>1
  <2>3. \A a \in 1..Len(u) : u[a] \in S /\ \E c \in 1..(n + 1) : u[a] = q[c]
    <3> SUFFICES ASSUME NEW a \in 1..Len(u)
                 PROVE  u[a] \in S /\ \E c \in 1..(n + 1) : u[a] = q[c]
      OBVIOUS
    <3>1. CASE a = Len(t) + 1
      BY <1>2, <2>2, <3>1
    <3>2. CASE a # Len(t) + 1
      <4>1. a \in 1..Len(t) /\ u[a] = t[a]
        BY <2>2, <3>2
      <4>2. t[a] \in S /\ \E c \in 1..n : t[a] = q[c]
        BY <4>1 DEF Picks
      <4>3. 1..n \subseteq 1..(n + 1)
        OBVIOUS
      <4> QED BY <4>1, <4>2, <4>3
    <3> QED BY <3>1, <3>2
  <2>4. ASSUME NEW c \in 1..(n + 1), q[c] \in S
        PROVE  \E a \in 1..Len(u) : u[a] = q[c]
    <3>1. CASE c = n + 1
      BY <2>2, <3>1
    <3>2. CASE c # n + 1
      <4>1. c \in 1..n
        BY <3>2
      <4>2. PICK a \in 1..Len(t) : t[a] = q[c]
        BY <2>4, <4>1 DEF Picks
      <4> QED BY <2>2, <4>2
    <3> QED BY <3>1, <3>2
  <2>5. ASSUME NEW a \in 1..Len(u), NEW b \in 1..Len(u), a < b
        PROVE  \E c, d \in 1..(n + 1) : c < d /\ u[a] = q[c] /\ u[b] = q[d]
    <3>1. CASE b = Len(t) + 1
      <4>1. a \in 1..Len(t)
        BY <2>2, <2>5, <3>1
      <4>2. PICK c \in 1..n : t[a] = q[c]
        BY <4>1 DEF Picks
      <4>3. c \in 1..(n + 1) /\ n + 1 \in 1..(n + 1) /\ c < n + 1
        OBVIOUS
      <4> QED BY <2>2, <3>1, <4>1, <4>2, <4>3
    <3>2. CASE b # Len(t) + 1
      <4>1. a \in 1..Len(t) /\ b \in 1..Len(t)
        BY <2>2, <2>5, <3>2
      <4>2. PICK c \in 1..n, d \in 1..n : c < d /\ t[a] = q[c] /\ t[b] = q[d]
        BY <2>5, <4>1 DEF Picks
      <4>3. c \in 1..(n + 1) /\ d \in 1..(n + 1)
        OBVIOUS
      <4> QED BY <2>2, <4>1, <4>2, <4>3
    <3> QED BY <3>1, <3>2
  <2> QED BY <2>2, <2>3, <2>4, <2>5 DEF Picks
<1> QED BY <1>1, <1>2

LEMMA RetainedPicks ==
    ASSUME NEW T, NEW q \in Seq(T), NEW S
    PROVE  Retained(q, S) \in Seq(T) /\ Picks(Retained(q, S), q, S, Len(q))
<1>1. PICK f : Keeps(f, q, S, Len(q)) /\ Retained(q, S) = f[Len(q)]
  BY RetainedIs
<1>0. \A i \in 0..Len(q) : f[i] = Step(f, q, S, i)
  BY <1>1 DEF Keeps
<1> DEFINE P == {n \in Nat : n \in 0..Len(q) => f[n] \in Seq(T) /\ Picks(f[n], q, S, n)}
<1>2. 0 \in P
  <2>1. f[0] = <<>>
    BY <1>0 DEF Step
  <2>2. <<>> \in Seq(T) /\ Len(<<>>) = 0
    OBVIOUS
  <2>3. Picks(<<>>, q, S, 0)
    BY <2>2 DEF Picks
  <2> QED BY <2>1, <2>2, <2>3
<1>3. ASSUME NEW n \in Nat, n \in P PROVE n + 1 \in P
  <2> SUFFICES ASSUME n + 1 \in 0..Len(q)
               PROVE  f[n + 1] \in Seq(T) /\ Picks(f[n + 1], q, S, n + 1)
    OBVIOUS
  <2>1. n \in 0..Len(q) /\ n + 1 # 0 /\ n + 1 - 1 = n /\ n + 1 \in 1..Len(q)
    OBVIOUS
  <2>2. f[n] \in Seq(T) /\ Picks(f[n], q, S, n)
    BY <1>3, <2>1
  <2>3. f[n + 1] = IF q[n + 1] \in S THEN Append(f[n], q[n + 1]) ELSE f[n]
    BY <1>0, <2>1 DEF Step
  <2> QED BY <2>1, <2>2, <2>3, PicksOneMore
<1> HIDE DEF P
<1>4. Nat \subseteq P
  BY <1>2, <1>3, CountUp
<1>5. Len(q) \in Nat
  OBVIOUS
<1> QED BY <1>1, <1>4, <1>5 DEF P

\* What the start has yet to put in the store.
Unrecorded ==
    ToSet(replay) \cup {p \in {doing[Boot]} : step[Boot] \in {"cache", "store"}}

\* Connections put when the start is over; what is kept is persisted, and an old
\* put is nobody's but the start's.
PutsSound ==
    /\ PutsTypeOK
    /\ \A c \in Putter : doing[c] \in Made \cup {NoPut} /\ (doing[c] = NoPut <=> step[c] = "idle")
    /\ \A c \in Conn : doing[c] \notin ended /\ (step[c] # "idle" => Bound)
    /\ \A c, d \in Conn : doing[c] = doing[d] /\ doing[c] # NoPut => c = d
    /\ \A n \in Node : stored[n] # NoPut => stored[n] \in Made /\ NodeOf(stored[n]) = n
    /\ ToSet(entries) \cup ToSet(file) \cup Replayed \subseteq {p \in Made : puts[p].persist}
    /\ ToSet(inbox) \cup ended \subseteq Made
    /\ over \subseteq {p \in Made : puts[p].ttl}
    /\ \A p \in Put : Acked(p) => p \in Made /\ life[p] <= restarts
    /\ \A p \in Put : before[p] \subseteq {q \in ended : q < p}

\* The file has what the store has, and else only what is to be recorded, or over.
StoreKept ==
    /\ ToSet(entries) \subseteq ToSet(file)
    /\ ToSet(file) \ over \subseteq ToSet(entries) \cup Unrecorded

\* Nothing in q comes before what it stands behind.
InOrder(q, b) == \A i, j \in DOMAIN q : i < j => q[j] \notin b[q[i]]

\* Puts are recorded, kept, replayed and told of in the order they were made in.
PutsInOrder ==
    /\ InOrder(entries, before) /\ InOrder(file, before)
    /\ InOrder(inbox, before) /\ InOrder(replay, before)
    /\ \A q \in Replayed :
           /\ \A p \in ToSet(entries) \cup ToSet(inbox) : q \notin before[p]
           /\ \A n \in Node : stored[n] # NoPut => q \notin before[stored[n]]
    /\ doing[Boot] # NoPut => \A q \in ToSet(replay) : q \notin before[doing[Boot]]

MidPut(p, at) == \E c \in Conn : doing[c] = p /\ step[c] \in at

PastCache == {"store", "send"}

PastStore == {"send"}

\* What a put replaced goes with its steps, and no step brings it back.
ReplacedIsGone ==
    \A q \in Made : \A p \in before[q] :
        NodeOf(p) \in Below[NodeOf(q)] =>
            /\ Acked(q) \/ MidPut(q, PastCache) => \A n \in Node : stored[n] # p
            /\ Acked(q) \/ MidPut(q, PastStore) => p \notin ToSet(entries) \cup Replayed

\* The scheduler was told of what came before a put it was told of.
HeardInOrder ==
    \A n \in Node :
        LET p == stored[n]
        IN  p # NoPut =>
                \/ p \in ToSet(inbox) \/ \E c \in Putter : doing[c] = p
                \/ \A q \in ToSet(inbox) : q \notin before[p]

\* Only nodes that were put to with a ttl expire.
LeasesArePut ==
    \A n \in leased \cup ({evicting} \ {NoNode}) :
        \E p \in Made : NodeOf(p) = n /\ puts[p].ttl

\* A put that ought to be there.
Undisputed(p) ==
    ~puts[p].null /\ Rivals(p) \cup Takers(p) = {} /\ NeverLeased(NodeOf(p))

Kept(p) == Acked(p) /\ (life[p] = restarts \/ (puts[p].persist /\ p \notin cut))

\* It is in the cache and in the store, or the start is about to put it there.
KeptIsThere ==
    \A p \in Made : Undisputed(p) =>
        /\ Kept(p) \/ MidPut(p, PastCache) =>
               \/ stored[NodeOf(p)] = p \/ p \in ToSet(replay)
               \/ doing[Boot] = p /\ step[Boot] = "cache"
        /\ puts[p].persist /\ (Kept(p) \/ MidPut(p, PastStore)) =>
               p \in ToSet(entries) \cup Unrecorded

PutsInv ==
    /\ PutsSound /\ StoreKept /\ PutsInOrder /\ ReplacedIsGone
    /\ HeardInOrder /\ PutExpires /\ LeasesArePut /\ KeptIsThere

LEMMA RetainedOf ==
    ASSUME NEW T, NEW q \in Seq(T), NEW S
    PROVE  Retained(q, S) \in Seq(T) /\ ToSet(Retained(q, S)) = ToSet(q) \cap S
<1> DEFINE r == Retained(q, S)
<1>1. r \in Seq(T) /\ Picks(r, q, S, Len(q))
  BY RetainedPicks
<1> HIDE DEF r
<1>2. DOMAIN r = 1..Len(r) /\ DOMAIN q = 1..Len(q)
  BY <1>1
<1>3. ToSet(r) = ToSet(q) \cap S
  <2>1. ASSUME NEW x \in ToSet(r) PROVE x \in ToSet(q) \cap S
    <3>1. PICK i \in 1..Len(r) : x = r[i]
      BY <1>2 DEF ToSet
    <3>2. r[i] \in S /\ \E c \in 1..Len(q) : r[i] = q[c]
      BY <1>1, <3>1 DEF Picks
    <3> QED BY <1>2, <3>1, <3>2 DEF ToSet
  <2>2. ASSUME NEW x \in ToSet(q), x \in S PROVE x \in ToSet(r)
    <3>1. PICK c \in 1..Len(q) : x = q[c]
      BY <1>2 DEF ToSet
    <3>2. \E i \in 1..Len(r) : r[i] = q[c]
      BY <1>1, <2>2, <3>1 DEF Picks
    <3> QED BY <1>2, <3>1, <3>2 DEF ToSet
  <2> QED BY <2>1, <2>2
<1> QED BY <1>1, <1>3 DEF r

LEMMA RetainedInOrder ==
    ASSUME NEW T, NEW q \in Seq(T), NEW S, NEW b, InOrder(q, b)
    PROVE  InOrder(Retained(q, S), b)
<1> DEFINE r == Retained(q, S)
<1>1. r \in Seq(T) /\ Picks(r, q, S, Len(q))
  BY RetainedPicks
<1> HIDE DEF r
<1>2. DOMAIN r = 1..Len(r) /\ DOMAIN q = 1..Len(q)
  BY <1>1
<1>3. ASSUME NEW i \in 1..Len(r), NEW j \in 1..Len(r), i < j PROVE r[j] \notin b[r[i]]
  <2>1. PICK c \in 1..Len(q), d \in 1..Len(q) : c < d /\ r[i] = q[c] /\ r[j] = q[d]
    BY <1>1, <1>3 DEF Picks
  <2> QED BY <1>2, <2>1 DEF InOrder
<1>4. InOrder(r, b)
  BY <1>2, <1>3 DEF InOrder
<1> QED BY <1>4 DEF r

\* A sequence that grows, and one that is taken from.
LEMMA AppendOf ==
    ASSUME NEW T, NEW q \in Seq(T), NEW v \in T
    PROVE  Append(q, v) \in Seq(T) /\ ToSet(Append(q, v)) = ToSet(q) \cup {v}
<1> DEFINE r == Append(q, v)
<1>1. /\ r \in Seq(T) /\ Len(r) = Len(q) + 1 /\ r[Len(q) + 1] = v
      /\ DOMAIN r = 1..(Len(q) + 1) /\ DOMAIN q = 1..Len(q) /\ Len(q) \in Nat
      /\ \A i \in 1..Len(q) : r[i] = q[i]
  OBVIOUS
<1> HIDE DEF r
<1>2. ASSUME NEW x \in ToSet(r) PROVE x \in ToSet(q) \cup {v}
  <2>1. PICK i \in 1..(Len(q) + 1) : x = r[i]
    BY <1>1 DEF ToSet
  <2>2. CASE i = Len(q) + 1
    BY <1>1, <2>1, <2>2
  <2>3. CASE i \in 1..Len(q)
    BY <1>1, <2>1, <2>3 DEF ToSet
  <2> QED BY <1>1, <2>2, <2>3
<1>3. ASSUME NEW x \in ToSet(q) PROVE x \in ToSet(r)
  <2>1. PICK i \in 1..Len(q) : x = q[i]
    BY <1>1 DEF ToSet
  <2>2. i \in 1..(Len(q) + 1)
    BY <1>1
  <2> QED BY <1>1, <2>1, <2>2 DEF ToSet
<1>4. v \in ToSet(r)
  <2>1. Len(q) + 1 \in 1..(Len(q) + 1)
    BY <1>1
  <2> QED BY <1>1, <2>1 DEF ToSet
<1>5. ToSet(r) = ToSet(q) \cup {v}
  BY <1>2, <1>3, <1>4
<1> QED BY <1>1, <1>5 DEF r

LEMMA AppendInOrder ==
    ASSUME NEW T, NEW q \in Seq(T), NEW v \in T, NEW b, InOrder(q, b),
           \A x \in ToSet(q) : v \notin b[x]
    PROVE  InOrder(Append(q, v), b)
<1> DEFINE r == Append(q, v)
<1>1. /\ r[Len(q) + 1] = v
      /\ DOMAIN r = 1..(Len(q) + 1) /\ DOMAIN q = 1..Len(q) /\ Len(q) \in Nat
      /\ \A i \in 1..Len(q) : r[i] = q[i]
  OBVIOUS
<1> HIDE DEF r
<1>2. ASSUME NEW i \in DOMAIN r, NEW j \in DOMAIN r, i < j PROVE r[j] \notin b[r[i]]
  <2>1. i \in 1..Len(q) /\ r[i] = q[i]
    BY <1>1, <1>2
  <2>2. CASE j = Len(q) + 1
    BY <1>1, <2>1, <2>2 DEF ToSet
  <2>3. CASE j \in 1..Len(q)
    BY <1>1, <1>2, <2>1, <2>3 DEF InOrder
  <2> QED BY <1>1, <2>2, <2>3
<1>3. InOrder(r, b)
  BY <1>2 DEF InOrder
<1> QED BY <1>3 DEF r

LEMMA TailOf ==
    ASSUME NEW T, NEW q \in Seq(T), q # <<>>
    PROVE  /\ Head(q) \in T /\ Tail(q) \in Seq(T)
           /\ ToSet(q) = {Head(q)} \cup ToSet(Tail(q))
<1>1. /\ Head(q) = q[1] /\ Head(q) \in T /\ Tail(q) \in Seq(T)
      /\ Len(q) \in Nat \ {0} /\ DOMAIN q = 1..Len(q)
      /\ DOMAIN Tail(q) = 1..(Len(q) - 1)
      /\ \A i \in 1..(Len(q) - 1) : Tail(q)[i] = q[i + 1]
  OBVIOUS
<1> DEFINE t == Tail(q)
           h == Head(q)
<1> HIDE DEF t, h
<1>2. ASSUME NEW x \in ToSet(q) PROVE x \in {h} \cup ToSet(t)
  <2>1. PICK i \in 1..Len(q) : x = q[i]
    BY <1>1 DEF ToSet
  <2>2. CASE i = 1
    BY <1>1, <2>1, <2>2 DEF h
  <2>3. CASE i # 1
    <3>1. i - 1 \in 1..(Len(q) - 1) /\ (i - 1) + 1 = i
      BY <1>1, <2>3
    <3>2. x = t[i - 1] /\ i - 1 \in DOMAIN t
      BY <1>1, <2>1, <3>1 DEF t
    <3> QED BY <3>2 DEF ToSet
  <2> QED BY <2>2, <2>3
<1>3. h \in ToSet(q)
  <2>1. 1 \in 1..Len(q)
    BY <1>1
  <2> QED BY <1>1, <2>1 DEF ToSet, h
<1>4. ASSUME NEW x \in ToSet(t) PROVE x \in ToSet(q)
  <2>1. PICK i \in 1..(Len(q) - 1) : x = t[i]
    BY <1>1 DEF ToSet, t
  <2>2. x = q[i + 1] /\ i + 1 \in 1..Len(q)
    BY <1>1, <2>1 DEF t
  <2> QED BY <1>1, <2>2 DEF ToSet
<1>5. ToSet(q) = {h} \cup ToSet(t)
  BY <1>2, <1>3, <1>4
<1> QED BY <1>1, <1>5 DEF t, h

LEMMA TailInOrder ==
    ASSUME NEW T, NEW q \in Seq(T), q # <<>>, NEW b, InOrder(q, b)
    PROVE  InOrder(Tail(q), b) /\ \A x \in ToSet(Tail(q)) : x \notin b[Head(q)]
<1>1. /\ Head(q) = q[1] /\ Len(q) \in Nat \ {0} /\ DOMAIN q = 1..Len(q)
      /\ DOMAIN Tail(q) = 1..(Len(q) - 1)
      /\ \A i \in 1..(Len(q) - 1) : Tail(q)[i] = q[i + 1]
  OBVIOUS
<1>2. \A i \in 1..(Len(q) - 1) : i + 1 \in 1..Len(q) /\ 1 < i + 1 /\ 1 \in 1..Len(q)
  BY <1>1
<1> QED BY <1>1, <1>2 DEF InOrder, ToSet

LEMMA EmptyInOrder == ASSUME NEW b PROVE InOrder(<<>>, b) /\ ToSet(<<>>) = {}
<1>1. DOMAIN <<>> = {}
  OBVIOUS
<1> QED BY <1>1 DEF InOrder, ToSet

LEMMA SetOf == ASSUME NEW T, NEW q \in Seq(T) PROVE ToSet(q) \subseteq T
<1>1. DOMAIN q = 1..Len(q) /\ \A i \in 1..Len(q) : q[i] \in T
  OBVIOUS
<1> QED BY <1>1 DEF ToSet

LEMMA NoPutIsNone == NoPut \notin Put
BY PutsAssumption DEF NoPut, Put

-----------------------------------------------------------------------------
(* The parts of the invariant, step by step. *)

LEMMA PutIs ==
    ASSUME PutsTypeOK, NEW p \in Made
    PROVE  /\ p \in Put /\ p # NoPut /\ puts[p] \in Kind /\ NodeOf(p) \in Node
           /\ NodeOf(p) \in Below[NodeOf(p)]
           /\ puts[p].null => ~puts[p].persist
<1>1. puts \in Seq(Kind) /\ Len(puts) <= MaxPut
  BY DEF PutsTypeOK
<1>2. p \in Put /\ p # NoPut /\ puts[p] \in Kind
  BY <1>1, PutsAssumption DEF Made, Put, NoPut
<1>3. Kind \subseteq [node : Node, ttl : BOOLEAN, persist : BOOLEAN, null : BOOLEAN]
  BY PutsAssumption
<1>4. puts[p].node \in Node
  BY <1>2, <1>3
<1> QED BY <1>2, <1>4, PutsAssumption DEF NodeOf

LEMMA PutsInitInv ==
    ASSUME PutsInit PROVE PutsInv
<1>1. Made = {} /\ ToSet(<<>>) = {} /\ InOrder(<<>>, before)
  BY EmptyInOrder DEF PutsInit, Made
<1>2. Replayed = {} /\ Unrecorded = {}
  BY <1>1 DEF PutsInit, Replayed, Unrecorded, Putter
<1>3. PutsTypeOK
  BY PutsAssumption DEF PutsInit, PutsTypeOK, Unacked
<1>4. \A p \in Put : ~Acked(p)
  BY DEF PutsInit, Acked
<1>5. PutsSound
  BY <1>1, <1>2, <1>3, <1>4 DEF PutsInit, PutsSound, Putter
<1>6. StoreKept /\ PutsInOrder
  BY <1>1, <1>2 DEF PutsInit, StoreKept, PutsInOrder
<1>7. ReplacedIsGone /\ HeardInOrder /\ PutExpires /\ LeasesArePut /\ KeptIsThere
  BY <1>1 DEF PutsInit, ReplacedIsGone, HeardInOrder, PutExpires, LeasesArePut,
              KeptIsThere
<1> QED BY <1>5, <1>6, <1>7 DEF PutsInv

\* A put is begun by a connection that made none.
LEMMA BeginIs ==
    ASSUME PutsSound, NEW c \in Conn, NEW k \in Kind, Begin(c, k)
    PROVE  \E new :
               /\ new \in Put /\ new \notin Made /\ Made' = Made \cup {new}
               /\ \A p \in Made : puts'[p] = puts[p] /\ before'[p] = before[p] /\ p < new
               /\ before'[new] = ended /\ puts' \in Seq(Kind) /\ Len(puts') <= MaxPut
               /\ before' \in [Put -> SUBSET Put] /\ \A p \in Put : p # new => before'[p] = before[p]
               /\ step' \in [Putter -> {"idle", "cache", "store", "send"}]
               /\ doing' \in [Putter -> Put \cup {NoPut}]
               /\ doing'[c] = new /\ step'[c] = "cache" /\ doing[c] = NoPut
               /\ \A d \in Putter : d # c => doing'[d] = doing[d] /\ step'[d] = step[d]
               /\ c # Boot /\ c \in Putter /\ Boot \in Putter
<1> DEFINE new == Len(puts) + 1
<1>1. PutsTypeOK
  BY DEF PutsSound
<1>2. puts \in Seq(Kind) /\ Len(puts) \in Nat /\ Len(puts) < MaxPut /\ MaxPut \in Nat
  BY <1>1, PutsAssumption DEF Begin, PutsTypeOK
<1>3. puts' = Append(puts, k) /\ before' = [before EXCEPT ![new] = ended]
      /\ step' = [step EXCEPT ![c] = "cache"] /\ doing' = [doing EXCEPT ![c] = new]
      /\ step[c] = "idle"
  BY DEF Begin
<1>4. /\ new \in Put /\ new \notin Made /\ Made' = Made \cup {new}
      /\ \A p \in Made : puts'[p] = puts[p] /\ p < new /\ p # new /\ p \in Put
      /\ puts' \in Seq(Kind) /\ Len(puts') <= MaxPut
  BY <1>2, <1>3 DEF Made, Put
<1> HIDE DEF new
<1>5. c \in Putter /\ c # Boot /\ Boot \in Putter
  BY PutsAssumption DEF Putter
<1>6. doing[c] = NoPut
  BY <1>3, <1>5 DEF PutsSound
<1>7. /\ before' \in [Put -> SUBSET Put] /\ before'[new] = ended
      /\ \A p \in Put : p # new => before'[p] = before[p]
  BY <1>1, <1>3, <1>4 DEF PutsTypeOK
<1>8. /\ step' \in [Putter -> {"idle", "cache", "store", "send"}]
      /\ doing' \in [Putter -> Put \cup {NoPut}]
      /\ doing'[c] = new /\ step'[c] = "cache"
      /\ \A d \in Putter : d # c => doing'[d] = doing[d] /\ step'[d] = step[d]
  BY <1>1, <1>3, <1>4, <1>5 DEF PutsTypeOK
<1>9. \A p \in Made : before'[p] = before[p]
  BY <1>4, <1>7
<1> QED BY <1>4, <1>5, <1>6, <1>7, <1>8, <1>9

LEMMA SameOrder ==
    ASSUME NEW q, NEW b, NEW d, InOrder(q, b), \A x \in ToSet(q) : d[x] = b[x]
    PROVE  InOrder(q, d)
BY DEF InOrder, ToSet

LEMMA BeginKeeps ==
    ASSUME PutsInv, NEW c \in Conn, NEW k \in Kind, Begin(c, k)
    PROVE  PutsInv'
<1>1. PICK new :
      /\ new \in Put /\ new \notin Made /\ Made' = Made \cup {new}
      /\ \A p \in Made : puts'[p] = puts[p] /\ before'[p] = before[p] /\ p < new
      /\ before'[new] = ended /\ puts' \in Seq(Kind) /\ Len(puts') <= MaxPut
      /\ before' \in [Put -> SUBSET Put] /\ \A p \in Put : p # new => before'[p] = before[p]
      /\ step' \in [Putter -> {"idle", "cache", "store", "send"}]
      /\ doing' \in [Putter -> Put \cup {NoPut}]
      /\ doing'[c] = new /\ step'[c] = "cache" /\ doing[c] = NoPut
      /\ \A d \in Putter : d # c => doing'[d] = doing[d] /\ step'[d] = step[d]
      /\ c # Boot /\ c \in Putter /\ Boot \in Putter
  BY BeginIs DEF PutsInv
<1>2. /\ UNCHANGED <<stored, entries, inbox, leased, evicting, replay, file, restarts,
                     over, life, ended, cut>>
      /\ Bound
  BY DEF Begin
<1>3. PutsSound /\ PutsTypeOK
  BY DEF PutsInv, PutsSound
<1>4. Replayed' = Replayed /\ Unrecorded' = Unrecorded /\ Bound'
  BY <1>1, <1>2 DEF Replayed, Unrecorded, Bound
<1>5. \A p \in Made : NodeOf(p)' = NodeOf(p) /\ p \in Put /\ p # new /\ p # NoPut
  BY <1>1, <1>3, PutIs DEF NodeOf
<1>6. \A p : Acked(p)' = Acked(p)
  BY <1>2 DEF Acked
<1>7. Made \subseteq Made' /\ new \notin ended /\ ended \subseteq Made
  BY <1>1, <1>3 DEF PutsSound
<1>8. PutsSound'
  <2>1. PutsTypeOK'
    BY <1>1, <1>2, <1>3 DEF PutsTypeOK
  <2>2. ASSUME NEW d \in Putter
        PROVE  doing'[d] \in Made' \cup {NoPut} /\ (doing'[d] = NoPut <=> step'[d] = "idle")
    <3>1. new # NoPut
      BY <1>1 DEF Put, NoPut
    <3>2. CASE d = c
      BY <1>1, <3>1, <3>2
    <3>3. CASE d # c
      BY <1>1, <1>3, <3>3 DEF PutsSound
    <3> QED BY <3>2, <3>3
  <2>3. ASSUME NEW d \in Conn
        PROVE  doing'[d] \notin ended' /\ (step'[d] # "idle" => Bound')
    <3>1. d \in Putter
      BY DEF Putter
    <3>2. CASE d = c
      BY <1>1, <1>2, <1>4, <1>7, <3>2
    <3>3. CASE d # c
      BY <1>1, <1>2, <1>3, <1>4, <3>1, <3>3 DEF PutsSound
    <3> QED BY <3>2, <3>3
  <2>10. ASSUME NEW d \in Conn, NEW e \in Conn, doing'[d] = doing'[e], doing'[d] # NoPut
         PROVE  d = e
    BY <1>1, <1>3, <2>10 DEF PutsSound, Putter
  <2>4. \A n \in Node : stored'[n] # NoPut => stored'[n] \in Made' /\ NodeOf(stored[n])' = n
    BY <1>1, <1>2, <1>3, <1>5 DEF PutsSound, NodeOf
  <2>5. {p \in Made : puts[p].persist} \subseteq {p \in Made' : puts'[p].persist}
    BY <1>1
  <2>6. ToSet(entries') \cup ToSet(file') \cup Replayed'
            \subseteq {p \in Made' : puts'[p].persist}
    BY <1>2, <1>3, <1>4, <2>5 DEF PutsSound
  <2>7. ToSet(inbox') \cup ended' \subseteq Made' /\ over' \subseteq {p \in Made' : puts'[p].ttl}
    BY <1>1, <1>2, <1>3 DEF PutsSound
  <2>8. \A p \in Put : Acked(p)' => p \in Made' /\ life'[p] <= restarts'
    BY <1>1, <1>2, <1>3, <1>6 DEF PutsSound
  <2>9. ASSUME NEW p \in Put PROVE before'[p] \subseteq {q \in ended' : q < p}
    <3>1. CASE p = new
      BY <1>1, <1>2, <1>7, <3>1
    <3>2. CASE p # new
      BY <1>1, <1>2, <1>3, <3>2 DEF PutsSound
    <3> QED BY <3>1, <3>2
  <2> QED BY <2>1, <2>2, <2>3, <2>4, <2>6, <2>7, <2>8, <2>9, <2>10 DEF PutsSound
<1>9. StoreKept'
  BY <1>2, <1>4 DEF PutsInv, StoreKept
<1>10. PutsInOrder'
  <2>1. \A p \in ToSet(entries) \cup ToSet(file) \cup ToSet(inbox) \cup Replayed :
            before'[p] = before[p]
    BY <1>1, <1>3 DEF PutsSound
  <2>2. ToSet(replay) \subseteq Replayed
    <3>1. NoPut \notin ToSet(replay)
      <4>1. replay = <<>>
        BY <1>2 DEF Bound
      <4> QED BY <4>1, EmptyInOrder
    <3> QED BY <3>1 DEF Replayed
  <2>3. /\ InOrder(entries, before') /\ InOrder(file, before')
        /\ InOrder(inbox, before') /\ InOrder(replay, before')
    BY <2>1, <2>2, SameOrder DEF PutsInv, PutsInOrder
  <2>4. doing'[Boot] = doing[Boot] /\ \A q \in ToSet(replay) : q \in Replayed
    BY <1>1, <2>2
  <2>5. \A n \in Node : stored[n] # NoPut => before'[stored[n]] = before[stored[n]]
    BY <1>1, <1>3 DEF PutsSound
  <2>6. doing[Boot] # NoPut => before'[doing[Boot]] = before[doing[Boot]]
    BY <1>1, <1>3 DEF PutsSound
  <2> QED BY <1>2, <1>4, <2>1, <2>3, <2>4, <2>5, <2>6 DEF PutsInv, PutsInOrder
<1>11. \A p \in Made, at \in {PastCache, PastStore} : MidPut(p, at)' => MidPut(p, at)
  BY <1>1, <1>5 DEF MidPut, Putter
<1>12. ~Acked(new)' /\ \A at \in {PastCache, PastStore} : ~MidPut(new, at)'
  <2>1. ~Acked(new)'
    BY <1>1, <1>3, <1>6 DEF PutsSound
  <2>2. \A d \in Conn : doing[d] # new
    BY <1>1, <1>3 DEF PutsSound, Putter, Put, NoPut
  <2>3. "cache" \notin PastCache /\ "cache" \notin PastStore
    BY DEF PastCache, PastStore
  <2> QED BY <1>1, <2>1, <2>2, <2>3 DEF MidPut, Putter
<1>13. ReplacedIsGone'
  <2> SUFFICES ASSUME NEW q \in Made', NEW p \in before'[q],
                      NodeOf(p)' \in Below[NodeOf(q)']
               PROVE  /\ Acked(q)' \/ MidPut(q, PastCache)' => \A n \in Node : stored'[n] # p
                      /\ Acked(q)' \/ MidPut(q, PastStore)' =>
                             p \notin ToSet(entries') \cup Replayed'
    BY DEF ReplacedIsGone
  <2>1. CASE q = new
    BY <1>12, <2>1
  <2>2. CASE q # new
    <3>1. q \in Made /\ before'[q] = before[q] /\ p \in Made
      BY <1>1, <1>3, <1>5, <1>7, <2>2 DEF PutsSound
    <3>2. NodeOf(p) \in Below[NodeOf(q)]
      BY <1>5, <3>1
    <3> QED BY <1>2, <1>4, <1>6, <1>11, <3>1, <3>2 DEF PutsInv, ReplacedIsGone
  <2> QED BY <2>1, <2>2
<1>14. \A p \in Made : (\E d \in Putter : doing[d] = p) => \E d \in Putter : doing'[d] = p
  BY <1>1, <1>5
<1>15. HeardInOrder'
  BY <1>1, <1>2, <1>3, <1>14 DEF PutsInv, PutsSound, HeardInOrder
<1>16. \A p \in Made : /\ Rivals(p) \subseteq Rivals(p)' /\ Takers(p) \subseteq Takers(p)'
                       /\ NeverLeased(NodeOf(p))' => NeverLeased(NodeOf(p))
  BY <1>1, <1>5 DEF Rivals, Takers, NeverLeased
<1>17. PutExpires'
  BY <1>1, <1>2, <1>3, <1>14, <1>16 DEF PutsInv, PutsSound, PutExpires
<1>18. LeasesArePut'
  BY <1>1, <1>2, <1>5 DEF PutsInv, LeasesArePut
<1>19. KeptIsThere'
  <2> SUFFICES ASSUME NEW p \in Made', Undisputed(p)'
               PROVE  /\ Kept(p)' \/ MidPut(p, PastCache)' =>
                             \/ stored'[NodeOf(p)'] = p \/ p \in ToSet(replay')
                             \/ doing'[Boot] = p /\ step'[Boot] = "cache"
                      /\ puts'[p].persist /\ (Kept(p)' \/ MidPut(p, PastStore)') =>
                             p \in ToSet(entries') \cup Unrecorded'
    BY DEF KeptIsThere
  <2>1. CASE p = new
    BY <1>12, <2>1 DEF Kept
  <2>2. CASE p # new
    <3>1. p \in Made /\ puts'[p] = puts[p]
      BY <1>1, <2>2
    <3>2. Undisputed(p)
      BY <1>5, <1>16, <3>1 DEF Undisputed
    <3>3. Kept(p)' = Kept(p)
      BY <1>2, <1>6, <3>1 DEF Kept
    <3> QED BY <1>1, <1>2, <1>4, <1>5, <1>11, <3>1, <3>2, <3>3 DEF PutsInv, KeptIsThere
  <2> QED BY <2>1, <2>2
<1> QED BY <1>8, <1>9, <1>10, <1>13, <1>15, <1>17, <1>18, <1>19 DEF PutsInv

\* What of the invariant is of the puts alone.
LEMMA SamePuts ==
    ASSUME UNCHANGED <<puts, before>>
    PROVE  /\ Made' = Made
           /\ \A p : NodeOf(p)' = NodeOf(p) /\ Rivals(p)' = Rivals(p)
           /\ \A p : Undisputed(p)' = Undisputed(p)
<1>1. Made' = Made /\ \A p : NodeOf(p)' = NodeOf(p)
  BY DEF Made, NodeOf
<1>2. \A p : Rivals(p)' = Rivals(p) /\ Takers(p)' = Takers(p)
  BY <1>1 DEF Rivals, Takers
<1>3. \A p : NeverLeased(NodeOf(p))' = NeverLeased(NodeOf(p))
  BY <1>1 DEF NeverLeased
<1> QED BY <1>1, <1>2, <1>3 DEF Undisputed

\* The start and connections do not put beside one another.
LEMMA StartAlone ==
    ASSUME PutsSound
    PROVE  /\ Boot \in Putter /\ Conn \subseteq Putter /\ Boot \notin Conn
           /\ Putter = Conn \cup {Boot}
           /\ Unrecorded \subseteq Replayed /\ ToSet(replay) \subseteq Unrecorded
           /\ \A c \in Conn : step[c] # "idle" => Replayed = {} /\ step[Boot] = "idle"
           /\ step[Boot] # "idle" => doing[Boot] \in Replayed
           /\ replay # <<>> \/ step[Boot] # "idle" => \A c \in Conn : step[c] = "idle"
           /\ Bound => Replayed = {}
<1>1. Boot \in Putter /\ Conn \subseteq Putter /\ Boot \notin Conn /\ Putter = Conn \cup {Boot}
  BY PutsAssumption DEF Putter
<1>2. NoPut \notin ToSet(replay)
  BY SetOf, NoPutIsNone DEF PutsSound, PutsTypeOK
<1>3. step[Boot] # "idle" <=> doing[Boot] # NoPut
  BY <1>1 DEF PutsSound
<1>4. Unrecorded \subseteq Replayed /\ ToSet(replay) \subseteq Unrecorded
  BY <1>2, <1>3 DEF Unrecorded, Replayed
<1>5. Bound => Replayed = {}
  BY <1>3, EmptyInOrder DEF Bound, Replayed
<1>6. \A c \in Conn : step[c] # "idle" => Bound
  BY DEF PutsSound
<1> QED BY <1>1, <1>3, <1>4, <1>5, <1>6 DEF Bound, Replayed

LEMMA AgainKeeps ==
    ASSUME PutsInv, Again
    PROVE  PutsInv'
<1>1. /\ step[Boot] = "idle" /\ replay # <<>> /\ replay' = Tail(replay)
      /\ doing' = [doing EXCEPT ![Boot] = Head(replay)]
      /\ step' = [step EXCEPT ![Boot] = "cache"]
      /\ UNCHANGED <<puts, stored, entries, inbox, leased, evicting, file, restarts, over,
                     life, ended, before, cut>>
  BY DEF Again, historyVars
<1>2. PutsSound /\ PutsTypeOK
  BY DEF PutsInv, PutsSound
<1>3. /\ Boot \in Putter /\ Conn \subseteq Putter /\ Boot \notin Conn
      /\ Putter = Conn \cup {Boot} /\ doing[Boot] = NoPut
      /\ \A c \in Conn : step[c] = "idle"
  BY <1>1, <1>2, StartAlone DEF PutsSound
<1> DEFINE h == Head(replay)
<1>4. replay \in Seq(Put)
  BY <1>2 DEF PutsTypeOK
<1>5. h \in Put /\ Tail(replay) \in Seq(Put) /\ ToSet(replay) = {h} \cup ToSet(Tail(replay))
      /\ h # NoPut
  <2>1. h \in Put /\ Tail(replay) \in Seq(Put) /\ ToSet(replay) = {h} \cup ToSet(Tail(replay))
    BY <1>1, <1>4, TailOf
  <2> HIDE DEF h
  <2> QED BY <2>1, NoPutIsNone
<1>6. /\ doing' \in [Putter -> Put \cup {NoPut}] /\ doing'[Boot] = h
      /\ step' \in [Putter -> {"idle", "cache", "store", "send"}] /\ step'[Boot] = "cache"
      /\ \A c \in Conn : doing'[c] = doing[c] /\ step'[c] = step[c]
  BY <1>1, <1>2, <1>3, <1>5 DEF PutsTypeOK
<1> HIDE DEF h
<1>7. Replayed' = Replayed
  BY <1>1, <1>3, <1>5, <1>6 DEF Replayed
<1>8. Unrecorded' = Unrecorded
  BY <1>1, <1>3, <1>5, <1>6 DEF Unrecorded
<1>9. h \in Made
  BY <1>2, <1>5 DEF PutsSound, Replayed
<1>10. /\ Made' = Made /\ \A p : NodeOf(p)' = NodeOf(p) /\ Rivals(p)' = Rivals(p)
       /\ \A p : Undisputed(p)' = Undisputed(p)
  BY <1>1, SamePuts
<1>11. \A p : Acked(p)' = Acked(p) /\ Kept(p)' = Kept(p)
  BY <1>1 DEF Acked, Kept
<1>12. \A p, at : MidPut(p, at)' = MidPut(p, at)
  BY <1>6 DEF MidPut
<1>13. PutsSound'
  <2>1. PutsTypeOK'
    BY <1>1, <1>2, <1>5, <1>6 DEF PutsTypeOK
  <2>2. \A c \in Putter : doing'[c] \in Made \cup {NoPut} /\ (doing'[c] = NoPut <=> step'[c] = "idle")
    BY <1>2, <1>3, <1>5, <1>6, <1>9 DEF PutsSound
  <2>3. \A c \in Conn : doing'[c] \notin ended /\ step'[c] = "idle"
    BY <1>2, <1>3, <1>6 DEF PutsSound
  <2>4. \A n \in Node : stored[n] # NoPut => stored[n] \in Made /\ NodeOf(stored[n])' = n
    BY <1>1, <1>2 DEF PutsSound, NodeOf
  <2> QED BY <1>1, <1>2, <1>6, <1>7, <1>10, <1>11, <2>1, <2>2, <2>3, <2>4 DEF PutsSound
<1>14. StoreKept'
  BY <1>1, <1>8 DEF PutsInv, StoreKept
<1>15. PutsInOrder'
  <2>1. InOrder(Tail(replay), before) /\ \A q \in ToSet(Tail(replay)) : q \notin before[h]
    BY <1>1, <1>4, TailInOrder DEF PutsInv, PutsInOrder, h
  <2> QED BY <1>1, <1>6, <1>7, <2>1 DEF PutsInv, PutsInOrder
<1>16. ReplacedIsGone'
  BY <1>1, <1>7, <1>10, <1>11, <1>12 DEF PutsInv, ReplacedIsGone
<1>17. \A p \in Made : (\E c \in Putter : doing[c] = p) => \E c \in Putter : doing'[c] = p
  BY <1>2, <1>3, <1>6, PutIs
<1>18. HeardInOrder' /\ PutExpires'
  BY <1>1, <1>2, <1>10, <1>17 DEF PutsInv, PutsSound, HeardInOrder, PutExpires
<1>19. LeasesArePut'
  BY <1>1, <1>10 DEF PutsInv, LeasesArePut
<1>20. KeptIsThere'
  <2> SUFFICES ASSUME NEW p \in Made, Undisputed(p)
               PROVE  /\ Kept(p) \/ MidPut(p, PastCache) =>
                             \/ stored[NodeOf(p)] = p \/ p \in ToSet(replay')
                             \/ doing'[Boot] = p /\ step'[Boot] = "cache"
                      /\ puts[p].persist /\ (Kept(p) \/ MidPut(p, PastStore)) =>
                             p \in ToSet(entries) \cup Unrecorded
    BY <1>1, <1>8, <1>10, <1>11, <1>12 DEF KeptIsThere
  <2> QED BY <1>1, <1>2, <1>3, <1>5, <1>6, PutIs DEF PutsInv, KeptIsThere
<1> QED BY <1>13, <1>14, <1>15, <1>16, <1>18, <1>19, <1>20 DEF PutsInv

\* What a put's step in the cache does there.
LEMMA InCacheIs ==
    ASSUME PutsSound, NEW c \in Putter, InCache(c)
    PROVE  LET r == doing[c]
           IN  /\ r \in Made /\ stored' \in [Node -> Put \cup {NoPut}]
               /\ stored'[NodeOf(r)] = IF puts[r].null THEN NoPut ELSE r
               /\ \A n \in Node : stored'[n] # stored[n] /\ n # NodeOf(r) => stored'[n] = NoPut
               /\ \A n \in Below[NodeOf(r)] \cap Node : n # NodeOf(r) => stored'[n] = NoPut
               /\ \A n \in Node : n \notin Below[NodeOf(r)] /\ NodeOf(r) \notin Below[n] =>
                      stored'[n] = stored[n]
<1> DEFINE r == doing[c]
<1>1. PutsTypeOK /\ r \in Made
  BY PutIs DEF PutsSound, InCache
<1>2. r \in Put /\ NodeOf(r) \in Node /\ NodeOf(r) \in Below[NodeOf(r)]
  BY <1>1, PutIs
<1>3. PICK also \in BOOLEAN :
         stored' = IF puts[r].null THEN DropSubtree(NodeOf(r), also)
                   ELSE [DropSubtree(NodeOf(r), also) EXCEPT ![NodeOf(r)] = r]
  BY DEF InCache
<1> HIDE DEF r
<1> DEFINE d == DropSubtree(NodeOf(r), also)
<1>4. /\ d \in [Node -> Put \cup {NoPut}]
      /\ \A n \in Node :
           d[n] = IF n \in Below[NodeOf(r)] \/ (also /\ n \in Emptied(NodeOf(r)))
                    THEN NoPut ELSE stored[n]
  BY <1>1 DEF DropSubtree, PutsTypeOK
<1>5. \A n \in Node : n \in Emptied(NodeOf(r)) => NodeOf(r) \in Below[n]
  BY DEF Emptied
<1>6. stored' = IF puts[r].null THEN d ELSE [d EXCEPT ![NodeOf(r)] = r]
  BY <1>3
<1> HIDE DEF d
<1>7. CASE puts[r].null
  BY <1>1, <1>2, <1>4, <1>5, <1>6, <1>7 DEF r
<1>8. CASE ~puts[r].null
  <2>1. /\ stored' \in [Node -> Put \cup {NoPut}] /\ stored'[NodeOf(r)] = r
        /\ \A n \in Node : n # NodeOf(r) => stored'[n] = d[n]
    BY <1>2, <1>4, <1>6, <1>8
  <2> QED BY <1>1, <1>2, <1>4, <1>5, <1>8, <2>1 DEF r
<1> QED BY <1>7, <1>8

LEMMA InCacheKeeps ==
    ASSUME PutsInv, NEW c \in Putter, InCache(c)
    PROVE  PutsInv'
<1>1. /\ step[c] = "cache" /\ step' = [step EXCEPT ![c] = "store"]
      /\ UNCHANGED <<puts, doing, entries, inbox, leased, evicting, replay, file, restarts,
                     over, life, ended, before, cut>>
  BY DEF InCache, historyVars
<1>2. PutsSound /\ PutsTypeOK
  BY DEF PutsInv, PutsSound
<1>3. PICK r : r = doing[c]
  OBVIOUS
<1>4. /\ r \in Made /\ stored' \in [Node -> Put \cup {NoPut}]
      /\ stored'[NodeOf(r)] = IF puts[r].null THEN NoPut ELSE r
      /\ \A n \in Node : stored'[n] # stored[n] /\ n # NodeOf(r) => stored'[n] = NoPut
      /\ \A n \in Below[NodeOf(r)] \cap Node : n # NodeOf(r) => stored'[n] = NoPut
      /\ \A n \in Node : n \notin Below[NodeOf(r)] /\ NodeOf(r) \notin Below[n] =>
             stored'[n] = stored[n]
  BY <1>2, <1>3, InCacheIs
<1>5. /\ Boot \in Putter /\ Conn \subseteq Putter /\ Boot \notin Conn
      /\ Putter = Conn \cup {Boot}
      /\ \A d \in Conn : step[d] # "idle" => Replayed = {} /\ step[Boot] = "idle"
      /\ step[Boot] # "idle" => doing[Boot] \in Replayed
      /\ step[Boot] # "idle" => \A d \in Conn : step[d] = "idle"
  BY <1>2, StartAlone
<1>6. /\ step' \in [Putter -> {"idle", "cache", "store", "send"}] /\ step'[c] = "store"
      /\ \A d \in Putter : d # c => step'[d] = step[d]
  BY <1>1, <1>2 DEF PutsTypeOK
<1>7. r \in Put /\ r # NoPut /\ NodeOf(r) \in Node /\ NodeOf(r) \in Below[NodeOf(r)]
  BY <1>2, <1>4, PutIs
<1>8. c = Boot => r \in Replayed
  BY <1>1, <1>3, <1>5
<1>9. c \in Conn => r \notin ended /\ Replayed = {}
  BY <1>1, <1>2, <1>3, <1>5 DEF PutsSound
<1>10. Replayed' = Replayed /\ Unrecorded' = Unrecorded /\ (Bound' <=> Bound)
  <2>1. step'[Boot] = "idle" <=> step[Boot] = "idle"
    BY <1>1, <1>5, <1>6
  <2>2. step'[Boot] \in {"cache", "store"} <=> step[Boot] \in {"cache", "store"}
    BY <1>1, <1>5, <1>6
  <2> QED BY <1>1, <2>1, <2>2 DEF Replayed, Unrecorded, Bound
<1>11. /\ Made' = Made /\ \A p : NodeOf(p)' = NodeOf(p) /\ Rivals(p)' = Rivals(p)
       /\ \A p : Undisputed(p)' = Undisputed(p)
  BY <1>1, SamePuts
<1>12. \A p : Acked(p)' = Acked(p) /\ Kept(p)' = Kept(p)
  BY <1>1 DEF Acked, Kept
<1>13. \A n \in Node : stored'[n] = r \/ stored'[n] = NoPut \/ stored'[n] = stored[n]
  BY <1>4
<1>14. \A n \in Node : stored'[n] = r => stored[n] = r \/ n = NodeOf(r)
  BY <1>4, <1>7
<1>15. PutsSound'
  <2>1. PutsTypeOK'
    BY <1>1, <1>2, <1>4, <1>6 DEF PutsTypeOK
  <2>2. \A d \in Putter : doing[d] \in Made \cup {NoPut} /\ (doing[d] = NoPut <=> step'[d] = "idle")
    BY <1>1, <1>2, <1>6 DEF PutsSound
  <2>3. \A d \in Conn : doing[d] \notin ended /\ (step'[d] # "idle" => Bound')
    BY <1>1, <1>2, <1>5, <1>6, <1>10 DEF PutsSound
  <2>4. ASSUME NEW n \in Node, stored'[n] # NoPut
        PROVE  stored'[n] \in Made /\ NodeOf(stored[n])' = n
    <3>1. NodeOf(stored[n])' = puts[stored'[n]].node
      BY <1>1 DEF NodeOf
    <3>2. stored'[n] \in Made /\ puts[stored'[n]].node = n
      BY <1>2, <1>4, <1>13, <1>14, <2>4 DEF PutsSound, NodeOf
    <3> QED BY <3>1, <3>2
  <2> QED BY <1>1, <1>2, <1>10, <1>11, <1>12, <2>1, <2>2, <2>3, <2>4 DEF PutsSound
<1>16. StoreKept'
  BY <1>1, <1>10 DEF PutsInv, StoreKept
<1>17. PutsInOrder'
  <2>1. ASSUME NEW q \in Replayed PROVE q \notin before[r]
    <3>1. c = Boot
      BY <1>5, <1>9, <2>1
    <3>2. r = doing[Boot] /\ (q \in ToSet(replay) \/ q = r)
      BY <1>3, <2>1, <3>1 DEF Replayed
    <3>3. r \notin before[r]
      BY <1>2, <1>7 DEF PutsSound, Put
    <3> QED BY <1>7, <3>2, <3>3 DEF PutsInv, PutsInOrder
  <2>2. ASSUME NEW q \in Replayed, NEW n \in Node, stored'[n] # NoPut
        PROVE  q \notin before[stored'[n]]
    BY <1>13, <2>1, <2>2 DEF PutsInv, PutsInOrder
  <2> QED BY <1>1, <1>10, <2>2 DEF PutsInv, PutsInOrder
<1>18. ReplacedIsGone'
  <2> SUFFICES ASSUME NEW q \in Made, NEW p \in before[q],
                      NodeOf(p) \in Below[NodeOf(q)]
               PROVE  /\ Acked(q) \/ MidPut(q, PastCache)' => \A n \in Node : stored'[n] # p
                      /\ Acked(q) \/ MidPut(q, PastStore)' =>
                             p \notin ToSet(entries) \cup Replayed
    BY <1>1, <1>10, <1>11, <1>12 DEF ReplacedIsGone
  <2>1. q \in Put /\ p \in ended /\ p \in Made /\ p # NoPut
    BY <1>2, PutIs DEF PutsSound
  <2>2. MidPut(q, PastStore)' => MidPut(q, PastStore)
    BY <1>1, <1>6, <1>5 DEF MidPut, PastStore
  <2>3. ASSUME NEW n \in Node, stored'[n] = p, Acked(q) \/ MidPut(q, PastCache)'
        PROVE  FALSE
    <3>1. CASE MidPut(q, PastCache)' /\ c \in Conn /\ q = r
      <4>1. p # r /\ stored[n] = p
        BY <1>9, <1>13, <2>1, <2>3, <3>1
      <4>2. n = NodeOf(p)
        BY <1>2, <2>1, <4>1 DEF PutsSound
      <4>3. stored'[n] = NoPut \/ stored'[n] = r
        BY <1>4, <1>7, <3>1, <4>2
      <4> QED BY <2>1, <2>3, <4>1, <4>3
    <3>2. CASE ~(MidPut(q, PastCache)' /\ c \in Conn /\ q = r)
      <4>1. Acked(q) \/ MidPut(q, PastCache)
        <5> SUFFICES ASSUME MidPut(q, PastCache)' PROVE MidPut(q, PastCache)
          BY <2>3
        <5>1. PICK d \in Conn : doing[d] = q /\ step'[d] \in PastCache
          BY <1>1 DEF MidPut
        <5>2. d # c
          BY <1>3, <3>2, <5>1
        <5> QED BY <1>5, <1>6, <5>1, <5>2 DEF MidPut
      <4>2. stored[n] # p
        BY <4>1 DEF PutsInv, ReplacedIsGone
      <4>3. p = r
        BY <1>13, <2>1, <2>3, <4>2
      <4>4. c = Boot
        BY <1>5, <1>9, <2>1, <4>3
      <4>5. ~MidPut(q, PastCache)
        BY <1>1, <1>5, <4>4 DEF MidPut, PastCache
      <4>6. p \notin Replayed
        BY <4>1, <4>5 DEF PutsInv, ReplacedIsGone
      <4> QED BY <1>8, <4>3, <4>4, <4>6
    <3> QED BY <3>1, <3>2
  <2> QED BY <2>2, <2>3 DEF PutsInv, ReplacedIsGone
<1>19. HeardInOrder' /\ PutExpires'
  <2>1. \E d \in Putter : doing[d] = r
    BY <1>3
  <2> QED BY <1>1, <1>11, <1>13, <2>1 DEF PutsInv, HeardInOrder, PutExpires
<1>20. LeasesArePut'
  BY <1>1, <1>11 DEF PutsInv, LeasesArePut
<1>21. KeptIsThere'
  <2> SUFFICES ASSUME NEW p \in Made, Undisputed(p)
               PROVE  /\ Kept(p) \/ MidPut(p, PastCache)' =>
                             \/ stored'[NodeOf(p)] = p \/ p \in ToSet(replay)
                             \/ doing[Boot] = p /\ step'[Boot] = "cache"
                      /\ puts[p].persist /\ (Kept(p) \/ MidPut(p, PastStore)') =>
                             p \in ToSet(entries) \cup Unrecorded
    BY <1>1, <1>10, <1>11, <1>12 DEF KeptIsThere
  <2>1. MidPut(p, PastStore)' => MidPut(p, PastStore)
    BY <1>1, <1>6, <1>5 DEF MidPut, PastStore
  <2>2. ~puts[p].null
    BY DEF Undisputed
  <2>3. ASSUME p # r, Kept(p) \/ MidPut(p, PastCache)'
        PROVE  \/ stored'[NodeOf(p)] = p \/ p \in ToSet(replay)
               \/ doing[Boot] = p /\ step'[Boot] = "cache"
    <3>1. Kept(p) \/ MidPut(p, PastCache)
      BY <1>1, <1>3, <1>5, <1>6, <2>3 DEF MidPut
    <3>2. \/ stored[NodeOf(p)] = p \/ p \in ToSet(replay)
          \/ doing[Boot] = p /\ step[Boot] = "cache"
      BY <3>1 DEF PutsInv, KeptIsThere
    <3>3. CASE doing[Boot] = p /\ step[Boot] = "cache"
      BY <1>3, <1>5, <1>6, <2>3, <3>3
    <3>4. CASE stored[NodeOf(p)] = p
      <4>1. p \in Put /\ p # NoPut /\ NodeOf(p) \in Node
        BY <1>2, PutIs
      <4>2. r \notin before[p]
        <5>1. CASE c = Boot
          BY <1>8, <3>4, <4>1, <5>1 DEF PutsInv, PutsInOrder
        <5>2. CASE c \in Conn
          BY <1>2, <1>9, <4>1, <5>2 DEF PutsSound
        <5> QED BY <1>5, <5>1, <5>2
      <4>3. NodeOf(p) \notin Below[NodeOf(r)] /\ NodeOf(r) \notin Below[NodeOf(p)]
        BY <1>4, <2>3, <4>2 DEF Undisputed, Rivals, Takers
      <4> QED BY <1>4, <3>4, <4>1, <4>3
    <3> QED BY <3>2, <3>3, <3>4
  <2>4. p = r => stored'[NodeOf(p)] = p
    BY <1>4, <2>2
  <2> QED BY <2>1, <2>3, <2>4 DEF PutsInv, KeptIsThere
<1> QED BY <1>15, <1>16, <1>17, <1>18, <1>19, <1>20, <1>21 DEF PutsInv

\* What a put's step in the store does there.
LEMMA RecordIs ==
    ASSUME PutsSound, NEW r \in Made, Record(r), InOrder(entries, before), InOrder(file, before),
           \A e \in ToSet(entries) : r \notin before[e]
    PROVE  /\ entries' \in Seq(Put) /\ file' \in Seq(Put)
           /\ InOrder(entries', before) /\ InOrder(file', before)
           /\ ToSet(entries') = {e \in ToSet(entries) : NodeOf(e) \notin Below[NodeOf(r)]}
                                \cup (IF puts[r].persist THEN {r} ELSE {})
           /\ \/ file' = entries'
              \/ file' = file /\ entries' = entries /\ ~puts[r].persist
<1>1. PutsTypeOK /\ entries \in Seq(Put) /\ file \in Seq(Put) /\ ToSet(entries) \subseteq Made
  BY DEF PutsSound, PutsTypeOK
<1>2. r \in Put
  BY <1>1, PutIs
<1> DEFINE S == {e \in Made : NodeOf(e) \notin Below[NodeOf(r)]}
           kept == Retained(entries, S)
<1>3. /\ kept \in Seq(Put) /\ ToSet(kept) = ToSet(entries) \cap S
      /\ InOrder(kept, before)
  BY <1>1, RetainedOf, RetainedInOrder
<1>4. /\ puts[r].persist => entries' = Append(kept, r) /\ file' = entries'
      /\ ~puts[r].persist =>
             \/ entries' = kept /\ file' = entries'
             \/ entries' = entries /\ file' = file /\ entries' = kept
  BY DEF Record, Save, Without
<1> HIDE DEF kept
<1>5. ToSet(kept) = {e \in ToSet(entries) : NodeOf(e) \notin Below[NodeOf(r)]}
  BY <1>1, <1>3
<1>6. CASE puts[r].persist
  <2>1. Append(kept, r) \in Seq(Put) /\ ToSet(Append(kept, r)) = ToSet(kept) \cup {r}
    BY <1>2, <1>3, AppendOf
  <2>2. \A e \in ToSet(kept) : r \notin before[e]
    BY <1>3
  <2>3. InOrder(Append(kept, r), before)
    BY <1>2, <1>3, <2>2, AppendInOrder
  <2> QED BY <1>4, <1>5, <1>6, <2>1, <2>3
<1>7. CASE ~puts[r].persist
  BY <1>1, <1>3, <1>4, <1>5, <1>7
<1> QED BY <1>6, <1>7

LEMMA InStoreKeeps ==
    ASSUME PutsInv, NEW c \in Putter, InStore(c)
    PROVE  PutsInv'
<1>1. /\ step[c] = "store" /\ step' = [step EXCEPT ![c] = "send"]
      /\ UNCHANGED <<puts, doing, stored, inbox, leased, evicting, replay, restarts,
                     over, life, ended, before, cut>>
  BY DEF InStore, historyVars
<1>2. PutsSound /\ PutsTypeOK
  BY DEF PutsInv, PutsSound
<1>3. PICK r : r = doing[c]
  OBVIOUS
<1>4. r \in Made /\ Record(r)
  BY <1>1, <1>2, <1>3 DEF PutsSound, InStore
<1>5. /\ Boot \in Putter /\ Conn \subseteq Putter /\ Boot \notin Conn
      /\ Putter = Conn \cup {Boot}
      /\ \A d \in Conn : step[d] # "idle" => Replayed = {} /\ step[Boot] = "idle"
      /\ step[Boot] # "idle" => doing[Boot] \in Replayed
      /\ step[Boot] # "idle" => \A d \in Conn : step[d] = "idle"
      /\ Unrecorded \subseteq Replayed /\ ToSet(replay) \subseteq Unrecorded
  BY <1>2, StartAlone
<1>6. /\ step' \in [Putter -> {"idle", "cache", "store", "send"}] /\ step'[c] = "send"
      /\ \A d \in Putter : d # c => step'[d] = step[d]
  BY <1>1, <1>2 DEF PutsTypeOK
<1>7. r \in Put /\ r # NoPut /\ NodeOf(r) \in Node /\ NodeOf(r) \in Below[NodeOf(r)]
  BY <1>2, <1>4, PutIs
<1>8. c = Boot => r \in Replayed /\ puts[r].persist
  BY <1>1, <1>2, <1>3, <1>5 DEF PutsSound
<1>9. c \in Conn => r \notin ended /\ Replayed = {}
  BY <1>1, <1>2, <1>3, <1>5 DEF PutsSound
<1>10. \A e \in ToSet(entries) : e \in Made /\ e \in Put /\ r \notin before[e]
  <2>1. \A e \in ToSet(entries) : e \in Made /\ e \in Put
    BY <1>2, PutIs DEF PutsSound
  <2>2. CASE c = Boot
    BY <1>8, <2>1, <2>2 DEF PutsInv, PutsInOrder
  <2>3. CASE c \in Conn
    BY <1>2, <1>9, <2>1, <2>3 DEF PutsSound
  <2> QED BY <1>5, <2>1, <2>2, <2>3
<1>11. /\ entries' \in Seq(Put) /\ file' \in Seq(Put)
       /\ InOrder(entries', before) /\ InOrder(file', before)
       /\ ToSet(entries') = {e \in ToSet(entries) : NodeOf(e) \notin Below[NodeOf(r)]}
                            \cup (IF puts[r].persist THEN {r} ELSE {})
       /\ \/ file' = entries'
          \/ file' = file /\ entries' = entries /\ ~puts[r].persist
  BY <1>2, <1>4, <1>10, RecordIs DEF PutsInv, PutsInOrder
<1>12. Replayed' = Replayed /\ (Bound' <=> Bound)
  <2>1. step'[Boot] = "idle" <=> step[Boot] = "idle"
    BY <1>1, <1>5, <1>6
  <2> QED BY <1>1, <2>1 DEF Replayed, Bound
<1>13. c # Boot => Unrecorded' = Unrecorded
  BY <1>1, <1>5, <1>6 DEF Unrecorded
<1>14. Unrecorded \subseteq Unrecorded' \cup {r}
  BY <1>1, <1>3, <1>5, <1>6 DEF Unrecorded
<1>15. /\ Made' = Made /\ \A p : NodeOf(p)' = NodeOf(p) /\ Rivals(p)' = Rivals(p)
       /\ \A p : Undisputed(p)' = Undisputed(p)
  BY <1>1, SamePuts
<1>16. \A p : Acked(p)' = Acked(p) /\ Kept(p)' = Kept(p)
  BY <1>1 DEF Acked, Kept
<1>17. PutsSound'
  <2>1. PutsTypeOK'
    BY <1>1, <1>2, <1>6, <1>11 DEF PutsTypeOK
  <2>2. \A d \in Putter : doing[d] \in Made \cup {NoPut} /\ (doing[d] = NoPut <=> step'[d] = "idle")
    BY <1>1, <1>2, <1>6 DEF PutsSound
  <2>3. \A d \in Conn : doing[d] \notin ended /\ (step'[d] # "idle" => Bound')
    BY <1>1, <1>2, <1>5, <1>6, <1>12 DEF PutsSound
  <2>4. \A n \in Node : stored[n] # NoPut => stored[n] \in Made /\ NodeOf(stored[n])' = n
    BY <1>1, <1>2 DEF PutsSound, NodeOf
  <2>5. ToSet(entries') \cup ToSet(file') \subseteq {p \in Made : puts[p].persist}
    BY <1>2, <1>4, <1>11 DEF PutsSound
  <2> QED BY <1>1, <1>2, <1>12, <1>15, <1>16, <2>1, <2>2, <2>3, <2>4, <2>5 DEF PutsSound
<1>18. StoreKept'
  <2>1. CASE file' = entries'
    BY <2>1 DEF StoreKept
  <2>2. CASE file' = file /\ entries' = entries /\ ~puts[r].persist
    BY <1>1, <1>8, <1>13, <2>2 DEF PutsInv, StoreKept
  <2> QED BY <1>11, <2>1, <2>2
<1>19. PutsInOrder'
  <2>1. ASSUME NEW q \in Replayed PROVE q \notin before[r]
    <3>1. c = Boot
      BY <1>5, <1>9, <2>1
    <3>2. r = doing[Boot] /\ (q \in ToSet(replay) \/ q = r)
      BY <1>3, <2>1, <3>1 DEF Replayed
    <3>3. r \notin before[r]
      BY <1>2, <1>7 DEF PutsSound, Put
    <3> QED BY <1>7, <3>2, <3>3 DEF PutsInv, PutsInOrder
  <2>2. \A q \in Replayed, p \in ToSet(entries') : q \notin before[p]
    BY <1>11, <2>1 DEF PutsInv, PutsInOrder
  <2> QED BY <1>1, <1>11, <1>12, <2>2 DEF PutsInv, PutsInOrder
<1>20. \A p : MidPut(p, PastCache)' => MidPut(p, PastCache)
  BY <1>1, <1>5, <1>6 DEF MidPut, PastCache
<1>21. ReplacedIsGone'
  <2> SUFFICES ASSUME NEW q \in Made, NEW p \in before[q],
                      NodeOf(p) \in Below[NodeOf(q)]
               PROVE  /\ Acked(q) \/ MidPut(q, PastCache)' => \A n \in Node : stored[n] # p
                      /\ Acked(q) \/ MidPut(q, PastStore)' =>
                             p \notin ToSet(entries') \cup Replayed
    BY <1>1, <1>12, <1>15, <1>16 DEF ReplacedIsGone
  <2>1. q \in Put /\ p \in ended /\ p \in Made
    BY <1>2, PutIs DEF PutsSound
  <2>2. ASSUME Acked(q) \/ MidPut(q, PastStore)'
        PROVE  p \notin ToSet(entries') \cup Replayed
    <3>1. CASE MidPut(q, PastStore)' /\ c \in Conn /\ q = r
      BY <1>9, <1>11, <2>1, <3>1
    <3>2. CASE ~(MidPut(q, PastStore)' /\ c \in Conn /\ q = r)
      <4>1. Acked(q) \/ MidPut(q, PastStore)
        <5> SUFFICES ASSUME MidPut(q, PastStore)' PROVE MidPut(q, PastStore)
          BY <2>2
        <5>1. PICK d \in Conn : doing[d] = q /\ step'[d] \in PastStore
          BY <1>1 DEF MidPut
        <5>2. d # c
          BY <1>3, <3>2, <5>1
        <5> QED BY <1>5, <1>6, <5>1, <5>2 DEF MidPut
      <4>2. p \notin ToSet(entries) \cup Replayed
        BY <4>1 DEF PutsInv, ReplacedIsGone
      <4>3. p # r
        BY <1>5, <1>8, <1>9, <2>1, <4>2
      <4> QED BY <1>11, <4>2, <4>3
    <3> QED BY <3>1, <3>2
  <2> QED BY <1>20, <2>2 DEF PutsInv, ReplacedIsGone
<1>22. HeardInOrder' /\ PutExpires'
  BY <1>1, <1>15 DEF PutsInv, HeardInOrder, PutExpires
<1>23. LeasesArePut'
  BY <1>1, <1>15 DEF PutsInv, LeasesArePut
<1>24. KeptIsThere'
  <2> SUFFICES ASSUME NEW p \in Made, Undisputed(p)
               PROVE  /\ Kept(p) \/ MidPut(p, PastCache)' =>
                             \/ stored[NodeOf(p)] = p \/ p \in ToSet(replay)
                             \/ doing[Boot] = p /\ step'[Boot] = "cache"
                      /\ puts[p].persist /\ (Kept(p) \/ MidPut(p, PastStore)') =>
                             p \in ToSet(entries') \cup Unrecorded'
    BY <1>1, <1>15, <1>16 DEF KeptIsThere
  <2>1. step[Boot] = "cache" => step'[Boot] = "cache"
    BY <1>1, <1>5, <1>6
  <2>2. ASSUME p # r, puts[p].persist, Kept(p) \/ MidPut(p, PastStore)'
        PROVE  p \in ToSet(entries') \cup Unrecorded'
    <3>1. Kept(p) \/ MidPut(p, PastStore)
      BY <1>1, <1>3, <1>5, <1>6, <2>2 DEF MidPut
    <3>2. p \in ToSet(entries) \cup Unrecorded
      BY <2>2, <3>1 DEF PutsInv, KeptIsThere
    <3>3. CASE p \in Unrecorded
      BY <1>14, <2>2, <3>3
    <3>4. CASE p \in ToSet(entries)
      <4>1. r \notin before[p]
        BY <1>10, <3>4
      <4>2. NodeOf(p) \notin Below[NodeOf(r)]
        BY <1>4, <2>2, <4>1 DEF Undisputed, Rivals
      <4> QED BY <1>11, <3>4, <4>2
    <3> QED BY <3>2, <3>3, <3>4
  <2>3. p = r /\ puts[p].persist => p \in ToSet(entries')
    BY <1>11
  <2> QED BY <1>20, <2>1, <2>2, <2>3 DEF PutsInv, KeptIsThere
<1> QED BY <1>17, <1>18, <1>19, <1>21, <1>22, <1>23, <1>24 DEF PutsInv

\* The scheduler is told, and a client has its answer.
LEMMA SendWrittenKeeps ==
    ASSUME PutsInv, NEW c \in Putter, SendWritten(c)
    PROVE  PutsInv'
<1>1. /\ step[c] = "send" /\ step' = [step EXCEPT ![c] = "idle"]
      /\ doing' = [doing EXCEPT ![c] = NoPut] /\ inbox' = Append(inbox, doing[c])
      /\ UNCHANGED <<puts, stored, entries, leased, evicting, replay, file, restarts,
                     over, before, cut>>
  BY DEF SendWritten
<1>2. PutsSound /\ PutsTypeOK
  BY DEF PutsInv, PutsSound
<1>3. PICK r : r = doing[c]
  OBVIOUS
<1>4. r \in Made
  BY <1>1, <1>2, <1>3 DEF PutsSound
<1>5. /\ Boot \in Putter /\ Conn \subseteq Putter /\ Boot \notin Conn
      /\ Putter = Conn \cup {Boot}
      /\ \A d \in Conn : step[d] # "idle" => Replayed = {} /\ step[Boot] = "idle"
      /\ step[Boot] # "idle" => doing[Boot] \in Replayed
      /\ step[Boot] # "idle" => \A d \in Conn : step[d] = "idle"
      /\ Unrecorded \subseteq Replayed /\ ToSet(replay) \subseteq Unrecorded
  BY <1>2, StartAlone
<1>6. /\ step' \in [Putter -> {"idle", "cache", "store", "send"}] /\ step'[c] = "idle"
      /\ doing' \in [Putter -> Put \cup {NoPut}] /\ doing'[c] = NoPut
      /\ \A d \in Putter : d # c => step'[d] = step[d] /\ doing'[d] = doing[d]
  BY <1>1, <1>2 DEF PutsTypeOK
<1>7. r \in Put /\ r # NoPut /\ NodeOf(r) \in Node
  BY <1>2, <1>4, PutIs
<1>8. c = Boot => r \in Replayed
  BY <1>1, <1>3, <1>5
<1>9. c \in Conn => r \notin ended /\ Replayed = {}
  BY <1>1, <1>2, <1>3, <1>5 DEF PutsSound
<1>10. /\ life' \in [Put -> 0..Unacked] /\ ended' = ended \cup (IF c = Boot THEN {} ELSE {r})
       /\ \A p \in Put : life'[p] = IF c # Boot /\ p = r THEN restarts ELSE life[p]
       /\ restarts # Unacked
  <2>1. restarts \in 0..Unacked /\ restarts # Unacked
    BY <1>2, PutsAssumption DEF PutsTypeOK, Unacked
  <2>2. CASE c = Boot
    BY <1>2, <2>1, <2>2 DEF PutsTypeOK, SendWritten
  <2>3. CASE c # Boot
    <3>1. life' = [life EXCEPT ![r] = restarts] /\ ended' = ended \cup {r}
      BY <1>3, <2>3 DEF SendWritten
    <3> QED BY <1>2, <1>7, <2>1, <2>3, <3>1 DEF PutsTypeOK
  <2> QED BY <2>2, <2>3
<1>11. inbox' \in Seq(Put) /\ ToSet(inbox') = ToSet(inbox) \cup {r}
  BY <1>1, <1>2, <1>3, <1>7, AppendOf DEF PutsTypeOK
<1>12. Replayed' \subseteq Replayed /\ (c # Boot => Replayed' = Replayed)
  BY <1>1, <1>5, <1>6 DEF Replayed
<1>13. Unrecorded' = Unrecorded
  <2>1. CASE c = Boot
    BY <1>1, <1>5, <1>6, <2>1 DEF Unrecorded
  <2>2. CASE c # Boot
    BY <1>1, <1>5, <1>6, <2>2 DEF Unrecorded
  <2> QED BY <2>1, <2>2
<1>14. Bound => Bound'
  BY <1>1, <1>5, <1>6 DEF Bound
<1>15. /\ Made' = Made /\ \A p : NodeOf(p)' = NodeOf(p) /\ Rivals(p)' = Rivals(p)
       /\ \A p : Undisputed(p)' = Undisputed(p)
  BY <1>1, SamePuts
<1>16. \A p \in Put : Acked(p)' <=> Acked(p) \/ (c \in Conn /\ p = r)
  BY <1>5, <1>10 DEF Acked
<1>17. \A p \in Put : Kept(p)' => Kept(p) \/ (c \in Conn /\ p = r)
  BY <1>1, <1>5, <1>10, <1>16 DEF Kept
<1>18. c \in Conn => MidPut(r, PastCache) /\ MidPut(r, PastStore)
  BY <1>1, <1>3 DEF MidPut, PastCache, PastStore
<1>19. \A p \in Made, at \in {PastCache, PastStore} : MidPut(p, at)' => MidPut(p, at)
  <2>1. "idle" \notin PastCache /\ "idle" \notin PastStore
    BY DEF PastCache, PastStore
  <2> QED BY <1>5, <1>6, <2>1 DEF MidPut
<1>20. PutsSound'
  <2>1. PutsTypeOK'
    <3>1. ended' \subseteq Put
      BY <1>2, <1>7, <1>10 DEF PutsTypeOK
    <3> QED BY <1>1, <1>2, <1>6, <1>10, <1>11, <3>1 DEF PutsTypeOK
  <2>2. \A d \in Putter : doing'[d] \in Made \cup {NoPut} /\ (doing'[d] = NoPut <=> step'[d] = "idle")
    BY <1>2, <1>6 DEF PutsSound
  <2>3. ASSUME NEW d \in Conn PROVE doing'[d] \notin ended' /\ (step'[d] # "idle" => Bound')
    <3>1. CASE d = c
      <4>1. NoPut \notin Made
        BY <1>2, PutIs
      <4> QED BY <1>2, <1>4, <1>5, <1>6, <1>10, <3>1, <4>1 DEF PutsSound
    <3>2. CASE d # c
      <4>1. doing[d] \notin ended /\ (step[d] # "idle" => Bound)
        BY <1>2 DEF PutsSound
      <4>2. c \in Conn => doing[d] # r
        BY <1>2, <1>3, <1>7, <3>2 DEF PutsSound
      <4> QED BY <1>5, <1>6, <1>10, <1>14, <3>2, <4>1, <4>2
    <3> QED BY <3>1, <3>2
  <2>4. \A d, e \in Conn : doing'[d] = doing'[e] /\ doing'[d] # NoPut => d = e
    BY <1>2, <1>5, <1>6 DEF PutsSound
  <2>5. \A n \in Node : stored[n] # NoPut => stored[n] \in Made /\ NodeOf(stored[n])' = n
    BY <1>1, <1>2 DEF PutsSound, NodeOf
  <2>6. ToSet(entries) \cup ToSet(file) \cup Replayed' \subseteq {p \in Made : puts[p].persist}
    BY <1>2, <1>12 DEF PutsSound
  <2>7. ToSet(inbox') \cup ended' \subseteq Made
    BY <1>2, <1>4, <1>10, <1>11 DEF PutsSound
  <2>8. ASSUME NEW p \in Put, Acked(p)' PROVE p \in Made /\ life'[p] <= restarts
    <3>1. restarts \in Nat
      BY <1>2, PutsAssumption DEF PutsTypeOK
    <3>2. CASE c \in Conn /\ p = r
      <4>1. life'[p] = restarts
        BY <1>5, <1>10, <3>2
      <4> QED BY <1>4, <3>1, <3>2, <4>1
    <3>3. CASE ~(c \in Conn /\ p = r)
      <4>1. Acked(p) /\ life'[p] = life[p]
        BY <1>5, <1>10, <1>16, <2>8, <3>3
      <4> QED BY <1>2, <4>1 DEF PutsSound
    <3> QED BY <3>2, <3>3
  <2>9. \A p \in Put : before[p] \subseteq {q \in ended' : q < p}
    BY <1>2, <1>10 DEF PutsSound
  <2>10. over \subseteq {p \in Made : puts[p].ttl}
    BY <1>2 DEF PutsSound
  <2> QED BY <1>1, <1>15, <2>1, <2>2, <2>3, <2>4, <2>5, <2>6, <2>7, <2>8, <2>9, <2>10
          DEF PutsSound
<1>21. StoreKept'
  BY <1>1, <1>13 DEF PutsInv, StoreKept
<1>22. PutsInOrder'
  <2>1. \A x \in ToSet(inbox) : x \in Made /\ x \in Put /\ r \notin before[x]
    <3>1. \A x \in ToSet(inbox) : x \in Made /\ x \in Put
      BY <1>2, PutIs DEF PutsSound
    <3>2. CASE c = Boot
      BY <1>8, <3>1, <3>2 DEF PutsInv, PutsInOrder
    <3>3. CASE c \in Conn
      BY <1>2, <1>9, <3>1, <3>3 DEF PutsSound
    <3> QED BY <1>5, <3>1, <3>2, <3>3
  <2>2. InOrder(inbox', before)
    BY <1>1, <1>2, <1>3, <1>7, <2>1, AppendInOrder DEF PutsInv, PutsInOrder, PutsTypeOK
  <2>3. ASSUME NEW q \in Replayed' PROVE q \notin before[r]
    <3>1. c = Boot
      BY <1>5, <1>9, <1>12, <2>3
    <3>2. r = doing[Boot] /\ q \in ToSet(replay)
      BY <1>1, <1>3, <1>6, <2>3, <3>1 DEF Replayed
    <3> QED BY <1>7, <3>2 DEF PutsInv, PutsInOrder
  <2>4. doing'[Boot] # NoPut => doing'[Boot] = doing[Boot]
    BY <1>5, <1>6
  <2> QED BY <1>1, <1>11, <1>12, <2>2, <2>3, <2>4 DEF PutsInv, PutsInOrder
<1>23. ReplacedIsGone'
  <2> SUFFICES ASSUME NEW q \in Made, NEW p \in before[q],
                      NodeOf(p) \in Below[NodeOf(q)]
               PROVE  /\ Acked(q)' \/ MidPut(q, PastCache)' => \A n \in Node : stored[n] # p
                      /\ Acked(q)' \/ MidPut(q, PastStore)' =>
                             p \notin ToSet(entries) \cup Replayed'
    BY <1>1, <1>15 DEF ReplacedIsGone
  <2>1. q \in Put
    BY <1>2, PutIs
  <2>2. /\ Acked(q)' \/ MidPut(q, PastCache)' => Acked(q) \/ MidPut(q, PastCache)
        /\ Acked(q)' \/ MidPut(q, PastStore)' => Acked(q) \/ MidPut(q, PastStore)
    BY <1>16, <1>18, <1>19, <2>1
  <2> QED BY <1>12, <2>2 DEF PutsInv, ReplacedIsGone
<1>24. ASSUME NEW p \in Made
       PROVE  (\E d \in Putter : doing[d] = p) => p = r \/ \E d \in Putter : doing'[d] = p
  BY <1>3, <1>6
<1>25. HeardInOrder'
  <2> SUFFICES ASSUME NEW n \in Node, stored[n] # NoPut
               PROVE  \/ stored[n] \in ToSet(inbox') \/ \E d \in Putter : doing'[d] = stored[n]
                      \/ \A q \in ToSet(inbox') : q \notin before[stored[n]]
    BY <1>1 DEF HeardInOrder
  <2>1. stored[n] \in Made /\ stored[n] \in Put
    BY <1>2, PutIs DEF PutsSound
  <2>2. r \notin before[stored[n]]
    <3>1. CASE c = Boot
      BY <1>8, <3>1 DEF PutsInv, PutsInOrder
    <3>2. CASE c \in Conn
      BY <1>2, <1>9, <2>1, <3>2 DEF PutsSound
    <3> QED BY <1>5, <3>1, <3>2
  <2> QED BY <1>11, <1>24, <2>1, <2>2 DEF PutsInv, HeardInOrder
<1>26. PutExpires'
  BY <1>1, <1>2, <1>11, <1>15, <1>24 DEF PutsInv, PutsSound, PutExpires
<1>27. LeasesArePut'
  BY <1>1, <1>15 DEF PutsInv, LeasesArePut
<1>28. KeptIsThere'
  <2> SUFFICES ASSUME NEW p \in Made, Undisputed(p)
               PROVE  /\ Kept(p)' \/ MidPut(p, PastCache)' =>
                             \/ stored[NodeOf(p)] = p \/ p \in ToSet(replay)
                             \/ doing'[Boot] = p /\ step'[Boot] = "cache"
                      /\ puts[p].persist /\ (Kept(p)' \/ MidPut(p, PastStore)') =>
                             p \in ToSet(entries) \cup Unrecorded
    BY <1>1, <1>13, <1>15 DEF KeptIsThere
  <2>1. p \in Put
    BY <1>2, PutIs
  <2>2. /\ Kept(p)' \/ MidPut(p, PastCache)' => Kept(p) \/ MidPut(p, PastCache)
        /\ Kept(p)' \/ MidPut(p, PastStore)' => Kept(p) \/ MidPut(p, PastStore)
    BY <1>17, <1>18, <1>19, <2>1
  <2>3. doing[Boot] = p /\ step[Boot] = "cache" => doing'[Boot] = p /\ step'[Boot] = "cache"
    BY <1>1, <1>5, <1>6
  <2> QED BY <2>2, <2>3 DEF PutsInv, KeptIsThere
<1> QED BY <1>20, <1>21, <1>22, <1>23, <1>25, <1>26, <1>27, <1>28 DEF PutsInv

\* The scheduler hears of a put: leases at its node and below it are its own.
LEMMA HearWrittenKeeps ==
    ASSUME PutsInv, HearWritten
    PROVE  PutsInv'
<1>1. /\ inbox # <<>> /\ leased' = LeasedAfter(Head(inbox)) /\ inbox' = Tail(inbox)
      /\ UNCHANGED <<puts, step, doing, stored, entries, evicting, replay, file, restarts,
                     over, life, ended, before, cut>>
  BY DEF HearWritten, historyVars
<1>2. PutsSound /\ PutsTypeOK /\ inbox \in Seq(Put)
  BY DEF PutsInv, PutsSound, PutsTypeOK
<1>3. PICK h : h = Head(inbox)
  OBVIOUS
<1>4. h \in Put /\ inbox' \in Seq(Put) /\ ToSet(inbox) = {h} \cup ToSet(inbox')
  BY <1>1, <1>2, <1>3, TailOf
<1>5. InOrder(inbox', before) /\ \A q \in ToSet(inbox') : q \notin before[h]
  BY <1>1, <1>2, <1>3, TailInOrder DEF PutsInv, PutsInOrder
<1>6. h \in Made /\ NodeOf(h) \in Node
  BY <1>2, <1>4, PutIs DEF PutsSound
<1>7. leased' = (leased \ Below[NodeOf(h)]) \cup (IF puts[h].ttl THEN {NodeOf(h)} ELSE {})
  BY <1>1, <1>3 DEF LeasedAfter
<1>8. /\ Made' = Made /\ \A p : NodeOf(p)' = NodeOf(p) /\ Rivals(p)' = Rivals(p)
      /\ \A p : Undisputed(p)' = Undisputed(p)
  BY <1>1, SamePuts
<1>9. /\ Replayed' = Replayed /\ Unrecorded' = Unrecorded /\ Bound' = Bound
      /\ \A p : Acked(p)' = Acked(p) /\ Kept(p)' = Kept(p)
      /\ \A p, at : MidPut(p, at)' = MidPut(p, at)
  BY <1>1 DEF Replayed, Unrecorded, Bound, Acked, Kept, MidPut
<1>10. PutsSound'
  <2>1. leased' \subseteq Node
    BY <1>2, <1>6, <1>7 DEF PutsTypeOK
  <2>2. PutsTypeOK'
    BY <1>1, <1>2, <1>4, <2>1 DEF PutsTypeOK
  <2>3. \A n \in Node : stored[n] # NoPut => stored[n] \in Made /\ NodeOf(stored[n])' = n
    BY <1>1, <1>2 DEF PutsSound, NodeOf
  <2>4. ToSet(inbox') \cup ended \subseteq Made
    BY <1>2, <1>4 DEF PutsSound
  <2> QED BY <1>1, <1>2, <1>8, <1>9, <2>2, <2>3, <2>4 DEF PutsSound
<1>11. StoreKept'
  BY <1>1, <1>9 DEF PutsInv, StoreKept
<1>12. PutsInOrder'
  BY <1>1, <1>4, <1>5, <1>9 DEF PutsInv, PutsInOrder
<1>13. ReplacedIsGone'
  BY <1>1, <1>8, <1>9 DEF PutsInv, ReplacedIsGone
<1>14. HeardInOrder'
  BY <1>1, <1>4, <1>5 DEF PutsInv, HeardInOrder
<1>15. PutExpires'
  <2> SUFFICES ASSUME NEW n \in Node, stored[n] # NoPut, puts[stored[n]].ttl,
                      Rivals(stored[n]) = {}
               PROVE  \/ n \in leased' \/ stored[n] \in ToSet(inbox')
                      \/ \E c \in Putter : doing[c] = stored[n]
    BY <1>1, <1>8 DEF PutExpires
  <2>1. stored[n] \in Made /\ NodeOf(stored[n]) = n /\ n \in Node
    BY <1>2 DEF PutsSound
  <2>2. CASE stored[n] = h
    BY <1>7, <2>1, <2>2
  <2>3. CASE stored[n] # h
    <3>1. h \in before[stored[n]] \/ n \notin Below[NodeOf(h)]
      BY <1>6, <2>1, <2>3 DEF Rivals
    <3>2. CASE n \notin Below[NodeOf(h)]
      BY <1>4, <1>7, <2>3, <3>2 DEF PutsInv, PutExpires
    <3>3. CASE h \in before[stored[n]]
      BY <1>4, <2>3, <3>3 DEF PutsInv, HeardInOrder
    <3> QED BY <3>1, <3>2, <3>3
  <2> QED BY <2>2, <2>3
<1>16. LeasesArePut'
  BY <1>1, <1>6, <1>7, <1>8 DEF PutsInv, LeasesArePut
<1>17. KeptIsThere'
  BY <1>1, <1>8, <1>9 DEF PutsInv, KeptIsThere
<1> QED BY <1>10, <1>11, <1>12, <1>13, <1>14, <1>15, <1>16, <1>17 DEF PutsInv

\* What expires: the node, and what it held as it was the last of it.
LEMMA EvictPutIs ==
    ASSUME PutsTypeOK, NEW m \in Node, EvictPut(m)
    PROVE  /\ stored' \in [Node -> Put \cup {NoPut}] /\ stored'[m] = NoPut
           /\ \A n \in Node : stored'[n] \in {stored[n], NoPut}
           /\ \A n \in Node : stored[n] # NoPut /\ n # m /\ m \notin Below[n] =>
                  stored'[n] = stored[n]
<1>1. PICK also \in BOOLEAN : stored' = DropAddress(m, also)
  BY DEF EvictPut
<1>2. stored \in [Node -> Put \cup {NoPut}]
  BY DEF PutsTypeOK
<1>3. \A n \in Node : n \in Emptied(m) => m \in Below[n]
  BY DEF Emptied
<1> DEFINE d == DropAddress(m, also)
<1>4. /\ d \in [Node -> Put \cup {NoPut}]
      /\ \A n \in Node :
           d[n] = IF n = m \/ (also /\ n \in Emptied(m)) THEN NoPut ELSE stored[n]
  BY <1>2 DEF DropAddress
<1>5. stored' = d
  BY <1>1
<1> HIDE DEF d
<1> QED BY <1>3, <1>4, <1>5

LEMMA EvictPutKeeps ==
    ASSUME PutsInv, NEW m \in Node, EvictPut(m)
    PROVE  PutsInv'
<1>1. /\ m \in leased /\ leased' = leased \ {m} /\ evicting' = m
      /\ UNCHANGED <<puts, step, doing, entries, inbox, replay, file, restarts,
                     over, life, ended, before, cut>>
  BY DEF EvictPut, historyVars
<1>2. PutsSound /\ PutsTypeOK
  BY DEF PutsInv, PutsSound
<1>3. /\ stored' \in [Node -> Put \cup {NoPut}] /\ stored'[m] = NoPut
      /\ \A n \in Node : stored'[n] \in {stored[n], NoPut}
      /\ \A n \in Node : stored[n] # NoPut /\ n # m /\ m \notin Below[n] =>
             stored'[n] = stored[n]
  BY <1>2, EvictPutIs
<1>4. /\ Made' = Made /\ \A p : NodeOf(p)' = NodeOf(p) /\ Rivals(p)' = Rivals(p)
      /\ \A p : Undisputed(p)' = Undisputed(p)
  BY <1>1, SamePuts
<1>5. /\ Replayed' = Replayed /\ Unrecorded' = Unrecorded /\ Bound' = Bound
      /\ \A p : Acked(p)' = Acked(p) /\ Kept(p)' = Kept(p)
      /\ \A p, at : MidPut(p, at)' = MidPut(p, at)
  BY <1>1 DEF Replayed, Unrecorded, Bound, Acked, Kept, MidPut
<1>6. PutsSound'
  <2>1. PutsTypeOK'
    BY <1>1, <1>2, <1>3 DEF PutsTypeOK
  <2>2. ASSUME NEW n \in Node, stored'[n] # NoPut
        PROVE  stored'[n] \in Made /\ NodeOf(stored[n])' = n
    <3>1. stored'[n] = stored[n]
      BY <1>3, <2>2
    <3>2. NodeOf(stored[n])' = NodeOf(stored[n])
      BY <1>1, <3>1 DEF NodeOf
    <3> QED BY <1>2, <2>2, <3>1, <3>2 DEF PutsSound
  <2> QED BY <1>1, <1>2, <1>4, <1>5, <2>1, <2>2 DEF PutsSound
<1>7. StoreKept'
  BY <1>1, <1>5 DEF PutsInv, StoreKept
<1>8. PutsInOrder'
  BY <1>1, <1>3, <1>5 DEF PutsInv, PutsInOrder
<1>9. ReplacedIsGone'
  <2> SUFFICES ASSUME NEW q \in Made, NEW p \in before[q],
                      NodeOf(p) \in Below[NodeOf(q)]
               PROVE  /\ Acked(q) \/ MidPut(q, PastCache) => \A n \in Node : stored'[n] # p
                      /\ Acked(q) \/ MidPut(q, PastStore) =>
                             p \notin ToSet(entries) \cup Replayed
    BY <1>1, <1>4, <1>5 DEF ReplacedIsGone
  <2>1. q \in Put
    BY <1>2, PutIs
  <2>2. p # NoPut
    BY <1>2, <2>1, PutIs DEF PutsSound
  <2> QED BY <1>3, <2>2 DEF PutsInv, ReplacedIsGone
<1>10. HeardInOrder' /\ PutExpires'
  BY <1>1, <1>3, <1>4 DEF PutsInv, HeardInOrder, PutExpires
<1>11. LeasesArePut'
  BY <1>1, <1>4 DEF PutsInv, LeasesArePut
<1>12. KeptIsThere'
  <2>1. ASSUME NEW p \in Made, Undisputed(p), stored[NodeOf(p)] = p
        PROVE  stored'[NodeOf(p)] = p
    <3>1. PICK q \in Made : NodeOf(q) = m /\ puts[q].ttl
      BY <1>1 DEF PutsInv, LeasesArePut
    <3>2. m \notin Below[NodeOf(p)]
      BY <2>1, <3>1 DEF Undisputed, NeverLeased
    <3>3. p # NoPut /\ NodeOf(p) \in Node /\ NodeOf(p) # m
      BY <1>2, <3>2, PutIs
    <3> QED BY <1>3, <2>1, <3>2, <3>3
  <2> QED BY <1>1, <1>4, <1>5, <2>1 DEF PutsInv, KeptIsThere
<1> QED BY <1>6, <1>7, <1>8, <1>9, <1>10, <1>11, <1>12 DEF PutsInv

\* The entry of the expired node goes.
LEMMA ExpireEntryKeeps ==
    ASSUME PutsInv, ExpireEntry
    PROVE  PutsInv'
<1>1. /\ evicting # NoNode /\ evicting' = NoNode
      /\ UNCHANGED <<puts, step, doing, stored, inbox, leased, replay, restarts,
                     over, life, ended, before, cut>>
  BY DEF ExpireEntry, historyVars
<1>2. PutsSound /\ PutsTypeOK /\ entries \in Seq(Put) /\ file \in Seq(Put)
      /\ ToSet(entries) \subseteq Made
  BY DEF PutsInv, PutsSound, PutsTypeOK
<1>3. /\ entries' \in Seq(Put) /\ InOrder(entries', before)
      /\ ToSet(entries') = {e \in ToSet(entries) : NodeOf(e) # evicting}
      /\ file' = entries' \/ (file' = file /\ entries' = entries)
  <2> DEFINE kept == Retained(entries, {e \in Made : NodeOf(e) # evicting})
  <2>1. /\ kept \in Seq(Put) /\ InOrder(kept, before)
        /\ ToSet(kept) = ToSet(entries) \cap {e \in Made : NodeOf(e) # evicting}
    BY <1>2, RetainedOf, RetainedInOrder DEF PutsInv, PutsInOrder
  <2>2. \/ entries' = kept /\ file' = entries'
        \/ entries' = entries /\ file' = file /\ entries' = kept
    BY DEF ExpireEntry, Save
  <2> HIDE DEF kept
  <2> QED BY <1>2, <2>1, <2>2
<1>4. /\ Made' = Made /\ \A p : NodeOf(p)' = NodeOf(p) /\ Rivals(p)' = Rivals(p)
      /\ \A p : Undisputed(p)' = Undisputed(p)
  BY <1>1, SamePuts
<1>5. /\ Replayed' = Replayed /\ Unrecorded' = Unrecorded /\ Bound' = Bound
      /\ \A p : Acked(p)' = Acked(p) /\ Kept(p)' = Kept(p)
      /\ \A p, at : MidPut(p, at)' = MidPut(p, at)
  BY <1>1 DEF Replayed, Unrecorded, Bound, Acked, Kept, MidPut
<1>6. PutsSound'
  <2>1. PutsTypeOK'
    BY <1>1, <1>2, <1>3 DEF PutsTypeOK
  <2>2. \A n \in Node : stored[n] # NoPut => stored[n] \in Made /\ NodeOf(stored[n])' = n
    BY <1>1, <1>2 DEF PutsSound, NodeOf
  <2>3. ToSet(entries') \cup ToSet(file') \subseteq {p \in Made : puts[p].persist}
    BY <1>2, <1>3 DEF PutsSound
  <2> QED BY <1>1, <1>2, <1>4, <1>5, <2>1, <2>2, <2>3 DEF PutsSound
<1>7. StoreKept'
  BY <1>1, <1>3, <1>5 DEF PutsInv, StoreKept
<1>8. PutsInOrder'
  BY <1>1, <1>3, <1>5 DEF PutsInv, PutsInOrder
<1>9. ReplacedIsGone'
  BY <1>1, <1>3, <1>4, <1>5 DEF PutsInv, ReplacedIsGone
<1>10. HeardInOrder' /\ PutExpires'
  BY <1>1, <1>4 DEF PutsInv, HeardInOrder, PutExpires
<1>11. LeasesArePut'
  BY <1>1, <1>4 DEF PutsInv, LeasesArePut
<1>12. KeptIsThere'
  <2>1. ASSUME NEW p \in Made, Undisputed(p) PROVE NodeOf(p) # evicting
    <3>1. PICK q \in Made : NodeOf(q) = evicting /\ puts[q].ttl
      BY <1>1 DEF PutsInv, LeasesArePut
    <3>2. NodeOf(p) \in Below[NodeOf(p)]
      BY <1>2, PutIs
    <3> QED BY <2>1, <3>1, <3>2 DEF Undisputed, NeverLeased
  <2>2. ASSUME NEW p \in Made, Undisputed(p), p \in ToSet(entries) PROVE p \in ToSet(entries')
    BY <1>3, <2>1, <2>2
  <2> QED BY <1>1, <1>4, <1>5, <2>2 DEF PutsInv, KeptIsThere
<1> QED BY <1>6, <1>7, <1>8, <1>9, <1>10, <1>11, <1>12 DEF PutsInv

\* The daemon dies at any step, and the next one is to replay what the file has.
LEMMA RestartKeeps ==
    ASSUME PutsInv, Restart
    PROVE  PutsInv'
<1>1. /\ restarts < MaxRestart /\ restarts' = restarts + 1
      /\ step' = [c \in Putter |-> "idle"] /\ doing' = [c \in Putter |-> NoPut]
      /\ stored' = [n \in Node |-> NoPut] /\ entries' = <<>> /\ inbox' = <<>>
      /\ leased' = {} /\ evicting' = NoNode
      /\ ended' = Made /\ cut' = cut \cup (Replayed \ ToSet(file))
      /\ UNCHANGED <<puts, file, life, before>>
  BY DEF Restart, Made
<1>2. PutsSound /\ PutsTypeOK /\ file \in Seq(Put) /\ ToSet(file) \subseteq Made
  BY DEF PutsInv, PutsSound, PutsTypeOK
<1>3. PICK now \in SUBSET {p \in ToSet(file) \ over : puts[p].ttl} :
        over' = over \cup now /\ replay' = Retained(file, Made \ (over \cup now))
  BY DEF Restart
<1>4. /\ replay' \in Seq(Put) /\ InOrder(replay', before)
      /\ ToSet(replay') = ToSet(file) \ over'
  <2>1. /\ replay' \in Seq(Put) /\ InOrder(replay', before)
        /\ ToSet(replay') = ToSet(file) \cap (Made \ (over \cup now))
    BY <1>2, <1>3, RetainedOf, RetainedInOrder DEF PutsInv, PutsInOrder
  <2> QED BY <1>2, <1>3, <2>1
<1>5. /\ Made' = Made /\ \A p : NodeOf(p)' = NodeOf(p) /\ Rivals(p)' = Rivals(p)
      /\ \A p : Undisputed(p)' = Undisputed(p)
  BY <1>1, SamePuts
<1>6. \A p : Acked(p)' = Acked(p)
  BY <1>1 DEF Acked
<1>7. /\ Boot \in Putter /\ Conn \subseteq Putter /\ Unrecorded \subseteq Replayed
      /\ NoPut \notin Made
  BY <1>2, StartAlone, PutIs
<1>8. /\ doing'[Boot] = NoPut /\ step'[Boot] = "idle"
      /\ \A c \in Conn : doing'[c] = NoPut /\ step'[c] = "idle"
      /\ \A n \in Node : stored'[n] = NoPut
      /\ ToSet(entries') = {} /\ ToSet(inbox') = {}
      /\ \A b : InOrder(<<>>, b)
  BY <1>1, <1>7, EmptyInOrder
<1>9. Unrecorded' = ToSet(replay') /\ Replayed' = ToSet(replay')
  <2>1. NoPut \notin ToSet(replay')
    BY <1>4, SetOf, NoPutIsNone
  <2> QED BY <1>8, <2>1 DEF Unrecorded, Replayed
<1>10. \A p \in Made, at \in {PastCache, PastStore} : ~MidPut(p, at)'
  BY <1>7, <1>8 DEF MidPut
<1>11. PutsSound'
  <2>1. over' \subseteq {p \in Made : puts[p].ttl} /\ Made \subseteq Put
    BY <1>2, <1>3, PutIs DEF PutsSound
  <2>2. restarts' \in 0..MaxRestart /\ restarts \in Nat /\ cut' \subseteq Put
    <3>1. restarts \in Nat /\ MaxRestart \in Nat /\ cut \subseteq Put
      BY <1>2, PutsAssumption DEF PutsTypeOK
    <3>2. Replayed \subseteq Put
      BY <1>2, <2>1 DEF PutsSound
    <3> QED BY <1>1, <3>1, <3>2
  <2>3. PutsTypeOK'
    BY <1>1, <1>2, <1>4, <2>1, <2>2 DEF PutsTypeOK
  <2>4. \A c \in Putter : doing'[c] = NoPut /\ step'[c] = "idle"
    BY <1>1
  <2>5. ToSet(file) \cup ToSet(replay') \subseteq {p \in Made : puts[p].persist}
    BY <1>2, <1>4 DEF PutsSound
  <2>6. ASSUME NEW p \in Put, Acked(p) PROVE p \in Made /\ life[p] <= restarts'
    <3>1. p \in Made /\ life[p] <= restarts /\ life[p] \in Nat
      BY <1>2, <2>6, PutsAssumption DEF PutsSound, PutsTypeOK, Unacked
    <3> QED BY <1>1, <2>2, <3>1
  <2>7. \A p \in Put : before[p] \subseteq {q \in Made : q < p}
    BY <1>2 DEF PutsSound
  <2> QED BY <1>1, <1>5, <1>6, <1>7, <1>8, <1>9, <2>1, <2>3, <2>4, <2>5, <2>6, <2>7 DEF PutsSound
<1>12. StoreKept'
  BY <1>1, <1>4, <1>8, <1>9 DEF StoreKept
<1>13. PutsInOrder'
  BY <1>1, <1>4, <1>8, <1>9 DEF PutsInv, PutsInOrder
<1>14. ReplacedIsGone'
  <2> SUFFICES ASSUME NEW q \in Made, NEW p \in before[q],
                      NodeOf(p) \in Below[NodeOf(q)], Acked(q)
               PROVE  p # NoPut /\ p \notin ToSet(replay')
    BY <1>1, <1>5, <1>6, <1>8, <1>9, <1>10 DEF ReplacedIsGone
  <2>1. q \in Put /\ p \in Made
    BY <1>2, PutIs DEF PutsSound
  <2>2. p \notin ToSet(entries) \cup Replayed
    BY DEF PutsInv, ReplacedIsGone
  <2>3. p \notin ToSet(file) \ over
    BY <1>7, <2>2 DEF PutsInv, StoreKept
  <2> QED BY <1>3, <1>4, <1>7, <2>1, <2>3
<1>15. HeardInOrder' /\ PutExpires' /\ LeasesArePut'
  BY <1>1, <1>8 DEF HeardInOrder, PutExpires, LeasesArePut
<1>16. KeptIsThere'
  <2> SUFFICES ASSUME NEW p \in Made, Undisputed(p), Kept(p)'
               PROVE  p \in ToSet(replay')
    BY <1>5, <1>9, <1>10 DEF KeptIsThere
  <2>1. p \in Put /\ NodeOf(p) \in Below[NodeOf(p)]
    BY <1>2, PutIs
  <2>2. Acked(p) /\ puts[p].persist /\ p \notin cut'
    <3>1. Acked(p) /\ (life[p] = restarts' \/ (puts[p].persist /\ p \notin cut'))
      BY <1>1, <1>6 DEF Kept
    <3>2. life[p] \in Nat /\ life[p] <= restarts /\ restarts \in Nat
      BY <1>2, <2>1, <3>1, PutsAssumption DEF PutsSound, PutsTypeOK, Unacked
    <3>3. life[p] # restarts'
      BY <1>1, <3>2
    <3> QED BY <3>1, <3>3
  <2>3. Kept(p)
    BY <1>1, <2>2 DEF Kept
  <2>4. p \in ToSet(entries) \cup Unrecorded
    BY <2>2, <2>3 DEF PutsInv, KeptIsThere
  <2>5. p \in ToSet(file)
    BY <1>1, <1>7, <2>2, <2>4 DEF PutsInv, StoreKept
  <2>6. ~puts[p].ttl
    BY <2>1 DEF Undisputed, NeverLeased
  <2>7. p \notin over'
    BY <1>2, <1>3, <2>6 DEF PutsSound
  <2> QED BY <1>4, <2>5, <2>7
<1> QED BY <1>11, <1>12, <1>13, <1>14, <1>15, <1>16 DEF PutsInv

LEMMA PutsStutter ==
    ASSUME PutsInv, UNCHANGED putsVars
    PROVE  PutsInv'
<1>1. UNCHANGED <<puts, step, doing, stored, entries, inbox, leased, evicting, replay, file,
                  restarts, over, life, ended, before, cut>>
  BY DEF putsVars, memoryVars, historyVars
<1>2. /\ Made' = Made /\ \A p : NodeOf(p)' = NodeOf(p) /\ Rivals(p)' = Rivals(p)
      /\ \A p : Undisputed(p)' = Undisputed(p)
  BY <1>1, SamePuts
<1>3. /\ Replayed' = Replayed /\ Unrecorded' = Unrecorded /\ Bound' = Bound
      /\ \A p : Acked(p)' = Acked(p) /\ Kept(p)' = Kept(p)
      /\ \A p, at : MidPut(p, at)' = MidPut(p, at)
  BY <1>1 DEF Replayed, Unrecorded, Bound, Acked, Kept, MidPut
<1>4. PutsTypeOK'
  BY <1>1 DEF PutsInv, PutsSound, PutsTypeOK
<1>5. \A n \in Node : stored[n] # NoPut => stored[n] \in Made /\ NodeOf(stored[n])' = n
  BY <1>1 DEF PutsInv, PutsSound, NodeOf
<1>6. PutsSound'
  BY <1>1, <1>2, <1>3, <1>4, <1>5 DEF PutsInv, PutsSound
<1>7. StoreKept' /\ PutsInOrder' /\ ReplacedIsGone'
  BY <1>1, <1>2, <1>3 DEF PutsInv, StoreKept, PutsInOrder, ReplacedIsGone
<1>8. HeardInOrder' /\ PutExpires' /\ LeasesArePut' /\ KeptIsThere'
  BY <1>1, <1>2, <1>3 DEF PutsInv, HeardInOrder, PutExpires, LeasesArePut, KeptIsThere
<1> QED BY <1>6, <1>7, <1>8 DEF PutsInv

LEMMA PutsStepInv ==
    ASSUME PutsInv, [PutsNext]_putsVars
    PROVE  PutsInv'
<1>1. ASSUME NEW c \in Conn, NEW k \in Kind, Begin(c, k) PROVE PutsInv'
  BY <1>1, BeginKeeps
<1>2. CASE Again
  BY <1>2, AgainKeeps
<1>3. ASSUME NEW c \in Putter, InCache(c) \/ InStore(c) \/ SendWritten(c) PROVE PutsInv'
  BY <1>3, InCacheKeeps, InStoreKeeps, SendWrittenKeeps
<1>4. CASE HearWritten
  BY <1>4, HearWrittenKeeps
<1>5. ASSUME NEW n \in Node, EvictPut(n) PROVE PutsInv'
  BY <1>5, EvictPutKeeps
<1>6. CASE ExpireEntry
  BY <1>6, ExpireEntryKeeps
<1>7. CASE Restart
  BY <1>7, RestartKeeps
<1>8. CASE UNCHANGED putsVars
  BY <1>8, PutsStutter
<1> QED BY <1>1, <1>2, <1>3, <1>4, <1>5, <1>6, <1>7, <1>8 DEF PutsNext

LEMMA PutsEver == PutsSpec => []PutsInv
<1>1. PutsInit => PutsInv
  BY PutsInitInv
<1>2. PutsInv /\ [PutsNext]_putsVars => PutsInv'
  BY PutsStepInv
<1> QED BY <1>1, <1>2, PTL DEF PutsSpec

\* What a put was put in the place of is nowhere: not in the cache, and not in the
\* file but as an entry that is over, whenever the daemon dies and whatever expires,
\* for any number of puts, connections and starts (write_static, PutStore::record,
\* PutStore::open, replay_persisted_puts).
THEOREM NoOldPutComesBackEver == PutsSpec => []NoOldPutComesBack
<1>1. ASSUME PutsInv, NEW p \in Made, Replaced(p)
      PROVE  p \notin ToSet(file) \ over /\ \A n \in Node : stored[n] # p
  <2>1. PICK q \in Rivals(p) : p \in before[q] /\ Acked(q)
    BY <1>1 DEF Replaced
  <2>2. q \in Made /\ NodeOf(p) \in Below[NodeOf(q)]
    BY <2>1 DEF Rivals
  <2>3. p \notin ToSet(entries) \cup Replayed /\ \A n \in Node : stored[n] # p
    BY <1>1, <2>1, <2>2 DEF PutsInv, ReplacedIsGone
  <2>4. Unrecorded \subseteq Replayed
    BY <1>1, StartAlone DEF PutsInv
  <2> QED BY <1>1, <2>3, <2>4 DEF PutsInv, StoreKept
<1>2. PutsInv => NoOldPutComesBack
  BY <1>1 DEF NoOldPutComesBack
<1> QED BY <1>2, PutsEver, PTL

\* A put to a node that never had a ttl at it or below it stands, in the cache and,
\* if it is persisted, in the file or in the replay of it, through expiries
\* elsewhere and the daemon's deaths (drop_put_address, PutStore::expire).
THEOREM PutStandsEver == PutsSpec => []PutStands
<1>1. ASSUME PutsInv, NEW p \in AtStake, NeverLeased(NodeOf(p))
      PROVE  Stands(p)
  <2>1. p \in Made /\ Undisputed(p) /\ Kept(p)
    BY <1>1 DEF AtStake, Undisputed, Kept
  <2>2. \/ stored[NodeOf(p)] = p \/ p \in ToSet(replay)
        \/ doing[Boot] = p /\ step[Boot] = "cache"
    BY <1>1, <2>1 DEF PutsInv, KeptIsThere
  <2>3. puts[p].persist => p \in ToSet(entries) \cup Unrecorded
    BY <1>1, <2>1 DEF PutsInv, KeptIsThere
  <2>4. Unrecorded \subseteq Replayed /\ ToSet(<<>>) = {}
    BY <1>1, StartAlone, EmptyInOrder DEF PutsInv
  <2>5. Bound => stored[NodeOf(p)] = p
    BY <2>2, <2>4 DEF Bound
  <2>6. puts[p].persist => p \in ToSet(file) \cup Replayed
    BY <1>1, <2>3, <2>4 DEF PutsInv, StoreKept
  <2> QED BY <2>5, <2>6 DEF Stands
<1>2. PutsInv => PutStands
  BY <1>1 DEF PutStands
<1> QED BY <1>2, PutsEver, PTL

\* A put with a ttl that is in the cache has a lease, or one is to come: the message
\* is queued or still to be sent, and none queued before it is yet to be heard that
\* would take the lease away (apply_put_written).
THEOREM PutExpiresEver == PutsSpec => []PutExpires
<1>1. PutsInv => PutExpires
  BY DEF PutsInv
<1> QED BY <1>1, PutsEver, PTL

===============================================================================
