--------------------------- MODULE IceAgents_proof ---------------------------
(***************************************************************************)
(* Proofs about two ICE agents, for any pairs, foundations and settings    *)
(* the hypotheses of the theorems allow.                                   *)
(***************************************************************************)
EXTENDS IceAgents, TLAPS, WellFoundedInduction, NaturalsInduction, SequenceTheorems

Item == [pair : Pair, nomination : BOOLEAN]

\* No pair is queued twice
Single(que) == \A i, j \in DOMAIN que : que[i].pair = que[j].pair => i = j

Queued(a, p) == \E e \in ToSet(a.que) : e.pair = p

Priorities(x) == {PrioritizePair(x, role, p) : role \in Role, p \in Pair}

\* What the code counts on ("This formula ensures a unique priority for each pair",
\* cicecheckprioritizer.cpp:88; "Implements TLinearOrder", ciceconnectivitycheck.cpp:109):
\* among any of the priorities an agent's pairs can have one compares as the first,
\* and no two pairs have the same.
Ordered ==
    \A x \in Agent :
       /\ \A S \in SUBSET Priorities(x) : S # {} =>
             \E m \in S : \A n \in S : ComparePriorities(m, n) <= 0
       /\ \A role \in Role : \A p, q \in Pair : p # q =>
             PrioritizePair(x, role, p) # PrioritizePair(x, role, q)

-----------------------------------------------------------------------------
(* Naturals *)

LEMMA LeastMember ==
    ASSUME NEW T, T \subseteq Nat, T # {}
    PROVE  \E x \in T : \A y \in T : x <= y
<1>1. \E x \in T : \A y \in T : ~ (<<y, x>> \in OpToRel(<, Nat))
  BY NatLessThanWellFounded, WFMin, Zenon
<1>2. OpToRel(<, Nat) = {p \in Nat \X Nat : p[1] < p[2]}
  BY Zenon DEF OpToRel
<1>3. \A x \in T : \A y \in T : x <= y \/ <<y, x>> \in {p \in Nat \X Nat : p[1] < p[2]}
  OBVIOUS
<1> HIDE DEF OpToRel
<1>4. \E x \in T : \A y \in T : ~ (<<y, x>> \in {p \in Nat \X Nat : p[1] < p[2]})
  BY <1>2, <1>1, Zenon
<1> QED
  BY <1>3, <1>4

\* Induction on the naturals up to n, for a set instead of a predicate
LEMMA UpTo ==
    ASSUME NEW n \in Nat, NEW T, 0 \in T,
           \A k \in 0 .. n - 1 : k \in T => k + 1 \in T
    PROVE  \A k \in 0 .. n : k \in T
<1> SUFFICES ASSUME \E k \in 0 .. n : k \notin T PROVE FALSE
  OBVIOUS
<1> DEFINE U == {k \in 0 .. n : k \notin T}
<1>1. PICK k \in U : \A j \in U : k <= j
  <2>1. U \subseteq Nat /\ U # {}
    OBVIOUS
  <2> HIDE DEF U
  <2> QED
    BY <2>1, LeastMember
<1>2. k # 0 /\ k - 1 \in 0 .. n - 1 /\ k - 1 \notin U
  BY <1>1
<1>3. k - 1 \in T
  BY <1>2
<1>4. k - 1 + 1 \in T
  BY <1>2, <1>3
<1> QED
  BY <1>1, <1>4

LEMMA GreatestMember ==
    ASSUME NEW n \in Nat, NEW S, S \subseteq 1 .. n, S # {}
    PROVE  Max(S) \in S /\ \A y \in S : Max(S) >= y
<1> DEFINE T == {n - y : y \in S}
<1>1. T \subseteq Nat /\ T # {}
  <2>1. \A y \in S : y \in Int /\ n - y \in Nat
    OBVIOUS
  <2> QED
    BY <2>1
<1>2. PICK t \in T : \A u \in T : t <= u
  BY <1>1, LeastMember
<1>3. \E x \in S : \A y \in S : x >= y
  <2>1. PICK x \in S : t = n - x
    BY <1>2
  <2>2. \A y \in S : n - x <= n - y
    BY <1>2, <2>1
  <2> QED
    BY <2>1, <2>2
<1> QED
  BY <1>3, Zenon DEF Max

-----------------------------------------------------------------------------
(* The buffered requests, replayed one after the other *)

Replayed(base, seq) == FoldLeft(LAMBDA a, r : STUNRequestReceived(a, r.pair, r.favored), base, seq)

Stepped(base, seq, g, s) ==
    IF s = {} THEN base
    ELSE STUNRequestReceived(g[s \ {Max(s)}], seq[Max(s)].pair, seq[Max(s)].favored)

LEMMA ReplayDefined ==
    ASSUME NEW base, NEW seq, NEW n \in Nat
    PROVE  \E g : g = [s \in SUBSET (1 .. n) |-> Stepped(base, seq, g, s)]
<1> DEFINE T == {k \in 0 .. n : \E g : g = [s \in SUBSET (1 .. k) |-> Stepped(base, seq, g, s)]}
<1>1. 0 \in T
  <2> DEFINE g == [s \in SUBSET (1 .. 0) |-> base]
  <2>1. SUBSET (1 .. 0) = {{}}
    OBVIOUS
  <2>2. g = [s \in SUBSET (1 .. 0) |-> Stepped(base, seq, g, s)]
    BY <2>1 DEF Stepped
  <2> HIDE DEF g
  <2> QED
    BY <2>2
<1>2. ASSUME NEW k \in 0 .. n - 1, k \in T PROVE k + 1 \in T
  <2>1. PICK g : g = [s \in SUBSET (1 .. k) |-> Stepped(base, seq, g, s)]
    BY <1>2
  <2> DEFINE h == [s \in SUBSET (1 .. k + 1) |-> Stepped(base, seq, g, s)]
  <2>2. \A s \in SUBSET (1 .. k) : h[s] = g[s]
    <3>1. \A s \in SUBSET (1 .. k) : s \in SUBSET (1 .. k + 1)
      OBVIOUS
    <3>2. \A s \in SUBSET (1 .. k) : h[s] = Stepped(base, seq, g, s)
      BY <3>1
    <3>3. \A s \in SUBSET (1 .. k) : g[s] = Stepped(base, seq, g, s)
      BY <2>1, Zenon
    <3> QED
      BY <3>2, <3>3
  <2>3. \A s \in SUBSET (1 .. k + 1) : s # {} => s \ {Max(s)} \in SUBSET (1 .. k)
    <3> SUFFICES ASSUME NEW s \in SUBSET (1 .. k + 1), s # {}, NEW j \in s, j # Max(s)
                 PROVE  j \in 1 .. k
      OBVIOUS
    <3>1. k + 1 \in Nat
      OBVIOUS
    <3>2. Max(s) \in s /\ Max(s) >= j
      BY <3>1, GreatestMember
    <3>3. j \in 1 .. k + 1 /\ Max(s) \in 1 .. k + 1
      BY <3>2
    <3> HIDE DEF Max
    <3> QED
      BY <3>2, <3>3
  <2>4. \A s \in SUBSET (1 .. k + 1) : Stepped(base, seq, g, s) = Stepped(base, seq, h, s)
    <3> HIDE DEF h
    <3> QED
    BY <2>2, <2>3, Zenon DEF Stepped
  <2>5. h = [s \in SUBSET (1 .. k + 1) |-> Stepped(base, seq, h, s)]
    <3>1. h = [s \in SUBSET (1 .. k + 1) |-> Stepped(base, seq, g, s)]
      OBVIOUS
    <3> HIDE DEF h
    <3> QED
      BY <2>4, <3>1, Zenon
  <2>6. k + 1 \in 0 .. n
    OBVIOUS
  <2> HIDE DEF h
  <2> QED
    BY <2>5, <2>6
<1> HIDE DEF T
<1>3. n \in T
  BY <1>1, <1>2, UpTo
<1> QED
  BY <1>3 DEF T

LEMMA ReplayKeeps ==
    ASSUME NEW G, NEW base \in G, NEW seq, NEW n \in Nat, DOMAIN seq = 1 .. n,
           \A a \in G, i \in 1 .. n : STUNRequestReceived(a, seq[i].pair, seq[i].favored) \in G
    PROVE  Replayed(base, seq) \in G
<1> DEFINE iter == CHOOSE g : g = [s \in SUBSET (1 .. n) |-> Stepped(base, seq, g, s)]
<1>1. Replayed(base, seq) = iter[1 .. n]
  BY Zenon DEF Replayed, FoldLeft, MapThenFoldSet, Stepped
<1>2. iter = [s \in SUBSET (1 .. n) |-> Stepped(base, seq, iter, s)]
  BY ReplayDefined, Zenon
<1> HIDE DEF iter
<1> DEFINE T == {k \in 0 .. n : iter[1 .. k] \in G}
<1>3. 0 \in T
  <2>1. 1 .. 0 = {} /\ {} \in SUBSET (1 .. n)
    OBVIOUS
  <2>2. iter[{}] = Stepped(base, seq, iter, {})
    BY <1>2, <2>1, Zenon
  <2> QED
    BY <2>1, <2>2 DEF Stepped
<1>4. ASSUME NEW k \in 0 .. n - 1, k \in T PROVE k + 1 \in T
  <2> DEFINE s == 1 .. k + 1
  <2>1. s \in SUBSET (1 .. n) /\ s # {} /\ k + 1 \in Nat /\ k + 1 \in s /\ k + 1 \in 1 .. n
    <3>1. k \in Nat /\ k + 1 \in Nat /\ k + 1 <= n
      OBVIOUS
    <3>2. \A j \in s : j \in 1 .. n
      BY <3>1
    <3>3. k + 1 \in s /\ k + 1 \in 1 .. n
      BY <3>1
    <3> HIDE DEF s
    <3> QED
      BY <3>1, <3>2, <3>3
  <2>2. Max(s) = k + 1
    <3>1. Max(s) \in s /\ Max(s) >= k + 1
      BY <2>1, GreatestMember
    <3> QED
      BY <3>1
  <2>3. s \ {k + 1} = 1 .. k
    OBVIOUS
  <2> HIDE DEF s
  <2>4. iter[s] = Stepped(base, seq, iter, s)
    BY <1>2, <2>1, Zenon
  <2>5. iter[s] = STUNRequestReceived(iter[1 .. k], seq[k + 1].pair, seq[k + 1].favored)
    BY <2>1, <2>2, <2>3, <2>4 DEF Stepped
  <2>6. iter[s] \in G
    BY <1>4, <2>1, <2>5
  <2> QED
    BY <2>1, <2>6 DEF s
<1> HIDE DEF T
<1>5. \A k \in 0 .. n - 1 : k \in T => k + 1 \in T
  BY <1>4
<1>6. n \in T
  <2>1. \A k \in 0 .. n : k \in T
    BY <1>3, <1>5, UpTo, Zenon
  <2> QED
    BY <2>1
<1> QED
  BY <1>1, <1>6 DEF T
\* A sequence without its element k
LEMMA RemoveAtGives ==
    ASSUME NEW T, NEW s \in Seq(T), NEW k \in 1..Len(s)
    PROVE  LET o == SubSeq(s, 1, k-1) \o SubSeq(s, k+1, Len(s))
           IN  /\ o \in Seq(T) /\ DOMAIN o = 1..(Len(s) - 1)
               /\ \A i \in 1..(Len(s) - 1) : o[i] = IF i < k THEN s[i] ELSE s[i+1]
<1> DEFINE a == SubSeq(s, 1, k-1)
           z == SubSeq(s, k+1, Len(s))
           o == a \o z
<1>1. Len(s) \in Nat /\ k \in Nat /\ 1 <= k /\ k <= Len(s)
  BY LenProperties
<1>2. a \in Seq(T) /\ Len(a) = k-1 /\ \A i \in 1..(k-1) : a[i] = s[i]
  BY <1>1
<1>3. z \in Seq(T) /\ Len(z) = Len(s) - k /\ \A i \in 1..(Len(s) - k) : z[i] = s[k+i]
  BY <1>1
<1> HIDE DEF a, z
<1>4. o \in Seq(T) /\ Len(o) = Len(s) - 1
  <2>1. o \in Seq(T) /\ Len(o) = Len(a) + Len(z)
    BY <1>2, <1>3, ConcatProperties
  <2> QED
    BY <1>1, <1>2, <1>3, <2>1
<1> HIDE DEF o
<1>5. \A i \in 1..(Len(s) - 1) : o[i] = IF i < k THEN s[i] ELSE s[i+1]
  <2> TAKE i \in 1..(Len(s) - 1)
  <2>1. CASE i < k
    BY <1>1, <1>2, <1>3, <2>1 DEF o
  <2>2. CASE i >= k
    <3>1. o[i] = z[i - (k-1)] /\ i - (k-1) \in 1..(Len(s) - k)
      BY <1>1, <1>2, <1>3, <2>2 DEF o
    <3>2. z[i - (k-1)] = s[k + (i - (k-1))] /\ k + (i - (k-1)) = i + 1
      BY <1>1, <1>3, <3>1
    <3>3. o[i] = s[i+1]
      BY <3>1, <3>2
    <3> QED
      BY <1>1, <2>2, <3>3
  <2> QED
    BY <1>1, <2>1, <2>2
<1> QED
  BY <1>1, <1>4, <1>5, LenProperties DEF a, z, o

-----------------------------------------------------------------------------
(* The queue of triggered checks *)

LEMMA EmptyQue == <<>> \in Seq(Item) /\ Single(<<>>) /\ ToSet(<<>>) = {}
BY DEF Single, ToSet

LEMMA QueOf ==
    ASSUME NEW s \in Seq(Item)
    PROVE  /\ DOMAIN s = 1 .. Len(s) /\ Len(s) \in Nat
           /\ \A i \in DOMAIN s : s[i] \in Item
           /\ ToSet(s) \subseteq Item
           /\ s = <<>> <=> ToSet(s) = {}
<1>1. /\ DOMAIN s = 1 .. Len(s) /\ Len(s) \in Nat
      /\ \A i \in DOMAIN s : s[i] \in Item
  OBVIOUS
<1>2. ToSet(s) \subseteq Item
  BY <1>1 DEF ToSet
<1>3. CASE s = <<>>
  BY <1>1, <1>2, <1>3, EmptyQue
<1>4. CASE s # <<>>
  <2>1. 1 \in DOMAIN s
    BY <1>1, <1>4
  <2>2. s[1] \in ToSet(s)
    BY <2>1 DEF ToSet
  <2> QED
    BY <1>1, <1>2, <1>4, <2>2
<1> QED
  BY <1>3, <1>4

LEMMA TailQue ==
    ASSUME NEW s \in Seq(Item), Single(s), s # <<>>
    PROVE  /\ Head(s) \in ToSet(s) /\ Tail(s) \in Seq(Item) /\ Single(Tail(s))
           /\ ToSet(Tail(s)) = ToSet(s) \ {Head(s)}
<1>1. /\ Len(s) \in Nat /\ Len(s) # 0 /\ DOMAIN s = 1 .. Len(s) /\ Head(s) = s[1]
      /\ \A i \in DOMAIN s : s[i] \in Item
  OBVIOUS
<1> DEFINE t == Tail(s)
<1>2. /\ t \in Seq(Item) /\ DOMAIN t = 1 .. Len(s) - 1
      /\ \A i \in 1 .. Len(s) - 1 : t[i] = s[i + 1]
  BY <1>1, HeadTailProperties
<1> HIDE DEF t
<1>3. Single(t)
  <2> SUFFICES ASSUME NEW i \in DOMAIN t, NEW j \in DOMAIN t, t[i].pair = t[j].pair PROVE i = j
    BY DEF Single
  <2>1. i + 1 \in DOMAIN s /\ j + 1 \in DOMAIN s
    BY <1>1, <1>2
  <2>2. i + 1 = j + 1
    BY <1>2, <2>1 DEF Single
  <2> QED
    BY <1>1, <1>2, <2>2
<1>4. ToSet(t) = ToSet(s) \ {s[1]}
  <2>1. ASSUME NEW i \in DOMAIN t PROVE t[i] \in ToSet(s) \ {s[1]}
    <3>1. i + 1 \in DOMAIN s /\ 1 \in DOMAIN s /\ i + 1 # 1
      BY <1>1, <1>2
    <3> QED
      BY <1>2, <3>1 DEF Single, ToSet
  <2>2. ASSUME NEW i \in DOMAIN s, i # 1 PROVE s[i] \in ToSet(t)
    <3>1. i - 1 \in DOMAIN t /\ i - 1 + 1 = i
      BY <1>1, <1>2, <2>2
    <3> QED
      BY <1>2, <3>1 DEF ToSet
  <2> QED
    BY <2>1, <2>2 DEF ToSet
<1>5. 1 \in DOMAIN s
  BY <1>1
<1> QED
  BY <1>1, <1>2, <1>3, <1>4, <1>5 DEF ToSet, t

LEMMA AppendQue ==
    ASSUME NEW s \in Seq(Item), Single(s), NEW e \in Item,
           \A d \in ToSet(s) : d.pair # e.pair
    PROVE  /\ Append(s, e) \in Seq(Item) /\ Single(Append(s, e))
           /\ ToSet(Append(s, e)) = ToSet(s) \cup {e}
<1> DEFINE t == Append(s, e)
<1>1. /\ Len(s) \in Nat /\ DOMAIN s = 1 .. Len(s)
      /\ t \in Seq(Item) /\ DOMAIN t = 1 .. Len(s) + 1
      /\ t[Len(s) + 1] = e /\ \A i \in DOMAIN s : t[i] = s[i]
  BY AppendProperties
<1>2. /\ DOMAIN t = DOMAIN s \cup {Len(s) + 1} /\ Len(s) + 1 \notin DOMAIN s
  BY <1>1
<1> HIDE DEF t
<1>3. \A i \in DOMAIN s : t[i].pair # e.pair
  BY <1>1 DEF ToSet
<1> QED
  BY <1>1, <1>2, <1>3 DEF Single, ToSet, t

\* What RemoveFirstMatch leaves of a queue
LEMMA RemoveQue ==
    ASSUME NEW s \in Seq(Item), Single(s), NEW p \in Pair
    PROVE  LET t == RemoveFirstMatch(s, LAMBDA i : i.pair = p)
           IN  /\ t \in Seq(Item) /\ Single(t)
               /\ ToSet(t) = {e \in ToSet(s) : e.pair # p}
<1> DEFINE I == {i \in 1 .. Len(s) : s[i].pair = p}
           k == CHOOSE x \in I : \A y \in I : x <= y
           t == RemoveFirstMatch(s, LAMBDA i : i.pair = p)
<1>1. /\ I \subseteq Nat /\ I \subseteq 1 .. Len(s) /\ DOMAIN s = 1 .. Len(s) /\ Len(s) \in Nat
      /\ \A i \in 1 .. Len(s) : s[i].pair = p <=> i \in I
  OBVIOUS
<1>2. SelectInSeq(s, LAMBDA i : i.pair = p) = IF I # {} THEN k ELSE 0
  BY Zenon DEF SelectInSeq, Min
<1>3. t = IF \E i \in 1 .. Len(s) : s[i].pair = p
          THEN RemoveAt(s, IF I # {} THEN k ELSE 0) ELSE s
  BY <1>2, Zenon DEF RemoveFirstMatch
<1> HIDE DEF I
<1>4. I # {} => k \in I
  <2> SUFFICES ASSUME I # {} PROVE k \in I
    OBVIOUS
  <2>1. \E x \in I : \A y \in I : x <= y
    BY <1>1, LeastMember
  <2> QED
    BY <2>1, Zenon
<1> HIDE DEF k, t
<1>5. CASE I = {}
  <2>1. t = s
    BY <1>5, <1>3, <1>1
  <2>2. ToSet(s) = {e \in ToSet(s) : e.pair # p}
    BY <1>1, <1>5 DEF ToSet
  <2> QED
    BY <2>1, <2>2 DEF t
<1>6. CASE I # {}
  <2>1. k \in 1 .. Len(s) /\ s[k].pair = p
    BY <1>1, <1>4, <1>6
  <2>2. t = RemoveAt(s, k)
    BY <1>1, <1>3, <1>6, <2>1
  <2>3. t = SubSeq(s, 1, k - 1) \o SubSeq(s, k + 1, Len(s))
    BY <2>2, Zenon DEF RemoveAt
  <2>4. /\ t \in Seq(Item) /\ DOMAIN t = 1 .. Len(s) - 1
        /\ \A i \in 1 .. Len(s) - 1 : t[i] = IF i < k THEN s[i] ELSE s[i + 1]
    BY <2>1, <2>3, RemoveAtGives
  <2> DEFINE old(i) == IF i < k THEN i ELSE i + 1
  <2>5. \A i \in DOMAIN t : old(i) \in DOMAIN s /\ old(i) # k /\ t[i] = s[old(i)]
    BY <1>1, <2>1, <2>4
  <2>6. \A i, j \in DOMAIN t : old(i) = old(j) => i = j
    BY <1>1, <2>1, <2>4
  <2>7. \A i \in DOMAIN s : i # k => \E j \in DOMAIN t : old(j) = i
    <3> SUFFICES ASSUME NEW i \in DOMAIN s, i # k PROVE \E j \in DOMAIN t : old(j) = i
      OBVIOUS
    <3>1. CASE i < k
      <4>1. i \in DOMAIN t /\ old(i) = i
        BY <1>1, <2>1, <2>4, <3>1
      <4> QED
        BY <4>1
    <3>2. CASE i > k
      <4>1. i - 1 \in DOMAIN t /\ old(i - 1) = i
        BY <1>1, <2>1, <2>4, <3>2
      <4> QED
        BY <4>1
    <3> QED
      BY <1>1, <2>1, <3>1, <3>2
  <2> HIDE DEF old
  <2>8. Single(t)
    <3> SUFFICES ASSUME NEW i \in DOMAIN t, NEW j \in DOMAIN t, t[i].pair = t[j].pair
                 PROVE  i = j
      BY DEF Single
    <3>1. old(i) = old(j)
      BY <2>5 DEF Single
    <3> QED
      BY <2>6, <3>1
  <2>9. ToSet(t) = {e \in ToSet(s) : e.pair # p}
    <3>1. \A i \in DOMAIN t : t[i] \in ToSet(s) /\ t[i].pair # p
      BY <1>1, <2>1, <2>5 DEF Single, ToSet
    <3>2. \A i \in DOMAIN s : s[i].pair # p => s[i] \in ToSet(t)
      <4> SUFFICES ASSUME NEW i \in DOMAIN s, s[i].pair # p PROVE s[i] \in ToSet(t)
        OBVIOUS
      <4>1. PICK j \in DOMAIN t : old(j) = i
        BY <2>1, <2>7
      <4> QED
        BY <2>5, <4>1 DEF ToSet
    <3> QED
      BY <3>1, <3>2 DEF ToSet
  <2> QED
    BY <2>4, <2>8, <2>9 DEF t
<1> QED
  BY <1>5, <1>6

-----------------------------------------------------------------------------
(* Types *)

Typed(a) ==
    /\ a \in AgentType /\ Single(a.que)
    /\ a.list = "Completed" <=> a.told # {}
    /\ \A v \in a.valid : v.priority \in Priorities(a.name)

\* The same but for its queue and timer
Beside(a, b) ==
    /\ b.name = a.name /\ b.role = a.role /\ b.list = a.list /\ b.checks = a.checks
    /\ b.request = a.request /\ b.resolved = a.resolved /\ b.server = a.server
    /\ b.valid = a.valid /\ b.told = a.told

LEMMA RoleFacts ==
    /\ Role = {"controlling", "controlled"}
    /\ Other("controlling") = "controlled" /\ Other("controlled") = "controlling"
BY DEF Role, Other

LEMMA PeerFacts ==
    ASSUME NEW x \in Agent
    PROVE  /\ Peer(x) \in Agent /\ Peer(x) # x /\ Peer(Peer(x)) = x
           /\ \A y \in Agent : y = x \/ y = Peer(x)
<1>1. PICK m, n \in Agent : m # n /\ Agent = {m, n}
  BY IceAssumption
<1>2. \A y \in Agent : \E z \in Agent : z # y
  BY <1>1
<1>3. \A y \in Agent : Peer(y) \in Agent /\ Peer(y) # y
  BY <1>2, Zenon DEF Peer
<1> QED
  BY <1>1, <1>3

LEMMA PriorityType ==
    ASSUME NEW x \in Agent, NEW role \in Role, NEW p \in Pair
    PROVE  /\ PrioritizePair(x, role, p) \in Nat
           /\ PrioritizePair(x, role, p) \in Priorities(x)
<1>1. \A y \in Agent : CandidatePriority[y][p] \in Nat
  BY IceAssumption
<1>2. K2ToPowerOf32 \in Nat
  BY DEF K2ToPowerOf32
<1>3. \A m, n \in Nat : m * n \in Nat
  OBVIOUS
<1> DEFINE local  == CandidatePriority[x][p]
           remote == CandidatePriority[Peer(x)][p]
<1>4. local \in Nat /\ remote \in Nat
  BY <1>1, PeerFacts
<1>5. K2ToPowerOf32 * local \in Nat /\ K2ToPowerOf32 * remote \in Nat
  BY <1>2, <1>3, <1>4
<1> HIDE DEF local, remote
<1>6. \A m, n \in Nat : m + 2 * n \in Nat /\ m + 2 * n + 1 \in Nat
  OBVIOUS
<1>7. PrioritizePair(x, role, p) \in Nat
  BY <1>4, <1>5, <1>6 DEF PrioritizePair, local, remote
<1> QED
  BY <1>7 DEF Priorities

LEMMA FirstCheckIn ==
    ASSUME Ordered, NEW a \in AgentType, NEW S \in SUBSET Pair, S # {}
    PROVE  FirstCheck(a, S) \in S
<1> DEFINE f(p) == PrioritizePair(a.name, a.role, p)
           T == {f(p) : p \in S}
<1>1. a.name \in Agent /\ a.role \in Role
  BY DEF AgentType
<1>2. T \in SUBSET Priorities(a.name) /\ T # {}
  BY <1>1, PriorityType
<1>3. PICK m \in T : \A n \in T : ComparePriorities(m, n) <= 0
  BY <1>1, <1>2 DEF Ordered
<1>4. PICK p \in S : m = f(p)
  BY <1>3
<1> HIDE DEF f
<1>5. \A q \in S \ {p} : ComparePriorities(f(p), f(q)) <= 0
  BY <1>3, <1>4
<1> USE DEF f
<1>6. \E r \in S : \A q \in S \ {r} :
         ComparePriorities(PrioritizePair(a.name, a.role, r),
                           PrioritizePair(a.name, a.role, q)) <= 0
  BY <1>5, Zenon
<1> QED
  BY <1>6, Zenon DEF FirstCheck

LEMMA FirstValidIn ==
    ASSUME Ordered, NEW x \in Agent, NEW S, S # {},
           \A v \in S : v.priority \in Priorities(x)
    PROVE  FirstValid(S) \in S
<1> DEFINE T == {v.priority : v \in S}
<1>1. T \in SUBSET Priorities(x) /\ T # {}
  OBVIOUS
<1>2. PICK m \in T : \A n \in T : ComparePriorities(m, n) <= 0
  BY <1>1 DEF Ordered
<1>3. PICK v \in S : m = v.priority
  BY <1>2
<1>4. \A w \in S \ {v} : ComparePriorities(v.priority, w.priority) <= 0
  BY <1>2, <1>3
<1>5. \E u \in S : \A w \in S \ {u} : ComparePriorities(u.priority, w.priority) <= 0
  BY <1>4, Zenon
<1> QED
  BY <1>5, Zenon DEF FirstValid

\* The fields of an agent
LEMMA AgentFields ==
    ASSUME NEW a \in AgentType
    PROVE  /\ a.name \in Agent /\ a.role \in Role
           /\ a.list \in {"Idle", "Running", "Completed", "Failed"}
           /\ a.checks \in [Pair -> Check] /\ a.request \in [Pair -> Request]
           /\ a.resolved \in [Pair -> BOOLEAN] /\ a.server \in BOOLEAN
           /\ a.valid \subseteq [pair : Pair, priority : Nat, selected : BOOLEAN]
           /\ a.que \in Seq(Item) /\ a.timer \in BOOLEAN /\ a.told \subseteq Pair
BY DEF AgentType, Item

LEMMA QueueGives ==
    ASSUME NEW a \in AgentType, NEW q \in Seq(Item), NEW t \in BOOLEAN
    PROVE  LET b == [a EXCEPT !.que = q, !.timer = t]
           IN  b \in AgentType /\ b.que = q /\ b.timer = t /\ Beside(a, b)
BY DEF AgentType, Item, Beside

LEMMA EnqueueGives ==
    ASSUME NEW a, Typed(a), NEW p \in Pair, NEW n \in BOOLEAN
    PROVE  LET b == Enqueue(a, p, n)
           IN  /\ Typed(b) /\ Beside(a, b)
               /\ b.timer \/ (~n /\ b = a /\ Queued(a, p))
               /\ Queued(b, p)
               /\ ToSet(b.que) = IF ~n /\ Queued(a, p) THEN ToSet(a.que)
                                 ELSE {e \in ToSet(a.que) : e.pair # p}
                                         \cup {[pair |-> p, nomination |-> n]}
<1> DEFINE old == RemoveFirstMatch(a.que, LAMBDA i : i.pair = p)
           que == IF n THEN old ELSE a.que
           e == [pair |-> p, nomination |-> n]
           new == Append(que, e)
           full == [a EXCEPT !.que = new, !.timer = TRUE]
           b == Enqueue(a, p, n)
<1>1. a \in AgentType /\ a.que \in Seq(Item) /\ Single(a.que) /\ e \in Item
  BY AgentFields DEF Typed, Item
<1>2. /\ que \in Seq(Item) /\ Single(que)
      /\ ToSet(que) = IF n THEN {d \in ToSet(a.que) : d.pair # p} ELSE ToSet(a.que)
  <2>1. /\ old \in Seq(Item) /\ Single(old)
        /\ ToSet(old) = {d \in ToSet(a.que) : d.pair # p}
    BY <1>1, RemoveQue
  <2> QED
    BY <1>1, <2>1
<1>3. b = IF \E i \in DOMAIN que : que[i].pair = p THEN a ELSE full
  BY Zenon DEF Enqueue
<1>4. (\E i \in DOMAIN que : que[i].pair = p) <=> (\E d \in ToSet(que) : d.pair = p)
  BY DEF ToSet
<1>5. ASSUME n \/ ~Queued(a, p)
      PROVE  /\ b = full /\ \A d \in ToSet(que) : d.pair # e.pair
             /\ ToSet(que) = {d \in ToSet(a.que) : d.pair # p}
  <2> HIDE DEF que, full, b
  <2>1. ToSet(que) = {d \in ToSet(a.que) : d.pair # p}
    BY <1>2, <1>5 DEF Queued
  <2> QED
    BY <1>3, <1>4, <2>1
<1>6. CASE n \/ ~Queued(a, p)
  <2>1. new \in Seq(Item) /\ Single(new) /\ ToSet(new) = ToSet(que) \cup {e}
    <3> HIDE DEF que, e
    <3> QED
      BY <1>1, <1>2, <1>5, <1>6, AppendQue
  <2> HIDE DEF new, que, b
  <2>2. full \in AgentType /\ full.que = new /\ full.timer = TRUE /\ Beside(a, full)
    BY <1>1, <2>1, QueueGives
  <2> HIDE DEF full
  <2>3. Typed(full)
    BY <2>1, <2>2 DEF Typed, Beside
  <2>4. ToSet(full.que) = {d \in ToSet(a.que) : d.pair # p} \cup {e}
    BY <1>5, <1>6, <2>1, <2>2
  <2>5. Queued(full, p)
    <3>1. e.pair = p
      OBVIOUS
    <3> HIDE DEF e
    <3>2. e \in ToSet(full.que)
      BY <2>4
    <3> QED
      BY <3>1, <3>2 DEF Queued
  <2>6. b = full
    BY <1>5, <1>6
  <2> QED
    BY <1>6, <2>2, <2>3, <2>4, <2>5, <2>6 DEF b
<1>7. CASE ~n /\ Queued(a, p)
  <2>1. b = a
    <3> HIDE DEF b, full
    <3> QED
      BY <1>3, <1>4, <1>7 DEF Queued
  <2>2. Beside(a, a)
    BY DEF Beside
  <2> QED
    BY <1>7, <2>1, <2>2 DEF b
<1> QED
  BY <1>6, <1>7


\* Calls that touch no queue
LEMMA ChecksTyped ==
    ASSUME NEW a, Typed(a), NEW ch \in [Pair -> Check]
    PROVE  LET b == [a EXCEPT !.checks = ch]
           IN  /\ Typed(b) /\ b.checks = ch /\ b.name = a.name /\ b.role = a.role
               /\ b.list = a.list /\ b.request = a.request /\ b.resolved = a.resolved
               /\ b.server = a.server /\ b.valid = a.valid /\ b.que = a.que
               /\ b.timer = a.timer /\ b.told = a.told
BY DEF Typed, AgentType

LEMMA RequestTyped ==
    ASSUME NEW a, Typed(a), NEW rq \in [Pair -> Request]
    PROVE  LET b == [a EXCEPT !.request = rq]
           IN  /\ Typed(b) /\ b.request = rq /\ b.name = a.name /\ b.role = a.role
               /\ b.list = a.list /\ b.checks = a.checks /\ b.resolved = a.resolved
               /\ b.server = a.server /\ b.valid = a.valid /\ b.que = a.que
               /\ b.timer = a.timer /\ b.told = a.told
BY DEF Typed, AgentType

LEMMA ValidTyped ==
    ASSUME NEW a, Typed(a),
           NEW vs \in SUBSET [pair : Pair, priority : Nat, selected : BOOLEAN],
           \A v \in vs : v.priority \in Priorities(a.name)
    PROVE  LET b == [a EXCEPT !.valid = vs]
           IN  /\ Typed(b) /\ b.valid = vs /\ b.name = a.name /\ b.role = a.role
               /\ b.list = a.list /\ b.checks = a.checks /\ b.request = a.request
               /\ b.resolved = a.resolved /\ b.server = a.server /\ b.que = a.que
               /\ b.timer = a.timer /\ b.told = a.told
BY DEF Typed, AgentType

LEMMA RoleTyped ==
    ASSUME NEW a, Typed(a), NEW role \in Role
    PROVE  LET b == RoleChangeNeeded(a, role)
           IN  /\ Typed(b) /\ b.role = role /\ b.name = a.name /\ b.valid = a.valid
               /\ b.list = a.list /\ b.checks = a.checks /\ b.request = a.request
               /\ b.resolved = a.resolved /\ b.server = a.server /\ b.que = a.que
               /\ b.timer = a.timer /\ b.told = a.told
BY DEF Typed, AgentType, RoleChangeNeeded

\* Updates of one check or request are updates of the functions.
LEMMA CheckUpdate ==
    ASSUME NEW a, Typed(a), NEW p \in Pair, NEW k \in Check
    PROVE  LET b == [a EXCEPT !.checks[p] = k]
           IN  /\ Typed(b) /\ b.name = a.name /\ b.role = a.role /\ b.list = a.list
               /\ b.checks = [a.checks EXCEPT ![p] = k]
               /\ b.request = a.request /\ b.resolved = a.resolved /\ b.server = a.server
               /\ b.valid = a.valid /\ b.que = a.que /\ b.timer = a.timer /\ b.told = a.told
<1>1. a.checks \in [Pair -> Check]
  BY AgentFields DEF Typed
<1> DEFINE f == [a.checks EXCEPT ![p] = k]
           b == [a EXCEPT !.checks = f]
<1>2. f \in [Pair -> Check]
  BY <1>1
<1>3. [a EXCEPT !.checks[p] = k] = b
  OBVIOUS
<1> HIDE DEF f
<1>4. /\ Typed(b) /\ b.checks = f /\ b.name = a.name /\ b.role = a.role /\ b.list = a.list
      /\ b.request = a.request /\ b.resolved = a.resolved /\ b.server = a.server
      /\ b.valid = a.valid /\ b.que = a.que /\ b.timer = a.timer /\ b.told = a.told
  BY <1>2, ChecksTyped
<1> HIDE DEF b
<1> QED
  BY <1>3, <1>4 DEF f

LEMMA RequestUpdate ==
    ASSUME NEW a, Typed(a), NEW p \in Pair, NEW r \in Request
    PROVE  LET b == [a EXCEPT !.request[p] = r]
           IN  /\ Typed(b) /\ b.name = a.name /\ b.role = a.role /\ b.list = a.list
               /\ b.request = [a.request EXCEPT ![p] = r]
               /\ b.checks = a.checks /\ b.resolved = a.resolved /\ b.server = a.server
               /\ b.valid = a.valid /\ b.que = a.que /\ b.timer = a.timer /\ b.told = a.told
<1>1. a.request \in [Pair -> Request]
  BY AgentFields DEF Typed
<1> DEFINE f == [a.request EXCEPT ![p] = r]
           b == [a EXCEPT !.request = f]
<1>2. f \in [Pair -> Request]
  BY <1>1
<1>3. [a EXCEPT !.request[p] = r] = b
  OBVIOUS
<1> HIDE DEF f
<1>4. /\ Typed(b) /\ b.request = f /\ b.name = a.name /\ b.role = a.role /\ b.list = a.list
      /\ b.checks = a.checks /\ b.resolved = a.resolved /\ b.server = a.server
      /\ b.valid = a.valid /\ b.que = a.que /\ b.timer = a.timer /\ b.told = a.told
  BY <1>2, RequestTyped
<1> HIDE DEF b
<1> QED
  BY <1>3, <1>4 DEF f
-----------------------------------------------------------------------------
(* When the priorities are in order *)

Distinct ==
    \A x \in Agent, role \in Role : \A p, q \in Pair : p # q =>
       PrioritizePair(x, role, p) # PrioritizePair(x, role, q)

\* The numbers the cast leaves are within half of those a TUint can hold.
Near(low, w) == low <= w /\ 2 * (w - low) < Modulus
Windowed ==
    \A x \in Agent : \E low \in Nat : \A n \in Priorities(x) :
       \E k, w \in Int : n = k * Modulus + w /\ Near(low, w)

LEMMA Multiples ==
    ASSUME NEW j \in Int, NEW M \in Nat \ {0}
    PROVE  /\ j >= 1 => j * M >= M
           /\ j <= -1 => j * M <= -M
<1>1. CASE j >= 1
  <2>1. (j - 1) * M >= 0
    BY <1>1
  <2>2. (j - 1) * M = j * M - M
    OBVIOUS
  <2> QED
    BY <1>1, <2>1, <2>2
<1>2. CASE j <= -1
  <2>1. (-1 - j) * M >= 0
    BY <1>2
  <2>2. (-1 - j) * M = -M - j * M
    OBVIOUS
  <2> QED
    BY <1>2, <2>1, <2>2
<1> QED
  BY <1>1, <1>2

\* A number is some multiple and a remainder in one way only.
LEMMA OneWay ==
    ASSUME NEW M \in Nat \ {0}, NEW k \in Int, NEW q \in Int,
           NEW r \in 0 .. M - 1, NEW t \in 0 .. M - 1, k * M + r = q * M + t
    PROVE  k = q /\ r = t
<1>1. (k - q) * M = t - r
  <2>1. (k - q) * M = k * M - q * M /\ k * M \in Int /\ q * M \in Int
    OBVIOUS
  <2> DEFINE m == k * M
             n == q * M
             d == (k - q) * M
  <2>2. d = m - n /\ m + r = n + t /\ m \in Int /\ n \in Int /\ r \in Int /\ t \in Int
    BY <2>1
  <2> HIDE DEF m, n, d
  <2>3. d = t - r
    BY <2>2
  <2> QED
    BY <2>3 DEF d
<1>2. k - q = 0
  <2> DEFINE j == k - q
             n == j * M
  <2>1. j \in Int
    OBVIOUS
  <2>2. n = t - r
    BY <1>1
  <2> HIDE DEF j
  <2>3. (j >= 1 => n >= M) /\ (j <= -1 => n <= -M)
    BY <2>1, Multiples
  <2> HIDE DEF n
  <2>4. j = 0
    BY <2>1, <2>2, <2>3
  <2> QED
    BY <2>4 DEF j
<1> QED
  BY <1>1, <1>2

LEMMA Remainder ==
    ASSUME NEW k \in Int, NEW M \in Nat \ {0}, NEW r \in 0 .. M - 1
    PROVE  (k * M + r) % M = r
<1> DEFINE a == k * M + r
           q == a \div M
           t == a % M
<1>1. a \in Int
  OBVIOUS
<1>2. a = q * M + t /\ q \in Int /\ t \in 0 .. M - 1
  <2> HIDE DEF a
  <2> QED
    BY <1>1
<1> HIDE DEF q, t
<1>3. t = r
  BY <1>2, OneWay
<1> QED
  BY <1>3 DEF t

\* The truncated difference of numbers whose lower halves are near
LEMMA TruncatedNear ==
    ASSUME NEW low \in Int, NEW k \in Int, NEW w \in Int, NEW j \in Int, NEW u \in Int,
           Near(low, w), Near(low, u), u <= w
    PROVE  ComparePriorities(k * Modulus + w, j * Modulus + u) <= 0
<1> DEFINE M == Modulus
           d == u - w
           i == j - k
           n == (j * M + u) - (k * M + w)
           r == IF d = 0 THEN 0 ELSE M + d
           h == IF d = 0 THEN i ELSE i - 1
<1>1. M \in Nat \ {0}
  BY IceAssumption
<1>2. d \in Int /\ d <= 0 /\ 2 * d > -M /\ i \in Int
  BY <1>1 DEF Near
<1>3. n = i * M + d
  <2>1. (j - k) * M = j * M - k * M /\ j * M \in Int /\ k * M \in Int
    BY <1>1
  <2> DEFINE x == j * M
             y == k * M
             z == (j - k) * M
  <2>2. z = x - y /\ x \in Int /\ y \in Int /\ z + (u - w) = z + d /\ n = (x + u) - (y + w)
    BY <2>1
  <2>3. i * M + d = z + (u - w)
    OBVIOUS
  <2> HIDE DEF x, y, z, n
  <2> QED
    BY <2>2, <2>3
<1>4. r \in 0 .. M - 1 /\ h \in Int /\ n = h * M + r
  <2> HIDE DEF M, d, i, n
  <2>1. r \in 0 .. M - 1 /\ h \in Int
    BY <1>1, <1>2
  <2>2. (i - 1) * M = i * M - M
    BY <1>1, <1>2
  <2>3. CASE d = 0
    BY <1>1, <1>2, <1>3, <2>3
  <2>4. CASE d # 0
    <3> DEFINE x == i * M
               y == (i - 1) * M
    <3>1. x \in Int /\ y = x - M /\ n = x + d /\ h * M + r = y + (M + d)
      BY <1>1, <1>2, <1>3, <2>2, <2>4
    <3> HIDE DEF x, y, h, r
    <3> QED
      BY <1>1, <1>2, <2>1, <3>1
  <2> QED
    BY <2>1, <2>3, <2>4
<1>5. n % M = r
  <2> HIDE DEF n, r, h, M
  <2> QED
    BY <1>1, <1>4, Remainder
<1>6. Truncated(n) = IF 2 * r >= M THEN r - M ELSE r
  <2> HIDE DEF n, r
  <2> QED
    BY <1>5 DEF Truncated
<1>7. Truncated(n) <= 0
  <2> DEFINE c == Truncated(n)
  <2>1. c = IF 2 * r >= M THEN r - M ELSE r
    BY <1>6
  <2> HIDE DEF c, n, M, d
  <2> QED
    BY <1>1, <1>2, <2>1 DEF c
<1> QED
  BY <1>7 DEF ComparePriorities

(***************************************************************************)
(* ComparePriorities casts the difference of two TUint64 to TInt           *)
(* (ciceconnectivitycheck.cpp:116).  It orders the checks all the same, if *)
(* the lower words of their priorities are within half of the numbers of a *)
(* TUint, which is what Ordered asks for.                                  *)
(***************************************************************************)
THEOREM PrioritiesOrdered ==
    ASSUME Distinct, Windowed
    PROVE  Ordered
<1>1. ASSUME NEW x \in Agent, NEW S \in SUBSET Priorities(x), S # {}
      PROVE  \E m \in S : \A n \in S : ComparePriorities(m, n) <= 0
  <2>1. PICK low \in Nat : \A n \in Priorities(x) :
           \E k, w \in Int : n = k * Modulus + w /\ Near(low, w)
    BY Windowed DEF Windowed
  <2> DEFINE U == {u \in Int : Near(low, u) /\ \E k \in Int : k * Modulus + u \in S}
             T == {Modulus - (u - low) : u \in U}
  <2>2. Modulus \in Nat \ {0}
    BY IceAssumption
  <2>3. \A u \in U : Modulus - (u - low) \in Nat
    <3>1. \A u \in U : u \in Int /\ Near(low, u)
      OBVIOUS
    <3> HIDE DEF U
    <3> QED
      BY <2>2, <3>1 DEF Near
  <2>4. U # {}
    <3>1. PICK n \in S : TRUE
      BY <1>1
    <3>2. PICK k \in Int, u \in Int : n = k * Modulus + u /\ Near(low, u)
      BY <2>1, <3>1
    <3>3. u \in U
      BY <3>1, <3>2, Zenon
    <3> QED
      BY <3>3
  <2>5. \E t \in T : \A s \in T : t <= s
    <3>1. T \subseteq Nat /\ T # {}
      BY <2>3, <2>4
    <3> HIDE DEF T
    <3> QED
      BY <3>1, LeastMember
  <2>6. PICK w \in U : \A u \in U : Modulus - (w - low) <= Modulus - (u - low)
    BY <2>5
  <2>7. PICK k \in Int : k * Modulus + w \in S
    BY <2>6
  <2>8. w \in Int /\ Near(low, w)
    BY <2>6
  <2>9. ASSUME NEW n \in S PROVE ComparePriorities(k * Modulus + w, n) <= 0
    <3>1. PICK j \in Int, u \in Int : n = j * Modulus + u /\ Near(low, u)
      BY <2>1
    <3>2. u \in U
      BY <3>1, Zenon
    <3>3. u <= w
      <4>1. Modulus - (w - low) <= Modulus - (u - low)
        BY <2>6, <3>2
      <4> HIDE DEF U
      <4> QED
        BY <2>2, <2>8, <3>1, <4>1
    <3>4. ComparePriorities(k * Modulus + w, j * Modulus + u) <= 0
      BY <2>7, <2>8, <3>1, <3>3, TruncatedNear
    <3> QED
      BY <3>1, <3>4
  <2> QED
    BY <2>7, <2>9
<1>2. ASSUME NEW x \in Agent, NEW role \in Role, NEW p \in Pair, NEW q \in Pair, p # q
      PROVE  PrioritizePair(x, role, p) # PrioritizePair(x, role, q)
  BY <1>2 DEF Distinct
<1> QED
  BY <1>1, <1>2 DEF Ordered

(***************************************************************************)
(* Candidate priorities as CIceCandidatePrioritizer computes them are so   *)
(* small, its powers of two being exclusive ors like K2ToPowerOf32, that   *)
(* the cast loses nothing.                                                 *)
(***************************************************************************)
THEOREM SmallPrioritiesOrdered ==
    ASSUME Distinct,
           \A x \in Agent, p \in Pair : 2 * (36 * CandidatePriority[x][p] + 1) < Modulus
    PROVE  Ordered
<1>1. ASSUME NEW x \in Agent, NEW role \in Role, NEW p \in Pair
      PROVE  Near(0, PrioritizePair(x, role, p))
  <2> DEFINE local  == CandidatePriority[x][p]
             remote == CandidatePriority[Peer(x)][p]
             n == PrioritizePair(x, role, p)
  <2>1. \A y \in Agent : CandidatePriority[y][p] \in Nat
    BY IceAssumption
  <2>2. Modulus \in Nat /\ local \in Nat /\ remote \in Nat
    BY <2>1, IceAssumption, PeerFacts
  <2>3. 2 * (36 * local + 1) < Modulus /\ 2 * (36 * remote + 1) < Modulus
    BY PeerFacts
  <2>4. \E G, D \in {local, remote} :
           n = IF G > D THEN 34 * D + 2 * G + 1 ELSE 34 * G + 2 * D
    BY DEF PrioritizePair, K2ToPowerOf32
  <2> HIDE DEF local, remote, n
  <2>5. 0 <= n /\ 2 * n < Modulus /\ n \in Nat
    BY <2>2, <2>3, <2>4
  <2> QED
    BY <2>2, <2>5 DEF Near, n
<1>2. ASSUME NEW x \in Agent, NEW n \in Priorities(x)
      PROVE  \E k, w \in Int : n = k * Modulus + w /\ Near(0, w)
  <2>1. PICK role \in Role, p \in Pair : n = PrioritizePair(x, role, p)
    BY DEF Priorities
  <2>2. n \in Int /\ Near(0, n)
    BY <1>1, <2>1, PriorityType
  <2>3. n = 0 * Modulus + n
    BY <2>2, IceAssumption
  <2> QED
    BY <2>2, <2>3
<1>3. Windowed
  BY <1>2 DEF Windowed
<1> QED
  BY <1>3, PrioritiesOrdered
-----------------------------------------------------------------------------
(* What the calls of the check list do *)

\* The same in what only checks change
Untouched(a, b) ==
    /\ b.name = a.name /\ b.role = a.role /\ b.request = a.request
    /\ b.resolved = a.resolved /\ b.server = a.server

LEMMA SelectedFacts ==
    ASSUME Ordered, NEW a, Typed(a), Selected(a) # {}
    PROVE  FirstValid(Selected(a)) \in Selected(a)
<1>1. a.name \in Agent
  BY AgentFields DEF Typed
<1>2. \A v \in Selected(a) : v.priority \in Priorities(a.name)
  BY DEF Typed, Selected
<1> QED
  BY <1>1, <1>2, FirstValidIn

LEMMA SetStateGives ==
    ASSUME Ordered, NEW a, Typed(a), NEW state \in {"Running", "Completed", "Failed"},
           a.list # "Completed", state = "Completed" => Selected(a) # {}
    PROVE  LET b == SetState(a, state)
           IN  /\ Typed(b) /\ Untouched(a, b) /\ b.checks = a.checks /\ b.valid = a.valid
               /\ b.list = state /\ b.que = <<>> /\ b.timer = (state = "Running")
               /\ state # "Completed" => b.told = a.told
               /\ state = "Completed" =>
                     \E v \in Selected(a) : b.told = a.told \cup {v.pair}
<1> DEFINE v == FirstValid(Selected(a))
           told == IF state = "Completed" THEN a.told \cup {v.pair} ELSE a.told
           run == state = "Running"
           b == [a EXCEPT !.list = state, !.que = <<>>, !.timer = run, !.told = told]
<1>1. SetState(a, state) = b
  BY DEF SetState
<1>2. a \in AgentType /\ a.told = {} /\ a.told \subseteq Pair /\ run \in BOOLEAN
  BY AgentFields DEF Typed
<1>3. state = "Completed" => v \in Selected(a)
  BY SelectedFacts
<1>4. \A w \in Selected(a) : w.pair \in Pair
  BY AgentFields DEF Typed, Selected
<1> HIDE DEF v
<1>5. told \subseteq Pair /\ (state = "Completed" <=> told # {})
  BY <1>2, <1>3, <1>4
<1> HIDE DEF told, run
<1>6. /\ b \in AgentType /\ Untouched(a, b) /\ b.checks = a.checks /\ b.valid = a.valid
      /\ b.list = state /\ b.que = <<>> /\ b.timer = run /\ b.told = told
  <2>1. <<>> \in Seq(Item)
    BY EmptyQue
  <2> QED
    BY <1>2, <1>5, <2>1 DEF AgentType, Untouched, Item
<1> HIDE DEF b
<1>7. Typed(b)
  BY <1>2, <1>5, <1>6, EmptyQue DEF Typed, Untouched
<1> QED
  BY <1>1, <1>3, <1>6, <1>7 DEF told, run

Cleared(checks) ==
    [p \in Pair |-> IF checks[p].state \in {"Waiting", "Frozen"}
                    THEN NewCheck("Removed") ELSE checks[p]]

LEMMA UpdateGives ==
    ASSUME Ordered, NEW a, Typed(a)
    PROVE  LET b == UpdateCheckListState(a)
           IN  /\ Typed(b) /\ Untouched(a, b) /\ b.valid = a.valid
               /\ \/ b = a /\ (a.list = "Running" => Selected(a) = {})
                  \/ /\ a.list = "Running" /\ b.list = "Completed"
                     /\ b.checks = Cleared(a.checks) /\ b.que = <<>> /\ ~b.timer
                     /\ \E v \in Selected(a) : b.told = a.told \cup {v.pair}
                  \/ /\ a.list = "Running" /\ b.list = "Failed"
                     /\ InState(a, {"Waiting", "InProgress", "Frozen"}) = {} /\ a.valid = {}
                     /\ b.checks = a.checks /\ b.que = <<>> /\ ~b.timer /\ b.told = a.told
<1>1. CASE a.list # "Running"
  BY <1>1 DEF UpdateCheckListState, Untouched
<1>2. CASE a.list = "Running" /\ Selected(a) # {}
  <2> DEFINE d == RemovePendingChecks(a)
  <2>1. a.checks \in [Pair -> Check] /\ \A s \in CheckState : NewCheck(s) \in Check
    BY AgentFields DEF Typed, NewCheck, Check
  <2>2. Cleared(a.checks) \in [Pair -> Check]
    BY <2>1 DEF Cleared, CheckState
  <2>3. d = [a EXCEPT !.checks = Cleared(a.checks)]
    BY DEF RemovePendingChecks, Cleared
  <2>4. Typed(d) /\ d.checks = Cleared(a.checks) /\ Untouched(a, d) /\ d.list = a.list
        /\ d.valid = a.valid /\ d.told = a.told
    <3>1. /\ Typed(d) /\ d.checks = Cleared(a.checks) /\ d.name = a.name /\ d.role = a.role
          /\ d.list = a.list /\ d.request = a.request /\ d.resolved = a.resolved
          /\ d.server = a.server /\ d.valid = a.valid /\ d.told = a.told
      <4> DEFINE ch == Cleared(a.checks)
      <4>1. ch \in [Pair -> Check] /\ d = [a EXCEPT !.checks = ch]
        BY <2>2, <2>3
      <4> HIDE DEF ch, d
      <4>2. Typed(d) /\ d.checks = ch /\ d.name = a.name /\ d.role = a.role
            /\ d.list = a.list /\ d.request = a.request /\ d.resolved = a.resolved
            /\ d.server = a.server /\ d.valid = a.valid /\ d.told = a.told
        BY <4>1, ChecksTyped
      <4> QED
        BY <4>2 DEF ch
    <3> HIDE DEF d
    <3> QED
      BY <3>1 DEF Untouched
  <2> HIDE DEF d
  <2>5. Selected(d) = Selected(a)
    BY <2>4 DEF Selected
  <2> DEFINE b == SetState(d, "Completed")
  <2>6. /\ Typed(b) /\ Untouched(d, b) /\ b.checks = d.checks /\ b.valid = d.valid
        /\ b.list = "Completed" /\ b.que = <<>> /\ b.timer = FALSE
        /\ \E v \in Selected(d) : b.told = d.told \cup {v.pair}
    <3> DEFINE z == "Completed"
    <3>1. Typed(d) /\ d.list # "Completed" /\ Selected(d) # {}
      BY <1>2, <2>4, <2>5
    <3>2. z \in {"Running", "Completed", "Failed"} /\ z = "Completed"
      OBVIOUS
    <3> HIDE DEF z
    <3>3. /\ Typed(SetState(d, z)) /\ Untouched(d, SetState(d, z))
          /\ SetState(d, z).checks = d.checks /\ SetState(d, z).valid = d.valid
          /\ SetState(d, z).list = z /\ SetState(d, z).que = <<>>
          /\ SetState(d, z).timer = (z = "Running")
          /\ z = "Completed" => \E v \in Selected(d) : SetState(d, z).told = d.told \cup {v.pair}
      BY <3>1, <3>2, SetStateGives, ZenonT(40)
    <3> QED
      BY <3>2, <3>3
  <2>7. UpdateCheckListState(a) = b
    BY <1>2 DEF UpdateCheckListState, d
  <2> HIDE DEF b
  <2> QED
    BY <1>2, <2>4, <2>5, <2>6, <2>7 DEF Untouched
<1>3. CASE /\ a.list = "Running" /\ Selected(a) = {}
           /\ InState(a, {"Waiting", "InProgress", "Frozen"}) = {} /\ a.valid = {}
  <2> DEFINE b == SetState(a, "Failed")
  <2>1. /\ Typed(b) /\ Untouched(a, b) /\ b.checks = a.checks /\ b.valid = a.valid
        /\ b.list = "Failed" /\ b.que = <<>> /\ b.timer = FALSE /\ b.told = a.told
    BY <1>3, SetStateGives
  <2>2. UpdateCheckListState(a) = b
    BY <1>3 DEF UpdateCheckListState
  <2> HIDE DEF b
  <2> QED
    BY <1>3, <2>1, <2>2
<1>4. CASE /\ a.list = "Running" /\ Selected(a) = {}
           /\ ~(InState(a, {"Waiting", "InProgress", "Frozen"}) = {} /\ a.valid = {})
  BY <1>4 DEF UpdateCheckListState, Untouched
<1> QED
  BY <1>1, <1>2, <1>3, <1>4

\* A valid pair of p is selected.
LEMMA SelectGives ==
    ASSUME Ordered, NEW a, Typed(a), NEW p \in Pair, CanSelect(a, p)
    PROVE  LET b == SetPairNominated(a, p)
           IN  /\ Typed(b) /\ Untouched(a, b) /\ b.checks = a.checks /\ b.list = a.list
               /\ b.que = a.que /\ b.timer = a.timer /\ b.told = a.told
               /\ \E v \in a.valid :
                     v.pair = p /\ b.valid = (a.valid \ {v}) \cup {[v EXCEPT !.selected = TRUE]}
<1> DEFINE S == {w \in a.valid : w.pair = p}
           v == FirstValid(S)
           vs == (a.valid \ {v}) \cup {[v EXCEPT !.selected = TRUE]}
           b == [a EXCEPT !.valid = vs]
<1>1. S # {} /\ \A w \in S : w.priority \in Priorities(a.name)
  BY DEF CanSelect, Typed
<1>2. v \in S
  BY <1>1, FirstValidIn, AgentFields DEF Typed
<1> HIDE DEF v
<1>3. v \in a.valid /\ v.pair = p /\ v.priority \in Priorities(a.name)
  BY <1>1, <1>2
<1>4. v \in [pair : Pair, priority : Nat, selected : BOOLEAN]
  BY <1>3, AgentFields DEF Typed
<1> DEFINE u == [v EXCEPT !.selected = TRUE]
<1>5. /\ u \in [pair : Pair, priority : Nat, selected : BOOLEAN]
      /\ u.priority = v.priority
  BY <1>4
<1> HIDE DEF u
<1>6. /\ vs \subseteq [pair : Pair, priority : Nat, selected : BOOLEAN]
      /\ \A w \in vs : w.priority \in Priorities(a.name)
  BY <1>3, <1>5, AgentFields DEF Typed, u
<1>7. SetPairNominated(a, p) = b
  BY DEF SetPairNominated, v, u
<1> HIDE DEF vs
<1>8. /\ Typed(b) /\ b.valid = vs /\ Untouched(a, b) /\ b.checks = a.checks
      /\ b.list = a.list /\ b.que = a.que /\ b.timer = a.timer /\ b.told = a.told
  BY <1>6, ValidTyped DEF Untouched
<1> HIDE DEF b
<1> QED
  BY <1>3, <1>7, <1>8 DEF vs

LEMMA AddValidGives ==
    ASSUME NEW a, Typed(a), NEW p \in Pair, NEW sel \in BOOLEAN
    PROVE  LET v == [pair |-> p, selected |-> sel,
                     priority |-> PrioritizePair(a.name, a.role, p)]
               b == AddValidPair(a, v)
           IN  /\ Typed(b) /\ Untouched(a, b) /\ b.checks = a.checks /\ b.list = a.list
               /\ b.que = a.que /\ b.timer = a.timer /\ b.told = a.told
               /\ b.valid = {w \in a.valid : w.priority # v.priority} \cup {v}
<1> DEFINE v == [pair |-> p, selected |-> sel, priority |-> PrioritizePair(a.name, a.role, p)]
           vs == {w \in a.valid : w.priority # v.priority} \cup {v}
           b == [a EXCEPT !.valid = vs]
<1>1. a.name \in Agent /\ a.role \in Role
  BY AgentFields DEF Typed
<1>2. v.priority \in Nat /\ v.priority \in Priorities(a.name)
  BY <1>1, PriorityType
<1>3. v \in [pair : Pair, priority : Nat, selected : BOOLEAN]
  BY <1>2
<1>4. AddValidPair(a, v) = b
  BY DEF AddValidPair
<1> HIDE DEF v
<1>5. /\ vs \subseteq [pair : Pair, priority : Nat, selected : BOOLEAN]
      /\ \A w \in vs : w.priority \in Priorities(a.name)
  BY <1>2, <1>3, AgentFields DEF Typed
<1> HIDE DEF vs
<1>6. /\ Typed(b) /\ b.valid = vs /\ Untouched(a, b) /\ b.checks = a.checks
      /\ b.list = a.list /\ b.que = a.que /\ b.timer = a.timer /\ b.told = a.told
  BY <1>5, ValidTyped DEF Untouched
<1> HIDE DEF b
<1> QED
  BY <1>4, <1>6 DEF vs, v

LEMMA NominateGives ==
    ASSUME Ordered, NEW a, Typed(a), a.valid # {}
    PROVE  \/ Nominate(a) = a
           \/ /\ a.role = "controlling" /\ ~\E p \in Pair : a.checks[p].nominated
              /\ \E v \in a.valid : v.pair \in Pair /\ Nominate(a) = Enqueue(a, v.pair, TRUE)
<1>1. FirstValid(a.valid) \in a.valid
  BY FirstValidIn, AgentFields DEF Typed
<1>2. FirstValid(a.valid).pair \in Pair
  BY <1>1, AgentFields DEF Typed
<1> QED
  BY <1>1, <1>2 DEF Nominate

Thawed(checks, foundation) ==
    [p \in Pair |-> IF checks[p].state = "Frozen" /\ Foundation[p] = foundation
                    THEN [checks[p] EXCEPT !.state = "Waiting"] ELSE checks[p]]

LEMMA UnfreezeGives ==
    ASSUME NEW a, Typed(a), NEW f
    PROVE  LET b == Unfreeze(a, f)
           IN  /\ Typed(b) /\ Untouched(a, b) /\ b.checks = Thawed(a.checks, f)
               /\ b.list = a.list /\ b.valid = a.valid
               /\ b.que = a.que /\ b.timer = a.timer /\ b.told = a.told
<1>1. a.checks \in [Pair -> Check] /\ \A k \in Check : [k EXCEPT !.state = "Waiting"] \in Check
  BY AgentFields DEF Typed, Check, CheckState
<1>2. Thawed(a.checks, f) \in [Pair -> Check]
  BY <1>1 DEF Thawed
<1>3. Unfreeze(a, f) = [a EXCEPT !.checks = Thawed(a.checks, f)]
  BY DEF Unfreeze, Thawed
<1> QED
  BY <1>2, <1>3, ChecksTyped DEF Untouched

-----------------------------------------------------------------------------
(* What the checks do *)

\* The same in what a check that is performed does not change
Around(a, b) ==
    /\ b.name = a.name /\ b.role = a.role /\ b.list = a.list /\ b.valid = a.valid
    /\ b.resolved = a.resolved /\ b.server = a.server /\ b.told = a.told

\* The requests after SendRequestL
Sent(a, p, favored) ==
    IF a.request[p].awaited THEN a.request
    ELSE [a.request EXCEPT ![p] = [ role |-> a.role, favored |-> favored, awaited |-> TRUE,
                                    served |-> FALSE, answer |-> "none" ]]

\* Check p, as k, is performed or stays as it is.
Performed(a, b, p, k) ==
    IF CanSend(a, p)
    THEN /\ b.checks = [a.checks EXCEPT ![p] = [k EXCEPT !.state = "InProgress"]]
         /\ b.request = Sent(a, p, FALSE)
    ELSE b.checks = [a.checks EXCEPT ![p] = k] /\ b.request = a.request

Initial(k) == [k EXCEPT !.state = "Waiting", !.nominated = FALSE, !.resend = FALSE]

LEMMA CheckType ==
    ASSUME NEW k \in Check
    PROVE  /\ \A s \in CheckState : [k EXCEPT !.state = s] \in Check
           /\ \A t \in BOOLEAN : /\ [k EXCEPT !.triggered = t] \in Check
                                 /\ [k EXCEPT !.favored = t] \in Check
           /\ [k EXCEPT !.nominated = TRUE] \in Check
           /\ Initial(k) \in Check
           /\ [k EXCEPT !.nominated = TRUE, !.resend = TRUE, !.state = "InProgress"] \in Check
           /\ \A s \in CheckState : [k EXCEPT !.state = s, !.resend = FALSE] \in Check
BY DEF Check, CheckState, Initial

LEMMA CheckOf ==
    ASSUME NEW a, Typed(a), NEW p \in Pair
    PROVE  a.checks[p] \in Check /\ a.checks[p].state \in CheckState
           /\ a.request[p] \in Request /\ a.request[p].awaited \in BOOLEAN
BY AgentFields DEF Typed, Check, Request

LEMMA SendGives ==
    ASSUME NEW a, Typed(a), NEW p \in Pair, NEW favored \in BOOLEAN
    PROVE  LET b == Send(a, p, favored)
           IN  /\ Typed(b) /\ Around(a, b) /\ b.checks = a.checks /\ b.que = a.que
               /\ b.timer = a.timer /\ b.request = Sent(a, p, favored)
<1> DEFINE r == [ role |-> a.role, favored |-> favored, awaited |-> TRUE,
                  served |-> FALSE, answer |-> "none" ]
<1>1. r \in Request
  BY AgentFields DEF Typed, Request
<1>2. CASE a.request[p].awaited
  BY <1>2 DEF Send, Sent, Around
<1>3. CASE ~a.request[p].awaited
  <2>1. Send(a, p, favored) = [a EXCEPT !.request[p] = r]
    BY <1>3 DEF Send
  <2>2. Sent(a, p, favored) = [a.request EXCEPT ![p] = r]
    BY <1>3 DEF Sent
  <2> HIDE DEF r
  <2> QED
    BY <1>1, <2>1, <2>2, RequestUpdate DEF Around
<1> QED
  BY <1>2, <1>3

LEMMA PerformGives ==
    ASSUME NEW a, Typed(a), NEW p \in Pair, NEW t \in BOOLEAN
    PROVE  LET b == Perform(a, p, t)
           IN  /\ Typed(b) /\ Around(a, b) /\ b.que = a.que /\ b.timer = a.timer
               /\ Performed(a, b, p, [a.checks[p] EXCEPT !.triggered = t])
<1> DEFINE k == [a.checks[p] EXCEPT !.triggered = t]
           d == [a EXCEPT !.checks[p] = k]
           e == Send(d, p, FALSE)
           n == [k EXCEPT !.state = "InProgress"]
           f == [e EXCEPT !.checks[p] = n]
<1>1. k \in Check /\ n \in Check
  BY CheckOf, CheckType DEF CheckState
<1>2. [a EXCEPT !.checks[p].triggered = t] = d
  OBVIOUS
<1>3. a.checks \in [Pair -> Check]
  BY AgentFields DEF Typed
<1>4. [e EXCEPT !.checks[p].state = "InProgress"] = [e EXCEPT !.checks[p] = [e.checks[p] EXCEPT !.state = "InProgress"]]
  BY Zenon
<1>5. Perform(a, p, t) = IF CanSend(a, p) THEN [e EXCEPT !.checks[p].state = "InProgress"] ELSE d
  BY <1>2, Zenon DEF Perform
<1> HIDE DEF k
<1>6. /\ Typed(d) /\ Around(a, d) /\ d.que = a.que /\ d.timer = a.timer
      /\ d.request = a.request /\ d.checks = [a.checks EXCEPT ![p] = k]
  BY <1>1, CheckUpdate DEF Around
<1> HIDE DEF d
<1>7. /\ Typed(e) /\ Around(d, e) /\ e.checks = d.checks /\ e.que = d.que
      /\ e.timer = d.timer /\ e.request = Sent(d, p, FALSE)
  BY <1>6, SendGives
<1>8. Sent(d, p, FALSE) = Sent(a, p, FALSE)
  BY <1>6 DEF Sent, Around
<1>9. e.checks[p] = k
  BY <1>3, <1>6, <1>7
<1> HIDE DEF e, n
<1>10. /\ Typed(f) /\ Around(e, f) /\ f.que = e.que /\ f.timer = e.timer
       /\ f.request = e.request /\ f.checks = [e.checks EXCEPT ![p] = n]
  <2>1. /\ Typed(f) /\ f.name = e.name /\ f.role = e.role /\ f.list = e.list
        /\ f.checks = [e.checks EXCEPT ![p] = n]
        /\ f.request = e.request /\ f.resolved = e.resolved /\ f.server = e.server
        /\ f.valid = e.valid /\ f.que = e.que /\ f.timer = e.timer /\ f.told = e.told
    BY <1>1, <1>7, CheckUpdate, Zenon
  <2> HIDE DEF f
  <2> QED
    BY <2>1 DEF Around
<1>11. Perform(a, p, t) = IF CanSend(a, p) THEN f ELSE d
  BY <1>4, <1>5, <1>9 DEF n
<1> HIDE DEF f
<1>12. f.checks = [a.checks EXCEPT ![p] = n]
  BY <1>3, <1>6, <1>7, <1>10
<1> QED
  BY <1>6, <1>7, <1>8, <1>10, <1>11, <1>12 DEF Performed, Around, k, n

LEMMA InitializeGives ==
    ASSUME NEW a, Typed(a), NEW p \in Pair
    PROVE  LET b == Initialize(a, p)
           IN  /\ Typed(b) /\ Around(a, b) /\ b.que = a.que /\ b.timer = a.timer
               /\ b.request = a.request /\ b.checks = [a.checks EXCEPT ![p] = Initial(a.checks[p])]
<1> DEFINE k == Initial(a.checks[p])
<1>1. k \in Check
  BY CheckOf, CheckType
<1>2. Initialize(a, p) = [a EXCEPT !.checks[p] = k]
  BY DEF Initialize, Initial
<1> HIDE DEF k
<1> QED
  BY <1>1, <1>2, CheckUpdate DEF Around, k

\* InitializeGives and PerformGives
LEMMA RetriedGives ==
    ASSUME NEW a, Typed(a), NEW p \in Pair, NEW t \in BOOLEAN
    PROVE  LET b == Perform(Initialize(a, p), p, t)
           IN  /\ Typed(b) /\ Around(a, b) /\ b.que = a.que /\ b.timer = a.timer
               /\ Performed(a, b, p, [Initial(a.checks[p]) EXCEPT !.triggered = t])
<1> DEFINE d == Initialize(a, p)
           b == Perform(d, p, t)
           k == Initial(a.checks[p])
<1>1. /\ Typed(d) /\ Around(a, d) /\ d.que = a.que /\ d.timer = a.timer
      /\ d.request = a.request /\ d.checks = [a.checks EXCEPT ![p] = k]
  BY InitializeGives
<1> HIDE DEF d, k
<1>2. /\ Typed(b) /\ Around(d, b) /\ b.que = d.que /\ b.timer = d.timer
      /\ Performed(d, b, p, [d.checks[p] EXCEPT !.triggered = t])
  BY <1>1, PerformGives
<1>3. a.checks \in [Pair -> Check]
  BY AgentFields DEF Typed
<1>4. d.checks[p] = k /\ \A n : [d.checks EXCEPT ![p] = n] = [a.checks EXCEPT ![p] = n]
  BY <1>1, <1>3
<1>5. CanSend(d, p) = CanSend(a, p) /\ Sent(d, p, FALSE) = Sent(a, p, FALSE)
  BY <1>1 DEF CanSend, Sent, Around
<1> HIDE DEF b
<1>6. Performed(a, b, p, [k EXCEPT !.triggered = t])
  BY <1>1, <1>2, <1>4, <1>5 DEF Performed
<1> QED
  BY <1>1, <1>2, <1>6 DEF Around, b, d, k

LEMMA PerformNominationGives ==
    ASSUME NEW a, Typed(a), NEW p \in Pair
    PROVE  LET b == PerformNomination(a, p)
               c == a.checks[p]
           IN  /\ Typed(b) /\ Around(a, b) /\ b.que = a.que /\ b.timer = a.timer
               /\ c.state = "Succeed" =>
                     /\ b.request = Sent(a, p, TRUE)
                     /\ b.checks = [a.checks EXCEPT ![p] =
                           [c EXCEPT !.nominated = TRUE, !.resend = TRUE, !.state = "InProgress"]]
               /\ c.state = "InProgress" =>
                     /\ b.request = a.request
                     /\ b.checks = [a.checks EXCEPT ![p] = [c EXCEPT !.nominated = TRUE]]
               /\ c.state \notin {"Succeed", "InProgress"} => b = a
<1> DEFINE c == a.checks[p]
           k == [c EXCEPT !.nominated = TRUE, !.resend = TRUE, !.state = "InProgress"]
           n == [c EXCEPT !.nominated = TRUE]
<1>1. k \in Check /\ n \in Check /\ c \in Check /\ n.state = c.state
  <2>1. c \in Check
    BY CheckOf
  <2> HIDE DEF c
  <2>2. k \in Check /\ n \in Check
    BY <2>1, CheckType
  <2>3. n.state = c.state
    BY <2>1 DEF Check
  <2> QED
    BY <2>1, <2>2, <2>3
<1>2. CASE c.state = "Succeed"
  <2> DEFINE e == Send(a, p, TRUE)
             b == [e EXCEPT !.checks[p] = k]
  <2>1. PerformNomination(a, p) = b
    <3>1. [n EXCEPT !.resend = TRUE, !.state = "InProgress"] = k
      BY <1>1 DEF Check
    <3> HIDE DEF k
    <3> QED
      BY <1>1, <1>2, <3>1 DEF PerformNomination
  <2>2. /\ Typed(e) /\ Around(a, e) /\ e.checks = a.checks /\ e.que = a.que
        /\ e.timer = a.timer /\ e.request = Sent(a, p, TRUE)
    BY SendGives
  <2> HIDE DEF e, k
  <2>3. /\ Typed(b) /\ Around(e, b) /\ b.que = e.que /\ b.timer = e.timer
        /\ b.request = e.request /\ b.checks = [e.checks EXCEPT ![p] = k]
    <3>1. /\ Typed(b) /\ b.name = e.name /\ b.role = e.role /\ b.list = e.list
          /\ b.checks = [e.checks EXCEPT ![p] = k]
          /\ b.request = e.request /\ b.resolved = e.resolved /\ b.server = e.server
          /\ b.valid = e.valid /\ b.que = e.que /\ b.timer = e.timer /\ b.told = e.told
      BY <1>1, <2>2, CheckUpdate, Zenon
    <3> HIDE DEF b
    <3> QED
      BY <3>1 DEF Around
  <2> HIDE DEF b
  <2> QED
    BY <1>2, <2>1, <2>2, <2>3 DEF Around, k
<1>3. CASE c.state = "InProgress"
  <2> DEFINE b == [a EXCEPT !.checks[p] = n]
  <2>1. PerformNomination(a, p) = b
    BY <1>1, <1>3 DEF PerformNomination
  <2> HIDE DEF n
  <2>2. /\ Typed(b) /\ Around(a, b) /\ b.que = a.que /\ b.timer = a.timer
        /\ b.request = a.request /\ b.checks = [a.checks EXCEPT ![p] = n]
    BY <1>1, CheckUpdate DEF Around
  <2> HIDE DEF b
  <2> QED
    BY <1>3, <2>1, <2>2 DEF n
<1>4. CASE c.state \notin {"Succeed", "InProgress"}
  BY <1>1, <1>4 DEF PerformNomination, Around
<1> QED
  BY <1>2, <1>3, <1>4

\* The timer: a queued check, the first that waits, the first that is frozen,
\* or nothing any more
LEMMA TimerGives ==
    ASSUME Ordered, NEW a, Typed(a)
    PROVE  LET b == TimerFired(a)
           IN  /\ Typed(b) /\ Around(a, b)
               /\ \/ /\ a.que # <<>> /\ b.timer = a.timer
                     /\ \E e \in ToSet(a.que) :
                           LET p == e.pair
                               c == a.checks[p]
                           IN  /\ ToSet(b.que) = ToSet(a.que) \ {e}
                               /\ \/ /\ e.nomination /\ c.state = "Succeed"
                                     /\ b.request = Sent(a, p, TRUE)
                                     /\ b.checks = [a.checks EXCEPT ![p] =
                                           [c EXCEPT !.nominated = TRUE, !.resend = TRUE,
                                                     !.state = "InProgress"]]
                                  \/ /\ e.nomination /\ c.state # "Succeed"
                                     /\ b.request = a.request
                                     /\ b.checks \in {a.checks,
                                           [a.checks EXCEPT ![p] = [c EXCEPT !.nominated = TRUE]]}
                                  \/ /\ ~e.nomination /\ c.state = "Succeed"
                                     /\ b.request = a.request /\ b.checks = a.checks
                                  \/ /\ ~e.nomination /\ c.state # "Succeed"
                                     /\ Performed(a, b, p, [Initial(c) EXCEPT !.triggered = TRUE])
                  \/ /\ a.que = <<>> /\ b.que = a.que /\ b.timer = a.timer
                     /\ \E p \in InState(a, {"Waiting"}) :
                           Performed(a, b, p, [a.checks[p] EXCEPT !.triggered = FALSE])
                  \/ /\ a.que = <<>> /\ b.que = a.que /\ b.timer = a.timer
                     /\ \E p \in InState(a, {"Frozen"}) :
                           Performed(a, b, p, [Initial(a.checks[p]) EXCEPT !.triggered = FALSE])
                  \/ /\ a.que = <<>> /\ b.que = a.que /\ ~b.timer
                     /\ InState(a, {"Waiting", "Frozen"}) = {}
                     /\ b.request = a.request /\ b.checks = a.checks
<1> DEFINE b == TimerFired(a)
<1>1. /\ a \in AgentType /\ a.que \in Seq(Item) /\ a.timer \in BOOLEAN /\ Single(a.que)
  BY AgentFields DEF Typed
<1>2. CASE a.que # <<>>
  <2> DEFINE e == Head(a.que)
             p == e.pair
             t == Tail(a.que)
             d == [a EXCEPT !.que = t]
  <2>1. /\ e \in ToSet(a.que) /\ t \in Seq(Item) /\ Single(t)
        /\ ToSet(t) = ToSet(a.que) \ {e}
    BY <1>1, <1>2, TailQue
  <2>2. e \in Item
    BY <1>1, <2>1, QueOf
  <2>3. p \in Pair /\ e.nomination \in BOOLEAN
    BY <2>2 DEF Item
  <2>4. b = IF e.nomination THEN PerformNomination(d, p)
            ELSE IF a.checks[p].state = "Succeed" THEN d
            ELSE Perform(Initialize(d, p), p, TRUE)
    BY <1>2, Zenon DEF TimerFired
  <2> HIDE DEF e, t, b
  <2>5. /\ Typed(d) /\ Around(a, d) /\ d.que = t /\ d.timer = a.timer
        /\ d.checks = a.checks /\ d.request = a.request
    BY <1>1, <2>1 DEF Typed, AgentType, Around, Item
  <2> HIDE DEF d, p
  <2>6. Sent(d, p, TRUE) = Sent(a, p, TRUE) /\ Sent(d, p, FALSE) = Sent(a, p, FALSE)
        /\ CanSend(d, p) = CanSend(a, p)
    BY <2>5 DEF Sent, CanSend, Around
  <2>7. CASE e.nomination
    <3> DEFINE c == a.checks[p]
    <3>1. b = PerformNomination(d, p)
      BY <2>4, <2>7
    <3> DEFINE n == PerformNomination(d, p)
               dc == d.checks[p]
    <3>2. /\ Typed(n) /\ Around(d, n) /\ n.que = d.que /\ n.timer = d.timer
          /\ dc.state = "Succeed" =>
                /\ n.request = Sent(d, p, TRUE)
                /\ n.checks = [d.checks EXCEPT ![p] =
                      [dc EXCEPT !.nominated = TRUE, !.resend = TRUE, !.state = "InProgress"]]
          /\ dc.state = "InProgress" =>
                /\ n.request = d.request
                /\ n.checks = [d.checks EXCEPT ![p] = [dc EXCEPT !.nominated = TRUE]]
          /\ dc.state \notin {"Succeed", "InProgress"} => n = d
      BY <2>3, <2>5, PerformNominationGives, Zenon
    <3>3. dc = c
      BY <2>5
    <3>4. n = b
      BY <3>1
    <3> HIDE DEF n, dc, c
    <3>5. /\ c.state = "Succeed" =>
                /\ b.request = Sent(a, p, TRUE)
                /\ b.checks = [a.checks EXCEPT ![p] =
                      [c EXCEPT !.nominated = TRUE, !.resend = TRUE, !.state = "InProgress"]]
          /\ c.state = "InProgress" =>
                /\ b.request = a.request
                /\ b.checks = [a.checks EXCEPT ![p] = [c EXCEPT !.nominated = TRUE]]
          /\ c.state \notin {"Succeed", "InProgress"} =>
                b.request = a.request /\ b.checks = a.checks
      BY <2>5, <2>6, <3>2, <3>3, <3>4
    <3>6. Typed(b) /\ Around(a, b) /\ b.que = t /\ b.timer = a.timer
      BY <2>5, <3>2, <3>4 DEF Around
    <3> QED
      BY <1>2, <2>1, <2>7, <3>5, <3>6 DEF b, p, c
  <2>8. CASE ~e.nomination /\ a.checks[p].state = "Succeed"
    BY <1>2, <2>1, <2>4, <2>5, <2>8 DEF b, p
  <2>9. CASE ~e.nomination /\ a.checks[p].state # "Succeed"
    <3>1. b = Perform(Initialize(d, p), p, TRUE)
      BY <2>4, <2>9
    <3>2. /\ Typed(b) /\ Around(d, b) /\ b.que = d.que /\ b.timer = d.timer
          /\ Performed(d, b, p, [Initial(d.checks[p]) EXCEPT !.triggered = TRUE])
      BY <2>3, <2>5, <3>1, RetriedGives
    <3>3. Performed(a, b, p, [Initial(a.checks[p]) EXCEPT !.triggered = TRUE])
      BY <2>5, <2>6, <3>2 DEF Performed
    <3> QED
      BY <1>2, <2>1, <2>5, <2>9, <3>2, <3>3 DEF Around, b, p
  <2> QED
    BY <2>3, <2>7, <2>8, <2>9
<1>3. CASE a.que = <<>> /\ InState(a, {"Waiting"}) # {}
  <2> DEFINE p == FirstCheck(a, InState(a, {"Waiting"}))
  <2>1. p \in InState(a, {"Waiting"}) /\ p \in Pair
    BY <1>1, <1>3, FirstCheckIn DEF InState
  <2>2. b = Perform(a, p, FALSE)
    BY <1>3, Zenon DEF TimerFired
  <2> HIDE DEF p, b
  <2>3. /\ Typed(b) /\ Around(a, b) /\ b.que = a.que /\ b.timer = a.timer
        /\ Performed(a, b, p, [a.checks[p] EXCEPT !.triggered = FALSE])
    BY <2>1, <2>2, PerformGives
  <2> QED
    BY <1>3, <2>1, <2>3 DEF b
<1>4. CASE a.que = <<>> /\ InState(a, {"Waiting"}) = {} /\ InState(a, {"Frozen"}) # {}
  <2> DEFINE p == FirstCheck(a, InState(a, {"Frozen"}))
  <2>1. p \in InState(a, {"Frozen"}) /\ p \in Pair
    BY <1>1, <1>4, FirstCheckIn DEF InState
  <2>2. b = Perform(Initialize(a, p), p, FALSE)
    BY <1>4, Zenon DEF TimerFired
  <2> HIDE DEF p, b
  <2>3. /\ Typed(b) /\ Around(a, b) /\ b.que = a.que /\ b.timer = a.timer
        /\ Performed(a, b, p, [Initial(a.checks[p]) EXCEPT !.triggered = FALSE])
    BY <2>1, <2>2, RetriedGives
  <2> QED
    BY <1>4, <2>1, <2>3 DEF b
<1>5. CASE a.que = <<>> /\ InState(a, {"Waiting"}) = {} /\ InState(a, {"Frozen"}) = {}
  <2> DEFINE d == [a EXCEPT !.timer = FALSE]
  <2>1. b = d
    BY <1>5, Zenon DEF TimerFired
  <2>2. /\ Typed(d) /\ Around(a, d) /\ d.que = a.que /\ d.timer = FALSE
        /\ d.checks = a.checks /\ d.request = a.request
    BY <1>1 DEF Typed, AgentType, Around
  <2>3. InState(a, {"Waiting", "Frozen"}) = {}
    BY <1>5 DEF InState
  <2> HIDE DEF b, d
  <2> QED
    BY <1>5, <2>1, <2>2, <2>3 DEF b
<1> QED
  BY <1>2, <1>3, <1>4, <1>5

LEMMA FavoredGives ==
    ASSUME NEW a, Typed(a), NEW p \in Pair, NEW f \in BOOLEAN
    PROVE  LET b == [a EXCEPT !.checks[p].favored = f]
           IN  /\ Typed(b) /\ Around(a, b) /\ b.que = a.que /\ b.timer = a.timer
               /\ b.request = a.request
               /\ b.checks = [a.checks EXCEPT ![p] = [a.checks[p] EXCEPT !.favored = f]]
<1> DEFINE k == [a.checks[p] EXCEPT !.favored = f]
<1>1. k \in Check
  BY CheckOf, CheckType
<1>2. [a EXCEPT !.checks[p].favored = f] = [a EXCEPT !.checks[p] = k]
  OBVIOUS
<1> HIDE DEF k
<1> QED
  BY <1>1, <1>2, CheckUpdate DEF Around, k

LEMMA CancelGives ==
    ASSUME NEW a, Typed(a), NEW p \in Pair
    PROVE  LET b == Cancel(a, p)
           IN  /\ Typed(b) /\ Around(a, b) /\ b.que = a.que /\ b.timer = a.timer
               /\ b.checks = a.checks
               /\ b.request = [a.request EXCEPT ![p] = [a.request[p] EXCEPT !.awaited = FALSE]]
<1> DEFINE r == [a.request[p] EXCEPT !.awaited = FALSE]
           b == [a EXCEPT !.request[p] = r]
<1>1. r \in Request
  BY CheckOf DEF Request
<1>2. Cancel(a, p) = b
  BY DEF Cancel
<1> HIDE DEF r
<1>3. /\ Typed(b) /\ b.name = a.name /\ b.role = a.role /\ b.list = a.list
      /\ b.request = [a.request EXCEPT ![p] = r]
      /\ b.checks = a.checks /\ b.resolved = a.resolved /\ b.server = a.server
      /\ b.valid = a.valid /\ b.que = a.que /\ b.timer = a.timer /\ b.told = a.told
  BY <1>1, RequestUpdate, Zenon
<1> HIDE DEF b
<1> QED
  BY <1>2, <1>3 DEF Around, r

\* A removed pair comes back.
LEMMA RevivedGives ==
    ASSUME NEW a, Typed(a), NEW p \in Pair, NEW k \in Check
    PROVE  LET b == [a EXCEPT !.checks[p] = k, !.request[p] = NoRequest, !.resolved[p] = FALSE]
           IN  /\ Typed(b) /\ b.name = a.name /\ b.role = a.role /\ b.list = a.list
               /\ b.valid = a.valid /\ b.told = a.told /\ b.que = a.que /\ b.timer = a.timer
               /\ b.checks = [a.checks EXCEPT ![p] = k]
               /\ b.request = [a.request EXCEPT ![p] = NoRequest]
<1> DEFINE d == [a EXCEPT !.checks[p] = k]
           r == NoRequest
           e == [d EXCEPT !.request[p] = r]
           g == [e.resolved EXCEPT ![p] = FALSE]
           b == [e EXCEPT !.resolved = g]
<1>1. r \in Request
  BY DEF NoRequest, Request, Role
<1>2. [a EXCEPT !.checks[p] = k, !.request[p] = NoRequest, !.resolved[p] = FALSE] = b
  OBVIOUS
<1>3. /\ Typed(d) /\ d.name = a.name /\ d.role = a.role /\ d.list = a.list
      /\ d.checks = [a.checks EXCEPT ![p] = k]
      /\ d.request = a.request /\ d.resolved = a.resolved /\ d.server = a.server
      /\ d.valid = a.valid /\ d.que = a.que /\ d.timer = a.timer /\ d.told = a.told
  BY CheckUpdate, ZenonT(40)
<1> HIDE DEF d, r
<1>4. /\ Typed(e) /\ e.name = d.name /\ e.role = d.role /\ e.list = d.list
      /\ e.request = [d.request EXCEPT ![p] = r]
      /\ e.checks = d.checks /\ e.resolved = d.resolved /\ e.server = d.server
      /\ e.valid = d.valid /\ e.que = d.que /\ e.timer = d.timer /\ e.told = d.told
  BY <1>1, <1>3, RequestUpdate, ZenonT(40)
<1> HIDE DEF e
<1>5. g \in [Pair -> BOOLEAN]
  BY <1>4, AgentFields DEF Typed
<1> HIDE DEF g
<1>6. /\ Typed(b) /\ b.name = e.name /\ b.role = e.role /\ b.list = e.list
      /\ b.request = e.request /\ b.checks = e.checks
      /\ b.valid = e.valid /\ b.que = e.que /\ b.timer = e.timer /\ b.told = e.told
  BY <1>4, <1>5 DEF Typed, AgentType
<1> HIDE DEF b
<1> QED
  BY <1>2, <1>3, <1>4, <1>6

-----------------------------------------------------------------------------
(* What a completed check does *)

\* The check is put in a state
Moved(c, state) == [c EXCEPT !.state = state, !.resend = FALSE]
Put(a, p, state) == [a EXCEPT !.checks[p] = Moved(a.checks[p], state)]

LEMMA PutGives ==
    ASSUME NEW a, Typed(a), NEW p \in Pair, NEW s \in CheckState
    PROVE  LET b == Put(a, p, s)
           IN  /\ Typed(b) /\ Around(a, b) /\ b.que = a.que /\ b.timer = a.timer
               /\ b.request = a.request
               /\ b.checks = [a.checks EXCEPT ![p] = Moved(a.checks[p], s)]
<1> DEFINE k == Moved(a.checks[p], s)
           b == [a EXCEPT !.checks[p] = k]
<1>1. k \in Check
  BY CheckOf, CheckType DEF Moved
<1>2. Put(a, p, s) = b
  BY DEF Put
<1> HIDE DEF k
<1>3. /\ Typed(b) /\ b.name = a.name /\ b.role = a.role /\ b.list = a.list
      /\ b.checks = [a.checks EXCEPT ![p] = k]
      /\ b.request = a.request /\ b.resolved = a.resolved /\ b.server = a.server
      /\ b.valid = a.valid /\ b.que = a.que /\ b.timer = a.timer /\ b.told = a.told
  BY <1>1, CheckUpdate, Zenon
<1> HIDE DEF b
<1> QED
  BY <1>2, <1>3 DEF Around, k

\* A valid pair is added, checks thaw, and the best valid pair may be nominated.
LEMMA AddedGives ==
    ASSUME Ordered, NEW a, Typed(a), NEW p \in Pair, NEW sel \in BOOLEAN, NEW f,
           NEW v, v = [pair |-> p, selected |-> sel,
                       priority |-> PrioritizePair(a.name, a.role, p)],
           NEW b, b = Nominate(Unfreeze(AddValidPair(a, v), f))
    PROVE  /\ Typed(b) /\ Untouched(a, b) /\ b.checks = Thawed(a.checks, f)
           /\ b.list = a.list /\ b.told = a.told
           /\ b.valid = {w \in a.valid : w.priority # v.priority} \cup {v}
           /\ \/ b.que = a.que /\ b.timer = a.timer
              \/ /\ a.role = "controlling"
                 /\ ~\E q \in Pair : b.checks[q].nominated
                 /\ b.timer
                 /\ \E w \in b.valid :
                       /\ w.pair \in Pair
                       /\ ToSet(b.que) = {e \in ToSet(a.que) : e.pair # w.pair}
                                           \cup {[pair |-> w.pair, nomination |-> TRUE]}
<1> DEFINE vs == {w \in a.valid : w.priority # v.priority} \cup {v}
           d == AddValidPair(a, v)
           e == Unfreeze(d, f)
<1>1. /\ Typed(d) /\ Untouched(a, d) /\ d.checks = a.checks /\ d.list = a.list
      /\ d.que = a.que /\ d.timer = a.timer /\ d.told = a.told
      /\ d.valid = vs
  <2>1. LET x == [pair |-> p, selected |-> sel, priority |-> PrioritizePair(a.name, a.role, p)]
            y == AddValidPair(a, x)
        IN  /\ Typed(y) /\ Untouched(a, y) /\ y.checks = a.checks /\ y.list = a.list
            /\ y.que = a.que /\ y.timer = a.timer /\ y.told = a.told
            /\ y.valid = {w \in a.valid : w.priority # x.priority} \cup {x}
    BY AddValidGives
  <2> QED
    BY <2>1
<1>2. b = Nominate(e)
  OBVIOUS
<1> HIDE DEF d
<1>3. /\ Typed(e) /\ Untouched(d, e) /\ e.checks = Thawed(d.checks, f) /\ e.list = d.list
      /\ e.valid = d.valid /\ e.que = d.que /\ e.timer = d.timer /\ e.told = d.told
  BY <1>1, UnfreezeGives, Zenon
<1>4. e.valid # {}
  <2> HIDE DEF e
  <2> QED
    BY <1>1, <1>3
<1> HIDE DEF e, vs
<1>5. \/ b = e
      \/ /\ e.role = "controlling" /\ ~\E q \in Pair : e.checks[q].nominated
         /\ \E w \in e.valid : w.pair \in Pair /\ b = Enqueue(e, w.pair, TRUE)
  BY <1>3, <1>4, <1>2, NominateGives, Zenon
<1>6. CASE b = e
  <2> QED
    BY <1>1, <1>3, <1>6 DEF Untouched, vs
<1>7. ASSUME e.role = "controlling", ~\E q \in Pair : e.checks[q].nominated,
             NEW w \in e.valid, w.pair \in Pair, b = Enqueue(e, w.pair, TRUE)
      PROVE  /\ Typed(b) /\ Untouched(a, b) /\ b.checks = Thawed(a.checks, f)
             /\ b.list = a.list /\ b.told = a.told /\ b.valid = vs
             /\ a.role = "controlling"
             /\ ~\E q \in Pair : b.checks[q].nominated
             /\ b.timer
             /\ w \in b.valid
             /\ ToSet(b.que) = {x \in ToSet(a.que) : x.pair # w.pair}
                              \cup {[pair |-> w.pair, nomination |-> TRUE]}
  <2> DEFINE u == Enqueue(e, w.pair, TRUE)
  <2>1. /\ Typed(u) /\ Beside(e, u)
        /\ u.timer
        /\ ToSet(u.que) = {x \in ToSet(e.que) : x.pair # w.pair}
                              \cup {[pair |-> w.pair, nomination |-> TRUE]}
    <3>1. /\ Typed(u) /\ Beside(e, u)
          /\ u.timer \/ (~TRUE /\ u = e /\ Queued(e, w.pair))
          /\ Queued(u, w.pair)
          /\ ToSet(u.que) = IF ~TRUE /\ Queued(e, w.pair) THEN ToSet(e.que)
                            ELSE {x \in ToSet(e.que) : x.pair # w.pair}
                                    \cup {[pair |-> w.pair, nomination |-> TRUE]}
      BY <1>3, <1>7, EnqueueGives, Zenon
    <3> HIDE DEF u
    <3> QED
      BY <3>1
  <2> HIDE DEF u
  <2>2. b = u
    BY <1>7 DEF u
  <2> QED
    BY <1>1, <1>3, <1>7, <2>1, <2>2 DEF Untouched, Beside
<1>8. CASE /\ e.role = "controlling" /\ ~\E q \in Pair : e.checks[q].nominated
           /\ \E w \in e.valid : w.pair \in Pair /\ b = Enqueue(e, w.pair, TRUE)
  <2> QED
    BY <1>7, <1>8, Zenon DEF vs
<1> QED
  BY <1>5, <1>6, <1>8
-----------------------------------------------------------------------------
(* Every call keeps the types *)

LEMMA NewCheckType ==
    ASSUME NEW s \in CheckState
    PROVE  /\ NewCheck(s) \in Check
           /\ \A t \in BOOLEAN : [NewCheck(s) EXCEPT !.favored = t] \in Check
BY DEF NewCheck, Check

LEMMA TriggeredTyped ==
    ASSUME Ordered, NEW a, Typed(a), NEW p \in Pair, NEW f \in BOOLEAN
    PROVE  Typed(HandleTriggeredCheck(a, p, f))
<1> DEFINE b == [a EXCEPT !.checks[p].favored = f]
           k == [NewCheck("Frozen") EXCEPT !.favored = f]
           r == [a EXCEPT !.checks[p] = k, !.request[p] = NoRequest, !.resolved[p] = FALSE]
           t == HandleTriggeredCheck(a, p, f)
           state == a.checks[p].state
<1>1. Typed(b)
  BY FavoredGives, Zenon
<1>2. Typed(r)
  BY NewCheckType, RevivedGives, Zenon DEF CheckState
<1>3. t \in {a, b, Enqueue(b, p, FALSE), Enqueue(Cancel(b, p), p, FALSE), Enqueue(r, p, FALSE)}
      \/ (CanSelect(b, p) /\ t = UpdateCheckListState(SetPairNominated(b, p)))
  <2>1. t = CASE state \in {"Waiting", "Frozen", "Failed"} -> Enqueue(b, p, FALSE)
              [] state = "InProgress" -> IF b.checks[p].nominated THEN b
                                         ELSE Enqueue(Cancel(b, p), p, FALSE)
              [] state = "Succeed" -> IF f /\ CanSelect(b, p)
                                      THEN UpdateCheckListState(SetPairNominated(b, p)) ELSE b
              [] state = "Removed" ->
                    IF \E q \in InState(a, CheckState \ {"Removed"}) :
                          ComparePriorities(PrioritizePair(a.name, a.role, p),
                                            PrioritizePair(a.name, a.role, q)) = 0
                    THEN a ELSE Enqueue(r, p, FALSE)
    BY Zenon DEF HandleTriggeredCheck
  <2>2. state \in CheckState
    BY CheckOf
  <2> HIDE DEF b, r, t, state
  <2> QED
    BY <2>1, <2>2 DEF CheckState
<1> HIDE DEF b, r, k, t
<1>4. Typed(Enqueue(b, p, FALSE)) /\ Typed(Enqueue(r, p, FALSE))
  BY <1>1, <1>2, EnqueueGives
<1>5. Typed(Enqueue(Cancel(b, p), p, FALSE))
  BY <1>1, CancelGives, EnqueueGives
<1>6. CanSelect(b, p) => Typed(UpdateCheckListState(SetPairNominated(b, p)))
  BY <1>1, SelectGives, UpdateGives
<1> QED
  BY <1>1, <1>3, <1>4, <1>5, <1>6 DEF t

LEMMA ReceivedTyped ==
    ASSUME Ordered, NEW a, Typed(a), NEW p \in Pair, NEW f \in BOOLEAN
    PROVE  Typed(STUNRequestReceived(a, p, f))
<1> DEFINE b == IF a.list = "Failed" THEN SetState(a, "Running") ELSE a
<1>1. a.list = "Failed" => Typed(SetState(a, "Running"))
  BY SetStateGives
<1>2. Typed(b)
  BY <1>1
<1> HIDE DEF b
<1> QED
  BY <1>2, TriggeredTyped DEF STUNRequestReceived, b

LEMMA CompletedIs ==
    ASSUME NEW a, NEW p, NEW outcome
    PROVE  LET c == a.checks[p]
           IN  ConnCheckCompleted(a, p, outcome) =
                  IF c.state # "InProgress" THEN a
                  ELSE IF outcome # "ok"
                       THEN IF c.resend THEN UpdateCheckListState(Put(a, p, "Failed"))
                            ELSE CheckFailed(Put(a, p, "Failed"), p, outcome)
                  ELSE IF c.resend
                       THEN IF CanSelect(a, p)
                            THEN UpdateCheckListState(SetPairNominated(Put(a, p, "InProgress"), p))
                            ELSE Put(a, p, "InProgress")
                  ELSE CheckSucceeded(Put(a, p, "Succeed"), p, Selects(c))
BY Zenon DEF ConnCheckCompleted, Put, Moved

LEMMA CompletedTyped ==
    ASSUME Ordered, NEW a, Typed(a), NEW p \in Pair, NEW outcome
    PROVE  Typed(ConnCheckCompleted(a, p, outcome))
<1> DEFINE c == a.checks[p]
           d(s) == Put(a, p, s)
           v == [pair |-> p, selected |-> Selects(c),
                 priority |-> PrioritizePair(d("Succeed").name, d("Succeed").role, p)]
           b == ConnCheckCompleted(a, p, outcome)
<1>1. \A s \in CheckState : Typed(d(s))
  BY PutGives
<1>2. "Failed" \in CheckState /\ "InProgress" \in CheckState /\ "Succeed" \in CheckState
  BY DEF CheckState
<1>3. c \in Check /\ Selects(c) \in BOOLEAN
  BY CheckOf DEF Selects, Check
<1>4. ConnCheckCompleted(a, p, outcome) =
         IF c.state # "InProgress" THEN a
         ELSE IF outcome # "ok"
              THEN IF c.resend THEN UpdateCheckListState(d("Failed"))
                   ELSE CheckFailed(d("Failed"), p, outcome)
         ELSE IF c.resend
              THEN IF CanSelect(a, p)
                   THEN UpdateCheckListState(SetPairNominated(d("InProgress"), p))
                   ELSE d("InProgress")
         ELSE CheckSucceeded(d("Succeed"), p, Selects(c))
  BY CompletedIs, Zenon
<1>5. Typed(a) /\ Typed(UpdateCheckListState(d("Failed"))) /\ Typed(d("InProgress"))
  BY <1>1, <1>2, UpdateGives
<1>6. Typed(CheckFailed(d("Failed"), p, outcome))
  <2> DEFINE e == d("Failed")
             g == Enqueue(e, p, FALSE)
             h == RoleChangeNeeded(g, Other(e.role))
  <2>1. Typed(e)
    BY <1>1, <1>2
  <2> HIDE DEF e
  <2>2. Typed(g)
    BY <2>1, EnqueueGives
  <2>3. Other(e.role) \in Role
    BY <2>1, AgentFields, RoleFacts DEF Typed
  <2> HIDE DEF g
  <2>4. Typed(h)
    BY <2>2, <2>3, RoleTyped
  <2> HIDE DEF h
  <2>5. Typed(UpdateCheckListState(e)) /\ Typed(UpdateCheckListState(h))
    BY <2>1, <2>4, UpdateGives
  <2>6. CheckFailed(e, p, outcome) \in {UpdateCheckListState(e), UpdateCheckListState(h)}
    BY DEF CheckFailed, g, h
  <2> QED
    BY <2>5, <2>6 DEF e
<1>7. CanSelect(a, p) => Typed(UpdateCheckListState(SetPairNominated(d("InProgress"), p)))
  <2>1. d("InProgress").valid = a.valid
    BY <1>2, PutGives DEF Around
  <2>2. CanSelect(a, p) => CanSelect(d("InProgress"), p)
    BY <2>1 DEF CanSelect
  <2> HIDE DEF d
  <2> QED
    BY <1>1, <1>2, <2>2, SelectGives, UpdateGives
<1>8. Typed(CheckSucceeded(d("Succeed"), p, Selects(c)))
  <2> DEFINE e == d("Succeed")
             g == Nominate(Unfreeze(AddValidPair(e, v), Foundation[p]))
  <2>1. Typed(e)
    BY <1>1, <1>2
  <2> HIDE DEF e, c
  <2>2. v = [pair |-> p, selected |-> Selects(c), priority |-> PrioritizePair(e.name, e.role, p)]
    BY DEF e
  <2> HIDE DEF v
  <2>3. Typed(g)
    BY <1>3, <2>1, <2>2, AddedGives
  <2> HIDE DEF g
  <2>4. Typed(UpdateCheckListState(g))
    BY <2>3, UpdateGives
  <2>5. CheckSucceeded(e, p, Selects(c)) \in {UpdateCheckListState(g), e}
    BY <2>2 DEF CheckSucceeded, g
  <2> QED
    BY <2>1, <2>4, <2>5 DEF e
<1> HIDE DEF d, c
<1> QED
  BY <1>4, <1>5, <1>6, <1>7, <1>8

LEMMA BegunTyped ==
    ASSUME Ordered, NEW a, Typed(a), a.list = "Idle"
    PROVE  Typed(StartPerformChecks(a))
<1> DEFINE ch == [p \in Pair |->
                    NewCheck(IF \E q \in Pair : /\ Foundation[q] = Foundation[p] /\ q # p
                                                /\ FirstCheck(a, {p, q}) = p
                             THEN "Frozen" ELSE "Waiting")]
           b == [a EXCEPT !.checks = ch]
<1>1. ch \in [Pair -> Check]
  BY NewCheckType DEF CheckState
<1>2. StartPerformChecks(a) = SetState(b, "Running")
  BY Zenon DEF StartPerformChecks
<1> HIDE DEF ch
<1>3. Typed(b) /\ b.list = a.list
  BY <1>1, ChecksTyped
<1> HIDE DEF b
<1> QED
  BY <1>2, <1>3, SetStateGives
-----------------------------------------------------------------------------
(* Types in every reachable state *)

Callbacks == [pair : Pair, outcome : {"ok", "487", "timedOut"}]
Buffered == [pair : Pair, favored : BOOLEAN]

TypeInv ==
    /\ setting \in Setting
    /\ agents \in [Agent -> AgentType]
    /\ \A x \in Agent : Typed(agents[x])
    /\ served \in [Agent -> Role]
    /\ callbacks \in [Agent -> Seq(Callbacks)]
    /\ buffered \in [Agent -> Seq(Buffered)]

\* The request is answered, and its binding has the outcome.
NewAnswer(r, answer) == [r EXCEPT !.served = TRUE, !.answer = answer]
Answered(a, p, answer) == [a EXCEPT !.request[p] = NewAnswer(a.request[p], answer)]
Decided(a, p, outcome) ==
    [a EXCEPT !.request[p].awaited = FALSE, !.resolved[p] = outcome = "ok",
              !.server = @ /\ outcome # "timedOut"]

LEMMA AnsweredGives ==
    ASSUME NEW a, Typed(a), NEW p \in Pair, NEW answer, answer \in {"ok", "487"}
    PROVE  LET b == Answered(a, p, answer)
           IN  /\ Typed(b) /\ Around(a, b) /\ b.que = a.que /\ b.timer = a.timer
               /\ b.checks = a.checks
               /\ b.request = [a.request EXCEPT ![p] = NewAnswer(a.request[p], answer)]
<1> DEFINE r == NewAnswer(a.request[p], answer)
           b == [a EXCEPT !.request[p] = r]
<1>1. r \in Request
  BY CheckOf DEF Request, NewAnswer
<1>2. Answered(a, p, answer) = b
  BY DEF Answered
<1> HIDE DEF r
<1>3. /\ Typed(b) /\ b.name = a.name /\ b.role = a.role /\ b.list = a.list
      /\ b.request = [a.request EXCEPT ![p] = r]
      /\ b.checks = a.checks /\ b.resolved = a.resolved /\ b.server = a.server
      /\ b.valid = a.valid /\ b.que = a.que /\ b.timer = a.timer /\ b.told = a.told
  BY <1>1, RequestUpdate, Zenon
<1> HIDE DEF b
<1> QED
  BY <1>2, <1>3 DEF Around, r

LEMMA DecidedGives ==
    ASSUME NEW a, Typed(a), NEW p \in Pair, NEW outcome
    PROVE  LET b == Decided(a, p, outcome)
           IN  /\ Typed(b) /\ b.name = a.name /\ b.role = a.role /\ b.list = a.list
               /\ b.valid = a.valid /\ b.told = a.told /\ b.que = a.que /\ b.timer = a.timer
               /\ b.checks = a.checks
               /\ b.request = [a.request EXCEPT ![p] = [a.request[p] EXCEPT !.awaited = FALSE]]
<1> DEFINE d == Cancel(a, p)
           ok == outcome = "ok"
           g == [d.resolved EXCEPT ![p] = ok]
           s == d.server /\ outcome # "timedOut"
           b == [d EXCEPT !.resolved = g, !.server = s]
<1>1. Decided(a, p, outcome) = b
  BY DEF Decided, Cancel
<1>2. /\ Typed(d) /\ Around(a, d) /\ d.que = a.que /\ d.timer = a.timer
      /\ d.checks = a.checks
      /\ d.request = [a.request EXCEPT ![p] = [a.request[p] EXCEPT !.awaited = FALSE]]
  BY CancelGives, Zenon
<1> HIDE DEF d
<1>3. ok \in BOOLEAN /\ s \in BOOLEAN
  OBVIOUS
<1> HIDE DEF ok, s
<1>4. g \in [Pair -> BOOLEAN]
  BY <1>2, <1>3, AgentFields DEF Typed
<1> HIDE DEF g
<1>5. /\ Typed(b) /\ b.name = d.name /\ b.role = d.role /\ b.list = d.list
      /\ b.valid = d.valid /\ b.told = d.told /\ b.que = d.que /\ b.timer = d.timer
      /\ b.checks = d.checks /\ b.request = d.request
  BY <1>2, <1>3, <1>4 DEF Typed, AgentType
<1> HIDE DEF b
<1> QED
  BY <1>1, <1>2, <1>5 DEF Around

\* What the steps of the peers do to the agents
LEMMA ResolvedIs ==
    ASSUME TypeInv, NEW x \in Agent, NEW p \in Pair, NEW outcome, Resolved(x, p, outcome)
    PROVE  agents' = [agents EXCEPT ![x] = Decided(agents[x], p, outcome)]
BY Zenon DEF TypeInv, Resolved, Decided

\* The peer's role after the request
ServedRole(x, p) ==
    LET y == Peer(x)
    IN  IF agents[x].request[p].role = served[y] THEN Other(served[y]) ELSE served[y]
Asked(x, p) ==
    LET y == Peer(x)
    IN  IF agents[x].request[p].role = served[y]
        THEN RoleChangeNeeded(agents[y], ServedRole(x, p)) ELSE agents[y]

LEMMA ServeIs ==
    ASSUME TypeInv, NEW x \in Agent, NEW p \in Pair, Serve(x, p)
    PROVE  LET y == Peer(x)
               r == agents[x].request[p]
               e == [pair |-> p, favored |-> r.favored]
           IN  /\ Free(y) /\ ~r.served /\ p \notin setting.broken
               /\ setting' = setting /\ callbacks' = callbacks
               /\ \/ /\ RoleConflict(y, r)
                     /\ agents' = [agents EXCEPT ![x] = Answered(agents[x], p, "487")]
                     /\ served' = served /\ buffered' = buffered
                  \/ /\ ~RoleConflict(y, r)
                     /\ served' = [served EXCEPT ![y] = ServedRole(x, p)]
                     /\ \/ /\ agents[y].list = "Idle"
                           /\ agents' = [agents EXCEPT ![x] = Answered(agents[x], p, "ok"),
                                                       ![y] = Asked(x, p)]
                           /\ buffered' = [buffered EXCEPT ![y] = Append(buffered[y], e)]
                        \/ /\ agents[y].list # "Idle"
                           /\ agents' = [agents EXCEPT ![x] = Answered(agents[x], p, "ok"),
                                 ![y] = STUNRequestReceived(Asked(x, p), p, r.favored)]
                           /\ buffered' = buffered
<1> DEFINE y == Peer(x)
           r == agents[x].request[p]
           role == IF r.role = served[y] THEN Other(served[y]) ELSE served[y]
           asked == [agents EXCEPT ![x].request[p] = [@ EXCEPT !.served = TRUE, !.answer = "ok"]]
           a == IF r.role = served[y] THEN RoleChangeNeeded(asked[y], role) ELSE asked[y]
<1>1. y \in Agent /\ y # x
  BY PeerFacts
<1>2. asked = [agents EXCEPT ![x] = Answered(agents[x], p, "ok")]
  BY DEF TypeInv, Answered, NewAnswer
<1>3. asked[y] = agents[y]
  BY <1>1 DEF TypeInv
<1>4. [agents EXCEPT ![x].request[p] = [@ EXCEPT !.served = TRUE, !.answer = "487"]]
         = [agents EXCEPT ![x] = Answered(agents[x], p, "487")]
  BY DEF TypeInv, Answered, NewAnswer
<1>5. /\ Free(y) /\ ~r.served /\ p \notin setting.broken
      /\ \/ /\ RoleConflict(y, r)
            /\ agents' = [agents EXCEPT ![x].request[p] = [@ EXCEPT !.served = TRUE,
                                                                    !.answer = "487"]]
            /\ UNCHANGED <<setting, served, buffered>>
         \/ /\ ~RoleConflict(y, r)
            /\ served' = [served EXCEPT ![y] = role]
            /\ \/ /\ a.list = "Idle"
                  /\ agents' = [asked EXCEPT ![y] = a]
                  /\ buffered' = [buffered EXCEPT ![y] =
                                     Append(buffered[y], [pair |-> p, favored |-> r.favored])]
               \/ /\ a.list # "Idle"
                  /\ agents' = [asked EXCEPT ![y] = STUNRequestReceived(a, p, r.favored)]
                  /\ UNCHANGED buffered
      /\ UNCHANGED <<setting, callbacks>>
  <2> HIDE DEF asked
  <2>1. [buffered EXCEPT ![y] = Append(@, [pair |-> p, favored |-> r.favored])]
          = [buffered EXCEPT ![y] = Append(buffered[y], [pair |-> p, favored |-> r.favored])]
    BY Zenon
  <2> QED
    BY <2>1, Zenon DEF Serve, asked
<1> HIDE DEF asked
<1>6. a = Asked(x, p) /\ role = ServedRole(x, p)
  BY <1>3 DEF Asked, ServedRole
<1>7. a.list = agents[y].list
  BY <1>1, <1>3, RoleFacts DEF RoleChangeNeeded, TypeInv, AgentType
<1> HIDE DEF a, role
<1> QED
  BY <1>2, <1>4, <1>5, <1>6, <1>7

LEMMA NewAgentTyped ==
    ASSUME NEW x \in Agent, NEW role \in Role
    PROVE  Typed(NewAgent(x, role))
<1> DEFINE a == NewAgent(x, role)
           ch == [p \in Pair |-> NewCheck("Frozen")]
           rq == [p \in Pair |-> NoRequest]
           rs == [p \in Pair |-> FALSE]
<1>1. NoRequest \in Request
  BY DEF NoRequest, Request, Role
<1>2. ch \in [Pair -> Check] /\ rq \in [Pair -> Request] /\ rs \in [Pair -> BOOLEAN]
  BY <1>1, NewCheckType DEF CheckState
<1>3. <<>> \in Seq([pair : Pair, nomination : BOOLEAN]) /\ Single(<<>>)
  BY EmptyQue DEF Item
<1> HIDE DEF ch, rq, rs
<1>4. a = [ name |-> x, role |-> role, list |-> "Idle", checks |-> ch, request |-> rq,
            resolved |-> rs, server |-> TRUE, valid |-> {}, que |-> <<>>, timer |-> FALSE,
            told |-> {} ]
  BY Zenon DEF NewAgent, ch, rq, rs
<1> HIDE DEF a
<1>5. a \in AgentType
  BY <1>2, <1>3, <1>4 DEF AgentType
<1> QED
  BY <1>3, <1>4, <1>5 DEF Typed, a

LEMMA InitTypes == Init => TypeInv
<1> SUFFICES ASSUME Init PROVE TypeInv
  OBVIOUS
<1>1. setting.role \in [Agent -> Role] /\ setting \in Setting
  BY AgentsAssumption DEF Init
<1>2. \A x \in Agent : Typed(NewAgent(x, setting.role[x]))
  BY <1>1, NewAgentTyped
<1>3. \A x \in Agent : Typed(agents[x])
  BY <1>2 DEF Init
<1>4. agents \in [Agent -> AgentType]
  BY <1>2 DEF Init, Typed
<1> QED
  BY <1>1, <1>3, <1>4 DEF Init, TypeInv

\* One agent is replaced by another that is typed.
LEMMA PutAgent ==
    ASSUME TypeInv, NEW x \in Agent, NEW a, Typed(a), agents' = [agents EXCEPT ![x] = a]
    PROVE  agents' \in [Agent -> AgentType] /\ \A z \in Agent : Typed(agents'[z])
<1>1. a \in AgentType
  BY DEF Typed
<1> QED
  BY <1>1 DEF TypeInv

LEMMA StartIs ==
    ASSUME NEW x, Start(x)
    PROVE  /\ agents[x].list = "Idle"
           /\ agents' = [agents EXCEPT ![x] =
                            Replayed(StartPerformChecks(agents[x]), buffered[x])]
           /\ served' = [served EXCEPT ![x] = agents[x].role]
           /\ buffered' = [buffered EXCEPT ![x] = <<>>]
           /\ setting' = setting /\ callbacks' = callbacks
BY Zenon DEF Start, Replayed

LEMMA StartTypes ==
    ASSUME Ordered, TypeInv, NEW x \in Agent, Start(x)
    PROVE  TypeInv'
<1> DEFINE G == {a \in AgentType : Typed(a)}
           base == StartPerformChecks(agents[x])
           seq == buffered[x]
<1>1. Typed(agents[x]) /\ agents[x].list = "Idle" /\ agents[x].role \in Role
  BY AgentFields, StartIs DEF TypeInv, Typed
<1>2. base \in G
  BY <1>1, BegunTyped DEF Typed
<1>3. Len(seq) \in Nat /\ DOMAIN seq = 1 .. Len(seq) /\ \A i \in 1 .. Len(seq) : seq[i] \in Buffered
  BY DEF TypeInv
<1>4. \A a \in G, i \in 1 .. Len(seq) :
         STUNRequestReceived(a, seq[i].pair, seq[i].favored) \in G
  <2> HIDE DEF seq
  <2>1. \A i \in 1 .. Len(seq) : seq[i].pair \in Pair /\ seq[i].favored \in BOOLEAN
    BY <1>3 DEF Buffered
  <2> QED
    BY <2>1, ReceivedTyped DEF Typed
<1> HIDE DEF G, base, seq
<1>5. Replayed(base, seq) \in G
  BY <1>2, <1>3, <1>4, ReplayKeeps
<1>6. agents' = [agents EXCEPT ![x] = Replayed(base, seq)]
  BY StartIs, Zenon DEF base, seq
<1>7. agents' \in [Agent -> AgentType] /\ \A z \in Agent : Typed(agents'[z])
  BY <1>5, <1>6, PutAgent DEF G
<1>8. /\ served' = [served EXCEPT ![x] = agents[x].role]
      /\ buffered' = [buffered EXCEPT ![x] = <<>>]
      /\ setting' = setting /\ callbacks' = callbacks
  BY StartIs, Zenon
<1>9. <<>> \in Seq(Buffered)
  OBVIOUS
<1>10. served' \in [Agent -> Role] /\ buffered' \in [Agent -> Seq(Buffered)]
  BY <1>1, <1>8, <1>9 DEF TypeInv
<1> QED
  BY <1>7, <1>8, <1>10 DEF TypeInv

LEMMA TimerTypes ==
    ASSUME Ordered, TypeInv, NEW x \in Agent, Timer(x)
    PROVE  TypeInv'
<1>1. Typed(agents[x])
  BY DEF TypeInv
<1>2. Typed(TimerFired(agents[x]))
  BY <1>1, TimerGives
<1>3. agents' = [agents EXCEPT ![x] = TimerFired(agents[x])]
  BY DEF Timer
<1> QED
  BY <1>2, <1>3, PutAgent DEF TypeInv, Timer

LEMMA CallbackTypes ==
    ASSUME Ordered, TypeInv, NEW x \in Agent, Callback(x)
    PROVE  TypeInv'
<1> DEFINE c == Head(callbacks[x])
<1>1. Typed(agents[x]) /\ callbacks[x] \in Seq(Callbacks) /\ callbacks[x] # <<>>
  BY DEF TypeInv, Callback
<1>2. c \in Callbacks /\ Tail(callbacks[x]) \in Seq(Callbacks)
  BY <1>1
<1> HIDE DEF c
<1>3. Typed(ConnCheckCompleted(agents[x], c.pair, c.outcome))
  BY <1>1, <1>2, CompletedTyped DEF Callbacks
<1>4. agents' = [agents EXCEPT ![x] = ConnCheckCompleted(agents[x], c.pair, c.outcome)]
  BY Zenon DEF Callback, c
<1>5. callbacks' \in [Agent -> Seq(Callbacks)]
  BY <1>2 DEF TypeInv, Callback
<1> QED
  BY <1>3, <1>4, <1>5, PutAgent DEF TypeInv, Callback

LEMMA ResolvedTypes ==
    ASSUME TypeInv, NEW x \in Agent, NEW p \in Pair, NEW outcome \in {"ok", "487", "timedOut"},
           Resolved(x, p, outcome)
    PROVE  TypeInv'
<1>1. Typed(Decided(agents[x], p, outcome))
  BY DecidedGives DEF TypeInv
<1>2. agents' = [agents EXCEPT ![x] = Decided(agents[x], p, outcome)]
  BY ResolvedIs
<1>3. [pair |-> p, outcome |-> outcome] \in Callbacks
  BY DEF Callbacks
<1>4. callbacks' \in [Agent -> Seq(Callbacks)]
  BY <1>3 DEF TypeInv, Resolved
<1> QED
  BY <1>1, <1>2, <1>4, PutAgent DEF TypeInv, Resolved

LEMMA ServeTypes ==
    ASSUME Ordered, TypeInv, NEW x \in Agent, NEW p \in Pair, Serve(x, p)
    PROVE  TypeInv'
<1> DEFINE y == Peer(x)
           r == agents[x].request[p]
           e == [pair |-> p, favored |-> r.favored]
           ok == Answered(agents[x], p, "ok")
           conflict == Answered(agents[x], p, "487")
           a == Asked(x, p)
           role == ServedRole(x, p)
           b == STUNRequestReceived(a, p, r.favored)
<1>1. y \in Agent /\ y # x /\ Typed(agents[x]) /\ Typed(agents[y]) /\ served[y] \in Role
  BY PeerFacts DEF TypeInv
<1>2. r \in Request /\ r.favored \in BOOLEAN /\ e \in Buffered
  BY <1>1, CheckOf DEF Request, Buffered
<1>3. Typed(ok) /\ Typed(conflict)
  BY <1>1, AnsweredGives
<1>4. role \in Role
  BY <1>1, RoleFacts DEF ServedRole
<1>5. Typed(RoleChangeNeeded(agents[y], role))
  BY <1>1, <1>4, RoleTyped
<1>6. Typed(a)
  BY <1>1, <1>5 DEF Asked
<1>7. /\ setting' = setting /\ callbacks' = callbacks
      /\ \/ /\ agents' = [agents EXCEPT ![x] = conflict]
            /\ served' = served /\ buffered' = buffered
         \/ /\ served' = [served EXCEPT ![y] = role]
            /\ \/ /\ agents' = [agents EXCEPT ![x] = ok, ![y] = a]
                  /\ buffered' = [buffered EXCEPT ![y] = Append(buffered[y], e)]
               \/ /\ agents' = [agents EXCEPT ![x] = ok, ![y] = b]
                  /\ buffered' = buffered
  BY ServeIs
<1> HIDE DEF a, r
<1>8. Typed(b)
  BY <1>2, <1>6, ReceivedTyped
<1> HIDE DEF y, e, ok, conflict, role, b
<1>9. agents' \in [Agent -> AgentType] /\ \A z \in Agent : Typed(agents'[z])
  <2>1. conflict \in AgentType /\ ok \in AgentType /\ a \in AgentType /\ b \in AgentType
    BY <1>3, <1>6, <1>8 DEF Typed
  <2> QED
    BY <1>1, <1>3, <1>6, <1>7, <1>8, <2>1 DEF TypeInv
<1>10. served' \in [Agent -> Role]
  BY <1>1, <1>4, <1>7 DEF TypeInv
<1>11. buffered' \in [Agent -> Seq(Buffered)]
  <2>1. Append(buffered[y], e) \in Seq(Buffered)
    BY <1>1, <1>2 DEF TypeInv
  <2> QED
    BY <1>1, <1>7, <2>1 DEF TypeInv
<1> QED
  BY <1>7, <1>9, <1>10, <1>11 DEF TypeInv

LEMMA NextTypes == Ordered /\ TypeInv /\ [Next]_vars => TypeInv'
<1> SUFFICES ASSUME Ordered, TypeInv, [Next]_vars PROVE TypeInv'
  OBVIOUS
<1>1. ASSUME NEW x \in Agent, Start(x) PROVE TypeInv'
  BY <1>1, StartTypes
<1>2. ASSUME NEW x \in Agent, Timer(x) PROVE TypeInv'
  BY <1>2, TimerTypes
<1>3. ASSUME NEW x \in Agent, Callback(x) PROVE TypeInv'
  BY <1>3, CallbackTypes
<1>4. ASSUME NEW x \in Agent, NEW p \in Pair, Respond(x, p) PROVE TypeInv'
  <2>1. agents[x].request[p].answer \in {"ok", "487"}
    BY <1>4, CheckOf DEF Respond, TypeInv, Request
  <2> QED
    BY <1>4, <2>1, ResolvedTypes DEF Respond
<1>5. ASSUME NEW x \in Agent, NEW p \in Pair, TimeOut(x, p) PROVE TypeInv'
  BY <1>5, ResolvedTypes DEF TimeOut
<1>6. ASSUME NEW x \in Agent, NEW p \in Pair, Serve(x, p) PROVE TypeInv'
  BY <1>6, ServeTypes
<1>7. ASSUME UNCHANGED vars PROVE TypeInv'
  BY <1>7 DEF TypeInv, vars
<1> QED
  BY <1>1, <1>2, <1>3, <1>4, <1>5, <1>6, <1>7 DEF Next

LEMMA TypesImplied == TypeInv => TypeOK
<1> SUFFICES ASSUME TypeInv PROVE TypeOK
  OBVIOUS
<1>1. ASSUME NEW x \in Agent
      PROVE  /\ IsInjective([i \in DOMAIN agents[x].que |-> agents[x].que[i].pair])
             /\ agents[x].list = "Completed" <=> agents[x].told # {}
  BY DEF TypeInv, Typed, Single, IsInjective
<1>2. ASSUME NEW x \in Agent
      PROVE  /\ \A i \in DOMAIN callbacks[x] : callbacks[x][i] \in Callbacks
             /\ \A i \in DOMAIN buffered[x] : buffered[x][i] \in Buffered
  BY DEF TypeInv
<1> QED
  BY <1>1, <1>2 DEF TypeOK, TypeInv, Callbacks, Buffered

\* The types are right, no pair is queued twice, and the client is told of pairs if
\* and only if the list has completed.
THEOREM TypeCorrect ==
    ASSUME Ordered
    PROVE  Spec => []TypeOK
<1>1. Init => TypeInv
  BY InitTypes
<1>2. TypeInv /\ [Next]_vars => TypeInv'
  BY NextTypes
<1> QED
  BY <1>1, <1>2, TypesImplied, PTL DEF Spec
-----------------------------------------------------------------------------
(***************************************************************************)
(* The invariant of one agent, in a situation s: the pairs on which        *)
(* nothing arrives, those its peer has nominated, whether the roles are    *)
(* settled, whether this agent is to give way, and the role it began in.   *)
(***************************************************************************)
Situation ==
    [ broken : SUBSET Pair, peer : SUBSET Pair, done : BOOLEAN, gives : BOOLEAN, role : Role ]

\* A check that succeeded or is nominated works, and its pair is valid; only the
\* controlling agent nominates, and only the controlled one is told so.
CheckFit(a, p, s) ==
    LET c == a.checks[p]
    IN  /\ c.state = "Succeed" \/ c.nominated => p \notin s.broken
        /\ c.nominated => CanSelect(a, p)
        /\ c.resend => c.nominated /\ c.state = "InProgress"
        /\ c.nominated => /\ c.state \in {"InProgress", "Succeed"} /\ a.role = "controlling"
                          /\ c.resend \/ a.list = "Completed" \/ Selected(a) # {}
        /\ c.favored => a.role = "controlled" /\ p \in s.peer
        /\ CanSelect(a, p) => c.state = "Succeed" \/ c.nominated
        /\ c.state = "Removed" => a.list = "Completed"

ItemFit(a, e) ==
    LET c == a.checks[e.pair]
    IN  /\ ~c.nominated /\ c.state # "Removed"
        /\ e.nomination => c.state = "Succeed" /\ a.role = "controlling" /\ CanSelect(a, e.pair)

ValidFit(a, v, s) ==
    /\ s.done /\ v.priority = PrioritizePair(a.name, a.role, v.pair)
    /\ v.selected /\ a.role = "controlled" => v.pair \in s.peer

ListFit(a) ==
    /\ a.list # "Idle"
    /\ a.list = "Failed" =>
          /\ InState(a, {"Waiting", "Frozen", "InProgress"}) = {}
          /\ a.valid = {} /\ ~a.timer /\ a.que = <<>>
    /\ a.list = "Running" /\ (a.que # <<>> \/ InState(a, {"Waiting", "Frozen"}) # {}) => a.timer

Fit(a, s) ==
    /\ Typed(a) /\ ListFit(a)
    /\ \A p \in Pair : CheckFit(a, p, s)
    /\ \A e \in ToSet(a.que) : ItemFit(a, e)
    /\ \A v \in a.valid : ValidFit(a, v, s)
    /\ \A p \in a.told : s.done /\ (a.role = "controlled" => p \in s.peer)

\* A list that runs has no selected pair, and what is in progress is awaited,
\* queued, or about to be called back.
Driven(a, C) ==
    a.list = "Running" =>
       \A p \in Pair : a.checks[p].state = "InProgress" =>
          a.request[p].awaited \/ p \in C \/ Queued(a, p)
Awake(a) == a.list = "Running" => Selected(a) = {}

\* What the requests of an agent and their answers tell
RequestFit(a, p, s) ==
    LET r == a.request[p]
    IN  /\ r.awaited \/ ~r.served => r.role \in {s.role, a.role}
        /\ r.answer = "487" => s.gives /\ r.role = s.role /\ p \notin s.broken
        /\ r.answer = "ok" => s.done /\ p \notin s.broken
        /\ r.favored => a.checks[p].nominated
Current(a, p, s) ==
    s.gives /\ a.request[p].awaited =>
       /\ a.checks[p].state = "InProgress"
       /\ p \notin s.broken => a.request[p].role = a.role

Good(a, s, C) ==
    /\ Fit(a, s) /\ Awake(a) /\ Driven(a, C)
    /\ \A p \in Pair : RequestFit(a, p, s) /\ Current(a, p, s)

\* Nominations stay.
Grown(a, b) ==
    /\ b.name = a.name
    /\ \A p \in Pair : a.checks[p].nominated => b.checks[p].nominated

\* What calls that send nothing do not change
Silent(a, b) ==
    /\ b.request = a.request /\ Grown(a, b)
    /\ \A p \in Pair : a.checks[p].state = "InProgress" => b.checks[p].state = "InProgress"

LEMMA FitFacts ==
    ASSUME NEW s \in Situation, NEW a, Fit(a, s)
    PROVE  /\ Typed(a) /\ a.name \in Agent /\ a.role \in Role /\ a.que \in Seq(Item)
           /\ a.list \in {"Running", "Completed", "Failed"}
           /\ a.checks \in [Pair -> Check] /\ a.request \in [Pair -> Request]
           /\ \A p \in Pair : a.checks[p].state \in CheckState
           /\ a.valid = {} \/ s.done
           /\ \A p \in Pair : a.checks[p].nominated => s.done
           /\ \A v \in a.valid : v.pair \in Pair
           /\ \A e \in ToSet(a.que) : e \in Item /\ e.pair \in Pair
<1>1. /\ Typed(a) /\ a.name \in Agent /\ a.role \in Role /\ a.que \in Seq(Item)
      /\ a.list \in {"Running", "Completed", "Failed"}
      /\ a.checks \in [Pair -> Check] /\ a.request \in [Pair -> Request]
      /\ \A v \in a.valid : v.pair \in Pair
  BY AgentFields DEF Fit, Typed, ListFit
<1>2. \A e \in ToSet(a.que) : e \in Item /\ e.pair \in Pair
  BY <1>1, QueOf DEF Item
<1>3. a.valid = {} \/ s.done
  BY DEF Fit, ValidFit
<1>4. \A p \in Pair : a.checks[p].nominated => s.done
  BY <1>3 DEF Fit, CheckFit, CanSelect
<1> QED
  BY <1>1, <1>2, <1>3, <1>4, CheckOf

\* One check changes.
LEMMA CheckReplaced ==
    ASSUME NEW s \in Situation, NEW a, Fit(a, s), NEW p \in Pair, NEW k, NEW b,
           Typed(b), ListFit(b), b.checks = [a.checks EXCEPT ![p] = k],
           b.name = a.name, b.role = a.role, b.list = a.list, b.valid = a.valid,
           b.told = a.told, CheckFit(b, p, s),
           \A e \in ToSet(b.que) :
              (e.pair # p /\ e \in ToSet(a.que)) \/ (e.pair = p /\ ItemFit(b, e))
    PROVE  Fit(b, s)
<1>1. \A q \in Pair \ {p} : b.checks[q] = a.checks[q]
  BY FitFacts
<1>2. \A q \in Pair : CanSelect(b, q) = CanSelect(a, q)
  BY DEF CanSelect
<1>3. Selected(b) = Selected(a)
  BY DEF Selected
<1>4. \A q \in Pair : CheckFit(b, q, s)
  BY <1>1, <1>2, <1>3 DEF Fit, CheckFit
<1>5. \A e \in ToSet(b.que) : ItemFit(b, e)
  BY <1>1, <1>2, FitFacts DEF Fit, ItemFit
<1>6. \A v \in b.valid : ValidFit(b, v, s)
  BY DEF Fit, ValidFit
<1> QED
  BY <1>4, <1>5, <1>6 DEF Fit

\* The queue changes.
LEMMA EnqueueFit ==
    ASSUME NEW s \in Situation, NEW a, Fit(a, s), NEW p \in Pair, NEW n \in BOOLEAN,
           ItemFit(a, [pair |-> p, nomination |-> n]), a.list # "Failed"
    PROVE  /\ Fit(Enqueue(a, p, n), s) /\ Silent(a, Enqueue(a, p, n))
           /\ Beside(a, Enqueue(a, p, n)) /\ Queued(Enqueue(a, p, n), p)
           /\ \A q \in Pair : Queued(a, q) => Queued(Enqueue(a, p, n), q)
<1> DEFINE b == Enqueue(a, p, n)
           e == [pair |-> p, nomination |-> n]
<1>1. /\ Typed(b) /\ Beside(a, b)
      /\ b.timer \/ (~n /\ b = a /\ Queued(a, p))
      /\ Queued(b, p)
      /\ ToSet(b.que) = IF ~n /\ Queued(a, p) THEN ToSet(a.que)
                        ELSE {d \in ToSet(a.que) : d.pair # p} \cup {e}
  BY FitFacts, EnqueueGives, Zenon
<1>2. e.pair = p
  OBVIOUS
<1> HIDE DEF b, e
<1>3. \A d \in ToSet(b.que) : d \in ToSet(a.que) \/ d = e
  BY <1>1
<1>4. \A d \in ToSet(a.que) : d \in ToSet(b.que) \/ d.pair = p
  BY <1>1
<1>5. \A q \in Pair : Queued(a, q) => Queued(b, q)
  BY <1>1, <1>4 DEF Queued
<1>6. InState(b, {"Waiting", "Frozen"}) = InState(a, {"Waiting", "Frozen"})
  BY <1>1 DEF InState, Beside
<1>7. ListFit(b)
  BY <1>1, <1>6 DEF ListFit, Fit, Beside
<1>8. \A q \in Pair : CanSelect(b, q) = CanSelect(a, q)
  BY <1>1 DEF CanSelect, Beside
<1>9. Selected(b) = Selected(a)
  BY <1>1 DEF Selected, Beside
<1>10. \A q \in Pair : CheckFit(b, q, s)
  BY <1>1, <1>8, <1>9 DEF Fit, CheckFit, Beside
<1>11. \A d \in ToSet(b.que) : ItemFit(b, d)
  BY <1>1, <1>3, <1>8, FitFacts DEF Fit, ItemFit, Beside, e
<1>12. \A v \in b.valid : ValidFit(b, v, s)
  BY <1>1 DEF Fit, ValidFit, Beside
<1>13. Fit(b, s)
  BY <1>1, <1>7, <1>10, <1>11, <1>12 DEF Fit, Beside
<1>14. Silent(a, b)
  BY <1>1 DEF Silent, Grown, Beside
<1> QED
  BY <1>1, <1>5, <1>13, <1>14 DEF b

LEMMA UpdateFit ==
    ASSUME Ordered, NEW s \in Situation, NEW a, Fit(a, s)
    PROVE  LET b == UpdateCheckListState(a)
           IN  /\ Fit(b, s) /\ Awake(b) /\ Silent(a, b) /\ b.role = a.role
               /\ \A C : Driven(a, C) => Driven(b, C)
<1> DEFINE b == UpdateCheckListState(a)
<1>1. /\ Typed(b) /\ Untouched(a, b) /\ b.valid = a.valid
      /\ \/ b = a /\ (a.list = "Running" => Selected(a) = {})
         \/ /\ a.list = "Running" /\ b.list = "Completed"
            /\ b.checks = Cleared(a.checks) /\ b.que = <<>> /\ ~b.timer
            /\ \E v \in Selected(a) : b.told = a.told \cup {v.pair}
         \/ /\ a.list = "Running" /\ b.list = "Failed"
            /\ InState(a, {"Waiting", "InProgress", "Frozen"}) = {} /\ a.valid = {}
            /\ b.checks = a.checks /\ b.que = <<>> /\ ~b.timer /\ b.told = a.told
  BY FitFacts, UpdateGives, Zenon
<1> HIDE DEF b
<1>2. CASE b = a /\ (a.list = "Running" => Selected(a) = {})
  BY <1>2 DEF Awake, Silent, Grown, b
<1>3. CASE /\ a.list = "Running" /\ b.list = "Completed"
           /\ b.checks = Cleared(a.checks) /\ b.que = <<>> /\ ~b.timer
           /\ \E v \in Selected(a) : b.told = a.told \cup {v.pair}
  <2>1. \A q \in Pair : CanSelect(b, q) = CanSelect(a, q)
    BY <1>1 DEF CanSelect
  <2>2. /\ NewCheck("Removed").state = "Removed" /\ ~NewCheck("Removed").nominated
        /\ ~NewCheck("Removed").favored /\ ~NewCheck("Removed").resend
    BY DEF NewCheck
  <2>3. ASSUME NEW q \in Pair PROVE CheckFit(b, q, s)
    <3>1. CheckFit(a, q, s)
      BY DEF Fit
    <3>2. CASE a.checks[q].state \in {"Waiting", "Frozen"}
      <4>1. b.checks[q] = NewCheck("Removed")
        BY <1>3, <3>2 DEF Cleared
      <4>2. ~CanSelect(b, q)
        BY <2>1, <3>1, <3>2 DEF CheckFit
      <4> QED
        BY <1>3, <2>2, <4>1, <4>2 DEF CheckFit
    <3>3. CASE a.checks[q].state \notin {"Waiting", "Frozen"}
      <4>1. b.checks[q] = a.checks[q]
        BY <1>3, <3>3 DEF Cleared
      <4> QED
        BY <1>1, <1>3, <2>1, <3>1, <4>1 DEF CheckFit, Untouched
    <3> QED
      BY <3>2, <3>3
  <2>4. \A v \in b.valid : ValidFit(b, v, s)
    BY <1>1 DEF Fit, ValidFit, Untouched
  <2>5. \A p \in b.told : s.done /\ (b.role = "controlled" => p \in s.peer)
    BY <1>1, <1>3 DEF Fit, ValidFit, Selected, Untouched
  <2>6. \A e \in ToSet(b.que) : ItemFit(b, e)
    BY <1>3, EmptyQue
  <2>7. Fit(b, s)
    BY <1>1, <1>3, <2>3, <2>4, <2>5, <2>6 DEF Fit, ListFit
  <2>8. Silent(a, b)
    <3>1. ASSUME NEW q \in Pair
          PROVE  /\ a.checks[q].nominated => b.checks[q].nominated
                 /\ a.checks[q].state = "InProgress" => b.checks[q].state = "InProgress"
      BY <1>3 DEF Cleared, Fit, CheckFit
    <3> QED
      BY <1>1, <3>1 DEF Silent, Grown, Untouched
  <2> QED
    BY <1>1, <1>3, <2>7, <2>8 DEF Awake, Driven, Untouched, b
<1>4. CASE /\ a.list = "Running" /\ b.list = "Failed"
           /\ InState(a, {"Waiting", "InProgress", "Frozen"}) = {} /\ a.valid = {}
           /\ b.checks = a.checks /\ b.que = <<>> /\ ~b.timer /\ b.told = a.told
  <2>1. InState(b, {"Waiting", "Frozen", "InProgress"}) = {}
    BY <1>4 DEF InState
  <2>2. ListFit(b)
    BY <1>1, <1>4, <2>1 DEF ListFit
  <2>3. \A q \in Pair : ~CanSelect(b, q) /\ ~CanSelect(a, q)
    BY <1>1, <1>4 DEF CanSelect
  <2>4. \A q \in Pair : CheckFit(b, q, s)
    BY <1>1, <1>4, <2>3 DEF Fit, CheckFit, Untouched
  <2>5. \A e \in ToSet(b.que) : ItemFit(b, e)
    BY <1>4, EmptyQue
  <2>6. Fit(b, s)
    BY <1>1, <1>4, <2>2, <2>4, <2>5 DEF Fit, Untouched
  <2> QED
    BY <1>1, <1>4, <2>6 DEF Awake, Driven, Silent, Grown, Untouched, b
<1> QED
  BY <1>1, <1>2, <1>3, <1>4

\* A pair is selected that may be.
LEMMA SelectFit ==
    ASSUME Ordered, NEW s \in Situation, NEW a, Fit(a, s), NEW p \in Pair, CanSelect(a, p),
           a.role = "controlled" => p \in s.peer
    PROVE  LET b == SetPairNominated(a, p)
           IN  /\ Fit(b, s) /\ Silent(a, b) /\ b.role = a.role /\ Selected(b) # {}
               /\ b.checks = a.checks /\ b.list = a.list /\ b.que = a.que
<1> DEFINE b == SetPairNominated(a, p)
<1>1. /\ Typed(b) /\ Untouched(a, b) /\ b.checks = a.checks /\ b.list = a.list
      /\ b.que = a.que /\ b.timer = a.timer /\ b.told = a.told
      /\ \E v \in a.valid :
            v.pair = p /\ b.valid = (a.valid \ {v}) \cup {[v EXCEPT !.selected = TRUE]}
  <2>1. Typed(a)
    BY FitFacts
  <2> QED
    BY <2>1, SelectGives
<1> HIDE DEF b
<1>2. PICK v \in a.valid :
         v.pair = p /\ b.valid = (a.valid \ {v}) \cup {[v EXCEPT !.selected = TRUE]}
  BY <1>1
<1> DEFINE u == [v EXCEPT !.selected = TRUE]
<1>3. v \in [pair : Pair, priority : Nat, selected : BOOLEAN]
  BY FitFacts, AgentFields DEF Typed
<1>4. u.pair = p /\ u.priority = v.priority /\ u.selected /\ b.valid = (a.valid \ {v}) \cup {u}
  BY <1>2, <1>3
<1> HIDE DEF u
<1>5. \A q \in Pair : CanSelect(b, q) = CanSelect(a, q)
  BY <1>2, <1>4 DEF CanSelect
<1>6. Selected(b) # {}
  BY <1>4 DEF Selected
<1>7. \A q \in Pair : CheckFit(b, q, s)
  BY <1>1, <1>5, <1>6 DEF Fit, CheckFit, Untouched
<1>8. \A e \in ToSet(b.que) : ItemFit(b, e)
  BY <1>1, <1>5, FitFacts DEF Fit, ItemFit, Untouched
<1>9. \A w \in b.valid : ValidFit(b, w, s)
  <2>1. \A w \in a.valid : ValidFit(a, w, s)
    BY DEF Fit
  <2>2. \A w \in a.valid : ValidFit(b, w, s)
    BY <1>1, <2>1 DEF ValidFit, Untouched
  <2>3. ValidFit(b, u, s)
    BY <1>1, <1>2, <1>4, <2>1 DEF ValidFit, Untouched
  <2> QED
    BY <1>4, <2>2, <2>3
<1>10. ListFit(b)
  <2>1. InState(b, {"Waiting", "Frozen"}) = InState(a, {"Waiting", "Frozen"})
    BY <1>1 DEF InState
  <2>2. a.list # "Failed"
    BY <1>2 DEF Fit, ListFit
  <2> QED
    BY <1>1, <2>1, <2>2 DEF Fit, ListFit
<1>11. Fit(b, s)
  BY <1>1, <1>7, <1>8, <1>9, <1>10 DEF Fit, Untouched
<1> QED
  BY <1>1, <1>6, <1>11 DEF Silent, Grown, Untouched, b

\* Both
LEMMA SelectedFit ==
    ASSUME Ordered, NEW s \in Situation, NEW a, Fit(a, s), NEW p \in Pair, CanSelect(a, p),
           a.role = "controlled" => p \in s.peer
    PROVE  LET b == UpdateCheckListState(SetPairNominated(a, p))
           IN  /\ Fit(b, s) /\ Awake(b) /\ Silent(a, b) /\ b.role = a.role
               /\ \A C : Driven(b, C)
<1> DEFINE d == SetPairNominated(a, p)
           b == UpdateCheckListState(d)
<1>1. /\ Fit(d, s) /\ Silent(a, d) /\ d.role = a.role /\ Selected(d) # {}
      /\ d.checks = a.checks /\ d.list = a.list /\ d.que = a.que
  BY SelectFit, Zenon
<1> HIDE DEF d
<1>2. Fit(b, s) /\ Awake(b) /\ Silent(d, b) /\ b.role = d.role
  BY <1>1, UpdateFit, Zenon
<1>3. b.valid = d.valid
  BY <1>1, FitFacts, UpdateGives
<1> HIDE DEF b
<1>4. b.list # "Running"
  BY <1>1, <1>2, <1>3 DEF Awake, Selected
<1> QED
  BY <1>1, <1>2, <1>4 DEF Silent, Grown, Driven, b, d

\* The same state and nomination of every check
SameStates(a, b) ==
    \A q \in Pair : /\ b.checks[q].state = a.checks[q].state
                    /\ b.checks[q].nominated = a.checks[q].nominated

LEMMA FavoredFit ==
    ASSUME NEW s \in Situation, NEW a, Fit(a, s), NEW p \in Pair, NEW f \in BOOLEAN,
           f => a.role = "controlled" /\ p \in s.peer
    PROVE  LET b == [a EXCEPT !.checks[p].favored = f]
           IN  /\ Fit(b, s) /\ Around(a, b) /\ b.que = a.que /\ b.timer = a.timer
               /\ b.request = a.request /\ SameStates(a, b)
<1> DEFINE b == [a EXCEPT !.checks[p].favored = f]
           k == [a.checks[p] EXCEPT !.favored = f]
<1>1. /\ Typed(b) /\ Around(a, b) /\ b.que = a.que /\ b.timer = a.timer
      /\ b.request = a.request /\ b.checks = [a.checks EXCEPT ![p] = k]
  <2>1. Typed(a)
    BY FitFacts
  <2> QED
    BY <2>1, FavoredGives
<1>2. k.state = a.checks[p].state /\ k.nominated = a.checks[p].nominated
      /\ k.resend = a.checks[p].resend /\ k.favored = f
  BY FitFacts DEF Check
<1> HIDE DEF b, k
<1>3. SameStates(a, b)
  BY <1>1, <1>2, FitFacts DEF SameStates
<1>4. b.checks[p] = k
  BY <1>1, FitFacts
<1>5. InState(b, {"Waiting", "Frozen"}) = InState(a, {"Waiting", "Frozen"})
      /\ InState(b, {"Waiting", "Frozen", "InProgress"})
            = InState(a, {"Waiting", "Frozen", "InProgress"})
  BY <1>3 DEF SameStates, InState
<1>6. ListFit(b)
  BY <1>1, <1>5 DEF Fit, ListFit, Around
<1>7. CheckFit(b, p, s)
  <2>1. CanSelect(b, p) = CanSelect(a, p) /\ Selected(b) = Selected(a)
    BY <1>1 DEF CanSelect, Selected, Around
  <2>2. CheckFit(a, p, s)
    BY DEF Fit
  <2> QED
    BY <1>1, <1>2, <1>4, <2>1, <2>2 DEF CheckFit, Around
<1>8. \A e \in ToSet(b.que) :
         (e.pair # p /\ e \in ToSet(a.que)) \/ (e.pair = p /\ ItemFit(b, e))
  BY <1>1, <1>2, <1>4 DEF Fit, ItemFit, Around, CanSelect
<1>9. Fit(b, s)
  BY <1>1, <1>6, <1>7, <1>8, CheckReplaced DEF Around
<1> QED
  BY <1>1, <1>3, <1>9 DEF b

LEMMA CancelFit ==
    ASSUME NEW s \in Situation, NEW a, Fit(a, s), NEW p \in Pair
    PROVE  LET b == Cancel(a, p)
           IN  /\ Fit(b, s) /\ Around(a, b) /\ b.que = a.que /\ b.timer = a.timer
               /\ b.checks = a.checks
               /\ b.request = [a.request EXCEPT ![p] = [a.request[p] EXCEPT !.awaited = FALSE]]
<1> DEFINE b == Cancel(a, p)
<1>1. /\ Typed(b) /\ Around(a, b) /\ b.que = a.que /\ b.timer = a.timer
      /\ b.checks = a.checks
      /\ b.request = [a.request EXCEPT ![p] = [a.request[p] EXCEPT !.awaited = FALSE]]
  <2>1. Typed(a)
    BY FitFacts
  <2> QED
    BY <2>1, CancelGives, Zenon
<1> HIDE DEF b
<1>2. /\ \A q \in Pair : CanSelect(b, q) = CanSelect(a, q)
      /\ Selected(b) = Selected(a)
      /\ \A S : InState(b, S) = InState(a, S)
  BY <1>1 DEF CanSelect, Selected, InState, Around
<1>3. \A q \in Pair : CheckFit(b, q, s)
  BY <1>1, <1>2 DEF Fit, CheckFit, Around
<1>4. \A e \in ToSet(b.que) : ItemFit(b, e)
  BY <1>1, <1>2, FitFacts DEF Fit, ItemFit, Around
<1>5. \A v \in b.valid : ValidFit(b, v, s)
  BY <1>1 DEF Fit, ValidFit, Around
<1>6. ListFit(b)
  BY <1>1, <1>2 DEF Fit, ListFit, Around
<1>7. Fit(b, s)
  BY <1>1, <1>3, <1>4, <1>5, <1>6 DEF Fit, Around
<1> QED
  BY <1>1, <1>7 DEF b

LEMMA RevivedFit ==
    ASSUME NEW s \in Situation, NEW a, Fit(a, s), NEW p \in Pair, NEW f \in BOOLEAN,
           f => a.role = "controlled" /\ p \in s.peer, a.checks[p].state = "Removed",
           NEW k \in Check, k.state = "Frozen", ~k.nominated, ~k.resend, k.favored = f
    PROVE  LET b == [a EXCEPT !.checks[p] = k, !.request[p] = NoRequest, !.resolved[p] = FALSE]
           IN  /\ Fit(b, s) /\ b.name = a.name /\ b.role = a.role /\ b.list = "Completed"
               /\ b.checks = [a.checks EXCEPT ![p] = k]
               /\ b.request = [a.request EXCEPT ![p] = NoRequest]
               /\ a.list = "Completed" /\ ~a.checks[p].nominated
               /\ b.checks[p].state = "Frozen" /\ ~b.checks[p].nominated
<1> DEFINE b == [a EXCEPT !.checks[p] = k, !.request[p] = NoRequest, !.resolved[p] = FALSE]
<1>1. /\ Typed(b) /\ b.name = a.name /\ b.role = a.role /\ b.list = a.list
      /\ b.valid = a.valid /\ b.told = a.told /\ b.que = a.que /\ b.timer = a.timer
      /\ b.checks = [a.checks EXCEPT ![p] = k]
      /\ b.request = [a.request EXCEPT ![p] = NoRequest]
  <2>1. Typed(a)
    BY FitFacts
  <2> QED
    BY <2>1, RevivedGives, ZenonT(40)
<1> HIDE DEF b
<1>2. CheckFit(a, p, s)
  BY DEF Fit
<1>3. a.list = "Completed" /\ ~a.checks[p].nominated /\ ~CanSelect(a, p)
  BY <1>2 DEF CheckFit
<1>4. b.checks[p] = k
  BY <1>1, FitFacts
<1>5. CheckFit(b, p, s)
  <2>1. ~CanSelect(b, p)
    BY <1>1, <1>3 DEF CanSelect
  <2> QED
    BY <1>1, <1>3, <1>4, <2>1 DEF CheckFit
<1>6. \A e \in ToSet(b.que) : e.pair # p /\ e \in ToSet(a.que)
  BY <1>1 DEF Fit, ItemFit
<1>7. ListFit(b)
  BY <1>1, <1>3 DEF ListFit
<1>8. Fit(b, s)
  BY <1>1, <1>5, <1>6, <1>7, CheckReplaced
<1> QED
  BY <1>1, <1>3, <1>4, <1>8 DEF b

\* What the answer to a request of the peer leaves of the own ones
Calmed(a, b, p) ==
    /\ b.role = a.role /\ Grown(a, b)
    /\ \A q \in Pair :
          /\ a.checks[q].state = "InProgress" => b.checks[q].state = "InProgress"
          /\ b.request[q] \in {a.request[q], NoRequest, [a.request[q] EXCEPT !.awaited = FALSE]}
    /\ b.request[p].awaited => a.checks[p].state # "InProgress" \/ a.checks[p].nominated

LEMMA TriggeredFit ==
    ASSUME Ordered, NEW s \in Situation, NEW C, NEW a, Fit(a, s), Awake(a), Driven(a, C),
           a.list # "Failed", NEW p \in Pair, NEW f \in BOOLEAN,
           f => a.role = "controlled" /\ p \in s.peer
    PROVE  LET t == HandleTriggeredCheck(a, p, f)
           IN  Fit(t, s) /\ Awake(t) /\ Driven(t, C) /\ Calmed(a, t, p)
<1> DEFINE b == [a EXCEPT !.checks[p].favored = f]
           k == [NewCheck("Frozen") EXCEPT !.favored = f]
           r == [a EXCEPT !.checks[p] = k, !.request[p] = NoRequest, !.resolved[p] = FALSE]
           t == HandleTriggeredCheck(a, p, f)
           state == a.checks[p].state
           e == [pair |-> p, nomination |-> FALSE]
<1>1. /\ Fit(b, s) /\ Around(a, b) /\ b.que = a.que /\ b.timer = a.timer
      /\ b.request = a.request /\ SameStates(a, b)
  BY FavoredFit, Zenon
<1>2. t = CASE state \in {"Waiting", "Frozen", "Failed"} -> Enqueue(b, p, FALSE)
            [] state = "InProgress" -> IF b.checks[p].nominated THEN b
                                       ELSE Enqueue(Cancel(b, p), p, FALSE)
            [] state = "Succeed" -> IF f /\ CanSelect(b, p)
                                    THEN UpdateCheckListState(SetPairNominated(b, p)) ELSE b
            [] state = "Removed" ->
                  IF \E q \in InState(a, CheckState \ {"Removed"}) :
                        ComparePriorities(PrioritizePair(a.name, a.role, p),
                                          PrioritizePair(a.name, a.role, q)) = 0
                  THEN a ELSE Enqueue(r, p, FALSE)
  BY Zenon DEF HandleTriggeredCheck
<1>3. /\ state \in CheckState /\ CheckFit(a, p, s) /\ e.pair = p /\ ~e.nomination
      /\ Selected(b) = Selected(a)
  BY <1>1, FitFacts DEF Fit, Selected, Around
<1>4. k \in Check /\ k.state = "Frozen" /\ ~k.nominated /\ ~k.resend /\ k.favored = f
  BY NewCheckType DEF CheckState, NewCheck
<1> HIDE DEF k
<1>5. ASSUME a.checks[p].state = "Removed"
      PROVE
         /\ Fit(r, s) /\ r.name = a.name /\ r.role = a.role /\ r.list = "Completed"
         /\ r.checks = [a.checks EXCEPT ![p] = k]
         /\ r.request = [a.request EXCEPT ![p] = NoRequest]
         /\ a.list = "Completed" /\ ~a.checks[p].nominated
         /\ r.checks[p].state = "Frozen" /\ ~r.checks[p].nominated
  BY <1>5, <1>4, RevivedFit, Zenon
<1> HIDE DEF b, r, t, e
<1>6. Driven(b, C) /\ Awake(b)
  BY <1>1, <1>3 DEF Driven, Awake, SameStates, Around, Queued
<1>7. CASE t = b /\ (state = "InProgress" => a.checks[p].nominated)
  BY <1>1, <1>6, <1>7 DEF Calmed, Grown, SameStates, Around, t
<1>8. CASE state \in {"Waiting", "Frozen", "Failed"}
  <2>1. t = Enqueue(b, p, FALSE)
    BY <1>2, <1>8
  <2>2. ItemFit(b, e)
    BY <1>1, <1>3, <1>8 DEF ItemFit, SameStates, CheckFit
  <2>3. /\ Fit(t, s) /\ Silent(b, t) /\ Beside(b, t)
        /\ \A q \in Pair : Queued(b, q) => Queued(t, q)
    BY <1>1, <2>1, <2>2, EnqueueFit DEF e, Around
  <2>4. Driven(t, C) /\ Awake(t)
    BY <1>6, <2>3 DEF Driven, Awake, Beside, Selected
  <2>5. Calmed(a, t, p)
    BY <1>1, <1>8, <2>3 DEF Calmed, Silent, Grown, SameStates, Around, Beside
  <2> QED
    BY <2>3, <2>4, <2>5 DEF t
<1>9. CASE state = "InProgress" /\ ~a.checks[p].nominated
  <2> DEFINE d == Cancel(b, p)
  <2>1. t = Enqueue(d, p, FALSE)
    BY <1>1, <1>2, <1>9 DEF SameStates
  <2>2. /\ Fit(d, s) /\ Around(b, d) /\ d.que = b.que /\ d.timer = b.timer
        /\ d.checks = b.checks
        /\ d.request = [b.request EXCEPT ![p] = [b.request[p] EXCEPT !.awaited = FALSE]]
    BY <1>1, CancelFit, Zenon
  <2> HIDE DEF d
  <2>3. ItemFit(d, e)
    BY <1>1, <1>3, <1>9, <2>2 DEF ItemFit, SameStates
  <2>4. /\ Fit(t, s) /\ Silent(d, t) /\ Beside(d, t) /\ Queued(t, p)
        /\ \A q \in Pair : Queued(d, q) => Queued(t, q)
    BY <1>1, <2>1, <2>2, <2>3, EnqueueFit DEF e, Around
  <2>5. /\ \A q \in Pair \ {p} : d.request[q] = a.request[q]
        /\ d.request[p] = [a.request[p] EXCEPT !.awaited = FALSE]
        /\ ~d.request[p].awaited
    BY <1>1, <2>2, FitFacts DEF Request
  <2>6. Driven(t, C)
    BY <1>1, <1>6, <2>2, <2>4, <2>5 DEF Driven, Beside, Around, Queued
  <2>7. Awake(t)
    BY <1>6, <2>2, <2>4 DEF Awake, Beside, Around, Selected
  <2>8. Calmed(a, t, p)
    <3>1. t.request = d.request /\ t.checks = b.checks /\ t.role = a.role /\ t.name = a.name
      BY <1>1, <2>2, <2>4 DEF Beside, Around
    <3> QED
      BY <1>1, <2>5, <3>1 DEF Calmed, Grown, SameStates
  <2> QED
    BY <2>4, <2>6, <2>7, <2>8 DEF t
<1>10. CASE state = "Succeed" /\ f /\ CanSelect(b, p)
  <2>1. t = UpdateCheckListState(SetPairNominated(b, p))
    BY <1>2, <1>10
  <2>2. Fit(t, s) /\ Awake(t) /\ Silent(b, t) /\ t.role = b.role /\ Driven(t, C)
    BY <1>1, <1>10, <2>1, SelectedFit
  <2>3. Calmed(a, t, p)
    BY <1>1, <1>10, <2>2 DEF Calmed, Silent, Grown, SameStates, Around
  <2> QED
    BY <2>2, <2>3 DEF t
<1>11. CASE t = a /\ state = "Removed"
  BY <1>11 DEF Calmed, Grown, t
<1>12. CASE t = Enqueue(r, p, FALSE) /\ state = "Removed"
  <2>1. ItemFit(r, e)
    BY <1>3, <1>5, <1>12 DEF ItemFit
  <2>2. Fit(t, s) /\ Silent(r, t) /\ Beside(r, t)
    BY <1>5, <1>12, <2>1, EnqueueFit DEF e
  <2>3. /\ \A q \in Pair \ {p} : r.request[q] = a.request[q] /\ r.checks[q] = a.checks[q]
        /\ r.request[p] = NoRequest /\ ~NoRequest.awaited
    BY <1>5, <1>12, FitFacts DEF NoRequest
  <2>4. Driven(t, C) /\ Awake(t)
    BY <1>5, <1>12, <2>2 DEF Driven, Awake, Beside
  <2>5. Calmed(a, t, p)
    <3>1. t.request = r.request /\ t.checks = r.checks /\ t.role = a.role /\ t.name = a.name
      BY <1>5, <1>12, <2>2 DEF Beside
    <3>2. ~a.checks[p].nominated /\ a.checks[p].state # "InProgress"
      BY <1>5, <1>12
    <3>3. ASSUME NEW q \in Pair
          PROVE  /\ a.checks[q].nominated => t.checks[q].nominated
                 /\ a.checks[q].state = "InProgress" => t.checks[q].state = "InProgress"
                 /\ t.request[q] \in {a.request[q], NoRequest}
      BY <2>3, <3>1, <3>2
    <3> QED
      BY <2>3, <3>1, <3>2, <3>3 DEF Calmed, Grown
  <2> QED
    BY <2>2, <2>4, <2>5 DEF t
<1> QED
  BY <1>1, <1>2, <1>3, <1>7, <1>8, <1>9, <1>10, <1>11, <1>12 DEF CheckState, SameStates

\* A failed list runs again.
LEMMA RestartFit ==
    ASSUME Ordered, NEW s \in Situation, NEW C, NEW a, Fit(a, s), a.list = "Failed"
    PROVE  LET b == SetState(a, "Running")
           IN  /\ Fit(b, s) /\ Awake(b) /\ Driven(b, C) /\ b.list = "Running"
               /\ Untouched(a, b) /\ b.checks = a.checks
<1> DEFINE b == SetState(a, "Running")
<1>1. /\ Typed(b) /\ Untouched(a, b) /\ b.checks = a.checks /\ b.valid = a.valid
      /\ b.list = "Running" /\ b.que = <<>> /\ b.timer /\ b.told = a.told
  BY FitFacts, SetStateGives
<1> HIDE DEF b
<1>2. a.valid = {} /\ InState(a, {"Waiting", "Frozen", "InProgress"}) = {}
  BY DEF Fit, ListFit
<1>3. /\ \A q \in Pair : CanSelect(b, q) = CanSelect(a, q)
      /\ Selected(b) = Selected(a) /\ Selected(b) = {}
  BY <1>1, <1>2 DEF CanSelect, Selected
<1>4. \A q \in Pair : CheckFit(b, q, s)
  BY <1>1, <1>3 DEF Fit, CheckFit, Untouched
<1>5. \A e \in ToSet(b.que) : ItemFit(b, e)
  BY <1>1, EmptyQue
<1>6. \A v \in b.valid : ValidFit(b, v, s)
  BY <1>1, <1>2
<1>7. Fit(b, s)
  BY <1>1, <1>4, <1>5, <1>6 DEF Fit, ListFit, Untouched
<1>8. \A q \in Pair : b.checks[q].state # "InProgress"
  BY <1>1, <1>2 DEF InState
<1> QED
  BY <1>1, <1>3, <1>7, <1>8 DEF Awake, Driven, b

LEMMA ReceivedFit ==
    ASSUME Ordered, NEW s \in Situation, NEW C, NEW a, Fit(a, s), Awake(a), Driven(a, C),
           NEW p \in Pair, NEW f \in BOOLEAN, f => a.role = "controlled" /\ p \in s.peer
    PROVE  LET t == STUNRequestReceived(a, p, f)
           IN  Fit(t, s) /\ Awake(t) /\ Driven(t, C) /\ Calmed(a, t, p)
<1> DEFINE b == IF a.list = "Failed" THEN SetState(a, "Running") ELSE a
           t == HandleTriggeredCheck(b, p, f)
<1>1. /\ Fit(b, s) /\ Awake(b) /\ Driven(b, C) /\ b.list # "Failed"
      /\ b.request = a.request /\ b.checks = a.checks /\ b.role = a.role /\ b.name = a.name
  BY RestartFit DEF Untouched
<1>2. STUNRequestReceived(a, p, f) = t
  BY Zenon DEF STUNRequestReceived
<1> HIDE DEF b
<1>3. Fit(t, s) /\ Awake(t) /\ Driven(t, C) /\ Calmed(b, t, p)
  BY <1>1, TriggeredFit
<1> HIDE DEF t
<1>4. Calmed(a, t, p)
  BY <1>1, <1>3 DEF Calmed, Grown
<1> QED
  BY <1>2, <1>3, <1>4

\* The requests of a calmed agent, if its role stayed
LEMMA CalmedGood ==
    ASSUME NEW s \in Situation, NEW C, NEW a, Good(a, s, C), NEW p, NEW b,
           Fit(b, s), Awake(b), Driven(b, C), Calmed(a, b, p)
    PROVE  Good(b, s, C)
<1>1. ASSUME NEW q \in Pair PROVE RequestFit(b, q, s) /\ Current(b, q, s)
  <2>1. RequestFit(a, q, s) /\ Current(a, q, s) /\ a.request[q] \in Request
    BY FitFacts DEF Good
  <2>2. /\ b.role = a.role
        /\ a.checks[q].nominated => b.checks[q].nominated
        /\ a.checks[q].state = "InProgress" => b.checks[q].state = "InProgress"
        /\ b.request[q] \in {a.request[q], NoRequest, [a.request[q] EXCEPT !.awaited = FALSE]}
    BY DEF Calmed, Grown
  <2>3. CASE b.request[q] = a.request[q]
    BY <2>1, <2>2, <2>3 DEF RequestFit, Current
  <2>4. CASE b.request[q] = NoRequest
    BY <2>4 DEF RequestFit, Current, NoRequest
  <2>5. CASE b.request[q] = [a.request[q] EXCEPT !.awaited = FALSE]
    <3> DEFINE r == a.request[q]
               n == b.request[q]
    <3>1. /\ ~n.awaited /\ n.served = r.served /\ n.role = r.role /\ n.answer = r.answer
          /\ n.favored = r.favored
      BY <2>1, <2>5 DEF Request
    <3> QED
      BY <2>1, <2>2, <3>1 DEF RequestFit, Current
  <2> QED
    BY <2>2, <2>3, <2>4, <2>5
<1> QED
  BY <1>1 DEF Good

LEMMA ReceivedGood ==
    ASSUME Ordered, NEW s \in Situation, NEW C, NEW a, Good(a, s, C),
           NEW p \in Pair, NEW f \in BOOLEAN, f => a.role = "controlled" /\ p \in s.peer
    PROVE  LET t == STUNRequestReceived(a, p, f)
           IN  Good(t, s, C) /\ t.role = a.role /\ Grown(a, t)
<1> DEFINE t == STUNRequestReceived(a, p, f)
<1>1. Fit(t, s) /\ Awake(t) /\ Driven(t, C) /\ Calmed(a, t, p)
  BY ReceivedFit DEF Good
<1> HIDE DEF t
<1>2. Good(t, s, C)
  BY <1>1, CalmedGood
<1> QED
  BY <1>1, <1>2 DEF Calmed, t

\* The role changes, before anything is settled.
LEMMA RoleFit ==
    ASSUME NEW s \in Situation, NEW a, Fit(a, s), ~s.done, NEW role \in Role
    PROVE  LET b == RoleChangeNeeded(a, role)
           IN  /\ Typed(b) /\ b.name = a.name /\ b.role = role /\ b.list = a.list
               /\ b.checks = a.checks /\ b.request = a.request /\ b.valid = a.valid
               /\ b.que = a.que /\ b.timer = a.timer /\ b.told = a.told
               /\ a.valid = {} /\ a.told = {}
               /\ \A q \in Pair : ~a.checks[q].nominated
               /\ s.peer = {} => Fit(b, s)
<1> DEFINE b == RoleChangeNeeded(a, role)
<1>1. Typed(a) /\ a.valid = {} /\ \A q \in Pair : ~a.checks[q].nominated
  BY FitFacts
<1>2. a.told = {}
  BY DEF Fit
<1>3. /\ Typed(b) /\ b.role = role /\ b.name = a.name /\ b.valid = a.valid
      /\ b.list = a.list /\ b.checks = a.checks /\ b.request = a.request
      /\ b.que = a.que /\ b.timer = a.timer /\ b.told = a.told
  BY <1>1, RoleTyped
<1> HIDE DEF b
<1>4. /\ \A q \in Pair : ~CanSelect(b, q) /\ ~CanSelect(a, q)
      /\ \A S : InState(b, S) = InState(a, S)
  BY <1>1, <1>3 DEF CanSelect, InState
<1>5. ASSUME s.peer = {}, NEW q \in Pair PROVE CheckFit(b, q, s)
  BY <1>1, <1>3, <1>4, <1>5 DEF Fit, CheckFit
<1>6. ASSUME NEW e \in ToSet(b.que) PROVE ItemFit(b, e)
  <2>1. ItemFit(a, e) /\ e.pair \in Pair
    BY <1>3, FitFacts DEF Fit
  <2> QED
    BY <1>3, <1>4, <2>1 DEF ItemFit
<1>7. ListFit(b)
  BY <1>3, <1>4 DEF Fit, ListFit
<1>8. s.peer = {} => Fit(b, s)
  BY <1>1, <1>2, <1>3, <1>5, <1>6, <1>7 DEF Fit
<1> QED
  BY <1>1, <1>2, <1>3, <1>8 DEF b

\* The requests after one was sent, or was awaited already
LEMMA SentFacts ==
    ASSUME NEW s \in Situation, NEW C, NEW a, Good(a, s, C), NEW p \in Pair, NEW f \in BOOLEAN
    PROVE  /\ \A q \in Pair \ {p} : Sent(a, p, f)[q] = a.request[q]
           /\ Sent(a, p, f)[p].awaited
           /\ Sent(a, p, f)[p].role \in {s.role, a.role}
           /\ s.gives /\ p \notin s.broken => Sent(a, p, f)[p].role = a.role
           /\ Sent(a, p, f)[p].answer = "487" =>
                 s.gives /\ Sent(a, p, f)[p].role = s.role /\ p \notin s.broken
           /\ Sent(a, p, f)[p].answer = "ok" => s.done /\ p \notin s.broken
           /\ Sent(a, p, f)[p].favored => f \/ a.checks[p].nominated
<1>1. RequestFit(a, p, s) /\ Current(a, p, s) /\ a.request \in [Pair -> Request]
  BY FitFacts DEF Good
<1>2. CASE a.request[p].awaited
  <2>1. Sent(a, p, f) = a.request
    BY <1>2 DEF Sent
  <2> QED
    BY <1>1, <1>2, <2>1 DEF RequestFit, Current
<1>3. CASE ~a.request[p].awaited
  <2> DEFINE r == [ role |-> a.role, favored |-> f, awaited |-> TRUE,
                    served |-> FALSE, answer |-> "none" ]
  <2>1. Sent(a, p, f) = [a.request EXCEPT ![p] = r]
    BY <1>3 DEF Sent
  <2>2. /\ r.role = a.role /\ r.awaited /\ r.answer = "none" /\ r.favored = f
    OBVIOUS
  <2> HIDE DEF r
  <2> QED
    BY <1>1, <2>1, <2>2
<1> QED
  BY <1>2, <1>3

\* A check that did not succeed yet is performed.
LEMMA PerformedGood ==
    ASSUME NEW s \in Situation, NEW C, NEW a, Good(a, s, C), a.list # "Failed", a.timer,
           NEW p \in Pair, a.checks[p].state \notin {"Succeed", "Removed"},
           ~a.checks[p].nominated,
           NEW k \in Check, k.state = "Waiting", ~k.nominated, ~k.resend,
           k.favored = a.checks[p].favored,
           NEW b, Typed(b), Around(a, b), Performed(a, b, p, k), b.timer = a.timer,
           \A e \in ToSet(b.que) : e.pair # p /\ e \in ToSet(a.que),
           \A q \in Pair \ {p} : Queued(a, q) => Queued(b, q)
    PROVE  Good(b, s, C) /\ Grown(a, b)
<1> DEFINE n == b.checks[p]
<1>1. /\ b.checks = [a.checks EXCEPT ![p] = n]
      /\ n.favored = k.favored /\ ~n.nominated /\ ~n.resend
      /\ \/ /\ n.state = "InProgress" /\ b.request = Sent(a, p, FALSE)
         \/ n.state = "Waiting" /\ b.request = a.request /\ ~a.request[p].awaited
  <2>1. a.checks \in [Pair -> Check]
    BY FitFacts DEF Good
  <2>2. CASE CanSend(a, p)
    <3> DEFINE m == [k EXCEPT !.state = "InProgress"]
    <3>1. /\ b.checks = [a.checks EXCEPT ![p] = m]
          /\ b.request = Sent(a, p, FALSE)
      BY <2>2 DEF Performed
    <3>2. m.favored = k.favored /\ m.nominated = k.nominated /\ m.resend = k.resend
          /\ m.state = "InProgress"
      BY DEF Check
    <3> HIDE DEF m
    <3>3. n = m
      BY <2>1, <3>1
    <3> QED
      BY <3>1, <3>2, <3>3
  <2>3. CASE ~CanSend(a, p)
    <3>1. b.checks = [a.checks EXCEPT ![p] = k] /\ b.request = a.request
      BY <2>3 DEF Performed
    <3>2. ~a.request[p].awaited
      BY <2>3 DEF CanSend
    <3>3. n = k
      BY <2>1, <3>1
    <3> QED
      BY <3>1, <3>2, <3>3
  <2> QED
    BY <2>2, <2>3
<1>2. \A q \in Pair \ {p} : b.checks[q] = a.checks[q]
  <2>1. a.checks \in [Pair -> Check]
    BY FitFacts DEF Good
  <2> QED
    BY <1>1, <2>1
<1> HIDE DEF n
<1>3. CheckFit(a, p, s) /\ Fit(a, s) /\ a.list # "Idle"
  BY DEF Good, Fit, ListFit
<1>4. CheckFit(b, p, s)
  <2>1. CanSelect(b, p) = CanSelect(a, p) /\ Selected(b) = Selected(a)
    BY DEF CanSelect, Selected, Around
  <2>2. ~CanSelect(b, p)
    BY <1>3, <2>1 DEF CheckFit
  <2> QED
    BY <1>1, <1>3, <2>1, <2>2 DEF CheckFit, Around, n
<1>5. ListFit(b)
  BY <1>3 DEF ListFit, Around
<1>6. Fit(b, s)
  BY <1>1, <1>3, <1>4, <1>5, CheckReplaced DEF Around
<1>7. Grown(a, b)
  BY <1>2 DEF Grown, Around
<1>8. Awake(b)
  BY DEF Good, Awake, Around, Selected
<1>9. /\ \A q \in Pair \ {p} : Sent(a, p, FALSE)[q] = a.request[q]
      /\ Sent(a, p, FALSE)[p].awaited
      /\ Sent(a, p, FALSE)[p].role \in {s.role, a.role}
      /\ s.gives /\ p \notin s.broken => Sent(a, p, FALSE)[p].role = a.role
      /\ Sent(a, p, FALSE)[p].answer = "487" =>
            s.gives /\ Sent(a, p, FALSE)[p].role = s.role /\ p \notin s.broken
      /\ Sent(a, p, FALSE)[p].answer = "ok" => s.done /\ p \notin s.broken
      /\ Sent(a, p, FALSE)[p].favored => FALSE \/ a.checks[p].nominated
  BY SentFacts, Zenon
<1>10. ASSUME NEW q \in Pair
      PROVE  /\ RequestFit(b, q, s) /\ Current(b, q, s)
             /\ b.checks[q].state = "InProgress" /\ b.list = "Running" =>
                   b.request[q].awaited \/ q \in C \/ Queued(b, q)
  <2>1. RequestFit(a, q, s) /\ Current(a, q, s) /\ b.role = a.role /\ b.list = a.list
    BY DEF Good, Around
  <2>2. CASE q # p
    <3>1. b.request[q] = a.request[q]
      BY <1>1, <1>9, <2>2
    <3>2. b.checks[q] = a.checks[q]
      BY <1>2, <2>2
    <3> QED
      BY <2>1, <2>2, <3>1, <3>2 DEF RequestFit, Current, Good, Driven
  <2>3. CASE q = p /\ n.state = "Waiting"
    <3>1. b.request = a.request /\ ~a.request[p].awaited
      BY <1>1, <2>3
    <3> QED
      BY <2>1, <2>3, <3>1 DEF RequestFit, Current, n
  <2>4. CASE q = p /\ n.state = "InProgress"
    <3>1. b.request = Sent(a, p, FALSE)
      BY <1>1, <2>4
    <3> DEFINE r == b.request[p]
    <3>2. /\ r.awaited /\ r.role \in {s.role, a.role}
          /\ s.gives /\ p \notin s.broken => r.role = a.role
          /\ r.answer = "487" => s.gives /\ r.role = s.role /\ p \notin s.broken
          /\ r.answer = "ok" => s.done /\ p \notin s.broken
          /\ r.favored => a.checks[p].nominated
      BY <1>9, <3>1
    <3> HIDE DEF r
    <3> QED
      BY <2>1, <2>4, <3>2 DEF RequestFit, Current, n, r
  <2> QED
    BY <1>1, <2>2, <2>3, <2>4
<1>11. Driven(b, C)
  BY <1>10 DEF Driven
<1> QED
  BY <1>6, <1>7, <1>8, <1>10, <1>11 DEF Good

\* A check that succeeded is repeated as the nomination.
LEMMA NominatedGood ==
    ASSUME NEW s \in Situation, NEW C, NEW a, Good(a, s, C), a.timer, a.role = "controlling",
           NEW p \in Pair, a.checks[p].state = "Succeed", CanSelect(a, p),
           NEW b, Typed(b), Around(a, b), b.timer = a.timer, b.request = Sent(a, p, TRUE),
           b.checks = [a.checks EXCEPT ![p] =
              [a.checks[p] EXCEPT !.nominated = TRUE, !.resend = TRUE, !.state = "InProgress"]],
           \A e \in ToSet(b.que) : e.pair # p /\ e \in ToSet(a.que),
           \A q \in Pair \ {p} : Queued(a, q) => Queued(b, q)
    PROVE  Good(b, s, C) /\ Grown(a, b)
<1> DEFINE n == [a.checks[p] EXCEPT !.nominated = TRUE, !.resend = TRUE, !.state = "InProgress"]
<1>1. /\ a.checks \in [Pair -> Check] /\ Fit(a, s) /\ CheckFit(a, p, s)
      /\ a.list \in {"Running", "Completed", "Failed"}
  BY FitFacts DEF Good, Fit
<1>2. n.nominated /\ n.resend /\ n.state = "InProgress" /\ n.favored = a.checks[p].favored
  BY <1>1 DEF Check
<1>3. b.checks = [a.checks EXCEPT ![p] = n]
  OBVIOUS
<1> HIDE DEF n
<1>4. b.checks[p] = n /\ \A q \in Pair \ {p} : b.checks[q] = a.checks[q]
  BY <1>1, <1>3
<1>5. CheckFit(b, p, s)
  <2>1. CanSelect(b, p) = CanSelect(a, p)
    BY DEF CanSelect, Around
  <2> QED
    BY <1>1, <1>2, <1>4, <2>1 DEF CheckFit, Around
<1>6. ListFit(b)
  <2>1. a.valid # {}
    BY DEF CanSelect
  <2>2. a.list # "Failed" /\ a.list # "Idle"
    BY <1>1, <2>1 DEF Fit, ListFit
  <2> QED
    BY <2>2 DEF ListFit, Around
<1>7. Fit(b, s)
  BY <1>1, <1>3, <1>5, <1>6, CheckReplaced DEF Around
<1>8. Grown(a, b)
  BY <1>2, <1>4 DEF Grown, Around
<1>9. Awake(b)
  BY DEF Good, Awake, Around, Selected
<1> DEFINE f == TRUE
<1>10. f \in BOOLEAN /\ b.request = Sent(a, p, f)
  OBVIOUS
<1> HIDE DEF f
<1>11. /\ \A q \in Pair \ {p} : Sent(a, p, f)[q] = a.request[q]
       /\ Sent(a, p, f)[p].awaited
       /\ Sent(a, p, f)[p].role \in {s.role, a.role}
       /\ s.gives /\ p \notin s.broken => Sent(a, p, f)[p].role = a.role
       /\ Sent(a, p, f)[p].answer = "487" =>
             s.gives /\ Sent(a, p, f)[p].role = s.role /\ p \notin s.broken
       /\ Sent(a, p, f)[p].answer = "ok" => s.done /\ p \notin s.broken
  BY <1>10, SentFacts
<1>12. ASSUME NEW q \in Pair
       PROVE  /\ RequestFit(b, q, s) /\ Current(b, q, s)
              /\ b.checks[q].state = "InProgress" /\ b.list = "Running" =>
                    b.request[q].awaited \/ q \in C \/ Queued(b, q)
  <2>1. RequestFit(a, q, s) /\ Current(a, q, s) /\ b.role = a.role /\ b.list = a.list
    BY DEF Good, Around
  <2>2. CASE q # p
    <3>1. b.request[q] = a.request[q]
      BY <1>10, <1>11, <2>2
    <3>2. b.checks[q] = a.checks[q]
      BY <1>4, <2>2
    <3> QED
      BY <2>1, <2>2, <3>1, <3>2 DEF RequestFit, Current, Good, Driven
  <2>3. CASE q = p
    <3> DEFINE r == b.request[p]
    <3>1. /\ r.awaited /\ r.role \in {s.role, a.role}
          /\ s.gives /\ p \notin s.broken => r.role = a.role
          /\ r.answer = "487" => s.gives /\ r.role = s.role /\ p \notin s.broken
          /\ r.answer = "ok" => s.done /\ p \notin s.broken
      BY <1>10, <1>11
    <3> HIDE DEF r
    <3> QED
      BY <1>2, <1>4, <2>1, <2>3, <3>1 DEF RequestFit, Current, r
  <2> QED
    BY <2>2, <2>3
<1>13. Driven(b, C)
  BY <1>12 DEF Driven
<1> QED
  BY <1>7, <1>8, <1>9, <1>12, <1>13 DEF Good

LEMMA SingleItems ==
    ASSUME NEW a, Typed(a), NEW d \in ToSet(a.que), NEW e \in ToSet(a.que), d.pair = e.pair
    PROVE  d = e
<1>1. PICK i \in DOMAIN a.que : a.que[i] = d
  BY DEF ToSet
<1>2. PICK j \in DOMAIN a.que : a.que[j] = e
  BY DEF ToSet
<1> QED
  BY <1>1, <1>2 DEF Typed, Single

LEMMA TimerGood ==
    ASSUME Ordered, NEW s \in Situation, NEW C, NEW a, Good(a, s, C), a.timer
    PROVE  LET b == TimerFired(a)
           IN  Good(b, s, C) /\ b.role = a.role /\ Grown(a, b)
<1> DEFINE b == TimerFired(a)
<1>1. /\ Fit(a, s) /\ Typed(a) /\ a.list \in {"Running", "Completed"} /\ a.checks \in [Pair -> Check]
      /\ \A p \in Pair : CheckFit(a, p, s)
      /\ \A e \in ToSet(a.que) : ItemFit(a, e) /\ e.pair \in Pair
  BY FitFacts DEF Good, Fit, ListFit
<1>2. /\ Typed(b) /\ Around(a, b)
      /\ \/ /\ a.que # <<>> /\ b.timer = a.timer
            /\ \E e \in ToSet(a.que) :
                  LET p == e.pair
                      c == a.checks[p]
                  IN  /\ ToSet(b.que) = ToSet(a.que) \ {e}
                      /\ \/ /\ e.nomination /\ c.state = "Succeed"
                            /\ b.request = Sent(a, p, TRUE)
                            /\ b.checks = [a.checks EXCEPT ![p] =
                                  [c EXCEPT !.nominated = TRUE, !.resend = TRUE,
                                            !.state = "InProgress"]]
                         \/ /\ e.nomination /\ c.state # "Succeed"
                            /\ b.request = a.request
                            /\ b.checks \in {a.checks,
                                  [a.checks EXCEPT ![p] = [c EXCEPT !.nominated = TRUE]]}
                         \/ /\ ~e.nomination /\ c.state = "Succeed"
                            /\ b.request = a.request /\ b.checks = a.checks
                         \/ /\ ~e.nomination /\ c.state # "Succeed"
                            /\ Performed(a, b, p, [Initial(c) EXCEPT !.triggered = TRUE])
         \/ /\ a.que = <<>> /\ b.que = a.que /\ b.timer = a.timer
            /\ \E p \in InState(a, {"Waiting"}) :
                  Performed(a, b, p, [a.checks[p] EXCEPT !.triggered = FALSE])
         \/ /\ a.que = <<>> /\ b.que = a.que /\ b.timer = a.timer
            /\ \E p \in InState(a, {"Frozen"}) :
                  Performed(a, b, p, [Initial(a.checks[p]) EXCEPT !.triggered = FALSE])
         \/ /\ a.que = <<>> /\ b.que = a.que /\ ~b.timer
            /\ InState(a, {"Waiting", "Frozen"}) = {}
            /\ b.request = a.request /\ b.checks = a.checks
  BY <1>1, TimerGives, Zenon
<1> HIDE DEF b
<1>3. ASSUME NEW p \in Pair
      PROVE  /\ [Initial(a.checks[p]) EXCEPT !.triggered = TRUE] \in Check
             /\ [Initial(a.checks[p]) EXCEPT !.triggered = FALSE] \in Check
             /\ [a.checks[p] EXCEPT !.triggered = FALSE] \in Check
  BY <1>1, CheckType
<1>4. ASSUME NEW p \in Pair
      PROVE  LET c == a.checks[p]
                 k == [Initial(c) EXCEPT !.triggered = TRUE]
                 m == [Initial(c) EXCEPT !.triggered = FALSE]
                 n == [c EXCEPT !.triggered = FALSE]
             IN  /\ k.state = "Waiting" /\ ~k.nominated /\ ~k.resend /\ k.favored = c.favored
                 /\ m.state = "Waiting" /\ ~m.nominated /\ ~m.resend /\ m.favored = c.favored
                 /\ n.state = c.state /\ n.nominated = c.nominated /\ n.resend = c.resend
                 /\ n.favored = c.favored
  BY <1>1 DEF Initial, Check
<1>5. ASSUME NEW e \in ToSet(a.que), ToSet(b.que) = ToSet(a.que) \ {e}
      PROVE  /\ \A d \in ToSet(b.que) : d.pair # e.pair /\ d \in ToSet(a.que)
             /\ \A q \in Pair \ {e.pair} : Queued(a, q) => Queued(b, q)
  BY <1>1, <1>5, SingleItems DEF Queued
<1>6. ASSUME a.que = <<>>, b.que = a.que, NEW p \in Pair
      PROVE  /\ \A d \in ToSet(b.que) : d.pair # p /\ d \in ToSet(a.que)
             /\ \A q \in Pair \ {p} : Queued(a, q) => Queued(b, q)
  BY <1>6, EmptyQue DEF Queued
<1>7. ASSUME NEW e \in ToSet(a.que), ToSet(b.que) = ToSet(a.que) \ {e}, b.timer = a.timer,
             e.nomination, a.checks[e.pair].state = "Succeed",
             b.request = Sent(a, e.pair, TRUE),
             b.checks = [a.checks EXCEPT ![e.pair] = [a.checks[e.pair] EXCEPT
                            !.nominated = TRUE, !.resend = TRUE, !.state = "InProgress"]]
      PROVE  Good(b, s, C) /\ Grown(a, b)
  BY <1>1, <1>2, <1>5, <1>7, NominatedGood, Zenon DEF ItemFit
<1>8. ASSUME NEW e \in ToSet(a.que), e.nomination, a.checks[e.pair].state # "Succeed"
      PROVE  FALSE
  BY <1>1, <1>8 DEF ItemFit
<1>9. ASSUME NEW e \in ToSet(a.que), ToSet(b.que) = ToSet(a.que) \ {e}, b.timer = a.timer,
             a.checks[e.pair].state = "Succeed", b.request = a.request, b.checks = a.checks
      PROVE  Good(b, s, C) /\ Grown(a, b)
  <2>1. b.checks = a.checks /\ b.request = a.request /\ b.name = a.name /\ b.role = a.role
        /\ b.list = a.list
    BY <1>2, <1>9 DEF Around
  <2>2. /\ \A q \in Pair : CanSelect(b, q) = CanSelect(a, q)
        /\ Selected(b) = Selected(a)
    BY <1>2 DEF CanSelect, Selected, Around
  <2>3. \A q \in Pair : CheckFit(b, q, s)
    BY <1>1, <2>2, <2>1 DEF CheckFit
  <2>4. \A d \in ToSet(b.que) : ItemFit(b, d)
    BY <1>1, <1>2, <1>9, <2>2, FitFacts DEF ItemFit, Around
  <2>5. \A v \in b.valid : ValidFit(b, v, s)
    BY <1>1, <1>2 DEF Fit, ValidFit, Around
  <2>6. ListFit(b)
    BY <1>1, <1>2, <1>9 DEF ListFit, Around
  <2>7. Fit(b, s)
    BY <1>1, <1>2, <2>3, <2>4, <2>5, <2>6 DEF Fit, Around
  <2>8. Driven(b, C) /\ Awake(b)
    BY <1>2, <1>5, <1>9, <2>2 DEF Good, Driven, Awake, Around
  <2>9. \A q \in Pair : RequestFit(b, q, s) /\ Current(b, q, s)
    BY <2>1 DEF Good, RequestFit, Current
  <2> QED
    BY <1>2, <1>9, <2>7, <2>8, <2>9 DEF Good, Grown, Around
<1>10. ASSUME NEW e \in ToSet(a.que), ToSet(b.que) = ToSet(a.que) \ {e}, b.timer = a.timer,
              a.checks[e.pair].state # "Succeed",
              Performed(a, b, e.pair, [Initial(a.checks[e.pair]) EXCEPT !.triggered = TRUE])
       PROVE  Good(b, s, C) /\ Grown(a, b)
  <2> DEFINE p == e.pair
             k == [Initial(a.checks[p]) EXCEPT !.triggered = TRUE]
  <2>1. p \in Pair /\ k \in Check /\ k.state = "Waiting" /\ ~k.nominated /\ ~k.resend
        /\ k.favored = a.checks[p].favored
    BY <1>1, <1>3, <1>4
  <2>2. Performed(a, b, p, k)
    BY <1>10
  <2> HIDE DEF k
  <2>3. a.checks[p].state \notin {"Succeed", "Removed"} /\ ~a.checks[p].nominated
    BY <1>1, <1>10 DEF ItemFit
  <2>4. /\ \A d \in ToSet(b.que) : d.pair # p /\ d \in ToSet(a.que)
        /\ \A q \in Pair \ {p} : Queued(a, q) => Queued(b, q)
    BY <1>5, <1>10
  <2> HIDE DEF p
  <2> QED
    BY <1>1, <1>2, <1>10, <2>1, <2>2, <2>3, <2>4, PerformedGood
<1>11. ASSUME a.que = <<>>, b.que = a.que, b.timer = a.timer, NEW p \in Pair, NEW k \in Check,
              a.checks[p].state \in {"Waiting", "Frozen"},
              k.state = "Waiting", ~k.nominated, ~k.resend, k.favored = a.checks[p].favored,
              Performed(a, b, p, k)
       PROVE  Good(b, s, C) /\ Grown(a, b)
  <2>1. ~a.checks[p].nominated
    BY <1>1, <1>11 DEF CheckFit
  <2>2. /\ \A d \in ToSet(b.que) : d.pair # p /\ d \in ToSet(a.que)
        /\ \A q \in Pair \ {p} : Queued(a, q) => Queued(b, q)
    BY <1>6, <1>11
  <2> QED
    BY <1>1, <1>2, <1>11, <2>1, <2>2, PerformedGood
<1>12. ASSUME a.que = <<>>, b.que = a.que, b.timer = a.timer, NEW p \in InState(a, {"Waiting"}),
              Performed(a, b, p, [a.checks[p] EXCEPT !.triggered = FALSE])
       PROVE  Good(b, s, C) /\ Grown(a, b)
  <2> DEFINE k == [a.checks[p] EXCEPT !.triggered = FALSE]
  <2>1. p \in Pair /\ a.checks[p].state = "Waiting"
    BY DEF InState
  <2>2. ~a.checks[p].nominated /\ ~a.checks[p].resend
    BY <1>1, <2>1 DEF CheckFit
  <2>3. k \in Check /\ k.state = "Waiting" /\ ~k.nominated /\ ~k.resend
        /\ k.favored = a.checks[p].favored
    BY <1>3, <1>4, <2>1, <2>2
  <2>4. Performed(a, b, p, k)
    BY <1>12
  <2> HIDE DEF k
  <2> QED
    BY <1>11, <1>12, <2>1, <2>3, <2>4
<1>13. ASSUME a.que = <<>>, b.que = a.que, b.timer = a.timer, NEW p \in InState(a, {"Frozen"}),
              Performed(a, b, p, [Initial(a.checks[p]) EXCEPT !.triggered = FALSE])
       PROVE  Good(b, s, C) /\ Grown(a, b)
  <2> DEFINE k == [Initial(a.checks[p]) EXCEPT !.triggered = FALSE]
  <2>1. p \in Pair /\ a.checks[p].state = "Frozen"
    BY DEF InState
  <2>2. k \in Check /\ k.state = "Waiting" /\ ~k.nominated /\ ~k.resend
        /\ k.favored = a.checks[p].favored
    BY <1>3, <1>4, <2>1
  <2>3. Performed(a, b, p, k)
    BY <1>13
  <2> HIDE DEF k
  <2> QED
    BY <1>11, <1>13, <2>1, <2>2, <2>3
<1>14. ASSUME a.que = <<>>, b.que = a.que, InState(a, {"Waiting", "Frozen"}) = {},
              b.request = a.request, b.checks = a.checks
       PROVE  Good(b, s, C) /\ Grown(a, b)
  <2>1. b.checks = a.checks /\ b.request = a.request /\ b.name = a.name /\ b.role = a.role
        /\ b.list = a.list
    BY <1>2, <1>14 DEF Around
  <2>2. /\ \A q \in Pair : CanSelect(b, q) = CanSelect(a, q)
        /\ Selected(b) = Selected(a)
        /\ InState(b, {"Waiting", "Frozen"}) = {}
    BY <1>2, <1>14 DEF CanSelect, Selected, Around, InState
  <2>3. \A q \in Pair : CheckFit(b, q, s)
    BY <1>1, <2>2, <2>1 DEF CheckFit
  <2>4. \A d \in ToSet(b.que) : ItemFit(b, d)
    BY <1>14, EmptyQue
  <2>5. \A v \in b.valid : ValidFit(b, v, s)
    BY <1>1, <1>2 DEF Fit, ValidFit, Around
  <2>6. ListFit(b)
    BY <1>1, <1>2, <1>14, <2>2 DEF ListFit, Around
  <2>7. Fit(b, s)
    BY <1>1, <1>2, <2>3, <2>4, <2>5, <2>6 DEF Fit, Around
  <2>8. Driven(b, C) /\ Awake(b)
    BY <1>2, <1>14, <2>2 DEF Good, Driven, Awake, Around, Queued
  <2>9. \A q \in Pair : RequestFit(b, q, s) /\ Current(b, q, s)
    BY <2>1 DEF Good, RequestFit, Current
  <2> QED
    BY <1>2, <1>14, <2>7, <2>8, <2>9 DEF Good, Grown, Around
<1>15. Good(b, s, C) /\ Grown(a, b)
  BY <1>2, <1>7, <1>8, <1>9, <1>10, <1>12, <1>13, <1>14, Zenon
<1> QED
  BY <1>2, <1>15 DEF Around, b
-----------------------------------------------------------------------------
(* Completed checks *)

\* Distinct pairs have distinct priorities.
LEMMA ValidDistinct ==
    ASSUME Ordered, NEW s \in Situation, NEW a, Fit(a, s), NEW p \in Pair, NEW w \in a.valid
    PROVE  w.priority = PrioritizePair(a.name, a.role, p) => w.pair = p
<1>1. /\ w.priority = PrioritizePair(a.name, a.role, w.pair) /\ w.pair \in Pair
      /\ a.name \in Agent /\ a.role \in Role
  BY FitFacts DEF Fit, ValidFit
<1> QED
  BY <1>1 DEF Ordered

\* A check in progress has failed, or its nomination has arrived.
LEMMA PutFit ==
    ASSUME NEW s \in Situation, NEW a, Fit(a, s), NEW p \in Pair,
           a.checks[p].state = "InProgress", NEW state \in CheckState,
           \/ state = "Failed" /\ ~a.checks[p].nominated
           \/ state = "InProgress" /\ a.checks[p].nominated /\ Selected(a) # {}
           \/ state = "Succeed" /\ ~a.checks[p].resend /\ p \notin s.broken
    PROVE  LET b == Put(a, p, state)
           IN  /\ Fit(b, s) /\ Around(a, b) /\ b.que = a.que /\ b.timer = a.timer
               /\ b.request = a.request
               /\ b.checks[p].state = state
               /\ b.checks[p].nominated = a.checks[p].nominated
               /\ \A q \in Pair \ {p} : b.checks[q] = a.checks[q]
<1> DEFINE k == Moved(a.checks[p], state)
           b == Put(a, p, state)
<1>1. /\ Typed(a) /\ a.checks \in [Pair -> Check] /\ CheckFit(a, p, s)
      /\ state \in CheckState
  BY FitFacts DEF Fit, CheckState
<1>2. /\ Typed(b) /\ Around(a, b) /\ b.que = a.que /\ b.timer = a.timer
      /\ b.request = a.request /\ b.checks = [a.checks EXCEPT ![p] = k]
  <2>1. Typed(a) /\ state \in CheckState
    BY <1>1
  <2> HIDE DEF k
  <2> QED
    BY <2>1, PutGives DEF k
<1>3. /\ k.state = state /\ ~k.resend /\ k.nominated = a.checks[p].nominated
      /\ k.favored = a.checks[p].favored
  BY <1>1 DEF Check, Moved
<1> HIDE DEF b, k
<1>4. b.checks[p] = k /\ \A q \in Pair \ {p} : b.checks[q] = a.checks[q]
  BY <1>1, <1>2
<1>5. CheckFit(b, p, s)
  <2>1. CanSelect(b, p) = CanSelect(a, p) /\ Selected(b) = Selected(a)
    BY <1>2 DEF CanSelect, Selected, Around
  <2> QED
    BY <1>1, <1>2, <1>3, <1>4, <2>1 DEF CheckFit, Around
<1>6. ListFit(b)
  <2>1. InState(b, {"Waiting", "Frozen"}) \subseteq InState(a, {"Waiting", "Frozen"})
    BY <1>3, <1>4 DEF InState
  <2>2. a.list # "Failed"
    BY DEF Fit, ListFit, InState
  <2> QED
    BY <1>2, <2>1, <2>2 DEF Fit, ListFit, Around
<1>7. \A e \in ToSet(b.que) :
         (e.pair # p /\ e \in ToSet(a.que)) \/ (e.pair = p /\ ItemFit(b, e))
  BY <1>2, <1>3, <1>4 DEF Fit, ItemFit, Around
<1>8. Fit(b, s)
  BY <1>2, <1>5, <1>6, <1>7, CheckReplaced DEF Around
<1> QED
  BY <1>2, <1>3, <1>4, <1>8 DEF b

\* A check has succeeded: its pair is valid, and the best valid pair may be nominated.
LEMMA SucceededFit ==
    ASSUME Ordered, NEW s \in Situation, NEW C, NEW a, Good(a, s, C), NEW p \in Pair,
           a.checks[p].state = "InProgress", ~a.checks[p].resend, s.done, p \notin s.broken
    PROVE  LET d == Put(a, p, "Succeed")
               v == [pair |-> p, selected |-> Selects(a.checks[p]),
                     priority |-> PrioritizePair(d.name, d.role, p)]
               b == Nominate(Unfreeze(AddValidPair(d, v), Foundation[p]))
           IN  /\ Fit(b, s) /\ Driven(b, C \ {p}) /\ b.role = a.role
               /\ b.request = a.request /\ Grown(a, b)
               /\ \A q \in Pair \ {p} :
                     a.checks[q].state = "InProgress" => b.checks[q].state = "InProgress"
<1> DEFINE c == a.checks[p]
           d == Put(a, p, "Succeed")
           v == [pair |-> p, selected |-> Selects(c),
                 priority |-> PrioritizePair(d.name, d.role, p)]
           b == Nominate(Unfreeze(AddValidPair(d, v), Foundation[p]))
           k == Moved(c, "Succeed")
<1>1. /\ Fit(a, s) /\ Typed(a) /\ a.checks \in [Pair -> Check]
      /\ \A q \in Pair : CheckFit(a, q, s)
      /\ a.list \in {"Running", "Completed"} /\ (a.list = "Running" => Selected(a) = {})
      /\ c \in Check /\ Selects(c) \in BOOLEAN
  <2>1. Fit(a, s) /\ Typed(a) /\ a.checks \in [Pair -> Check] /\ \A q \in Pair : CheckFit(a, q, s)
    BY FitFacts DEF Good, Fit
  <2>2. a.list \in {"Running", "Completed"} /\ (a.list = "Running" => Selected(a) = {})
    BY FitFacts DEF Good, Fit, ListFit, InState, Awake
  <2>3. c \in Check /\ Selects(c) \in BOOLEAN
    BY <2>1 DEF Check, Selects
  <2> QED
    BY <2>1, <2>2, <2>3
<1>2. /\ Typed(d) /\ Around(a, d) /\ d.que = a.que /\ d.timer = a.timer
      /\ d.request = a.request /\ d.checks = [a.checks EXCEPT ![p] = k]
  <2>1. Typed(a) /\ "Succeed" \in CheckState
    BY <1>1 DEF CheckState
  <2> HIDE DEF k
  <2> QED
    BY <2>1, PutGives DEF k
<1>3. /\ k.state = "Succeed" /\ ~k.resend /\ k.nominated = c.nominated
      /\ k.favored = c.favored
  BY <1>1 DEF Check, Moved
<1>4. v.pair = p /\ v.selected = Selects(c) /\ v.priority = PrioritizePair(a.name, a.role, p)
  <2> HIDE DEF d, c
  <2> QED
    BY <1>2 DEF Around
<1>5. /\ Typed(b) /\ Untouched(d, b) /\ b.checks = Thawed(d.checks, Foundation[p])
      /\ b.list = d.list /\ b.told = d.told
      /\ b.valid = {w \in d.valid : w.priority # v.priority} \cup {v}
      /\ \/ b.que = d.que /\ b.timer = d.timer
         \/ /\ d.role = "controlling"
            /\ ~\E q \in Pair : b.checks[q].nominated
            /\ b.timer
            /\ \E w \in b.valid :
                  /\ w.pair \in Pair
                  /\ ToSet(b.que) = {e \in ToSet(d.que) : e.pair # w.pair}
                                      \cup {[pair |-> w.pair, nomination |-> TRUE]}
  <2> DEFINE sel == Selects(c)
             f == Foundation[p]
  <2>1. sel \in BOOLEAN
    BY <1>1
  <2>2. /\ v = [pair |-> p, selected |-> sel, priority |-> PrioritizePair(d.name, d.role, p)]
        /\ b = Nominate(Unfreeze(AddValidPair(d, v), f))
    OBVIOUS
  <2> HIDE DEF b, d, v, sel, f
  <2>3. b.checks = Thawed(d.checks, f)
    BY <1>2, <2>1, <2>2, AddedGives
  <2> QED
    BY <1>2, <2>1, <2>2, <2>3, AddedGives DEF f
<1> HIDE DEF b, d, v, k, c
<1>6. /\ b.name = a.name /\ b.role = a.role /\ b.request = a.request /\ b.list = a.list
      /\ b.told = a.told
      /\ b.valid = {w \in a.valid : w.priority # v.priority} \cup {v}
  BY <1>2, <1>5 DEF Untouched, Around
<1>7. /\ \A q \in Pair \ {p} : CanSelect(b, q) = CanSelect(a, q)
      /\ CanSelect(b, p)
  <2>1. \A w \in a.valid : w.priority = v.priority => w.pair = p
    BY <1>1, <1>4, ValidDistinct
  <2>2. v \in b.valid
    BY <1>6
  <2> QED
    BY <1>4, <1>6, <2>1, <2>2 DEF CanSelect
<1>8. /\ b.checks[p] = k
      /\ \A q \in Pair \ {p} :
            LET n == b.checks[q]
                o == a.checks[q]
            IN  /\ n.nominated = o.nominated /\ n.resend = o.resend /\ n.favored = o.favored
                /\ n.state = o.state \/ (o.state = "Frozen" /\ n.state = "Waiting")
  <2>1. d.checks[p] = k /\ \A q \in Pair \ {p} : d.checks[q] = a.checks[q]
    BY <1>1, <1>2
  <2>2. b.checks[p] = k
    BY <1>3, <1>5, <2>1 DEF Thawed
  <2>3. ASSUME NEW q \in Pair \ {p}
        PROVE  b.checks[q] = IF a.checks[q].state = "Frozen" /\ Foundation[q] = Foundation[p]
                             THEN [a.checks[q] EXCEPT !.state = "Waiting"] ELSE a.checks[q]
    BY <1>5, <2>1 DEF Thawed
  <2>4. \A q \in Pair : a.checks[q] \in Check
    BY <1>1
  <2>5. \A o \in Check : LET n == [o EXCEPT !.state = "Waiting"]
                         IN  /\ n.nominated = o.nominated /\ n.resend = o.resend
                             /\ n.favored = o.favored /\ n.state = "Waiting"
    BY DEF Check
  <2> QED
    <3>1. ASSUME NEW q \in Pair \ {p}
          PROVE  LET n == b.checks[q]
                     o == a.checks[q]
                 IN  /\ n.nominated = o.nominated /\ n.resend = o.resend /\ n.favored = o.favored
                     /\ n.state = o.state \/ (o.state = "Frozen" /\ n.state = "Waiting")
      <4> DEFINE o == a.checks[q]
                 m == [o EXCEPT !.state = "Waiting"]
      <4>1. /\ m.nominated = o.nominated /\ m.resend = o.resend
            /\ m.favored = o.favored /\ m.state = "Waiting"
        BY <2>4, <2>5
      <4>2. b.checks[q] = o \/ (o.state = "Frozen" /\ b.checks[q] = m)
        BY <2>3
      <4> HIDE DEF o, m
      <4> QED
        BY <4>1, <4>2 DEF o
    <3> QED
      BY <2>2, <3>1
<1>9. ASSUME NEW q \in Pair PROVE CheckFit(b, q, s)
  <2>1. CASE q = p
    BY <1>1, <1>3, <1>6, <1>7, <1>8, <2>1 DEF CheckFit, c
  <2>2. CASE q # p
    <3>1. a.checks[q].nominated /\ ~a.checks[q].resend => b.list = "Completed"
      BY <1>1, <1>6 DEF CheckFit
    <3> QED
      BY <1>1, <1>6, <1>7, <1>8, <2>2, <3>1 DEF CheckFit
  <2> QED
    BY <2>1, <2>2
<1>10. \A e \in ToSet(d.que) : ItemFit(b, e)
  <2> SUFFICES ASSUME NEW e \in ToSet(d.que) PROVE ItemFit(b, e)
    OBVIOUS
  <2>1. ItemFit(a, e) /\ e.pair \in Pair
    BY <1>1, <1>2, FitFacts DEF Fit
  <2>2. CASE e.pair = p
    BY <1>1, <1>3, <1>6, <1>7, <1>8, <2>1, <2>2 DEF ItemFit, c
  <2>3. CASE e.pair # p
    BY <1>6, <1>7, <1>8, <2>1, <2>3 DEF ItemFit
  <2> QED
    BY <2>2, <2>3
<1>11. \A e \in ToSet(b.que) : ItemFit(b, e)
  <2>1. ASSUME d.role = "controlling", ~\E q \in Pair : b.checks[q].nominated,
               NEW w \in b.valid, w.pair \in Pair
        PROVE  ItemFit(b, [pair |-> w.pair, nomination |-> TRUE])
    <3>1. CanSelect(b, w.pair)
      BY <2>1 DEF CanSelect
    <3>2. b.checks[w.pair].state = "Succeed" /\ ~b.checks[w.pair].nominated
      BY <1>9, <2>1, <3>1 DEF CheckFit
    <3>3. b.role = "controlling"
      BY <1>2, <1>6, <2>1 DEF Around
    <3> QED
      BY <3>1, <3>2, <3>3 DEF ItemFit
  <2> QED
    BY <1>5, <1>10, <2>1
<1>12. \A w \in b.valid : ValidFit(b, w, s)
  <2>1. \A w \in a.valid : ValidFit(b, w, s)
    BY <1>1, <1>6 DEF Fit, ValidFit
  <2>2. ValidFit(b, v, s)
    BY <1>1, <1>4, <1>6 DEF ValidFit, CheckFit, Selects, c
  <2> QED
    BY <1>6, <2>1, <2>2
<1>13. ListFit(b)
  <2>1. InState(b, {"Waiting", "Frozen"}) \subseteq InState(a, {"Waiting", "Frozen"})
    BY <1>3, <1>8 DEF InState
  <2>2. b.timer \/ (b.que = a.que /\ b.timer = a.timer)
    BY <1>2, <1>5
  <2> QED
    BY <1>1, <1>6, <2>1, <2>2 DEF Fit, ListFit
<1>14. Fit(b, s)
  BY <1>1, <1>5, <1>6, <1>9, <1>11, <1>12, <1>13 DEF Fit
<1>15. Driven(b, C \ {p})
  <2>1. \A q \in Pair : Queued(a, q) => Queued(b, q)
    <3>1. CASE b.que = d.que
      BY <1>2, <3>1 DEF Queued
    <3>2. ASSUME NEW w \in b.valid, w.pair \in Pair,
                 ToSet(b.que) = {e \in ToSet(d.que) : e.pair # w.pair}
                                  \cup {[pair |-> w.pair, nomination |-> TRUE]},
                 NEW q \in Pair, Queued(a, q)
          PROVE  Queued(b, q)
      <4> DEFINE i == [pair |-> w.pair, nomination |-> TRUE]
      <4>1. i.pair = w.pair /\ i \in ToSet(b.que)
        BY <3>2
      <4> HIDE DEF i
      <4>2. CASE q = w.pair
        BY <4>1, <4>2 DEF Queued
      <4>3. CASE q # w.pair
        BY <1>2, <3>2, <4>3 DEF Queued
      <4> QED
        BY <4>2, <4>3
    <3> QED
      BY <1>5, <3>1, <3>2
  <2>2. \A q \in Pair : b.checks[q].state = "InProgress" =>
           q # p /\ a.checks[q].state = "InProgress"
    BY <1>3, <1>8
  <2>3. Driven(a, C)
    BY DEF Good
  <2> QED
    BY <1>6, <2>1, <2>2, <2>3 DEF Driven
<1>16. Grown(a, b)
  BY <1>3, <1>6, <1>8 DEF Grown, c
<1>17. \A q \in Pair \ {p} :
          a.checks[q].state = "InProgress" => b.checks[q].state = "InProgress"
  BY <1>8
<1> QED
  BY <1>6, <1>14, <1>15, <1>16, <1>17 DEF b, d, v, c

\* What sends nothing keeps the requests right.
LEMMA QuietGood ==
    ASSUME NEW s \in Situation, NEW C, NEW a, Good(a, s, C), NEW p \in Pair, NEW D, NEW b,
           Fit(b, s), Awake(b), Driven(b, D), b.request = a.request, Grown(a, b),
           s.gives => ~a.request[p].awaited,
           \A q \in Pair \ {p} :
              a.checks[q].state = "InProgress" => b.checks[q].state = "InProgress",
           \/ b.role = a.role
           \/ a.role = s.role /\ \A q \in Pair : q \notin s.broken => q = p
    PROVE  Good(b, s, D)
<1>1. ASSUME NEW q \in Pair PROVE RequestFit(b, q, s)
  BY DEF Good, RequestFit, Grown
<1>2. ASSUME NEW q \in Pair PROVE Current(b, q, s)
  <2>1. Current(a, q, s)
    BY DEF Good
  <2> QED
    BY <2>1 DEF Current
<1> QED
  BY <1>1, <1>2 DEF Good

\* What may come to be called back
Expected(a, p, outcome, s) ==
    /\ outcome \in {"ok", "487", "timedOut"}
    /\ outcome = "ok" => s.done /\ p \notin s.broken
    /\ outcome = "timedOut" => p \in s.broken
    /\ outcome = "487" => /\ a.role = s.role /\ ~s.done /\ p \notin s.broken
                          /\ \A q \in Pair : q \notin s.broken => q = p
    /\ s.gives => ~a.request[p].awaited

\* A check that failed; with 487 it is queued again, and the role changes.
LEMMA FailedGood ==
    ASSUME Ordered, NEW s \in Situation, s.done \/ s.peer = {}, NEW C, NEW a, Good(a, s, C),
           NEW p \in Pair, NEW outcome, outcome # "ok", Expected(a, p, outcome, s),
           a.checks[p].state = "InProgress", NEW D, C \ {p} \subseteq D
    PROVE  LET b == ConnCheckCompleted(a, p, outcome)
           IN  /\ Good(b, s, D) /\ Grown(a, b)
               /\ b.role = a.role \/ (outcome = "487" /\ b.role = Other(a.role))
<1> DEFINE d == Put(a, p, "Failed")
           e == Enqueue(d, p, FALSE)
           r == RoleChangeNeeded(e, Other(d.role))
           g == IF outcome = "487" THEN r ELSE d
           b == UpdateCheckListState(g)
<1>1. Fit(a, s) /\ CheckFit(a, p, s) /\ a.list # "Failed"
  BY DEF Good, Fit, ListFit, InState
<1>2. ~a.checks[p].nominated /\ ~a.checks[p].resend
  BY <1>1, FitFacts DEF CheckFit, Expected
<1>3. /\ Fit(d, s) /\ Around(a, d) /\ d.que = a.que /\ d.timer = a.timer
      /\ d.request = a.request /\ d.checks[p].state = "Failed"
      /\ ~d.checks[p].nominated /\ \A q \in Pair \ {p} : d.checks[q] = a.checks[q]
  <2>1. "Failed" \in CheckState
    BY DEF CheckState
  <2> HIDE DEF d
  <2>2. /\ Fit(d, s) /\ Around(a, d) /\ d.que = a.que /\ d.timer = a.timer
        /\ d.request = a.request /\ d.checks[p].state = "Failed"
        /\ d.checks[p].nominated = a.checks[p].nominated
        /\ \A q \in Pair \ {p} : d.checks[q] = a.checks[q]
    BY <1>1, <1>2, <2>1, PutFit DEF d
  <2> QED
    BY <1>2, <2>2
<1>4. ConnCheckCompleted(a, p, outcome) = b
  <2>1. ConnCheckCompleted(a, p, outcome) = CheckFailed(d, p, outcome)
    BY <1>2, CompletedIs
  <2> HIDE DEF d
  <2> QED
    BY <2>1, Zenon DEF CheckFailed
<1> HIDE DEF d
<1>5. Driven(d, D)
  BY <1>3 DEF Good, Driven, Around, Queued
<1>6. Grown(a, d)
  BY <1>1, <1>2, <1>3 DEF Grown, Around
<1>7. ASSUME outcome = "487"
      PROVE  /\ Fit(e, s) /\ Silent(d, e) /\ Beside(d, e)
             /\ \A q \in Pair : Queued(d, q) => Queued(e, q)
  <2>1. ItemFit(d, [pair |-> p, nomination |-> FALSE]) /\ d.list # "Failed"
    BY <1>1, <1>3 DEF ItemFit, Around
  <2> DEFINE n == FALSE
  <2>2. n \in BOOLEAN /\ ItemFit(d, [pair |-> p, nomination |-> n]) /\ e = Enqueue(d, p, n)
    BY <2>1
  <2> HIDE DEF n, e
  <2> QED
    BY <1>3, <2>1, <2>2, EnqueueFit
<1> HIDE DEF e
<1>8. ASSUME outcome = "487"
      PROVE  /\ Fit(r, s) /\ r.name = e.name /\ r.role = Other(d.role) /\ r.list = e.list
             /\ r.checks = e.checks /\ r.request = e.request /\ r.que = e.que
  <2>1. ~s.done /\ s.peer = {} /\ Other(d.role) \in Role
    BY <1>3, <1>8, FitFacts, RoleFacts DEF Expected
  <2> QED
    BY <1>7, <1>8, <2>1, RoleFit
<1> HIDE DEF r
<1>9. /\ Fit(g, s) /\ Driven(g, D) /\ g.request = a.request /\ Grown(a, g)
      /\ \A q \in Pair \ {p} :
            a.checks[q].state = "InProgress" => g.checks[q].state = "InProgress"
      /\ g.role = a.role \/ (outcome = "487" /\ g.role = Other(a.role))
  <2>1. CASE outcome # "487"
    BY <1>3, <1>5, <1>6, <2>1 DEF Around
  <2>2. CASE outcome = "487"
    <3>1. g = r
      BY <2>2
    <3>2. r.checks = d.checks /\ r.request = a.request /\ r.list = d.list /\ r.name = d.name
          /\ r.role = Other(a.role)
      BY <1>3, <1>7, <1>8, <2>2 DEF Beside, Around
    <3>3. \A q \in Pair : Queued(d, q) => Queued(r, q)
      BY <1>7, <1>8, <2>2 DEF Queued
    <3>4. Driven(r, D)
      BY <1>3, <1>5, <3>2, <3>3 DEF Driven
    <3>5. Grown(a, r)
      BY <1>6, <3>2 DEF Grown
    <3> HIDE DEF g
    <3> QED
      BY <1>3, <1>8, <2>2, <3>1, <3>2, <3>4, <3>5
  <2> QED
    BY <2>1, <2>2
<1> HIDE DEF g
<1>10. Fit(b, s) /\ Awake(b) /\ Silent(g, b) /\ b.role = g.role /\ Driven(b, D)
  BY <1>9, UpdateFit
<1> HIDE DEF b
<1>11. Grown(a, b) /\ b.request = a.request
  BY <1>9, <1>10 DEF Silent, Grown
<1>12. \A q \in Pair \ {p} :
          a.checks[q].state = "InProgress" => b.checks[q].state = "InProgress"
  BY <1>9, <1>10 DEF Silent
<1>13. s.gives => ~a.request[p].awaited
  BY DEF Expected
<1>14. \/ b.role = a.role
       \/ a.role = s.role /\ \A q \in Pair : q \notin s.broken => q = p
  BY <1>9, <1>10 DEF Expected
<1>15. Good(b, s, D)
  BY <1>10, <1>11, <1>12, <1>13, <1>14, QuietGood
<1> QED
  BY <1>4, <1>9, <1>10, <1>11, <1>15

\* A nomination has arrived.
LEMMA ResentGood ==
    ASSUME Ordered, NEW s \in Situation, NEW C, NEW a, Good(a, s, C),
           NEW p \in Pair, Expected(a, p, "ok", s),
           a.checks[p].state = "InProgress", a.checks[p].resend, NEW D
    PROVE  LET b == ConnCheckCompleted(a, p, "ok")
           IN  Good(b, s, D) /\ Grown(a, b) /\ b.role = a.role
<1> DEFINE d == SetPairNominated(a, p)
           e == Put(d, p, "InProgress")
           b == UpdateCheckListState(e)
<1>1. Fit(a, s) /\ Typed(a) /\ CheckFit(a, p, s)
  BY FitFacts DEF Good, Fit
<1>2. a.checks[p].nominated /\ CanSelect(a, p) /\ a.role = "controlling"
  BY <1>1 DEF CheckFit
<1>3. /\ Fit(d, s) /\ Silent(a, d) /\ d.role = a.role /\ Selected(d) # {}
      /\ d.checks = a.checks /\ d.list = a.list /\ d.que = a.que
  BY <1>1, <1>2, SelectFit
<1>4. SetPairNominated(Put(a, p, "InProgress"), p) = e
  <2> DEFINE v == FirstValid({w \in a.valid : w.pair = p})
             vs == (a.valid \ {v}) \cup {[v EXCEPT !.selected = TRUE]}
             m == Moved(a.checks[p], "InProgress")
             ch == [a.checks EXCEPT ![p] = m]
  <2>1. SetPairNominated(a, p) = [a EXCEPT !.valid = vs]
    BY DEF SetPairNominated
  <2>2. \A x : Put(x, p, "InProgress")
                  = [x EXCEPT !.checks[p] = Moved(x.checks[p], "InProgress")]
    BY DEF Put
  <2>3. a \in AgentType
    BY <1>1 DEF Typed
  <2>4. Put(a, p, "InProgress") = [a EXCEPT !.checks = ch]
    BY <2>2, <2>3 DEF AgentType
  <2>5. [a EXCEPT !.checks = ch].valid = a.valid
    BY <2>3 DEF AgentType
  <2>6. SetPairNominated([a EXCEPT !.checks = ch], p)
           = [[a EXCEPT !.checks = ch] EXCEPT !.valid = vs]
    <3> DEFINE z == [a EXCEPT !.checks = ch]
    <3>1. z.valid = a.valid
      BY <2>5
    <3> HIDE DEF z
    <3> QED
      BY <3>1 DEF SetPairNominated
  <2> HIDE DEF vs
  <2>7. [a EXCEPT !.valid = vs].checks = a.checks
    BY <2>3 DEF AgentType
  <2>8. Put([a EXCEPT !.valid = vs], p, "InProgress")
           = [[a EXCEPT !.valid = vs] EXCEPT !.checks = ch]
    <3> DEFINE z == [a EXCEPT !.valid = vs]
    <3>1. z.checks = a.checks
      BY <2>7
    <3>2. [z EXCEPT !.checks[p] = Moved(z.checks[p], "InProgress")]
             = [z EXCEPT !.checks = [z.checks EXCEPT ![p] = Moved(z.checks[p], "InProgress")]]
      BY <2>3 DEF AgentType
    <3>3. [z.checks EXCEPT ![p] = Moved(z.checks[p], "InProgress")] = ch
      <4> HIDE DEF z
      <4> QED
        BY <3>1
    <3> HIDE DEF z, ch
    <3>4. Put(z, p, "InProgress") = [z EXCEPT !.checks = ch]
      BY <2>2, <3>2, <3>3
    <3> QED
      BY <3>4 DEF z
  <2> HIDE DEF ch
  <2>9. [[a EXCEPT !.valid = vs] EXCEPT !.checks = ch]
           = [[a EXCEPT !.checks = ch] EXCEPT !.valid = vs]
    BY <2>3 DEF AgentType
  <2> QED
    BY <2>1, <2>4, <2>6, <2>8, <2>9
<1>5. ConnCheckCompleted(a, p, "ok") = b
  <2> HIDE DEF e
  <2>1. ConnCheckCompleted(a, p, "ok")
           = UpdateCheckListState(SetPairNominated(Put(a, p, "InProgress"), p))
    BY <1>2, CompletedIs
  <2> QED
    BY <1>4, <2>1
<1> HIDE DEF d
<1>6. /\ Fit(e, s) /\ Around(d, e) /\ e.request = d.request
      /\ e.checks[p].state = "InProgress" /\ e.checks[p].nominated = d.checks[p].nominated
      /\ \A q \in Pair \ {p} : e.checks[q] = d.checks[q]
  <2>1. "InProgress" \in CheckState
    BY DEF CheckState
  <2> HIDE DEF e
  <2> QED
    BY <1>2, <1>3, <2>1, PutFit DEF e
<1> HIDE DEF e
<1>7. Fit(b, s) /\ Awake(b) /\ Silent(e, b) /\ b.role = e.role
  BY <1>6, UpdateFit
<1>8. b.valid = e.valid
  BY <1>6, FitFacts, UpdateGives
<1> HIDE DEF b
<1>9. Driven(b, D)
  BY <1>3, <1>6, <1>7, <1>8 DEF Driven, Awake, Selected, Around
<1>10. b.request = a.request /\ Grown(a, b) /\ b.role = a.role
  BY <1>2, <1>3, <1>6, <1>7 DEF Silent, Grown, Around
<1>11. \A q \in Pair \ {p} :
          a.checks[q].state = "InProgress" => b.checks[q].state = "InProgress"
  BY <1>3, <1>6, <1>7 DEF Silent
<1>12. s.gives => ~a.request[p].awaited
  BY DEF Expected
<1>13. Good(b, s, D)
  BY <1>7, <1>9, <1>10, <1>11, <1>12, QuietGood
<1> QED
  BY <1>5, <1>10, <1>13

LEMMA CompletedGood ==
    ASSUME Ordered, NEW s \in Situation, s.done \/ s.peer = {}, NEW C, NEW a, Good(a, s, C),
           NEW p \in Pair, NEW outcome, Expected(a, p, outcome, s),
           NEW D, C \ {p} \subseteq D
    PROVE  LET b == ConnCheckCompleted(a, p, outcome)
           IN  /\ Good(b, s, D) /\ Grown(a, b)
               /\ b.role = a.role \/ (outcome = "487" /\ b.role = Other(a.role))
<1> DEFINE b == ConnCheckCompleted(a, p, outcome)
<1>1. CASE a.checks[p].state # "InProgress"
  <2>1. b = a
    BY <1>1, CompletedIs
  <2>2. Driven(a, D)
    BY <1>1 DEF Good, Driven
  <2> HIDE DEF b
  <2>3. Good(b, s, D) /\ Grown(a, b) /\ b.role = a.role
    BY <2>1, <2>2 DEF Good, Grown
  <2> QED
    BY <2>3 DEF b
<1>2. CASE a.checks[p].state = "InProgress" /\ outcome # "ok"
  BY <1>2, FailedGood
<1>3. CASE a.checks[p].state = "InProgress" /\ outcome = "ok" /\ a.checks[p].resend
  BY <1>3, ResentGood
<1>4. CASE a.checks[p].state = "InProgress" /\ outcome = "ok" /\ ~a.checks[p].resend
  <2> DEFINE d == Put(a, p, "Succeed")
             v == [pair |-> p, selected |-> Selects(a.checks[p]),
                   priority |-> PrioritizePair(d.name, d.role, p)]
             g == Nominate(Unfreeze(AddValidPair(d, v), Foundation[p]))
  <2>1. s.done /\ p \notin s.broken
    BY <1>4 DEF Expected
  <2>2. b = CheckSucceeded(d, p, Selects(a.checks[p]))
    BY <1>4, CompletedIs
  <2>3. s.gives => ~a.request[p].awaited
    BY DEF Expected
  <2>4. CASE CanAdd(d, v)
    <3>1. /\ Fit(g, s) /\ Driven(g, C \ {p}) /\ g.role = a.role
          /\ g.request = a.request /\ Grown(a, g)
          /\ \A q \in Pair \ {p} :
                a.checks[q].state = "InProgress" => g.checks[q].state = "InProgress"
      BY <1>4, <2>1, SucceededFit
    <3> HIDE DEF b, d
    <3>2. b = UpdateCheckListState(g)
      <4> HIDE DEF g
      <4> QED
        BY <2>2, <2>4, Zenon DEF CheckSucceeded, g
    <3> HIDE DEF g, v
    <3>3. Driven(g, D)
      BY <3>1 DEF Driven
    <3>4. Fit(b, s) /\ Awake(b) /\ Silent(g, b) /\ b.role = g.role /\ Driven(b, D)
      BY <3>1, <3>2, <3>3, UpdateFit
    <3>5. b.request = a.request /\ Grown(a, b) /\ b.role = a.role
      BY <3>1, <3>4 DEF Silent, Grown
    <3>6. \A q \in Pair \ {p} :
             a.checks[q].state = "InProgress" => b.checks[q].state = "InProgress"
      BY <3>1, <3>4 DEF Silent
    <3>7. Good(b, s, D)
      BY <2>3, <3>4, <3>5, <3>6, QuietGood
    <3> QED
      BY <3>5, <3>7 DEF b
  <2>5. CASE ~CanAdd(d, v)
    <3> DEFINE state == "Succeed"
    <3>1. Fit(a, s) /\ Awake(a) /\ Driven(a, C)
      BY DEF Good
    <3>2. d = Put(a, p, state) /\ state = "Succeed" /\ state \in CheckState
      BY DEF CheckState
    <3> HIDE DEF state, b, d, v
    <3>3. b = d
      <4>1. b = IF CanAdd(d, v)
                THEN UpdateCheckListState(Nominate(Unfreeze(AddValidPair(d, v), Foundation[p])))
                ELSE d
        BY <2>2, Zenon DEF CheckSucceeded, v
      <4> QED
        BY <2>5, <4>1
    <3>4. /\ Fit(d, s) /\ Around(a, d) /\ d.que = a.que /\ d.timer = a.timer
          /\ d.request = a.request /\ d.checks[p].state = state
          /\ d.checks[p].nominated = a.checks[p].nominated
          /\ \A q \in Pair \ {p} : d.checks[q] = a.checks[q]
      BY <1>4, <2>1, <3>1, <3>2, PutFit
    <3>5. Awake(d) /\ Driven(d, D) /\ Grown(a, d)
      BY <3>1, <3>2, <3>4 DEF Awake, Driven, Grown, Around, Selected, Queued
    <3>6. Good(d, s, D)
      BY <2>3, <3>4, <3>5, QuietGood DEF Around
    <3> QED
      BY <3>3, <3>4, <3>5, <3>6 DEF Around, b
  <2> QED
    BY <2>4, <2>5
<1> QED
  BY <1>1, <1>2, <1>3, <1>4
-----------------------------------------------------------------------------
(* The checks start. *)

LEMMA NewAgentIs ==
    ASSUME NEW x \in Agent, NEW role \in Role
    PROVE  LET a == NewAgent(x, role)
           IN  /\ Typed(a) /\ a.name = x /\ a.role = role /\ a.list = "Idle" /\ a.valid = {}
               /\ a.told = {}
               /\ \A p \in Pair : ~a.checks[p].nominated /\ a.request[p] = NoRequest
<1> DEFINE a == NewAgent(x, role)
           ch == [p \in Pair |-> NewCheck("Frozen")]
           rq == [p \in Pair |-> NoRequest]
           rs == [p \in Pair |-> FALSE]
<1>1. a = [ name |-> x, role |-> role, list |-> "Idle", checks |-> ch, request |-> rq,
            resolved |-> rs, server |-> TRUE, valid |-> {}, que |-> <<>>, timer |-> FALSE,
            told |-> {} ]
  BY Zenon DEF NewAgent
<1>2. \A p \in Pair : ~ch[p].nominated /\ rq[p] = NoRequest
  BY DEF NewCheck
<1>3. Typed(a)
  BY NewAgentTyped
<1> HIDE DEF a, ch, rq, rs
<1> QED
  BY <1>1, <1>2, <1>3 DEF a

LEMMA BegunGood ==
    ASSUME Ordered, NEW s \in Situation, NEW x \in Agent, NEW role \in Role
    PROVE  LET b == StartPerformChecks(NewAgent(x, role))
           IN  Good(b, s, {}) /\ b.name = x /\ b.role = role
<1> DEFINE a == NewAgent(x, role)
           k(p) == NewCheck(IF \E q \in Pair : /\ Foundation[q] = Foundation[p] /\ q # p
                                               /\ FirstCheck(a, {p, q}) = p
                            THEN "Frozen" ELSE "Waiting")
           ch == [p \in Pair |-> k(p)]
           d == [a EXCEPT !.checks = ch]
           b == SetState(d, "Running")
<1>1. /\ Typed(a) /\ a.name = x /\ a.role = role /\ a.list = "Idle" /\ a.valid = {}
      /\ a.told = {} /\ \A p \in Pair : a.request[p] = NoRequest
  BY NewAgentIs
<1>2. ch \in [Pair -> Check]
  BY NewCheckType DEF CheckState
<1>3. \A p \in Pair : /\ ch[p].state \in {"Frozen", "Waiting"} /\ ~ch[p].nominated
                      /\ ~ch[p].resend /\ ~ch[p].favored
  BY DEF NewCheck
<1>4. StartPerformChecks(a) = b
  BY Zenon DEF StartPerformChecks
<1> HIDE DEF a, ch
<1>5. /\ Typed(d) /\ d.checks = ch /\ d.name = a.name /\ d.role = a.role /\ d.list = a.list
      /\ d.request = a.request /\ d.valid = a.valid /\ d.told = a.told
  BY <1>1, <1>2, ChecksTyped
<1> HIDE DEF d
<1>6. /\ Typed(b) /\ Untouched(d, b) /\ b.checks = d.checks /\ b.valid = d.valid
      /\ b.list = "Running" /\ b.que = <<>> /\ b.timer /\ b.told = d.told
  <2>1. Typed(d) /\ d.list # "Completed"
    BY <1>1, <1>5
  <2> DEFINE state == "Running"
  <2>2. /\ state \in {"Running", "Completed", "Failed"} /\ state # "Completed"
        /\ state = "Running" /\ b = SetState(d, state)
    OBVIOUS
  <2> HIDE DEF state, b
  <2>3. /\ Typed(b) /\ Untouched(d, b) /\ b.checks = d.checks /\ b.valid = d.valid
        /\ b.list = state /\ b.que = <<>> /\ b.timer = (state = "Running")
        /\ b.told = d.told
    BY <2>1, <2>2, SetStateGives
  <2> QED
    BY <2>2, <2>3
<1> HIDE DEF b
<1>7. b.valid = {} /\ b.told = {} /\ b.request = a.request /\ b.name = x /\ b.role = role
  BY <1>1, <1>5, <1>6 DEF Untouched
<1>8. Selected(b) = {} /\ \A p \in Pair : ~CanSelect(b, p)
  BY <1>7 DEF Selected, CanSelect
<1>9. \A p \in Pair : CheckFit(b, p, s)
  BY <1>3, <1>5, <1>6, <1>8 DEF CheckFit
<1>10. \A e \in ToSet(b.que) : ItemFit(b, e)
  BY <1>6, EmptyQue
<1>11. Fit(b, s)
  BY <1>6, <1>7, <1>9, <1>10 DEF Fit, ListFit
<1>12. Awake(b) /\ Driven(b, {})
  BY <1>3, <1>5, <1>6, <1>8 DEF Awake, Driven
<1>13. \A p \in Pair : RequestFit(b, p, s) /\ Current(b, p, s)
  <2>1. \A p \in Pair : b.request[p] = NoRequest
    BY <1>1, <1>7
  <2>2. ~NoRequest.awaited /\ NoRequest.served /\ NoRequest.answer = "none" /\ ~NoRequest.favored
    BY DEF NoRequest
  <2> QED
    BY <2>1, <2>2 DEF RequestFit, Current
<1> QED
  BY <1>4, <1>7, <1>11, <1>12, <1>13 DEF Good, a

\* The requests that came before are replayed.
LEMMA ReplayedGood ==
    ASSUME Ordered, NEW s \in Situation, NEW x \in Agent, NEW role \in Role,
           NEW seq \in Seq(Buffered),
           \A i \in DOMAIN seq : seq[i].favored => role = "controlled" /\ seq[i].pair \in s.peer
    PROVE  LET b == Replayed(StartPerformChecks(NewAgent(x, role)), seq)
           IN  Good(b, s, {}) /\ b.name = x /\ b.role = role
<1> DEFINE G == {a \in AgentType : Good(a, s, {}) /\ a.name = x /\ a.role = role}
           base == StartPerformChecks(NewAgent(x, role))
<1>1. base \in G
  <2>1. Good(base, s, {}) /\ base.name = x /\ base.role = role
    BY BegunGood
  <2> HIDE DEF base
  <2>2. base \in AgentType
    BY <2>1 DEF Good, Fit, Typed
  <2> QED
    BY <2>1, <2>2
<1>2. Len(seq) \in Nat /\ DOMAIN seq = 1 .. Len(seq) /\ \A i \in 1 .. Len(seq) : seq[i] \in Buffered
  OBVIOUS
<1>3. ASSUME NEW a \in G, NEW i \in 1 .. Len(seq)
      PROVE  STUNRequestReceived(a, seq[i].pair, seq[i].favored) \in G
  <2> DEFINE p == seq[i].pair
             f == seq[i].favored
             t == STUNRequestReceived(a, p, f)
  <2>1. p \in Pair /\ f \in BOOLEAN /\ (f => a.role = "controlled" /\ p \in s.peer)
    BY <1>2 DEF Buffered
  <2>2. Good(a, s, {}) /\ a.name = x /\ a.role = role
    OBVIOUS
  <2> HIDE DEF p, f
  <2>3. Good(t, s, {}) /\ t.role = a.role /\ Grown(a, t)
    BY <2>1, <2>2, ReceivedGood
  <2>4. t \in AgentType
    BY <2>3 DEF Good, Fit, Typed
  <2> HIDE DEF t
  <2>5. t \in G
    BY <2>2, <2>3, <2>4 DEF Grown
  <2> QED
    BY <2>5 DEF t, p, f
<1> HIDE DEF G, base
<1>4. Replayed(base, seq) \in G
  BY <1>1, <1>2, <1>3, ReplayKeeps
<1> QED
  BY <1>4 DEF G, base

\* The situation moves on: the peer nominates more, and the roles may be settled.
LEMMA GoodStays ==
    ASSUME NEW s \in Situation, NEW z \in Situation, NEW C, NEW D, NEW a, Good(a, s, C),
           C \subseteq D, z.broken = s.broken, z.gives = s.gives, z.role = s.role,
           s.peer \subseteq z.peer, s.done => z.done
    PROVE  Good(a, z, D)
<1>1. \A p \in Pair : CheckFit(a, p, z)
  BY DEF Good, Fit, CheckFit
<1>2. \A v \in a.valid : ValidFit(a, v, z)
  BY DEF Good, Fit, ValidFit
<1>3. Fit(a, z)
  BY <1>1, <1>2 DEF Good, Fit
<1>4. Driven(a, D)
  BY DEF Good, Driven
<1>5. \A p \in Pair : RequestFit(a, p, z) /\ Current(a, p, z)
  BY DEF Good, RequestFit, Current
<1> QED
  BY <1>3, <1>4, <1>5 DEF Good

\* The requests change.
LEMMA RequestsFit ==
    ASSUME NEW s \in Situation, NEW a, Fit(a, s), NEW b, Typed(b),
           b.name = a.name, b.role = a.role, b.list = a.list, b.valid = a.valid,
           b.told = a.told, b.que = a.que, b.timer = a.timer, b.checks = a.checks
    PROVE  Fit(b, s) /\ Grown(a, b) /\ (Awake(a) => Awake(b))
<1>1. /\ \A q \in Pair : CanSelect(b, q) = CanSelect(a, q)
      /\ Selected(b) = Selected(a)
      /\ \A S : InState(b, S) = InState(a, S)
  BY DEF CanSelect, Selected, InState
<1>2. \A q \in Pair : CheckFit(b, q, s)
  BY <1>1 DEF Fit, CheckFit
<1>3. \A e \in ToSet(b.que) : ItemFit(b, e)
  BY <1>1, FitFacts DEF Fit, ItemFit
<1>4. \A v \in b.valid : ValidFit(b, v, s)
  BY DEF Fit, ValidFit
<1>5. ListFit(b)
  BY <1>1 DEF Fit, ListFit
<1> QED
  BY <1>1, <1>2, <1>3, <1>4, <1>5 DEF Fit, Grown, Awake

\* A request is answered by the peer's server.
LEMMA AnsweredGood ==
    ASSUME NEW s \in Situation, NEW C, NEW a, Good(a, s, C), NEW p \in Pair,
           NEW answer, answer \in {"ok", "487"}, ~a.request[p].served, p \notin s.broken,
           answer = "ok" => s.done,
           answer = "487" => s.gives /\ a.request[p].role = s.role
    PROVE  LET b == Answered(a, p, answer)
           IN  Good(b, s, C) /\ Grown(a, b) /\ b.role = a.role
<1> DEFINE r == NewAnswer(a.request[p], answer)
           b == Answered(a, p, answer)
<1>1. Fit(a, s) /\ Typed(a) /\ a.request \in [Pair -> Request]
  BY FitFacts DEF Good
<1>2. /\ Typed(b) /\ Around(a, b) /\ b.que = a.que /\ b.timer = a.timer
      /\ b.checks = a.checks /\ b.request = [a.request EXCEPT ![p] = r]
  <2>1. Typed(a)
    BY <1>1
  <2>2. b = Answered(a, p, answer) /\ r = NewAnswer(a.request[p], answer)
    OBVIOUS
  <2> HIDE DEF b, r
  <2> QED
    BY <2>1, <2>2, AnsweredGives
<1>3. /\ r.awaited = a.request[p].awaited /\ r.served /\ r.role = a.request[p].role
      /\ r.answer = answer /\ r.favored = a.request[p].favored
  BY <1>1 DEF Request, NewAnswer
<1> HIDE DEF r, b
<1>4. b.request[p] = r /\ \A q \in Pair \ {p} : b.request[q] = a.request[q]
  BY <1>1, <1>2
<1>5. Fit(b, s) /\ Grown(a, b) /\ Awake(b)
  BY <1>1, <1>2, RequestsFit DEF Around, Good
<1>6. Driven(b, C)
  BY <1>2, <1>3, <1>4 DEF Good, Driven, Around, Queued
<1>7. ASSUME NEW q \in Pair PROVE RequestFit(b, q, s) /\ Current(b, q, s)
  <2>1. RequestFit(a, q, s) /\ Current(a, q, s)
    BY DEF Good
  <2>2. CASE q = p
    BY <1>2, <1>3, <1>4, <2>1, <2>2 DEF RequestFit, Current, Around
  <2>3. CASE q # p
    <3>1. b.request[q] = a.request[q]
      BY <1>4, <2>3
    <3> QED
      BY <1>2, <2>1, <3>1 DEF RequestFit, Current, Around
  <2> QED
    BY <2>2, <2>3
<1> QED
  BY <1>2, <1>5, <1>6, <1>7 DEF Good, Around, b

\* A binding has its outcome.
LEMMA DecidedGood ==
    ASSUME NEW s \in Situation, NEW C, NEW a, Good(a, s, C), NEW p \in Pair, NEW outcome
    PROVE  LET b == Decided(a, p, outcome)
           IN  /\ Good(b, s, C \cup {p}) /\ Grown(a, b) /\ b.role = a.role
               /\ ~b.request[p].awaited
<1> DEFINE r == [a.request[p] EXCEPT !.awaited = FALSE]
           b == Decided(a, p, outcome)
<1>1. Fit(a, s) /\ Typed(a) /\ a.request \in [Pair -> Request]
  BY FitFacts DEF Good
<1>2. /\ Typed(b) /\ b.name = a.name /\ b.role = a.role /\ b.list = a.list
      /\ b.valid = a.valid /\ b.told = a.told /\ b.que = a.que /\ b.timer = a.timer
      /\ b.checks = a.checks /\ b.request = [a.request EXCEPT ![p] = r]
  <2>1. Typed(a)
    BY <1>1
  <2> QED
    BY <2>1, DecidedGives
<1>3. /\ ~r.awaited /\ r.served = a.request[p].served /\ r.role = a.request[p].role
      /\ r.answer = a.request[p].answer /\ r.favored = a.request[p].favored
  BY <1>1 DEF Request
<1> HIDE DEF r, b
<1>4. b.request[p] = r /\ \A q \in Pair \ {p} : b.request[q] = a.request[q]
  BY <1>1, <1>2
<1>5. Fit(b, s) /\ Grown(a, b) /\ Awake(b)
  BY <1>1, <1>2, RequestsFit DEF Good
<1>6. Driven(b, C \cup {p})
  BY <1>2, <1>4 DEF Good, Driven, Queued
<1>7. ASSUME NEW q \in Pair PROVE RequestFit(b, q, s) /\ Current(b, q, s)
  <2>1. RequestFit(a, q, s) /\ Current(a, q, s)
    BY DEF Good
  <2>2. CASE q = p
    BY <1>2, <1>3, <1>4, <2>1, <2>2 DEF RequestFit, Current
  <2>3. CASE q # p
    <3>1. b.request[q] = a.request[q]
      BY <1>4, <2>3
    <3> QED
      BY <1>2, <2>1, <3>1 DEF RequestFit, Current
  <2> QED
    BY <2>2, <2>3
<1> QED
  BY <1>2, <1>3, <1>4, <1>5, <1>6, <1>7 DEF Good, b

\* A request of the peer changes the role of an agent that is to give way.
LEMMA ConvertedGood ==
    ASSUME Ordered, NEW s \in Situation, NEW C, NEW a, Good(a, s, C), ~s.done, s.peer = {},
           s.gives, a.role = s.role, NEW role \in Role, NEW p \in Pair,
           \A q \in Pair : q \notin s.broken => q = p, NEW f \in BOOLEAN, ~f
    PROVE  LET b == STUNRequestReceived(RoleChangeNeeded(a, role), p, f)
           IN  Good(b, s, C) /\ Grown(a, b) /\ b.role = role
<1> DEFINE d == RoleChangeNeeded(a, role)
           b == STUNRequestReceived(d, p, f)
<1>1. Fit(a, s) /\ Awake(a) /\ Driven(a, C) /\ a.request \in [Pair -> Request]
  BY FitFacts DEF Good
<1>2. /\ Fit(d, s) /\ d.name = a.name /\ d.role = role /\ d.list = a.list
      /\ d.checks = a.checks /\ d.request = a.request /\ d.valid = a.valid
      /\ d.que = a.que
      /\ \A q \in Pair : ~a.checks[q].nominated
  BY <1>1, RoleFit
<1> HIDE DEF d
<1>3. Awake(d) /\ Driven(d, C)
  BY <1>1, <1>2 DEF Awake, Driven, Selected, Queued
<1>4. f \in BOOLEAN /\ ~f
  OBVIOUS
<1>5. STUNRequestReceived(d, p, f) = b
  OBVIOUS
<1>6. Fit(b, s) /\ Awake(b) /\ Driven(b, C) /\ Calmed(d, b, p)
  BY <1>2, <1>3, <1>4, ReceivedFit
<1> HIDE DEF b
<1>7. ASSUME NEW q \in Pair PROVE RequestFit(b, q, s) /\ Current(b, q, s)
  <2>1. RequestFit(a, q, s) /\ Current(a, q, s) /\ a.request[q] \in Request
        /\ Current(a, p, s) /\ ~a.checks[q].nominated /\ ~a.checks[p].nominated
    BY <1>1, <1>2 DEF Good
  <2>2. /\ a.checks[q].state = "InProgress" => b.checks[q].state = "InProgress"
        /\ b.request[q] \in {a.request[q], NoRequest, [a.request[q] EXCEPT !.awaited = FALSE]}
        /\ b.request[p].awaited => a.checks[p].state # "InProgress" \/ a.checks[p].nominated
    BY <1>2, <1>6 DEF Calmed
  <2>3. CASE b.request[q] = a.request[q]
    BY <1>2, <1>6, <2>1, <2>2, <2>3 DEF RequestFit, Current, Calmed, Grown
  <2>4. CASE b.request[q] = NoRequest
    BY <2>4 DEF RequestFit, Current, NoRequest
  <2>5. CASE b.request[q] = [a.request[q] EXCEPT !.awaited = FALSE]
    <3> DEFINE r == a.request[q]
               n == b.request[q]
    <3>1. /\ ~n.awaited /\ n.served = r.served /\ n.role = r.role /\ n.answer = r.answer
          /\ n.favored = r.favored
      BY <2>1, <2>5 DEF Request
    <3> QED
      BY <2>1, <2>2, <3>1 DEF RequestFit, Current
  <2> QED
    BY <2>2, <2>3, <2>4, <2>5
<1>8. Grown(a, b) /\ b.role = role
  BY <1>2, <1>6 DEF Calmed, Grown
<1> QED
  BY <1>5, <1>6, <1>7, <1>8 DEF Good, d
-----------------------------------------------------------------------------
(***************************************************************************)
(* Both agents.  If they begin in the same role, one of them gives way: it *)
(* is told so by a 487, or by its own server.                              *)
(***************************************************************************)
Yields(c, x) ==
    /\ c.role[x] = c.role[Peer(x)]
    /\ (TieBreaker[x] > TieBreaker[Peer(x)]) # (c.role[x] = "controlling")

\* Nobody has to give way, or callbacks come first and one pair at most works:
\* with two of them the answers of both may change the role back and forth.
Settles ==
    \A c \in Setting :
       \/ \A x \in Agent : ~Yields(c, x)
       \/ c.delayed = {} /\ \E p \in Pair : \A q \in Pair : q \notin c.broken => q = p

FinalRole(x) == IF Yields(setting, x) THEN Other(setting.role[x]) ELSE setting.role[x]
Settled == \A x \in Agent : agents[x].role = FinalRole(x)

Nominated(x) == {p \in Pair : agents[x].checks[p].nominated}
Calls(x) == {callbacks[x][i].pair : i \in DOMAIN callbacks[x]}
Of(x) ==
    [ broken |-> setting.broken, peer |-> Nominated(Peer(x)), done |-> Settled,
      gives |-> Yields(setting, x), role |-> setting.role[x] ]

CallFit(x, c) ==
    /\ c.outcome = "timedOut" <=> c.pair \in setting.broken
    /\ c.outcome = "ok" => Settled
    /\ c.outcome = "487" => Yields(setting, x) /\ agents[x].role = setting.role[x]
    /\ Yields(setting, x) => ~agents[x].request[c.pair].awaited

Sound(x) ==
    /\ agents[x].name = x
    /\ agents[x].role \in {setting.role[x], FinalRole(x)}
    /\ served[x] \in {setting.role[x], FinalRole(x)}
    /\ served[x] # setting.role[x] => agents[x].role = served[x]
    /\ \/ agents[x] = NewAgent(x, agents[x].role) /\ callbacks[x] = <<>>
       \/ Good(agents[x], Of(x), Calls(x)) /\ buffered[x] = <<>>
    /\ x \notin setting.delayed => Len(callbacks[x]) <= 1
    /\ \A i \in DOMAIN callbacks[x] : CallFit(x, callbacks[x][i])
    /\ \A i \in DOMAIN buffered[x] :
          buffered[x][i].favored => buffered[x][i].pair \in Nominated(Peer(x))

AgentsInv == TypeInv /\ \A x \in Agent : Sound(x)

LEMMA SettingFacts ==
    ASSUME setting \in Setting, NEW x \in Agent
    PROVE  /\ Peer(x) \in Agent /\ Peer(x) # x /\ Peer(Peer(x)) = x
           /\ setting.role[x] \in Role /\ FinalRole(x) \in Role
           /\ setting.broken \subseteq Pair /\ setting.delayed \subseteq Agent
           /\ FinalRole(x) # FinalRole(Peer(x))
           /\ Yields(setting, x) =>
                 /\ setting.role[x] = setting.role[Peer(x)] /\ ~Yields(setting, Peer(x))
                 /\ FinalRole(x) # setting.role[x]
           /\ ~Yields(setting, x) => FinalRole(x) = setting.role[x]
           /\ Yields(setting, x) \in BOOLEAN
<1>1. /\ Peer(x) \in Agent /\ Peer(x) # x /\ Peer(Peer(x)) = x
  BY PeerFacts
<1>2. /\ setting.role \in [Agent -> Role] /\ setting.broken \subseteq Pair
      /\ setting.delayed \subseteq Agent
  BY AgentsAssumption
<1>3. /\ TieBreaker[x] \in Nat /\ TieBreaker[Peer(x)] \in Nat
      /\ TieBreaker[x] # TieBreaker[Peer(x)]
  BY <1>1, AgentsAssumption
<1> DEFINE c == setting
           y == Peer(x)
<1>4. Yields(c, x) => c.role[x] = c.role[y] /\ ~Yields(c, y)
  BY <1>1, <1>3 DEF Yields
<1>5. c.role[x] = c.role[y] => Yields(c, x) \/ Yields(c, y)
  BY <1>1, <1>3 DEF Yields
<1>6. Yields(c, x) \in BOOLEAN /\ Yields(c, y) \in BOOLEAN
  BY DEF Yields
<1>7. Yields(c, y) => c.role[x] = c.role[y]
  BY <1>1 DEF Yields
<1>8. c.role[x] \in Role /\ c.role[y] \in Role
  BY <1>1, <1>2
<1>9. /\ FinalRole(x) = IF Yields(c, x) THEN Other(c.role[x]) ELSE c.role[x]
      /\ FinalRole(y) = IF Yields(c, y) THEN Other(c.role[y]) ELSE c.role[y]
  BY DEF FinalRole
<1> HIDE DEF c, y
<1>10. /\ FinalRole(x) \in Role /\ FinalRole(x) # FinalRole(y)
       /\ Yields(c, x) => FinalRole(x) # c.role[x]
       /\ ~Yields(c, x) => FinalRole(x) = c.role[x]
  BY <1>4, <1>5, <1>7, <1>8, <1>9, RoleFacts
<1> QED
  BY <1>1, <1>2, <1>4, <1>6, <1>8, <1>10 DEF c, y

\* What a conflict needs to be settled
LEMMA SettlesFacts ==
    ASSUME Settles, setting \in Setting, NEW x \in Agent, Yields(setting, x)
    PROVE  /\ setting.delayed = {}
           /\ \E p \in Pair : \A q \in Pair : q \notin setting.broken => q = p
BY DEF Settles

LEMMA OfFacts ==
    ASSUME setting \in Setting, NEW x \in Agent
    PROVE  /\ Of(x) \in Situation
           /\ Of(x).broken = setting.broken /\ Of(x).peer = Nominated(Peer(x))
           /\ Of(x).done = Settled /\ Of(x).gives = Yields(setting, x)
           /\ Of(x).role = setting.role[x]
<1> DEFINE pe == Nominated(Peer(x))
           do == Settled
           gi == Yields(setting, x)
           ro == setting.role[x]
           br == setting.broken
<1>1. pe \subseteq Pair /\ do \in BOOLEAN /\ gi \in BOOLEAN /\ ro \in Role /\ br \subseteq Pair
  BY SettingFacts DEF Nominated, Settled
<1>2. Of(x) = [broken |-> br, peer |-> pe, done |-> do, gives |-> gi, role |-> ro]
  BY DEF Of
<1> HIDE DEF pe, do, gi, ro, br
<1>3. Of(x) \in Situation
  BY <1>1, <1>2 DEF Situation
<1>4. Of(x).broken = br /\ Of(x).peer = pe /\ Of(x).done = do /\ Of(x).gives = gi
      /\ Of(x).role = ro
  BY <1>1, <1>2
<1> QED
  BY <1>3, <1>4 DEF pe, do, gi, ro, br

\* The same of the next state
LEMMA OfFactsNext ==
    ASSUME setting' \in Setting, NEW x \in Agent
    PROVE  /\ Of(x)' \in Situation
           /\ Of(x)'.broken = setting'.broken /\ Of(x)'.peer = Nominated(Peer(x))'
           /\ Of(x)'.done = Settled' /\ Of(x)'.gives = Yields(setting', x)
           /\ Of(x)'.role = setting'.role[x]
<1> DEFINE pe == Nominated(Peer(x))'
           do == Settled'
           gi == Yields(setting', x)
           ro == setting'.role[x]
           br == setting'.broken
<1>1. pe \subseteq Pair /\ do \in BOOLEAN /\ gi \in BOOLEAN
  BY DEF Nominated, Settled, Yields
<1>2. ro \in Role /\ br \subseteq Pair
  BY AgentsAssumption
<1>3. Of(x)' = [broken |-> br, peer |-> pe, done |-> do, gives |-> gi, role |-> ro]
  BY DEF Of
<1> HIDE DEF pe, do, gi, ro, br
<1>4. Of(x)' \in Situation
  BY <1>1, <1>2, <1>3 DEF Situation
<1>5. Of(x)'.broken = br /\ Of(x)'.peer = pe /\ Of(x)'.done = do /\ Of(x)'.gives = gi
      /\ Of(x)'.role = ro
  BY <1>1, <1>2, <1>3
<1> QED
  BY <1>4, <1>5 DEF pe, do, gi, ro, br

\* Until the roles are settled nothing is nominated.
LEMMA Unsettled ==
    ASSUME AgentsInv, NEW x \in Agent, ~Settled
    PROVE  Nominated(x) = {}
<1>1. setting \in Setting /\ Sound(x)
  BY DEF AgentsInv, TypeInv
<1>2. CASE agents[x] = NewAgent(x, agents[x].role)
  <2>1. agents[x].role \in Role
    BY AgentFields DEF AgentsInv, TypeInv
  <2> QED
    BY <1>2, <2>1, NewAgentIs DEF Nominated
<1>3. CASE Good(agents[x], Of(x), Calls(x))
  BY <1>1, <1>3, OfFacts, FitFacts DEF Good, Nominated
<1> QED
  BY <1>1, <1>2, <1>3 DEF Sound

\* A nomination is known to be of a controlling agent, with all settled.
LEMMA NominatedFacts ==
    ASSUME AgentsInv, NEW x \in Agent, NEW p \in Nominated(x)
    PROVE  /\ Settled /\ agents[x].role = "controlling" /\ agents[Peer(x)].role = "controlled"
<1>1. setting \in Setting /\ Sound(x) /\ Settled
  BY Unsettled DEF AgentsInv, TypeInv
<1>2. Good(agents[x], Of(x), Calls(x))
  <2>1. agents[x].role \in Role
    BY AgentFields DEF AgentsInv, TypeInv
  <2> QED
    BY <1>1, <2>1, NewAgentIs DEF Nominated, Sound
<1>3. agents[x].role = "controlling"
  BY <1>2 DEF Good, Fit, CheckFit, Nominated
<1>4. agents[Peer(x)].role = FinalRole(Peer(x)) /\ agents[x].role = FinalRole(x)
  BY <1>1, PeerFacts DEF Settled
<1>5. agents[Peer(x)].role = "controlled"
  BY <1>1, <1>3, <1>4, SettingFacts, RoleFacts, PeerFacts
<1> QED
  BY <1>1, <1>3, <1>5

\* An agent that a step leaves alone stays sound.
LEMMA SoundStays ==
    ASSUME AgentsInv, NEW x \in Agent, setting' = setting, agents'[x] = agents[x],
           served'[x] = served[x], callbacks'[x] = callbacks[x], buffered'[x] = buffered[x],
           Nominated(Peer(x)) \subseteq Nominated(Peer(x))', Settled => Settled'
    PROVE  Sound(x)'
<1>1. setting \in Setting /\ setting' \in Setting /\ Sound(x)
  BY DEF AgentsInv, TypeInv
<1>2. FinalRole(x)' = FinalRole(x) /\ Calls(x)' = Calls(x)
  BY DEF FinalRole, Calls
<1>3. ASSUME Good(agents[x], Of(x), Calls(x)) PROVE Good(agents[x], Of(x)', Calls(x))
  <2> DEFINE s == Of(x)
             z == Of(x)'
             C == Calls(x)
             a == agents[x]
  <2>1. s \in Situation /\ z \in Situation
    BY <1>1, OfFacts, OfFactsNext
  <2>2. z.broken = s.broken /\ z.gives = s.gives /\ z.role = s.role
        /\ s.peer \subseteq z.peer /\ (s.done => z.done)
    BY <1>1, OfFacts, OfFactsNext
  <2>3. Good(a, s, C)
    BY <1>3
  <2> HIDE DEF s, z, C, a
  <2>4. Good(a, z, C)
    BY <2>1, <2>2, <2>3, GoodStays
  <2> QED
    BY <2>4 DEF a, z, C
<1>4. \A c : CallFit(x, c) => CallFit(x, c)'
  BY DEF CallFit
<1>5. /\ agents'[x].name = x
      /\ agents'[x].role \in {setting'.role[x], FinalRole(x)'}
      /\ served'[x] \in {setting'.role[x], FinalRole(x)'}
      /\ served'[x] # setting'.role[x] => agents'[x].role = served'[x]
      /\ x \notin setting'.delayed => Len(callbacks'[x]) <= 1
  BY <1>1, <1>2 DEF Sound
<1>6. \/ agents'[x] = NewAgent(x, agents'[x].role) /\ callbacks'[x] = <<>>
      \/ Good(agents'[x], Of(x)', Calls(x)') /\ buffered'[x] = <<>>
  BY <1>1, <1>2, <1>3 DEF Sound
<1>7. \A i \in DOMAIN callbacks'[x] : CallFit(x, callbacks[x][i])'
  <2> SUFFICES ASSUME NEW i \in DOMAIN callbacks[x] PROVE CallFit(x, callbacks[x][i])'
    OBVIOUS
  <2>1. CallFit(x, callbacks[x][i])
    BY <1>1 DEF Sound
  <2> QED
    BY <2>1 DEF CallFit
<1>8. \A i \in DOMAIN buffered'[x] :
         buffered'[x][i].favored => buffered'[x][i].pair \in Nominated(Peer(x))'
  BY <1>1 DEF Sound
<1> QED
  BY <1>5, <1>6, <1>7, <1>8 DEF Sound

LEMMA NextGood ==
    ASSUME setting \in Setting, setting' = setting, NEW x \in Agent, NEW b, NEW C, NEW D,
           Good(b, Of(x), C), C \subseteq D,
           Nominated(Peer(x)) \subseteq Nominated(Peer(x))', Settled => Settled'
    PROVE  Good(b, Of(x)', D)
<1> DEFINE s == Of(x)
           z == Of(x)'
<1>1. s \in Situation /\ z \in Situation
  BY OfFacts, OfFactsNext
<1>2. z.broken = s.broken /\ z.gives = s.gives /\ z.role = s.role
      /\ s.peer \subseteq z.peer /\ (s.done => z.done)
  BY OfFacts, OfFactsNext
<1>3. Good(b, s, C)
  OBVIOUS
<1> HIDE DEF s, z
<1>4. Good(b, z, D)
  BY <1>1, <1>2, <1>3, GoodStays
<1> QED
  BY <1>4 DEF z

\* A step of one agent
StepsTo(x, b) ==
    /\ setting' = setting /\ agents' = [agents EXCEPT ![x] = b]
    /\ Grown(agents[x], b) /\ b.role \in {agents[x].role, FinalRole(x)}
    /\ \A z \in Agent \ {x} : /\ served'[z] = served[z] /\ callbacks'[z] = callbacks[z]
                              /\ buffered'[z] = buffered[z]

LEMMA StepFacts ==
    ASSUME AgentsInv, NEW x \in Agent, NEW b, StepsTo(x, b)
    PROVE  /\ agents'[x] = b /\ \A z \in Agent \ {x} : agents'[z] = agents[z]
           /\ \A z \in Agent : FinalRole(z)' = FinalRole(z)
           /\ \A z \in Agent : Nominated(z) \subseteq Nominated(z)'
           /\ Nominated(Peer(x))' = Nominated(Peer(x))
           /\ Settled => Settled'
           /\ b.name = x
<1>1. agents'[x] = b /\ \A z \in Agent \ {x} : agents'[z] = agents[z]
  BY DEF AgentsInv, TypeInv, StepsTo
<1>2. \A z \in Agent : FinalRole(z)' = FinalRole(z)
  BY DEF FinalRole, StepsTo
<1>3. \A p \in Pair : agents[x].checks[p].nominated => b.checks[p].nominated
  BY DEF StepsTo, Grown
<1>4. \A z \in Agent : Nominated(z) \subseteq Nominated(z)'
  BY <1>1, <1>3 DEF Nominated
<1>5. Nominated(Peer(x))' = Nominated(Peer(x))
  BY <1>1, PeerFacts DEF Nominated
<1>6. Settled => Settled'
  BY <1>1, <1>2 DEF Settled, StepsTo
<1>7. b.name = x
  BY DEF StepsTo, Grown, AgentsInv, Sound
<1> QED
  BY <1>1, <1>2, <1>4, <1>5, <1>6, <1>7

LEMMA OneStep ==
    ASSUME AgentsInv, TypeInv', NEW x \in Agent, NEW b, StepsTo(x, b), Sound(x)'
    PROVE  AgentsInv'
<1>1. ASSUME NEW z \in Agent, z # x PROVE Sound(z)'
  <2>1. /\ setting' = setting /\ agents'[z] = agents[z] /\ served'[z] = served[z]
        /\ callbacks'[z] = callbacks[z] /\ buffered'[z] = buffered[z]
        /\ Nominated(Peer(z)) \subseteq Nominated(Peer(z))' /\ (Settled => Settled')
    <3>1. Peer(z) \in Agent
      BY PeerFacts
    <3>2. /\ agents'[z] = agents[z] /\ Nominated(Peer(z)) \subseteq Nominated(Peer(z))'
          /\ (Settled => Settled')
      BY <1>1, <3>1, StepFacts
    <3> QED
      BY <1>1, <3>2 DEF StepsTo
  <2> QED
    BY <2>1, SoundStays
<1> QED
  BY <1>1 DEF AgentsInv

\* The calls of an agent that has not begun, or is right
LEMMA Begun ==
    ASSUME AgentsInv, NEW x \in Agent, agents[x].list # "Idle"
    PROVE  Good(agents[x], Of(x), Calls(x)) /\ buffered[x] = <<>>
<1>1. agents[x].role \in Role /\ Sound(x)
  BY AgentFields DEF AgentsInv, TypeInv
<1> QED
  BY <1>1, NewAgentIs DEF Sound

LEMMA NotBegun ==
    ASSUME AgentsInv, NEW x \in Agent, agents[x].list = "Idle"
    PROVE  agents[x] = NewAgent(x, agents[x].role) /\ callbacks[x] = <<>> /\ agents[x].role \in Role
<1>1. agents[x].role \in Role /\ Sound(x)
  BY AgentFields DEF AgentsInv, TypeInv
<1> QED
  BY <1>1 DEF Sound, Good, Fit, ListFit

LEMMA StartSound ==
    ASSUME Ordered, AgentsInv, TypeInv', NEW x \in Agent, Start(x)
    PROVE  AgentsInv'
<1> DEFINE role == agents[x].role
           seq == buffered[x]
           b == Replayed(StartPerformChecks(NewAgent(x, role)), seq)
           s == Of(x)
<1>1. agents[x] = NewAgent(x, role) /\ callbacks[x] = <<>> /\ role \in Role
  BY NotBegun, StartIs
<1>2. /\ agents' = [agents EXCEPT ![x] = b] /\ served' = [served EXCEPT ![x] = role]
      /\ buffered' = [buffered EXCEPT ![x] = <<>>]
      /\ setting' = setting /\ callbacks' = callbacks
  <2>1. agents[x] = NewAgent(x, agents[x].role)
    BY <1>1
  <2>2. /\ agents' = [agents EXCEPT ![x] = Replayed(StartPerformChecks(agents[x]), buffered[x])]
        /\ served' = [served EXCEPT ![x] = agents[x].role]
        /\ buffered' = [buffered EXCEPT ![x] = <<>>]
        /\ setting' = setting /\ callbacks' = callbacks
    BY StartIs, Zenon
  <2> QED
    BY <2>1, <2>2, Zenon
<1>3. setting \in Setting /\ Sound(x) /\ seq \in Seq(Buffered)
  BY DEF AgentsInv, TypeInv
<1>4. s \in Situation /\ s.peer = Nominated(Peer(x))
  BY <1>3, OfFacts
<1>5. \A i \in DOMAIN seq : seq[i].favored => role = "controlled" /\ seq[i].pair \in s.peer
  <2> SUFFICES ASSUME NEW i \in DOMAIN seq, seq[i].favored
               PROVE  role = "controlled" /\ seq[i].pair \in s.peer
    OBVIOUS
  <2>1. seq[i].pair \in Nominated(Peer(x))
    BY <1>3 DEF Sound
  <2>2. agents[Peer(Peer(x))].role = "controlled"
    BY <2>1, NominatedFacts, PeerFacts
  <2> QED
    BY <1>4, <2>1, <2>2, PeerFacts
<1>6. Good(b, s, {}) /\ b.name = x /\ b.role = role
  <2> HIDE DEF role, seq, s
  <2> QED
    BY <1>1, <1>3, <1>4, <1>5, ReplayedGood
<1> HIDE DEF b
<1>7. \A p \in Pair : ~agents[x].checks[p].nominated
  <2> HIDE DEF role
  <2> QED
    BY <1>1, NewAgentIs
<1>8. StepsTo(x, b)
  <2>1. Grown(agents[x], b)
    BY <1>3, <1>6, <1>7 DEF Grown, Sound
  <2>2. ASSUME NEW z \in Agent, z # x
        PROVE  served'[z] = served[z] /\ callbacks'[z] = callbacks[z] /\ buffered'[z] = buffered[z]
    BY <1>2, <2>2 DEF AgentsInv, TypeInv
  <2> QED
    BY <1>2, <1>6, <2>1, <2>2 DEF StepsTo
<1>9. /\ agents'[x] = b /\ FinalRole(x)' = FinalRole(x)
      /\ Nominated(Peer(x)) \subseteq Nominated(Peer(x))' /\ (Settled => Settled')
  BY <1>8, StepFacts
<1>10. served'[x] = role /\ buffered'[x] = <<>> /\ callbacks'[x] = <<>> /\ setting' = setting
  BY <1>1, <1>2 DEF AgentsInv, TypeInv
<1>11. Good(b, Of(x)', Calls(x)')
  BY <1>2, <1>3, <1>6, <1>9, NextGood
<1>12. Sound(x)'
  BY <1>3, <1>6, <1>9, <1>10, <1>11 DEF Sound
<1> QED
  BY <1>8, <1>12, OneStep

LEMMA TimerSound ==
    ASSUME Ordered, Settles, AgentsInv, TypeInv', NEW x \in Agent, Timer(x)
    PROVE  AgentsInv'
<1> DEFINE a == agents[x]
           b == TimerFired(a)
           s == Of(x)
           C == Calls(x)
<1>1. /\ agents' = [agents EXCEPT ![x] = b] /\ a.timer /\ Free(x)
      /\ setting' = setting /\ served' = served /\ callbacks' = callbacks
      /\ buffered' = buffered
  BY DEF Timer
<1>2. setting \in Setting /\ Sound(x)
  BY DEF AgentsInv, TypeInv
<1>3. a.list # "Idle"
  <2>1. ~NewAgent(x, a.role).timer
    BY DEF NewAgent
  <2> QED
    BY <1>1, <2>1, NotBegun
<1>4. Good(a, s, C) /\ buffered[x] = <<>> /\ s \in Situation
  BY <1>2, <1>3, Begun, OfFacts
<1> HIDE DEF s, C
<1>5. Good(b, s, C) /\ b.role = a.role /\ Grown(a, b)
  <2> HIDE DEF a
  <2> QED
    BY <1>1, <1>4, TimerGood
<1> HIDE DEF b
<1>6. StepsTo(x, b)
  BY <1>1, <1>5 DEF StepsTo
<1>7. /\ agents'[x] = b /\ FinalRole(x)' = FinalRole(x) /\ b.name = x
      /\ Nominated(Peer(x)) \subseteq Nominated(Peer(x))' /\ (Settled => Settled')
  BY <1>6, StepFacts
<1>8. Calls(x)' = Calls(x)
  BY <1>1 DEF Calls
<1>9. Good(b, Of(x)', Calls(x)')
  BY <1>1, <1>2, <1>5, <1>7, <1>8, NextGood DEF s, C
<1>10. ASSUME NEW i \in DOMAIN callbacks[x] PROVE CallFit(x, callbacks[x][i])'
  <2>1. CallFit(x, callbacks[x][i])
    BY <1>2 DEF Sound
  <2>2. Yields(setting, x) => setting.delayed = {}
    BY <1>2, SettlesFacts
  <2>3. ~Yields(setting, x)
    BY <1>1, <2>2, <1>10 DEF Free
  <2> QED
    BY <1>1, <1>7, <2>1, <2>3 DEF CallFit
<1>11. Sound(x)'
  BY <1>1, <1>2, <1>4, <1>5, <1>7, <1>9, <1>10 DEF Sound
<1> QED
  BY <1>6, <1>11, OneStep

LEMMA CallbackSound ==
    ASSUME Ordered, Settles, AgentsInv, TypeInv', NEW x \in Agent, Callback(x)
    PROVE  AgentsInv'
<1> DEFINE a == agents[x]
           c == Head(callbacks[x])
           p == c.pair
           outcome == c.outcome
           b == ConnCheckCompleted(a, p, outcome)
           s == Of(x)
           C == Calls(x)
           D == Calls(x)'
<1>1. /\ callbacks[x] # <<>> /\ agents' = [agents EXCEPT ![x] = b]
      /\ callbacks' = [callbacks EXCEPT ![x] = Tail(callbacks[x])]
      /\ setting' = setting /\ served' = served /\ buffered' = buffered
  BY Zenon DEF Callback
<1>2. /\ setting \in Setting /\ Sound(x) /\ callbacks[x] \in Seq(Callbacks)
      /\ callbacks'[x] = Tail(callbacks[x])
  BY <1>1 DEF AgentsInv, TypeInv
<1>3. c = callbacks[x][1] /\ 1 \in DOMAIN callbacks[x] /\ c \in Callbacks
  BY <1>1, <1>2
<1>4. p \in Pair /\ outcome \in {"ok", "487", "timedOut"} /\ CallFit(x, c)
  BY <1>2, <1>3 DEF Callbacks, Sound
<1>5. a.list # "Idle"
  BY <1>1, NotBegun
<1>6. Good(a, s, C) /\ buffered[x] = <<>>
  BY <1>5, Begun
<1>7. /\ s \in Situation /\ s.broken = setting.broken /\ s.peer = Nominated(Peer(x))
      /\ s.done = Settled /\ s.gives = Yields(setting, x) /\ s.role = setting.role[x]
  BY <1>2, OfFacts
<1>8. /\ \A i \in DOMAIN callbacks'[x] : /\ i + 1 \in DOMAIN callbacks[x]
                                         /\ callbacks'[x][i] = callbacks[x][i + 1]
                                         /\ Len(callbacks[x]) > 1
      /\ \A i \in DOMAIN callbacks[x] \ {1} :
            i - 1 \in DOMAIN callbacks'[x] /\ callbacks'[x][i - 1] = callbacks[x][i]
  <2> DEFINE q == callbacks[x]
             t == Tail(q)
  <2>1. q \in Seq(Callbacks) /\ q # <<>> /\ callbacks'[x] = t
    BY <1>1, <1>2
  <2>2. /\ Len(q) \in Nat \ {0} /\ DOMAIN q = 1 .. Len(q)
        /\ Len(t) = Len(q) - 1 /\ DOMAIN t = 1 .. Len(q) - 1
        /\ \A i \in 1 .. Len(q) - 1 : t[i] = q[i + 1]
    <3> HIDE DEF q
    <3> QED
      BY <2>1
  <2> HIDE DEF q, t
  <2>3. /\ \A i \in DOMAIN t : i + 1 \in DOMAIN q /\ t[i] = q[i + 1] /\ Len(q) > 1
        /\ \A i \in DOMAIN q \ {1} : i - 1 \in DOMAIN t /\ i - 1 \in 1 .. Len(q) - 1
    BY <2>2
  <2>4. \A i \in DOMAIN q \ {1} : t[i - 1] = q[i]
    <3> SUFFICES ASSUME NEW i \in DOMAIN q \ {1} PROVE t[i - 1] = q[i]
      OBVIOUS
    <3>1. i \in Int /\ i - 1 + 1 = i /\ i - 1 \in 1 .. Len(q) - 1
      BY <2>2, <2>3
    <3> QED
      BY <2>2, <3>1
  <2> QED
    BY <2>1, <2>3, <2>4 DEF q
<1>9. C \ {p} \subseteq D
  <2>1. ASSUME NEW i \in DOMAIN callbacks[x], callbacks[x][i].pair # p
        PROVE  callbacks[x][i].pair \in D
    <3>1. i # 1 /\ i - 1 \in DOMAIN callbacks'[x] /\ callbacks'[x][i - 1] = callbacks[x][i]
      BY <1>3, <1>8, <2>1
    <3> QED
      BY <3>1 DEF Calls
  <2> QED
    BY <2>1 DEF Calls
<1>10. s.done \/ s.peer = {}
  BY <1>7, Unsettled, PeerFacts
<1>11. Expected(a, p, outcome, s)
  <2>1. ASSUME outcome = "487"
        PROVE  /\ a.role = s.role /\ ~s.done /\ p \notin s.broken
               /\ \A q \in Pair : q \notin s.broken => q = p
    <3>1. Yields(setting, x) /\ a.role = setting.role[x] /\ p \notin setting.broken
      BY <1>4, <2>1 DEF CallFit
    <3>2. ~Settled
      BY <1>2, <3>1, SettingFacts DEF Settled
    <3>3. \A q \in Pair : q \notin setting.broken => q = p
      BY <1>2, <1>4, <3>1, SettlesFacts
    <3> QED
      BY <1>7, <3>1, <3>2, <3>3
  <2> QED
    BY <1>4, <1>7, <2>1 DEF Expected, CallFit
<1> HIDE DEF s, C, D, p, outcome, c
<1>12. /\ Good(b, s, D) /\ Grown(a, b)
       /\ b.role = a.role \/ (outcome = "487" /\ b.role = Other(a.role))
  <2> HIDE DEF a
  <2> QED
    BY <1>4, <1>6, <1>7, <1>9, <1>10, <1>11, CompletedGood
<1>13. b.role \in {a.role, FinalRole(x)}
  <2>1. outcome = "487" => Other(a.role) = FinalRole(x)
    BY <1>4 DEF CallFit, FinalRole, outcome, a
  <2> QED
    BY <1>12, <2>1
<1> HIDE DEF b
<1>14. StepsTo(x, b)
  <2>1. ASSUME NEW z \in Agent, z # x PROVE callbacks'[z] = callbacks[z]
    BY <1>1, <2>1 DEF AgentsInv, TypeInv
  <2> QED
    BY <1>1, <1>12, <1>13, <2>1 DEF StepsTo
<1>15. /\ agents'[x] = b /\ FinalRole(x)' = FinalRole(x) /\ b.name = x
       /\ Nominated(Peer(x)) \subseteq Nominated(Peer(x))' /\ (Settled => Settled')
  BY <1>14, StepFacts
<1>16. Good(b, Of(x)', Calls(x)')
  BY <1>1, <1>2, <1>12, <1>15, NextGood DEF s, D
<1>17. ASSUME NEW i \in DOMAIN callbacks'[x]
       PROVE  Len(callbacks[x]) > 1 /\ i + 1 \in DOMAIN callbacks[x]
              /\ callbacks'[x][i] = callbacks[x][i + 1]
  BY <1>8
<1>18. ASSUME NEW i \in DOMAIN callbacks'[x] PROVE CallFit(x, callbacks[x][i])'
  <2>1. CallFit(x, callbacks[x][i + 1]) /\ callbacks'[x][i] = callbacks[x][i + 1]
    BY <1>2, <1>17 DEF Sound
  <2>2. ~Yields(setting, x)
    <3>1. Yields(setting, x) => setting.delayed = {}
      BY <1>2, SettlesFacts
    <3> QED
      BY <1>2, <1>17, <3>1 DEF Sound
  <2> QED
    BY <1>1, <1>15, <2>1, <2>2 DEF CallFit
<1>19. /\ b.role \in {setting.role[x], FinalRole(x)}
       /\ served[x] \in {setting.role[x], FinalRole(x)}
       /\ served[x] # setting.role[x] => b.role = served[x]
       /\ x \notin setting.delayed => Len(callbacks'[x]) <= 1
  <2>1. /\ a.role \in {setting.role[x], FinalRole(x)}
        /\ served[x] \in {setting.role[x], FinalRole(x)}
        /\ served[x] # setting.role[x] => a.role = served[x]
        /\ x \notin setting.delayed => Len(callbacks[x]) <= 1
    BY <1>2 DEF Sound
  <2>2. Len(callbacks'[x]) <= Len(callbacks[x]) /\ Len(callbacks[x]) \in Nat
        /\ Len(callbacks'[x]) \in Nat
    BY <1>1, <1>2
  <2>3. x \notin setting.delayed => Len(callbacks'[x]) <= 1
    BY <2>1, <2>2
  <2> QED
    BY <1>13, <2>1, <2>3
<1>20. Sound(x)'
  BY <1>1, <1>6, <1>15, <1>16, <1>18, <1>19 DEF Sound
<1> QED
  BY <1>14, <1>20, OneStep

LEMMA ResolvedSound ==
    ASSUME Settles, AgentsInv, TypeInv', NEW x \in Agent, NEW p \in Pair, NEW outcome,
           Resolved(x, p, outcome), agents[x].request[p].awaited,
           outcome = "timedOut" <=> p \in setting.broken,
           outcome = "ok" => Settled,
           outcome = "487" => Yields(setting, x) /\ agents[x].role = setting.role[x]
    PROVE  AgentsInv'
<1> DEFINE a == agents[x]
           b == Decided(a, p, outcome)
           s == Of(x)
           C == Calls(x)
           D == Calls(x)'
           e == [pair |-> p, outcome |-> outcome]
<1>1. /\ agents' = [agents EXCEPT ![x] = b] /\ Free(x)
      /\ callbacks' = [callbacks EXCEPT ![x] = Append(callbacks[x], e)]
      /\ setting' = setting /\ served' = served /\ buffered' = buffered
  <2>1. agents' = [agents EXCEPT ![x] = b]
    BY ResolvedIs DEF AgentsInv
  <2>2. callbacks' = [callbacks EXCEPT ![x] = Append(callbacks[x], e)]
    BY Zenon DEF Resolved
  <2> QED
    BY <2>1, <2>2 DEF Resolved
<1>2. /\ setting \in Setting /\ Sound(x) /\ callbacks[x] \in Seq(Callbacks)
      /\ callbacks'[x] = Append(callbacks[x], e) /\ callbacks'[x] \in Seq(Callbacks)
  BY <1>1 DEF AgentsInv, TypeInv
<1>3. a.list # "Idle"
  <2>1. ~NoRequest.awaited
    BY DEF NoRequest
  <2> QED
    BY <2>1, NotBegun, NewAgentIs
<1>4. Good(a, s, C) /\ buffered[x] = <<>> /\ s \in Situation
  BY <1>2, <1>3, Begun, OfFacts
<1>5. e.pair = p /\ e.outcome = outcome
  OBVIOUS
<1> HIDE DEF e
<1>6. /\ \A i \in DOMAIN callbacks[x] : i \in DOMAIN callbacks'[x]
                                        /\ callbacks'[x][i] = callbacks[x][i]
      /\ \A i \in DOMAIN callbacks'[x] :
            i \in DOMAIN callbacks[x] \/ callbacks'[x][i] = e
      /\ Len(callbacks[x]) + 1 \in DOMAIN callbacks'[x]
      /\ callbacks'[x][Len(callbacks[x]) + 1] = e
      /\ Len(callbacks'[x]) = Len(callbacks[x]) + 1
  <2> DEFINE q == callbacks[x]
             t == Append(q, e)
  <2>1. q \in Seq(Callbacks) /\ callbacks'[x] = t /\ t \in Seq(Callbacks)
    BY <1>2
  <2>2. /\ DOMAIN q = 1 .. Len(q) /\ DOMAIN t = 1 .. Len(q) + 1 /\ Len(q) \in Nat
        /\ Len(t) = Len(q) + 1
        /\ t[Len(q) + 1] = e /\ \A i \in 1 .. Len(q) : t[i] = q[i]
    <3> HIDE DEF q
    <3>1. e \in Callbacks \/ e \notin Callbacks
      OBVIOUS
    <3> QED
      BY <2>1
  <2> HIDE DEF q, t
  <2>3. /\ \A i \in DOMAIN q : i \in DOMAIN t /\ t[i] = q[i]
        /\ \A i \in DOMAIN t : i \in DOMAIN q \/ t[i] = e
        /\ Len(q) + 1 \in DOMAIN t
    BY <2>2
  <2> QED
    BY <2>1, <2>2, <2>3 DEF q
<1>7. C \cup {p} \subseteq D
  <2>1. p \in D
    BY <1>5, <1>6 DEF Calls
  <2>2. C \subseteq D
    BY <1>6 DEF Calls
  <2> QED
    BY <2>1, <2>2
<1> HIDE DEF s, C, D
<1>8. Good(b, s, C \cup {p}) /\ Grown(a, b) /\ b.role = a.role /\ ~b.request[p].awaited
  <2> HIDE DEF a
  <2> QED
    BY <1>4, DecidedGood
<1> HIDE DEF b
<1>9. StepsTo(x, b)
  <2>1. ASSUME NEW z \in Agent, z # x PROVE callbacks'[z] = callbacks[z]
    BY <1>1, <2>1 DEF AgentsInv, TypeInv
  <2> QED
    BY <1>1, <1>8, <2>1 DEF StepsTo
<1>10. /\ agents'[x] = b /\ FinalRole(x)' = FinalRole(x) /\ b.name = x
       /\ Nominated(Peer(x)) \subseteq Nominated(Peer(x))' /\ (Settled => Settled')
  BY <1>9, StepFacts
<1>11. Good(b, Of(x)', Calls(x)')
  BY <1>1, <1>2, <1>7, <1>8, <1>10, NextGood DEF s, D
<1>12. ASSUME NEW i \in DOMAIN callbacks'[x] PROVE CallFit(x, callbacks[x][i])'
  <2>1. CASE callbacks'[x][i] = e
    BY <1>1, <1>5, <1>8, <1>10, <2>1 DEF CallFit
  <2>2. CASE i \in DOMAIN callbacks[x]
    <3>1. CallFit(x, callbacks[x][i]) /\ callbacks'[x][i] = callbacks[x][i]
      BY <1>2, <1>6, <2>2 DEF Sound
    <3>2. ~Yields(setting, x)
      <4>1. Yields(setting, x) => setting.delayed = {}
        BY <1>2, SettlesFacts
      <4> QED
        BY <1>1, <2>2, <4>1 DEF Free
    <3> QED
      BY <1>1, <1>10, <3>1, <3>2 DEF CallFit
  <2> QED
    BY <1>6, <1>12, <2>1, <2>2
<1>13. x \notin setting.delayed => Len(callbacks'[x]) <= 1
  BY <1>1, <1>6 DEF Free
<1>14. Sound(x)'
  BY <1>1, <1>2, <1>4, <1>8, <1>10, <1>11, <1>12, <1>13 DEF Sound
<1> QED
  BY <1>9, <1>14, OneStep

LEMMA RespondSound ==
    ASSUME Settles, AgentsInv, TypeInv', NEW x \in Agent, NEW p \in Pair, Respond(x, p)
    PROVE  AgentsInv'
<1> DEFINE a == agents[x]
           r == a.request[p]
           s == Of(x)
           C == Calls(x)
<1>1. r.awaited /\ r.answer # "none" /\ Resolved(x, p, r.answer)
  BY DEF Respond
<1>2. setting \in Setting /\ Typed(a)
  BY DEF AgentsInv, TypeInv
<1>3. r \in Request /\ r.answer \in {"ok", "487"}
  BY <1>1, <1>2, CheckOf DEF Request
<1>4. a.list # "Idle"
  <2>1. ~NoRequest.awaited
    BY DEF NoRequest
  <2> QED
    BY <1>1, <2>1, NotBegun, NewAgentIs
<1>5. Good(a, s, C)
  BY <1>4, Begun
<1>6. /\ s \in Situation /\ s.broken = setting.broken /\ s.done = Settled
      /\ s.gives = Yields(setting, x) /\ s.role = setting.role[x]
  BY <1>2, OfFacts
<1> HIDE DEF s, C
<1>7. RequestFit(a, p, s) /\ Current(a, p, s)
  BY <1>5 DEF Good
<1>8. p \notin setting.broken
  BY <1>3, <1>6, <1>7 DEF RequestFit
<1>9. r.answer = "ok" => Settled
  BY <1>6, <1>7 DEF RequestFit
<1>10. r.answer = "487" => Yields(setting, x) /\ a.role = setting.role[x]
  BY <1>1, <1>6, <1>7, <1>8 DEF RequestFit, Current
<1> QED
  BY <1>1, <1>3, <1>8, <1>9, <1>10, ResolvedSound

LEMMA TimeOutSound ==
    ASSUME Settles, AgentsInv, TypeInv', NEW x \in Agent, NEW p \in Pair, TimeOut(x, p)
    PROVE  AgentsInv'
<1> DEFINE outcome == "timedOut"
<1>1. outcome # "ok" /\ outcome # "487" /\ (outcome = "timedOut" <=> p \in setting.broken)
  BY DEF TimeOut
<1>2. Resolved(x, p, outcome) /\ agents[x].request[p].awaited
  BY DEF TimeOut
<1> HIDE DEF outcome
<1> QED
  BY <1>1, <1>2, ResolvedSound

-----------------------------------------------------------------------------
(* A request arrives at the peer. *)

\* A request that is not served yet is of an agent that has begun.
LEMMA UnservedFacts ==
    ASSUME AgentsInv, NEW x \in Agent, NEW p \in Pair, ~agents[x].request[p].served
    PROVE  LET r == agents[x].request[p]
           IN  /\ Good(agents[x], Of(x), Calls(x)) /\ buffered[x] = <<>>
               /\ r \in Request /\ r.favored \in BOOLEAN
               /\ r.role \in {setting.role[x], agents[x].role}
               /\ r.favored => p \in Nominated(x)
<1> DEFINE a == agents[x]
           r == a.request[p]
           s == Of(x)
           C == Calls(x)
<1>1. setting \in Setting /\ Typed(a)
  BY DEF AgentsInv, TypeInv
<1>2. a.list # "Idle"
  <2>1. NoRequest.served
    BY DEF NoRequest
  <2> QED
    BY <2>1, NotBegun, NewAgentIs
<1>3. Good(a, s, C) /\ buffered[x] = <<>>
  BY <1>2, Begun
<1>4. r \in Request /\ r.favored \in BOOLEAN
  BY <1>1, CheckOf DEF Request
<1>5. s.role = setting.role[x]
  BY <1>1, OfFacts
<1> HIDE DEF s, C
<1>6. RequestFit(a, p, s)
  BY <1>3 DEF Good
<1>7. r.role \in {setting.role[x], a.role} /\ (r.favored => a.checks[p].nominated)
  BY <1>5, <1>6 DEF RequestFit
<1> QED
  BY <1>3, <1>4, <1>7 DEF Nominated, s, C

\* Only who is to give way is refused.
LEMMA RefusedFacts ==
    ASSUME AgentsInv, NEW x \in Agent, NEW p \in Pair, ~agents[x].request[p].served,
           RoleConflict(Peer(x), agents[x].request[p])
    PROVE  Yields(setting, x) /\ agents[x].request[p].role = setting.role[x]
<1> DEFINE y == Peer(x)
           r == agents[x].request[p]
<1>1. setting \in Setting /\ y \in Agent /\ y # x /\ Peer(y) = x /\ Sound(x) /\ Sound(y)
  BY PeerFacts DEF AgentsInv, TypeInv
<1>2. /\ r.role = served[y]
      /\ (TieBreaker[y] > TieBreaker[x]) <=> (r.role = "controlling")
  BY <1>1 DEF RoleConflict
<1>3. /\ r.role \in {setting.role[x], agents[x].role}
      /\ agents[x].role \in {setting.role[x], FinalRole(x)}
      /\ served[y] \in {setting.role[y], FinalRole(y)}
  BY <1>1, UnservedFacts DEF Sound
<1>4. ~Yields(setting, x) => FinalRole(x) = setting.role[x] /\ r.role = setting.role[x]
  BY <1>1, <1>3, SettingFacts
<1>5. ~Yields(setting, x) /\ ~Yields(setting, y) => FALSE
  <2>1. ASSUME ~Yields(setting, x), ~Yields(setting, y) PROVE FALSE
    <3>1. FinalRole(y) = setting.role[y] /\ FinalRole(x) # FinalRole(y)
      BY <1>1, <2>1, SettingFacts
    <3> QED
      BY <1>2, <1>3, <1>4, <2>1, <3>1
  <2> QED
    BY <2>1
<1>6. Yields(setting, y) => FALSE
  <2>1. ASSUME Yields(setting, y) PROVE FALSE
    <3>1. setting.role[y] = setting.role[x] /\ ~Yields(setting, x)
      BY <1>1, <2>1, SettingFacts
    <3>2. (TieBreaker[y] > TieBreaker[x]) # (setting.role[y] = "controlling")
      BY <1>1, <2>1 DEF Yields
    <3> QED
      BY <1>2, <1>4, <3>1, <3>2
  <2> QED
    BY <2>1
<1>7. Yields(setting, x)
  BY <1>5, <1>6
<1>8. ~Yields(setting, y) /\ setting.role[x] = setting.role[y]
  BY <1>1, <1>7, SettingFacts
<1>9. FinalRole(y) = setting.role[y]
  BY <1>1, <1>8, SettingFacts
<1> QED
  BY <1>2, <1>3, <1>7, <1>8, <1>9

\* A request that is not refused settles the roles, if they are not yet.
LEMMA AcceptedFacts ==
    ASSUME AgentsInv, NEW x \in Agent, NEW p \in Pair, ~agents[x].request[p].served,
           ~RoleConflict(Peer(x), agents[x].request[p])
    PROVE  LET y == Peer(x)
           IN  /\ agents[x].role = FinalRole(x) /\ ServedRole(x, p) = FinalRole(y)
               /\ \/ Settled /\ Asked(x, p) = agents[y]
                  \/ /\ ~Settled /\ Yields(setting, y) /\ agents[y].role = setting.role[y]
                     /\ Asked(x, p) = RoleChangeNeeded(agents[y], FinalRole(y))
                     /\ ~agents[x].request[p].favored
<1> DEFINE y == Peer(x)
           r == agents[x].request[p]
<1>1. /\ setting \in Setting /\ y \in Agent /\ y # x /\ Peer(y) = x /\ Sound(x) /\ Sound(y)
      /\ \A z \in Agent : z = x \/ z = y
  BY PeerFacts DEF AgentsInv, TypeInv
<1>2. /\ r.role \in {setting.role[x], agents[x].role}
      /\ agents[x].role \in {setting.role[x], FinalRole(x)}
      /\ agents[y].role \in {setting.role[y], FinalRole(y)}
      /\ served[y] \in {setting.role[y], FinalRole(y)}
      /\ served[y] # setting.role[y] => agents[y].role = served[y]
  BY <1>1, UnservedFacts DEF Sound
<1>3. /\ ~Yields(setting, x) => FinalRole(x) = setting.role[x]
      /\ ~Yields(setting, y) => FinalRole(y) = setting.role[y]
      /\ Yields(setting, x) => setting.role[x] = setting.role[y] /\ ~Yields(setting, y)
      /\ Yields(setting, y) => setting.role[x] = setting.role[y] /\ ~Yields(setting, x)
      /\ FinalRole(x) # FinalRole(y)
      /\ setting.role[y] \in Role
  BY <1>1, SettingFacts
<1>4. CASE r.role # served[y]
  <2>1. ServedRole(x, p) = served[y] /\ Asked(x, p) = agents[y]
    BY <1>4 DEF ServedRole, Asked
  <2>2. /\ agents[x].role = FinalRole(x) /\ agents[y].role = FinalRole(y)
        /\ served[y] = FinalRole(y)
    BY <1>2, <1>3, <1>4
  <2>3. Settled
    BY <1>1, <2>2 DEF Settled
  <2> QED
    BY <2>1, <2>2, <2>3
<1>5. CASE r.role = served[y]
  <2>1. Yields(setting, y)
    <3>1. Yields(setting, x) \/ Yields(setting, y)
      BY <1>2, <1>3, <1>5
    <3>2. Yields(setting, x) => RoleConflict(y, r)
      <4> SUFFICES ASSUME Yields(setting, x) PROVE RoleConflict(y, r)
        OBVIOUS
      <4>1. (TieBreaker[x] > TieBreaker[y]) # (setting.role[x] = "controlling")
        BY DEF Yields
      <4>2. r.role = setting.role[x]
        BY <1>2, <1>3, <1>5
      <4>3. /\ TieBreaker[x] \in Nat /\ TieBreaker[y] \in Nat /\ TieBreaker[x] # TieBreaker[y]
        BY <1>1, AgentsAssumption
      <4> QED
        BY <1>1, <1>5, <4>1, <4>2, <4>3 DEF RoleConflict
    <3> QED
      BY <3>1, <3>2
  <2>2. /\ agents[x].role = FinalRole(x) /\ served[y] = setting.role[y]
        /\ FinalRole(y) = Other(setting.role[y])
    BY <1>2, <1>3, <1>5, <2>1 DEF FinalRole
  <2>3. ServedRole(x, p) = FinalRole(y) /\ Asked(x, p) = RoleChangeNeeded(agents[y], FinalRole(y))
    BY <1>5, <2>2 DEF ServedRole, Asked
  <2>4. CASE agents[y].role = FinalRole(y)
    <3>1. Settled
      BY <1>1, <2>2, <2>4 DEF Settled
    <3>2. RoleChangeNeeded(agents[y], FinalRole(y)) = agents[y]
      BY <1>1, <2>4 DEF RoleChangeNeeded, AgentsInv, TypeInv, AgentType
    <3> QED
      BY <2>2, <2>3, <3>1, <3>2
  <2>5. CASE agents[y].role # FinalRole(y)
    <3>1. ~Settled /\ agents[y].role = setting.role[y]
      BY <1>1, <1>2, <2>5 DEF Settled
    <3>2. ~r.favored
      BY <3>1, Unsettled, UnservedFacts
    <3> QED
      BY <2>1, <2>2, <2>3, <3>1, <3>2
  <2> QED
    BY <2>4, <2>5
<1> QED
  BY <1>4, <1>5

\* An answer does not change what the completions tell.
LEMMA AnsweredCalls ==
    ASSUME AgentsInv, NEW x \in Agent, NEW p \in Pair, NEW answer,
           ~agents[x].request[p].served, answer \in {"ok", "487"},
           setting' = setting, callbacks'[x] = callbacks[x], Settled => Settled',
           agents'[x] = Answered(agents[x], p, answer)
    PROVE  \A i \in DOMAIN callbacks'[x] : CallFit(x, callbacks[x][i])'
<1>1. Typed(agents[x]) /\ Sound(x) /\ callbacks[x] \in Seq(Callbacks)
  BY DEF AgentsInv, TypeInv
<1> DEFINE a == agents[x]
           b == agents'[x]
           n == NewAnswer(a.request[p], answer)
<1>2. b.role = a.role /\ b.request = [a.request EXCEPT ![p] = n]
  <2> HIDE DEF a
  <2>1. b = Answered(a, p, answer) /\ Typed(a)
    BY <1>1 DEF a
  <2> HIDE DEF b, n
  <2>2. b.role = a.role /\ b.request = [a.request EXCEPT ![p] = NewAnswer(a.request[p], answer)]
    BY <2>1, AnsweredGives DEF Around
  <2> QED
    BY <2>2 DEF n
<1>3. a.request \in [Pair -> Request] /\ n.awaited = a.request[p].awaited
  BY <1>1 DEF Typed, AgentType, Request, NewAnswer
<1> HIDE DEF n
<1>4. \A q \in Pair : b.request[q].awaited = a.request[q].awaited
  BY <1>2, <1>3
<1> SUFFICES ASSUME NEW i \in DOMAIN callbacks[x] PROVE CallFit(x, callbacks[x][i])'
  OBVIOUS
<1>5. callbacks[x][i].pair \in Pair /\ CallFit(x, callbacks[x][i])
  <2> DEFINE k == callbacks[x]
  <2>1. k[i] \in Callbacks
    BY <1>1
  <2> HIDE DEF k
  <2>2. k[i].pair \in Pair
    BY <2>1 DEF Callbacks
  <2> QED
    BY <1>1, <2>2 DEF Sound, k
<1> QED
  BY <1>2, <1>4, <1>5 DEF CallFit

LEMMA RefusedSound ==
    ASSUME Settles, AgentsInv, TypeInv', NEW x \in Agent, NEW p \in Pair,
           ~agents[x].request[p].served, p \notin setting.broken,
           RoleConflict(Peer(x), agents[x].request[p]),
           agents' = [agents EXCEPT ![x] = Answered(agents[x], p, "487")],
           setting' = setting, served' = served, callbacks' = callbacks, buffered' = buffered
    PROVE  AgentsInv'
<1> DEFINE a == agents[x]
           answer == "487"
           b == Answered(a, p, answer)
           s == Of(x)
           C == Calls(x)
<1>1. setting \in Setting /\ Sound(x) /\ agents' = [agents EXCEPT ![x] = b]
  BY DEF AgentsInv, TypeInv
<1>2. Good(a, s, C) /\ buffered[x] = <<>>
  BY UnservedFacts
<1>3. /\ s \in Situation /\ s.broken = setting.broken /\ s.gives = Yields(setting, x)
      /\ s.role = setting.role[x]
  BY <1>1, OfFacts
<1>4. s.gives /\ a.request[p].role = s.role
  BY <1>3, RefusedFacts
<1>5. answer = "487" /\ answer \in {"ok", "487"} /\ answer # "ok" /\ ~a.request[p].served
  OBVIOUS
<1> HIDE DEF s, C, answer
<1>6. Good(b, s, C) /\ Grown(a, b) /\ b.role = a.role
  <2> HIDE DEF a
  <2> QED
    BY <1>2, <1>3, <1>4, <1>5, AnsweredGood
<1> HIDE DEF b
<1>7. StepsTo(x, b)
  BY <1>1, <1>6 DEF StepsTo
<1>8. /\ agents'[x] = b /\ FinalRole(x)' = FinalRole(x) /\ b.name = x
      /\ Nominated(Peer(x)) \subseteq Nominated(Peer(x))' /\ (Settled => Settled')
  BY <1>7, StepFacts
<1>9. Calls(x)' = Calls(x)
  BY DEF Calls
<1>10. Good(b, Of(x)', Calls(x)')
  BY <1>1, <1>6, <1>8, <1>9, NextGood DEF s, C
<1>11. \A i \in DOMAIN callbacks'[x] : CallFit(x, callbacks[x][i])'
  <2>1. agents'[x] = Answered(agents[x], p, answer)
    BY <1>8 DEF b
  <2> QED
    BY <1>5, <1>8, <2>1, AnsweredCalls
<1>12. Sound(x)'
  BY <1>1, <1>2, <1>6, <1>8, <1>10, <1>11 DEF Sound
<1> QED
  BY <1>7, <1>12, OneStep

\* The agent that asked, after it has been accepted
LEMMA AskerSound ==
    ASSUME AgentsInv, TypeInv', NEW x \in Agent, NEW p \in Pair,
           ~agents[x].request[p].served, p \notin setting.broken,
           agents'[x] = Answered(agents[x], p, "ok"), Settled',
           Nominated(Peer(x)) \subseteq Nominated(Peer(x))',
           setting' = setting, served'[x] = served[x], callbacks' = callbacks,
           buffered'[x] = buffered[x]
    PROVE  Sound(x)' /\ Nominated(x) \subseteq Nominated(x)'
<1> DEFINE a == agents[x]
           answer == "ok"
           b == Answered(a, p, answer)
           z == Of(x)'
           C == Calls(x)
<1>1. setting \in Setting /\ setting' \in Setting /\ Sound(x) /\ agents'[x] = b
  BY DEF AgentsInv, TypeInv
<1>2. Good(a, Of(x), C) /\ buffered[x] = <<>>
  BY UnservedFacts
<1>3. z \in Situation /\ z.broken = setting.broken /\ z.done
  BY <1>1, OfFactsNext
<1>4. Good(a, z, C)
  BY <1>1, <1>2, NextGood
<1>5. answer = "ok" /\ answer \in {"ok", "487"} /\ answer # "487" /\ ~a.request[p].served
  OBVIOUS
<1>6. FinalRole(x)' = FinalRole(x) /\ Calls(x)' = C
  BY DEF FinalRole, Calls
<1> HIDE DEF z, C, answer
<1>7. Good(b, z, C) /\ Grown(a, b) /\ b.role = a.role
  <2> HIDE DEF a
  <2> QED
    BY <1>3, <1>4, <1>5, AnsweredGood
<1>8. \A i \in DOMAIN callbacks'[x] : CallFit(x, callbacks[x][i])'
  <2>1. agents'[x] = Answered(agents[x], p, answer)
    BY <1>1
  <2> QED
    BY <1>5, <2>1, AnsweredCalls
<1> HIDE DEF b
<1>9. b.name = x /\ Nominated(x) \subseteq Nominated(x)'
  BY <1>1, <1>7 DEF Grown, Sound, Nominated
<1>10. Good(agents'[x], Of(x)', Calls(x)')
  BY <1>1, <1>6, <1>7 DEF z
<1>11. Sound(x)'
  BY <1>1, <1>2, <1>6, <1>7, <1>8, <1>9, <1>10 DEF Sound
<1> QED
  BY <1>9, <1>11

\* What its peer becomes, which has not begun or has
LEMMA AcceptedIdle ==
    ASSUME AgentsInv, NEW y \in Agent, agents[y].list = "Idle", NEW d,
           d = agents[y] \/ d = RoleChangeNeeded(agents[y], FinalRole(y)),
           d.role = FinalRole(y)
    PROVE  /\ d = NewAgent(y, d.role) /\ d.name = y /\ callbacks[y] = <<>>
           /\ Grown(agents[y], d)
<1>1. /\ agents[y] = NewAgent(y, agents[y].role) /\ agents[y].role \in Role
      /\ callbacks[y] = <<>> /\ FinalRole(y) \in Role
  BY NotBegun, SettingFacts DEF AgentsInv, TypeInv
<1>2. ASSUME NEW r, NEW q PROVE RoleChangeNeeded(NewAgent(y, r), q) = NewAgent(y, q)
  <2> DEFINE ch == [p \in Pair |-> NewCheck("Frozen")]
             rq == [p \in Pair |-> NoRequest]
             rs == [p \in Pair |-> FALSE]
             new(role) ==
               [ name |-> y, role |-> role, list |-> "Idle", checks |-> ch, request |-> rq,
                 resolved |-> rs, server |-> TRUE, valid |-> {}, que |-> <<>>, timer |-> FALSE,
                 told |-> {} ]
  <2>1. NewAgent(y, r) = new(r) /\ NewAgent(y, q) = new(q)
    BY Zenon DEF NewAgent
  <2>2. RoleChangeNeeded(NewAgent(y, r), q) = [new(r) EXCEPT !.role = q]
    BY <2>1, Zenon DEF RoleChangeNeeded
  <2> HIDE DEF ch, rq, rs
  <2> QED
    BY <2>1, <2>2
<1>3. d = NewAgent(y, FinalRole(y))
  BY <1>1, <1>2
<1>4. d.name = y /\ agents[y].name = y /\ \A p \in Pair : ~agents[y].checks[p].nominated
  BY <1>1, <1>3, NewAgentIs
<1> QED
  BY <1>1, <1>3, <1>4 DEF Grown

LEMMA AcceptedBegun ==
    ASSUME Ordered, Settles, AgentsInv, NEW x \in Agent, NEW p \in Pair,
           ~agents[x].request[p].served, p \notin setting.broken,
           ~RoleConflict(Peer(x), agents[x].request[p]), agents[Peer(x)].list # "Idle"
    PROVE  LET y == Peer(x)
               d == STUNRequestReceived(Asked(x, p), p, agents[x].request[p].favored)
           IN  /\ Good(d, Of(y), Calls(y)) /\ buffered[y] = <<>> /\ Grown(agents[y], d)
               /\ d.role = FinalRole(y)
<1> DEFINE y == Peer(x)
           r == agents[x].request[p]
           f == r.favored
           a == agents[y]
           s == Of(y)
           C == Calls(y)
           R == FinalRole(y)
           d == STUNRequestReceived(Asked(x, p), p, f)
<1>1. y \in Agent /\ Peer(y) = x /\ setting \in Setting
  BY PeerFacts DEF AgentsInv, TypeInv
<1>2. Good(a, s, C) /\ buffered[y] = <<>>
  BY <1>1, Begun
<1>3. /\ s \in Situation /\ s.broken = setting.broken /\ s.peer = Nominated(x)
      /\ s.done = Settled /\ s.gives = Yields(setting, y) /\ s.role = setting.role[y]
      /\ R \in Role
  BY <1>1, OfFacts, SettingFacts
<1>4. f \in BOOLEAN /\ (f => a.role = "controlled" /\ p \in s.peer)
  <2>1. f \in BOOLEAN /\ (f => p \in Nominated(x))
    BY UnservedFacts
  <2> QED
    BY <1>3, <2>1, NominatedFacts
<1>5. CASE Settled /\ Asked(x, p) = a
  <2>1. a.role = R
    BY <1>1, <1>5 DEF Settled
  <2>2. d = STUNRequestReceived(a, p, f)
    BY <1>5
  <2> HIDE DEF a, s, C, d, f, R
  <2>3. Good(d, s, C) /\ d.role = a.role /\ Grown(a, d)
    BY <1>2, <1>3, <1>4, <2>2, ReceivedGood
  <2> QED
    BY <1>2, <2>1, <2>3 DEF a, s, C, d, f, R
<1>6. CASE /\ ~Settled /\ Yields(setting, y) /\ a.role = setting.role[y]
           /\ Asked(x, p) = RoleChangeNeeded(a, R) /\ ~f
  <2>1. s.peer = {}
    BY <1>3, <1>6, Unsettled
  <2>2. d = STUNRequestReceived(RoleChangeNeeded(a, R), p, f) /\ f \in BOOLEAN /\ ~f
    BY <1>4, <1>6
  <2>3. \A q \in Pair : q \notin setting.broken => q = p
    BY <1>1, <1>6, SettlesFacts
  <2>4. /\ s \in Situation /\ R \in Role /\ Good(a, s, C) /\ ~s.done /\ s.gives
        /\ a.role = s.role /\ \A q \in Pair : q \notin s.broken => q = p
    BY <1>2, <1>3, <1>6, <2>3
  <2> HIDE DEF a, s, C, d, f, R
  <2>5. Good(d, s, C) /\ Grown(a, d) /\ d.role = R
    BY <2>1, <2>2, <2>4, ConvertedGood
  <2> QED
    BY <1>2, <2>5 DEF a, s, C, d, f, R
<1> QED
  BY <1>5, <1>6, AcceptedFacts

\* The agent that was asked
LEMMA AskedSound ==
    ASSUME Settles, AgentsInv, TypeInv', NEW y \in Agent, NEW e, NEW d, Free(y),
           d.role = FinalRole(y), d.name = y, agents'[y] = d,
           \/ /\ d = NewAgent(y, d.role) /\ callbacks[y] = <<>>
              /\ e.favored => e.pair \in Nominated(Peer(y))'
              /\ buffered'[y] = Append(buffered[y], e)
           \/ /\ Good(d, Of(y), Calls(y)) /\ buffered[y] = <<>> /\ buffered'[y] = <<>>,
           Settled', Nominated(Peer(y)) \subseteq Nominated(Peer(y))',
           setting' = setting, served'[y] = FinalRole(y), callbacks' = callbacks
    PROVE  Sound(y)'
<1>1. setting \in Setting /\ Sound(y) /\ callbacks'[y] = callbacks[y]
  BY DEF AgentsInv, TypeInv
<1>2. FinalRole(y)' = FinalRole(y) /\ Calls(y)' = Calls(y)
  BY DEF FinalRole, Calls
<1>3. \A i \in DOMAIN callbacks'[y] : CallFit(y, callbacks[y][i])'
  <2> SUFFICES ASSUME NEW i \in DOMAIN callbacks[y] PROVE CallFit(y, callbacks[y][i])'
    BY <1>1
  <2>1. CallFit(y, callbacks[y][i])
    BY <1>1 DEF Sound
  <2>2. ~Yields(setting, y)
    <3>1. Yields(setting, y) => setting.delayed = {}
      BY <1>1, SettlesFacts
    <3> QED
      BY <3>1 DEF Free
  <2> QED
    BY <1>1, <2>1, <2>2 DEF CallFit
<1>4. /\ agents'[y].name = y /\ agents'[y].role = FinalRole(y)'
      /\ served'[y] = FinalRole(y)' /\ agents'[y].role = served'[y]
      /\ y \notin setting'.delayed => Len(callbacks'[y]) <= 1
  BY <1>1, <1>2 DEF Sound
<1>5. CASE /\ d = NewAgent(y, d.role) /\ callbacks[y] = <<>>
           /\ e.favored => e.pair \in Nominated(Peer(y))'
           /\ buffered'[y] = Append(buffered[y], e)
  <2>1. /\ \A i \in DOMAIN buffered[y] :
              buffered[y][i].favored => buffered[y][i].pair \in Nominated(Peer(y))'
        /\ buffered[y] \in Seq(Buffered)
    BY <1>1 DEF Sound, AgentsInv, TypeInv
  <2>2. \A i \in DOMAIN buffered'[y] :
           buffered'[y][i].favored => buffered'[y][i].pair \in Nominated(Peer(y))'
    <3> DEFINE q == buffered[y]
               t == Append(q, e)
               N == Nominated(Peer(y))'
    <3>1. /\ DOMAIN q = 1 .. Len(q) /\ DOMAIN t = 1 .. Len(q) + 1 /\ Len(q) \in Nat
          /\ t[Len(q) + 1] = e /\ \A i \in 1 .. Len(q) : t[i] = q[i]
      <4> HIDE DEF q
      <4> QED
        BY <2>1 DEF q
    <3>2. /\ \A i \in DOMAIN q : q[i].favored => q[i].pair \in N
          /\ e.favored => e.pair \in N
      BY <1>5, <2>1
    <3> HIDE DEF q, t, N
    <3>3. \A i \in DOMAIN t : t[i].favored => t[i].pair \in N
      <4> SUFFICES ASSUME NEW i \in DOMAIN t PROVE t[i].favored => t[i].pair \in N
        OBVIOUS
      <4>1. i \in DOMAIN q \/ i = Len(q) + 1
        BY <3>1
      <4> QED
        BY <3>1, <3>2, <4>1
    <3> QED
      BY <1>5, <3>3 DEF q, t, N
  <2> QED
    BY <1>1, <1>3, <1>4, <1>5, <2>2 DEF Sound
<1>6. CASE Good(d, Of(y), Calls(y)) /\ buffered[y] = <<>> /\ buffered'[y] = <<>>
  <2>1. Good(d, Of(y)', Calls(y)')
    BY <1>1, <1>2, <1>6, NextGood
  <2> QED
    BY <1>1, <1>3, <1>4, <1>6, <2>1 DEF Sound
<1> QED
  BY <1>5, <1>6

LEMMA ServeSound ==
    ASSUME Ordered, Settles, AgentsInv, TypeInv', NEW x \in Agent, NEW p \in Pair, Serve(x, p)
    PROVE  AgentsInv'
<1> DEFINE y == Peer(x)
           r == agents[x].request[p]
           e == [pair |-> p, favored |-> r.favored]
           n == Answered(agents[x], p, "ok")
           received == STUNRequestReceived(Asked(x, p), p, r.favored)
<1>1. /\ Free(y) /\ ~r.served /\ p \notin setting.broken
      /\ setting' = setting /\ callbacks' = callbacks
      /\ \/ /\ RoleConflict(y, r)
            /\ agents' = [agents EXCEPT ![x] = Answered(agents[x], p, "487")]
            /\ served' = served /\ buffered' = buffered
         \/ /\ ~RoleConflict(y, r)
            /\ served' = [served EXCEPT ![y] = ServedRole(x, p)]
            /\ \/ /\ agents[y].list = "Idle"
                  /\ agents' = [agents EXCEPT ![x] = n, ![y] = Asked(x, p)]
                  /\ buffered' = [buffered EXCEPT ![y] = Append(buffered[y], e)]
               \/ /\ agents[y].list # "Idle"
                  /\ agents' = [agents EXCEPT ![x] = n, ![y] = received]
                  /\ buffered' = buffered
  BY ServeIs, Zenon DEF AgentsInv
<1>2. /\ y \in Agent /\ y # x /\ Peer(y) = x /\ setting \in Setting
      /\ \A z \in Agent : z = x \/ z = y
  BY PeerFacts DEF AgentsInv, TypeInv
<1>3. CASE RoleConflict(y, r)
  BY <1>1, <1>3, RefusedSound
<1>4. CASE ~RoleConflict(y, r)
  <2>1. /\ agents[x].role = FinalRole(x) /\ ServedRole(x, p) = FinalRole(y)
        /\ \/ Asked(x, p) = agents[y] /\ Settled
           \/ Asked(x, p) = RoleChangeNeeded(agents[y], FinalRole(y))
    BY <1>1, <1>4, AcceptedFacts
  <2>2. /\ served'[y] = FinalRole(y) /\ served'[x] = served[x]
        /\ callbacks'[x] = callbacks[x]
    BY <1>1, <1>2, <1>4, <2>1 DEF AgentsInv, TypeInv
  <2>3. r.favored => p \in Nominated(x)
    BY <1>1, UnservedFacts
  <2> DEFINE d == agents'[y]
  <2>4. /\ agents'[x] = n /\ d.role = FinalRole(y) /\ d.name = y /\ Grown(agents[y], d)
        /\ buffered'[x] = buffered[x]
        /\ \/ /\ d = NewAgent(y, d.role) /\ callbacks[y] = <<>>
              /\ buffered'[y] = Append(buffered[y], e)
           \/ /\ Good(d, Of(y), Calls(y)) /\ buffered[y] = <<>> /\ buffered'[y] = <<>>
    <3>1. CASE agents[y].list = "Idle"
      <4>1. /\ agents'[x] = n /\ d = Asked(x, p) /\ buffered'[x] = buffered[x]
            /\ buffered'[y] = Append(buffered[y], e)
        BY <1>1, <1>2, <1>4, <3>1 DEF AgentsInv, TypeInv
      <4>2. d = agents[y] \/ d = RoleChangeNeeded(agents[y], FinalRole(y))
        BY <2>1, <4>1
      <4>3. d.role = FinalRole(y)
        <5>1. RoleChangeNeeded(agents[y], FinalRole(y)).role = FinalRole(y)
          BY <1>2 DEF RoleChangeNeeded, AgentsInv, TypeInv, AgentType
        <5>2. Settled => agents[y].role = FinalRole(y)
          BY <1>2 DEF Settled
        <5> QED
          BY <2>1, <4>1, <5>1, <5>2
      <4> QED
        BY <1>2, <3>1, <4>1, <4>2, <4>3, AcceptedIdle
    <3>2. CASE agents[y].list # "Idle"
      <4>1. agents'[x] = n /\ d = received /\ buffered' = buffered
        BY <1>1, <1>2, <1>4, <3>2 DEF AgentsInv, TypeInv
      <4>2. /\ Good(received, Of(y), Calls(y)) /\ buffered[y] = <<>> /\ Grown(agents[y], received)
            /\ received.role = FinalRole(y)
        BY <1>1, <1>4, <3>2, AcceptedBegun
      <4>3. received.name = y
        BY <1>2, <4>2 DEF Grown, AgentsInv, Sound
      <4> QED
        BY <4>1, <4>2, <4>3
    <3> QED
      BY <3>1, <3>2
  <2>5. FinalRole(x)' = FinalRole(x) /\ FinalRole(y)' = FinalRole(y)
    BY <1>1 DEF FinalRole
  <2>6. n.role = agents[x].role
    <3> DEFINE answer == "ok"
               a == agents[x]
               b == Answered(a, p, answer)
    <3>1. Typed(a) /\ answer \in {"ok", "487"}
      BY DEF AgentsInv, TypeInv
    <3> HIDE DEF answer, a
    <3>2. Around(a, b)
      BY <3>1, AnsweredGives, Zenon
    <3> QED
      BY <3>2 DEF Around, answer, a
  <2>7. Settled'
    BY <1>2, <2>1, <2>4, <2>5, <2>6 DEF Settled
  <2>8. Nominated(y) \subseteq Nominated(y)'
    BY <2>4 DEF Grown, Nominated
  <2>9. Sound(x)' /\ Nominated(x) \subseteq Nominated(x)'
    BY <1>1, <2>2, <2>4, <2>7, <2>8, AskerSound
  <2>10. e.favored = r.favored /\ e.pair = p
    OBVIOUS
  <2> HIDE DEF e, n, received
  <2>11. Sound(y)'
    <3>1. e.favored => e.pair \in Nominated(Peer(y))'
      BY <1>2, <2>3, <2>9, <2>10
    <3> HIDE DEF y, r
    <3> QED
      BY <1>1, <1>2, <2>2, <2>4, <2>7, <2>9, <3>1, AskedSound
  <2> QED
    BY <1>2, <2>9, <2>11 DEF AgentsInv
<1> QED
  BY <1>3, <1>4
-----------------------------------------------------------------------------
(* Both agents in every reachable state *)

LEMMA InitSound == Init => AgentsInv
<1> SUFFICES ASSUME Init PROVE AgentsInv
  OBVIOUS
<1>1. TypeInv
  BY InitTypes
<1>2. ASSUME NEW x \in Agent PROVE Sound(x)
  <2> DEFINE role == setting.role[x]
  <2>1. /\ agents[x] = NewAgent(x, role) /\ served[x] = role
        /\ callbacks[x] = <<>> /\ buffered[x] = <<>> /\ role \in Role
    BY <1>1, <1>2, SettingFacts DEF Init, TypeInv
  <2> HIDE DEF role
  <2>2. agents[x].name = x /\ agents[x].role = role
    BY <2>1, NewAgentIs
  <2>3. agents[x] = NewAgent(x, agents[x].role)
    BY <2>1, <2>2
  <2>4. DOMAIN callbacks[x] = {} /\ DOMAIN buffered[x] = {} /\ Len(callbacks[x]) = 0
    BY <2>1
  <2> QED
    BY <2>1, <2>2, <2>3, <2>4 DEF Sound, role
<1> QED
  BY <1>1, <1>2 DEF AgentsInv

LEMMA NextSound == Ordered /\ Settles /\ AgentsInv /\ [Next]_vars => AgentsInv'
<1> SUFFICES ASSUME Ordered, Settles, AgentsInv, [Next]_vars PROVE AgentsInv'
  OBVIOUS
<1>1. TypeInv'
  BY NextTypes DEF AgentsInv
<1>2. CASE Next
  <2>1. PICK x \in Agent :
           \/ Start(x) \/ Timer(x) \/ Callback(x)
           \/ \E p \in Pair : Respond(x, p) \/ TimeOut(x, p) \/ Serve(x, p)
    BY <1>2, Zenon DEF Next
  <2>2. CASE Start(x)
    BY <1>1, <2>2, StartSound
  <2>3. CASE Timer(x)
    BY <1>1, <2>3, TimerSound
  <2>4. CASE Callback(x)
    BY <1>1, <2>4, CallbackSound
  <2>5. ASSUME NEW p \in Pair, Respond(x, p) PROVE AgentsInv'
    BY <1>1, <2>5, RespondSound
  <2>6. ASSUME NEW p \in Pair, TimeOut(x, p) PROVE AgentsInv'
    BY <1>1, <2>6, TimeOutSound
  <2>7. ASSUME NEW p \in Pair, Serve(x, p) PROVE AgentsInv'
    BY <1>1, <2>7, ServeSound
  <2> QED
    BY <2>1, <2>2, <2>3, <2>4, <2>5, <2>6, <2>7
<1>3. CASE UNCHANGED vars
  <2>1. /\ setting' = setting /\ agents' = agents /\ served' = served
        /\ callbacks' = callbacks /\ buffered' = buffered
    BY <1>3 DEF vars
  <2>2. ASSUME NEW x \in Agent PROVE Sound(x)'
    <3>1. Nominated(Peer(x)) \subseteq Nominated(Peer(x))' /\ (Settled => Settled')
      BY <2>1 DEF Nominated, Settled, FinalRole
    <3> QED
      BY <2>1, <3>1, SoundStays
  <2> QED
    BY <1>1, <2>2 DEF AgentsInv
<1> QED
  BY <1>2, <1>3

\* The invariants of the runs
LEMMA StrandedImplied == AgentsInv => NeverStranded
<1> SUFFICES ASSUME AgentsInv, NEW x \in Agent, agents[x].list = "Running"
    PROVE  /\ agents[x].que # <<>> \/ InState(agents[x], {"Waiting", "Frozen"}) # {}
                 => agents[x].timer
           /\ \A p \in InState(agents[x], {"InProgress"}) :
                 \/ agents[x].request[p].awaited
                 \/ \E i \in DOMAIN callbacks[x] : callbacks[x][i].pair = p
                 \/ \E i \in DOMAIN agents[x].que : agents[x].que[i].pair = p
  BY Zenon DEF NeverStranded
<1>1. Good(agents[x], Of(x), Calls(x)) /\ Typed(agents[x])
  BY Begun DEF AgentsInv, TypeInv
<1>2. agents[x].que # <<>> \/ InState(agents[x], {"Waiting", "Frozen"}) # {} => agents[x].timer
  BY <1>1 DEF Good, Fit, ListFit
<1>3. ASSUME NEW p \in InState(agents[x], {"InProgress"})
      PROVE  \/ agents[x].request[p].awaited
             \/ \E i \in DOMAIN callbacks[x] : callbacks[x][i].pair = p
             \/ \E i \in DOMAIN agents[x].que : agents[x].que[i].pair = p
  <2>1. p \in Pair /\ agents[x].checks[p].state = "InProgress"
    BY <1>3 DEF InState
  <2>2. agents[x].request[p].awaited \/ p \in Calls(x) \/ Queued(agents[x], p)
    BY <1>1, <2>1 DEF Good, Driven
  <2>3. p \in Calls(x) => \E i \in DOMAIN callbacks[x] : callbacks[x][i].pair = p
    BY DEF Calls
  <2>4. Queued(agents[x], p) => \E i \in DOMAIN agents[x].que : agents[x].que[i].pair = p
    BY <1>1 DEF Queued, ToSet
  <2> QED
    BY <2>2, <2>3, <2>4
<1> QED
  BY <1>2, <1>3

\* A list that has completed tells its client of working pairs, after the roles
\* are settled.
LEMMA CompletedFacts ==
    ASSUME AgentsInv, NEW x \in Agent, agents[x].list = "Completed"
    PROVE  /\ Settled /\ agents[x].told # {}
           /\ agents[x].role = "controlled" => agents[x].told \subseteq Nominated(Peer(x))
<1>1. /\ Good(agents[x], Of(x), Calls(x)) /\ Typed(agents[x]) /\ setting \in Setting
  BY Begun DEF AgentsInv, TypeInv
<1>2. Of(x).done = Settled /\ Of(x).peer = Nominated(Peer(x))
  BY <1>1, OfFacts
<1>3. agents[x].told # {}
  BY <1>1 DEF Typed
<1>4. \A p \in agents[x].told :
         Of(x).done /\ (agents[x].role = "controlled" => p \in Of(x).peer)
  BY <1>1 DEF Good, Fit
<1> QED
  BY <1>2, <1>3, <1>4

LEMMA RolesImplied == AgentsInv => RolesDiffer
<1> SUFFICES ASSUME AgentsInv, NEW x \in Agent, NEW y \in Agent, x # y,
                    agents[x].list = "Completed"
             PROVE  agents[x].role # agents[y].role
  BY DEF RolesDiffer
<1>1. Settled /\ setting \in Setting /\ y = Peer(x)
  BY CompletedFacts, PeerFacts DEF AgentsInv, TypeInv
<1> QED
  BY <1>1, SettingFacts DEF Settled

LEMMA NominatedImplied == AgentsInv => NominatedByPeer
BY CompletedFacts DEF NominatedByPeer, Nominated

-----------------------------------------------------------------------------
(***************************************************************************)
(* Both agents are sound in every reachable state: what each check,        *)
(* request, queued check and callback tells is so (CIceCheckList,          *)
(* CIceConnectivityCheck, CIceConnectionHandler).                          *)
(***************************************************************************)
THEOREM Soundness ==
    ASSUME Ordered, Settles PROVE Spec => []AgentsInv
<1>1. Init => AgentsInv
  BY InitSound
<1>2. AgentsInv /\ [Next]_vars => AgentsInv'
  BY NextSound
<1> QED
  BY <1>1, <1>2, PTL DEF Spec

(***************************************************************************)
(* A list that runs has a timer for the checks that wait or are queued,    *)
(* and each check in progress has an answer, a callback or a place in the  *)
(* queue to come (OnTimerFiredL, EnqueueCheckL, HandleTriggeredCheckL).    *)
(***************************************************************************)
THEOREM StrandedNever ==
    ASSUME Ordered, Settles PROVE Spec => []NeverStranded
<1>1. AgentsInv => NeverStranded
  BY StrandedImplied
<1>2. Spec => []AgentsInv
  BY Soundness
<1> QED
  BY <1>1, <1>2, PTL

(***************************************************************************)
(* When both lists have completed the agents have different roles: the     *)
(* changes that 487 and the own server ask for (CheckCompletedL,           *)
(* RoleChangeNeeded) have ended a conflict before a pair was selected.     *)
(***************************************************************************)
THEOREM RolesSettle ==
    ASSUME Ordered, Settles PROVE Spec => []RolesDiffer
<1>1. AgentsInv => RolesDiffer
  BY RolesImplied
<1>2. Spec => []AgentsInv
  BY Soundness
<1> QED
  BY <1>1, <1>2, PTL

(***************************************************************************)
(* A controlled agent that has completed tells its client only of pairs    *)
(* that the controlling one nominated with USE-CANDIDATE                   *)
(* (CreateValidatedPairL, HandleTriggeredCheckL).                          *)
(***************************************************************************)
THEOREM PeerNominates ==
    ASSUME Ordered, Settles PROVE Spec => []NominatedByPeer
<1>1. AgentsInv => NominatedByPeer
  BY NominatedImplied
<1>2. Spec => []AgentsInv
  BY Soundness
<1> QED
  BY <1>1, <1>2, PTL
=============================================================================
