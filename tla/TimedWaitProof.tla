--------------------------- MODULE TimedWaitProof ---------------------------
(***************************************************************************)
(* Proofs about waits and the timer that ends them.                        *)
(*                                                                         *)
(* KSynchronizationObject, for any number of threads, objects and handles: *)
(* the thread lists hold exactly the nodes of the waiting threads however  *)
(* their waits end, NotifyAvailable wakes every thread of the list it      *)
(* walks although the threads leave the list under it, and Success names a *)
(* signaled object.                                                        *)
(*                                                                         *)
(* KHardwareTimer and CoreTiming, for any number of sleeping threads, any  *)
(* event types and any bound of the clock: no sleep is overslept because   *)
(* its interrupt was not programmed, an event that was unscheduled stays   *)
(* quiet, and Advance reschedules only what is queued.                     *)
(***************************************************************************)
EXTENDS KSynchronizationObject, KHardwareTimer, WellFoundedInduction, FiniteSetTheorems, TLAPS

(* Lists as paths *)

Pointer == Node \cup {Nil}

Lists == [head : [Object -> Pointer], tail : [Object -> Pointer], next : [Node -> Pointer]]

\* s is a path of nodes along the next pointers, without repetition.
IsPath(l, s) ==
    /\ s \in Seq(Node)
    /\ \A i, j \in 1 .. Len(s) : s[i] = s[j] => i = j
    /\ \A i \in 1 .. Len(s) : l.next[s[i]] = IF i = Len(s) THEN Nil ELSE s[i + 1]

\* The list of the object has the nodes of s, in their order.
IsList(l, o, s) ==
    /\ IsPath(l, s)
    /\ l.head[o] = IF Len(s) = 0 THEN Nil ELSE s[1]
    /\ l.tail[o] = IF Len(s) = 0 THEN Nil ELSE s[Len(s)]

NodesOf(s) == {s[i] : i \in 1 .. Len(s)}

\* The list of every object o is well formed and has the nodes of W[o].
Hold(l, q, W) ==
    /\ l \in Lists
    /\ W \in [Object -> SUBSET Node]
    /\ \A o, p \in Object : o # p => W[o] \cap W[p] = {}
    /\ \A o \in Object : IsList(l, o, q[o]) /\ NodesOf(q[o]) = W[o]

Holds(l, W) == \E q : Hold(l, q, W)

\* A non-empty set of natural numbers has a least one: what takes the place of
\* induction over the number of nodes or handles.
LEMMA LeastNumber ==
    ASSUME NEW S \in SUBSET Nat, S # {}
    PROVE  \E n \in S : \A m \in S : n <= m
<1>1. IsWellFoundedOn(OpToRel(<, Nat), Nat)
  BY NatLessThanWellFounded
<1>2. PICK n \in S : \A m \in S : ~(<<m, n>> \in OpToRel(<, Nat))
  BY <1>1, WFMin
<1>3. \A m \in S : ~(m < n)
  BY <1>2 DEF OpToRel
<1> QED BY <1>3

\* There are finitely many nodes.
LEMMA NodeFinite == IsFiniteSet(Node) /\ Cardinality(Node) \in Nat
<1>1. IsFiniteSet(1 .. MaxObjects)
  BY MaxObjectsAssumption, FS_Interval
<1>2. IsFiniteSet(Thread \X (1 .. MaxObjects))
  BY <1>1, ThreadAssumption, FS_Product
<1> QED BY <1>2, FS_CardinalityType DEF Node

\* f is the recursive function of Chain.
IsFrom(f, l, K) ==
    f = [k \in 0 .. K |-> [n \in Node \cup {Nil} |->
            IF n = Nil \/ k = 0 THEN <<>> ELSE <<n>> \o f[k - 1][l.next[n]]]]

\* The recursive function inside Chain exists.
LEMMA FromExists ==
    ASSUME NEW l \in Lists, NEW K \in Nat
    PROVE  \E f : IsFrom(f, l, K)
<1> DEFINE Bad == {n \in Nat : ~\E f : IsFrom(f, l, n)}
<1> HIDE DEF Bad
<1> SUFFICES ASSUME K \in Bad PROVE FALSE
  BY DEF Bad
<1>1. PICK n \in Bad : \A m \in Bad : n <= m
  <2>1. Bad \subseteq Nat
    BY DEF Bad
  <2> QED BY <2>1, LeastNumber
<1>2. n \in Nat /\ ~\E f : IsFrom(f, l, n)
  BY DEF Bad
<1>3. CASE n = 0
  <2> DEFINE g == [k \in 0 .. 0 |-> [m \in Node \cup {Nil} |-> <<>>]]
  <2>1. IsFrom(g, l, 0)
    BY DEF IsFrom
  <2> QED BY <1>2, <1>3, <2>1
<1>4. CASE n # 0
  <2>1. n - 1 \in Nat /\ n - 1 \notin Bad
    BY <1>1, <1>2, <1>4
  <2>2. PICK f : IsFrom(f, l, n - 1)
    BY <2>1 DEF Bad
  <2> DEFINE g == [k \in 0 .. n |-> [m \in Node \cup {Nil} |->
                      IF m = Nil \/ k = 0 THEN <<>> ELSE <<m>> \o f[k - 1][l.next[m]]]]
  <2>3. ASSUME NEW k \in 0 .. n - 1 PROVE g[k] = f[k]
    <3>1. k \in 0 .. n
      BY <1>2
    <3>2. f[k] = [m \in Node \cup {Nil} |-> IF m = Nil \/ k = 0 THEN <<>> ELSE <<m>> \o f[k - 1][l.next[m]]]
      BY <2>2 DEF IsFrom
    <3>3. g[k] = [m \in Node \cup {Nil} |-> IF m = Nil \/ k = 0 THEN <<>> ELSE <<m>> \o f[k - 1][l.next[m]]]
      BY <3>1
    <3> QED BY <3>2, <3>3
  <2>4. \A k \in 0 .. n : k # 0 => k - 1 \in 0 .. n - 1
    BY <1>2
  <2>5. \A m \in Node : l.next[m] \in Node \cup {Nil}
    BY DEF Lists, Pointer
  <2>6. IsFrom(g, l, n)
    BY <1>2, <2>3, <2>4, <2>5 DEF IsFrom
  <2> QED BY <1>2, <2>6
<1> QED BY <1>3, <1>4

\* A path has no more nodes than there are.
LEMMA PathIsShort ==
    ASSUME NEW l, NEW s, IsPath(l, s)
    PROVE  Len(s) <= Cardinality(Node)
<1>1. Len(s) \in Nat /\ s \in [1 .. Len(s) -> Node]
  BY DEF IsPath
<1>2. s \in Injection(1 .. Len(s), Node)
  BY <1>1 DEF IsPath, Injection, IsInjective
<1>3. IsFiniteSet(1 .. Len(s)) /\ Cardinality(1 .. Len(s)) = Len(s)
  BY <1>1, FS_Interval
<1> QED BY <1>2, <1>3, NodeFinite, FS_Injection


\* The node at a position of the path, and what follows from there.
NodeAt(s, j) == IF j > Len(s) THEN Nil ELSE s[j]
PathFrom(s, j) == [i \in 1 .. Len(s) - j + 1 |-> s[i + j - 1]]

\* A path is its first node before the rest.
LEMMA PathFromFacts ==
    ASSUME NEW s \in Seq(Node)
    PROVE  /\ PathFrom(s, 1) = s
           /\ PathFrom(s, Len(s) + 1) = <<>>
           /\ \A j \in 1 .. Len(s) : <<s[j]>> \o PathFrom(s, j + 1) = PathFrom(s, j)
<1>0. Len(s) \in Nat /\ s \in [1 .. Len(s) -> Node]
  OBVIOUS
<1>1. PathFrom(s, 1) = s
  BY <1>0 DEF PathFrom
<1>2. PathFrom(s, Len(s) + 1) = <<>>
  BY <1>0 DEF PathFrom
<1>3. ASSUME NEW j \in 1 .. Len(s)
      PROVE  <<s[j]>> \o PathFrom(s, j + 1) = PathFrom(s, j)
  <2> DEFINE n == Len(s) - j
             r == PathFrom(s, j + 1)
             p == PathFrom(s, j)
  <2>0. n \in Nat /\ Len(s) - (j + 1) + 1 = n /\ Len(s) - j + 1 = n + 1
    BY <1>0
  <2>1. r = [i \in 1 .. n |-> s[i + (j + 1) - 1]] /\ p = [i \in 1 .. n + 1 |-> s[i + j - 1]]
    BY <2>0 DEF PathFrom
  <2>2. \A i \in 1 .. n : s[i + (j + 1) - 1] \in Node
    BY <1>0
  <2>3. \A i \in 1 .. n + 1 : s[i + j - 1] \in Node
    BY <1>0
  <2> HIDE DEF n, r, p
  <2>4. r \in Seq(Node) /\ Len(r) = n
    <3>1. r \in [1 .. n -> Node]
      BY <2>0, <2>1, <2>2
    <3> QED BY <2>0, <3>1
  <2>5. p \in Seq(Node) /\ Len(p) = n + 1
    <3>1. p \in [1 .. n + 1 -> Node]
      BY <2>0, <2>1, <2>3
    <3> QED BY <2>0, <3>1
  <2>6. <<s[j]>> \in Seq(Node) /\ Len(<<s[j]>>) = 1 /\ <<s[j]>>[1] = s[j]
    BY <1>0
  <2> DEFINE c == <<s[j]>> \o r
  <2>7. c \in Seq(Node) /\ Len(c) = n + 1
    BY <2>0, <2>4, <2>6
  <2>8. \A i \in 1 .. n + 1 : c[i] = IF i = 1 THEN s[j] ELSE r[i - 1]
    BY <2>0, <2>4, <2>6
  <2>9. ASSUME NEW i \in 1 .. n + 1 PROVE c[i] = p[i]
    <3>1. CASE i = 1
      BY <1>0, <2>0, <2>1, <2>8, <3>1
    <3>2. CASE i # 1
      <4>1. i - 1 \in 1 .. n /\ (i - 1) + (j + 1) - 1 = i + j - 1
        BY <2>0, <3>2
      <4>2. r[i - 1] = s[i + j - 1]
        BY <2>1, <4>1
      <4> QED BY <2>0, <2>1, <2>8, <3>2, <4>2
    <3> QED BY <3>1, <3>2
  <2> HIDE DEF c
  <2>10. c = p
    BY <2>0, <2>5, <2>7, <2>9
  <2> QED BY <2>10 DEF c, r, p
<1> QED BY <1>1, <1>2, <1>3

\* Chain follows the path to its end.
LEMMA ChainIsPath ==
    ASSUME NEW l \in Lists, NEW s, IsPath(l, s)
    PROVE  Chain(l, NodeAt(s, 1)) = s
<1> DEFINE K == Cardinality(Node)
<1>0. K \in Nat /\ Len(s) \in Nat /\ Len(s) <= K /\ s \in Seq(Node) /\ s \in [1 .. Len(s) -> Node] /\ Nil \notin Node
  <2>1. s \in Seq(Node)
    BY DEF IsPath
  <2>2. Len(s) \in Nat /\ s \in [1 .. Len(s) -> Node]
    BY <2>1
  <2>3. K \in Nat /\ Len(s) <= K
    BY NodeFinite, PathIsShort
  <2> QED BY <2>1, <2>2, <2>3, ThreadAssumption
<1>1. PICK f : IsFrom(f, l, K) /\ \A n : Chain(l, n) = f[K][n]
  <2>1. \A n : Chain(l, n) = (CHOOSE f : IsFrom(f, l, K))[K][n]
    BY DEF Chain, IsFrom
  <2>2. \E f : IsFrom(f, l, K)
    BY <1>0, FromExists
  <2> QED BY <2>1, <2>2
<1> HIDE DEF K
<1> DEFINE Right(k) == \A j \in 1 .. Len(s) + 1 :
                          Len(s) - j + 1 <= k => f[k][NodeAt(s, j)] = PathFrom(s, j)
           Bad == {k \in Nat : k <= K /\ ~Right(k)}
<1>2. K \notin Bad
  <2> SUFFICES ASSUME Bad # {} PROVE FALSE
    OBVIOUS
  <2> HIDE DEF Right
  <2>1. PICK k \in Bad : \A m \in Bad : k <= m
    <3>1. Bad \in SUBSET Nat
      OBVIOUS
    <3> HIDE DEF Bad
    <3> QED BY <3>1, LeastNumber
  <2>2. k \in Nat /\ k <= K /\ ~Right(k) /\ k \in 0 .. K
    BY <1>0
  <2>3. k # 0 => k - 1 \in Nat /\ Right(k - 1)
    BY <1>0, <2>1, <2>2
  <2>4. PICK j \in 1 .. Len(s) + 1 : Len(s) - j + 1 <= k /\ f[k][NodeAt(s, j)] # PathFrom(s, j)
    BY <2>2 DEF Right
  <2>5. f[k] = [n \in Node \cup {Nil} |-> IF n = Nil \/ k = 0 THEN <<>> ELSE <<n>> \o f[k - 1][l.next[n]]]
    BY <1>1, <2>2 DEF IsFrom
  <2>6. CASE j = Len(s) + 1
    <3>1. NodeAt(s, j) = Nil /\ PathFrom(s, j) = <<>>
      BY <1>0, <2>6, PathFromFacts DEF NodeAt
    <3> QED BY <2>4, <2>5, <3>1
  <2>7. CASE j # Len(s) + 1
    <3>1. j \in 1 .. Len(s) /\ k # 0 /\ NodeAt(s, j) = s[j] /\ s[j] \in Node /\ s[j] # Nil
      BY <1>0, <2>2, <2>4, <2>7 DEF NodeAt
    <3>2. l.next[s[j]] = NodeAt(s, j + 1)
      <4>1. l.next[s[j]] = IF j = Len(s) THEN Nil ELSE s[j + 1]
        BY <3>1 DEF IsPath
      <4>2. j + 1 > Len(s) <=> j = Len(s)
        BY <1>0, <3>1
      <4> QED BY <4>1, <4>2 DEF NodeAt
    <3>3. f[k][s[j]] = <<s[j]>> \o f[k - 1][NodeAt(s, j + 1)]
      BY <2>5, <3>1, <3>2
    <3>4. j + 1 \in 1 .. Len(s) + 1 /\ Len(s) - (j + 1) + 1 <= k - 1
      BY <1>0, <2>2, <2>4, <3>1
    <3>5. f[k - 1][NodeAt(s, j + 1)] = PathFrom(s, j + 1)
      BY <2>3, <3>1, <3>4 DEF Right
    <3> QED BY <1>0, <2>4, <3>1, <3>3, <3>5, PathFromFacts
  <2> QED BY <2>6, <2>7
<1>3. Right(K)
  BY <1>0, <1>2
<1>4. f[K][NodeAt(s, 1)] = PathFrom(s, 1)
  BY <1>0, <1>3
<1> QED BY <1>0, <1>1, <1>4, PathFromFacts

\* What a list has to say about its object: it is empty when the head is
\* null, and its head is one of its nodes.
LEMMA HoldsFacts ==
    ASSUME NEW l, NEW W, Holds(l, W), NEW o \in Object
    PROVE  /\ l \in Lists /\ W[o] \in SUBSET Node
           /\ l.head[o] = Nil <=> W[o] = {}
           /\ l.head[o] # Nil => l.head[o] \in W[o]
           /\ IsInjective(Chain(l, l.head[o]))
           /\ Range(Chain(l, l.head[o])) = W[o]
           /\ l.tail[o] = IF Chain(l, l.head[o]) = <<>> THEN Nil ELSE Last(Chain(l, l.head[o]))
<1>1. PICK q : Hold(l, q, W)
  BY DEF Holds
<1>2. l \in Lists /\ W[o] \in SUBSET Node /\ IsList(l, o, q[o]) /\ NodesOf(q[o]) = W[o]
  BY <1>1 DEF Hold
<1> DEFINE s == q[o]
<1>3. s \in Seq(Node) /\ Len(s) \in Nat /\ DOMAIN s = 1 .. Len(s) /\ (s = <<>> <=> Len(s) = 0)
  BY <1>2 DEF IsList, IsPath
<1> HIDE DEF s
<1>4. l.head[o] = NodeAt(s, 1)
  BY <1>2, <1>3 DEF IsList, NodeAt, s
<1>5. Chain(l, l.head[o]) = s
  BY <1>2, <1>4, ChainIsPath DEF IsList, s
<1>6. IsInjective(s) /\ Range(s) = W[o]
  BY <1>2, <1>3 DEF IsList, IsPath, IsInjective, Range, NodesOf, s
<1>7. l.tail[o] = IF s = <<>> THEN Nil ELSE Last(s)
  BY <1>2, <1>3 DEF IsList, Last, s
<1>8. CASE Len(s) = 0
  <2>1. l.head[o] = Nil /\ W[o] = {}
    BY <1>3, <1>4, <1>6, <1>8 DEF NodeAt, Range
  <2> QED BY <1>2, <1>5, <1>6, <1>7, <2>1
<1>9. CASE Len(s) # 0
  <2>1. 1 \in 1 .. Len(s) /\ l.head[o] = s[1] /\ s[1] \in Node
    BY <1>3, <1>4, <1>9 DEF NodeAt
  <2>2. s[1] \in W[o] /\ s[1] # Nil
    BY <1>3, <1>6, <2>1, ThreadAssumption DEF Range
  <2> QED BY <1>2, <1>5, <1>6, <1>7, <2>1, <2>2
<1> QED BY <1>8, <1>9

\* LinkNode appends the node to the list of the object.
LEMMA LinkAppends ==
    ASSUME NEW l, NEW W, Holds(l, W), NEW o \in Object, NEW n \in Node,
           \A p \in Object : n \notin W[p]
    PROVE  Holds(LinkNode([l EXCEPT !.next[n] = Nil], o, n), [W EXCEPT ![o] = @ \cup {n}])
<1> DEFINE m == [l EXCEPT !.next[n] = Nil]
           k == LinkNode(m, o, n)
           V == [W EXCEPT ![o] = @ \cup {n}]
<1>1. PICK q : Hold(l, q, W)
  BY DEF Holds
<1>2. l \in Lists /\ W \in [Object -> SUBSET Node] /\ Nil \notin Node
  BY <1>1, ThreadAssumption DEF Hold
<1>3. m \in Lists /\ m.head = l.head /\ m.tail = l.tail /\ m.next = [l.next EXCEPT ![n] = Nil]
  BY <1>2 DEF Lists, Pointer
<1>4. /\ k.tail = [l.tail EXCEPT ![o] = n]
      /\ k.head = IF l.tail[o] = Nil THEN [l.head EXCEPT ![o] = n] ELSE l.head
      /\ k.next = IF l.tail[o] = Nil THEN m.next ELSE [m.next EXCEPT ![l.tail[o]] = n]
      /\ k = [head |-> k.head, tail |-> k.tail, next |-> k.next]
  BY <1>3 DEF LinkNode
<1>5. k \in Lists
  BY <1>2, <1>3, <1>4 DEF Lists, Pointer
<1> HIDE DEF m, k
<1>6. \A p \in Object : IsList(l, p, q[p]) /\ NodesOf(q[p]) = W[p]
  BY <1>1 DEF Hold
<1> PICK s : s = q[o]
  OBVIOUS
<1>s. s \in Seq(Node) /\ IsPath(l, s)
  BY <1>6 DEF IsList, IsPath
<1>n. Len(s) \in Nat /\ \A i \in 1 .. Len(s) : s[i] \in Node
  BY <1>s
<1>7. /\ \A i, j \in 1 .. Len(s) : s[i] = s[j] => i = j
      /\ \A i \in 1 .. Len(s) : l.next[s[i]] = IF i = Len(s) THEN Nil ELSE s[i + 1]
  BY <1>s DEF IsPath
<1>h. /\ l.head[o] = IF Len(s) = 0 THEN Nil ELSE s[1]
      /\ l.tail[o] = IF Len(s) = 0 THEN Nil ELSE s[Len(s)]
  BY <1>6 DEF IsList
<1>8. NodesOf(s) = W[o] /\ \A i \in 1 .. Len(s) : s[i] # n /\ s[i] \in W[o]
  BY <1>6 DEF NodesOf
<1> PICK r : r = Append(s, n)
  OBVIOUS
<1>9. /\ r \in Seq(Node) /\ Len(r) = Len(s) + 1 /\ r[Len(s) + 1] = n
      /\ \A i \in 1 .. Len(s) : r[i] = s[i]
  BY <1>s
<1> DEFINE z == [p \in Object |-> IF p = o THEN r ELSE q[p]]
<1>10. IsList(k, o, r) /\ NodesOf(r) = V[o]
  <2>0. \A i \in 1 .. Len(r) : i # Len(s) + 1 => i \in 1 .. Len(s)
    BY <1>n, <1>9
  <2>1. \A i, j \in 1 .. Len(r) : r[i] = r[j] => i = j
    BY <1>7, <1>8, <1>9, <2>0
  <2>2. k.tail[o] = n /\ k.head[o] = r[1]
    <3>1. k.tail[o] = n
      BY <1>2, <1>4 DEF Lists
    <3>2. CASE Len(s) = 0
      BY <1>2, <1>4, <1>h, <1>9, <3>2 DEF Lists
    <3>3. CASE Len(s) # 0
      <4>1. 1 \in 1 .. Len(s) /\ Len(s) \in 1 .. Len(s)
        BY <1>n, <3>3
      <4>2. l.tail[o] # Nil /\ r[1] = s[1] /\ l.head[o] = s[1]
        BY <1>2, <1>n, <1>h, <1>9, <3>3, <4>1
      <4> QED BY <1>4, <3>1, <4>2
    <3> QED BY <3>2, <3>3
  <2>3. ASSUME NEW i \in 1 .. Len(r) PROVE k.next[r[i]] = IF i = Len(r) THEN Nil ELSE r[i + 1]
    <3>1. CASE i = Len(r)
      <4>0. Len(s) # 0 => Len(s) \in 1 .. Len(s)
        BY <1>n
      <4>1. r[i] = n /\ m.next[n] = Nil /\ l.tail[o] # n
        BY <1>2, <1>3, <1>h, <1>8, <1>9, <3>1, <4>0 DEF Lists
      <4> QED BY <1>3, <1>4, <3>1, <4>1 DEF Lists
    <3>2. CASE i # Len(r)
      <4>1. i \in 1 .. Len(s) /\ r[i] = s[i] /\ s[i] # n /\ s[i] \in Node
        BY <1>n, <1>8, <1>9, <2>0, <3>2
      <4>2. m.next[s[i]] = l.next[s[i]]
        BY <1>2, <1>3, <4>1 DEF Lists
      <4>3. CASE i = Len(s)
        <5>1. l.tail[o] = s[i] /\ r[i + 1] = n
          BY <1>h, <1>n, <1>9, <4>1, <4>3
        <5>2. l.tail[o] # Nil
          BY <1>2, <4>1, <5>1
        <5>3. k.next[s[i]] = n
          BY <1>3, <1>4, <4>1, <5>1, <5>2 DEF Lists
        <5> QED BY <3>2, <4>1, <5>1, <5>3
      <4>4. CASE i # Len(s)
        <5>0. i + 1 \in 1 .. Len(s) /\ Len(s) \in 1 .. Len(s) /\ Len(s) # 0
          BY <1>n, <4>1, <4>4
        <5>1. r[i + 1] = s[i + 1] /\ l.next[s[i]] = s[i + 1]
          BY <1>7, <1>9, <4>1, <4>4, <5>0
        <5>2. s[i] # l.tail[o]
          BY <1>7, <1>h, <4>1, <4>4, <5>0
        <5>3. k.next[s[i]] = m.next[s[i]]
          BY <1>3, <1>4, <4>1, <5>2 DEF Lists
        <5> QED BY <3>2, <4>1, <4>2, <5>1, <5>3
      <4> QED BY <4>3, <4>4
    <3> QED BY <3>1, <3>2
  <2>4. NodesOf(r) = W[o] \cup {n}
    <3>1. ASSUME NEW x \in NodesOf(r) PROVE x \in W[o] \cup {n}
      BY <1>8, <1>9, <2>0 DEF NodesOf
    <3>2. ASSUME NEW x \in W[o] PROVE x \in NodesOf(r)
      <4>1. PICK i \in 1 .. Len(s) : x = s[i]
        BY <1>8 DEF NodesOf
      <4>2. i \in 1 .. Len(r) /\ r[i] = x
        BY <1>n, <1>9, <4>1
      <4> QED BY <4>2 DEF NodesOf
    <3>3. n \in NodesOf(r)
      <4>1. Len(r) \in 1 .. Len(r)
        BY <1>n, <1>9
      <4> QED BY <1>9, <4>1 DEF NodesOf
    <3> QED BY <3>1, <3>2, <3>3
  <2>5. V[o] = W[o] \cup {n} /\ Len(r) # 0
    BY <1>2, <1>n, <1>9
  <2> QED BY <1>9, <2>1, <2>2, <2>3, <2>4, <2>5 DEF IsList, IsPath
<1>11. ASSUME NEW p \in Object, p # o PROVE IsList(k, p, q[p]) /\ NodesOf(q[p]) = V[p]
  <2>1. V[p] = W[p] /\ IsList(l, p, q[p]) /\ NodesOf(q[p]) = W[p]
    BY <1>2, <1>6, <1>11
  <2>2. k.head[p] = l.head[p] /\ k.tail[p] = l.tail[p]
    BY <1>2, <1>4, <1>11 DEF Lists
  <2>3. W[p] \cap W[o] = {} /\ n \notin W[p]
    BY <1>1, <1>11 DEF Hold
  <2>4. ASSUME NEW x \in W[p] PROVE k.next[x] = l.next[x]
    <3>1. x \in Node /\ x # n
      BY <1>2, <2>3
    <3>2. l.tail[o] # Nil => l.tail[o] \in W[o]
      <4>1. Len(s) # 0 => Len(s) \in 1 .. Len(s)
        BY <1>n
      <4> QED BY <1>h, <1>8, <4>1
    <3>3. l.tail[o] # Nil => l.tail[o] # x
      BY <2>3, <3>2
    <3> QED BY <1>2, <1>3, <1>4, <3>1, <3>3 DEF Lists
  <2>5. \A i \in 1 .. Len(q[p]) : q[p][i] \in W[p]
    BY <2>1 DEF NodesOf
  <2> QED BY <2>1, <2>2, <2>4, <2>5 DEF IsList, IsPath
<1>12. V \in [Object -> SUBSET Node] /\ \A p1, p2 \in Object : p1 # p2 => V[p1] \cap V[p2] = {}
  <2>1. \A p \in Object : V[p] = IF p = o THEN W[p] \cup {n} ELSE W[p]
    BY <1>2
  <2>2. \A p1, p2 \in Object : p1 # p2 => W[p1] \cap W[p2] = {}
    BY <1>1 DEF Hold
  <2> QED BY <1>2, <2>1, <2>2
<1>13. Hold(k, z, V)
  BY <1>5, <1>10, <1>11, <1>12 DEF Hold
<1> QED BY <1>13 DEF Holds, k, m

\* A function on 1 .. m is a sequence of length m.
LEMMA FunctionIsSeq ==
    ASSUME NEW m \in Nat, NEW r \in [1 .. m -> Node]
    PROVE  r \in Seq(Node) /\ Len(r) = m
OBVIOUS

\* PrevNode is the node before n on the list, null before the first one.
LEMMA PrevNodeIs ==
    ASSUME NEW l \in Lists, NEW o \in Object, NEW s, IsList(l, o, s), NEW j \in 1 .. Len(s)
    PROVE  PrevNode(l, o, s[j]) = IF j = 1 THEN Nil ELSE s[j - 1]
<1>1. s \in Seq(Node) /\ Len(s) \in Nat /\ DOMAIN s = 1 .. Len(s) /\ Len(s) # 0 /\ 1 \in 1 .. Len(s)
  BY DEF IsList, IsPath
<1>2. \A i \in 1 .. Len(s) : s[i] \in Node /\ s[i] # Nil
  BY <1>1, ThreadAssumption
<1>3. /\ \A i, k \in 1 .. Len(s) : s[i] = s[k] => i = k
      /\ \A i \in 1 .. Len(s) : l.next[s[i]] = IF i = Len(s) THEN Nil ELSE s[i + 1]
  BY DEF IsList, IsPath
<1>4. Chain(l, l.head[o]) = s
  <2>1. l.head[o] = NodeAt(s, 1)
    BY <1>1 DEF IsList, NodeAt
  <2> QED BY <2>1, ChainIsPath DEF IsList
<1>5. Head(s) = s[1]
  BY <1>1
<1>6. CASE j = 1
  BY <1>4, <1>5, <1>6 DEF PrevNode
<1>7. CASE j # 1
  <2>1. j - 1 \in 1 .. Len(s) /\ j - 1 # Len(s) /\ (j - 1) + 1 = j
    BY <1>1, <1>7
  <2>2. l.next[s[j - 1]] = s[j] /\ s[j - 1] \in Range(s)
    BY <1>1, <1>3, <2>1 DEF Range
  <2>3. ASSUME NEW p \in Range(s), l.next[p] = s[j] PROVE p = s[j - 1]
    <3>1. PICK i \in 1 .. Len(s) : p = s[i]
      BY <1>1 DEF Range
    <3>2. i # Len(s)
      BY <1>2, <1>3, <2>3, <3>1
    <3>3. i + 1 \in 1 .. Len(s) /\ s[i + 1] = s[j]
      <4>0. Len(s) \in Nat
        BY <1>1
      <4>1. i + 1 \in 1 .. Len(s)
        BY <3>2, <4>0
      <4>2. l.next[s[i]] = s[i + 1]
        BY <1>3, <3>1, <3>2
      <4> QED BY <2>3, <3>1, <4>1, <4>2
    <3>4. i + 1 = j
      BY <1>3, <3>3
    <3>5. i = j - 1
      BY <3>4
    <3> QED BY <3>1, <3>5
  <2>4. (CHOOSE p \in Range(s) : l.next[p] = s[j]) = s[j - 1]
    BY <2>2, <2>3
  <2>5. Head(s) # s[j]
    <3>1. s[1] # s[j]
      BY <1>1, <1>3, <1>7
    <3> QED BY <1>5, <3>1
  <2>6. PrevNode(l, o, s[j]) = IF Head(s) = s[j] THEN Nil ELSE CHOOSE p \in Range(s) : l.next[p] = s[j]
    BY <1>4 DEF PrevNode
  <2> QED BY <1>7, <2>4, <2>5, <2>6
<1> QED BY <1>6, <1>7

\* What the pointers k are after n left the list of o, beside that list's.
Unlinked(k, l, W, o, n) ==
    /\ \A p \in Object : k.head[p] = IF p = o /\ l.head[o] = n THEN l.next[n] ELSE l.head[p]
    /\ \A x \in Node : x = n \/ x \notin W[o] => k.next[x] = l.next[x]

\* UnlinkNode takes the node off the list of the object.  It changes the next
\* pointer of a node that stays on this list and of no other: the node itself
\* still leads to what followed it, and so do the nodes that left before.
LEMMA UnlinkRemoves ==
    ASSUME NEW l, NEW W, Holds(l, W), NEW o \in Object, NEW n \in W[o]
    PROVE  /\ Holds(UnlinkNode(l, o, n), [W EXCEPT ![o] = @ \ {n}])
           /\ Unlinked(UnlinkNode(l, o, n), l, W, o, n)
<1> DEFINE k == UnlinkNode(l, o, n)
           V == [W EXCEPT ![o] = @ \ {n}]
<1>1. PICK q : Hold(l, q, W)
  BY DEF Holds
<1>2. l \in Lists /\ W \in [Object -> SUBSET Node] /\ Nil \notin Node /\ n \in Node
  BY <1>1, ThreadAssumption DEF Hold
<1>3. \A p \in Object : IsList(l, p, q[p]) /\ NodesOf(q[p]) = W[p]
  BY <1>1 DEF Hold
<1> PICK s : s = q[o]
  OBVIOUS
<1>s. s \in Seq(Node) /\ IsList(l, o, s) /\ IsPath(l, s) /\ NodesOf(s) = W[o]
  BY <1>3 DEF IsList, IsPath
<1>n. Len(s) \in Nat /\ \A i \in 1 .. Len(s) : s[i] \in Node /\ s[i] # Nil /\ s[i] \in W[o]
  BY <1>2, <1>s DEF NodesOf
<1>p. /\ \A i, j \in 1 .. Len(s) : s[i] = s[j] => i = j
      /\ \A i \in 1 .. Len(s) : l.next[s[i]] = IF i = Len(s) THEN Nil ELSE s[i + 1]
  BY <1>s DEF IsPath
<1>4. PICK j \in 1 .. Len(s) : s[j] = n
  BY <1>s DEF NodesOf
<1>0. Len(s) # 0 /\ 1 \in 1 .. Len(s) /\ Len(s) \in 1 .. Len(s)
  BY <1>n, <1>4
<1>h. l.head[o] = s[1] /\ l.tail[o] = s[Len(s)]
  BY <1>0, <1>s DEF IsList
<1> PICK prev : prev = PrevNode(l, o, n)
  OBVIOUS
<1>5. prev = IF j = 1 THEN Nil ELSE s[j - 1]
  BY <1>2, <1>s, <1>4, PrevNodeIs
<1>6. j # 1 => j - 1 \in 1 .. Len(s) /\ prev = s[j - 1] /\ prev \in Node /\ prev # Nil /\ prev # n
  <2>1. j # 1 => j - 1 \in 1 .. Len(s) /\ j - 1 # j
    BY <1>n, <1>4
  <2> QED BY <1>n, <1>p, <1>4, <1>5, <2>1
<1>7. l.head[o] = n <=> j = 1
  BY <1>0, <1>h, <1>p, <1>4
<1>8. l.tail[o] = n <=> j = Len(s)
  BY <1>0, <1>h, <1>p, <1>4
<1>9. /\ k.head = IF j = 1 THEN [l.head EXCEPT ![o] = l.next[n]] ELSE l.head
      /\ k.tail = IF j = Len(s) THEN [l.tail EXCEPT ![o] = prev] ELSE l.tail
      /\ k.next = IF j = 1 THEN l.next ELSE [l.next EXCEPT ![prev] = l.next[n]]
      /\ k = [head |-> k.head, tail |-> k.tail, next |-> k.next]
  BY <1>5, <1>6, <1>7, <1>8 DEF UnlinkNode, TailAfterUnlink, NextAfterUnlink
<1>10. k \in Lists
  BY <1>2, <1>5, <1>6, <1>9 DEF Lists, Pointer
<1> HIDE DEF k
<1>11. \A p \in Object : k.head[p] = IF p = o /\ l.head[o] = n THEN l.next[n] ELSE l.head[p]
  BY <1>2, <1>7, <1>9 DEF Lists
<1>12. \A x \in Node : k.next[x] = IF j # 1 /\ x = prev THEN l.next[n] ELSE l.next[x]
  BY <1>2, <1>6, <1>9 DEF Lists
<1>13. ASSUME NEW x \in Node, x = n \/ x \notin W[o] PROVE k.next[x] = l.next[x]
  <2>1. j # 1 => prev \in W[o] /\ prev # n
    BY <1>n, <1>6
  <2> QED BY <1>12, <1>13, <2>1
<1>r. PICK r : r = [i \in 1 .. Len(s) - 1 |-> IF i < j THEN s[i] ELSE s[i + 1]]
  OBVIOUS
<1>14. \A i \in 1 .. Len(s) - 1 : i \in 1 .. Len(s) /\ i + 1 \in 1 .. Len(s)
  BY <1>n
<1>15. r \in Seq(Node) /\ Len(r) = Len(s) - 1
  <2>1. Len(s) - 1 \in Nat
    BY <1>n, <1>0
  <2>2. r \in [1 .. Len(s) - 1 -> Node]
    BY <1>n, <1>14, <1>r
  <2> QED BY <2>1, <2>2, FunctionIsSeq
<1>16. \A i \in 1 .. Len(r) : r[i] = (IF i < j THEN s[i] ELSE s[i + 1])
  BY <1>15, <1>r
<1>17. IsList(k, o, r) /\ NodesOf(r) = V[o]
  <2>1. ASSUME NEW i \in 1 .. Len(r), NEW i2 \in 1 .. Len(r), r[i] = r[i2] PROVE i = i2
    <3>1. i \in 1 .. Len(s) /\ i + 1 \in 1 .. Len(s) /\ i2 \in 1 .. Len(s) /\ i2 + 1 \in 1 .. Len(s)
      BY <1>14, <1>15
    <3>2. (IF i < j THEN i ELSE i + 1) = (IF i2 < j THEN i2 ELSE i2 + 1)
      BY <1>p, <1>16, <2>1, <3>1
    <3> QED BY <1>n, <1>4, <3>2
  <2>2. k.head[o] = IF Len(r) = 0 THEN Nil ELSE r[1]
    <3>1. CASE j = 1
      <4>1. k.head[o] = IF Len(s) = 1 THEN Nil ELSE s[2]
        <5>1. l.next[s[1]] = IF 1 = Len(s) THEN Nil ELSE s[1 + 1]
          BY <1>0, <1>p
        <5>2. k.head[o] = l.next[s[1]]
          BY <1>4, <1>7, <1>11, <3>1
        <5> QED BY <1>n, <5>1, <5>2
      <4>2. Len(r) # 0 => 1 \in 1 .. Len(r) /\ r[1] = s[2]
        <5>0. Len(r) \in Nat
          BY <1>15
        <5>1. Len(r) # 0 => 1 \in 1 .. Len(r)
          BY <5>0
        <5>2. ~(1 < j) /\ 1 + 1 = 2
          BY <3>1
        <5> QED BY <1>16, <5>1, <5>2
      <4> QED BY <1>n, <1>15, <4>1, <4>2
    <3>2. CASE j # 1
      <4>1. 1 \in 1 .. Len(r) /\ 1 < j /\ Len(r) # 0
        BY <1>n, <1>4, <1>15, <3>2
      <4> QED BY <1>7, <1>11, <1>h, <1>16, <3>2, <4>1
    <3> QED BY <3>1, <3>2
  <2>3. k.tail[o] = IF Len(r) = 0 THEN Nil ELSE r[Len(r)]
    <3>1. CASE j = Len(s)
      <4>1. k.tail[o] = prev
        BY <1>2, <1>9, <3>1 DEF Lists
      <4>2. Len(r) # 0 => Len(r) \in 1 .. Len(r) /\ Len(r) < j /\ Len(r) = j - 1 /\ j # 1
        <5>1. Len(s) \in Nat /\ Len(r) = Len(s) - 1 /\ j = Len(s)
          BY <1>n, <1>15, <3>1
        <5>2. \A a \in Nat : a - 1 # 0 /\ a # 0 => a - 1 \in 1 .. (a - 1) /\ a - 1 < a /\ a # 1
          OBVIOUS
        <5> QED BY <1>0, <5>1, <5>2
      <4>3. Len(r) = 0 => j = 1
        BY <1>n, <1>15, <3>1
      <4> QED BY <1>5, <1>16, <4>1, <4>2, <4>3
    <3>2. CASE j # Len(s)
      <4>1. Len(r) # 0 /\ Len(r) \in 1 .. Len(r) /\ ~(Len(r) < j) /\ Len(r) + 1 = Len(s)
        BY <1>n, <1>4, <1>15, <3>2
      <4> QED BY <1>9, <1>h, <1>16, <3>2, <4>1
    <3> QED BY <3>1, <3>2
  <2>4. ASSUME NEW i \in 1 .. Len(r) PROVE k.next[r[i]] = IF i = Len(r) THEN Nil ELSE r[i + 1]
    <3>0. i \in 1 .. Len(s) /\ i + 1 \in 1 .. Len(s) /\ i \in Nat /\ j \in Nat /\ Len(r) \in Nat
      BY <1>n, <1>4, <1>14, <1>15
    <3>1. CASE i + 1 < j
      <4>1. r[i] = s[i] /\ i # Len(s) /\ i # Len(r) /\ i + 1 \in 1 .. Len(r) /\ r[i + 1] = s[i + 1]
        <5>1. i < j /\ i # Len(s) /\ i # Len(r) /\ i + 1 \in 1 .. Len(r)
          BY <1>4, <1>15, <3>0, <3>1
        <5> QED BY <1>16, <3>1, <5>1
      <4>2. j - 1 # i /\ s[i] # prev
        <5>1. j # 1 /\ j - 1 # i
          BY <3>0, <3>1
        <5>2. j - 1 \in 1 .. Len(s) /\ prev = s[j - 1]
          BY <1>6, <5>1
        <5> QED BY <1>p, <3>0, <5>1, <5>2
      <4>3. k.next[s[i]] = l.next[s[i]] /\ l.next[s[i]] = s[i + 1]
        BY <1>n, <1>p, <1>12, <3>0, <4>1, <4>2
      <4> QED BY <4>1, <4>3
    <3>2. CASE i + 1 = j
      <4>1. j # 1 /\ j - 1 = i /\ i < j /\ ~(i + 1 < j)
        BY <3>0, <3>2
      <4>2. r[i] = s[i] /\ s[i] = prev /\ k.next[s[i]] = l.next[n]
        BY <1>6, <1>12, <1>16, <4>1
      <4>3. l.next[n] = IF j = Len(s) THEN Nil ELSE s[j + 1]
        BY <1>p, <1>4
      <4>4. i = Len(r) <=> j = Len(s)
        BY <1>n, <1>15, <3>0, <3>2
      <4>5. i # Len(r) => r[i + 1] = s[j + 1]
        <5>1. i # Len(r) => i + 1 \in 1 .. Len(r)
          BY <3>0
        <5> QED BY <1>16, <3>2, <4>1, <5>1
      <4> QED BY <4>2, <4>3, <4>4, <4>5
    <3>3. CASE ~(i + 1 < j) /\ i + 1 # j
      <4>1. ~(i < j) /\ ~(i + 1 < j) /\ i + 1 # j - 1
        BY <3>0, <3>3
      <4>2. r[i] = s[i + 1] /\ (j # 1 => s[i + 1] # prev)
        BY <1>p, <1>6, <1>16, <3>0, <4>1
      <4>3. k.next[r[i]] = IF i + 1 = Len(s) THEN Nil ELSE s[i + 1 + 1]
        BY <1>n, <1>p, <1>12, <3>0, <4>2
      <4>4. i = Len(r) <=> i + 1 = Len(s)
        BY <1>n, <1>15, <3>0
      <4>5. i # Len(r) => r[i + 1] = s[i + 1 + 1]
        <5>1. i # Len(r) => i + 1 \in 1 .. Len(r)
          BY <3>0
        <5> QED BY <1>16, <4>1, <5>1
      <4> QED BY <4>3, <4>4, <4>5
    <3> QED BY <3>1, <3>2, <3>3
  <2>5. NodesOf(r) = W[o] \ {n}
    <3>1. ASSUME NEW x \in NodesOf(r) PROVE x \in W[o] \ {n}
      <4>1. PICK i \in 1 .. Len(r) : x = r[i]
        BY DEF NodesOf
      <4>2. i \in 1 .. Len(s) /\ i + 1 \in 1 .. Len(s)
        BY <1>14, <1>15
      <4>3. (i < j => i # j) /\ (~(i < j) => i + 1 # j)
        BY <1>n, <1>4, <4>2
      <4>4. PICK h \in 1 .. Len(s) : h # j /\ x = s[h]
        BY <1>16, <4>1, <4>2, <4>3
      <4>5. s[h] # s[j]
        BY <1>p, <4>4
      <4> QED BY <1>n, <1>4, <4>4, <4>5
    <3>2. ASSUME NEW x \in W[o] \ {n} PROVE x \in NodesOf(r)
      <4>1. PICK i \in 1 .. Len(s) : x = s[i]
        BY <1>s DEF NodesOf
      <4>2. i # j
        BY <1>4, <3>2, <4>1
      <4>3. CASE i < j
        <5>1. i \in 1 .. Len(r)
          BY <1>n, <1>4, <1>15, <4>3
        <5> QED BY <1>16, <4>1, <4>3, <5>1 DEF NodesOf
      <4>4. CASE ~(i < j)
        <5>1. i - 1 \in 1 .. Len(r) /\ ~(i - 1 < j) /\ (i - 1) + 1 = i
          BY <1>n, <1>4, <1>15, <4>2, <4>4
        <5>2. r[i - 1] = s[i]
          BY <1>16, <5>1
        <5> QED BY <4>1, <5>1, <5>2 DEF NodesOf
      <4> QED BY <4>3, <4>4
    <3> QED BY <3>1, <3>2
  <2>6. V[o] = W[o] \ {n}
    BY <1>2
  <2> QED BY <1>15, <2>1, <2>2, <2>3, <2>4, <2>5, <2>6 DEF IsList, IsPath
<1>18. ASSUME NEW p \in Object, p # o PROVE IsList(k, p, q[p]) /\ NodesOf(q[p]) = V[p]
  <2>1. V[p] = W[p] /\ IsList(l, p, q[p]) /\ NodesOf(q[p]) = W[p]
    BY <1>2, <1>3, <1>18
  <2>2. k.head[p] = l.head[p] /\ k.tail[p] = l.tail[p]
    BY <1>2, <1>9, <1>18 DEF Lists
  <2>3. W[p] \cap W[o] = {} /\ W[p] \subseteq Node
    BY <1>1, <1>18 DEF Hold
  <2>4. \A x \in W[p] : k.next[x] = l.next[x]
    BY <1>13, <2>3
  <2>5. \A i \in 1 .. Len(q[p]) : q[p][i] \in W[p]
    BY <2>1 DEF NodesOf
  <2> QED BY <2>1, <2>2, <2>4, <2>5 DEF IsList, IsPath
<1>19. V \in [Object -> SUBSET Node] /\ \A p1, p2 \in Object : p1 # p2 => V[p1] \cap V[p2] = {}
  <2>1. \A p \in Object : V[p] = IF p = o THEN W[p] \ {n} ELSE W[p]
    BY <1>2
  <2>2. \A p1, p2 \in Object : p1 # p2 => W[p1] \cap W[p2] = {}
    BY <1>1 DEF Hold
  <2> QED BY <1>2, <2>1, <2>2
<1> DEFINE z == [p \in Object |-> IF p = o THEN r ELSE q[p]]
<1>20. Hold(k, z, V)
  BY <1>10, <1>17, <1>18, <1>19 DEF Hold
<1>21. Holds(k, V)
  BY <1>20 DEF Holds
<1>22. Unlinked(k, l, W, o, n)
  BY <1>11, <1>13 DEF Unlinked
<1> QED BY <1>21, <1>22 DEF k

-----------------------------------------------------------------------------
(* LinkAll and UnlinkAll *)

\* The nodes of the first k handles of t that are for o.
NodesFor(t, objs, o, k) ==
    {n \in Node : n[1] = t /\ n[2] \in DOMAIN objs /\ n[2] <= k /\ objs[n[2]] = o}

\* An argument of Wait is a sequence of objects, not longer than MaxObjects.
LEMMA ArgumentFacts ==
    ASSUME NEW objs \in Arguments
    PROVE  /\ Len(objs) \in 0 .. MaxObjects /\ DOMAIN objs = 1 .. Len(objs)
           /\ \A i \in DOMAIN objs : objs[i] \in Object /\ i \in 1 .. MaxObjects
           /\ \A t \in Thread, i \in DOMAIN objs : <<t, i>> \in Node
<1>1. PICK n \in 0 .. MaxObjects : objs \in [1 .. n -> Object]
  BY DEF Arguments
<1>2. n \in Nat /\ DOMAIN objs = 1 .. n /\ Len(objs) = n
  BY <1>1, MaxObjectsAssumption
<1>3. \A i \in 1 .. n : i \in 1 .. MaxObjects
  BY <1>2, MaxObjectsAssumption
<1> QED BY <1>1, <1>2, <1>3 DEF Node

\* The nodes of k handles are those of k - 1 and the last one.
LEMMA NodesForNext ==
    ASSUME NEW objs \in Arguments, NEW t \in Thread, NEW k \in DOMAIN objs
    PROVE  /\ NodesFor(t, objs, objs[k], k) = NodesFor(t, objs, objs[k], k - 1) \cup {<<t, k>>}
           /\ <<t, k>> \notin NodesFor(t, objs, objs[k], k - 1)
           /\ \A o \in Object \ {objs[k]} : /\ NodesFor(t, objs, o, k) = NodesFor(t, objs, o, k - 1)
                                            /\ <<t, k>> \notin NodesFor(t, objs, o, k)
<1>1. k \in Nat /\ <<t, k>> \in Node /\ <<t, k>>[1] = t /\ <<t, k>>[2] = k
  BY ArgumentFacts
<1>2. ASSUME NEW n \in Node, n[1] = t, n[2] = k PROVE n = <<t, k>>
  BY <1>2 DEF Node
<1>3. ASSUME NEW n \in Node, n[2] \in DOMAIN objs PROVE n[2] <= k <=> n[2] <= k - 1 \/ n[2] = k
  BY <1>1, <1>3, ArgumentFacts
<1>4. \A o : <<t, k>> \notin NodesFor(t, objs, o, k - 1)
  <2>1. ~(k <= k - 1)
    BY <1>1
  <2> QED BY <1>1, <2>1 DEF NodesFor
<1>5. NodesFor(t, objs, objs[k], k) = NodesFor(t, objs, objs[k], k - 1) \cup {<<t, k>>}
  <2>1. ASSUME NEW n \in NodesFor(t, objs, objs[k], k) PROVE n \in NodesFor(t, objs, objs[k], k - 1) \cup {<<t, k>>}
    BY <1>2, <1>3 DEF NodesFor
  <2>2. ASSUME NEW n \in NodesFor(t, objs, objs[k], k - 1) PROVE n \in NodesFor(t, objs, objs[k], k)
    BY <1>3 DEF NodesFor
  <2>3. <<t, k>> \in NodesFor(t, objs, objs[k], k)
    <3>1. k <= k
      BY <1>1
    <3> QED BY <1>1, <3>1 DEF NodesFor
  <2> QED BY <2>1, <2>2, <2>3
<1>6. ASSUME NEW o \in Object \ {objs[k]}
      PROVE  /\ NodesFor(t, objs, o, k) = NodesFor(t, objs, o, k - 1)
             /\ <<t, k>> \notin NodesFor(t, objs, o, k)
  <2>1. ASSUME NEW n \in Node
        PROVE  n \in NodesFor(t, objs, o, k) <=> n \in NodesFor(t, objs, o, k - 1)
    BY <1>3 DEF NodesFor
  <2>2. NodesFor(t, objs, o, k) \subseteq Node /\ NodesFor(t, objs, o, k - 1) \subseteq Node
    BY DEF NodesFor
  <2>3. <<t, k>> \notin NodesFor(t, objs, o, k)
    BY <1>1 DEF NodesFor
  <2> QED BY <2>1, <2>2, <2>3
<1> QED BY <1>4, <1>5, <1>6

\* f is the recursive function of LinkAll.
IsLinking(f, t, objs, N) ==
    f = [k \in 0 .. N |-> IF k = 0 THEN lists
                          ELSE LinkNode([f[k - 1] EXCEPT !.next[<<t, k>>] = Nil], objs[k], <<t, k>>)]

\* The recursive function inside LinkAll exists.
LEMMA LinkingExists ==
    ASSUME NEW t, NEW objs, NEW N \in Nat
    PROVE  \E f : IsLinking(f, t, objs, N)
<1> DEFINE Bad == {n \in Nat : ~\E f : IsLinking(f, t, objs, n)}
<1> HIDE DEF Bad
<1> SUFFICES ASSUME N \in Bad PROVE FALSE
  BY DEF Bad
<1>1. PICK n \in Bad : \A m \in Bad : n <= m
  <2>1. Bad \subseteq Nat
    BY DEF Bad
  <2> QED BY <2>1, LeastNumber
<1>2. n \in Nat /\ ~\E f : IsLinking(f, t, objs, n)
  BY DEF Bad
<1>3. CASE n = 0
  <2> DEFINE g == [k \in 0 .. 0 |-> lists]
  <2>1. IsLinking(g, t, objs, 0)
    BY DEF IsLinking
  <2> QED BY <1>2, <1>3, <2>1
<1>4. CASE n # 0
  <2>1. n - 1 \in Nat /\ n - 1 \notin Bad
    BY <1>1, <1>2, <1>4
  <2>2. PICK f : IsLinking(f, t, objs, n - 1)
    BY <2>1 DEF Bad
  <2> DEFINE g == [k \in 0 .. n |-> IF k = 0 THEN lists
                          ELSE LinkNode([f[k - 1] EXCEPT !.next[<<t, k>>] = Nil], objs[k], <<t, k>>)]
  <2>3. ASSUME NEW k \in 0 .. n - 1 PROVE g[k] = f[k]
    <3>1. k \in 0 .. n
      BY <1>2
    <3>2. f[k] = IF k = 0 THEN lists
                 ELSE LinkNode([f[k - 1] EXCEPT !.next[<<t, k>>] = Nil], objs[k], <<t, k>>)
      BY <2>2 DEF IsLinking
    <3>3. g[k] = IF k = 0 THEN lists
                 ELSE LinkNode([f[k - 1] EXCEPT !.next[<<t, k>>] = Nil], objs[k], <<t, k>>)
      BY <3>1
    <3> QED BY <3>2, <3>3
  <2>4. \A k \in 0 .. n : k # 0 => k - 1 \in 0 .. n - 1
    BY <1>2
  <2>5. IsLinking(g, t, objs, n)
    BY <1>2, <2>3, <2>4 DEF IsLinking
  <2> QED BY <1>2, <2>5
<1> QED BY <1>3, <1>4

\* LinkAll puts the thread on the list of every object of its argument.
LEMMA LinkAllLinks ==
    ASSUME NEW W, Holds(lists, W), NEW t \in Thread, NEW objs \in Arguments,
           \A o \in Object : \A n \in W[o] : n[1] # t
    PROVE  Holds(LinkAll(t, objs), [o \in Object |-> W[o] \cup NodesFor(t, objs, o, Len(objs))])
<1> DEFINE N == Len(objs)
           V(k) == [o \in Object |-> W[o] \cup NodesFor(t, objs, o, k)]
<1>0. N \in Nat /\ DOMAIN objs = 1 .. N /\ W \in [Object -> SUBSET Node]
  BY ArgumentFacts, MaxObjectsAssumption DEF Holds, Hold
<1>1. PICK f : IsLinking(f, t, objs, N) /\ LinkAll(t, objs) = f[N]
  <2>1. LinkAll(t, objs) = (CHOOSE f : IsLinking(f, t, objs, N))[N]
    BY DEF LinkAll, IsLinking
  <2> QED BY <1>0, <2>1, LinkingExists
<1> DEFINE Right(k) == Holds(f[k], V(k))
           Bad == {k \in Nat : k <= N /\ ~Right(k)}
<1> HIDE DEF N, V
<1>2. N \notin Bad
  <2> SUFFICES ASSUME Bad # {} PROVE FALSE
    OBVIOUS
  <2> HIDE DEF Right
  <2>1. PICK k \in Bad : \A m \in Bad : k <= m
    <3>1. Bad \in SUBSET Nat
      OBVIOUS
    <3> HIDE DEF Bad
    <3> QED BY <3>1, LeastNumber
  <2>2. k \in Nat /\ k <= N /\ ~Right(k) /\ k \in 0 .. N
    BY <1>0
  <2>3. k # 0 => k - 1 \in Nat /\ Right(k - 1)
    BY <1>0, <2>1, <2>2
  <2> HIDE DEF Bad
  <2>4. CASE k = 0
    <3>1. f[k] = lists
      BY <1>0, <1>1, <2>2, <2>4 DEF IsLinking
    <3>2. \A o : NodesFor(t, objs, o, 0) = {}
      <4>1. ASSUME NEW o, NEW n \in NodesFor(t, objs, o, 0) PROVE FALSE
        BY <1>0 DEF NodesFor
      <4> QED BY <4>1
    <3>3. V(k) = W
      BY <1>0, <2>4, <3>2 DEF V
    <3> QED BY <2>2, <3>1, <3>3 DEF Right
  <2>5. CASE k # 0
    <3> DEFINE o == objs[k]
               n == <<t, k>>
    <3>1. k \in DOMAIN objs /\ o \in Object /\ n \in Node
      BY <1>0, <2>2, <2>5, ArgumentFacts
    <3>2. Holds(f[k - 1], V(k - 1))
      BY <2>3, <2>5 DEF Right
    <3>3. \A p \in Object : n \notin V(k - 1)[p]
      <4>1. \A p \in Object : n \notin W[p]
        BY <3>1
      <4>2. \A p \in Object : n \notin NodesFor(t, objs, p, k - 1)
        BY <3>1, NodesForNext
      <4> QED BY <4>1, <4>2 DEF V
    <3>4. [V(k - 1) EXCEPT ![o] = @ \cup {n}] = V(k)
      <4>1. V(k)[o] = V(k - 1)[o] \cup {n}
        BY <3>1, NodesForNext DEF V
      <4>2. \A p \in Object \ {o} : V(k)[p] = V(k - 1)[p]
        BY <3>1, NodesForNext DEF V
      <4> QED BY <3>1, <4>1, <4>2 DEF V
    <3>5. f[k] = LinkNode([f[k - 1] EXCEPT !.next[n] = Nil], o, n)
      BY <1>1, <2>2, <2>5 DEF IsLinking
    <3> HIDE DEF o, n
    <3>6. Holds(LinkNode([f[k - 1] EXCEPT !.next[n] = Nil], o, n), [V(k - 1) EXCEPT ![o] = @ \cup {n}])
      BY <3>1, <3>2, <3>3, LinkAppends
    <3> QED BY <2>2, <3>4, <3>5, <3>6 DEF Right
  <2> QED BY <2>4, <2>5
<1>3. Right(N)
  BY <1>0, <1>2
<1> QED BY <1>1, <1>3 DEF N, V

\* From m the next pointers lead over nodes that left their lists, those of z,
\* to the head of the object's list.
Leads(l, W, o, m, z) ==
    /\ z \in Seq(Node)
    /\ \A i \in 1 .. Len(z) : \A p \in Object : z[i] \notin W[p]
    /\ m = IF Len(z) = 0 THEN l.head[o] ELSE z[1]
    /\ \A i \in 1 .. Len(z) : l.next[z[i]] = IF i = Len(z) THEN l.head[o] ELSE z[i + 1]

\* Taking off one more node, of this list or of another, keeps the way to the
\* head: when it is the head itself, it becomes the last node on the way.
LEMMA UnlinkKeepsWay ==
    ASSUME NEW l, NEW W, Holds(l, W), NEW p \in Object, NEW n \in W[p],
           NEW o \in Object, NEW m, NEW z, Leads(l, W, o, m, z)
    PROVE  \E y : /\ Leads(UnlinkNode(l, p, n), [W EXCEPT ![p] = @ \ {n}], o, m, y)
                  /\ NodesOf(y) \subseteq NodesOf(z) \cup {n}
<1> DEFINE k == UnlinkNode(l, p, n)
           V == [W EXCEPT ![p] = @ \ {n}]
<1>1. W \in [Object -> SUBSET Node] /\ n \in Node
  BY DEF Holds, Hold
<1>2. \A p1, p2 \in Object : p1 # p2 => W[p1] \cap W[p2] = {}
  BY DEF Holds, Hold
<1>3. /\ \A x \in Object : k.head[x] = IF x = p /\ l.head[p] = n THEN l.next[n] ELSE l.head[x]
      /\ \A x \in Node : x = n \/ x \notin W[p] => k.next[x] = l.next[x]
  <2>1. Unlinked(UnlinkNode(l, p, n), l, W, p, n)
    BY UnlinkRemoves
  <2> HIDE DEF k
  <2>2. Unlinked(k, l, W, p, n)
    BY <2>1 DEF k
  <2> QED BY <2>2 DEF Unlinked
<1>4. \A x \in Object : V[x] = IF x = p THEN W[x] \ {n} ELSE W[x]
  BY <1>1
<1>5. \A x \in Object : n \notin V[x]
  BY <1>2, <1>4
<1>6. \A x \in Object : V[x] \subseteq W[x]
  BY <1>4
<1> HIDE DEF k, V
<1>7. /\ z \in Seq(Node) /\ Len(z) \in Nat
      /\ m = IF Len(z) = 0 THEN l.head[o] ELSE z[1]
  BY DEF Leads
<1>8. \A i \in 1 .. Len(z) : z[i] \in Node /\ z[i] \notin W[p] /\ \A x \in Object : z[i] \notin W[x]
  BY DEF Leads
<1>9. \A i \in 1 .. Len(z) : l.next[z[i]] = IF i = Len(z) THEN l.head[o] ELSE z[i + 1]
  BY DEF Leads
<1>10. \A i \in 1 .. Len(z) : k.next[z[i]] = l.next[z[i]]
  BY <1>3, <1>8
<1>11. CASE ~(o = p /\ l.head[o] = n)
  <2>1. k.head[o] = l.head[o]
    BY <1>3, <1>11
  <2>2. \A i \in 1 .. Len(z) : \A x \in Object : z[i] \notin V[x]
    BY <1>6, <1>8
  <2>3. Leads(k, V, o, m, z)
    BY <1>7, <1>9, <1>10, <2>1, <2>2 DEF Leads
  <2> QED BY <2>3 DEF k, V
<1>12. CASE o = p /\ l.head[o] = n
  <2>1. k.head[o] = l.next[n] /\ k.next[n] = l.next[n]
    BY <1>1, <1>3, <1>12
  <2>y. PICK y : y = Append(z, n)
    OBVIOUS
  <2>2. /\ y \in Seq(Node) /\ Len(y) = Len(z) + 1 /\ y[Len(z) + 1] = n
        /\ \A i \in 1 .. Len(z) : y[i] = z[i]
    BY <1>1, <1>7, <2>y
  <2>3. \A i \in 1 .. Len(y) : i # Len(z) + 1 => i \in 1 .. Len(z)
    <3>1. Len(z) \in Nat /\ Len(y) = Len(z) + 1
      BY <1>7, <2>2
    <3> QED BY <3>1
  <2>4. \A i \in 1 .. Len(y) : \A x \in Object : y[i] \notin V[x]
    BY <1>5, <1>6, <1>8, <2>2, <2>3
  <2>5. m = y[1] /\ Len(y) # 0
    <3>0. Len(z) \in Nat /\ Len(y) = Len(z) + 1
      BY <1>7, <2>2
    <3>1. CASE Len(z) = 0
      BY <1>7, <1>12, <2>2, <3>1
    <3>2. CASE Len(z) # 0
      <4>1. 1 \in 1 .. Len(z)
        BY <3>0, <3>2
      <4> QED BY <1>7, <2>2, <3>0, <3>2, <4>1
    <3> QED BY <3>1, <3>2
  <2>6. ASSUME NEW i \in 1 .. Len(y) PROVE k.next[y[i]] = IF i = Len(y) THEN k.head[o] ELSE y[i + 1]
    <3>0. Len(z) \in Nat /\ Len(y) = Len(z) + 1
      BY <1>7, <2>2
    <3>1. CASE i = Len(z) + 1
      BY <2>1, <2>2, <3>0, <3>1
    <3>2. CASE i = Len(z)
      <4>1. i \in 1 .. Len(z) /\ i # Len(y)
        BY <2>3, <3>0, <3>2
      <4>2. y[i] = z[i] /\ l.next[z[i]] = l.head[o] /\ y[i + 1] = n
        BY <1>9, <2>2, <3>2, <4>1
      <4> QED BY <1>10, <1>12, <4>1, <4>2
    <3>3. CASE i # Len(z) /\ i # Len(z) + 1
      <4>1. i \in 1 .. Len(z)
        BY <2>3, <3>3
      <4>2. i # Len(y) /\ i + 1 \in 1 .. Len(z)
        BY <3>0, <3>3, <4>1
      <4>3. y[i] = z[i] /\ y[i + 1] = z[i + 1] /\ l.next[z[i]] = z[i + 1]
        BY <1>9, <2>2, <3>3, <4>1, <4>2
      <4> QED BY <1>10, <4>1, <4>2, <4>3
    <3> QED BY <3>1, <3>2, <3>3
  <2>7. NodesOf(y) \subseteq NodesOf(z) \cup {n}
    BY <2>2, <2>3 DEF NodesOf
  <2>8. Leads(k, V, o, m, y)
    BY <2>2, <2>4, <2>5, <2>6 DEF Leads
  <2> QED BY <2>7, <2>8 DEF k, V
<1> QED BY <1>11, <1>12

\* f is the recursive function of UnlinkAll.
IsUnlinking(f, t, N) ==
    f = [k \in 0 .. N |-> IF k = 0 THEN lists ELSE UnlinkNode(f[k - 1], objects[t][k], <<t, k>>)]

\* The recursive function inside UnlinkAll exists.
LEMMA UnlinkingExists ==
    ASSUME NEW t, NEW N \in Nat
    PROVE  \E f : IsUnlinking(f, t, N)
<1> DEFINE Bad == {n \in Nat : ~\E f : IsUnlinking(f, t, n)}
<1> HIDE DEF Bad
<1> SUFFICES ASSUME N \in Bad PROVE FALSE
  BY DEF Bad
<1>1. PICK n \in Bad : \A m \in Bad : n <= m
  <2>1. Bad \subseteq Nat
    BY DEF Bad
  <2> QED BY <2>1, LeastNumber
<1>2. n \in Nat /\ ~\E f : IsUnlinking(f, t, n)
  BY DEF Bad
<1>3. CASE n = 0
  <2> DEFINE g == [k \in 0 .. 0 |-> lists]
  <2>1. IsUnlinking(g, t, 0)
    BY DEF IsUnlinking
  <2> QED BY <1>2, <1>3, <2>1
<1>4. CASE n # 0
  <2>1. n - 1 \in Nat /\ n - 1 \notin Bad
    BY <1>1, <1>2, <1>4
  <2>2. PICK f : IsUnlinking(f, t, n - 1)
    BY <2>1 DEF Bad
  <2> DEFINE g == [k \in 0 .. n |-> IF k = 0 THEN lists ELSE UnlinkNode(f[k - 1], objects[t][k], <<t, k>>)]
  <2>3. ASSUME NEW k \in 0 .. n - 1 PROVE g[k] = f[k]
    <3>1. k \in 0 .. n
      BY <1>2
    <3>2. f[k] = IF k = 0 THEN lists ELSE UnlinkNode(f[k - 1], objects[t][k], <<t, k>>)
      BY <2>2 DEF IsUnlinking
    <3>3. g[k] = IF k = 0 THEN lists ELSE UnlinkNode(f[k - 1], objects[t][k], <<t, k>>)
      BY <3>1
    <3> QED BY <3>2, <3>3
  <2>4. \A k \in 0 .. n : k # 0 => k - 1 \in 0 .. n - 1
    BY <1>2
  <2>5. IsUnlinking(g, t, n)
    BY <1>2, <2>3, <2>4 DEF IsUnlinking
  <2> QED BY <1>2, <2>5
<1> QED BY <1>3, <1>4

\* The nodes of W without those of the thread.
WithoutThread(W, t) == [o \in Object |-> W[o] \ NodesFor(t, objects[t], o, Len(objects[t]))]

\* The lists l hold the nodes V, and who was at the head of a list is led over
\* nodes of the thread to the head it has in l.
LeadsOn(l, V, t) ==
    /\ Holds(l, V)
    /\ \A o \in Object : \E z : /\ Leads(l, V, o, lists.head[o], z)
                                /\ \A i \in 1 .. Len(z) : z[i][1] = t

\* UnlinkAll takes the thread off the list of every object of its argument,
\* and whoever was at the head of a list is still led to the head.
LEMMA UnlinkAllUnlinks ==
    ASSUME NEW W, Holds(lists, W), NEW t \in Thread, objects[t] \in Arguments,
           \A o \in Object : NodesFor(t, objects[t], o, Len(objects[t])) \subseteq W[o]
    PROVE  LeadsOn(UnlinkAll(t), WithoutThread(W, t), t)
<1> DEFINE objs == objects[t]
           N == Len(objs)
           Rest(k) == [o \in Object |-> W[o] \ NodesFor(t, objs, o, k)]
<1>0. N \in Nat /\ DOMAIN objs = 1 .. N /\ W \in [Object -> SUBSET Node]
  BY ArgumentFacts, MaxObjectsAssumption DEF Holds, Hold
<1>1. PICK f : IsUnlinking(f, t, N) /\ UnlinkAll(t) = f[N]
  <2>1. UnlinkAll(t) = (CHOOSE f : IsUnlinking(f, t, N))[N]
    BY DEF UnlinkAll, IsUnlinking
  <2> QED BY <1>0, <2>1, UnlinkingExists
<1> DEFINE Way(k, o) == \E z : /\ Leads(f[k], Rest(k), o, lists.head[o], z)
                               /\ NodesOf(z) \subseteq {n \in Node : n[1] = t}
           Right(k) == Holds(f[k], Rest(k)) /\ \A o \in Object : Way(k, o)
           Bad == {k \in Nat : k <= N /\ ~Right(k)}
<1>a. objs \in Arguments /\ \A o \in Object : NodesFor(t, objs, o, N) \subseteq W[o]
  OBVIOUS
<1> HIDE DEF N, Rest, objs
<1>2. N \notin Bad
  <2> SUFFICES ASSUME Bad # {} PROVE FALSE
    OBVIOUS
  <2> HIDE DEF Right
  <2>1. PICK k \in Bad : \A m \in Bad : k <= m
    <3>1. Bad \in SUBSET Nat
      OBVIOUS
    <3> HIDE DEF Bad
    <3> QED BY <3>1, LeastNumber
  <2>2. k \in Nat /\ k <= N /\ ~Right(k) /\ k \in 0 .. N
    BY <1>0
  <2>3. k # 0 => k - 1 \in Nat /\ Right(k - 1)
    BY <1>0, <2>1, <2>2
  <2> HIDE DEF Bad
  <2>4. CASE k = 0
    <3>1. f[k] = lists
      BY <1>0, <1>1, <2>2, <2>4 DEF IsUnlinking
    <3>2. \A o : NodesFor(t, objs, o, 0) = {}
      <4>1. ASSUME NEW o, NEW n \in NodesFor(t, objs, o, 0) PROVE FALSE
        BY <1>0 DEF NodesFor
      <4> QED BY <4>1
    <3>3. Rest(k) = W
      BY <1>0, <2>4, <3>2 DEF Rest
    <3>4. ASSUME NEW o \in Object PROVE Way(k, o)
      <4>1. <<>> \in Seq(Node) /\ Len(<<>>) = 0 /\ 1 .. 0 = {}
        OBVIOUS
      <4>2. Leads(f[k], Rest(k), o, lists.head[o], <<>>)
        BY <3>1, <4>1 DEF Leads
      <4>3. NodesOf(<<>>) = {}
        BY <4>1 DEF NodesOf
      <4> QED BY <4>2, <4>3
    <3> QED BY <2>2, <3>1, <3>3, <3>4 DEF Right
  <2>5. CASE k # 0
    <3>p. PICK p, n : p = objs[k] /\ n = <<t, k>>
      OBVIOUS
    <3>1. k \in DOMAIN objs /\ p \in Object /\ n \in Node /\ n[1] = t
      BY <1>0, <1>a, <2>2, <2>5, <3>p, ArgumentFacts
    <3>2. Holds(f[k - 1], Rest(k - 1)) /\ \A o \in Object : Way(k - 1, o)
      BY <2>3, <2>5 DEF Right
    <3>3. n \in Rest(k - 1)[p]
      <4>1. n \in NodesFor(t, objs, p, N)
        <5>1. k <= N /\ n[2] = k
          BY <2>2, <3>p
        <5> QED BY <3>1, <3>p, <5>1 DEF NodesFor
      <4>2. n \notin NodesFor(t, objs, p, k - 1)
        BY <1>a, <3>1, <3>p, NodesForNext
      <4> QED BY <1>a, <3>1, <4>1, <4>2 DEF Rest
    <3>4. [Rest(k - 1) EXCEPT ![p] = @ \ {n}] = Rest(k)
      <4>1. Rest(k)[p] = Rest(k - 1)[p] \ {n}
        BY <1>a, <3>1, <3>p, NodesForNext DEF Rest
      <4>2. \A o \in Object \ {p} : Rest(k)[o] = Rest(k - 1)[o]
        BY <1>a, <3>1, <3>p, NodesForNext DEF Rest
      <4> QED BY <3>1, <4>1, <4>2 DEF Rest
    <3>5. f[k] = UnlinkNode(f[k - 1], p, n)
      BY <1>1, <2>2, <2>5, <3>p DEF IsUnlinking, objs
    <3>6. Holds(f[k], Rest(k))
      BY <3>1, <3>2, <3>3, <3>4, <3>5, UnlinkRemoves
    <3>7. ASSUME NEW o \in Object PROVE Way(k, o)
      <4>1. PICK z : /\ Leads(f[k - 1], Rest(k - 1), o, lists.head[o], z)
                     /\ NodesOf(z) \subseteq {x \in Node : x[1] = t}
        BY <3>2
      <4>2. PICK y : /\ Leads(UnlinkNode(f[k - 1], p, n), [Rest(k - 1) EXCEPT ![p] = @ \ {n}], o, lists.head[o], y)
                     /\ NodesOf(y) \subseteq NodesOf(z) \cup {n}
        BY <3>1, <3>2, <3>3, <4>1, UnlinkKeepsWay
      <4>3. Leads(f[k], Rest(k), o, lists.head[o], y)
        BY <3>4, <3>5, <4>2
      <4>4. NodesOf(y) \subseteq {x \in Node : x[1] = t}
        BY <3>1, <4>1, <4>2
      <4> QED BY <4>3, <4>4
    <3> QED BY <2>2, <3>6, <3>7 DEF Right
  <2> QED BY <2>4, <2>5
<1>3. Right(N)
  BY <1>0, <1>2
<1>4. Holds(UnlinkAll(t), Rest(N)) /\ \A o \in Object : Way(N, o)
  BY <1>1, <1>3
<1>5. ASSUME NEW o \in Object
      PROVE  \E z : Leads(UnlinkAll(t), Rest(N), o, lists.head[o], z) /\ \A i \in 1 .. Len(z) : z[i][1] = t
  <2>1. PICK z : /\ Leads(f[N], Rest(N), o, lists.head[o], z)
                 /\ NodesOf(z) \subseteq {n \in Node : n[1] = t}
    BY <1>4
  <2>2. \A i \in 1 .. Len(z) : z[i][1] = t
    BY <2>1 DEF NodesOf
  <2> QED BY <1>1, <2>1, <2>2
<1>6. LeadsOn(UnlinkAll(t), Rest(N), t)
  BY <1>4, <1>5 DEF LeadsOn
<1>7. WithoutThread(W, t) = Rest(N)
  BY DEF N, Rest, objs, WithoutThread
<1> QED BY <1>6, <1>7

-----------------------------------------------------------------------------
(* The inductive invariant, part by part *)

\* The nodes of the threads that are blocked in Wait, by object.
WaitNodes == [o \in Object |-> {n \in Node : /\ waitQueue[n[1]] = "Wait"
                                             /\ n[2] \in DOMAIN objects[n[1]]
                                             /\ objects[n[1]][n[2]] = o}]

\* How the state of a thread, its queue, its result, its timer and its flags
\* go together.
ThreadsOK ==
    \A t \in Thread :
        /\ state[t] = "Waiting" <=> waitQueue[t] # "none"
        /\ state[t] = "Waiting" => waitResult[t] = "None"
        /\ waitQueue[t] = "Wait" => cancellable[t] /\ ~waitCancelled[t]
        /\ timer[t] => state[t] = "Waiting"

\* An object that is signaled has no waiters, unless the walk over its list
\* has not come to its end.
SignalOK ==
    \A o \in Object : signaled[o] /\ WaitNodes[o] # {} => walk # NoWalk /\ walk.object = o

\* The walk is over the list of a signaled object, and from its node the next
\* pointers lead to the head of the list, over nodes of threads that woke up.
WalkOK ==
    walk # NoWalk =>
        /\ signaled[walk.object]
        /\ \E z : /\ Leads(lists, WaitNodes, walk.object, walk.node, z)
                  /\ \A i \in 1 .. Len(z) : state[z[i][1]] # "Waiting"

SyncInv ==
    /\ TypeOK
    /\ Holds(lists, WaitNodes)
    /\ ThreadsOK
    /\ SignalOK
    /\ WalkOK

-----------------------------------------------------------------------------
\* FirstOf is the least index of a non-empty set of them.
LEMMA FirstOfIsLeast ==
    ASSUME NEW S \in SUBSET Nat, S # {}
    PROVE  FirstOf(S) \in S /\ \A j \in S : FirstOf(S) <= j
BY LeastNumber DEF FirstOf

\* A walk other than NoWalk has an object and a node.
LEMMA WalkFacts ==
    ASSUME walk \in {NoWalk} \cup [object : Object, node : Node], walk # NoWalk
    PROVE  walk.object \in Object /\ walk.node \in Node /\ walk.node # Nil
BY ThreadAssumption

\* A walk that goes on to a node has it and the object; at null it is over.
LEMMA WalkToFacts ==
    ASSUME NEW o \in Object, NEW n \in Pointer
    PROVE  /\ WalkTo(o, n) \in {NoWalk} \cup [object : Object, node : Node]
           /\ n = Nil => WalkTo(o, n) = NoWalk
           /\ n # Nil => WalkTo(o, n) # NoWalk /\ WalkTo(o, n).object = o /\ WalkTo(o, n).node = n
<1>1. CASE n = Nil
  BY <1>1 DEF WalkTo
<1>2. CASE n # Nil
  <2>1. WalkTo(o, n) = [object |-> o, node |-> n] /\ n \in Node
    BY <1>2 DEF WalkTo, Pointer
  <2>2. NoWalk.node = Nil
    BY DEF NoWalk
  <2> QED BY <1>2, <2>1, <2>2
<1> QED BY <1>1, <1>2

\* The lists stay what they are when only pointers of other nodes change.
LEMMA HoldsKept ==
    ASSUME NEW l, NEW W, Holds(l, W), NEW k \in Lists, k.head = l.head, k.tail = l.tail,
           \A o \in Object : \A n \in W[o] : k.next[n] = l.next[n]
    PROVE  Holds(k, W)
<1>1. PICK q : Hold(l, q, W)
  BY DEF Holds
<1>2. ASSUME NEW o \in Object PROVE IsList(k, o, q[o]) /\ NodesOf(q[o]) = W[o]
  <2>1. IsList(l, o, q[o]) /\ NodesOf(q[o]) = W[o]
    BY <1>1 DEF Hold
  <2>2. \A i \in 1 .. Len(q[o]) : q[o][i] \in W[o]
    BY <2>1 DEF NodesOf
  <2> QED BY <2>1, <2>2 DEF IsList, IsPath
<1>3. Hold(k, q, W)
  BY <1>1, <1>2 DEF Hold
<1> QED BY <1>3 DEF Holds

\* One node further on the way, and what is so when it ends in null.
LEMMA WayGoesOn ==
    ASSUME NEW l, NEW W, Holds(l, W), NEW o \in Object, NEW m, NEW z,
           Leads(l, W, o, m, z), Len(z) # 0
    PROVE  /\ l.next[m] \in Pointer
           /\ l.next[m] = Nil => W[o] = {}
           /\ \E y : Leads(l, W, o, l.next[m], y) /\ NodesOf(y) \subseteq NodesOf(z)
<1>1. z \in Seq(Node) /\ Len(z) \in Nat
  BY DEF Leads
<1>2. \A i \in 1 .. Len(z) : z[i] \in Node /\ z[i] # Nil
  BY <1>1, ThreadAssumption
<1>3. m = z[1] /\ \A i \in 1 .. Len(z) : l.next[z[i]] = IF i = Len(z) THEN l.head[o] ELSE z[i + 1]
  BY DEF Leads
<1>4. \A i \in 1 .. Len(z) : \A p \in Object : z[i] \notin W[p]
  BY DEF Leads
<1>5. 1 \in 1 .. Len(z) /\ (Len(z) # 1 => 2 \in 1 .. Len(z))
  <2>1. \A a \in Nat : a # 0 => 1 \in 1 .. a /\ (a # 1 => 2 \in 1 .. a)
    OBVIOUS
  <2> QED BY <1>1, <2>1
<1>6. l.next[m] = IF Len(z) = 1 THEN l.head[o] ELSE z[2]
  <2>1. l.next[z[1]] = IF 1 = Len(z) THEN l.head[o] ELSE z[1 + 1]
    BY <1>3, <1>5
  <2>2. 1 + 1 = 2
    OBVIOUS
  <2> QED BY <1>3, <2>1, <2>2
<1>7. l.next[m] \in Pointer
  BY <1>2, <1>3, <1>5, HoldsFacts DEF Lists
<1>8. l.next[m] = Nil => W[o] = {}
  BY <1>2, <1>5, <1>6, HoldsFacts
<1>y. PICK y : y = [i \in 1 .. Len(z) - 1 |-> z[i + 1]]
  OBVIOUS
<1>9. \A i \in 1 .. Len(z) - 1 : i + 1 \in 1 .. Len(z)
  <2>1. Len(z) \in Nat
    BY <1>1
  <2> QED BY <2>1
<1>10. y \in Seq(Node) /\ Len(y) = Len(z) - 1
  <2>1. Len(z) - 1 \in Nat
    BY <1>1
  <2>2. y \in [1 .. Len(z) - 1 -> Node]
    BY <1>2, <1>9, <1>y
  <2> QED BY <2>1, <2>2, FunctionIsSeq
<1>11. \A i \in 1 .. Len(y) : i + 1 \in 1 .. Len(z) /\ y[i] = z[i + 1]
  BY <1>9, <1>10, <1>y
<1>12. ASSUME NEW i \in 1 .. Len(y) PROVE l.next[y[i]] = IF i = Len(y) THEN l.head[o] ELSE y[i + 1]
  <2>0. Len(z) \in Nat /\ Len(y) = Len(z) - 1
    BY <1>1, <1>10
  <2>1. i + 1 = Len(z) <=> i = Len(y)
    BY <2>0
  <2>2. l.next[y[i]] = IF i + 1 = Len(z) THEN l.head[o] ELSE z[i + 1 + 1]
    BY <1>3, <1>11
  <2>3. i # Len(y) => i + 1 \in 1 .. Len(y)
    BY <2>0
  <2> QED BY <1>11, <2>1, <2>2, <2>3
<1>13. l.next[m] = IF Len(y) = 0 THEN l.head[o] ELSE y[1]
  <2>0. Len(z) \in Nat /\ Len(y) = Len(z) - 1
    BY <1>1, <1>10
  <2>1. Len(y) = 0 <=> Len(z) = 1
    BY <2>0
  <2>2. Len(y) # 0 => 1 \in 1 .. Len(y) /\ 1 + 1 = 2
    BY <2>0
  <2> QED BY <1>6, <1>11, <2>1, <2>2
<1>14. Leads(l, W, o, l.next[m], y)
  BY <1>4, <1>10, <1>11, <1>12, <1>13 DEF Leads
<1>15. NodesOf(y) \subseteq NodesOf(z)
  BY <1>11 DEF NodesOf
<1> QED BY <1>7, <1>8, <1>14, <1>15

\* The nodes are those of the threads that wait, and of nobody else.
LEMMA WaitNodesKept ==
    ASSUME \A u \in Thread : /\ waitQueue'[u] = "Wait" <=> waitQueue[u] = "Wait"
                             /\ waitQueue[u] = "Wait" => objects'[u] = objects[u]
    PROVE  WaitNodes' = WaitNodes
<1>1. \A n \in Node : n[1] \in Thread
  BY DEF Node
<1>2. ASSUME NEW o \in Object PROVE WaitNodes'[o] = WaitNodes[o]
  <2>1. ASSUME NEW n \in Node PROVE n \in WaitNodes'[o] <=> n \in WaitNodes[o]
    BY <1>1 DEF WaitNodes
  <2>2. WaitNodes'[o] \subseteq Node /\ WaitNodes[o] \subseteq Node
    BY DEF WaitNodes
  <2> QED BY <2>1, <2>2
<1> QED BY <1>2 DEF WaitNodes

\* A node of a waiting thread is one of its handles.
LEMMA WaitNodeFacts ==
    ASSUME TypeOK, NEW o \in Object
    PROVE  /\ \A n \in WaitNodes[o] : /\ n \in Node /\ n[1] \in Thread /\ waitQueue[n[1]] = "Wait"
                                      /\ n[2] \in DOMAIN objects[n[1]] /\ objects[n[1]][n[2]] = o
           /\ \A t \in Thread : \A i \in DOMAIN objects[t] :
                  waitQueue[t] = "Wait" /\ objects[t][i] = o => <<t, i>> \in WaitNodes[o]
<1>1. \A n \in Node : n[1] \in Thread
  BY DEF Node
<1>2. ASSUME NEW t \in Thread, NEW i \in DOMAIN objects[t], waitQueue[t] = "Wait", objects[t][i] = o
      PROVE  <<t, i>> \in WaitNodes[o]
  <2>1. objects[t] \in Arguments
    BY DEF TypeOK
  <2>2. <<t, i>> \in Node /\ <<t, i>>[1] = t /\ <<t, i>>[2] = i
    BY <2>1, ArgumentFacts
  <2> QED BY <1>2, <2>2 DEF WaitNodes
<1>3. ASSUME NEW n \in WaitNodes[o]
      PROVE  /\ n \in Node /\ n[1] \in Thread /\ waitQueue[n[1]] = "Wait"
             /\ n[2] \in DOMAIN objects[n[1]] /\ objects[n[1]][n[2]] = o
  BY <1>1 DEF WaitNodes
<1> QED BY <1>2, <1>3

\* Who waits for the thread's objects no longer waits when its wait is over.
LEMMA EndWaitLists ==
    ASSUME TypeOK, Holds(lists, WaitNodes), NEW t \in Thread, state[t] = "Waiting",
           NEW result, NEW index, EndWait(t, result, index), objects' = objects
    PROVE  /\ Holds(lists', WaitNodes')
           /\ \A o \in Object : WaitNodes'[o] \subseteq WaitNodes[o]
           /\ waitQueue[t] = "Wait" =>
                 \A o \in Object : /\ \A n \in WaitNodes'[o] : n[1] # t
                                   /\ \E z : /\ Leads(lists', WaitNodes', o, lists.head[o], z)
                                             /\ \A i \in 1 .. Len(z) : z[i][1] = t
<1>1. waitQueue' = [waitQueue EXCEPT ![t] = "none"] /\ waitQueue \in [Thread -> {"none", "Wait", "Sleep"}]
  BY DEF EndWait, TypeOK
<1>2. CASE waitQueue[t] # "Wait"
  <2>1. lists' = lists
    BY <1>2 DEF EndWait
  <2>2. WaitNodes' = WaitNodes
    BY <1>1, <1>2, WaitNodesKept
  <2> QED BY <1>2, <2>1, <2>2
<1>3. CASE waitQueue[t] = "Wait"
  <2>1. lists' = UnlinkAll(t)
    BY <1>3 DEF EndWait
  <2> DEFINE N == Len(objects[t])
  <2>2. objects[t] \in Arguments /\ N \in Nat /\ DOMAIN objects[t] = 1 .. N
    <3>1. objects[t] \in Arguments
      BY DEF TypeOK
    <3> QED BY <3>1, ArgumentFacts, MaxObjectsAssumption
  <2>3. ASSUME NEW o \in Object, NEW n \in Node
        PROVE  n \in NodesFor(t, objects[t], o, N) <=> n[1] = t /\ n \in WaitNodes[o]
    <3>1. n[2] \in DOMAIN objects[t] => n[2] <= N
      BY <2>2
    <3> HIDE DEF N
    <3> QED BY <1>3, <3>1 DEF NodesFor, WaitNodes
  <2>4. \A o \in Object : NodesFor(t, objects[t], o, N) \subseteq WaitNodes[o]
    <3>1. \A o : NodesFor(t, objects[t], o, N) \subseteq Node
      BY DEF NodesFor
    <3> HIDE DEF N
    <3> QED BY <2>3, <3>1
  <2>5. ASSUME NEW o \in Object, NEW n \in Node
        PROVE  n \in WaitNodes'[o] <=> n \in WaitNodes[o] /\ n[1] # t
    <3>1. n[1] \in Thread
      BY DEF Node
    <3>2. waitQueue'[n[1]] = "Wait" <=> waitQueue[n[1]] = "Wait" /\ n[1] # t
      BY <1>1, <3>1
    <3> QED BY <3>2 DEF WaitNodes
  <2>6. WaitNodes' = [o \in Object |-> WaitNodes[o] \ NodesFor(t, objects[t], o, N)]
    <3>1. \A o \in Object : WaitNodes'[o] \subseteq Node /\ WaitNodes[o] \subseteq Node
      BY DEF WaitNodes
    <3>2. \A o \in Object : WaitNodes'[o] = WaitNodes[o] \ NodesFor(t, objects[t], o, N)
      <4> HIDE DEF N
      <4> QED BY <2>3, <2>5, <3>1
    <3> QED BY <3>2 DEF WaitNodes
  <2>7. LeadsOn(UnlinkAll(t), WithoutThread(WaitNodes, t), t)
    BY <2>2, <2>4, UnlinkAllUnlinks
  <2>9. WaitNodes' = WithoutThread(WaitNodes, t)
    BY <2>6 DEF WithoutThread
  <2>8. \A o \in Object : WaitNodes'[o] \subseteq WaitNodes[o] /\ \A n \in WaitNodes'[o] : n[1] # t
    <3>1. \A o \in Object : WaitNodes'[o] \subseteq Node
      BY DEF WaitNodes
    <3> QED BY <2>5, <3>1
  <2>10. LeadsOn(lists', WaitNodes', t)
    BY <2>1, <2>7, <2>9
  <2> QED BY <2>8, <2>10 DEF LeadsOn
<1> QED BY <1>2, <1>3

\* The rest of the invariant when a wait ends: the thread is runnable and has
\* neither a queue nor a timer, and nothing happens to the others.
LEMMA EndWaitThreads ==
    ASSUME TypeOK, ThreadsOK, NEW t \in Thread, NEW result \in Results,
           NEW index \in {-1} \cup (1 .. MaxObjects), EndWait(t, result, index),
           waitCancelled' \in [Thread -> BOOLEAN],
           \A u \in Thread \ {t} : waitCancelled'[u] = waitCancelled[u]
    PROVE  /\ ThreadsOK'
           /\ state' \in [Thread -> {"Runnable", "Waiting"}]
           /\ waitQueue' \in [Thread -> {"none", "Wait", "Sleep"}]
           /\ syncedIndex' \in [Thread -> {-1} \cup (1 .. MaxObjects)]
           /\ waitResult' \in [Thread -> Results]
           /\ cancellable' \in [Thread -> BOOLEAN] /\ timer' \in [Thread -> BOOLEAN]
           /\ state'[t] = "Runnable" /\ \A u \in Thread \ {t} : state'[u] = state[u]
<1>1. /\ state \in [Thread -> {"Runnable", "Waiting"}]
      /\ waitQueue \in [Thread -> {"none", "Wait", "Sleep"}]
      /\ syncedIndex \in [Thread -> {-1} \cup (1 .. MaxObjects)]
      /\ waitResult \in [Thread -> Results]
  BY DEF TypeOK
<1>2. cancellable \in [Thread -> BOOLEAN] /\ timer \in [Thread -> BOOLEAN]
  BY DEF TypeOK
<1>3. /\ state' = [state EXCEPT ![t] = "Runnable"]
      /\ waitQueue' = [waitQueue EXCEPT ![t] = "none"]
      /\ syncedIndex' = [syncedIndex EXCEPT ![t] = index]
      /\ waitResult' = [waitResult EXCEPT ![t] = result]
  BY DEF EndWait
<1>4. cancellable' = [cancellable EXCEPT ![t] = @ /\ waitQueue[t] # "Wait"] /\ timer' = [timer EXCEPT ![t] = FALSE]
  BY DEF EndWait, TimerAfterWait
<1>5. cancellable' \in [Thread -> BOOLEAN] /\ \A u \in Thread \ {t} : cancellable'[u] = cancellable[u]
  BY <1>2, <1>4
<1>6. timer' \in [Thread -> BOOLEAN] /\ ~timer'[t] /\ \A u \in Thread \ {t} : timer'[u] = timer[u]
  BY <1>2, <1>4
<1>7. /\ state' \in [Thread -> {"Runnable", "Waiting"}] /\ state'[t] = "Runnable"
      /\ waitQueue' \in [Thread -> {"none", "Wait", "Sleep"}] /\ waitQueue'[t] = "none"
      /\ syncedIndex' \in [Thread -> {-1} \cup (1 .. MaxObjects)]
      /\ waitResult' \in [Thread -> Results]
      /\ \A u \in Thread \ {t} : state'[u] = state[u] /\ waitQueue'[u] = waitQueue[u] /\ waitResult'[u] = waitResult[u]
  BY <1>1, <1>3
<1>8. ThreadsOK'
  <2> SUFFICES ASSUME NEW u \in Thread
               PROVE  /\ state'[u] = "Waiting" <=> waitQueue'[u] # "none"
                      /\ state'[u] = "Waiting" => waitResult'[u] = "None"
                      /\ waitQueue'[u] = "Wait" => cancellable'[u] /\ ~waitCancelled'[u]
                      /\ timer'[u] => state'[u] = "Waiting"
    BY DEF ThreadsOK
  <2>1. CASE u = t
    BY <1>6, <1>7, <2>1
  <2>2. CASE u # t
    BY <1>5, <1>6, <1>7, <2>2 DEF ThreadsOK
  <2> QED BY <2>1, <2>2
<1> QED BY <1>5, <1>6, <1>7, <1>8

\* The types that say nothing about the lists.
ThreadTypes ==
    /\ signaled \in [Object -> BOOLEAN]
    /\ walk \in {NoWalk} \cup [object : Object, node : Node]
    /\ objects \in [Thread -> Arguments]
    /\ state \in [Thread -> {"Runnable", "Waiting"}]
    /\ waitQueue \in [Thread -> {"none", "Wait", "Sleep"}]
    /\ syncedIndex \in [Thread -> {-1} \cup (1 .. MaxObjects)]
    /\ waitResult \in [Thread -> Results]
    /\ cancellable \in [Thread -> BOOLEAN]
    /\ waitCancelled \in [Thread -> BOOLEAN]
    /\ terminating \in [Thread -> BOOLEAN]
    /\ timer \in [Thread -> BOOLEAN]

\* The types of the pointers are those of well formed lists.
LEMMA TypesTogether ==
    ASSUME ThreadTypes, Holds(lists, WaitNodes)
    PROVE  TypeOK
<1>1. lists \in Lists
  BY DEF Holds, Hold
<1>2. /\ lists.head \in [Object -> Node \cup {Nil}]
      /\ lists.tail \in [Object -> Node \cup {Nil}]
      /\ lists.next \in [Node -> Node \cup {Nil}]
  BY <1>1 DEF Lists, Pointer
<1> QED BY <1>2 DEF TypeOK, ThreadTypes

\* And the other way round.
LEMMA TypesApart ==
    ASSUME TypeOK
    PROVE  ThreadTypes
BY DEF TypeOK, ThreadTypes

\* The same in the next state.
LEMMA TypesTogetherNext ==
    ASSUME ThreadTypes', Holds(lists', WaitNodes')
    PROVE  TypeOK'
<1>1. lists' \in Lists
  BY DEF Holds, Hold
<1>2. /\ lists'.head \in [Object -> Node \cup {Nil}]
      /\ lists'.tail \in [Object -> Node \cup {Nil}]
      /\ lists'.next \in [Node -> Node \cup {Nil}]
  BY <1>1 DEF Lists, Pointer
<1> QED BY <1>2 DEF TypeOK, ThreadTypes

\* No object is signaled and waited for while no walk is under way.
LEMMA QuietSignals ==
    ASSUME SignalOK, walk = NoWalk, walk' = walk, signaled' = signaled,
           \A o \in Object : WaitNodes'[o] \subseteq WaitNodes[o]
    PROVE  SignalOK' /\ WalkOK'
<1>1. WalkOK'
  BY DEF WalkOK
<1>2. SignalOK'
  <2> SUFFICES ASSUME NEW o \in Object, signaled'[o], WaitNodes'[o] # {} PROVE FALSE
    BY DEF SignalOK
  <2>1. signaled[o] /\ WaitNodes[o] # {}
    OBVIOUS
  <2> QED BY <2>1 DEF SignalOK
<1> QED BY <1>1, <1>2

\* A step that leaves the lists and the waits alone.
LEMMA ListsAlone ==
    ASSUME SyncInv, ThreadTypes', ThreadsOK', walk = NoWalk, walk' = walk, signaled' = signaled,
           lists' = lists,
           \A u \in Thread : /\ waitQueue'[u] = "Wait" <=> waitQueue[u] = "Wait"
                             /\ waitQueue[u] = "Wait" => objects'[u] = objects[u]
    PROVE  SyncInv'
<1>1. WaitNodes' = WaitNodes
  BY WaitNodesKept
<1>2. Holds(lists', WaitNodes')
  BY <1>1 DEF SyncInv
<1>3. TypeOK'
  BY <1>2, TypesTogetherNext
<1>4. SignalOK' /\ WalkOK'
  BY <1>1, QuietSignals DEF SyncInv
<1> QED BY <1>2, <1>3, <1>4 DEF SyncInv

\* A wait that ends while no walk is under way: timeout, cancellation and
\* termination.
LEMMA EndWaitKeeps ==
    ASSUME SyncInv, walk = NoWalk, UNCHANGED <<walk, signaled, objects>>,
           NEW t \in Thread, state[t] = "Waiting",
           NEW result \in Results, EndWait(t, result, syncedIndex[t]),
           waitCancelled' \in [Thread -> BOOLEAN],
           \A u \in Thread \ {t} : waitCancelled'[u] = waitCancelled[u],
           terminating' \in [Thread -> BOOLEAN]
    PROVE  SyncInv'
<1>1. TypeOK /\ ThreadsOK /\ ThreadTypes
  BY TypesApart DEF SyncInv
<1>2. Holds(lists', WaitNodes') /\ \A o \in Object : WaitNodes'[o] \subseteq WaitNodes[o]
  BY <1>1, EndWaitLists DEF SyncInv
<1>3. syncedIndex[t] \in {-1} \cup (1 .. MaxObjects)
  BY <1>1 DEF ThreadTypes
<1>4. /\ ThreadsOK'
      /\ state' \in [Thread -> {"Runnable", "Waiting"}]
      /\ waitQueue' \in [Thread -> {"none", "Wait", "Sleep"}]
      /\ syncedIndex' \in [Thread -> {-1} \cup (1 .. MaxObjects)]
      /\ waitResult' \in [Thread -> Results]
      /\ cancellable' \in [Thread -> BOOLEAN] /\ timer' \in [Thread -> BOOLEAN]
  BY <1>1, <1>3, EndWaitThreads
<1>5. ThreadTypes'
  BY <1>1, <1>4 DEF ThreadTypes
<1>6. SignalOK' /\ WalkOK'
  BY <1>2, QuietSignals DEF SyncInv
<1>7. TypeOK'
  BY <1>2, <1>5, TypesTogetherNext
<1> QED BY <1>2, <1>4, <1>6, <1>7 DEF SyncInv

-----------------------------------------------------------------------------
(* The invariant holds at the start and every action keeps it. *)

\* At the start the lists are empty and nobody waits.
LEMMA SyncInvInit == Init => SyncInv
<1> SUFFICES ASSUME Init PROVE SyncInv
  OBVIOUS
<1>1. WaitNodes = [o \in Object |-> {}]
  <2>1. \A n \in Node : n[1] \in Thread
    BY DEF Node
  <2> QED BY <2>1 DEF WaitNodes, Init
<1>2. lists \in Lists
  BY DEF Init, Lists, Pointer
<1>3. \A o \in Object : lists.head[o] = Nil /\ lists.tail[o] = Nil
  BY DEF Init
<1>4. Holds(lists, WaitNodes)
  <2> DEFINE q == [o \in Object |-> <<>>]
  <2>1. <<>> \in Seq(Node) /\ Len(<<>>) = 0 /\ 1 .. 0 = {}
    OBVIOUS
  <2>2. NodesOf(<<>>) = {} /\ IsPath(lists, <<>>)
    BY <2>1 DEF NodesOf, IsPath
  <2>3. \A o \in Object : IsList(lists, o, q[o]) /\ NodesOf(q[o]) = WaitNodes[o]
    BY <1>1, <1>3, <2>1, <2>2 DEF IsList
  <2>4. WaitNodes \in [Object -> SUBSET Node] /\ \A o, p \in Object : o # p => WaitNodes[o] \cap WaitNodes[p] = {}
    BY <1>1
  <2> HIDE DEF q
  <2>5. Hold(lists, q, WaitNodes)
    BY <1>2, <2>3, <2>4 DEF Hold
  <2> QED BY <2>5 DEF Holds
<1>5. ThreadTypes
  <2>1. <<>> \in Arguments
    <3>1. 0 \in 0 .. MaxObjects
      BY MaxObjectsAssumption
    <3>2. <<>> \in [1 .. 0 -> Object]
      OBVIOUS
    <3> QED BY <3>1, <3>2 DEF Arguments
  <2> QED BY <2>1 DEF ThreadTypes, Init, Results
<1>6. ThreadsOK /\ SignalOK /\ WalkOK
  BY <1>1 DEF Init, ThreadsOK, SignalOK, WalkOK
<1>7. TypeOK
  BY <1>4, <1>5, TypesTogether
<1> QED BY <1>4, <1>6, <1>7 DEF SyncInv

\* Wait that returns at once: nobody waits more or less than before.
LEMMA WaitReturnsKeeps ==
    ASSUME SyncInv, NEW t \in Thread, NEW objs \in Arguments,
           NEW timeout \in {"zero", "positive", "infinite"}, WaitReturns(t, objs, timeout)
    PROVE  SyncInv'
<1>1. ThreadTypes /\ ThreadsOK
  BY TypesApart DEF SyncInv
<1> DEFINE outcome == WaitOutcome(t, objs, timeout)
<1>2. outcome.result \in Results /\ outcome.index \in {-1} \cup (1 .. MaxObjects)
  <2> DEFINE ready == {i \in DOMAIN objs : signaled[objs[i]]}
  <2>1. DOMAIN objs = 1 .. Len(objs) /\ Len(objs) \in 0 .. MaxObjects
    BY ArgumentFacts
  <2>2. ready \in SUBSET Nat /\ ready \subseteq 1 .. MaxObjects
    BY <2>1, MaxObjectsAssumption
  <2>3. ready # {} => FirstOf(ready) \in 1 .. MaxObjects
    <3> HIDE DEF ready
    <3> QED BY <2>2, FirstOfIsLeast
  <2>4. outcome = IF terminating[t] THEN [result |-> "TerminationRequested", index |-> -1]
                  ELSE IF ready # {} THEN [result |-> "Success", index |-> FirstOf(ready)]
                  ELSE [result |-> IF timeout = "zero" THEN "TimedOut"
                                   ELSE IF waitCancelled[t] THEN "Cancelled" ELSE "block", index |-> -1]
    BY DEF WaitOutcome
  <2>5. outcome.result # "block"
    BY DEF WaitReturns
  <2> HIDE DEF ready, outcome
  <2> QED BY <2>3, <2>4, <2>5 DEF Results
<1> HIDE DEF outcome
<1>3. /\ walk = NoWalk /\ state[t] = "Runnable" /\ waitResult[t] = "None"
      /\ objects' = [objects EXCEPT ![t] = objs]
      /\ syncedIndex' = [syncedIndex EXCEPT ![t] = outcome.index]
      /\ waitResult' = [waitResult EXCEPT ![t] = outcome.result]
      /\ waitCancelled' = [waitCancelled EXCEPT ![t] = @ /\ outcome.result # "Cancelled"]
      /\ UNCHANGED <<lists, signaled, walk, state, waitQueue, cancellable, terminating, timer>>
  BY DEF WaitReturns, Running, SchedulerUnlocked, outcome
<1>4. waitQueue[t] = "none"
  BY <1>1, <1>3 DEF ThreadsOK
<1>5. waitCancelled' \in [Thread -> BOOLEAN] /\ \A u \in Thread \ {t} : waitCancelled'[u] = waitCancelled[u]
  BY <1>1, <1>3 DEF ThreadTypes
<1>6. ThreadTypes'
  BY <1>1, <1>2, <1>3, <1>5 DEF ThreadTypes
<1>7. ThreadsOK'
  BY <1>1, <1>3, <1>4, <1>5 DEF ThreadsOK, ThreadTypes
<1>8. \A u \in Thread : waitQueue[u] = "Wait" => objects'[u] = objects[u]
  BY <1>1, <1>3, <1>4 DEF ThreadTypes
<1> QED BY <1>3, <1>6, <1>7, <1>8, ListsAlone

\* Wait blocks only when none of its objects is signaled and nobody asked to
\* cancel it.
LEMMA BlocksFacts ==
    ASSUME NEW t, NEW objs, NEW timeout, WaitOutcome(t, objs, timeout).result = "block"
    PROVE  /\ \A i \in DOMAIN objs : ~signaled[objs[i]]
           /\ ~waitCancelled[t]
<1> DEFINE ready == {i \in DOMAIN objs : signaled[objs[i]]}
<1>1. WaitOutcome(t, objs, timeout)
        = IF terminating[t] THEN [result |-> "TerminationRequested", index |-> -1]
          ELSE IF ready # {} THEN [result |-> "Success", index |-> FirstOf(ready)]
          ELSE [result |-> IF timeout = "zero" THEN "TimedOut"
                           ELSE IF waitCancelled[t] THEN "Cancelled" ELSE "block", index |-> -1]
  BY DEF WaitOutcome
<1>2. ready = {} /\ ~waitCancelled[t]
  <2> HIDE DEF ready
  <2> QED BY <1>1
<1> QED BY <1>2

\* Wait that blocks: the thread is put on the lists of objects that are not
\* signaled.
LEMMA WaitBlocksKeeps ==
    ASSUME SyncInv, NEW t \in Thread, NEW objs \in Arguments,
           NEW timeout \in {"zero", "positive", "infinite"}, WaitBlocks(t, objs, timeout)
    PROVE  SyncInv'
<1>1. ThreadTypes /\ ThreadsOK /\ TypeOK
  BY TypesApart DEF SyncInv
<1>2. /\ walk = NoWalk /\ state[t] = "Runnable" /\ waitResult[t] = "None"
      /\ lists' = LinkAll(t, objs)
      /\ objects' = [objects EXCEPT ![t] = objs]
      /\ cancellable' = [cancellable EXCEPT ![t] = TRUE]
      /\ syncedIndex' = [syncedIndex EXCEPT ![t] = -1]
      /\ state' = [state EXCEPT ![t] = "Waiting"]
      /\ waitQueue' = [waitQueue EXCEPT ![t] = "Wait"]
      /\ timer' = [timer EXCEPT ![t] = timeout = "positive"]
      /\ UNCHANGED <<signaled, walk, waitResult, waitCancelled, terminating>>
  BY DEF WaitBlocks, Running, SchedulerUnlocked
<1>3. (\A i \in DOMAIN objs : ~signaled[objs[i]]) /\ ~waitCancelled[t]
  BY BlocksFacts DEF WaitBlocks
<1>4. waitQueue[t] = "none"
  BY <1>1, <1>2 DEF ThreadsOK
<1>5. Len(objs) \in Nat /\ DOMAIN objs = 1 .. Len(objs)
  BY ArgumentFacts, MaxObjectsAssumption
<1>6. ASSUME NEW o \in Object, NEW n \in Node
      PROVE  n \in WaitNodes'[o] <=> n \in WaitNodes[o] \/ n \in NodesFor(t, objs, o, Len(objs))
  <2>1. n[1] \in Thread
    BY DEF Node
  <2>2. CASE n[1] = t
    <3>1. n \notin WaitNodes[o]
      BY <1>4, <2>2 DEF WaitNodes
    <3>2. n \in WaitNodes'[o] <=> n[2] \in DOMAIN objs /\ objs[n[2]] = o
      <4>1. waitQueue'[n[1]] = "Wait" /\ objects'[n[1]] = objs
        BY <1>1, <1>2, <2>2 DEF ThreadTypes
      <4> QED BY <4>1 DEF WaitNodes
    <3>3. n[2] \in DOMAIN objs => n[2] <= Len(objs)
      BY <1>5
    <3> QED BY <2>2, <3>1, <3>2, <3>3 DEF NodesFor
  <2>3. CASE n[1] # t
    <3>1. waitQueue'[n[1]] = waitQueue[n[1]] /\ objects'[n[1]] = objects[n[1]]
      BY <1>1, <1>2, <2>1, <2>3 DEF ThreadTypes
    <3>2. n \notin NodesFor(t, objs, o, Len(objs))
      BY <2>3 DEF NodesFor
    <3> QED BY <3>1, <3>2 DEF WaitNodes
  <2> QED BY <2>2, <2>3
<1>7. WaitNodes' = [o \in Object |-> WaitNodes[o] \cup NodesFor(t, objs, o, Len(objs))]
  <2>1. \A o \in Object : WaitNodes'[o] \subseteq Node /\ WaitNodes[o] \subseteq Node /\ NodesFor(t, objs, o, Len(objs)) \subseteq Node
    BY DEF WaitNodes, NodesFor
  <2>2. \A o \in Object : WaitNodes'[o] = WaitNodes[o] \cup NodesFor(t, objs, o, Len(objs))
    BY <1>6, <2>1
  <2> QED BY <2>2 DEF WaitNodes
<1>8. Holds(lists', WaitNodes')
  <2>1. \A o \in Object : \A n \in WaitNodes[o] : n[1] # t
    BY <1>1, <1>4, WaitNodeFacts
  <2>2. Holds(LinkAll(t, objs), [o \in Object |-> WaitNodes[o] \cup NodesFor(t, objs, o, Len(objs))])
    BY <2>1, LinkAllLinks DEF SyncInv
  <2> QED BY <1>2, <1>7, <2>2
<1>9. timer' \in [Thread -> BOOLEAN] /\ \A u \in Thread \ {t} : timer'[u] = timer[u]
  BY <1>1, <1>2 DEF ThreadTypes
<1>10. ThreadTypes'
  BY <1>1, <1>2, <1>9 DEF ThreadTypes
<1>11. ThreadsOK'
  <2> SUFFICES ASSUME NEW u \in Thread
               PROVE  /\ state'[u] = "Waiting" <=> waitQueue'[u] # "none"
                      /\ state'[u] = "Waiting" => waitResult'[u] = "None"
                      /\ waitQueue'[u] = "Wait" => cancellable'[u] /\ ~waitCancelled'[u]
                      /\ timer'[u] => state'[u] = "Waiting"
    BY DEF ThreadsOK
  <2>1. CASE u = t
    BY <1>1, <1>2, <1>3, <2>1 DEF ThreadTypes
  <2>2. CASE u # t
    BY <1>1, <1>2, <1>9, <2>2 DEF ThreadsOK, ThreadTypes
  <2> QED BY <2>1, <2>2
<1>12. WalkOK'
  BY <1>2 DEF WalkOK
<1>13. SignalOK'
  <2> SUFFICES ASSUME NEW o \in Object, signaled'[o], WaitNodes'[o] # {} PROVE FALSE
    BY DEF SignalOK
  <2>1. WaitNodes[o] = {}
    BY <1>2 DEF SyncInv, SignalOK
  <2>2. PICK n : n \in NodesFor(t, objs, o, Len(objs))
    BY <1>7, <2>1
  <2>3. n[2] \in DOMAIN objs /\ objs[n[2]] = o
    BY <2>2 DEF NodesFor
  <2> QED BY <1>2, <1>3, <2>3
<1>14. TypeOK'
  BY <1>8, <1>10, TypesTogetherNext
<1> QED BY <1>8, <1>11, <1>12, <1>13, <1>14 DEF SyncInv

\* Sleep uses no list.
LEMMA SleepKeeps ==
    ASSUME SyncInv, NEW t \in Thread, Sleep(t)
    PROVE  SyncInv'
<1>1. ThreadTypes /\ ThreadsOK
  BY TypesApart DEF SyncInv
<1>2. /\ walk = NoWalk /\ state[t] = "Runnable" /\ waitResult[t] = "None"
      /\ state' = [state EXCEPT ![t] = "Waiting"]
      /\ waitQueue' = [waitQueue EXCEPT ![t] = "Sleep"]
      /\ timer' = [timer EXCEPT ![t] = TRUE]
      /\ UNCHANGED <<lists, signaled, walk, objects, syncedIndex, waitResult, cancellable, waitCancelled, terminating>>
  BY DEF Sleep, Running, SchedulerUnlocked, threadFlags
<1>3. waitQueue[t] = "none"
  BY <1>1, <1>2 DEF ThreadsOK
<1>4. timer' \in [Thread -> BOOLEAN] /\ \A u \in Thread \ {t} : timer'[u] = timer[u]
  BY <1>1, <1>2 DEF ThreadTypes
<1>5. ThreadTypes'
  BY <1>1, <1>2, <1>4 DEF ThreadTypes
<1>6. ThreadsOK'
  BY <1>1, <1>2, <1>4 DEF ThreadsOK, ThreadTypes
<1>7. \A u \in Thread : waitQueue'[u] = "Wait" <=> waitQueue[u] = "Wait"
  BY <1>1, <1>2, <1>3 DEF ThreadTypes
<1> QED BY <1>2, <1>5, <1>6, <1>7, ListsAlone

\* A thread that returns takes its nodes with it; none of them is on a list.
LEMMA ReturnKeeps ==
    ASSUME SyncInv, NEW t \in Thread, Return(t)
    PROVE  SyncInv'
<1>1. ThreadTypes /\ ThreadsOK /\ TypeOK
  BY TypesApart DEF SyncInv
<1>2. /\ walk = NoWalk /\ state[t] = "Runnable"
      /\ objects' = [objects EXCEPT ![t] = <<>>]
      /\ syncedIndex' = [syncedIndex EXCEPT ![t] = -1]
      /\ waitResult' = [waitResult EXCEPT ![t] = "None"]
      /\ lists' = [lists EXCEPT !.next = [n \in Node |-> IF n[1] = t THEN Nil ELSE @[n]]]
      /\ UNCHANGED <<signaled, walk, state, waitQueue, cancellable, waitCancelled, terminating, timer>>
  BY DEF Return, SchedulerUnlocked, threadFlags
<1>3. waitQueue[t] = "none"
  BY <1>1, <1>2 DEF ThreadsOK
<1>4. WaitNodes' = WaitNodes
  BY <1>1, <1>2, <1>3, WaitNodesKept DEF ThreadTypes
<1>5. lists \in Lists
  BY DEF SyncInv, Holds, Hold
<1>6. lists' \in Lists /\ lists'.head = lists.head /\ lists'.tail = lists.tail
  BY <1>2, <1>5 DEF Lists, Pointer
<1>7. \A o \in Object : \A n \in WaitNodes[o] : lists'.next[n] = lists.next[n]
  <2>1. \A o \in Object : \A n \in WaitNodes[o] : n \in Node /\ n[1] # t
    BY <1>1, <1>3, WaitNodeFacts
  <2>2. \A n \in Node : n[1] # t => lists'.next[n] = lists.next[n]
    BY <1>2, <1>5 DEF Lists
  <2> QED BY <2>1, <2>2
<1>8. Holds(lists', WaitNodes')
  BY <1>4, <1>6, <1>7, HoldsKept DEF SyncInv
<1>9. <<>> \in Arguments
  <2>1. 0 \in 0 .. MaxObjects
    BY MaxObjectsAssumption
  <2>2. <<>> \in [1 .. 0 -> Object]
    OBVIOUS
  <2> QED BY <2>1, <2>2 DEF Arguments
<1>10. ThreadTypes'
  BY <1>1, <1>2, <1>9 DEF ThreadTypes, Results
<1>11. ThreadsOK'
  BY <1>1, <1>2 DEF ThreadsOK, ThreadTypes
<1>12. SignalOK' /\ WalkOK'
  BY <1>2, <1>4, QuietSignals DEF SyncInv
<1>13. TypeOK'
  BY <1>8, <1>10, TypesTogetherNext
<1> QED BY <1>8, <1>11, <1>12, <1>13 DEF SyncInv

\* The timer ends the wait it was armed for.
LEMMA OnTimerKeeps ==
    ASSUME SyncInv, NEW t \in Thread, OnTimer(t)
    PROVE  SyncInv'
<1>1. ThreadTypes /\ ThreadsOK
  BY TypesApart DEF SyncInv
<1>2. walk = NoWalk /\ timer[t] /\ UNCHANGED <<walk, signaled, objects, waitCancelled, terminating>>
  BY DEF OnTimer, SchedulerUnlocked
<1>3. state[t] = "Waiting"
  BY <1>1, <1>2 DEF ThreadsOK
<1>4. EndWait(t, "TimedOut", syncedIndex[t]) /\ "TimedOut" \in Results
  BY <1>3 DEF OnTimer, Results
<1>5. waitCancelled' = waitCancelled /\ waitCancelled \in [Thread -> BOOLEAN] /\ terminating' \in [Thread -> BOOLEAN]
  BY <1>1, <1>2 DEF ThreadTypes
<1> QED BY <1>2, <1>3, <1>4, <1>5, EndWaitKeeps

\* A cancellation ends the wait or is remembered for the next one.
LEMMA WaitCancelKeeps ==
    ASSUME SyncInv, NEW t \in Thread, WaitCancel(t)
    PROVE  SyncInv'
<1>1. ThreadTypes /\ ThreadsOK
  BY TypesApart DEF SyncInv
<1>2. walk = NoWalk /\ UNCHANGED <<walk, signaled, objects, terminating>>
  BY DEF WaitCancel, SchedulerUnlocked
<1>3. terminating' \in [Thread -> BOOLEAN]
  BY <1>1, <1>2 DEF ThreadTypes
<1>4. CASE state[t] = "Waiting" /\ cancellable[t]
  <2>1. /\ waitCancelled' = [waitCancelled EXCEPT ![t] = FALSE]
        /\ EndWait(t, "Cancelled", syncedIndex[t]) /\ "Cancelled" \in Results
    BY <1>4 DEF WaitCancel, Results
  <2>2. waitCancelled' \in [Thread -> BOOLEAN] /\ \A u \in Thread \ {t} : waitCancelled'[u] = waitCancelled[u]
    BY <1>1, <2>1 DEF ThreadTypes
  <2> QED BY <1>2, <1>3, <1>4, <2>1, <2>2, EndWaitKeeps
<1>5. CASE ~(state[t] = "Waiting" /\ cancellable[t])
  <2>1. /\ waitCancelled' = [waitCancelled EXCEPT ![t] = TRUE]
        /\ UNCHANGED <<lists, cancellable, syncedIndex, waitResult, state, waitQueue, timer>>
    BY <1>5 DEF WaitCancel
  <2>2. waitQueue[t] # "Wait"
    BY <1>1, <1>5 DEF ThreadsOK
  <2>3. waitCancelled' \in [Thread -> BOOLEAN] /\ \A u \in Thread \ {t} : waitCancelled'[u] = waitCancelled[u]
    BY <1>1, <2>1 DEF ThreadTypes
  <2>4. ThreadTypes'
    BY <1>1, <1>2, <2>1, <2>3 DEF ThreadTypes
  <2>5. ThreadsOK'
    BY <1>1, <2>1, <2>2, <2>3 DEF ThreadsOK
  <2> QED BY <1>2, <2>1, <2>4, <2>5, ListsAlone
<1> QED BY <1>4, <1>5

\* A request to terminate ends a wait, if there is one.
LEMMA RequestTerminateKeeps ==
    ASSUME SyncInv, NEW t \in Thread, RequestTerminate(t)
    PROVE  SyncInv'
<1>1. ThreadTypes /\ ThreadsOK
  BY TypesApart DEF SyncInv
<1>2. /\ walk = NoWalk /\ UNCHANGED <<walk, signaled, objects, waitCancelled>>
      /\ terminating' = [terminating EXCEPT ![t] = TRUE]
  BY DEF RequestTerminate, SchedulerUnlocked
<1>3. terminating' \in [Thread -> BOOLEAN]
  BY <1>1, <1>2 DEF ThreadTypes
<1>4. waitCancelled' = waitCancelled /\ waitCancelled' \in [Thread -> BOOLEAN]
  BY <1>1, <1>2 DEF ThreadTypes
<1>5. CASE state[t] = "Waiting"
  <2>1. EndWait(t, "TerminationRequested", syncedIndex[t]) /\ "TerminationRequested" \in Results
    BY <1>5 DEF RequestTerminate, Results
  <2> QED BY <1>2, <1>3, <1>4, <1>5, <2>1, EndWaitKeeps
<1>6. CASE state[t] # "Waiting"
  <2>1. UNCHANGED <<lists, cancellable, syncedIndex, waitResult, state, waitQueue, timer>>
    BY <1>6 DEF RequestTerminate
  <2>2. ThreadTypes'
    BY <1>1, <1>2, <1>3, <2>1 DEF ThreadTypes
  <2>3. ThreadsOK'
    BY <1>1, <1>2, <2>1 DEF ThreadsOK
  <2> QED BY <1>2, <2>1, <2>2, <2>3, ListsAlone
<1> QED BY <1>5, <1>6

\* Signal starts the walk at the head of the object's list, if it has one.
LEMMA SignalKeeps ==
    ASSUME SyncInv, NEW o \in Object, Signal(o)
    PROVE  SyncInv'
<1>1. ThreadTypes /\ ThreadsOK /\ Holds(lists, WaitNodes) /\ SignalOK
  BY TypesApart DEF SyncInv
<1>2. /\ walk = NoWalk /\ signaled' = [signaled EXCEPT ![o] = TRUE]
      /\ walk' = WalkTo(o, lists.head[o])
      /\ UNCHANGED <<lists, objects, state, waitQueue, syncedIndex, waitResult, cancellable, waitCancelled, terminating, timer>>
  BY DEF Signal, SchedulerUnlocked, threadFlags, WalkTo
<1>3. lists.head[o] \in Pointer /\ (lists.head[o] = Nil <=> WaitNodes[o] = {})
  BY <1>1, HoldsFacts DEF Lists
<1>4. /\ walk' \in {NoWalk} \cup [object : Object, node : Node]
      /\ lists.head[o] = Nil => walk' = NoWalk
      /\ lists.head[o] # Nil => walk' # NoWalk /\ walk'.object = o /\ walk'.node = lists.head[o]
  BY <1>2, <1>3, WalkToFacts
<1>5. WaitNodes' = WaitNodes
  BY <1>2, WaitNodesKept
<1>6. Holds(lists', WaitNodes')
  BY <1>1, <1>2, <1>5
<1>7. signaled' \in [Object -> BOOLEAN] /\ signaled'[o] /\ \A p \in Object \ {o} : signaled'[p] = signaled[p]
  BY <1>1, <1>2 DEF ThreadTypes
<1>8. ThreadTypes'
  BY <1>1, <1>2, <1>4, <1>7 DEF ThreadTypes
<1>9. ThreadsOK'
  BY <1>1, <1>2 DEF ThreadsOK
<1>10. SignalOK'
  <2> SUFFICES ASSUME NEW p \in Object, signaled'[p], WaitNodes'[p] # {}
               PROVE  walk' # NoWalk /\ walk'.object = p
    BY DEF SignalOK
  <2>1. CASE p # o
    BY <1>1, <1>2, <1>5, <1>7, <2>1 DEF SignalOK
  <2>2. CASE p = o
    BY <1>3, <1>4, <1>5, <2>2
  <2> QED BY <2>1, <2>2
<1>11. WalkOK'
  <2> SUFFICES ASSUME walk' # NoWalk
               PROVE  /\ signaled'[walk'.object]
                      /\ \E z : /\ Leads(lists', WaitNodes', walk'.object, walk'.node, z)
                                /\ \A i \in 1 .. Len(z) : state'[z[i][1]] # "Waiting"
    BY DEF WalkOK
  <2>1. walk'.object = o /\ walk'.node = lists'.head[o]
    BY <1>2, <1>4
  <2>2. <<>> \in Seq(Node) /\ Len(<<>>) = 0 /\ 1 .. 0 = {}
    OBVIOUS
  <2>3. Leads(lists', WaitNodes', o, lists'.head[o], <<>>)
    BY <2>2 DEF Leads
  <2> QED BY <1>7, <2>1, <2>2, <2>3
<1>12. TypeOK'
  BY <1>6, <1>8, TypesTogetherNext
<1> QED BY <1>6, <1>9, <1>10, <1>11, <1>12 DEF SyncInv

\* Reset makes fewer objects signaled.
LEMMA ResetKeeps ==
    ASSUME SyncInv, NEW o \in Object, Reset(o)
    PROVE  SyncInv'
<1>1. ThreadTypes /\ ThreadsOK /\ Holds(lists, WaitNodes) /\ SignalOK
  BY TypesApart DEF SyncInv
<1>2. /\ walk = NoWalk /\ signaled' = [signaled EXCEPT ![o] = FALSE]
      /\ UNCHANGED <<lists, walk, objects, state, waitQueue, syncedIndex, waitResult, cancellable, waitCancelled, terminating, timer>>
  BY DEF Reset, SchedulerUnlocked, threadFlags
<1>3. WaitNodes' = WaitNodes
  BY <1>2, WaitNodesKept
<1>4. Holds(lists', WaitNodes')
  BY <1>1, <1>2, <1>3
<1>5. signaled' \in [Object -> BOOLEAN] /\ \A p \in Object : signaled'[p] => signaled[p]
  BY <1>1, <1>2 DEF ThreadTypes
<1>6. ThreadTypes'
  BY <1>1, <1>2, <1>5 DEF ThreadTypes
<1>7. ThreadsOK'
  BY <1>1, <1>2 DEF ThreadsOK
<1>8. SignalOK' /\ WalkOK'
  BY <1>1, <1>2, <1>3, <1>5 DEF SignalOK, WalkOK
<1>9. TypeOK'
  BY <1>4, <1>6, TypesTogetherNext
<1> QED BY <1>4, <1>7, <1>8, <1>9 DEF SyncInv

\* The walk goes on when its node is no longer on the list: what follows it
\* leads to the head again, and at null nobody is left on the list.
LEMMA WalkGoesOn ==
    ASSUME SignalOK, Holds(lists', WaitNodes'), signaled' = signaled,
           \A p \in Object : WaitNodes'[p] \subseteq WaitNodes[p],
           walk.object \in Object, signaled[walk.object],
           walk' = WalkTo(walk.object, lists'.next[walk.node]),
           NEW z, Leads(lists', WaitNodes', walk.object, walk.node, z), Len(z) # 0,
           \A i \in 1 .. Len(z) : state'[z[i][1]] # "Waiting"
    PROVE  SignalOK' /\ WalkOK' /\ walk' \in {NoWalk} \cup [object : Object, node : Node]
<1>o. PICK o \in Object : o = walk.object
  OBVIOUS
<1>n. PICK n : n = lists'.next[walk.node]
  OBVIOUS
<1>1. Leads(lists', WaitNodes', o, walk.node, z)
  BY <1>o
<1>2. /\ n \in Pointer
      /\ n = Nil => WaitNodes'[o] = {}
      /\ \E y : Leads(lists', WaitNodes', o, n, y) /\ NodesOf(y) \subseteq NodesOf(z)
  BY <1>1, <1>n, WayGoesOn
<1>3. walk' = WalkTo(o, n)
  BY <1>n, <1>o
<1>4. /\ walk' \in {NoWalk} \cup [object : Object, node : Node]
      /\ n = Nil => walk' = NoWalk
      /\ n # Nil => walk' # NoWalk /\ walk'.object = o /\ walk'.node = n
  BY <1>2, <1>3, WalkToFacts
<1>5. SignalOK'
  <2> SUFFICES ASSUME NEW p \in Object, signaled'[p], WaitNodes'[p] # {}
               PROVE  walk' # NoWalk /\ walk'.object = p
    BY DEF SignalOK
  <2>1. signaled[p] /\ WaitNodes[p] # {}
    OBVIOUS
  <2>2. p = o
    BY <1>o, <2>1 DEF SignalOK
  <2> QED BY <1>2, <1>4, <2>2
<1>6. WalkOK'
  <2> SUFFICES ASSUME walk' # NoWalk
               PROVE  /\ signaled'[walk'.object]
                      /\ \E y : /\ Leads(lists', WaitNodes', walk'.object, walk'.node, y)
                                /\ \A i \in 1 .. Len(y) : state'[y[i][1]] # "Waiting"
    BY DEF WalkOK
  <2>1. walk'.object = o /\ walk'.node = n
    BY <1>4
  <2>2. PICK y : Leads(lists', WaitNodes', o, n, y) /\ NodesOf(y) \subseteq NodesOf(z)
    BY <1>2
  <2>3. ASSUME NEW i \in 1 .. Len(y) PROVE state'[y[i][1]] # "Waiting"
    <3>1. y[i] \in NodesOf(z)
      BY <2>2 DEF NodesOf
    <3>2. PICK j \in 1 .. Len(z) : y[i] = z[j]
      BY <3>1 DEF NodesOf
    <3> QED BY <3>2
  <2>4. signaled'[o]
    BY <1>o
  <2> QED BY <2>1, <2>2, <2>3, <2>4
<1> QED BY <1>4, <1>5, <1>6

\* A walk that meets a waiting thread is at the head of the list, and the
\* thread waits for the object.
LEMMA WokenFacts ==
    ASSUME SyncInv, walk # NoWalk, state[walk.node[1]] = "Waiting"
    PROVE  /\ walk.node[1] \in Thread /\ waitQueue[walk.node[1]] = "Wait"
           /\ walk.node = lists.head[walk.object] /\ walk.node \in WaitNodes[walk.object]
           /\ walk.node[2] \in DOMAIN objects[walk.node[1]]
           /\ objects[walk.node[1]][walk.node[2]] = walk.object
<1>1. TypeOK /\ Holds(lists, WaitNodes) /\ WalkOK
  BY DEF SyncInv
<1>2. walk.object \in Object /\ walk.node \in Node /\ walk.node # Nil
  BY <1>1, WalkFacts DEF TypeOK
<1>3. PICK z : /\ Leads(lists, WaitNodes, walk.object, walk.node, z)
               /\ \A i \in 1 .. Len(z) : state[z[i][1]] # "Waiting"
  BY <1>1 DEF WalkOK
<1>4. Len(z) = 0
  <2> SUFFICES ASSUME Len(z) # 0 PROVE FALSE
    OBVIOUS
  <2>1. walk.node = z[1] /\ Len(z) \in Nat
    BY <1>3 DEF Leads
  <2>2. \A a \in Nat : a # 0 => 1 \in 1 .. a
    OBVIOUS
  <2>3. 1 \in 1 .. Len(z)
    BY <2>1, <2>2
  <2> QED BY <1>3, <2>1, <2>3
<1>5. walk.node = lists.head[walk.object]
  BY <1>3, <1>4 DEF Leads
<1>6. walk.node \in WaitNodes[walk.object]
  BY <1>1, <1>2, <1>5, HoldsFacts
<1> QED BY <1>1, <1>2, <1>5, <1>6, WaitNodeFacts

\* The index that a woken thread gets is the first one of the object.
LEMMA FirstIndexFacts ==
    ASSUME NEW t, NEW o, objects[t] \in Arguments, NEW k \in DOMAIN objects[t], objects[t][k] = o
    PROVE  /\ FirstIndex(t, o) \in DOMAIN objects[t] /\ FirstIndex(t, o) \in 1 .. MaxObjects
           /\ objects[t][FirstIndex(t, o)] = o
           /\ \A j \in DOMAIN objects[t] : objects[t][j] = o => FirstIndex(t, o) <= j
<1>1. DOMAIN objects[t] = 1 .. Len(objects[t]) /\ Len(objects[t]) \in 0 .. MaxObjects
  BY ArgumentFacts
<1>S. PICK S : S = {i \in DOMAIN objects[t] : objects[t][i] = o}
  OBVIOUS
<1>2. S \in SUBSET Nat /\ S # {}
  BY <1>1, <1>S, MaxObjectsAssumption
<1>3. FirstOf(S) \in S /\ \A j \in S : FirstOf(S) <= j
  BY <1>2, FirstOfIsLeast
<1>4. FirstIndex(t, o) = FirstOf(S)
  BY <1>S DEF FirstIndex
<1>5. DOMAIN objects[t] \subseteq 1 .. MaxObjects
  BY ArgumentFacts
<1> QED BY <1>3, <1>4, <1>5, <1>S

\* One turn of the loop of NotifyAvailable.
LEMMA NotifyNodeKeeps ==
    ASSUME SyncInv, NotifyNode
    PROVE  SyncInv'
<1>1. ThreadTypes /\ ThreadsOK /\ TypeOK /\ Holds(lists, WaitNodes) /\ SignalOK /\ WalkOK
  BY TypesApart DEF SyncInv
<1>2. /\ walk # NoWalk /\ walk' = WalkTo(walk.object, lists'.next[walk.node])
      /\ UNCHANGED <<signaled, objects, waitCancelled, terminating>>
  BY DEF NotifyNode
<1>3. walk.object \in Object /\ walk.node \in Node /\ signaled[walk.object]
  BY <1>1, <1>2, WalkFacts DEF WalkOK, ThreadTypes
<1>t. PICK t : t = walk.node[1]
  OBVIOUS
<1>4. CASE state[t] # "Waiting"
  <2>1. UNCHANGED <<lists, cancellable, syncedIndex, waitResult, state, waitQueue, timer>>
    BY <1>4, <1>t DEF NotifyNode
  <2>2. WaitNodes' = WaitNodes
    BY <1>2, <2>1, WaitNodesKept
  <2>3. Holds(lists', WaitNodes')
    BY <1>1, <2>1, <2>2
  <2>4. PICK z : /\ Leads(lists, WaitNodes, walk.object, walk.node, z)
                 /\ \A i \in 1 .. Len(z) : state[z[i][1]] # "Waiting"
    BY <1>1, <1>2 DEF WalkOK
  <2>5. Len(z) # 0
    <3> SUFFICES ASSUME Len(z) = 0 PROVE FALSE
      OBVIOUS
    <3>1. walk.node = lists.head[walk.object]
      BY <2>4 DEF Leads
    <3>2. walk.node \in WaitNodes[walk.object]
      BY <1>1, <1>3, <3>1, HoldsFacts, ThreadAssumption
    <3>3. t \in Thread /\ waitQueue[t] = "Wait"
      BY <1>1, <1>3, <1>t, <3>2, WaitNodeFacts
    <3> QED BY <1>1, <1>4, <3>3 DEF ThreadsOK
  <2>6. Leads(lists', WaitNodes', walk.object, walk.node, z) /\ \A i \in 1 .. Len(z) : state'[z[i][1]] # "Waiting"
    BY <2>1, <2>2, <2>4
  <2>7. SignalOK' /\ WalkOK' /\ walk' \in {NoWalk} \cup [object : Object, node : Node]
    BY <1>1, <1>2, <1>3, <2>2, <2>3, <2>5, <2>6, WalkGoesOn
  <2>8. ThreadTypes'
    BY <1>1, <1>2, <2>1, <2>7 DEF ThreadTypes
  <2>9. ThreadsOK'
    BY <1>1, <1>2, <2>1 DEF ThreadsOK
  <2>10. TypeOK'
    BY <2>3, <2>8, TypesTogetherNext
  <2> QED BY <2>3, <2>7, <2>9, <2>10 DEF SyncInv
<1>5. CASE state[t] = "Waiting"
  <2>1. EndWait(t, "Success", FirstIndex(t, walk.object)) /\ "Success" \in Results
    BY <1>5, <1>t DEF NotifyNode, Results
  <2>2. /\ t \in Thread /\ waitQueue[t] = "Wait"
        /\ walk.node = lists.head[walk.object]
        /\ walk.node[2] \in DOMAIN objects[t] /\ objects[t][walk.node[2]] = walk.object
    BY <1>2, <1>5, <1>t, WokenFacts
  <2>3. FirstIndex(t, walk.object) \in {-1} \cup (1 .. MaxObjects)
    <3>1. objects[t] \in Arguments
      BY <1>1, <2>2 DEF ThreadTypes
    <3> QED BY <2>2, <3>1, FirstIndexFacts
  <2>4. Holds(lists', WaitNodes') /\ \A o \in Object : WaitNodes'[o] \subseteq WaitNodes[o]
    BY <1>1, <1>2, <1>5, <2>1, <2>2, EndWaitLists
  <2>5. /\ \A n \in WaitNodes'[walk.object] : n[1] # t
        /\ \E z : /\ Leads(lists', WaitNodes', walk.object, lists.head[walk.object], z)
                  /\ \A i \in 1 .. Len(z) : z[i][1] = t
    BY <1>1, <1>2, <1>3, <1>5, <2>1, <2>2, EndWaitLists
  <2>6. PICK z : /\ Leads(lists', WaitNodes', walk.object, walk.node, z)
                 /\ \A i \in 1 .. Len(z) : z[i][1] = t
    BY <2>2, <2>5
  <2>7. Len(z) # 0
    <3> SUFFICES ASSUME Len(z) = 0 PROVE FALSE
      OBVIOUS
    <3>1. walk.node = lists'.head[walk.object]
      BY <2>6 DEF Leads
    <3>2. walk.node \in WaitNodes'[walk.object]
      BY <1>3, <2>4, <3>1, HoldsFacts, ThreadAssumption
    <3> QED BY <1>t, <2>5, <3>2
  <2>8. waitCancelled' \in [Thread -> BOOLEAN] /\ waitCancelled' = waitCancelled
    BY <1>1, <1>2 DEF ThreadTypes
  <2>9. /\ ThreadsOK'
        /\ state' \in [Thread -> {"Runnable", "Waiting"}]
        /\ waitQueue' \in [Thread -> {"none", "Wait", "Sleep"}]
        /\ syncedIndex' \in [Thread -> {-1} \cup (1 .. MaxObjects)]
        /\ waitResult' \in [Thread -> Results]
        /\ cancellable' \in [Thread -> BOOLEAN] /\ timer' \in [Thread -> BOOLEAN]
        /\ state'[t] = "Runnable"
    BY <1>1, <2>1, <2>2, <2>3, <2>8, EndWaitThreads
  <2>10. \A i \in 1 .. Len(z) : state'[z[i][1]] # "Waiting"
    BY <2>6, <2>9
  <2>11. SignalOK' /\ WalkOK' /\ walk' \in {NoWalk} \cup [object : Object, node : Node]
    BY <1>1, <1>2, <1>3, <2>4, <2>6, <2>7, <2>10, WalkGoesOn
  <2>12. ThreadTypes'
    BY <1>1, <1>2, <2>8, <2>9, <2>11 DEF ThreadTypes
  <2>13. TypeOK'
    BY <2>4, <2>12, TypesTogetherNext
  <2> QED BY <2>4, <2>9, <2>11, <2>13 DEF SyncInv
<1> QED BY <1>4, <1>5

\* Every step keeps the invariant.
LEMMA SyncInvNext == SyncInv /\ [Next]_vars => SyncInv'
<1> SUFFICES ASSUME SyncInv, [Next]_vars PROVE SyncInv'
  OBVIOUS
<1>1. ASSUME NEW t \in Thread, NEW objs \in Arguments, NEW timeout \in {"zero", "positive", "infinite"},
             WaitReturns(t, objs, timeout) \/ WaitBlocks(t, objs, timeout)
      PROVE  SyncInv'
  BY <1>1, WaitReturnsKeeps, WaitBlocksKeeps
<1>2. ASSUME NEW t \in Thread,
             Sleep(t) \/ Return(t) \/ OnTimer(t) \/ WaitCancel(t) \/ RequestTerminate(t)
      PROVE  SyncInv'
  BY <1>2, SleepKeeps, ReturnKeeps, OnTimerKeeps, WaitCancelKeeps, RequestTerminateKeeps
<1>3. ASSUME NEW o \in Object, Signal(o) \/ Reset(o) PROVE SyncInv'
  BY <1>3, SignalKeeps, ResetKeeps
<1>4. CASE NotifyNode
  BY <1>4, NotifyNodeKeeps
<1>5. CASE UNCHANGED vars
  <2>1. UNCHANGED <<lists, signaled, walk, objects, state, waitQueue, waitResult, cancellable, waitCancelled, timer>>
    BY <1>5 DEF vars
  <2>2. TypeOK' /\ ThreadsOK'
    BY <1>5 DEF vars, SyncInv, TypeOK, ThreadsOK
  <2>3. WaitNodes' = WaitNodes
    BY <2>1, WaitNodesKept
  <2>4. Holds(lists', WaitNodes')
    BY <2>1, <2>3 DEF SyncInv
  <2>5. SignalOK' /\ WalkOK'
    BY <2>1, <2>3 DEF SyncInv, SignalOK, WalkOK
  <2> QED BY <2>2, <2>4, <2>5 DEF SyncInv
<1> QED BY <1>1, <1>2, <1>3, <1>4, <1>5 DEF Next

\* The invariant holds in every state.
LEMMA SyncInvHolds == Spec => []SyncInv
BY SyncInvInit, SyncInvNext, PTL DEF Spec

\* No signal and no cancellation is missed: while no walk is under way nobody
\* is blocked in Wait for a signaled object, for any number of threads, objects
\* and handles, and whatever the walk of NotifyAvailable finds on its list.
THEOREM NoMissedSignalHolds == Spec => []NoMissedSignal
<1>1. SyncInv => NoMissedSignal
  <2> SUFFICES ASSUME SyncInv, NEW t \in Thread, waitQueue[t] = "Wait"
               PROVE  /\ walk = NoWalk => \A i \in DOMAIN objects[t] : ~signaled[objects[t][i]]
                      /\ ~waitCancelled[t]
    BY DEF NoMissedSignal
  <2>1. TypeOK /\ ThreadsOK /\ SignalOK
    BY DEF SyncInv
  <2>2. ~waitCancelled[t]
    BY <2>1 DEF ThreadsOK
  <2>3. ASSUME walk = NoWalk, NEW i \in DOMAIN objects[t], signaled[objects[t][i]] PROVE FALSE
    <3>1. objects[t] \in Arguments
      BY <2>1 DEF TypeOK
    <3>2. objects[t][i] \in Object
      BY <3>1, ArgumentFacts
    <3>3. <<t, i>> \in WaitNodes[objects[t][i]]
      BY <2>1, <3>2, WaitNodeFacts
    <3> QED BY <2>1, <2>3, <3>2, <3>3 DEF SignalOK
  <2> QED BY <2>2, <2>3
<1> QED BY <1>1, SyncInvHolds, PTL

\* The lists hold exactly the nodes of the threads blocked in Wait, with the
\* tail pointers right, although every way to end a wait takes nodes off them
\* and one does so under the loop that walks them; and no timer outlives its
\* wait.
THEOREM ListsMatchWaitersHolds == Spec => []ListsMatchWaiters
<1>1. SyncInv => ListsMatchWaiters
  <2> SUFFICES ASSUME SyncInv PROVE ListsMatchWaiters
    OBVIOUS
  <2>1. TypeOK /\ ThreadsOK /\ Holds(lists, WaitNodes)
    BY DEF SyncInv
  <2>2. \A o \in Object : WaitNodes[o] = {n \in Node : /\ waitQueue[n[1]] = "Wait"
                                                       /\ n[2] \in DOMAIN objects[n[1]]
                                                       /\ objects[n[1]][n[2]] = o}
    BY DEF WaitNodes
  <2>3. ASSUME NEW o \in Object
        PROVE  /\ IsInjective(Chain(lists, lists.head[o]))
               /\ Range(Chain(lists, lists.head[o])) = WaitNodes[o]
               /\ lists.tail[o] = IF Chain(lists, lists.head[o]) = <<>> THEN Nil ELSE Last(Chain(lists, lists.head[o]))
    BY <2>1, HoldsFacts
  <2>4. \A t \in Thread : timer[t] => state[t] = "Waiting"
    BY <2>1 DEF ThreadsOK
  <2> QED BY <2>1, <2>2, <2>3, <2>4 DEF ListsMatchWaiters
<1> QED BY <1>1, SyncInvHolds, PTL

\* A Wait that returns Success at once names the first signaled handle.
LEMMA ReadyIndex ==
    ASSUME TypeOK, NEW t \in Thread, NEW objs \in Arguments, NEW timeout,
           WaitOutcome(t, objs, timeout).result = "Success",
           NEW index, index = WaitOutcome(t, objs, timeout).index
    PROVE  /\ index \in DOMAIN objs
           /\ signaled[objs[index]]
           /\ \A j \in 1 .. index - 1 : objs[j] # objs[index]
<1>S. PICK ready : ready = {i \in DOMAIN objs : signaled[objs[i]]}
  OBVIOUS
<1>1. WaitOutcome(t, objs, timeout)
        = IF terminating[t] THEN [result |-> "TerminationRequested", index |-> -1]
          ELSE IF ready # {} THEN [result |-> "Success", index |-> FirstOf(ready)]
          ELSE [result |-> IF timeout = "zero" THEN "TimedOut"
                           ELSE IF waitCancelled[t] THEN "Cancelled" ELSE "block", index |-> -1]
  BY <1>S DEF WaitOutcome
<1>2. ready # {} /\ index = FirstOf(ready)
  BY <1>1
<1>3. Len(objs) \in Nat /\ DOMAIN objs = 1 .. Len(objs)
  BY ArgumentFacts, MaxObjectsAssumption
<1>4. ready \in SUBSET Nat
  BY <1>3, <1>S
<1>5. index \in ready /\ \A j \in ready : index <= j
  BY <1>2, <1>4, FirstOfIsLeast
<1>6. index \in DOMAIN objs /\ signaled[objs[index]]
  BY <1>5, <1>S
<1>7. ASSUME NEW j \in 1 .. index - 1, objs[j] = objs[index] PROVE FALSE
  <2>1. j \in DOMAIN objs /\ ~(index <= j)
    BY <1>3, <1>6
  <2>2. j \in ready
    BY <1>6, <1>7, <1>S, <2>1
  <2> QED BY <1>5, <2>1, <2>2
<1> QED BY <1>6, <1>7

\* Success names the first handle of an object that is signaled then.
THEOREM SuccessNamesSignaledObjectHolds == Spec => SuccessNamesSignaledObject
<1> DEFINE Named(t) == /\ syncedIndex'[t] \in DOMAIN objects'[t]
                       /\ signaled'[objects'[t][syncedIndex'[t]]]
                       /\ \A j \in 1 .. syncedIndex'[t] - 1 : objects'[t][j] # objects'[t][syncedIndex'[t]]
           Step == \A t \in Thread : waitResult[t] = "None" /\ waitResult'[t] = "Success" => Named(t)
<1>1. SyncInv /\ [Next]_vars => Step
  <2> SUFFICES ASSUME SyncInv, [Next]_vars, NEW t \in Thread,
                      waitResult[t] = "None", waitResult'[t] = "Success"
               PROVE  Named(t)
    OBVIOUS
  <2>1. ThreadTypes /\ TypeOK /\ WalkOK
    BY TypesApart DEF SyncInv
  <2>2. waitResult' # waitResult
    OBVIOUS
  <2>3. ASSUME NEW u, NEW result, NEW index, EndWait(u, result, index) PROVE u = t /\ result = "Success"
    <3>1. waitResult' = [waitResult EXCEPT ![u] = result]
      BY <2>3 DEF EndWait
    <3> QED BY <2>1, <3>1 DEF ThreadTypes
  <2>4. ASSUME NEW u \in Thread, NEW objs \in Arguments, NEW timeout \in {"zero", "positive", "infinite"},
               WaitReturns(u, objs, timeout)
        PROVE  Named(t)
    <3>i. PICK index : index = WaitOutcome(u, objs, timeout).index
      OBVIOUS
    <3>1. /\ objects' = [objects EXCEPT ![u] = objs]
          /\ syncedIndex' = [syncedIndex EXCEPT ![u] = index]
          /\ waitResult' = [waitResult EXCEPT ![u] = WaitOutcome(u, objs, timeout).result]
          /\ signaled' = signaled
      BY <2>4, <3>i DEF WaitReturns
    <3>2. u = t /\ WaitOutcome(u, objs, timeout).result = "Success"
      BY <2>1, <3>1 DEF ThreadTypes
    <3>3. objects'[t] = objs /\ syncedIndex'[t] = index
      BY <2>1, <3>1, <3>2 DEF ThreadTypes
    <3>4. index \in DOMAIN objs /\ signaled[objs[index]] /\ \A j \in 1 .. index - 1 : objs[j] # objs[index]
      BY <2>1, <3>2, <3>i, ReadyIndex
    <3> QED BY <3>1, <3>3, <3>4
  <2>5. CASE NotifyNode
    <3>n. PICK n, o : n = walk.node /\ o = walk.object
      OBVIOUS
    <3>1. walk # NoWalk /\ UNCHANGED <<signaled, objects>> /\ EndWait(n[1], "Success", FirstIndex(n[1], o)) /\ state[n[1]] = "Waiting"
      BY <2>2, <2>5, <3>n DEF NotifyNode
    <3>2. n[1] = t
      BY <2>3, <3>1
    <3>3. n[2] \in DOMAIN objects[t] /\ objects[t][n[2]] = o
      BY <3>1, <3>2, <3>n, WokenFacts
    <3>4. signaled[o] /\ objects[t] \in Arguments
      BY <2>1, <3>1, <3>n DEF WalkOK, ThreadTypes
    <3>k. PICK k : k = FirstIndex(t, o)
      OBVIOUS
    <3>5. /\ k \in DOMAIN objects[t] /\ k \in 1 .. MaxObjects /\ objects[t][k] = o
          /\ \A j \in DOMAIN objects[t] : objects[t][j] = o => k <= j
      BY <3>3, <3>4, <3>k, FirstIndexFacts
    <3>6. syncedIndex'[t] = k
      BY <2>1, <3>1, <3>2, <3>k DEF EndWait, ThreadTypes
    <3>7. ASSUME NEW j \in 1 .. k - 1, objects[t][j] = o PROVE FALSE
      <4>1. DOMAIN objects[t] = 1 .. Len(objects[t]) /\ Len(objects[t]) \in Nat
        BY <3>4, ArgumentFacts, MaxObjectsAssumption
      <4>2. j \in DOMAIN objects[t] /\ ~(k <= j)
        BY <3>5, <4>1
      <4> QED BY <3>5, <3>7, <4>2
    <3> QED BY <3>1, <3>4, <3>5, <3>6, <3>7
  <2>6. ASSUME NEW u \in Thread, Return(u) PROVE FALSE
    <3>1. waitResult' = [waitResult EXCEPT ![u] = "None"]
      BY <2>6 DEF Return
    <3> QED BY <2>1, <3>1 DEF ThreadTypes
  <2>7. ASSUME NEW u \in Thread, OnTimer(u) \/ WaitCancel(u) \/ RequestTerminate(u) PROVE FALSE
    <3>1. CASE OnTimer(u)
      BY <2>2, <2>3, <3>1 DEF OnTimer
    <3>2. CASE WaitCancel(u)
      BY <2>2, <2>3, <3>2 DEF WaitCancel
    <3>3. CASE RequestTerminate(u)
      BY <2>2, <2>3, <3>3 DEF RequestTerminate
    <3> QED BY <2>7, <3>1, <3>2, <3>3
  <2>8. ASSUME NEW u \in Thread, Sleep(u) PROVE FALSE
    BY <2>2, <2>8 DEF Sleep
  <2>9. ASSUME NEW o \in Object, Signal(o) \/ Reset(o) PROVE FALSE
    BY <2>2, <2>9 DEF Signal, Reset
  <2>10. ASSUME NEW u, NEW objs, NEW timeout, WaitBlocks(u, objs, timeout) PROVE FALSE
    BY <2>2, <2>10 DEF WaitBlocks
  <2>11. ~UNCHANGED vars
    BY <2>2 DEF vars
  <2> HIDE DEF Named
  <2> QED BY <2>4, <2>5, <2>6, <2>7, <2>8, <2>9, <2>10, <2>11 DEF Next
<1>2. SyncInv /\ [Next]_vars => [Step]_vars
  BY <1>1
<1>3. Spec => [][Step]_vars
  BY <1>2, SyncInvHolds, PTL DEF Spec
<1> QED BY <1>3 DEF SuccessNamesSignaledObject

-----------------------------------------------------------------------------
(* KHardwareTimer and CoreTiming: the inductive invariant, part by part *)

\* m_next_task is the first of the tree, whoever holds the scheduler lock.
NextOK == m_next_task = FirstTime(time)

\* EnableInterrupt is under way exactly while the scheduler lock is held, for
\* the first task, and has enabled the interrupt when its last step is left.
ProgrammingOK ==
    /\ lock = "free" <=> programming.step = "none"
    /\ lock # "free" => programming.wakeup = m_next_task /\ m_next_task > 0
    /\ programming.step = "set" => m_wakeup_time = programming.wakeup

\* The interrupt is enabled early enough when nobody is about to do it.
EnabledOK == lock = "free" /\ m_next_task > 0 => m_wakeup_time <= m_next_task

\* An enabled interrupt has a CoreTiming event that early, or its callback is
\* about to run.
WakeupOK ==
    GuestRuns /\ m_wakeup_time # Never =>
        \/ InterruptPending
        \/ \E e \in event_queue : e.type = Callback /\ e.time <= m_wakeup_time

\* The events of the timer are one-shots.
QueueOK == \A e \in event_queue : e.type = Callback => e.period = 0 /\ ~e.active

\* A callback runs in Advance only, and one that goes on after DoTask is the
\* timer's.
RunningOK ==
    /\ timer_thread \notin {"callback", "callback_rest"} => running = NotRunning
    /\ timer_thread = "callback_rest" => running.type = Callback

\* An event that is unscheduled, or is being so, has left the queue.
ServiceOK ==
    service \in {"unscheduled", "waiting", "destroyed"} => \A e \in event_queue : e.type # Looping

TimerInv ==
    /\ TimerTypeOK /\ NextOK /\ ProgrammingOK /\ EnabledOK /\ WakeupOK
    /\ QueueOK /\ RunningOK /\ ServiceOK
    /\ UnscheduledStaysQuiet /\ RescheduledEventIsQueued

-----------------------------------------------------------------------------
(* Facts about the operators *)

USE MaxTimeAssumption, PeriodAssumption, SleepsAssumption, TypesAssumption, NoTypeAssumption

\* A set of numbers that is not empty has a smallest element.
LEMMA Minimum ==
    ASSUME NEW S \in SUBSET Nat, S # {}
    PROVE  \E x \in S : \A y \in S : x <= y
<1>1. PICK x \in S : \A y \in S : ~(<<y, x>> \in OpToRel(<, Nat))
  BY NatLessThanWellFounded, WFMin
<1>2. \A y \in S : ~(y < x)
  BY <1>1 DEF OpToRel
<1> QED BY <1>2

\* The first task of m_task_tree is the earliest: 0 for an empty tree.
LEMMA FirstTimeFacts ==
    ASSUME NEW f \in [Task -> 0 .. MaxTime]
    PROVE  /\ FirstTime(f) \in 0 .. MaxTime
           /\ FirstTime(f) = 0 <=> \A t \in Task : f[t] = 0
           /\ \A t \in Task : f[t] > 0 => FirstTime(f) <= f[t]
           /\ FirstTime(f) > 0 => \E t \in Task : f[t] = FirstTime(f)
           /\ FirstTime(f) = 0 <=> Tree(f) = {}
<1>1. CASE Tree(f) = {}
  BY <1>1 DEF FirstTime, Tree
<1>2. CASE Tree(f) # {}
  <2> DEFINE S == {f[t] : t \in Tree(f)}
             First(s) == \A t \in Tree(f) : s <= f[t]
  <2>1. S \in SUBSET Nat /\ S # {}
    BY <1>2 DEF Tree
  <2>2. PICK x \in S : \A y \in S : x <= y
    BY <2>1, Minimum
  <2>3. First(x)
    BY <2>2
  <2>4. FirstTime(f) = CHOOSE s \in S : First(s)
    BY <1>2 DEF FirstTime
  <2>5. FirstTime(f) \in S /\ First(FirstTime(f))
    BY <2>3, <2>4
  <2>6. PICK t \in Tree(f) : FirstTime(f) = f[t]
    BY <2>5
  <2> QED BY <1>2, <2>5, <2>6 DEF Tree
<1> QED BY <1>1, <1>2

\* What is as early as every task of the tree, and the time of one, is the first.
LEMMA FirstTimeIs ==
    ASSUME NEW f \in [Task -> 0 .. MaxTime], NEW s \in Task,
           f[s] > 0, \A t \in Task : f[t] > 0 => f[s] <= f[t]
    PROVE  FirstTime(f) = f[s]
<1>1. FirstTime(f) \in 0 .. MaxTime /\ FirstTime(f) > 0
  BY FirstTimeFacts
<1>2. PICK t \in Task : f[t] = FirstTime(f)
  BY <1>1, FirstTimeFacts
<1>3. FirstTime(f) <= f[s]
  BY FirstTimeFacts
<1>4. f[s] <= FirstTime(f)
  BY <1>1, <1>2
<1> QED BY <1>1, <1>3, <1>4

\* Advance, when a callback has returned, moves the looping event it was run
\* for, if anything: the types queued stay, and the timer's events as they are.
LEMMA QueueAfterCallbackFacts ==
    ASSUME TimerInv
    PROVE  /\ QueueAfterCallback \subseteq
                [type : EventType, time : 0 .. Never, period : {0, Period}, active : BOOLEAN]
           /\ \A e \in QueueAfterCallback : \E f \in event_queue : f.type = e.type
           /\ \A e \in QueueAfterCallback : e.type = Callback => e \in event_queue
           /\ \A e \in event_queue : e.type = Callback => e \in QueueAfterCallback
<1> USE DEF TimerInv, TimerTypeOK, QueueOK
<1> DEFINE moved(e) == IF e.active THEN [e EXCEPT !.time = NextScheduleTime(e), !.active = FALSE] ELSE e
<1>1. ASSUME NEW e \in event_queue
      PROVE  /\ moved(e) \in [type : EventType, time : 0 .. Never, period : {0, Period}, active : BOOLEAN]
             /\ moved(e).type = e.type
             /\ e.type = Callback => moved(e) = e
  <2>1. NextScheduleTime(e) \in 0 .. Never
    BY DEF NextScheduleTime, Never
  <2> QED BY <2>1
<1>2. Rescheduled = {moved(e) : e \in event_queue}
  BY DEF Rescheduled
<1>3. CASE running.looping /\ ~running.changed
  <2>1. QueueAfterCallback = {moved(e) : e \in event_queue}
    BY <1>2, <1>3 DEF QueueAfterCallback
  <2>2. \A e \in QueueAfterCallback : \E f \in event_queue : e = moved(f)
    BY <2>1
  <2>3. \A e \in event_queue : moved(e) \in QueueAfterCallback
    BY <2>1
  <2> HIDE DEF moved
  <2> QED BY <1>1, <2>2, <2>3
<1>4. CASE ~(running.looping /\ ~running.changed)
  BY <1>4 DEF QueueAfterCallback
<1> QED BY <1>3, <1>4

-----------------------------------------------------------------------------
(* The steps *)

\* A step that leaves the queue, the callback and the hardware timer alone
\* keeps the invariant, if it does not move the timer thread to a callback.
LEMMA QuietStep ==
    ASSUME TimerInv, TimerTypeOK',
           UNCHANGED <<event_queue, running, time, m_next_task, m_wakeup_time, lock, programming>>,
           UNCHANGED service,
           GuestRuns' => GuestRuns,
           timer_thread' = timer_thread \/ {timer_thread, timer_thread'} \cap {"callback", "callback_rest"} = {}
    PROVE  TimerInv'
<1> USE DEF TimerInv
<1>1. NextOK'
  BY DEF NextOK
<1>2. ProgrammingOK' /\ EnabledOK'
  BY DEF ProgrammingOK, EnabledOK
<1>3. WakeupOK'
  BY DEF WakeupOK, InterruptPending
<1>4. QueueOK' /\ RunningOK' /\ ServiceOK'
  BY DEF QueueOK, RunningOK, ServiceOK
<1>5. UnscheduledStaysQuiet' /\ RescheduledEventIsQueued'
  BY DEF UnscheduledStaysQuiet, RescheduledEventIsQueued
<1> QED BY <1>1, <1>2, <1>3, <1>4, <1>5

\* The clock, and the thread that pauses and resets CoreTiming.
LEMMA ControlStep ==
    ASSUME TimerInv,
           \/ Timing(Tick) \/ Timing(SyncPause) \/ Timing(TimingReset)
           \/ \E p \in BOOLEAN : Timing(SyncPauseBegin(p))
    PROVE  TimerInv'
<1> USE DEF Timing, timerVars, queueVars, signalVars, pauseVars, threadVars, controlVars
<1>1. ASSUME Timing(Tick) PROVE TimerInv'
  <2>1. TimerTypeOK'
    BY <1>1 DEF TimerInv, TimerTypeOK, Tick
  <2> QED BY <1>1, <2>1, QuietStep DEF Tick, GuestRuns
<1>2. ASSUME Timing(SyncPause) PROVE TimerInv'
  <2>1. TimerTypeOK'
    <3>1. CASE SyncPauseEvent
      BY <1>2, <3>1 DEF TimerInv, TimerTypeOK, SyncPauseEvent
    <3>2. CASE SyncPauseEndTime
      BY <1>2, <3>2 DEF TimerInv, TimerTypeOK, SyncPauseEndTime
    <3>3. CASE SyncPauseKick
      BY <1>2, <3>3 DEF TimerInv, TimerTypeOK, SyncPauseKick, KickEvent
    <3>4. CASE SyncPauseReturn
      BY <1>2, <3>4 DEF TimerInv, TimerTypeOK, SyncPauseReturn
    <3> QED BY <1>2, <3>1, <3>2, <3>3, <3>4 DEF SyncPause
  <2> QED BY <1>2, <2>1, QuietStep DEF SyncPause, SyncPauseEvent, SyncPauseEndTime, SyncPauseKick,
             SyncPauseReturn, GuestRuns
<1>3. ASSUME Timing(TimingReset) PROVE TimerInv'
  <2>1. TimerTypeOK'
    <3>1. CASE ResetPause
      BY <1>3, <3>1 DEF TimerInv, TimerTypeOK, ResetPause
    <3>2. CASE ResetPauseEvent
      BY <1>3, <3>2 DEF TimerInv, TimerTypeOK, ResetPauseEvent
    <3>3. CASE ResetEvent
      BY <1>3, <3>3 DEF TimerInv, TimerTypeOK, ResetEvent
    <3>4. CASE ResetRequestStop
      BY <1>3, <3>4 DEF TimerInv, TimerTypeOK, ResetRequestStop
    <3>5. CASE ResetJoin
      BY <1>3, <3>5 DEF TimerInv, TimerTypeOK, ResetJoin
    <3> QED BY <1>3, <3>1, <3>2, <3>3, <3>4, <3>5 DEF TimingReset
  <2> QED BY <1>3, <2>1, QuietStep DEF TimingReset, ResetPause, ResetPauseEvent, ResetEvent,
             ResetRequestStop, ResetJoin, GuestRuns
<1>4. ASSUME NEW p \in BOOLEAN, Timing(SyncPauseBegin(p)) PROVE TimerInv'
  <2>1. TimerTypeOK'
    BY <1>4 DEF TimerInv, TimerTypeOK, SyncPauseBegin
  <2> QED BY <1>4, <2>1, QuietStep DEF SyncPauseBegin, GuestRuns
<1> QED BY <1>1, <1>2, <1>3, <1>4

\* The timer thread outside its callbacks, up to the next one.
LEMMA TimerThreadStep ==
    ASSUME TimerInv, Timing(TimerThread(Owned)), ~AdvanceCallback(Owned)
    PROVE  TimerInv'
<1> USE DEF Timing, timerVars, queueVars, signalVars, pauseVars, threadVars, controlVars
<1>1. CASE OuterTest \/ InnerTest \/ AdvanceBegin \/ PausedSet \/ PauseWaitEnds
  <2>1. TimerTypeOK'
    <3>1. CASE OuterTest
      BY <3>1 DEF TimerInv, TimerTypeOK, OuterTest
    <3>2. CASE InnerTest
      BY <3>2 DEF TimerInv, TimerTypeOK, InnerTest
    <3>3. CASE AdvanceBegin
      <4>1. paused_set' \in BOOLEAN
        BY <3>3 DEF AdvanceBegin
      <4> QED BY <3>3, <4>1 DEF TimerInv, TimerTypeOK, AdvanceBegin
    <3>4. CASE PausedSet
      BY <3>4 DEF TimerInv, TimerTypeOK, PausedSet
    <3>5. CASE PauseWaitEnds
      <4>1. pause_event' \in BOOLEAN
        BY <3>5 DEF PauseWaitEnds
      <4> QED BY <3>5, <4>1 DEF TimerInv, TimerTypeOK, PauseWaitEnds
    <3> QED BY <1>1, <3>1, <3>2, <3>3, <3>4, <3>5
  <2> QED BY <1>1, <2>1, QuietStep DEF OuterTest, InnerTest, AdvanceBegin, PausedSet, PauseWaitEnds,
             GuestRuns
<1>2. CASE AdvanceEnd
  <2>1. TimerTypeOK'
    <3>1. wait_until' \in 0 .. Never
      BY <1>2 DEF TimerInv, TimerTypeOK, AdvanceEnd, IsTop, Never
    <3> QED BY <1>2, <3>1 DEF TimerInv, TimerTypeOK, AdvanceEnd
  <2> QED BY <1>2, <2>1, QuietStep DEF AdvanceEnd, GuestRuns
<1>3. CASE WaitEnds
  <2>1. TimerTypeOK'
    <3>1. event' \in BOOLEAN
      BY <1>3 DEF TimerInv, TimerTypeOK, WaitEnds
    <3>2. wait_until' \in 0 .. Never
      BY <1>3 DEF WaitEnds, Never
    <3> QED BY <1>3, <3>1, <3>2 DEF TimerInv, TimerTypeOK, WaitEnds
  <2> QED BY <1>3, <2>1, QuietStep DEF WaitEnds, GuestRuns
<1> QED BY <1>1, <1>2, <1>3 DEF TimerThread

\* Advance runs the callback of a due event: the timer's is popped, and DoTask
\* is pending instead; a looping one stays in the heap.
LEMMA AdvanceCallbackStep ==
    ASSUME TimerInv, Timing(AdvanceCallback(Owned))
    PROVE  TimerInv'
<1> USE DEF Timing, timerVars, queueVars, signalVars, pauseVars, controlVars, AdvanceCallback
<1>1. PICK e \in event_queue :
        /\ event_queue' = (event_queue \ {e}) \cup
                          (IF e.period = 0 THEN {} ELSE {[e EXCEPT !.active = TRUE]})
        /\ running' = [type |-> e.type, looping |-> e.period # 0, changed |-> FALSE]
  OBVIOUS
<1>2. e \in [type : EventType, time : 0 .. Never, period : {0, Period}, active : BOOLEAN]
  BY DEF TimerInv, TimerTypeOK
<1>3. [e EXCEPT !.active = TRUE] \in
        [type : EventType, time : 0 .. Never, period : {0, Period}, active : BOOLEAN]
  BY <1>2
<1>4. TimerTypeOK'
  <2>1. running' \in [type : EventType \cup {NoType}, looping : BOOLEAN, changed : BOOLEAN]
    BY <1>1, <1>2
  <2>2. event_queue' \subseteq
          [type : EventType, time : 0 .. Never, period : {0, Period}, active : BOOLEAN]
    BY <1>1, <1>2, <1>3 DEF TimerInv, TimerTypeOK
  <2> QED BY <2>1, <2>2 DEF TimerInv, TimerTypeOK
<1>5. NextOK' /\ ProgrammingOK' /\ EnabledOK'
  BY DEF TimerInv, NextOK, ProgrammingOK, EnabledOK
<1>6. WakeupOK'
  <2>1. CASE e.type = Callback
    BY <1>1, <1>2, <2>1 DEF TimerInv, WakeupOK, InterruptPending
  <2>2. CASE e.type # Callback
    BY <1>1, <1>2, <2>2 DEF TimerInv, WakeupOK, InterruptPending, GuestRuns
  <2> QED BY <2>1, <2>2
<1>7. QueueOK'
  BY <1>1, <1>2, <1>3 DEF TimerInv, QueueOK
<1>8. RunningOK'
  BY DEF RunningOK
<1>9. ServiceOK' /\ UnscheduledStaysQuiet'
  BY <1>1, <1>2 DEF TimerInv, ServiceOK, UnscheduledStaysQuiet
<1>10. RescheduledEventIsQueued'
  <2>1. CASE e.period = 0
    BY <1>1, <2>1 DEF RescheduledEventIsQueued
  <2>2. CASE e.period # 0
    <3>1. [e EXCEPT !.active = TRUE] \in event_queue'
      BY <1>1, <2>2
    <3>2. [e EXCEPT !.active = TRUE].active /\ [e EXCEPT !.active = TRUE].type = running'.type
      BY <1>1, <1>2
    <3> QED BY <3>1, <3>2 DEF RescheduledEventIsQueued
  <2> QED BY <2>1, <2>2
<1> QED BY <1>4, <1>5, <1>6, <1>7, <1>8, <1>9, <1>10 DEF TimerInv

\* A callback returns to Advance.
LEMMA CallbackReturnStep ==
    ASSUME TimerInv, DoTaskIgnored \/ DoTaskReturn \/ LoopingCallback
    PROVE  TimerInv'
<1> USE DEF DoTaskIgnored, DoTaskReturn, LoopingCallback, CallbackReturn, timerVars, signalVars,
    pauseVars, controlVars
<1>1. event_queue' = QueueAfterCallback
  OBVIOUS
<1>2. ~InterruptPending \/ m_wakeup_time = Never
  BY DEF InterruptPending
<1>3. TimerTypeOK'
  <2>1. running' \in [type : EventType \cup {NoType}, looping : BOOLEAN, changed : BOOLEAN]
    <3>1. running' = [type |-> NoType, looping |-> FALSE, changed |-> FALSE]
      BY DEF NotRunning
    <3>2. FALSE \in BOOLEAN /\ NoType \in EventType \cup {NoType}
      OBVIOUS
    <3> QED BY <3>1, <3>2
  <2>2. event_queue' \subseteq
          [type : EventType, time : 0 .. Never, period : {0, Period}, active : BOOLEAN]
    BY <1>1, QueueAfterCallbackFacts
  <2> QED BY <2>1, <2>2 DEF TimerInv, TimerTypeOK
<1>4. NextOK' /\ ProgrammingOK' /\ EnabledOK'
  BY DEF TimerInv, NextOK, ProgrammingOK, EnabledOK
<1>5. WakeupOK'
  BY <1>1, <1>2, QueueAfterCallbackFacts DEF TimerInv, WakeupOK, GuestRuns
<1>6. QueueOK' /\ ServiceOK'
  BY <1>1, QueueAfterCallbackFacts DEF TimerInv, QueueOK, ServiceOK
<1>7. RunningOK' /\ RescheduledEventIsQueued'
  BY DEF RunningOK, RescheduledEventIsQueued, NotRunning
<1>8. UnscheduledStaysQuiet'
  BY <1>6 DEF ServiceOK, UnscheduledStaysQuiet, NotRunning
<1> QED BY <1>3, <1>4, <1>5, <1>6, <1>7, <1>8 DEF TimerInv

\* EnableInterrupt, one call of CoreTiming after the other.
LEMMA EnableDisableStep ==
    ASSUME TimerInv, EnableDisable
    PROVE  TimerInv'
<1> USE DEF EnableDisable, Unschedule, Unscheduled, signalVars, pauseVars, threadVars, controlVars
<1>1. /\ running' \in [type : EventType \cup {NoType}, looping : BOOLEAN, changed : BOOLEAN]
      /\ running'.type = running.type /\ running'.looping = running.looping
      /\ running'.changed = (running.changed \/ running.type = Callback)
      /\ running = NotRunning => running' = NotRunning
  <2>1. running \in [type : EventType \cup {NoType}, looping : BOOLEAN, changed : BOOLEAN]
    BY DEF TimerInv, TimerTypeOK
  <2>2. CASE running.type = Callback
    <3>1. running' = [running EXCEPT !.changed = TRUE]
      BY <2>2 DEF SequenceNumberBumped
    <3>2. running # NotRunning
      BY <2>2 DEF NotRunning
    <3> QED BY <2>1, <2>2, <3>1, <3>2
  <2>3. CASE running.type # Callback
    BY <2>1, <2>3 DEF SequenceNumberBumped
  <2> QED BY <2>2, <2>3
<1>2. programming' = [step |-> "schedule", wakeup |-> programming.wakeup]
  BY DEF TimerInv, TimerTypeOK
<1>3. TimerTypeOK'
  BY <1>1, <1>2 DEF TimerInv, TimerTypeOK, Never
<1>4. NextOK' /\ ProgrammingOK' /\ EnabledOK'
  BY <1>2 DEF TimerInv, NextOK, ProgrammingOK, EnabledOK
<1>5. WakeupOK' /\ QueueOK' /\ ServiceOK'
  BY DEF TimerInv, WakeupOK, QueueOK, ServiceOK
<1>6. RunningOK' /\ UnscheduledStaysQuiet'
  BY <1>1 DEF TimerInv, RunningOK, UnscheduledStaysQuiet
<1>7. RescheduledEventIsQueued'
  BY <1>1 DEF TimerInv, RescheduledEventIsQueued
<1> QED BY <1>3, <1>4, <1>5, <1>6, <1>7 DEF TimerInv

\* EnableInterrupt puts the callback event into the queue of CoreTiming.
LEMMA EnableScheduleStep ==
    ASSUME TimerInv, EnableSchedule
    PROVE  TimerInv'
<1> USE DEF EnableSchedule, Schedule, signalVars, pauseVars, threadVars, controlVars
<1>1. programming' = [step |-> "set", wakeup |-> programming.wakeup]
  BY DEF TimerInv, TimerTypeOK
<1>2. programming.wakeup \in 1 .. MaxTime /\ programming.wakeup = m_next_task /\ lock # "free"
  BY DEF TimerInv, TimerTypeOK, ProgrammingOK
<1>3. PICK e \in [type : EventType, time : 0 .. Never, period : {0, Period}, active : BOOLEAN] :
        /\ event_queue' = event_queue \cup {e}
        /\ e.type = Callback /\ e.time = programming.wakeup /\ e.period = 0 /\ ~e.active
  <2>1. [type |-> Callback, time |-> programming.wakeup, period |-> 0, active |-> FALSE] \in
          [type : EventType, time : 0 .. Never, period : {0, Period}, active : BOOLEAN]
    BY <1>2 DEF Never
  <2> QED BY <2>1 DEF Entry
<1>4. TimerTypeOK'
  BY <1>1, <1>2, <1>3 DEF TimerInv, TimerTypeOK, Never
<1>5. NextOK' /\ ProgrammingOK' /\ EnabledOK'
  BY <1>1, <1>2 DEF TimerInv, NextOK, ProgrammingOK, EnabledOK
<1>6. WakeupOK'
  BY <1>2, <1>3 DEF WakeupOK
<1>7. QueueOK' /\ ServiceOK' /\ RunningOK'
  BY <1>3 DEF TimerInv, QueueOK, ServiceOK, RunningOK
<1>8. UnscheduledStaysQuiet' /\ RescheduledEventIsQueued'
  BY <1>3 DEF TimerInv, UnscheduledStaysQuiet, RescheduledEventIsQueued
<1> QED BY <1>4, <1>5, <1>6, <1>7, <1>8 DEF TimerInv

\* The timer thread is woken, and the scheduler lock is released.
LEMMA EnableSetStep ==
    ASSUME TimerInv, EnableSet
    PROVE  TimerInv'
<1> USE DEF EnableSet, EventSet, queueVars, pauseVars, threadVars, controlVars
<1>1. TimerTypeOK'
  BY DEF TimerInv, TimerTypeOK, Idle
<1>2. NextOK' /\ ProgrammingOK' /\ EnabledOK'
  BY DEF TimerInv, TimerTypeOK, NextOK, ProgrammingOK, EnabledOK, Idle
<1>3. WakeupOK' /\ QueueOK' /\ ServiceOK'
  BY DEF TimerInv, WakeupOK, InterruptPending, GuestRuns, QueueOK, ServiceOK
<1>4. RunningOK' /\ UnscheduledStaysQuiet' /\ RescheduledEventIsQueued'
  BY DEF TimerInv, RunningOK, UnscheduledStaysQuiet, RescheduledEventIsQueued
<1> QED BY <1>1, <1>2, <1>3, <1>4 DEF TimerInv

-----------------------------------------------------------------------------
\* What depends on CoreTiming only, for a step that changes the hardware timer
\* alone.
LEMMA TimingUnchanged ==
    ASSUME TimerInv, UNCHANGED <<event_queue, running, timer_thread, control, service>>
    PROVE  /\ QueueOK' /\ RunningOK' /\ ServiceOK'
           /\ UnscheduledStaysQuiet' /\ RescheduledEventIsQueued'
BY DEF TimerInv, QueueOK, RunningOK, ServiceOK, UnscheduledStaysQuiet, RescheduledEventIsQueued

\* RegisterAbsoluteTask: a new first task is programmed, unless something as
\* early is.
LEMMA RegisterStep ==
    ASSUME TimerInv, NEW t \in Task, NEW s \in 1 .. MaxTime, RegisterAbsoluteTask(t, s)
    PROVE  TimerInv'
<1> USE DEF RegisterAbsoluteTask, timingVars, queueVars, signalVars, pauseVars, threadVars,
    controlVars
<1>1. time \in [Task -> 0 .. MaxTime] /\ time' \in [Task -> 0 .. MaxTime]
  BY DEF TimerInv, TimerTypeOK
<1>2. m_next_task' = FirstTime(time')
  <2>1. m_next_task = FirstTime(time) /\ m_next_task \in 0 .. MaxTime
    BY <1>1, FirstTimeFacts DEF TimerInv, NextOK
  <2>2. CASE m_next_task # 0 /\ m_next_task <= s
    <3>1. PICK u \in Task : time[u] = m_next_task
      BY <1>1, <2>1, <2>2, FirstTimeFacts
    <3>2. time'[u] = m_next_task
      BY <1>1, <2>2, <3>1
    <3>3. \A w \in Task : time'[w] > 0 => time'[u] <= time'[w]
      BY <1>1, <2>1, <2>2, <3>2, FirstTimeFacts
    <3>4. time'[u] > 0
      BY <2>1, <2>2, <3>2
    <3>5. FirstTime(time') = time'[u]
      <4> HIDE DEF RegisterAbsoluteTask
      <4> QED BY <1>1, <3>3, <3>4, FirstTimeIs
    <3> QED BY <2>2, <3>2, <3>5
  <2>3. CASE ~(m_next_task # 0 /\ m_next_task <= s)
    <3>1. time'[t] = s
      BY <1>1
    <3>2. \A w \in Task : time'[w] > 0 => s <= time'[w]
      BY <1>1, <2>1, <2>3, FirstTimeFacts
    <3>3. FirstTime(time') = time'[t]
      <4> HIDE DEF RegisterAbsoluteTask
      <4> QED BY <1>1, <3>1, <3>2, FirstTimeIs
    <3> QED BY <2>3, <3>1, <3>3
  <2> QED BY <2>2, <2>3
<1>3. TimerTypeOK'
  BY <1>1 DEF TimerInv, TimerTypeOK
<1>4. ProgrammingOK'
  BY DEF TimerInv, TimerTypeOK, ProgrammingOK, MustProgram
<1>5. EnabledOK'
  BY DEF TimerInv, TimerTypeOK, ProgrammingOK, EnabledOK, MustProgram, Never
<1>6. WakeupOK'
  BY DEF TimerInv, WakeupOK, InterruptPending, GuestRuns
<1> QED BY <1>2, <1>3, <1>4, <1>5, <1>6, TimingUnchanged DEF TimerInv, NextOK

\* CancelTask: the successor of the task is next, and what is programmed is
\* early enough for it.
LEMMA CancelStep ==
    ASSUME TimerInv, NEW t \in Task, CancelTask(t)
    PROVE  TimerInv'
<1> USE DEF CancelTask, timingVars, queueVars, signalVars, pauseVars, threadVars, controlVars
<1>1. time \in [Task -> 0 .. MaxTime] /\ time' \in [Task -> 0 .. MaxTime]
  BY DEF TimerInv, TimerTypeOK
<1>2. m_next_task = FirstTime(time) /\ m_next_task \in 1 .. MaxTime
  <2>1. m_next_task = FirstTime(time)
    BY DEF TimerInv, NextOK
  <2>2. FirstTime(time) \in 0 .. MaxTime /\ FirstTime(time) # 0
    BY <1>1, FirstTimeFacts
  <2> QED BY <2>1, <2>2
<1>3. /\ m_next_task' = FirstTime(time') /\ m_next_task' \in 0 .. MaxTime
      /\ m_next_task' # 0 => m_next_task <= m_next_task'
  <2>1. CASE m_next_task = time[t]
    <3>1. m_next_task' = FirstTime(time') /\ m_next_task' \in 0 .. MaxTime
      BY <1>1, <2>1, FirstTimeFacts DEF NextTaskAfter
    <3>2. ASSUME m_next_task' # 0 PROVE m_next_task <= m_next_task'
      <4>1. PICK u \in Task : time'[u] = m_next_task'
        <5> HIDE DEF CancelTask
        <5> QED BY <1>1, <3>1, <3>2, FirstTimeFacts
      <4>2. time[u] = m_next_task' /\ time[u] > 0
        BY <1>1, <3>1, <3>2, <4>1
      <4> QED BY <1>1, <1>2, <4>2, FirstTimeFacts
    <3> QED BY <3>1, <3>2
  <2>2. CASE m_next_task # time[t]
    <3>1. m_next_task' = m_next_task
      BY <2>2 DEF NextTaskAfter
    <3>2. PICK u \in Task : time[u] = m_next_task
      BY <1>1, <1>2, FirstTimeFacts
    <3>3. time'[u] = m_next_task
      BY <1>1, <2>2, <3>2
    <3>4. \A w \in Task : time'[w] > 0 => time'[u] <= time'[w]
      BY <1>1, <1>2, <3>3, FirstTimeFacts
    <3>5. FirstTime(time') = time'[u]
      <4> HIDE DEF CancelTask
      <4> QED BY <1>1, <1>2, <3>3, <3>4, FirstTimeIs
    <3> QED BY <1>2, <3>1, <3>3, <3>5
  <2> QED BY <2>1, <2>2
<1>4. TimerTypeOK'
  BY <1>1, <1>3 DEF TimerInv, TimerTypeOK
<1>5. ProgrammingOK'
  BY DEF TimerInv, TimerTypeOK, ProgrammingOK
<1>6. EnabledOK'
  BY <1>2, <1>3 DEF TimerInv, TimerTypeOK, EnabledOK, Never
<1>7. WakeupOK'
  BY DEF TimerInv, WakeupOK, InterruptPending, GuestRuns
<1> QED BY <1>3, <1>4, <1>5, <1>6, <1>7, TimingUnchanged DEF TimerInv, NextOK

\* DoTask: OnTimer for the tasks that are due, and the timer is programmed for
\* the first of the others.
LEMMA DoTaskStep ==
    ASSUME TimerInv, DoTask
    PROVE  TimerInv'
<1> USE DEF DoTask, queueVars, signalVars, pauseVars, controlVars
<1>1. time' \in [Task -> 0 .. MaxTime]
  BY DEF TimerInv, TimerTypeOK, TasksLeft
<1>2. m_next_task' = FirstTime(time') /\ m_next_task' \in 0 .. MaxTime
  BY <1>1, FirstTimeFacts
<1>3. TimerTypeOK'
  BY <1>1, <1>2 DEF TimerInv, TimerTypeOK, Never, HasNextTime
<1>4. ProgrammingOK'
  BY <1>2 DEF TimerInv, TimerTypeOK, ProgrammingOK, HasNextTime
<1>5. EnabledOK' /\ WakeupOK'
  BY <1>2 DEF EnabledOK, WakeupOK, HasNextTime
<1>6. QueueOK' /\ RunningOK' /\ ServiceOK'
  BY DEF TimerInv, QueueOK, RunningOK, ServiceOK
<1>7. UnscheduledStaysQuiet' /\ RescheduledEventIsQueued'
  BY DEF TimerInv, UnscheduledStaysQuiet, RescheduledEventIsQueued
<1> QED BY <1>2, <1>3, <1>4, <1>5, <1>6, <1>7 DEF TimerInv, NextOK

-----------------------------------------------------------------------------
\* What depends on the hardware timer only.
LEMMA TimerUnchanged ==
    ASSUME TimerInv, UNCHANGED timerVars
    PROVE  NextOK' /\ ProgrammingOK' /\ EnabledOK'
BY DEF TimerInv, timerVars, NextOK, ProgrammingOK, EnabledOK

\* ScheduleLoopingEvent of the service.
LEMMA ServiceScheduleStep ==
    ASSUME TimerInv, ServiceSchedule
    PROVE  TimerInv'
<1> USE DEF ServiceSchedule, pauseVars, threadVars, controlVars
<1>1. PICK e \in [type : EventType, time : 0 .. Never, period : {0, Period}, active : BOOLEAN] :
        event_queue' = event_queue \cup {e} /\ e.type = Looping
  <2>1. [type |-> Looping, time |-> now, period |-> Period, active |-> FALSE] \in
          [type : EventType, time : 0 .. Never, period : {0, Period}, active : BOOLEAN]
    BY DEF TimerInv, TimerTypeOK, Never
  <2> QED BY <2>1 DEF Entry
<1>2. TimerTypeOK'
  BY <1>1 DEF TimerInv, TimerTypeOK, timerVars
<1>3. WakeupOK' /\ QueueOK'
  BY <1>1 DEF TimerInv, WakeupOK, InterruptPending, GuestRuns, QueueOK, timerVars
<1>4. RunningOK' /\ ServiceOK' /\ UnscheduledStaysQuiet'
  BY DEF TimerInv, RunningOK, ServiceOK, UnscheduledStaysQuiet
<1>5. RescheduledEventIsQueued'
  BY <1>1 DEF TimerInv, RescheduledEventIsQueued
<1> QED BY <1>2, <1>3, <1>4, <1>5, TimerUnchanged DEF TimerInv

\* UnscheduleEvent with Wait of the service, under basic_lock.
LEMMA ServiceUnscheduleStep ==
    ASSUME TimerInv, ServiceUnschedule
    PROVE  TimerInv'
<1> USE DEF ServiceUnschedule, Unschedule, Unscheduled, signalVars, pauseVars, threadVars,
    controlVars
<1>1. /\ running' \in [type : EventType \cup {NoType}, looping : BOOLEAN, changed : BOOLEAN]
      /\ running'.type = running.type /\ running'.looping = running.looping
      /\ running'.changed = (running.changed \/ running.type = Looping)
      /\ running = NotRunning => running' = NotRunning
  <2>1. running \in [type : EventType \cup {NoType}, looping : BOOLEAN, changed : BOOLEAN]
    BY DEF TimerInv, TimerTypeOK
  <2>2. CASE running.type = Looping
    <3>1. running' = [running EXCEPT !.changed = TRUE]
      BY <2>2 DEF SequenceNumberBumped
    <3>2. running # NotRunning
      BY <2>2 DEF NotRunning
    <3> QED BY <2>1, <2>2, <3>1, <3>2
  <2>3. CASE running.type # Looping
    BY <2>1, <2>3 DEF SequenceNumberBumped
  <2> QED BY <2>2, <2>3
<1>2. TimerTypeOK'
  BY <1>1 DEF TimerInv, TimerTypeOK, timerVars
<1>3. WakeupOK' /\ QueueOK' /\ ServiceOK'
  BY <1>1 DEF TimerInv, WakeupOK, InterruptPending, GuestRuns, QueueOK, ServiceOK, timerVars
<1>4. RunningOK' /\ UnscheduledStaysQuiet'
  BY <1>1 DEF TimerInv, RunningOK, UnscheduledStaysQuiet
<1>5. RescheduledEventIsQueued'
  BY <1>1 DEF TimerInv, RescheduledEventIsQueued
<1> QED BY <1>2, <1>3, <1>4, <1>5, TimerUnchanged DEF TimerInv

\* It has had advance_lock: no callback is running.
LEMMA ServiceUnscheduledStep ==
    ASSUME TimerInv, ServiceUnscheduled
    PROVE  TimerInv'
<1> USE DEF ServiceUnscheduled, timingVars, queueVars, signalVars, pauseVars, threadVars, controlVars
<1>1. TimerTypeOK'
  BY DEF TimerInv, TimerTypeOK, timerVars
<1>2. WakeupOK' /\ QueueOK' /\ RunningOK'
  BY DEF TimerInv, WakeupOK, InterruptPending, GuestRuns, QueueOK, RunningOK, timerVars
<1>3. ServiceOK' /\ UnscheduledStaysQuiet'
  BY DEF TimerInv, ServiceOK, UnscheduledStaysQuiet, InProgressFinished, RunningOK, NotRunning
<1>4. RescheduledEventIsQueued'
  BY DEF TimerInv, RescheduledEventIsQueued
<1> QED BY <1>1, <1>2, <1>3, <1>4, TimerUnchanged DEF TimerInv

\* The service is destroyed.
LEMMA ServiceDestroyStep ==
    ASSUME TimerInv, ServiceDestroy
    PROVE  TimerInv'
<1> USE DEF ServiceDestroy, timingVars, queueVars, signalVars, pauseVars, threadVars, controlVars
<1>1. TimerTypeOK'
  BY DEF TimerInv, TimerTypeOK, timerVars
<1>2. WakeupOK' /\ QueueOK' /\ RunningOK'
  BY DEF TimerInv, WakeupOK, InterruptPending, GuestRuns, QueueOK, RunningOK, timerVars
<1>3. ServiceOK' /\ UnscheduledStaysQuiet'
  BY DEF TimerInv, ServiceOK, UnscheduledStaysQuiet
<1>4. RescheduledEventIsQueued'
  BY DEF TimerInv, RescheduledEventIsQueued
<1> QED BY <1>1, <1>2, <1>3, <1>4, TimerUnchanged DEF TimerInv

\* ClearPendingEvents: nothing is queued and nothing runs any more.
LEMMA ShutdownStep ==
    ASSUME TimerInv, Timing(Shutdown)
    PROVE  TimerInv'
<1> USE DEF Timing, Shutdown, ClearPendingEvents, pauseVars, threadVars
<1>1. TimerTypeOK'
  BY DEF TimerInv, TimerTypeOK, timerVars
<1>2. WakeupOK' /\ QueueOK' /\ RunningOK' /\ ServiceOK'
  BY DEF TimerInv, WakeupOK, GuestRuns, QueueOK, RunningOK, ServiceOK
<1>3. UnscheduledStaysQuiet' /\ RescheduledEventIsQueued'
  BY DEF TimerInv, RunningOK, InProgressFinished, NotRunning, UnscheduledStaysQuiet,
     RescheduledEventIsQueued
<1> QED BY <1>1, <1>2, <1>3, TimerUnchanged DEF TimerInv

-----------------------------------------------------------------------------
\* Nothing sleeps and nothing is queued at first.
LEMMA TimerInvInit == TimerInit => TimerInv
<1> SUFFICES ASSUME TimerInit PROVE TimerInv
  OBVIOUS
<1> USE DEF TimerInit, TimingInit
<1>1. TimerTypeOK
  <2>1. running \in [type : EventType \cup {NoType}, looping : BOOLEAN, changed : BOOLEAN]
    BY DEF NotRunning
  <2>2. event \in BOOLEAN /\ pause_event \in BOOLEAN /\ paused \in BOOLEAN /\ paused_set \in BOOLEAN
        /\ stop \in BOOLEAN
    OBVIOUS
  <2> QED BY <2>1, <2>2 DEF TimerTypeOK, Never, Idle
<1>2. NextOK
  BY DEF NextOK, FirstTime, Tree
<1>3. ProgrammingOK /\ EnabledOK /\ WakeupOK
  BY DEF ProgrammingOK, EnabledOK, WakeupOK, Idle
<1>4. QueueOK /\ RunningOK /\ ServiceOK
  BY DEF QueueOK, RunningOK, ServiceOK
<1>5. UnscheduledStaysQuiet /\ RescheduledEventIsQueued
  BY DEF UnscheduledStaysQuiet, RescheduledEventIsQueued, NotRunning
<1> QED BY <1>1, <1>2, <1>3, <1>4, <1>5 DEF TimerInv

\* Every step of the timer thread, the guest, the service and the thread that
\* pauses keeps the invariant.
LEMMA TimerInvNext == TimerInv /\ [TimerNext]_allTimerVars => TimerInv'
<1> SUFFICES ASSUME TimerInv, [TimerNext]_allTimerVars PROVE TimerInv'
  OBVIOUS
<1>1. CASE TimerStep
  <2>1. CASE Timing(AdvanceCallback(Owned))
    BY <2>1, AdvanceCallbackStep
  <2>2. CASE Timing(TimerThread(Owned)) /\ ~AdvanceCallback(Owned)
    BY <2>2, TimerThreadStep
  <2>3. Timing(TimerThread(Owned)) /\ AdvanceCallback(Owned) => Timing(AdvanceCallback(Owned))
    BY DEF Timing
  <2> QED BY <1>1, <2>1, <2>2, <2>3, CallbackReturnStep, DoTaskStep DEF TimerStep
<1>2. CASE EnableInterrupt
  BY <1>2, EnableDisableStep, EnableScheduleStep, EnableSetStep DEF EnableInterrupt
<1>3. CASE UNCHANGED allTimerVars
  <2>1. TimerTypeOK'
    BY <1>3 DEF TimerInv, TimerTypeOK, allTimerVars, timingVars, timerVars, queueVars, signalVars, pauseVars,
       threadVars, controlVars
  <2> QED BY <1>3, <2>1, QuietStep DEF allTimerVars, timingVars, timerVars, queueVars, signalVars, pauseVars,
             threadVars, controlVars, GuestRuns
<1> QED BY <1>1, <1>2, <1>3, ControlStep, RegisterStep, CancelStep, ServiceScheduleStep,
           ServiceUnscheduleStep, ServiceUnscheduledStep, ServiceDestroyStep, ShutdownStep DEF TimerNext

\* The invariant holds in every behaviour.
LEMMA TimerInvHolds == TimerSpec => []TimerInv
BY TimerInvInit, TimerInvNext, PTL DEF TimerSpec

-----------------------------------------------------------------------------
\* KHardwareTimer: whenever the scheduler lock is free, the interrupt is
\* enabled for the earliest sleep or for an earlier time, and CoreTiming has an
\* event that early or is about to run DoTask.  RegisterAbsoluteTask may leave
\* the timer as it is, CancelTask never touches it, and DoTask may run early:
\* no order of them and of the timer thread loses the earliest sleep.
THEOREM EarliestProgrammedHolds == TimerSpec => []EarliestProgrammed
<1>1. TimerInv => EarliestProgrammed
  <2> SUFFICES ASSUME TimerInv, GuestRuns, lock = "free", Tree(time) # {}
               PROVE  /\ m_next_task = FirstTime(time)
                      /\ m_wakeup_time <= FirstTime(time)
                      /\ \/ InterruptPending
                         \/ \E e \in event_queue : e.type = Callback /\ e.time <= FirstTime(time)
    BY DEF TimerInv, EarliestProgrammed
  <2>1. m_next_task = FirstTime(time) /\ m_next_task \in 1 .. MaxTime
    <3>1. m_next_task = FirstTime(time) /\ time \in [Task -> 0 .. MaxTime]
      BY DEF TimerInv, NextOK, TimerTypeOK
    <3>2. FirstTime(time) \in 0 .. MaxTime /\ FirstTime(time) # 0
      BY <3>1, FirstTimeFacts
    <3> QED BY <3>1, <3>2
  <2>2. m_wakeup_time \in 1 .. Never /\ m_wakeup_time <= m_next_task /\ m_wakeup_time # Never
    BY <2>1 DEF TimerInv, TimerTypeOK, EnabledOK, Never
  <2>3. \/ InterruptPending
        \/ \E e \in event_queue : e.type = Callback /\ e.time <= m_wakeup_time
    BY <2>2 DEF TimerInv, WakeupOK
  <2>4. \A e \in event_queue : e.time \in 0 .. Never
    BY DEF TimerInv, TimerTypeOK
  <2>5. \A e \in event_queue : e.time <= m_wakeup_time => e.time <= m_next_task
    BY <2>1, <2>2, <2>4 DEF Never
  <2> QED BY <2>1, <2>2, <2>3, <2>5
<1> QED BY <1>1, TimerInvHolds, PTL

\* CoreTiming::UnscheduleEvent with Wait: when it has returned, the event is
\* neither queued nor run, although a callback may have been running, and
\* about to be rescheduled, when it was called.
THEOREM UnscheduledStaysQuietHolds == TimerSpec => []UnscheduledStaysQuiet
<1>1. TimerInv => UnscheduledStaysQuiet
  BY DEF TimerInv
<1> QED BY <1>1, TimerInvHolds, PTL

\* CoreTiming::Advance: event_queue.update is called with the handle of an
\* event that is still in the heap, as sequence_number is meant to ensure.
THEOREM RescheduledEventIsQueuedHolds == TimerSpec => []RescheduledEventIsQueued
<1>1. TimerInv => RescheduledEventIsQueued
  BY DEF TimerInv
<1> QED BY <1>1, TimerInvHolds, PTL
=============================================================================
