------------------------ MODULE KAddressArbiterProof ------------------------
(***************************************************************************)
(* Proofs about KAddressArbiter, for any number of threads, any words and  *)
(* priorities and any width of a word: the tree holds exactly the waiters, *)
(* in order, no wake-up of a futex is lost, and a signal wakes the most    *)
(* urgent waiters and leaves in the word what is left to wake.             *)
(***************************************************************************)
EXTENDS KAddressArbiter, WellFoundedInduction, FiniteSetTheorems, SequenceTheorems, TLAPS

(* The inductive invariant, part by part *)

\* No thread is in the tree twice.
Once(s) == \A i, j \in DOMAIN s : i < j => s[i] # s[j]

\* A sequence of threads is in the order of the comparator, for keys k and
\* priorities p.
Ordered(s, k, p) == \A i, j \in DOMAIN s : i < j => ~ Before(k[s[j]], p[s[j]], k[s[i]], p[s[i]])

\* The threads that wait.
Waiting == {t \in Thread : state[t] = "Waiting"}

TreeOK == Once(tree) /\ Range(tree) = Waiting /\ Ordered(tree, key, priority)

\* A thread that blocks or waits has its arguments, and waits for their word.
CallsOK ==
    /\ \A t \in Thread : schedLock = t => call[t] \in Wait /\ Running(t)
    /\ \A t \in Thread : state[t] = "Waiting" => call[t] \in Wait /\ key[t] = call[t].addr
    /\ \A t \in Thread : key[t] # Nil <=> state[t] = "Waiting"
    /\ \A t \in Thread : timer[t] => state[t] = "Waiting" /\ call[t].timeout = "positive"

\* The promise of a futex from the read of the word on: it holds before the
\* thread is in the tree, as the scheduler lock keeps the signals out.
FutexOK ==
    guest = "futex" => \A t \in Thread :
        /\ state[t] = "Waiting" \/ schedLock = t
        /\ memory[call[t].addr] # call[t].value
        => \E u \in Thread : owes[u] = call[t].addr

IInv == TypeOK /\ TreeOK /\ CallsOK /\ FutexOK

-----------------------------------------------------------------------------
(* What the operators of the model return *)

\* A set of natural numbers has a smallest one.
LEMMA LeastNumber ==
    ASSUME NEW S, S \subseteq Nat, S # {}
    PROVE  \E n \in S : \A m \in S : n <= m
<1>1. IsWellFoundedOn(OpToRel(<, Nat), Nat)
  BY NatLessThanWellFounded
<1>2. PICK n \in S : \A m \in S : ~ (<<m, n>> \in OpToRel(<, Nat))
  BY <1>1, WFMin
<1>3. \A m \in S : ~ (m < n)
  BY <1>2 DEF OpToRel
<1> QED BY <1>3

\* The number of places ahead tells the members of a set of places apart, in
\* their order, and takes every value below the size of the set.
LEMMA AheadFacts ==
    ASSUME NEW n \in Nat, NEW S, S \subseteq 1 .. n
    PROVE  /\ IsFiniteSet(S) /\ Cardinality(S) \in Nat
           /\ \A i \in S : Cardinality(Ahead(S, i)) \in 0 .. Cardinality(S) - 1
           /\ \A i, j \in S : i < j => Cardinality(Ahead(S, i)) < Cardinality(Ahead(S, j))
           /\ \A m \in 1 .. Cardinality(S) : \E i \in S : Cardinality(Ahead(S, i)) = m - 1
<1>0. \A i \in S : i \in Int
  OBVIOUS
<1>1. IsFiniteSet(S) /\ Cardinality(S) \in Nat
  <2>1. IsFiniteSet(1 .. n) /\ S \in SUBSET (1 .. n)
    BY FS_Interval
  <2> QED BY <2>1, FS_Subset, FS_CardinalityType
<1>2. \A i \in S : IsFiniteSet(Ahead(S, i)) /\ Cardinality(Ahead(S, i)) \in Nat
  <2> SUFFICES ASSUME NEW i \in S
               PROVE  IsFiniteSet(Ahead(S, i)) /\ Cardinality(Ahead(S, i)) \in Nat
    OBVIOUS
  <2>1. Ahead(S, i) \in SUBSET S
    BY DEF Ahead
  <2> QED BY <1>1, <2>1, FS_Subset, FS_CardinalityType
<1>3. ASSUME NEW i \in S PROVE Cardinality(Ahead(S, i)) < Cardinality(S)
  <2>1. Ahead(S, i) \in SUBSET S /\ Ahead(S, i) # S
    BY DEF Ahead
  <2>2. Cardinality(Ahead(S, i)) <= Cardinality(S) /\ Cardinality(Ahead(S, i)) # Cardinality(S)
    BY <1>1, <2>1, FS_Subset
  <2> QED BY <1>1, <1>2, <2>2
<1>4. ASSUME NEW i \in S, NEW j \in S, i < j
      PROVE  Cardinality(Ahead(S, i)) < Cardinality(Ahead(S, j))
  <2>1. Ahead(S, i) \in SUBSET Ahead(S, j) /\ Ahead(S, i) # Ahead(S, j)
    <3>1. \A x \in Ahead(S, i) : x \in Ahead(S, j)
      BY <1>0, <1>4 DEF Ahead
    <3>2. i \in Ahead(S, j) /\ i \notin Ahead(S, i)
      BY <1>0, <1>4 DEF Ahead
    <3> QED BY <3>1, <3>2
  <2>2. /\ Cardinality(Ahead(S, i)) <= Cardinality(Ahead(S, j))
        /\ Cardinality(Ahead(S, i)) # Cardinality(Ahead(S, j))
    BY <1>2, <2>1, FS_Subset
  <2> QED BY <1>2, <2>2
<1> DEFINE T == 1 .. Cardinality(S)
           f == [i \in S |-> Cardinality(Ahead(S, i)) + 1]
<1>5. f \in [S -> T]
  BY <1>1, <1>2, <1>3
<1>6. \A i, j \in S : f[i] = f[j] => i = j
  BY <1>2, <1>4
<1>7. IsFiniteSet(T) /\ Cardinality(T) = Cardinality(S)
  BY <1>1, FS_Interval
<1>8. f \in Injection(S, T)
  BY <1>5, <1>6 DEF Injection, IsInjective
<1> HIDE DEF f
<1>9. f \in Surjection(S, T)
  BY <1>7, <1>8, FS_Injection
<1>10. \A m \in T : \E i \in S : f[i] = m
  BY <1>9 DEF Surjection
<1>11. ASSUME NEW m \in T PROVE \E i \in S : Cardinality(Ahead(S, i)) = m - 1
  <2>1. PICK i \in S : f[i] = m
    BY <1>10
  <2> QED BY <1>2, <2>1 DEF f
<1> QED BY <1>1, <1>2, <1>3, <1>4, <1>11

\* erase removes these threads and keeps the order of the others.
LEMMA ErasedFacts ==
    ASSUME NEW s \in Seq(Thread), NEW X
    PROVE  /\ Erased(s, X) \in Seq(Thread)
           /\ Range(Erased(s, X)) = Range(s) \ X
           /\ \A m, n \in DOMAIN Erased(s, X) : m < n =>
                \E i, j \in DOMAIN s : i < j /\ Erased(s, X)[m] = s[i] /\ Erased(s, X)[n] = s[j]
<1> DEFINE S == {i \in DOMAIN s : s[i] \notin X}
           At(n) == CHOOSE i \in S : Cardinality(Ahead(S, i)) = n - 1
           c == Cardinality(S)
           u == Erased(s, X)
<1>1. DOMAIN s = 1 .. Len(s) /\ Len(s) \in Nat /\ \A i \in DOMAIN s : s[i] \in Thread
  OBVIOUS
<1>2. S \subseteq 1 .. Len(s)
  BY <1>1
<1> HIDE DEF S
<1>0. \A i \in S : i \in Int
  BY <1>2
<1>3. /\ c \in Nat
      /\ \A i \in S : Cardinality(Ahead(S, i)) \in 0 .. c - 1
      /\ \A i, j \in S : i < j => Cardinality(Ahead(S, i)) < Cardinality(Ahead(S, j))
      /\ \A m \in 1 .. c : \E i \in S : Cardinality(Ahead(S, i)) = m - 1
  BY <1>1, <1>2, AheadFacts
<1>4. u = [n \in 1 .. c |-> s[At(n)]]
  BY DEF Erased, S
<1> HIDE DEF c, u
<1>5. \A n \in 1 .. c : At(n) \in S /\ Cardinality(Ahead(S, At(n))) = n - 1
  BY <1>3
<1> HIDE DEF At
<1>6. \A i \in S : i \in DOMAIN s /\ s[i] \in Thread /\ s[i] \notin X
  BY <1>1 DEF S
<1>7. u \in Seq(Thread) /\ DOMAIN u = 1 .. c
  BY <1>3, <1>4, <1>5, <1>6
<1>8. ASSUME NEW i \in S PROVE \E n \in 1 .. c : At(n) = i
  <2>1. Cardinality(Ahead(S, i)) + 1 \in 1 .. c
    BY <1>3
  <2> DEFINE n == Cardinality(Ahead(S, i)) + 1
  <2>2. At(n) \in S /\ Cardinality(Ahead(S, At(n))) = Cardinality(Ahead(S, i))
    BY <1>3, <1>5, <2>1
  <2>3. ~ (At(n) < i) /\ ~ (i < At(n))
    BY <1>3, <2>2
  <2>4. i \in Int /\ At(n) \in Int
    BY <1>0, <2>2
  <2> QED BY <2>1, <2>3, <2>4
<1>9. Range(u) = Range(s) \ X
  <2>1. ASSUME NEW x \in Range(u) PROVE x \in Range(s) \ X
    BY <1>4, <1>5, <1>6, <1>7, <2>1 DEF Range
  <2>2. ASSUME NEW x \in Range(s) \ X PROVE x \in Range(u)
    <3>1. PICK i \in S : x = s[i]
      BY <2>2 DEF Range, S
    <3> QED BY <1>4, <1>7, <1>8, <3>1 DEF Range
  <2> QED BY <2>1, <2>2
<1>10. ASSUME NEW m \in DOMAIN u, NEW n \in DOMAIN u, m < n
       PROVE  At(m) < At(n) /\ u[m] = s[At(m)] /\ u[n] = s[At(n)] /\ At(m) \in S /\ At(n) \in S
  <2>1. m \in 1 .. c /\ n \in 1 .. c
    BY <1>7
  <2>2. At(m) \in Int /\ At(n) \in Int /\ At(m) \in S /\ At(n) \in S
    BY <1>0, <1>5, <2>1
  <2>3. At(m) # At(n)
    BY <1>5, <1>10, <2>1
  <2>4. ~ (At(n) < At(m))
    <3> SUFFICES ASSUME At(n) < At(m) PROVE FALSE
      OBVIOUS
    <3>1. Cardinality(Ahead(S, At(n))) < Cardinality(Ahead(S, At(m)))
      BY <1>3, <2>2
    <3> QED BY <1>5, <1>10, <2>1, <3>1
  <2> QED BY <1>4, <2>1, <2>2, <2>3, <2>4
<1>11. \A m, n \in DOMAIN u : m < n => \E i, j \in DOMAIN s : i < j /\ u[m] = s[i] /\ u[n] = s[j]
  BY <1>6, <1>10
<1> QED BY <1>7, <1>9, <1>11 DEF u

\* A sequence with one element more.
With(s, u, k, t) ==
    /\ Len(u) = Len(s) + 1
    /\ \A i \in 1 .. Len(u) : u[i] = IF i < k THEN s[i] ELSE IF i = k THEN t ELSE s[i - 1]

\* InsertAt puts one element in.
LEMMA InsertAtFacts ==
    ASSUME NEW S, NEW s \in Seq(S), NEW t \in S, NEW k \in 1 .. Len(s) + 1
    PROVE  InsertAt(s, k, t) \in Seq(S) /\ With(s, InsertAt(s, k, t), k, t)
<1> DEFINE A == SubSeq(s, 1, k - 1)
           B == A \o <<t>>
           C == SubSeq(s, k, Len(s))
<1>1. A \in Seq(S) /\ Len(A) = k - 1 /\ \A i \in 1 .. k - 1 : A[i] = s[i]
  OBVIOUS
<1>2. C \in Seq(S) /\ Len(C) = Len(s) + 1 - k /\ \A i \in 1 .. Len(s) + 1 - k : C[i] = s[i + k - 1]
  OBVIOUS
<1> HIDE DEF A, C
<1>3. B \in Seq(S) /\ Len(B) = k /\ B[k] = t /\ \A i \in 1 .. k - 1 : B[i] = s[i]
  BY <1>1
<1> HIDE DEF B
<1>4. B \o C \in Seq(S) /\ Len(B \o C) = Len(s) + 1
  <2>1. B \o C \in Seq(S) /\ Len(B \o C) = Len(B) + Len(C)
    BY <1>2, <1>3, ConcatProperties
  <2>2. Len(B) + Len(C) = Len(s) + 1
    BY <1>2, <1>3
  <2> QED BY <2>1, <2>2
<1>5. \A i \in 1 .. Len(s) + 1 : (B \o C)[i] = IF i <= k THEN B[i] ELSE C[i - k]
  BY <1>2, <1>3
<1>6. \A i \in k + 1 .. Len(s) + 1 : C[i - k] = s[i - 1]
  <2> SUFFICES ASSUME NEW i \in k + 1 .. Len(s) + 1 PROVE C[i - k] = s[i - 1]
    OBVIOUS
  <2>1. i - k \in 1 .. Len(s) + 1 - k /\ (i - k) + k - 1 = i - 1
    OBVIOUS
  <2> QED BY <1>2, <2>1
<1>7. With(s, B \o C, k, t)
  BY <1>3, <1>4, <1>5, <1>6 DEF With
<1>8. InsertAt(s, k, t) = B \o C
  BY DEF InsertAt, A, B, C
<1> QED BY <1>4, <1>7, <1>8

\* insert finds the place that keeps the order, for keys and priorities that
\* are the present ones but for the thread itself.
LEMMA InsertedFacts ==
    ASSUME NEW s \in Seq(Thread), NEW t \in Thread, t \notin Range(s), NEW a \in Nat, NEW p \in Nat,
           \A i \in DOMAIN s : key[s[i]] \in Nat /\ priority[s[i]] \in Nat,
           Once(s), Ordered(s, key, priority),
           NEW K, NEW P, K[t] = a, P[t] = p,
           \A u \in Thread : u # t => K[u] = key[u] /\ P[u] = priority[u]
    PROVE  /\ Inserted(s, t, a, p) \in Seq(Thread)
           /\ Range(Inserted(s, t, a, p)) = Range(s) \cup {t}
           /\ Once(Inserted(s, t, a, p))
           /\ Ordered(Inserted(s, t, a, p), K, P)
<1> DEFINE n == Len(s)
           Less(i) == Before(a, p, key[s[i]], priority[s[i]])
           Place(i) == (\A j \in 1 .. i - 1 : ~ Less(j)) /\ (i <= n => Less(i))
           S == {i \in 1 .. n + 1 : i <= n => Less(i)}
           u == Inserted(s, t, a, p)
<1>1. n \in Nat /\ DOMAIN s = 1 .. n /\ \A i \in 1 .. n : s[i] \in Thread /\ s[i] # t
  BY DEF Range
<1>2. n + 1 \in S /\ S \subseteq Nat
  BY <1>1
<1>3. PICK q \in S : \A m \in S : q <= m
  BY <1>2, LeastNumber
<1>4. \A j \in 1 .. q - 1 : ~ Less(j)
  <2> SUFFICES ASSUME NEW j \in 1 .. q - 1 PROVE ~ Less(j)
    OBVIOUS
  <2>1. j \in 1 .. n + 1 /\ j \notin S /\ j \in 1 .. n
    BY <1>1, <1>3
  <2> QED BY <2>1
<1>5. Place(q) /\ q \in 1 .. n + 1
  BY <1>3, <1>4
<1>6. PICK k \in 1 .. n + 1 : k = (CHOOSE i \in 1 .. n + 1 : Place(i)) /\ Place(k)
  BY <1>5
<1>7. u = InsertAt(s, k, t)
  BY <1>6 DEF Inserted
<1>8. u \in Seq(Thread) /\ With(s, u, k, t)
  BY <1>7, InsertAtFacts
<1>9. (\A j \in 1 .. k - 1 : ~ Less(j)) /\ (k <= n => Less(k))
  BY <1>6
<1> HIDE DEF u, S, Less
<1>10. DOMAIN u = 1 .. n + 1
  BY <1>1, <1>8 DEF With
<1>11. /\ \A i \in 1 .. n + 1 : i < k => i \in 1 .. n /\ u[i] = s[i]
       /\ \A i \in 1 .. n + 1 : i > k => i - 1 \in 1 .. n /\ u[i] = s[i - 1]
       /\ u[k] = t
  BY <1>1, <1>8 DEF With
<1>12. Range(u) = Range(s) \cup {t}
  <2>1. ASSUME NEW x \in Range(u) PROVE x \in Range(s) \cup {t}
    <3>1. PICK i \in 1 .. n + 1 : x = u[i]
      BY <1>10, <2>1 DEF Range
    <3>2. i < k \/ i > k \/ i = k
      BY <1>1
    <3> QED BY <1>1, <1>11, <3>1, <3>2 DEF Range
  <2>2. ASSUME NEW i \in 1 .. n PROVE s[i] \in Range(u)
    <3>1. CASE i < k
      BY <1>1, <1>10, <1>11, <3>1 DEF Range
    <3>2. CASE i >= k
      <4>1. i + 1 \in 1 .. n + 1 /\ i + 1 > k /\ (i + 1) - 1 = i
        BY <1>1, <3>2
      <4> QED BY <1>10, <1>11, <4>1 DEF Range
    <3> QED BY <1>1, <3>1, <3>2
  <2>3. t \in Range(u)
    BY <1>10, <1>11 DEF Range
  <2> QED BY <1>1, <2>1, <2>2, <2>3 DEF Range
<1>13. ASSUME NEW i \in DOMAIN u, NEW j \in DOMAIN u, i < j
       PROVE  /\ u[i] # u[j]
              /\ ~ Before(K[u[j]], P[u[j]], K[u[i]], P[u[i]])
  <2>1. i \in 1 .. n + 1 /\ j \in 1 .. n + 1 /\ i \in Int /\ j \in Int /\ k \in Int
    BY <1>1, <1>10
  <2>2. \A m \in 1 .. n : /\ K[s[m]] = key[s[m]] /\ P[s[m]] = priority[s[m]]
                          /\ key[s[m]] \in Nat /\ priority[s[m]] \in Nat
    BY <1>1
  <2>3. ASSUME NEW m \in 1 .. n, NEW o \in 1 .. n, m < o
        PROVE  s[m] # s[o] /\ ~ Before(key[s[o]], priority[s[o]], key[s[m]], priority[s[m]])
    BY <1>1, <2>3 DEF Once, Ordered
  <2>4. CASE j = k
    <3>1. i \in 1 .. n /\ u[i] = s[i] /\ u[j] = t /\ ~ Less(i)
      BY <1>1, <1>9, <1>11, <1>13, <2>1, <2>4
    <3> QED BY <1>1, <2>2, <3>1 DEF Less
  <2>5. CASE i = k
    <3>1. j - 1 \in 1 .. n /\ u[j] = s[j - 1] /\ u[i] = t /\ k <= j - 1
      BY <1>1, <1>11, <1>13, <2>1, <2>5
    <3>2. k \in 1 .. n /\ Less(k)
      BY <1>1, <1>9, <2>1, <3>1
    <3>3. k = j - 1 \/ ~ Before(key[s[j - 1]], priority[s[j - 1]], key[s[k]], priority[s[k]])
      BY <2>1, <2>3, <3>1, <3>2
    <3>4. ~ Before(key[s[j - 1]], priority[s[j - 1]], a, p)
      BY <2>2, <3>1, <3>2, <3>3 DEF Less, Before
    <3> QED BY <1>1, <2>2, <3>1, <3>4
  <2>6. CASE i # k /\ j # k
    <3>1. PICK m \in 1 .. n, o \in 1 .. n : m < o /\ u[i] = s[m] /\ u[j] = s[o]
      <4>1. CASE j < k
        BY <1>11, <1>13, <2>1, <4>1
      <4>2. CASE i < k /\ j > k
        BY <1>11, <2>1, <4>2
      <4>3. CASE i > k
        BY <1>11, <1>13, <2>1, <4>3
      <4> QED BY <1>13, <2>1, <2>6, <4>1, <4>2, <4>3
    <3> QED BY <2>2, <2>3, <3>1
  <2> QED BY <2>4, <2>5, <2>6
<1>14. Once(u) /\ Ordered(u, K, P)
  BY <1>13 DEF Once, Ordered
<1> QED BY <1>8, <1>12, <1>14 DEF u

\* A sequence of threads that is ordered stays so when threads leave it, for
\* keys and priorities that change for those only.
LEMMA ErasedOrdered ==
    ASSUME NEW s \in Seq(Thread), NEW X, Once(s), Ordered(s, key, priority), NEW K, NEW P,
           \A u \in Thread \ X : K[u] = key[u] /\ P[u] = priority[u]
    PROVE  Once(Erased(s, X)) /\ Ordered(Erased(s, X), K, P)
<1> DEFINE u == Erased(s, X)
<1>1. \A i \in DOMAIN u : u[i] \in Thread \ X
  <2>1. \A x \in Range(s) : x \in Thread
    BY DEF Range
  <2> QED BY <2>1, ErasedFacts DEF Range
<1>2. ASSUME NEW m \in DOMAIN u, NEW n \in DOMAIN u, m < n
      PROVE  u[m] # u[n] /\ ~ Before(K[u[n]], P[u[n]], K[u[m]], P[u[m]])
  <2>1. PICK i, j \in DOMAIN s : i < j /\ u[m] = s[i] /\ u[n] = s[j]
    BY <1>2, ErasedFacts
  <2>2. s[i] # s[j] /\ ~ Before(key[s[j]], priority[s[j]], key[s[i]], priority[s[i]])
    BY <2>1 DEF Once, Ordered
  <2> HIDE DEF u
  <2> QED BY <1>1, <2>1, <2>2
<1> HIDE DEF u
<1>3. Once(u) /\ Ordered(u, K, P)
  BY <1>2 DEF Once, Ordered
<1> QED BY <1>3 DEF u

\* Arithmetic on a word stays in it.
LEMMA WrapType == ASSUME NEW x \in Int PROVE Wrap(x) \in Word
<1>1. Half \in Nat /\ Half > 0
  BY ArbiterAssumption
<1> DEFINE y == x + Half
           m == 2 * Half
<1>2. y \in Int /\ m \in Int /\ m > 0
  BY <1>1
<1>3. y % m \in 0 .. m - 1
  BY <1>2, Z3
<1> QED BY <1>1, <1>3 DEF Wrap, Word

-----------------------------------------------------------------------------
(* The invariant is inductive *)

USE ArbiterAssumption

\* Nobody waits at first.
LEMMA InitIInv == Init => IInv
<1> SUFFICES ASSUME Init PROVE IInv
  OBVIOUS
<1>2. 0 \in Word /\ FALSE \in BOOLEAN
  BY DEF Word
<1>3. TypeOK
  <2>1. terminating \in [Thread -> BOOLEAN] /\ timer \in [Thread -> BOOLEAN]
    BY <1>2 DEF Init
  <2>2. tree \in Seq(Thread) /\ memory \in [Address -> Word]
    BY <1>2 DEF Init
  <2>3. priority \in [Thread -> Priority]
    BY DEF Init
  <2> QED BY <2>1, <2>2, <2>3 DEF Init, TypeOK, Results
<1>4. TreeOK
  <2>1. Waiting = {} /\ tree = <<>>
    BY DEF Init, Waiting
  <2> QED BY <2>1 DEF TreeOK, Once, Ordered, Range
<1>5. CallsOK /\ FutexOK
  BY DEF Init, CallsOK, FutexOK
<1> QED BY <1>3, <1>4, <1>5 DEF IInv

\* The threads in the tree wait, and have keys and priorities.
LEMMA TreeFacts ==
    ASSUME IInv
    PROVE  /\ DOMAIN tree = 1 .. Len(tree) /\ Len(tree) \in Nat
           /\ \A i \in DOMAIN tree : /\ tree[i] \in Thread /\ state[tree[i]] = "Waiting"
                                     /\ key[tree[i]] \in Nat /\ key[tree[i]] \in Address
                                     /\ priority[tree[i]] \in Nat
           /\ \A t \in Thread : key[t] # Nil => \E i \in DOMAIN tree : tree[i] = t
<1>1. tree \in Seq(Thread) /\ key \in [Thread -> Address \cup {Nil}] /\ priority \in [Thread -> Priority]
  BY DEF IInv, TypeOK
<1>2. \A i \in DOMAIN tree : tree[i] \in Waiting
  BY DEF IInv, TreeOK, Range
<1>3. \A t \in Waiting : t \in Thread /\ state[t] = "Waiting" /\ key[t] \in Address /\ priority[t] \in Nat
  BY <1>1 DEF IInv, CallsOK, Waiting
<1>4. \A t \in Thread : key[t] # Nil => \E i \in DOMAIN tree : tree[i] = t
  BY DEF IInv, CallsOK, TreeOK, Waiting, Range
<1>5. DOMAIN tree = 1 .. Len(tree) /\ Len(tree) \in Nat
  BY <1>1
<1>6. \A a \in Address : a \in Nat
  OBVIOUS
<1> QED BY <1>2, <1>3, <1>4, <1>5, <1>6

\* Waits that end leave the tree with the other waiters, in order.
LEMMA LeaveFacts ==
    ASSUME IInv, NEW X, X \subseteq Waiting, NEW r \in Results, Leave(X, r),
           schedLock = Nil, UNCHANGED <<schedLock, priority>>
    PROVE  /\ tree' \in Seq(Thread)
           /\ key' \in [Thread -> Address \cup {Nil}]
           /\ state' \in [Thread -> {"Runnable", "Waiting"}]
           /\ waitResult' \in [Thread -> Results]
           /\ timer' \in [Thread -> BOOLEAN]
           /\ call' \in [Thread -> Wait \cup {Nil}]
           /\ TreeOK' /\ CallsOK'
           /\ \A t \in Thread : state'[t] = "Waiting" =>
                state[t] = "Waiting" /\ t \notin X /\ call'[t] = call[t]
<1> USE DEF Leave, TimersAfter
<1>1. tree \in Seq(Thread) /\ tree' = Erased(tree, X) /\ X \subseteq Thread
  BY DEF IInv, TypeOK, Waiting
<1>2. tree' \in Seq(Thread) /\ Range(tree') = Range(tree) \ X
  BY <1>1, ErasedFacts
<1>3. /\ key' \in [Thread -> Address \cup {Nil}]
      /\ state' \in [Thread -> {"Runnable", "Waiting"}]
      /\ waitResult' \in [Thread -> Results]
      /\ call' \in [Thread -> Wait \cup {Nil}]
  BY DEF IInv, TypeOK
<1>4. timer' \in [Thread -> BOOLEAN]
  BY DEF IInv, TypeOK
<1>5. Waiting' = Waiting \ X
  BY DEF IInv, TypeOK, Waiting
<1>6. Once(tree') /\ Ordered(tree', key', priority')
  <2>1. \A t \in Thread \ X : key'[t] = key[t] /\ priority'[t] = priority[t]
    OBVIOUS
  <2>2. Once(tree) /\ Ordered(tree, key, priority)
    BY DEF IInv, TreeOK
  <2> QED BY <1>1, <2>1, <2>2, ErasedOrdered
<1>7. TreeOK'
  BY <1>2, <1>5, <1>6 DEF IInv, TreeOK
<1>8. CallsOK'
  <2>1. \A t \in Thread : schedLock' # t
    BY DEF IInv
  <2>2. \A t \in Thread : timer'[t] => timer[t] /\ t \notin X
    BY DEF IInv
  <2> QED BY <2>1, <2>2 DEF IInv, TypeOK, CallsOK
<1>9. \A t \in Thread : state'[t] = "Waiting" =>
        state[t] = "Waiting" /\ t \notin X /\ call'[t] = call[t]
  BY DEF IInv, TypeOK
<1> QED BY <1>2, <1>3, <1>4, <1>7, <1>8, <1>9

\* A step that keeps the tree, its order and what waits keeps these parts.
LEMMA TreeKeptFacts ==
    ASSUME IInv, UNCHANGED <<tree, key, priority, state>>
    PROVE  TreeOK'
BY DEF IInv, TreeOK, Once, Ordered, Waiting, Before

\* WaitIfLessThan and WaitIfEqual up to the checks.
LEMMA WaitReadStep ==
    ASSUME IInv, NEW t \in Thread, NEW c \in Call, WaitRead(t, c), UNCHANGED guest
    PROVE  IInv'
<1> USE DEF WaitRead, Calls, SchedulerUnlocked
<1> DEFINE w == [addr |-> c.addr, value |-> c.value, timeout |-> c.timeout]
<1>1. /\ c.addr \in Address /\ c.value \in Values /\ c.timeout \in Timeouts
      /\ w \in Wait /\ c.value \in Word /\ Values \subseteq Word
  BY DEF Call, Wait, Word
<1> HIDE DEF w
<1>2. memory' \in [Address -> Word]
  <2>1. memory \in [Address -> Word] /\ \A a \in Address : memory[a] \in Int
    BY DEF IInv, TypeOK, Word
  <2>2. Wrap(memory[c.addr] - 1) \in Word
    <3>1. memory[c.addr] \in Int
      BY <1>1, <2>1
    <3> QED BY <3>1, WrapType
  <2> QED BY <2>1, <2>2 DEF MemoryAfterRead
<1>3. schedLock = Nil /\ Running(t)
  OBVIOUS
<1>4. \/ schedLock' = Nil /\ call' = call
      \/ /\ schedLock' = t /\ call' = [call EXCEPT ![t] = w]
         /\ ConditionHolds(c) /\ c.timeout # "zero" /\ memory' = MemoryAfterRead(c)
  BY DEF w
<1>5. TypeOK'
  <2>1. call' \in [Thread -> Wait \cup {Nil}] /\ schedLock' \in Thread \cup {Nil}
    BY <1>1, <1>4 DEF IInv, TypeOK
  <2> QED BY <1>2, <2>1 DEF IInv, TypeOK
<1>6. TreeOK'
  BY TreeKeptFacts
<1>7. \A u \in Thread : state[u] = "Waiting" => u # t /\ call'[u] = call[u]
  BY <1>3, <1>4 DEF IInv, TypeOK, Running
<1>8. schedLock' = t => call'[t] = w
  BY <1>4 DEF IInv, TypeOK
<1>9. CallsOK'
  BY <1>1, <1>3, <1>4, <1>7, <1>8 DEF IInv, CallsOK, Running
<1>10. FutexOK'
  <2> SUFFICES ASSUME guest = "futex", NEW u \in Thread, state[u] = "Waiting" \/ schedLock' = u,
                      memory'[call'[u].addr] # call'[u].value
               PROVE  \E v \in Thread : owes[v] = call'[u].addr
    BY DEF FutexOK
  <2>1. c.type = "WaitIfEqual" /\ memory' = memory
    BY DEF UsesWait, MemoryAfterRead
  <2>2. CASE state[u] = "Waiting"
    BY <1>7, <2>1, <2>2 DEF IInv, FutexOK
  <2>3. CASE schedLock' = u
    <3>1. u = t /\ call'[t] = w /\ ConditionHolds(c)
      BY <1>4, <1>8, <2>3
    <3> QED BY <2>1, <3>1 DEF ConditionHolds, w
  <2> QED BY <2>2, <2>3
<1> QED BY <1>5, <1>6, <1>9, <1>10 DEF IInv

\* The thread enters the tree and sleeps.
LEMMA WaitBlockStep ==
    ASSUME IInv, NEW t \in Thread, WaitBlock(t), UNCHANGED guest
    PROVE  IInv'
<1> USE DEF WaitBlock
<1>1. /\ call[t] \in Wait /\ call[t].addr \in Address /\ call[t].addr \in Nat
      /\ state[t] = "Runnable" /\ schedLock = t
  BY DEF IInv, CallsOK, Running, Wait
<1>2. tree \in Seq(Thread) /\ t \notin Range(tree) /\ Once(tree) /\ Ordered(tree, key, priority)
  BY <1>1 DEF IInv, TypeOK, TreeOK, Waiting
<1>3. priority[t] \in Nat /\ \A i \in DOMAIN tree : key[tree[i]] \in Nat /\ priority[tree[i]] \in Nat
  BY TreeFacts DEF IInv, TypeOK
<1>4. key'[t] = call[t].addr /\ \A u \in Thread : u # t => key'[u] = key[u]
  BY DEF IInv, TypeOK
<1>5. /\ tree' \in Seq(Thread)
      /\ Range(tree') = Range(tree) \cup {t}
      /\ Once(tree')
      /\ Ordered(tree', key', priority)
  <2> DEFINE K == key'
             P == priority
             a == call[t].addr
             p == priority[t]
  <2>1. tree' = Inserted(tree, t, a, p) /\ a \in Nat /\ p \in Nat
    BY <1>1, <1>3
  <2>2. K[t] = a /\ P[t] = p
    BY <1>4
  <2>3. \A u \in Thread : u # t => K[u] = key[u] /\ P[u] = priority[u]
    BY <1>4
  <2> HIDE DEF WaitBlock, K, P, a, p
  <2>4. /\ tree' \in Seq(Thread)
        /\ Range(tree') = Range(tree) \cup {t}
        /\ Once(tree')
        /\ Ordered(tree', K, P)
    BY <1>2, <1>3, <2>1, <2>2, <2>3, InsertedFacts
  <2> QED BY <2>4 DEF K, P
<1>6. TypeOK'
  <2>1. timer' \in [Thread -> BOOLEAN]
    BY DEF IInv, TypeOK
  <2> QED BY <1>1, <1>5, <2>1 DEF IInv, TypeOK
<1>7. TreeOK'
  <2>1. Waiting' = Waiting \cup {t}
    BY DEF IInv, TypeOK, Waiting
  <2> QED BY <1>5, <2>1 DEF IInv, TreeOK
<1>8. CallsOK'
  <2>1. \A u \in Thread : schedLock' # u
    OBVIOUS
  <2>2. \A u \in Thread : u # t => state'[u] = state[u] /\ timer'[u] = timer[u]
    BY DEF IInv, TypeOK
  <2>3. state'[t] = "Waiting" /\ (timer'[t] => call[t].timeout = "positive")
    BY DEF IInv, TypeOK
  <2> QED BY <1>1, <1>4, <2>1, <2>2, <2>3 DEF IInv, CallsOK
<1>9. FutexOK'
  <2>1. \A u \in Thread : state'[u] = "Waiting" => state[u] = "Waiting" \/ schedLock = u
    BY <1>1 DEF IInv, TypeOK
  <2> QED BY <2>1 DEF IInv, FutexOK
<1> QED BY <1>6, <1>7, <1>8, <1>9 DEF IInv

\* GetWaitResult.
LEMMA ReturnStep ==
    ASSUME IInv, NEW t \in Thread, Return(t), UNCHANGED guest
    PROVE  IInv'
<1> USE DEF Return
<1>1. \A u \in Thread : state[u] = "Waiting" \/ schedLock = u => call'[u] = call[u] /\ u # t
  BY DEF IInv, TypeOK, CallsOK, Running
<1>2. TypeOK'
  BY DEF IInv, TypeOK, Results
<1>3. TreeOK'
  BY TreeKeptFacts
<1>4. CallsOK'
  <2>1. \A u \in Thread : u # t => waitResult'[u] = waitResult[u]
    BY DEF IInv, TypeOK
  <2> QED BY <1>1, <2>1 DEF IInv, CallsOK, Running
<1>5. FutexOK'
  BY <1>1 DEF IInv, FutexOK
<1> QED BY <1>2, <1>3, <1>4, <1>5 DEF IInv

\* A wait that times out or is terminated.
LEMMA CancelStep ==
    ASSUME IInv, NEW t \in Thread, OnTimer(t) \/ RequestTerminate(t), UNCHANGED guest
    PROVE  IInv'
<1> USE DEF OnTimer, RequestTerminate, SchedulerUnlocked
<1>1. terminating' \in [Thread -> BOOLEAN]
  <2>1. CASE OnTimer(t)
    BY <2>1 DEF IInv, TypeOK
  <2>2. CASE RequestTerminate(t)
    BY <2>2 DEF IInv, TypeOK
  <2> QED BY <2>1, <2>2
<1>2. schedLock = Nil /\ UNCHANGED <<memory, schedLock, priority, owes>>
  OBVIOUS
<1>3. CASE state[t] = "Waiting"
  <2>1. PICK r \in Results : Leave({t}, r)
    BY <1>3 DEF Results
  <2>2. {t} \subseteq Waiting
    BY <1>3 DEF Waiting
  <2> HIDE DEF OnTimer, RequestTerminate
  <2>3. /\ tree' \in Seq(Thread)
        /\ key' \in [Thread -> Address \cup {Nil}]
        /\ state' \in [Thread -> {"Runnable", "Waiting"}]
        /\ waitResult' \in [Thread -> Results]
        /\ timer' \in [Thread -> BOOLEAN]
        /\ call' \in [Thread -> Wait \cup {Nil}]
        /\ TreeOK' /\ CallsOK'
        /\ \A u \in Thread : state'[u] = "Waiting" => state[u] = "Waiting" /\ call'[u] = call[u]
    BY <1>2, <2>1, <2>2, LeaveFacts
  <2>4. TypeOK'
    BY <1>1, <1>2, <2>3 DEF IInv, TypeOK
  <2>5. FutexOK'
    BY <1>2, <2>3 DEF IInv, FutexOK
  <2> QED BY <2>3, <2>4, <2>5 DEF IInv
<1>4. CASE state[t] # "Waiting"
  <2>1. UNCHANGED <<tree, key, state, waitResult, call>>
    BY <1>4
  <2>2. timer' = timer \/ timer' = [timer EXCEPT ![t] = FALSE]
    BY <1>4
  <2>3. timer' \in [Thread -> BOOLEAN]
    BY <2>2 DEF IInv, TypeOK
  <2>4. \A u \in Thread : timer'[u] => timer[u]
    BY <2>2 DEF IInv, TypeOK
  <2> HIDE DEF OnTimer, RequestTerminate
  <2>5. TypeOK'
    BY <1>1, <1>2, <2>1, <2>3 DEF IInv, TypeOK
  <2>6. TreeOK'
    BY <1>2, <2>1, TreeKeptFacts
  <2>7. CallsOK'
    BY <1>2, <2>1, <2>4 DEF IInv, CallsOK, Running
  <2>8. FutexOK'
    BY <1>2, <2>1 DEF IInv, FutexOK
  <2> QED BY <2>5, <2>6, <2>7, <2>8 DEF IInv
<1> QED BY <1>3, <1>4

\* A signal wakes waiters of its word, and all of them when count is not
\* positive.
LEMMA WokenFacts ==
    ASSUME IInv, NEW a \in Address, NEW count \in Int
    PROVE  /\ Woken(a, count) \subseteq Waiting
           /\ \A t \in Woken(a, count) : key[t] = a
           /\ count <= 0 => \A t \in Thread : key[t] = a => t \in Woken(a, count)
<1>1. \A t \in Woken(a, count) : \E i \in DOMAIN tree : t = tree[i] /\ key[tree[i]] = a
  BY DEF Woken, WaitersOf
<1>2. ASSUME NEW t \in Thread, key[t] = a, count <= 0 PROVE t \in Woken(a, count)
  <2>1. PICK i \in DOMAIN tree : tree[i] = t
    BY <1>2, TreeFacts
  <2> QED BY <1>2, <2>1 DEF Woken, WaitersOf
<1>3. Woken(a, count) \subseteq Waiting
  BY <1>1, TreeFacts DEF Waiting
<1> QED BY <1>1, <1>2, <1>3

\* The signals change the word at most, wake waiters of it and settle the
\* store that owed the signal.
LEMMA SignalKeepsIInv ==
    ASSUME IInv, NEW t \in Thread, NEW a \in Address, NEW count \in Counts,
           MaySignal(t, a, count), Leave(Woken(a, count), "Success"), owes' = Settled(t, count),
           memory' \in [Address -> Word], \A b \in Address : b # a => memory'[b] = memory[b],
           UNCHANGED <<schedLock, priority, terminating, guest>>
    PROVE  IInv'
<1> DEFINE X == Woken(a, count)
<1>1. /\ X \subseteq Waiting /\ "Success" \in Results
      /\ count <= 0 => \A u \in Thread : key[u] = a => u \in X
  BY WokenFacts DEF Results
<1>2. schedLock = Nil /\ owes[t] \in {a, Nil} /\ (guest = "futex" => count <= 0)
  BY DEF MaySignal, SchedulerUnlocked, UsesSignal
<1> HIDE DEF X
<1>3. /\ tree' \in Seq(Thread)
      /\ key' \in [Thread -> Address \cup {Nil}]
      /\ state' \in [Thread -> {"Runnable", "Waiting"}]
      /\ waitResult' \in [Thread -> Results]
      /\ timer' \in [Thread -> BOOLEAN]
      /\ call' \in [Thread -> Wait \cup {Nil}]
      /\ TreeOK' /\ CallsOK'
      /\ \A u \in Thread : state'[u] = "Waiting" =>
            state[u] = "Waiting" /\ u \notin X /\ call'[u] = call[u]
  <2>1. Leave(X, "Success")
    BY DEF X
  <2> QED BY <1>1, <1>2, <2>1, LeaveFacts
<1>4. TypeOK'
  <2>1. owes' \in [Thread -> Address \cup {Nil}]
    BY DEF IInv, TypeOK, Settled
  <2> QED BY <1>3, <2>1 DEF IInv, TypeOK
<1>5. FutexOK'
  <2> SUFFICES ASSUME guest = "futex", NEW u \in Thread, state'[u] = "Waiting" \/ schedLock' = u,
                      memory'[call'[u].addr] # call'[u].value
               PROVE  \E v \in Thread : owes'[v] = call'[u].addr
    BY DEF FutexOK
  <2>1. state[u] = "Waiting" /\ u \notin X /\ call'[u] = call[u]
    BY <1>2, <1>3
  <2>2. call[u].addr \in Address /\ key[u] = call[u].addr
    BY <2>1 DEF IInv, CallsOK, Wait
  <2>3. call[u].addr # a
    BY <1>1, <1>2, <2>1, <2>2
  <2>4. PICK v \in Thread : owes[v] = call[u].addr
    BY <2>1, <2>2, <2>3 DEF IInv, FutexOK
  <2>5. v # t
    BY <1>2, <2>2, <2>3, <2>4
  <2>6. owes'[v] = owes[v]
    BY <2>5 DEF IInv, TypeOK, Settled
  <2> QED BY <2>1, <2>4, <2>6
<1> QED BY <1>3, <1>4, <1>5 DEF IInv

\* Signal, SignalAndIncrementIfEqual, SignalAndModifyByWaitingCountIfEqual.
LEMMA SignalStep ==
    ASSUME IInv, NEW t \in Thread, NEW a \in Address, NEW count \in Counts,
           \/ Signal(t, a, count)
           \/ \E value \in Word : \/ SignalAndIncrementIfEqual(t, a, value, count)
                                  \/ SignalAndModifyByWaitingCountIfEqual(t, a, value, count),
           UNCHANGED guest
    PROVE  IInv'
<1>0. memory \in [Address -> Word] /\ Word \subseteq Int
  BY DEF IInv, TypeOK, Word
<1>1. CASE Signal(t, a, count)
  BY <1>0, <1>1, SignalKeepsIInv DEF Signal
<1>2. ASSUME NEW value \in Word, SignalAndIncrementIfEqual(t, a, value, count) PROVE IInv'
  <2>1. value + 1 \in Int
    BY <1>0
  <2>2. Wrap(value + 1) \in Word
    BY <2>1, WrapType
  <2>3. memory' = [memory EXCEPT ![a] = Wrap(value + 1)]
    BY <1>2 DEF SignalAndIncrementIfEqual
  <2>4. memory' \in [Address -> Word] /\ \A b \in Address : b # a => memory'[b] = memory[b]
    BY <1>0, <2>2, <2>3
  <2> QED BY <1>2, <2>4, SignalKeepsIInv DEF SignalAndIncrementIfEqual
<1>3. ASSUME NEW value \in Word, SignalAndModifyByWaitingCountIfEqual(t, a, value, count) PROVE IInv'
  <2>1. value + 1 \in Int /\ value - 1 \in Int /\ value - 2 \in Int
    BY <1>0
  <2>2. Wrap(value + 1) \in Word /\ Wrap(value - 1) \in Word /\ Wrap(value - 2) \in Word
    BY <2>1, WrapType
  <2>3. Cardinality(WaitersOf(a)) \in Nat /\ count \in Int
    <3>1. WaitersOf(a) \subseteq 1 .. Len(tree) /\ Len(tree) \in Nat
      BY TreeFacts DEF WaitersOf
    <3> QED BY <3>1, AheadFacts
  <2>4. ModifiedValue(a, value, count) \in Word
    <3> DEFINE n == Cardinality(WaitersOf(a))
    <3>1. n = 0 \/ (n > 0 /\ count <= 0) \/ (n > 0 /\ count > 0)
      BY <2>3
    <3> HIDE DEF n
    <3> QED BY <2>2, <3>1 DEF ModifiedValue, n
  <2>5. memory' = [memory EXCEPT ![a] = ModifiedValue(a, value, count)]
    BY <1>3 DEF SignalAndModifyByWaitingCountIfEqual
  <2>6. memory' \in [Address -> Word] /\ \A b \in Address : b # a => memory'[b] = memory[b]
    BY <1>0, <2>4, <2>5
  <2> QED BY <1>3, <2>6, SignalKeepsIInv DEF SignalAndModifyByWaitingCountIfEqual
<1> QED BY <1>1, <1>2, <1>3

\* RestorePriority: out of the tree and in again, at the new place.
LEMMA SetPriorityStep ==
    ASSUME IInv, NEW t \in Thread, NEW p \in Priority, SetPriority(t, p), UNCHANGED guest
    PROVE  IInv'
<1> USE DEF SetPriority
<1>1. p \in Priority /\ p \in Nat
  OBVIOUS
<1>2. /\ tree \in Seq(Thread) /\ Once(tree) /\ Ordered(tree, key, priority) /\ Range(tree) = Waiting
      /\ priority' \in [Thread -> Priority] /\ priority'[t] = p
      /\ \A u \in Thread : u # t => priority'[u] = priority[u]
  BY <1>1 DEF IInv, TypeOK, TreeOK
<1>3. /\ tree' \in Seq(Thread) /\ Once(tree') /\ Ordered(tree', key, priority')
      /\ Range(tree') = Waiting
  <2>1. CASE key[t] = Nil
    <3>1. tree' = tree
      BY <2>1 DEF TreeAfterPriority
    <3>2. \A i \in DOMAIN tree : tree[i] \in Thread /\ tree[i] # t
      BY <2>1, TreeFacts
    <3>3. Ordered(tree, key, priority')
      BY <1>2, <3>2 DEF Ordered
    <3> QED BY <1>2, <3>1, <3>3
  <2>2. CASE key[t] # Nil
    <3> DEFINE s == Erased(tree, {t})
               P == priority'
               a == key[t]
    <3>1. tree' = Inserted(s, t, a, p)
      BY <2>2 DEF TreeAfterPriority
    <3>2. s \in Seq(Thread) /\ Range(s) = Waiting \ {t}
      BY <1>2, ErasedFacts
    <3>3. Once(s) /\ Ordered(s, key, priority)
      BY <1>2, ErasedOrdered
    <3>4. t \in Waiting /\ a \in Nat
      BY <2>2 DEF IInv, TypeOK, CallsOK, Waiting
    <3>5. \A u \in Waiting : key[u] \in Nat /\ priority[u] \in Nat
      BY DEF IInv, TypeOK, CallsOK, Waiting
    <3>6. P[t] = p /\ \A u \in Thread : u # t => key[u] = key[u] /\ P[u] = priority[u]
      BY <1>2
    <3> HIDE DEF s, P, a
    <3>7. \A i \in DOMAIN s : key[s[i]] \in Nat /\ priority[s[i]] \in Nat
      BY <3>2, <3>5 DEF Range
    <3>8. key[t] = a /\ t \notin Range(s)
      BY <3>2 DEF a
    <3> HIDE DEF SetPriority
    <3>9. /\ Inserted(s, t, a, p) \in Seq(Thread)
          /\ Range(Inserted(s, t, a, p)) = Range(s) \cup {t}
          /\ Once(Inserted(s, t, a, p))
          /\ Ordered(Inserted(s, t, a, p), key, P)
      BY <1>1, <3>2, <3>3, <3>4, <3>6, <3>7, <3>8, InsertedFacts
    <3>10. Range(s) \cup {t} = Waiting
      BY <3>2, <3>4
    <3> QED BY <3>1, <3>9, <3>10 DEF P
  <2> QED BY <2>1, <2>2
<1>4. TypeOK'
  BY <1>2, <1>3 DEF IInv, TypeOK
<1>5. TreeOK'
  <2>1. Waiting' = Waiting /\ key' = key
    BY DEF Waiting
  <2> QED BY <1>3, <2>1 DEF TreeOK
<1>6. CallsOK' /\ FutexOK'
  BY DEF IInv, CallsOK, FutexOK, Running
<1> QED BY <1>4, <1>5, <1>6 DEF IInv

\* A store by a futex guest leaves a signal owed.
LEMMA GuestStoreStep ==
    ASSUME IInv, NEW t \in Thread, NEW a \in Address, NEW value \in Values, GuestStore(t, a, value),
           UNCHANGED guest
    PROVE  IInv'
<1> USE DEF GuestStore
<1>1. TypeOK'
  <2>1. value \in Word
    BY DEF Word
  <2> QED BY <2>1 DEF IInv, TypeOK
<1>2. TreeOK'
  BY TreeKeptFacts
<1>3. CallsOK'
  BY DEF IInv, CallsOK, Running
<1>4. FutexOK'
  <2> SUFFICES ASSUME guest = "futex", NEW u \in Thread, state[u] = "Waiting" \/ schedLock = u,
                      memory'[call[u].addr] # call[u].value
               PROVE  \E v \in Thread : owes'[v] = call[u].addr
    BY DEF FutexOK
  <2>1. call[u].addr \in Address
    BY DEF IInv, CallsOK, Wait
  <2>2. CASE call[u].addr = a
    BY <2>2 DEF IInv, TypeOK
  <2>3. CASE call[u].addr # a
    <3>1. memory[call[u].addr] # call[u].value
      BY <2>1, <2>3 DEF IInv, TypeOK
    <3>2. PICK v \in Thread : owes[v] = call[u].addr
      BY <3>1 DEF IInv, FutexOK
    <3>3. v # t /\ owes'[v] = owes[v]
      BY <2>1, <3>2 DEF IInv, TypeOK
    <3> QED BY <3>2, <3>3
  <2> QED BY <2>2, <2>3
<1> QED BY <1>1, <1>2, <1>3, <1>4 DEF IInv

\* Every step keeps the invariant.
LEMMA IInvHolds == Spec => []IInv
<1>1. IInv /\ [Next]_vars => IInv'
  <2> SUFFICES ASSUME IInv, [Next]_vars PROVE IInv'
    OBVIOUS
  <2>1. CASE Next
    BY <2>1, WaitReadStep, WaitBlockStep, ReturnStep, CancelStep, SignalStep, SetPriorityStep,
       GuestStoreStep DEF Next, Step
  <2>2. CASE UNCHANGED vars
    BY <2>2 DEF vars, IInv, TypeOK, TreeOK, Once, Ordered, Waiting, CallsOK, Running, FutexOK
  <2> QED BY <2>1, <2>2
<1> QED BY <1>1, InitIInv, PTL DEF Spec

-----------------------------------------------------------------------------
(* The theorems *)

\* m_tree holds exactly the threads that wait, each once and in the order of
\* its comparator, whatever waits, signals, timeouts, terminations and priority
\* changes came before (k_address_arbiter.cpp, KThread::RestorePriority).
THEOREM TreeMatchesWaitersHolds == Spec => []TreeMatchesWaiters
<1>1. IInv => TreeMatchesWaiters
  BY DEF IInv, TreeOK, CallsOK, Once, Ordered, Waiting, TreeMatchesWaiters
<1> QED BY <1>1, IInvHolds, PTL

\* No wake-up of a futex is lost between the read of the word in WaitIfEqual
\* and the thread's sleep.
THEOREM NoLostWakeupHolds == Spec => []NoLostWakeup
<1>1. IInv => NoLostWakeup
  BY DEF IInv, CallsOK, FutexOK, NoLostWakeup
<1> QED BY <1>1, IInvHolds, PTL

\* Who is not woken is behind everyone who is, and so no more urgent.
LEMMA WokenFirst ==
    ASSUME IInv, NEW a \in Address, NEW count \in Int, NEW u \in Woken(a, count),
           NEW w \in Thread, key[w] = a, w \notin Woken(a, count)
    PROVE  priority[u] <= priority[w]
<1> DEFINE S == WaitersOf(a)
<1>1. S \subseteq 1 .. Len(tree) /\ Len(tree) \in Nat /\ S \subseteq DOMAIN tree
  BY TreeFacts DEF WaitersOf
<1>2. PICK i \in S : u = tree[i] /\ (count <= 0 \/ Cardinality(Ahead(S, i)) < count)
  BY DEF Woken
<1>3. PICK j \in S : w = tree[j]
  BY TreeFacts DEF WaitersOf
<1>4. ~ (count <= 0) /\ ~ (Cardinality(Ahead(S, j)) < count)
  BY <1>3 DEF Woken
<1> HIDE DEF S
<1>5. i \in Int /\ j \in Int /\ i \in DOMAIN tree /\ j \in DOMAIN tree
  BY <1>1
<1>6. /\ Cardinality(Ahead(S, i)) \in Int /\ Cardinality(Ahead(S, j)) \in Int
      /\ j < i => Cardinality(Ahead(S, j)) < Cardinality(Ahead(S, i))
  <2>1. /\ Cardinality(S) \in Nat
        /\ \A m \in S : Cardinality(Ahead(S, m)) \in 0 .. Cardinality(S) - 1
        /\ \A m, n \in S : m < n => Cardinality(Ahead(S, m)) < Cardinality(Ahead(S, n))
    BY <1>1, AheadFacts
  <2> QED BY <2>1
<1>7. i < j
  BY <1>2, <1>3, <1>4, <1>5, <1>6
<1>8. ~ Before(key[w], priority[w], key[u], priority[u])
  BY <1>2, <1>3, <1>5, <1>7 DEF IInv, TreeOK, Ordered
<1>9. priority[u] \in Nat /\ priority[w] \in Nat /\ key[u] = a
  BY <1>2, <1>3, <1>5, TreeFacts, WokenFacts
<1> QED BY <1>8, <1>9 DEF Before

\* Only a signal ends a wait with success.
LEMMA SuccessIsSignal ==
    ASSUME IInv, Next, NEW u \in Thread, waitResult[u] = "None", waitResult'[u] = "Success"
    PROVE  \E a \in Address, count \in Counts :
              Leave(Woken(a, count), "Success") /\ u \in Woken(a, count)
<1>1. waitResult \in [Thread -> Results]
  BY DEF IInv, TypeOK
<1>2. ASSUME NEW a \in Address, NEW count \in Counts, Leave(Woken(a, count), "Success")
      PROVE  u \in Woken(a, count)
  BY <1>2 DEF Leave
<1>3. ASSUME NEW t \in Thread, NEW a \in Address, NEW count \in Counts,
             \/ Signal(t, a, count)
             \/ \E value \in Word : \/ SignalAndIncrementIfEqual(t, a, value, count)
                                    \/ SignalAndModifyByWaitingCountIfEqual(t, a, value, count)
      PROVE  \E b \in Address, n \in Counts : Leave(Woken(b, n), "Success") /\ u \in Woken(b, n)
  <2>1. Leave(Woken(a, count), "Success")
    BY <1>3 DEF Signal, SignalAndIncrementIfEqual, SignalAndModifyByWaitingCountIfEqual
  <2> QED BY <1>2, <2>1
<1>4. ASSUME NEW t \in Thread, NEW c \in Call, WaitRead(t, c) PROVE FALSE
  BY <1>4 DEF WaitRead
<1>5. ASSUME NEW t \in Thread, WaitBlock(t) \/ Return(t) PROVE FALSE
  BY <1>1, <1>5 DEF WaitBlock, Return
<1>6. ASSUME NEW t \in Thread, OnTimer(t) \/ RequestTerminate(t) PROVE FALSE
  BY <1>6 DEF OnTimer, RequestTerminate, Leave
<1>7. ASSUME NEW t \in Thread, NEW p \in Priority, SetPriority(t, p) PROVE FALSE
  BY <1>7 DEF SetPriority
<1>8. ASSUME NEW t \in Thread, NEW a \in Address, NEW value \in Values, GuestStore(t, a, value)
      PROVE  FALSE
  BY <1>8 DEF GuestStore
<1> QED BY <1>3, <1>4, <1>5, <1>6, <1>7, <1>8 DEF Next, Step

\* What the counting signal leaves in the word.
LEMMA WordFacts ==
    ASSUME IInv, NEW t \in Thread, NEW a \in Address, NEW value \in Word, NEW count \in Counts,
           count > 0, SignalAndModifyByWaitingCountIfEqual(t, a, value, count)
    PROVE  LET before == {w \in Thread : key[w] = a}
               after == {w \in Thread : key'[w] = a}
           IN  \/ memory'[a] = value /\ after # {}
               \/ memory'[a] = Wrap(value - 1) /\ after = {} /\ before # {}
               \/ memory'[a] = Wrap(value + 1) /\ before = {}
<1> DEFINE S == WaitersOf(a)
           n == Cardinality(S)
           before == {w \in Thread : key[w] = a}
           after == {w \in Thread : key'[w] = a}
<1>1. S \subseteq 1 .. Len(tree) /\ Len(tree) \in Nat
  BY TreeFacts DEF WaitersOf
<1>2. \A i \in S : i \in DOMAIN tree /\ tree[i] \in Thread /\ key[tree[i]] = a
  BY TreeFacts DEF WaitersOf
<1>3. \A w \in before : \E i \in S : tree[i] = w
  BY TreeFacts DEF WaitersOf
<1>4. \A i \in S : tree[i] \in Woken(a, count) <=> Cardinality(Ahead(S, i)) < count
  <2>1. ASSUME NEW i \in S, Cardinality(Ahead(S, i)) < count PROVE tree[i] \in Woken(a, count)
    BY <2>1 DEF Woken
  <2>2. ASSUME NEW i \in S, tree[i] \in Woken(a, count) PROVE Cardinality(Ahead(S, i)) < count
    <3>1. PICK j \in S : tree[i] = tree[j] /\ (count <= 0 \/ Cardinality(Ahead(S, j)) < count)
      BY <2>2 DEF Woken
    <3> HIDE DEF S
    <3>2. i = j
      <4>1. i \in Int /\ j \in Int /\ i \in DOMAIN tree /\ j \in DOMAIN tree
        BY <1>1, <1>2
      <4> QED BY <3>1, <4>1 DEF IInv, TreeOK, Once
    <3>3. ~ (count <= 0)
      OBVIOUS
    <3> QED BY <3>1, <3>2, <3>3
  <2> QED BY <2>1, <2>2
<1>5. after = before \ Woken(a, count)
  BY DEF SignalAndModifyByWaitingCountIfEqual, Leave
<1>6. memory'[a] = ModifiedValue(a, value, count)
  BY DEF SignalAndModifyByWaitingCountIfEqual, IInv, TypeOK
<1> HIDE DEF S, n, before, after
<1>7. /\ n \in Nat /\ count \in Int
      /\ IsFiniteSet(S)
      /\ \A i \in S : Cardinality(Ahead(S, i)) \in 0 .. n - 1
      /\ \A m \in 1 .. n : \E i \in S : Cardinality(Ahead(S, i)) = m - 1
  BY <1>1, AheadFacts DEF n
<1>8. CASE n = 0
  <2>1. memory'[a] = Wrap(value + 1)
    BY <1>6, <1>8 DEF ModifiedValue, n, S
  <2>2. S = {}
    BY <1>7, <1>8
  <2> QED BY <1>3, <2>1, <2>2 DEF before
<1>9. CASE n > 0 /\ n - 1 < count
  <2>1. memory'[a] = Wrap(value - 1)
    <3>1. n # 0 /\ ~ (count <= 0)
      BY <1>7, <1>9
    <3> QED BY <1>6, <1>9, <3>1 DEF ModifiedValue, n, S
  <2>2. \A i \in S : tree[i] \in Woken(a, count)
    BY <1>4, <1>7, <1>9
  <2>3. after = {}
    BY <1>3, <1>5, <2>2
  <2>4. before # {}
    <3>1. 1 \in 1 .. n
      BY <1>7, <1>9
    <3>2. PICK i \in S : TRUE
      BY <1>7, <3>1
    <3> QED BY <1>2, <3>2 DEF before
  <2> QED BY <2>1, <2>3, <2>4 DEF before, after
<1>10. CASE n > 0 /\ ~ (n - 1 < count)
  <2>1. memory'[a] = value
    <3>1. n # 0 /\ ~ (count <= 0)
      BY <1>7, <1>10
    <3> QED BY <1>6, <1>10, <3>1 DEF ModifiedValue, n, S
  <2>2. PICK i \in S : Cardinality(Ahead(S, i)) = n - 1
    BY <1>7, <1>10
  <2>3. tree[i] \notin Woken(a, count)
    BY <1>4, <1>10, <2>2
  <2>4. tree[i] \in after
    BY <1>2, <1>5, <2>3 DEF before
  <2> QED BY <2>1, <2>4 DEF after
<1> QED BY <1>7, <1>8, <1>9, <1>10

\* A signal wakes the most urgent waiters of its word, and
\* SignalAndModifyByWaitingCountIfEqual leaves in the word whether somebody
\* still waits, for any number of threads and any count.
THEOREM SignalsAsPromisedHolds == Spec => SignalsAsPromised
<1> DEFINE Urgent ==
             \A u \in Thread : waitResult[u] = "None" /\ waitResult'[u] = "Success" =>
                \A w \in Thread : key[w] = key[u] /\ key'[w] = key[w] => priority[u] <= priority[w]
           Told ==
             \A t \in Thread, a \in Address, value \in Word, count \in Counts :
                count > 0 /\ SignalAndModifyByWaitingCountIfEqual(t, a, value, count) =>
                    LET before == {w \in Thread : key[w] = a}
                        after == {w \in Thread : key'[w] = a}
                    IN  \/ memory'[a] = value /\ after # {}
                        \/ memory'[a] = Wrap(value - 1) /\ after = {} /\ before # {}
                        \/ memory'[a] = Wrap(value + 1) /\ before = {}
<1>1. IInv /\ [Next]_vars => [Urgent]_vars
  <2> SUFFICES ASSUME IInv, Next, NEW u \in Thread,
                      waitResult[u] = "None", waitResult'[u] = "Success",
                      NEW w \in Thread, key[w] = key[u], key'[w] = key[w]
               PROVE  priority[u] <= priority[w]
    OBVIOUS
  <2>1. PICK a \in Address, count \in Counts :
            Leave(Woken(a, count), "Success") /\ u \in Woken(a, count)
    BY SuccessIsSignal
  <2>2. count \in Int /\ key[u] = a
    BY <2>1, WokenFacts
  <2>3. w \notin Woken(a, count)
    BY <2>1, <2>2 DEF Leave
  <2> QED BY <2>1, <2>2, <2>3, WokenFirst
<1>2. IInv => Told
  BY WordFacts
<1>3. IInv /\ [Next]_vars => [Told]_vars
  BY <1>2
<1>4. Spec => [][Urgent]_vars
  BY <1>1, IInvHolds, PTL DEF Spec
<1>5. Spec => [][Told]_vars
  BY <1>3, IInvHolds, PTL DEF Spec
<1> QED BY <1>4, <1>5 DEF SignalsAsPromised, WakesMostUrgent, WordTellsWaiters
=============================================================================
