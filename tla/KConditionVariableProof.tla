---------------------- MODULE KConditionVariableProof ----------------------
(***************************************************************************)
(* Proofs about KConditionVariable, for any number of threads, locks and   *)
(* condition variables and any priorities: mutual exclusion of the guest's *)
(* locks, waiters known to the owner of their lock, priority inheritance,  *)
(* and no blocked thread that nobody can find.                             *)
(*                                                                         *)
(* The first part is about RestorePriority alone: if everybody but t has   *)
(* the priority owed, then RestorePriority(t) settles everybody, whatever  *)
(* the shape of the waits-for relation.  The second part is the inductive  *)
(* invariant, with one lemma per action.                                   *)
(***************************************************************************)
EXTENDS KConditionVariable, WellFoundedInduction, FiniteSetTheorems, TLAPS

(* RestorePriority settles everybody.  o maps threads to the owner they    *)
(* wait for, b and p to their base and current priority.                   *)

\* Every nonempty set of numbers has a least member: the provers' induction.
LEMMA LeastNumber ==
    ASSUME NEW S, S \subseteq Nat, S # {}
    PROVE  \E n \in S : \A m \in S : n <= m
<1>1. IsWellFoundedOn(OpToRel(<, Nat), Nat)
  BY NatLessThanWellFounded
<1>2. PICK n \in S : \A m \in S : ~ (<<m, n>> \in OpToRel(<, Nat))
  BY <1>1, WFMin
<1>3. \A m \in S : ~ (m < n)
  BY <1>2 DEF OpToRel
<1> QED BY <1>3

Owners == [Thread -> Thread \cup {NoThread}]
Prios == [Thread -> Nat]

\* n is the best of the base priority of t and the priorities of its waiters.
Best(o, b, p, t, n) ==
    /\ n \in Nat /\ n <= b[t]
    /\ \A w \in Thread : o[w] = t => n <= p[w]
    /\ n = b[t] \/ \E w \in Thread : o[w] = t /\ p[w] = n

\* The priority of t is the one it should have.
Settled(o, b, p, t) == Best(o, b, p, t, p[t])

\* InheritedPriority, a Min over the waiters, is that best priority and the
\* only one.
LEMMA InheritedIsBest ==
    ASSUME NEW o \in Owners, NEW b \in Prios, NEW p \in Prios, NEW t \in Thread
    PROVE  /\ Best(o, b, p, t, InheritedPriority(o, p, b, t))
           /\ \A n : Best(o, b, p, t, n) => n = InheritedPriority(o, p, b, t)
<1> DEFINE S == {b[t]} \cup {p[w] : w \in Waiters(o, t)}
<1>1. S \subseteq Nat /\ S # {}
  BY DEF Prios, Waiters
<1>2. PICK n \in S : \A m \in S : n <= m
  <2> HIDE DEF S
  <2> QED BY <1>1, LeastNumber
<1>3. \A m : m \in S <=> m = b[t] \/ \E w \in Thread : o[w] = t /\ m = p[w]
  BY DEF Waiters
<1> HIDE DEF S
<1>4. /\ Min(S) \in S /\ \A m \in S : Min(S) <= m
  BY <1>2 DEF Min
<1>5. InheritedPriority(o, p, b, t) = Min(S)
  BY DEF InheritedPriority, S
<1>6. Best(o, b, p, t, Min(S))
  BY <1>1, <1>3, <1>4 DEF Best
<1>7. ASSUME NEW n1, Best(o, b, p, t, n1) PROVE n1 = Min(S)
  <2>1. n1 \in S /\ \A m \in S : n1 <= m
    BY <1>3, <1>7 DEF Best
  <2>2. n1 \in Nat /\ Min(S) \in Nat /\ n1 <= Min(S) /\ Min(S) <= n1
    BY <1>1, <1>4, <2>1
  <2> QED BY <2>2
<1> QED BY <1>5, <1>6, <1>7

\* Everybody in L but t is settled, and whoever is waited for is in L.
AllBut(o, b, p, t, L) ==
    /\ o \in Owners /\ b \in Prios /\ p \in Prios
    /\ L \in SUBSET Thread
    /\ \A x \in L : o[x] \in L \cup {NoThread}
    /\ \A x \in L \ {t} : Settled(o, b, p, x)

\* The loop has ended with everybody settled.
Finished(o, b, L, c) ==
    /\ c.thread = NoThread
    /\ AllBut(o, b, c.prios, NoThread, L)

\* The loop is at c.thread after the threads in V went down to n.
Lowering(o, b, p, t, L, c, V, n) ==
    /\ V \in SUBSET L /\ t \in V /\ n \in Nat
    /\ c.prios = [x \in Thread |-> IF x \in V THEN n ELSE p[x]]
    /\ \A x \in V : n < p[x]
    /\ n <= b[t] /\ \A w \in Thread : o[w] = t => n <= p[w]
    /\ c.thread \in L \cup {NoThread}
    /\ c.thread \in L => \E w \in V : o[w] = c.thread
    /\ AllBut(o, b, c.prios, c.thread, L)

\* The loop is at c.thread after the numbers of the threads in V went up.
Raising(o, b, p, t, L, c, V) ==
    /\ V \in SUBSET L /\ t \in V
    /\ \A x \in V : c.prios[x] > p[x]
    /\ \A x \in Thread \ V : c.prios[x] = p[x]
    /\ c.thread \in L \cup {NoThread} /\ c.thread \notin V
    /\ c.thread \in L => \A x \in V : p[c.thread] <= p[x]
    /\ AllBut(o, b, c.prios, c.thread, L)

\* One turn of the loop settles its thread and leaves only the next one open.
LEMMA StepSettles ==
    ASSUME NEW o, NEW b, NEW p, NEW L, NEW t \in L, AllBut(o, b, p, t, L),
           NEW c, c = [prios |-> p, thread |-> t], NEW n, n = InheritedPriority(o, p, b, t)
    PROVE  /\ Best(o, b, p, t, n)
           /\ n = p[t] => /\ RestoreStep(o, b, c) = [prios |-> p, thread |-> NoThread]
                          /\ Finished(o, b, L, RestoreStep(o, b, c))
           /\ n # p[t] => /\ RestoreStep(o, b, c) = [prios |-> [p EXCEPT ![t] = n], thread |-> o[t]]
                          /\ AllBut(o, b, [p EXCEPT ![t] = n], o[t], L)
<1> USE ThreadAssumption
<1>0. o \in Owners /\ b \in Prios /\ p \in Prios /\ t \in Thread /\ t # NoThread /\ L \in SUBSET Thread
  BY DEF AllBut
<1>1. Best(o, b, p, t, n)
  BY <1>0, InheritedIsBest
<1>2. c.prios = p /\ c.thread = t
  OBVIOUS
<1>3. ASSUME n = p[t]
      PROVE  /\ RestoreStep(o, b, c) = [prios |-> p, thread |-> NoThread]
             /\ Finished(o, b, L, RestoreStep(o, b, c))
  <2>1. RestoreStep(o, b, c) = [prios |-> p, thread |-> NoThread]
    BY <1>0, <1>2, <1>3 DEF RestoreStep
  <2>2. Settled(o, b, p, t)
    BY <1>1, <1>3 DEF Settled
  <2>3. AllBut(o, b, p, NoThread, L)
    BY <2>2 DEF AllBut
  <2> QED BY <2>1, <2>3 DEF Finished
<1>4. ASSUME n # p[t]
      PROVE  /\ RestoreStep(o, b, c) = [prios |-> [p EXCEPT ![t] = n], thread |-> o[t]]
             /\ AllBut(o, b, [p EXCEPT ![t] = n], o[t], L)
  <2>1. RestoreStep(o, b, c) = [prios |-> [p EXCEPT ![t] = n], thread |-> o[t]]
    BY <1>0, <1>2, <1>4 DEF RestoreStep
  <2> DEFINE q == [p EXCEPT ![t] = n]
  <2>2. q \in Prios /\ q[t] = n /\ \A x \in Thread \ {t} : q[x] = p[x]
    BY <1>0, <1>1 DEF Prios, Best
  <2> HIDE DEF q
  <2>3. ASSUME NEW x \in L \ {o[t]} PROVE Settled(o, b, q, x)
    <3>1. CASE x = t
      BY <1>0, <1>1, <2>2, <2>3, <3>1 DEF Settled, Best
    <3>2. CASE x # t
      <4>1. Settled(o, b, p, x)
        BY <3>2 DEF AllBut
      <4> QED BY <1>0, <2>2, <2>3, <3>2, <4>1 DEF Settled, Best
    <3> QED BY <3>1, <3>2
  <2>4. AllBut(o, b, q, o[t], L)
    BY <1>0, <2>2, <2>3 DEF AllBut
  <2> QED BY <2>1, <2>4 DEF q
<1> QED BY <1>1, <1>3, <1>4

\* After the first turn of RestorePriority's loop either everybody is settled,
\* or the climb lowers or it raises priorities, and keeps doing so.
LEMMA FirstStep ==
    ASSUME NEW o, NEW b, NEW p, NEW L, NEW t \in L, AllBut(o, b, p, t, L),
           NEW c, c = RestoreStep(o, b, [prios |-> p, thread |-> t])
    PROVE  \/ Finished(o, b, L, c)
           \/ \E n \in Nat : Lowering(o, b, p, t, L, c, {t}, n)
           \/ Raising(o, b, p, t, L, c, {t})
<1> USE ThreadAssumption
<1> DEFINE n == InheritedPriority(o, p, b, t)
<1>0. o \in Owners /\ b \in Prios /\ p \in Prios /\ t \in Thread /\ t # NoThread /\ L \in SUBSET Thread
      /\ p[t] \in Nat /\ o[t] \in L \cup {NoThread}
  BY DEF AllBut, Prios
<1>1. /\ Best(o, b, p, t, n)
      /\ n = p[t] => Finished(o, b, L, c)
      /\ n # p[t] => /\ c = [prios |-> [p EXCEPT ![t] = n], thread |-> o[t]]
                     /\ AllBut(o, b, [p EXCEPT ![t] = n], o[t], L)
  BY StepSettles
<1> HIDE DEF n
<1>2. CASE n = p[t]
  BY <1>1, <1>2
<1>3. ASSUME n # p[t]
      PROVE /\ c.thread = o[t] /\ c.prios = [x \in Thread |-> IF x \in {t} THEN n ELSE p[x]]
            /\ AllBut(o, b, c.prios, c.thread, L) /\ n \in Nat
  <2>0. c = [prios |-> [p EXCEPT ![t] = n], thread |-> o[t]]
    BY <1>1, <1>3
  <2>1. c.thread = o[t] /\ c.prios = [p EXCEPT ![t] = n] /\ n \in Nat
    <3>1. c.thread = o[t]
      BY <2>0
    <3>2. c.prios = [p EXCEPT ![t] = n]
      <4> DEFINE r == [p EXCEPT ![t] = n]
      <4>1. c = [prios |-> r, thread |-> o[t]]
        BY <2>0
      <4> HIDE DEF r
      <4>2. c.prios = r
        BY <4>1
      <4> QED BY <4>2 DEF r
    <3> QED BY <1>1, <3>1, <3>2 DEF Best
  <2>2. [p EXCEPT ![t] = n] = [x \in Thread |-> IF x \in {t} THEN n ELSE p[x]]
    BY <1>0 DEF Prios
  <2> QED BY <1>1, <1>3, <2>1, <2>2
<1>4. CASE n < p[t]
  <2>1. Lowering(o, b, p, t, L, c, {t}, n)
    BY <1>0, <1>1, <1>3, <1>4 DEF Lowering, Best
  <2> QED BY <1>1, <2>1 DEF Best
<1>5. CASE n > p[t]
  <2>1. o[t] # t
    BY <1>0, <1>1, <1>5 DEF Best
  <2>2. ASSUME o[t] \in L PROVE p[o[t]] <= p[t]
    <3>1. Settled(o, b, p, o[t])
      BY <2>1, <2>2 DEF AllBut
    <3> QED BY <1>0, <3>1 DEF Settled, Best
  <2> QED BY <1>0, <1>3, <1>5, <2>1, <2>2 DEF Raising
<1> QED BY <1>0, <1>1, <1>2, <1>4, <1>5 DEF Best

\* A climb that lowers (improves) priorities gives every thread it visits the
\* same number, so a thread visited before ends it: cycles of owners included.
LEMMA LoweringStep ==
    ASSUME NEW o, NEW b, NEW p, NEW L, NEW t \in L, AllBut(o, b, p, t, L),
           NEW c, c = [prios |-> c.prios, thread |-> c.thread], NEW V, NEW n, Lowering(o, b, p, t, L, c, V, n)
    PROVE  /\ c.thread \in V \cup {NoThread} => Finished(o, b, L, RestoreStep(o, b, c))
                                                /\ AllBut(o, b, c.prios, NoThread, L)
           /\ \/ Finished(o, b, L, RestoreStep(o, b, c))
              \/ Lowering(o, b, p, t, L, RestoreStep(o, b, c), V \cup {c.thread}, n) /\ c.thread \in L \ V
<1> USE ThreadAssumption
<1> DEFINE u == c.thread
           q == c.prios
           d == RestoreStep(o, b, c)
<1>0. /\ o \in Owners /\ b \in Prios /\ p \in Prios /\ L \in SUBSET Thread /\ NoThread \notin L
      /\ q \in Prios /\ n \in Nat /\ V \in SUBSET L /\ AllBut(o, b, q, u, L)
      /\ u \in L \cup {NoThread} /\ t \in V
      /\ \A x \in Thread : q[x] \in Nat /\ p[x] \in Nat /\ b[x] \in Nat
      /\ \A x \in V : q[x] = n /\ n < p[x]
      /\ \A x \in Thread \ V : q[x] = p[x]
      /\ n <= b[t] /\ \A w \in Thread : o[w] = t => n <= p[w]
  BY DEF AllBut, Prios, Lowering
<1>a. c = [prios |-> q, thread |-> u]
  OBVIOUS
<1>b. u \in L => \E w \in V : o[w] = u
  BY DEF Lowering
<1>c. \A x \in L \ {t} : Settled(o, b, p, x)
  BY DEF AllBut
<1> HIDE DEF u, q
<1> DEFINE m == InheritedPriority(o, q, b, u)
<1>d. ASSUME u \in L
      PROVE  /\ Best(o, b, q, u, m)
             /\ m = q[u] => Finished(o, b, L, d)
             /\ m # q[u] => /\ d = [prios |-> [q EXCEPT ![u] = m], thread |-> o[u]]
                            /\ AllBut(o, b, [q EXCEPT ![u] = m], o[u], L)
  BY <1>0, <1>a, <1>d, StepSettles
<1>1. CASE u = NoThread
  <2>1. d = c
    BY <1>a, <1>1 DEF RestoreStep, u
  <2>2. Finished(o, b, L, c)
    BY <1>0, <1>1 DEF Finished, u, q
  <2> QED BY <1>0, <1>1, <2>1, <2>2 DEF u, q
<1>2. CASE u \in V
  <2>1. PICK w \in V : o[w] = u
    BY <1>0, <1>2, <1>b
  <2>2. n <= b[u] /\ \A v \in Thread : o[v] = u => n <= p[v]
    <3>1. CASE u = t
      BY <1>0, <3>1
    <3>2. CASE u # t
      <4>1. Settled(o, b, p, u)
        BY <1>0, <1>2, <1>c, <3>2
      <4>2. u \in Thread /\ p[u] \in Nat /\ b[u] \in Nat /\ n < p[u] /\ p[u] <= b[u]
        BY <1>0, <1>2, <4>1 DEF Settled, Best
      <4>3. ASSUME NEW v \in Thread, o[v] = u PROVE n <= p[v]
        <5>1. p[u] <= p[v]
          BY <4>1, <4>3 DEF Settled, Best
        <5> QED BY <1>0, <4>2, <5>1
      <4> QED BY <1>0, <4>2, <4>3
    <3> QED BY <3>1, <3>2
  <2>3. \A v \in Thread : o[v] = u => n <= q[v]
    BY <1>0, <2>2
  <2>4. Settled(o, b, q, u)
    BY <1>0, <1>2, <2>1, <2>2, <2>3 DEF Settled, Best
  <2>5. AllBut(o, b, q, NoThread, L)
    BY <1>0, <1>2, <2>4 DEF AllBut
  <2>6. q[u] = InheritedPriority(o, q, b, u)
    BY <1>0, <1>2, <2>4, InheritedIsBest DEF Settled
  <2>7. Finished(o, b, L, d)
    <3>1. u \in L
      BY <1>0, <1>2
    <3> QED BY <1>d, <2>6, <3>1
  <2> QED BY <2>5, <2>7 DEF q
<1>3. CASE u \in L \ V
  <2>1. /\ Best(o, b, q, u, m)
        /\ m = q[u] => Finished(o, b, L, d)
        /\ m # q[u] => /\ d = [prios |-> [q EXCEPT ![u] = m], thread |-> o[u]]
                       /\ AllBut(o, b, [q EXCEPT ![u] = m], o[u], L)
    BY <1>3, <1>d
  <2>2. CASE m = q[u]
    BY <1>0, <1>3, <2>1, <2>2 DEF u
  <2>3. CASE m # q[u]
    <3> HIDE DEF m
    <3>1. Settled(o, b, p, u)
      BY <1>0, <1>3, <1>c
    <3>2. u \in Thread /\ q[u] = p[u] /\ m \in Nat /\ p[u] \in Nat
      BY <1>0, <1>3, <2>1 DEF Best
    <3>5. m < p[u]
      <4>1. CASE p[u] = b[u]
        BY <1>0, <2>1, <3>2, <4>1, <2>3 DEF Best
      <4>2. CASE p[u] # b[u]
        <5>1. PICK x \in Thread : o[x] = u /\ p[x] = p[u]
          BY <3>1, <4>2 DEF Settled, Best
        <5>2. q[x] <= p[x] /\ m <= q[x]
          BY <1>0, <2>1, <5>1 DEF Best
        <5> QED BY <1>0, <2>3, <3>2, <5>1, <5>2
      <4> QED BY <4>1, <4>2
    <3>6. m = n /\ n < p[u]
      <4>1. m # b[u]
        BY <1>0, <3>1, <3>2, <3>5 DEF Settled, Best
      <4>2. PICK v \in Thread : o[v] = u /\ q[v] = m
        BY <2>1, <4>1 DEF Best
      <4>3. v \in V
        <5> SUFFICES ASSUME v \notin V PROVE FALSE
          OBVIOUS
        <5>1. p[u] <= m
          BY <1>0, <3>1, <4>2 DEF Settled, Best
        <5> QED BY <3>2, <3>5, <5>1
      <4> QED BY <1>0, <3>5, <4>2, <4>3
    <3>7. d.prios = [q EXCEPT ![u] = n] /\ d.thread = o[u] /\ AllBut(o, b, d.prios, d.thread, L)
      BY <2>1, <2>3, <3>6
    <3>8. d.prios = [x \in Thread |-> IF x \in V \cup {u} THEN n ELSE p[x]]
      BY <1>0, <3>7 DEF Prios
    <3>9. o[u] \in L \cup {NoThread}
      BY <1>0, <1>3 DEF AllBut
    <3>10. Lowering(o, b, p, t, L, d, V \cup {u}, n)
      <4> HIDE DEF d
      <4> QED BY <1>0, <1>3, <3>6, <3>7, <3>8, <3>9 DEF Lowering
    <3> QED BY <1>0, <1>3, <3>10 DEF u
  <2> QED BY <2>2, <2>3
<1> QED BY <1>0, <1>1, <1>2, <1>3

\* A climb that raises numbers (an owner that loses a waiter) visits no thread
\* twice: the next one had at most the old number of those before it.
LEMMA RaisingStep ==
    ASSUME NEW o, NEW b, NEW p, NEW L, NEW t \in L, AllBut(o, b, p, t, L),
           NEW c, c = [prios |-> c.prios, thread |-> c.thread], NEW V, Raising(o, b, p, t, L, c, V)
    PROVE  /\ c.thread = NoThread => RestoreStep(o, b, c) = c /\ Finished(o, b, L, c)
           /\ \/ Finished(o, b, L, RestoreStep(o, b, c))
              \/ Raising(o, b, p, t, L, RestoreStep(o, b, c), V \cup {c.thread}) /\ c.thread \in L \ V
<1> USE ThreadAssumption
<1> DEFINE u == c.thread
           q == c.prios
           d == RestoreStep(o, b, c)
<1>0. /\ o \in Owners /\ b \in Prios /\ p \in Prios /\ L \in SUBSET Thread /\ NoThread \notin L
      /\ q \in Prios /\ V \in SUBSET L /\ AllBut(o, b, q, u, L)
      /\ u \in L \cup {NoThread} /\ u \notin V /\ t \in V
      /\ \A x \in Thread : q[x] \in Nat /\ p[x] \in Nat /\ b[x] \in Nat
      /\ \A x \in V : q[x] > p[x]
      /\ \A x \in Thread \ V : q[x] = p[x]
      /\ u \in L => \A x \in V : p[u] <= p[x]
  BY DEF AllBut, Prios, Raising
<1>a. c = [prios |-> q, thread |-> u]
  OBVIOUS
<1>c. \A x \in L \ {t} : Settled(o, b, p, x)
  BY DEF AllBut
<1> HIDE DEF u, q
<1>1. CASE u = NoThread
  <2>1. d = c
    BY <1>a, <1>1 DEF RestoreStep, u
  <2>2. Finished(o, b, L, c)
    BY <1>0, <1>1 DEF Finished, u, q
  <2> QED BY <1>0, <1>1, <2>1, <2>2 DEF u, q
<1>3. CASE u \in L
  <2> DEFINE m == InheritedPriority(o, q, b, u)
  <2>1. /\ Best(o, b, q, u, m)
        /\ m = q[u] => Finished(o, b, L, d)
        /\ m # q[u] => /\ d = [prios |-> [q EXCEPT ![u] = m], thread |-> o[u]]
                       /\ AllBut(o, b, [q EXCEPT ![u] = m], o[u], L)
    BY <1>0, <1>3, <1>a, StepSettles
  <2>2. CASE m = q[u]
    BY <1>0, <1>3, <2>1, <2>2 DEF u
  <2>3. CASE m # q[u]
    <3> HIDE DEF m
    <3>1. Settled(o, b, p, u)
      BY <1>0, <1>3, <1>c
    <3>2. u \in Thread /\ q[u] = p[u] /\ m \in Nat /\ p[u] \in Nat
      BY <1>0, <1>3, <2>1 DEF Best
    <3>3. m > p[u]
      <4>1. \A w \in Thread : o[w] = u => p[u] <= q[w]
        BY <1>0, <3>1, <3>2 DEF Settled, Best
      <4>2. p[u] <= m
        BY <1>0, <2>1, <3>1, <3>2, <4>1 DEF Settled, Best
      <4> QED BY <2>3, <3>2, <4>2
    <3>4. o[u] # u
      BY <2>1, <3>2, <3>3 DEF Best
    <3>5. o[u] \notin V
      <4> SUFFICES ASSUME o[u] \in V PROVE FALSE
        OBVIOUS
      <4>1. Settled(o, b, q, o[u])
        BY <1>0, <3>4 DEF AllBut
      <4>2. q[o[u]] <= q[u]
        BY <3>2, <4>1 DEF Settled, Best
      <4>3. q[o[u]] > p[o[u]] /\ p[u] <= p[o[u]] /\ o[u] \in Thread
        BY <1>0, <1>3
      <4> QED BY <1>0, <3>2, <4>2, <4>3
    <3>6. o[u] \in L => p[o[u]] <= p[u]
      <4>1. o[u] \in L => Settled(o, b, p, o[u])
        BY <1>0, <1>c, <3>5
      <4> QED BY <3>2, <4>1 DEF Settled, Best
    <3>7. /\ d.prios = [q EXCEPT ![u] = m] /\ d.thread = o[u] /\ AllBut(o, b, d.prios, d.thread, L)
      BY <2>1, <2>3
    <3>8. d.prios[u] = m /\ \A x \in Thread \ {u} : d.prios[x] = q[x]
      BY <1>0, <3>2, <3>7 DEF Prios
    <3>9. o[u] \in L \cup {NoThread}
      BY <1>0, <1>3 DEF AllBut
    <3>10. o[u] \in L => \A x \in V \cup {u} : p[o[u]] <= p[x]
      BY <1>0, <1>3, <3>6
    <3>11. \A x \in V \cup {u} : d.prios[x] > p[x]
      BY <1>0, <3>2, <3>3, <3>8
    <3>12. Raising(o, b, p, t, L, d, V \cup {u})
      <4> HIDE DEF d
      <4> QED BY <1>0, <1>3, <3>2, <3>4, <3>5, <3>7, <3>8, <3>9, <3>10, <3>11 DEF Raising
    <3> QED BY <1>0, <1>3, <3>12 DEF u
  <2> QED BY <2>2, <2>3
<1> QED BY <1>0, <1>1, <1>3

\* The turns of the loop, one after the other.
\* f is the recursive function of RestorePriority.
IsClimb(f, o, b, p, t, N) ==
    f = [k \in 0 .. N |-> IF k = 0 THEN [prios |-> p, thread |-> t] ELSE RestoreStep(o, b, f[k - 1])]

\* The recursive function inside RestorePriority exists, for any length.
LEMMA ClimbExists ==
    ASSUME NEW o, NEW b, NEW p, NEW t, NEW N \in Nat
    PROVE  \E f : IsClimb(f, o, b, p, t, N)
<1> DEFINE Bad == {n \in Nat : ~\E f : IsClimb(f, o, b, p, t, n)}
<1> HIDE DEF Bad
<1> SUFFICES ASSUME N \in Bad PROVE FALSE
  BY DEF Bad
<1>1. PICK n \in Bad : \A m \in Bad : n <= m
  <2>1. Bad \subseteq Nat
    BY DEF Bad
  <2> QED BY <2>1, LeastNumber
<1>2. n \in Nat /\ ~\E f : IsClimb(f, o, b, p, t, n)
  BY DEF Bad
<1>3. CASE n = 0
  <2> DEFINE g == [k \in 0 .. 0 |-> [prios |-> p, thread |-> t]]
  <2>1. IsClimb(g, o, b, p, t, 0)
    BY DEF IsClimb
  <2> QED BY <1>2, <1>3, <2>1
<1>4. CASE n # 0
  <2>1. n - 1 \in Nat /\ n - 1 \notin Bad
    BY <1>1, <1>2, <1>4
  <2>2. PICK f : IsClimb(f, o, b, p, t, n - 1)
    BY <2>1 DEF Bad
  <2> DEFINE g == [k \in 0 .. n |-> IF k = 0 THEN [prios |-> p, thread |-> t] ELSE RestoreStep(o, b, f[k - 1])]
  <2>3. \A k \in 0 .. n - 1 : g[k] = f[k]
    BY <1>2, <2>1, <2>2 DEF IsClimb
  <2>4. \A k \in 0 .. n : k # 0 => k - 1 \in 0 .. n - 1
    BY <1>2
  <2>5. IsClimb(g, o, b, p, t, n)
    BY <1>2, <2>3, <2>4 DEF IsClimb
  <2> QED BY <1>2, <2>5
<1> QED BY <1>3, <1>4

\* RestorePriority returns the priorities after Cardinality(Thread) turns.
LEMMA RestoreIsClimb ==
    ASSUME NEW o, NEW b, NEW p, NEW t
    PROVE  \E f : /\ IsClimb(f, o, b, p, t, Cardinality(Thread))
                  /\ RestorePriority(o, b, p, t) = f[Cardinality(Thread)].prios
<1>1. Cardinality(Thread) \in Nat
  BY ThreadAssumption, FS_CardinalityType
<1>2. RestorePriority(o, b, p, t)
        = (CHOOSE f : IsClimb(f, o, b, p, t, Cardinality(Thread)))[Cardinality(Thread)].prios
  BY DEF RestorePriority, IsClimb
<1> QED BY <1>1, <1>2, ClimbExists

\* RestorePriority settles every thread, along the whole chain of owners and
\* round a cycle of them.
LEMMA RestoreSettles ==
    ASSUME NEW o, NEW b, NEW p, NEW L, NEW t \in L, AllBut(o, b, p, t, L)
    PROVE  AllBut(o, b, RestorePriority(o, b, p, t), NoThread, L)
<1> USE ThreadAssumption
<1> DEFINE N == Cardinality(Thread)
           Rec(c) == c = [prios |-> c.prios, thread |-> c.thread]
           Turn(c, k) == \/ Finished(o, b, L, c)
                         \/ \E V, n : Lowering(o, b, p, t, L, c, V, n) /\ Cardinality(V) = k
                         \/ \E V : Raising(o, b, p, t, L, c, V) /\ Cardinality(V) = k
<1>1. N \in Nat /\ N # 0 /\ L \in SUBSET Thread
  BY FS_CardinalityType, FS_EmptySet DEF AllBut
<1>11. PICK f : IsClimb(f, o, b, p, t, N) /\ RestorePriority(o, b, p, t) = f[N].prios
  BY RestoreIsClimb
<1>0. f[0] = [prios |-> p, thread |-> t] /\ \A k \in 1 .. N : f[k] = RestoreStep(o, b, f[k - 1])
  <2> HIDE DEF N
  <2>1. 0 \in 0 .. N /\ \A k \in 1 .. N : k \in 0 .. N /\ k # 0
    BY <1>1
  <2> QED BY <1>1, <1>11, <2>1 DEF IsClimb
<1>2. ASSUME NEW c, Rec(c) PROVE Rec(RestoreStep(o, b, c))
  BY <1>2 DEF RestoreStep
<1>3. ASSUME NEW c, Finished(o, b, L, c) PROVE RestoreStep(o, b, c) = c
  BY <1>3 DEF Finished, RestoreStep
<1>4. \A V \in SUBSET L : IsFiniteSet(V) /\ Cardinality(V) \in Nat
  BY <1>1, FS_Subset, FS_CardinalityType
<1>5. ASSUME NEW c, Rec(c), NEW k \in Nat, Turn(c, k) PROVE Turn(RestoreStep(o, b, c), k + 1)
  <2>1. CASE Finished(o, b, L, c)
    BY <1>3, <2>1
  <2>2. ASSUME NEW V, NEW n, Lowering(o, b, p, t, L, c, V, n), Cardinality(V) = k
        PROVE  Turn(RestoreStep(o, b, c), k + 1)
    <3>1. V \in SUBSET L
      BY <2>2 DEF Lowering
    <3>2. CASE Finished(o, b, L, RestoreStep(o, b, c))
      BY <3>2
    <3>3. CASE Lowering(o, b, p, t, L, RestoreStep(o, b, c), V \cup {c.thread}, n) /\ c.thread \in L \ V
      <4>1. Cardinality(V \cup {c.thread}) = k + 1
        BY <1>4, <2>2, <3>1, <3>3, FS_AddElement
      <4> QED BY <3>3, <4>1
    <3> QED BY <1>5, <2>2, <3>2, <3>3, LoweringStep
  <2>3. ASSUME NEW V, Raising(o, b, p, t, L, c, V), Cardinality(V) = k
        PROVE  Turn(RestoreStep(o, b, c), k + 1)
    <3>1. V \in SUBSET L
      BY <2>3 DEF Raising
    <3>2. CASE Finished(o, b, L, RestoreStep(o, b, c))
      BY <3>2
    <3>3. CASE Raising(o, b, p, t, L, RestoreStep(o, b, c), V \cup {c.thread}) /\ c.thread \in L \ V
      <4>1. Cardinality(V \cup {c.thread}) = k + 1
        BY <1>4, <2>3, <3>1, <3>3, FS_AddElement
      <4> QED BY <3>3, <4>1
    <3> QED BY <1>5, <2>3, <3>2, <3>3, RaisingStep
  <2> QED BY <1>5, <2>1, <2>2, <2>3
<1>6. Turn(f[1], 1) /\ Rec(f[1])
  <2>1. f[1] = RestoreStep(o, b, [prios |-> p, thread |-> t])
    BY <1>0, <1>1
  <2>2. Rec([prios |-> p, thread |-> t])
    OBVIOUS
  <2>3. Cardinality({t}) = 1
    BY FS_Singleton
  <2>4. Rec(f[1])
    BY <1>2, <2>1, <2>2
  <2> HIDE DEF Rec
  <2>5. \/ Finished(o, b, L, f[1])
        \/ \E n \in Nat : Lowering(o, b, p, t, L, f[1], {t}, n)
        \/ Raising(o, b, p, t, L, f[1], {t})
    BY <2>1, FirstStep
  <2> QED BY <2>3, <2>4, <2>5
<1> HIDE DEF Turn, Rec
<1>7. \A k \in 1 .. N : Turn(f[k], k) /\ Rec(f[k])
  <2> DEFINE Bad == {k \in 1 .. N : ~(Turn(f[k], k) /\ Rec(f[k]))}
  <2> SUFFICES ASSUME Bad # {} PROVE FALSE
    OBVIOUS
  <2>1. Bad \subseteq Nat
    BY <1>1
  <2>2. PICK k \in Bad : \A m \in Bad : k <= m
    <3> HIDE DEF Bad
    <3> QED BY <2>1, LeastNumber
  <2>3. k # 1 /\ k \in 1 .. N
    BY <1>6, <2>2
  <2>4. k - 1 \in 1 .. N /\ k - 1 \in Nat /\ (k - 1) + 1 = k /\ k - 1 \notin Bad
    BY <1>1, <2>2, <2>3
  <2>5. Turn(f[k - 1], k - 1) /\ Rec(f[k - 1])
    BY <2>4
  <2>6. f[k] = RestoreStep(o, b, f[k - 1])
    BY <1>0, <2>3
  <2>7. Turn(f[k], k) /\ Rec(f[k])
    BY <1>2, <1>5, <2>4, <2>5, <2>6
  <2> QED BY <2>2, <2>7
<1>8. Turn(f[N], N) /\ Rec(f[N])
  BY <1>1, <1>7
<1>9. ASSUME NEW V \in SUBSET L, Cardinality(V) = N PROVE V = Thread /\ L = Thread
  <2>1. V \in SUBSET Thread
    BY <1>1
  <2> QED BY <1>1, <1>9, <2>1, FS_Subset
<1>10. AllBut(o, b, f[N].prios, NoThread, L)
  <2>1. CASE Finished(o, b, L, f[N])
    BY <2>1 DEF Finished
  <2>2. ASSUME NEW V, NEW n, Lowering(o, b, p, t, L, f[N], V, n), Cardinality(V) = N
        PROVE  AllBut(o, b, f[N].prios, NoThread, L)
    <3>1. f[N].thread \in V \cup {NoThread}
      BY <1>9, <2>2 DEF Lowering
    <3> QED BY <1>8, <2>2, <3>1, LoweringStep DEF Rec
  <2>3. ASSUME NEW V, Raising(o, b, p, t, L, f[N], V), Cardinality(V) = N
        PROVE  AllBut(o, b, f[N].prios, NoThread, L)
    <3>1. f[N].thread = NoThread
      BY <1>9, <2>3 DEF Raising
    <3> QED BY <2>3, <3>1 DEF Raising
  <2> QED BY <1>8, <2>1, <2>2, <2>3 DEF Turn
<1> QED BY <1>10, <1>11

-----------------------------------------------------------------------------
(* The inductive invariant *)

Pcs == {"idle", "arbitrate", "retry", "wait_address", "wait_condvar"}
Results == {"Success", "TimedOut", "TerminationRequested", "InvalidState"}
Word == [owner : Thread \cup {NoThread}, wait : BOOLEAN]

\* TypeOK with the variables it leaves out.
TypeInv ==
    /\ TypeOK
    /\ waitResult \in [Thread -> Results]
    /\ handle \in [Thread -> BOOLEAN]
    /\ signal \in [key : Key, left : Nat] \cup {NoSignal}
    /\ pc \in [Thread -> Pcs]
    /\ target \in [Thread -> Address]
    /\ seen \in [Thread -> Thread \cup {NoThread}]

\* Where a thread is: blocked in one of the two waits, with the address of the
\* lock it wants at hand; found by its condition variable or by the owner.
ThreadOK(t) ==
    /\ state[t] = "Waiting" => /\ pc[t] \in {"wait_address", "wait_condvar"}
                               /\ cvKey[t] # NoKey \/ lockOwner[t] # NoThread
    /\ state[t] \in {"Terminated", "Finalized"} => pc[t] = "idle"
    /\ handle[t] => state[t] # "Finalized"
    /\ lockOwner[t] # NoThread => state[t] = "Waiting"
    /\ cvKey[t] # NoKey => /\ state[t] = "Waiting" /\ pc[t] = "wait_condvar"
                           /\ lockOwner[t] = NoThread /\ cvFlag[cvKey[t]]
    /\ pc[t] \in {"wait_address", "wait_condvar"} => addressKey[t] = target[t]
    /\ pc[t] = "arbitrate" => seen[t] \in Thread

\* What the lock words say of a thread: its locks name it, and so does the one
\* it got from a condition variable; the lock it waits for names the owner it
\* is queued at, with the wait bit.
ThreadWords(t) ==
    /\ \A a \in held[t] : mem[a].owner = t
    /\ pc[t] = "wait_condvar" /\ state[t] = "Runnable" /\ waitResult[t] = "Success" =>
           mem[target[t]].owner = t
    /\ lockOwner[t] # NoThread => /\ mem[addressKey[t]].owner = lockOwner[t]
                                  /\ mem[addressKey[t]].wait

\* A word that names nobody has no wait bit: it is free.
WordOK(a) == mem[a].owner = NoThread => ~mem[a].wait

\* The threads that exist; RestorePriority does not reach a finalized one.
NotFinalized == {t \in Thread : state[t] # "Finalized"}

\* Priority inheritance, and no owner that is gone.
PrioritiesOK == AllBut(lockOwner, base, prio, NoThread, NotFinalized)

IInv ==
    /\ TypeInv
    /\ \A t \in Thread : ThreadOK(t) /\ ThreadWords(t)
    /\ \A a \in Address : WordOK(a)
    /\ PrioritiesOK

\* A step leaves u alone.
Same(u) ==
    /\ state'[u] = state[u] /\ pc'[u] = pc[u] /\ cvKey'[u] = cvKey[u] /\ held'[u] = held[u]
    /\ handle'[u] = handle[u] /\ waitResult'[u] = waitResult[u] /\ lockOwner'[u] = lockOwner[u]
    /\ addressKey'[u] = addressKey[u] /\ target'[u] = target[u] /\ seen'[u] = seen[u]

USE ThreadAssumption, WordAssumption, PriorityAssumption

\* A step that touches neither owners nor priorities keeps them settled.
LEMMA PrioritiesKept ==
    ASSUME PrioritiesOK, UNCHANGED <<lockOwner, base, prio>>, NotFinalized' = NotFinalized
    PROVE  PrioritiesOK'
BY DEF PrioritiesOK

\* AddWaiter: priorities are settled again after w became a waiter of t; when w
\* is not more urgent than t there is nothing to restore.
LEMMA WaiterAdded ==
    ASSUME NEW o, NEW b, NEW p, NEW L, AllBut(o, b, p, NoThread, L), NEW t \in L, NEW w \in L,
           o[w] = NoThread, NEW q, q = [o EXCEPT ![w] = t]
    PROVE  AllBut(q, b, IF p[w] < p[t] THEN RestorePriority(q, b, p, t) ELSE p, NoThread, L)
<1>0. /\ o \in Owners /\ b \in Prios /\ p \in Prios /\ L \in SUBSET Thread
      /\ \A x \in Thread : p[x] \in Nat /\ b[x] \in Nat
      /\ \A x \in L : o[x] \in L \cup {NoThread} /\ Settled(o, b, p, x)
  BY DEF AllBut, Prios
<1>1. q \in Owners /\ q[w] = t /\ \A x \in Thread \ {w} : q[x] = o[x]
  BY <1>0 DEF Owners
<1>2. ASSUME NEW x \in L \ {t} PROVE Settled(q, b, p, x)
  <2>1. Settled(o, b, p, x) /\ \A v \in Thread : q[v] = x <=> o[v] = x
    BY <1>0, <1>1, <1>2
  <2> QED BY <2>1 DEF Settled, Best
<1>3. AllBut(q, b, p, t, L)
  BY <1>0, <1>1, <1>2 DEF AllBut
<1>4. CASE p[w] < p[t]
  BY <1>3, <1>4, RestoreSettles
<1>5. CASE ~(p[w] < p[t])
  <2>1. p[t] <= p[w]
    BY <1>0, <1>5
  <2>2. Settled(o, b, p, t) /\ \A v \in Thread : q[v] = t <=> o[v] = t \/ v = w
    BY <1>0, <1>1
  <2>3. Settled(q, b, p, t)
    BY <2>1, <2>2 DEF Settled, Best
  <2> QED BY <1>3, <1>5, <2>3 DEF AllBut
<1> QED BY <1>4, <1>5

\* RemoveUserWaiterByKey: t loses waiters, the most urgent of them w.  When w
\* did not determine t's priority there is nothing to restore.
LEMMA WaitersRemoved ==
    ASSUME NEW o, NEW b, NEW p, NEW L, AllBut(o, b, p, NoThread, L), NEW t \in L, NEW w \in L, o[w] = t,
           NEW q, AllBut(q, b, p, t, L),
           \A x \in Thread : q[x] = t => o[x] = t,
           \A x \in Thread : o[x] = t /\ q[x] # t => p[w] <= p[x]
    PROVE  AllBut(q, b, IF p[t] = p[w] /\ p[t] < b[t] THEN RestorePriority(q, b, p, t) ELSE p, NoThread, L)
<1>1. CASE p[t] = p[w] /\ p[t] < b[t]
  BY <1>1, RestoreSettles
<1>2. CASE ~(p[t] = p[w] /\ p[t] < b[t])
  <2>1. Settled(o, b, p, t) /\ t \in Thread /\ w \in Thread
    BY DEF AllBut
  <2>2. \A x \in Thread : p[x] \in Nat /\ b[x] \in Nat
    BY DEF AllBut, Prios
  <2>3. p[t] <= p[w] /\ p[t] <= b[t]
    BY <2>1 DEF Settled, Best
  <2>4. Settled(q, b, p, t)
    <3>1. CASE p[t] = b[t]
      BY <2>1, <3>1 DEF Settled, Best
    <3>2. CASE p[t] # b[t]
      <4>1. p[t] < p[w]
        BY <1>2, <2>1, <2>2, <2>3, <3>2
      <4>2. PICK x \in Thread : o[x] = t /\ p[x] = p[t]
        BY <2>1, <3>2 DEF Settled, Best
      <4>3. q[x] = t
        BY <2>1, <2>2, <4>1, <4>2
      <4> QED BY <2>1, <4>2, <4>3 DEF Settled, Best
    <3> QED BY <3>1, <3>2
  <2> QED BY <1>2, <2>4 DEF AllBut
<1> QED BY <1>1, <1>2

\* RemoveWaiter: w leaves the list of its owner, if it has one.
LEMMA WaiterRemoved ==
    ASSUME NEW o, NEW b, NEW p, NEW L, AllBut(o, b, p, NoThread, L), NEW w \in L,
           NEW q \in Owners, q[w] = NoThread, \A x \in Thread \ {w} : q[x] = o[x],
           NEW t \in L \cup {NoThread}, o[w] = t
    PROVE  AllBut(q, b, IF t # NoThread /\ p[t] = p[w] /\ p[t] < b[t]
                        THEN RestorePriority(q, b, p, t) ELSE p, NoThread, L)
<1>0. /\ o \in Owners /\ b \in Prios /\ p \in Prios /\ L \in SUBSET Thread
      /\ \A x \in Thread : p[x] \in Nat /\ b[x] \in Nat
      /\ \A x \in L : o[x] \in L \cup {NoThread} /\ Settled(o, b, p, x)
  BY DEF AllBut, Prios
<1>2. ASSUME NEW x \in L \ {t} PROVE Settled(q, b, p, x)
  <2>1. Settled(o, b, p, x) /\ \A v \in Thread : q[v] = x <=> o[v] = x
    BY <1>0, <1>2
  <2> QED BY <2>1 DEF Settled, Best
<1>3. AllBut(q, b, p, t, L)
  BY <1>0, <1>2 DEF AllBut
<1>4. CASE t = NoThread
  BY <1>3, <1>4 DEF AllBut
<1>5. CASE t # NoThread
  <2>1. t \in L /\ o[w] = t
    BY <1>0, <1>5
  <2>2. \A x \in Thread : q[x] = t => o[x] = t
    BY <1>0, <2>1
  <2>3. \A x \in Thread : o[x] = t /\ q[x] # t => p[w] <= p[x]
    BY <1>0
  <2>4. AllBut(q, b, IF p[t] = p[w] /\ p[t] < b[t] THEN RestorePriority(q, b, p, t) ELSE p, NoThread, L)
    BY <1>3, <2>1, <2>2, <2>3, WaitersRemoved
  <2>5. CASE p[t] = p[w] /\ p[t] < b[t]
    BY <1>5, <2>4, <2>5
  <2>6. CASE ~(p[t] = p[w] /\ p[t] < b[t])
    BY <1>5, <2>4, <2>6
  <2> QED BY <2>5, <2>6
<1> QED BY <1>4, <1>5

\* SetBasePriority and the raise of RequestTerminate.
LEMMA BaseChanged ==
    ASSUME NEW o, NEW b, NEW p, NEW L, AllBut(o, b, p, NoThread, L), NEW t \in L,
           NEW n \in Nat, NEW d, d = [b EXCEPT ![t] = n]
    PROVE  AllBut(o, d, RestorePriority(o, d, p, t), NoThread, L)
<1>1. d \in Prios /\ \A x \in L \ {t} : d[x] = b[x]
  BY DEF AllBut, Prios
<1>2. AllBut(o, d, p, t, L)
  BY <1>1 DEF AllBut, Settled, Best
<1> QED BY <1>2, RestoreSettles

\* A lock word is given by its two fields.
LEMMA WordFields ==
    ASSUME NEW r \in Word
    PROVE  r = [owner |-> r.owner, wait |-> r.wait] /\ r.owner \in Thread \cup {NoThread} /\ r.wait \in BOOLEAN
BY DEF Word

\* Setting the wait bit keeps the owner.
LEMMA WaitBitSet ==
    ASSUME NEW r \in Word
    PROVE  [r EXCEPT !.wait = TRUE] = [owner |-> r.owner, wait |-> TRUE]
<1> DEFINE q == [r EXCEPT !.wait = TRUE]
<1>1. DOMAIN r = {"owner", "wait"}
  BY DEF Word
<1>2. q = [x \in DOMAIN r |-> IF x = "wait" THEN TRUE ELSE r[x]]
  OBVIOUS
<1>3. q.owner = r.owner /\ q.wait = TRUE
  BY <1>1, <1>2
<1> HIDE DEF q
<1>4. q = [x \in {"owner", "wait"} |-> q[x]]
  BY <1>1, <1>2
<1>5. q \in Word
  BY <1>3, <1>4, WordFields DEF Word
<1> QED BY <1>3, <1>5, WordFields DEF q

\* The words that the code writes are words.
LEMMA WordFacts ==
    /\ FreeWord \in Word /\ FreeWord.owner = NoThread /\ ~FreeWord.wait
    /\ \A o \in Thread \cup {NoThread}, w \in BOOLEAN : [owner |-> o, wait |-> w] \in Word
BY DEF Word, FreeWord

\* The words after the wait bit of one of them has been set.
LEMMA WaitBitSetIn ==
    ASSUME TypeInv, NEW a \in Address, mem' = [mem EXCEPT ![a].wait = TRUE]
    PROVE  /\ mem'[a] = [owner |-> mem[a].owner, wait |-> TRUE]
           /\ \A c \in Address \ {a} : mem'[c] = mem[c]
           /\ mem' \in [Address -> Word]
<1>1. mem \in [Address -> Word]
  BY DEF TypeInv, TypeOK, Word
<1>2. mem'[a] = [mem[a] EXCEPT !.wait = TRUE] /\ \A c \in Address \ {a} : mem'[c] = mem[c]
  BY <1>1
<1>3. mem'[a] = [owner |-> mem[a].owner, wait |-> TRUE]
  BY <1>1, <1>2, WaitBitSet
<1>4. mem'[a] \in Word
  <2>1. mem[a] \in Word
    BY <1>1
  <2>2. mem[a].owner \in Thread \cup {NoThread}
    BY <2>1, WordFields
  <2> QED BY <1>3, <2>2, WordFacts
<1>5. mem' = [c \in Address |-> mem'[c]]
  BY <1>1
<1> QED BY <1>1, <1>2, <1>3, <1>4, <1>5


\* The fields of the lock word at an address.
LEMMA WordValues ==
    ASSUME TypeInv, NEW a \in Address
    PROVE  /\ mem \in [Address -> Word]
           /\ mem[a] = [owner |-> mem[a].owner, wait |-> mem[a].wait]
           /\ mem[a].owner \in Thread \cup {NoThread} /\ mem[a].wait \in BOOLEAN
<1>1. mem \in [Address -> Word]
  BY DEF TypeInv, TypeOK, Word
<1>2. mem[a] \in Word
  BY <1>1
<1> QED BY <1>1, <1>2, WordFields

\* The words after one of them has been written.
LEMMA WordWritten ==
    ASSUME TypeInv, NEW a \in Address, NEW o \in Thread \cup {NoThread}, NEW w \in BOOLEAN,
           mem' = [mem EXCEPT ![a] = [owner |-> o, wait |-> w]]
    PROVE  /\ mem' \in [Address -> Word]
           /\ mem'[a].owner = o /\ mem'[a].wait = w
           /\ \A c \in Address \ {a} : mem'[c] = mem[c]
<1>1. mem \in [Address -> Word] /\ [owner |-> o, wait |-> w] \in Word
  BY WordValues, WordFacts
<1>2. mem'[a] = [owner |-> o, wait |-> w] /\ \A c \in Address \ {a} : mem'[c] = mem[c]
  BY <1>1
<1>3. mem' \in [Address -> Word]
  BY <1>1
<1> QED BY <1>2, <1>3

\* A word is free exactly when it names nobody.
LEMMA FreeNamesNobody ==
    ASSUME TypeInv, NEW a \in Address, WordOK(a)
    PROVE  (mem[a] = FreeWord) <=> (mem[a].owner = NoThread)
<1>1. mem[a] = [owner |-> mem[a].owner, wait |-> mem[a].wait] /\ mem[a].wait \in BOOLEAN
  BY WordValues
<1>2. ASSUME mem[a].owner = NoThread PROVE mem[a] = FreeWord
  <2>1. mem[a].wait = FALSE
    BY <1>1, <1>2 DEF WordOK
  <2> QED BY <1>1, <1>2, <2>1 DEF FreeWord
<1> QED BY <1>2, WordFacts

\* What holds of a thread still holds after a step that leaves it alone, as
\* long as its words and the flag of its condition variable say the same.
LEMMA ThreadKept ==
    ASSUME NEW u \in Thread, TypeInv, ThreadOK(u), ThreadWords(u), Same(u),
           cvKey[u] # NoKey => cvFlag'[cvKey[u]],
           \A c \in Address : mem[c].owner = u => mem'[c].owner = u,
           lockOwner[u] # NoThread => /\ mem'[addressKey[u]].owner = lockOwner[u]
                                      /\ mem'[addressKey[u]].wait
    PROVE  ThreadOK(u)' /\ ThreadWords(u)'
<1>1. ThreadOK(u)'
  BY DEF ThreadOK, Same
<1>2. held[u] \subseteq Address /\ target[u] \in Address
  BY DEF TypeInv, TypeOK
<1>3. ThreadWords(u)'
  <2>1. \A a \in held'[u] : mem'[a].owner = u
    BY <1>2 DEF ThreadWords, Same
  <2>2. pc'[u] = "wait_condvar" /\ state'[u] = "Runnable" /\ waitResult'[u] = "Success" =>
           mem'[target'[u]].owner = u
    BY <1>2 DEF ThreadWords, Same
  <2> QED BY <2>1, <2>2 DEF ThreadWords, Same
<1> QED BY <1>1, <1>3

\* The invariant after a step that touches one thread and one word at most.
LEMMA InvariantParts ==
    ASSUME TypeInv', PrioritiesOK', NEW t, ThreadOK(t)', ThreadWords(t)',
           \A u \in Thread \ {t} : ThreadOK(u)' /\ ThreadWords(u)',
           \A a \in Address : WordOK(a)'
    PROVE  IInv'
BY DEF IInv

\* Lock in user space: a free word is taken, or the wait bit is set.
LEMMA UserLockStep ==
    ASSUME IInv, NEW t \in Thread, NEW a \in Address, UserLock(t, a)
    PROVE  IInv'
<1>0. TypeInv /\ PrioritiesOK /\ \A u \in Thread : ThreadOK(u) /\ ThreadWords(u)
  BY DEF IInv
<1>00. \A c \in Address : WordOK(c)
  BY DEF IInv
<1>1. /\ pc[t] \in {"idle", "retry"} /\ state[t] = "Runnable"
      /\ UNCHANGED <<cvFlag, prio, lockOwner, addressKey, cvKey, ref, signal>>
      /\ UNCHANGED <<state, waitQueue, waitResult, timer, base, terminating, handle>>
  BY DEF UserLock, waitVars, kernelVars
<1>2. /\ lockOwner[t] = NoThread /\ cvKey[t] = NoKey
  BY <1>0, <1>1 DEF ThreadOK
<1>3. PrioritiesOK'
  BY <1>0, <1>1, PrioritiesKept DEF NotFinalized
<1>4. CASE mem[a] = FreeWord
  <2>1. /\ mem' = [mem EXCEPT ![a] = [owner |-> t, wait |-> FALSE]]
        /\ held' = [held EXCEPT ![t] = @ \cup {a}]
        /\ pc' = [pc EXCEPT ![t] = "idle"]
        /\ UNCHANGED <<target, seen>>
    BY <1>4 DEF UserLock
  <2>2. /\ mem' \in [Address -> Word]
        /\ mem'[a].owner = t /\ mem'[a].wait = FALSE
        /\ \A c \in Address \ {a} : mem'[c] = mem[c]
    BY <1>0, <2>1, WordWritten
  <2>3. mem[a].owner = NoThread /\ ~mem[a].wait
    BY <1>4, WordFacts
  <2>4. TypeInv'
    BY <1>0, <1>1, <2>1, <2>2 DEF TypeInv, TypeOK, Pcs, Word
  <2>5. \A c \in Address : WordOK(c)'
    BY <1>00, <2>2 DEF WordOK
  <2>6. ASSUME NEW u \in Thread \ {t} PROVE ThreadOK(u)' /\ ThreadWords(u)'
    <3>1. Same(u) /\ addressKey[u] \in Address
      BY <1>0, <1>1, <2>1 DEF Same, TypeInv, TypeOK
    <3>2. \A c \in Address : mem[c].owner = u => mem'[c].owner = u
      BY <2>2, <2>3
    <3>3. lockOwner[u] # NoThread => mem'[addressKey[u]].owner = lockOwner[u] /\ mem'[addressKey[u]].wait
      BY <1>0, <2>2, <2>3, <3>1 DEF ThreadWords
    <3> QED BY <1>0, <1>1, <3>1, <3>2, <3>3, ThreadKept DEF ThreadOK
  <2>7. pc'[t] = "idle" /\ held'[t] = held[t] \cup {a} /\ held[t] \subseteq Address
    BY <1>0, <2>1 DEF TypeInv, TypeOK
  <2>8. ThreadOK(t)'
    BY <1>0, <1>1, <1>2, <2>7 DEF ThreadOK
  <2>9. ThreadWords(t)'
    BY <1>0, <1>1, <1>2, <2>2, <2>3, <2>7 DEF ThreadWords
  <2> QED BY <1>3, <2>4, <2>5, <2>6, <2>8, <2>9, InvariantParts
<1>5. CASE mem[a] # FreeWord
  <2>1. /\ mem' = [mem EXCEPT ![a].wait = TRUE]
        /\ seen' = [seen EXCEPT ![t] = mem[a].owner]
        /\ target' = [target EXCEPT ![t] = a]
        /\ pc' = [pc EXCEPT ![t] = "arbitrate"]
        /\ held' = held
    BY <1>5 DEF UserLock
  <2>2. /\ mem' \in [Address -> Word]
        /\ mem'[a].owner = mem[a].owner /\ mem'[a].wait
        /\ \A c \in Address \ {a} : mem'[c] = mem[c]
    BY <1>0, <2>1, WaitBitSetIn
  <2>3. mem[a].owner \in Thread
    BY <1>0, <1>00, <1>5, WordValues, FreeNamesNobody
  <2>4. TypeInv'
    BY <1>0, <1>1, <2>1, <2>2, <2>3 DEF TypeInv, TypeOK, Pcs, Word
  <2>5. \A c \in Address : WordOK(c)'
    BY <1>00, <2>2, <2>3 DEF WordOK
  <2>6. ASSUME NEW u \in Thread \ {t} PROVE ThreadOK(u)' /\ ThreadWords(u)'
    <3>1. Same(u) /\ addressKey[u] \in Address
      BY <1>0, <1>1, <2>1 DEF Same, TypeInv, TypeOK
    <3>2. \A c \in Address : mem[c].owner = u => mem'[c].owner = u
      BY <2>2
    <3>3. lockOwner[u] # NoThread => mem'[addressKey[u]].owner = lockOwner[u] /\ mem'[addressKey[u]].wait
      BY <1>0, <2>2, <3>1 DEF ThreadWords
    <3> QED BY <1>0, <1>1, <3>1, <3>2, <3>3, ThreadKept DEF ThreadOK
  <2>7. /\ pc'[t] = "arbitrate" /\ seen'[t] = mem[a].owner /\ held'[t] = held[t] /\ held[t] \subseteq Address
        /\ target'[t] = a
    BY <1>0, <2>1 DEF TypeInv, TypeOK
  <2>8. ThreadOK(t)'
    BY <1>0, <1>1, <1>2, <2>3, <2>7 DEF ThreadOK
  <2>9. ThreadWords(t)'
    BY <1>0, <1>1, <1>2, <2>2, <2>7 DEF ThreadWords
  <2> QED BY <1>3, <2>4, <2>5, <2>6, <2>8, <2>9, InvariantParts
<1> QED BY <1>4, <1>5

\* An uncontended unlock: the word has no wait bit, so nobody is queued for it.
LEMMA UserUnlockStep ==
    ASSUME IInv, NEW t \in Thread, NEW a \in Address, UserUnlock(t, a)
    PROVE  IInv'
<1>0. TypeInv /\ PrioritiesOK /\ \A u \in Thread : ThreadOK(u) /\ ThreadWords(u)
  BY DEF IInv
<1>00. \A c \in Address : WordOK(c)
  BY DEF IInv
<1>1. /\ pc[t] = "idle" /\ state[t] = "Runnable" /\ a \in held[t] /\ mem[a] = [owner |-> t, wait |-> FALSE]
      /\ mem' = [mem EXCEPT ![a] = FreeWord]
      /\ held' = [held EXCEPT ![t] = @ \ {a}]
      /\ UNCHANGED <<cvFlag, prio, lockOwner, addressKey, cvKey, ref, signal, pc, target, seen>>
      /\ UNCHANGED <<state, waitQueue, waitResult, timer, base, terminating, handle>>
  BY DEF UserUnlock, waitVars, kernelVars
<1>2. /\ lockOwner[t] = NoThread /\ cvKey[t] = NoKey
  BY <1>0, <1>1 DEF ThreadOK
<1>3. /\ mem' \in [Address -> Word]
      /\ mem'[a].owner = NoThread /\ mem'[a].wait = FALSE
      /\ \A c \in Address \ {a} : mem'[c] = mem[c]
  BY <1>0, <1>1, WordWritten DEF FreeWord
<1>4. mem[a].owner = t /\ ~mem[a].wait
  BY <1>1
<1>5. PrioritiesOK'
  BY <1>0, <1>1, PrioritiesKept DEF NotFinalized
<1>6. TypeInv'
  BY <1>0, <1>1, <1>3 DEF TypeInv, TypeOK, Pcs, Word
<1>7. \A c \in Address : WordOK(c)'
  BY <1>00, <1>3 DEF WordOK
<1>8. ASSUME NEW u \in Thread \ {t} PROVE ThreadOK(u)' /\ ThreadWords(u)'
  <2>1. Same(u) /\ addressKey[u] \in Address
    BY <1>0, <1>1 DEF Same, TypeInv, TypeOK
  <2>2. \A c \in Address : mem[c].owner = u => mem'[c].owner = u
    BY <1>3, <1>4
  <2>3. lockOwner[u] # NoThread => mem'[addressKey[u]].owner = lockOwner[u] /\ mem'[addressKey[u]].wait
    BY <1>0, <1>3, <1>4, <2>1 DEF ThreadWords
  <2> QED BY <1>0, <1>1, <2>1, <2>2, <2>3, ThreadKept DEF ThreadOK
<1>9. held'[t] = held[t] \ {a} /\ held[t] \subseteq Address
  BY <1>0, <1>1 DEF TypeInv, TypeOK
<1>10. ThreadOK(t)'
  BY <1>0, <1>1, <1>2, <1>9 DEF ThreadOK
<1>11. ThreadWords(t)'
  BY <1>0, <1>1, <1>2, <1>3, <1>9 DEF ThreadWords
<1> QED BY <1>5, <1>6, <1>7, <1>8, <1>10, <1>11, InvariantParts

\* WaitForAddress returns early.
LEMMA WaitForAddressReturnsStep ==
    ASSUME IInv, NEW t \in Thread, WaitForAddressReturns(t)
    PROVE  IInv'
<1>0. TypeInv /\ PrioritiesOK /\ \A u \in Thread : ThreadOK(u) /\ ThreadWords(u)
  BY DEF IInv
<1>00. \A c \in Address : WordOK(c)
  BY DEF IInv
<1> DEFINE n == IF ~WordUnchanged(t) /\ ~terminating[t] THEN "retry" ELSE "idle"
<1>1. /\ pc[t] = "arbitrate"
      /\ pc' = [pc EXCEPT ![t] = n]
      /\ seen' = [seen EXCEPT ![t] = NoThread]
      /\ UNCHANGED <<mem, cvFlag, prio, lockOwner, addressKey, cvKey, ref, signal, target, held>>
      /\ UNCHANGED <<state, waitQueue, waitResult, timer, base, terminating, handle>>
  BY DEF WaitForAddressReturns, waitVars, kernelVars
<1>2. n \in {"retry", "idle"}
  OBVIOUS
<1> HIDE DEF n
<1>3. lockOwner[t] = NoThread /\ cvKey[t] = NoKey /\ state[t] = "Runnable"
  BY <1>0, <1>1 DEF ThreadOK, TypeInv, TypeOK
<1>5. PrioritiesOK'
  BY <1>0, <1>1, PrioritiesKept DEF NotFinalized
<1>6. TypeInv'
  BY <1>0, <1>1, <1>2 DEF TypeInv, TypeOK, Pcs
<1>7. \A c \in Address : WordOK(c)'
  BY <1>00, <1>1 DEF WordOK
<1>8. ASSUME NEW u \in Thread \ {t} PROVE ThreadOK(u)' /\ ThreadWords(u)'
  <2>1. Same(u)
    BY <1>0, <1>1 DEF Same, TypeInv, TypeOK
  <2>3. lockOwner[u] # NoThread => mem'[addressKey[u]].owner = lockOwner[u] /\ mem'[addressKey[u]].wait
    BY <1>0, <1>1 DEF ThreadWords
  <2> QED BY <1>0, <1>1, <2>1, <2>3, ThreadKept DEF ThreadOK
<1>9. pc'[t] = n /\ seen'[t] = NoThread
  BY <1>0, <1>1 DEF TypeInv, TypeOK
<1>10. ThreadOK(t)'
  BY <1>0, <1>1, <1>2, <1>3, <1>9 DEF ThreadOK
<1>11. ThreadWords(t)'
  BY <1>0, <1>1, <1>2, <1>3, <1>9 DEF ThreadWords
<1> QED BY <1>5, <1>6, <1>7, <1>8, <1>10, <1>11, InvariantParts

\* WaitForAddress blocks: the word was checked in the same step, so the thread
\* queues at the owner the word names.
LEMMA WaitForAddressBlocksStep ==
    ASSUME IInv, NEW t \in Thread, WaitForAddressBlocks(t)
    PROVE  IInv'
<1>0. TypeInv /\ PrioritiesOK /\ \A u \in Thread : ThreadOK(u) /\ ThreadWords(u)
  BY DEF IInv
<1>00. \A c \in Address : WordOK(c)
  BY DEF IInv
<1>1. /\ pc[t] = "arbitrate" /\ mem[target[t]] = [owner |-> seen[t], wait |-> TRUE] /\ handle[seen[t]]
      /\ addressKey' = [addressKey EXCEPT ![t] = target[t]]
      /\ lockOwner' = [lockOwner EXCEPT ![t] = seen[t]]
      /\ state' = [state EXCEPT ![t] = "Waiting"]
      /\ waitQueue' = [waitQueue EXCEPT ![t] = "address"]
      /\ timer' = [timer EXCEPT ![t] = FALSE]
      /\ ref' = [ref EXCEPT ![t] = seen[t]]
      /\ seen' = [seen EXCEPT ![t] = NoThread]
      /\ pc' = [pc EXCEPT ![t] = "wait_address"]
      /\ UNCHANGED <<mem, cvFlag, cvKey, signal, base, terminating, handle, target, held, waitResult>>
  BY DEF WaitForAddressBlocks, BeginWait, kernelVars, WordUnchanged
<1>2. /\ lockOwner[t] = NoThread /\ cvKey[t] = NoKey /\ state[t] = "Runnable"
      /\ seen[t] \in Thread
  BY <1>0, <1>1 DEF ThreadOK, TypeInv, TypeOK
<1>3. state[seen[t]] # "Finalized"
  BY <1>0, <1>1, <1>2 DEF ThreadOK
<1>4. NotFinalized' = NotFinalized /\ t \in NotFinalized /\ seen[t] \in NotFinalized
  BY <1>0, <1>1, <1>2, <1>3 DEF NotFinalized, TypeInv, TypeOK
<1>5. PrioritiesOK'
  <2> DEFINE owners == [lockOwner EXCEPT ![t] = seen[t]]
             p == IF prio[t] < prio[seen[t]] THEN RestorePriority(owners, base, prio, seen[t]) ELSE prio
  <2>1. AllBut(owners, base, p, NoThread, NotFinalized)
    BY <1>0, <1>2, <1>4, WaiterAdded DEF PrioritiesOK
  <2>2. lockOwner' = owners /\ prio' = p /\ base' = base
    BY DEF WaitForAddressBlocks, AddWaiter, kernelVars
  <2> QED BY <1>4, <2>1, <2>2 DEF PrioritiesOK
<1>6. TypeInv'
  <2>1. prio' \in [Thread -> Nat]
    BY <1>5 DEF PrioritiesOK, AllBut, Prios
  <2> QED BY <1>0, <1>1, <1>2, <2>1 DEF TypeInv, TypeOK, Pcs
<1>7. \A c \in Address : WordOK(c)'
  BY <1>00, <1>1 DEF WordOK
<1>8. ASSUME NEW u \in Thread \ {t} PROVE ThreadOK(u)' /\ ThreadWords(u)'
  <2>1. Same(u)
    BY <1>0, <1>1 DEF Same, TypeInv, TypeOK
  <2>3. lockOwner[u] # NoThread => mem'[addressKey[u]].owner = lockOwner[u] /\ mem'[addressKey[u]].wait
    BY <1>0, <1>1 DEF ThreadWords
  <2> QED BY <1>0, <1>1, <2>1, <2>3, ThreadKept DEF ThreadOK
<1>9. /\ pc'[t] = "wait_address" /\ seen'[t] = NoThread /\ state'[t] = "Waiting"
      /\ addressKey'[t] = target[t] /\ lockOwner'[t] = seen[t]
  BY <1>0, <1>1 DEF TypeInv, TypeOK
<1>10. ThreadOK(t)'
  BY <1>0, <1>1, <1>2, <1>9 DEF ThreadOK
<1>11. ThreadWords(t)'
  <2>1. mem'[target[t]].owner = seen[t] /\ mem'[target[t]].wait
    BY <1>1
  <2> QED BY <1>0, <1>1, <1>9, <2>1 DEF ThreadWords
<1> QED BY <1>5, <1>6, <1>7, <1>8, <1>10, <1>11, InvariantParts

\* Both waits return: the lock is held if the word says so.
LEMMA WaitReturnStep ==
    ASSUME IInv, NEW t \in Thread, WaitForAddressReturn(t) \/ CvWaitReturn(t)
    PROVE  IInv'
<1>0. TypeInv /\ PrioritiesOK /\ \A u \in Thread : ThreadOK(u) /\ ThreadWords(u)
  BY DEF IInv
<1>00. \A c \in Address : WordOK(c)
  BY DEF IInv
<1>1. /\ UNCHANGED <<mem, cvFlag, prio, lockOwner, addressKey, cvKey, signal, target, seen>>
      /\ UNCHANGED <<state, waitQueue, waitResult, timer, base, terminating, handle>>
      /\ pc[t] \in {"wait_address", "wait_condvar"} /\ state[t] = "Runnable"
  BY DEF WaitForAddressReturn, CvWaitReturn, waitVars, kernelVars
<1>2. PICK n \in {"idle", "retry"} : pc' = [pc EXCEPT ![t] = n]
  <2>1. CASE WaitForAddressReturn(t)
    BY <2>1 DEF WaitForAddressReturn
  <2>2. CASE CvWaitReturn(t)
    BY <2>2 DEF CvWaitReturn
  <2> QED BY <2>1, <2>2
<1>3. PICK h \in Thread \cup {NoThread} : ref' = [ref EXCEPT ![t] = h]
  <2>1. CASE WaitForAddressReturn(t)
    BY <2>1 DEF WaitForAddressReturn
  <2>2. CASE CvWaitReturn(t)
    <3>1. ref' = ref /\ ref[t] \in Thread \cup {NoThread} /\ ref = [ref EXCEPT ![t] = ref[t]]
      BY <1>0, <2>2 DEF CvWaitReturn, TypeInv, TypeOK
    <3> QED BY <3>1
  <2> QED BY <2>1, <2>2
<1>4. /\ held' \in [Thread -> SUBSET Address]
      /\ \A u \in Thread \ {t} : held'[u] = held[u]
      /\ held'[t] = held[t] \/ (held'[t] = held[t] \cup {target[t]} /\ mem[target[t]].owner = t)
  <2>0. held \in [Thread -> SUBSET Address] /\ target[t] \in Address
    BY <1>0 DEF TypeInv, TypeOK
  <2>1. CASE held' = held
    BY <2>0, <2>1
  <2>2. CASE held' = [held EXCEPT ![t] = @ \cup {target[t]}] /\ mem[target[t]].owner = t
    BY <2>0, <2>2
  <2>3. CASE WaitForAddressReturn(t)
    <3>1. CASE waitResult[t] = "Success" /\ mem[target[t]].owner = t
      BY <2>2, <2>3, <3>1 DEF WaitForAddressReturn
    <3>2. CASE ~(waitResult[t] = "Success" /\ mem[target[t]].owner = t)
      <4>1. held' = [held EXCEPT ![t] = @]
        BY <2>3, <3>2 DEF WaitForAddressReturn
      <4> QED BY <2>0, <4>1
    <3> QED BY <3>1, <3>2
  <2>4. CASE CvWaitReturn(t) /\ waitResult[t] = "Success"
    <3>1. held' = [held EXCEPT ![t] = @ \cup {target[t]}] /\ pc[t] = "wait_condvar"
      BY <2>4 DEF CvWaitReturn
    <3>2. mem[target[t]].owner = t
      BY <1>0, <1>1, <2>4, <3>1 DEF ThreadWords
    <3> QED BY <2>2, <3>1, <3>2
  <2>5. CASE CvWaitReturn(t) /\ waitResult[t] # "Success"
    BY <2>1, <2>5 DEF CvWaitReturn
  <2> QED BY <2>3, <2>4, <2>5
<1>5. PrioritiesOK'
  BY <1>0, <1>1, PrioritiesKept DEF NotFinalized
<1>6. TypeInv'
  <2>1. ref' \in [Thread -> Thread \cup {NoThread}] /\ pc' \in [Thread -> Pcs]
    BY <1>0, <1>2, <1>3 DEF TypeInv, TypeOK, Pcs
  <2> QED BY <1>0, <1>1, <1>4, <2>1 DEF TypeInv, TypeOK
<1>7. \A c \in Address : WordOK(c)'
  BY <1>00, <1>1 DEF WordOK
<1>8. ASSUME NEW u \in Thread \ {t} PROVE ThreadOK(u)' /\ ThreadWords(u)'
  <2>1. Same(u)
    BY <1>0, <1>1, <1>2, <1>4 DEF Same, TypeInv, TypeOK
  <2>3. lockOwner[u] # NoThread => mem'[addressKey[u]].owner = lockOwner[u] /\ mem'[addressKey[u]].wait
    BY <1>0, <1>1 DEF ThreadWords
  <2> QED BY <1>0, <1>1, <2>1, <2>3, ThreadKept DEF ThreadOK
<1>9. pc'[t] \in {"idle", "retry"}
  BY <1>0, <1>2 DEF TypeInv, TypeOK
<1>10. ThreadOK(t)'
  BY <1>0, <1>1, <1>9 DEF ThreadOK
<1>11. ThreadWords(t)'
  BY <1>0, <1>1, <1>4, <1>9 DEF ThreadWords
<1> QED BY <1>5, <1>6, <1>7, <1>8, <1>10, <1>11, InvariantParts

\* The lock that a thread gives up: whom it goes to, and that the waiters it
\* leaves behind are the new owner's.
LEMMA ReleaseOwners ==
    ASSUME IInv, NEW t \in Thread, NEW a \in held[t], state[t] = "Runnable",
           NEW next \in NextOwners(t, a), ReleaseTo(t, next, a)
    PROVE  /\ next # NoThread => /\ next \in Thread \ {t} /\ lockOwner[next] = t /\ addressKey[next] = a
                                 /\ state[next] = "Waiting" /\ cvKey[next] = NoKey
                                 /\ lockOwner'[next] = NoThread
                                 /\ \A u \in Thread : lockOwner[u] = t /\ addressKey[u] = a => prio[next] <= prio[u]
           /\ next = NoThread => ~\E u \in Thread : lockOwner[u] = t /\ addressKey[u] = a
           /\ lockOwner' \in [Thread -> Thread \cup {NoThread}]
           /\ \A u \in Thread \ {next} :
                 lockOwner'[u] = IF lockOwner[u] = t /\ addressKey[u] = a THEN next ELSE lockOwner[u]
           /\ a \in Address /\ mem[a].owner = t /\ lockOwner[t] = NoThread /\ cvKey[t] = NoKey
           /\ t \in NotFinalized /\ (next # NoThread => next \in NotFinalized)
<1>0. TypeInv /\ PrioritiesOK /\ \A u \in Thread : ThreadOK(u) /\ ThreadWords(u)
  BY DEF IInv
<1>1. /\ lockOwner \in [Thread -> Thread \cup {NoThread}] /\ \A u \in Thread : prio[u] \in Nat
      /\ held[t] \subseteq Address
  BY <1>0 DEF TypeInv, TypeOK
<1>2. a \in Address /\ mem[a].owner = t /\ lockOwner[t] = NoThread /\ cvKey[t] = NoKey
  BY <1>0, <1>1 DEF ThreadWords, ThreadOK
<1>3. CASE next = NoThread
  <2>1. LockWaiters(t, a) = {}
    BY <1>3 DEF NextOwners, Highest, LockWaiters, Waiters
  <2>2. lockOwner' = lockOwner
    BY <1>3 DEF ReleaseTo
  <2>3. ~\E u \in Thread : lockOwner[u] = t /\ addressKey[u] = a
    BY <2>1 DEF LockWaiters, Waiters
  <2> QED BY <1>1, <1>2, <1>3, <2>2, <2>3 DEF NotFinalized
<1>4. CASE next # NoThread
  <2>1. next \in Highest(LockWaiters(t, a))
    BY <1>4 DEF NextOwners
  <2>2. /\ next \in Thread /\ lockOwner[next] = t /\ addressKey[next] = a
        /\ \A u \in Thread : lockOwner[u] = t /\ addressKey[u] = a => prio[next] <= prio[u]
    BY <2>1 DEF Highest, LockWaiters, Waiters
  <2>3. state[next] = "Waiting" /\ cvKey[next] = NoKey /\ next # t
    BY <1>0, <1>2, <2>2 DEF ThreadOK
  <2>4. lockOwner' = [w \in Thread |-> IF w = next THEN NoThread
                                       ELSE IF w \in LockWaiters(t, a) THEN next ELSE lockOwner[w]]
    BY <1>4 DEF ReleaseTo, PassLockInfo
  <2>5. \A w \in Thread : w \in LockWaiters(t, a) <=> lockOwner[w] = t /\ addressKey[w] = a
    BY DEF LockWaiters, Waiters
  <2>6. /\ lockOwner'[next] = NoThread
        /\ lockOwner' \in [Thread -> Thread \cup {NoThread}]
        /\ \A u \in Thread \ {next} :
              lockOwner'[u] = IF lockOwner[u] = t /\ addressKey[u] = a THEN next ELSE lockOwner[u]
    BY <1>1, <2>2, <2>4, <2>5
  <2> QED BY <1>2, <1>4, <2>2, <2>3, <2>6 DEF NotFinalized
<1> QED BY <1>3, <1>4

\* The priorities after a lock went to its most urgent waiter with the others.
LEMMA ReleasePriorities ==
    ASSUME IInv, NEW t \in Thread, NEW a \in held[t], state[t] = "Runnable",
           NEW next \in NextOwners(t, a), ReleaseTo(t, next, a), base' = base, NotFinalized' = NotFinalized
    PROVE  PrioritiesOK'
<1>0. AllBut(lockOwner, base, prio, NoThread, NotFinalized)
  BY DEF IInv, PrioritiesOK
<1>1. CASE next = NoThread
  <2>1. lockOwner' = lockOwner /\ prio' = prio
    BY <1>1 DEF ReleaseTo
  <2> QED BY <1>0, <2>1 DEF PrioritiesOK
<1>2. CASE next # NoThread
  <2>1. /\ next \in Thread \ {t} /\ lockOwner[next] = t /\ addressKey[next] = a
        /\ lockOwner'[next] = NoThread
        /\ \A u \in Thread : lockOwner[u] = t /\ addressKey[u] = a => prio[next] <= prio[u]
        /\ lockOwner' \in Owners
        /\ \A u \in Thread \ {next} :
              lockOwner'[u] = IF lockOwner[u] = t /\ addressKey[u] = a THEN next ELSE lockOwner[u]
        /\ t \in NotFinalized /\ next \in NotFinalized
    BY <1>2, ReleaseOwners DEF Owners
  <2>2. prio' = IF prio[t] = prio[next] /\ prio[t] < base[t]
                THEN RestorePriority(lockOwner', base, prio, t) ELSE prio
    BY <1>2 DEF ReleaseTo, PassLockInfo, RemoveWaiter
  <2>3. ASSUME NEW x \in NotFinalized \ {t} PROVE Settled(lockOwner', base, prio, x)
    <3>0. x \in Thread /\ Settled(lockOwner, base, prio, x)
      BY <1>0 DEF AllBut
    <3>1. CASE x # next
      <4>1. \A w \in Thread : lockOwner'[w] = x <=> lockOwner[w] = x
        BY <2>1, <2>3, <3>0, <3>1
      <4> QED BY <3>0, <4>1 DEF Settled, Best
    <3>2. CASE x = next
      <4>1. \A w \in Thread : lockOwner'[w] = x => lockOwner[w] = x \/ prio[x] <= prio[w]
        BY <2>1, <2>3, <3>0, <3>2
      <4>2. \A w \in Thread : lockOwner[w] = x => lockOwner'[w] = x
        BY <2>1, <2>3, <3>0, <3>2
      <4> QED BY <3>0, <4>1, <4>2 DEF Settled, Best
    <3> QED BY <3>1, <3>2
  <2>4. AllBut(lockOwner', base, prio, t, NotFinalized)
    <3>1. \A x \in NotFinalized : lockOwner'[x] \in NotFinalized \cup {NoThread}
      BY <1>0, <2>1 DEF AllBut
    <3> QED BY <1>0, <2>1, <2>3, <3>1 DEF AllBut
  <2>5. /\ \A x \in Thread : lockOwner'[x] = t => lockOwner[x] = t
        /\ \A x \in Thread : lockOwner[x] = t /\ lockOwner'[x] # t => prio[next] <= prio[x]
    BY <2>1
  <2>6. AllBut(lockOwner', base, prio', NoThread, NotFinalized)
    BY <1>0, <2>1, <2>2, <2>4, <2>5, WaitersRemoved
  <2> QED BY <2>6 DEF PrioritiesOK
<1> QED BY <1>1, <1>2

\* The lock words after a lock was given up: the remaining waiters are queued
\* at the thread the word names, and the wait bit is set for them.
LEMMA ReleaseWords ==
    ASSUME IInv, NEW t \in Thread, NEW a \in held[t], state[t] = "Runnable",
           NEW next \in NextOwners(t, a), ReleaseTo(t, next, a)
    PROVE  /\ mem' \in [Address -> Word] /\ mem'[a].owner = next
           /\ \A c \in Address \ {a} : mem'[c] = mem[c]
           /\ \A c \in Address : WordOK(c)'
           /\ \A u \in Thread : lockOwner'[u] # NoThread => /\ mem'[addressKey[u]].owner = lockOwner'[u]
                                                            /\ mem'[addressKey[u]].wait
<1>0. TypeInv /\ (\A u \in Thread : ThreadOK(u) /\ ThreadWords(u)) /\ \A c \in Address : WordOK(c)
  BY DEF IInv
<1>1. /\ a \in Address /\ mem[a].owner = t
      /\ \A u \in Thread \ {next} :
            lockOwner'[u] = IF lockOwner[u] = t /\ addressKey[u] = a THEN next ELSE lockOwner[u]
  BY ReleaseOwners
<1>2. \A u \in Thread : addressKey[u] \in Address
  BY <1>0 DEF TypeInv, TypeOK
<1>3. CASE next = NoThread
  <2>1. mem' = [mem EXCEPT ![a] = [owner |-> NoThread, wait |-> FALSE]]
    BY <1>3 DEF ReleaseTo, FreeWord
  <2>2. /\ mem' \in [Address -> Word] /\ mem'[a].owner = NoThread /\ mem'[a].wait = FALSE
        /\ \A c \in Address \ {a} : mem'[c] = mem[c]
    BY <1>0, <1>1, <2>1, WordWritten
  <2>3. lockOwner' = lockOwner /\ ~\E u \in Thread : lockOwner[u] = t /\ addressKey[u] = a
    <3>1. lockOwner' = lockOwner
      BY <1>3 DEF ReleaseTo
    <3> QED BY <1>3, <3>1, ReleaseOwners
  <2>4. ASSUME NEW u \in Thread, lockOwner'[u] # NoThread
        PROVE  mem'[addressKey[u]].owner = lockOwner'[u] /\ mem'[addressKey[u]].wait
    <3>1. mem[addressKey[u]].owner = lockOwner[u] /\ mem[addressKey[u]].wait
      BY <1>0, <2>3, <2>4 DEF ThreadWords
    <3>2. addressKey[u] # a
      BY <1>1, <2>3, <3>1
    <3> QED BY <1>2, <2>2, <2>3, <3>1, <3>2
  <2>5. \A c \in Address : WordOK(c)'
    BY <1>0, <2>2 DEF WordOK
  <2> QED BY <1>3, <2>2, <2>4, <2>5
<1>4. CASE next # NoThread
  <2> DEFINE more == LockWaiters(t, a) # {next}
  <2>0. next \in Thread \ {t} /\ lockOwner'[next] = NoThread /\ more \in BOOLEAN
    BY <1>4, ReleaseOwners
  <2>1. mem' = [mem EXCEPT ![a] = [owner |-> next, wait |-> more]]
    BY <1>4 DEF ReleaseTo, NextWord
  <2>2. \A u \in Thread \ {next} : lockOwner[u] = t /\ addressKey[u] = a => more
    BY DEF LockWaiters, Waiters
  <2> HIDE DEF more
  <2>3. /\ mem' \in [Address -> Word] /\ mem'[a].owner = next /\ mem'[a].wait = more
        /\ \A c \in Address \ {a} : mem'[c] = mem[c]
    BY <1>0, <1>1, <2>0, <2>1, WordWritten
  <2>4. ASSUME NEW u \in Thread, lockOwner'[u] # NoThread
        PROVE  mem'[addressKey[u]].owner = lockOwner'[u] /\ mem'[addressKey[u]].wait
    <3>0. u # next
      BY <2>0, <2>4
    <3>1. CASE lockOwner[u] = t /\ addressKey[u] = a
      BY <1>1, <2>2, <2>3, <3>0, <3>1
    <3>2. CASE ~(lockOwner[u] = t /\ addressKey[u] = a)
      <4>1. lockOwner'[u] = lockOwner[u]
        BY <1>1, <3>0, <3>2
      <4>2. mem[addressKey[u]].owner = lockOwner[u] /\ mem[addressKey[u]].wait
        BY <1>0, <2>4, <4>1 DEF ThreadWords
      <4>3. addressKey[u] # a
        BY <1>1, <3>2, <4>2
      <4> QED BY <1>2, <2>3, <4>1, <4>2, <4>3
    <3> QED BY <3>1, <3>2
  <2>5. \A c \in Address : WordOK(c)'
    BY <1>0, <1>4, <2>3 DEF WordOK
  <2> QED BY <2>3, <2>4, <2>5
<1> QED BY <1>3, <1>4

\* Nothing but its owner changes for u.
SameButOwner(u) ==
    /\ pc'[u] = pc[u] /\ cvKey'[u] = cvKey[u] /\ held'[u] = held[u] /\ handle'[u] = handle[u]
    /\ addressKey'[u] = addressKey[u] /\ target'[u] = target[u] /\ seen'[u] = seen[u]

\* A thread gives up a lock: what holds of the others afterwards.
LEMMA ReleaseThreads ==
    ASSUME IInv, NEW t \in Thread, NEW a \in held[t], state[t] = "Runnable",
           NEW next \in NextOwners(t, a), ReleaseTo(t, next, a),
           NEW u \in Thread \ {t}, SameButOwner(u),
           u # next => state'[u] = state[u] /\ waitResult'[u] = waitResult[u],
           u = next => state'[u] = "Runnable",
           cvKey[u] # NoKey => cvFlag'[cvKey[u]]
    PROVE  ThreadOK(u)' /\ ThreadWords(u)'
<1>0. TypeInv /\ ThreadOK(u) /\ ThreadWords(u)
  BY DEF IInv
<1>1. /\ u = next => addressKey[u] = a /\ state[u] = "Waiting" /\ cvKey[u] = NoKey /\ lockOwner'[u] = NoThread
      /\ u # next => (lockOwner'[u] = NoThread <=> lockOwner[u] = NoThread)
      /\ mem[a].owner = t /\ a \in Address
  <2>1. u = next => next # NoThread
    OBVIOUS
  <2>2. u = next => addressKey[u] = a /\ state[u] = "Waiting" /\ cvKey[u] = NoKey /\ lockOwner'[u] = NoThread
    BY <2>1, ReleaseOwners
  <2>3. /\ u # next => lockOwner'[u] = IF lockOwner[u] = t /\ addressKey[u] = a THEN next ELSE lockOwner[u]
        /\ next = NoThread => ~(lockOwner[u] = t /\ addressKey[u] = a)
        /\ mem[a].owner = t /\ a \in Address
    BY ReleaseOwners
  <2> QED BY <2>2, <2>3
<1>2. /\ mem'[a].owner = next /\ \A c \in Address \ {a} : mem'[c] = mem[c]
      /\ lockOwner'[u] # NoThread => mem'[addressKey[u]].owner = lockOwner'[u] /\ mem'[addressKey[u]].wait
  BY ReleaseWords
<1>3. \A c \in Address : mem[c].owner = u => mem'[c].owner = u
  BY <1>1, <1>2
<1>4. held[u] \subseteq Address /\ target[u] \in Address
  BY <1>0 DEF TypeInv, TypeOK
<1>5. ThreadOK(u)'
  <2>1. CASE u = next
    BY <1>0, <1>1, <2>1 DEF ThreadOK, SameButOwner
  <2>2. CASE u # next
    BY <1>0, <1>1, <2>2 DEF ThreadOK, SameButOwner
  <2> QED BY <2>1, <2>2
<1>6. ThreadWords(u)'
  <2>1. \A c \in held'[u] : mem'[c].owner = u
    BY <1>0, <1>3, <1>4 DEF ThreadWords, SameButOwner
  <2>2. lockOwner'[u] # NoThread => mem'[addressKey'[u]].owner = lockOwner'[u] /\ mem'[addressKey'[u]].wait
    BY <1>2 DEF SameButOwner
  <2>3. ASSUME pc'[u] = "wait_condvar", state'[u] = "Runnable", waitResult'[u] = "Success"
        PROVE  mem'[target'[u]].owner = u
    <3>1. CASE u = next
      <4>1. target'[u] = a
        BY <1>0, <1>1, <2>3, <3>1 DEF ThreadOK, SameButOwner
      <4> QED BY <1>2, <3>1, <4>1
    <3>2. CASE u # next
      BY <1>0, <1>3, <1>4, <2>3, <3>2 DEF ThreadWords, SameButOwner
    <3> QED BY <3>1, <3>2
  <2> QED BY <2>1, <2>2, <2>3 DEF ThreadWords
<1> QED BY <1>5, <1>6

\* The wait of one thread ends: what the waits are afterwards.
LEMMA WaitEnded ==
    ASSUME TypeInv, NEW n \in Thread, NEW r \in Results, EndWait(n, r)
    PROVE  /\ state' \in [Thread -> {"Runnable", "Waiting", "Terminated", "Finalized"}]
           /\ waitQueue' \in [Thread -> {"none", "address", "condvar"}]
           /\ waitResult' \in [Thread -> Results] /\ timer' \in [Thread -> BOOLEAN]
           /\ state'[n] = "Runnable" /\ waitResult'[n] = r
           /\ \A u \in Thread \ {n} : state'[u] = state[u] /\ waitResult'[u] = waitResult[u]
BY DEF EndWait, TypeInv, TypeOK

\* SignalToAddress and the release in Wait leave the wait of the next owner.
LEMMA ReleaseWaits ==
    ASSUME IInv, NEW t \in Thread, NEW a \in held[t], state[t] = "Runnable",
           NEW next \in NextOwners(t, a), ReleaseTo(t, next, a),
           IF next = NoThread THEN UNCHANGED waitVars ELSE EndWait(next, "Success")
    PROVE  /\ state' \in [Thread -> {"Runnable", "Waiting", "Terminated", "Finalized"}]
           /\ waitQueue' \in [Thread -> {"none", "address", "condvar"}]
           /\ waitResult' \in [Thread -> Results] /\ timer' \in [Thread -> BOOLEAN]
           /\ \A u \in Thread : /\ u = next => state'[u] = "Runnable"
                                /\ u # next => state'[u] = state[u] /\ waitResult'[u] = waitResult[u]
           /\ NotFinalized' = NotFinalized /\ state'[t] = "Runnable"
<1>0. TypeInv
  BY DEF IInv
<1>1. CASE next = NoThread
  BY <1>0, <1>1 DEF waitVars, TypeInv, TypeOK, NotFinalized
<1>2. CASE next # NoThread
  <2>1. next \in Thread \ {t} /\ state[next] = "Waiting"
    BY <1>2, ReleaseOwners
  <2>2. /\ state' \in [Thread -> {"Runnable", "Waiting", "Terminated", "Finalized"}]
        /\ waitQueue' \in [Thread -> {"none", "address", "condvar"}]
        /\ waitResult' \in [Thread -> Results] /\ timer' \in [Thread -> BOOLEAN]
        /\ state'[next] = "Runnable"
        /\ \A u \in Thread \ {next} : state'[u] = state[u] /\ waitResult'[u] = waitResult[u]
    <3>1. EndWait(next, "Success") /\ "Success" \in Results
      BY <1>2 DEF Results
    <3> QED BY <1>0, <2>1, <3>1, WaitEnded
  <2>3. NotFinalized' = NotFinalized
    BY <2>1, <2>2 DEF NotFinalized
  <2> QED BY <2>1, <2>2, <2>3
<1> QED BY <1>1, <1>2

\* SignalToAddress: a contended unlock.
LEMMA SignalToAddressStep ==
    ASSUME IInv, NEW t \in Thread, NEW a \in Address, SignalToAddress(t, a)
    PROVE  IInv'
<1>0. TypeInv /\ \A u \in Thread : ThreadOK(u) /\ ThreadWords(u)
  BY DEF IInv
<1>1. /\ pc[t] = "idle" /\ state[t] = "Runnable" /\ a \in held[t]
      /\ held' = [held EXCEPT ![t] = @ \ {a}]
      /\ UNCHANGED <<cvFlag, addressKey, cvKey, ref, signal, pc, target, seen, base, terminating, handle>>
  BY DEF SignalToAddress, kernelVars
<1>2. PICK next \in NextOwners(t, a) :
          /\ ReleaseTo(t, next, a)
          /\ IF next = NoThread THEN UNCHANGED waitVars ELSE EndWait(next, "Success")
  BY DEF SignalToAddress
<1>3. /\ state' \in [Thread -> {"Runnable", "Waiting", "Terminated", "Finalized"}]
      /\ waitQueue' \in [Thread -> {"none", "address", "condvar"}]
      /\ waitResult' \in [Thread -> Results] /\ timer' \in [Thread -> BOOLEAN]
      /\ \A u \in Thread : /\ u = next => state'[u] = "Runnable"
                           /\ u # next => state'[u] = state[u] /\ waitResult'[u] = waitResult[u]
      /\ NotFinalized' = NotFinalized /\ state'[t] = "Runnable"
  BY <1>1, <1>2, ReleaseWaits
<1>4. /\ mem' \in [Address -> Word]
      /\ \A c \in Address \ {a} : mem'[c] = mem[c]
      /\ \A c \in Address : WordOK(c)'
  BY <1>1, <1>2, ReleaseWords
<1>5. /\ lockOwner' \in [Thread -> Thread \cup {NoThread}]
      /\ lockOwner[t] = NoThread /\ lockOwner'[t] = NoThread /\ cvKey[t] = NoKey
  <2>1. t # next
    BY <1>1, <1>2, ReleaseOwners
  <2> QED BY <1>1, <1>2, <2>1, ReleaseOwners
<1>6. PrioritiesOK'
  BY <1>1, <1>2, <1>3, ReleasePriorities
<1>7. TypeInv'
  <2>1. prio' \in [Thread -> Nat]
    BY <1>6 DEF PrioritiesOK, AllBut, Prios
  <2>2. held' \in [Thread -> SUBSET Address]
    BY <1>0, <1>1 DEF TypeInv, TypeOK
  <2> QED BY <1>0, <1>1, <1>3, <1>4, <1>5, <2>1, <2>2 DEF TypeInv, TypeOK, Word
<1>8. ASSUME NEW u \in Thread \ {t} PROVE ThreadOK(u)' /\ ThreadWords(u)'
  <2>1. SameButOwner(u)
    BY <1>0, <1>1 DEF SameButOwner, TypeInv, TypeOK
  <2>2. cvKey[u] # NoKey => cvFlag'[cvKey[u]]
    BY <1>0, <1>1 DEF ThreadOK
  <2> QED BY <1>1, <1>2, <1>3, <2>1, <2>2, ReleaseThreads
<1>9. held'[t] = held[t] \ {a} /\ held[t] \subseteq Address
  BY <1>0, <1>1 DEF TypeInv, TypeOK
<1>10. ThreadOK(t)'
  BY <1>0, <1>1, <1>3, <1>5 DEF ThreadOK
<1>11. ThreadWords(t)'
  BY <1>0, <1>1, <1>4, <1>5, <1>9 DEF ThreadWords
<1> QED BY <1>4, <1>6, <1>7, <1>8, <1>10, <1>11, InvariantParts

\* Wait with a zero timeout.
LEMMA CvWaitZeroStep ==
    ASSUME IInv, NEW t \in Thread, NEW a \in Address, NEW k \in Key, CvWaitZero(t, a, k)
    PROVE  IInv'
<1>0. TypeInv /\ \A u \in Thread : ThreadOK(u) /\ ThreadWords(u)
  BY DEF IInv
<1>1. /\ pc[t] = "idle" /\ state[t] = "Runnable" /\ a \in held[t]
      /\ held' = [held EXCEPT ![t] = @ \ {a}]
      /\ cvFlag' = [cvFlag EXCEPT ![k] = TRUE]
      /\ pc' = [pc EXCEPT ![t] = "retry"]
      /\ target' = [target EXCEPT ![t] = a]
      /\ UNCHANGED <<addressKey, cvKey, ref, signal, seen, base, terminating, handle>>
  BY DEF CvWaitZero, kernelVars
<1>2. PICK next \in NextOwners(t, a) :
          /\ ReleaseTo(t, next, a)
          /\ IF next = NoThread THEN UNCHANGED waitVars ELSE EndWait(next, "Success")
  BY DEF CvWaitZero
<1>3. /\ state' \in [Thread -> {"Runnable", "Waiting", "Terminated", "Finalized"}]
      /\ waitQueue' \in [Thread -> {"none", "address", "condvar"}]
      /\ waitResult' \in [Thread -> Results] /\ timer' \in [Thread -> BOOLEAN]
      /\ \A u \in Thread : /\ u = next => state'[u] = "Runnable"
                           /\ u # next => state'[u] = state[u] /\ waitResult'[u] = waitResult[u]
      /\ NotFinalized' = NotFinalized /\ state'[t] = "Runnable"
  BY <1>1, <1>2, ReleaseWaits
<1>4. /\ mem' \in [Address -> Word]
      /\ \A c \in Address \ {a} : mem'[c] = mem[c]
      /\ \A c \in Address : WordOK(c)'
  BY <1>1, <1>2, ReleaseWords
<1>5. /\ lockOwner' \in [Thread -> Thread \cup {NoThread}]
      /\ lockOwner[t] = NoThread /\ lockOwner'[t] = NoThread /\ cvKey[t] = NoKey
  <2>1. t # next
    BY <1>1, <1>2, ReleaseOwners
  <2> QED BY <1>1, <1>2, <2>1, ReleaseOwners
<1>6. PrioritiesOK'
  BY <1>1, <1>2, <1>3, ReleasePriorities
<1>7. TypeInv'
  <2>1. prio' \in [Thread -> Nat]
    BY <1>6 DEF PrioritiesOK, AllBut, Prios
  <2>2. /\ held' \in [Thread -> SUBSET Address] /\ cvFlag' \in [Key -> BOOLEAN]
        /\ pc' \in [Thread -> Pcs] /\ target' \in [Thread -> Address]
    BY <1>0, <1>1 DEF TypeInv, TypeOK, Pcs
  <2> QED BY <1>0, <1>1, <1>3, <1>4, <1>5, <2>1, <2>2 DEF TypeInv, TypeOK, Word
<1>8. ASSUME NEW u \in Thread \ {t} PROVE ThreadOK(u)' /\ ThreadWords(u)'
  <2>1. SameButOwner(u)
    BY <1>0, <1>1 DEF SameButOwner, TypeInv, TypeOK
  <2>2. cvKey[u] # NoKey => cvFlag'[cvKey[u]]
    BY <1>0, <1>1 DEF ThreadOK, TypeInv, TypeOK
  <2> QED BY <1>1, <1>2, <1>3, <2>1, <2>2, ReleaseThreads
<1>9. held'[t] = held[t] \ {a} /\ held[t] \subseteq Address /\ pc'[t] = "retry"
  BY <1>0, <1>1 DEF TypeInv, TypeOK
<1>10. ThreadOK(t)'
  BY <1>0, <1>1, <1>3, <1>5, <1>9 DEF ThreadOK
<1>11. ThreadWords(t)'
  BY <1>0, <1>1, <1>4, <1>5, <1>9 DEF ThreadWords
<1> QED BY <1>4, <1>6, <1>7, <1>8, <1>10, <1>11, InvariantParts

\* Wait: the lock is released and the thread enters the tree in one step.
LEMMA CvWaitStep ==
    ASSUME IInv, NEW t \in Thread, NEW a \in Address, NEW k \in Key, NEW timed \in BOOLEAN,
           CvWait(t, a, k, timed)
    PROVE  IInv'
<1>0. TypeInv /\ \A u \in Thread : ThreadOK(u) /\ ThreadWords(u)
  BY DEF IInv
<1>1. /\ pc[t] = "idle" /\ state[t] = "Runnable" /\ a \in held[t]
      /\ held' = [held EXCEPT ![t] = @ \ {a}]
      /\ cvFlag' = [cvFlag EXCEPT ![k] = TRUE]
      /\ cvKey' = [cvKey EXCEPT ![t] = k]
      /\ addressKey' = [addressKey EXCEPT ![t] = a]
      /\ pc' = [pc EXCEPT ![t] = "wait_condvar"]
      /\ target' = [target EXCEPT ![t] = a]
      /\ UNCHANGED <<ref, signal, seen, base, terminating, handle>>
  BY DEF CvWait, kernelVars
<1>2. PICK next \in NextOwners(t, a) :
          /\ ReleaseTo(t, next, a)
          /\ state' = [u \in Thread |-> IF u = next THEN "Runnable"
                                        ELSE IF u = t THEN "Waiting" ELSE state[u]]
          /\ waitQueue' = [u \in Thread |-> IF u = next THEN "none"
                                            ELSE IF u = t THEN "condvar" ELSE waitQueue[u]]
          /\ waitResult' = [u \in Thread |-> IF u = next THEN "Success" ELSE waitResult[u]]
          /\ timer' = [u \in Thread |-> IF u = next THEN FALSE
                                        ELSE IF u = t THEN timed ELSE timer[u]]
  BY DEF CvWait
<1>3. t # next /\ (next # NoThread => next \in Thread /\ state[next] = "Waiting")
  BY <1>1, <1>2, ReleaseOwners
<1>4. /\ state' \in [Thread -> {"Runnable", "Waiting", "Terminated", "Finalized"}]
      /\ waitQueue' \in [Thread -> {"none", "address", "condvar"}]
      /\ waitResult' \in [Thread -> Results] /\ timer' \in [Thread -> BOOLEAN]
  BY <1>0, <1>2 DEF TypeInv, TypeOK, Results
<1>5. /\ \A u \in Thread \ {t} : /\ u = next => state'[u] = "Runnable"
                                 /\ u # next => state'[u] = state[u] /\ waitResult'[u] = waitResult[u]
      /\ state'[t] = "Waiting" /\ NotFinalized' = NotFinalized
  BY <1>1, <1>2, <1>3 DEF NotFinalized
<1>6. /\ mem' \in [Address -> Word]
      /\ \A c \in Address \ {a} : mem'[c] = mem[c]
      /\ \A c \in Address : WordOK(c)'
  BY <1>1, <1>2, ReleaseWords
<1>7. /\ lockOwner' \in [Thread -> Thread \cup {NoThread}]
      /\ lockOwner'[t] = NoThread
  BY <1>1, <1>2, <1>3, ReleaseOwners
<1>8. PrioritiesOK'
  BY <1>1, <1>2, <1>5, ReleasePriorities
<1>9. TypeInv'
  <2>1. prio' \in [Thread -> Nat]
    BY <1>8 DEF PrioritiesOK, AllBut, Prios
  <2>2. /\ held' \in [Thread -> SUBSET Address] /\ cvFlag' \in [Key -> BOOLEAN]
        /\ pc' \in [Thread -> Pcs] /\ target' \in [Thread -> Address]
        /\ addressKey' \in [Thread -> Address] /\ cvKey' \in [Thread -> Key \cup {NoKey}]
    BY <1>0, <1>1 DEF TypeInv, TypeOK, Pcs
  <2> QED BY <1>0, <1>1, <1>4, <1>6, <1>7, <2>1, <2>2 DEF TypeInv, TypeOK, Word
<1>10. ASSUME NEW u \in Thread \ {t} PROVE ThreadOK(u)' /\ ThreadWords(u)'
  <2>1. SameButOwner(u)
    BY <1>0, <1>1 DEF SameButOwner, TypeInv, TypeOK
  <2>2. cvKey[u] # NoKey => cvFlag'[cvKey[u]]
    BY <1>0, <1>1 DEF ThreadOK, TypeInv, TypeOK
  <2> QED BY <1>1, <1>2, <1>5, <2>1, <2>2, ReleaseThreads
<1>11. /\ held'[t] = held[t] \ {a} /\ held[t] \subseteq Address /\ pc'[t] = "wait_condvar"
       /\ target'[t] = a /\ addressKey'[t] = a /\ cvKey'[t] = k /\ cvFlag'[k]
  BY <1>0, <1>1 DEF TypeInv, TypeOK
<1>12. ThreadOK(t)'
  BY <1>0, <1>1, <1>5, <1>7, <1>11 DEF ThreadOK
<1>13. ThreadWords(t)'
  BY <1>0, <1>1, <1>5, <1>6, <1>7, <1>11 DEF ThreadWords
<1> QED BY <1>6, <1>8, <1>9, <1>10, <1>12, <1>13, InvariantParts

\* Signal begins its loop.
LEMMA SignalStep ==
    ASSUME IInv, NEW k \in Key, NEW count \in 0 .. 1, Signal(k, count)
    PROVE  IInv'
<1>0. TypeInv /\ PrioritiesOK /\ (\A u \in Thread : ThreadOK(u) /\ ThreadWords(u)) /\ \A c \in Address : WordOK(c)
  BY DEF IInv
<1> DEFINE n == IF count = 0 THEN Cardinality(Thread) ELSE count
<1>1. /\ signal' = [key |-> k, left |-> n]
      /\ UNCHANGED <<mem, cvFlag, prio, lockOwner, addressKey, cvKey, state, waitQueue, waitResult, timer, ref>>
      /\ UNCHANGED <<base, terminating, handle, pc, target, seen, held>>
  BY DEF Signal, waitVars, kernelVars, userVars
<1>2. n \in Nat
  BY FS_CardinalityType
<1> HIDE DEF n
<1>3. TypeInv'
  BY <1>0, <1>1, <1>2 DEF TypeInv, TypeOK
<1>4. PrioritiesOK'
  BY <1>0, <1>1, PrioritiesKept DEF NotFinalized
<1>5. ASSUME NEW u \in Thread PROVE ThreadOK(u)' /\ ThreadWords(u)'
  BY <1>0, <1>1 DEF ThreadOK, ThreadWords
<1>6. \A c \in Address : WordOK(c)'
  BY <1>0, <1>1 DEF WordOK
<1> QED BY <1>3, <1>4, <1>5, <1>6 DEF IInv

\* Signal ends: the flag stays set while somebody is left in the tree.
LEMMA SignalEndStep ==
    ASSUME IInv, SignalEnd
    PROVE  IInv'
<1>0. TypeInv /\ PrioritiesOK /\ (\A u \in Thread : ThreadOK(u) /\ ThreadWords(u)) /\ \A c \in Address : WordOK(c)
  BY DEF IInv
<1> DEFINE k == signal.key
<1>1. /\ cvFlag' = [cvFlag EXCEPT ![k] = FlagAfterSignal(k)]
      /\ signal' = NoSignal
      /\ UNCHANGED <<mem, prio, lockOwner, addressKey, cvKey, state, waitQueue, waitResult, timer, ref>>
      /\ UNCHANGED <<base, terminating, handle, pc, target, seen, held>>
  BY DEF SignalEnd, waitVars, kernelVars, userVars
<1>2. k \in Key
  BY <1>0 DEF SignalEnd, TypeInv
<1>3. cvFlag \in [Key -> BOOLEAN] /\ FlagAfterSignal(k) \in BOOLEAN /\ \A u \in Thread : cvKey[u] \in Key \cup {NoKey}
  BY <1>0, <1>2 DEF TypeInv, TypeOK, FlagAfterSignal
<1>4. ASSUME NEW u \in Thread, cvKey[u] # NoKey PROVE cvFlag'[cvKey[u]]
  <2>1. cvFlag[cvKey[u]]
    BY <1>0, <1>4 DEF ThreadOK
  <2>2. cvKey[u] = k => FlagAfterSignal(k)
    BY <2>1 DEF FlagAfterSignal, CvWaiters
  <2> QED BY <1>1, <1>2, <1>3, <1>4, <2>1, <2>2
<1>5. TypeInv'
  BY <1>0, <1>1, <1>2, <1>3 DEF TypeInv, TypeOK
<1>6. PrioritiesOK'
  BY <1>0, <1>1, PrioritiesKept DEF NotFinalized
<1>7. ASSUME NEW u \in Thread PROVE ThreadOK(u)' /\ ThreadWords(u)'
  <2>1. ThreadOK(u)'
    BY <1>0, <1>1, <1>4 DEF ThreadOK
  <2> QED BY <1>0, <1>1, <2>1 DEF ThreadWords
<1>8. \A c \in Address : WordOK(c)'
  BY <1>0, <1>1 DEF WordOK
<1> QED BY <1>5, <1>6, <1>7, <1>8 DEF IInv

\* One turn of Signal's loop, with the three outcomes of SignalImpl.
LEMMA SignalNextStep ==
    ASSUME IInv, SignalNext
    PROVE  IInv'
<1>0. TypeInv /\ PrioritiesOK /\ \A u \in Thread : ThreadOK(u) /\ ThreadWords(u)
  BY DEF IInv
<1>00. \A c \in Address : WordOK(c)
  BY DEF IInv
<1>1. PICK t \in Highest(CvWaiters(signal.key)) :
        /\ cvKey' = [cvKey EXCEPT ![t] = NoKey]
        /\ \/ /\ mem[addressKey[t]] = FreeWord
              /\ mem' = [mem EXCEPT ![addressKey[t]] = [owner |-> t, wait |-> FALSE]]
              /\ EndWait(t, "Success")
              /\ UNCHANGED <<lockOwner, prio>>
           \/ /\ mem[addressKey[t]] # FreeWord
              /\ mem' = [mem EXCEPT ![addressKey[t]].wait = TRUE]
              /\ \/ /\ handle[mem[addressKey[t]].owner]
                    /\ lockOwner' = [lockOwner EXCEPT ![t] = mem[addressKey[t]].owner]
                    /\ prio' = AddWaiter([lockOwner EXCEPT ![t] = mem[addressKey[t]].owner],
                                         mem[addressKey[t]].owner, t)
                    /\ UNCHANGED waitVars
                 \/ /\ ~handle[mem[addressKey[t]].owner]
                    /\ EndWait(t, "InvalidState")
                    /\ UNCHANGED <<lockOwner, prio>>
  BY DEF SignalNext
<1>2. /\ signal' = [signal EXCEPT !.left = @ - 1]
      /\ UNCHANGED <<cvFlag, addressKey, ref, base, terminating, handle, pc, target, seen, held>>
  BY DEF SignalNext, kernelVars, userVars
<1>3. signal' \in [key : Key, left : Nat] /\ signal.key \in Key
  <2>1. signal \in [key : Key, left : Nat] /\ signal.left > 0
    BY <1>0 DEF SignalNext, TypeInv
  <2> QED BY <1>2, <2>1
<1>4. t \in Thread /\ cvKey[t] # NoKey
  BY <1>1, <1>3 DEF Highest, CvWaiters
<1> DEFINE a == addressKey[t]
<1>5. /\ state[t] = "Waiting" /\ pc[t] = "wait_condvar" /\ lockOwner[t] = NoThread /\ target[t] = a
      /\ a \in Address /\ addressKey'[t] = a /\ target'[t] = a /\ pc'[t] = "wait_condvar"
  BY <1>0, <1>2, <1>4 DEF ThreadOK, TypeInv, TypeOK
<1>6. /\ cvKey' \in [Thread -> Key \cup {NoKey}] /\ cvKey'[t] = NoKey
      /\ \A u \in Thread \ {t} : cvKey'[u] = cvKey[u]
  BY <1>0, <1>1, <1>4 DEF TypeInv, TypeOK
<1>7. /\ lockOwner \in [Thread -> Thread \cup {NoThread}] /\ prio \in [Thread -> Nat]
      /\ state \in [Thread -> {"Runnable", "Waiting", "Terminated", "Finalized"}]
      /\ waitQueue \in [Thread -> {"none", "address", "condvar"}]
      /\ waitResult \in [Thread -> Results] /\ timer \in [Thread -> BOOLEAN]
  BY <1>0 DEF TypeInv, TypeOK
<1>8. ASSUME mem' \in [Address -> Word], lockOwner' \in [Thread -> Thread \cup {NoThread}],
             state' \in [Thread -> {"Runnable", "Waiting", "Terminated", "Finalized"}],
             waitQueue' \in [Thread -> {"none", "address", "condvar"}],
             waitResult' \in [Thread -> Results], timer' \in [Thread -> BOOLEAN], PrioritiesOK'
      PROVE  TypeInv'
  <2>1. prio' \in [Thread -> Nat]
    BY <1>8 DEF PrioritiesOK, AllBut, Prios
  <2> QED BY <1>0, <1>2, <1>3, <1>6, <1>8, <2>1 DEF TypeInv, TypeOK, Word
<1>9. ASSUME NEW u \in Thread \ {t}, state'[u] = state[u], waitResult'[u] = waitResult[u],
             lockOwner'[u] = lockOwner[u]
      PROVE  Same(u) /\ (cvKey[u] # NoKey => cvFlag'[cvKey[u]])
  BY <1>0, <1>2, <1>6, <1>9 DEF Same, ThreadOK
<1>10. CASE mem[a] = FreeWord
  <2>1. /\ mem' = [mem EXCEPT ![a] = [owner |-> t, wait |-> FALSE]]
        /\ EndWait(t, "Success") /\ "Success" \in Results
        /\ lockOwner' = lockOwner /\ prio' = prio
    BY <1>1, <1>10 DEF Results
  <2>2. /\ state' \in [Thread -> {"Runnable", "Waiting", "Terminated", "Finalized"}]
        /\ waitQueue' \in [Thread -> {"none", "address", "condvar"}]
        /\ waitResult' \in [Thread -> Results] /\ timer' \in [Thread -> BOOLEAN]
        /\ state'[t] = "Runnable"
        /\ \A u \in Thread \ {t} : state'[u] = state[u] /\ waitResult'[u] = waitResult[u]
    BY <1>0, <1>4, <2>1, WaitEnded
  <2>3. /\ mem' \in [Address -> Word] /\ mem'[a].owner = t /\ mem'[a].wait = FALSE
        /\ \A c \in Address \ {a} : mem'[c] = mem[c]
    BY <1>0, <1>4, <1>5, <2>1, WordWritten
  <2>4. mem[a].owner = NoThread /\ ~mem[a].wait
    BY <1>10, WordFacts
  <2>5. PrioritiesOK'
    <3>1. NotFinalized' = NotFinalized
      BY <1>5, <2>2 DEF NotFinalized
    <3> QED BY <1>0, <1>2, <2>1, <3>1, PrioritiesKept
  <2>6. \A c \in Address : WordOK(c)'
    BY <1>00, <1>4, <2>3 DEF WordOK
  <2>7. ASSUME NEW u \in Thread \ {t} PROVE ThreadOK(u)' /\ ThreadWords(u)'
    <3>1. addressKey[u] \in Address
      BY <1>0 DEF TypeInv, TypeOK
    <3>2. \A c \in Address : mem[c].owner = u => mem'[c].owner = u
      BY <2>3, <2>4
    <3>3. lockOwner[u] # NoThread => mem'[addressKey[u]].owner = lockOwner[u] /\ mem'[addressKey[u]].wait
      BY <1>0, <2>3, <2>4, <3>1 DEF ThreadWords
    <3>4. Same(u) /\ (cvKey[u] # NoKey => cvFlag'[cvKey[u]])
      BY <1>9, <2>1, <2>2
    <3> QED BY <1>0, <3>2, <3>3, <3>4, ThreadKept
  <2>8. ThreadOK(t)'
    BY <1>0, <1>2, <1>4, <1>5, <1>6, <2>1, <2>2 DEF ThreadOK
  <2>9. ThreadWords(t)'
    <3>1. \A c \in held'[t] : mem'[c].owner = t
      <4>1. held'[t] \subseteq Address /\ \A c \in held'[t] : mem[c].owner = t
        BY <1>0, <1>2, <1>4 DEF ThreadWords, TypeInv, TypeOK
      <4> QED BY <2>3, <4>1
    <3> QED BY <1>5, <2>1, <2>3, <3>1 DEF ThreadWords
  <2>10. TypeInv'
    BY <1>7, <1>8, <2>1, <2>2, <2>3, <2>5
  <2> QED BY <2>5, <2>6, <2>7, <2>8, <2>9, <2>10, InvariantParts
<1>11. CASE mem[a] # FreeWord
  <2>1. mem' = [mem EXCEPT ![a].wait = TRUE]
    BY <1>1, <1>11
  <2>2. /\ mem' \in [Address -> Word] /\ mem'[a].owner = mem[a].owner /\ mem'[a].wait
        /\ \A c \in Address \ {a} : mem'[c] = mem[c]
    <3> HIDE DEF a
    <3>1. /\ mem' \in [Address -> Word] /\ mem'[a] = [owner |-> mem[a].owner, wait |-> TRUE]
          /\ \A c \in Address \ {a} : mem'[c] = mem[c]
      BY <1>0, <1>5, <2>1, WaitBitSetIn
    <3> QED BY <3>1
  <2>3. mem[a].owner \in Thread
    BY <1>0, <1>00, <1>5, <1>11, WordValues, FreeNamesNobody
  <2>4. \A c \in Address : WordOK(c)'
    BY <1>00, <2>2, <2>3 DEF WordOK
  <2>5. ASSUME NEW u \in Thread \ {t}, state'[u] = state[u], waitResult'[u] = waitResult[u],
               lockOwner'[u] = lockOwner[u]
        PROVE ThreadOK(u)' /\ ThreadWords(u)'
    <3>1. addressKey[u] \in Address
      BY <1>0 DEF TypeInv, TypeOK
    <3>2. \A c \in Address : mem[c].owner = u => mem'[c].owner = u
      BY <2>2
    <3>3. lockOwner[u] # NoThread => mem'[addressKey[u]].owner = lockOwner[u] /\ mem'[addressKey[u]].wait
      BY <1>0, <2>2, <3>1 DEF ThreadWords
    <3>4. Same(u) /\ (cvKey[u] # NoKey => cvFlag'[cvKey[u]])
      BY <1>9, <2>5
    <3> QED BY <1>0, <3>2, <3>3, <3>4, ThreadKept
  <2>6. \A c \in held'[t] : mem'[c].owner = t
    <3>1. held'[t] \subseteq Address /\ \A c \in held'[t] : mem[c].owner = t
      BY <1>0, <1>2, <1>4 DEF ThreadWords, TypeInv, TypeOK
    <3> QED BY <2>2, <3>1
  <2>7. CASE handle[mem[a].owner]
    <3> DEFINE o == mem[a].owner
               owners == [lockOwner EXCEPT ![t] = o]
    <3>1. lockOwner' = owners /\ prio' = AddWaiter(owners, o, t)
          /\ UNCHANGED <<state, waitQueue, waitResult, timer>>
      BY <1>1, <1>11, <2>7 DEF waitVars
    <3>2. NotFinalized' = NotFinalized /\ t \in NotFinalized /\ o \in NotFinalized
      BY <1>0, <1>4, <1>5, <2>3, <2>7, <3>1 DEF NotFinalized, ThreadOK
    <3>3. PrioritiesOK'
      <4> DEFINE p == IF prio[t] < prio[o] THEN RestorePriority(owners, base, prio, o) ELSE prio
      <4>1. AllBut(owners, base, p, NoThread, NotFinalized)
        BY <1>0, <1>5, <3>2, WaiterAdded DEF PrioritiesOK
      <4>2. lockOwner' = owners /\ prio' = p /\ base' = base
        BY <1>2, <3>1 DEF AddWaiter
      <4> QED BY <3>2, <4>1, <4>2 DEF PrioritiesOK
    <3>4. /\ lockOwner' \in [Thread -> Thread \cup {NoThread}] /\ lockOwner'[t] = o
          /\ \A u \in Thread \ {t} : lockOwner'[u] = lockOwner[u]
      BY <1>4, <1>7, <2>3, <3>1
    <3>5. TypeInv'
      BY <1>7, <1>8, <2>2, <3>1, <3>3, <3>4
    <3>6. ThreadOK(t)'
      <4>1. lockOwner'[t] # NoThread /\ state'[t] = "Waiting"
        BY <1>5, <2>3, <3>1, <3>4
      <4> QED BY <1>0, <1>2, <1>4, <1>5, <1>6, <4>1 DEF ThreadOK
    <3>7. ThreadWords(t)'
      BY <1>5, <2>2, <2>6, <3>1, <3>4 DEF ThreadWords
    <3>8. \A u \in Thread \ {t} : ThreadOK(u)' /\ ThreadWords(u)'
      BY <2>5, <3>1, <3>4
    <3> QED BY <2>4, <3>3, <3>5, <3>6, <3>7, <3>8, InvariantParts
  <2>8. CASE ~handle[mem[a].owner]
    <3>1. /\ EndWait(t, "InvalidState") /\ "InvalidState" \in Results
          /\ lockOwner' = lockOwner /\ prio' = prio
      BY <1>1, <1>11, <2>8 DEF Results
    <3>2. /\ state' \in [Thread -> {"Runnable", "Waiting", "Terminated", "Finalized"}]
          /\ waitQueue' \in [Thread -> {"none", "address", "condvar"}]
          /\ waitResult' \in [Thread -> Results] /\ timer' \in [Thread -> BOOLEAN]
          /\ state'[t] = "Runnable" /\ waitResult'[t] = "InvalidState"
          /\ \A u \in Thread \ {t} : state'[u] = state[u] /\ waitResult'[u] = waitResult[u]
      BY <1>0, <1>4, <3>1, WaitEnded
    <3>3. PrioritiesOK'
      <4>1. NotFinalized' = NotFinalized
        BY <1>5, <3>2 DEF NotFinalized
      <4> QED BY <1>0, <1>2, <3>1, <4>1, PrioritiesKept
    <3>4. TypeInv'
      BY <1>7, <1>8, <2>2, <3>1, <3>2, <3>3
    <3>5. ThreadOK(t)'
      BY <1>0, <1>2, <1>4, <1>5, <1>6, <3>1, <3>2 DEF ThreadOK
    <3>6. ThreadWords(t)'
      BY <1>5, <2>6, <3>1, <3>2 DEF ThreadWords
    <3>7. \A u \in Thread \ {t} : ThreadOK(u)' /\ ThreadWords(u)'
      BY <2>5, <3>1, <3>2
    <3> QED BY <1>4, <2>4, <3>3, <3>4, <3>5, <3>6, <3>7, InvariantParts
  <2> QED BY <2>7, <2>8
<1> QED BY <1>10, <1>11

\* A wait is cancelled: the thread runs and is on nobody's list.
LEMMA CancelThreads ==
    ASSUME IInv, NEW t \in Thread, state[t] = "Waiting", NEW r \in Results \ {"Success"},
           lockOwner' = [lockOwner EXCEPT ![t] = NoThread],
           cvKey' = [cvKey EXCEPT ![t] = NoKey], EndWait(t, r),
           UNCHANGED <<mem, cvFlag, addressKey, ref, signal, handle, pc, target, seen, held>>,
           base' \in [Thread -> Nat], terminating' \in [Thread -> BOOLEAN],
           NotFinalized' = NotFinalized => PrioritiesOK'
    PROVE  IInv'
<1>0. TypeInv /\ \A u \in Thread : ThreadOK(u) /\ ThreadWords(u)
  BY DEF IInv
<1>00. \A c \in Address : WordOK(c)
  BY DEF IInv
<1>1. /\ state' \in [Thread -> {"Runnable", "Waiting", "Terminated", "Finalized"}]
      /\ waitQueue' \in [Thread -> {"none", "address", "condvar"}]
      /\ waitResult' \in [Thread -> Results] /\ timer' \in [Thread -> BOOLEAN]
      /\ state'[t] = "Runnable" /\ waitResult'[t] = r
      /\ \A u \in Thread \ {t} : state'[u] = state[u] /\ waitResult'[u] = waitResult[u]
  BY <1>0, WaitEnded
<1>2. /\ lockOwner' \in [Thread -> Thread \cup {NoThread}] /\ lockOwner'[t] = NoThread
      /\ cvKey' \in [Thread -> Key \cup {NoKey}] /\ cvKey'[t] = NoKey
      /\ \A u \in Thread \ {t} : lockOwner'[u] = lockOwner[u] /\ cvKey'[u] = cvKey[u]
  BY <1>0 DEF TypeInv, TypeOK
<1>3. PrioritiesOK'
  BY <1>1 DEF NotFinalized
<1>4. TypeInv'
  <2>1. prio' \in [Thread -> Nat]
    BY <1>3 DEF PrioritiesOK, AllBut, Prios
  <2> QED BY <1>0, <1>1, <1>2, <2>1 DEF TypeInv, TypeOK
<1>5. ASSUME NEW u \in Thread \ {t} PROVE ThreadOK(u)' /\ ThreadWords(u)'
  <2>1. Same(u)
    BY <1>1, <1>2 DEF Same
  <2>2. lockOwner[u] # NoThread => mem'[addressKey[u]].owner = lockOwner[u] /\ mem'[addressKey[u]].wait
    BY <1>0 DEF ThreadWords
  <2> QED BY <1>0, <2>1, <2>2, ThreadKept DEF ThreadOK
<1>6. ThreadOK(t)'
  BY <1>0, <1>1, <1>2 DEF ThreadOK
<1>7. ThreadWords(t)'
  BY <1>0, <1>1, <1>2 DEF ThreadWords
<1>8. \A c \in Address : WordOK(c)'
  BY <1>00 DEF WordOK
<1> QED BY <1>3, <1>4, <1>5, <1>6, <1>7, <1>8, InvariantParts

\* The timer cancels a wait.
LEMMA OnTimerStep ==
    ASSUME IInv, NEW t \in Thread, OnTimer(t)
    PROVE  IInv'
<1>0. TypeInv /\ PrioritiesOK
  BY DEF IInv
<1>1. /\ state[t] = "Waiting"
      /\ lockOwner' = [lockOwner EXCEPT ![t] = NoThread]
      /\ cvKey' = [cvKey EXCEPT ![t] = NoKey] /\ EndWait(t, "TimedOut")
      /\ UNCHANGED <<mem, cvFlag, addressKey, ref, signal, handle, pc, target, seen, held, base, terminating>>
  BY DEF OnTimer, CancelWait, kernelVars, userVars
<1>2. "TimedOut" \in Results \ {"Success"} /\ base' \in [Thread -> Nat] /\ terminating' \in [Thread -> BOOLEAN]
  BY <1>0, <1>1 DEF Results, TypeInv, TypeOK
<1>3. ASSUME NotFinalized' = NotFinalized PROVE PrioritiesOK'
  <2> DEFINE o == lockOwner[t]
  <2>1. AllBut(lockOwner, base, prio, NoThread, NotFinalized) /\ t \in NotFinalized /\ lockOwner \in Owners
    BY <1>0, <1>1 DEF PrioritiesOK, NotFinalized, AllBut
  <2>2. o \in NotFinalized \cup {NoThread}
    BY <2>1 DEF AllBut
  <2>3. lockOwner' \in Owners /\ lockOwner'[t] = NoThread /\ \A x \in Thread \ {t} : lockOwner'[x] = lockOwner[x]
    BY <1>1, <2>1 DEF Owners
  <2>4. prio' = IF o # NoThread /\ prio[o] = prio[t] /\ prio[o] < base[o]
                THEN RestorePriority(lockOwner', base, prio, o) ELSE prio
    <3>1. prio' = IF o = NoThread THEN prio ELSE RemoveWaiter(lockOwner', o, t)
      BY <1>1 DEF OnTimer, CancelWait
    <3>2. CASE o = NoThread
      BY <3>1, <3>2
    <3>3. CASE o # NoThread
      BY <3>1, <3>3 DEF RemoveWaiter
    <3> QED BY <3>2, <3>3
  <2> HIDE DEF o
  <2>5. AllBut(lockOwner', base, prio', NoThread, NotFinalized)
    <3>1. lockOwner[t] = o
      BY DEF o
    <3> QED BY <2>1, <2>2, <2>3, <2>4, <3>1, WaiterRemoved
  <2> QED BY <1>1, <1>3, <2>5 DEF PrioritiesOK
<1> QED BY <1>1, <1>2, <1>3, CancelThreads

\* A base priority is set, of a waiting or of a running thread.
LEMMA SetBasePriorityStep ==
    ASSUME IInv, NEW t \in Thread, NEW p \in Priorities, SetBasePriority(t, p)
    PROVE  IInv'
<1>0. TypeInv /\ PrioritiesOK /\ (\A u \in Thread : ThreadOK(u) /\ ThreadWords(u)) /\ \A c \in Address : WordOK(c)
  BY DEF IInv
<1>1. /\ handle[t] /\ base' = [base EXCEPT ![t] = p] /\ prio' = RestorePriority(lockOwner, base', prio, t)
      /\ UNCHANGED <<mem, cvFlag, lockOwner, addressKey, cvKey, ref, signal, state, waitQueue, waitResult, timer>>
      /\ UNCHANGED <<terminating, handle, pc, target, seen, held>>
  BY DEF SetBasePriority, waitVars, userVars
<1>2. t \in NotFinalized /\ NotFinalized' = NotFinalized
  BY <1>0, <1>1 DEF NotFinalized, ThreadOK
<1>3. PrioritiesOK'
  <2>1. p \in Nat
    OBVIOUS
  <2>2. AllBut(lockOwner, base', RestorePriority(lockOwner, base', prio, t), NoThread, NotFinalized)
    BY <1>0, <1>1, <1>2, <2>1, BaseChanged DEF PrioritiesOK
  <2> QED BY <1>1, <1>2, <2>2 DEF PrioritiesOK
<1>4. TypeInv'
  <2>1. prio' \in [Thread -> Nat] /\ base' \in [Thread -> Nat]
    BY <1>3 DEF PrioritiesOK, AllBut, Prios
  <2> QED BY <1>0, <1>1, <2>1 DEF TypeInv, TypeOK
<1>5. ASSUME NEW u \in Thread PROVE ThreadOK(u)' /\ ThreadWords(u)'
  BY <1>0, <1>1 DEF ThreadOK, ThreadWords
<1>6. \A c \in Address : WordOK(c)'
  BY <1>0, <1>1 DEF WordOK
<1> QED BY <1>3, <1>4, <1>5, <1>6 DEF IInv

\* RequestTerminate: first the raise, then the cancelled wait.
LEMMA RequestTerminateStep ==
    ASSUME IInv, NEW t \in Thread, RequestTerminate(t)
    PROVE  IInv'
<1> DEFINE n == IF base[t] > TerminatingPriority THEN TerminatingPriority ELSE base[t]
           bases == [base EXCEPT ![t] = n]
           raised == IF bases = base THEN prio ELSE RestorePriority(lockOwner, bases, prio, t)
           owners == [lockOwner EXCEPT ![t] = NoThread]
           o == lockOwner[t]
<1>0. TypeInv /\ PrioritiesOK /\ (\A u \in Thread : ThreadOK(u) /\ ThreadWords(u)) /\ \A c \in Address : WordOK(c)
  BY DEF IInv
<1>1. bases = [base EXCEPT ![t] = IF @ > TerminatingPriority THEN TerminatingPriority ELSE @]
  BY <1>0 DEF TypeInv, TypeOK
<1>2. /\ terminating' = [terminating EXCEPT ![t] = TRUE] /\ base' = bases
      /\ UNCHANGED <<mem, cvFlag, addressKey, ref, signal, handle, pc, target, seen, held>>
  BY DEF RequestTerminate, userVars
<1>3. \/ /\ state[t] = "Waiting"
         /\ lockOwner' = owners
         /\ prio' = IF o # NoThread /\ raised[o] = raised[t] /\ raised[o] < bases[o]
                    THEN RestorePriority(owners, bases, raised, o) ELSE raised
         /\ cvKey' = [cvKey EXCEPT ![t] = NoKey]
         /\ EndWait(t, "TerminationRequested")
      \/ /\ state[t] = "Runnable"
         /\ prio' = raised
         /\ UNCHANGED <<lockOwner, cvKey, state, waitQueue, waitResult, timer>>
  BY DEF RequestTerminate, waitVars
<1>4. n \in Nat /\ t \in NotFinalized
  BY <1>0, <1>3 DEF TypeInv, TypeOK, NotFinalized
<1>5. AllBut(lockOwner, bases, raised, NoThread, NotFinalized)
  <2>1. CASE bases = base
    BY <1>0, <2>1 DEF PrioritiesOK
  <2>2. CASE bases # base
    <3>1. AllBut(lockOwner, bases, RestorePriority(lockOwner, bases, prio, t), NoThread, NotFinalized)
      BY <1>0, <1>4, BaseChanged DEF PrioritiesOK
    <3> QED BY <2>2, <3>1
  <2> QED BY <2>1, <2>2
<1> HIDE DEF n, bases, raised
<1>6. base' \in [Thread -> Nat] /\ terminating' \in [Thread -> BOOLEAN]
  BY <1>0, <1>2, <1>5 DEF AllBut, Prios, TypeInv, TypeOK
<1>7. CASE state[t] = "Waiting"
  <2>0. /\ lockOwner' = owners
        /\ prio' = IF o # NoThread /\ raised[o] = raised[t] /\ raised[o] < bases[o]
                   THEN RestorePriority(owners, bases, raised, o) ELSE raised
        /\ cvKey' = [cvKey EXCEPT ![t] = NoKey]
        /\ EndWait(t, "TerminationRequested")
    BY <1>3, <1>7
  <2>1. "TerminationRequested" \in Results \ {"Success"}
    BY DEF Results
  <2>2. ASSUME NotFinalized' = NotFinalized PROVE PrioritiesOK'
    <3>1. lockOwner \in Owners /\ o \in NotFinalized \cup {NoThread} /\ lockOwner[t] = o
      BY <1>4, <1>5 DEF AllBut
    <3>2. owners \in Owners /\ owners[t] = NoThread /\ \A x \in Thread \ {t} : owners[x] = lockOwner[x]
      BY <3>1 DEF Owners
    <3> HIDE DEF o, owners
    <3>3. AllBut(owners, bases, prio', NoThread, NotFinalized)
      BY <1>4, <1>5, <2>0, <3>1, <3>2, WaiterRemoved
    <3> QED BY <1>2, <2>0, <2>2, <3>3 DEF PrioritiesOK
  <2> QED BY <1>2, <1>6, <1>7, <2>0, <2>1, <2>2, CancelThreads
<1>8. CASE state[t] # "Waiting"
  <2>0. prio' = raised /\ UNCHANGED <<lockOwner, cvKey, state, waitQueue, waitResult, timer>>
    BY <1>3, <1>8
  <2>1. PrioritiesOK'
    <3>1. NotFinalized' = NotFinalized
      BY <2>0 DEF NotFinalized
    <3> QED BY <1>2, <1>5, <2>0, <3>1 DEF PrioritiesOK
  <2>2. TypeInv'
    <3>1. prio' \in [Thread -> Nat]
      BY <2>1 DEF PrioritiesOK, AllBut, Prios
    <3> QED BY <1>0, <1>2, <1>6, <2>0, <3>1 DEF TypeInv, TypeOK
  <2>3. ASSUME NEW u \in Thread PROVE ThreadOK(u)' /\ ThreadWords(u)'
    BY <1>0, <1>2, <2>0 DEF ThreadOK, ThreadWords
  <2>4. \A c \in Address : WordOK(c)'
    BY <1>0, <1>2 DEF WordOK
  <2> QED BY <2>1, <2>2, <2>3, <2>4 DEF IInv
<1> QED BY <1>7, <1>8

\* A thread exits, perhaps with locks.
LEMMA ExitStep ==
    ASSUME IInv, NEW t \in Thread, Exit(t)
    PROVE  IInv'
<1>0. TypeInv /\ PrioritiesOK /\ \A u \in Thread : ThreadOK(u) /\ ThreadWords(u)
  BY DEF IInv
<1>00. \A c \in Address : WordOK(c)
  BY DEF IInv
<1>1. /\ pc[t] = "idle" /\ state[t] = "Runnable"
      /\ state' = [state EXCEPT ![t] = "Terminated"]
      /\ UNCHANGED <<mem, cvFlag, prio, lockOwner, addressKey, cvKey, waitQueue, waitResult, timer, ref, signal>>
      /\ UNCHANGED <<base, terminating, handle, pc, target, seen, held>>
  BY DEF Exit, kernelVars, userVars
<1>2. /\ state'[t] = "Terminated"
      /\ \A u \in Thread \ {t} : state'[u] = state[u]
  BY <1>0, <1>1 DEF TypeInv, TypeOK
<1>3. PrioritiesOK'
  <2>1. NotFinalized' = NotFinalized
    BY <1>1, <1>2 DEF NotFinalized
  <2> QED BY <1>0, <1>1, <2>1, PrioritiesKept
<1>4. TypeInv'
  BY <1>0, <1>1 DEF TypeInv, TypeOK
<1>5. ASSUME NEW u \in Thread \ {t} PROVE ThreadOK(u)' /\ ThreadWords(u)'
  <2>1. Same(u)
    BY <1>1, <1>2 DEF Same
  <2>2. lockOwner[u] # NoThread => mem'[addressKey[u]].owner = lockOwner[u] /\ mem'[addressKey[u]].wait
    BY <1>0, <1>1 DEF ThreadWords
  <2> QED BY <1>0, <1>1, <2>1, <2>2, ThreadKept DEF ThreadOK
<1>6. ThreadOK(t)'
  BY <1>0, <1>1, <1>2 DEF ThreadOK
<1>7. ThreadWords(t)'
  BY <1>0, <1>1, <1>2 DEF ThreadWords
<1>8. \A c \in Address : WordOK(c)'
  BY <1>00, <1>1 DEF WordOK
<1> QED BY <1>3, <1>4, <1>5, <1>6, <1>7, <1>8, InvariantParts

\* The handle of a thread is closed.
LEMMA CloseHandleStep ==
    ASSUME IInv, NEW t \in Thread, CloseHandle(t)
    PROVE  IInv'
<1>0. TypeInv /\ PrioritiesOK /\ \A u \in Thread : ThreadOK(u) /\ ThreadWords(u)
  BY DEF IInv
<1>00. \A c \in Address : WordOK(c)
  BY DEF IInv
<1>1. /\ handle' = [handle EXCEPT ![t] = FALSE]
      /\ UNCHANGED <<mem, cvFlag, prio, lockOwner, addressKey, cvKey, state, waitQueue, waitResult, timer>>
      /\ UNCHANGED <<ref, signal, base, terminating, pc, target, seen, held>>
  BY DEF CloseHandle, waitVars, userVars
<1>2. handle'[t] = FALSE /\ \A u \in Thread \ {t} : handle'[u] = handle[u]
  BY <1>0, <1>1 DEF TypeInv, TypeOK
<1>3. PrioritiesOK'
  <2>1. NotFinalized' = NotFinalized
    BY <1>1, <1>2 DEF NotFinalized
  <2> QED BY <1>0, <1>1, <2>1, PrioritiesKept
<1>4. TypeInv'
  BY <1>0, <1>1 DEF TypeInv, TypeOK
<1>5. ASSUME NEW u \in Thread \ {t} PROVE ThreadOK(u)' /\ ThreadWords(u)'
  <2>1. Same(u)
    BY <1>1, <1>2 DEF Same
  <2>2. lockOwner[u] # NoThread => mem'[addressKey[u]].owner = lockOwner[u] /\ mem'[addressKey[u]].wait
    BY <1>0, <1>1 DEF ThreadWords
  <2> QED BY <1>0, <1>1, <2>1, <2>2, ThreadKept DEF ThreadOK
<1>6. ThreadOK(t)'
  BY <1>0, <1>1, <1>2 DEF ThreadOK
<1>7. ThreadWords(t)'
  BY <1>0, <1>1, <1>2 DEF ThreadWords
<1>8. \A c \in Address : WordOK(c)'
  BY <1>00, <1>1 DEF WordOK
<1> QED BY <1>3, <1>4, <1>5, <1>6, <1>7, <1>8, InvariantParts

\* Finalize: the waiters of an exited thread are released.
LEMMA FinalizeStep ==
    ASSUME IInv, NEW t \in Thread, Finalize(t)
    PROVE  IInv'
<1>0. TypeInv /\ PrioritiesOK /\ \A u \in Thread : ThreadOK(u) /\ ThreadWords(u)
  BY DEF IInv
<1>00. \A c \in Address : WordOK(c)
  BY DEF IInv
<1> DEFINE W == AllWaiters(t)
<1>1. /\ state[t] = "Terminated" /\ ~handle[t]
      /\ state' = [u \in Thread |-> IF u = t THEN "Finalized" ELSE IF u \in W THEN "Runnable" ELSE state[u]]
      /\ lockOwner' = [u \in Thread |-> IF u \in W THEN NoThread ELSE lockOwner[u]]
      /\ waitQueue' = [u \in Thread |-> IF u \in W THEN "none" ELSE waitQueue[u]]
      /\ waitResult' = [u \in Thread |-> IF u \in W THEN "InvalidState" ELSE waitResult[u]]
      /\ timer' = [u \in Thread |-> timer[u] /\ u \notin W]
      /\ UNCHANGED <<mem, cvFlag, prio, addressKey, cvKey, ref, signal, base, terminating, handle>>
      /\ UNCHANGED <<pc, target, seen, held>>
  BY DEF Finalize, userVars
<1>2. W = {u \in Thread : lockOwner[u] = t}
  BY DEF AllWaiters, Waiters
<1> HIDE DEF W
<1>3. ASSUME NEW u \in W PROVE u # t /\ state[u] = "Waiting" /\ cvKey[u] = NoKey
  BY <1>0, <1>1, <1>2, <1>3 DEF ThreadOK
<1>4. /\ state' \in [Thread -> {"Runnable", "Waiting", "Terminated", "Finalized"}]
      /\ waitQueue' \in [Thread -> {"none", "address", "condvar"}]
      /\ waitResult' \in [Thread -> Results] /\ timer' \in [Thread -> BOOLEAN]
      /\ lockOwner' \in [Thread -> Thread \cup {NoThread}]
  BY <1>0, <1>1 DEF TypeInv, TypeOK, Results
<1>5. TypeInv'
  BY <1>0, <1>1, <1>4 DEF TypeInv, TypeOK
<1>6. NotFinalized' = NotFinalized \ {t}
  BY <1>1, <1>2, <1>3 DEF NotFinalized
<1>7. PrioritiesOK'
  <2>1. AllBut(lockOwner, base, prio, NoThread, NotFinalized)
    BY <1>0 DEF PrioritiesOK
  <2>2. ASSUME NEW x \in NotFinalized \ {t} PROVE Settled(lockOwner', base, prio, x)
    <3>1. x \in Thread /\ Settled(lockOwner, base, prio, x)
      BY <2>1 DEF AllBut
    <3>2. \A w \in Thread : lockOwner'[w] = x <=> lockOwner[w] = x
      BY <1>1, <1>2, <2>2, <3>1
    <3> QED BY <3>1, <3>2 DEF Settled, Best
  <2>3. \A x \in NotFinalized \ {t} : lockOwner'[x] \in (NotFinalized \ {t}) \cup {NoThread}
    BY <1>1, <1>2, <2>1 DEF AllBut
  <2>4. AllBut(lockOwner', base, prio, NoThread, NotFinalized \ {t})
    BY <1>4, <2>1, <2>2, <2>3 DEF AllBut, Owners
  <2> QED BY <1>1, <1>6, <2>4 DEF PrioritiesOK
<1>8. ASSUME NEW u \in Thread PROVE ThreadOK(u)' /\ ThreadWords(u)'
  <2>1. CASE u = t
    <3>1. state'[u] = "Finalized" /\ lockOwner'[u] = NoThread /\ lockOwner[u] = NoThread
      BY <1>0, <1>1, <2>1 DEF ThreadOK
    <3>2. ThreadOK(u)'
      BY <1>0, <1>1, <2>1, <3>1 DEF ThreadOK
    <3> QED BY <1>0, <1>1, <3>1, <3>2 DEF ThreadWords
  <2>2. CASE u \in W
    <3>1. state'[u] = "Runnable" /\ lockOwner'[u] = NoThread /\ waitResult'[u] = "InvalidState"
      BY <1>1, <1>3, <2>2
    <3>2. ThreadOK(u)'
      BY <1>0, <1>1, <1>3, <2>2, <3>1 DEF ThreadOK
    <3> QED BY <1>0, <1>1, <3>1, <3>2 DEF ThreadWords
  <2>3. CASE u # t /\ u \notin W
    <3>1. Same(u)
      BY <1>1, <2>3 DEF Same
    <3>2. lockOwner[u] # NoThread => mem'[addressKey[u]].owner = lockOwner[u] /\ mem'[addressKey[u]].wait
      BY <1>0, <1>1 DEF ThreadWords
    <3> QED BY <1>0, <1>1, <3>1, <3>2, ThreadKept DEF ThreadOK
  <2> QED BY <2>1, <2>2, <2>3
<1>9. \A c \in Address : WordOK(c)'
  BY <1>00, <1>1 DEF WordOK
<1> QED BY <1>5, <1>7, <1>8, <1>9 DEF IInv

\* The initial states satisfy the invariant.
LEMMA InitIInv ==
    ASSUME Init PROVE IInv
<1>1. \A a \in Address : mem[a].owner = NoThread /\ mem[a].wait = FALSE
  BY DEF Init, FreeWord
<1>2. mem \in [Address -> Word] /\ (CHOOSE a \in Address : TRUE) \in Address
  BY DEF Init, FreeWord, Word
<1>3. TypeInv
  <2>1. /\ mem \in [Address -> [owner : Thread \cup {NoThread}, wait : BOOLEAN]]
        /\ addressKey \in [Thread -> Address] /\ target \in [Thread -> Address]
    BY <1>2 DEF Init, Word
  <2>2. signal \in [key : Key, left : Nat] \cup {NoSignal}
    BY DEF Init
  <2> QED BY <2>1, <2>2 DEF Init, TypeInv, TypeOK, Pcs, Results
<1>4. ASSUME NEW t \in Thread PROVE ThreadOK(t) /\ ThreadWords(t)
  BY DEF Init, ThreadOK, ThreadWords
<1>5. \A a \in Address : WordOK(a)
  BY <1>1 DEF WordOK
<1>6. PrioritiesOK
  <2>1. /\ lockOwner \in Owners /\ base \in Prios /\ prio \in Prios /\ prio = base
        /\ \A x \in Thread : lockOwner[x] = NoThread
    BY DEF Init, Owners, Prios
  <2>2. \A x \in Thread : prio[x] \in Nat /\ prio[x] <= base[x]
    BY <2>1 DEF Prios
  <2>3. ASSUME NEW x \in Thread PROVE Settled(lockOwner, base, prio, x)
    BY <2>1, <2>2, <2>3 DEF Settled, Best
  <2> QED BY <2>1, <2>3 DEF PrioritiesOK, AllBut, NotFinalized
<1> QED BY <1>3, <1>4, <1>5, <1>6 DEF IInv

\* So does a step that changes nothing.
LEMMA StutterStep ==
    ASSUME IInv, UNCHANGED vars PROVE IInv'
<1>0. TypeInv /\ PrioritiesOK /\ (\A u \in Thread : ThreadOK(u) /\ ThreadWords(u)) /\ \A c \in Address : WordOK(c)
  BY DEF IInv
<1>1. /\ UNCHANGED <<mem, cvFlag, prio, lockOwner, addressKey, cvKey, state, waitQueue, waitResult, timer, ref, signal>>
      /\ UNCHANGED <<base, terminating, handle, pc, target, seen, held>>
  BY DEF vars, waitVars, kernelVars, userVars
<1>2. TypeInv'
  BY <1>0, <1>1 DEF TypeInv, TypeOK
<1>3. PrioritiesOK'
  BY <1>0, <1>1, PrioritiesKept DEF NotFinalized
<1>4. ASSUME NEW u \in Thread PROVE ThreadOK(u)' /\ ThreadWords(u)'
  BY <1>0, <1>1 DEF ThreadOK, ThreadWords
<1>5. \A c \in Address : WordOK(c)'
  BY <1>0, <1>1 DEF WordOK
<1> QED BY <1>2, <1>3, <1>4, <1>5 DEF IInv

\* Every step of the specification keeps the invariant.
LEMMA NextStep ==
    ASSUME IInv, [Next]_vars PROVE IInv'
<1>1. ASSUME NEW t \in Thread, ThreadStep(t) PROVE IInv'
  BY <1>1, UserLockStep, UserUnlockStep, SignalToAddressStep, WaitForAddressReturnsStep,
     WaitForAddressBlocksStep, WaitReturnStep, CvWaitZeroStep, CvWaitStep DEF ThreadStep
<1>2. ASSUME NEW t \in Thread, OnTimer(t) \/ Finalize(t) PROVE IInv'
  BY <1>2, OnTimerStep, FinalizeStep
<1>3. ASSUME NEW t \in Thread, NEW p \in Priorities, SetBasePriority(t, p) PROVE IInv'
  BY <1>3, SetBasePriorityStep
<1>4. ASSUME NEW k \in Key, NEW count \in 0 .. 1, Signal(k, count) PROVE IInv'
  BY <1>4, SignalStep
<1>5. CASE SignalNext \/ SignalEnd
  BY <1>5, SignalNextStep, SignalEndStep
<1>6. ASSUME NEW t \in Terminable, RequestTerminate(t) PROVE IInv'
  BY <1>6, RequestTerminateStep
<1>7. ASSUME NEW t \in Mortal, Exit(t) \/ CloseHandle(t) PROVE IInv'
  BY <1>7, ExitStep, CloseHandleStep
<1>8. CASE UNCHANGED vars
  BY <1>8, StutterStep
<1> QED BY <1>1, <1>2, <1>3, <1>4, <1>5, <1>6, <1>7, <1>8 DEF Next

\* The inductive invariant holds throughout: threads, lock words and priorities
\* of k_condition_variable.cpp and k_thread.cpp are consistent after each call.
THEOREM InductiveInvariant == Spec => []IInv
<1>1. Init => IInv
  BY InitIInv
<1>2. IInv /\ [Next]_vars => IInv'
  BY NextStep
<1> QED BY <1>1, <1>2, PTL DEF Spec

\* A thread that believes it holds a guest lock is named in the lock word, so no
\* two threads hold one: through WaitForAddress, SignalToAddress, Wait, Signal,
\* timeouts, terminations and exits, for any number of threads and locks.
THEOREM LockExclusionHolds == Spec => []LockExclusion
<1>1. IInv => LockExclusion
  BY DEF IInv, ThreadWords, LockExclusion
<1> QED BY <1>1, InductiveInvariant, PTL

\* Settled priorities are the inherited ones.
LEMMA InvPriorities ==
    ASSUME IInv PROVE PriorityInherited
<1>1. AllBut(lockOwner, base, prio, NoThread, NotFinalized)
  BY DEF IInv, PrioritiesOK
<1>2. lockOwner \in Owners /\ base \in Prios /\ prio \in Prios
  BY <1>1 DEF AllBut
<1> SUFFICES ASSUME NEW t \in Thread, Alive(t)
             PROVE  prio[t] = InheritedPriority(lockOwner, prio, base, t)
  BY DEF PriorityInherited
<1>3. Settled(lockOwner, base, prio, t)
  BY <1>1 DEF Alive, NotFinalized, AllBut
<1> QED BY <1>2, <1>3, InheritedIsBest DEF Settled

\* A thread that waits for a lock is on the list of the owner that the word
\* names, the wait bit is set, and every live thread runs at the priority that
\* RestorePriority owes it, along chains (and cycles) of owners of any length.
THEOREM WaiterKnownToOwnerHolds == Spec => []WaiterKnownToOwner
<1>1. ASSUME IInv PROVE WaiterKnownToOwner
  <2>1. TypeInv /\ TypeOK
    BY <1>1 DEF IInv, TypeInv
  <2>2. ASSUME NEW t \in Thread, lockOwner[t] # NoThread
        PROVE  mem[addressKey[t]] = [owner |-> lockOwner[t], wait |-> TRUE]
    <3>1. mem[addressKey[t]].owner = lockOwner[t] /\ mem[addressKey[t]].wait
      BY <1>1, <2>2 DEF IInv, ThreadWords
    <3>2. addressKey[t] \in Address
      BY <2>1 DEF TypeOK
    <3>3. /\ mem[addressKey[t]] = [owner |-> mem[addressKey[t]].owner, wait |-> mem[addressKey[t]].wait]
          /\ mem[addressKey[t]].wait \in BOOLEAN
      BY <2>1, <3>2, WordValues
    <3>4. mem[addressKey[t]].wait = TRUE
      BY <3>1, <3>3
    <3> QED BY <3>1, <3>3, <3>4
  <2> QED BY <1>1, <2>1, <2>2, InvPriorities DEF WaiterKnownToOwner
<1> QED BY <1>1, InductiveInvariant, PTL

\* A blocked thread is in the tree of a condition variable whose flag is set, or
\* on the list of an owner that has not been finalized, and never in both.
THEOREM BlockedIsReachableHolds == Spec => []BlockedIsReachable
<1>1. ASSUME IInv PROVE BlockedIsReachable
  <2> SUFFICES ASSUME NEW t \in Thread, state[t] = "Waiting"
               PROVE  /\ (cvKey[t] # NoKey) # (lockOwner[t] # NoThread)
                      /\ lockOwner[t] # NoThread => state[lockOwner[t]] # "Finalized"
                      /\ SchedulerUnlocked /\ cvKey[t] # NoKey => cvFlag[cvKey[t]]
    BY DEF BlockedIsReachable
  <2>1. ThreadOK(t) /\ t \in NotFinalized
    BY <1>1 DEF IInv, NotFinalized
  <2>2. lockOwner[t] \in NotFinalized \cup {NoThread}
    BY <1>1, <2>1 DEF IInv, PrioritiesOK, AllBut
  <2>3. (cvKey[t] # NoKey) # (lockOwner[t] # NoThread)
    BY <2>1 DEF ThreadOK
  <2> QED BY <2>1, <2>2, <2>3 DEF ThreadOK, NotFinalized
<1> QED BY <1>1, InductiveInvariant, PTL
=============================================================================
