--------------------------- MODULE OSAlarm_proofs ---------------------------
(***************************************************************************)
(* Proofs about the alarms: for any alarms, delays, starts, periods and    *)
(* span of the timer, the queue is one chain of the alarms that are set in *)
(* the order of their times, the timer counts to its head, a periodic      *)
(* alarm keeps its phase, and the whole implements AlarmClock, as long as  *)
(* no handler cancels its own periodic alarm after other calls.            *)
(*                                                                         *)
(* The links are those of a sequence of alarms (Linked), which Chain       *)
(* returns; inserting and removing an alarm are then operations on that    *)
(* sequence (Ins, Del).                                                    *)
(***************************************************************************)
EXTENDS OSAlarm, FiniteSetTheorems, SequenceTheorems, WellFoundedInduction, TLAPS

LEMMA AlarmConstants ==
    /\ NULL \notin Alarm /\ IsFiniteSet(Alarm)
    /\ Span \in Nat \ {0}
    /\ Delay \subseteq Nat /\ Start \subseteq Int /\ Period \subseteq Nat \ {0}
    BY AlarmAssumption

USE AlarmConstants

-----------------------------------------------------------------------------
(* Sequences of alarms.                                                    *)
Has(s, a) == \E i \in 1 .. Len(s) : s[i] = a
Once(s) == \A i, j \in 1 .. Len(s) : s[i] = s[j] => i = j
Sorted(s, fire) == \A i, j \in 1 .. Len(s) : i < j => fire[s[i]] <= fire[s[j]]

\* The links of Q are those of s.
Linked(Q, s) ==
    /\ s \in Seq(Alarm) /\ Once(s)
    /\ Q.head = IF Len(s) = 0 THEN NULL ELSE s[1]
    /\ Q.tail = IF Len(s) = 0 THEN NULL ELSE s[Len(s)]
    /\ \A i \in 1 .. Len(s) :
          /\ Q.next[s[i]] = IF i = Len(s) THEN NULL ELSE s[i + 1]
          /\ Q.prev[s[i]] = IF i = 1 THEN NULL ELSE s[i - 1]

\* a at place k of s, and s without what is at place k.
Ins(s, k, a) ==
    [i \in 1 .. Len(s) + 1 |-> IF i < k THEN s[i] ELSE IF i = k THEN a ELSE s[i - 1]]
Del(s, k) == [i \in 1 .. Len(s) - 1 |-> IF i < k THEN s[i] ELSE s[i + 1]]

LEMMA Insertion ==
    ASSUME NEW s \in Seq(Alarm), NEW k \in 1 .. Len(s) + 1, NEW a \in Alarm
    PROVE  /\ Ins(s, k, a) \in Seq(Alarm) /\ Len(Ins(s, k, a)) = Len(s) + 1
           /\ \A i \in 1 .. Len(s) + 1 :
                 Ins(s, k, a)[i] = IF i < k THEN s[i] ELSE IF i = k THEN a ELSE s[i - 1]
           /\ \A b : Has(Ins(s, k, a), b) <=> b = a \/ Has(s, b)
           /\ Once(s) /\ ~Has(s, a) => Once(Ins(s, k, a))
<1> DEFINE u == Ins(s, k, a)
<1>1. Len(s) \in Nat /\ \A i \in 1 .. Len(s) : s[i] \in Alarm
    OBVIOUS
<1>2. u \in [1 .. Len(s) + 1 -> Alarm]
    BY <1>1 DEF Ins
<1>3. u \in Seq(Alarm) /\ Len(u) = Len(s) + 1
    BY <1>1, <1>2
<1>4. \A i \in 1 .. Len(s) + 1 : u[i] = IF i < k THEN s[i] ELSE IF i = k THEN a ELSE s[i - 1]
    BY DEF Ins
<1> HIDE DEF u
<1>5. ASSUME NEW b PROVE Has(u, b) <=> b = a \/ Has(s, b)
    <2>1. Has(u, b) => b = a \/ Has(s, b)
        <3> SUFFICES ASSUME NEW i \in 1 .. Len(u), u[i] = b PROVE b = a \/ Has(s, b)
            BY DEF Has
        <3>1. CASE i < k
            BY <1>1, <1>3, <1>4, <3>1 DEF Has
        <3>2. CASE i = k
            BY <1>3, <1>4, <3>2
        <3>3. CASE i > k
            <4>1. i - 1 \in 1 .. Len(s) /\ u[i] = s[i - 1]
                BY <1>1, <1>3, <1>4, <3>3
            <4> QED
                BY <4>1 DEF Has
        <3> QED
            BY <3>1, <3>2, <3>3
    <2>2. u[k] = a /\ k \in 1 .. Len(u)
        BY <1>3, <1>4
    <2>3. ASSUME NEW i \in 1 .. Len(s), s[i] = b PROVE Has(u, b)
        <3>1. CASE i < k
            BY <1>1, <1>3, <1>4, <2>3, <3>1 DEF Has
        <3>2. CASE i >= k
            <4>1. i + 1 \in 1 .. Len(u) /\ u[i + 1] = s[i]
                BY <1>1, <1>3, <1>4, <3>2
            <4> QED
                BY <2>3, <4>1 DEF Has
        <3> QED
            BY <1>1, <3>1, <3>2
    <2> QED
        BY <2>1, <2>2, <2>3 DEF Has
<1>6. ASSUME Once(s), ~Has(s, a) PROVE Once(u)
    <2> DEFINE old(i) == IF i < k THEN i ELSE i - 1
    <2>1. \A i \in 1 .. Len(u) : i # k => old(i) \in 1 .. Len(s) /\ u[i] = s[old(i)] /\ u[i] # a
        BY <1>1, <1>3, <1>4, <1>6 DEF Has
    <2>2. u[k] = a
        BY <1>4
    <2>3. ASSUME NEW i \in 1 .. Len(u), NEW j \in 1 .. Len(u), u[i] = u[j] PROVE i = j
        <3>1. CASE i = k \/ j = k
            BY <2>1, <2>2, <2>3, <3>1
        <3>2. CASE i # k /\ j # k
            <4>1. old(i) = old(j)
                <5>1. /\ old(i) \in 1 .. Len(s) /\ old(j) \in 1 .. Len(s)
                      /\ s[old(i)] = s[old(j)]
                    BY <2>1, <2>3, <3>2
                <5> HIDE DEF old
                <5> QED
                    BY <1>6, <5>1 DEF Once
            <4> QED
                BY <3>2, <4>1
        <3> QED
            BY <3>1, <3>2
    <2> QED
        BY <2>3 DEF Once
<1> QED
    BY <1>3, <1>4, <1>5, <1>6 DEF u

LEMMA Deletion ==
    ASSUME NEW s \in Seq(Alarm), NEW k \in 1 .. Len(s)
    PROVE  /\ Del(s, k) \in Seq(Alarm) /\ Len(Del(s, k)) = Len(s) - 1
           /\ \A i \in 1 .. Len(s) - 1 : Del(s, k)[i] = IF i < k THEN s[i] ELSE s[i + 1]
           /\ Once(s) => /\ Once(Del(s, k))
                         /\ \A b : Has(Del(s, k), b) <=> b # s[k] /\ Has(s, b)
           /\ \A fire : Sorted(s, fire) => Sorted(Del(s, k), fire)
<1> DEFINE u == Del(s, k)
           old(i) == IF i < k THEN i ELSE i + 1
<1>1. Len(s) \in Nat /\ Len(s) > 0 /\ \A i \in 1 .. Len(s) : s[i] \in Alarm
    OBVIOUS
<1>2. u \in [1 .. Len(s) - 1 -> Alarm]
    BY <1>1 DEF Del
<1>3. u \in Seq(Alarm) /\ Len(u) = Len(s) - 1
    BY <1>1, <1>2
<1>4. \A i \in 1 .. Len(s) - 1 : u[i] = IF i < k THEN s[i] ELSE s[i + 1]
    BY DEF Del
<1> HIDE DEF u
<1>5. \A i \in 1 .. Len(u) : old(i) \in 1 .. Len(s) /\ old(i) # k /\ u[i] = s[old(i)]
    BY <1>1, <1>3, <1>4
<1>6. \A i, j \in 1 .. Len(u) : i < j => old(i) < old(j)
    BY <1>3
<1>7. ASSUME NEW j \in 1 .. Len(s), j # k PROVE \E i \in 1 .. Len(u) : u[i] = s[j]
    <2>1. CASE j < k
        BY <1>1, <1>3, <1>4, <2>1
    <2>2. CASE j > k
        <3>1. j - 1 \in 1 .. Len(u) /\ u[j - 1] = s[j]
            BY <1>1, <1>3, <1>4, <2>2
        <3> QED
            BY <3>1
    <2> QED
        BY <1>1, <1>7, <2>1, <2>2
<1> HIDE DEF old
<1>8. ASSUME Once(s) PROVE Once(u)
    <2> SUFFICES ASSUME NEW i \in 1 .. Len(u), NEW j \in 1 .. Len(u), u[i] = u[j] PROVE i = j
        BY DEF Once
    <2>1. old(i) = old(j)
        BY <1>5, <1>8 DEF Once
    <2>2. i < j \/ j < i \/ i = j
        BY <1>3
    <2>3. old(i) \in Int
        BY <1>5
    <2> QED
        BY <1>6, <2>1, <2>2, <2>3
<1>9. ASSUME Once(s), NEW b PROVE Has(u, b) <=> b # s[k] /\ Has(s, b)
    <2>1. ASSUME NEW i \in 1 .. Len(u), u[i] = b PROVE b # s[k] /\ Has(s, b)
        BY <1>5, <1>9, <2>1 DEF Has, Once
    <2>2. ASSUME NEW j \in 1 .. Len(s), s[j] = b, b # s[k] PROVE Has(u, b)
        BY <1>7, <2>2 DEF Has
    <2> QED
        BY <2>1, <2>2 DEF Has
<1>10. ASSUME NEW fire, Sorted(s, fire) PROVE Sorted(u, fire)
    BY <1>5, <1>6, <1>10 DEF Sorted
<1> QED
    BY <1>3, <1>4, <1>8, <1>9, <1>10 DEF u

-----------------------------------------------------------------------------
(* A walk from the head visits the alarms that are linked.                 *)

\* A set of numbers has a least one.
LEMMA Least ==
    ASSUME NEW T, T \subseteq Nat, T # {}
    PROVE  \E m \in T : \A k \in T : m <= k
<1>1. PICK m \in T : \A k \in T : <<k, m>> \notin OpToRel(<, Nat)
    BY WFMin, NatLessThanWellFounded
<1>2. \A k \in T : ~(k < m)
    BY <1>1 DEF OpToRel
<1> QED
    BY <1>2

\* Induction up to n, for a set: it holds 0, and each number with the one before.
LEMMA Stepwise ==
    ASSUME NEW n \in Nat, NEW T, 0 \in T, \A i \in 1 .. n : i - 1 \in T => i \in T
    PROVE  \A i \in 0 .. n : i \in T
<1> SUFFICES ASSUME NEW i \in 0 .. n, i \notin T PROVE FALSE
    OBVIOUS
<1> DEFINE R == (0 .. n) \ T
<1>1. R \subseteq Nat /\ R # {}
    OBVIOUS
<1>2. PICK m \in R : \A k \in R : m <= k
    <2> HIDE DEF R
    <2> QED
        BY <1>1, Least
<1> QED
    BY <1>2

LEMMA CountTo ==
    ASSUME NEW n \in Nat
    PROVE  IsFiniteSet(1 .. n) /\ Cardinality(1 .. n) = n
<1>1. 1 \in Int /\ n \in Int
    OBVIOUS
<1>2. IsFiniteSet(1 .. n) /\ Cardinality(1 .. n) = IF 1 > n THEN 0 ELSE n - 1 + 1
    BY <1>1, FS_Interval, Zenon
<1> QED
    BY <1>2

\* There are no more of them than alarms.
LEMMA Bounded ==
    ASSUME NEW s \in Seq(Alarm), Once(s)
    PROVE  Len(s) <= Cardinality(Alarm) /\ Cardinality(Alarm) \in Nat
<1>1. IsFiniteSet(1 .. Len(s)) /\ Cardinality(1 .. Len(s)) = Len(s)
    <2>1. Len(s) \in Nat
        OBVIOUS
    <2> QED
        BY <2>1, CountTo
<1>2. s \in Injection(1 .. Len(s), Alarm)
    <2>1. s \in [1 .. Len(s) -> Alarm]
        OBVIOUS
    <2> QED
        BY <2>1 DEF Injection, IsInjective, Once
<1> QED
    BY <1>1, <1>2, FS_Injection, FS_CardinalityType

\* The walk, as a function of the number of steps.
Step(Q, g, i) ==
    IF i = 0 THEN Q.head ELSE IF g[i - 1] = NULL THEN NULL ELSE Q.next[g[i - 1]]

LEMMA ChainIs ==
    ASSUME NEW Q, NEW s, Linked(Q, s)
    PROVE  Chain(Q) = s
<1> DEFINE N == Cardinality(Alarm)
           v == [i \in 0 .. N |-> IF i < Len(s) THEN s[i + 1] ELSE NULL]
           w == CHOOSE g : g = [i \in 0 .. N |-> Step(Q, g, i)]
           visits == {i \in 1 .. N : w[i - 1] # NULL}
<1>1. s \in Seq(Alarm) /\ Len(s) \in Nat /\ Len(s) <= N /\ N \in Nat
    BY Bounded DEF Linked
<1>2. \A i \in 1 .. Len(s) : s[i] \in Alarm /\ s[i] # NULL
    BY <1>1
<1> HIDE DEF N
<1>3. ASSUME NEW i \in 0 .. N PROVE v[i] = Step(Q, v, i)
    <2>1. CASE i = 0
        BY <1>1, <2>1 DEF Linked, Step
    <2>2. CASE i # 0 /\ i - 1 < Len(s)
        <3>1. i - 1 \in 0 .. N /\ v[i - 1] = s[i] /\ i \in 1 .. Len(s) /\ s[i] # NULL
            BY <1>1, <1>2, <2>2
        <3>2. Q.next[s[i]] = IF i = Len(s) THEN NULL ELSE s[i + 1]
            BY <3>1 DEF Linked
        <3>3. v[i] = IF i = Len(s) THEN NULL ELSE s[i + 1]
            BY <1>1, <3>1
        <3> HIDE DEF v
        <3> QED
            BY <2>2, <3>1, <3>2, <3>3 DEF Step
    <2>3. CASE i # 0 /\ ~(i - 1 < Len(s))
        <3>1. i - 1 \in 0 .. N /\ v[i - 1] = NULL /\ v[i] = NULL
            BY <1>1, <2>3
        <3> HIDE DEF v
        <3> QED
            BY <2>3, <3>1 DEF Step
    <2> QED
        BY <2>1, <2>2, <2>3
<1>4. v = [i \in 0 .. N |-> Step(Q, v, i)]
    <2>1. v = [i \in 0 .. N |-> v[i]]
        OBVIOUS
    <2> HIDE DEF v
    <2> QED
        BY <1>3, <2>1
<1>5. w = [i \in 0 .. N |-> Step(Q, w, i)]
    <2> HIDE DEF v
    <2> QED
        BY <1>4
<1>6. \A i \in 0 .. N : w[i] = v[i]
    <2>1. \A i \in 0 .. N : w[i] = Step(Q, w, i)
        <3> HIDE DEF w, v
        <3> QED
            BY <1>5
    <2> HIDE DEF v, w
    <2> DEFINE T == {i \in 0 .. N : w[i] = v[i]}
    <2>2. 0 \in T
        BY <1>1, <1>3, <2>1 DEF Step
    <2>3. ASSUME NEW i \in 1 .. N, i - 1 \in T PROVE i \in T
        <3>1. i \in 0 .. N /\ i # 0 /\ w[i - 1] = v[i - 1]
            BY <1>1, <2>3
        <3> QED
            BY <1>3, <2>1, <3>1 DEF Step
    <2> HIDE DEF T
    <2>4. \A i \in 0 .. N : i \in T
        BY <1>1, <2>2, <2>3, Stepwise
    <2> QED
        BY <2>4 DEF T
<1>7. visits = 1 .. Len(s)
    <2>1. ASSUME NEW i \in 1 .. N PROVE v[i - 1] # NULL <=> i <= Len(s)
        BY <1>1, <1>2
    <2>2. \A i \in 1 .. N : i - 1 \in 0 .. N
        BY <1>1
    <2> HIDE DEF v, w
    <2> QED
        BY <1>1, <1>6, <2>1, <2>2
<1>8. Cardinality(visits) = Len(s)
    BY <1>1, <1>7, CountTo
<1>9. Chain(Q) = [i \in 1 .. Cardinality(visits) |-> w[i - 1]]
    BY DEF Chain, Step, N
<1>10. \A i \in 1 .. Len(s) : i - 1 \in 0 .. N /\ v[i - 1] = s[i]
    BY <1>1
<1>11. s = [i \in 1 .. Len(s) |-> s[i]]
    BY <1>1
<1> HIDE DEF v, w, visits
<1> QED
    BY <1>6, <1>8, <1>9, <1>10, <1>11

-----------------------------------------------------------------------------
(* Inserting and removing an alarm.                                        *)
Links == [Alarm -> Alarm \cup {NULL}]
LinkType(Q) ==
    Q \in [head : Alarm \cup {NULL}, tail : Alarm \cup {NULL}, timer : 0 .. Span \cup {2},
           next : Links, prev : Links]

LEMMA LinkFields ==
    ASSUME NEW Q, LinkType(Q)
    PROVE  /\ Q.head \in Alarm \cup {NULL} /\ Q.tail \in Alarm \cup {NULL}
           /\ Q.timer \in 0 .. Span \cup {2}
           /\ Q.next \in Links /\ Q.prev \in Links
    BY DEF LinkType

LEMMA RelinkType ==
    ASSUME NEW f \in Links, NEW p, NEW v \in Alarm \cup {NULL}
    PROVE  /\ Relink(f, p, v) \in Links
           /\ \A b \in Alarm : Relink(f, p, v)[b] = IF b = p THEN v ELSE f[b]
    BY DEF Relink, Links

LEMMA TimerType ==
    ASSUME NEW d \in Int
    PROVE  /\ SetTimer(d) \in 0 .. Span \cup {2} /\ SetTimer(d) \in Nat /\ SetTimer(d) > 0
           /\ SetTimer(d) <= IF d > 0 THEN d + 1 ELSE 2
    BY DEF SetTimer

\* The place where an alarm is inserted: behind those that are not to fire later.
LEMMA Place ==
    ASSUME NEW Q, NEW s, Linked(Q, s), NEW a \in Alarm, NEW fire \in [Alarm -> Int], Sorted(s, fire)
    PROVE  \E k \in 1 .. Len(s) + 1 :
              /\ LaterThan(Q, fire, a) = IF k = Len(s) + 1 THEN NULL ELSE s[k]
              /\ \A i \in 1 .. Len(s) : IF i < k THEN fire[s[i]] <= fire[a] ELSE fire[a] < fire[s[i]]
<1> DEFINE later == {i \in 1 .. Len(s) : fire[s[i]] > fire[a]}
<1>1. s \in Seq(Alarm) /\ Len(s) \in Nat /\ \A i \in 1 .. Len(s) : s[i] \in Alarm
    BY DEF Linked
<1>2. LaterThan(Q, fire, a) = IF later = {} THEN NULL ELSE s[Min(later)]
    <2>1. Chain(Q) = s
        BY ChainIs
    <2> QED
        BY <2>1 DEF LaterThan
<1>3. fire[a] \in Int /\ \A i \in 1 .. Len(s) : fire[s[i]] \in Int
    BY <1>1
<1>4. CASE later = {}
    <2>1. Len(s) + 1 \in 1 .. Len(s) + 1
        BY <1>1
    <2>2. \A i \in 1 .. Len(s) : i < Len(s) + 1 /\ fire[s[i]] <= fire[a]
        BY <1>1, <1>3, <1>4
    <2> HIDE DEF later
    <2> QED
        BY <1>2, <1>4, <2>1, <2>2
<1>5. CASE later # {}
    <2>1. later \subseteq Nat
        BY <1>1
    <2>2. Min(later) \in later /\ \A i \in later : Min(later) <= i
        <3> HIDE DEF later
        <3>1. PICK m \in later : \A k \in later : m <= k
            BY <1>5, <2>1, Least
        <3> QED
            BY <3>1 DEF Min
    <2> DEFINE k == Min(later)
    <2>3. k \in 1 .. Len(s) /\ fire[s[k]] > fire[a] /\ \A i \in later : k <= i
        BY <2>2
    <2> HIDE DEF k
    <2>4. ASSUME NEW i \in 1 .. Len(s)
          PROVE  IF i < k THEN fire[s[i]] <= fire[a] ELSE fire[a] < fire[s[i]]
        <3>1. CASE i < k
            BY <1>1, <1>3, <2>3, <3>1
        <3>2. CASE i = k
            BY <2>3, <3>2
        <3>3. CASE i > k
            <4>1. fire[s[k]] <= fire[s[i]]
                BY <2>3, <3>3 DEF Sorted
            <4> QED
                BY <1>3, <2>3, <3>3, <4>1
        <3> QED
            BY <1>1, <2>3, <3>1, <3>2, <3>3
    <2>5. k \in 1 .. Len(s) + 1 /\ k # Len(s) + 1
        BY <1>1, <2>3
    <2> HIDE DEF later
    <2> QED
        BY <1>2, <1>5, <2>4, <2>5 DEF k
<1> QED
    BY <1>4, <1>5

LEMMA InsertLinks ==
    ASSUME NEW Q, LinkType(Q), NEW s, Linked(Q, s), NEW a \in Alarm, ~Has(s, a),
           NEW fire \in [Alarm -> Int], Sorted(s, fire)
    PROVE  \E k \in 1 .. Len(s) + 1 :
              /\ LinkType(InsertAlarm(Q, fire, a))
              /\ Linked(InsertAlarm(Q, fire, a), Ins(s, k, a))
              /\ Sorted(Ins(s, k, a), fire)
              /\ InsertAlarm(Q, fire, a).timer = IF k = 1 THEN SetTimer(fire[a]) ELSE Q.timer
<1> DEFINE n == LaterThan(Q, fire, a)
           p == IF n = NULL THEN Q.tail ELSE Q.prev[n]
           R == InsertAlarm(Q, fire, a)
<1>1. /\ s \in Seq(Alarm) /\ Len(s) \in Nat /\ Once(s)
      /\ \A i \in 1 .. Len(s) : s[i] \in Alarm /\ s[i] # NULL /\ s[i] # a
    BY DEF Linked, Has
<1>2. PICK k \in 1 .. Len(s) + 1 :
         /\ n = IF k = Len(s) + 1 THEN NULL ELSE s[k]
         /\ \A i \in 1 .. Len(s) : IF i < k THEN fire[s[i]] <= fire[a] ELSE fire[a] < fire[s[i]]
    BY Place
<1>3. p = IF k = 1 THEN NULL ELSE s[k - 1]
    <2>1. CASE k = Len(s) + 1
        BY <1>1, <1>2, <2>1 DEF Linked
    <2>2. CASE k # Len(s) + 1
        <3>1. k \in 1 .. Len(s) /\ n = s[k] /\ n # NULL
            BY <1>1, <1>2, <2>2
        <3>2. Q.prev[s[k]] = IF k = 1 THEN NULL ELSE s[k - 1]
            BY <3>1 DEF Linked
        <3> HIDE DEF n
        <3> QED
            BY <3>1, <3>2
    <2> QED
        BY <2>1, <2>2
<1>4. n \in Alarm \cup {NULL} /\ p \in Alarm \cup {NULL} /\ n # a /\ p # a
    <2> HIDE DEF n, p
    <2>1. k = Len(s) + 1 \/ k \in 1 .. Len(s)
        BY <1>1
    <2>2. k = 1 \/ k - 1 \in 1 .. Len(s)
        BY <1>1
    <2> QED
        BY <1>1, <1>2, <1>3, <2>1, <2>2
<1>5. R = [Q EXCEPT !.next = Relink(Relink(Q.next, a, n), p, a),
                    !.prev = Relink(Relink(Q.prev, a, p), n, a),
                    !.head = IF p = NULL THEN a ELSE @,
                    !.tail = IF n = NULL THEN a ELSE @,
                    !.timer = IF p = NULL THEN SetTimer(fire[a]) ELSE @]
    BY DEF InsertAlarm
<1> HIDE DEF n, p, R
<1>6. /\ Relink(Relink(Q.next, a, n), p, a) \in Links /\ Relink(Relink(Q.prev, a, p), n, a) \in Links
      /\ \A b \in Alarm : Relink(Relink(Q.next, a, n), p, a)[b] =
                             IF b = p THEN a ELSE IF b = a THEN n ELSE Q.next[b]
      /\ \A b \in Alarm : Relink(Relink(Q.prev, a, p), n, a)[b] =
                             IF b = n THEN a ELSE IF b = a THEN p ELSE Q.prev[b]
    <2>1. Relink(Q.next, a, n) \in Links /\ Relink(Q.prev, a, p) \in Links
        BY <1>4, LinkFields, RelinkType
    <2>2. \A b \in Alarm : /\ Relink(Q.next, a, n)[b] = IF b = a THEN n ELSE Q.next[b]
                           /\ Relink(Q.prev, a, p)[b] = IF b = a THEN p ELSE Q.prev[b]
        BY <1>4, LinkFields, RelinkType
    <2> QED
        BY <2>1, <2>2, RelinkType
<1>7. /\ R.next = Relink(Relink(Q.next, a, n), p, a) /\ R.prev = Relink(Relink(Q.prev, a, p), n, a)
      /\ R.head = IF k = 1 THEN a ELSE Q.head
      /\ R.tail = IF k = Len(s) + 1 THEN a ELSE Q.tail
      /\ R.timer = IF k = 1 THEN SetTimer(fire[a]) ELSE Q.timer
      /\ LinkType(R)
    <2>1. p = NULL <=> k = 1
        <3>1. k = 1 \/ k - 1 \in 1 .. Len(s)
            BY <1>1
        <3> QED
            BY <1>1, <1>3, <3>1
    <2>2. n = NULL <=> k = Len(s) + 1
        <3>1. k = Len(s) + 1 \/ k \in 1 .. Len(s)
            BY <1>1
        <3> QED
            BY <1>1, <1>2, <3>1
    <2>3. SetTimer(fire[a]) \in 0 .. Span \cup {2}
        BY TimerType
    <2> QED
        BY <1>5, <1>6, <2>1, <2>2, <2>3 DEF LinkType
<1> DEFINE u == Ins(s, k, a)
<1>8. /\ u \in Seq(Alarm) /\ Len(u) = Len(s) + 1 /\ Once(u)
      /\ \A i \in 1 .. Len(s) + 1 : u[i] = IF i < k THEN s[i] ELSE IF i = k THEN a ELSE s[i - 1]
    BY <1>1, Insertion
<1> HIDE DEF u
<1>9. \A i \in 1 .. Len(u) : u[i] \in Alarm
    BY <1>8
<1>10. ASSUME NEW i \in 1 .. Len(u)
       PROVE  /\ R.next[u[i]] = IF i = Len(u) THEN NULL ELSE u[i + 1]
              /\ R.prev[u[i]] = IF i = 1 THEN NULL ELSE u[i - 1]
    <2>1. /\ R.next[u[i]] = IF u[i] = p THEN a ELSE IF u[i] = a THEN n ELSE Q.next[u[i]]
          /\ R.prev[u[i]] = IF u[i] = n THEN a ELSE IF u[i] = a THEN p ELSE Q.prev[u[i]]
        BY <1>6, <1>7, <1>9
    <2>2. u[k] = a /\ \A j \in 1 .. Len(u) : u[j] = a => j = k
        BY <1>8 DEF Once
    <2>3. p = IF k = 1 THEN NULL ELSE u[k - 1]
        BY SMTT(30), <1>1, <1>3, <1>8
    <2>4. n = IF k = Len(u) THEN NULL ELSE u[k + 1]
        BY <1>1, <1>2, <1>8
    <2>5. u[i] = p <=> i + 1 = k
        BY SMTT(30), <1>1, <1>8, <1>9, <2>3 DEF Once
    <2>6. u[i] = n <=> i = k + 1
        BY <1>1, <1>8, <1>9, <2>4 DEF Once
    <2>7. CASE i < k
        <3>1. i \in 1 .. Len(s) /\ u[i] = s[i]
            BY <1>1, <1>8, <2>7
        <3>2. /\ Q.next[s[i]] = IF i = Len(s) THEN NULL ELSE s[i + 1]
              /\ Q.prev[s[i]] = IF i = 1 THEN NULL ELSE s[i - 1]
            BY <3>1 DEF Linked
        <3>3. i # 1 => u[i - 1] = s[i - 1]
            <4>1. i # 1 => i - 1 \in 1 .. Len(s) + 1 /\ i - 1 < k
                BY <1>1, <2>7, <3>1
            <4> QED
                BY <1>8, <4>1
        <3>4. i + 1 # k => u[i + 1] = s[i + 1] /\ i # Len(s)
            BY SMTT(30), <1>1, <1>8, <2>7
        <3> QED
            BY SMTT(30), <1>1, <1>8, <2>1, <2>2, <2>5, <2>6, <2>7, <3>1, <3>2, <3>3, <3>4
    <2>8. CASE i = k
        BY <1>1, <1>8, <2>1, <2>2, <2>3, <2>4, <2>5, <2>6, <2>8
    <2>9. CASE i > k
        <3>1. i - 1 \in 1 .. Len(s) /\ u[i] = s[i - 1]
            BY <1>1, <1>8, <2>9
        <3> DEFINE j == i - 1
        <3>2. /\ Q.next[s[j]] = IF j = Len(s) THEN NULL ELSE s[j + 1]
              /\ Q.prev[s[j]] = IF j = 1 THEN NULL ELSE s[j - 1]
            BY <3>1 DEF Linked
        <3>3. i # Len(u) => u[i + 1] = s[j + 1]
            <4>1. i # Len(u) => i + 1 \in 1 .. Len(s) + 1 /\ ~(i + 1 < k) /\ i + 1 # k
                <5>1. i \in 1 .. Len(s) + 1 /\ Len(u) = Len(s) + 1 /\ k \in Int
                    BY <1>1, <1>8
                <5> QED
                    BY <1>1, <2>9, <5>1
            <4>2. (i + 1) - 1 = j + 1
                BY <1>8
            <4> QED
                BY <1>8, <4>1, <4>2
        <3>4. i # k + 1 => u[i - 1] = s[j - 1] /\ j # 1
            <4>1. i # k + 1 => j \in 1 .. Len(s) + 1 /\ ~(j < k) /\ j # k /\ j # 1
                BY SMTT(30), <1>1, <1>8, <2>9
            <4> QED
                BY <1>8, <4>1
        <3>5. u[i] # a /\ i + 1 # k /\ u[i] # p
            BY <1>8, <2>2, <2>5, <2>9
        <3>6. i = Len(u) <=> j = Len(s)
            BY <1>1, <1>8
        <3>7. R.next[u[i]] = Q.next[u[i]] /\ R.prev[u[i]] = IF u[i] = n THEN a ELSE Q.prev[u[i]]
            BY <2>1, <3>5
        <3>8. R.next[u[i]] = IF i = Len(u) THEN NULL ELSE u[i + 1]
            <4> HIDE DEF j
            <4> QED
                BY <3>1, <3>2, <3>3, <3>6, <3>7 DEF j
        <3>9. R.prev[u[i]] = IF i = 1 THEN NULL ELSE u[i - 1]
            <4>1. CASE i = k + 1
                <5>1. i # 1 /\ i - 1 = k
                    BY <1>1, <4>1
                <5> QED
                    BY <2>2, <2>6, <3>7, <4>1, <5>1
            <4>2. CASE i # k + 1
                <5>1. u[i] # n /\ i # 1
                    BY <1>1, <2>6, <2>9, <4>2
                <5>2. R.prev[u[i]] = Q.prev[s[j]]
                    BY <3>1, <3>7, <5>1
                <5> HIDE DEF j
                <5> QED
                    BY <3>2, <3>4, <4>2, <5>1, <5>2
            <4> QED
                BY <4>1, <4>2
        <3> QED
            BY <3>8, <3>9
    <2> QED
        BY <1>8, <2>7, <2>8, <2>9
<1>11. R.head = u[1] /\ R.tail = u[Len(u)]
    <2>1. k # 1 => Q.head = s[1] /\ u[1] = s[1]
        <3>1. k # 1 => 1 \in 1 .. Len(s) + 1 /\ 1 < k /\ Len(s) # 0
            BY <1>1
        <3>2. Len(s) # 0 => Q.head = s[1]
            BY DEF Linked
        <3> QED
            BY <1>8, <3>1, <3>2
    <2>2. k # Len(s) + 1 => Q.tail = s[Len(s)] /\ u[Len(u)] = s[Len(s)]
        <3> DEFINE m == Len(s) + 1
        <3>1. k # m => m \in 1 .. Len(s) + 1 /\ ~(m < k) /\ Len(s) # 0 /\ m - 1 = Len(s)
            BY <1>1
        <3>2. Len(s) # 0 => Q.tail = s[Len(s)]
            BY DEF Linked
        <3> HIDE DEF m
        <3>3. k # m => u[m] = s[m - 1]
            BY <1>8, <3>1
        <3> QED
            BY <1>8, <3>1, <3>2, <3>3 DEF m
    <2>3. u[k] = a
        BY <1>8
    <2> QED
        BY <1>7, <1>8, <2>1, <2>2, <2>3
<1>12. Linked(R, u)
    BY <1>1, <1>8, <1>10, <1>11 DEF Linked
<1>13. Sorted(u, fire)
    <2> SUFFICES ASSUME NEW i \in 1 .. Len(u), NEW j \in 1 .. Len(u), i < j
                 PROVE  fire[u[i]] <= fire[u[j]]
        BY DEF Sorted
    <2>1. \A h \in 1 .. Len(s) : fire[s[h]] \in Int
        BY <1>1
    <2>2. CASE j < k
        <3>1. /\ i \in 1 .. Len(s) /\ j \in 1 .. Len(s)
              /\ u[i] = s[i] /\ u[j] = s[j]
            <4>1. i \in 1 .. Len(s) + 1 /\ j \in 1 .. Len(s) + 1 /\ k \in 1 .. Len(s) + 1
                BY <1>8
            <4>2. i < k /\ i \in 1 .. Len(s) /\ j \in 1 .. Len(s)
                BY <1>1, <2>2, <4>1
            <4> QED
                BY <1>8, <2>2, <4>1, <4>2
        <3> QED
            BY <3>1 DEF Sorted
    <2>3. CASE j = k
        <3>1. i \in 1 .. Len(s) /\ i < k /\ u[i] = s[i] /\ u[j] = a
            BY <1>1, <1>8, <2>3
        <3> QED
            BY <1>2, <3>1
    <2>4. CASE j > k
        <3>1. j - 1 \in 1 .. Len(s) /\ u[j] = s[j - 1]
            BY <1>1, <1>8, <2>4
        <3>2. CASE i < k
            <4>1. i \in 1 .. Len(s) /\ u[i] = s[i] /\ i < j - 1
                BY <1>1, <1>8, <2>4, <3>2
            <4> QED
                BY <3>1, <4>1 DEF Sorted
        <3>3. CASE i = k
            <4>1. u[i] = a /\ ~(j - 1 < k)
                BY <1>8, <2>4, <3>3
            <4>2. fire[a] < fire[s[j - 1]]
                BY <1>2, <3>1, <4>1
            <4> QED
                BY <2>1, <3>1, <4>1, <4>2
        <3>4. CASE i > k
            <4>1. i - 1 \in 1 .. Len(s) /\ u[i] = s[i - 1] /\ i - 1 < j - 1
                BY <1>1, <1>8, <2>4, <3>4
            <4> QED
                BY <3>1, <4>1 DEF Sorted
        <3> QED
            BY <1>8, <3>2, <3>3, <3>4
    <2> QED
        BY <1>8, <2>2, <2>3, <2>4
<1> QED
    BY <1>7, <1>12, <1>13 DEF R, u

-----------------------------------------------------------------------------
(* What the operations do to the alarms that wait and to the timer.        *)

\* The timer of Q interrupts in time for the head, if its times are those of fire.
Timed(Q, fire) ==
    Q.head # NULL => Q.timer > 0 /\ Q.timer <= IF fire[Q.head] > 0 THEN fire[Q.head] + 1 ELSE 2

LEMMA TimedAnew ==
    ASSUME NEW Q, NEW fire, fire[Q.head] \in Int, Q.timer = SetTimer(fire[Q.head])
    PROVE  Timed(Q, fire)
<1> DEFINE d == fire[Q.head]
           w == SetTimer(d)
<1>1. d \in Int /\ w > 0 /\ w <= IF d > 0 THEN d + 1 ELSE 2
    BY TimerType
<1> QED
    BY <1>1 DEF Timed

LEMMA Inserted ==
    ASSUME NEW Q, LinkType(Q), NEW s, Linked(Q, s), NEW a \in Alarm, ~Has(s, a),
           NEW fire \in [Alarm -> Int], Sorted(s, fire)
    PROVE  \E u : /\ LinkType(InsertAlarm(Q, fire, a)) /\ Linked(InsertAlarm(Q, fire, a), u)
                  /\ Sorted(u, fire)
                  /\ \A b : Has(u, b) <=> b = a \/ Has(s, b)
                  /\ Timed(Q, fire) => Timed(InsertAlarm(Q, fire, a), fire)
<1> DEFINE R == InsertAlarm(Q, fire, a)
<1>1. PICK k \in 1 .. Len(s) + 1 :
         /\ LinkType(R) /\ Linked(R, Ins(s, k, a)) /\ Sorted(Ins(s, k, a), fire)
         /\ R.timer = IF k = 1 THEN SetTimer(fire[a]) ELSE Q.timer
    BY InsertLinks
<1> DEFINE u == Ins(s, k, a)
<1>2. s \in Seq(Alarm) /\ Len(s) \in Nat
    BY DEF Linked
<1>3. /\ Len(u) = Len(s) + 1 /\ u[1] = IF 1 < k THEN s[1] ELSE a
      /\ \A b : Has(u, b) <=> b = a \/ Has(s, b)
    <2>1. 1 \in 1 .. Len(s) + 1 /\ k \in Int /\ k >= 1
        BY <1>2
    <2>2. \A i \in 1 .. Len(s) + 1 : u[i] = IF i < k THEN s[i] ELSE IF i = k THEN a ELSE s[i - 1]
        BY <1>2, Insertion
    <2>3. Len(u) = Len(s) + 1 /\ \A b : Has(u, b) <=> b = a \/ Has(s, b)
        BY <1>2, Insertion
    <2> HIDE DEF u
    <2>4. u[1] = IF 1 < k THEN s[1] ELSE a
        BY <2>1, <2>2
    <2> QED
        BY <2>3, <2>4
<1> HIDE DEF R, u
<1>4. Timed(Q, fire) => Timed(R, fire)
    <2>1. R.head = u[1]
        BY <1>1, <1>2, <1>3 DEF Linked, u
    <2>2. CASE k = 1
        <3>1. R.head = a /\ R.timer = SetTimer(fire[a])
            BY <1>1, <1>3, <2>1, <2>2
        <3>2. fire[a] \in Int
            OBVIOUS
        <3> QED
            BY <3>1, <3>2, TimedAnew
    <2>3. CASE k # 1
        <3>1. Len(s) # 0 /\ 1 < k
            BY <1>2, <2>3
        <3>2. Q.head = s[1]
            BY <3>1 DEF Linked
        <3>3. R.head = Q.head /\ R.timer = Q.timer
            BY <1>1, <1>3, <2>1, <2>3, <3>1, <3>2
        <3> QED
            BY <3>3 DEF Timed
    <2> QED
        BY <2>2, <2>3
<1> QED
    BY <1>1, <1>3, <1>4 DEF R, u

LEMMA RemoveLinks ==
    ASSUME NEW Q, LinkType(Q), NEW s, Linked(Q, s), NEW j \in 1 .. Len(s),
           left \in [Alarm -> Int]
    PROVE  /\ LinkType(Unlink(Q, s[j])) /\ Linked(Unlink(Q, s[j]), Del(s, j))
           /\ Unlink(Q, s[j]).timer = IF j = 1 /\ Len(s) # 1 THEN SetTimer(left[s[2]]) ELSE Q.timer
<1> DEFINE a == s[j]
           n == Q.next[a]
           p == Q.prev[a]
           R == Unlink(Q, a)
<1>1. /\ s \in Seq(Alarm) /\ Len(s) \in Nat /\ Len(s) > 0 /\ Once(s)
      /\ \A i \in 1 .. Len(s) : s[i] \in Alarm /\ s[i] # NULL
    BY DEF Linked
<1>2. n = IF j = Len(s) THEN NULL ELSE s[j + 1]
    BY DEF Linked
<1>3. p = IF j = 1 THEN NULL ELSE s[j - 1]
    BY DEF Linked
<1>4. R = [Q EXCEPT !.tail = IF n = NULL THEN p ELSE @,
                    !.prev = Relink(Q.prev, n, p),
                    !.next = Relink(Q.next, p, n),
                    !.head = IF p = NULL THEN n ELSE @,
                    !.timer = IF p = NULL /\ n # NULL THEN SetTimer(left[n]) ELSE @]
    BY DEF Unlink
<1>5. j # Len(s) => j + 1 \in 1 .. Len(s)
    BY <1>1
<1>6. j # 1 => j - 1 \in 1 .. Len(s)
    BY <1>1
<1>7. a \in Alarm
    BY <1>1
<1> HIDE DEF n, p, R
<1>8. n \in Alarm \cup {NULL} /\ p \in Alarm \cup {NULL}
    BY <1>1, <1>2, <1>3, <1>5, <1>6
<1>9. (n = NULL <=> j = Len(s)) /\ (p = NULL <=> j = 1)
    BY <1>1, <1>2, <1>3, <1>5, <1>6
<1> HIDE DEF a
<1>10. /\ Relink(Q.next, p, n) \in Links /\ Relink(Q.prev, n, p) \in Links
       /\ \A b \in Alarm : Relink(Q.next, p, n)[b] = IF b = p THEN n ELSE Q.next[b]
       /\ \A b \in Alarm : Relink(Q.prev, n, p)[b] = IF b = n THEN p ELSE Q.prev[b]
    BY <1>8, LinkFields, RelinkType
<1>11. n # NULL => left[n] \in Int
    BY <1>8
<1>12. /\ R.next = Relink(Q.next, p, n) /\ R.prev = Relink(Q.prev, n, p)
       /\ R.head = IF j = 1 THEN n ELSE Q.head
       /\ R.tail = IF j = Len(s) THEN p ELSE Q.tail
       /\ R.timer = IF j = 1 /\ j # Len(s) THEN SetTimer(left[n]) ELSE Q.timer
       /\ LinkType(R)
    <2>1. n # NULL => SetTimer(left[n]) \in 0 .. Span \cup {2}
        BY <1>11, TimerType
    <2> QED
        BY <1>4, <1>8, <1>9, <1>10, <2>1 DEF LinkType
<1> DEFINE u == Del(s, j)
<1>13. /\ u \in Seq(Alarm) /\ Len(u) = Len(s) - 1 /\ Once(u)
       /\ \A i \in 1 .. Len(s) - 1 : u[i] = IF i < j THEN s[i] ELSE s[i + 1]
    BY <1>1, Deletion
<1> HIDE DEF u
<1>14. ASSUME NEW i \in 1 .. Len(u)
       PROVE  /\ R.next[u[i]] = IF i = Len(u) THEN NULL ELSE u[i + 1]
              /\ R.prev[u[i]] = IF i = 1 THEN NULL ELSE u[i - 1]
    <2>1. u[i] \in Alarm
        BY <1>13
    <2>2. /\ R.next[u[i]] = IF u[i] = p THEN n ELSE Q.next[u[i]]
          /\ R.prev[u[i]] = IF u[i] = n THEN p ELSE Q.prev[u[i]]
        BY <1>10, <1>12, <2>1
    <2>3. CASE i < j
        <3>1. i \in 1 .. Len(s) /\ u[i] = s[i] /\ i # Len(s)
            BY <1>1, <1>13, <2>3
        <3>2. /\ Q.next[s[i]] = s[i + 1]
              /\ Q.prev[s[i]] = IF i = 1 THEN NULL ELSE s[i - 1]
            BY <3>1 DEF Linked
        <3>3. u[i] # n
            <4>1. CASE j = Len(s)
                BY <1>1, <1>2, <3>1, <4>1
            <4>2. CASE j # Len(s)
                BY <1>1, <1>2, <1>5, <2>3, <3>1, <4>2 DEF Once
            <4> QED
                BY <4>1, <4>2
        <3>4. R.prev[u[i]] = IF i = 1 THEN NULL ELSE u[i - 1]
            <4>1. i # 1 => i - 1 \in 1 .. Len(s) - 1 /\ i - 1 < j
                BY <1>1, <1>13, <2>3
            <4>2. i # 1 => u[i - 1] = s[i - 1]
                BY <1>13, <4>1
            <4> QED
                BY <2>2, <3>1, <3>2, <3>3, <4>2
        <3>5. CASE i + 1 = j
            <4>1. j # 1 /\ j - 1 = i
                BY <1>1, <3>5, <3>1
            <4>2. u[i] = p
                BY <1>3, <3>1, <4>1
            <4>3. i # Len(u) => i + 1 \in 1 .. Len(s) - 1 /\ ~(i + 1 < j)
                BY <1>1, <1>13, <3>5
            <4>4. i # Len(u) => u[i + 1] = s[j + 1]
                BY <1>13, <3>5, <4>3
            <4>5. i = Len(u) <=> j = Len(s)
                BY <1>1, <1>13, <3>5
            <4> QED
                BY <1>2, <2>2, <3>4, <4>2, <4>4, <4>5
        <3>6. CASE i + 1 # j
            <4>1. u[i] # p
                <5>1. CASE j = 1
                    BY <1>1, <1>3, <3>1, <5>1
                <5>2. CASE j # 1
                    BY <1>1, <1>3, <1>6, <3>6, <3>1, <5>2 DEF Once
                <5> QED
                    BY <5>1, <5>2
            <4>2. i # Len(u) /\ i + 1 \in 1 .. Len(s) - 1 /\ i + 1 < j
                BY <1>1, <1>13, <2>3, <3>6
            <4>3. u[i + 1] = s[i + 1]
                BY <1>13, <4>2
            <4> QED
                BY <2>2, <3>1, <3>2, <3>4, <4>1, <4>2, <4>3
        <3> QED
            BY <3>5, <3>6
    <2>4. CASE ~(i < j)
        <3> DEFINE h == i + 1
        <3>1. h \in 1 .. Len(s) /\ h > j /\ h # 1 /\ h - 1 = i
            BY <1>1, <1>13, <2>4
        <3>2. u[i] = s[h]
            BY <1>1, <1>13, <2>4
        <3>3. /\ Q.next[s[h]] = IF h = Len(s) THEN NULL ELSE s[h + 1]
              /\ Q.prev[s[h]] = s[h - 1]
            BY <3>1 DEF Linked
        <3>4. u[i] # p
            <4>1. CASE j = 1
                BY <1>1, <1>3, <3>1, <3>2, <4>1
            <4>2. CASE j # 1
                <5>1. j - 1 # h /\ j - 1 \in 1 .. Len(s) /\ p = s[j - 1]
                    BY <1>3, <1>6, <3>1, <4>2
                <5> QED
                    BY <1>1, <3>1, <3>2, <5>1 DEF Once
            <4> QED
                BY <4>1, <4>2
        <3>5. R.next[u[i]] = IF i = Len(u) THEN NULL ELSE u[i + 1]
            <4>1. i = Len(u) <=> h = Len(s)
                BY <1>1, <1>13
            <4>2. i # Len(u) => i + 1 \in 1 .. Len(s) - 1 /\ ~(i + 1 < j)
                BY <1>1, <1>13, <2>4
            <4>3. i # Len(u) => u[i + 1] = s[h + 1]
                BY <1>13, <4>2
            <4> HIDE DEF h
            <4> QED
                BY <2>2, <3>2, <3>3, <3>4, <4>1, <4>3
        <3>6. CASE i = j
            <4>1. u[i] = n
                <5>1. j # Len(s) /\ h = j + 1
                    BY <1>1, <1>13, <3>6
                <5> QED
                    BY <1>2, <3>2, <5>1
            <4>2. R.prev[u[i]] = p
                BY <2>2, <4>1
            <4>3. i # 1 => i - 1 \in 1 .. Len(s) - 1 /\ i - 1 < j
                BY <1>1, <1>13, <3>6
            <4>4. i # 1 => u[i - 1] = s[j - 1]
                BY <1>13, <3>6, <4>3
            <4> QED
                BY <1>3, <3>5, <3>6, <4>2, <4>4
        <3>7. CASE i # j
            <4>1. u[i] # n
                <5>1. CASE j = Len(s)
                    BY <1>1, <1>2, <3>1, <3>2, <5>1
                <5>2. CASE j # Len(s)
                    <6>1. j + 1 # h /\ j + 1 \in 1 .. Len(s) /\ n = s[j + 1]
                        BY <1>2, <1>5, <1>13, <3>7, <5>2
                    <6> QED
                        BY <1>1, <3>1, <3>2, <6>1 DEF Once
                <5> QED
                    BY <5>1, <5>2
            <4>2. i # 1 /\ i - 1 \in 1 .. Len(s) - 1 /\ ~(i - 1 < j) /\ (i - 1) + 1 = i
                BY <1>1, <1>13, <2>4, <3>7
            <4>3. u[i - 1] = s[i]
                BY <1>13, <4>2
            <4>4. R.prev[u[i]] = s[i]
                BY <2>2, <3>1, <3>2, <3>3, <4>1
            <4> QED
                BY <3>5, <4>2, <4>3, <4>4
        <3> QED
            BY <3>6, <3>7
    <2> QED
        BY <2>3, <2>4
<1>15. R.head = IF Len(u) = 0 THEN NULL ELSE u[1]
    <2>1. CASE j = 1
        <3>1. Len(u) = 0 <=> j = Len(s)
            BY <1>1, <1>13, <2>1
        <3>2. Len(u) # 0 => 1 \in 1 .. Len(s) - 1
            BY <1>1, <1>13
        <3>3. Len(u) # 0 => u[1] = s[2]
            BY <1>13, <2>1, <3>2
        <3> QED
            BY <1>2, <1>12, <2>1, <3>1, <3>3
    <2>2. CASE j # 1
        <3>1. Len(u) # 0 /\ 1 < j /\ 1 \in 1 .. Len(s) - 1
            <4>1. Len(s) \in Nat /\ Len(u) = Len(s) - 1 /\ j \in 1 .. Len(s)
                BY <1>1, <1>13
            <4> QED
                BY <2>2, <4>1
        <3>2. u[1] = s[1]
            BY <1>13, <3>1
        <3>3. Q.head = s[1]
            BY <1>1 DEF Linked
        <3> QED
            BY <1>12, <2>2, <3>1, <3>2, <3>3
    <2> QED
        BY <2>1, <2>2
<1>16. R.tail = IF Len(u) = 0 THEN NULL ELSE u[Len(u)]
    <2>1. CASE j = Len(s)
        <3>1. Len(u) = 0 <=> j = 1
            BY <1>1, <1>13, <2>1
        <3>2. Len(u) # 0 => Len(u) \in 1 .. Len(s) - 1 /\ Len(u) < j /\ Len(u) = j - 1
            BY <1>1, <1>13, <2>1
        <3>3. Len(u) # 0 => u[Len(u)] = s[j - 1]
            BY <1>13, <3>2
        <3> QED
            BY <1>3, <1>12, <2>1, <3>1, <3>3
    <2>2. CASE j # Len(s)
        <3>1. Len(u) # 0 /\ ~(Len(u) < j) /\ Len(u) \in 1 .. Len(s) - 1 /\ Len(u) + 1 = Len(s)
            BY SMTT(30), <1>1, <1>13, <2>2
        <3>2. u[Len(u)] = s[Len(s)]
            BY <1>13, <3>1
        <3>3. Q.tail = s[Len(s)]
            BY <1>1 DEF Linked
        <3> QED
            BY <1>12, <2>2, <3>1, <3>2, <3>3
    <2> QED
        BY <2>1, <2>2
<1>17. Linked(R, u)
    BY <1>13, <1>14, <1>15, <1>16 DEF Linked
<1>18. R.timer = IF j = 1 /\ Len(s) # 1 THEN SetTimer(left[s[2]]) ELSE Q.timer
    <2>1. j = 1 /\ j # Len(s) => n = s[2]
        BY <1>2
    <2>2. j = 1 /\ j # Len(s) <=> j = 1 /\ Len(s) # 1
        OBVIOUS
    <2> QED
        BY <1>12, <2>1, <2>2
<1> QED
    BY <1>12, <1>17, <1>18 DEF R, u, a

LEMMA Removed ==
    ASSUME NEW Q, LinkType(Q), NEW s, Linked(Q, s), NEW a, Has(s, a),
           left \in [Alarm -> Int], Sorted(s, left)
    PROVE  \E u : /\ LinkType(Unlink(Q, a)) /\ Linked(Unlink(Q, a), u)
                  /\ Sorted(u, left)
                  /\ \A b : Has(u, b) <=> b # a /\ Has(s, b)
                  /\ Timed(Q, left) => Timed(Unlink(Q, a), left)
<1>1. PICK j \in 1 .. Len(s) : s[j] = a
    BY DEF Has
<1> DEFINE R == Unlink(Q, a)
           u == Del(s, j)
<1>2. s \in Seq(Alarm) /\ Len(s) \in Nat /\ Once(s)
    BY DEF Linked
<1>3. /\ LinkType(R) /\ Linked(R, u)
      /\ R.timer = IF j = 1 /\ Len(s) # 1 THEN SetTimer(left[s[2]]) ELSE Q.timer
    BY <1>1, RemoveLinks
<1>4. Sorted(u, left) /\ \A b : Has(u, b) <=> b # a /\ Has(s, b)
    BY <1>1, <1>2, Deletion
<1>5. Len(u) = Len(s) - 1 /\ \A i \in 1 .. Len(s) - 1 : u[i] = IF i < j THEN s[i] ELSE s[i + 1]
    BY <1>2, Deletion
<1> HIDE DEF R, u
<1>6. Timed(Q, left) => Timed(R, left)
    <2>1. CASE Len(s) = 1
        <3>1. R.head = NULL
            BY <1>3, <1>5, <2>1 DEF Linked
        <3> QED
            BY <3>1 DEF Timed
    <2>2. CASE Len(s) # 1
        <3>1. 1 \in 1 .. Len(s) - 1 /\ 2 \in 1 .. Len(s) /\ Len(u) # 0
            BY <1>2, <1>5, <2>2
        <3>2. R.head = IF 1 < j THEN s[1] ELSE s[2]
            BY <1>3, <1>5, <3>1 DEF Linked
        <3>3. CASE j = 1
            <4>1. R.head = s[2] /\ R.timer = SetTimer(left[s[2]])
                BY <1>3, <2>2, <3>2, <3>3
            <4>2. left[s[2]] \in Int
                BY <1>2, <3>1
            <4> QED
                BY <4>1, <4>2, TimedAnew
        <3>4. CASE j # 1
            <4>1. Q.head = s[1]
                BY <1>2, <3>1 DEF Linked
            <4> QED
                BY <1>3, <3>2, <3>4, <4>1 DEF Timed
        <3> QED
            BY <3>3, <3>4
    <2> QED
        BY <2>1, <2>2
<1> QED
    BY <1>3, <1>4, <1>6 DEF R

\* The links that an alarm has kept, of when it was the head, still suit a queue
\* that has not changed since.
LEMMA OwnRemoved ==
    ASSUME NEW Q, LinkType(Q), NEW s, Linked(Q, s), NEW a \in Alarm,
           Q.next[a] = Q.head, Q.prev[a] = NULL, left \in [Alarm -> Int]
    PROVE  /\ LinkType(Unlink(Q, a)) /\ Linked(Unlink(Q, a), s)
           /\ Timed(Q, left) => Timed(Unlink(Q, a), left)
<1> DEFINE n == Q.next[a]
           R == Unlink(Q, a)
<1>1. /\ s \in Seq(Alarm) /\ Len(s) \in Nat /\ Once(s)
      /\ \A i \in 1 .. Len(s) : s[i] \in Alarm /\ s[i] # NULL
    BY DEF Linked
<1>2. R = [Q EXCEPT !.tail = IF n = NULL THEN NULL ELSE @,
                    !.prev = Relink(Q.prev, n, NULL),
                    !.next = Relink(Q.next, NULL, n),
                    !.head = n,
                    !.timer = IF n # NULL THEN SetTimer(left[n]) ELSE @]
    BY DEF Unlink
<1> HIDE DEF n, R
<1>3. n = Q.head /\ n \in Alarm \cup {NULL}
    BY LinkFields DEF n
<1>4. /\ Relink(Q.next, NULL, n) \in Links /\ Relink(Q.prev, n, NULL) \in Links
      /\ \A b \in Alarm : Relink(Q.next, NULL, n)[b] = Q.next[b]
      /\ \A b \in Alarm : Relink(Q.prev, n, NULL)[b] = IF b = n THEN NULL ELSE Q.prev[b]
    <2>1. \A b \in Alarm : b # NULL
        OBVIOUS
    <2> QED
        BY <1>3, <2>1, LinkFields, RelinkType
<1>5. n # NULL => left[n] \in Int
    BY <1>3
<1>6. n # NULL => SetTimer(left[n]) \in 0 .. Span \cup {2}
    BY <1>5, TimerType
<1>7. /\ R.next = Relink(Q.next, NULL, n) /\ R.prev = Relink(Q.prev, n, NULL)
      /\ R.head = Q.head /\ R.tail = IF n = NULL THEN NULL ELSE Q.tail
      /\ R.timer = IF n # NULL THEN SetTimer(left[n]) ELSE Q.timer
      /\ LinkType(R)
    <2> DEFINE nx == Relink(Q.next, NULL, n)
               pv == Relink(Q.prev, n, NULL)
               tl == IF n = NULL THEN NULL ELSE Q.tail
               tm == IF n # NULL THEN SetTimer(left[n]) ELSE Q.timer
    <2>1. nx \in Links /\ pv \in Links
        BY <1>4
    <2>2. tl \in Alarm \cup {NULL}
        BY LinkFields
    <2>3. tm \in 0 .. Span \cup {2}
        BY <1>6, LinkFields
    <2>4. R = [Q EXCEPT !.tail = tl, !.prev = pv, !.next = nx, !.head = n, !.timer = tm]
        BY <1>2
    <2> HIDE DEF nx, pv, tl, tm
    <2>5. /\ R.next = nx /\ R.prev = pv /\ R.head = n /\ R.tail = tl /\ R.timer = tm
          /\ LinkType(R)
        BY <1>3, <2>1, <2>2, <2>3, <2>4 DEF LinkType
    <2> QED
        BY <1>3, <2>5 DEF nx, pv, tl, tm
<1>8. n = IF Len(s) = 0 THEN NULL ELSE s[1]
    BY <1>3 DEF Linked
<1>9. R.tail = Q.tail
    <2>1. CASE Len(s) = 0
        BY <1>7, <1>8, <2>1 DEF Linked
    <2>2. CASE Len(s) # 0
        <3>1. n # NULL
            BY <1>1, <1>8, <2>2
        <3> QED
            BY <1>7, <3>1
    <2> QED
        BY <2>1, <2>2
<1>10. ASSUME NEW i \in 1 .. Len(s)
       PROVE  R.next[s[i]] = Q.next[s[i]] /\ R.prev[s[i]] = Q.prev[s[i]]
    <2>1. s[i] \in Alarm
        BY <1>1
    <2>2. s[i] = n => Q.prev[s[i]] = NULL
        <3>1. s[i] = n => i = 1
            BY <1>1, <1>8 DEF Once
        <3> QED
            BY <3>1 DEF Linked
    <2> QED
        BY <1>4, <1>7, <2>1, <2>2
<1>11. Linked(R, s)
    BY <1>7, <1>9, <1>10 DEF Linked
<1>12. Timed(R, left)
    <2>1. CASE n = NULL
        BY <1>3, <1>7, <2>1 DEF Timed
    <2>2. CASE n # NULL
        BY <1>3, <1>5, <1>7, <2>2, TimedAnew
    <2> QED
        BY <2>1, <2>2
<1> QED
    BY <1>7, <1>11, <1>12 DEF R

-----------------------------------------------------------------------------
(* Cancelling several alarms: by induction over the walk.                  *)

\* What the recursive definition of UnlinkAll says of a function.
Cut(Q, c, met, g, i) ==
    IF i = 0 THEN Q
    ELSE IF c[i] \in met THEN Unlink(g[i - 1], c[i])
    ELSE g[i - 1]

\* The recursive definition defines the function it describes.
LEMMA UnlinkAllIsDefined ==
    ASSUME NEW Q, NEW c, Chain(Q) = c, Len(c) \in Nat, NEW met
    PROVE  \E g : /\ \A n \in 0 .. Len(c) : g[n] = Cut(Q, c, met, g, n)
                  /\ UnlinkAll(Q, met) = g[Len(c)]
<1> DEFINE T == {n \in 0 .. Len(c) : \E g : g = [i \in 0 .. n |-> Cut(Q, c, met, g, i)]}
           f == CHOOSE g : g = [i \in 0 .. Len(c) |-> Cut(Q, c, met, g, i)]
<1>1. 0 \in T
    <2> DEFINE g == [i \in 0 .. 0 |-> Q]
    <2>1. g = [i \in 0 .. 0 |-> Cut(Q, c, met, g, i)]
        BY DEF Cut
    <2> QED
        BY <2>1
<1>2. ASSUME NEW n \in 1 .. Len(c), n - 1 \in T PROVE n \in T
    <2>1. PICK g : g = [i \in 0 .. n - 1 |-> Cut(Q, c, met, g, i)]
        BY <1>2
    <2> DEFINE h == [i \in 0 .. n |-> IF i = n THEN Cut(Q, c, met, g, n) ELSE g[i]]
    <2>2. ASSUME NEW i \in 0 .. n PROVE h[i] = Cut(Q, c, met, h, i)
        <3>1. i = 0 \/ h[i - 1] = g[i - 1]
            <4>1. i # 0 => i - 1 \in 0 .. n /\ i - 1 # n
                OBVIOUS
            <4> QED
                BY <4>1
        <3>2. CASE i = n
            BY <3>1, <3>2 DEF Cut
        <3>3. CASE i # n
            <4>1. g[i] = Cut(Q, c, met, g, i)
                <5> HIDE DEF h
                <5> QED
                    BY SMTT(30), <2>1, <3>3
            <4>2. h[i] = g[i]
                BY <3>3
            <4>3. Cut(Q, c, met, g, i) = Cut(Q, c, met, h, i)
                <5> HIDE DEF h
                <5> QED
                    BY <3>1 DEF Cut
            <4> QED
                BY <4>1, <4>2, <4>3
        <3> QED
            BY <3>2, <3>3
    <2>3. h = [i \in 0 .. n |-> h[i]]
        OBVIOUS
    <2>4. h = [i \in 0 .. n |-> Cut(Q, c, met, h, i)]
        <3> HIDE DEF h
        <3> QED
            BY <2>2, <2>3
    <2> HIDE DEF h
    <2> QED
        BY <2>4
<1>3. Len(c) \in T
    <2>1. \A i \in 1 .. Len(c) : i - 1 \in T => i \in T
        BY <1>2
    <2> HIDE DEF T
    <2>2. \A i \in 0 .. Len(c) : i \in T
        BY <1>1, <2>1, Stepwise
    <2> QED
        BY <2>2
<1>4. f = [i \in 0 .. Len(c) |-> Cut(Q, c, met, f, i)]
    BY <1>3
<1>5. UnlinkAll(Q, met) = f[Len(c)]
    BY DEF UnlinkAll, Cut
<1>6. \A n \in 0 .. Len(c) : f[n] = Cut(Q, c, met, f, n)
    <2> HIDE DEF f
    <2> QED
        BY <1>4
<1> HIDE DEF f
<1> QED
    BY <1>5, <1>6

LEMMA AllRemoved ==
    ASSUME LinkType(q), NEW s, Linked(q, s), left \in [Alarm -> Int], Sorted(s, left), NEW met
    PROVE  \E u : /\ LinkType(UnlinkAll(q, met)) /\ Linked(UnlinkAll(q, met), u)
                  /\ Sorted(u, left)
                  /\ \A b : Has(u, b) <=> b \notin met /\ Has(s, b)
                  /\ Timed(q, left) => Timed(UnlinkAll(q, met), left)
<1>1. s \in Seq(Alarm) /\ Len(s) \in Nat /\ Once(s)
    BY DEF Linked
<1>2. Chain(q) = s
    BY ChainIs
<1>3. PICK g : /\ \A n \in 0 .. Len(s) : g[n] = Cut(q, s, met, g, n)
               /\ UnlinkAll(q, met) = g[Len(s)]
    BY <1>1, <1>2, UnlinkAllIsDefined
<1>4. \A n \in 0 .. Len(s) : g[n] = Cut(q, s, met, g, n)
    BY <1>3
<1> DEFINE gone(n, b) == b \in met /\ \E i \in 1 .. n : s[i] = b
           K(n) == \E u : /\ LinkType(g[n]) /\ Linked(g[n], u)
                          /\ Sorted(u, left)
                          /\ \A b : Has(u, b) <=> ~gone(n, b) /\ Has(s, b)
                          /\ Timed(q, left) => Timed(g[n], left)
           T == {n \in 0 .. Len(s) : K(n)}
<1>5. 0 \in T
    <2>1. g[0] = q /\ 0 \in 0 .. Len(s)
        BY <1>1, <1>4 DEF Cut
    <2>2. \A b : ~gone(0, b)
        OBVIOUS
    <2> HIDE DEF gone
    <2>3. K(0)
        BY <2>1, <2>2
    <2> QED
        BY <2>1, <2>3
<1>6. ASSUME NEW n \in 1 .. Len(s), n - 1 \in T PROVE n \in T
    <2>1. n - 1 \in 0 .. Len(s) /\ n \in 0 .. Len(s) /\ n # 0
        BY <1>1
    <2>2. PICK u : /\ LinkType(g[n - 1]) /\ Linked(g[n - 1], u)
                   /\ Sorted(u, left)
                   /\ \A b : Has(u, b) <=> ~gone(n - 1, b) /\ Has(s, b)
                   /\ Timed(q, left) => Timed(g[n - 1], left)
        <3> HIDE DEF gone
        <3> QED
            BY <1>6
    <2>3. g[n] = IF s[n] \in met THEN Unlink(g[n - 1], s[n]) ELSE g[n - 1]
        BY <1>4, <2>1 DEF Cut
    <2>4. \A b : gone(n, b) <=> gone(n - 1, b) \/ (b \in met /\ b = s[n])
        <3>1. \A i \in 1 .. n : i \in 1 .. n - 1 \/ i = n
            OBVIOUS
        <3>2. \A i \in 1 .. n - 1 : i \in 1 .. n
            OBVIOUS
        <3> QED
            BY <3>1, <3>2
    <2>5. K(n)
        <3>1. CASE s[n] \notin met
            <4> HIDE DEF gone
            <4> QED
                BY <2>2, <2>3, <2>4, <3>1
        <3>2. CASE s[n] \in met
            <4>1. ~gone(n - 1, s[n]) /\ Has(s, s[n])
                <5>1. \A i \in 1 .. n - 1 : i \in 1 .. Len(s) /\ i # n
                    BY <1>1
                <5> QED
                    BY <1>1, <5>1 DEF Once, Has
            <4> HIDE DEF gone
            <4>2. PICK w : /\ LinkType(g[n]) /\ Linked(g[n], w)
                           /\ Sorted(w, left)
                           /\ \A b : Has(w, b) <=> b # s[n] /\ Has(u, b)
                           /\ Timed(g[n - 1], left) => Timed(g[n], left)
                <5>1. Has(u, s[n])
                    BY <2>2, <4>1
                <5> QED
                    BY <2>2, <2>3, <3>2, <5>1, Removed
            <4>3. \A b : Has(w, b) <=> ~gone(n, b) /\ Has(s, b)
                BY <2>2, <2>4, <3>2, <4>2
            <4> QED
                BY <2>2, <4>2, <4>3
        <3> QED
            BY <3>1, <3>2
    <2> HIDE DEF K
    <2> QED
        BY <2>1, <2>5
<1>7. K(Len(s))
    <2> HIDE DEF K
    <2>1. \A i \in 1 .. Len(s) : i - 1 \in T => i \in T
        BY <1>6
    <2> HIDE DEF T
    <2>2. \A i \in 0 .. Len(s) : i \in T
        BY <1>1, <1>5, <2>1, Stepwise
    <2>3. Len(s) \in T
        BY <1>1, <2>2
    <2> QED
        BY <2>3 DEF T
<1>8. \A b : Has(s, b) => (gone(Len(s), b) <=> b \in met)
    BY DEF Has
<1> HIDE DEF gone
<1> QED
    BY <1>3, <1>7, <1>8

-----------------------------------------------------------------------------
(* The next time of a periodic alarm.                                      *)
LEMMA Divide ==
    ASSUME NEW p \in Nat \ {0}, NEW d \in Int
    PROVE  /\ d % p \in Int /\ d \div p \in Int /\ d = p * (d \div p) + (d % p)
           /\ 0 <= d % p /\ d % p < p
    OBVIOUS

LEMMA Multiple ==
    ASSUME NEW p \in Nat \ {0}, NEW k \in Int
    PROVE  (p * k) % p = 0
    OBVIOUS

\* A period less is as far from the start.
LEMMA PeriodLess ==
    ASSUME NEW p \in Nat \ {0}, NEW d \in Int, d % p = 0
    PROVE  (d - p) % p = 0
<1>1. d = p * (d \div p) /\ d \div p \in Int
    BY Divide
<1>2. d - p = p * ((d \div p) - 1)
    BY <1>1
<1>3. (d \div p) - 1 \in Int
    BY <1>1
<1> QED
    BY <1>2, <1>3, Multiple

\* The next time is not before now, and a multiple of the period after the start.
LEMMA NextFireKeeps ==
    ASSUME NEW s \in Int, NEW p \in Nat \ {0}
    PROVE  NextFire(s, p) \in Nat /\ (NextFire(s, p) - s) % p = 0
<1> DEFINE k == (-s) \div p
<1>1. k \in Int /\ -s = p * k + ((-s) % p) /\ 0 <= (-s) % p /\ (-s) % p < p /\ (-s) % p \in Int
    <2>1. -s \in Int
        OBVIOUS
    <2> QED
        BY <2>1, Divide
<1>2. NextFire(s, p) = IF s >= 0 THEN s ELSE s + p * (k + 1)
    BY DEF NextFire
<1> HIDE DEF k
<1>3. p * (k + 1) = p * k + p /\ p * k \in Int
    BY <1>1
<1>4. CASE s >= 0
    <2>1. 0 % p = 0
        <3>1. p * 0 = 0
            OBVIOUS
        <3> QED
            BY <3>1, Multiple
    <2>2. s - s = 0 /\ s \in Nat
        BY <1>4
    <2>3. NextFire(s, p) = s
        BY <1>2, <1>4
    <2> QED
        BY <2>1, <2>2, <2>3
<1>5. CASE ~(s >= 0)
    <2>1. (p * (k + 1)) % p = 0
        <3>1. k + 1 \in Int
            BY <1>1
        <3> QED
            BY <3>1, Multiple
    <2>2. s + p * (k + 1) \in Nat /\ (s + p * (k + 1)) - s = p * (k + 1)
        BY <1>1, <1>3
    <2>3. NextFire(s, p) = s + p * (k + 1)
        BY <1>2, <1>5
    <2> QED
        BY <2>1, <2>2, <2>3
<1> QED
    BY <1>4, <1>5

-----------------------------------------------------------------------------
(* The invariant.                                                          *)

\* The state of the queue, whose alarms are those of s, of the alarms and of the
\* handler that runs.
WaitingAreSet(s) ==
    \A a \in Alarm : Has(s, a) => handler[a] /\ ~(IsOwn(a) /\ period[a] > 0)
SetAreWaiting(s) ==
    \A a \in Alarm : handler[a] => Has(s, a) \/ (IsOwn(a) /\ period[a] > 0)
InPhase(s) ==
    \A a \in Alarm : Has(s, a) /\ period[a] > 0 /\ left[a] >= 0 =>
                        (left[a] - start[a]) % period[a] = 0

\* Until its handler calls, the alarm that has gone off still has the links it had
\* as the head.
OwnLinks(s) ==
    firing # NULL =>
       /\ firing.handler
       /\ ~firing.changed => /\ ~Has(s, firing.alarm)
                             /\ q.next[firing.alarm] = q.head /\ q.prev[firing.alarm] = NULL

Waiting(s) ==
    /\ Linked(q, s) /\ Sorted(s, left)
    /\ WaitingAreSet(s) /\ SetAreWaiting(s) /\ InPhase(s) /\ OwnLinks(s)
    /\ firing = NULL => pending \/ Timed(q, left)

AlarmInv == AlarmTypeOK /\ \E s : Waiting(s)

LEMMA AlarmTypes ==
    ASSUME AlarmTypeOK
    PROVE  /\ LinkType(q) /\ handler \in [Alarm -> BOOLEAN] /\ left \in [Alarm -> Int]
           /\ period \in [Alarm -> Period \cup {0}] /\ start \in [Alarm -> Int]
           /\ pending \in BOOLEAN
           /\ firing # NULL => firing.alarm \in Alarm /\ firing.handler \in BOOLEAN
    BY DEF AlarmTypeOK, LinkType, Links

LEMMA QueuedIs ==
    ASSUME NEW Q, NEW s, Linked(Q, s)
    PROVE  ToSet(Chain(Q)) = {a \in Alarm : Has(s, a)}
<1>1. Chain(Q) = s /\ s \in Seq(Alarm)
    BY ChainIs DEF Linked
<1>2. DOMAIN s = 1 .. Len(s) /\ \A i \in 1 .. Len(s) : s[i] \in Alarm
    BY <1>1
<1> QED
    BY <1>1, <1>2 DEF ToSet, Has

\* A call leaves its mark in firing and nothing else.
LEMMA Marked ==
    ASSUME AlarmTypeOK, QueueChanged
    PROVE  /\ firing' \in [alarm : Alarm, handler : BOOLEAN, changed : BOOLEAN] \cup {NULL}
           /\ firing' = NULL <=> firing = NULL
           /\ firing # NULL => /\ firing'.alarm = firing.alarm
                               /\ firing'.handler = firing.handler
                               /\ firing'.changed
           /\ \A a : IsOwn(a)' <=> IsOwn(a)
<1>1. CASE firing = NULL
    BY <1>1 DEF QueueChanged, IsOwn
<1>2. CASE firing # NULL
    <2>1. firing \in [alarm : Alarm, handler : BOOLEAN, changed : BOOLEAN]
        BY <1>2 DEF AlarmTypeOK
    <2>2. firing' = [firing EXCEPT !.changed = TRUE]
        BY <1>2 DEF QueueChanged
    <2>3. firing' \in [alarm : Alarm, handler : BOOLEAN, changed : BOOLEAN]
        BY <2>1, <2>2
    <2>4. firing' # NULL
        BY <2>3, AlarmAssumption
    <2>5. firing'.alarm = firing.alarm /\ firing'.handler = firing.handler /\ firing'.changed
        BY <2>1, <2>2
    <2> QED
        BY <1>2, <2>3, <2>4, <2>5 DEF IsOwn
<1> QED
    BY <1>1, <1>2

-----------------------------------------------------------------------------
(* Setting an alarm.                                                       *)

\* What an alarm that does not wait is to fire at disturbs none that does.
LEMMA Undisturbed ==
    ASSUME NEW s, Linked(q, s), NEW a \in Alarm, ~Has(s, a), NEW f \in [Alarm -> Int], NEW x \in Int,
           Sorted(s, f)
    PROVE  /\ Sorted(s, [f EXCEPT ![a] = x])
           /\ Timed(q, f) => Timed(q, [f EXCEPT ![a] = x])
<1> DEFINE g == [f EXCEPT ![a] = x]
<1>1. s \in Seq(Alarm) /\ \A i \in 1 .. Len(s) : s[i] \in Alarm /\ s[i] # a
    BY SMTT(30) DEF Linked, Has
<1>2. \A b \in Alarm : b # a => g[b] = f[b]
    OBVIOUS
<1> HIDE DEF g
<1>3. \A i \in 1 .. Len(s) : g[s[i]] = f[s[i]]
    BY <1>1, <1>2
<1>4. q.head = NULL \/ (q.head \in Alarm /\ q.head # a)
    <2>1. CASE Len(s) = 0
        BY <2>1 DEF Linked
    <2>2. CASE Len(s) # 0
        <3>1. 1 \in 1 .. Len(s)
            BY <1>1, <2>2
        <3> QED
            BY <1>1, <2>2, <3>1 DEF Linked
    <2> QED
        BY <2>1, <2>2
<1>5. Sorted(s, g)
    BY <1>3 DEF Sorted
<1>6. Timed(q, f) => Timed(q, g)
    BY <1>2, <1>4 DEF Timed
<1> QED
    BY <1>5, <1>6 DEF g

LEMMA InsertStep ==
    ASSUME AlarmTypeOK, NEW s, Waiting(s), NEW a \in Alarm, ~handler[a],
           NEW x \in Nat, NEW pp \in Period \cup {0}, NEW ss \in Int,
           pp > 0 => ~IsOwn(a) /\ (x - ss) % pp = 0,
           handler' = [handler EXCEPT ![a] = TRUE],
           period' = [period EXCEPT ![a] = pp],
           start' = [start EXCEPT ![a] = ss],
           left' = [left EXCEPT ![a] = x],
           q' = InsertAlarm(q, left', a),
           QueueChanged, pending' = pending
    PROVE  AlarmInv' /\ Clock!Set(a)
<1>1. /\ Linked(q, s) /\ Sorted(s, left) /\ LinkType(q) /\ left \in [Alarm -> Int]
      /\ ~Has(s, a)
    BY AlarmTypes DEF Waiting, WaitingAreSet
<1>2. left' \in [Alarm -> Int] /\ Sorted(s, left') /\ (Timed(q, left) => Timed(q, left'))
    <2> DEFINE f == [left EXCEPT ![a] = x]
    <2>1. x \in Int
        OBVIOUS
    <2>2. f \in [Alarm -> Int]
        BY <1>1, <2>1
    <2>3. Sorted(s, f) /\ (Timed(q, left) => Timed(q, f))
        BY <1>1, <2>1, Undisturbed
    <2>4. left' = f
        OBVIOUS
    <2> HIDE DEF f
    <2> QED
        BY <2>2, <2>3, <2>4
<1>3. PICK u : /\ LinkType(q') /\ Linked(q', u) /\ Sorted(u, left')
               /\ \A b : Has(u, b) <=> b = a \/ Has(s, b)
               /\ Timed(q, left') => Timed(q', left')
    <2> DEFINE f == left'
               R == InsertAlarm(q, f, a)
    <2>1. f \in [Alarm -> Int] /\ Sorted(s, f)
        BY <1>2
    <2>2. q' = R
        OBVIOUS
    <2> HIDE DEF f
    <2>3. \E u : /\ LinkType(R) /\ Linked(R, u) /\ Sorted(u, f)
                 /\ \A b : Has(u, b) <=> b = a \/ Has(s, b)
                 /\ Timed(q, f) => Timed(R, f)
        BY <1>1, <2>1, Inserted
    <2> HIDE DEF R
    <2> QED
        BY <2>2, <2>3 DEF f
<1>4. /\ left'[a] = x /\ period'[a] = pp /\ start'[a] = ss /\ handler'[a]
      /\ \A b \in Alarm : b # a => /\ left'[b] = left[b] /\ period'[b] = period[b]
                                   /\ start'[b] = start[b] /\ handler'[b] = handler[b]
    BY AlarmTypes
<1>5. AlarmTypeOK'
    <2>1. handler' \in [Alarm -> BOOLEAN]
        BY AlarmTypes
    <2>2. period' \in [Alarm -> Period \cup {0}] /\ start' \in [Alarm -> Int]
        BY AlarmTypes
    <2>3. pending' \in BOOLEAN
        BY AlarmTypes
    <2> QED
        BY <1>2, <1>3, <2>1, <2>2, <2>3, Marked DEF AlarmTypeOK, LinkType, Links
<1>6. Waiting(u)'
    <2>1. WaitingAreSet(u)'
        <3> SUFFICES ASSUME NEW b \in Alarm, Has(u, b)
                     PROVE  handler'[b] /\ ~(IsOwn(b)' /\ period'[b] > 0)
            BY DEF WaitingAreSet
        <3>1. CASE b = a
            <4>1. pp > 0 => ~IsOwn(b)'
                BY <3>1, Marked
            <4> QED
                BY <1>4, <3>1, <4>1
        <3>2. CASE b # a
            <4>1. handler[b] /\ ~(IsOwn(b) /\ period[b] > 0)
                BY <1>3, <3>2 DEF Waiting, WaitingAreSet
            <4> QED
                BY <1>4, <3>2, <4>1, Marked
        <3> QED
            BY <3>1, <3>2
    <2>2. SetAreWaiting(u)'
        <3> SUFFICES ASSUME NEW b \in Alarm, handler'[b]
                     PROVE  Has(u, b) \/ (IsOwn(b)' /\ period'[b] > 0)
            BY DEF SetAreWaiting
        <3>1. CASE b = a
            BY <1>3, <3>1
        <3>2. CASE b # a
            <4>1. Has(s, b) \/ (IsOwn(b) /\ period[b] > 0)
                BY <1>4, <3>2 DEF Waiting, SetAreWaiting
            <4> QED
                BY <1>3, <1>4, <3>2, <4>1, Marked
        <3> QED
            BY <3>1, <3>2
    <2>3. InPhase(u)'
        <3> SUFFICES ASSUME NEW b \in Alarm, Has(u, b), period'[b] > 0, left'[b] >= 0
                     PROVE  (left'[b] - start'[b]) % period'[b] = 0
            BY DEF InPhase
        <3>1. CASE b = a
            BY <1>4, <3>1
        <3>2. CASE b # a
            BY <1>3, <1>4, <3>2 DEF Waiting, InPhase
        <3> QED
            BY <3>1, <3>2
    <2>4. OwnLinks(u)'
        <3>1. firing' # NULL => firing'.handler /\ firing'.changed
            BY Marked DEF Waiting, OwnLinks
        <3> QED
            BY <3>1 DEF OwnLinks
    <2>5. firing' = NULL => pending' \/ Timed(q', left')
        BY <1>2, <1>3, Marked DEF Waiting
    <2> QED
        BY <1>3, <2>1, <2>2, <2>3, <2>4, <2>5 DEF Waiting
<1>7. Clock!Set(a)
    <2>1. Queued = {b \in Alarm : Has(s, b)} /\ Queued' = {b \in Alarm : Has(u, b)}
        BY <1>1, <1>3, QueuedIs DEF Queued
    <2>2. a \notin Queued /\ Queued' = Queued \cup {a}
        BY <1>1, <1>3, <2>1
    <2>3. left'[a] >= 0 /\ \A b \in Queued : left'[b] = left[b]
        BY <1>1, <1>4, <2>1
    <2>4. (IF firing = NULL THEN NULL ELSE firing.alarm)' = IF firing = NULL THEN NULL ELSE firing.alarm
        BY Marked
    <2> QED
        BY <2>2, <2>3, <2>4 DEF Clock!Set
<1> QED
    BY <1>5, <1>6, <1>7 DEF AlarmInv

-----------------------------------------------------------------------------
(* Cancelling alarms.                                                      *)
LEMMA CancelStep ==
    ASSUME AlarmTypeOK, NEW s, Waiting(s), NEW met, NEW u,
           LinkType(q'), Linked(q', u), Sorted(u, left),
           \A b : Has(u, b) <=> b \notin met /\ Has(s, b),
           Timed(q, left) => Timed(q', left),
           handler' = [b \in Alarm |-> handler[b] /\ b \notin met],
           period' = [b \in Alarm |-> IF b \in met THEN 0 ELSE period[b]],
           QueueChanged, left' = left, start' = start, pending' = pending
    PROVE  AlarmInv' /\ Clock!Cancel
<1>1. /\ \A b \in Alarm : handler'[b] <=> handler[b] /\ b \notin met
      /\ \A b \in Alarm : period'[b] = IF b \in met THEN 0 ELSE period[b]
    OBVIOUS
<1>2. AlarmTypeOK'
    <2>1. handler' \in [Alarm -> BOOLEAN]
        BY AlarmTypes
    <2>2. period' \in [Alarm -> Period \cup {0}]
        BY AlarmTypes
    <2>3. left' \in [Alarm -> Int] /\ start' \in [Alarm -> Int] /\ pending' \in BOOLEAN
        BY AlarmTypes
    <2> QED
        BY <2>1, <2>2, <2>3, Marked DEF AlarmTypeOK, LinkType, Links
<1>3. Waiting(u)'
    <2>1. WaitingAreSet(u)'
        <3> SUFFICES ASSUME NEW b \in Alarm, Has(u, b)
                     PROVE  handler'[b] /\ ~(IsOwn(b)' /\ period'[b] > 0)
            BY DEF WaitingAreSet
        <3>1. b \notin met /\ handler[b] /\ ~(IsOwn(b) /\ period[b] > 0)
            BY DEF Waiting, WaitingAreSet
        <3> QED
            BY <1>1, <3>1, Marked
    <2>2. SetAreWaiting(u)'
        <3> SUFFICES ASSUME NEW b \in Alarm, handler'[b]
                     PROVE  Has(u, b) \/ (IsOwn(b)' /\ period'[b] > 0)
            BY DEF SetAreWaiting
        <3>1. b \notin met /\ (Has(s, b) \/ (IsOwn(b) /\ period[b] > 0))
            BY <1>1 DEF Waiting, SetAreWaiting
        <3> QED
            BY <1>1, <3>1, Marked
    <2>3. InPhase(u)'
        <3> SUFFICES ASSUME NEW b \in Alarm, Has(u, b), period'[b] > 0, left'[b] >= 0
                     PROVE  (left'[b] - start'[b]) % period'[b] = 0
            BY DEF InPhase
        <3>1. Has(s, b) /\ period'[b] = period[b]
            BY <1>1
        <3> QED
            BY <3>1 DEF Waiting, InPhase
    <2>4. OwnLinks(u)'
        <3>1. firing' # NULL => firing'.handler /\ firing'.changed
            BY Marked DEF Waiting, OwnLinks
        <3> QED
            BY <3>1 DEF OwnLinks
    <2>5. firing' = NULL => pending' \/ Timed(q', left')
        BY Marked DEF Waiting
    <2> QED
        BY <2>1, <2>2, <2>3, <2>4, <2>5 DEF Waiting
<1>4. Clock!Cancel
    <2>1. Queued = {b \in Alarm : Has(s, b)} /\ Queued' = {b \in Alarm : Has(u, b)}
        BY QueuedIs DEF Queued, Waiting
    <2>2. Queued' \subseteq Queued /\ \A b \in Queued' : left'[b] = left[b]
        BY <2>1
    <2>3. (IF firing = NULL THEN NULL ELSE firing.alarm)' = IF firing = NULL THEN NULL ELSE firing.alarm
        BY Marked
    <2> QED
        BY <2>2, <2>3 DEF Clock!Cancel
<1> QED
    BY <1>2, <1>3, <1>4 DEF AlarmInv

LEMMA CancelAlarmStep ==
    ASSUME AlarmTypeOK, NEW s, Waiting(s), NEW a \in Alarm, CancelAlarm(a), ~LateCancel
    PROVE  AlarmInv' /\ Clock!Cancel
<1>1. /\ Linked(q, s) /\ Sorted(s, left) /\ LinkType(q) /\ left \in [Alarm -> Int]
    BY AlarmTypes DEF Waiting
<1>2. q' = Unlink(q, a)
    BY DEF CancelAlarm
<1>3. PICK u : /\ LinkType(q') /\ Linked(q', u) /\ Sorted(u, left)
               /\ \A b : Has(u, b) <=> b # a /\ Has(s, b)
               /\ Timed(q, left) => Timed(q', left)
    <2>1. CASE Has(s, a)
        BY <1>1, <1>2, <2>1, Removed
    <2>2. CASE ~Has(s, a)
        <3>1. firing # NULL /\ firing.alarm = a /\ ~firing.changed
            BY <2>2 DEF CancelAlarm, Waiting, SetAreWaiting, IsOwn
        <3>2. q.next[a] = q.head /\ q.prev[a] = NULL
            BY <3>1 DEF Waiting, OwnLinks
        <3>3. /\ LinkType(q') /\ Linked(q', s)
              /\ Timed(q, left) => Timed(q', left)
            BY <1>1, <1>2, <3>2, OwnRemoved
        <3>4. \A b : Has(s, b) <=> b # a /\ Has(s, b)
            BY <2>2
        <3> QED
            BY <1>1, <3>3, <3>4
    <2> QED
        BY <2>1, <2>2
<1> DEFINE met == {a}
<1>4. handler' = [b \in Alarm |-> handler[b] /\ b \notin met]
    BY AlarmTypes DEF CancelAlarm
<1>5. period' = [b \in Alarm |-> IF b \in met THEN 0 ELSE period[b]]
    BY AlarmTypes DEF CancelAlarm
<1>6. QueueChanged /\ left' = left /\ start' = start /\ pending' = pending
    BY DEF CancelAlarm
<1>7. \A b : Has(u, b) <=> b \notin met /\ Has(s, b)
    BY <1>3
<1> HIDE DEF met
<1> QED
    BY <1>3, <1>4, <1>5, <1>6, <1>7, CancelStep

LEMMA CancelAlarmsStep ==
    ASSUME AlarmTypeOK, NEW s, Waiting(s), NEW S, CancelAlarms(S)
    PROVE  AlarmInv' /\ Clock!Cancel
<1> DEFINE met == {a \in Queued : a \in S /\ handler[a]}
<1>1. /\ Linked(q, s) /\ Sorted(s, left) /\ LinkType(q) /\ left \in [Alarm -> Int]
    BY AlarmTypes DEF Waiting
<1>2. /\ q' = UnlinkAll(q, met)
      /\ handler' = [a \in Alarm |-> handler[a] /\ a \notin met]
      /\ period' = [a \in Alarm |-> IF a \in met THEN 0 ELSE period[a]]
      /\ QueueChanged /\ left' = left /\ start' = start /\ pending' = pending
    BY DEF CancelAlarms
<1> HIDE DEF met
<1>3. PICK u : /\ LinkType(q') /\ Linked(q', u) /\ Sorted(u, left)
               /\ \A b : Has(u, b) <=> b \notin met /\ Has(s, b)
               /\ Timed(q, left) => Timed(q', left)
    BY <1>1, <1>2, AllRemoved
<1> QED
    BY <1>2, <1>3, CancelStep

-----------------------------------------------------------------------------
(* Time and the timer's interrupt.                                         *)

\* The timer is no part of the links.
LEMMA Retimed ==
    ASSUME NEW Q, LinkType(Q), NEW s, Linked(Q, s), NEW t \in 0 .. Span \cup {2}, NEW R,
           R = [Q EXCEPT !.timer = t]
    PROVE  /\ LinkType(R) /\ Linked(R, s) /\ R.timer = t
           /\ R.head = Q.head /\ R.tail = Q.tail /\ R.next = Q.next /\ R.prev = Q.prev
<1>1. /\ LinkType(R) /\ R.timer = t
      /\ R.head = Q.head /\ R.tail = Q.tail /\ R.next = Q.next /\ R.prev = Q.prev
    BY DEF LinkType
<1> QED
    BY <1>1 DEF Linked

LEMMA HeadType ==
    ASSUME NEW Q, NEW s, Linked(Q, s)
    PROVE  /\ Q.head # NULL <=> Len(s) # 0
           /\ Q.head # NULL => Q.head = s[1] /\ 1 \in 1 .. Len(s) /\ Q.head \in Alarm
<1>1. s \in Seq(Alarm) /\ Len(s) \in Nat
    BY DEF Linked
<1>2. CASE Len(s) = 0
    BY <1>2 DEF Linked
<1>3. CASE Len(s) # 0
    <2>1. 1 \in 1 .. Len(s)
        BY <1>1, <1>3
    <2> QED
        BY <1>1, <1>3, <2>1 DEF Linked
<1> QED
    BY <1>2, <1>3

LEMMA PeriodType ==
    ASSUME AlarmTypeOK, NEW a \in Alarm
    PROVE  period[a] \in Nat /\ period[a] \in Int /\ (period[a] > 0 => period[a] \in Nat \ {0})
<1>1. period[a] \in Period \cup {0}
    BY AlarmTypes
<1>2. Period \cup {0} \subseteq Nat
    OBVIOUS
<1>3. period[a] \in Nat
    BY <1>1, <1>2
<1> QED
    BY <1>3

LEMMA TickStep ==
    ASSUME AlarmTypeOK, NEW s, Waiting(s), Tick
    PROVE  AlarmInv' /\ Clock!Tick
<1>1. /\ Linked(q, s) /\ Sorted(s, left) /\ LinkType(q) /\ left \in [Alarm -> Int]
      /\ start \in [Alarm -> Int] /\ period \in [Alarm -> Period \cup {0}]
      /\ s \in Seq(Alarm) /\ \A i \in 1 .. Len(s) : s[i] \in Alarm
    BY AlarmTypes DEF Waiting, Linked
<1>2. /\ \A b \in Alarm : left'[b] = IF left[b] < 0 THEN -1 ELSE left[b] - 1
      /\ \A b \in Alarm : start'[b] = IF period[b] = 0 THEN 0
                                      ELSE IF start[b] <= -period[b] THEN start[b] - 1 + period[b]
                                      ELSE start[b] - 1
      /\ left' \in [Alarm -> Int]
      /\ handler' = handler /\ period' = period /\ firing' = firing
    BY <1>1 DEF Tick
<1>3. start' \in [Alarm -> Int]
    <2>1. \A b \in Alarm : period[b] \in Int /\ start[b] \in Int
        BY <1>1, PeriodType
    <2> QED
        BY <2>1 DEF Tick
<1> DEFINE t == IF q.timer = 0 THEN 0 ELSE q.timer - 1
<1>4. t \in 0 .. Span \cup {2} /\ q.timer \in Nat
    BY <1>1, LinkFields
<1>5. /\ LinkType(q') /\ Linked(q', s) /\ q'.timer = t
      /\ q'.head = q.head /\ q'.next = q.next /\ q'.prev = q.prev
    <2>1. q' = [q EXCEPT !.timer = t]
        BY DEF Tick
    <2> DEFINE Q == q
               R == q'
    <2>2. LinkType(Q) /\ Linked(Q, s) /\ t \in 0 .. Span \cup {2} /\ R = [Q EXCEPT !.timer = t]
        BY <1>1, <1>4, <2>1
    <2> HIDE DEF t, Q, R
    <2>3. /\ LinkType(R) /\ Linked(R, s) /\ R.timer = t
          /\ R.head = Q.head /\ R.tail = Q.tail /\ R.next = Q.next /\ R.prev = Q.prev
        BY <2>2, Retimed
    <2> QED
        BY <2>3 DEF Q, R
<1>6. pending' = (pending \/ q.timer = 1)
    BY DEF Tick
<1>7. AlarmTypeOK'
    <2>1. pending' \in BOOLEAN
        BY <1>6, AlarmTypes
    <2> QED
        BY <1>2, <1>3, <1>5, <2>1 DEF AlarmTypeOK, LinkType, Links
<1>8. Waiting(s)'
    <2>1. WaitingAreSet(s)' /\ SetAreWaiting(s)'
        BY <1>2 DEF Waiting, WaitingAreSet, SetAreWaiting, IsOwn
    <2>2. InPhase(s)'
        <3> SUFFICES ASSUME NEW b \in Alarm, Has(s, b), period'[b] > 0, left'[b] >= 0
                     PROVE  (left'[b] - start'[b]) % period'[b] = 0
            BY DEF InPhase
        <3> DEFINE p == period[b]
                   d == left[b] - start[b]
        <3>1. p \in Nat \ {0} /\ left[b] \in Int /\ start[b] \in Int /\ d \in Int
            <4>1. left[b] \in Int /\ start[b] \in Int
                BY <1>1
            <4>2. p \in Nat \ {0}
                BY <1>2, PeriodType
            <4> HIDE DEF p
            <4> QED
                BY <4>1, <4>2
        <3>2. left[b] >= 0 /\ left'[b] = left[b] - 1
            BY <1>2, <3>1
        <3>3. d % p = 0
            BY <1>2, <3>2 DEF Waiting, InPhase
        <3>4. left'[b] - start'[b] = d \/ left'[b] - start'[b] = d - p
            <4>1. start'[b] = start[b] - 1 + p \/ start'[b] = start[b] - 1
                BY <1>2, <3>1
            <4> QED
                BY <3>1, <3>2, <4>1
        <3>5. (d - p) % p = 0
            BY <3>1, <3>3, PeriodLess
        <3>6. period'[b] = p
            BY <1>2
        <3> HIDE DEF p, d
        <3> QED
            BY <3>3, <3>4, <3>5, <3>6
    <2>3. OwnLinks(s)'
        BY <1>2, <1>5 DEF Waiting, OwnLinks
    <2>4. Sorted(s, left')
        <3>1. \A b, c \in Alarm : left[b] <= left[c] => left'[b] <= left'[c]
            BY <1>1, <1>2
        <3> QED
            BY <1>1, <3>1 DEF Sorted
    <2>5. firing' = NULL => pending' \/ Timed(q', left')
        <3> SUFFICES ASSUME firing' = NULL, ~pending', q'.head # NULL
                     PROVE  q'.timer > 0 /\ q'.timer <= IF left'[q'.head] > 0 THEN left'[q'.head] + 1 ELSE 2
            BY DEF Timed
        <3> DEFINE h == left[q.head]
        <3>1. firing = NULL /\ ~pending /\ q.timer # 1 /\ q.head # NULL /\ q.head \in Alarm
            BY <1>1, <1>2, <1>5, <1>6, HeadType
        <3>2. q.timer > 0 /\ q.timer <= IF h > 0 THEN h + 1 ELSE 2
            BY <3>1 DEF Waiting, Timed
        <3>3. h \in Int /\ left'[q'.head] = IF h < 0 THEN -1 ELSE h - 1
            BY <1>1, <1>2, <1>5, <3>1
        <3>4. q'.timer = q.timer - 1
            BY <1>4, <1>5, <3>2
        <3> HIDE DEF h
        <3> QED
            BY <1>4, <3>1, <3>2, <3>3, <3>4
    <2> QED
        BY <1>5, <2>1, <2>2, <2>3, <2>4, <2>5 DEF Waiting
<1>9. Clock!Tick
    <2>1. Queued' = Queued
        BY <1>1, <1>5, QueuedIs DEF Queued
    <2> QED
        BY <1>2, <2>1 DEF Clock!Tick, Tick
<1> QED
    BY <1>7, <1>8, <1>9 DEF AlarmInv

\* Only the timer and its flag change.
LEMMA TimerStep ==
    ASSUME AlarmTypeOK, NEW s, Waiting(s), NEW t \in 0 .. Span \cup {2},
           q' = [q EXCEPT !.timer = t], pending' \in BOOLEAN,
           UNCHANGED <<alarmFields, firing>>,
           firing = NULL => pending' \/ Timed(q', left)
    PROVE  AlarmInv' /\ UNCHANGED Clock!clockVars
<1>1. handler' = handler /\ left' = left /\ period' = period /\ start' = start /\ firing' = firing
    BY DEF alarmFields
<1>2. Linked(q, s) /\ LinkType(q)
    BY AlarmTypes DEF Waiting
<1>3. /\ LinkType(q') /\ Linked(q', s)
      /\ q'.head = q.head /\ q'.next = q.next /\ q'.prev = q.prev
    <2> DEFINE Q == q
               R == q'
    <2>1. LinkType(Q) /\ Linked(Q, s) /\ R = [Q EXCEPT !.timer = t]
        BY <1>2
    <2> HIDE DEF Q, R
    <2>2. /\ LinkType(R) /\ Linked(R, s) /\ R.timer = t
          /\ R.head = Q.head /\ R.tail = Q.tail /\ R.next = Q.next /\ R.prev = Q.prev
        BY <2>1, Retimed
    <2> QED
        BY <2>2 DEF Q, R
<1>4. AlarmTypeOK'
    BY <1>1, <1>3 DEF AlarmTypeOK, LinkType, Links
<1>5. Waiting(s)'
    <2>1. WaitingAreSet(s)' /\ SetAreWaiting(s)'
        BY <1>1 DEF Waiting, WaitingAreSet, SetAreWaiting, IsOwn
    <2>2. InPhase(s)'
        BY <1>1 DEF Waiting, InPhase
    <2>3. OwnLinks(s)'
        BY <1>1, <1>3 DEF Waiting, OwnLinks
    <2>4. Sorted(s, left')
        BY <1>1 DEF Waiting
    <2>5. firing' = NULL => pending' \/ Timed(q', left')
        BY <1>1
    <2> QED
        BY <1>3, <2>1, <2>2, <2>3, <2>4, <2>5 DEF Waiting
<1>6. Queued' = Queued
    BY <1>2, <1>3, QueuedIs DEF Queued
<1>7. UNCHANGED Clock!clockVars
    BY <1>1, <1>6 DEF Clock!clockVars
<1> QED
    BY <1>4, <1>5, <1>7 DEF AlarmInv

LEMMA EmptyStep ==
    ASSUME AlarmTypeOK, NEW s, Waiting(s), ArrangeTimerEmpty
    PROVE  AlarmInv' /\ UNCHANGED Clock!clockVars
<1>1. /\ q' = [q EXCEPT !.timer = 0] /\ pending' \in BOOLEAN
      /\ UNCHANGED <<alarmFields, firing>>
    BY DEF ArrangeTimerEmpty
<1>2. q'.head = NULL
    BY AlarmTypes DEF ArrangeTimerEmpty, LinkType
<1>3. Timed(q', left)
    BY <1>2 DEF Timed
<1>4. 0 \in 0 .. Span \cup {2}
    OBVIOUS
<1> QED
    BY <1>1, <1>3, <1>4, TimerStep

LEMMA EarlyStep ==
    ASSUME AlarmTypeOK, NEW s, Waiting(s), ArrangeTimerEarly
    PROVE  AlarmInv' /\ UNCHANGED Clock!clockVars
<1> DEFINE t == SetTimer(left[q.head])
<1>1. /\ q' = [q EXCEPT !.timer = t] /\ pending' \in BOOLEAN
      /\ UNCHANGED <<alarmFields, firing>>
    BY DEF ArrangeTimerEarly
<1>2. q.head \in Alarm /\ left[q.head] \in Int
    <2>1. q.head \in Alarm
        BY HeadType DEF ArrangeTimerEarly, Waiting
    <2> QED
        BY <2>1, AlarmTypes
<1>3. t \in 0 .. Span \cup {2}
    BY <1>2, TimerType
<1>4. q'.head = q.head /\ q'.timer = t
    BY <1>1, AlarmTypes DEF LinkType
<1>5. Timed(q', left)
    BY <1>2, <1>4, TimedAnew
<1> HIDE DEF t
<1> QED
    BY <1>1, <1>3, <1>5, TimerStep

\* The alarm that goes off leaves the queue as if it were cancelled, but for the timer.
LEMMA HeadLeaves ==
    ASSUME AlarmTypeOK, NEW s, Waiting(s), ArrangeTimerFire
    PROVE  /\ Len(s) # 0 /\ q.head = s[1] /\ q.head \in Alarm
           /\ LinkType(q') /\ Linked(q', Del(s, 1))
           /\ q'.next[q.head] = q'.head /\ q'.prev[q.head] = NULL
<1> DEFINE a == q.head
           n == q.next[a]
           R == Unlink(q, a)
<1>1. Linked(q, s) /\ LinkType(q) /\ left \in [Alarm -> Int]
    BY AlarmTypes DEF Waiting
<1>2. Len(s) # 0 /\ a = s[1] /\ 1 \in 1 .. Len(s) /\ a \in Alarm
    BY <1>1, HeadType DEF ArrangeTimerFire
<1>3. q.prev[a] = NULL
    BY <1>1, <1>2 DEF Linked
<1>4. LinkType(R) /\ Linked(R, Del(s, 1))
    BY <1>1, <1>2, RemoveLinks
<1>5. n \in Alarm \cup {NULL} /\ n # a
    <2>1. n = IF 1 = Len(s) THEN NULL ELSE s[2]
        <3>1. \A i \in 1 .. Len(s) : q.next[s[i]] = IF i = Len(s) THEN NULL ELSE s[i + 1]
            BY <1>1 DEF Linked
        <3>2. q.next[s[1]] = IF 1 = Len(s) THEN NULL ELSE s[1 + 1]
            BY <1>2, <3>1
        <3> QED
            BY <1>2, <3>2
    <2>2. s \in Seq(Alarm) /\ Once(s)
        BY <1>1 DEF Linked
    <2>3. 1 # Len(s) => 2 \in 1 .. Len(s)
        <3>1. \A m \in Nat : m # 0 /\ 1 # m => 2 \in 1 .. m
            OBVIOUS
        <3>2. Len(s) \in Nat /\ Len(s) # 0
            BY <1>2, <2>2
        <3> QED
            BY <3>1, <3>2
    <2> QED
        BY <1>2, <2>1, <2>2, <2>3 DEF Once
<1>6. Relink(q.next, NULL, n) = q.next
    <2>1. q.next \in Links
        BY <1>1, LinkFields
    <2>2. \A b \in Alarm : b # NULL
        OBVIOUS
    <2> QED
        BY <2>1, <2>2 DEF Relink, Links
<1>7. /\ R.head = n /\ R.tail = IF n = NULL THEN NULL ELSE q.tail
      /\ R.prev = Relink(q.prev, n, NULL) /\ R.next = q.next
    BY <1>1, <1>3, <1>6 DEF Unlink, LinkType
<1>8. q' = [q EXCEPT !.head = n, !.tail = IF n = NULL THEN NULL ELSE @,
                     !.prev = Relink(@, n, NULL), !.timer = 0]
    BY DEF ArrangeTimerFire
<1>9. /\ q'.head = n /\ q'.tail = IF n = NULL THEN NULL ELSE q.tail
      /\ q'.prev = Relink(q.prev, n, NULL) /\ q'.next = q.next /\ q'.timer = 0
      /\ q' \in [head : Alarm \cup {NULL}, tail : Alarm \cup {NULL}, timer : {0},
                 next : Links, prev : Links]
    <2>1. R.prev \in Links
        BY <1>4, LinkFields
    <2>2. Relink(q.prev, n, NULL) \in Links
        BY <1>7, <2>1
    <2> HIDE DEF n, R
    <2> QED
        BY <1>1, <1>5, <1>8, <2>2 DEF LinkType
<1>10. LinkType(q')
    BY <1>9 DEF LinkType
<1>11. Linked(q', Del(s, 1))
    BY <1>4, <1>7, <1>9 DEF Linked
<1>12. q'.next[a] = n /\ q'.prev[a] = NULL
    <2>1. Relink(q.prev, n, NULL)[a] = q.prev[a]
        BY <1>2, <1>5 DEF Relink
    <2> QED
        BY <1>3, <1>9, <2>1
<1> QED
    BY <1>2, <1>9, <1>10, <1>11, <1>12

LEMMA FireStep ==
    ASSUME AlarmTypeOK, NEW s, Waiting(s), ArrangeTimerFire
    PROVE  AlarmInv' /\ \E a \in Alarm : Clock!GoOff(a)
<1> DEFINE a == q.head
           u == Del(s, 1)
<1>1. Linked(q, s) /\ Sorted(s, left) /\ s \in Seq(Alarm) /\ Once(s)
    BY DEF Waiting, Linked
<1>2. /\ Len(s) # 0 /\ 1 \in 1 .. Len(s) /\ a = s[1] /\ a \in Alarm
      /\ LinkType(q') /\ Linked(q', u)
      /\ q'.next[a] = q'.head /\ q'.prev[a] = NULL
    BY <1>1, HeadLeaves
<1>3. Sorted(u, left) /\ \A b : Has(u, b) <=> b # a /\ Has(s, b)
    BY <1>1, <1>2, Deletion
<1>4. Has(s, a)
    BY <1>2 DEF Has
<1>5. handler[a]
    BY <1>2, <1>4 DEF Waiting, WaitingAreSet
<1> HIDE DEF a, u
<1>6. /\ firing = NULL /\ left[a] <= 0
      /\ handler' = [handler EXCEPT ![a] = KeepsHandler(a)]
      /\ firing' = [alarm |-> a, handler |-> handler[a], changed |-> FALSE]
      /\ pending' = FALSE /\ left' = left /\ period' = period /\ start' = start
    BY DEF ArrangeTimerFire, IsDue, a
<1>7. /\ firing' \in [alarm : Alarm, handler : BOOLEAN, changed : BOOLEAN] /\ firing' # NULL
      /\ firing'.alarm = a /\ firing'.handler /\ ~firing'.changed
    <2>1. firing' \in [alarm : Alarm, handler : BOOLEAN, changed : BOOLEAN]
        BY <1>2, <1>5, <1>6
    <2>2. firing' # NULL
        BY <2>1, AlarmAssumption
    <2> QED
        BY <1>5, <1>6, <2>1, <2>2
<1>8. /\ \A b \in Alarm : b # a => (handler'[b] <=> handler[b])
      /\ handler'[a] => period[a] > 0
      /\ handler' \in [Alarm -> BOOLEAN]
    <2>1. period[a] \in Nat
        BY <1>2, PeriodType
    <2>2. KeepsHandler(a) \in BOOLEAN /\ (KeepsHandler(a) => period[a] > 0)
        BY <2>1 DEF KeepsHandler
    <2>3. handler \in [Alarm -> BOOLEAN]
        BY AlarmTypes
    <2> QED
        BY <1>2, <1>6, <2>2, <2>3
<1>9. AlarmTypeOK'
    <2>1. pending' \in BOOLEAN
        BY <1>6
    <2> QED
        BY <1>2, <1>6, <1>7, <1>8, <2>1 DEF AlarmTypeOK, LinkType, Links
<1>10. \A b : (IsOwn(b)' <=> b = a) /\ ~IsOwn(b)
    BY <1>6, <1>7 DEF IsOwn
<1>11. Waiting(u)'
    <2>1. WaitingAreSet(u)'
        <3> SUFFICES ASSUME NEW b \in Alarm, Has(u, b)
                     PROVE  handler'[b] /\ ~(IsOwn(b)' /\ period'[b] > 0)
            BY DEF WaitingAreSet
        <3>1. b # a /\ handler[b]
            BY <1>3 DEF Waiting, WaitingAreSet
        <3> QED
            BY <1>8, <1>10, <3>1
    <2>2. SetAreWaiting(u)'
        <3> SUFFICES ASSUME NEW b \in Alarm, handler'[b]
                     PROVE  Has(u, b) \/ (IsOwn(b)' /\ period'[b] > 0)
            BY DEF SetAreWaiting
        <3>1. CASE b = a
            BY <1>6, <1>8, <1>10, <3>1
        <3>2. CASE b # a
            <4>1. Has(s, b)
                BY <1>8, <1>10, <3>2 DEF Waiting, SetAreWaiting
            <4> QED
                BY <1>3, <3>2, <4>1
        <3> QED
            BY <3>1, <3>2
    <2>3. InPhase(u)'
        BY <1>3, <1>6 DEF Waiting, InPhase
    <2>4. OwnLinks(u)'
        BY <1>2, <1>3, <1>7 DEF OwnLinks
    <2>5. Sorted(u, left')
        BY <1>3, <1>6
    <2> QED
        BY <1>2, <1>7, <2>1, <2>2, <2>3, <2>4, <2>5 DEF Waiting
<1>12. Clock!GoOff(a)
    <2>1. Queued = {b \in Alarm : Has(s, b)} /\ Queued' = {b \in Alarm : Has(u, b)}
        BY <1>1, <1>2, QueuedIs DEF Queued
    <2>2. Queued' = Queued \ {a} /\ a \in Queued
        BY <1>2, <1>3, <1>4, <2>1
    <2>3. \A b \in Queued : left[a] <= left[b]
        <3> SUFFICES ASSUME NEW i \in 1 .. Len(s) PROVE left[a] <= left[s[i]]
            BY <2>1 DEF Has
        <3>1. CASE i = 1
            <4>1. left[a] \in Int
                BY <1>2, AlarmTypes
            <4> QED
                BY <1>2, <3>1, <4>1
        <3>2. CASE i # 1
            <4>1. 1 < i
                BY <3>2
            <4> QED
                BY <1>1, <1>2, <4>1 DEF Sorted
        <3> QED
            BY <3>1, <3>2
    <2>4. \A b \in Queued' : left'[b] = left[b]
        BY <1>6
    <2>5. /\ (IF firing = NULL THEN NULL ELSE firing.alarm) = NULL
          /\ (IF firing = NULL THEN NULL ELSE firing.alarm)' = a
        BY <1>6, <1>7
    <2> QED
        BY <1>6, <2>2, <2>3, <2>4, <2>5 DEF Clock!GoOff, Clock!Earliest
<1> QED
    BY <1>2, <1>9, <1>11, <1>12 DEF AlarmInv

\* The end of OSi_ArrangeTimer sets the timer for whatever is the head.
LEMMA Rearmed ==
    ASSUME NEW Q, LinkType(Q), NEW s, Linked(Q, s), NEW fire \in [Alarm -> Int]
    PROVE  /\ LinkType(Rearm(Q, fire)) /\ Linked(Rearm(Q, fire), s)
           /\ Timed(Rearm(Q, fire), fire)
<1> DEFINE R == Rearm(Q, fire)
<1>1. CASE Q.head = NULL
    <2>1. R = Q
        BY <1>1 DEF Rearm
    <2> HIDE DEF R
    <2>2. Timed(R, fire)
        BY <1>1, <2>1 DEF Timed
    <2> QED
        BY <2>1, <2>2 DEF R
<1>2. CASE Q.head # NULL
    <2> DEFINE t == SetTimer(fire[Q.head])
    <2>1. R = [Q EXCEPT !.timer = t]
        BY <1>2 DEF Rearm
    <2>2. fire[Q.head] \in Int
        <3>1. Q.head \in Alarm
            BY <1>2, HeadType
        <3> QED
            BY <3>1
    <2>3. t \in 0 .. Span \cup {2}
        BY <2>2, TimerType
    <2> HIDE DEF R, t
    <2>4. LinkType(R) /\ Linked(R, s) /\ R.timer = t /\ R.head = Q.head
        BY <2>1, <2>3, Retimed
    <2>5. Timed(R, fire)
        BY <2>2, <2>4, TimedAnew DEF t
    <2> QED
        BY <2>4, <2>5 DEF R
<1> QED
    BY <1>1, <1>2

LEMMA ReturnStep ==
    ASSUME AlarmTypeOK, NEW s, Waiting(s), ArrangeTimerReturn
    PROVE  AlarmInv' /\ Clock!Return
<1> DEFINE a == firing.alarm
<1>1. /\ Linked(q, s) /\ Sorted(s, left) /\ LinkType(q) /\ left \in [Alarm -> Int]
      /\ start \in [Alarm -> Int] /\ handler \in [Alarm -> BOOLEAN]
    BY AlarmTypes DEF Waiting
<1>2. firing # NULL /\ a \in Alarm /\ firing.handler /\ firing' = NULL
    BY AlarmTypes DEF ArrangeTimerReturn, Waiting, OwnLinks
<1>3. \A b : ~IsOwn(b)' /\ (IsOwn(b) <=> b = a)
    BY <1>2 DEF IsOwn
<1>4. period' = period /\ start' = start /\ pending' = pending
    BY DEF ArrangeTimerReturn
<1>5. /\ (IF firing = NULL THEN NULL ELSE firing.alarm) = a /\ a # NULL
      /\ (IF firing = NULL THEN NULL ELSE firing.alarm)' = NULL
    BY <1>2
<1> HIDE DEF a
<1>6. CASE period[a] > 0
    <2> DEFINE x == NextFire(start[a], period[a])
               f == [left EXCEPT ![a] = x]
    <2>1. /\ handler' = [handler EXCEPT ![a] = firing.handler]
          /\ left' = f /\ q' = Rearm(InsertAlarm(q, left', a), left')
        BY <1>6 DEF ArrangeTimerReturn, a
    <2>2. x \in Nat /\ x \in Int /\ (x - start[a]) % period[a] = 0
        <3>1. period[a] \in Nat \ {0} /\ start[a] \in Int
            BY <1>1, <1>2, <1>6, PeriodType
        <3> QED
            <4> DEFINE z == start[a]
                       p == period[a]
            <4>1. z \in Int /\ p \in Nat \ {0}
                BY <3>1
            <4> HIDE DEF z, p
            <4>2. NextFire(z, p) \in Nat /\ (NextFire(z, p) - z) % p = 0
                BY <4>1, NextFireKeeps
            <4>3. NextFire(z, p) \in Int
                BY <4>2
            <4> QED
                BY <4>2, <4>3 DEF z, p
    <2> HIDE DEF x
    <2>3. ~Has(s, a)
        BY <1>2, <1>3, <1>6 DEF Waiting, WaitingAreSet
    <2>4. f \in [Alarm -> Int] /\ Sorted(s, f)
        BY <1>1, <1>2, <2>2, <2>3, Undisturbed
    <2>5. f[a] = x /\ \A b \in Alarm : b # a => f[b] = left[b]
        BY <1>1, <1>2
    <2>6. handler'[a] /\ (\A b \in Alarm : b # a => handler'[b] = handler[b]) /\ handler' \in [Alarm -> BOOLEAN]
        BY <1>1, <1>2, <2>1
    <2> HIDE DEF f
    <2> DEFINE R == InsertAlarm(q, f, a)
    <2>7. PICK u : /\ LinkType(R) /\ Linked(R, u) /\ Sorted(u, f)
                   /\ \A b : Has(u, b) <=> b = a \/ Has(s, b)
        BY <1>1, <1>2, <2>3, <2>4, Inserted
    <2>8. q' = Rearm(R, f)
        BY <2>1
    <2> HIDE DEF R
    <2>9. LinkType(q') /\ Linked(q', u) /\ Timed(q', left') /\ Sorted(u, left')
        BY <2>1, <2>4, <2>7, <2>8, Rearmed
    <2>10. AlarmTypeOK'
        <3>1. left' \in [Alarm -> Int]
            BY <2>1, <2>4
        <3> QED
            BY <1>2, <1>4, <2>6, <2>9, <3>1 DEF AlarmTypeOK, LinkType, Links
    <2>11. Waiting(u)'
        <3>1. WaitingAreSet(u)'
            BY <1>3, <2>6, <2>7 DEF Waiting, WaitingAreSet
        <3>2. SetAreWaiting(u)'
            BY <1>3, <2>6, <2>7 DEF Waiting, SetAreWaiting
        <3>3. InPhase(u)'
            <4> SUFFICES ASSUME NEW b \in Alarm, Has(u, b), period'[b] > 0, left'[b] >= 0
                         PROVE  (left'[b] - start'[b]) % period'[b] = 0
                BY DEF InPhase
            <4>1. CASE b = a
                BY <1>4, <2>1, <2>2, <2>5, <4>1
            <4>2. CASE b # a
                <5>1. Has(s, b) /\ left'[b] = left[b]
                    BY <2>1, <2>5, <2>7, <4>2
                <5> QED
                    BY <1>4, <5>1 DEF Waiting, InPhase
            <4> QED
                BY <4>1, <4>2
        <3>4. OwnLinks(u)'
            BY <1>2 DEF OwnLinks
        <3> QED
            BY <2>9, <3>1, <3>2, <3>3, <3>4 DEF Waiting
    <2>12. Clock!Return
        <3>1. Queued = {b \in Alarm : Has(s, b)} /\ Queued' = {b \in Alarm : Has(u, b)}
            BY <1>1, <2>9, QueuedIs DEF Queued
        <3>2. Queued' = Queued \cup {a} /\ a \notin Queued
            BY <1>2, <2>3, <2>7, <3>1
        <3>3. \A b \in Queued' : IF b \in Queued THEN left'[b] = left[b] ELSE left'[b] >= 0
            <4>1. left'[a] >= 0
                BY <2>1, <2>2, <2>5
            <4> QED
                BY <2>1, <2>5, <3>1, <3>2, <4>1
        <3> QED
            BY <1>5, <3>2, <3>3 DEF Clock!Return
    <2> QED
        BY <2>10, <2>11, <2>12 DEF AlarmInv
<1>7. CASE ~(period[a] > 0)
    <2>1. q' = Rearm(q, left) /\ handler' = handler /\ left' = left
        BY <1>7 DEF ArrangeTimerReturn, a
    <2>2. LinkType(q') /\ Linked(q', s) /\ Timed(q', left') /\ Sorted(s, left')
        BY <1>1, <2>1, Rearmed
    <2>3. AlarmTypeOK'
        BY <1>1, <1>2, <1>4, <2>1, <2>2 DEF AlarmTypeOK, LinkType, Links
    <2>4. Waiting(s)'
        <3>1. WaitingAreSet(s)'
            BY <1>3, <2>1 DEF Waiting, WaitingAreSet
        <3>2. SetAreWaiting(s)'
            BY <1>3, <1>7, <2>1 DEF Waiting, SetAreWaiting
        <3>3. InPhase(s)'
            BY <1>4, <2>1 DEF Waiting, InPhase
        <3>4. OwnLinks(s)'
            BY <1>2 DEF OwnLinks
        <3> QED
            BY <2>2, <3>1, <3>2, <3>3, <3>4 DEF Waiting
    <2>5. Clock!Return
        <3>1. Queued' = Queued
            BY <1>1, <2>2, QueuedIs DEF Queued
        <3> QED
            BY <1>5, <2>1, <3>1 DEF Clock!Return
    <2> QED
        BY <2>3, <2>4, <2>5 DEF AlarmInv
<1> QED
    BY <1>6, <1>7

-----------------------------------------------------------------------------
(* The theorems.                                                           *)
LEMMA InitOK ==
    ASSUME AlarmInit
    PROVE  AlarmInv /\ Clock!Init
<1> DEFINE s == <<>>
<1>1. Len(s) = 0 /\ s \in Seq(Alarm)
    OBVIOUS
<1>2. Linked(q, s)
    BY <1>1 DEF AlarmInit, Linked, Once
<1>3. AlarmTypeOK
    <2>1. [a \in Alarm |-> NULL] \in [Alarm -> Alarm \cup {NULL}]
        OBVIOUS
    <2>2. 0 \in 0 .. Span \cup {2}
        OBVIOUS
    <2>3. q \in [head : Alarm \cup {NULL}, tail : Alarm \cup {NULL}, timer : 0 .. Span \cup {2},
                 next : [Alarm -> Alarm \cup {NULL}], prev : [Alarm -> Alarm \cup {NULL}]]
        BY <2>1, <2>2 DEF AlarmInit
    <2>4. left \in [Alarm -> Int] /\ start \in [Alarm -> Int] /\ handler \in [Alarm -> BOOLEAN]
        BY DEF AlarmInit
    <2>5. period \in [Alarm -> Period \cup {0}] /\ pending \in BOOLEAN /\ firing = NULL
        BY DEF AlarmInit
    <2> QED
        BY <2>3, <2>4, <2>5 DEF AlarmTypeOK
<1>4. \A a : ~Has(s, a)
    BY <1>1 DEF Has
<1>5. Waiting(s)
    <2>1. Sorted(s, left)
        BY <1>1 DEF Sorted
    <2>2. WaitingAreSet(s) /\ SetAreWaiting(s) /\ InPhase(s) /\ OwnLinks(s)
        BY <1>4 DEF AlarmInit, WaitingAreSet, SetAreWaiting, InPhase, OwnLinks
    <2>3. Timed(q, left)
        BY DEF AlarmInit, Timed
    <2> HIDE DEF s
    <2> QED
        BY <1>2, <2>1, <2>2, <2>3 DEF Waiting
<1>6. Queued = {}
    BY <1>2, <1>4, QueuedIs DEF Queued
<1>7. Clock!Init
    <2>1. left \in [Alarm -> {-1}]
        BY DEF AlarmInit
    <2>2. firing = NULL
        BY DEF AlarmInit
    <2> QED
        BY <1>6, <2>1, <2>2 DEF Clock!Init
<1> HIDE DEF s
<1> QED
    BY <1>3, <1>5, <1>7 DEF AlarmInv

\* Each step keeps the invariant and is one of the abstract alarms, or leaves them
\* as they are.
LEMMA AlarmStep ==
    ASSUME AlarmInv, [AlarmNext]_alarmVars, ~LateCancel
    PROVE  AlarmInv' /\ [Clock!Next]_Clock!clockVars
<1>1. AlarmTypeOK /\ \E s : Waiting(s)
    BY DEF AlarmInv
<1>2. PICK s : Waiting(s)
    BY <1>1
<1>3. ASSUME NEW a \in Alarm, NEW d \in Delay, SetAlarm(a, d)
      PROVE  AlarmInv' /\ Clock!Set(a)
    <2>1. d \in Nat /\ 0 \in Period \cup {0} /\ start[a] \in Int
        BY <1>1, AlarmTypes
    <2>2. start' = [start EXCEPT ![a] = start[a]]
        <3>1. start' = start
            BY <1>3 DEF SetAlarm
        <3> QED
            BY <1>1, <3>1, AlarmTypes
    <2>3. /\ ~handler[a] /\ handler' = [handler EXCEPT ![a] = TRUE]
          /\ period' = [period EXCEPT ![a] = 0]
          /\ left' = [left EXCEPT ![a] = d]
          /\ q' = InsertAlarm(q, left', a)
          /\ QueueChanged /\ pending' = pending
        BY <1>3 DEF SetAlarm
    <2>4. ~(0 > 0)
        OBVIOUS
    <2> QED
        BY <1>1, <1>2, <2>1, <2>2, <2>3, <2>4, InsertStep
<1>4. ASSUME NEW a \in Alarm, NEW ss \in Start, NEW p \in Period, SetPeriodicAlarm(a, ss, p)
      PROVE  AlarmInv' /\ Clock!Set(a)
    <2>1. ss \in Int /\ p \in Nat \ {0} /\ p \in Period \cup {0}
        OBVIOUS
    <2> DEFINE x == NextFire(ss, p)
    <2>2. x \in Nat /\ (x - ss) % p = 0
        BY <2>1, NextFireKeeps
    <2>3. /\ ~handler[a] /\ ~IsOwn(a) /\ handler' = [handler EXCEPT ![a] = TRUE]
          /\ period' = [period EXCEPT ![a] = p]
          /\ start' = [start EXCEPT ![a] = ss]
          /\ left' = [left EXCEPT ![a] = x]
          /\ q' = InsertAlarm(q, left', a)
          /\ QueueChanged /\ pending' = pending
        BY <1>4 DEF SetPeriodicAlarm
    <2> HIDE DEF x
    <2> QED
        BY <1>1, <1>2, <2>1, <2>2, <2>3, InsertStep
<1>5. ASSUME NEW a \in Alarm, CancelAlarm(a)
      PROVE  AlarmInv' /\ Clock!Cancel
    BY <1>1, <1>2, <1>5, CancelAlarmStep
<1>6. ASSUME NEW S \in SUBSET Alarm, CancelAlarms(S)
      PROVE  AlarmInv' /\ Clock!Cancel
    BY <1>1, <1>2, <1>6, CancelAlarmsStep
<1>7. CASE ArrangeTimerEmpty
    BY <1>1, <1>2, <1>7, EmptyStep
<1>8. CASE ArrangeTimerEarly
    BY <1>1, <1>2, <1>8, EarlyStep
<1>9. CASE ArrangeTimerFire
    <2>1. AlarmInv' /\ \E a \in Alarm : Clock!GoOff(a)
        BY <1>1, <1>2, <1>9, FireStep
    <2> QED
        BY <2>1 DEF Clock!Next
<1>10. CASE ArrangeTimerReturn
    <2>1. AlarmInv' /\ Clock!Return
        BY <1>1, <1>2, <1>10, ReturnStep
    <2> QED
        BY <2>1 DEF Clock!Next
<1>11. CASE Tick
    <2>1. AlarmInv' /\ Clock!Tick
        BY <1>1, <1>2, <1>11, TickStep
    <2> QED
        BY <2>1 DEF Clock!Next
<1>12. CASE ApiCall
    <2>1. AlarmInv' /\ ((\E a \in Alarm : Clock!Set(a)) \/ Clock!Cancel)
        BY <1>3, <1>4, <1>5, <1>6, <1>12 DEF ApiCall
    <2> QED
        BY <2>1 DEF Clock!Next
<1>13. CASE UNCHANGED alarmVars
    <2>1. AlarmInv'
        BY <1>1, <1>2, <1>13 DEF AlarmInv, AlarmTypeOK, Waiting, WaitingAreSet, SetAreWaiting, InPhase,
            OwnLinks, IsOwn, alarmVars, alarmFields
    <2>2. UNCHANGED Clock!clockVars
        BY <1>13 DEF Clock!clockVars, Queued, alarmVars, alarmFields
    <2> QED
        BY <2>1, <2>2
<1> QED
    BY <1>7, <1>8, <1>9, <1>10, <1>11, <1>12, <1>13 DEF AlarmNext, ArrangeTimer

\* What the invariant says of the queue: it is one chain of the alarms that are
\* set, and the timer counts to its head.
LEMMA InvImplies ==
    ASSUME AlarmInv
    PROVE  QueueIsTimed /\ PeriodKept
<1>1. PICK s : Waiting(s)
    BY DEF AlarmInv
<1>2. AlarmTypeOK /\ Linked(q, s)
    BY <1>1 DEF AlarmInv, Waiting
<1>3. Chain(q) = s
    BY <1>2, ChainIs
<1>4. s \in Seq(Alarm) /\ DOMAIN s = 1 .. Len(s) /\ Len(s) \in Nat
    BY <1>2 DEF Linked
<1>5. LinksConsistent
    <2>1. IsInjective(s)
        BY <1>2, <1>4 DEF Linked, Once, IsInjective
    <2>2. q.tail = IF s = <<>> THEN NULL ELSE Last(s)
        <3>1. s = <<>> <=> Len(s) = 0
            BY <1>4, EmptySeq
        <3>2. Last(s) = s[Len(s)]
            BY DEF Last
        <3>3. q.tail = IF Len(s) = 0 THEN NULL ELSE s[Len(s)]
            BY <1>2 DEF Linked
        <3> QED
            BY <3>1, <3>2, <3>3
    <2>3. \A i \in 1 .. Len(s) :
             /\ q.next[s[i]] = IF i = Len(s) THEN NULL ELSE s[i + 1]
             /\ q.prev[s[i]] = IF i = 1 THEN NULL ELSE s[i - 1]
        BY <1>2 DEF Linked
    <2>4. \A i \in 1 .. Len(s) : handler[s[i]] /\ ~(IsOwn(s[i]) /\ period[s[i]] > 0)
        BY <1>1, <1>4 DEF Waiting, WaitingAreSet, Has
    <2> QED
        BY <1>3, <2>1, <2>2, <2>3, <2>4 DEF LinksConsistent
<1>6. Queued = {a \in Alarm : Has(s, a)}
    BY <1>2, QueuedIs DEF Queued
<1>7. UsedAlarmsQueued
    BY <1>1, <1>6 DEF UsedAlarmsQueued, Waiting, SetAreWaiting
<1>8. HeadIsTimed
    BY <1>1 DEF HeadIsTimed, Waiting, Timed
<1>9. PeriodKept
    BY <1>1, <1>6 DEF PeriodKept, Waiting, InPhase
<1> QED
    BY <1>2, <1>5, <1>7, <1>8, <1>9 DEF QueueIsTimed

\* The inductive invariant, of every alarm system whose handlers cancel their own
\* periodic alarm before they make other calls.
THEOREM AlarmInvariant == ~LateCancel => (AlarmSpec => []AlarmInv)
<1> SUFFICES ASSUME ~LateCancel PROVE AlarmSpec => []AlarmInv
    OBVIOUS
<1>1. AlarmInit => AlarmInv
    BY InitOK
<1>2. AlarmInv /\ [AlarmNext]_alarmVars => AlarmInv'
    BY AlarmStep
<1> QED
    BY <1>1, <1>2, PTL DEF AlarmSpec

\* Whatever is set, fires and is cancelled, the queue is one chain of the alarms that
\* are set, and timer 1 interrupts in time for the first of them.
THEOREM QueueTimed == ~LateCancel => (AlarmSpec => []QueueIsTimed)
<1> SUFFICES ASSUME ~LateCancel PROVE AlarmSpec => []QueueIsTimed
    OBVIOUS
<1>1. AlarmInv => QueueIsTimed
    BY InvImplies
<1> QED
    BY <1>1, AlarmInvariant, PTL

\* A periodic alarm waits for its start plus a multiple of its period, however late
\* its handlers have run.
THEOREM PhaseKept == ~LateCancel => (AlarmSpec => []PeriodKept)
<1> SUFFICES ASSUME ~LateCancel PROVE AlarmSpec => []PeriodKept
    OBVIOUS
<1>1. AlarmInv => PeriodKept
    BY InvImplies
<1> QED
    BY <1>1, AlarmInvariant, PTL

\* The queue and the timer implement the alarms of AlarmClock.
THEOREM ImplementsClock == ~LateCancel => (AlarmSpec => RefinesClock)
<1> SUFFICES ASSUME ~LateCancel PROVE AlarmSpec => RefinesClock
    OBVIOUS
<1>1. AlarmInit => Clock!Init
    BY InitOK
<1>2. AlarmInv /\ [AlarmNext]_alarmVars => [Clock!Next]_Clock!clockVars
    BY AlarmStep
<1> QED
    BY <1>1, <1>2, AlarmInvariant, PTL DEF AlarmSpec, RefinesClock, Clock!Spec
=============================================================================
