------------------------- MODULE SNDCommand_proofs -------------------------
(***************************************************************************)
(* Proofs about the sound commands: for any commands, clients, words of    *)
(* the FIFO and tags, no command is lost or in two places, every list that *)
(* waits has its reply to come, nothing the ARM7 has yet to read is used   *)
(* again, a wait for a tag lasts until its commands are executed, and      *)
(* links, cache, FIFO and queues implement CommandPipe.                    *)
(*                                                                         *)
(* The commands stand in one line, which the proofs number: the free ones, *)
(* then the lists that wait, the oldest first, then the reserved ones.  A  *)
(* command is taken from the front of the line and pushed at its end, and  *)
(* the rest of the code moves the cuts between the lists.                  *)
(***************************************************************************)
EXTENDS SNDCommand, FiniteSetTheorems, SequenceTheorems, WellFoundedInduction, TLAPS

LEMMA Constants ==
    /\ NULL \notin Command /\ NULL \notin Client /\ Request \notin Command
    /\ BufSize \in Nat /\ BufSize > 0 /\ FifoSize \in Nat /\ FifoSize > 0
    /\ TagMod \in Nat /\ BufSize + 1 < TagMod \div 2
    BY CommandAssumption

LEMMA CommandsFinite == Command # {} /\ IsFiniteSet(Command) /\ Num \in Nat /\ Num > 0
<1>1. Command # {} /\ IsFiniteSet(Command)
    BY CommandAssumption
<1>2. Num \in Nat /\ Num # 0
    BY <1>1, FS_CardinalityType, FS_EmptySet DEF Num
<1> QED
    BY <1>1, <1>2

-----------------------------------------------------------------------------
(* Numbers.                                                                *)

\* A set of numbers has a least one.
LEMMA Least ==
    ASSUME NEW S, S \subseteq Nat, S # {}
    PROVE  \E m \in S : \A k \in S : m <= k
<1>1. PICK m \in S : \A k \in S : <<k, m>> \notin OpToRel(<, Nat)
    BY WFMin, NatLessThanWellFounded
<1>2. \A k \in S : ~(k < m)
    BY <1>1 DEF OpToRel
<1> QED
    BY <1>2

\* Induction up to n, for a set: it holds 0, and each number with the one before.
LEMMA Stepwise ==
    ASSUME NEW n \in Nat, NEW S, 0 \in S, \A i \in 1 .. n : i - 1 \in S => i \in S
    PROVE  \A i \in 0 .. n : i \in S
<1> SUFFICES ASSUME NEW i \in 0 .. n, i \notin S PROVE FALSE
    OBVIOUS
<1> DEFINE R == (0 .. n) \ S
<1>1. R \subseteq Nat /\ R # {}
    OBVIOUS
<1>2. PICK m \in R : \A k \in R : m <= k
    <2> HIDE DEF R
    <2> QED
        BY <1>1, Least
<1> QED
    BY <1>2

LEMMA CountTo ==
    ASSUME NEW n \in Nat
    PROVE  IsFiniteSet(1 .. n) /\ Cardinality(1 .. n) = n
<1>1. 1 \in Int /\ n \in Int
    OBVIOUS
<1>2. IsFiniteSet(1 .. n) /\ Cardinality(1 .. n) = IF 1 > n THEN 0 ELSE n - 1 + 1
    BY <1>1, FS_Interval, Zenon
<1> QED
    BY <1>2

LEMMA Divide ==
    ASSUME NEW m \in Nat, m > 0, NEW k \in Int
    PROVE  /\ k % m \in Int /\ k \div m \in Int /\ k = m * (k \div m) + (k % m)
           /\ 0 <= k % m /\ k % m < m
    OBVIOUS

LEMMA Remainder ==
    ASSUME NEW m \in Nat, m > 0, NEW q \in Int, NEW u \in 0 .. m - 1
    PROVE  (m * q + u) % m = u
<1> DEFINE k == m * q + u
<1>1. m * q \in Int
    OBVIOUS
<1>2. k \in Int
    BY <1>1
<1> HIDE DEF k
<1>3. k % m \in Int /\ k \div m \in Int /\ k = m * (k \div m) + (k % m) /\ 0 <= k % m /\ k % m < m
    BY <1>2, Divide
<1>4. m * ((k \div m) - q) = u - (k % m)
    <2>1. m * ((k \div m) - q) = m * (k \div m) - m * q
        BY <1>3
    <2>2. k = m * q + u
        BY DEF k
    <2>3. m * (k \div m) \in Int
        BY <1>3
    <2> QED
        BY <1>1, <1>3, <2>1, <2>2, <2>3
<1>5. (k \div m) - q = 0
    <2> DEFINE z == (k \div m) - q
    <2>1. z \in Int /\ m * z < m /\ m * z > -m
        BY <1>3, <1>4
    <2> HIDE DEF z
    <2>2. CASE z >= 1
        <3>1. m * z >= m * 1
            BY <2>1, <2>2
        <3> QED
            BY <2>1, <3>1
    <2>3. CASE z <= -1
        <3>1. m * z <= m * (-1)
            BY <2>1, <2>3
        <3> QED
            BY <2>1, <3>1
    <2> QED
        BY <2>1, <2>2, <2>3 DEF z
<1>6. k % m = u
    BY <1>3, <1>4, <1>5
<1> QED
    BY <1>6 DEF k

\* A remainder d further.
LEMMA Further ==
    ASSUME NEW m \in Nat, m > 0, NEW k \in Int, NEW d \in 0 .. m - 1
    PROVE  (k + d) % m = IF (k % m) + d < m THEN (k % m) + d ELSE (k % m) + d - m
<1>1. k % m \in Int /\ k \div m \in Int /\ k = m * (k \div m) + (k % m) /\ 0 <= k % m /\ k % m < m
    BY Divide
<1> DEFINE q == k \div m
           u == k % m
<1>2. q \in Int /\ u \in Int /\ k = m * q + u /\ 0 <= u /\ u < m
    BY <1>1
<1> HIDE DEF q, u
<1>3. CASE u + d < m
    <2>1. u + d \in 0 .. m - 1
        BY <1>2, <1>3
    <2>2. (m * q + (u + d)) % m = u + d
        BY <1>2, <2>1, Remainder
    <2>3. k + d = m * q + (u + d)
        <3>1. m * q \in Int
            BY <1>2
        <3> QED
            BY <1>2, <3>1
    <2> QED
        BY <1>3, <2>2, <2>3 DEF u
<1>4. CASE u + d >= m
    <2>1. u + d - m \in 0 .. m - 1
        BY <1>2, <1>4
    <2>2. (m * (q + 1) + (u + d - m)) % m = u + d - m
        <3>1. q + 1 \in Int
            BY <1>2
        <3> QED
            BY <2>1, <3>1, Remainder
    <2>3. k + d = m * (q + 1) + (u + d - m)
        <3>1. m * q \in Int /\ m * (q + 1) = m * q + m
            BY <1>2
        <3> QED
            BY <1>2, <3>1
    <2> QED
        BY <1>2, <1>4, <2>2, <2>3 DEF u
<1> QED
    BY <1>2, <1>3, <1>4

-----------------------------------------------------------------------------
(* The line of commands, and the chains of links that are parts of it.     *)
Window(T, m, n) == [i \in 1 .. n - m |-> T[m + i]]
Foremost(T, m, n) == IF m = n THEN NULL ELSE T[m + 1]
Rearmost(T, m, n) == IF m = n THEN NULL ELSE T[n]
OnceIn(T, m, n) == \A i, j \in m + 1 .. n : T[i] = T[j] => i = j

LEMMA WindowIs ==
    ASSUME NEW T \in [Nat -> Command], NEW m \in Nat, NEW n \in Nat, m <= n
    PROVE  /\ Window(T, m, n) \in Seq(Command) /\ Len(Window(T, m, n)) = n - m
           /\ \A i \in 1 .. n - m : Window(T, m, n)[i] = T[m + i]
<1>1. n - m \in Nat /\ \A i \in 1 .. n - m : T[m + i] \in Command
    OBVIOUS
<1>2. Window(T, m, n) \in [1 .. n - m -> Command]
    BY <1>1 DEF Window
<1> QED
    BY <1>1, <1>2 DEF Window

LEMMA SameSequence ==
    ASSUME NEW S, NEW s \in Seq(S), NEW t \in Seq(S), Len(s) = Len(t),
           \A i \in 1 .. Len(s) : s[i] = t[i]
    PROVE  s = t
    OBVIOUS

LEMMA WindowJoin ==
    ASSUME NEW T \in [Nat -> Command], NEW m \in Nat, NEW k \in Nat, NEW n \in Nat, m <= k, k <= n
    PROVE  Window(T, m, k) \o Window(T, k, n) = Window(T, m, n)
<1> DEFINE s == Window(T, m, k)
           t == Window(T, k, n)
           u == Window(T, m, n)
<1> HIDE DEF s, t, u
<1>a. s \in Seq(Command) /\ Len(s) = k - m /\ \A i \in 1 .. k - m : s[i] = T[m + i]
    BY WindowIs DEF s
<1>b. t \in Seq(Command) /\ Len(t) = n - k /\ \A i \in 1 .. n - k : t[i] = T[k + i]
    BY WindowIs DEF t
<1>c. u \in Seq(Command) /\ Len(u) = n - m /\ \A i \in 1 .. n - m : u[i] = T[m + i]
    <2>1. m <= n
        OBVIOUS
    <2> QED
        BY <2>1, WindowIs DEF u
<1>1. k - m \in Nat /\ n - k \in Nat /\ (k - m) + (n - k) = n - m
    OBVIOUS
<1>2. s \o t \in Seq(Command) /\ Len(s \o t) = n - m
    <2>1. s \o t \in Seq(Command) /\ Len(s \o t) = Len(s) + Len(t)
        BY <1>a, <1>b, ConcatProperties
    <2> QED
        BY <1>a, <1>b, <1>1, <2>1
<1>3. ASSUME NEW i \in 1 .. n - m PROVE (s \o t)[i] = u[i]
    <2>1. CASE i <= k - m
        <3>1. i \in 1 .. k - m
            BY <1>1, <2>1
        <3>2. (s \o t)[i] = s[i]
            BY <1>a, <1>b, <3>1
        <3> QED
            BY <1>a, <1>c, <3>1, <3>2
    <2>2. CASE i > k - m
        <3>1. i - (k - m) \in 1 .. n - k /\ k + (i - (k - m)) = m + i
            BY <1>1, <2>2
        <3>2. (s \o t)[i] = t[i - (k - m)]
            BY <1>a, <1>b, <1>1, <2>2
        <3>3. t[i - (k - m)] = T[m + i]
            BY <1>b, <3>1
        <3> QED
            BY <1>c, <3>2, <3>3
    <2>3. i <= k - m \/ i > k - m
        BY <1>1
    <2> QED
        BY <2>1, <2>2, <2>3
<1>4. s \o t = u
    <2>1. u \in Seq(Command) /\ Len(s \o t) = Len(u)
        BY <1>c, <1>2
    <2>2. \A i \in 1 .. Len(s \o t) : (s \o t)[i] = u[i]
        BY <1>2, <1>3
    <2> QED
        BY <1>2, <2>1, <2>2, SameSequence
<1> QED
    BY <1>4 DEF s, t, u

LEMMA WindowEmpty ==
    ASSUME NEW T \in [Nat -> Command], NEW m \in Nat
    PROVE  Window(T, m, m) = << >>
<1>1. Window(T, m, m) \in Seq(Command) /\ Len(Window(T, m, m)) = 0
    BY WindowIs
<1> QED
    BY <1>1

LEMMA WindowOne ==
    ASSUME NEW T \in [Nat -> Command], NEW m \in Nat
    PROVE  Window(T, m, m + 1) = <<T[m + 1]>>
<1>1. /\ Window(T, m, m + 1) \in Seq(Command) /\ Len(Window(T, m, m + 1)) = 1
      /\ Window(T, m, m + 1)[1] = T[m + 1]
    <2>1. m + 1 \in Nat /\ m <= m + 1 /\ (m + 1) - m = 1 /\ 1 \in 1 .. 1
        OBVIOUS
    <2> QED
        BY ZenonT(40), <2>1, WindowIs
<1> QED
    BY <1>1

\* The first of a part of the line.
LEMMA WindowHead ==
    ASSUME NEW T \in [Nat -> Command], NEW m \in Nat, NEW n \in Nat, m < n
    PROVE  /\ Window(T, m, n) = <<T[m + 1]>> \o Window(T, m + 1, n)
           /\ Window(T, m, n) # << >> /\ Tail(Window(T, m, n)) = Window(T, m + 1, n)
           /\ T[m + 1] \in Command
<1>0. m + 1 \in Nat /\ m <= m + 1 /\ m + 1 <= n
    OBVIOUS
<1>1. Window(T, m, n) = Window(T, m, m + 1) \o Window(T, m + 1, n)
    BY <1>0, WindowJoin
<1>2. Window(T, m, n) = <<T[m + 1]>> \o Window(T, m + 1, n) /\ T[m + 1] \in Command
    BY <1>0, <1>1, WindowOne
<1>3. Window(T, m + 1, n) \in Seq(Command)
    BY <1>0, WindowIs
<1> QED
    BY <1>2, <1>3

\* One more command at the end of the line.
LEMMA WindowMore ==
    ASSUME NEW T \in [Nat -> Command], NEW n \in Nat, NEW c \in Command,
           NEW U, U = [T EXCEPT ![n + 1] = c]
    PROVE  /\ U \in [Nat -> Command]
           /\ \A m \in Nat : m <= n => Window(U, m, n + 1) = Append(Window(T, m, n), c)
           /\ \A k, m \in Nat : m <= k /\ k <= n => Window(U, m, k) = Window(T, m, k)
           /\ U[n + 1] = c /\ \A i \in Nat : i # n + 1 => U[i] = T[i]
<1>1. U \in [Nat -> Command] /\ U[n + 1] = c /\ \A i \in Nat : i # n + 1 => U[i] = T[i]
    OBVIOUS
<1>2. ASSUME NEW k \in Nat, NEW m \in Nat, m <= k, k <= n PROVE Window(U, m, k) = Window(T, m, k)
    <2>1. \A i \in 1 .. k - m : m + i \in Nat /\ m + i # n + 1
        BY <1>2
    <2> QED
        BY <1>1, <2>1 DEF Window
<1>3. ASSUME NEW m \in Nat, m <= n PROVE Window(U, m, n + 1) = Append(Window(T, m, n), c)
    <2>1. Window(U, m, n + 1) = Window(U, m, n) \o Window(U, n, n + 1)
        <3>1. n + 1 \in Nat /\ n <= n + 1
            OBVIOUS
        <3> QED
            BY ZenonT(40), <1>1, <1>3, <3>1, WindowJoin
    <2>2. Window(U, n, n + 1) = <<c>>
        BY <1>1, WindowOne
    <2>3. Window(U, m, n) = Window(T, m, n)
        <3>1. n <= n
            OBVIOUS
        <3> QED
            BY <1>2, <1>3, <3>1
    <2>4. Window(T, m, n) \in Seq(Command)
        BY <1>3, WindowIs
    <2> QED
        BY <2>1, <2>2, <2>3, <2>4, AppendIsConcat
<1> QED
    BY <1>1, <1>2, <1>3

\* No part of the line is longer than there are commands.
LEMMA WindowBounded ==
    ASSUME NEW T \in [Nat -> Command], NEW m \in Nat, NEW n \in Nat, m <= n, OnceIn(T, m, n)
    PROVE  n - m <= Num
<1> DEFINE s == Window(T, m, n)
<1>1. s \in Seq(Command) /\ Len(s) = n - m /\ \A i \in 1 .. n - m : s[i] = T[m + i]
    BY WindowIs
<1> HIDE DEF s
<1>2. n - m \in Nat
    OBVIOUS
<1>3. IsFiniteSet(1 .. n - m) /\ Cardinality(1 .. n - m) = n - m
    BY <1>2, CountTo
<1>4. s \in Injection(1 .. n - m, Command)
    <2>1. s \in [1 .. n - m -> Command]
        BY <1>1
    <2>2. ASSUME NEW i \in 1 .. n - m, NEW j \in 1 .. n - m, s[i] = s[j] PROVE i = j
        <3>1. m + i \in m + 1 .. n /\ m + j \in m + 1 .. n /\ T[m + i] = T[m + j]
            BY <1>1, <2>2
        <3>2. m + i = m + j
            BY <3>1 DEF OnceIn
        <3> QED
            BY <3>2
    <2> QED
        BY <2>1, <2>2 DEF Injection, IsInjective
<1>5. Cardinality(1 .. n - m) <= Cardinality(Command)
    BY <1>4, CommandsFinite, FS_Injection
<1> QED
    BY <1>3, <1>5 DEF Num

\* The commands from c on, in n steps, as the recursive definition of Chain has them.
From(link, g, n) ==
    [c \in Link |-> IF c = NULL \/ n = 0 THEN << >> ELSE <<c>> \o g[n - 1][link[c]]]

LEMMA ChainIsDefined ==
    ASSUME NEW link \in [Command -> Link]
    PROVE  \E g : /\ \A n \in 0 .. Num + 1 : g[n] = From(link, g, n)
                  /\ \A first : Chain(link, first) = g[Num + 1][first]
<1> DEFINE K == Num + 1
           S == {n \in 0 .. K : \E g : g = [i \in 0 .. n |-> From(link, g, i)]}
           f == CHOOSE g : g = [n \in 0 .. K |-> From(link, g, n)]
<1>0. K \in Nat
    BY CommandsFinite
<1>a. ASSUME NEW g, NEW h, NEW n, n = 0 \/ g[n - 1] = h[n - 1]
      PROVE  From(link, g, n) = From(link, h, n)
    <2>1. CASE n = 0
        <3>1. \A c \in Link : (IF c = NULL \/ n = 0 THEN << >> ELSE <<c>> \o g[n - 1][link[c]])
                            = (IF c = NULL \/ n = 0 THEN << >> ELSE <<c>> \o h[n - 1][link[c]])
            BY <2>1
        <3> QED
            BY <3>1 DEF From
    <2>2. CASE g[n - 1] = h[n - 1]
        BY <2>2 DEF From
    <2> QED
        BY <1>a, <2>1, <2>2
<1>1. 0 \in S
    <2> DEFINE g == [i \in 0 .. 0 |-> [c \in Link |-> << >>]]
    <2>1. g = [i \in 0 .. 0 |-> From(link, g, i)]
        BY DEF From
    <2> QED
        BY <1>0, <2>1
<1>2. ASSUME NEW n \in 1 .. K, n - 1 \in S PROVE n \in S
    <2>1. PICK g : g = [i \in 0 .. n - 1 |-> From(link, g, i)]
        BY <1>2
    <2> DEFINE h == [i \in 0 .. n |-> IF i = n THEN From(link, g, n) ELSE g[i]]
    <2>2. ASSUME NEW i \in 0 .. n PROVE h[i] = From(link, h, i)
        <3>1. i = 0 \/ h[i - 1] = g[i - 1]
            <4>1. i # 0 => i - 1 \in 0 .. n /\ i - 1 # n
                OBVIOUS
            <4> QED
                BY <4>1
        <3>2. From(link, g, i) = From(link, h, i)
            <4> HIDE DEF h
            <4> QED
                BY <1>a, <3>1
        <3>3. CASE i = n
            <4>1. h[i] = From(link, g, n)
                BY <3>3
            <4> HIDE DEF h
            <4> QED
                BY <3>2, <3>3, <4>1
        <3>4. CASE i # n
            <4>1. g[i] = From(link, g, i)
                <5> HIDE DEF h
                <5> QED
                    BY SMTT(30), <2>1, <3>4
            <4>2. h[i] = g[i]
                BY <3>4
            <4> HIDE DEF h
            <4> QED
                BY <3>2, <4>1, <4>2
        <3> QED
            BY <3>3, <3>4
    <2>3. h = [i \in 0 .. n |-> h[i]]
        OBVIOUS
    <2>4. h = [i \in 0 .. n |-> From(link, h, i)]
        <3> HIDE DEF h
        <3> QED
            BY <2>2, <2>3
    <2> HIDE DEF h
    <2> QED
        BY <2>4
<1>3. K \in S
    <2>1. \A i \in 1 .. K : i - 1 \in S => i \in S
        BY <1>2
    <2> HIDE DEF S, K
    <2>2. \A i \in 0 .. K : i \in S
        BY <1>0, <1>1, <2>1, Stepwise
    <2> QED
        BY <1>0, <2>2
<1>4. f = [n \in 0 .. K |-> From(link, f, n)]
    <2> HIDE DEF K
    <2> QED
        BY <1>3
<1>5. \A first : Chain(link, first) = f[Num + 1][first]
    BY DEF Chain, From
<1>6. \A n \in 0 .. K : f[n] = From(link, f, n)
    <2> HIDE DEF f, K
    <2> QED
        BY <1>4
<1> HIDE DEF f
<1> QED
    BY <1>5, <1>6

\* A part of the line is linked.
IsChain(link, T, m, n) == \A i \in m + 1 .. n : link[T[i]] = IF i = n THEN NULL ELSE T[i + 1]

LEMMA ChainIs ==
    ASSUME NEW link \in [Command -> Link], NEW T \in [Nat -> Command],
           NEW m \in Nat, NEW n \in Nat, m <= n, OnceIn(T, m, n), IsChain(link, T, m, n)
    PROVE  Chain(link, Foremost(T, m, n)) = Window(T, m, n)
<1>1. PICK g : /\ \A k \in 0 .. Num + 1 : g[k] = From(link, g, k)
               /\ \A first : Chain(link, first) = g[Num + 1][first]
    BY ChainIsDefined
<1>0. ASSUME NEW j \in 1 .. Num + 1, NEW c \in Link
      PROVE  g[j][c] = IF c = NULL THEN << >> ELSE <<c>> \o g[j - 1][link[c]]
    <2>1. j \in 0 .. Num + 1 /\ j # 0
        BY CommandsFinite
    <2>2. g[j] = From(link, g, j)
        BY <1>1, <2>1
    <2> QED
        BY <2>1, <2>2 DEF From
<1> DEFINE S == {k \in 0 .. n - m :
                   \A j \in k + 1 .. Num + 1 : g[j][Foremost(T, n - k, n)] = Window(T, n - k, n)}
<1>2. Num \in Nat /\ n - m \in Nat /\ n - m <= Num
    BY CommandsFinite, WindowBounded
<1>3. 0 \in S
    <2>1. Foremost(T, n - 0, n) = NULL /\ n - 0 = n /\ NULL \in Link
        BY DEF Foremost, Link
    <2>2. ASSUME NEW j \in 0 + 1 .. Num + 1 PROVE g[j][NULL] = << >>
        <3>1. j \in 1 .. Num + 1
            BY <1>2
        <3> QED
            BY <1>0, <2>1, <3>1
    <2> QED
        BY <1>2, <2>1, <2>2, WindowEmpty
<1>4. ASSUME NEW k \in 1 .. n - m, k - 1 \in S PROVE k \in S
    <2> DEFINE p == n - k
    <2>1. p \in Nat /\ p < n /\ p >= m /\ k \in 0 .. n - m /\ n - (k - 1) = p + 1 /\ p + 1 \in m + 1 .. n
        BY <1>2, <1>4
    <2>2. \A j \in k .. Num + 1 : g[j][Foremost(T, p + 1, n)] = Window(T, p + 1, n)
        <3>1. (k - 1) + 1 = k
            BY <1>2
        <3> QED
            BY <1>4, <2>1, <3>1
    <2> HIDE DEF p
    <2>3. Foremost(T, p, n) = T[p + 1] /\ T[p + 1] \in Command /\ T[p + 1] # NULL
        BY <2>1, Constants DEF Foremost
    <2>4. link[T[p + 1]] = Foremost(T, p + 1, n)
        <3>1. link[T[p + 1]] = IF p + 1 = n THEN NULL ELSE T[(p + 1) + 1]
            BY <2>1 DEF IsChain
        <3> QED
            BY <3>1 DEF Foremost
    <2>5. Window(T, p, n) = <<T[p + 1]>> \o Window(T, p + 1, n)
        BY <2>1, WindowHead
    <2>6. ASSUME NEW j \in k + 1 .. Num + 1 PROVE g[j][Foremost(T, p, n)] = Window(T, p, n)
        <3>1. j \in 1 .. Num + 1 /\ j - 1 \in k .. Num + 1
            BY <1>2
        <3>2. T[p + 1] \in Link
            BY <2>3 DEF Link
        <3>3. g[j][T[p + 1]] = <<T[p + 1]>> \o g[j - 1][link[T[p + 1]]]
            BY <1>0, <2>3, <3>1, <3>2
        <3>4. g[j - 1][Foremost(T, p + 1, n)] = Window(T, p + 1, n)
            BY <2>2, <3>1
        <3> QED
            BY <2>3, <2>4, <2>5, <3>3, <3>4
    <2> QED
        BY <2>1, <2>6 DEF p
<1>6. n - m \in S
    <2> HIDE DEF S
    <2>1. \A k \in 1 .. n - m : k - 1 \in S => k \in S
        BY <1>4
    <2>2. \A k \in 0 .. n - m : k \in S
        BY <1>2, <1>3, <2>1, Stepwise
    <2> QED
        BY <1>2, <2>2
<1>7. n - (n - m) = m /\ Num + 1 \in (n - m) + 1 .. Num + 1
    BY <1>2
<1> QED
    BY <1>1, <1>6, <1>7

\* The parts of one sequence, as the recursive definition of FlattenSeq has them.
Joined(q, g, n) == IF n = 1 THEN q[n] ELSE g[n - 1] \o q[n]

LEMMA FlattenIsDefined ==
    ASSUME NEW q, NEW K \in Nat, K > 0, Len(q) = K
    PROVE  \E g : /\ \A n \in 1 .. K : g[n] = Joined(q, g, n)
                  /\ FlattenSeq(q) = g[K]
<1> DEFINE Is(g, n) == g = [i \in 1 .. n |-> Joined(q, g, i)]
           S == {n \in 0 .. K : \E g : Is(g, n)}
           f == CHOOSE g : g = [n \in 1 .. K |-> Joined(q, g, n)]
<1>1. 0 \in S
    <2> DEFINE g == [i \in 1 .. 0 |-> << >>]
    <2>1. Is(g, 0)
        OBVIOUS
    <2> HIDE DEF g, Is
    <2> QED
        BY <2>1
<1>2. ASSUME NEW n \in 1 .. K, n - 1 \in S PROVE n \in S
    <2>1. PICK g : g = [i \in 1 .. n - 1 |-> Joined(q, g, i)]
        BY <1>2
    <2> DEFINE h == [i \in 1 .. n |-> IF i = n THEN Joined(q, g, n) ELSE g[i]]
    <2>2. ASSUME NEW i \in 1 .. n PROVE h[i] = Joined(q, h, i)
        <3>1. i = 1 \/ h[i - 1] = g[i - 1]
            <4>1. i # 1 => i - 1 \in 1 .. n /\ i - 1 # n
                OBVIOUS
            <4> QED
                BY <4>1
        <3>2. Joined(q, g, i) = Joined(q, h, i)
            <4> HIDE DEF h
            <4> QED
                BY <3>1 DEF Joined
        <3>3. CASE i = n
            <4>1. h[i] = Joined(q, g, n)
                BY <3>3
            <4> HIDE DEF h
            <4> QED
                BY <3>2, <3>3, <4>1
        <3>4. CASE i # n
            <4>1. g[i] = Joined(q, g, i)
                <5> HIDE DEF h
                <5> QED
                    BY SMTT(30), <2>1, <3>4
            <4>2. h[i] = g[i]
                BY <3>4
            <4> HIDE DEF h
            <4> QED
                BY <3>2, <4>1, <4>2
        <3> QED
            BY <3>3, <3>4
    <2>3. h = [i \in 1 .. n |-> h[i]]
        OBVIOUS
    <2>4. Is(h, n)
        <3> HIDE DEF h
        <3> QED
            BY <2>2, <2>3
    <2> HIDE DEF h, Is
    <2> QED
        BY <2>4
<1>3. K \in S
    <2>1. \A i \in 1 .. K : i - 1 \in S => i \in S
        BY <1>2
    <2> HIDE DEF S
    <2>2. \A i \in 0 .. K : i \in S
        BY <1>1, <2>1, Stepwise
    <2> QED
        BY <2>2
<1>4. f = [n \in 1 .. K |-> Joined(q, f, n)]
    <2>1. PICK g : Is(g, K)
        <3> HIDE DEF Is
        <3> QED
            BY <1>3
    <2> QED
        BY <2>1
<1>5. FlattenSeq(q) = f[K]
    BY DEF FlattenSeq, Joined
<1>6. \A n \in 1 .. K : f[n] = Joined(q, f, n)
    <2> HIDE DEF f
    <2> QED
        BY <1>4
<1> HIDE DEF f
<1> QED
    BY <1>5, <1>6

\* Parts of the line that meet, one after the other, are a part of the line.
LEMMA FlattenIs ==
    ASSUME NEW T \in [Nat -> Command], NEW K \in Nat, NEW p \in [Nat -> Nat],
           \A i \in 1 .. K : p[i - 1] <= p[i],
           NEW q, q = [i \in 1 .. K |-> Window(T, p[i - 1], p[i])]
    PROVE  p[0] <= p[K] /\ FlattenSeq(q) = Window(T, p[0], p[K])
<1>1. Len(q) = K /\ \A i \in 1 .. K : q[i] = Window(T, p[i - 1], p[i])
    OBVIOUS
<1>2. CASE K = 0
    <2>1. q = << >> /\ p[0] \in Nat
        BY <1>2
    <2> QED
        BY <1>1, <1>2, <2>1, WindowEmpty DEF FlattenSeq
<1>3. CASE K > 0
    <2>1. PICK g : /\ \A n \in 1 .. K : g[n] = Joined(q, g, n)
                   /\ FlattenSeq(q) = g[K]
        BY <1>1, <1>3, FlattenIsDefined
    <2> DEFINE S == {n \in 0 .. K : p[0] <= p[n] /\ (n = 0 \/ g[n] = Window(T, p[0], p[n]))}
    <2>2. 0 \in S
        OBVIOUS
    <2>3. ASSUME NEW n \in 1 .. K, n - 1 \in S PROVE n \in S
        <3>0. n \in 0 .. K /\ n - 1 \in Nat /\ n \in Nat
            OBVIOUS
        <3>1. p[0] \in Nat /\ p[n - 1] \in Nat /\ p[n] \in Nat /\ p[0] <= p[n - 1] /\ p[n - 1] <= p[n]
            BY <2>3, <3>0
        <3>2. g[n] = Joined(q, g, n) /\ q[n] = Window(T, p[n - 1], p[n])
            BY <1>1, <2>1
        <3>3. CASE n = 1
            BY <3>0, <3>1, <3>2, <3>3 DEF Joined
        <3>4. CASE n # 1
            <4>1. g[n - 1] = Window(T, p[0], p[n - 1])
                BY <2>3, <3>0, <3>4
            <4>2. g[n] = Window(T, p[0], p[n - 1]) \o Window(T, p[n - 1], p[n])
                BY <3>2, <3>4, <4>1 DEF Joined
            <4>3. g[n] = Window(T, p[0], p[n])
                BY <3>1, <4>2, WindowJoin
            <4> QED
                BY <3>0, <3>1, <4>3
        <3> QED
            BY <3>3, <3>4
    <2>4. K \in S
        <3> HIDE DEF S
        <3>1. \A i \in 1 .. K : i - 1 \in S => i \in S
            BY <2>3
        <3>2. \A i \in 0 .. K : i \in S
            BY <2>2, <3>1, Stepwise
        <3> QED
            BY <3>2
    <2> QED
        BY SMTT(30), <1>3, <2>1, <2>4
<1> QED
    BY <1>2, <1>3

SameOn(T, U, m, n) == \A i \in m + 1 .. n : T[i] = U[i]

LEMMA WindowSame ==
    ASSUME NEW T \in [Nat -> Command], NEW U \in [Nat -> Command], NEW m \in Nat, NEW n \in Nat,
           m <= n, SameOn(T, U, m, n)
    PROVE  Window(T, m, n) = Window(U, m, n)
<1>1. \A i \in 1 .. n - m : m + i \in m + 1 .. n
    OBVIOUS
<1> QED
    BY <1>1 DEF Window, SameOn

\* The members and the last of a part of the line.
LEMMA WindowMembers ==
    ASSUME NEW T \in [Nat -> Command], NEW m \in Nat, NEW n \in Nat, m <= n
    PROVE  /\ ToSet(Window(T, m, n)) = {T[i] : i \in m + 1 .. n}
           /\ m < n => Last(Window(T, m, n)) = T[n]
           /\ m < n => Window(T, m, n) # << >>
<1> DEFINE w == Window(T, m, n)
<1>1. w \in Seq(Command) /\ Len(w) = n - m /\ \A i \in 1 .. n - m : w[i] = T[m + i]
    BY WindowIs
<1> HIDE DEF w
<1>2. DOMAIN w = 1 .. n - m
    BY <1>1
<1>3. ASSUME NEW c \in ToSet(w) PROVE c \in {T[i] : i \in m + 1 .. n}
    <2>1. PICK i \in 1 .. n - m : c = w[i]
        BY <1>2 DEF ToSet
    <2>2. m + i \in m + 1 .. n /\ c = T[m + i]
        BY <1>1, <2>1
    <2> QED
        BY <2>2
<1>4. ASSUME NEW i \in m + 1 .. n PROVE T[i] \in ToSet(w)
    <2>1. i - m \in 1 .. n - m /\ m + (i - m) = i
        OBVIOUS
    <2>2. w[i - m] = T[i]
        BY <1>1, <2>1
    <2> QED
        BY <1>2, <2>1, <2>2 DEF ToSet
<1>5. ASSUME m < n PROVE Last(w) = T[n] /\ w # << >>
    <2>1. n - m \in 1 .. n - m /\ m + (n - m) = n
        BY <1>5
    <2> QED
        BY <1>1, <2>1 DEF Last
<1> QED
    BY <1>3, <1>4, <1>5 DEF w

LEMMA NextRemainder ==
    ASSUME NEW m \in Nat, m > 1, NEW k \in Nat
    PROVE  /\ ((k % m) + 1) % m = (k + 1) % m
           /\ (k + 1) % m = IF (k % m) + 1 > m - 1 THEN 0 ELSE (k % m) + 1
           /\ k % m \in 0 .. m - 1
<1> DEFINE u == k % m
<1>1. u \in Int /\ 0 <= u /\ u < m
    BY Divide
<1>2. (k + 1) % m = IF u + 1 < m THEN u + 1 ELSE u + 1 - m
    <2>1. 1 \in 0 .. m - 1
        OBVIOUS
    <2> QED
        BY <2>1, Further
<1>3. (u + 1) % m = IF u + 1 < m THEN u + 1 ELSE u + 1 - m
    <2>1. u % m = u
        <3> HIDE DEF u
        <3>1. u \in 0 .. m - 1 /\ m * 0 + u = u
            BY <1>1
        <3>2. (m * 0 + u) % m = u
            BY <3>1, Remainder
        <3> QED
            BY <3>1, <3>2
    <2> HIDE DEF u
    <2>2. 1 \in 0 .. m - 1
        OBVIOUS
    <2> QED
        BY <1>1, <2>1, <2>2, Further
<1> HIDE DEF u
<1>4. /\ (u + 1) % m = (k + 1) % m
      /\ (k + 1) % m = IF u + 1 > m - 1 THEN 0 ELSE u + 1
      /\ u \in 0 .. m - 1
    BY <1>1, <1>2, <1>3
<1> QED
    BY <1>4 DEF u

\* Numbers less than m apart differ when divided by m.
LEMMA SameRemainder ==
    ASSUME NEW m \in Nat, m > 0, NEW k \in Nat, NEW n \in Nat, k <= n, n - k < m, k % m = n % m
    PROVE  k = n
<1>1. PICK d \in 0 .. m - 1 : d = n - k
    OBVIOUS
<1>2. (k + d) % m = IF (k % m) + d < m THEN (k % m) + d ELSE (k % m) + d - m
    <2>1. k \in Int
        OBVIOUS
    <2> QED
        BY <2>1, Further
<1>3. k % m \in Int /\ k + d = n
    BY <1>1, Divide
<1> QED
    BY <1>1, <1>2, <1>3

\* A tag that is yet to come is not finished.
LEMMA NotFinished ==
    ASSUME NEW r \in Nat, NEW d \in Nat, 1 <= d, d <= BufSize + 1, finishedTag = r % TagMod
    PROVE  ~IsFinished((r + d) % TagMod)
<1>1. TagMod \in Nat /\ TagMod > 0 /\ BufSize \in Nat /\ BufSize + 1 < TagMod \div 2
    BY Constants
<1> DEFINE h == TagMod \div 2
           u == r % TagMod
<1>2. h \in Int /\ 2 * h <= TagMod /\ BufSize + 1 < h
    BY <1>1
<1>3. u \in Int /\ 0 <= u /\ u < TagMod
    BY <1>1, Divide
<1>4. (r + d) % TagMod = IF u + d < TagMod THEN u + d ELSE u + d - TagMod
    <2>1. d \in 0 .. TagMod - 1 /\ r \in Int
        BY <1>1, <1>2
    <2> HIDE DEF h
    <2> QED
        BY <1>1, <2>1, Further
<1> HIDE DEF h, u
<1>5. ~(IF (IF u + d < TagMod THEN u + d ELSE u + d - TagMod) > u
        THEN (IF u + d < TagMod THEN u + d ELSE u + d - TagMod) - u >= h
        ELSE u - (IF u + d < TagMod THEN u + d ELSE u + d - TagMod) < h)
    BY <1>1, <1>2, <1>3
<1> QED
    BY <1>4, <1>5 DEF IsFinished, h, u

-----------------------------------------------------------------------------
(* The invariant.  T is the line: T[i] is the i-th command that was ever   *)
(* pushed, where the first ones stand for those that were free at the      *)
(* start.  Of it lo .. hi is left: the first lo were taken by clients.     *)
(* Lists are numbered as they are sent: r have come back and s were sent.  *)
(* The list n ends at b[n], and H[n] is its first command.  The ARM7 has   *)
(* finished f lists and executed the first e commands of the line.  Words  *)
(* 1 .. j of the FIFO bring the lists up to place[j].                      *)

\* Every command is in the line once, or in the hands of one client.
Parted(T, lo, hi) ==
    /\ lo <= hi
    /\ OnceIn(T, lo, hi)
    /\ \A t \in Client : \A i \in lo + 1 .. hi : own[t] # T[i]
    /\ \A t, u \in Client : own[t] = own[u] /\ own[t] # NULL => t = u
    /\ \A c \in Command : (\E i \in lo + 1 .. hi : T[i] = c) \/ (\E t \in Client : own[t] = c)

Cuts(b, lo, hi, r, s) ==
    /\ r <= s /\ lo <= b[r] /\ b[s] <= hi
    /\ \A m, n \in r .. s : m < n => b[m] < b[n]

IsCut(b, r, s, i) == \E n \in r .. s : b[n] = i

\* The links of the ARM9 are those of the line, but for the cuts.
Linked(T, b, lo, hi, r, s) ==
    \A i \in lo + 1 .. hi :
        next[T[i]] = IF i = hi \/ IsCut(b, r, s, i) THEN NULL ELSE T[i + 1]

Ends(T, b, lo, hi, r, s) ==
    /\ free = [head |-> Foremost(T, lo, b[r]), end |-> Rearmost(T, lo, b[r])]
    /\ reserve = [head |-> Foremost(T, b[s], hi), end |-> Rearmost(T, b[s], hi)]

\* The lists that were sent and are not back are in memory as the ARM9 has them.
Written(T, b, r, s) == \A i \in b[r] + 1 .. b[s] : mem[T[i]] = next[T[i]]

Heads(T, b, H, r, s) == \A n \in r + 1 .. s : H[n] = T[b[n - 1] + 1]

Ringed(H, r, s) ==
    /\ ring.read = r % (BufSize + 1) /\ ring.write = s % (BufSize + 1)
    /\ waitingCount = s - r /\ s - r <= BufSize
    /\ \A n \in r + 1 .. s : ring.slot[(n - 1) % (BufSize + 1)] = H[n]

Counted(r, s, f) ==
    /\ finishedTag = r % TagMod /\ currentTag = (s + 1) % TagMod
    /\ finishCommandTag = f % TagMod
    /\ r <= f /\ f <= s

\* Where the ARM7 is in the list after the finished ones.
Executing(T, b, s, e, f) ==
    IF inList THEN /\ f < s /\ b[f] <= e /\ e <= b[f + 1]
                   /\ command_p = Foremost(T, e, b[f + 1])
    ELSE e = b[f] /\ command_p = NULL

Begun(f) == IF inList THEN f + 1 ELSE f

\* The other lists wait in the ARM7's queue, and the latest ones are in the FIFO.
Travelling(H, s, f, place) ==
    /\ Begun(f) <= place[0] /\ place[Len(fifo)] = s
    /\ mesgQueue = Window(H, Begun(f), place[0])
    /\ \A j \in 0 .. Len(fifo) : place[j] <= s
    /\ \A j \in 1 .. Len(fifo) :
          \/ fifo[j] = Request /\ place[j] = place[j - 1]
          \/ fifo[j] = H[place[j]] /\ place[j] = place[j - 1] + 1

\* What a tag stands for is at the ARM7, or reserved, up to the end of the tag's list.
Owing(T, b, hi, s, e, f) ==
    \A t \in Client : due[t] # {} =>
        \E n \in f + 1 .. s + 1 :
            /\ tag[t] = n % TagMod
            /\ \A c \in due[t] : \E i \in e + 1 .. (IF n <= s THEN b[n] ELSE hi) : T[i] = c

Numbered(T, b, H, place, lo, hi, r, s, e, f) ==
    /\ T \in [Nat -> Command] /\ H \in [Nat -> Command]
    /\ b \in [Nat -> Nat] /\ place \in [Nat -> Nat]
    /\ lo \in Nat /\ hi \in Nat /\ r \in Nat /\ s \in Nat /\ e \in Nat /\ f \in Nat

Stand(T, b, H, place, lo, hi, r, s, e, f) ==
    /\ Numbered(T, b, H, place, lo, hi, r, s, e, f)
    /\ Parted(T, lo, hi)
    /\ Cuts(b, lo, hi, r, s)
    /\ Linked(T, b, lo, hi, r, s)
    /\ Ends(T, b, lo, hi, r, s)
    /\ Written(T, b, r, s)
    /\ Heads(T, b, H, r, s)
    /\ Ringed(H, r, s)
    /\ Counted(r, s, f)
    /\ Executing(T, b, s, e, f)
    /\ Travelling(H, s, f, place)
    /\ Owing(T, b, hi, s, e, f)

Types ==
    /\ next \in [Command -> Link] /\ mem \in [Command -> Link]
    /\ ring \in [slot : [Slot -> Link], read : Slot, write : Slot]
    /\ fifo \in Seq(Command \cup {Request}) /\ Len(fifo) <= FifoSize
    /\ inList \in BOOLEAN
    /\ own \in [Client -> Link]
    /\ tag \in [Client -> Tag \cup {NULL}]
    /\ due \in [Client -> SUBSET Command]

Places == {"idle", "count", "decide", "drain", "check", "request", "recv", "test",
           "flush", "spin", "send", "retry", "retest"}

\* Only one client has interrupts disabled, and it knows what it has tested.
Callers ==
    /\ user \subseteq Client /\ pc \in [Client -> Places]
    /\ \A t \in Client :
          /\ pc[t] # "idle" => own[t] = NULL
          /\ pc[t] = "spin" => waitingCount >= BufSize /\ reserve.head # NULL
          /\ pc[t] = "send" => waitingCount < BufSize /\ reserve.head # NULL
    /\ \A t, u \in Client : Masked(t) /\ Masked(u) => t = u

Standing ==
    \E T, b, H, place, lo, hi, r, s, e, f : Stand(T, b, H, place, lo, hi, r, s, e, f)

Lines == Types /\ Standing

IInv == Lines /\ Callers

-----------------------------------------------------------------------------
(* What the invariant says of the lists.                                   *)

CutFacts(b, lo, hi, r, s) ==
    /\ b[r] \in Nat /\ b[s] \in Nat /\ lo <= b[r] /\ b[r] <= b[s] /\ lo <= b[s]
    /\ b[r] <= hi /\ b[s] <= hi /\ lo <= hi /\ r \in r .. s /\ s \in r .. s
    /\ \A n \in r .. s :
          n \in Nat /\ b[n] \in Nat /\ b[r] <= b[n] /\ b[n] <= b[s] /\ lo <= b[n] /\ b[n] <= hi
    /\ \A n \in r + 1 .. s : n \in r .. s /\ n - 1 \in r .. s /\ b[n - 1] < b[n]

LEMMA CutsAre ==
    ASSUME NEW b \in [Nat -> Nat], NEW lo \in Nat, NEW hi \in Nat, NEW r \in Nat, NEW s \in Nat,
           Cuts(b, lo, hi, r, s)
    PROVE  CutFacts(b, lo, hi, r, s)
<1>1. r <= s /\ lo <= b[r] /\ b[s] <= hi
    BY DEF Cuts
<1>2. ASSUME NEW n \in r .. s PROVE n \in Nat /\ b[n] \in Nat /\ b[r] <= b[n] /\ b[n] <= b[s]
    <2>1. n \in Nat /\ r \in r .. s /\ s \in r .. s
        BY <1>1
    <2>2. b[n] \in Nat /\ b[r] \in Nat /\ b[s] \in Nat
        BY <2>1
    <2>3. r < n => b[r] < b[n]
        BY <2>1 DEF Cuts
    <2>4. n < s => b[n] < b[s]
        BY <2>1 DEF Cuts
    <2> QED
        BY <2>1, <2>2, <2>3, <2>4
<1>3. ASSUME NEW n \in r + 1 .. s PROVE n \in r .. s /\ n - 1 \in r .. s /\ b[n - 1] < b[n]
    <2>1. n - 1 \in r .. s /\ n \in r .. s /\ n - 1 < n
        OBVIOUS
    <2> QED
        BY <2>1 DEF Cuts
<1>4. r \in r .. s /\ s \in r .. s
    BY <1>1
<1>5. b[r] \in Nat /\ b[s] \in Nat /\ b[r] <= b[s]
    BY <1>2, <1>4
<1>6. \A n \in r .. s : n \in Nat /\ b[n] \in Nat /\ b[r] <= b[n] /\ b[n] <= b[s] /\ lo <= b[n] /\ b[n] <= hi
    BY <1>1, <1>2, <1>5
<1> QED
    BY <1>1, <1>3, <1>4, <1>5, <1>6 DEF CutFacts

\* A part of the line between cuts is a chain of links.
LEMMA PartIsChain ==
    ASSUME NEW link \in [Command -> Link], NEW T \in [Nat -> Command],
           NEW lo \in Nat, NEW hi \in Nat, OnceIn(T, lo, hi),
           NEW m \in Nat, NEW n \in Nat, lo <= m, m <= n, n <= hi, IsChain(link, T, m, n)
    PROVE  Chain(link, Foremost(T, m, n)) = Window(T, m, n)
<1>1. OnceIn(T, m, n)
    <2>1. \A i \in m + 1 .. n : i \in lo + 1 .. hi
        OBVIOUS
    <2> QED
        BY <2>1 DEF OnceIn
<1> QED
    BY <1>1, ChainIs

\* The links within a list, the free ones and the reserved ones.
LEMMA LinksAre ==
    ASSUME NEW T \in [Nat -> Command], NEW b \in [Nat -> Nat], NEW lo \in Nat, NEW hi \in Nat,
           NEW r \in Nat, NEW s \in Nat,
           Cuts(b, lo, hi, r, s), Linked(T, b, lo, hi, r, s)
    PROVE  /\ IsChain(next, T, lo, b[r]) /\ IsChain(next, T, b[s], hi)
           /\ \A n \in r + 1 .. s : IsChain(next, T, b[n - 1], b[n])
<1>0. CutFacts(b, lo, hi, r, s)
    BY CutsAre
<1>1. ASSUME NEW i \in lo + 1 .. b[r] PROVE next[T[i]] = IF i = b[r] THEN NULL ELSE T[i + 1]
    <2>1. i \in lo + 1 .. hi
        BY <1>0 DEF CutFacts
    <2>2. (i = hi \/ IsCut(b, r, s, i)) <=> i = b[r]
        <3>1. i = hi => i = b[r]
            BY <1>0 DEF CutFacts
        <3>2. IsCut(b, r, s, i) => i = b[r]
            BY <1>0 DEF IsCut, CutFacts
        <3>3. i = b[r] => IsCut(b, r, s, i)
            BY <1>0 DEF IsCut, CutFacts
        <3> QED
            BY <3>1, <3>2, <3>3
    <2> QED
        BY <2>1, <2>2 DEF Linked
<1>2. ASSUME NEW i \in b[s] + 1 .. hi PROVE next[T[i]] = IF i = hi THEN NULL ELSE T[i + 1]
    <2>1. i \in lo + 1 .. hi
        BY <1>0 DEF CutFacts
    <2>2. ~IsCut(b, r, s, i)
        BY <1>0 DEF IsCut, CutFacts
    <2> QED
        BY <2>1, <2>2 DEF Linked
<1>3. ASSUME NEW n \in r + 1 .. s, NEW i \in b[n - 1] + 1 .. b[n]
      PROVE  next[T[i]] = IF i = b[n] THEN NULL ELSE T[i + 1]
    <2>0. /\ n \in r .. s /\ n - 1 \in r .. s /\ b[n] \in Nat /\ b[n - 1] \in Nat
          /\ b[r] <= b[n - 1] /\ b[n] <= hi /\ b[n] <= b[s] /\ hi \in Nat
        BY <1>0 DEF CutFacts
    <2>1. i \in lo + 1 .. hi /\ lo <= b[r]
        BY <2>0 DEF Cuts
    <2>2. i = hi => i = b[n]
        BY <2>0
    <2>3. i = b[n] => IsCut(b, r, s, i)
        BY <2>0 DEF IsCut
    <2>4. ASSUME NEW k \in r .. s, b[k] = i PROVE i = b[n]
        <3>1. CASE k = n
            BY <2>4, <3>1
        <3>2. CASE k < n
            <4>1. k = n - 1 \/ b[k] < b[n - 1]
                <5>1. k < n - 1 \/ k = n - 1
                    BY <3>2
                <5> QED
                    BY <2>0, <5>1 DEF Cuts
            <4> QED
                <5>1. b[k] \in Nat
                    BY <1>0 DEF CutFacts
                <5> QED
                    BY <2>0, <2>4, <4>1, <5>1
        <3>3. CASE n < k
            BY <2>0, <2>4, <3>3 DEF Cuts
        <3> QED
            BY <3>1, <3>2, <3>3
    <2>5. IsCut(b, r, s, i) => i = b[n]
        BY <2>4 DEF IsCut
    <2> QED
        BY <2>1, <2>2, <2>3, <2>5 DEF Linked
<1> QED
    BY <1>1, <1>2, <1>3 DEF IsChain

LEMMA ChainsAre ==
    ASSUME NEW T, NEW b, NEW H, NEW place, NEW lo, NEW hi, NEW r, NEW s, NEW e, NEW f,
           Stand(T, b, H, place, lo, hi, r, s, e, f), next \in [Command -> Link]
    PROVE  /\ CutFacts(b, lo, hi, r, s)
           /\ Chain(next, free.head) = Window(T, lo, b[r])
           /\ Chain(next, reserve.head) = Window(T, b[s], hi)
           /\ \A n \in r + 1 .. s :
                 /\ H[n] = Foremost(T, b[n - 1], b[n])
                 /\ Chain(next, H[n]) = Window(T, b[n - 1], b[n])
<1>1. /\ Numbered(T, b, H, place, lo, hi, r, s, e, f) /\ Parted(T, lo, hi) /\ Cuts(b, lo, hi, r, s)
      /\ Linked(T, b, lo, hi, r, s) /\ Ends(T, b, lo, hi, r, s) /\ Heads(T, b, H, r, s)
    BY DEF Stand
<1>2. /\ T \in [Nat -> Command] /\ H \in [Nat -> Command] /\ b \in [Nat -> Nat]
      /\ lo \in Nat /\ hi \in Nat /\ r \in Nat /\ s \in Nat
    BY <1>1 DEF Numbered
<1>3. CutFacts(b, lo, hi, r, s)
    BY <1>1, <1>2, CutsAre
<1>4. /\ IsChain(next, T, lo, b[r]) /\ IsChain(next, T, b[s], hi)
      /\ \A n \in r + 1 .. s : IsChain(next, T, b[n - 1], b[n])
    BY <1>1, <1>2, LinksAre
<1>5. OnceIn(T, lo, hi)
    BY <1>1 DEF Parted
<1>6. Chain(next, free.head) = Window(T, lo, b[r])
    <2>1. b[r] \in Nat /\ lo <= b[r] /\ b[r] <= hi /\ lo <= lo
        BY <1>2, <1>3 DEF CutFacts
    <2>2. Chain(next, Foremost(T, lo, b[r])) = Window(T, lo, b[r])
        BY <1>2, <1>4, <1>5, <2>1, PartIsChain
    <2> QED
        BY <1>1, <2>2 DEF Ends
<1>7. Chain(next, reserve.head) = Window(T, b[s], hi)
    <2>1. b[s] \in Nat /\ lo <= b[s] /\ b[s] <= hi /\ hi <= hi
        BY <1>2, <1>3 DEF CutFacts
    <2>2. Chain(next, Foremost(T, b[s], hi)) = Window(T, b[s], hi)
        BY <1>2, <1>4, <1>5, <2>1, PartIsChain
    <2> QED
        BY <1>1, <2>2 DEF Ends
<1>8. ASSUME NEW n \in r + 1 .. s
      PROVE  /\ H[n] = Foremost(T, b[n - 1], b[n])
             /\ Chain(next, H[n]) = Window(T, b[n - 1], b[n])
    <2>1. /\ b[n - 1] \in Nat /\ b[n] \in Nat /\ lo <= b[n - 1] /\ b[n - 1] <= b[n] /\ b[n] <= hi
          /\ b[n - 1] # b[n]
        BY <1>2, <1>3 DEF CutFacts
    <2>2. IsChain(next, T, b[n - 1], b[n])
        BY <1>4
    <2>3. Chain(next, Foremost(T, b[n - 1], b[n])) = Window(T, b[n - 1], b[n])
        BY <1>2, <1>5, <2>1, <2>2, PartIsChain
    <2>4. H[n] = Foremost(T, b[n - 1], b[n])
        BY <1>1, <2>1 DEF Heads, Foremost
    <2> QED
        BY <2>3, <2>4
<1> QED
    BY <1>3, <1>6, <1>7, <1>8

\* In memory a list has its links too, from wherever the ARM7 is in it.
LEMMA MemoryChains ==
    ASSUME NEW T, NEW b, NEW H, NEW place, NEW lo, NEW hi, NEW r, NEW s, NEW e, NEW f,
           Stand(T, b, H, place, lo, hi, r, s, e, f), mem \in [Command -> Link]
    PROVE  \A n \in r + 1 .. s : \A k \in b[n - 1] .. b[n] :
              Chain(mem, Foremost(T, k, b[n])) = Window(T, k, b[n])
<1>1. /\ Numbered(T, b, H, place, lo, hi, r, s, e, f) /\ Parted(T, lo, hi) /\ Cuts(b, lo, hi, r, s)
      /\ Linked(T, b, lo, hi, r, s) /\ Written(T, b, r, s)
    BY DEF Stand
<1>2. /\ T \in [Nat -> Command] /\ b \in [Nat -> Nat]
      /\ lo \in Nat /\ hi \in Nat /\ r \in Nat /\ s \in Nat
    BY <1>1 DEF Numbered
<1>3. CutFacts(b, lo, hi, r, s)
    BY <1>1, <1>2, CutsAre
<1>4. \A n \in r + 1 .. s : IsChain(next, T, b[n - 1], b[n])
    BY <1>1, <1>2, LinksAre
<1>5. OnceIn(T, lo, hi)
    BY <1>1 DEF Parted
<1>6. ASSUME NEW n \in r + 1 .. s, NEW k \in b[n - 1] .. b[n]
      PROVE  Chain(mem, Foremost(T, k, b[n])) = Window(T, k, b[n])
    <2>1. /\ b[n - 1] \in Nat /\ b[n] \in Nat /\ lo <= b[n - 1] /\ b[n] <= hi
          /\ b[r] \in Nat /\ b[s] \in Nat /\ b[r] <= b[n - 1] /\ b[n] <= b[s]
        BY <1>2, <1>3 DEF CutFacts
    <2>2. k \in Nat /\ b[n - 1] <= k /\ k <= b[n] /\ lo <= k
        BY <1>2, <2>1
    <2>3. ASSUME NEW i \in k + 1 .. b[n] PROVE mem[T[i]] = IF i = b[n] THEN NULL ELSE T[i + 1]
        <3>1. i \in b[n - 1] + 1 .. b[n] /\ i \in b[r] + 1 .. b[s]
            BY <2>1, <2>2
        <3>2. mem[T[i]] = next[T[i]]
            BY <1>1, <3>1 DEF Written
        <3>3. IsChain(next, T, b[n - 1], b[n])
            BY <1>4
        <3> QED
            BY <3>1, <3>2, <3>3 DEF IsChain
    <2>4. IsChain(mem, T, k, b[n])
        BY <2>3 DEF IsChain
    <2> QED
        BY <1>2, <1>5, <2>1, <2>2, <2>4, PartIsChain
<1> QED
    BY <1>6

\* A member of the line is none, and the first of a part tells whether it is empty.
LEMMA ForemostIs ==
    ASSUME NEW T \in [Nat -> Command], NEW m \in Nat, NEW n \in Nat, m <= n
    PROVE  /\ (Foremost(T, m, n) = NULL) <=> (m = n)
           /\ (Rearmost(T, m, n) = NULL) <=> (m = n)
           /\ Foremost(T, m, n) \in Link /\ Rearmost(T, m, n) \in Link
           /\ m # n => Foremost(T, m, n) = T[m + 1] /\ Rearmost(T, m, n) = T[n]
           /\ m # n => T[m + 1] \in Command /\ T[n] \in Command
<1>1. T[m + 1] \in Command /\ T[n] \in Command /\ NULL \notin Command
    BY Constants
<1> QED
    BY <1>1 DEF Foremost, Rearmost, Link

\* The lists that wait, from the ring.
LEMMA WaitingIs ==
    ASSUME NEW T, NEW b, NEW H, NEW place, NEW lo, NEW hi, NEW r, NEW s, NEW e, NEW f,
           Stand(T, b, H, place, lo, hi, r, s, e, f)
    PROVE  Waiting = Window(H, r, s) /\ waitingCount = s - r /\ r <= s
<1>1. /\ H \in [Nat -> Command] /\ r \in Nat /\ s \in Nat /\ r <= s
      /\ ring.read = r % (BufSize + 1) /\ waitingCount = s - r /\ s - r <= BufSize
      /\ \A n \in r + 1 .. s : ring.slot[(n - 1) % (BufSize + 1)] = H[n]
    BY DEF Stand, Numbered, Ringed, Cuts
<1>2. BufSize \in Nat /\ BufSize > 0
    BY Constants
<1>3. ASSUME NEW i \in 1 .. waitingCount
      PROVE  ring.slot[(ring.read + i - 1) % (BufSize + 1)] = H[r + i]
    <2>1. r + i \in r + 1 .. s /\ i \in 1 .. s - r
        BY <1>1
    <2>2. ((r % (BufSize + 1)) + i - 1) % (BufSize + 1) = ((r + i) - 1) % (BufSize + 1)
        <3> DEFINE M == BufSize + 1
                   u == r % M
        <3>1. M \in Nat /\ M > 0 /\ r \in Int
            BY <1>1, <1>2
        <3>2. PICK d \in 0 .. M - 1 : d = i - 1
            BY <1>1, <1>2, <2>1
        <3>3. u \in 0 .. M - 1
            <4> HIDE DEF M
            <4> QED
                BY <3>1, Divide
        <3> HIDE DEF M
        <3>4. (r + d) % M = IF u + d < M THEN u + d ELSE u + d - M
            BY <3>1, Further
        <3> HIDE DEF u
        <3>5. u % M = u
            <4>1. M * 0 + u = u
                BY <3>1, <3>3
            <4>2. (M * 0 + u) % M = u
                BY <3>1, <3>3, Remainder
            <4> QED
                BY <4>1, <4>2
        <3>6. (u + d) % M = IF (u % M) + d < M THEN (u % M) + d ELSE (u % M) + d - M
            <4>1. u \in Int
                BY <3>1, <3>3
            <4> QED
                BY <3>1, <4>1, Further
        <3>7. r + d = (r + i) - 1 /\ u + d = u + i - 1
            BY <1>1, <2>1, <3>1, <3>2, <3>3
        <3>8. (u + i - 1) % M = ((r + i) - 1) % M
            BY <3>4, <3>5, <3>6, <3>7
        <3> QED
            BY <3>8 DEF u, M
    <2>3. ring.slot[((r + i) - 1) % (BufSize + 1)] = H[r + i]
        BY <1>1, <2>1
    <2> QED
        BY <1>1, <2>2, <2>3
<1> QED
    BY <1>1, <1>3 DEF Waiting, Window

\* The lists on their way, from the ARM7's queue and the FIFO.
LEMMA ListsToDoAre ==
    ASSUME NEW T, NEW b, NEW H, NEW place, NEW lo, NEW hi, NEW r, NEW s, NEW e, NEW f,
           Stand(T, b, H, place, lo, hi, r, s, e, f), fifo \in Seq(Command \cup {Request})
    PROVE  /\ Begun(f) \in Nat /\ r <= Begun(f) /\ Begun(f) <= place[0] /\ place[0] <= s
           /\ ListsToDo = Window(H, Begun(f), s)
<1>1. /\ H \in [Nat -> Command] /\ place \in [Nat -> Nat] /\ f \in Nat /\ r \in Nat /\ s \in Nat
      /\ Travelling(H, s, f, place) /\ r <= f
    BY DEF Stand, Numbered, Counted
<1>2. Begun(f) \in Nat /\ r <= Begun(f)
    BY <1>1 DEF Begun
<1>3. Len(fifo) \in Nat
    OBVIOUS
<1> DEFINE K == Len(fifo)
           q == [j \in 1 .. K |-> IF fifo[j] = Request THEN << >> ELSE <<fifo[j]>>]
<1>4. /\ Begun(f) <= place[0] /\ place[K] = s /\ mesgQueue = Window(H, Begun(f), place[0])
      /\ \A j \in 1 .. K : \/ fifo[j] = Request /\ place[j] = place[j - 1]
                           \/ fifo[j] = H[place[j]] /\ place[j] = place[j - 1] + 1
    BY <1>1 DEF Travelling
<1>5. ASSUME NEW j \in 1 .. K
      PROVE  place[j - 1] <= place[j] /\ q[j] = Window(H, place[j - 1], place[j])
    <2>1. place[j - 1] \in Nat /\ place[j] \in Nat
        <3>1. j - 1 \in Nat /\ j \in Nat
            BY <1>3
        <3> QED
            BY <1>1, <3>1
    <2>2. CASE fifo[j] = Request /\ place[j] = place[j - 1]
        <3>1. q[j] = << >>
            BY <2>2
        <3>2. Window(H, place[j], place[j]) = << >>
            BY <1>1, <2>1, WindowEmpty
        <3> HIDE DEF q
        <3> QED
            BY <2>1, <2>2, <3>1, <3>2
    <2>3. CASE fifo[j] = H[place[j]] /\ place[j] = place[j - 1] + 1
        <3>1. fifo[j] # Request
            BY <1>1, <2>1, <2>3, Constants
        <3>2. Window(H, place[j - 1], place[j - 1] + 1) = <<H[place[j - 1] + 1]>>
            BY <1>1, <2>1, WindowOne
        <3>3. q[j] = <<fifo[j]>>
            BY <3>1
        <3> HIDE DEF q
        <3> QED
            BY <2>1, <2>3, <3>2, <3>3
    <2> HIDE DEF q
    <2> QED
        BY <1>4, <2>2, <2>3
<1>6. q = [j \in 1 .. K |-> Window(H, place[j - 1], place[j])]
    <2>1. q = [j \in 1 .. K |-> q[j]]
        OBVIOUS
    <2> HIDE DEF q
    <2> QED
        BY <1>5, <2>1
<1>7. place[0] <= place[K] /\ FlattenSeq(q) = Window(H, place[0], place[K])
    <2> HIDE DEF q, K
    <2> QED
        BY <1>1, <1>3, <1>5, <1>6, FlattenIs DEF K
<1>8. Lists(fifo) = Window(H, place[0], s)
    BY <1>4, <1>7 DEF Lists
<1>9. place[0] \in Nat /\ place[0] <= s
    BY <1>1, <1>4, <1>7
<1>10. Window(H, Begun(f), place[0]) \o Window(H, place[0], s) = Window(H, Begun(f), s)
    BY ZenonT(40), <1>1, <1>2, <1>4, <1>9, WindowJoin
<1> HIDE DEF q
<1> QED
    BY <1>2, <1>4, <1>8, <1>9, <1>10 DEF ListsToDo

ListChains(link, w) == [i \in 1 .. Len(w) |-> Chain(link, w[i])]

\* The lists are as link has them.
Join(link, T, b, H, r, s) == \A n \in r + 1 .. s : Chain(link, H[n]) = Window(T, b[n - 1], b[n])

\* The lists after the first k, as they are linked one after the other.
LEMMA ListsJoin ==
    ASSUME NEW link, NEW T \in [Nat -> Command], NEW b \in [Nat -> Nat], NEW H \in [Nat -> Command],
           NEW lo \in Nat, NEW hi \in Nat, NEW r \in Nat, NEW s \in Nat, CutFacts(b, lo, hi, r, s),
           Join(link, T, b, H, r, s), NEW k \in Nat, r <= k, k <= s
    PROVE  FlattenSeq(ListChains(link, Window(H, k, s))) = Window(T, b[k], b[s])
<1> DEFINE p == [i \in Nat |-> b[k + i]]
           w == Window(H, k, s)
           q == [i \in 1 .. s - k |-> Chain(link, w[i])]
<1>1. s - k \in Nat /\ k \in Nat /\ k <= s /\ r <= k
    OBVIOUS
<1>0. Len(w) = s - k /\ \A i \in 1 .. s - k : w[i] = H[k + i]
    BY <1>1, WindowIs
<1> HIDE DEF w
<1>2. p \in [Nat -> Nat] /\ p[0] = b[k] /\ p[s - k] = b[s]
    <2>1. k + 0 = k /\ k + (s - k) = s /\ \A i \in Nat : k + i \in Nat
        BY <1>1
    <2> QED
        BY <1>1, <2>1
<1>3. ASSUME NEW i \in 1 .. s - k
      PROVE  p[i - 1] <= p[i] /\ q[i] = Window(T, p[i - 1], p[i])
    <2>1. k + i \in r + 1 .. s /\ k + (i - 1) = (k + i) - 1 /\ i \in Nat /\ i - 1 \in Nat
        BY <1>1
    <2>2. p[i] = b[k + i] /\ p[i - 1] = b[(k + i) - 1]
        BY <2>1
    <2>3. w[i] = H[k + i]
        BY <1>0
    <2>4. Chain(link, H[k + i]) = Window(T, b[(k + i) - 1], b[k + i])
        BY <2>1 DEF Join
    <2>5. b[(k + i) - 1] < b[k + i] /\ b[k + i] \in Nat /\ b[(k + i) - 1] \in Nat
        BY <2>1 DEF CutFacts
    <2> HIDE DEF p
    <2> QED
        BY <2>2, <2>3, <2>4, <2>5
<1>4. q = [i \in 1 .. s - k |-> Window(T, p[i - 1], p[i])]
    <2>1. q = [i \in 1 .. s - k |-> q[i]]
        OBVIOUS
    <2> HIDE DEF p, q
    <2> QED
        BY <1>3, <2>1
<1>5. FlattenSeq(q) = Window(T, p[0], p[s - k])
    <2> HIDE DEF p, q
    <2> QED
        BY <1>1, <1>2, <1>3, <1>4, FlattenIs
<1> QED
    BY <1>0, <1>2, <1>5 DEF ListChains, w

LEMMA NoChain ==
    ASSUME NEW link \in [Command -> Link]
    PROVE  Chain(link, NULL) = << >>
<1>1. PICK c : c \in Command
    BY CommandsFinite
<1> DEFINE T == [i \in Nat |-> c]
<1>2. T \in [Nat -> Command] /\ 0 \in Nat /\ 0 <= 0
    BY <1>1
<1> HIDE DEF T
<1>3. OnceIn(T, 0, 0) /\ IsChain(link, T, 0, 0) /\ Foremost(T, 0, 0) = NULL
    BY DEF OnceIn, IsChain, Foremost
<1>4. Chain(link, Foremost(T, 0, 0)) = Window(T, 0, 0)
    BY <1>2, <1>3, ChainIs
<1> QED
    BY <1>2, <1>3, <1>4, WindowEmpty

\* What the ARM7 is to read is the line from what it has executed to the latest list.
LEMMA ToReadIs ==
    ASSUME NEW T, NEW b, NEW H, NEW place, NEW lo, NEW hi, NEW r, NEW s, NEW e, NEW f,
           Stand(T, b, H, place, lo, hi, r, s, e, f), Types
    PROVE  /\ ToRead = Window(T, e, b[s]) /\ b[r] <= e /\ e <= b[s]
           /\ CutFacts(b, lo, hi, r, s)
<1>1. /\ T \in [Nat -> Command] /\ b \in [Nat -> Nat] /\ H \in [Nat -> Command]
      /\ lo \in Nat /\ hi \in Nat /\ r \in Nat /\ s \in Nat /\ e \in Nat /\ f \in Nat
      /\ r <= f /\ f <= s /\ Executing(T, b, s, e, f)
    BY DEF Stand, Numbered, Counted
<1>2. next \in [Command -> Link] /\ mem \in [Command -> Link] /\ fifo \in Seq(Command \cup {Request})
    BY DEF Types
<1>3. CutFacts(b, lo, hi, r, s) /\ \A n \in r + 1 .. s : H[n] = Foremost(T, b[n - 1], b[n])
    BY <1>2, ChainsAre
<1>4. \A n \in r + 1 .. s : \A k \in b[n - 1] .. b[n] :
              Chain(mem, Foremost(T, k, b[n])) = Window(T, k, b[n])
    BY <1>2, MemoryChains
<1>5. ASSUME NEW n \in r + 1 .. s PROVE Chain(mem, H[n]) = Window(T, b[n - 1], b[n])
    <2>1. b[n - 1] \in b[n - 1] .. b[n]
        BY <1>1, <1>3 DEF CutFacts
    <2> QED
        BY <1>3, <1>4, <2>1
<1> DEFINE g == Begun(f)
<1>6. g \in Nat /\ r <= g /\ g <= s /\ ListsToDo = Window(H, g, s)
    <2>1. /\ Begun(f) \in Nat /\ r <= Begun(f) /\ Begun(f) <= place[0] /\ place[0] <= s
          /\ ListsToDo = Window(H, Begun(f), s)
        BY <1>2, ListsToDoAre
    <2>2. place[0] \in Nat
        BY DEF Stand, Numbered
    <2> QED
        BY <1>1, <2>1, <2>2
<1>7. FlattenSeq([i \in 1 .. Len(ListsToDo) |-> Chain(mem, ListsToDo[i])]) = Window(T, b[g], b[s])
    <2>1. Join(mem, T, b, H, r, s)
        BY <1>5 DEF Join
    <2>2. PICK k \in r .. s : k = g
        BY <1>1, <1>6
    <2>3. FlattenSeq(ListChains(mem, Window(H, k, s))) = Window(T, b[k], b[s])
        <3>1. /\ T \in [Nat -> Command] /\ b \in [Nat -> Nat] /\ H \in [Nat -> Command]
              /\ lo \in Nat /\ hi \in Nat /\ r \in Nat /\ s \in Nat
              /\ CutFacts(b, lo, hi, r, s) /\ k \in Nat /\ r <= k /\ k <= s
            BY <1>1, <1>3
        <3> QED
            BY <2>1, <3>1, ListsJoin
    <2> HIDE DEF g
    <2> QED
        BY <1>6, <2>2, <2>3 DEF ListChains
<1>8. /\ Chain(mem, command_p) = Window(T, e, b[g])
      /\ b[r] <= e /\ e <= b[g] /\ b[g] <= b[s] /\ b[g] \in Nat /\ b[s] \in Nat
    <2>1. CASE inList
        <3>1. f + 1 \in r + 1 .. s /\ g = f + 1 /\ (f + 1) - 1 = f /\ f \in r .. s /\ f + 1 \in r .. s
            BY <1>1, <2>1 DEF Executing, Begun
        <3>2. /\ b[f] <= e /\ e <= b[f + 1] /\ command_p = Foremost(T, e, b[f + 1])
              /\ b[f + 1] \in Nat /\ b[f] \in Nat
            BY <1>1, <2>1, <3>1 DEF Executing
        <3>3. e \in b[f] .. b[f + 1]
            BY <1>1, <3>2
        <3>4. Chain(mem, Foremost(T, e, b[f + 1])) = Window(T, e, b[f + 1])
            BY <1>4, <3>1, <3>3
        <3>5. b[r] <= b[f] /\ b[f + 1] <= b[s] /\ b[r] \in Nat /\ b[s] \in Nat
            BY <1>3, <3>1 DEF CutFacts
        <3> HIDE DEF g
        <3> QED
            BY <1>1, <3>1, <3>2, <3>4, <3>5
    <2>2. CASE ~inList
        <3>1. e = b[f] /\ command_p = NULL /\ g = f /\ f \in r .. s
            BY <1>1, <2>2 DEF Executing, Begun
        <3>2. Chain(mem, NULL) = << >> /\ Window(T, e, e) = << >>
            BY <1>1, <1>2, NoChain, WindowEmpty
        <3>5. b[r] <= b[f] /\ b[f] <= b[s] /\ b[r] \in Nat /\ b[s] \in Nat
            BY <1>3, <3>1 DEF CutFacts
        <3> HIDE DEF g
        <3> QED
            BY <1>1, <3>1, <3>2, <3>5
    <2> QED
        BY <2>1, <2>2
<1> HIDE DEF g
<1>9. Window(T, e, b[g]) \o Window(T, b[g], b[s]) = Window(T, e, b[s])
    <2>1. PICK k \in Nat : k = b[g]
        BY <1>8
    <2>2. PICK n \in Nat : n = b[s]
        BY <1>8
    <2>3. e <= k /\ k <= n
        BY <1>8, <2>1, <2>2
    <2>4. Window(T, e, k) \o Window(T, k, n) = Window(T, e, n)
        BY ZenonT(40), <1>1, <2>3, WindowJoin
    <2> QED
        BY <2>1, <2>2, <2>4
<1>10. b[r] <= e /\ e <= b[s]
    BY <1>1, <1>8, <1>3 DEF CutFacts
<1> QED
    BY <1>3, <1>7, <1>8, <1>9, <1>10 DEF ToRead

\* The pipe is the line from what is executed to its end.
LEMMA PipeIs ==
    ASSUME NEW T, NEW b, NEW H, NEW place, NEW lo, NEW hi, NEW r, NEW s, NEW e, NEW f,
           Stand(T, b, H, place, lo, hi, r, s, e, f), Types
    PROVE  ToRead \o Chain(next, reserve.head) = Window(T, e, hi)
<1>1. T \in [Nat -> Command] /\ hi \in Nat /\ e \in Nat
    BY DEF Stand, Numbered
<1>2. ToRead = Window(T, e, b[s]) /\ e <= b[s] /\ CutFacts(b, lo, hi, r, s)
    BY ToReadIs
<1>3. Chain(next, reserve.head) = Window(T, b[s], hi)
    BY ChainsAre DEF Types
<1>4. b[s] \in Nat /\ b[s] <= hi
    BY <1>2 DEF CutFacts
<1>5. PICK k \in Nat : k = b[s]
    BY <1>4
<1>6. e <= k /\ k <= hi
    BY <1>2, <1>4, <1>5
<1>7. Window(T, e, k) \o Window(T, k, hi) = Window(T, e, hi)
    BY <1>1, <1>6, WindowJoin
<1> QED
    BY <1>2, <1>3, <1>5, <1>7

LEMMA ReusedLate ==
    ASSUME NEW T, NEW b, NEW H, NEW place, NEW lo, NEW hi, NEW r, NEW s, NEW e, NEW f,
           Stand(T, b, H, place, lo, hi, r, s, e, f), Types
    PROVE  NotReusedEarly
<1>1. /\ T \in [Nat -> Command] /\ b \in [Nat -> Nat] /\ lo \in Nat /\ hi \in Nat /\ e \in Nat
      /\ r \in Nat /\ s \in Nat /\ Parted(T, lo, hi)
    BY DEF Stand, Numbered
<1>2. ToRead = Window(T, e, b[s]) /\ b[r] <= e /\ e <= b[s] /\ CutFacts(b, lo, hi, r, s)
    BY ToReadIs
<1>3. Chain(next, reserve.head) = Window(T, b[s], hi) /\ Chain(next, free.head) = Window(T, lo, b[r])
    BY ChainsAre DEF Types
<1>4. b[r] \in Nat /\ b[s] \in Nat /\ lo <= b[r] /\ b[s] <= hi
    BY <1>2 DEF CutFacts
<1>5. /\ ToSet(ToRead) = {T[i] : i \in e + 1 .. b[s]}
      /\ ToSet(Chain(next, free.head)) = {T[i] : i \in lo + 1 .. b[r]}
      /\ ToSet(Chain(next, reserve.head)) = {T[i] : i \in b[s] + 1 .. hi}
    <2>1. PICK k \in Nat : k = b[s]
        BY <1>4
    <2>2. PICK m \in Nat : m = b[r]
        BY <1>4
    <2>3. e <= k /\ k <= hi /\ lo <= m
        BY <1>2, <1>4, <2>1, <2>2
    <2>4. /\ ToSet(Window(T, e, k)) = {T[i] : i \in e + 1 .. k}
          /\ ToSet(Window(T, lo, m)) = {T[i] : i \in lo + 1 .. m}
          /\ ToSet(Window(T, k, hi)) = {T[i] : i \in k + 1 .. hi}
        BY <1>1, <2>3, WindowMembers
    <2> QED
        BY <1>2, <1>3, <2>1, <2>2, <2>4
<1>6. ASSUME NEW i \in e + 1 .. b[s]
      PROVE  /\ i \in lo + 1 .. hi
             /\ \A j \in lo + 1 .. b[r] : j \in lo + 1 .. hi /\ j # i
             /\ \A j \in b[s] + 1 .. hi : j \in lo + 1 .. hi /\ j # i
    BY <1>1, <1>2, <1>4
<1>7. ASSUME NEW i \in e + 1 .. b[s]
      PROVE  /\ \A j \in lo + 1 .. b[r] : T[j] # T[i]
             /\ \A j \in b[s] + 1 .. hi : T[j] # T[i]
             /\ T[i] \notin Owned
    <2>1. \A j \in lo + 1 .. hi : T[j] = T[i] => j = i
        BY <1>1, <1>6 DEF Parted, OnceIn
    <2>2. T[i] \notin Owned
        BY <1>1, <1>6 DEF Parted, Owned
    <2> QED
        BY <1>6, <2>1, <2>2
<1> QED
    BY <1>5, <1>7 DEF NotReusedEarly

\* The links of the ARM9 join the lists that wait to one part of the line.
LEMMA WaitingJoin ==
    ASSUME NEW T, NEW b, NEW H, NEW place, NEW lo, NEW hi, NEW r, NEW s, NEW e, NEW f,
           Stand(T, b, H, place, lo, hi, r, s, e, f), Types
    PROVE  FlattenSeq([i \in 1 .. waitingCount |-> Chain(next, Waiting[i])]) = Window(T, b[r], b[s])
<1>1. /\ T \in [Nat -> Command] /\ b \in [Nat -> Nat] /\ H \in [Nat -> Command]
      /\ lo \in Nat /\ hi \in Nat /\ r \in Nat /\ s \in Nat /\ r <= r
    BY DEF Stand, Numbered
<1>2. CutFacts(b, lo, hi, r, s) /\ Join(next, T, b, H, r, s)
    BY ChainsAre DEF Types, Join
<1>3. Waiting = Window(H, r, s) /\ waitingCount = s - r /\ r <= s
    BY WaitingIs
<1>4. FlattenSeq(ListChains(next, Window(H, r, s))) = Window(T, b[r], b[s])
    BY <1>1, <1>2, <1>3, ListsJoin
<1>5. Len(Window(H, r, s)) = s - r
    BY <1>1, <1>3, WindowIs
<1> QED
    BY <1>3, <1>4, <1>5 DEF ListChains

\* A part of the line has as many commands as it is long.
LEMMA PartCounted ==
    ASSUME NEW T \in [Nat -> Command], NEW m \in Nat, NEW n \in Nat, m <= n, OnceIn(T, m, n)
    PROVE  /\ IsFiniteSet({T[i] : i \in m + 1 .. n})
           /\ Cardinality({T[i] : i \in m + 1 .. n}) = n - m
<1> DEFINE D == m + 1 .. n
           L == {T[i] : i \in D}
           g == [i \in D |-> T[i]]
<1>1. IsFiniteSet(D) /\ Cardinality(D) = n - m
    <2>1. m + 1 \in Int /\ n \in Int
        OBVIOUS
    <2>2. IsFiniteSet(D) /\ Cardinality(D) = IF m + 1 > n THEN 0 ELSE n - (m + 1) + 1
        BY <2>1, FS_Interval, Zenon
    <2> HIDE DEF D
    <2> QED
        BY <2>2
<1>2. g \in Bijection(D, L)
    <2>1. g \in [D -> L] /\ \A i \in D : g[i] = T[i]
        OBVIOUS
    <2>2. IsInjective(g)
        BY <2>1 DEF IsInjective, OnceIn
    <2>3. \A c \in L : \E i \in D : g[i] = c
        OBVIOUS
    <2> HIDE DEF g, D, L
    <2> QED
        BY <2>1, <2>2, <2>3 DEF Bijection, Injection, Surjection
<1> HIDE DEF D, L, g
<1>3. ExistsBijection(D, L)
    BY <1>2 DEF ExistsBijection
<1>4. IsFiniteSet(L) /\ Cardinality(L) = Cardinality(D)
    BY <1>1, <1>3, FS_Bijection
<1> QED
    BY <1>1, <1>4 DEF L, D

LEMMA Conserved ==
    ASSUME NEW T, NEW b, NEW H, NEW place, NEW lo, NEW hi, NEW r, NEW s, NEW e, NEW f,
           Stand(T, b, H, place, lo, hi, r, s, e, f), Types
    PROVE  CommandsConserved
<1>1. /\ T \in [Nat -> Command] /\ lo \in Nat /\ hi \in Nat
      /\ Parted(T, lo, hi) /\ Ends(T, b, lo, hi, r, s)
    BY DEF Stand, Numbered
<1> DEFINE A == Chain(next, free.head)
           B == Chain(next, reserve.head)
           C == FlattenSeq([i \in 1 .. waitingCount |-> Chain(next, Waiting[i])])
           all == A \o B \o C
<1>2. CutFacts(b, lo, hi, r, s) /\ A = Window(T, lo, b[r]) /\ B = Window(T, b[s], hi)
    BY ChainsAre DEF Types
<1>3. C = Window(T, b[r], b[s])
    BY WaitingJoin
<1>4. PICK m \in Nat : m = b[r]
    BY <1>2 DEF CutFacts
<1>5. PICK n \in Nat : n = b[s]
    BY <1>2 DEF CutFacts
<1>6. lo <= m /\ m <= n /\ n <= hi
    BY <1>2, <1>4, <1>5 DEF CutFacts
<1> HIDE DEF A, B, C
<1>7. A = Window(T, lo, m) /\ B = Window(T, n, hi) /\ C = Window(T, m, n)
    BY <1>2, <1>3, <1>4, <1>5
<1>8. /\ A \in Seq(Command) /\ Len(A) = m - lo
      /\ B \in Seq(Command) /\ Len(B) = hi - n
      /\ C \in Seq(Command) /\ Len(C) = n - m
    BY <1>1, <1>6, <1>7, WindowIs
<1>9. /\ ToSet(A) = {T[i] : i \in lo + 1 .. m}
      /\ ToSet(B) = {T[i] : i \in n + 1 .. hi}
      /\ ToSet(C) = {T[i] : i \in m + 1 .. n}
    BY <1>1, <1>6, <1>7, WindowMembers
<1>10. Len(all) = hi - lo
    <2>1. A \o B \in Seq(Command) /\ Len(A \o B) = Len(A) + Len(B)
        BY <1>8, ConcatProperties
    <2>2. Len(all) = Len(A \o B) + Len(C)
        BY <1>8, <2>1, ConcatProperties
    <2> HIDE DEF all
    <2> QED
        BY <1>1, <1>6, <1>8, <2>1, <2>2
<1> DEFINE L == {T[i] : i \in lo + 1 .. hi}
<1>11. ToSet(all) = L
    <2>1. ASSUME NEW X \in Seq(Command), NEW Y \in Seq(Command)
          PROVE  X \o Y \in Seq(Command) /\ ToSet(X \o Y) = ToSet(X) \cup ToSet(Y)
        <3>1. /\ X \o Y \in Seq(Command) /\ Len(X \o Y) = Len(X) + Len(Y)
              /\ Len(X) \in Nat /\ Len(Y) \in Nat
              /\ DOMAIN X = 1 .. Len(X) /\ DOMAIN Y = 1 .. Len(Y)
              /\ DOMAIN (X \o Y) = 1 .. Len(X) + Len(Y)
            BY <2>1, ConcatProperties
        <3>2. \A i \in 1 .. Len(X) : i \in DOMAIN (X \o Y) /\ (X \o Y)[i] = X[i]
            BY <2>1, <3>1
        <3>3. ASSUME NEW i \in 1 .. Len(Y)
              PROVE  Len(X) + i \in DOMAIN (X \o Y) /\ (X \o Y)[Len(X) + i] = Y[i]
            BY <2>1, <3>1
        <3>4. ASSUME NEW i \in 1 .. Len(X) + Len(Y), i > Len(X)
              PROVE  i - Len(X) \in 1 .. Len(Y) /\ (X \o Y)[i] = Y[i - Len(X)]
            BY <2>1, <3>1, <3>4
        <3>5. ASSUME NEW x \in ToSet(X \o Y) PROVE x \in ToSet(X) \/ x \in ToSet(Y)
            <4>1. PICK i \in 1 .. Len(X) + Len(Y) : x = (X \o Y)[i]
                BY <3>1, <3>5 DEF ToSet
            <4>2. CASE i <= Len(X)
                <5>1. i \in 1 .. Len(X) /\ x = X[i]
                    BY <3>1, <3>2, <4>1, <4>2
                <5> QED
                    BY <3>1, <5>1 DEF ToSet
            <4>3. CASE i > Len(X)
                <5>1. i - Len(X) \in 1 .. Len(Y) /\ x = Y[i - Len(X)]
                    BY <3>4, <4>1, <4>3
                <5> QED
                    BY <3>1, <5>1 DEF ToSet
            <4> QED
                BY <3>1, <4>2, <4>3
        <3>6. ASSUME NEW x \in ToSet(X) PROVE x \in ToSet(X \o Y)
            <4>1. PICK i \in 1 .. Len(X) : x = X[i]
                BY <3>1, <3>6 DEF ToSet
            <4> QED
                BY <3>2, <4>1 DEF ToSet
        <3>7. ASSUME NEW x \in ToSet(Y) PROVE x \in ToSet(X \o Y)
            <4>1. PICK i \in 1 .. Len(Y) : x = Y[i]
                BY <3>1, <3>7 DEF ToSet
            <4> QED
                BY <3>3, <4>1 DEF ToSet
        <3> QED
            BY <3>1, <3>5, <3>6, <3>7
    <2>2. A \o B \in Seq(Command) /\ ToSet(A \o B) = ToSet(A) \cup ToSet(B)
        BY <1>8, <2>1
    <2>3. ToSet(all) = (ToSet(A) \cup ToSet(B)) \cup ToSet(C)
        BY <1>8, <2>1, <2>2
    <2> HIDE DEF all
    <2> QED
        BY <1>1, <1>6, <1>9, <2>3
<1>12. /\ L \cup Owned = Command /\ L \cap Owned = {} /\ L \subseteq Command
       /\ Cardinality(L) = hi - lo /\ IsFiniteSet(L)
    <2>1. IsFiniteSet(L) /\ Cardinality(L) = hi - lo
        BY <1>1, <1>6, PartCounted DEF Parted
    <2>2. \A t \in Client : own[t] # NULL => own[t] \in Command
        BY DEF Types, Link
    <2>3. Owned \subseteq Command /\ L \subseteq Command
        BY <1>1, <2>2 DEF Owned
    <2>4. Command \subseteq L \cup Owned
        BY <1>1, Constants DEF Parted, Owned
    <2>5. L \cap Owned = {}
        BY <1>1 DEF Parted, Owned
    <2> HIDE DEF L
    <2> QED
        BY <2>1, <2>3, <2>4, <2>5
<1> HIDE DEF L
<1>13. (hi - lo) + Cardinality(Owned) = Num
    <2>1. IsFiniteSet(Owned)
        <3>1. Owned \in SUBSET Command
            BY <1>12
        <3> QED
            BY <3>1, CommandsFinite, FS_Subset
    <2>2. Cardinality(L \cup Owned) = Cardinality(L) + Cardinality(Owned) - Cardinality(L \cap Owned)
        BY <1>12, <2>1, FS_Union
    <2>3. Cardinality({}) = 0 /\ Cardinality(Owned) \in Nat
        BY <2>1, FS_EmptySet, FS_CardinalityType
    <2>4. Cardinality(Command) = Cardinality(L) + Cardinality(Owned) - 0
        BY <1>12, <2>2, <2>3
    <2>5. Num = (hi - lo) + Cardinality(Owned) - 0
        BY <1>12, <2>4 DEF Num
    <2> QED
        BY <1>1, <2>3, <2>5
<1>14. free.end = EndOf(free)
    <2>1. free = [head |-> Foremost(T, lo, m), end |-> Rearmost(T, lo, m)]
        BY <1>1, <1>4 DEF Ends
    <2>2. /\ (Foremost(T, lo, m) = NULL) <=> (lo = m)
          /\ lo = m => Rearmost(T, lo, m) = NULL
          /\ lo # m => Rearmost(T, lo, m) = T[m]
        BY <1>1, <1>6, ForemostIs DEF Rearmost
    <2>3. lo # m => Last(A) = T[m]
        BY <1>1, <1>6, <1>7, WindowMembers
    <2> QED
        BY <2>1, <2>2, <2>3 DEF EndOf, A
<1>15. reserve.end = EndOf(reserve)
    <2>1. reserve = [head |-> Foremost(T, n, hi), end |-> Rearmost(T, n, hi)]
        BY <1>1, <1>5 DEF Ends
    <2>2. /\ (Foremost(T, n, hi) = NULL) <=> (n = hi)
          /\ n = hi => Rearmost(T, n, hi) = NULL
          /\ n # hi => Rearmost(T, n, hi) = T[hi]
        BY <1>1, <1>6, ForemostIs DEF Rearmost
    <2>3. n # hi => Last(B) = T[hi]
        BY <1>1, <1>6, <1>7, WindowMembers
    <2> QED
        BY <2>1, <2>2, <2>3 DEF EndOf, B
<1>16. Len(all) + Cardinality(Owned) = Num /\ ToSet(all) \cup Owned = Command
    <2> HIDE DEF all
    <2> QED
        BY <1>10, <1>11, <1>12, <1>13
<1> QED
    BY <1>14, <1>15, <1>16 DEF CommandsConserved, A, B, C

LEMMA Replies ==
    ASSUME NEW T, NEW b, NEW H, NEW place, NEW lo, NEW hi, NEW r, NEW s, NEW e, NEW f,
           Stand(T, b, H, place, lo, hi, r, s, e, f), Types
    PROVE  RepliesMatch
<1>1. /\ H \in [Nat -> Command] /\ r \in Nat /\ s \in Nat /\ f \in Nat /\ r <= f /\ f <= s
      /\ finishedTag = r % TagMod /\ currentTag = (s + 1) % TagMod /\ finishCommandTag = f % TagMod
      /\ s - r <= BufSize
    BY DEF Stand, Numbered, Counted, Ringed
<1>2. Waiting = Window(H, r, s) /\ waitingCount = s - r /\ r <= s
    BY WaitingIs
<1>3. /\ Begun(f) \in Nat /\ r <= Begun(f) /\ Begun(f) <= place[0] /\ place[0] <= s
      /\ ListsToDo = Window(H, Begun(f), s)
    BY ListsToDoAre DEF Types
<1>4. PICK g \in Nat : g = Begun(f)
    BY <1>3
<1>5. r <= g /\ g <= s /\ g = f + IF inList THEN 1 ELSE 0
    <2>1. place[0] \in Nat
        BY DEF Stand, Numbered
    <2> QED
        BY <1>1, <1>3, <1>4, <2>1 DEF Begun
<1>6. Len(ListsToDo) = s - g /\ \A i \in 1 .. s - g : ListsToDo[i] = H[g + i]
    <2>1. ListsToDo = Window(H, g, s)
        BY <1>3, <1>4
    <2> QED
        BY ZenonT(40), <1>1, <1>5, <2>1, WindowIs
<1>7. Waiting \in Seq(Command) /\ \A i \in 1 .. s - r : Waiting[i] = H[r + i]
    BY <1>1, <1>2, WindowIs
<1>8. SubSeq(Waiting, waitingCount - Len(ListsToDo) + 1, waitingCount) = ListsToDo
    <2>1. waitingCount - Len(ListsToDo) + 1 = (g - r) + 1 /\ waitingCount = s - r
        BY <1>1, <1>2, <1>5, <1>6
    <2> DEFINE u == SubSeq(Waiting, (g - r) + 1, s - r)
    <2>2. Len(Waiting) = s - r
        BY <1>1, <1>2, WindowIs
    <2>3. u \in Seq(Command) /\ Len(u) = s - g /\ \A i \in 1 .. s - g : u[i] = Waiting[(g - r) + i]
        <3>1. PICK m \in Int : m = (g - r) + 1
            BY <1>1, <1>4
        <3>2. PICK n \in Int : n = s - r
            BY <1>1
        <3>3. \A i \in m .. n : Waiting[i] \in Command
            <4>1. \A i \in m .. n : i \in 1 .. s - r
                BY <1>1, <1>4, <1>5, <3>1, <3>2
            <4>2. \A i \in 1 .. s - r : H[r + i] \in Command
                BY <1>1
            <4> QED
                BY <1>7, <4>1, <4>2
        <3>4. /\ SubSeq(Waiting, m, n) \in Seq(Command)
              /\ Len(SubSeq(Waiting, m, n)) = IF m <= n THEN n - m + 1 ELSE 0
              /\ \A i \in 1 .. n - m + 1 : SubSeq(Waiting, m, n)[i] = Waiting[m + i - 1]
            BY <3>3, SubSeqProperties
        <3>5. /\ u = SubSeq(Waiting, m, n) /\ n - m + 1 = s - g
              /\ (IF m <= n THEN n - m + 1 ELSE 0) = s - g
              /\ \A i \in 1 .. s - g : m + i - 1 = (g - r) + i
            BY <1>1, <1>4, <1>5, <3>1, <3>2
        <3> HIDE DEF u
        <3> QED
            BY <3>4, <3>5
    <2>4. ASSUME NEW i \in 1 .. s - g PROVE Waiting[(g - r) + i] = H[g + i]
        <3>1. (g - r) + i \in 1 .. s - r /\ r + ((g - r) + i) = g + i
            BY <1>1, <1>4, <1>5
        <3> QED
            BY <1>7, <3>1
    <2>5. ListsToDo \in Seq(Command)
        BY <1>1, <1>3, <1>4, <1>5, WindowIs
    <2> HIDE DEF u
    <2>6. u = ListsToDo
        <3>1. \A i \in 1 .. Len(u) : u[i] = ListsToDo[i]
            BY <1>6, <2>3, <2>4
        <3> QED
            BY <1>6, <2>3, <2>5, <3>1, SameSequence
    <2> QED
        BY <2>1, <2>6 DEF u
<1>9. TagMod \in Nat /\ TagMod > 0 /\ BufSize < TagMod /\ BufSize \in Nat
    BY Constants
<1>10. ASSUME NEW d \in 0 .. BufSize, NEW k \in Nat PROVE (((k + d) % TagMod) - (k % TagMod)) % TagMod = d
    <2> DEFINE u == k % TagMod
    <2>1. u \in 0 .. TagMod - 1
        BY <1>9, Divide
    <2>2. (k + d) % TagMod = IF u + d < TagMod THEN u + d ELSE u + d - TagMod
        <3>1. d \in 0 .. TagMod - 1 /\ k \in Int
            BY <1>9
        <3> QED
            BY <1>9, <3>1, Further
    <2> HIDE DEF u
    <2>3. d \in 0 .. TagMod - 1
        BY <1>9
    <2>4. (TagMod * 0 + d) % TagMod = d /\ (TagMod * (-1) + d) % TagMod = d
        BY <1>9, <2>3, Remainder
    <2>5. TagMod * 0 + d = d /\ TagMod * (-1) + d = d - TagMod
        BY <1>9
    <2>6. CASE u + d < TagMod
        <3>1. ((k + d) % TagMod) - u = d
            BY <1>9, <2>1, <2>2, <2>6
        <3> QED
            BY <2>4, <2>5, <3>1 DEF u
    <2>7. CASE ~(u + d < TagMod)
        <3>1. ((k + d) % TagMod) - u = d - TagMod
            BY <1>9, <2>1, <2>2, <2>7
        <3> QED
            BY <2>4, <2>5, <3>1 DEF u
    <2> QED
        BY <2>6, <2>7
<1>11. (finishCommandTag - finishedTag) % TagMod = f - r
    <2>1. f - r \in 0 .. BufSize /\ r + (f - r) = f
        BY <1>1, <1>9
    <2>2. (((r + (f - r)) % TagMod) - (r % TagMod)) % TagMod = f - r
        BY <1>1, <1>10, <2>1
    <2> QED
        BY <1>1, <2>1, <2>2
<1>12. (currentTag - 1 - finishedTag) % TagMod = s - r
    <2> DEFINE u == r % TagMod
               d == s - r
    <2>1. u \in 0 .. TagMod - 1
        BY <1>1, <1>9, Divide
    <2>2. d + 1 \in 0 .. TagMod - 1 /\ d \in 0 .. TagMod - 1 /\ r + (d + 1) = s + 1 /\ r \in Int
        BY <1>1, <1>2, Constants
    <2>3. currentTag = IF u + (d + 1) < TagMod THEN u + (d + 1) ELSE u + (d + 1) - TagMod
        <3>1. PICK c \in 0 .. TagMod - 1 : c = d + 1
            BY <2>2
        <3>2. (r + c) % TagMod = IF u + c < TagMod THEN u + c ELSE u + c - TagMod
            BY <1>9, <2>2, Further
        <3> HIDE DEF u, d
        <3>3. currentTag = (r + c) % TagMod
            BY <1>1, <2>2, <3>1
        <3> QED
            BY <3>1, <3>2, <3>3
    <2> HIDE DEF u, d
    <2>4. (TagMod * 0 + d) % TagMod = d /\ (TagMod * (-1) + d) % TagMod = d
        BY <1>9, <2>2, Remainder
    <2>5. TagMod * 0 + d = d /\ TagMod * (-1) + d = d - TagMod
        BY <1>9, <2>2
    <2>6. currentTag - 1 - u = d \/ currentTag - 1 - u = d - TagMod
        BY <1>9, <2>1, <2>2, <2>3
    <2>7. (currentTag - 1 - u) % TagMod = d
        BY <2>4, <2>5, <2>6
    <2> QED
        BY <1>1, <2>7 DEF u, d
<1>13. waitingCount - (Len(ListsToDo) + IF inList THEN 1 ELSE 0) = f - r /\ Len(ListsToDo) <= waitingCount
    BY <1>1, <1>2, <1>5, <1>6
<1> QED
    BY <1>2, <1>8, <1>11, <1>12, <1>13 DEF RepliesMatch

\* The queue has room for every list.
LEMMA ListsFit ==
    ASSUME NEW T, NEW b, NEW H, NEW place, NEW lo, NEW hi, NEW r, NEW s, NEW e, NEW f,
           Stand(T, b, H, place, lo, hi, r, s, e, f), Types
    PROVE  /\ mesgQueue \in Seq(Command) /\ Len(mesgQueue) = place[0] - Begun(f)
           /\ Begun(f) \in Nat /\ Begun(f) <= place[0] /\ place[0] <= s
           /\ Len(mesgQueue) <= BufSize
           /\ NoListLost
<1>1. /\ H \in [Nat -> Command] /\ r \in Nat /\ s \in Nat /\ f \in Nat /\ r <= f /\ f <= s
      /\ place \in [Nat -> Nat] /\ Travelling(H, s, f, place) /\ s - r <= BufSize
    BY DEF Stand, Numbered, Counted, Ringed
<1>2. /\ Begun(f) \in Nat /\ r <= Begun(f) /\ Begun(f) <= place[0] /\ place[0] <= s
    BY ListsToDoAre DEF Types
<1>3. mesgQueue = Window(H, Begun(f), place[0]) /\ place[0] \in Nat
    BY <1>1 DEF Travelling
<1>4. mesgQueue \in Seq(Command) /\ Len(mesgQueue) = place[0] - Begun(f)
    BY <1>1, <1>2, <1>3, WindowIs
<1>5. BufSize \in Nat
    BY Constants
<1>6. ASSUME fifo # << >>, Head(fifo) \in Command PROVE Len(mesgQueue) < BufSize
    <2>1. 1 \in 1 .. Len(fifo) /\ 1 \in 0 .. Len(fifo) /\ Head(fifo) = fifo[1] /\ 1 - 1 = 0
        BY <1>6 DEF Types
    <2>2. place[1] <= s /\ (fifo[1] = Request \/ place[1] = place[0] + 1)
        BY <1>1, <2>1 DEF Travelling
    <2>3. fifo[1] # Request
        BY <1>6, <2>1, Constants
    <2>4. place[1] \in Nat
        BY <1>1
    <2>5. place[0] + 1 <= s
        BY <2>2, <2>3
    <2>6. (place[0] - Begun(f)) + 1 <= s - r
        BY <1>1, <1>2, <1>3, <2>5
    <2> QED
        BY SMTT(30), <1>1, <1>2, <1>3, <1>4, <1>5, <2>6
<1>7. Len(mesgQueue) <= BufSize
    BY <1>1, <1>2, <1>3, <1>4, <1>5
<1> QED
    BY <1>2, <1>4, <1>6, <1>7 DEF NoListLost

LEMMA TypesAre ==
    ASSUME NEW T, NEW b, NEW H, NEW place, NEW lo, NEW hi, NEW r, NEW s, NEW e, NEW f,
           Stand(T, b, H, place, lo, hi, r, s, e, f), Types
    PROVE  TypeOK
<1>1. /\ T \in [Nat -> Command] /\ b \in [Nat -> Nat] /\ lo \in Nat /\ hi \in Nat
      /\ r \in Nat /\ s \in Nat /\ e \in Nat /\ f \in Nat /\ r <= f /\ f <= s
      /\ finishedTag = r % TagMod /\ currentTag = (s + 1) % TagMod /\ finishCommandTag = f % TagMod
      /\ waitingCount = s - r /\ s - r <= BufSize
      /\ Ends(T, b, lo, hi, r, s) /\ Executing(T, b, s, e, f) /\ Cuts(b, lo, hi, r, s)
    BY DEF Stand, Numbered, Counted, Ringed
<1>2. CutFacts(b, lo, hi, r, s)
    BY <1>1, CutsAre
<1>3. free \in [head : Link, end : Link] /\ reserve \in [head : Link, end : Link]
    <2>1. b[r] \in Nat /\ b[s] \in Nat /\ lo <= b[r] /\ b[s] <= hi
        BY <1>2 DEF CutFacts
    <2>2. /\ Foremost(T, lo, b[r]) \in Link /\ Rearmost(T, lo, b[r]) \in Link
          /\ Foremost(T, b[s], hi) \in Link /\ Rearmost(T, b[s], hi) \in Link
        BY <1>1, <2>1, ForemostIs
    <2> QED
        BY <1>1, <2>2 DEF Ends
<1>4. command_p \in Link
    <2>1. CASE inList
        <3>1. f + 1 \in r .. s /\ e <= b[f + 1] /\ command_p = Foremost(T, e, b[f + 1])
            BY <1>1, <2>1 DEF Executing
        <3>2. b[f + 1] \in Nat
            BY <1>2, <3>1 DEF CutFacts
        <3> QED
            BY <1>1, <3>1, <3>2, ForemostIs
    <2>2. CASE ~inList
        BY <1>1, <2>2 DEF Executing, Link
    <2> QED
        BY <2>1, <2>2
<1>5. waitingCount \in 0 .. BufSize
    BY <1>1, Constants
<1>6. {currentTag, finishedTag, finishCommandTag} \subseteq Tag
    <2>1. TagMod \in Nat /\ TagMod > 0
        BY Constants
    <2>2. ASSUME NEW k \in Nat PROVE k % TagMod \in Tag
        BY <2>1, Divide DEF Tag
    <2> QED
        BY <1>1, <2>2
<1>7. mesgQueue \in Seq(Command) /\ Len(mesgQueue) <= BufSize
    BY ListsFit
<1> QED
    BY <1>3, <1>4, <1>5, <1>6, <1>7 DEF TypeOK, Types

LEMMA Orderly ==
    ASSUME IInv
    PROVE  ListsAreOrderly /\ NotReusedEarly
<1>1. PICK T, b, H, place, lo, hi, r, s, e, f : Stand(T, b, H, place, lo, hi, r, s, e, f)
    BY DEF IInv, Lines, Standing
<1>2. Types
    BY DEF IInv, Lines, Standing
<1>3. TypeOK /\ CommandsConserved /\ RepliesMatch /\ NoListLost /\ NotReusedEarly
    BY <1>1, <1>2, TypesAre, Conserved, Replies, ListsFit, ReusedLate
<1> QED
    BY <1>3 DEF ListsAreOrderly

-----------------------------------------------------------------------------
(* The steps of the ARM9 and how they move the ends of the line.           *)

\* What Owing needs of a step that leaves the line's end and the ARM7 alone.
LEMMA OwedAsBefore ==
    ASSUME NEW T, NEW b, NEW hi, NEW s, NEW e, NEW f, Owing(T, b, hi, s, e, f),
           \A t \in Client : due'[t] = {} \/ (due'[t] = due[t] /\ tag'[t] = tag[t])
    PROVE  Owing(T, b, hi, s, e, f)'
BY DEF Owing

\* A client takes the first free command.
LEMMA TakeMoves ==
    ASSUME NEW T, NEW b, NEW H, NEW place, NEW lo, NEW hi, NEW r, NEW s, NEW e, NEW f,
           Stand(T, b, H, place, lo, hi, r, s, e, f), Types, NEW t \in Client, own[t] = NULL,
           Take(t), UNCHANGED <<mem, ringVars, fifo, arm7Vars>>,
           tag' \in [Client -> Tag \cup {NULL}], due' \in [Client -> SUBSET Command],
           \A u \in Client : due'[u] = {} \/ (due'[u] = due[u] /\ tag'[u] = tag[u])
    PROVE  /\ Types' /\ Stand(T, b, H, place, lo + 1, hi, r, s, e, f)'
           /\ own'[t] # NULL /\ \A u \in Client \ {t} : own'[u] = own[u]
<1>0. /\ Numbered(T, b, H, place, lo, hi, r, s, e, f) /\ Parted(T, lo, hi) /\ Cuts(b, lo, hi, r, s)
      /\ Linked(T, b, lo, hi, r, s) /\ Ends(T, b, lo, hi, r, s) /\ Written(T, b, r, s)
      /\ Heads(T, b, H, r, s) /\ Ringed(H, r, s) /\ Counted(r, s, f) /\ Executing(T, b, s, e, f)
      /\ Travelling(H, s, f, place) /\ Owing(T, b, hi, s, e, f)
    BY DEF Stand
<1>1. /\ T \in [Nat -> Command] /\ b \in [Nat -> Nat]
      /\ lo \in Nat /\ hi \in Nat /\ r \in Nat /\ s \in Nat
    BY <1>0 DEF Numbered
<1>2. CutFacts(b, lo, hi, r, s)
    BY <1>0, <1>1, CutsAre
<1>3. PICK m \in Nat : m = b[r]
    BY <1>2 DEF CutFacts
<1>4. PICK n \in Nat : n = b[s]
    BY <1>2 DEF CutFacts
<1>5. lo <= m /\ m <= n /\ n <= hi
    BY <1>2, <1>3, <1>4 DEF CutFacts
<1>6. free = [head |-> Foremost(T, lo, m), end |-> Rearmost(T, lo, m)]
    BY <1>0, <1>3 DEF Ends
<1>7. lo < m /\ free.head = T[lo + 1] /\ free.end = T[m] /\ T[lo + 1] \in Command
    <2>1. lo # m
        BY <1>1, <1>5, <1>6, ForemostIs DEF Take
    <2>2. Foremost(T, lo, m) = T[lo + 1] /\ Rearmost(T, lo, m) = T[m] /\ T[lo + 1] \in Command
        BY <1>1, <2>1 DEF Foremost, Rearmost
    <2> QED
        BY <1>1, <1>5, <1>6, <2>1, <2>2
<1>8. /\ next[T[lo + 1]] = Foremost(T, lo + 1, m)
      /\ (next[T[lo + 1]] = NULL) <=> (lo + 1 = m)
    <2>1. IsChain(next, T, lo, m)
        BY <1>0, <1>1, <1>3, LinksAre
    <2>2. lo + 1 \in lo + 1 .. m /\ lo + 1 \in Nat /\ lo + 1 <= m
        BY <1>1, <1>7
    <2>3. next[T[lo + 1]] = IF lo + 1 = m THEN NULL ELSE T[(lo + 1) + 1]
        BY <2>1, <2>2 DEF IsChain
    <2>4. (Foremost(T, lo + 1, m) = NULL) <=> (lo + 1 = m)
        BY ZenonT(40), <1>1, <2>2, ForemostIs
    <2> QED
        BY <2>3, <2>4 DEF Foremost
<1>9. /\ own' = [own EXCEPT ![t] = T[lo + 1]] /\ next' = next /\ reserve' = reserve
      /\ free' = FreeRest
    BY <1>7 DEF Take
<1>10. own'[t] = T[lo + 1] /\ own'[t] # NULL /\ \A u \in Client \ {t} : own'[u] = own[u]
    BY <1>7, <1>9, Constants DEF Types
<1>11. Parted(T, lo + 1, hi)'
    <2>1. lo + 1 <= hi
        BY <1>1, <1>5, <1>7
    <2>2. /\ OnceIn(T, lo, hi)
          /\ \A u \in Client : \A i \in lo + 1 .. hi : own[u] # T[i]
          /\ \A u, v \in Client : own[u] = own[v] /\ own[u] # NULL => u = v
          /\ \A c \in Command : (\E i \in lo + 1 .. hi : T[i] = c) \/ (\E u \in Client : own[u] = c)
        BY <1>0 DEF Parted
    <2>3. /\ \A i \in (lo + 1) + 1 .. hi : i \in lo + 1 .. hi /\ i # lo + 1
          /\ lo + 1 \in lo + 1 .. hi
          /\ \A i \in lo + 1 .. hi : i = lo + 1 \/ i \in (lo + 1) + 1 .. hi
        BY <1>1, <2>1
    <2>4. OnceIn(T, lo + 1, hi)
        BY <2>2, <2>3 DEF OnceIn
    <2>5. ASSUME NEW u \in Client, NEW i \in (lo + 1) + 1 .. hi PROVE own'[u] # T[i]
        <3>1. T[i] # T[lo + 1]
            BY <2>2, <2>3 DEF OnceIn
        <3> QED
            BY <1>10, <2>2, <2>3, <3>1
    <2>6. ASSUME NEW u \in Client, NEW v \in Client, own'[u] = own'[v], own'[u] # NULL PROVE u = v
        <3>1. \A w \in Client : own[w] # T[lo + 1]
            BY <2>2, <2>3
        <3> QED
            BY <1>10, <2>2, <2>6, <3>1
    <2>7. ASSUME NEW c \in Command
          PROVE  (\E i \in (lo + 1) + 1 .. hi : T[i] = c) \/ (\E u \in Client : own'[u] = c)
        <3>1. CASE \E i \in lo + 1 .. hi : T[i] = c
            BY <1>10, <2>3, <3>1
        <3>2. CASE \E u \in Client : own[u] = c
            <4>1. PICK u \in Client : own[u] = c
                BY <3>2
            <4>2. u # t
                BY <4>1, Constants
            <4> QED
                BY <1>10, <4>1, <4>2
        <3> QED
            BY <2>2, <3>1, <3>2
    <2> QED
        BY <2>1, <2>4, <2>5, <2>6, <2>7 DEF Parted
<1>12. Cuts(b, lo + 1, hi, r, s)
    <2>1. lo + 1 <= b[r]
        BY <1>1, <1>3, <1>7
    <2> QED
        BY <1>0, <2>1 DEF Cuts
<1>13. Linked(T, b, lo + 1, hi, r, s)'
    <2>1. \A i \in (lo + 1) + 1 .. hi : i \in lo + 1 .. hi
        BY <1>1
    <2> QED
        BY <1>0, <1>9, <2>1 DEF Linked
<1>14. Ends(T, b, lo + 1, hi, r, s)'
    <2>1. free' = [head |-> Foremost(T, lo + 1, m), end |-> IF lo + 1 = m THEN NULL ELSE T[m]]
        <3>1. FreeRest = [head |-> next[T[lo + 1]], end |-> IF next[T[lo + 1]] = NULL THEN NULL ELSE T[m]]
            BY <1>7 DEF FreeRest
        <3>2. (IF next[T[lo + 1]] = NULL THEN NULL ELSE T[m]) = IF lo + 1 = m THEN NULL ELSE T[m]
            BY <1>8
        <3> QED
            BY <1>8, <1>9, <3>1, <3>2
    <2>2. free' = [head |-> Foremost(T, lo + 1, m), end |-> Rearmost(T, lo + 1, m)]
        BY <2>1 DEF Rearmost
    <2> QED
        BY <1>0, <1>3, <1>9, <2>2 DEF Ends
<1>15. Written(T, b, r, s)'
    BY <1>0, <1>9 DEF Written
<1>16. Ringed(H, r, s)' /\ Counted(r, s, f)' /\ Executing(T, b, s, e, f)'
    BY <1>0 DEF Ringed, Counted, Executing, ringVars, arm7Vars
<1>17. Travelling(H, s, f, place)'
    BY <1>0 DEF Travelling, Begun, arm7Vars
<1>18. Owing(T, b, hi, s, e, f)'
    BY <1>0, OwedAsBefore
<1>19. Types'
    <2>1. own' \in [Client -> Link]
        BY <1>7, <1>9 DEF Types, Link
    <2> QED
        BY <1>9, <2>1 DEF Types, ringVars, arm7Vars
<1>20. Numbered(T, b, H, place, lo + 1, hi, r, s, e, f)
    BY <1>0 DEF Numbered
<1>21. Stand(T, b, H, place, lo + 1, hi, r, s, e, f)'
    BY <1>0, <1>11, <1>12, <1>13, <1>14, <1>15, <1>16, <1>17, <1>18, <1>20 DEF Stand
<1> QED
    BY <1>10, <1>19, <1>21

\* A client pushes its command to the end of the line.
LEMMA PushMoves ==
    ASSUME NEW T, NEW b, NEW H, NEW place, NEW lo, NEW hi, NEW r, NEW s, NEW e, NEW f,
           Stand(T, b, H, place, lo, hi, r, s, e, f), Types, NEW t \in Client,
           PushCommand(t), NEW U, U = [T EXCEPT ![hi + 1] = own[t]]
    PROVE  Types' /\ Stand(U, b, H, place, lo, hi + 1, r, s, e, f)' /\ own[t] \in Command
<1>0. /\ Numbered(T, b, H, place, lo, hi, r, s, e, f) /\ Parted(T, lo, hi) /\ Cuts(b, lo, hi, r, s)
      /\ Linked(T, b, lo, hi, r, s) /\ Ends(T, b, lo, hi, r, s) /\ Written(T, b, r, s)
      /\ Heads(T, b, H, r, s) /\ Ringed(H, r, s) /\ Counted(r, s, f) /\ Executing(T, b, s, e, f)
      /\ Travelling(H, s, f, place) /\ Owing(T, b, hi, s, e, f)
    BY DEF Stand
<1>1. /\ T \in [Nat -> Command] /\ b \in [Nat -> Nat]
      /\ lo \in Nat /\ hi \in Nat /\ r \in Nat /\ s \in Nat /\ e \in Nat /\ f \in Nat
    BY <1>0 DEF Numbered
<1>2. CutFacts(b, lo, hi, r, s)
    BY <1>0, <1>1, CutsAre
<1>3. PICK m \in Nat : m = b[r]
    BY <1>2 DEF CutFacts
<1>4. PICK n \in Nat : n = b[s]
    BY <1>2 DEF CutFacts
<1>5. lo <= m /\ m <= n /\ n <= hi
    BY <1>2, <1>3, <1>4 DEF CutFacts
<1>6. PICK c \in Command : c = own[t]
    BY DEF PushCommand, Types, Link
<1>7. /\ U \in [Nat -> Command] /\ U[hi + 1] = c
      /\ \A i \in Nat : i # hi + 1 => U[i] = T[i]
    BY <1>1, <1>6
<1>8. ASSUME NEW i \in lo + 1 .. hi
      PROVE  i \in Nat /\ i # hi + 1 /\ i \in lo + 1 .. hi + 1 /\ U[i] = T[i] /\ T[i] \in Command /\ T[i] # c
    <2>1. i \in Nat /\ i # hi + 1 /\ i \in lo + 1 .. hi + 1
        BY <1>1
    <2>2. T[i] # own[t]
        BY <1>0 DEF Parted
    <2> QED
        BY <1>1, <1>6, <1>7, <2>1, <2>2
<1>9. /\ reserve = [head |-> Foremost(T, n, hi), end |-> Rearmost(T, n, hi)]
      /\ (reserve.end = NULL) <=> (n = hi)
      /\ n # hi => reserve.end = T[hi] /\ reserve.head = T[n + 1] /\ hi \in lo + 1 .. hi
    <2>1. reserve = [head |-> Foremost(T, n, hi), end |-> Rearmost(T, n, hi)]
        BY <1>0, <1>4 DEF Ends
    <2>2. (Rearmost(T, n, hi) = NULL) <=> (n = hi)
        BY <1>1, <1>5, ForemostIs
    <2>3. n # hi => hi \in lo + 1 .. hi
        BY <1>1, <1>5
    <2> QED
        BY <2>1, <2>2, <2>3 DEF Foremost, Rearmost
<1>10. /\ own' = [own EXCEPT ![t] = NULL] /\ free' = free
       /\ next' = IF n = hi THEN [next EXCEPT ![c] = NULL]
                  ELSE [next EXCEPT ![T[hi]] = c, ![c] = NULL]
       /\ reserve' = [head |-> IF n = hi THEN c ELSE reserve.head, end |-> c]
       /\ UNCHANGED <<call, tag, due, mem, ringVars, fifo, arm7Vars>>
    BY <1>6, <1>9 DEF PushCommand
<1>11. /\ own'[t] = NULL /\ \A u \in Client \ {t} : own'[u] = own[u]
       /\ next'[c] = NULL
       /\ n # hi => next'[T[hi]] = c
       /\ \A x \in Command : x # c /\ (n = hi \/ x # T[hi]) => next'[x] = next[x]
       /\ next' \in [Command -> Link]
    <2>1. own'[t] = NULL /\ \A u \in Client \ {t} : own'[u] = own[u]
        BY <1>10 DEF Types
    <2>2. CASE n = hi
        <3>1. next' = [next EXCEPT ![c] = NULL]
            BY <1>10, <2>2
        <3> QED
            BY <2>1, <2>2, <3>1 DEF Types, Link
    <2>3. CASE n # hi
        <3>1. next' = [next EXCEPT ![T[hi]] = c, ![c] = NULL]
            BY <1>10, <2>3
        <3>2. T[hi] \in Command /\ T[hi] # c
            BY <1>8, <1>9, <2>3
        <3>3. next'[c] = NULL /\ next'[T[hi]] = c /\ next' \in [Command -> Link]
            BY <3>1, <3>2 DEF Types, Link
        <3>4. \A x \in Command : x # c /\ x # T[hi] => next'[x] = next[x]
            BY <3>1, <3>2 DEF Types
        <3> QED
            BY <2>1, <2>3, <3>3, <3>4
    <2> QED
        BY <2>2, <2>3
<1>12. Parted(U, lo, hi + 1)'
    <2>1. /\ OnceIn(T, lo, hi) /\ lo <= hi
          /\ \A u \in Client : \A i \in lo + 1 .. hi : own[u] # T[i]
          /\ \A u, v \in Client : own[u] = own[v] /\ own[u] # NULL => u = v
          /\ \A x \in Command : (\E i \in lo + 1 .. hi : T[i] = x) \/ (\E u \in Client : own[u] = x)
        BY <1>0 DEF Parted
    <2>2. /\ \A i \in lo + 1 .. hi + 1 : i = hi + 1 \/ i \in lo + 1 .. hi
          /\ hi + 1 \in lo + 1 .. hi + 1 /\ lo <= hi + 1
        BY <1>1, <2>1
    <2>3. OnceIn(U, lo, hi + 1)
        <3>1. \A i, j \in lo + 1 .. hi : U[i] = U[j] => i = j
            BY <1>8, <2>1 DEF OnceIn
        <3>2. \A i \in lo + 1 .. hi : U[i] # U[hi + 1]
            BY <1>7, <1>8
        <3> QED
            BY <2>2, <3>1, <3>2 DEF OnceIn
    <2>4. ASSUME NEW u \in Client, NEW i \in lo + 1 .. hi + 1 PROVE own'[u] # U[i]
        <3>1. c # NULL
            BY Constants
        <3>2. CASE i = hi + 1
            <4>1. u # t => own[u] # c
                BY <1>6, <2>1, <3>1
            <4> QED
                BY <1>7, <1>11, <3>1, <3>2, <4>1
        <3>3. CASE i \in lo + 1 .. hi
            <4>1. U[i] = T[i] /\ T[i] # NULL /\ own[u] # T[i]
                BY <1>8, <2>1, <3>3, Constants
            <4> QED
                BY <1>11, <4>1
        <3> QED
            BY <2>2, <3>2, <3>3
    <2>5. ASSUME NEW u \in Client, NEW v \in Client, own'[u] = own'[v], own'[u] # NULL PROVE u = v
        BY <1>11, <2>1, <2>5
    <2>6. ASSUME NEW x \in Command
          PROVE  (\E i \in lo + 1 .. hi + 1 : U[i] = x) \/ (\E u \in Client : own'[u] = x)
        <3>1. CASE x = c
            BY <1>7, <2>2, <3>1
        <3>2. CASE x # c
            <4>1. CASE \E i \in lo + 1 .. hi : T[i] = x
                BY <1>8, <4>1
            <4>2. CASE \E u \in Client : own[u] = x
                <5>1. PICK u \in Client : own[u] = x
                    BY <4>2
                <5>2. u # t
                    BY <1>6, <3>2, <5>1
                <5> QED
                    BY <1>11, <5>1, <5>2
            <4> QED
                BY <2>1, <4>1, <4>2
        <3> QED
            BY <3>1, <3>2
    <2> QED
        BY <2>2, <2>3, <2>4, <2>5, <2>6 DEF Parted
<1>13. Cuts(b, lo, hi + 1, r, s)
    <2>1. b[s] <= hi + 1
        BY <1>1, <1>4, <1>5
    <2> QED
        BY <1>0, <2>1 DEF Cuts
<1>14. Linked(U, b, lo, hi + 1, r, s)'
    <2> SUFFICES ASSUME NEW i \in lo + 1 .. hi + 1
                 PROVE  next'[U[i]] = IF i = hi + 1 \/ IsCut(b, r, s, i) THEN NULL ELSE U[i + 1]
        BY DEF Linked
    <2>1. CASE i = hi + 1
        BY <1>7, <1>11, <2>1
    <2>2. CASE i \in lo + 1 .. hi /\ i # hi
        <3>1. i + 1 \in lo + 1 .. hi /\ i # hi + 1
            BY <1>1, <2>2
        <3>2. next[T[i]] = IF i = hi \/ IsCut(b, r, s, i) THEN NULL ELSE T[i + 1]
            BY <1>0, <2>2 DEF Linked
        <3>3. U[i] = T[i] /\ U[i + 1] = T[i + 1] /\ T[i] \in Command /\ T[i] # c
            BY <1>8, <2>2, <3>1
        <3>4. n = hi \/ T[i] # T[hi]
            <4>1. n # hi => hi \in lo + 1 .. hi
                BY <1>9
            <4> QED
                BY <1>0, <2>2, <4>1 DEF Parted, OnceIn
        <3>5. next'[T[i]] = next[T[i]]
            BY <1>11, <3>3, <3>4
        <3> QED
            BY <2>2, <3>1, <3>2, <3>3, <3>5
    <2>3. CASE i = hi /\ i \in lo + 1 .. hi
        <3>1. U[i] = T[hi] /\ T[hi] \in Command /\ T[hi] # c /\ i # hi + 1 /\ U[i + 1] = c
            BY <1>7, <1>8, <2>3
        <3>2. CASE n = hi
            <4>1. IsCut(b, r, s, i)
                BY <1>2, <1>4, <2>3, <3>2 DEF IsCut, CutFacts
            <4>2. next[T[i]] = NULL
                BY <1>0, <2>3, <4>1 DEF Linked
            <4>3. next'[T[i]] = next[T[i]]
                BY <1>11, <2>3, <3>1, <3>2
            <4> QED
                BY <2>3, <3>1, <4>1, <4>2, <4>3
        <3>3. CASE n # hi
            <4>1. ~IsCut(b, r, s, i)
                <5>1. \A k \in r .. s : b[k] \in Nat /\ b[k] <= n
                    BY <1>2, <1>4 DEF CutFacts
                <5>2. n < hi
                    BY <1>1, <1>5, <3>3
                <5> QED
                    BY <1>1, <2>3, <5>1, <5>2 DEF IsCut
            <4> QED
                BY <1>11, <2>3, <3>1, <3>3, <4>1
        <3> QED
            BY <3>2, <3>3
    <2> QED
        BY <1>1, <2>1, <2>2, <2>3
<1>15. Ends(U, b, lo, hi + 1, r, s)'
    <2>1. Foremost(U, lo, m) = Foremost(T, lo, m) /\ Rearmost(U, lo, m) = Rearmost(T, lo, m)
        <3>1. lo # m => lo + 1 \in Nat /\ lo + 1 # hi + 1 /\ m \in Nat /\ m # hi + 1
            BY <1>1, <1>5
        <3> QED
            BY <1>7, <3>1 DEF Foremost, Rearmost
    <2>2. Foremost(U, n, hi + 1) = (IF n = hi THEN c ELSE reserve.head) /\ Rearmost(U, n, hi + 1) = c
        <3>1. n # hi + 1 /\ n + 1 \in Nat
            BY <1>1, <1>5
        <3>2. n # hi => n + 1 # hi + 1 /\ U[n + 1] = T[n + 1]
            BY <1>1, <1>7, <3>1
        <3>3. n = hi => U[n + 1] = c
            BY <1>7
        <3> QED
            BY <1>7, <1>9, <3>1, <3>2, <3>3 DEF Foremost, Rearmost
    <2>3. free = [head |-> Foremost(T, lo, m), end |-> Rearmost(T, lo, m)]
        BY <1>0, <1>3 DEF Ends
    <2> QED
        BY <1>3, <1>4, <1>10, <2>1, <2>2, <2>3 DEF Ends
<1>16. Written(U, b, r, s)'
    <2> SUFFICES ASSUME NEW i \in m + 1 .. n PROVE mem[U[i]] = next'[U[i]]
        BY <1>3, <1>4, <1>10 DEF Written
    <2>1. i \in lo + 1 .. hi
        BY <1>1, <1>5
    <2>2. U[i] = T[i] /\ T[i] \in Command /\ T[i] # c
        BY <1>8, <2>1
    <2>3. n = hi \/ T[i] # T[hi]
        <3>1. n # hi => hi \in lo + 1 .. hi /\ i # hi
            BY <1>1, <1>5, <1>9
        <3> QED
            BY <1>0, <2>1, <3>1 DEF Parted, OnceIn
    <2>4. mem[T[i]] = next[T[i]]
        BY <1>0, <1>3, <1>4 DEF Written
    <2> QED
        BY <1>11, <2>2, <2>3, <2>4
<1>17. Heads(U, b, H, r, s)
    <2> SUFFICES ASSUME NEW k \in r + 1 .. s PROVE H[k] = U[b[k - 1] + 1]
        BY DEF Heads
    <2>1. b[k - 1] \in Nat /\ b[k] \in Nat /\ b[k - 1] < b[k] /\ b[k] <= hi
        BY <1>1, <1>2 DEF CutFacts
    <2>2. b[k - 1] + 1 \in Nat /\ b[k - 1] + 1 # hi + 1
        BY <1>1, <2>1
    <2> QED
        BY <1>0, <1>7, <2>2 DEF Heads
<1>18. Ringed(H, r, s)' /\ Counted(r, s, f)'
    BY <1>0, <1>10 DEF Ringed, Counted, ringVars, arm7Vars
<1>19. Executing(U, b, s, e, f)'
    <2>1. CASE inList
        <3>1. f + 1 \in r .. s /\ b[f] <= e /\ e <= b[f + 1] /\ f < s
            BY <1>0, <1>1, <2>1 DEF Executing, Counted
        <3>2. b[f + 1] \in Nat /\ b[f + 1] <= hi
            BY <1>2, <3>1 DEF CutFacts
        <3>3. e # b[f + 1] => e + 1 \in Nat /\ e + 1 # hi + 1
            BY <1>1, <3>1, <3>2
        <3>4. Foremost(U, e, b[f + 1]) = Foremost(T, e, b[f + 1])
            BY <1>7, <3>3 DEF Foremost
        <3> QED
            BY <1>0, <1>10, <2>1, <3>4 DEF Executing, arm7Vars
    <2>2. CASE ~inList
        BY <1>0, <1>10, <2>2 DEF Executing, arm7Vars
    <2> QED
        BY <2>1, <2>2
<1>20. Travelling(H, s, f, place)'
    BY <1>0, <1>10 DEF Travelling, Begun, arm7Vars
<1>21. Owing(U, b, hi + 1, s, e, f)'
    <2> SUFFICES ASSUME NEW u \in Client, due[u] # {}
                 PROVE  \E k \in f + 1 .. s + 1 :
                           /\ tag[u] = k % TagMod
                           /\ \A x \in due[u] : \E i \in e + 1 .. (IF k <= s THEN b[k] ELSE hi + 1) : U[i] = x
        BY <1>10 DEF Owing
    <2>1. PICK k \in f + 1 .. s + 1 :
             /\ tag[u] = k % TagMod
             /\ \A x \in due[u] : \E i \in e + 1 .. (IF k <= s THEN b[k] ELSE hi) : T[i] = x
        BY <1>0 DEF Owing
    <2>2. ASSUME NEW x \in due[u]
          PROVE  \E i \in e + 1 .. (IF k <= s THEN b[k] ELSE hi + 1) : U[i] = x
        <3>1. PICK i \in e + 1 .. (IF k <= s THEN b[k] ELSE hi) : T[i] = x
            BY <2>1, <2>2
        <3>2. k <= s => b[k] \in Nat /\ b[k] <= hi
            <4>1. k <= s => k \in r .. s
                BY <1>0, <1>1 DEF Counted
            <4> QED
                BY <1>2, <4>1 DEF CutFacts
        <3>3. i \in Nat /\ i # hi + 1 /\ i \in e + 1 .. (IF k <= s THEN b[k] ELSE hi + 1)
            BY <1>1, <3>1, <3>2
        <3> QED
            BY <1>7, <3>1, <3>3
    <2> QED
        BY <2>1, <2>2
<1>22. Types'
    <2>1. own' \in [Client -> Link]
        BY <1>10 DEF Types, Link
    <2> QED
        BY <1>10, <1>11, <2>1 DEF Types, ringVars, arm7Vars
<1>23. Numbered(U, b, H, place, lo, hi + 1, r, s, e, f)
    BY <1>0, <1>7 DEF Numbered
<1>24. Stand(U, b, H, place, lo, hi + 1, r, s, e, f)'
    BY <1>12, <1>13, <1>14, <1>15, <1>16, <1>17, <1>18, <1>19, <1>20, <1>21, <1>23 DEF Stand
<1> QED
    BY <1>6, <1>22, <1>24

\* The first list that waits comes back: its cut goes from the line.
LEMMA RecvMoves ==
    ASSUME NEW T, NEW b, NEW H, NEW place, NEW lo, NEW hi, NEW r, NEW s, NEW e, NEW f,
           Stand(T, b, H, place, lo, hi, r, s, e, f), Types,
           ReplyReady, RecvReply, UNCHANGED <<own, tag, due, arm7Vars>>
    PROVE  /\ Types' /\ Stand(T, b, H, place, lo, hi, r + 1, s, e, f)'
           /\ waitingCount' = waitingCount - 1 /\ reserve' = reserve /\ waitingCount' < BufSize
<1>0. /\ Numbered(T, b, H, place, lo, hi, r, s, e, f) /\ Parted(T, lo, hi) /\ Cuts(b, lo, hi, r, s)
      /\ Linked(T, b, lo, hi, r, s) /\ Ends(T, b, lo, hi, r, s) /\ Written(T, b, r, s)
      /\ Heads(T, b, H, r, s) /\ Ringed(H, r, s) /\ Counted(r, s, f) /\ Executing(T, b, s, e, f)
      /\ Travelling(H, s, f, place) /\ Owing(T, b, hi, s, e, f)
    BY DEF Stand
<1>1. /\ T \in [Nat -> Command] /\ b \in [Nat -> Nat] /\ H \in [Nat -> Command]
      /\ lo \in Nat /\ hi \in Nat /\ r \in Nat /\ s \in Nat /\ e \in Nat /\ f \in Nat
    BY <1>0 DEF Numbered
<1>2. CutFacts(b, lo, hi, r, s)
    BY <1>0, <1>1, CutsAre
<1>3. r < f /\ f <= s /\ r + 1 \in r + 1 .. s /\ r + 1 \in r .. s /\ (r + 1) - 1 = r
    <2>1. r # f
        BY <1>0 DEF Counted, ReplyReady
    <2> QED
        BY <1>0, <1>1, <2>1 DEF Counted
<1>4. PICK m \in Nat : m = b[r]
    BY <1>2 DEF CutFacts
<1>5. PICK k \in Nat : k = b[r + 1]
    BY <1>2, <1>3 DEF CutFacts
<1>6. lo <= m /\ m < k /\ k <= hi /\ k <= b[s] /\ b[s] \in Nat /\ b[s] <= hi
    BY <1>2, <1>3, <1>4, <1>5 DEF CutFacts
<1>7. /\ BufSize \in Nat /\ BufSize > 0 /\ TagMod \in Nat /\ TagMod > 1 /\ BufSize + 1 > 1
      /\ BufSize + 1 \in Nat /\ (BufSize + 1) - 1 = BufSize
    BY Constants
<1>8. /\ ring.read = r % (BufSize + 1) /\ ring.write = s % (BufSize + 1)
      /\ waitingCount = s - r /\ s - r <= BufSize
      /\ \A n \in r + 1 .. s : ring.slot[(n - 1) % (BufSize + 1)] = H[n]
    BY <1>0 DEF Ringed
<1> DEFINE list == ring.slot[ring.read]
<1>9. /\ list = T[m + 1] /\ Last(Chain(next, list)) = T[k]
      /\ T[m + 1] \in Command /\ T[k] \in Command
    <2>1. list = H[r + 1]
        BY <1>3, <1>8
    <2>2. H[r + 1] = Foremost(T, m, k) /\ Chain(next, H[r + 1]) = Window(T, m, k)
        BY <1>3, <1>4, <1>5, ChainsAre DEF Types
    <2>3. Last(Window(T, m, k)) = T[k]
        <3>1. m <= k
            BY <1>6
        <3> QED
            BY <1>1, <1>6, <3>1, WindowMembers
    <2>4. Foremost(T, m, k) = T[m + 1]
        BY <1>6 DEF Foremost
    <2> QED
        BY <1>1, <2>1, <2>2, <2>3, <2>4
<1> HIDE DEF list
<1>10. /\ free = [head |-> Foremost(T, lo, m), end |-> Rearmost(T, lo, m)]
       /\ (free.end = NULL) <=> (lo = m)
       /\ lo # m => free.end = T[m] /\ free.head = T[lo + 1] /\ m \in lo + 1 .. hi
    <2>1. free = [head |-> Foremost(T, lo, m), end |-> Rearmost(T, lo, m)]
        BY <1>0, <1>4 DEF Ends
    <2>2. (Rearmost(T, lo, m) = NULL) <=> (lo = m)
        BY <1>1, <1>6, ForemostIs
    <2>3. lo # m => m \in lo + 1 .. hi
        BY <1>1, <1>6
    <2> QED
        BY <2>1, <2>2, <2>3 DEF Foremost, Rearmost
<1>11. /\ next' = IF lo # m THEN [next EXCEPT ![T[m]] = T[m + 1]] ELSE next
       /\ free' = [head |-> IF lo # m THEN T[lo + 1] ELSE T[m + 1], end |-> T[k]]
       /\ ring' = [ring EXCEPT !.slot[ring.read] = NULL, !.read = NextSlot(ring.read)]
       /\ waitingCount' = waitingCount - 1 /\ finishedTag' = NextTag(finishedTag)
       /\ UNCHANGED <<reserve, currentTag, mem, fifo>>
    BY <1>9, <1>10 DEF RecvReply, TagReceived, list
<1>12. /\ next' \in [Command -> Link]
       /\ lo # m => next'[T[m]] = T[m + 1]
       /\ \A x \in Command : lo = m \/ x # T[m] => next'[x] = next[x]
    <2>1. CASE lo = m
        BY <1>11, <2>1 DEF Types
    <2>2. CASE lo # m
        <3>1. next' = [next EXCEPT ![T[m]] = T[m + 1]] /\ T[m] \in Command
            BY <1>1, <1>11, <2>2
        <3> QED
            BY <1>9, <2>2, <3>1 DEF Types, Link
    <2> QED
        BY <2>1, <2>2
<1>13. Parted(T, lo, hi)'
    BY <1>0 DEF Parted
<1>14. Cuts(b, lo, hi, r + 1, s)
    <2>1. \A n \in r + 1 .. s : n \in r .. s
        BY <1>1
    <2> QED
        BY <1>0, <1>1, <1>3, <1>5, <1>6, <2>1 DEF Cuts
<1>15. Linked(T, b, lo, hi, r + 1, s)'
    <2> SUFFICES ASSUME NEW i \in lo + 1 .. hi
                 PROVE  next'[T[i]] = IF i = hi \/ IsCut(b, r + 1, s, i) THEN NULL ELSE T[i + 1]
        BY DEF Linked
    <2>1. next[T[i]] = IF i = hi \/ IsCut(b, r, s, i) THEN NULL ELSE T[i + 1]
        BY <1>0 DEF Linked
    <2>2. T[i] \in Command
        BY <1>1
    <2>3. CASE i = m
        <3>1. lo # m /\ i # hi
            BY <1>1, <1>6, <2>3
        <3>2. ~IsCut(b, r + 1, s, i)
            <4>1. ASSUME NEW n \in r + 1 .. s, b[n] = i PROVE FALSE
                <5>1. n = r + 1 \/ b[r + 1] < b[n]
                    <6>1. n \in r .. s /\ (n = r + 1 \/ r + 1 < n)
                        BY <1>1
                    <6> QED
                        BY <1>0, <1>3, <6>1 DEF Cuts
                <5> QED
                    BY <1>5, <1>6, <2>3, <4>1, <5>1
            <4> QED
                BY <4>1 DEF IsCut
        <3> QED
            BY <1>12, <2>3, <3>1, <3>2
    <2>4. CASE i # m
        <3>1. IsCut(b, r + 1, s, i) <=> IsCut(b, r, s, i)
            <4>1. \A n \in r .. s : n = r \/ n \in r + 1 .. s
                BY <1>1
            <4>2. \A n \in r + 1 .. s : n \in r .. s
                BY <1>1
            <4> QED
                BY <1>4, <2>4, <4>1, <4>2 DEF IsCut
        <3>2. lo = m \/ T[i] # T[m]
            BY <1>0, <1>10, <2>4 DEF Parted, OnceIn
        <3> QED
            BY <1>12, <2>1, <2>2, <3>1, <3>2
    <2> QED
        BY <2>3, <2>4
<1>16. Ends(T, b, lo, hi, r + 1, s)'
    <2>1. free' = [head |-> Foremost(T, lo, k), end |-> Rearmost(T, lo, k)]
        <3>1. lo # k
            BY <1>1, <1>6
        <3> QED
            BY <1>11, <3>1 DEF Foremost, Rearmost
    <2> QED
        BY <1>0, <1>5, <1>11, <2>1 DEF Ends
<1>17. Written(T, b, r + 1, s)'
    <2> SUFFICES ASSUME NEW i \in k + 1 .. b[s] PROVE mem[T[i]] = next'[T[i]]
        BY <1>5, <1>11 DEF Written
    <2>1. i \in m + 1 .. b[s] /\ i \in lo + 1 .. hi /\ i # m
        BY <1>1, <1>6
    <2>2. T[i] \in Command /\ mem[T[i]] = next[T[i]]
        BY <1>0, <1>1, <1>4, <2>1 DEF Written
    <2>3. lo = m \/ T[i] # T[m]
        BY <1>0, <1>10, <2>1 DEF Parted, OnceIn
    <2> QED
        BY <1>12, <2>2, <2>3
<1>18. Heads(T, b, H, r + 1, s)
    <2>1. \A n \in (r + 1) + 1 .. s : n \in r + 1 .. s
        BY <1>1
    <2> QED
        BY <1>0, <2>1 DEF Heads
<1>19. /\ ring.read \in Slot /\ ring.slot \in [Slot -> Link] /\ ring.write \in Slot
       /\ ring = [slot |-> ring.slot, read |-> ring.read, write |-> ring.write]
    BY DEF Types
<1>20. NextSlot(ring.read) = (r + 1) % (BufSize + 1) /\ NextSlot(ring.read) \in Slot
    <2>1. (r + 1) % (BufSize + 1) = IF (r % (BufSize + 1)) + 1 > (BufSize + 1) - 1 THEN 0
                                    ELSE (r % (BufSize + 1)) + 1
        BY <1>1, <1>7, NextRemainder
    <2> QED
        BY <1>7, <1>8, <1>19, <2>1 DEF NextSlot, Slot
<1>21. Ringed(H, r + 1, s)'
    <2>1. /\ ring'.read = (r + 1) % (BufSize + 1) /\ ring'.write = s % (BufSize + 1)
          /\ \A i \in Slot : i # ring.read => ring'.slot[i] = ring.slot[i]
        BY <1>8, <1>11, <1>19, <1>20
    <2>2. waitingCount' = s - (r + 1) /\ s - (r + 1) <= BufSize
        BY <1>1, <1>7, <1>8, <1>11
    <2>3. ASSUME NEW n \in (r + 1) + 1 .. s PROVE ring'.slot[(n - 1) % (BufSize + 1)] = H[n]
        <3>1. /\ n \in r + 1 .. s /\ n - 1 \in Nat /\ r <= n - 1 /\ n - 1 # r
              /\ (n - 1) - r < BufSize + 1
            BY <1>1, <1>7, <1>8
        <3>2. (n - 1) % (BufSize + 1) # r % (BufSize + 1)
            <4>1. PICK j \in Nat : j = n - 1
                BY <3>1
            <4>2. j % (BufSize + 1) # r % (BufSize + 1)
                BY <1>1, <1>7, <3>1, <4>1, SameRemainder
            <4> QED
                BY <4>1, <4>2
        <3>3. (n - 1) % (BufSize + 1) \in Slot
            BY <1>7, <3>1, NextRemainder DEF Slot
        <3> QED
            BY <1>8, <2>1, <3>1, <3>2, <3>3
    <2> QED
        BY <2>1, <2>2, <2>3 DEF Ringed
<1>22. Counted(r + 1, s, f)'
    <2>1. finishedTag' = (r + 1) % TagMod
        <3>1. ((r % TagMod) + 1) % TagMod = (r + 1) % TagMod
            BY <1>1, <1>7, NextRemainder
        <3> QED
            BY <1>0, <1>11, <3>1 DEF Counted, NextTag
    <2>2. r + 1 <= f
        BY <1>1, <1>3
    <2> QED
        BY <1>0, <1>11, <2>1, <2>2 DEF Counted, arm7Vars
<1>23. Executing(T, b, s, e, f)' /\ Travelling(H, s, f, place)' /\ Owing(T, b, hi, s, e, f)'
    <2>1. Executing(T, b, s, e, f)'
        BY <1>0 DEF Executing, arm7Vars
    <2>2. Travelling(H, s, f, place)'
        BY <1>0, <1>11 DEF Travelling, Begun, arm7Vars
    <2>3. Owing(T, b, hi, s, e, f)'
        BY <1>0 DEF Owing
    <2> QED
        BY <2>1, <2>2, <2>3
<1>24. Types'
    <2>1. ring' \in [slot : [Slot -> Link], read : Slot, write : Slot]
        BY <1>11, <1>19, <1>20 DEF Link
    <2> QED
        BY <1>11, <1>12, <2>1 DEF Types, arm7Vars
<1>25. Numbered(T, b, H, place, lo, hi, r + 1, s, e, f)
    BY <1>0 DEF Numbered
<1>26. Stand(T, b, H, place, lo, hi, r + 1, s, e, f)'
    BY <1>13, <1>14, <1>15, <1>16, <1>17, <1>18, <1>21, <1>22, <1>23, <1>25 DEF Stand
<1>27. waitingCount' < BufSize
    BY <1>1, <1>7, <1>8, <1>11
<1> QED
    BY <1>11, <1>24, <1>26, <1>27

Put(g, k, v) == [g EXCEPT ![k] = v]

\* The list s + 1 ends at the end of the line, and the next word of the FIFO brings it.
Extended(b, H, place, hi, s, B, G, pos) ==
    /\ B = Put(b, s + 1, hi)
    /\ G = Put(H, s + 1, reserve.head)
    /\ pos = Put(place, Len(fifo) + 1, s + 1)

MaySendNow == reserve.head # NULL /\ waitingCount < BufSize /\ Room

\* The reserved commands are sent: the line gets a cut at its end.
LEMMA SentMoves ==
    ASSUME NEW T, NEW b, NEW H, NEW place, NEW lo, NEW hi, NEW r, NEW s, NEW e, NEW f,
           Stand(T, b, H, place, lo, hi, r, s, e, f), Types,
           MaySendNow, Sent, UNCHANGED <<own, tag, due, arm7Vars>>,
           NEW B, NEW G, NEW pos, Extended(b, H, place, hi, s, B, G, pos)
    PROVE  Types' /\ Stand(T, B, G, pos, lo, hi, r, s + 1, e, f)'
<1>0. /\ Numbered(T, b, H, place, lo, hi, r, s, e, f) /\ Parted(T, lo, hi) /\ Cuts(b, lo, hi, r, s)
      /\ Linked(T, b, lo, hi, r, s) /\ Ends(T, b, lo, hi, r, s) /\ Written(T, b, r, s)
      /\ Heads(T, b, H, r, s) /\ Ringed(H, r, s) /\ Counted(r, s, f) /\ Executing(T, b, s, e, f)
      /\ Travelling(H, s, f, place) /\ Owing(T, b, hi, s, e, f)
    BY DEF Stand
<1>1. /\ T \in [Nat -> Command] /\ b \in [Nat -> Nat] /\ H \in [Nat -> Command]
      /\ place \in [Nat -> Nat]
      /\ lo \in Nat /\ hi \in Nat /\ r \in Nat /\ s \in Nat /\ e \in Nat /\ f \in Nat
    BY <1>0 DEF Numbered
<1>2. CutFacts(b, lo, hi, r, s) /\ r <= s /\ r <= f /\ f <= s
    BY <1>0, <1>1, CutsAre DEF Counted, Cuts
<1>3. PICK n \in Nat : n = b[s]
    BY <1>2 DEF CutFacts
<1>4. n < hi /\ reserve.head = T[n + 1] /\ T[n + 1] \in Command
    <2>1. n <= hi /\ reserve.head = Foremost(T, n, hi)
        BY <1>0, <1>2, <1>3 DEF CutFacts, Ends
    <2>2. n # hi
        BY <2>1 DEF Foremost, MaySendNow
    <2> QED
        BY <1>1, <2>1, <2>2 DEF Foremost
<1>5. /\ mem' = next
      /\ fifo' = Append(fifo, T[n + 1])
      /\ ring' = [ring EXCEPT !.slot[ring.write] = T[n + 1], !.write = NextSlot(ring.write)]
      /\ reserve' = [head |-> NULL, end |-> NULL]
      /\ waitingCount' = waitingCount + 1 /\ currentTag' = NextTag(currentTag)
      /\ UNCHANGED <<next, free, finishedTag>>
    BY <1>4 DEF Sent, Flushed
<1>6. /\ B \in [Nat -> Nat] /\ B[s + 1] = hi /\ \A i \in r .. s : B[i] = b[i]
      /\ G \in [Nat -> Command] /\ G[s + 1] = T[n + 1] /\ \A i \in r .. s : G[i] = H[i]
      /\ \A i \in Nat : i # s + 1 => G[i] = H[i]
    <2>1. s + 1 \in Nat /\ \A i \in r .. s : i \in Nat /\ i # s + 1
        BY <1>1
    <2>2. B \in [Nat -> Nat] /\ B[s + 1] = hi /\ \A i \in Nat : i # s + 1 => B[i] = b[i]
        BY <1>1, <2>1 DEF Extended, Put
    <2>3. /\ G \in [Nat -> Command] /\ G[s + 1] = T[n + 1]
          /\ \A i \in Nat : i # s + 1 => G[i] = H[i]
        BY <1>1, <1>4, <2>1 DEF Extended, Put
    <2> QED
        BY <2>1, <2>2, <2>3
<1>7. /\ BufSize \in Nat /\ BufSize > 0 /\ TagMod \in Nat /\ TagMod > 1 /\ BufSize + 1 > 1
      /\ BufSize + 1 \in Nat /\ (BufSize + 1) - 1 = BufSize
    BY Constants
<1>8. /\ ring.read = r % (BufSize + 1) /\ ring.write = s % (BufSize + 1)
      /\ waitingCount = s - r /\ (s + 1) - r <= BufSize
      /\ \A i \in r + 1 .. s : ring.slot[(i - 1) % (BufSize + 1)] = H[i]
    <2>1. /\ ring.read = r % (BufSize + 1) /\ ring.write = s % (BufSize + 1)
          /\ waitingCount = s - r
          /\ \A i \in r + 1 .. s : ring.slot[(i - 1) % (BufSize + 1)] = H[i]
        BY <1>0 DEF Ringed
    <2>2. (s + 1) - r <= BufSize
        BY <1>1, <1>7, <2>1 DEF MaySendNow
    <2> QED
        BY <2>1, <2>2
<1>9. /\ \A i \in r .. s + 1 : i \in r .. s \/ i = s + 1
      /\ \A i \in r + 1 .. s + 1 : i \in r + 1 .. s \/ i = s + 1
      /\ \A i \in r + 1 .. s : i \in r .. s /\ i - 1 \in r .. s
      /\ s \in r .. s /\ r \in r .. s /\ s + 1 \in r .. s + 1 /\ (s + 1) - 1 = s
    BY <1>1, <1>2
<1>10. Parted(T, lo, hi)'
    BY <1>0 DEF Parted
<1>11. Cuts(B, lo, hi, r, s + 1)
    <2>1. r <= s + 1 /\ lo <= B[r] /\ B[s + 1] <= hi
        BY <1>0, <1>1, <1>2, <1>6, <1>9 DEF Cuts
    <2>2. ASSUME NEW i \in r .. s + 1, NEW j \in r .. s + 1, i < j PROVE B[i] < B[j]
        <3>1. i \in r .. s
            BY <1>1, <2>2
        <3>2. CASE j \in r .. s
            BY <1>0, <1>6, <2>2, <3>1, <3>2 DEF Cuts
        <3>3. CASE j = s + 1
            <4>1. b[i] \in Nat /\ b[i] <= n
                BY <1>2, <1>3, <3>1 DEF CutFacts
            <4>2. B[i] = b[i] /\ B[j] = hi
                BY <1>6, <3>1, <3>3
            <4> QED
                BY <1>1, <1>4, <4>1, <4>2
        <3> QED
            BY <1>9, <3>2, <3>3
    <2> QED
        BY <2>1, <2>2 DEF Cuts
<1>12. Linked(T, B, lo, hi, r, s + 1)'
    <2>1. ASSUME NEW i \in lo + 1 .. hi
          PROVE  (i = hi \/ IsCut(B, r, s + 1, i)) <=> (i = hi \/ IsCut(b, r, s, i))
        <3>1. IsCut(B, r, s + 1, i) => i = hi \/ IsCut(b, r, s, i)
            BY <1>6, <1>9 DEF IsCut
        <3>2. IsCut(b, r, s, i) => IsCut(B, r, s + 1, i)
            <4>1. \A j \in r .. s : j \in r .. s + 1
                BY <1>1
            <4> QED
                BY <1>6, <4>1 DEF IsCut
        <3> QED
            BY <3>1, <3>2
    <2> QED
        BY <1>0, <1>5, <2>1 DEF Linked
<1>13. Ends(T, B, lo, hi, r, s + 1)'
    <2>1. Foremost(T, hi, hi) = NULL /\ Rearmost(T, hi, hi) = NULL
        BY DEF Foremost, Rearmost
    <2>2. B[r] = b[r]
        BY <1>6, <1>9
    <2> QED
        BY <1>0, <1>5, <1>6, <2>1, <2>2 DEF Ends
<1>14. Written(T, B, r, s + 1)'
    BY <1>5 DEF Written
<1>15. Heads(T, B, G, r, s + 1)
    <2> SUFFICES ASSUME NEW i \in r + 1 .. s + 1 PROVE G[i] = T[B[i - 1] + 1]
        BY DEF Heads
    <2>1. CASE i \in r + 1 .. s
        BY <1>0, <1>6, <1>9, <2>1 DEF Heads
    <2>2. CASE i = s + 1
        BY <1>3, <1>6, <1>9, <2>2
    <2> QED
        BY <1>9, <2>1, <2>2
<1>16. /\ ring.read \in Slot /\ ring.slot \in [Slot -> Link] /\ ring.write \in Slot
       /\ ring = [slot |-> ring.slot, read |-> ring.read, write |-> ring.write]
    BY DEF Types
<1>17. NextSlot(ring.write) = (s + 1) % (BufSize + 1) /\ NextSlot(ring.write) \in Slot
    <2>1. (s + 1) % (BufSize + 1) = IF (s % (BufSize + 1)) + 1 > (BufSize + 1) - 1 THEN 0
                                    ELSE (s % (BufSize + 1)) + 1
        BY <1>1, <1>7, NextRemainder
    <2> QED
        BY <1>7, <1>8, <1>16, <2>1 DEF NextSlot, Slot
<1>18. Ringed(G, r, s + 1)'
    <2>1. /\ ring'.write = (s + 1) % (BufSize + 1) /\ ring'.read = r % (BufSize + 1)
          /\ ring'.slot[ring.write] = T[n + 1]
          /\ \A i \in Slot : i # ring.write => ring'.slot[i] = ring.slot[i]
        BY <1>5, <1>8, <1>16, <1>17
    <2>2. waitingCount' = (s + 1) - r
        BY <1>1, <1>5, <1>8
    <2>3. ASSUME NEW i \in r + 1 .. s + 1 PROVE ring'.slot[(i - 1) % (BufSize + 1)] = G[i]
        <3>1. CASE i = s + 1
            BY <1>6, <1>8, <1>9, <2>1, <3>1
        <3>2. CASE i \in r + 1 .. s
            <4>1. i - 1 \in Nat /\ i - 1 <= s /\ i - 1 # s /\ s - (i - 1) < BufSize + 1
                BY <1>1, <1>7, <1>8, <3>2
            <4>2. (i - 1) % (BufSize + 1) # s % (BufSize + 1)
                <5>1. PICK j \in Nat : j = i - 1
                    BY <4>1
                <5>2. j <= s /\ s - j < BufSize + 1 /\ j # s /\ BufSize + 1 > 0
                    BY <1>7, <4>1, <5>1
                <5>3. j % (BufSize + 1) # s % (BufSize + 1)
                    BY <1>1, <1>7, <5>2, SameRemainder
                <5> QED
                    BY <5>1, <5>3
            <4>3. (i - 1) % (BufSize + 1) \in Slot
                BY <1>7, <4>1, NextRemainder DEF Slot
            <4> QED
                BY <1>6, <1>8, <1>9, <2>1, <3>2, <4>2, <4>3
        <3> QED
            BY <1>9, <3>1, <3>2
    <2> QED
        BY <1>8, <2>1, <2>2, <2>3 DEF Ringed
<1>19. Counted(r, s + 1, f)'
    <2>1. currentTag' = ((s + 1) + 1) % TagMod
        <3>1. PICK j \in Nat : j = s + 1
            BY <1>1
        <3>2. ((j % TagMod) + 1) % TagMod = (j + 1) % TagMod
            BY <1>7, NextRemainder
        <3> QED
            BY <1>0, <1>5, <3>1, <3>2 DEF Counted, NextTag
    <2>2. f <= s + 1
        BY <1>1, <1>2
    <2> QED
        BY <1>0, <1>5, <2>1, <2>2 DEF Counted, arm7Vars
<1>20. Executing(T, B, s + 1, e, f)'
    <2>1. f \in r .. s /\ B[f] = b[f]
        BY <1>1, <1>2, <1>6
    <2>2. CASE inList
        <3>1. f < s /\ f + 1 \in r .. s
            BY <1>0, <1>1, <1>2, <2>2 DEF Executing
        <3>2. B[f + 1] = b[f + 1] /\ f < s + 1
            BY <1>1, <1>6, <3>1
        <3> QED
            BY <1>0, <2>1, <2>2, <3>2 DEF Executing, arm7Vars
    <2>3. CASE ~inList
        BY <1>0, <2>1, <2>3 DEF Executing, arm7Vars
    <2> QED
        BY <2>2, <2>3
<1>21. Travelling(G, s + 1, f, pos)'
    <2> DEFINE K == Len(fifo)
    <2>1. /\ fifo \in Seq(Command \cup {Request}) /\ K \in Nat /\ Len(fifo') = K + 1
          /\ fifo'[K + 1] = T[n + 1] /\ \A j \in 1 .. K : fifo'[j] = fifo[j]
        BY <1>4, <1>5 DEF Types
    <2>2. /\ pos[K + 1] = s + 1 /\ \A j \in 0 .. K : pos[j] = place[j]
        <3>1. K + 1 \in Nat /\ s + 1 \in Nat /\ \A j \in 0 .. K : j \in Nat /\ j # K + 1
            BY <1>1, <2>1
        <3>2. pos = Put(place, K + 1, s + 1)
            BY DEF Extended
        <3> HIDE DEF K
        <3>3. pos[K + 1] = s + 1 /\ \A j \in Nat : j # K + 1 => pos[j] = place[j]
            BY <1>1, <3>1, <3>2 DEF Put
        <3> QED
            BY <3>1, <3>3
    <2> HIDE DEF K
    <2>3. /\ Begun(f) <= place[0] /\ place[K] = s /\ mesgQueue = Window(H, Begun(f), place[0])
          /\ \A j \in 0 .. K : place[j] <= s
          /\ \A j \in 1 .. K : \/ fifo[j] = Request /\ place[j] = place[j - 1]
                               \/ fifo[j] = H[place[j]] /\ place[j] = place[j - 1] + 1
        BY <1>0 DEF Travelling, K
    <2>4. Begun(f)' = Begun(f)
        BY DEF Begun, arm7Vars
    <2>5. /\ Begun(f) \in Nat /\ r <= Begun(f) /\ place[0] \in Nat /\ place[0] <= s
          /\ mesgQueue' = Window(G, Begun(f), place[0])
        <3>1. Begun(f) \in Nat /\ r <= Begun(f)
            BY <1>1, <1>2 DEF Begun
        <3>2. place[0] \in Nat /\ place[0] <= s
            BY <1>1, <2>1, <2>3
        <3>4. Window(G, Begun(f), place[0]) = Window(H, Begun(f), place[0])
            <4>1. PICK k \in Nat : k = Begun(f)
                BY <3>1
            <4>2. PICK i \in Nat : i = place[0]
                BY <3>2
            <4>3. k <= i /\ SameOn(G, H, k, i)
                <5>1. k <= i /\ r <= k /\ i <= s
                    BY <2>3, <3>1, <3>2, <4>1, <4>2
                <5>2. \A j \in k + 1 .. i : j \in r .. s
                    BY <1>1, <5>1
                <5> QED
                    BY <1>6, <5>1, <5>2 DEF SameOn
            <4>4. G \in [Nat -> Command] /\ H \in [Nat -> Command]
                BY <1>1, <1>6
            <4>5. Window(G, k, i) = Window(H, k, i)
                BY <4>3, <4>4, WindowSame
            <4> QED
                BY <4>1, <4>2, <4>5
        <3> QED
            BY <2>3, <3>1, <3>2, <3>4 DEF arm7Vars
    <2>6. pos[0] = place[0] /\ pos[K + 1] = s + 1
        BY <2>1, <2>2
    <2>7. ASSUME NEW j \in 0 .. K + 1 PROVE pos[j] <= s + 1
        <3>1. CASE j = K + 1
            BY <1>1, <2>2, <3>1
        <3>2. CASE j \in 0 .. K
            <4>1. pos[j] = place[j] /\ place[j] <= s /\ place[j] \in Nat
                BY <1>1, <2>1, <2>2, <2>3, <3>2
            <4> QED
                BY <1>1, <4>1
        <3> QED
            BY <2>1, <3>1, <3>2
    <2>8. ASSUME NEW j \in 1 .. K + 1
          PROVE  \/ fifo'[j] = Request /\ pos[j] = pos[j - 1]
                 \/ fifo'[j] = G[pos[j]] /\ pos[j] = pos[j - 1] + 1
        <3>1. CASE j = K + 1
            <4>1. pos[j - 1] = s
                BY <2>1, <2>2, <2>3, <3>1
            <4> QED
                BY <1>6, <2>1, <2>2, <3>1, <4>1
        <3>2. CASE j \in 1 .. K
            <4>0. j \in 0 .. K /\ j - 1 \in 0 .. K /\ j \in Nat /\ j - 1 \in Nat
                BY <2>1, <3>2
            <4>1. /\ j \in 0 .. K /\ j - 1 \in 0 .. K
                  /\ place[j] <= s /\ place[j] \in Nat /\ place[j - 1] \in Nat
                BY <1>1, <2>3, <4>0
            <4>2. pos[j] = place[j] /\ pos[j - 1] = place[j - 1] /\ fifo'[j] = fifo[j]
                BY <2>1, <2>2, <3>2, <4>1
            <4>3. G[place[j]] = H[place[j]]
                <5>1. place[j] # s + 1
                    BY <1>1, <4>1
                <5> QED
                    BY <1>6, <4>1, <5>1
            <4> QED
                BY <2>3, <3>2, <4>2, <4>3
        <3> QED
            BY <2>1, <3>1, <3>2
    <2> QED
        BY <2>1, <2>3, <2>4, <2>5, <2>6, <2>7, <2>8 DEF Travelling
<1>22. Owing(T, B, hi, s + 1, e, f)'
    <2> SUFFICES ASSUME NEW u \in Client, due[u] # {}
                 PROVE  \E k \in f + 1 .. (s + 1) + 1 :
                           /\ tag[u] = k % TagMod
                           /\ \A x \in due[u] : \E i \in e + 1 .. (IF k <= s + 1 THEN B[k] ELSE hi) : T[i] = x
        BY DEF Owing
    <2>1. PICK k \in f + 1 .. s + 1 :
             /\ tag[u] = k % TagMod
             /\ \A x \in due[u] : \E i \in e + 1 .. (IF k <= s THEN b[k] ELSE hi) : T[i] = x
        BY <1>0 DEF Owing
    <2>2. k \in f + 1 .. (s + 1) + 1 /\ k <= s + 1
        BY <1>1
    <2>3. (IF k <= s THEN b[k] ELSE hi) = B[k]
        <3>1. CASE k <= s
            <4>1. k \in r .. s
                BY <1>1, <1>2, <3>1
            <4> QED
                BY <1>6, <3>1, <4>1
        <3>2. CASE ~(k <= s)
            <4>1. k = s + 1
                BY <1>1, <3>2
            <4> QED
                BY <1>6, <3>2, <4>1
        <3> QED
            BY <3>1, <3>2
    <2> QED
        BY <2>1, <2>2, <2>3
<1>23. Types'
    <2>1. ring' \in [slot : [Slot -> Link], read : Slot, write : Slot]
        BY <1>4, <1>5, <1>16, <1>17 DEF Link
    <2>2. fifo' \in Seq(Command \cup {Request}) /\ Len(fifo') <= FifoSize
        BY <1>4, <1>5, Constants DEF Types, Room, MaySendNow
    <2> QED
        BY <1>5, <2>1, <2>2 DEF Types, arm7Vars
<1>24. Numbered(T, B, G, pos, lo, hi, r, s + 1, e, f)
    <2>1. Len(fifo) + 1 \in Nat /\ s + 1 \in Nat
        BY <1>1 DEF Types
    <2>2. pos \in [Nat -> Nat]
        BY <1>1, <2>1 DEF Extended, Put
    <2> QED
        BY <1>1, <1>6, <2>1, <2>2 DEF Numbered
<1>25. Stand(T, B, G, pos, lo, hi, r, s + 1, e, f)'
    BY <1>10, <1>11, <1>12, <1>13, <1>14, <1>15, <1>18, <1>19, <1>20, <1>21, <1>22, <1>24 DEF Stand
<1> QED
    BY <1>23, <1>25

\* What is written to memory is what the ARM9 has.
MemoryFollows == mem' \in [Command -> Link] /\ \A c \in Command : mem'[c] \in {mem[c], next[c]}

\* A step of the ARM9 that leaves the lists and the FIFO alone.
LEMMA Stays ==
    ASSUME NEW T, NEW b, NEW H, NEW place, NEW lo, NEW hi, NEW r, NEW s, NEW e, NEW f,
           Stand(T, b, H, place, lo, hi, r, s, e, f), Types,
           MemoryFollows, UNCHANGED <<listVars, ringVars, fifo, arm7Vars, own>>,
           tag' \in [Client -> Tag \cup {NULL}], due' \in [Client -> SUBSET Command],
           \A u \in Client : due'[u] = {} \/ (due'[u] = due[u] /\ tag'[u] = tag[u])
    PROVE  Types' /\ Stand(T, b, H, place, lo, hi, r, s, e, f)'
<1>0. /\ Numbered(T, b, H, place, lo, hi, r, s, e, f) /\ Parted(T, lo, hi) /\ Cuts(b, lo, hi, r, s)
      /\ Linked(T, b, lo, hi, r, s) /\ Ends(T, b, lo, hi, r, s) /\ Written(T, b, r, s)
      /\ Heads(T, b, H, r, s) /\ Ringed(H, r, s) /\ Counted(r, s, f) /\ Executing(T, b, s, e, f)
      /\ Travelling(H, s, f, place) /\ Owing(T, b, hi, s, e, f)
    BY DEF Stand
<1>1. /\ T \in [Nat -> Command] /\ b \in [Nat -> Nat] /\ r \in Nat /\ s \in Nat
      /\ lo \in Nat /\ hi \in Nat
    BY <1>0 DEF Numbered
<1>2. next' = next /\ free' = free /\ reserve' = reserve /\ own' = own /\ fifo' = fifo
    BY DEF listVars
<1>3. Parted(T, lo, hi)' /\ Linked(T, b, lo, hi, r, s)' /\ Ends(T, b, lo, hi, r, s)'
    <2>1. Parted(T, lo, hi)'
        BY <1>0, <1>2 DEF Parted
    <2>2. Linked(T, b, lo, hi, r, s)'
        BY <1>0, <1>2 DEF Linked
    <2>3. Ends(T, b, lo, hi, r, s)'
        BY <1>0, <1>2 DEF Ends
    <2> QED
        BY <2>1, <2>2, <2>3
<1>4. Written(T, b, r, s)'
    <2> SUFFICES ASSUME NEW i \in b[r] + 1 .. b[s] PROVE mem'[T[i]] = next[T[i]]
        BY <1>2 DEF Written
    <2>1. T[i] \in Command
        <3>1. CutFacts(b, lo, hi, r, s)
            BY <1>0, <1>1, CutsAre
        <3>2. i \in Nat
            BY <3>1 DEF CutFacts
        <3> QED
            BY <1>1, <3>2
    <2> QED
        BY <1>0, <2>1 DEF Written, MemoryFollows
<1>5. Ringed(H, r, s)' /\ Counted(r, s, f)' /\ Executing(T, b, s, e, f)'
    BY <1>0 DEF Ringed, Counted, Executing, ringVars, arm7Vars
<1>6. Travelling(H, s, f, place)'
    BY <1>0, <1>2 DEF Travelling, Begun, arm7Vars
<1>7. Owing(T, b, hi, s, e, f)'
    BY <1>0, OwedAsBefore
<1>8. Types'
    BY <1>2 DEF Types, ringVars, arm7Vars, MemoryFollows
<1> QED
    BY <1>0, <1>3, <1>4, <1>5, <1>6, <1>7, <1>8 DEF Stand

\* A request goes to the FIFO.
LEMMA RequestMoves ==
    ASSUME NEW T, NEW b, NEW H, NEW place, NEW lo, NEW hi, NEW r, NEW s, NEW e, NEW f,
           Stand(T, b, H, place, lo, hi, r, s, e, f), Types, Room, fifo' = Append(fifo, Request),
           UNCHANGED <<listVars, mem, ringVars, arm7Vars, own, tag, due>>,
           NEW pos, pos = Put(place, Len(fifo) + 1, s)
    PROVE  Types' /\ Stand(T, b, H, pos, lo, hi, r, s, e, f)'
<1>0. /\ Numbered(T, b, H, place, lo, hi, r, s, e, f) /\ Parted(T, lo, hi) /\ Cuts(b, lo, hi, r, s)
      /\ Linked(T, b, lo, hi, r, s) /\ Ends(T, b, lo, hi, r, s) /\ Written(T, b, r, s)
      /\ Heads(T, b, H, r, s) /\ Ringed(H, r, s) /\ Counted(r, s, f) /\ Executing(T, b, s, e, f)
      /\ Travelling(H, s, f, place) /\ Owing(T, b, hi, s, e, f)
    BY DEF Stand
<1>1. next' = next /\ free' = free /\ reserve' = reserve /\ own' = own /\ mem' = mem
    BY DEF listVars
<1>2. Parted(T, lo, hi)' /\ Linked(T, b, lo, hi, r, s)' /\ Ends(T, b, lo, hi, r, s)'
    <2>1. Parted(T, lo, hi)'
        BY <1>0, <1>1 DEF Parted
    <2>2. Linked(T, b, lo, hi, r, s)'
        BY <1>0, <1>1 DEF Linked
    <2>3. Ends(T, b, lo, hi, r, s)'
        BY <1>0, <1>1 DEF Ends
    <2> QED
        BY <2>1, <2>2, <2>3
<1>3. Written(T, b, r, s)' /\ Owing(T, b, hi, s, e, f)'
    BY <1>0, <1>1 DEF Written, Owing
<1>4. Ringed(H, r, s)' /\ Counted(r, s, f)' /\ Executing(T, b, s, e, f)'
    BY <1>0 DEF Ringed, Counted, Executing, ringVars, arm7Vars
<1> DEFINE K == Len(fifo)
<1>5. /\ fifo \in Seq(Command \cup {Request}) /\ K \in Nat /\ Len(fifo') = K + 1
      /\ fifo'[K + 1] = Request /\ \A j \in 1 .. K : fifo'[j] = fifo[j]
      /\ K < FifoSize
    BY Constants DEF Types, Room
<1>6. /\ place \in [Nat -> Nat] /\ s \in Nat
    BY <1>0 DEF Numbered
<1>7. pos \in [Nat -> Nat] /\ pos[K + 1] = s /\ \A j \in 0 .. K : pos[j] = place[j]
    <2>1. K + 1 \in Nat /\ \A j \in 0 .. K : j \in Nat /\ j # K + 1
        BY <1>5
    <2> QED
        BY <1>6, <2>1 DEF Put
<1>8. Travelling(H, s, f, pos)'
    <2>1. /\ Begun(f) <= place[0] /\ place[K] = s /\ mesgQueue = Window(H, Begun(f), place[0])
          /\ \A j \in 0 .. K : place[j] <= s
          /\ \A j \in 1 .. K : \/ fifo[j] = Request /\ place[j] = place[j - 1]
                               \/ fifo[j] = H[place[j]] /\ place[j] = place[j - 1] + 1
        BY <1>0 DEF Travelling
    <2> HIDE DEF K
    <2>2. 0 \in 0 .. K /\ K \in 0 .. K
        BY <1>5
    <2>3. Begun(f)' = Begun(f) /\ mesgQueue' = mesgQueue /\ pos[0] = place[0]
        BY <1>7, <2>2 DEF Begun, arm7Vars
    <2>4. ASSUME NEW j \in 0 .. K + 1 PROVE pos[j] <= s
        <3>1. j = K + 1 \/ j \in 0 .. K
            BY <1>5
        <3>2. CASE j = K + 1
            <4>1. pos[j] = s
                BY <1>7, <3>2, Zenon
            <4>2. s <= s
                BY <1>6
            <4> QED
                BY <4>1, <4>2
        <3>3. CASE j \in 0 .. K
            BY <1>7, <2>1, <3>3
        <3> QED
            BY <3>1, <3>2, <3>3
    <2>5. ASSUME NEW j \in 1 .. K + 1
          PROVE  \/ fifo'[j] = Request /\ pos[j] = pos[j - 1]
                 \/ fifo'[j] = H[pos[j]] /\ pos[j] = pos[j - 1] + 1
        <3>1. CASE j = K + 1
            <4>1. (K + 1) - 1 = K
                BY <1>5
            <4> QED
                BY <1>5, <1>7, <2>1, <2>2, <3>1, <4>1
        <3>2. CASE j \in 1 .. K
            <4>1. j \in 0 .. K /\ j - 1 \in 0 .. K
                BY <1>5, <3>2
            <4> QED
                BY <1>5, <1>7, <2>1, <3>2, <4>1
        <3>3. j = K + 1 \/ j \in 1 .. K
            BY <1>5
        <3> QED
            BY <3>1, <3>2, <3>3
    <2> QED
        BY <1>5, <1>7, <2>1, <2>3, <2>4, <2>5 DEF Travelling
<1>9. Types'
    <2>1. fifo' \in Seq(Command \cup {Request}) /\ Len(fifo') <= FifoSize
        BY <1>5, Constants
    <2> QED
        BY <1>1, <2>1 DEF Types, ringVars, arm7Vars
<1>10. Numbered(T, b, H, pos, lo, hi, r, s, e, f)
    BY <1>0, <1>7 DEF Numbered
<1> QED
    BY <1>0, <1>2, <1>3, <1>4, <1>8, <1>9, <1>10 DEF Stand

-----------------------------------------------------------------------------
(* The steps of the ARM7.                                                  *)

LEMMA WindowEnd ==
    ASSUME NEW T \in [Nat -> Command], NEW m \in Nat, NEW n \in Nat, m <= n
    PROVE  Window(T, m, n + 1) = Append(Window(T, m, n), T[n + 1])
<1>1. n + 1 \in Nat /\ n <= n + 1
    OBVIOUS
<1>2. Window(T, m, n + 1) = Window(T, m, n) \o Window(T, n, n + 1)
    BY <1>1, WindowJoin
<1>3. Window(T, n, n + 1) = <<T[n + 1]>> /\ T[n + 1] \in Command
    BY <1>1, WindowOne
<1>4. Window(T, m, n) \in Seq(Command)
    BY WindowIs
<1> QED
    BY <1>2, <1>3, <1>4, AppendIsConcat

Shifted(place) == [j \in Nat |-> place[j + 1]]

\* A word arrives.
LEMMA WordMoves ==
    ASSUME NEW T, NEW b, NEW H, NEW place, NEW lo, NEW hi, NEW r, NEW s, NEW e, NEW f,
           Stand(T, b, H, place, lo, hi, r, s, e, f), Types, PxiFifoCallback,
           NEW pos, pos = Shifted(place)
    PROVE  Types' /\ Stand(T, b, H, pos, lo, hi, r, s, e, f)'
<1>0. /\ Numbered(T, b, H, place, lo, hi, r, s, e, f) /\ Parted(T, lo, hi) /\ Cuts(b, lo, hi, r, s)
      /\ Linked(T, b, lo, hi, r, s) /\ Ends(T, b, lo, hi, r, s) /\ Written(T, b, r, s)
      /\ Heads(T, b, H, r, s) /\ Ringed(H, r, s) /\ Counted(r, s, f) /\ Executing(T, b, s, e, f)
      /\ Travelling(H, s, f, place) /\ Owing(T, b, hi, s, e, f)
    BY DEF Stand
<1>1. /\ H \in [Nat -> Command] /\ place \in [Nat -> Nat] /\ r \in Nat /\ s \in Nat /\ f \in Nat
      /\ r <= f /\ s - r <= BufSize /\ BufSize \in Nat
    BY <1>0, Constants DEF Numbered, Counted, Ringed
<1>2. /\ fifo # << >> /\ fifo' = Tail(fifo)
      /\ mesgQueue' = IF Head(fifo) \in Command /\ Len(mesgQueue) < BufSize
                      THEN Append(mesgQueue, Head(fifo)) ELSE mesgQueue
      /\ next' = next /\ free' = free /\ reserve' = reserve /\ mem' = mem
      /\ UNCHANGED ringVars /\ command_p' = command_p /\ inList' = inList
      /\ finishCommandTag' = finishCommandTag /\ own' = own /\ tag' = tag /\ due' = due
    BY DEF PxiFifoCallback, listVars, callVars
<1>3. PICK K \in Nat : K = Len(fifo)
    BY DEF Types
<1>4. /\ fifo \in Seq(Command \cup {Request}) /\ K > 0 /\ Len(fifo') = K - 1
      /\ Head(fifo) = fifo[1] /\ \A j \in 1 .. K - 1 : fifo'[j] = fifo[j + 1]
      /\ fifo' \in Seq(Command \cup {Request}) /\ K <= FifoSize /\ FifoSize \in Nat
    BY <1>2, <1>3, Constants DEF Types
<1>5. /\ Begun(f) <= place[0] /\ place[K] = s /\ mesgQueue = Window(H, Begun(f), place[0])
      /\ \A j \in 0 .. K : place[j] <= s
      /\ \A j \in 1 .. K : \/ fifo[j] = Request /\ place[j] = place[j - 1]
                           \/ fifo[j] = H[place[j]] /\ place[j] = place[j - 1] + 1
    BY <1>0, <1>3 DEF Travelling
<1>6. pos \in [Nat -> Nat] /\ \A j \in Nat : pos[j] = place[j + 1]
    BY <1>1 DEF Shifted
<1>7. PICK k \in Nat : k = Begun(f)
    BY <1>1 DEF Begun
<1>8. PICK i \in Nat : i = place[0]
    BY <1>1
<1>9. /\ k <= i /\ i <= s /\ r <= k
      /\ mesgQueue = Window(H, k, i) /\ mesgQueue \in Seq(Command) /\ Len(mesgQueue) = i - k
    <2>1. k <= i /\ mesgQueue = Window(H, k, i)
        BY <1>5, <1>7, <1>8
    <2>2. r <= k
        BY <1>1, <1>7 DEF Begun
    <2>3. i <= s
        BY <1>4, <1>5, <1>8
    <2> QED
        BY <1>1, <2>1, <2>2, <2>3, WindowIs
<1>10. Begun(f)' = k
    BY <1>2, <1>7 DEF Begun
<1>11. k <= pos[0] /\ mesgQueue' = Window(H, k, pos[0])
    <2>1. pos[0] = place[1] /\ 1 \in 1 .. K /\ 1 \in 0 .. K
        BY <1>4, <1>6
    <2>2. CASE fifo[1] = Request /\ place[1] = place[0]
        BY <1>2, <1>4, <1>8, <1>9, <2>1, <2>2, Constants
    <2>3. CASE fifo[1] = H[place[1]] /\ place[1] = place[0] + 1
        <3>1. place[1] = i + 1 /\ i + 1 <= s /\ fifo[1] = H[i + 1] /\ H[i + 1] \in Command
            BY <1>1, <1>5, <1>8, <2>1, <2>3
        <3>2. Len(mesgQueue) < BufSize
            BY <1>1, <1>9, <3>1
        <3>3. mesgQueue' = Append(Window(H, k, i), H[i + 1])
            BY <1>2, <1>4, <1>9, <3>1, <3>2
        <3>4. mesgQueue' = Window(H, k, i + 1)
            BY <1>1, <1>9, <3>3, WindowEnd
        <3> QED
            BY <1>9, <2>1, <3>1, <3>4
    <2> QED
        BY <1>5, <2>1, <2>2, <2>3
<1>12. Travelling(H, s, f, pos)'
    <2>0. K - 1 \in Nat /\ (K - 1) + 1 = K
        BY <1>4
    <2>1. Len(fifo') \in Nat /\ Len(fifo') = K - 1 /\ pos[K - 1] = s
        BY <1>4, <1>5, <1>6, <2>0
    <2>2. ASSUME NEW j \in 0 .. K - 1 PROVE pos[j] <= s
        BY SMTT(30), <1>5, <1>6, <2>2
    <2>3. ASSUME NEW j \in 1 .. K - 1
          PROVE  \/ fifo'[j] = Request /\ pos[j] = pos[j - 1]
                 \/ fifo'[j] = H[pos[j]] /\ pos[j] = pos[j - 1] + 1
        <3>1. j + 1 \in 1 .. K /\ j \in Nat /\ j - 1 \in Nat /\ (j + 1) - 1 = j /\ (j - 1) + 1 = j
            BY <1>4
        <3>2. fifo'[j] = fifo[j + 1] /\ pos[j] = place[j + 1] /\ pos[j - 1] = place[j]
            BY <1>4, <1>6, <3>1
        <3>3. \/ fifo[j + 1] = Request /\ place[j + 1] = place[j]
              \/ fifo[j + 1] = H[place[j + 1]] /\ place[j + 1] = place[j] + 1
            BY <1>5, <3>1
        <3> QED
            BY <3>2, <3>3
    <2> QED
        BY <1>10, <1>11, <2>1, <2>2, <2>3 DEF Travelling
<1>13. Types'
    BY <1>2, <1>4 DEF Types, ringVars
<1>14. Parted(T, lo, hi)' /\ Linked(T, b, lo, hi, r, s)' /\ Ends(T, b, lo, hi, r, s)'
    <2>1. Parted(T, lo, hi)'
        BY <1>0, <1>2 DEF Parted
    <2>2. Linked(T, b, lo, hi, r, s)'
        BY <1>0, <1>2 DEF Linked
    <2>3. Ends(T, b, lo, hi, r, s)'
        BY <1>0, <1>2 DEF Ends
    <2> QED
        BY <2>1, <2>2, <2>3
<1>15. Written(T, b, r, s)' /\ Owing(T, b, hi, s, e, f)'
    BY <1>0, <1>2 DEF Written, Owing
<1>16. Ringed(H, r, s)' /\ Counted(r, s, f)' /\ Executing(T, b, s, e, f)'
    BY <1>0, <1>2 DEF Ringed, Counted, Executing, ringVars
<1>17. Numbered(T, b, H, pos, lo, hi, r, s, e, f)
    BY <1>0, <1>6 DEF Numbered
<1> QED
    BY <1>0, <1>12, <1>13, <1>14, <1>15, <1>16, <1>17 DEF Stand

\* What the sound thread leaves alone.
LEMMA SoundKeeps ==
    ASSUME NEW T, NEW b, NEW H, NEW place, NEW lo, NEW hi, NEW r, NEW s, NEW e, NEW f,
           Stand(T, b, H, place, lo, hi, r, s, e, f), Types,
           UNCHANGED <<listVars, mem, ringVars, fifo, own, tag>>,
           inList' \in BOOLEAN, due' \in [Client -> SUBSET Command]
    PROVE  /\ Types' /\ Parted(T, lo, hi)' /\ Linked(T, b, lo, hi, r, s)'
           /\ Ends(T, b, lo, hi, r, s)' /\ Written(T, b, r, s)' /\ Ringed(H, r, s)'
<1>0. /\ Parted(T, lo, hi) /\ Linked(T, b, lo, hi, r, s) /\ Ends(T, b, lo, hi, r, s)
      /\ Written(T, b, r, s) /\ Ringed(H, r, s)
    BY DEF Stand
<1>1. next' = next /\ free' = free /\ reserve' = reserve
    BY DEF listVars
<1>2. Parted(T, lo, hi)'
    BY <1>0, <1>1 DEF Parted
<1>3. Linked(T, b, lo, hi, r, s)'
    BY <1>0, <1>1 DEF Linked
<1>4. Ends(T, b, lo, hi, r, s)'
    BY <1>0, <1>1 DEF Ends
<1>5. Written(T, b, r, s)'
    BY <1>0, <1>1 DEF Written
<1>6. Ringed(H, r, s)'
    BY <1>0 DEF Ringed, ringVars
<1>7. Types'
    BY <1>1 DEF Types, ringVars
<1> QED
    BY <1>2, <1>3, <1>4, <1>5, <1>6, <1>7

\* The sound thread takes a list,
LEMMA ListMoves ==
    ASSUME NEW T, NEW b, NEW H, NEW place, NEW lo, NEW hi, NEW r, NEW s, NEW e, NEW f,
           Stand(T, b, H, place, lo, hi, r, s, e, f), Types, CommandProcList
    PROVE  Types' /\ Stand(T, b, H, place, lo, hi, r, s, e, f)'
<1>0. /\ Numbered(T, b, H, place, lo, hi, r, s, e, f) /\ Parted(T, lo, hi) /\ Cuts(b, lo, hi, r, s)
      /\ Heads(T, b, H, r, s) /\ Counted(r, s, f) /\ Executing(T, b, s, e, f)
      /\ Travelling(H, s, f, place) /\ Owing(T, b, hi, s, e, f)
    BY DEF Stand
<1>1. /\ H \in [Nat -> Command] /\ place \in [Nat -> Nat] /\ r \in Nat /\ s \in Nat /\ f \in Nat
      /\ b \in [Nat -> Nat] /\ lo \in Nat /\ hi \in Nat /\ r <= f /\ e \in Nat
    BY <1>0 DEF Numbered, Counted
<1>2. /\ ~inList /\ mesgQueue # << >> /\ command_p' = Head(mesgQueue)
      /\ mesgQueue' = Tail(mesgQueue) /\ inList' = TRUE /\ finishCommandTag' = finishCommandTag
      /\ UNCHANGED <<listVars, mem, ringVars, fifo>> /\ own' = own /\ tag' = tag /\ due' = due
    BY DEF CommandProcList, callVars
<1>3. PICK i \in Nat : i = place[0]
    BY <1>1
<1>4. Begun(f) = f /\ Begun(f)' = f + 1 /\ mesgQueue = Window(H, f, i) /\ f <= i /\ i <= s
    <2>1. Begun(f) = f /\ Begun(f)' = f + 1
        BY <1>2 DEF Begun
    <2>2. 0 \in 0 .. Len(fifo)
        BY DEF Types
    <2> QED
        BY <1>0, <1>3, <2>1, <2>2 DEF Travelling
<1>5. f < i
    <2>1. f # i
        BY <1>1, <1>2, <1>4, WindowEmpty
    <2> QED
        BY <1>1, <1>4, <2>1
<1>6. /\ mesgQueue = <<H[f + 1]>> \o Window(H, f + 1, i)
      /\ mesgQueue' = Window(H, f + 1, i) /\ H[f + 1] \in Command
    BY ZenonT(40), <1>1, <1>2, <1>4, <1>5, WindowHead
<1>7. command_p' = H[f + 1]
    <2>1. Window(H, f + 1, i) \in Seq(Command)
        <3>1. f + 1 \in Nat /\ f + 1 <= i
            BY <1>1, <1>5
        <3> QED
            BY <1>1, <3>1, WindowIs
    <2> QED
        BY <1>2, <1>6, <2>1
<1>8. Executing(T, b, s, e, f)'
    <2>1. f < s /\ f + 1 \in r + 1 .. s /\ f + 1 \in r .. s /\ f \in r .. s /\ (f + 1) - 1 = f
        BY <1>1, <1>4, <1>5
    <2>2. b[f] < b[f + 1] /\ b[f] \in Nat /\ b[f + 1] \in Nat
        <3>1. CutFacts(b, lo, hi, r, s)
            BY <1>0, <1>1, CutsAre
        <3> QED
            BY <2>1, <3>1 DEF CutFacts
    <2>3. e = b[f]
        BY <1>0, <1>2 DEF Executing
    <2>4. H[f + 1] = T[e + 1]
        BY <1>0, <2>1, <2>3 DEF Heads
    <2>5. Foremost(T, e, b[f + 1]) = T[e + 1]
        BY <2>2, <2>3 DEF Foremost
    <2>6. b[f] <= e /\ e <= b[f + 1]
        BY <2>2, <2>3
    <2> QED
        BY <1>2, <1>7, <2>1, <2>4, <2>5, <2>6 DEF Executing
<1>9. Travelling(H, s, f, place)'
    <2>1. f + 1 <= place[0] /\ mesgQueue' = Window(H, f + 1, place[0])
        BY <1>1, <1>3, <1>5, <1>6
    <2> QED
        BY <1>0, <1>2, <1>4, <2>1 DEF Travelling
<1>10. Counted(r, s, f)' /\ Owing(T, b, hi, s, e, f)'
    BY <1>0, <1>2 DEF Counted, Owing, ringVars
<1>11. /\ Types' /\ Parted(T, lo, hi)' /\ Linked(T, b, lo, hi, r, s)'
       /\ Ends(T, b, lo, hi, r, s)' /\ Written(T, b, r, s)' /\ Ringed(H, r, s)'
    <2>1. UNCHANGED <<listVars, mem, ringVars, fifo, own, tag>>
        BY <1>2
    <2>2. inList' \in BOOLEAN /\ due' \in [Client -> SUBSET Command]
        BY <1>2 DEF Types
    <2> QED
        BY <2>1, <2>2, SoundKeeps
<1> QED
    BY <1>0, <1>8, <1>9, <1>10, <1>11 DEF Stand

\* executes a command,
LEMMA ExecuteMoves ==
    ASSUME NEW T, NEW b, NEW H, NEW place, NEW lo, NEW hi, NEW r, NEW s, NEW e, NEW f,
           Stand(T, b, H, place, lo, hi, r, s, e, f), Types, CommandProcExecute
    PROVE  Types' /\ Stand(T, b, H, place, lo, hi, r, s, e + 1, f)' /\ e < hi
<1>0. /\ Numbered(T, b, H, place, lo, hi, r, s, e, f) /\ Parted(T, lo, hi) /\ Cuts(b, lo, hi, r, s)
      /\ Linked(T, b, lo, hi, r, s) /\ Written(T, b, r, s)
      /\ Heads(T, b, H, r, s) /\ Counted(r, s, f) /\ Executing(T, b, s, e, f)
      /\ Travelling(H, s, f, place) /\ Owing(T, b, hi, s, e, f)
    BY DEF Stand
<1>1. /\ T \in [Nat -> Command] /\ r \in Nat /\ s \in Nat /\ f \in Nat /\ e \in Nat
      /\ b \in [Nat -> Nat] /\ lo \in Nat /\ hi \in Nat /\ r <= f
    BY <1>0 DEF Numbered, Counted
<1>2. /\ inList /\ command_p # NULL /\ command_p' = mem[command_p]
      /\ due' = [t \in Client |-> due[t] \ {command_p}]
      /\ UNCHANGED <<listVars, mem, ringVars, fifo, own, tag>>
      /\ UNCHANGED <<mesgQueue, inList, finishCommandTag>>
    BY DEF CommandProcExecute
<1>3. /\ f < s /\ b[f] <= e /\ e <= b[f + 1] /\ command_p = Foremost(T, e, b[f + 1])
    BY <1>0, <1>2 DEF Executing
<1>4. f + 1 \in r + 1 .. s /\ f + 1 \in r .. s /\ f \in r .. s /\ (f + 1) - 1 = f
    BY <1>1, <1>3
<1>5. CutFacts(b, lo, hi, r, s)
    BY <1>0, <1>1, CutsAre
<1>6. PICK n \in Nat : n = b[f + 1]
    BY <1>4, <1>5 DEF CutFacts
<1>7. PICK m \in Nat : m = b[f]
    BY <1>4, <1>5 DEF CutFacts
<1>8. /\ b[r] \in Nat /\ b[s] \in Nat /\ lo <= b[r] /\ b[r] <= m /\ n <= b[s] /\ n <= hi
    BY <1>4, <1>5, <1>6, <1>7 DEF CutFacts
<1>9. m <= e /\ e < n /\ command_p = T[e + 1] /\ T[e + 1] \in Command
    <2>1. e # n
        BY <1>2, <1>3, <1>6 DEF Foremost
    <2> QED
        BY <1>1, <1>3, <1>6, <1>7, <2>1 DEF Foremost
<1>10. command_p' = Foremost(T, e + 1, n)
    <2>1. e + 1 \in b[r] + 1 .. b[s] /\ e + 1 \in m + 1 .. n
        BY <1>1, <1>8, <1>9
    <2>2. mem[T[e + 1]] = next[T[e + 1]]
        BY <1>0, <2>1 DEF Written
    <2>3. IsChain(next, T, m, n)
        BY <1>0, <1>1, <1>4, <1>6, <1>7, LinksAre
    <2>4. next[T[e + 1]] = IF e + 1 = n THEN NULL ELSE T[(e + 1) + 1]
        BY <2>1, <2>3 DEF IsChain
    <2> QED
        BY <1>2, <1>9, <2>2, <2>4 DEF Foremost
<1>11. Executing(T, b, s, e + 1, f)'
    <2>1. b[f] <= e + 1 /\ e + 1 <= b[f + 1]
        BY <1>1, <1>6, <1>7, <1>9
    <2> QED
        BY <1>2, <1>3, <1>6, <1>10, <2>1 DEF Executing
<1>12. Travelling(H, s, f, place)'
    BY <1>0, <1>2 DEF Travelling, Begun
<1>13. Counted(r, s, f)'
    BY <1>0, <1>2 DEF Counted, ringVars
<1>14. Owing(T, b, hi, s, e + 1, f)'
    <2> SUFFICES ASSUME NEW u \in Client, due'[u] # {}
                 PROVE  \E k \in f + 1 .. s + 1 :
                           /\ tag[u] = k % TagMod
                           /\ \A c \in due'[u] :
                                 \E i \in (e + 1) + 1 .. (IF k <= s THEN b[k] ELSE hi) : T[i] = c
        BY <1>2 DEF Owing
    <2>1. due'[u] = due[u] \ {T[e + 1]}
        BY <1>2, <1>9
    <2>2. PICK k \in f + 1 .. s + 1 :
             /\ tag[u] = k % TagMod
             /\ \A c \in due[u] : \E i \in e + 1 .. (IF k <= s THEN b[k] ELSE hi) : T[i] = c
        BY <1>0, <2>1 DEF Owing
    <2>3. ASSUME NEW c \in due'[u]
          PROVE  \E i \in (e + 1) + 1 .. (IF k <= s THEN b[k] ELSE hi) : T[i] = c
        <3>1. PICK i \in e + 1 .. (IF k <= s THEN b[k] ELSE hi) : T[i] = c
            BY <2>1, <2>2
        <3>2. i # e + 1
            BY <2>1, <3>1
        <3>3. (IF k <= s THEN b[k] ELSE hi) \in Nat
            <4>1. k \in Nat
                BY <1>1
            <4> QED
                BY <1>1, <4>1
        <3>4. i \in (e + 1) + 1 .. (IF k <= s THEN b[k] ELSE hi)
            BY <1>1, <3>2, <3>3
        <3> QED
            BY <3>1, <3>4
    <2> QED
        BY <2>2, <2>3
<1>15. /\ Types' /\ Parted(T, lo, hi)' /\ Linked(T, b, lo, hi, r, s)'
       /\ Ends(T, b, lo, hi, r, s)' /\ Written(T, b, r, s)' /\ Ringed(H, r, s)'
    <2>1. inList' \in BOOLEAN /\ due' \in [Client -> SUBSET Command]
        BY <1>2 DEF Types
    <2> QED
        BY <1>2, <2>1, SoundKeeps
<1>16. Numbered(T, b, H, place, lo, hi, r, s, e + 1, f) /\ e < hi
    BY <1>0, <1>1, <1>8, <1>9 DEF Numbered
<1> QED
    BY <1>0, <1>11, <1>12, <1>13, <1>14, <1>15, <1>16 DEF Stand

\* and counts a list as finished.
LEMMA FinishMoves ==
    ASSUME NEW T, NEW b, NEW H, NEW place, NEW lo, NEW hi, NEW r, NEW s, NEW e, NEW f,
           Stand(T, b, H, place, lo, hi, r, s, e, f), Types, CommandProcFinish
    PROVE  Types' /\ Stand(T, b, H, place, lo, hi, r, s, e, f + 1)'
<1>0. /\ Numbered(T, b, H, place, lo, hi, r, s, e, f) /\ Parted(T, lo, hi) /\ Cuts(b, lo, hi, r, s)
      /\ Heads(T, b, H, r, s) /\ Counted(r, s, f) /\ Executing(T, b, s, e, f)
      /\ Travelling(H, s, f, place) /\ Owing(T, b, hi, s, e, f)
    BY DEF Stand
<1>1. /\ T \in [Nat -> Command] /\ r \in Nat /\ s \in Nat /\ f \in Nat /\ e \in Nat
      /\ b \in [Nat -> Nat] /\ lo \in Nat /\ hi \in Nat /\ r <= f
    BY <1>0 DEF Numbered, Counted
<1>2. /\ inList /\ command_p = NULL /\ inList' = FALSE
      /\ finishCommandTag' = NextTag(finishCommandTag)
      /\ UNCHANGED <<listVars, mem, ringVars, fifo, own, tag>>
      /\ UNCHANGED <<mesgQueue, command_p, due>>
    BY DEF CommandProcFinish, ListDone, callVars
<1>3. f < s /\ b[f] <= e /\ e <= b[f + 1] /\ command_p = Foremost(T, e, b[f + 1])
    BY <1>0, <1>2 DEF Executing
<1>4. f + 1 \in r + 1 .. s /\ f + 1 \in r .. s /\ f + 1 \in Nat
    BY <1>1, <1>3
<1>5. e = b[f + 1]
    <2>1. PICK n \in Nat : n = b[f + 1]
        BY <1>1, <1>4
    <2>2. e <= n
        BY <1>3, <2>1
    <2> QED
        BY <1>1, <1>2, <1>3, <2>1, <2>2, ForemostIs
<1>6. Executing(T, b, s, e, f + 1)'
    BY <1>2, <1>5 DEF Executing
<1>7. Travelling(H, s, f + 1, place)'
    <2>1. Begun(f) = f + 1 /\ Begun(f + 1)' = f + 1
        BY <1>2 DEF Begun
    <2> QED
        BY <1>0, <1>2, <2>1 DEF Travelling
<1>8. Counted(r, s, f + 1)'
    <2>1. finishCommandTag' = (f + 1) % TagMod
        <3>1. TagMod \in Nat /\ TagMod > 1
            BY Constants
        <3>2. ((f % TagMod) + 1) % TagMod = (f + 1) % TagMod
            BY <1>1, <3>1, NextRemainder
        <3> QED
            BY <1>0, <1>2, <3>2 DEF Counted, NextTag
    <2>2. r <= f + 1 /\ f + 1 <= s
        BY <1>1, <1>3
    <2> QED
        BY <1>0, <1>2, <2>1, <2>2 DEF Counted, ringVars
<1>9. Owing(T, b, hi, s, e, f + 1)'
    <2> SUFFICES ASSUME NEW u \in Client, due[u] # {}
                 PROVE  \E k \in (f + 1) + 1 .. s + 1 :
                           /\ tag[u] = k % TagMod
                           /\ \A c \in due[u] :
                                 \E i \in e + 1 .. (IF k <= s THEN b[k] ELSE hi) : T[i] = c
        BY <1>2 DEF Owing
    <2>1. PICK k \in f + 1 .. s + 1 :
             /\ tag[u] = k % TagMod
             /\ \A c \in due[u] : \E i \in e + 1 .. (IF k <= s THEN b[k] ELSE hi) : T[i] = c
        BY <1>0 DEF Owing
    <2>2. k # f + 1
        <3>1. SUFFICES ASSUME k = f + 1 PROVE FALSE
            OBVIOUS
        <3>2. PICK c \in due[u] : TRUE
            OBVIOUS
        <3>3. (IF k <= s THEN b[k] ELSE hi) = e
            BY <1>1, <1>3, <1>5, <3>1
        <3>4. PICK i \in e + 1 .. e : T[i] = c
            BY <2>1, <3>3
        <3> QED
            BY <1>1, <3>4
    <2>3. k \in (f + 1) + 1 .. s + 1
        BY <1>1, <2>2
    <2> QED
        BY <2>1, <2>3
<1>10. /\ Types' /\ Parted(T, lo, hi)' /\ Linked(T, b, lo, hi, r, s)'
       /\ Ends(T, b, lo, hi, r, s)' /\ Written(T, b, r, s)' /\ Ringed(H, r, s)'
    <2>1. inList' \in BOOLEAN /\ due' \in [Client -> SUBSET Command]
        BY <1>2 DEF Types
    <2> QED
        BY <1>2, <2>1, SoundKeeps
<1>11. Numbered(T, b, H, place, lo, hi, r, s, e, f + 1)
    BY <1>0, <1>4 DEF Numbered
<1> QED
    BY <1>0, <1>6, <1>7, <1>8, <1>9, <1>10, <1>11 DEF Stand

-----------------------------------------------------------------------------
(* The tags.                                                               *)

\* A client takes the tag of the list that is reserved.
LEMMA TagMoves ==
    ASSUME NEW T, NEW b, NEW H, NEW place, NEW lo, NEW hi, NEW r, NEW s, NEW e, NEW f,
           Stand(T, b, H, place, lo, hi, r, s, e, f), Types, NEW t \in Client,
           GetCurrentCommandTag(t)
    PROVE  Types' /\ Stand(T, b, H, place, lo, hi, r, s, e, f)'
<1>0. /\ Numbered(T, b, H, place, lo, hi, r, s, e, f) /\ Parted(T, lo, hi) /\ Cuts(b, lo, hi, r, s)
      /\ Linked(T, b, lo, hi, r, s) /\ Ends(T, b, lo, hi, r, s) /\ Written(T, b, r, s)
      /\ Heads(T, b, H, r, s) /\ Ringed(H, r, s) /\ Counted(r, s, f) /\ Executing(T, b, s, e, f)
      /\ Travelling(H, s, f, place) /\ Owing(T, b, hi, s, e, f)
    BY DEF Stand
<1>1. /\ T \in [Nat -> Command] /\ b \in [Nat -> Nat] /\ e \in Nat
      /\ lo \in Nat /\ hi \in Nat /\ r \in Nat /\ s \in Nat /\ f \in Nat /\ f <= s
    BY <1>0 DEF Numbered, Counted
<1>2. e <= b[s] /\ CutFacts(b, lo, hi, r, s)
    BY ToReadIs
<1>3. PICK n \in Nat : n = b[s]
    BY <1>2 DEF CutFacts
<1>4. e <= n /\ n <= hi /\ reserve.head = Foremost(T, n, hi)
      /\ Chain(next, reserve.head) = Window(T, n, hi)
    <2>1. Chain(next, reserve.head) = Window(T, b[s], hi)
        BY ChainsAre DEF Types
    <2> QED
        BY <1>0, <1>2, <1>3, <2>1 DEF CutFacts, Ends
<1>5. ToSet(Chain(next, reserve.head)) = {T[i] : i \in n + 1 .. hi}
    BY <1>1, <1>4, WindowMembers
<1> DEFINE own_due == {T[i] : i \in n + 1 .. hi}
           own_tag == IF reserve.head = NULL THEN finishedTag ELSE currentTag
<1>6. /\ tag' = [tag EXCEPT ![t] = own_tag] /\ due' = [due EXCEPT ![t] = own_due]
      /\ UNCHANGED <<own, listVars, mem, ringVars, fifo, arm7Vars>>
    BY <1>5 DEF GetCurrentCommandTag
<1>7. own_due \subseteq Command /\ own_tag \in Tag
    <2>1. own_due \subseteq Command
        <3>1. \A i \in n + 1 .. hi : i \in Nat
            BY <1>1
        <3> QED
            BY <1>1, <3>1
    <2>2. TagMod \in Nat /\ TagMod > 1 /\ s + 1 \in Nat /\ \A k \in Nat : k % TagMod \in 0 .. TagMod - 1
        BY <1>1, Constants, NextRemainder
    <2>3. finishedTag \in Tag /\ currentTag \in Tag
        BY <1>0, <1>1, <2>2 DEF Counted, Tag
    <2> QED
        BY <2>1, <2>3
<1>8. /\ tag' \in [Client -> Tag \cup {NULL}] /\ due' \in [Client -> SUBSET Command]
      /\ tag'[t] = own_tag /\ due'[t] = own_due
      /\ \A u \in Client \ {t} : tag'[u] = tag[u] /\ due'[u] = due[u]
    <2> HIDE DEF own_due, own_tag
    <2> QED
        BY <1>6, <1>7 DEF Types
<1>9. own_due # {} => own_tag = (s + 1) % TagMod
    <2>1. SUFFICES ASSUME own_due # {} PROVE own_tag = (s + 1) % TagMod
        OBVIOUS
    <2>2. PICK i \in n + 1 .. hi : TRUE
        BY <2>1
    <2>3. n # hi /\ T[n + 1] \in Command
        BY <1>1, <2>2
    <2>4. reserve.head # NULL
        BY <1>4, <2>3, Constants DEF Foremost
    <2> QED
        BY <1>0, <2>4 DEF Counted
<1> HIDE DEF own_tag
<1>10. Owing(T, b, hi, s, e, f)'
    <2> SUFFICES ASSUME NEW u \in Client, due'[u] # {}
                 PROVE  \E k \in f + 1 .. s + 1 :
                           /\ tag'[u] = k % TagMod
                           /\ \A c \in due'[u] :
                                 \E i \in e + 1 .. (IF k <= s THEN b[k] ELSE hi) : T[i] = c
        BY DEF Owing
    <2>1. CASE u = t
        <3>1. s + 1 \in f + 1 .. s + 1 /\ ~(s + 1 <= s)
            BY <1>1
        <3>2. tag'[u] = (s + 1) % TagMod
            BY <1>8, <1>9, <2>1
        <3>3. ASSUME NEW c \in due'[u] PROVE \E i \in e + 1 .. hi : T[i] = c
            <4>1. PICK i \in n + 1 .. hi : T[i] = c
                BY <1>8, <2>1
            <4>2. i \in e + 1 .. hi
                BY <1>1, <1>4
            <4> QED
                BY <4>1, <4>2
        <3> QED
            BY <3>1, <3>2, <3>3
    <2>2. CASE u # t
        BY <1>0, <1>8, <2>2 DEF Owing
    <2> QED
        BY <2>1, <2>2
<1> HIDE DEF own_due
<1>11. next' = next /\ free' = free /\ reserve' = reserve /\ own' = own /\ mem' = mem /\ fifo' = fifo
    BY <1>6 DEF listVars
<1>12. Parted(T, lo, hi)' /\ Linked(T, b, lo, hi, r, s)' /\ Ends(T, b, lo, hi, r, s)'
    <2>1. Parted(T, lo, hi)'
        BY <1>0, <1>11 DEF Parted
    <2>2. Linked(T, b, lo, hi, r, s)'
        BY <1>0, <1>11 DEF Linked
    <2>3. Ends(T, b, lo, hi, r, s)'
        BY <1>0, <1>11 DEF Ends
    <2> QED
        BY <2>1, <2>2, <2>3
<1>13. Written(T, b, r, s)'
    BY <1>0, <1>11 DEF Written
<1>14. Ringed(H, r, s)' /\ Counted(r, s, f)' /\ Executing(T, b, s, e, f)'
    BY <1>0, <1>6 DEF Ringed, Counted, Executing, ringVars, arm7Vars
<1>15. Travelling(H, s, f, place)'
    BY <1>0, <1>6, <1>11 DEF Travelling, Begun, arm7Vars
<1>16. Types'
    BY <1>6, <1>8, <1>11 DEF Types, ringVars, arm7Vars
<1> QED
    BY <1>0, <1>10, <1>12, <1>13, <1>14, <1>15, <1>16 DEF Stand

\* A tag that is finished has nothing due.
LEMMA NothingDue ==
    ASSUME NEW T, NEW b, NEW H, NEW place, NEW lo, NEW hi, NEW r, NEW s, NEW e, NEW f,
           Stand(T, b, H, place, lo, hi, r, s, e, f), NEW t \in Client, IsFinished(tag[t])
    PROVE  due[t] = {}
<1>1. /\ r \in Nat /\ s \in Nat /\ f \in Nat /\ r <= f /\ finishedTag = r % TagMod
      /\ s - r <= BufSize /\ BufSize \in Nat /\ Owing(T, b, hi, s, e, f)
    BY Constants DEF Stand, Numbered, Counted, Ringed
<1>2. SUFFICES ASSUME due[t] # {} PROVE FALSE
    OBVIOUS
<1>3. PICK n \in f + 1 .. s + 1 : tag[t] = n % TagMod
    BY <1>1, <1>2 DEF Owing
<1>4. PICK d \in Nat : d = n - r
    BY <1>1
<1>5. r + d = n /\ 1 <= d /\ d <= BufSize + 1
    BY <1>1, <1>4
<1>6. ~IsFinished((r + d) % TagMod)
    BY <1>1, <1>5, NotFinished
<1> QED
    BY <1>3, <1>5, <1>6

-----------------------------------------------------------------------------
(* The steps of the lists, and of the pipe they implement.                 *)
Pipeline == ToRead \o Chain(next, reserve.head)

PipeOfLine ==
    \A T, b, H, place, lo, hi, r, s, e, f :
        Types /\ Stand(T, b, H, place, lo, hi, r, s, e, f) => Pipeline = Window(T, e, hi)

LEMMA PipeIsOfLine == PipeOfLine
BY PipeIs DEF PipeOfLine, Pipeline

PipeStep ==
    \/ Pipeline' = Pipeline
    \/ Pipeline # << >> /\ Pipeline' = Tail(Pipeline)
    \/ \E c \in Command : Pipeline' = Append(Pipeline, c)

LinesStep == Lines' /\ PipeStep

\* A step that leaves the line from the executed commands to its end as it is.
LEMMA LineStays ==
    ASSUME NEW T, NEW b, NEW H, NEW place, NEW lo, NEW hi, NEW r, NEW s, NEW e, NEW f,
           NEW B, NEW G, NEW pos, NEW l, NEW q, NEW z, NEW g,
           Types, Stand(T, b, H, place, lo, hi, r, s, e, f),
           Types', Stand(T, B, G, pos, l, hi, q, z, e, g)'
    PROVE  LinesStep
<1>1. PipeOfLine'
    BY PipeIsOfLine, PTL
<1>2. Pipeline = Window(T, e, hi)
    BY PipeIsOfLine DEF PipeOfLine
<1>3. Pipeline' = Window(T, e, hi)
    BY <1>1 DEF PipeOfLine
<1>4. Lines'
    BY DEF Lines, Standing
<1> QED
    BY <1>2, <1>3, <1>4 DEF LinesStep, PipeStep

LEMMA StaysLines ==
    ASSUME Lines, MemoryFollows, UNCHANGED <<listVars, ringVars, fifo, arm7Vars, own>>,
           tag' \in [Client -> Tag \cup {NULL}], due' \in [Client -> SUBSET Command],
           \A u \in Client : due'[u] = {} \/ (due'[u] = due[u] /\ tag'[u] = tag[u])
    PROVE  LinesStep
<1>1. PICK T, b, H, place, lo, hi, r, s, e, f : Stand(T, b, H, place, lo, hi, r, s, e, f)
    BY DEF Lines, Standing
<1>2. Types
    BY DEF Lines
<1>3. Types' /\ Stand(T, b, H, place, lo, hi, r, s, e, f)'
    BY <1>1, <1>2, Stays
<1> QED
    BY <1>1, <1>2, <1>3, LineStays

\* A step of a call that only goes from one place to another, or writes memory.
LEMMA PlacesLines ==
    ASSUME Lines, mem' = mem \/ mem' = Flushed \/ \E c \in Command : mem' = [mem EXCEPT ![c] = next[c]],
           UNCHANGED <<listVars, ringVars, fifo, arm7Vars, own, tag, due>>
    PROVE  LinesStep
<1>1. Types
    BY DEF Lines
<1>2. MemoryFollows
    BY <1>1 DEF Types, MemoryFollows, Flushed
<1>3. tag' \in [Client -> Tag \cup {NULL}] /\ due' \in [Client -> SUBSET Command]
    BY <1>1 DEF Types
<1>4. \A u \in Client : due'[u] = {} \/ (due'[u] = due[u] /\ tag'[u] = tag[u])
    OBVIOUS
<1> QED
    BY <1>2, <1>3, <1>4, StaysLines

LEMMA RequestLines ==
    ASSUME Lines, Room, fifo' = Append(fifo, Request),
           UNCHANGED <<listVars, mem, ringVars, arm7Vars, own, tag, due>>
    PROVE  LinesStep
<1>1. PICK T, b, H, place, lo, hi, r, s, e, f : Stand(T, b, H, place, lo, hi, r, s, e, f)
    BY DEF Lines, Standing
<1>2. Types
    BY DEF Lines
<1>3. PICK pos : pos = Put(place, Len(fifo) + 1, s)
    OBVIOUS
<1>4. Types' /\ Stand(T, b, H, pos, lo, hi, r, s, e, f)'
    BY <1>1, <1>2, <1>3, RequestMoves
<1> QED
    BY <1>1, <1>2, <1>4, LineStays

LEMMA TakeLines ==
    ASSUME Lines, NEW t \in Client, own[t] = NULL,
           Take(t), UNCHANGED <<mem, ringVars, fifo, arm7Vars>>,
           tag' \in [Client -> Tag \cup {NULL}], due' \in [Client -> SUBSET Command],
           \A u \in Client : due'[u] = {} \/ (due'[u] = due[u] /\ tag'[u] = tag[u])
    PROVE  LinesStep /\ \A u \in Client \ {t} : own'[u] = own[u]
<1>1. PICK T, b, H, place, lo, hi, r, s, e, f : Stand(T, b, H, place, lo, hi, r, s, e, f)
    BY DEF Lines, Standing
<1>2. Types
    BY DEF Lines
<1>3. /\ Types' /\ Stand(T, b, H, place, lo + 1, hi, r, s, e, f)'
      /\ \A u \in Client \ {t} : own'[u] = own[u]
    BY <1>1, <1>2, TakeMoves
<1> DEFINE l == lo + 1
<1>4. Stand(T, b, H, place, l, hi, r, s, e, f)'
    BY <1>3
<1> HIDE DEF l
<1>5. LinesStep
    BY <1>1, <1>2, <1>3, <1>4, LineStays
<1> QED
    BY <1>3, <1>5

LEMMA RecvLines ==
    ASSUME Lines, ReplyReady, RecvReply, UNCHANGED <<own, tag, due, arm7Vars>>
    PROVE  LinesStep /\ reserve' = reserve /\ waitingCount' = waitingCount - 1 /\ waitingCount' < BufSize
<1>1. PICK T, b, H, place, lo, hi, r, s, e, f : Stand(T, b, H, place, lo, hi, r, s, e, f)
    BY DEF Lines, Standing
<1>2. Types
    BY DEF Lines
<1>3. /\ Types' /\ Stand(T, b, H, place, lo, hi, r + 1, s, e, f)'
      /\ waitingCount' = waitingCount - 1 /\ reserve' = reserve /\ waitingCount' < BufSize
    BY <1>1, <1>2, RecvMoves
<1> DEFINE q == r + 1
<1>4. Stand(T, b, H, place, lo, hi, q, s, e, f)'
    BY <1>3
<1> HIDE DEF q
<1>5. LinesStep
    BY <1>1, <1>2, <1>3, <1>4, LineStays
<1> QED
    BY <1>3, <1>5

LEMMA SentLines ==
    ASSUME Lines, MaySendNow, Sent, UNCHANGED <<own, tag, due, arm7Vars>>
    PROVE  LinesStep
<1>1. PICK T, b, H, place, lo, hi, r, s, e, f : Stand(T, b, H, place, lo, hi, r, s, e, f)
    BY DEF Lines, Standing
<1>2. Types
    BY DEF Lines
<1>3. PICK B, G, pos : Extended(b, H, place, hi, s, B, G, pos)
    BY DEF Extended
<1>4. Types' /\ Stand(T, B, G, pos, lo, hi, r, s + 1, e, f)'
    BY <1>1, <1>2, <1>3, SentMoves
<1> DEFINE z == s + 1
<1>5. Stand(T, B, G, pos, lo, hi, r, z, e, f)'
    BY <1>4
<1> HIDE DEF z
<1> QED
    BY <1>1, <1>2, <1>4, <1>5, LineStays

LEMMA PushLines ==
    ASSUME Lines, NEW t \in Client, PushCommand(t)
    PROVE  LinesStep /\ own' = [own EXCEPT ![t] = NULL]
<1>1. PICK T, b, H, place, lo, hi, r, s, e, f : Stand(T, b, H, place, lo, hi, r, s, e, f)
    BY DEF Lines, Standing
<1>2. Types
    BY DEF Lines
<1>3. PICK U : U = [T EXCEPT ![hi + 1] = own[t]]
    OBVIOUS
<1>4. Types' /\ Stand(U, b, H, place, lo, hi + 1, r, s, e, f)' /\ own[t] \in Command
    BY <1>1, <1>2, <1>3, PushMoves
<1>5. PICK n : n = hi + 1
    OBVIOUS
<1>6. Stand(U, b, H, place, lo, n, r, s, e, f)'
    BY <1>4, <1>5
<1>7. PipeOfLine'
    BY PipeIsOfLine, PTL
<1>8. Pipeline = Window(T, e, hi) /\ Pipeline' = Window(U, e, n)
    <2>1. Pipeline = Window(T, e, hi)
        BY <1>1, <1>2, PipeIsOfLine DEF PipeOfLine
    <2>2. Pipeline' = Window(U, e, n)
        BY <1>4, <1>6, <1>7 DEF PipeOfLine
    <2> QED
        BY <2>1, <2>2
<1>9. T \in [Nat -> Command] /\ hi \in Nat /\ e \in Nat /\ e <= hi
    <2>1. /\ T \in [Nat -> Command] /\ hi \in Nat /\ e \in Nat /\ s \in Nat /\ b \in [Nat -> Nat]
          /\ b[s] <= hi
        BY <1>1 DEF Stand, Numbered, Cuts
    <2>2. e <= b[s]
        BY <1>1, <1>2, ToReadIs
    <2> QED
        BY <2>1, <2>2
<1>10. Window(U, e, n) = Append(Window(T, e, hi), own[t])
    <2>1. PICK c \in Command : c = own[t]
        BY <1>4
    <2>2. U \in [Nat -> Command] /\ U[hi + 1] = c /\ \A i \in Nat : i # hi + 1 => U[i] = T[i]
        BY <1>3, <1>9, <2>1
    <2>3. SameOn(T, U, e, hi)
        <3>1. \A i \in e + 1 .. hi : i \in Nat /\ i # hi + 1
            BY <1>9
        <3> QED
            BY <2>2, <3>1 DEF SameOn
    <2>4. Window(T, e, hi) = Window(U, e, hi)
        BY <1>9, <2>2, <2>3, WindowSame
    <2>5. Window(U, e, hi + 1) = Append(Window(U, e, hi), U[hi + 1])
        BY <1>9, <2>2, WindowEnd
    <2> QED
        BY <1>5, <2>1, <2>2, <2>4, <2>5
<1>11. PipeStep
    BY <1>4, <1>8, <1>10 DEF PipeStep
<1>12. Lines'
    BY <1>4, <1>6 DEF Lines, Standing
<1> QED
    BY <1>11, <1>12 DEF LinesStep, PushCommand

LEMMA TagLines ==
    ASSUME Lines, NEW t \in Client, GetCurrentCommandTag(t)
    PROVE  LinesStep
<1>1. PICK T, b, H, place, lo, hi, r, s, e, f : Stand(T, b, H, place, lo, hi, r, s, e, f)
    BY DEF Lines, Standing
<1>2. Types
    BY DEF Lines
<1>3. Types' /\ Stand(T, b, H, place, lo, hi, r, s, e, f)'
    BY <1>1, <1>2, TagMoves
<1> QED
    BY <1>1, <1>2, <1>3, LineStays

LEMMA WordLines ==
    ASSUME Lines, PxiFifoCallback
    PROVE  LinesStep
<1>1. PICK T, b, H, place, lo, hi, r, s, e, f : Stand(T, b, H, place, lo, hi, r, s, e, f)
    BY DEF Lines, Standing
<1>2. Types
    BY DEF Lines
<1> DEFINE pos == Shifted(place)
<1>3. Types' /\ Stand(T, b, H, pos, lo, hi, r, s, e, f)'
    BY <1>1, <1>2, WordMoves
<1> HIDE DEF pos
<1> QED
    BY <1>1, <1>2, <1>3, LineStays

LEMMA SoundLines ==
    ASSUME Lines, SoundThread
    PROVE  LinesStep
<1>1. PICK T, b, H, place, lo, hi, r, s, e, f : Stand(T, b, H, place, lo, hi, r, s, e, f)
    BY DEF Lines, Standing
<1>2. Types
    BY DEF Lines
<1>3. CASE CommandProcList
    <2>1. Types' /\ Stand(T, b, H, place, lo, hi, r, s, e, f)'
        BY <1>1, <1>2, <1>3, ListMoves
    <2> QED
        BY <1>1, <1>2, <2>1, LineStays
<1>4. CASE CommandProcFinish
    <2>1. Types' /\ Stand(T, b, H, place, lo, hi, r, s, e, f + 1)'
        BY <1>1, <1>2, <1>4, FinishMoves
    <2> DEFINE g == f + 1
    <2>2. Stand(T, b, H, place, lo, hi, r, s, e, g)'
        BY <2>1
    <2> HIDE DEF g
    <2> QED
        BY <1>1, <1>2, <2>1, <2>2, LineStays
<1>5. CASE CommandProcExecute
    <2>1. Types' /\ Stand(T, b, H, place, lo, hi, r, s, e + 1, f)' /\ e < hi
        BY <1>1, <1>2, <1>5, ExecuteMoves
    <2> DEFINE n == e + 1
    <2>2. Stand(T, b, H, place, lo, hi, r, s, n, f)'
        BY <2>1
    <2>3. PipeOfLine'
        BY PipeIsOfLine, PTL
    <2>4. Pipeline = Window(T, e, hi)
        BY <1>1, <1>2, PipeIsOfLine DEF PipeOfLine
    <2>5. T \in [Nat -> Command] /\ hi \in Nat /\ e \in Nat
        BY <1>1 DEF Stand, Numbered
    <2>6. Window(T, e, hi) # << >> /\ Tail(Window(T, e, hi)) = Window(T, n, hi)
        BY <2>1, <2>5, WindowHead
    <2> HIDE DEF n
    <2>7. Pipeline' = Window(T, n, hi)
        BY <2>1, <2>2, <2>3 DEF PipeOfLine
    <2>8. Lines'
        BY <2>1, <2>2 DEF Lines, Standing
    <2> QED
        BY <2>4, <2>6, <2>7, <2>8 DEF LinesStep, PipeStep
<1> QED
    BY <1>3, <1>4, <1>5 DEF SoundThread

-----------------------------------------------------------------------------
(* The steps of the calls.                                                 *)
WaitedStep == \A t \in Client : tag[t] # NULL /\ tag'[t] = NULL => due[t] = {}

GoodStep == LinesStep /\ Callers' /\ WaitedStep

\* Where the client may go, with what it knows there.
MayGo(t, to) ==
    /\ to \in Places
    /\ to = "idle" \/ own'[t] = NULL
    /\ to \in {"spin", "send"} => reserve'.head # NULL
    /\ to = "spin" => waitingCount' >= BufSize
    /\ to = "send" => waitingCount' < BufSize

LEMMA CallersGo ==
    ASSUME Callers, NEW t \in Client, NEW from, NEW to, Step(t, from, to), MayGo(t, to),
           user' = user, \A u \in Client \ {t} : own'[u] = own[u]
    PROVE  Callers'
<1>1. /\ pc \in [Client -> Places] /\ \A u \in Client \ {t} : ~Masked(u)
      /\ pc' = [pc EXCEPT ![t] = to] /\ to \in Places
    BY DEF Callers, Step, MayGo
<1>2. pc' \in [Client -> Places] /\ pc'[t] = to /\ \A u \in Client \ {t} : pc'[u] = pc[u]
    BY <1>1
<1>3. ASSUME NEW u \in Client
      PROVE  /\ pc'[u] # "idle" => own'[u] = NULL
             /\ pc'[u] = "spin" => waitingCount' >= BufSize /\ reserve'.head # NULL
             /\ pc'[u] = "send" => waitingCount' < BufSize /\ reserve'.head # NULL
    <2>1. CASE u = t
        BY <1>2, <2>1 DEF MayGo
    <2>2. CASE u # t
        <3>1. pc'[u] = pc[u] /\ own'[u] = own[u] /\ pc[u] # "spin" /\ pc[u] # "send"
            BY <1>1, <1>2, <2>2 DEF Masked
        <3>2. pc[u] # "idle" => own[u] = NULL
            BY DEF Callers
        <3> QED
            BY <3>1, <3>2
    <2> QED
        BY <2>1, <2>2
<1>4. \A u \in Client \ {t} : ~(Masked(u)')
    BY <1>1, <1>2 DEF Masked
<1>5. \A u, v \in Client : Masked(u)' /\ Masked(v)' => u = v
    BY <1>4
<1>6. user' \subseteq Client
    BY DEF Callers
<1> QED
    BY <1>2, <1>3, <1>5, <1>6 DEF Callers

LEMMA CallersStay ==
    ASSUME Callers, UNCHANGED <<pc, own, user, waitingCount, reserve>>
    PROVE  Callers'
BY DEF Callers, Masked

\* A client goes on with what it has, to a place where it has tested nothing.
LEMMA JustGoes ==
    ASSUME IInv, NEW t \in Client, NEW from, NEW to, Step(t, from, to),
           to \in Places \ {"spin", "send"}, to = "idle" \/ from # "idle" \/ own[t] = NULL,
           user' = user, own' = own, tag' = tag
    PROVE  Callers' /\ WaitedStep
<1>1. Callers
    BY DEF IInv
<1>2. to = "idle" \/ own[t] = NULL
    BY <1>1 DEF Callers, Step
<1>3. MayGo(t, to)
    BY <1>2 DEF MayGo
<1>4. Callers'
    BY <1>1, <1>3, CallersGo
<1>5. WaitedStep
    BY DEF WaitedStep
<1> QED
    BY <1>4, <1>5

LEMMA EnterGood ==
    ASSUME IInv, NEW t \in Client, NEW to, NEW kind, NEW want, NEW seen, user' = user,
           Enter(t, to, kind, want, seen), to \in Places \ {"spin", "send"},
           UNCHANGED <<listVars, mem, ringVars, fifo, arm7Vars>>
    PROVE  GoodStep
<1>1. Step(t, "idle", to) /\ own[t] = NULL /\ UNCHANGED <<own, tag, due>>
    BY DEF Enter
<1>2. Callers' /\ WaitedStep
    BY <1>1, JustGoes
<1>3. LinesStep
    BY <1>1, PlacesLines DEF IInv
<1> QED
    BY <1>2, <1>3 DEF GoodStep

\* A client takes a command and is in no call any more.
LEMMA TakeGood ==
    ASSUME IInv, NEW t \in Client, NEW from, Step(t, from, "idle"), own[t] = NULL, Take(t),
           user' = user, UNCHANGED <<tag, due, mem, ringVars, fifo, arm7Vars>>
    PROVE  GoodStep
<1>1. Lines /\ Types /\ Callers
    BY DEF IInv, Lines
<1>2. tag' \in [Client -> Tag \cup {NULL}] /\ due' \in [Client -> SUBSET Command]
    BY <1>1 DEF Types
<1>3. \A u \in Client : due'[u] = {} \/ (due'[u] = due[u] /\ tag'[u] = tag[u])
    OBVIOUS
<1>4. UNCHANGED <<mem, ringVars, fifo, arm7Vars>>
    OBVIOUS
<1>5. LinesStep /\ \A u \in Client \ {t} : own'[u] = own[u]
    BY <1>1, <1>2, <1>3, <1>4, TakeLines
<1>6. MayGo(t, "idle")
    BY DEF MayGo, Places
<1>7. Callers'
    BY <1>1, <1>5, <1>6, CallersGo
<1>8. WaitedStep
    BY DEF WaitedStep
<1> QED
    BY <1>5, <1>7, <1>8 DEF GoodStep

\* The wait for a tag is over.
LEMMA DropGood ==
    ASSUME IInv, NEW t \in Client, NEW from, Step(t, from, "idle"), IsFinished(tag[t]), DropTag(t),
           user' = user, UNCHANGED <<own, listVars, mem, ringVars, fifo, arm7Vars>>
    PROVE  GoodStep
<1>1. Lines /\ Types /\ Callers
    BY DEF IInv, Lines
<1>2. /\ tag' \in [Client -> Tag \cup {NULL}] /\ due' \in [Client -> SUBSET Command]
      /\ due'[t] = {} /\ \A u \in Client \ {t} : due'[u] = due[u] /\ tag'[u] = tag[u]
    BY <1>1 DEF Types, DropTag
<1>3. \A u \in Client : due'[u] = {} \/ (due'[u] = due[u] /\ tag'[u] = tag[u])
    BY <1>2
<1>4. MemoryFollows
    BY <1>1 DEF Types, MemoryFollows
<1>5. LinesStep
    BY <1>1, <1>2, <1>3, <1>4, StaysLines
<1>6. MayGo(t, "idle")
    BY DEF MayGo, Places
<1>7. Callers'
    BY <1>1, <1>6, CallersGo
<1>8. due[t] = {}
    <2>1. PICK T, b, H, place, lo, hi, r, s, e, f : Stand(T, b, H, place, lo, hi, r, s, e, f)
        BY <1>1 DEF Lines, Standing
    <2> QED
        BY <2>1, NothingDue
<1>9. WaitedStep
    BY <1>2, <1>8 DEF WaitedStep
<1> QED
    BY <1>5, <1>7, <1>9 DEF GoodStep

\* A client goes on, or comes back, and has collected a reply.
LEMMA RecvGood ==
    ASSUME IInv, NEW t \in Client, NEW from, NEW to, Step(t, from, to), ReplyReady, RecvReply,
           to \in Places \ {"spin", "send"}, to = "idle" \/ from # "idle",
           user' = user, UNCHANGED <<own, tag, due, arm7Vars>>
    PROVE  GoodStep
<1>1. Callers' /\ WaitedStep
    BY JustGoes
<1>2. LinesStep
    BY RecvLines DEF IInv
<1> QED
    BY <1>1, <1>2 DEF GoodStep

LEMMA ClientStepGood ==
    ASSUME IInv, NEW t \in Client, ClientStep(t), user' = user
    PROVE  GoodStep
<1>0. Lines /\ Types /\ Callers
    BY DEF IInv, Lines
<1>1. CASE Alloc(t)
    BY <1>1, TakeGood DEF Alloc
<1>2. CASE PushCommand(t)
    <2>1. LinesStep /\ own' = [own EXCEPT ![t] = NULL]
        BY <1>0, <1>2, PushLines
    <2>2. Step(t, "idle", "idle") /\ tag' = tag
        BY <1>2 DEF PushCommand
    <2>3. \A u \in Client \ {t} : own'[u] = own[u]
        BY <1>0, <2>1 DEF Types
    <2>4. MayGo(t, "idle")
        BY DEF MayGo, Places
    <2>5. Callers'
        BY <1>0, <2>2, <2>3, <2>4, CallersGo
    <2>6. WaitedStep
        BY <2>2 DEF WaitedStep
    <2> QED
        BY <2>1, <2>5, <2>6 DEF GoodStep
<1>3. CASE FlushNoBlock(t)
    <2>1. /\ Step(t, "idle", "idle") /\ own[t] = NULL /\ UNCHANGED <<own, tag, due, arm7Vars>>
          /\ reserve.head # NULL /\ waitingCount < BufSize
          /\ IF Room THEN Sent ELSE mem' = Flushed /\ UNCHANGED <<listVars, ringVars, fifo>>
        BY <1>3 DEF FlushNoBlock
    <2>2. Callers' /\ WaitedStep
        BY <2>1, JustGoes DEF Places
    <2>3. CASE Room
        BY <1>0, <2>1, <2>2, <2>3, SentLines DEF MaySendNow, GoodStep
    <2>4. CASE ~Room
        <3>1. UNCHANGED <<listVars, ringVars, fifo, arm7Vars, own, tag, due>> /\ mem' = Flushed
            BY <2>1, <2>4
        <3>2. LinesStep
            BY <1>0, <3>1, PlacesLines
        <3> QED
            BY <2>2, <3>2 DEF GoodStep
    <2> QED
        BY <2>3, <2>4
<1>4. CASE RecvReplyNoBlock(t)
    BY <1>4, RecvGood DEF RecvReplyNoBlock, Places
<1> QED
    BY <1>1, <1>2, <1>3, <1>4 DEF ClientStep

\* A step of a call that changes no list.
LEMMA PlaceGood ==
    ASSUME IInv, NEW t \in Client, NEW from, NEW to, Step(t, from, to),
           to \in Places \ {"spin", "send"}, to = "idle" \/ from # "idle" \/ own[t] = NULL,
           user' = user, mem' = mem \/ mem' = Flushed,
           UNCHANGED <<listVars, ringVars, fifo, arm7Vars, own, tag, due>>
    PROVE  GoodStep
<1>1. Callers' /\ WaitedStep
    BY JustGoes
<1>2. LinesStep
    BY PlacesLines DEF IInv
<1> QED
    BY <1>1, <1>2 DEF GoodStep

LEMMA ReturnGood ==
    ASSUME IInv, NEW t \in Client, NEW from, from # "idle", Return(t, from), user' = user
    PROVE  GoodStep
<1>1. /\ Step(t, from, "idle") /\ Satisfied(t) /\ UNCHANGED <<mem, ringVars, fifo, arm7Vars>>
      /\ IF call[t].kind = "alloc" THEN Take(t) ELSE UNCHANGED <<own, listVars>>
      /\ IF call[t].kind = "proc" THEN DropTag(t) ELSE UNCHANGED <<tag, due>>
    BY DEF Return, Leave
<1>2. own[t] = NULL
    BY <1>1 DEF IInv, Callers, Step
<1>3. CASE call[t].kind = "alloc"
    <2>1. Take(t) /\ UNCHANGED <<tag, due>>
        BY <1>1, <1>3
    <2> QED
        BY <1>1, <1>2, <2>1, TakeGood
<1>4. CASE call[t].kind = "proc"
    <2>1. UNCHANGED <<own, listVars>> /\ DropTag(t)
        BY <1>1, <1>4
    <2>2. IsFinished(tag[t])
        BY <1>1, <1>4 DEF Satisfied
    <2> QED
        BY <1>1, <2>1, <2>2, DropGood
<1>5. CASE call[t].kind \notin {"alloc", "proc"}
    <2>1. UNCHANGED <<own, listVars, tag, due>>
        BY <1>1, <1>5
    <2> QED
        BY <1>1, <2>1, PlaceGood DEF Places
<1> QED
    BY <1>3, <1>4, <1>5

LEMMA GoOnGood ==
    ASSUME IInv, NEW t \in Client, NEW from, NEW to, from # "idle", to \in Places \ {"spin", "send"},
           GoOn(t, from, to), user' = user
    PROVE  GoodStep
BY PlaceGood DEF GoOn

\* The reserved commands go to the ARM7.
LEMMA SendGood ==
    ASSUME IInv, NEW t \in Client, NEW from, NEW may, FlushSend(t, from, may), user' = user,
           from # "idle", waitingCount < BufSize, Room
    PROVE  GoodStep
<1>1. /\ reserve.head # NULL /\ Step(t, from, AfterFlush(t, TRUE))
      /\ UNCHANGED <<own, tag, due, arm7Vars>> /\ Sent
    BY DEF FlushSend, EndFlush
<1>2. AfterFlush(t, TRUE) \in Places \ {"spin", "send"}
    BY DEF AfterFlush, Places
<1>3. Callers' /\ WaitedStep
    <2>1. PICK to : to = AfterFlush(t, TRUE)
        OBVIOUS
    <2>2. Step(t, from, to)
        BY <1>1, <2>1
    <2> QED
        BY <1>1, <1>2, <2>1, <2>2, JustGoes
<1>4. LinesStep
    BY <1>1, SentLines DEF IInv, MaySendNow
<1> QED
    BY <1>3, <1>4 DEF GoodStep

LEMMA NothingGood ==
    ASSUME IInv, NEW t \in Client, NEW from, FlushNothing(t, from), user' = user,
           from # "idle", mem' = mem \/ mem' = Flushed
    PROVE  GoodStep
<1>1. /\ Step(t, from, AfterFlush(t, FALSE))
      /\ UNCHANGED <<listVars, ringVars, fifo, arm7Vars, own, tag, due>>
    BY DEF FlushNothing, EndFlush
<1>2. PICK to : to = AfterFlush(t, FALSE)
    OBVIOUS
<1>3. to \in Places \ {"spin", "send"} /\ Step(t, from, to)
    BY <1>1, <1>2 DEF AfterFlush, Places
<1> QED
    BY <1>1, <1>3, PlaceGood

LEMMA MoveGood ==
    ASSUME IInv, NEW t \in Client, NEW from, NEW to, FlushMove(t, from, to), user' = user,
           from # "idle", to \in Places \ {"spin", "send"}, mem' = mem \/ mem' = Flushed
    PROVE  GoodStep
BY PlaceGood DEF FlushMove

LEMMA FlushBeginGood ==
    ASSUME IInv, NEW t \in Client, FlushBegin(t), user' = user
    PROVE  GoodStep
<1>1. CASE FlushNothing(t, "flush") /\ UNCHANGED mem
    BY <1>1, NothingGood
<1>2. CASE FlushSend(t, "flush", waitingCount < BufSize /\ Room /\ MaySendMore)
    <2>1. waitingCount < BufSize /\ Room
        BY <1>2 DEF FlushSend
    <2> QED
        BY <1>2, <2>1, SendGood
<1>3. CASE /\ reserve.head # NULL /\ waitingCount >= BufSize
           /\ FlushMove(t, "flush", "spin") /\ UNCHANGED mem
    <2>1. /\ Step(t, "flush", "spin")
          /\ UNCHANGED <<listVars, ringVars, fifo, arm7Vars, own, tag, due>> /\ mem' = mem
        BY <1>3 DEF FlushMove
    <2>2. LinesStep
        BY <2>1, PlacesLines DEF IInv
    <2>3. own[t] = NULL /\ Callers
        BY <2>1 DEF IInv, Callers, Step
    <2>4. MayGo(t, "spin")
        BY <1>3, <2>1, <2>3 DEF MayGo, Places, listVars, ringVars
    <2>5. Callers'
        BY <2>1, <2>3, <2>4, CallersGo
    <2>6. WaitedStep
        BY <2>1 DEF WaitedStep
    <2> QED
        BY <2>2, <2>5, <2>6 DEF GoodStep
<1>4. CASE FlushMove(t, "flush", "retry") /\ mem' = Flushed
    BY <1>4, MoveGood DEF Places
<1> QED
    BY <1>1, <1>2, <1>3, <1>4 DEF FlushBegin

LEMMA FlushSpinGood ==
    ASSUME IInv, NEW t \in Client, FlushSpin(t), user' = user
    PROVE  GoodStep
<1>1. /\ Step(t, "spin", IF waitingCount - 1 >= BufSize THEN "spin" ELSE "send")
      /\ ReplyReady /\ RecvReply /\ UNCHANGED <<own, tag, due, arm7Vars>>
    BY DEF FlushSpin
<1>2. LinesStep /\ reserve' = reserve /\ waitingCount' = waitingCount - 1 /\ waitingCount' < BufSize
    BY <1>1, RecvLines DEF IInv
<1>3. /\ Callers /\ own[t] = NULL /\ reserve.head # NULL
    BY <1>1 DEF IInv, Callers, Step
<1>4. ~(waitingCount - 1 >= BufSize)
    <2>1. PICK T, b, H, place, lo, hi, r, s, e, f : Stand(T, b, H, place, lo, hi, r, s, e, f)
        BY DEF IInv, Lines, Standing
    <2>2. waitingCount \in Int /\ BufSize \in Int
        BY <2>1, Constants DEF Stand, Numbered, Ringed
    <2> QED
        BY <1>2, <2>2
<1>5. Step(t, "spin", "send")
    BY <1>1, <1>4
<1>6. MayGo(t, "send")
    BY <1>1, <1>2, <1>3 DEF MayGo, Places
<1>7. Callers'
    BY <1>1, <1>3, <1>5, <1>6, CallersGo
<1>8. WaitedStep
    BY <1>1 DEF WaitedStep
<1> QED
    BY <1>2, <1>7, <1>8 DEF GoodStep

LEMMA FlushSpunGood ==
    ASSUME IInv, NEW t \in Client, FlushSpun(t), user' = user
    PROVE  GoodStep
<1>1. CASE FlushSend(t, "send", Room)
    <2>1. waitingCount < BufSize /\ Room
        BY <1>1 DEF FlushSend, EndFlush, Step, IInv, Callers
    <2> QED
        BY <1>1, <2>1, SendGood
<1>2. CASE FlushMove(t, "send", "retry") /\ mem' = Flushed
    BY <1>2, MoveGood DEF Places
<1> QED
    BY <1>1, <1>2 DEF FlushSpun

LEMMA FlushRetryGood ==
    ASSUME IInv, NEW t \in Client, FlushRetry(t), user' = user
    PROVE  GoodStep
<1>1. /\ Step(t, "retry", "retest") /\ UNCHANGED <<own, tag, due, arm7Vars>>
      /\ IF ReplyReady THEN RecvReply ELSE UNCHANGED <<listVars, mem, ringVars, fifo>>
      /\ UNCHANGED call
    BY DEF FlushRetry
<1>2. CASE ReplyReady
    BY <1>1, <1>2, RecvGood DEF Places
<1>3. CASE ~ReplyReady
    <2>1. UNCHANGED <<listVars, ringVars, fifo, arm7Vars, own, tag, due>> /\ mem' = mem
        BY <1>1, <1>3
    <2> QED
        BY <1>1, <2>1, PlaceGood DEF Places
<1> QED
    BY <1>2, <1>3

LEMMA FlushRetestGood ==
    ASSUME IInv, NEW t \in Client, FlushRetest(t), user' = user
    PROVE  GoodStep
<1>1. CASE FlushNothing(t, "retest") /\ mem' = Flushed
    BY <1>1, NothingGood
<1>2. CASE FlushSend(t, "retest", MaySend /\ MaySendMore)
    <2>1. waitingCount < BufSize /\ Room
        BY <1>2 DEF FlushSend, MaySend
    <2> QED
        BY <1>2, <2>1, SendGood
<1>3. CASE FlushMove(t, "retest", "retry") /\ mem' = Flushed
    BY <1>3, MoveGood DEF Places
<1> QED
    BY <1>1, <1>2, <1>3 DEF FlushRetest

LEMMA CallStepGood ==
    ASSUME IInv, NEW t \in Client, CallStep(t), user' = user
    PROVE  GoodStep
<1>1. CASE CountFreeAgain(t)
    BY <1>1, PlaceGood DEF CountFreeAgain, Places
<1>2. CASE Decide(t)
    <2>1. PICK to \in {"drain", "flush"} : Step(t, "decide", to)
        BY <1>2 DEF Decide
    <2>2. UNCHANGED <<listVars, mem, ringVars, fifo, arm7Vars, own, tag, due>>
        BY <1>2 DEF Decide
    <2>3. to \in Places \ {"spin", "send"}
        BY DEF Places
    <2> QED
        BY <2>1, <2>2, <2>3, PlaceGood
<1>3. CASE Drain(t)
    <2>1. CASE /\ ReplyReady /\ Step(t, "drain", "drain") /\ RecvReply
               /\ UNCHANGED <<call, own, tag, due, arm7Vars>>
        BY <2>1, RecvGood DEF Places
    <2>2. CASE /\ Step(t, "drain", "check")
               /\ UNCHANGED <<call, own, tag, due, listVars, mem, ringVars, fifo, arm7Vars>>
        BY <2>2, PlaceGood DEF Places
    <2> QED
        BY <1>3, <2>1, <2>2 DEF Drain
<1>4. CASE Check(t)
    <2>1. CASE Return(t, "check")
        BY <2>1, ReturnGood
    <2>2. CASE GoOn(t, "check", "request")
        BY <2>2, GoOnGood DEF Places
    <2> QED
        BY <1>4, <2>1, <2>2 DEF Check
<1>5. CASE RequestCommandProc(t)
    <2>1. /\ Room /\ fifo' = Append(fifo, Request)
          /\ UNCHANGED <<listVars, mem, ringVars, arm7Vars, own, tag, due>>
        BY <1>5 DEF RequestCommandProc
    <2>2. LinesStep
        BY <2>1, RequestLines DEF IInv
    <2>3. PICK to \in {"idle", "recv", "test"} : Step(t, "request", to)
        <3>1. (CASE call[t].kind = "immediate"         -> "idle"
                 [] call[t].kind \in {"alloc", "free"} -> "recv"
                 [] OTHER                              -> "test") \in {"idle", "recv", "test"}
            OBVIOUS
        <3> QED
            BY <1>5, <3>1 DEF RequestCommandProc
    <2>4. to \in Places \ {"spin", "send"}
        BY DEF Places
    <2>5. Callers' /\ WaitedStep
        BY <2>1, <2>3, <2>4, JustGoes
    <2> QED
        BY <2>2, <2>5 DEF GoodStep
<1>6. CASE RecvBlock(t)
    BY <1>6, RecvGood DEF RecvBlock, Places
<1>7. CASE Test(t)
    <2>1. CASE Return(t, "test")
        BY <2>1, ReturnGood
    <2>2. CASE GoOn(t, "test", "recv")
        BY <2>2, GoOnGood DEF Places
    <2> QED
        BY <1>7, <2>1, <2>2 DEF Test
<1> QED
    BY <1>1, <1>2, <1>3, <1>4, <1>5, <1>6, <1>7, FlushBeginGood, FlushSpinGood, FlushSpunGood,
       FlushRetryGood, FlushRetestGood DEF CallStep

LEMMA WaiterStepGood ==
    ASSUME IInv, NEW t \in Client, WaiterStep(t), user' = user
    PROVE  GoodStep
<1>0. Lines /\ Types /\ Callers
    BY DEF IInv, Lines
<1>1. CASE AllocWait(t)
    BY <1>1, EnterGood DEF AllocWait, Places
<1>2. ASSUME NEW n \in 1 .. Num, WaitForFreeCommand(t, n) PROVE GoodStep
    <2>1. Enter(t, "count", "free", n, CountFree)
        BY <1>2 DEF WaitForFreeCommand
    <2>2. UNCHANGED <<listVars, mem, ringVars, fifo, arm7Vars>>
        BY <1>2 DEF WaitForFreeCommand
    <2> QED
        BY <2>1, <2>2, EnterGood DEF Places
<1>3. CASE GetCurrentCommandTag(t)
    <2>1. /\ Step(t, "idle", "idle") /\ tag[t] = NULL /\ UNCHANGED <<own, listVars, ringVars>>
          /\ \A u \in Client \ {t} : tag'[u] = tag[u]
        BY <1>0, <1>3 DEF GetCurrentCommandTag, Types
    <2>2. LinesStep
        BY <1>0, <1>3, TagLines
    <2>3. MayGo(t, "idle")
        BY DEF MayGo, Places
    <2>4. Callers'
        BY <1>0, <2>1, <2>3, CallersGo
    <2>5. WaitedStep
        BY <2>1 DEF WaitedStep
    <2> QED
        BY <2>2, <2>4, <2>5 DEF GoodStep
<1>4. CASE WaitedAlready(t)
    BY <1>4, DropGood DEF WaitedAlready
<1>5. CASE WaitForCommandProc(t)
    <2>1. Enter(t, "drain", "proc", 0, 0) /\ UNCHANGED <<listVars, mem, ringVars, fifo, arm7Vars>>
        BY <1>5 DEF WaitForCommandProc
    <2> QED
        BY <2>1, EnterGood DEF Places
<1>6. ASSUME NEW kind \in {"flush", "immediate"}, FlushCommand(t, kind) PROVE GoodStep
    <2>1. Enter(t, "flush", kind, 0, 0) /\ UNCHANGED <<listVars, mem, ringVars, fifo, arm7Vars>>
        BY <1>6 DEF FlushCommand
    <2> QED
        BY <2>1, EnterGood DEF Places
<1>7. CASE CallStep(t)
    BY <1>7, CallStepGood
<1> QED
    BY <1>1, <1>2, <1>3, <1>4, <1>5, <1>6, <1>7 DEF WaiterStep

-----------------------------------------------------------------------------
(* The initial state, and every step.                                      *)

\* The commands in an order have each of them once.
LEMMA OrderIs ==
    ASSUME NEW order, order = SetToSeq(Command)
    PROVE  /\ order \in [1 .. Num -> Command]
           /\ \A i, j \in 1 .. Num : order[i] = order[j] => i = j
           /\ \A c \in Command : \E i \in 1 .. Num : order[i] = c
<1>1. IsFiniteSet(Command) /\ Num \in Nat /\ Cardinality(Command) = Num
    BY CommandsFinite DEF Num
<1>2. \E f \in [1 .. Num -> Command] : IsInjective(f)
    <2>1. ExistsBijection(1 .. Num, Command)
        BY <1>1, FS_CardinalityType
    <2>2. PICK f : f \in Bijection(1 .. Num, Command)
        BY <2>1 DEF ExistsBijection
    <2> QED
        BY <2>2 DEF Bijection, Injection, IsInjective
<1>3. order \in [1 .. Num -> Command] /\ IsInjective(order)
    BY <1>1, <1>2 DEF SetToSeq
<1>4. order \in Injection(1 .. Num, Command)
    BY <1>3 DEF Injection, IsInjective
<1>5. order \in Surjection(1 .. Num, Command)
    BY <1>1, <1>4, CountTo, FS_Injection
<1> QED
    BY <1>3, <1>4, <1>5 DEF Injection, IsInjective, Surjection

LEMMA InitHolds ==
    ASSUME Init
    PROVE  IInv /\ Pipeline = << >>
<1>0. /\ TagMod \in Nat /\ TagMod > 1 /\ BufSize \in Nat /\ BufSize > 0 /\ FifoSize \in Nat
      /\ Num \in Nat /\ Num > 0 /\ NULL \notin Command
    BY Constants, CommandsFinite
<1>1. PICK order : order = SetToSeq(Command)
    OBVIOUS
<1>2. /\ order \in [1 .. Num -> Command]
      /\ \A i, j \in 1 .. Num : order[i] = order[j] => i = j
      /\ \A c \in Command : \E i \in 1 .. Num : order[i] = c
    BY <1>1, OrderIs
<1>3. /\ next = [c \in Command |-> LET i == CHOOSE i \in 1 .. Num : order[i] = c
                                   IN  IF i = Num THEN NULL ELSE order[i + 1]]
      /\ free = [head |-> order[1], end |-> order[Num]]
    BY <1>1 DEF Init
<1>4. /\ mem = [c \in Command |-> NULL] /\ reserve = [head |-> NULL, end |-> NULL]
      /\ ring = [slot |-> [i \in Slot |-> NULL], read |-> 0, write |-> 0]
      /\ waitingCount = 0 /\ currentTag = 1 /\ finishedTag = 0 /\ finishCommandTag = 0
      /\ fifo = << >> /\ mesgQueue = << >> /\ command_p = NULL /\ inList = FALSE
      /\ user \subseteq Client /\ pc = [t \in Client |-> "idle"]
      /\ own = [t \in Client |-> NULL] /\ tag = [t \in Client |-> NULL]
      /\ due = [t \in Client |-> {}]
    BY DEF Init
<1>5. ASSUME NEW i \in 1 .. Num PROVE next[order[i]] = IF i = Num THEN NULL ELSE order[i + 1]
    <2>1. PICK c \in Command : c = order[i]
        BY <1>2
    <2> DEFINE k == CHOOSE j \in 1 .. Num : order[j] = c
    <2>2. next[c] = IF k = Num THEN NULL ELSE order[k + 1]
        BY <1>3
    <2>3. k \in 1 .. Num /\ order[k] = c
        BY <2>1
    <2> HIDE DEF k
    <2>4. k = i
        BY <1>2, <2>1, <2>3
    <2> QED
        BY <2>1, <2>2, <2>4
<1>6. next \in [Command -> Link]
    <2>1. ASSUME NEW c \in Command PROVE next[c] \in Link
        <3>1. PICK i \in 1 .. Num : order[i] = c
            BY <1>2
        <3>2. i # Num => i + 1 \in 1 .. Num
            BY <1>0
        <3> QED
            BY <1>2, <1>5, <3>1, <3>2 DEF Link
    <2> QED
        BY <1>3, <2>1
<1>7. PICK T \in [Nat -> Command] : \A i \in 1 .. Num : T[i] = order[i]
    <2>1. PICK d \in Command : TRUE
        BY CommandsFinite
    <2> DEFINE T == [i \in Nat |-> IF i \in 1 .. Num THEN order[i] ELSE d]
    <2>2. T \in [Nat -> Command]
        BY <1>2
    <2>3. \A i \in 1 .. Num : T[i] = order[i]
        OBVIOUS
    <2> HIDE DEF T
    <2> QED
        BY <2>2, <2>3
<1>8. PICK b \in [Nat -> Nat] : b[0] = Num
    <2>1. [i \in Nat |-> Num] \in [Nat -> Nat] /\ [i \in Nat |-> Num][0] = Num
        BY <1>0
    <2> QED
        BY <2>1
<1>9. PICK place \in [Nat -> Nat] : place[0] = 0
    <2>1. [i \in Nat |-> 0] \in [Nat -> Nat] /\ [i \in Nat |-> 0][0] = 0
        OBVIOUS
    <2> QED
        BY <2>1
<1>10. \A i \in 0 + 1 .. Num : i \in 1 .. Num
    OBVIOUS
<1>11. Types
    <2>1. ring \in [slot : [Slot -> Link], read : Slot, write : Slot]
        BY <1>0, <1>4 DEF Slot, Link
    <2>2. fifo \in Seq(Command \cup {Request}) /\ Len(fifo) <= FifoSize
        BY <1>0, <1>4
    <2> QED
        BY <1>4, <1>6, <2>1, <2>2 DEF Types, Link
<1>12. Callers
    BY <1>4 DEF Callers, Places, Masked
<1>13. Parted(T, 0, Num)
    <2>1. OnceIn(T, 0, Num)
        BY <1>2, <1>7, <1>10 DEF OnceIn
    <2>2. \A t \in Client : own[t] = NULL
        BY <1>4
    <2>3. \A i \in 0 + 1 .. Num : T[i] \in Command
        BY <1>2, <1>7, <1>10
    <2>4. \A c \in Command : \E i \in 0 + 1 .. Num : T[i] = c
        BY <1>2, <1>7
    <2> QED
        BY <1>0, <2>1, <2>2, <2>3, <2>4 DEF Parted
<1>14. Cuts(b, 0, Num, 0, 0)
    BY <1>0, <1>8 DEF Cuts
<1>15. Linked(T, b, 0, Num, 0, 0)
    <2> SUFFICES ASSUME NEW i \in 1 .. Num
                 PROVE  next[T[i]] = IF i = Num \/ IsCut(b, 0, 0, i) THEN NULL ELSE T[i + 1]
        BY DEF Linked
    <2>1. IsCut(b, 0, 0, i) <=> i = Num
        BY <1>0, <1>8 DEF IsCut
    <2>2. i # Num => T[i + 1] = order[i + 1]
        <3>1. i # Num => i + 1 \in 1 .. Num
            BY <1>0
        <3> QED
            BY <1>7, <3>1
    <2> QED
        BY <1>5, <1>7, <2>1, <2>2
<1>16. Ends(T, b, 0, Num, 0, 0)
    <2>1. 1 \in 1 .. Num /\ Num \in 1 .. Num /\ Num # 0 /\ 0 + 1 = 1
        BY <1>0
    <2> QED
        BY <1>3, <1>4, <1>7, <1>8, <2>1 DEF Ends, Foremost, Rearmost
<1>17. Written(T, b, 0, 0)
    BY <1>0, <1>8 DEF Written
<1>18. Heads(T, b, T, 0, 0)
    BY DEF Heads
<1>19. Ringed(T, 0, 0) /\ Counted(0, 0, 0)
    <2>1. 0 % (BufSize + 1) = 0 /\ 0 % TagMod = 0
        <3>1. BufSize + 1 \in Nat /\ BufSize + 1 > 0 /\ 0 \in 0 .. (BufSize + 1) - 1
              /\ TagMod > 0 /\ 0 \in 0 .. TagMod - 1 /\ 0 \in Int
            BY <1>0
        <3>2. ((BufSize + 1) * 0 + 0) % (BufSize + 1) = 0
            BY <3>1, Remainder
        <3>3. (TagMod * 0 + 0) % TagMod = 0
            BY <1>0, <3>1, Remainder
        <3>4. (BufSize + 1) * 0 + 0 = 0 /\ TagMod * 0 + 0 = 0
            BY <1>0
        <3> QED
            BY <3>2, <3>3, <3>4
    <2>2. (0 + 1) % TagMod = 1
        <3>1. 1 \in 0 .. TagMod - 1 /\ 0 \in Int /\ TagMod > 0 /\ TagMod * 0 + 1 = 0 + 1
            BY <1>0
        <3>2. (TagMod * 0 + 1) % TagMod = 1
            BY <1>0, <3>1, Remainder
        <3> QED
            BY <3>1, <3>2
    <2>3. Ringed(T, 0, 0)
        BY <1>0, <1>4, <2>1 DEF Ringed
    <2>4. Counted(0, 0, 0)
        BY <1>4, <2>1, <2>2 DEF Counted
    <2> QED
        BY <2>3, <2>4
<1>20. Executing(T, b, 0, Num, 0)
    BY <1>4, <1>8 DEF Executing
<1>21. Travelling(T, 0, 0, place)
    <2>1. Window(T, 0, 0) = << >>
        BY WindowEmpty
    <2>2. Begun(0) = 0 /\ Len(fifo) = 0
        BY <1>4 DEF Begun
    <2> QED
        BY <1>4, <1>9, <2>1, <2>2 DEF Travelling
<1>22. Owing(T, b, Num, 0, Num, 0)
    BY <1>4 DEF Owing
<1>23. Stand(T, b, T, place, 0, Num, 0, 0, Num, 0)
    BY <1>0, <1>13, <1>14, <1>15, <1>16, <1>17, <1>18, <1>19, <1>20, <1>21, <1>22 DEF Stand, Numbered
<1>24. IInv
    <2>1. Standing
        BY <1>23 DEF Standing
    <2> QED
        BY <1>11, <1>12, <2>1 DEF IInv, Lines
<1>25. Pipeline = << >>
    <2>1. Pipeline = Window(T, Num, Num)
        BY <1>11, <1>23, PipeIsOfLine DEF PipeOfLine
    <2> QED
        BY <1>0, <2>1, WindowEmpty
<1> QED
    BY <1>24, <1>25

LEMMA NextGood ==
    ASSUME IInv, [Next]_vars
    PROVE  GoodStep
<1>0. Lines /\ Types /\ Callers
    BY DEF IInv, Lines
<1>1. CASE UNCHANGED vars
    <2>1. UNCHANGED <<listVars, ringVars, fifo, arm7Vars, own, tag, due>> /\ mem' = mem
        BY <1>1 DEF vars, callVars
    <2>2. LinesStep
        BY <1>0, <2>1, PlacesLines
    <2>3. Callers'
        <3>1. UNCHANGED <<pc, own, user, waitingCount, reserve>>
            BY <1>1 DEF vars, callVars, listVars, ringVars
        <3> QED
            BY <1>0, <3>1, CallersStay
    <2>4. WaitedStep
        BY <2>1 DEF WaitedStep
    <2> QED
        BY <2>2, <2>3, <2>4 DEF GoodStep
<1>2. CASE user' = user /\ \E t \in user : ClientStep(t)
    BY <1>0, <1>2, ClientStepGood DEF Callers
<1>3. CASE user' = user /\ \E t \in user \cap Waiter : WaiterStep(t)
    BY <1>0, <1>3, WaiterStepGood DEF Callers
<1>4. CASE user' = user /\ \E c \in Command : Evict(c)
    <2>1. PICK c \in Command : Evict(c)
        BY <1>4
    <2>2. UNCHANGED <<listVars, ringVars, fifo, arm7Vars, callVars>>
        BY <2>1 DEF Evict
    <2>3. UNCHANGED <<listVars, ringVars, fifo, arm7Vars, own, tag, due>>
        BY <2>2 DEF callVars
    <2>4. mem' = [mem EXCEPT ![c] = next[c]]
        BY <2>1 DEF Evict
    <2>5. LinesStep
        BY <1>0, <2>3, <2>4, PlacesLines
    <2>6. UNCHANGED <<pc, own, user, waitingCount, reserve>>
        BY <1>4, <2>2 DEF callVars, listVars, ringVars
    <2>7. Callers' /\ WaitedStep
        BY <1>0, <2>3, <2>6, CallersStay DEF WaitedStep
    <2> QED
        BY <2>5, <2>7 DEF GoodStep
<1>5. CASE user' = user /\ PxiFifoCallback
    <2>1. LinesStep
        BY <1>0, <1>5, WordLines
    <2>2. UNCHANGED <<pc, own, user, waitingCount, reserve>> /\ tag' = tag
        BY <1>5 DEF PxiFifoCallback, callVars, listVars, ringVars
    <2>3. Callers' /\ WaitedStep
        BY <1>0, <2>2, CallersStay DEF WaitedStep
    <2> QED
        BY <2>1, <2>3 DEF GoodStep
<1>6. CASE user' = user /\ SoundThread
    <2>1. LinesStep
        BY <1>0, <1>6, SoundLines
    <2>2. UNCHANGED <<pc, own, user, waitingCount, reserve>> /\ tag' = tag
        BY <1>6 DEF SoundThread, CommandProcList, CommandProcExecute, CommandProcFinish,
                    callVars, listVars, ringVars
    <2>3. Callers' /\ WaitedStep
        BY <1>0, <2>2, CallersStay DEF WaitedStep
    <2> QED
        BY <2>1, <2>3 DEF GoodStep
<1> QED
    BY <1>1, <1>2, <1>3, <1>4, <1>5, <1>6 DEF Next

\* The invariant, IInv above, which holds at every step.
THEOREM CommandInvariant == Spec => []IInv
<1>1. Init => IInv
    BY InitHolds
<1>2. IInv /\ [Next]_vars => IInv'
    <2> SUFFICES ASSUME IInv, [Next]_vars PROVE IInv'
        OBVIOUS
    <2> QED
        BY NextGood DEF GoodStep, LinesStep, IInv
<1> QED
    BY <1>1, <1>2, PTL DEF Spec

\* No command is lost or in two places, the ends of the lists are ends, every list that
\* waits has its reply to come, and OS_SendMessage in the ARM7's callback never fails.
THEOREM CommandsOrderly == Spec => []ListsAreOrderly
<1>1. IInv => ListsAreOrderly
    BY Orderly
<1> QED
    BY <1>1, CommandInvariant, PTL

\* No command that the ARM7 has yet to read is free, reserved again or with a client:
\* SND_RecvCommandReply gives back only what was read to its end.
THEOREM CommandsReadFirst == Spec => []NotReusedEarly
<1>1. IInv => NotReusedEarly
    BY Orderly
<1> QED
    BY <1>1, CommandInvariant, PTL

\* SND_WaitForCommandProc returns when all that was reserved under its tag is executed,
\* though the tags wrap.
THEOREM TagsAreWaitedFor == Spec => WaitedForIsDone
<1>1. IInv /\ [Next]_vars =>
          [\A t \in Client : tag[t] # NULL /\ tag'[t] = NULL => due[t] = {}]_vars
    <2> SUFFICES ASSUME IInv, [Next]_vars
                 PROVE  \A t \in Client : tag[t] # NULL /\ tag'[t] = NULL => due[t] = {}
        OBVIOUS
    <2> QED
        BY NextGood DEF GoodStep, WaitedStep
<1> QED
    BY <1>1, CommandInvariant, PTL DEF Spec, WaitedForIsDone

\* The commands are executed in the order they were pushed, each once: links, cache,
\* FIFO, queues and tags implement CommandPipe.
THEOREM ImplementsPipe == Spec => RefinesPipe
<1>1. Init => Pipe!PipeInit
    BY InitHolds DEF Pipe!PipeInit, Pipeline
<1>2. IInv /\ [Next]_vars => [Pipe!PipeNext]_(ToRead \o Chain(next, reserve.head))
    <2> SUFFICES ASSUME IInv, [Next]_vars
                 PROVE  [Pipe!PipeNext]_(ToRead \o Chain(next, reserve.head))
        OBVIOUS
    <2>1. PipeStep
        BY NextGood DEF GoodStep, LinesStep
    <2>2. \/ Pipeline' = Pipeline
          \/ Pipe!Execute
          \/ \E c \in Command : Pipe!Push(c)
        BY <2>1 DEF PipeStep, Pipeline, Pipe!Execute, Pipe!Push
    <2> QED
        BY <2>2 DEF Pipe!PipeNext, Pipeline
<1> QED
    BY <1>1, <1>2, CommandInvariant, PTL DEF Spec, RefinesPipe, Pipe!PipeSpec

=============================================================================
