---------------------------- MODULE AnimationProofs ----------------------------
(***************************************************************************)
(* Proofs about AwaitAnimations, for any elements, styles and offsets: the  *)
(* timer is set for the end of the longest motion, whatever the lists of    *)
(* the style are, and a wait that is over has seen its motion end.          *)
(***************************************************************************)
EXTENDS AwaitAnimations, FiniteSetTheorems, WellFoundedInduction, TLAPS

-----------------------------------------------------------------------------
(* Least and greatest *)

(* A set of natural numbers has a least one: what induction rests on here. *)
LEMMA LeastNatural ==
    ASSUME NEW T \in SUBSET Nat, T # {}
    PROVE  \E m \in T : \A n \in T : m <= n
<1> DEFINE Less == {p \in Nat \X Nat : p[1] < p[2]}
<1>1. IsWellFoundedOn(Less, Nat)
    BY NatLessThanWellFounded DEF OpToRel
<1>2. ASSUME NEW m \in Nat, NEW n \in Nat, n < m PROVE <<n, m>> \in Less
    BY <1>2
<1> HIDE DEF Less
<1>3. PICK m \in T : \A n \in T : <<n, m>> \notin Less
    BY <1>1, WFMin
<1>4. \A n \in T : ~(n < m)
    BY <1>2, <1>3
<1> QED
    BY <1>4

(* A set that has a greatest element has it as its maximum. *)
LEMMA MaxIsGreatest ==
    ASSUME NEW S, S \subseteq Int, NEW x \in S, \A y \in S : y <= x
    PROVE  Max(S) = x
<1>1. \E z \in S : \A y \in S : z >= y
    OBVIOUS
<1>2. Max(S) \in S /\ \A y \in S : Max(S) >= y
    BY <1>1 DEF Max
<1>3. Max(S) \in Int /\ x \in Int /\ Max(S) >= x /\ Max(S) <= x
    BY <1>2
<1> QED
    BY <1>3

(* The values of a list have a greatest one. *)
LEMMA ListHasGreatest ==
    ASSUME NEW n \in Nat \ {0}, NEW f, \A i \in 1..n : f[i] \in Int
    PROVE  \E j \in 1..n : \A i \in 1..n : f[i] <= f[j]
<1> DEFINE Greatest(k, j) == \A i \in 1..k : f[i] <= f[j]
<1> DEFINE T == {k \in 1..n : ~\E j \in 1..k : Greatest(k, j)}
<1>1. ASSUME T # {} PROVE FALSE
    <2>1. T \in SUBSET Nat
        OBVIOUS
    <2>2. PICK m \in T : \A k \in T : m <= k
        BY <1>1, <2>1, LeastNatural
    <2>3. m \in 1..n /\ f[m] \in Int /\ ~\E j \in 1..m : Greatest(m, j)
        BY <2>2
    <2> HIDE DEF T
    <2>4. m # 1
        <3>1. m = 1 => Greatest(m, m)
            BY <2>3
        <3> QED
            BY <2>3, <3>1
    <2>5. m - 1 \in 1..n /\ m - 1 \notin T
        BY <2>2, <2>3, <2>4
    <2>6. PICK j \in 1..m - 1 : Greatest(m - 1, j)
        BY <2>5 DEF T
    <2>7. j \in 1..n /\ j \in 1..m /\ m \in 1..m /\ f[j] \in Int
        BY <2>3
    <2>8. \A i \in 1..m : i = m \/ i \in 1..m - 1
        BY <2>3
    <2>9. \A i \in 1..m : f[i] \in Int
        BY <2>3
    <2>10. CASE f[m] <= f[j]
        <3>1. Greatest(m, j)
            BY <2>6, <2>8, <2>10
        <3> QED
            BY <2>3, <2>7, <3>1
    <2>11. CASE f[j] <= f[m]
        <3>1. Greatest(m, m)
            <4> SUFFICES ASSUME NEW i \in 1..m PROVE f[i] <= f[m]
                OBVIOUS
            <4>1. i = m \/ f[i] <= f[j]
                BY <2>6, <2>8
            <4> QED
                BY <2>3, <2>7, <2>9, <2>11, <4>1
        <3> QED
            BY <2>3, <2>7, <3>1
    <2> QED
        BY <2>3, <2>7, <2>10, <2>11
<1>2. n \in 1..n
    OBVIOUS
<1> QED
    BY <1>1, <1>2

(* So their maximum is the value at some place, and no other is greater. *)
LEMMA MaxOfList ==
    ASSUME NEW n \in Nat \ {0}, NEW f, \A i \in 1..n : f[i] \in Int
    PROVE  /\ \E j \in 1..n : Max({f[i] : i \in 1..n}) = f[j]
           /\ \A i \in 1..n : f[i] <= Max({f[k] : k \in 1..n})
<1>1. PICK j \in 1..n : \A i \in 1..n : f[i] <= f[j]
    BY ListHasGreatest
<1> DEFINE S == {f[i] : i \in 1..n}
<1>2. S \subseteq Int /\ f[j] \in S /\ \A y \in S : y <= f[j]
    BY <1>1
<1> HIDE DEF S
<1>3. Max(S) = f[j]
    BY <1>2, MaxIsGreatest
<1> QED
    BY <1>1, <1>3 DEF S

-----------------------------------------------------------------------------
(* Repeated lists *)

(* Division by a list's length leaves one rest. *)
LEMMA OneRest ==
    ASSUME NEW b \in Nat \ {0}, NEW q \in Int, NEW p \in Int,
           NEW r \in 0..b - 1, NEW s \in 0..b - 1, b * q + r = b * p + s
    PROVE  r = s
<1>1. ASSUME NEW x \in Int, NEW y \in Int, x < y PROVE b * x + b <= b * y
    <2>1. b * (y - x) >= b
        BY <1>1
    <2> QED
        BY <2>1
<1>2. b * q \in Int /\ b * p \in Int
    OBVIOUS
<1>3. ~(q < p)
    <2>1. q < p => b * q + b <= b * p
        BY <1>1
    <2> QED
        BY <1>2, <2>1
<1>4. ~(p < q)
    <2>1. p < q => b * p + b <= b * q
        BY <1>1
    <2> QED
        BY <1>2, <2>1
<1>5. q = p
    BY <1>3, <1>4
<1> QED
    BY <1>2, <1>5

(* The rest by twice the length, and the rest by the length. *)
LEMMA RestOfTwice ==
    ASSUME NEW a \in Nat, NEW b \in Nat \ {0}
    PROVE  a % b = IF a % (b + b) < b THEN a % (b + b) ELSE (a % (b + b)) - b
<1> DEFINE c == b + b
<1> DEFINE r == a % c
<1> DEFINE q == a \div c
<1>1. c \in Nat \ {0}
    OBVIOUS
<1> HIDE DEF c
<1>2. r \in 0..c - 1 /\ q \in Nat /\ a = c * q + r
    BY <1>1
<1>3. a % b \in 0..b - 1 /\ a \div b \in Nat /\ a = b * (a \div b) + (a % b)
    OBVIOUS
<1> HIDE DEF r, q
<1>4. c * q = b * (q + q) /\ b * (q + q + 1) = b * (q + q) + b
    BY <1>2 DEF c
<1>5. /\ r \in Int /\ b \in Int /\ a % b \in Int /\ a \div b \in Int
      /\ b * (q + q) \in Int /\ q + q \in Int /\ q + q + 1 \in Int
    BY <1>2, <1>3 DEF c
<1>6. CASE r < b
    <2>1. r \in 0..b - 1
        BY <1>2, <1>5, <1>6
    <2>2. b * (q + q) + r = b * (a \div b) + (a % b)
        BY <1>2, <1>3, <1>4
    <2>3. r = a % b
        BY <1>3, <1>5, <2>1, <2>2, OneRest
    <2> QED
        BY <1>6, <2>3 DEF r, c
<1>7. CASE ~(r < b)
    <2>1. r - b \in 0..b - 1
        BY <1>2, <1>5, <1>7 DEF c
    <2>2. b * (q + q + 1) + (r - b) = b * (q + q) + r
        BY <1>4, <1>5
    <2>3. b * (q + q + 1) + (r - b) = b * (a \div b) + (a % b)
        BY <1>2, <1>3, <1>4, <2>2
    <2>4. r - b = a % b
        BY <1>3, <1>5, <2>1, <2>3, OneRest
    <2> QED
        BY <1>7, <2>4 DEF r, c
<1> QED
    BY <1>6, <1>7

(* Inside a list, Cyclic is the list itself. *)
LEMMA CyclicInside ==
    ASSUME NEW s \in Seq(Nat), NEW i \in 1..Len(s)
    PROVE  Cyclic(s, i) = s[i]
<1>1. i - 1 \in Nat /\ Len(s) \in Nat \ {0} /\ i - 1 < Len(s)
    OBVIOUS
<1>2. (i - 1) % Len(s) = i - 1
    BY <1>1
<1> QED
    BY <1>1, <1>2 DEF Cyclic

(* The values of Cyclic are those of the list. *)
LEMMA CyclicType ==
    ASSUME NEW s \in Seq(Nat), s # <<>>, NEW i \in Nat \ {0}
    PROVE  Cyclic(s, i) \in Nat
<1>1. i - 1 \in Nat /\ Len(s) \in Nat \ {0}
    OBVIOUS
<1>2. (i - 1) % Len(s) \in 0..Len(s) - 1
    BY <1>1
<1>3. ((i - 1) % Len(s)) + 1 \in 1..Len(s)
    BY <1>1, <1>2
<1> QED
    BY <1>3 DEF Cyclic

(* Repeating a list twice is repeating it. *)
LEMMA CyclicTwice ==
    ASSUME NEW s \in Seq(Nat), s # <<>>, NEW i \in Nat \ {0}
    PROVE  Cyclic(s \o s, i) = Cyclic(s, i)
<1> DEFINE a == i - 1
<1> DEFINE b == Len(s)
<1> DEFINE r == a % (b + b)
<1>1. a \in Nat /\ b \in Nat \ {0} /\ Len(s \o s) = b + b
    OBVIOUS
<1>2. \A k \in 1..b + b : (s \o s)[k] = IF k <= b THEN s[k] ELSE s[k - b]
    OBVIOUS
<1>3. Cyclic(s \o s, i) = (s \o s)[r + 1] /\ Cyclic(s, i) = s[(a % b) + 1]
    BY <1>1 DEF Cyclic
<1> HIDE DEF a, b
<1>4. r \in 0..(b + b) - 1
    <2>1. b + b \in Nat \ {0}
        BY <1>1
    <2> QED
        BY <1>1, <2>1
<1>5. a % b = IF r < b THEN r ELSE r - b
    BY <1>1, RestOfTwice
<1> HIDE DEF r
<1>6. r + 1 \in 1..b + b /\ (r + 1 <= b <=> r < b) /\ (r + 1) - b = (r - b) + 1
    BY <1>1, <1>4
<1> QED
    BY <1>2, <1>3, <1>5, <1>6

-----------------------------------------------------------------------------
(* The loop of calculateTimeout() *)

(* The lists that are too short by k at most. *)
Short(n, k) == {s \in Seq(Nat) : s # <<>> /\ n <= Len(s) + k}

(* What doubling leads to is well defined for these: g says to what. *)
DoublesTo(g, n, k) ==
    g = [s \in Short(n, k) |-> IF Len(s) < n THEN g[s \o s] ELSE s]

(* A list that is too short is doubled into one that is less so. *)
LEMMA DoubledIsLonger ==
    ASSUME NEW n \in Nat, NEW k \in Nat, NEW s \in Short(n, k + 1), Len(s) < n
    PROVE  s \o s \in Short(n, k)
<1>1. s \in Seq(Nat) /\ s # <<>> /\ n <= Len(s) + (k + 1)
    BY DEF Short
<1>2. s \o s \in Seq(Nat) /\ Len(s \o s) = Len(s) + Len(s) /\ Len(s) \in Nat \ {0}
    BY <1>1
<1>3. s \o s # <<>> /\ n <= Len(s \o s) + k
    BY <1>1, <1>2
<1> QED
    BY <1>2, <1>3 DEF Short

(* The loop comes to an end, however short the list. *)
LEMMA DoublingEnds ==
    ASSUME NEW n \in Nat, NEW k \in Nat
    PROVE  \E g : DoublesTo(g, n, k)
<1> DEFINE T == {m \in Nat : ~\E g : DoublesTo(g, n, m)}
<1>1. ASSUME T # {} PROVE FALSE
    <2>1. PICK m \in T : \A j \in T : m <= j
        BY <1>1, LeastNatural
    <2>2. m \in Nat /\ ~\E g : DoublesTo(g, n, m)
        OBVIOUS
    <2>3. CASE m = 0
        <3> DEFINE g == [s \in Short(n, 0) |-> s]
        <3>1. \A s \in Short(n, 0) : ~(Len(s) < n)
            BY DEF Short
        <3>2. DoublesTo(g, n, 0)
            BY <3>1 DEF DoublesTo
        <3> QED
            BY <2>2, <2>3, <3>2
    <2>4. CASE m # 0
        <3> DEFINE l == m - 1
        <3>1. l \in Nat /\ l \notin T /\ m = l + 1
            BY <2>1, <2>2, <2>4
        <3>2. PICK g : DoublesTo(g, n, l)
            BY <3>1
        <3> DEFINE h == [s \in Short(n, m) |->
                            IF Len(s) < n THEN g[s \o s] ELSE s]
        <3>3. \A s \in Short(n, l) : g[s] = IF Len(s) < n THEN g[s \o s] ELSE s
            BY <3>2 DEF DoublesTo
        <3>4. Short(n, l) \subseteq Short(n, m)
            BY <2>2, <3>1 DEF Short
        <3>5. \A s \in Short(n, l) : h[s] = g[s]
            BY <3>3, <3>4
        <3>6. \A s \in Short(n, m) : Len(s) < n => h[s \o s] = g[s \o s]
            BY <3>1, <3>5, DoubledIsLonger
        <3>7. DoublesTo(h, n, m)
            BY <3>6 DEF DoublesTo
        <3> QED
            BY <2>2, <3>7
    <2> QED
        BY <2>3, <2>4
<1> QED
    BY <1>1

(* The recursive function of Doubled is what its equation says. *)
LEMMA DoublingIsDefined ==
    ASSUME NEW n \in Nat
    PROVE  \E f : f = [s \in Seq(Nat) |-> IF Len(s) < n THEN f[s \o s] ELSE s]
<1>1. PICK g : DoublesTo(g, n, n)
    BY DoublingEnds
<1> DEFINE f == [s \in Seq(Nat) |-> IF s = <<>> THEN <<>> ELSE g[s]]
<1>2. ASSUME NEW s \in Seq(Nat)
      PROVE  f[s] = IF Len(s) < n THEN f[s \o s] ELSE s
    <2>1. CASE s = <<>>
        <3>1. s \o s = s /\ Len(s) = 0
            BY <2>1
        <3> QED
            BY <2>1, <3>1
    <2>2. CASE s # <<>>
        <3>1. s \in Short(n, n)
            BY <2>2 DEF Short
        <3>2. s \o s \in Seq(Nat) /\ s \o s # <<>>
            BY <2>2
        <3> QED
            BY <1>1, <2>2, <3>1, <3>2 DEF DoublesTo
    <2> QED
        BY <2>1, <2>2
<1>3. f = [s \in Seq(Nat) |-> IF Len(s) < n THEN f[s \o s] ELSE s]
    <2> DEFINE h == [s \in Seq(Nat) |-> IF Len(s) < n THEN f[s \o s] ELSE s]
    <2>1. \A s \in Seq(Nat) : f[s] = h[s]
        BY <1>2
    <2> QED
        BY <2>1
<1> QED
    BY <1>3

(* Doubling a list until it is long enough repeats it cyclically, as CSS does. *)
LEMMA DoubledRepeats ==
    ASSUME NEW n \in Nat, NEW delays \in Seq(Nat), delays # <<>>
    PROVE  /\ Doubled(delays, n) \in Seq(Nat)
           /\ Len(Doubled(delays, n)) >= n
           /\ \A i \in 1..n : Doubled(delays, n)[i] = Cyclic(delays, i)
<1> DEFINE twice == CHOOSE f :
                f = [s \in Seq(Nat) |-> IF Len(s) < n THEN f[s \o s] ELSE s]
<1>1. twice = [s \in Seq(Nat) |-> IF Len(s) < n THEN twice[s \o s] ELSE s]
    BY DoublingIsDefined
<1>2. Doubled(delays, n) = twice[delays]
    BY DEF Doubled
<1> HIDE DEF twice
<1> DEFINE Repeats(k) ==
        \A s \in Short(n, k) :
            /\ twice[s] \in Seq(Nat) /\ Len(twice[s]) >= n
            /\ \A i \in 1..n : twice[s][i] = Cyclic(s, i)
<1> DEFINE T == {m \in Nat : ~Repeats(m)}
<1>3. ASSUME T # {} PROVE FALSE
    <2>1. PICK m \in T : \A j \in T : m <= j
        BY <1>3, LeastNatural
    <2>2. m \in Nat /\ ~Repeats(m)
        OBVIOUS
    <2>3. PICK s \in Short(n, m) :
                \/ ~(twice[s] \in Seq(Nat) /\ Len(twice[s]) >= n)
                \/ \E i \in 1..n : twice[s][i] # Cyclic(s, i)
        BY <2>2
    <2>4. s \in Seq(Nat) /\ s # <<>> /\ n <= Len(s) + m
        BY DEF Short
    <2>5. CASE ~(Len(s) < n)
        <3>1. twice[s] = s /\ 1..n \subseteq 1..Len(s) /\ Len(s) >= n
            BY <1>1, <2>4, <2>5
        <3> QED
            BY <2>3, <2>4, <3>1, CyclicInside
    <2>6. CASE Len(s) < n
        <3> DEFINE l == m - 1
        <3>1. l \in Nat /\ m = l + 1
            BY <2>2, <2>4, <2>6
        <3>2. Repeats(l)
            BY <2>1, <3>1
        <3>3. s \o s \in Short(n, l)
            BY <2>6, <3>1, DoubledIsLonger
        <3>4. twice[s] = twice[s \o s]
            BY <1>1, <2>4, <2>6
        <3>5. \A i \in 1..n : Cyclic(s \o s, i) = Cyclic(s, i)
            BY <2>4, CyclicTwice
        <3> QED
            BY <2>3, <3>2, <3>3, <3>4, <3>5
    <2> QED
        BY <2>5, <2>6
<1>4. delays \in Short(n, n)
    BY DEF Short
<1>5. Repeats(n)
    BY <1>3
<1> QED
    BY <1>2, <1>4, <1>5

-----------------------------------------------------------------------------
(* The timer *)

(* calculateTimeout() finds the longest of the parts that have a duration. *)
LEMMA CalculateTimeoutIsLongest ==
    ASSUME NEW l \in Lists, l.delays # <<>>, l.durations # <<>>
    PROVE  /\ \E j \in 1..Len(l.durations) :
                 CalculateTimeout(l.delays, l.durations) = Lasts(l, j)
           /\ \A i \in 1..Len(l.durations) :
                 Lasts(l, i) <= CalculateTimeout(l.delays, l.durations)
           /\ \A i \in Nat \ {0} : Lasts(l, i) \in Nat
           /\ CalculateTimeout(l.delays, l.durations) \in Nat
<1> DEFINE n == Len(l.durations)
<1> DEFINE enough == Doubled(l.delays, n)
<1> DEFINE f == [i \in 1..n |-> l.durations[i] + enough[i]]
<1>1. l.delays \in Seq(Nat) /\ l.durations \in Seq(Nat) /\ n \in Nat \ {0}
    BY DEF Lists
<1>2. \A i \in Nat \ {0} : Lasts(l, i) \in Nat
    <2> SUFFICES ASSUME NEW i \in Nat \ {0} PROVE Lasts(l, i) \in Nat
        OBVIOUS
    <2>1. Cyclic(l.delays, i) \in Nat /\ Cyclic(l.durations, i) \in Nat
        BY <1>1, CyclicType
    <2> QED
        BY <2>1 DEF Lasts
<1>3. \A i \in 1..n : enough[i] = Cyclic(l.delays, i)
    BY <1>1, DoubledRepeats
<1>4. \A i \in 1..n : l.durations[i] = Cyclic(l.durations, i)
    BY <1>1, CyclicInside
<1> HIDE DEF enough
<1>5. \A i \in 1..n : f[i] = Lasts(l, i)
    <2> SUFFICES ASSUME NEW i \in 1..n PROVE f[i] = Lasts(l, i)
        OBVIOUS
    <2>1. i \in Nat \ {0}
        OBVIOUS
    <2>2. Cyclic(l.delays, i) \in Nat /\ Cyclic(l.durations, i) \in Nat
        BY <1>1, <2>1, CyclicType
    <2> QED
        BY <1>3, <1>4, <2>2 DEF Lasts
<1>6. \A i \in 1..n : f[i] \in Int
    <2>1. \A i \in 1..n : i \in Nat \ {0}
        BY <1>1
    <2> HIDE DEF f, n
    <2> QED
        BY <1>2, <1>5, <2>1
<1>7. CalculateTimeout(l.delays, l.durations) = Max({f[i] : i \in 1..n})
    <2>1. DOMAIN l.durations = 1..n
        BY <1>1
    <2>2. {f[i] : i \in 1..n} = {l.durations[i] + enough[i] : i \in 1..n}
        OBVIOUS
    <2> QED
        BY <2>1, <2>2 DEF CalculateTimeout, enough
<1> HIDE DEF f, n
<1>8. /\ \E j \in 1..n : Max({f[i] : i \in 1..n}) = f[j]
      /\ \A i \in 1..n : f[i] <= Max({f[k] : k \in 1..n})
    BY <1>1, <1>6, MaxOfList
<1>9. \A i \in 1..n : i \in Nat \ {0}
    BY <1>1
<1>10. /\ \E j \in 1..n : CalculateTimeout(l.delays, l.durations) = Lasts(l, j)
       /\ \A i \in 1..n : Lasts(l, i) <= CalculateTimeout(l.delays, l.durations)
    BY <1>5, <1>7, <1>8
<1> QED
    BY <1>2, <1>9, <1>10 DEF n

(* The maximum of two. *)
LEMMA MaxOfTypes ==
    ASSUME NEW f, \A t \in Types : f[t] \in Int
    PROVE  /\ \A t \in Types : f[t] <= Max({f[t_1] : t_1 \in Types})
           /\ Max({f[t] : t \in Types}) = IF f["transition"] > f["animation"]
                                           THEN f["transition"] ELSE f["animation"]
<1> DEFINE S == {f[t] : t \in Types}
<1>1. S = {f["transition"], f["animation"]}
    BY DEF Types
<1>2. f["transition"] \in Int /\ f["animation"] \in Int
    BY DEF Types
<1> HIDE DEF S
<1>3. S \subseteq Int /\ f["transition"] \in S /\ f["animation"] \in S
    BY <1>1, <1>2
<1>4. f["transition"] > f["animation"] => Max(S) = f["transition"]
    <2>1. f["transition"] > f["animation"] => \A y \in S : y <= f["transition"]
        BY <1>1, <1>2
    <2> QED
        BY <1>3, <2>1, MaxIsGreatest
<1>5. ~(f["transition"] > f["animation"]) => Max(S) = f["animation"]
    <2>1. ~(f["transition"] > f["animation"]) => \A y \in S : y <= f["animation"]
        BY <1>1, <1>2
    <2> QED
        BY <1>3, <2>1, MaxIsGreatest
<1> QED
    BY <1>2, <1>4, <1>5 DEF S, Types

(* A style has the lists of the assumption. *)
LEMMA StyleLists ==
    ASSUME style \in [Elements -> Styles], NEW e \in Elements, NEW t \in Types
    PROVE  /\ style[e][t] \in Lists
           /\ style[e][t].delays # <<>> /\ style[e][t].durations # <<>>
           /\ style[e][t].properties \in Nat
           /\ Len(style[e][t].durations) \in Nat \ {0}
<1>1. /\ style[e][t] \in Lists
      /\ style[e][t].delays # <<>> /\ style[e][t].durations # <<>>
    BY StylesAssumption
<1>2. \A l \in Lists : l.properties \in Nat /\ l.durations \in Seq(Nat)
    BY DEF Lists
<1>3. style[e][t].durations \in Seq(Nat)
    BY <1>1, <1>2
<1> QED
    BY <1>1, <1>2, <1>3

(* The parts of an element, type by type. *)
LEMMA PartsByType ==
    ASSUME style \in [Elements -> Styles], NEW e \in Elements, NEW t \in Types,
           NEW i \in Nat \ {0}
    PROVE  <<t, i>> \in Parts(e) <=>
               i <= style[e][t].properties /\ Lasts(style[e][t], i) > 0
<1> DEFINE f == [u \in Types |-> style[e][u].properties]
<1> DEFINE m == Max({style[e][u].properties : u \in Types})
<1>1. \A u \in Types : f[u] \in Nat
    BY StyleLists
<1>2. m = Max({f[u] : u \in Types})
    <2>1. {style[e][u].properties : u \in Types} = {f[u] : u \in Types}
        OBVIOUS
    <2> QED
        BY <2>1
<1>3. \A u \in Types : f[u] <= m /\ m \in Int
    <2>1. \A u \in Types : f[u] \in Int
        BY <1>1
    <2> HIDE DEF f, m
    <2> QED
        BY <1>2, <2>1, MaxOfTypes DEF Types
<1> HIDE DEF m
<1>4. i <= style[e][t].properties => i \in 1..m
    BY <1>1, <1>3
<1>5. Parts(e) = {p \in Types \X (1..m) :
                     /\ p[2] <= style[e][p[1]].properties
                     /\ Lasts(style[e][p[1]], p[2]) > 0}
    BY DEF Parts, m
<1> QED
    BY <1>4, <1>5

(* Every part is one of these. *)
LEMMA PartsArePairs ==
    ASSUME style \in [Elements -> Styles], NEW e \in Elements, NEW p \in Parts(e)
    PROVE  p[1] \in Types /\ p[2] \in Nat \ {0} /\ p = <<p[1], p[2]>>
BY DEF Parts

(* The type that is waited for takes the longest. *)
LEMMA TypeTakesLongest ==
    ASSUME style \in [Elements -> Styles], NEW e \in Elements
    PROVE  /\ Type(e) \in Types
           /\ Timeout(e) \in Nat
           /\ Timeout(e) = TimeoutOf(e, Type(e))
           /\ \A t \in Types : TimeoutOf(e, t) \in Nat /\ TimeoutOf(e, t) <= Timeout(e)
<1> DEFINE f == [t \in Types |-> TimeoutOf(e, t)]
<1>1. \A t \in Types : TimeoutOf(e, t) \in Nat
    BY StyleLists, CalculateTimeoutIsLongest DEF TimeoutOf
<1>2. Timeout(e) = Max({f[t] : t \in Types})
    <2>1. {TimeoutOf(e, t) : t \in Types} = {f[t] : t \in Types}
        OBVIOUS
    <2> QED
        BY <2>1 DEF Timeout
<1>3. \A t \in Types : f[t] \in Int
    BY <1>1
<1>4. /\ \A t \in Types : f[t] <= Timeout(e)
      /\ Timeout(e) = IF f["transition"] > f["animation"]
                      THEN f["transition"] ELSE f["animation"]
    <2> HIDE DEF f
    <2> QED
        BY <1>2, <1>3, MaxOfTypes
<1> QED
    BY <1>1, <1>4 DEF Type, Types

(* In a regular style, the timer is at the end of a part of that type, and no
   part takes longer. *)
LEMMA TimerIsLastEnd ==
    ASSUME style \in [Elements -> Styles], NEW e \in Awaited, Regular(e)
    PROVE  /\ \E p \in Parts(e) :
                 p[1] = Type(e) /\ Lasts(style[e][p[1]], p[2]) = Timeout(e)
           /\ \A p \in Parts(e) : /\ Lasts(style[e][p[1]], p[2]) \in Nat
                                  /\ Lasts(style[e][p[1]], p[2]) <= Timeout(e)
<1>1. e \in Elements /\ Timeout(e) > 0
    BY DEF Awaited
<1>2. /\ Type(e) \in Types /\ Timeout(e) \in Nat
      /\ Timeout(e) = TimeoutOf(e, Type(e))
      /\ \A t \in Types : TimeoutOf(e, t) \in Nat /\ TimeoutOf(e, t) <= Timeout(e)
    BY <1>1, TypeTakesLongest
<1>3. \A t \in Types :
          /\ style[e][t].properties = Len(style[e][t].durations)
          /\ style[e][t].properties \in Nat
    BY <1>1, StyleLists DEF Regular
<1>4. ASSUME NEW t \in Types
      PROVE  /\ \E j \in 1..style[e][t].properties :
                   TimeoutOf(e, t) = Lasts(style[e][t], j)
             /\ \A i \in 1..style[e][t].properties :
                   Lasts(style[e][t], i) <= TimeoutOf(e, t)
             /\ \A i \in Nat \ {0} : Lasts(style[e][t], i) \in Nat
    BY <1>1, <1>3, StyleLists, CalculateTimeoutIsLongest DEF TimeoutOf
<1>5. \E p \in Parts(e) :
          p[1] = Type(e) /\ Lasts(style[e][p[1]], p[2]) = Timeout(e)
    <2>1. PICK j \in 1..style[e][Type(e)].properties :
              Timeout(e) = Lasts(style[e][Type(e)], j)
        BY <1>2, <1>4
    <2>2. j \in Nat \ {0} /\ j <= style[e][Type(e)].properties
        BY <1>2, <1>3
    <2>3. <<Type(e), j>> \in Parts(e)
        BY <1>1, <1>2, <2>1, <2>2, PartsByType
    <2> QED
        BY <2>1, <2>3
<1>6. ASSUME NEW p \in Parts(e)
      PROVE  /\ Lasts(style[e][p[1]], p[2]) \in Nat
             /\ Lasts(style[e][p[1]], p[2]) <= Timeout(e)
    <2>1. p[1] \in Types /\ p[2] \in Nat \ {0} /\ p = <<p[1], p[2]>>
        BY <1>1, PartsArePairs
    <2>2. p[2] \in 1..style[e][p[1]].properties
        BY <1>1, <1>3, <2>1, PartsByType
    <2>3. /\ Lasts(style[e][p[1]], p[2]) \in Nat
          /\ Lasts(style[e][p[1]], p[2]) <= TimeoutOf(e, p[1])
        BY <1>4, <2>1, <2>2
    <2> QED
        BY <1>2, <2>1, <2>3
<1> QED
    BY <1>5, <1>6

(* The timer is set for the end of the longest motion: nothing that moves lasts
   longer, and something lasts as long. *)
LEMMA TimerIsMaximum ==
    ASSUME style \in [Elements -> Styles]
    PROVE  TimeoutIsLongest
<1> SUFFICES ASSUME NEW e \in Awaited, Regular(e)
             PROVE  Timeout(e) = Max({Lasts(style[e][p[1]], p[2]) : p \in Parts(e)})
    BY DEF TimeoutIsLongest
<1> DEFINE S == {Lasts(style[e][p[1]], p[2]) : p \in Parts(e)}
<1>1. PICK p \in Parts(e) : Lasts(style[e][p[1]], p[2]) = Timeout(e)
    BY TimerIsLastEnd
<1>2. Timeout(e) \in S
    BY <1>1
<1>3. /\ \A y \in S : y \in Nat
      /\ \A y \in S : y <= Timeout(e)
    BY TimerIsLastEnd
<1> HIDE DEF S
<1>4. S \subseteq Int
    BY <1>3
<1>5. Max(S) = Timeout(e)
    BY <1>2, <1>3, <1>4, MaxIsGreatest
<1> QED
    BY <1>5 DEF S

-----------------------------------------------------------------------------
(* The wait *)

(* The parts of the awaited type that have ended. *)
EndedOf(e) == {p \in ended[e] : p[1] = Type(e)}

(* An end event comes after the end, and is counted once. *)
CountsEnded(e) ==
    /\ \A p \in ended[e] : clock >= EndOf(e, p)
    /\ counted[e] <= Cardinality(EndedOf(e))

(* A wait is over by its timer or by its count. *)
OverForReason(e) ==
    e \in Awaited \ waiting => clock > Timeout(e) \/ counted[e] >= PropCount(e)

(* The inductive invariant. *)
WaitInv ==
    /\ TypeOK
    /\ ended \in [Elements -> SUBSET (Types \X Nat)]
    /\ counted \in [Elements -> Nat]
    /\ \A e \in Elements : CountsEnded(e) /\ OverForReason(e)

(* What the style says of an element, in numbers. *)
LEMMA StyleNumbers ==
    ASSUME style \in [Elements -> Styles], offset \in [Elements -> Offsets],
           NEW e \in Elements
    PROVE  /\ Timeout(e) \in Nat
           /\ Type(e) \in Types
           /\ PropCount(e) \in Nat \ {0}
           /\ offset[e] \in Int
           /\ \A p \in Parts(e) : Lasts(style[e][p[1]], p[2]) \in Nat
           /\ \A p \in Parts(e) : EndOf(e, p) \in Int
<1>1. Timeout(e) \in Nat /\ Type(e) \in Types
    BY TypeTakesLongest
<1>2. PropCount(e) \in Nat \ {0}
    BY <1>1, StyleLists DEF PropCount
<1>3. offset[e] \in Int
    BY OffsetsAssumption
<1>4. ASSUME NEW p \in Parts(e) PROVE Lasts(style[e][p[1]], p[2]) \in Nat
    <2>1. p[1] \in Types /\ p[2] \in Nat \ {0}
        BY PartsArePairs
    <2>2. /\ style[e][p[1]] \in Lists
          /\ style[e][p[1]].delays # <<>> /\ style[e][p[1]].durations # <<>>
        BY <2>1, StyleLists
    <2> QED
        BY <2>1, <2>2, CalculateTimeoutIsLongest
<1> QED
    BY <1>1, <1>2, <1>3, <1>4 DEF EndOf

(* An element has finitely many parts. *)
LEMMA PartsAreFinite ==
    ASSUME style \in [Elements -> Styles], NEW e \in Elements
    PROVE  IsFiniteSet(Parts(e))
<1> DEFINE f == [u \in Types |-> style[e][u].properties]
<1> DEFINE m == Max({style[e][u].properties : u \in Types})
<1>1. \A u \in Types : f[u] \in Nat
    BY StyleLists
<1>2. m \in Int
    <2>1. {style[e][u].properties : u \in Types} = {f[u] : u \in Types}
        OBVIOUS
    <2>2. \A u \in Types : f[u] \in Int
        BY <1>1
    <2>3. Max({f[u] : u \in Types}) \in Int
        <3> HIDE DEF f
        <3> QED
            BY <2>2, MaxOfTypes DEF Types
    <2> QED
        BY <2>1, <2>3
<1>3. Parts(e) \subseteq Types \X (1..m)
    BY DEF Parts
<1> HIDE DEF m
<1>4. IsFiniteSet(1..m)
    BY <1>2, FS_Interval
<1>5. IsFiniteSet(Types)
    <2>1. IsFiniteSet({}) /\ Types = ({} \cup {"transition"}) \cup {"animation"}
        BY FS_EmptySet DEF Types
    <2> QED
        BY <2>1, FS_AddElement
<1>6. IsFiniteSet(Types \X (1..m))
    BY <1>4, <1>5, FS_Product
<1> QED
    BY <1>3, <1>6, FS_Subset

(* Once as many parts of a type have ended as there are, all of them have. *)
LEMMA AllOfThem ==
    ASSUME NEW n \in Nat, NEW t, NEW S, S \subseteq {t} \X (1..n),
           Cardinality(S) >= n
    PROVE  S = {t} \X (1..n)
<1> DEFINE All == {t} \X (1..n)
<1>1. IsFiniteSet(1..n) /\ Cardinality(1..n) = n
    <2>1. /\ IsFiniteSet(1..n)
          /\ Cardinality(1..n) = IF 1 > n THEN 0 ELSE n - 1 + 1
        BY FS_Interval
    <2> QED
        BY <2>1
<1>2. IsFiniteSet({t}) /\ Cardinality({t}) = 1
    BY FS_Singleton
<1>3. IsFiniteSet(All) /\ Cardinality(All) = 1 * n
    BY <1>1, <1>2, FS_Product
<1> HIDE DEF All
<1>4. S \subseteq All
    BY DEF All
<1>5. Cardinality(S) \in Nat /\ Cardinality(S) <= Cardinality(All)
    BY <1>3, <1>4, FS_Subset, FS_CardinalityType
<1>6. Cardinality(S) = Cardinality(All)
    BY <1>3, <1>5
<1> QED
    BY <1>3, <1>4, <1>6, FS_Subset DEF All

(* Nothing has ended at first. *)
LEMMA WaitInvAtFirst ==
    Init => WaitInv
<1> SUFFICES ASSUME Init PROVE WaitInv
    OBVIOUS
<1> USE DEF Init
<1>1. \A e \in Elements : PropCount(e) \in Nat \ {0}
    BY StyleNumbers
<1>2. TypeOK
    BY <1>1, HorizonAssumption DEF TypeOK, Awaited
<1>3. ended \in [Elements -> SUBSET (Types \X Nat)] /\ counted \in [Elements -> Nat]
    OBVIOUS
<1>4. ASSUME NEW e \in Elements PROVE CountsEnded(e) /\ OverForReason(e)
    <2>1. EndedOf(e) = {} /\ Cardinality({}) = 0
        BY FS_EmptySet DEF EndedOf
    <2> QED
        BY <2>1 DEF CountsEnded, OverForReason
<1> QED
    BY <1>2, <1>3, <1>4 DEF WaitInv

(* What is said of the style alone stays. *)
LEMMA StyleStays ==
    ASSUME UNCHANGED <<style, offset>>
    PROVE  /\ Awaited' = Awaited
           /\ \A e : Timeout(e)' = Timeout(e)
           /\ \A e : PropCount(e)' = PropCount(e)
           /\ \A e : Type(e)' = Type(e)
           /\ \A e : Parts(e)' = Parts(e)
           /\ \A e, p : EndOf(e, p)' = EndOf(e, p)
BY DEF Awaited, Timeout, TimeoutOf, PropCount, Type, Parts, EndOf

(* A step in which time passes or waits end, and nothing else happens. *)
LEMMA NothingHeard ==
    ASSUME WaitInv, UNCHANGED <<style, offset, ended, counted>>,
           clock' \in 0..Horizon, clock' >= clock, waiting' \subseteq waiting,
           \A e \in waiting \ waiting' : clock' > Timeout(e)
    PROVE  WaitInv'
<1>1. TypeOK
    BY DEF WaitInv
<1>2. /\ Awaited' = Awaited
      /\ \A e : Timeout(e)' = Timeout(e)
      /\ \A e : PropCount(e)' = PropCount(e)
      /\ \A e : Type(e)' = Type(e)
      /\ \A e : Parts(e)' = Parts(e)
      /\ \A e, p : EndOf(e, p)' = EndOf(e, p)
    BY StyleStays
<1>3. TypeOK'
    BY <1>1, <1>2 DEF TypeOK
<1>4. ASSUME NEW e \in Elements PROVE CountsEnded(e)' /\ OverForReason(e)'
    <2>1. CountsEnded(e) /\ OverForReason(e) /\ clock \in Int /\ clock' \in Int
        BY <1>1 DEF WaitInv, TypeOK
    <2>2. Timeout(e) \in Nat /\ \A p \in ended[e] : EndOf(e, p) \in Int
        BY <1>1, StyleNumbers DEF TypeOK
    <2>3. EndedOf(e)' = EndedOf(e)
        BY <1>2 DEF EndedOf
    <2>4. CountsEnded(e)'
        BY <1>2, <2>1, <2>2, <2>3 DEF CountsEnded
    <2>5. OverForReason(e)'
        BY <1>2, <2>1, <2>2 DEF OverForReason
    <2> QED
        BY <2>4, <2>5
<1> QED
    BY <1>3, <1>4 DEF WaitInv

(* A step in which a part ends. *)
LEMMA EndIsHeard ==
    ASSUME WaitInv, NEW e \in Elements, NEW p \in Parts(e), PartEnds(e, p)
    PROVE  WaitInv'
<1> USE DEF PartEnds
<1>1. TypeOK /\ counted \in [Elements -> Nat]
    BY DEF WaitInv
<1>2. /\ Awaited' = Awaited
      /\ \A e_1 : Timeout(e_1)' = Timeout(e_1)
      /\ \A e_1 : PropCount(e_1)' = PropCount(e_1)
      /\ \A e_1 : Type(e_1)' = Type(e_1)
      /\ \A e_1 : Parts(e_1)' = Parts(e_1)
      /\ \A e_1, p_1 : EndOf(e_1, p_1)' = EndOf(e_1, p_1)
    BY StyleStays
<1>3. /\ style \in [Elements -> Styles] /\ offset \in [Elements -> Offsets]
      /\ clock \in Int /\ waiting \subseteq Awaited
      /\ ended \in [Elements -> SUBSET (Types \X Nat)]
    BY <1>1 DEF WaitInv, TypeOK
<1>4. p[1] \in Types /\ p \in Types \X Nat
    BY <1>3, PartsArePairs
<1>5. ended' \in [Elements -> SUBSET (Types \X Nat)]
    BY <1>3, <1>4
<1>6. \A e_1 \in Elements : PropCount(e_1) \in Nat \ {0} /\ counted[e_1] \in Nat
    BY <1>1, <1>3, StyleNumbers
<1>7. /\ counted' \in [Elements -> Nat]
      /\ waiting' \subseteq waiting
      /\ \A e_1 \in Elements \ {e} :
            counted'[e_1] = counted[e_1] /\ (e_1 \in waiting' <=> e_1 \in waiting)
      /\ \/ /\ e \in waiting /\ p[1] = Type(e)
            /\ counted'[e] = counted[e] + 1
            /\ e \in waiting' <=> ~(counted[e] + 1 >= PropCount(e))
         \/ counted' = counted /\ waiting' = waiting
    BY <1>1, <1>6 DEF Heard, AllHeard, Resolve
<1>8. TypeOK'
    <2>1. \A e_1 \in Elements : ended'[e_1] \subseteq Parts(e_1)
        BY <1>1, <1>3 DEF TypeOK
    <2>2. \A e_1 \in Elements : counted[e_1] \in 0..PropCount(e_1)
        BY <1>1 DEF TypeOK
    <2>3. \A e_1 \in Elements : e_1 \in waiting => counted[e_1] < PropCount(e_1)
        BY <1>1 DEF TypeOK
    <2>4. ASSUME NEW e_1 \in Elements
          PROVE  /\ counted'[e_1] \in 0..PropCount(e_1)
                 /\ e_1 \in waiting' => counted'[e_1] < PropCount(e_1)
        BY <1>6, <1>7, <2>2, <2>3
    <2>5. style' = style /\ offset' = offset /\ clock' = clock
        OBVIOUS
    <2>6. waiting' \subseteq Awaited /\ clock \in 0..Horizon
        BY <1>1, <1>7 DEF TypeOK
    <2> QED
        BY <1>2, <1>3, <2>1, <2>4, <2>5, <2>6 DEF TypeOK
<1>9. ASSUME NEW e_1 \in Elements PROVE CountsEnded(e_1)'
    <2>1. CountsEnded(e_1)
        BY DEF WaitInv
    <2>2. CASE e_1 # e
        <3>1. ended'[e_1] = ended[e_1] /\ counted'[e_1] = counted[e_1]
            BY <1>3, <1>7, <2>2
        <3> QED
            BY <1>2, <2>1, <3>1 DEF CountsEnded, EndedOf
    <2>3. CASE e_1 = e
        <3>1. ended'[e] = ended[e] \cup {p} /\ p \notin ended[e] /\ clock' = clock
            BY <1>3
        <3>2. \A q \in ended'[e] : clock' >= EndOf(e, q)'
            BY <1>2, <2>1, <2>3, <3>1 DEF CountsEnded
        <3>3. IsFiniteSet(EndedOf(e))
            <4>1. IsFiniteSet(Parts(e))
                BY <1>3, PartsAreFinite
            <4>2. EndedOf(e) \subseteq Parts(e)
                BY <1>1 DEF EndedOf, TypeOK
            <4> QED
                BY <4>1, <4>2, FS_Subset
        <3>4. Cardinality(EndedOf(e)) \in Nat
            BY <3>3, FS_CardinalityType
        <3>5. counted'[e] <= Cardinality(EndedOf(e)')
            <4>1. CASE p[1] = Type(e)
                <5>1. EndedOf(e)' = EndedOf(e) \cup {p} /\ p \notin EndedOf(e)
                    BY <1>2, <3>1, <4>1 DEF EndedOf
                <5>2. Cardinality(EndedOf(e)') = Cardinality(EndedOf(e)) + 1
                    BY <3>3, <5>1, FS_AddElement
                <5>3. counted'[e] <= counted[e] + 1
                    BY <1>6, <1>7
                <5>4. counted'[e] \in Int /\ counted[e] \in Int
                    BY <1>1, <1>7
                <5> QED
                    BY <2>1, <2>3, <3>4, <5>2, <5>3, <5>4 DEF CountsEnded
            <4>2. CASE p[1] # Type(e)
                <5>1. EndedOf(e)' = EndedOf(e)
                    BY <1>2, <3>1, <4>2 DEF EndedOf
                <5>2. counted'[e] = counted[e]
                    BY <1>7, <4>2
                <5> QED
                    BY <2>1, <2>3, <5>1, <5>2 DEF CountsEnded
            <4> QED
                BY <4>1, <4>2
        <3> QED
            BY <2>3, <3>2, <3>5 DEF CountsEnded
    <2> QED
        BY <2>2, <2>3
<1>10. ASSUME NEW e_1 \in Elements PROVE OverForReason(e_1)'
    <2>1. OverForReason(e_1)
        BY DEF WaitInv
    <2>2. counted[e_1] \in Nat /\ counted'[e_1] \in Nat /\ PropCount(e_1) \in Nat
        BY <1>6, <1>7
    <2> QED
        BY <1>2, <1>6, <1>7, <2>1, <2>2 DEF OverForReason
<1> QED
    BY <1>5, <1>7, <1>8, <1>9, <1>10 DEF WaitInv

(* Every step keeps the invariant. *)
LEMMA WaitInvKept ==
    WaitInv /\ [Next]_vars => WaitInv'
<1> SUFFICES ASSUME WaitInv, [Next]_vars PROVE WaitInv'
    OBVIOUS
<1>1. clock \in 0..Horizon /\ waiting \subseteq Awaited /\ Horizon \in Nat
    BY HorizonAssumption DEF WaitInv, TypeOK
<1>2. CASE Passes
    BY <1>1, <1>2, NothingHeard DEF Passes
<1>3. ASSUME NEW e \in Elements, TimerFires(e) PROVE WaitInv'
    BY <1>1, <1>3, NothingHeard DEF TimerFires, Resolve
<1>4. ASSUME NEW e \in Elements, NEW p \in Parts(e), PartEnds(e, p) PROVE WaitInv'
    BY <1>4, EndIsHeard
<1>5. ASSUME NEW e \in Elements, NEW elapsed \in 1..Horizon, EarlierEnds(e, elapsed)
      PROVE  WaitInv'
    <2>1. UNCHANGED <<style, offset, clock, ended>> /\ ~(clock >= elapsed)
        BY <1>1, <1>5 DEF EarlierEnds
    <2>2. UNCHANGED <<counted, waiting>>
        BY <1>5, <2>1 DEF EarlierEnds, Heard, HappenedSince
    <2> QED
        BY <1>1, <2>1, <2>2, NothingHeard
<1>6. CASE UNCHANGED vars
    BY <1>1, <1>6, NothingHeard DEF vars
<1> QED
    BY <1>2, <1>3, <1>4, <1>5, <1>6 DEF Next

(* A wait ends by the timer, once the time of the longest motion is over, or by
   as many ends as there are durations, each of a part of its own. *)
THEOREM WaitInvariant ==
    Spec => []WaitInv
<1>1. Init => WaitInv
    BY WaitInvAtFirst
<1>2. WaitInv /\ [Next]_vars => WaitInv'
    BY WaitInvKept
<1> QED
    BY <1>1, <1>2, PTL DEF Spec

(* Every state of the wait has its types, for any elements and styles: no wait
   counts more ends than it waits for, and none goes on that has them all. *)
THEOREM WaitTypeCorrect ==
    Spec => []TypeOK
<1>1. WaitInv => TypeOK
    BY DEF WaitInv
<1> QED
    BY <1>1, WaitInvariant, PTL

(* The timer of every element is set for the end of its longest motion, however
   many delays and durations its style lists. *)
THEOREM TimerIsExact ==
    Spec => []TimeoutIsLongest
<1>1. WaitInv => TimeoutIsLongest
    BY TimerIsMaximum DEF WaitInv, TypeOK
<1> QED
    BY <1>1, WaitInvariant, PTL

(* A wait that is over has seen the motion end: the timer comes after the longest
   of it, and with as many ends as durations the longest of them has ended. *)
LEMMA OverMeansEnded ==
    ASSUME WaitInv
    PROVE  OverWhenResolved
<1> SUFFICES ASSUME NEW e \in Awaited \ waiting, Regular(e), NEW p \in Parts(e)
             PROVE  clock >= EndOf(e, p) - Max({offset[e], 0})
    BY DEF OverWhenResolved
<1>1. /\ TypeOK /\ style \in [Elements -> Styles]
      /\ offset \in [Elements -> Offsets] /\ e \in Elements /\ clock \in Int
    BY DEF WaitInv, TypeOK, Awaited
<1>2. /\ CountsEnded(e) /\ counted[e] \in Nat
      /\ clock > Timeout(e) \/ counted[e] >= PropCount(e)
    BY <1>1 DEF WaitInv, OverForReason
<1>3. /\ Timeout(e) \in Nat /\ offset[e] \in Int
      /\ Type(e) \in Types /\ PropCount(e) \in Nat \ {0}
    BY <1>1, StyleNumbers
<1>4. /\ Lasts(style[e][p[1]], p[2]) \in Nat
      /\ Lasts(style[e][p[1]], p[2]) <= Timeout(e)
    BY <1>1, TimerIsLastEnd
<1> DEFINE late == Max({offset[e], 0})
<1>5. late \in Int /\ late >= offset[e] /\ late >= 0
    <2>1. CASE offset[e] >= 0
        <3>1. \A y \in {offset[e], 0} : y \in Int /\ y <= offset[e]
            BY <1>3, <2>1
        <3>2. Max({offset[e], 0}) = offset[e]
            BY <3>1, MaxIsGreatest
        <3> QED
            BY <1>3, <2>1, <3>2
    <2>2. CASE ~(offset[e] >= 0)
        <3>1. Max({offset[e], 0}) = 0
            BY <1>3, <2>2, MaxIsGreatest
        <3> QED
            BY <1>3, <2>2, <3>1
    <2> QED
        BY <2>1, <2>2
<1> HIDE DEF late
<1>6. EndOf(e, p) <= offset[e] + Timeout(e) /\ EndOf(e, p) \in Int
    BY <1>3, <1>4 DEF EndOf
<1>7. CASE clock > Timeout(e)
    BY <1>1, <1>3, <1>5, <1>6, <1>7 DEF late
<1>8. CASE counted[e] >= PropCount(e)
    <2>1. PICK q \in Parts(e) :
              q[1] = Type(e) /\ Lasts(style[e][q[1]], q[2]) = Timeout(e)
        BY <1>1, TimerIsLastEnd
    <2> DEFINE n == PropCount(e)
    <2>2. \A r \in Parts(e) : r[1] = Type(e) => r \in {Type(e)} \X (1..n)
        <3> SUFFICES ASSUME NEW r \in Parts(e), r[1] = Type(e)
                     PROVE  r \in {Type(e)} \X (1..n)
            OBVIOUS
        <3>1. r[2] \in Nat \ {0} /\ r = <<r[1], r[2]>>
            BY <1>1, PartsArePairs
        <3>2. r[2] <= style[e][r[1]].properties
            BY <1>1, <1>3, <3>1, PartsByType
        <3>3. r[2] <= n
            BY <1>3, <3>2 DEF Regular, PropCount
        <3> QED
            BY <1>3, <3>1, <3>3
    <2>3. EndedOf(e) \subseteq {Type(e)} \X (1..n)
        BY <1>1, <2>2 DEF EndedOf, TypeOK
    <2>4. Cardinality(EndedOf(e)) >= n
        <3>1. IsFiniteSet(EndedOf(e))
            <4>1. IsFiniteSet(Parts(e)) /\ EndedOf(e) \subseteq Parts(e)
                BY <1>1, PartsAreFinite DEF EndedOf, TypeOK
            <4> QED
                BY <4>1, FS_Subset
        <3>2. Cardinality(EndedOf(e)) \in Nat
            BY <3>1, FS_CardinalityType
        <3> QED
            BY <1>2, <1>3, <1>8, <3>2 DEF CountsEnded
    <2>5. EndedOf(e) = {Type(e)} \X (1..n)
        <3> HIDE DEF n
        <3> QED
            BY <1>3, <2>3, <2>4, AllOfThem DEF n
    <2>6. q \in ended[e]
        BY <2>1, <2>2, <2>5 DEF EndedOf
    <2>7. clock >= offset[e] + Timeout(e)
        BY <1>2, <2>1, <2>6 DEF CountsEnded, EndOf
    <2> QED
        BY <1>1, <1>3, <1>5, <1>6, <2>7 DEF late
<1> QED
    BY <1>2, <1>7, <1>8

(* awaitAnimations() resolves for an element once what moves on it is over: of
   each type, whichever the longest is, if the style has a duration for
   everything that moves; a motion that begins after the wait is the exception. *)
THEOREM MotionIsOver ==
    Spec => []OverWhenResolved
<1>1. WaitInv => OverWhenResolved
    BY OverMeansEnded
<1> QED
    BY <1>1, WaitInvariant, PTL
=============================================================================
