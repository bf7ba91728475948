--------------------------- MODULE LogUnpackProofs ---------------------------
(***************************************************************************)
(* The description of a message never leaves its buffer, and a buffer of   *)
(* 500 characters cuts nothing but long lists and long prints.  What is    *)
(* printed was sent, but for the statistics of an encoder and for lists    *)
(* that claim too much.  Of the messages of one direction four have no     *)
(* name of their own.  Which records are written as one line, and which as *)
(* one object, is said exactly; a reader of JSON has what was escaped, and *)
(* a description keeps of a print what fits.                               *)
(*                                                                         *)
(* Much of it is about the operators of LogUnpack and FwProtocol that go   *)
(* through a sequence from one end to the other.  Each is a function given *)
(* by CHOOSE: first such a function is built (Iterates), so that the       *)
(* chosen one obeys its equation, then a fact about it is shown for each   *)
(* place in turn (AllNumbers: a set of naturals with 0 and the successors  *)
(* of its members has them all, since no least one is missing).            *)
(*                                                                         *)
(* The structures of the protocol are put together from a few forms, and   *)
(* so are the facts about them (Shape): where a member lies, and how wide  *)
(* it is at most.  The pieces of a description are followed in the same    *)
(* way (Told): how long they are at most, and which bytes they read.  A    *)
(* line is read part by part (Takes): from one place of the reader to the  *)
(* next, or to the error, which it never leaves.                           *)
(***************************************************************************)
EXTENDS LogUnpack, SequenceTheorems, WellFoundedInduction, TLAPS

-----------------------------------------------------------------------------
(* Numbers. *)

LessThan == {p \in Nat \X Nat : p[1] < p[2]}

LEMMA LessThanWellFounded == IsWellFoundedOn(LessThan, Nat)
BY NatLessThanWellFounded, Zenon DEF OpToRel, LessThan

\* A set that has 0, and with a number the next one, has all.
LEMMA AllNumbers ==
    ASSUME NEW T, 0 \in T, \A k \in Nat : k \in T => k + 1 \in T
    PROVE  \A k \in Nat : k \in T
<1> SUFFICES ASSUME NEW k \in Nat, k \notin T PROVE FALSE
  OBVIOUS
<1> DEFINE Others == Nat \ T
<1>1. Others \subseteq Nat /\ Others # {}
  OBVIOUS
<1>2. PICK x \in Others : \A y \in Others : ~ (<<y, x>> \in LessThan)
  BY <1>1, LessThanWellFounded, WFMin, Zenon
<1>3. x \in Nat /\ x \notin T /\ x # 0
  BY <1>2
<1>4. x - 1 \in Nat /\ x - 1 < x /\ (x - 1) + 1 = x
  BY <1>3
<1>5. x - 1 \in Others
  BY <1>3, <1>4
<1>6. <<x - 1, x>> \in LessThan
  BY <1>3, <1>4 DEF LessThan
<1>7. QED
  BY <1>2, <1>5, <1>6

\* What is computed step by step is computed up to the end.
Goes(f, k, first, step) == f[0] = first /\ \A i \in 1..k : f[i] = step[i][f[i - 1]]

LEMMA Iterates ==
    ASSUME NEW S, NEW n0 \in Nat, NEW first \in S, NEW step \in [1..n0 -> [S -> S]]
    PROVE  \E f \in [0..n0 -> S] : Goes(f, n0, first, step)
<1> DEFINE Upto(k, f) == f[0] = first /\ \A i \in 1..k : f[i] = step[i][f[i - 1]]
           T == {k \in Nat : k <= n0 => \E f \in [0..k -> S] : Upto(k, f)}
<1>1. 0 \in T
  <2> DEFINE f == [i \in 0..0 |-> first]
  <2>1. f \in [0..0 -> S] /\ Upto(0, f)
    OBVIOUS
  <2> HIDE DEF f, Upto
  <2>2. \E h \in [0..0 -> S] : Upto(0, h)
    BY <2>1
  <2>3. QED
    BY <2>2
<1>2. ASSUME NEW k \in Nat, k \in T PROVE k + 1 \in T
  <2>1. SUFFICES ASSUME k + 1 <= n0 PROVE \E h \in [0..(k + 1) -> S] : Upto(k + 1, h)
    <3> HIDE DEF Upto
    <3>1. QED
      OBVIOUS
  <2>2. PICK f \in [0..k -> S] : Upto(k, f)
    BY <1>2, <2>1
  <2> DEFINE next == step[k + 1][f[k]]
             g == [i \in 0..(k + 1) |-> IF i = k + 1 THEN next ELSE f[i]]
  <2>3. next \in S
    <3>1. k + 1 \in 1..n0 /\ k \in 0..k
      BY <2>1
    <3>2. f[k] \in S /\ step[k + 1] \in [S -> S]
      BY <2>2, <3>1
    <3>3. QED
      BY <3>2
  <2>4. g \in [0..(k + 1) -> S]
    BY <2>3
  <2>5. ASSUME NEW i \in 1..(k + 1) PROVE g[i] = step[i][g[i - 1]]
    <3>1. CASE i = k + 1
      <4>1. g[i] = next /\ g[i - 1] = f[k]
        BY <3>1
      <4>2. QED
        BY <3>1, <4>1
    <3>2. CASE i \in 1..k
      <4>1. g[i] = f[i] /\ g[i - 1] = f[i - 1]
        BY <3>2
      <4>2. QED
        BY <2>2, <3>2, <4>1
    <3>3. QED
      BY <3>1, <3>2
  <2>6. g[0] = first
    BY <2>2
  <2>7. QED
    BY <2>4, <2>5, <2>6
<1>3. n0 \in T
  <2> HIDE DEF T
  <2>1. QED
    BY <1>1, <1>2, AllNumbers
<1>4. QED
  BY <1>3 DEF Goes

-----------------------------------------------------------------------------
(* Sums. *)

\* F holds the sums of the first numbers.
SumsOf(F, ns) ==
    /\ F \in [0..Len(ns) -> Nat]
    /\ F[0] = 0
    /\ \A i \in 1..Len(ns) : F[i] = F[i - 1] + ns[i]
    /\ SumOf(ns) = F[Len(ns)]

LEMMA SumExists == ASSUME NEW ns \in Seq(Nat) PROVE \E F : SumsOf(F, ns)
<1> DEFINE l == Len(ns)
           step == [i \in 1..l |-> [v \in Nat |-> v + ns[i]]]
           Run(f) == f = [i \in 0..l |-> IF i = 0 THEN 0 ELSE f[i - 1] + ns[i]]
<1>1. l \in Nat /\ step \in [1..l -> [Nat -> Nat]] /\ \A i \in 1..l : ns[i] \in Nat
  <2>1. l \in Nat /\ \A i \in 1..l : ns[i] \in Nat
    OBVIOUS
  <2> HIDE DEF l
  <2>2. \A i \in 1..l : \A v \in Nat : v + ns[i] \in Nat
    BY <2>1
  <2>3. QED
    BY <2>1, <2>2
<1>2. PICK F \in [0..l -> Nat] : F[0] = 0 /\ \A i \in 1..l : F[i] = step[i][F[i - 1]]
  <2> HIDE DEF l, step, Run
  <2>1. \E f \in [0..l -> Nat] : Goes(f, l, 0, step)
    BY <1>1, Iterates
  <2>2. QED
    BY <2>1 DEF Goes
<1> HIDE DEF l
<1>3. ASSUME NEW i \in 1..l PROVE F[i] = F[i - 1] + ns[i]
  <2>1. i - 1 \in 0..l
    BY <1>1
  <2>2. F[i - 1] \in Nat
    BY <1>2, <2>1
  <2>3. QED
    BY <1>2, <2>2
<1>4. Run(F)
  <2> DEFINE g == [i \in 0..l |-> IF i = 0 THEN 0 ELSE F[i - 1] + ns[i]]
  <2>1. \A i \in 0..l : F[i] = g[i]
    BY <1>1, <1>2, <1>3
  <2>2. F = g
    BY <1>2, <2>1
  <2>3. QED
    BY <2>2
<1> DEFINE h == CHOOSE h : Run(h)
<1>5. Run(h)
  <2> HIDE DEF Run
  <2>1. QED
    BY <1>4
<1>6. SumOf(ns) = h[l]
  BY DEF SumOf, l
<1> HIDE DEF h
<1>7. h[0] = 0 /\ \A i \in 1..l : h[i] = h[i - 1] + ns[i]
  BY <1>1, <1>5
<1> HIDE DEF Run, step
<1> DEFINE T == {i \in Nat : i <= l => h[i] = F[i]}
<1>8. 0 \in T
  BY <1>2, <1>7
<1>9. ASSUME NEW i \in Nat, i \in T PROVE i + 1 \in T
  <2>1. SUFFICES ASSUME i + 1 <= l PROVE h[i + 1] = F[i + 1]
    OBVIOUS
  <2>2. i + 1 \in 1..l /\ (i + 1) - 1 = i /\ i <= l
    BY <1>1, <2>1
  <2>3. h[i] = F[i]
    BY <1>9, <2>2
  <2>4. h[i + 1] = h[i] + ns[i + 1]
    BY <1>7, <2>2
  <2>5. F[i + 1] = F[i] + ns[i + 1]
    BY <1>3, <2>2
  <2>6. QED
    BY <2>3, <2>4, <2>5
<1> HIDE DEF T
<1>10. l \in T
  BY <1>1, <1>8, <1>9, AllNumbers
<1>11. SumOf(ns) = F[l]
  BY <1>1, <1>6, <1>10 DEF T
<1>12. SumsOf(F, ns)
  BY <1>2, <1>3, <1>11 DEF SumsOf, l
<1>13. QED
  BY <1>12

\* A sum is at most another if each number is at most that of the other.
LEMMA SumLess ==
    ASSUME NEW a \in Seq(Nat), NEW b \in Seq(Nat), Len(a) = Len(b),
           \A i \in 1..Len(a) : a[i] <= b[i]
    PROVE  SumOf(a) \in Nat /\ SumOf(b) \in Nat /\ SumOf(a) <= SumOf(b)
<1> DEFINE l == Len(a)
<1>1. /\ l \in Nat /\ Len(b) = l
      /\ (\A i \in 1..l : a[i] \in Nat) /\ (\A i \in 1..l : b[i] \in Nat)
  OBVIOUS
<1>2. \A i \in 1..l : a[i] <= b[i]
  OBVIOUS
<1> HIDE DEF l
<1>3. PICK F : SumsOf(F, a)
  BY SumExists
<1>4. PICK G : SumsOf(G, b)
  BY SumExists
<1>5. /\ F \in [0..l -> Nat] /\ F[0] = 0 /\ (\A i \in 1..l : F[i] = F[i - 1] + a[i])
      /\ SumOf(a) = F[l]
  BY <1>3 DEF SumsOf, l
<1>6. /\ G \in [0..l -> Nat] /\ G[0] = 0 /\ (\A i \in 1..l : G[i] = G[i - 1] + b[i])
      /\ SumOf(b) = G[l]
  BY <1>1, <1>4 DEF SumsOf
<1> DEFINE T == {i \in Nat : i <= l => F[i] <= G[i]}
<1>7. 0 \in T
  BY <1>5, <1>6
<1>8. ASSUME NEW i \in Nat, i \in T PROVE i + 1 \in T
  <2>1. SUFFICES ASSUME i + 1 <= l PROVE F[i + 1] <= G[i + 1]
    OBVIOUS
  <2>2. i + 1 \in 1..l /\ (i + 1) - 1 = i /\ i <= l /\ i \in 0..l
    BY <1>1, <2>1
  <2>3. F[i] <= G[i] /\ F[i] \in Nat /\ G[i] \in Nat
    BY <1>5, <1>6, <1>8, <2>2
  <2>4. F[i + 1] = F[i] + a[i + 1]
    BY <1>5, <2>2
  <2>5. G[i + 1] = G[i] + b[i + 1]
    BY <1>6, <2>2
  <2>6. a[i + 1] \in Nat /\ b[i + 1] \in Nat /\ a[i + 1] <= b[i + 1]
    BY <1>1, <1>2, <2>2
  <2>7. QED
    BY <2>3, <2>4, <2>5, <2>6
<1> HIDE DEF T
<1>9. l \in T
  BY <1>1, <1>7, <1>8, AllNumbers
<1>10. F[l] <= G[l] /\ l \in 0..l
  BY <1>1, <1>9 DEF T
<1>11. QED
  BY <1>5, <1>6, <1>10

\* A sum is at most as many times w as there are numbers.
LEMMA SumAtMost ==
    ASSUME NEW a \in Seq(Nat), NEW w \in Nat, \A i \in 1..Len(a) : a[i] <= w
    PROVE  SumOf(a) \in Nat /\ SumOf(a) <= Len(a) * w
<1> DEFINE l == Len(a)
<1>1. l \in Nat /\ \A i \in 1..l : a[i] \in Nat
  OBVIOUS
<1>2. \A i \in 1..l : a[i] <= w
  OBVIOUS
<1>3. PICK F : SumsOf(F, a)
  BY SumExists
<1> HIDE DEF l
<1>4. /\ F \in [0..l -> Nat] /\ F[0] = 0 /\ (\A i \in 1..l : F[i] = F[i - 1] + a[i])
      /\ SumOf(a) = F[l]
  BY <1>3 DEF SumsOf, l
<1> DEFINE T == {i \in Nat : i <= l => F[i] <= i * w}
<1>5. 0 \in T
  BY <1>4
<1>6. ASSUME NEW i \in Nat, i \in T PROVE i + 1 \in T
  <2>1. SUFFICES ASSUME i + 1 <= l PROVE F[i + 1] <= (i + 1) * w
    OBVIOUS
  <2>2. i + 1 \in 1..l /\ (i + 1) - 1 = i /\ i <= l /\ i \in 0..l
    BY <1>1, <2>1
  <2>3. F[i] <= i * w /\ F[i] \in Nat
    BY <1>4, <1>6, <2>2
  <2>4. F[i + 1] = F[i] + a[i + 1]
    BY <1>4, <2>2
  <2>5. a[i + 1] \in Nat /\ a[i + 1] <= w
    BY <1>1, <1>2, <2>2
  <2>6. (i + 1) * w = i * w + w /\ i * w \in Nat
    OBVIOUS
  <2>7. QED
    BY <2>3, <2>4, <2>5, <2>6
<1> HIDE DEF T
<1>7. l \in T
  BY <1>1, <1>5, <1>6, AllNumbers
<1>8. F[l] <= l * w /\ l \in 0..l
  BY <1>1, <1>7 DEF T
<1>9. QED
  BY <1>4, <1>8 DEF l

LEMMA SumNone == SumOf(<<>>) = 0
<1>1. <<>> \in Seq(Nat) /\ Len(<<>>) = 0
  BY EmptySeq
<1>2. PICK F : SumsOf(F, <<>>)
  BY <1>1, SumExists
<1>3. QED
  BY <1>1, <1>2 DEF SumsOf

LEMMA SumOne == ASSUME NEW a \in Nat PROVE SumOf(<<a>>) = a
<1> DEFINE s == <<a>>
<1>1. s \in Seq(Nat) /\ Len(s) = 1 /\ s[1] = a
  OBVIOUS
<1> HIDE DEF s
<1>2. PICK F : SumsOf(F, s)
  BY <1>1, SumExists
<1>3. F[0] = 0 /\ F[1] = F[0] + s[1] /\ SumOf(s) = F[1]
  BY <1>1, <1>2 DEF SumsOf
<1>4. QED
  BY <1>1, <1>3 DEF s

\* The sum of two parts.
LEMMA SumBoth ==
    ASSUME NEW a \in Seq(Nat), NEW b \in Seq(Nat) PROVE SumOf(a \o b) = SumOf(a) + SumOf(b)
<1> DEFINE k == Len(a)
           l == Len(b)
           c == a \o b
<1>1. k \in Nat /\ l \in Nat /\ \A i \in 1..l : b[i] \in Nat
  OBVIOUS
<1>2. c \in Seq(Nat) /\ Len(c) = k + l
      /\ (\A i \in 1..k : c[i] = a[i]) /\ (\A i \in 1..l : c[k + i] = b[i])
  <2>1. \A i \in 1..(k + l) : c[i] = IF i <= k THEN a[i] ELSE b[i - k]
    BY ConcatProperties
  <2>2. \A i \in 1..l : k + i \in 1..(k + l) /\ ~(k + i <= k) /\ (k + i) - k = i
    BY <1>1
  <2>3. QED
    BY <2>1, <2>2, ConcatProperties
<1>3. PICK F : SumsOf(F, a)
  BY SumExists
<1>4. PICK G : SumsOf(G, b)
  BY SumExists
<1> HIDE DEF c
<1>5. PICK H : SumsOf(H, c)
  BY <1>2, SumExists
<1> HIDE DEF k, l
<1>6. /\ F \in [0..k -> Nat] /\ F[0] = 0
      /\ (\A i \in 1..k : F[i] = F[i - 1] + a[i]) /\ SumOf(a) = F[k]
  BY <1>3 DEF SumsOf, k
<1>7. /\ G \in [0..l -> Nat] /\ G[0] = 0
      /\ (\A i \in 1..l : G[i] = G[i - 1] + b[i]) /\ SumOf(b) = G[l]
  BY <1>4 DEF SumsOf, l
<1>8. /\ H[0] = 0 /\ (\A i \in 1..(k + l) : H[i] = H[i - 1] + c[i]) /\ SumOf(c) = H[k + l]
  BY <1>2, <1>5 DEF SumsOf
<1>9. H[k] = F[k]
  <2> DEFINE T == {i \in Nat : i <= k => H[i] = F[i]}
  <2>1. 0 \in T
    BY <1>6, <1>8
  <2>2. ASSUME NEW i \in Nat, i \in T PROVE i + 1 \in T
    <3>1. SUFFICES ASSUME i + 1 <= k PROVE H[i + 1] = F[i + 1]
      OBVIOUS
    <3>2. i + 1 \in 1..k /\ i + 1 \in 1..(k + l) /\ (i + 1) - 1 = i /\ H[i] = F[i]
      BY <1>1, <2>2, <3>1
    <3>3. F[i + 1] = F[i] + a[i + 1]
      BY <1>6, <3>2
    <3>4. H[i + 1] = H[i] + c[i + 1]
      BY <1>8, <3>2
    <3>5. QED
      BY <1>2, <3>2, <3>3, <3>4
  <2> HIDE DEF T
  <2>3. k \in T
    BY <1>1, <2>1, <2>2, AllNumbers
  <2>4. QED
    BY <1>1, <2>3 DEF T
<1>10. H[k + l] = F[k] + G[l]
  <2> DEFINE T == {i \in Nat : i <= l => H[k + i] = F[k] + G[i]}
  <2>0. k \in 0..k
    BY <1>1
  <2>1. F[k] \in Nat
    BY <1>6, <2>0
  <2>2. 0 \in T
    <3>1. k + 0 = k
      BY <1>1
    <3>2. QED
      BY <1>7, <1>9, <2>1, <3>1
  <2>3. ASSUME NEW i \in Nat, i \in T PROVE i + 1 \in T
    <3>1. SUFFICES ASSUME i + 1 <= l PROVE H[k + (i + 1)] = F[k] + G[i + 1]
      OBVIOUS
    <3>2. i + 1 \in 1..l /\ k + (i + 1) \in 1..(k + l) /\ (i + 1) - 1 = i
          /\ (k + (i + 1)) - 1 = k + i /\ i <= l /\ i \in 0..l
      BY <1>1, <3>1
    <3>3. H[k + i] = F[k] + G[i]
      BY <2>3, <3>2
    <3>4. G[i + 1] = G[i] + b[i + 1] /\ G[i] \in Nat
      BY <1>7, <3>2
    <3>5. H[k + (i + 1)] = H[k + i] + c[k + (i + 1)]
      BY <1>8, <3>2
    <3>6. c[k + (i + 1)] = b[i + 1] /\ b[i + 1] \in Nat
      BY <1>1, <1>2, <3>2
    <3>7. QED
      BY <2>1, <3>3, <3>4, <3>5, <3>6
  <2> HIDE DEF T
  <2>4. l \in T
    BY <1>1, <2>2, <2>3, AllNumbers
  <2>5. QED
    BY <1>1, <2>4 DEF T
<1>11. QED
  BY <1>6, <1>7, <1>8, <1>10 DEF c

-----------------------------------------------------------------------------
(* The layout of a structure. *)

\* The structure s has the members N, among others; those of P that it has are printed
\* in w characters at most.
Members(s) == {s[i] : i \in DOMAIN s}
Aligned(f) == f.align \in {1, 2, 4, 8} /\ f.size \in Nat /\ f.n \in Nat \ {0}
Printable(f, w) == f.size \in {1, 2, 4, 8} /\ Widest(f) <= w
Shape(s, N, P, w) ==
    /\ s \in Seq(Members(s)) /\ Len(s) \in Nat \ {0}
    /\ \A i \in 1..Len(s) : Aligned(s[i])
    /\ \A x \in N : \E i \in 1..Len(s) : s[i].name = x
    /\ \A i \in 1..Len(s) : s[i].name \in P => Printable(s[i], w)

LEMMA RoundUpIs ==
    ASSUME NEW k \in Nat, NEW a \in {1, 2, 4, 8}
    PROVE  RoundUp(k, a) \in Nat /\ k <= RoundUp(k, a)
BY DEF RoundUp

\* Where the members end.
LaidOut(E, s) ==
    /\ E \in [0..Len(s) -> Nat]
    /\ E[0] = 0
    /\ \A i \in 1..Len(s) : E[i] = RoundUp(E[i - 1], s[i].align) + s[i].size * s[i].n

LEMMA EndsAre ==
    ASSUME NEW s, NEW N, NEW P, NEW w, Shape(s, N, P, w) PROVE LaidOut(EndOf(s), s)
<1> DEFINE l == Len(s)
           Up(i, e) == RoundUp(e, s[i].align) + s[i].size * s[i].n
           step == [i \in 1..l |-> [e \in Nat |-> Up(i, e)]]
           Run(f) == f = [i \in 0..l |-> IF i = 0 THEN 0 ELSE Up(i, f[i - 1])]
<1>1. l \in Nat /\ \A i \in 1..l : Aligned(s[i])
  BY DEF Shape
<1>2. ASSUME NEW i \in 1..l, NEW e \in Nat PROVE Up(i, e) \in Nat
  <2> DEFINE z == s[i].size
             k == s[i].n
             a == s[i].align
  <2>1. z \in Nat /\ k \in Nat /\ a \in {1, 2, 4, 8}
    BY <1>1 DEF Aligned
  <2> HIDE DEF z, k, a
  <2>2. z * k \in Nat
    BY <2>1
  <2>3. RoundUp(e, a) \in Nat
    BY <2>1, RoundUpIs
  <2>4. RoundUp(e, a) + z * k \in Nat
    BY <2>2, <2>3
  <2>5. QED
    BY <2>4 DEF z, k, a
<1> HIDE DEF l, Up
<1>3. step \in [1..l -> [Nat -> Nat]]
  BY <1>2
<1>4. PICK F \in [0..l -> Nat] : F[0] = 0 /\ \A i \in 1..l : F[i] = step[i][F[i - 1]]
  <2> HIDE DEF step, Run
  <2>1. \E f \in [0..l -> Nat] : Goes(f, l, 0, step)
    BY <1>1, <1>3, Iterates
  <2>2. QED
    BY <2>1 DEF Goes
<1>5. ASSUME NEW i \in 1..l PROVE F[i] = Up(i, F[i - 1])
  <2>1. i - 1 \in 0..l
    BY <1>1
  <2>2. F[i - 1] \in Nat
    BY <1>4, <2>1
  <2>3. QED
    BY <1>4, <2>2
<1>6. Run(F)
  <2> DEFINE g == [i \in 0..l |-> IF i = 0 THEN 0 ELSE Up(i, F[i - 1])]
  <2>1. \A i \in 0..l : F[i] = g[i]
    BY <1>1, <1>4, <1>5
  <2>2. F = g
    BY <1>4, <2>1
  <2>3. QED
    BY <2>2
<1> DEFINE h == CHOOSE h : Run(h)
<1>7. Run(h)
  <2> HIDE DEF Run
  <2>1. QED
    BY <1>6
<1>8. EndOf(s) = h
  BY DEF EndOf, Up, l
<1> HIDE DEF h
<1>9. h[0] = 0 /\ \A i \in 1..l : h[i] = Up(i, h[i - 1])
  BY <1>1, <1>7
<1>10. h = [i \in 0..l |-> h[i]]
  BY <1>7
<1> HIDE DEF Run, step
<1>11. h \in [0..l -> Nat]
  <2> DEFINE T == {i \in Nat : i <= l => h[i] \in Nat}
  <2>1. 0 \in T
    BY <1>9
  <2>2. ASSUME NEW i \in Nat, i \in T PROVE i + 1 \in T
    <3>1. SUFFICES ASSUME i + 1 <= l PROVE h[i + 1] \in Nat
      OBVIOUS
    <3>2. i + 1 \in 1..l /\ (i + 1) - 1 = i /\ h[i] \in Nat
      BY <1>1, <2>2, <3>1
    <3>3. h[i + 1] = Up(i + 1, h[i])
      BY <1>9, <3>2
    <3>4. QED
      BY <1>2, <3>2, <3>3
  <2> HIDE DEF T
  <2>3. \A i \in Nat : i \in T
    BY <2>1, <2>2, AllNumbers
  <2>4. \A i \in 0..l : h[i] \in Nat
    BY <1>1, <2>3 DEF T
  <2>5. QED
    BY <1>10, <2>4
<1>12. QED
  BY <1>8, <1>9, <1>11 DEF LaidOut, Up, l

LEMMA EndsGrow ==
    ASSUME NEW s, NEW N, NEW P, NEW w, Shape(s, N, P, w), NEW k \in 0..Len(s)
    PROVE  EndOf(s)[k] \in Nat /\ EndOf(s)[Len(s)] \in Nat /\ EndOf(s)[k] <= EndOf(s)[Len(s)]
<1> DEFINE l == Len(s)
           E == EndOf(s)
<1>1. l \in Nat /\ \A i \in 1..l : Aligned(s[i])
  BY DEF Shape
<1>2. LaidOut(E, s)
  BY EndsAre
<1> HIDE DEF l, E
<1>3. /\ E \in [0..l -> Nat]
      /\ \A i \in 1..l : E[i] = RoundUp(E[i - 1], s[i].align) + s[i].size * s[i].n
  BY <1>2 DEF LaidOut, l
<1>4. ASSUME NEW i \in 1..l PROVE E[i - 1] <= E[i] /\ E[i] \in Nat /\ E[i - 1] \in Nat
  <2> DEFINE z == s[i].size
             m == s[i].n
             a == s[i].align
             e == E[i - 1]
  <2>1. z \in Nat /\ m \in Nat /\ a \in {1, 2, 4, 8}
    BY <1>1 DEF Aligned
  <2>2. i - 1 \in 0..l /\ i \in 0..l
    BY <1>1
  <2>3. e \in Nat /\ E[i] \in Nat /\ E[i] = RoundUp(e, a) + z * m
    BY <1>3, <2>2
  <2> HIDE DEF z, m, a, e
  <2>4. z * m \in Nat
    BY <2>1
  <2>5. RoundUp(e, a) \in Nat /\ e <= RoundUp(e, a)
    BY <2>1, <2>3, RoundUpIs
  <2>6. e <= E[i]
    BY <2>3, <2>4, <2>5
  <2>7. QED
    BY <2>3, <2>6 DEF e
<1> DEFINE T == {i \in Nat : k + i <= l => E[k] <= E[k + i]}
<1>5. k \in Nat /\ k \in 0..l
  BY <1>1 DEF l
<1>6. E[k] \in Nat
  BY <1>3, <1>5
<1>7. 0 \in T
  <2>1. k + 0 = k
    BY <1>5
  <2>2. QED
    BY <1>6, <2>1
<1>8. ASSUME NEW i \in Nat, i \in T PROVE i + 1 \in T
  <2>1. SUFFICES ASSUME k + (i + 1) <= l PROVE E[k] <= E[k + (i + 1)]
    OBVIOUS
  <2>2. k + (i + 1) \in 1..l /\ (k + (i + 1)) - 1 = k + i /\ k + i <= l
    BY <1>1, <1>5, <2>1
  <2>3. E[k] <= E[k + i]
    BY <1>8, <2>2
  <2>4. E[k + i] <= E[k + (i + 1)] /\ E[k + i] \in Nat /\ E[k + (i + 1)] \in Nat
    BY <1>4, <2>2
  <2>5. QED
    BY <1>6, <2>3, <2>4
<1> HIDE DEF T
<1>9. l - k \in Nat /\ k + (l - k) = l /\ l \in 0..l
  BY <1>1, <1>5
<1>10. l - k \in T
  BY <1>7, <1>8, <1>9, AllNumbers
<1>11. E[k] <= E[l]
  BY <1>9, <1>10 DEF T
<1>12. E[l] \in Nat
  BY <1>3, <1>9
<1>13. QED
  BY <1>6, <1>11, <1>12 DEF E, l

LEMMA SizeIs ==
    ASSUME NEW s, NEW N, NEW P, NEW w, Shape(s, N, P, w)
    PROVE  SizeOf(s) \in Nat /\ EndOf(s)[Len(s)] <= SizeOf(s)
<1>1. Len(s) \in Nat \ {0} /\ (\A i \in 1..Len(s) : s[i].align \in {1, 2, 4, 8})
      /\ DOMAIN s = 1..Len(s)
  BY DEF Shape, Aligned
<1> DEFINE Largest(a) == /\ \E i \in DOMAIN s : s[i].align = a
                         /\ \A i \in DOMAIN s : s[i].align <= a
<1>2. \E a \in {1, 2, 4, 8} : Largest(a)
  <2>1. 1 \in 1..Len(s)
    BY <1>1
  <2>2. CASE \E i \in DOMAIN s : s[i].align = 8
    BY <1>1, <2>2
  <2>3. CASE ~(\E i \in DOMAIN s : s[i].align = 8) /\ \E i \in DOMAIN s : s[i].align = 4
    <3>1. \A i \in DOMAIN s : s[i].align \in {1, 2, 4}
      BY <1>1, <2>3
    <3>2. QED
      BY <2>3, <3>1
  <2>4. CASE /\ ~(\E i \in DOMAIN s : s[i].align \in {4, 8})
             /\ \E i \in DOMAIN s : s[i].align = 2
    <3>1. \A i \in DOMAIN s : s[i].align \in {1, 2}
      BY <1>1, <2>4
    <3>2. QED
      BY <2>4, <3>1
  <2>5. CASE ~(\E i \in DOMAIN s : s[i].align \in {2, 4, 8})
    <3>1. \A i \in DOMAIN s : s[i].align = 1
      BY <1>1, <2>5
    <3>2. QED
      BY <1>1, <2>1, <3>1
  <2>6. QED
    BY <2>2, <2>3, <2>4, <2>5
<1>3. AlignOf(s) \in {1, 2, 4, 8}
  BY <1>2 DEF AlignOf
<1>4. EndOf(s)[Len(s)] \in Nat
  <2>1. Len(s) \in 0..Len(s)
    BY <1>1
  <2>2. QED
    BY <2>1, EndsGrow
<1> DEFINE e == EndOf(s)[Len(s)]
           a == AlignOf(s)
<1> HIDE DEF e, a
<1>5. RoundUp(e, a) \in Nat /\ e <= RoundUp(e, a)
  BY <1>3, <1>4, RoundUpIs DEF e, a
<1>6. QED
  BY <1>5 DEF SizeOf, e, a

\* A member is found by its name, and lies in the structure.
Inside(s, f) ==
    /\ OffsetOf(s, f.name) \in Nat /\ f.size * f.n \in Nat /\ SizeOf(s) \in Nat
    /\ OffsetOf(s, f.name) + f.size * f.n <= SizeOf(s)

LEMMA MemberIs ==
    ASSUME NEW s, NEW N, NEW P, NEW w, Shape(s, N, P, w), NEW x \in N
    PROVE  /\ IndexOf(s, x) \in 1..Len(s) /\ s[IndexOf(s, x)].name = x
           /\ Inside(s, s[IndexOf(s, x)])
<1> DEFINE i == IndexOf(s, x)
           f == s[i]
<1>1. Len(s) \in Nat /\ DOMAIN s = 1..Len(s) /\ \E j \in 1..Len(s) : s[j].name = x
  BY DEF Shape
<1>2. i \in 1..Len(s) /\ s[i].name = x
  BY <1>1 DEF IndexOf
<1>3. i - 1 \in 0..Len(s) /\ i \in 0..Len(s)
  BY <1>1, <1>2
<1>4. OffsetOf(s, x) = RoundUp(EndOf(s)[i - 1], s[i].align)
  BY DEF OffsetOf
<1> HIDE DEF i
<1>5. Aligned(f)
  BY <1>2 DEF Shape
<1>6. EndOf(s)[i] = RoundUp(EndOf(s)[i - 1], s[i].align) + s[i].size * s[i].n
  <2>1. LaidOut(EndOf(s), s)
    BY EndsAre
  <2>2. QED
    BY <1>2, <2>1 DEF LaidOut
<1>7. EndOf(s)[i - 1] \in Nat
  BY <1>3, EndsGrow
<1>8. EndOf(s)[i] <= EndOf(s)[Len(s)] /\ EndOf(s)[i] \in Nat /\ EndOf(s)[Len(s)] \in Nat
  BY <1>3, EndsGrow
<1>9. SizeOf(s) \in Nat /\ EndOf(s)[Len(s)] <= SizeOf(s)
  BY SizeIs
<1> DEFINE z == f.size
           m == f.n
           a == f.align
           e == EndOf(s)[i - 1]
           bytes == z * m
           at == RoundUp(e, a)
<1>10. z \in Nat /\ m \in Nat /\ a \in {1, 2, 4, 8}
  BY <1>5 DEF Aligned
<1>11. bytes \in Nat
  <2> HIDE DEF z, m
  <2>1. QED
    BY <1>10
<1>12. at \in Nat
  <2> HIDE DEF a, e
  <2>1. QED
    BY <1>7, <1>10, RoundUpIs DEF e
<1>13. at + bytes <= SizeOf(s)
  <2>1. EndOf(s)[i] = at + bytes
    BY <1>6
  <2> HIDE DEF at, bytes
  <2>2. QED
    BY <1>8, <1>9, <1>11, <1>12, <2>1
<1>14. OffsetOf(s, f.name) = at
  BY <1>2, <1>4
<1> HIDE DEF at, bytes
<1>15. OffsetOf(s, f.name) + bytes <= SizeOf(s)
  BY <1>13, <1>14
<1>16. Inside(s, f)
  BY <1>9, <1>11, <1>12, <1>14, <1>15 DEF Inside, bytes
<1>17. QED
  BY <1>2, <1>16 DEF i

-----------------------------------------------------------------------------
(* The structures of the header. *)

\* Names, with those of N among them.
Named(t, N) == /\ Len(t) \in Nat \ {0} /\ DOMAIN t = 1..Len(t)
               /\ \A x \in N : \E i \in 1..Len(t) : t[i] = x

LEMMA OnNumbers ==
    ASSUME NEW f, NEW k \in Nat, f = [i \in 1..k |-> f[i]]
    PROVE  f \in Seq(Members(f)) /\ Len(f) = k /\ DOMAIN f = 1..k
<1>1. f \in [1..k -> Members(f)]
  BY DEF Members
<1>2. f \in Seq(Members(f))
  BY <1>1, IsASeq DEF Members
<1>3. QED
  BY <1>2

LEMMA WordsShape ==
    ASSUME NEW z \in {1, 2, 4, 8}, NEW t, NEW N, Named(t, N), NEW P,
           NEW w \in Nat, Digits[z] <= w
    PROVE  Shape(Fields(z, t), N, P, w)
<1> DEFINE l == Len(t)
           s == Fields(z, t)
<1>1. l \in Nat \ {0} /\ DOMAIN t = 1..l /\ \A x \in N : \E i \in 1..l : t[i] = x
  BY DEF Named
<1> HIDE DEF l
<1>2. s = [i \in 1..l |-> [name |-> t[i], size |-> z, align |-> z, n |-> 1]]
  BY <1>1 DEF Fields
<1> HIDE DEF s
<1>3. s \in Seq(Members(s)) /\ Len(s) = l
  BY <1>1, <1>2, OnNumbers
<1>4. ASSUME NEW i \in 1..l
      PROVE  s[i].name = t[i] /\ s[i].size = z /\ s[i].align = z /\ s[i].n = 1
  BY <1>2
<1>5. \A i \in 1..l : Aligned(s[i])
  BY <1>4 DEF Aligned
<1>6. \A i \in 1..l : Printable(s[i], w)
  <2>1. Digits[z] \in Nat /\ 1 * Digits[z] = Digits[z]
    BY DEF Digits
  <2>2. QED
    BY <1>4, <2>1 DEF Printable, Widest
<1>7. \A x \in N : \E i \in 1..l : s[i].name = x
  BY <1>1, <1>4
<1>8. QED
  BY <1>1, <1>3, <1>5, <1>6, <1>7 DEF Shape, s

LEMMA U8Shape ==
    ASSUME NEW t, NEW N, Named(t, N), NEW P, NEW w \in Nat, 3 <= w
    PROVE  Shape(U8(t), N, P, w)
BY WordsShape DEF U8, Digits

LEMMA U16Shape ==
    ASSUME NEW t, NEW N, Named(t, N), NEW P, NEW w \in Nat, 6 <= w
    PROVE  Shape(U16(t), N, P, w)
BY WordsShape DEF U16, Digits

LEMMA U32Shape ==
    ASSUME NEW t, NEW N, Named(t, N), NEW P, NEW w \in Nat, 11 <= w
    PROVE  Shape(U32(t), N, P, w)
BY WordsShape DEF U32, Digits

LEMMA U64Shape ==
    ASSUME NEW t, NEW N, Named(t, N), NEW P, NEW w \in Nat, 16 <= w
    PROVE  Shape(U64(t), N, P, w)
BY WordsShape DEF U64, Digits

LEMMA ArrayShape ==
    ASSUME NEW x, NEW z \in Nat, NEW a \in {1, 2, 4, 8}, NEW k \in Nat \ {0}, NEW P, NEW w,
           x \in P => Printable([name |-> x, size |-> z, align |-> a, n |-> k], w)
    PROVE  Shape(Array(x, z, a, k), {x}, P, w)
<1> DEFINE s == Array(x, z, a, k)
           f == [name |-> x, size |-> z, align |-> a, n |-> k]
<1>1. s \in Seq({f}) /\ Len(s) = 1 /\ s[1] = f /\ DOMAIN s = 1..1
  BY DEF Array
<1>2. f.name = x /\ f.size = z /\ f.align = a /\ f.n = k
  OBVIOUS
<1>3. x \in P => Printable(f, w)
  OBVIOUS
<1> HIDE DEF f, s
<1>4. Members(s) = {f}
  BY <1>1 DEF Members
<1>5. \A i \in 1..Len(s) : s[i] = f
  BY <1>1
<1>6. Aligned(f)
  BY <1>2 DEF Aligned
<1>7. QED
  BY <1>1, <1>2, <1>3, <1>4, <1>5, <1>6 DEF Shape, s

\* Arrays that are not printed, by their alignment; a string; other words.
LEMMA Hidden1Shape ==
    ASSUME NEW x, NEW z \in Nat, NEW k \in Nat \ {0}, NEW P, NEW w, x \notin P
    PROVE  Shape(Array(x, z, 1, k), {x}, P, w)
BY ArrayShape

LEMMA Hidden2Shape ==
    ASSUME NEW x, NEW z \in Nat, NEW k \in Nat \ {0}, NEW P, NEW w, x \notin P
    PROVE  Shape(Array(x, z, 2, k), {x}, P, w)
BY ArrayShape

LEMMA Hidden4Shape ==
    ASSUME NEW x, NEW z \in Nat, NEW k \in Nat \ {0}, NEW P, NEW w, x \notin P
    PROVE  Shape(Array(x, z, 4, k), {x}, P, w)
BY ArrayShape

LEMMA StringShape ==
    ASSUME NEW x, NEW k \in Nat, k > 1, NEW P, NEW w \in Nat, k - 1 <= w
    PROVE  Shape(Array(x, 1, 1, k), {x}, P, w)
<1> DEFINE f == [name |-> x, size |-> 1, align |-> 1, n |-> k]
<1>1. f.size = 1 /\ f.n = k
  OBVIOUS
<1> HIDE DEF f
<1>2. Printable(f, w)
  BY <1>1 DEF Printable, Widest
<1>3. 1 \in Nat /\ 1 \in {1, 2, 4, 8} /\ k \in Nat \ {0}
  OBVIOUS
<1>4. QED
  BY <1>2, <1>3, ArrayShape DEF f

LEMMA WordArrayShape ==
    ASSUME NEW x, NEW z \in {2, 4}, NEW k \in Nat \ {0}, NEW P, NEW w \in Nat, k * 11 <= w
    PROVE  Shape(Array(x, z, z, k), {x}, P, w)
<1> DEFINE f == [name |-> x, size |-> z, align |-> z, n |-> k]
<1>1. f.size = z /\ f.n = k
  OBVIOUS
<1> HIDE DEF f
<1>2. Digits[z] \in {6, 11}
  BY DEF Digits
<1>3. k * Digits[z] <= w
  BY <1>2
<1>4. Printable(f, w)
  BY <1>1, <1>3 DEF Printable, Widest
<1>5. QED
  BY <1>4, ArrayShape DEF f

LEMMA BothShape ==
    ASSUME NEW s, NEW t, NEW N, NEW M, NEW K, NEW P, NEW w,
           Shape(s, N, P, w), Shape(t, M, P, w), K \subseteq N \cup M
    PROVE  Shape(s \o t, K, P, w)
<1> DEFINE j == Len(s)
           k == Len(t)
           B == Members(s) \cup Members(t)
           c == s \o t
<1>1. s \in Seq(B) /\ t \in Seq(B)
  <2>1. s \in Seq(Members(s)) /\ t \in Seq(Members(t))
    BY DEF Shape
  <2> HIDE DEF c
  <2>2. QED
    BY <2>1
<1>2. /\ j \in Nat \ {0} /\ k \in Nat \ {0}
      /\ (\A i \in 1..j : Aligned(s[i])) /\ (\A i \in 1..k : Aligned(t[i]))
      /\ (\A i \in 1..j : s[i].name \in P => Printable(s[i], w))
      /\ (\A i \in 1..k : t[i].name \in P => Printable(t[i], w))
      /\ (\A x \in N : \E i \in 1..j : s[i].name = x)
      /\ (\A x \in M : \E i \in 1..k : t[i].name = x)
  BY DEF Shape
<1> HIDE DEF B
<1>3. c \in Seq(B) /\ Len(c) = j + k
      /\ \A i \in 1..(j + k) : c[i] = IF i <= j THEN s[i] ELSE t[i - j]
  BY <1>1, ConcatProperties
<1> HIDE DEF j, k, c
<1>4. \A i \in 1..j : c[i] = s[i] /\ i \in 1..(j + k)
  BY <1>2, <1>3
<1>5. \A i \in 1..k : c[j + i] = t[i] /\ j + i \in 1..(j + k)
  <2>1. \A i \in 1..k : j + i \in 1..(j + k) /\ ~(j + i <= j) /\ (j + i) - j = i
    BY <1>2
  <2>2. QED
    BY <1>3, <2>1
<1>6. \A i \in 1..(j + k) : i \in 1..j \/ \E m \in 1..k : i = j + m
  <2>1. \A i \in 1..(j + k) : i \in 1..j \/ (i - j \in 1..k /\ i = j + (i - j))
    BY <1>2
  <2>2. QED
    BY <2>1
<1>7. \A i \in 1..(j + k) : Aligned(c[i]) /\ (c[i].name \in P => Printable(c[i], w))
  BY <1>2, <1>4, <1>5, <1>6
<1>8. \A x \in K : \E i \in 1..(j + k) : c[i].name = x
  BY <1>2, <1>4, <1>5
<1>9. c \in Seq(Members(c)) /\ j + k \in Nat \ {0}
  <2>1. c = [i \in 1..(j + k) |-> c[i]]
    BY <1>3
  <2>2. j + k \in Nat \ {0}
    BY <1>2
  <2>3. QED
    BY <2>1, <2>2, OnNumbers
<1>10. QED
  BY <1>3, <1>7, <1>8, <1>9 DEF Shape, c

LEMMA JobShape ==
    ASSUME NEW P, P = {"cores", "frames", "flags"}
    PROVE  Shape(Job, P, P, 16)
<1> DEFINE a == <<"cores", "frames">>
           b == <<"flags">>
<1>1. Named(a, {"cores", "frames"}) /\ Named(b, {"flags"})
  BY DEF Named
<1> HIDE DEF a, b
<1>2. Shape(U16(a), {"cores", "frames"}, P, 16)
  BY <1>1, U16Shape
<1>3. Shape(U32(b), {"flags"}, P, 16)
  BY <1>1, U32Shape
<1>4. Shape(U16(a) \o U32(b), P, P, 16)
  BY <1>2, <1>3, BothShape
<1>5. QED
  BY <1>4 DEF Job, a, b

LEMMA SwitchedInShape ==
    ASSUME NEW P, P = {"core"}
    PROVE  Shape(SwitchedIn, P, P, 16)
<1> DEFINE a == <<"core">>
<1>1. Named(a, {"core"})
  BY DEF Named
<1> HIDE DEF a
<1>2. Shape(U32(a), {"core"}, P, 16)
  BY <1>1, U32Shape
<1>3. QED
  BY <1>2 DEF SwitchedIn, a

LEMMA SwitchedOutShape ==
    ASSUME NEW P, P = {"core", "reason", "sub_reason"}
    PROVE  Shape(SwitchedOut, P, P, 16)
<1> DEFINE a == <<"core", "reason", "sub_reason">>
<1>1. Named(a, {"core", "reason", "sub_reason"})
  BY DEF Named
<1> HIDE DEF a
<1>2. Shape(U32(a), {"core", "reason", "sub_reason"}, P, 16)
  BY <1>1, U32Shape
<1>3. QED
  BY <1>2 DEF SwitchedOut, a

LEMMA JobDequeuedShape ==
    ASSUME NEW P, P = {"valid_job"}
    PROVE  Shape(JobDequeued, P, P, 16)
<1> DEFINE a == <<"valid_job">>
<1>1. Named(a, {"valid_job"})
  BY DEF Named
<1> HIDE DEF a
<1>2. Shape(U32(a), {"valid_job"}, P, 16)
  BY <1>1, U32Shape
<1>3. QED
  BY <1>2 DEF JobDequeued, a

LEMMA StateChangeShape ==
    ASSUME NEW P, P = {"new_state"}
    PROVE  Shape(StateChange, P, P, 16)
<1> DEFINE a == <<"new_state">>
<1>1. Named(a, {"new_state"})
  BY DEF Named
<1> HIDE DEF a
<1>2. Shape(U32(a), {"new_state"}, P, 16)
  BY <1>1, U32Shape
<1>3. QED
  BY <1>2 DEF StateChange, a

LEMMA ErrorShape ==
    ASSUME NEW P, P = {"error_code", "message"}
    PROVE  Shape(Error, P, P, 127)
<1> DEFINE a == <<"error_code">>
           p == Array("message", 1, 1, ErrorMessageSize)
<1>1. Named(a, {"error_code"})
  BY DEF Named
<1>2. Shape(p, {"message"}, P, 127)
  BY StringShape DEF ErrorMessageSize, p
<1> HIDE DEF a, p
<1>3. Shape(U32(a), {"error_code"}, P, 127)
  BY <1>1, U32Shape
<1>4. Shape(U32(a) \o p, P, P, 127)
  BY <1>3, <1>2, BothShape
<1>5. QED
  BY <1>4 DEF Error, a, p

LEMMA SetOptionFailShape ==
    ASSUME NEW P, P = {"index", "message"}
    PROVE  Shape(SetOptionFail, P, P, 127)
<1> DEFINE a == <<"index">>
           p == Array("message", 1, 1, ErrorMessageSize)
<1>1. Named(a, {"index"})
  BY DEF Named
<1>2. Shape(p, {"message"}, P, 127)
  BY StringShape DEF ErrorMessageSize, p
<1> HIDE DEF a, p
<1>3. Shape(U32(a), {"index"}, P, 127)
  BY <1>1, U32Shape
<1>4. Shape(U32(a) \o p, P, P, 127)
  BY <1>3, <1>2, BothShape
<1>5. QED
  BY <1>4 DEF SetOptionFail, a, p

LEMMA FrameAllocParamShape ==
    ASSUME NEW P, P = {"planar_alloc_frame_width", "planar_alloc_frame_height",
                    "afbc_alloc_bytes", "afbc_width_in_superblocks", "mbinfo_alloc_bytes",
                    "dsl_frame_width", "dsl_frame_height"}
    PROVE  Shape(FrameAllocParam, P, P, 16)
<1> DEFINE a == <<"planar_alloc_frame_width", "planar_alloc_frame_height">>
           b == <<"afbc_alloc_bytes", "afbc_alloc_bytes_downscaled">>
           c == <<"afbc_width_in_superblocks", "afbc_width_in_superblocks_downscaled",
                  "cropx", "cropy">>
           d == <<"mbinfo_alloc_bytes">>
           e == <<"dsl_frame_width", "dsl_frame_height", "dsl_pos_mode">>
           f == <<"ctu_size">>
<1>1. /\ Named(a, {"planar_alloc_frame_width", "planar_alloc_frame_height"})
      /\ Named(b, {"afbc_alloc_bytes"})
      /\ Named(c, {"afbc_width_in_superblocks"})
      /\ Named(d, {"mbinfo_alloc_bytes"})
      /\ Named(e, {"dsl_frame_width", "dsl_frame_height"})
      /\ Named(f, {})
  BY DEF Named
<1> HIDE DEF a, b, c, d, e, f
<1>2. Shape(U16(a), {"planar_alloc_frame_width", "planar_alloc_frame_height"}, P, 16)
  BY <1>1, U16Shape
<1>3. Shape(U32(b), {"afbc_alloc_bytes"}, P, 16)
  BY <1>1, U32Shape
<1>4. Shape(U16(c), {"afbc_width_in_superblocks"}, P, 16)
  BY <1>1, U16Shape
<1>5. Shape(U32(d), {"mbinfo_alloc_bytes"}, P, 16)
  BY <1>1, U32Shape
<1>6. Shape(U16(e), {"dsl_frame_width", "dsl_frame_height"}, P, 16)
  BY <1>1, U16Shape
<1>7. Shape(U8(f), {}, P, 16)
  BY <1>1, U8Shape
<1>8. Shape(U16(a) \o U32(b),
            {"planar_alloc_frame_width", "planar_alloc_frame_height",
             "afbc_alloc_bytes"}, P, 16)
  BY <1>2, <1>3, BothShape
<1>9. Shape(U16(a) \o U32(b) \o U16(c),
            {"planar_alloc_frame_width", "planar_alloc_frame_height",
             "afbc_alloc_bytes", "afbc_width_in_superblocks"}, P, 16)
  BY <1>8, <1>4, BothShape
<1>10. Shape(U16(a) \o U32(b) \o U16(c) \o U32(d),
             {"planar_alloc_frame_width", "planar_alloc_frame_height",
              "afbc_alloc_bytes", "afbc_width_in_superblocks", "mbinfo_alloc_bytes"}, P, 16)
  BY <1>9, <1>5, BothShape
<1>11. Shape(U16(a) \o U32(b) \o U16(c) \o U32(d) \o U16(e),
             {"planar_alloc_frame_width", "planar_alloc_frame_height",
              "afbc_alloc_bytes", "afbc_width_in_superblocks",
              "mbinfo_alloc_bytes", "dsl_frame_width", "dsl_frame_height"}, P, 16)
  BY <1>10, <1>6, BothShape
<1>12. Shape(U16(a) \o U32(b) \o U16(c) \o U32(d) \o U16(e) \o U8(f), P, P, 16)
  BY <1>11, <1>7, BothShape
<1>13. QED
  BY <1>12 DEF FrameAllocParam, a, b, c, d, e, f

LEMMA SequenceParametersShape ==
    ASSUME NEW P, P = {"interlace", "chroma_format", "bitdepth_luma", "bitdepth_chroma",
                    "num_buffers_planar", "num_buffers_afbc", "range_mapping_enabled"}
    PROVE  Shape(SequenceParameters, P, P, 16)
<1> DEFINE a == <<"interlace", "chroma_format", "bitdepth_luma", "bitdepth_chroma",
                  "num_buffers_planar", "num_buffers_afbc", "range_mapping_enabled",
                  "reserved0">>
<1>1. /\ Named(a, {"interlace", "chroma_format", "bitdepth_luma", "bitdepth_chroma",
                   "num_buffers_planar", "num_buffers_afbc", "range_mapping_enabled"})
  BY DEF Named
<1> HIDE DEF a
<1>2. Shape(U8(a),
            {"interlace", "chroma_format", "bitdepth_luma", "bitdepth_chroma",
             "num_buffers_planar", "num_buffers_afbc", "range_mapping_enabled"}, P, 16)
  BY <1>1, U8Shape
<1>3. QED
  BY <1>2 DEF SequenceParameters, a

LEMMA BitstreamShape ==
    ASSUME NEW P, P = {"host_handle", "user_data_tag", "bitstream_flags",
                    "bitstream_alloc_bytes", "bitstream_offset", "bitstream_filled_len",
                    "bitstream_buf_addr"}
    PROVE  Shape(Bitstream, P, P, 16)
<1> DEFINE a == <<"host_handle", "user_data_tag">>
           b == <<"bitstream_flags", "bitstream_alloc_bytes", "bitstream_offset",
                  "bitstream_filled_len", "bitstream_buf_addr">>
           c == <<"frame_type">>
           p == Array("reserved", 1, 1, 3)
<1>1. /\ Named(a, {"host_handle", "user_data_tag"})
      /\ Named(b, {"bitstream_flags", "bitstream_alloc_bytes", "bitstream_offset",
                   "bitstream_filled_len", "bitstream_buf_addr"})
      /\ Named(c, {})
  BY DEF Named
<1>2. Shape(p, {"reserved"}, P, 16)
  BY Hidden1Shape DEF p
<1> HIDE DEF a, b, c, p
<1>3. Shape(U64(a), {"host_handle", "user_data_tag"}, P, 16)
  BY <1>1, U64Shape
<1>4. Shape(U32(b),
            {"bitstream_flags", "bitstream_alloc_bytes", "bitstream_offset",
             "bitstream_filled_len", "bitstream_buf_addr"}, P, 16)
  BY <1>1, U32Shape
<1>5. Shape(U8(c), {}, P, 16)
  BY <1>1, U8Shape
<1>6. Shape(U64(a) \o U32(b),
            {"host_handle", "user_data_tag", "bitstream_flags",
             "bitstream_alloc_bytes", "bitstream_offset", "bitstream_filled_len",
             "bitstream_buf_addr"}, P, 16)
  BY <1>3, <1>4, BothShape
<1>7. Shape(U64(a) \o U32(b) \o U8(c),
            {"host_handle", "user_data_tag", "bitstream_flags",
             "bitstream_alloc_bytes", "bitstream_offset", "bitstream_filled_len",
             "bitstream_buf_addr"}, P, 16)
  BY <1>6, <1>5, BothShape
<1>8. Shape(U64(a) \o U32(b) \o U8(c) \o p, P, P, 16)
  BY <1>7, <1>2, BothShape
<1>9. QED
  BY <1>8 DEF Bitstream, a, b, c, p

LEMMA OptionHeadShape ==
    ASSUME NEW P, P = {"index"}
    PROVE  Shape(U32(<<"index">>), P, P, 16)
<1> DEFINE a == <<"index">>
<1>1. Named(a, {"index"})
  BY DEF Named
<1> HIDE DEF a
<1>2. Shape(U32(a), {"index"}, P, 16)
  BY <1>1, U32Shape
<1>3. QED
  BY <1>2 DEF a

LEMMA EventHeadShape ==
    ASSUME NEW P, P = {"event_code"}
    PROVE  Shape(U32(<<"event_code">>), P, P, 16)
<1> DEFINE a == <<"event_code">>
<1>1. Named(a, {"event_code"})
  BY DEF Named
<1> HIDE DEF a
<1>2. Shape(U32(a), {"event_code"}, P, 16)
  BY <1>1, U32Shape
<1>3. QED
  BY <1>2 DEF a

LEMMA ParamHeadShape ==
    ASSUME NEW P, P = {"type"}
    PROVE  Shape(U32(<<"type">>), P, P, 16)
<1> DEFINE a == <<"type">>
<1>1. Named(a, {"type"})
  BY DEF Named
<1> HIDE DEF a
<1>2. Shape(U32(a), {"type"}, P, 16)
  BY <1>1, U32Shape
<1>3. QED
  BY <1>2 DEF a

LEMMA FrameHeadShape ==
    ASSUME NEW P, P = {"host_handle", "user_data_tag", "frame_flags", "visible_frame_width",
                    "visible_frame_height", "format"}
    PROVE  Shape(FrameHead, P, P, 16)
<1> DEFINE a == <<"host_handle", "user_data_tag">>
           b == <<"frame_flags">>
           c == <<"visible_frame_height", "visible_frame_width", "format", "reserved0">>
<1>1. /\ Named(a, {"host_handle", "user_data_tag"})
      /\ Named(b, {"frame_flags"})
      /\ Named(c, {"visible_frame_height", "visible_frame_width", "format"})
  BY DEF Named
<1> HIDE DEF a, b, c
<1>2. Shape(U64(a), {"host_handle", "user_data_tag"}, P, 16)
  BY <1>1, U64Shape
<1>3. Shape(U32(b), {"frame_flags"}, P, 16)
  BY <1>1, U32Shape
<1>4. Shape(U16(c), {"visible_frame_height", "visible_frame_width", "format"}, P, 16)
  BY <1>1, U16Shape
<1>5. Shape(U64(a) \o U32(b), {"host_handle", "user_data_tag", "frame_flags"}, P, 16)
  BY <1>2, <1>3, BothShape
<1>6. Shape(U64(a) \o U32(b) \o U16(c), P, P, 16)
  BY <1>5, <1>4, BothShape
<1>7. QED
  BY <1>6 DEF FrameHead, a, b, c

LEMMA GeneralHeadShape ==
    ASSUME NEW P, P = {"host_handle", "user_data_tag", "buffer_size", "config_size"}
    PROVE  Shape(GeneralHead, P, P, 16)
<1> DEFINE a == <<"host_handle", "user_data_tag">>
           b == <<"buffer_ptr", "buffer_size">>
           c == <<"type", "config_size">>
           d == <<"reserved">>
<1>1. /\ Named(a, {"host_handle", "user_data_tag"})
      /\ Named(b, {"buffer_size"})
      /\ Named(c, {"config_size"})
      /\ Named(d, {})
  BY DEF Named
<1> HIDE DEF a, b, c, d
<1>2. Shape(U64(a), {"host_handle", "user_data_tag"}, P, 16)
  BY <1>1, U64Shape
<1>3. Shape(U32(b), {"buffer_size"}, P, 16)
  BY <1>1, U32Shape
<1>4. Shape(U16(c), {"config_size"}, P, 16)
  BY <1>1, U16Shape
<1>5. Shape(U32(d), {}, P, 16)
  BY <1>1, U32Shape
<1>6. Shape(U64(a) \o U32(b), {"host_handle", "user_data_tag", "buffer_size"}, P, 16)
  BY <1>2, <1>3, BothShape
<1>7. Shape(U64(a) \o U32(b) \o U16(c),
            {"host_handle", "user_data_tag", "buffer_size", "config_size"}, P, 16)
  BY <1>6, <1>4, BothShape
<1>8. Shape(U64(a) \o U32(b) \o U16(c) \o U32(d), P, P, 16)
  BY <1>7, <1>5, BothShape
<1>9. QED
  BY <1>8 DEF GeneralHead, a, b, c, d

LEMMA OptionArg ==
    ASSUME NEW P, P = {"arg"}
    PROVE  Shape(OptionData["arg"], P, P, 16)
<1> DEFINE a == <<"arg">>
<1>1. Named(a, {"arg"})
  BY DEF Named
<1> HIDE DEF a
<1>2. Shape(U32(a), {"arg"}, P, 16)
  BY <1>1, U32Shape
<1>3. QED
  BY <1>2 DEF OptionData, a

LEMMA OptionProfileLevel ==
    ASSUME NEW P, P = {"profile", "level"}
    PROVE  Shape(OptionData["profile_level"], P, P, 16)
<1> DEFINE a == <<"profile", "level">>
<1>1. Named(a, {"profile", "level"})
  BY DEF Named
<1> HIDE DEF a
<1>2. Shape(U16(a), {"profile", "level"}, P, 16)
  BY <1>1, U16Shape
<1>3. QED
  BY <1>2 DEF OptionData, a

LEMMA OptionMotionVectorSearchRange ==
    ASSUME NEW P, P = {"mv_search_range_x", "mv_search_range_y"}
    PROVE  Shape(OptionData["motion_vector_search_range"], P, P, 16)
<1> DEFINE a == <<"mv_search_range_x", "mv_search_range_y">>
<1>1. Named(a, {"mv_search_range_x", "mv_search_range_y"})
  BY DEF Named
<1> HIDE DEF a
<1>2. Shape(U32(a), {"mv_search_range_x", "mv_search_range_y"}, P, 16)
  BY <1>1, U32Shape
<1>3. QED
  BY <1>2 DEF OptionData, a

LEMMA OptionHuffmanTable ==
    ASSUME NEW P, P = {"type"}
    PROVE  Shape(OptionData["huffman_table"], P, P, 16)
<1> DEFINE a == <<"type">>
           p == Array("number_of_huffman", 1, 1, 16)
           q == Array("table", 1, 1, 162)
<1>1. Named(a, {"type"})
  BY DEF Named
<1>2. Shape(p, {"number_of_huffman"}, P, 16)
  BY Hidden1Shape DEF p
<1>3. Shape(q, {"table"}, P, 16)
  BY Hidden1Shape DEF q
<1> HIDE DEF a, p, q
<1>4. Shape(U32(a), {"type"}, P, 16)
  BY <1>1, U32Shape
<1>5. Shape(U32(a) \o p, {"type"}, P, 16)
  BY <1>4, <1>2, BothShape
<1>6. Shape(U32(a) \o p \o q, P, P, 16)
  BY <1>5, <1>3, BothShape
<1>7. QED
  BY <1>6 DEF OptionData, a, p, q

LEMMA OptionQuantTable ==
    ASSUME NEW P, P = {"type"}
    PROVE  Shape(OptionData["quant_table"], P, P, 16)
<1> DEFINE a == <<"type">>
           p == Array("matrix", 1, 1, 64)
<1>1. Named(a, {"type"})
  BY DEF Named
<1>2. Shape(p, {"matrix"}, P, 16)
  BY Hidden1Shape DEF p
<1> HIDE DEF a, p
<1>3. Shape(U32(a), {"type"}, P, 16)
  BY <1>1, U32Shape
<1>4. Shape(U32(a) \o p, P, P, 16)
  BY <1>3, <1>2, BothShape
<1>5. QED
  BY <1>4 DEF OptionData, a, p

LEMMA OptionTiles ==
    ASSUME NEW P, P = {"tile_rows", "tile_cols"}
    PROVE  Shape(OptionData["tiles"], P, P, 16)
<1> DEFINE a == <<"tile_rows", "tile_cols">>
<1>1. Named(a, {"tile_rows", "tile_cols"})
  BY DEF Named
<1> HIDE DEF a
<1>2. Shape(U16(a), {"tile_rows", "tile_cols"}, P, 16)
  BY <1>1, U16Shape
<1>3. QED
  BY <1>2 DEF OptionData, a

LEMMA OptionBitdepth ==
    ASSUME NEW P, P = {"luma_bitdepth", "chroma_bitdepth"}
    PROVE  Shape(OptionData["bitdepth"], P, P, 16)
<1> DEFINE a == <<"luma_bitdepth", "chroma_bitdepth">>
<1>1. Named(a, {"luma_bitdepth", "chroma_bitdepth"})
  BY DEF Named
<1> HIDE DEF a
<1>2. Shape(U16(a), {"luma_bitdepth", "chroma_bitdepth"}, P, 16)
  BY <1>1, U16Shape
<1>3. QED
  BY <1>2 DEF OptionData, a

LEMMA OptionLambdaScale == Shape(OptionData["lambda_scale"], {"lambda_scale"}, {}, 16)
<1> DEFINE p == Array("lambda_scale", 2, 2, 8)
<1>1. Shape(p, {"lambda_scale"}, {}, 16)
  BY Hidden2Shape DEF p
<1> HIDE DEF p
<1>2. OptionData["lambda_scale"] = Array("lambda_scale", 2, 2, 8)
  BY DEF OptionData
<1>3. QED
  BY <1>1, <1>2 DEF p

LEMMA OptionDownscaledFrame ==
    ASSUME NEW P, P = {"width", "height"}
    PROVE  Shape(OptionData["downscaled_frame"], P, P, 16)
<1> DEFINE a == <<"width", "height">>
<1>1. Named(a, {"width", "height"})
  BY DEF Named
<1> HIDE DEF a
<1>2. Shape(U16(a), {"width", "height"}, P, 16)
  BY <1>1, U16Shape
<1>3. QED
  BY <1>2 DEF OptionData, a

LEMMA OptionDslPos == Shape(OptionData["dsl_pos"], {}, {}, 16)
<1> DEFINE a == <<"mode">>
<1>1. Named(a, {})
  BY DEF Named
<1> HIDE DEF a
<1>2. Shape(U32(a), {}, {}, 16)
  BY <1>1, U32Shape
<1>3. QED
  BY <1>2 DEF OptionData, a

LEMMA EventProcessedShape ==
    ASSUME NEW P, P = {"pic_format", "parse_start_time", "parse_end_time", "parse_idle_time",
                    "pipe_start_time", "pipe_end_time", "pipe_idle_time", "parser_coreid",
                    "pipe_coreid", "bitstream_bits", "intermediate_buffer_size",
                    "total_memory_allocated", "bus_read_bytes", "bus_write_bytes",
                    "afbc_bytes"}
    PROVE  Shape(EventProcessed, P, P, 11)
<1> DEFINE a == <<"pic_format", "qp", "pad0", "pad1">>
           b == <<"parse_start_time", "parse_end_time", "parse_idle_time",
                  "pipe_start_time", "pipe_end_time", "pipe_idle_time", "parser_coreid",
                  "pipe_coreid", "bitstream_bits", "intermediate_buffer_size",
                  "total_memory_allocated", "bus_read_bytes", "bus_write_bytes",
                  "afbc_bytes", "slice0_end_time", "stream_start_time", "stream_open_time">>
<1>1. /\ Named(a, {"pic_format"})
      /\ Named(b, {"parse_start_time", "parse_end_time", "parse_idle_time",
                   "pipe_start_time", "pipe_end_time", "pipe_idle_time", "parser_coreid",
                   "pipe_coreid", "bitstream_bits", "intermediate_buffer_size",
                   "total_memory_allocated", "bus_read_bytes", "bus_write_bytes",
                   "afbc_bytes"})
  BY DEF Named
<1> HIDE DEF a, b
<1>2. Shape(U8(a), {"pic_format"}, P, 11)
  BY <1>1, U8Shape
<1>3. Shape(U32(b),
            {"parse_start_time", "parse_end_time", "parse_idle_time",
             "pipe_start_time", "pipe_end_time", "pipe_idle_time",
             "parser_coreid", "pipe_coreid", "bitstream_bits",
             "intermediate_buffer_size", "total_memory_allocated",
             "bus_read_bytes", "bus_write_bytes", "afbc_bytes"}, P, 11)
  BY <1>1, U32Shape
<1>4. Shape(U8(a) \o U32(b), P, P, 11)
  BY <1>2, <1>3, BothShape
<1>5. QED
  BY <1>4 DEF EventProcessed, a, b

LEMMA EventRefFrameShape ==
    ASSUME NEW P, P = {"ref_addr", "ref_width", "ref_height", "ref_mb_width", "ref_mb_height",
                    "ref_left_crop", "ref_top_crop", "ref_frame_size", "ref_display_order",
                    "bit_width"}
    PROVE  Shape(EventRefFrame, P, P, 16)
<1> DEFINE a == <<"ref_addr", "ref_width", "ref_height", "ref_mb_width", "ref_mb_height",
                  "ref_left_crop", "ref_top_crop", "ref_frame_size", "ref_display_order">>
           b == <<"bit_width", "tiled_headers">>
           c == <<"user_data_tag">>
<1>1. /\ Named(a, {"ref_addr", "ref_width", "ref_height", "ref_mb_width", "ref_mb_height",
                   "ref_left_crop", "ref_top_crop", "ref_frame_size", "ref_display_order"})
      /\ Named(b, {"bit_width"})
      /\ Named(c, {})
  BY DEF Named
<1> HIDE DEF a, b, c
<1>2. Shape(U32(a),
            {"ref_addr", "ref_width", "ref_height", "ref_mb_width",
             "ref_mb_height", "ref_left_crop", "ref_top_crop", "ref_frame_size",
             "ref_display_order"}, P, 16)
  BY <1>1, U32Shape
<1>3. Shape(U16(b), {"bit_width"}, P, 16)
  BY <1>1, U16Shape
<1>4. Shape(U64(c), {}, P, 16)
  BY <1>1, U64Shape
<1>5. Shape(U32(a) \o U16(b),
            {"ref_addr", "ref_width", "ref_height", "ref_mb_width",
             "ref_mb_height", "ref_left_crop", "ref_top_crop", "ref_frame_size",
             "ref_display_order", "bit_width"}, P, 16)
  BY <1>2, <1>3, BothShape
<1>6. Shape(U32(a) \o U16(b) \o U64(c), P, P, 16)
  BY <1>5, <1>4, BothShape
<1>7. QED
  BY <1>6 DEF EventRefFrame, a, b, c

LEMMA EventTraceBuffersShape == Shape(EventTraceBuffers, {}, {}, 16)
<1> DEFINE a == <<"reserved">>
           b == <<"num_cores", "rasc_mask">>
           p == Array("buffers", 8, 4, 40)
<1>1. Named(a, {}) /\ Named(b, {})
  BY DEF Named
<1>2. Shape(p, {"buffers"}, {}, 16)
  BY Hidden4Shape DEF p
<1> HIDE DEF a, b, p
<1>3. Shape(U16(a), {}, {}, 16)
  BY <1>1, U16Shape
<1>4. Shape(U8(b), {}, {}, 16)
  BY <1>1, U8Shape
<1>5. Shape(U16(a) \o U8(b), {}, {}, 16)
  BY <1>3, <1>4, BothShape
<1>6. Shape(U16(a) \o U8(b) \o p, {}, {}, 16)
  BY <1>5, <1>2, BothShape
<1>7. QED
  BY <1>6 DEF EventTraceBuffers, a, b, p

LEMMA EventMessage == Shape(EventData["message"], {"message"}, {}, 16)
<1> DEFINE p == Array("message", 1, 1, ErrorMessageSize)
<1>1. Shape(p, {"message"}, {}, 16)
  BY Hidden1Shape DEF ErrorMessageSize, p
<1> HIDE DEF p
<1>2. EventData["message"] = Array("message", 1, 1, ErrorMessageSize)
  BY DEF EventData
<1>3. QED
  BY <1>1, <1>2 DEF p

LEMMA FramePlanarShape ==
    ASSUME NEW P, P = {"plane_top", "plane_bot", "stride", "max_frame_width",
                       "max_frame_height"}
    PROVE  Shape(FramePlanar, P, P, 33)
<1> DEFINE p == Array("plane_top", 4, 4, 3)
           q == Array("plane_bot", 4, 4, 3)
           r == Array("stride", 4, 4, 3)
           a == <<"max_frame_width", "max_frame_height">>
<1>1. Named(a, {"max_frame_width", "max_frame_height"})
  BY DEF Named
<1>2. Shape(p, {"plane_top"}, P, 33)
  BY WordArrayShape DEF p
<1>3. Shape(q, {"plane_bot"}, P, 33)
  BY WordArrayShape DEF q
<1>4. Shape(r, {"stride"}, P, 33)
  BY WordArrayShape DEF r
<1> HIDE DEF p, q, r, a
<1>5. Shape(U16(a), {"max_frame_width", "max_frame_height"}, P, 33)
  BY <1>1, U16Shape
<1>6. Shape(p \o q, {"plane_top", "plane_bot"}, P, 33)
  BY <1>2, <1>3, BothShape
<1>7. Shape(p \o q \o r, {"plane_top", "plane_bot", "stride"}, P, 33)
  BY <1>6, <1>4, BothShape
<1>8. Shape(p \o q \o r \o U16(a), P, P, 33)
  BY <1>7, <1>5, BothShape
<1>9. QED
  BY <1>8 DEF FramePlanar, p, q, r, a

LEMMA FrameAfbcShape ==
    ASSUME NEW P, P = {"plane", "alloc_bytes", "cropx", "cropy", "afbc_width_in_superblocks",
                    "afbc_params"}
    PROVE  Shape(FrameAfbc, P, P, 33)
<1> DEFINE p == Array("plane", 4, 4, 2)
           q == Array("alloc_bytes", 4, 4, 2)
           a == <<"cropx", "cropy">>
           r == Array("afbc_width_in_superblocks", 2, 2, 2)
           b == <<"afbc_params">>
<1>1. Named(a, {"cropx", "cropy"}) /\ Named(b, {"afbc_params"})
  BY DEF Named
<1>2. Shape(p, {"plane"}, P, 33)
  BY WordArrayShape DEF p
<1>3. Shape(q, {"alloc_bytes"}, P, 33)
  BY WordArrayShape DEF q
<1>4. Shape(r, {"afbc_width_in_superblocks"}, P, 33)
  BY WordArrayShape DEF r
<1> HIDE DEF p, q, a, r, b
<1>5. Shape(U16(a), {"cropx", "cropy"}, P, 33)
  BY <1>1, U16Shape
<1>6. Shape(U32(b), {"afbc_params"}, P, 33)
  BY <1>1, U32Shape
<1>7. Shape(p \o q, {"plane", "alloc_bytes"}, P, 33)
  BY <1>2, <1>3, BothShape
<1>8. Shape(p \o q \o U16(a), {"plane", "alloc_bytes", "cropx", "cropy"}, P, 33)
  BY <1>7, <1>5, BothShape
<1>9. Shape(p \o q \o U16(a) \o r,
            {"plane", "alloc_bytes", "cropx", "cropy", "afbc_width_in_superblocks"}, P, 33)
  BY <1>8, <1>4, BothShape
<1>10. Shape(p \o q \o U16(a) \o r \o U32(b), P, P, 33)
  BY <1>9, <1>6, BothShape
<1>11. QED
  BY <1>10 DEF FrameAfbc, p, q, a, r, b

LEMMA ParamRegionShape ==
    ASSUME NEW P, P = {"mbx_left", "mbx_right", "mby_top", "mby_bottom", "qp_delta"}
    PROVE  Shape(ParamRegion, P, P, 6)
<1> DEFINE a == <<"mbx_left", "mbx_right", "mby_top", "mby_bottom", "qp_delta", "reserved">>
<1>1. Named(a, {"mbx_left", "mbx_right", "mby_top", "mby_bottom", "qp_delta"})
  BY DEF Named
<1> HIDE DEF a
<1>2. Shape(U16(a),
            {"mbx_left", "mbx_right", "mby_top", "mby_bottom", "qp_delta"}, P, 6)
  BY <1>1, U16Shape
<1>3. QED
  BY <1>2 DEF ParamRegion, a

LEMMA ParamRegionsShape ==
    ASSUME NEW P, P = {"n_regions"}
    PROVE  Shape(ParamRegions, {"n_regions", "region"}, P, 16)
<1> DEFINE a == <<"n_regions">>
           p == Array("reserved", 1, 1, 3)
           q == Array("region", SizeOf(ParamRegion), 2, MaxRegions)
<1>1. Named(a, {"n_regions"})
  BY DEF Named
<1> DEFINE R == {"mbx_left", "mbx_right", "mby_top", "mby_bottom", "qp_delta"}
<1>0. SizeOf(ParamRegion) \in Nat
  <2>1. Shape(ParamRegion, R, R, 6)
    BY ParamRegionShape
  <2>2. QED
    BY <2>1, SizeIs
<1> HIDE DEF R
<1>2. Shape(p, {"reserved"}, P, 16)
  BY Hidden1Shape DEF p
<1>3. Shape(q, {"region"}, P, 16)
  BY Hidden2Shape, <1>0 DEF MaxRegions, q
<1> HIDE DEF a, p, q
<1>4. Shape(U8(a), {"n_regions"}, P, 16)
  BY <1>1, U8Shape
<1>5. Shape(U8(a) \o p, {"n_regions"}, P, 16)
  BY <1>4, <1>2, BothShape
<1>6. Shape(U8(a) \o p \o q, {"n_regions", "region"}, P, 16)
  BY <1>5, <1>3, BothShape
<1>7. QED
  BY <1>6 DEF ParamRegions, a, p, q

LEMMA ColourDescriptionShape == Shape(ColourDescription, {}, {}, 16)
<1> DEFINE a == <<"flags">>
           b == <<"range", "colour_primaries", "transfer_characteristics", "matrix_coeff">>
           p == Array("primaries_x", 2, 2, 3)
           q == Array("primaries_y", 2, 2, 3)
           c == <<"white_point_x", "white_point_y">>
           d == <<"max_display_luminance", "min_display_luminance",
                  "max_content_light_level", "avg_content_light_level">>
           e == <<"video_format_present_flag", "video_format",
                  "aspect_ratio_info_present_flag", "aspect_ratio_idc",
                  "timing_flag_info_present_flag">>
           f == <<"sar_width", "sar_height">>
           g == <<"num_units_in_tick", "time_scale">>
<1>1. /\ Named(a, {})
      /\ Named(b, {})
      /\ Named(c, {})
      /\ Named(d, {})
      /\ Named(e, {})
      /\ Named(f, {})
      /\ Named(g, {})
  BY DEF Named
<1>2. Shape(p, {"primaries_x"}, {}, 16)
  BY Hidden2Shape DEF p
<1>3. Shape(q, {"primaries_y"}, {}, 16)
  BY Hidden2Shape DEF q
<1> HIDE DEF a, b, p, q, c, d, e, f, g
<1>4. Shape(U32(a), {}, {}, 16)
  BY <1>1, U32Shape
<1>5. Shape(U8(b), {}, {}, 16)
  BY <1>1, U8Shape
<1>6. Shape(U16(c), {}, {}, 16)
  BY <1>1, U16Shape
<1>7. Shape(U32(d), {}, {}, 16)
  BY <1>1, U32Shape
<1>8. Shape(U8(e), {}, {}, 16)
  BY <1>1, U8Shape
<1>9. Shape(U16(f), {}, {}, 16)
  BY <1>1, U16Shape
<1>10. Shape(U32(g), {}, {}, 16)
  BY <1>1, U32Shape
<1>11. Shape(U32(a) \o U8(b), {}, {}, 16)
  BY <1>4, <1>5, BothShape
<1>12. Shape(U32(a) \o U8(b) \o p, {}, {}, 16)
  BY <1>11, <1>2, BothShape
<1>13. Shape(U32(a) \o U8(b) \o p \o q, {}, {}, 16)
  BY <1>12, <1>3, BothShape
<1>14. Shape(U32(a) \o U8(b) \o p \o q \o U16(c), {}, {}, 16)
  BY <1>13, <1>6, BothShape
<1>15. Shape(U32(a) \o U8(b) \o p \o q \o U16(c) \o U32(d), {}, {}, 16)
  BY <1>14, <1>7, BothShape
<1>16. Shape(U32(a) \o U8(b) \o p \o q \o U16(c) \o U32(d) \o U8(e), {}, {}, 16)
  BY <1>15, <1>8, BothShape
<1>17. Shape(U32(a) \o U8(b) \o p \o q \o U16(c) \o U32(d) \o U8(e) \o U16(f),
             {}, {}, 16)
  BY <1>16, <1>9, BothShape
<1>18. Shape(U32(a) \o U8(b) \o p \o q \o U16(c) \o U32(d) \o U8(e) \o U16(f) \o U32(g),
             {}, {}, 16)
  BY <1>17, <1>10, BothShape
<1>19. QED
  BY <1>18 DEF ColourDescription, a, b, p, q, c, d, e, f, g

LEMMA UserDataUnregisteredShape == Shape(UserDataUnregistered, {}, {}, 16)
<1> DEFINE a == <<"flags">>
           p == Array("uuid", 1, 1, 16)
           q == Array("user_data", 1, 1, 256 - 35)
           b == <<"user_data_len">>
           r == Array("reserved", 1, 1, 5)
<1>1. Named(a, {}) /\ Named(b, {})
  BY DEF Named
<1>2. Shape(p, {"uuid"}, {}, 16)
  BY Hidden1Shape DEF p
<1>3. Shape(q, {"user_data"}, {}, 16)
  BY Hidden1Shape DEF q
<1>4. Shape(r, {"reserved"}, {}, 16)
  BY Hidden1Shape DEF r
<1> HIDE DEF a, p, q, b, r
<1>5. Shape(U8(a), {}, {}, 16)
  BY <1>1, U8Shape
<1>6. Shape(U8(b), {}, {}, 16)
  BY <1>1, U8Shape
<1>7. Shape(U8(a) \o p, {}, {}, 16)
  BY <1>5, <1>2, BothShape
<1>8. Shape(U8(a) \o p \o q, {}, {}, 16)
  BY <1>7, <1>3, BothShape
<1>9. Shape(U8(a) \o p \o q \o U8(b), {}, {}, 16)
  BY <1>8, <1>6, BothShape
<1>10. Shape(U8(a) \o p \o q \o U8(b) \o r, {}, {}, 16)
  BY <1>9, <1>4, BothShape
<1>11. QED
  BY <1>10 DEF UserDataUnregistered, a, p, q, b, r

LEMMA FramePackingShape == Shape(FramePacking, {}, {}, 16)
<1> DEFINE a == <<"flags">>
           b == <<"frame_packing_arrangement_type", "content_interpretation_type",
                  "frame0_grid_position_x", "frame0_grid_position_y",
                  "frame1_grid_position_x", "frame1_grid_position_y">>
           p == Array("reserved", 1, 1, 2)
<1>1. Named(a, {}) /\ Named(b, {})
  BY DEF Named
<1>2. Shape(p, {"reserved"}, {}, 16)
  BY Hidden1Shape DEF p
<1> HIDE DEF a, b, p
<1>3. Shape(U32(a), {}, {}, 16)
  BY <1>1, U32Shape
<1>4. Shape(U8(b), {}, {}, 16)
  BY <1>1, U8Shape
<1>5. Shape(U32(a) \o U8(b), {}, {}, 16)
  BY <1>3, <1>4, BothShape
<1>6. Shape(U32(a) \o U8(b) \o p, {}, {}, 16)
  BY <1>5, <1>2, BothShape
<1>7. QED
  BY <1>6 DEF FramePacking, a, b, p

LEMMA ChangeRectanglesShape == Shape(ChangeRectangles, {}, {}, 16)
<1> DEFINE a == <<"n_rectangles">>
           p == Array("reserved", 1, 1, 3)
           q == Array("rectangles", 8, 2, 2)
<1>1. Named(a, {})
  BY DEF Named
<1>2. Shape(p, {"reserved"}, {}, 16)
  BY Hidden1Shape DEF p
<1>3. Shape(q, {"rectangles"}, {}, 16)
  BY Hidden2Shape DEF q
<1> HIDE DEF a, p, q
<1>4. Shape(U8(a), {}, {}, 16)
  BY <1>1, U8Shape
<1>5. Shape(U8(a) \o p, {}, {}, 16)
  BY <1>4, <1>2, BothShape
<1>6. Shape(U8(a) \o p \o q, {}, {}, 16)
  BY <1>5, <1>3, BothShape
<1>7. QED
  BY <1>6 DEF ChangeRectangles, a, p, q

LEMMA ParamQpShape ==
    ASSUME NEW P, P = {"qp"}
    PROVE  Shape(ParamQp, P, P, 16)
<1> DEFINE a == <<"qp">>
<1>1. Named(a, {"qp"})
  BY DEF Named
<1> HIDE DEF a
<1>2. Shape(U32(a), {"qp"}, P, 16)
  BY <1>1, U32Shape
<1>3. QED
  BY <1>2 DEF ParamQp, a

LEMMA DisplaySizeShape ==
    ASSUME NEW P, P = {"display_width", "display_height"}
    PROVE  Shape(DisplaySize, P, P, 16)
<1> DEFINE a == <<"display_width", "display_height">>
<1>1. Named(a, {"display_width", "display_height"})
  BY DEF Named
<1> HIDE DEF a
<1>2. Shape(U16(a), {"display_width", "display_height"}, P, 16)
  BY <1>1, U16Shape
<1>3. QED
  BY <1>2 DEF DisplaySize, a

LEMMA Vp9SegmapShape == Shape(Vp9Segmap, {}, {}, 16)
<1> DEFINE p == Array("qp_delta", 1, 1, 8)
           a == <<"num_segments">>
<1>1. Named(a, {})
  BY DEF Named
<1>2. Shape(p, {"qp_delta"}, {}, 16)
  BY Hidden1Shape DEF p
<1> HIDE DEF p, a
<1>3. Shape(U8(a), {}, {}, 16)
  BY <1>1, U8Shape
<1>4. Shape(p \o U8(a), {}, {}, 16)
  BY <1>2, <1>3, BothShape
<1>5. QED
  BY <1>4 DEF Vp9Segmap, p, a

LEMMA ParamArg ==
    ASSUME NEW P, P = {"arg"}
    PROVE  Shape(ParamData["arg"], P, P, 16)
<1> DEFINE a == <<"arg">>
<1>1. Named(a, {"arg"})
  BY DEF Named
<1> HIDE DEF a
<1>2. Shape(U32(a), {"arg"}, P, 16)
  BY <1>1, U32Shape
<1>3. QED
  BY <1>2 DEF ParamData, a

LEMMA ParamRangeMap ==
    ASSUME NEW P, P = {"luma_map_enabled", "luma_map_value", "chroma_map_enabled",
                    "chroma_map_value"}
    PROVE  Shape(ParamData["range_map"], P, P, 16)
<1> DEFINE a == <<"luma_map_enabled", "luma_map_value", "chroma_map_enabled",
                  "chroma_map_value">>
<1>1. /\ Named(a, {"luma_map_enabled", "luma_map_value", "chroma_map_enabled",
                   "chroma_map_value"})
  BY DEF Named
<1> HIDE DEF a
<1>2. Shape(U8(a),
            {"luma_map_enabled", "luma_map_value", "chroma_map_enabled",
             "chroma_map_value"}, P, 16)
  BY <1>1, U8Shape
<1>3. QED
  BY <1>2 DEF ParamData, a

LEMMA ParamRateControl ==
    ASSUME NEW P, P = {"rate_control_mode", "target_bitrate", "maximum_bitrate"}
    PROVE  Shape(ParamData["rate_control"], P, P, 16)
<1> DEFINE a == <<"rate_control_mode", "target_bitrate", "maximum_bitrate">>
<1>1. Named(a, {"rate_control_mode", "target_bitrate", "maximum_bitrate"})
  BY DEF Named
<1> HIDE DEF a
<1>2. Shape(U32(a), {"rate_control_mode", "target_bitrate", "maximum_bitrate"}, P, 16)
  BY <1>1, U32Shape
<1>3. QED
  BY <1>2 DEF ParamData, a

LEMMA ParamRateControlQpRange ==
    ASSUME NEW P, P = {"qp_min", "qp_max"}
    PROVE  Shape(ParamData["rate_control_qp_range"], P, P, 16)
<1> DEFINE a == <<"qp_min", "qp_max">>
<1>1. Named(a, {"qp_min", "qp_max"})
  BY DEF Named
<1> HIDE DEF a
<1>2. Shape(U32(a), {"qp_min", "qp_max"}, P, 16)
  BY <1>1, U32Shape
<1>3. QED
  BY <1>2 DEF ParamData, a

LEMMA ParamFrameFieldInfo ==
    ASSUME NEW P, P = {"pic_struct", "source_scan_type", "duplicate_flag"}
    PROVE  Shape(ParamData["frame_field_info"], P, P, 16)
<1> DEFINE a == <<"pic_struct", "source_scan_type", "duplicate_flag", "reserved">>
<1>1. Named(a, {"pic_struct", "source_scan_type", "duplicate_flag"})
  BY DEF Named
<1> HIDE DEF a
<1>2. Shape(U8(a), {"pic_struct", "source_scan_type", "duplicate_flag"}, P, 16)
  BY <1>1, U8Shape
<1>3. QED
  BY <1>2 DEF ParamData, a

LEMMA BlockConfigsShape ==
    ASSUME NEW P, P = {"n_cols_minus1", "n_rows_minus1"}
    PROVE  Shape(BlockConfigs, P, P, 16)
<1> DEFINE a == <<"blk_cfg_type">>
           p == Array("reserved", 1, 1, 3)
           b == <<"n_cols_minus1", "n_rows_minus1">>
           q == Array("reserved1", 1, 1, 2)
<1>1. Named(a, {}) /\ Named(b, {"n_cols_minus1", "n_rows_minus1"})
  BY DEF Named
<1>2. Shape(p, {"reserved"}, P, 16)
  BY Hidden1Shape DEF p
<1>3. Shape(q, {"reserved1"}, P, 16)
  BY Hidden1Shape DEF q
<1> HIDE DEF a, p, b, q
<1>4. Shape(U8(a), {}, P, 16)
  BY <1>1, U8Shape
<1>5. Shape(U8(b), {"n_cols_minus1", "n_rows_minus1"}, P, 16)
  BY <1>1, U8Shape
<1>6. Shape(U8(a) \o p, {}, P, 16)
  BY <1>4, <1>2, BothShape
<1>7. Shape(U8(a) \o p \o U8(b), {"n_cols_minus1", "n_rows_minus1"}, P, 16)
  BY <1>6, <1>5, BothShape
<1>8. Shape(U8(a) \o p \o U8(b) \o q, P, P, 16)
  BY <1>7, <1>3, BothShape
<1>9. QED
  BY <1>8 DEF BlockConfigs, a, p, b, q

LEMMA RpcHeadShape ==
    ASSUME NEW P, P = {"size"}
    PROVE  Shape(RpcHead, P, P, 16)
<1> DEFINE a == <<"state", "call_id", "size">>
<1>1. Named(a, {"size"})
  BY DEF Named
<1> HIDE DEF a
<1>2. Shape(U32(a), {"size"}, P, 16)
  BY <1>1, U32Shape
<1>3. QED
  BY <1>2 DEF RpcHead, a

LEMMA RpcMemAlloc ==
    ASSUME NEW P, P = {"size", "max_size", "region", "log2_alignment"}
    PROVE  Shape(RpcData["mem_alloc"], P, P, 16)
<1> DEFINE a == <<"size", "max_size">>
           b == <<"region", "log2_alignment">>
<1>1. Named(a, {"size", "max_size"}) /\ Named(b, {"region", "log2_alignment"})
  BY DEF Named
<1> HIDE DEF a, b
<1>2. Shape(U32(a), {"size", "max_size"}, P, 16)
  BY <1>1, U32Shape
<1>3. Shape(U8(b), {"region", "log2_alignment"}, P, 16)
  BY <1>1, U8Shape
<1>4. Shape(U32(a) \o U8(b), P, P, 16)
  BY <1>2, <1>3, BothShape
<1>5. QED
  BY <1>4 DEF RpcData, a, b

LEMMA RpcMemResize ==
    ASSUME NEW P, P = {"ve_pointer", "new_size"}
    PROVE  Shape(RpcData["mem_resize"], P, P, 16)
<1> DEFINE a == <<"ve_pointer", "new_size">>
<1>1. Named(a, {"ve_pointer", "new_size"})
  BY DEF Named
<1> HIDE DEF a
<1>2. Shape(U32(a), {"ve_pointer", "new_size"}, P, 16)
  BY <1>1, U32Shape
<1>3. QED
  BY <1>2 DEF RpcData, a

LEMMA RpcMemFree ==
    ASSUME NEW P, P = {"ve_pointer"}
    PROVE  Shape(RpcData["mem_free"], P, P, 16)
<1> DEFINE a == <<"ve_pointer">>
<1>1. Named(a, {"ve_pointer"})
  BY DEF Named
<1> HIDE DEF a
<1>2. Shape(U32(a), {"ve_pointer"}, P, 16)
  BY <1>1, U32Shape
<1>3. QED
  BY <1>2 DEF RpcData, a

LEMMA FirmwareHeaderShape ==
    ASSUME NEW P, P = {"protocol_major", "protocol_minor", "info_string", "part_number",
                    "version_string"}
    PROVE  Shape(FirmwareHeader, P, P, 55)
<1> DEFINE a == <<"rasc_jmp">>
           b == <<"protocol_minor", "protocol_major">>
           p == Array("reserved", 1, 1, 2)
           q == Array("info_string", 1, 1, 56)
           r == Array("part_number", 1, 1, 8)
           s == Array("svn_revision", 1, 1, 8)
           t == Array("version_string", 1, 1, 16)
<1>1. Named(a, {}) /\ Named(b, {"protocol_minor", "protocol_major"})
  BY DEF Named
<1>2. Shape(p, {"reserved"}, P, 55)
  BY Hidden1Shape DEF p
<1>3. Shape(q, {"info_string"}, P, 55)
  BY StringShape DEF q
<1>4. Shape(r, {"part_number"}, P, 55)
  BY StringShape DEF r
<1>5. Shape(s, {"svn_revision"}, P, 55)
  BY Hidden1Shape DEF s
<1>6. Shape(t, {"version_string"}, P, 55)
  BY StringShape DEF t
<1> HIDE DEF a, b, p, q, r, s, t
<1>7. Shape(U32(a), {}, P, 55)
  BY <1>1, U32Shape
<1>8. Shape(U8(b), {"protocol_minor", "protocol_major"}, P, 55)
  BY <1>1, U8Shape
<1>9. Shape(U32(a) \o U8(b), {"protocol_minor", "protocol_major"}, P, 55)
  BY <1>7, <1>8, BothShape
<1>10. Shape(U32(a) \o U8(b) \o p, {"protocol_minor", "protocol_major"}, P, 55)
  BY <1>9, <1>2, BothShape
<1>11. Shape(U32(a) \o U8(b) \o p \o q,
             {"protocol_minor", "protocol_major", "info_string"}, P, 55)
  BY <1>10, <1>3, BothShape
<1>12. Shape(U32(a) \o U8(b) \o p \o q \o r,
             {"protocol_minor", "protocol_major", "info_string", "part_number"}, P, 55)
  BY <1>11, <1>4, BothShape
<1>13. Shape(U32(a) \o U8(b) \o p \o q \o r \o s,
             {"protocol_minor", "protocol_major", "info_string", "part_number"}, P, 55)
  BY <1>12, <1>5, BothShape
<1>14. Shape(U32(a) \o U8(b) \o p \o q \o r \o s \o t, P, P, 55)
  BY <1>13, <1>6, BothShape
<1>15. QED
  BY <1>14 DEF FirmwareHeader, a, b, p, q, r, s, t

-----------------------------------------------------------------------------
(* What the pieces of a description come to. *)

Longest(p) == p.text + LabelMax * Len(p.labels) + Sum(p, Widest)
Lengthy(p) == /\ Lengths(p) \subseteq Nat /\ Longest(p) \in Nat
              /\ \A len \in Lengths(p) : len <= Longest(p)
Most(ps)   == SumOf([i \in 1..Len(ps) |-> Longest(ps[i])])

\* The piece prints members that lie in the first bytes, of the union's member mem if of one.
Held(p, mem, bytes) ==
    /\ p.member \in {"none", mem}
    /\ \A i \in DOMAIN p.names :
           LET f == p.s[IndexOf(p.s, p.names[i])]
           IN  p.at + OffsetOf(p.s, f.name) + f.size * f.n <= bytes

\* Pieces of b characters at most, each of which is held.
Told(ps, b, mem, bytes) ==
    /\ ps \in Seq(Members(ps)) /\ b \in Nat /\ Most(ps) \in Nat /\ Most(ps) <= b
    /\ \A i \in 1..Len(ps) : Lengthy(ps[i]) /\ Held(ps[i], mem, bytes)

\* k names, all of them in P.
Prints(names, k, P) ==
    k \in Nat /\ Len(names) = k /\ DOMAIN names = 1..k /\ \A i \in 1..k : names[i] \in P

\* The characters, with l names and k members of w characters at most, and the bytes.
Counted(text, l, k, w, b) ==
    /\ text \in Nat /\ l \in Nat /\ k \in Nat /\ w \in Nat /\ b \in Nat
    /\ text + (25 * l) + (k * w) <= b
Reaches(at, s, bytes) == at \in Nat /\ bytes \in Nat /\ at + SizeOf(s) <= bytes

LEMMA WidthIs ==
    ASSUME NEW f, NEW w \in Nat, Aligned(f), Printable(f, w)
    PROVE  Narrow(f) \in Nat /\ Widest(f) \in Nat /\ Narrow(f) <= Widest(f) /\ Widest(f) <= w
<1> DEFINE z == f.size
           m == f.n
<1>1. z \in {1, 2, 4, 8} /\ m \in Nat \ {0}
  BY DEF Aligned, Printable
<1>2. Widest(f) = IF z = 1 /\ m > 1 THEN m - 1 ELSE m * Digits[z]
  BY DEF Widest
<1>3. Narrow(f) = IF z = 1 /\ m > 1 THEN 0 ELSE m
  BY DEF Narrow
<1>4. Digits[z] \in {3, 6, 11, 16}
  BY <1>1 DEF Digits
<1>5. Widest(f) <= w
  BY DEF Printable
<1> DEFINE d == Digits[z]
<1> HIDE DEF z, m, d
<1>6. m * d \in Nat /\ m <= m * d
  BY <1>1, <1>4 DEF d
<1>7. CASE z = 1 /\ m > 1
  BY <1>1, <1>2, <1>3, <1>5, <1>7
<1>8. CASE ~(z = 1 /\ m > 1)
  BY <1>1, <1>2, <1>3, <1>5, <1>6, <1>8 DEF d
<1>9. QED
  BY <1>7, <1>8

LEMMA OnePiece ==
    ASSUME NEW p, NEW b \in Nat, NEW mem, NEW bytes,
           Lengthy(p), Longest(p) <= b, Held(p, mem, bytes)
    PROVE  Told(<<p>>, b, mem, bytes)
<1> DEFINE ps == <<p>>
           a == Longest(p)
           ns == [i \in 1..Len(ps) |-> Longest(ps[i])]
<1>1. ps \in Seq({p}) /\ Len(ps) = 1 /\ ps[1] = p /\ DOMAIN ps = 1..1
  OBVIOUS
<1> HIDE DEF ps
<1>2. Members(ps) = {p}
  BY <1>1 DEF Members
<1>3. ns = <<a>>
  BY <1>1
<1>4. a \in Nat
  BY DEF Lengthy
<1> HIDE DEF a, ns
<1>5. Most(ps) = a
  BY <1>3, <1>4, SumOne DEF Most, ns
<1>6. QED
  BY <1>1, <1>2, <1>4, <1>5 DEF Told, a, ps

LEMMA PieceTold ==
    ASSUME NEW text, NEW l, NEW k, NEW w, NEW b, Counted(text, l, k, w, b),
           NEW labels, Len(labels) = l, NEW s, NEW P, Shape(s, P, P, w),
           NEW names, Prints(names, k, P), NEW at, NEW bytes, Reaches(at, s, bytes),
           NEW member, NEW mem, member \in {"none", mem}
    PROVE  Told(<<Piece(text, labels, member, s, at, names)>>, b, mem, bytes)
<1>0. /\ text \in Nat /\ l \in Nat /\ w \in Nat /\ b \in Nat
      /\ text + (25 * l) + (k * w) <= b
      /\ at \in Nat /\ bytes \in Nat /\ at + SizeOf(s) <= bytes
  BY DEF Counted, Reaches
<1> DEFINE p == Piece(text, labels, member, s, at, names)
           Of(i) == s[IndexOf(s, names[i])]
           wide == [i \in 1..k |-> Widest(Of(i))]
           thin == [i \in 1..k |-> Narrow(Of(i))]
<1>1. k \in Nat /\ Len(names) = k /\ DOMAIN names = 1..k /\ \A i \in 1..k : names[i] \in P
  BY DEF Prints
<1>2. ASSUME NEW i \in 1..k
      PROVE  Aligned(Of(i)) /\ Printable(Of(i), w) /\ Inside(s, Of(i))
  <2> DEFINE x == names[i]
  <2>1. x \in P
    BY <1>1
  <2> HIDE DEF x
  <2>2. IndexOf(s, x) \in 1..Len(s) /\ s[IndexOf(s, x)].name = x /\ Inside(s, s[IndexOf(s, x)])
    BY <2>1, MemberIs
  <2> DEFINE j == IndexOf(s, x)
  <2> HIDE DEF j
  <2>3. j \in 1..Len(s) /\ s[j].name = x /\ Inside(s, s[j])
    BY <2>2 DEF j
  <2>4. Aligned(s[j]) /\ Printable(s[j], w)
    BY <2>1, <2>3 DEF Shape
  <2>5. QED
    BY <2>3, <2>4 DEF j, x
<1>3. p.text = text /\ p.labels = labels /\ p.member = member /\ p.s = s /\ p.at = at
      /\ p.names = names /\ Len(labels) = l
  BY DEF Piece
<1> HIDE DEF Of
<1>4. ASSUME NEW i \in 1..k
      PROVE  /\ Narrow(Of(i)) \in Nat /\ Widest(Of(i)) \in Nat
             /\ Narrow(Of(i)) <= Widest(Of(i)) /\ Widest(Of(i)) <= w
  BY <1>0, <1>2, WidthIs
<1>5. /\ wide \in Seq(Nat) /\ thin \in Seq(Nat) /\ Len(wide) = k /\ Len(thin) = k
      /\ (\A i \in 1..k : wide[i] <= w) /\ (\A i \in 1..k : thin[i] <= wide[i])
  <2>1. wide \in [1..k -> Nat] /\ thin \in [1..k -> Nat]
    BY <1>4
  <2>2. (\A i \in 1..k : wide[i] <= w) /\ (\A i \in 1..k : thin[i] <= wide[i])
    BY <1>4
  <2> HIDE DEF wide, thin
  <2>3. wide \in Seq(Nat) /\ thin \in Seq(Nat)
    BY <1>1, <2>1, IsASeq
  <2>4. QED
    BY <1>1, <2>1, <2>2, <2>3
<1>6. Sum(p, Widest) = SumOf(wide) /\ Sum(p, Narrow) = SumOf(thin)
  BY <1>1, <1>3 DEF Sum, Of
<1> DEFINE most == SumOf(wide)
           least == SumOf(thin)
           kw == k * w
<1> HIDE DEF wide, thin
<1>7. least \in Nat /\ most \in Nat /\ least <= most
  BY <1>5, SumLess
<1>8. kw \in Nat /\ most <= kw
  <2>1. SumOf(wide) <= Len(wide) * w
    BY <1>0, <1>5, SumAtMost
  <2>2. QED
    BY <1>0, <1>1, <1>5, <2>1
<1> HIDE DEF most, least, kw, p
<1>9. Longest(p) = text + (25 * l) + most
  BY <1>3, <1>6 DEF Longest, LabelMax, most
<1>10. Lengths(p) = {text + (2 * l) + least, text + (25 * l) + most}
  BY <1>3, <1>6 DEF Lengths, LabelMax, LabelMin, most, least
<1>11. Lengthy(p)
  BY <1>0, <1>7, <1>9, <1>10 DEF Lengthy
<1>12. Longest(p) <= b
  <2>1. text + (25 * l) + kw <= b
    BY <1>0 DEF kw
  <2>2. QED
    BY <1>0, <1>7, <1>8, <1>9, <2>1
<1>13. Held(p, mem, bytes)
  <2>1. ASSUME NEW i \in 1..k PROVE at + OffsetOf(s, Of(i).name) + Of(i).size * Of(i).n <= bytes
    <3> DEFINE o == OffsetOf(s, Of(i).name)
               c == Of(i).size * Of(i).n
               size == SizeOf(s)
    <3>1. o \in Nat /\ c \in Nat /\ size \in Nat /\ o + c <= size
      BY <1>2 DEF Inside
    <3>2. at + size <= bytes
      BY <1>0
    <3> HIDE DEF o, c, size
    <3>3. at + o + c <= bytes
      BY <1>0, <3>1, <3>2
    <3>4. QED
      BY <3>3 DEF o, c
  <2>2. QED
    BY <1>1, <1>3, <2>1 DEF Held, Of
<1>14. QED
  BY <1>0, <1>11, <1>12, <1>13, OnePiece DEF p

\* A piece that prints no members.
LEMMA BareTold ==
    ASSUME NEW text, NEW l, NEW b, Counted(text, l, 0, 0, b), NEW labels, Len(labels) = l,
           NEW s, NEW member, NEW mem, member \in {"none", mem}, NEW at, NEW bytes
    PROVE  Told(<<Piece(text, labels, member, s, at, <<>>)>>, b, mem, bytes)
<1>0. text \in Nat /\ l \in Nat /\ b \in Nat /\ text + (25 * l) <= b
  BY DEF Counted
<1> DEFINE p == Piece(text, labels, member, s, at, <<>>)
<1>1. p.text = text /\ p.labels = labels /\ p.member = member /\ p.names = <<>>
      /\ Len(labels) = l
  BY DEF Piece
<1>2. DOMAIN <<>> = {}
  OBVIOUS
<1> HIDE DEF p
<1>3. Sum(p, Widest) = 0 /\ Sum(p, Narrow) = 0
  <2>1. DOMAIN p.names = {}
    BY <1>1, <1>2
  <2>2. /\ [i \in DOMAIN p.names |-> Widest(p.s[IndexOf(p.s, p.names[i])])] = <<>>
        /\ [i \in DOMAIN p.names |-> Narrow(p.s[IndexOf(p.s, p.names[i])])] = <<>>
    BY <2>1
  <2>3. QED
    BY <2>2, SumNone DEF Sum
<1>4. Longest(p) = text + (25 * l) /\ Lengths(p) = {text + (2 * l), text + (25 * l)}
  BY <1>0, <1>1, <1>3 DEF Longest, Lengths, LabelMax, LabelMin
<1>5. Lengthy(p) /\ Longest(p) <= b
  BY <1>0, <1>4 DEF Lengthy
<1>6. Held(p, mem, bytes)
  BY <1>1, <1>2 DEF Held
<1>7. QED
  BY <1>0, <1>5, <1>6, OnePiece DEF p

LEMMA NoneTold == ASSUME NEW mem, NEW bytes, NEW b \in Nat PROVE Told(<<>>, b, mem, bytes)
<1> DEFINE ps == <<>>
<1>1. Len(ps) = 0 /\ ps \in Seq(Members(ps)) /\ [i \in 1..Len(ps) |-> Longest(ps[i])] = <<>>
  OBVIOUS
<1>2. Most(ps) = 0
  BY <1>1, SumNone DEF Most
<1> HIDE DEF ps
<1>3. Told(ps, b, mem, bytes)
  BY <1>1, <1>2 DEF Told
<1>4. QED
  BY <1>3 DEF ps

LEMMA TellsLess ==
    ASSUME NEW ps, NEW b, NEW c \in Nat, NEW mem, NEW bytes, Told(ps, b, mem, bytes), b <= c
    PROVE  Told(ps, c, mem, bytes)
BY DEF Told

LEMMA BothTold ==
    ASSUME NEW s, NEW t, NEW b, NEW c, NEW mem, NEW bytes,
           Told(s, b, mem, bytes), Told(t, c, mem, bytes)
    PROVE  Told(s \o t, b + c, mem, bytes) /\ Most(s \o t) = Most(s) + Most(t)
<1> DEFINE j == Len(s)
           k == Len(t)
           B == Members(s) \cup Members(t)
           u == s \o t
           ns == [i \in 1..j |-> Longest(s[i])]
           nt == [i \in 1..k |-> Longest(t[i])]
           nu == [i \in 1..Len(u) |-> Longest(u[i])]
<1>1. s \in Seq(B) /\ t \in Seq(B) /\ j \in Nat /\ k \in Nat
  <2>1. s \in Seq(Members(s)) /\ t \in Seq(Members(t))
    BY DEF Told
  <2> HIDE DEF u
  <2>2. QED
    BY <2>1
<1>2. /\ (\A i \in 1..j : Lengthy(s[i]) /\ Held(s[i], mem, bytes))
      /\ (\A i \in 1..k : Lengthy(t[i]) /\ Held(t[i], mem, bytes))
  BY DEF Told
<1> HIDE DEF B
<1>3. u \in Seq(B) /\ Len(u) = j + k
      /\ \A i \in 1..(j + k) : u[i] = IF i <= j THEN s[i] ELSE t[i - j]
  BY <1>1, ConcatProperties
<1> HIDE DEF j, k, u
<1>4. \A i \in 1..(j + k) : (i \in 1..j /\ u[i] = s[i]) \/ (i - j \in 1..k /\ u[i] = t[i - j])
  <2>1. \A i \in 1..(j + k) : i <= j => i \in 1..j
    BY <1>1
  <2>2. \A i \in 1..(j + k) : ~(i <= j) => i - j \in 1..k
    BY <1>1
  <2>3. QED
    BY <1>3, <2>1, <2>2
<1>5. \A i \in 1..(j + k) : Lengthy(u[i]) /\ Held(u[i], mem, bytes)
  BY <1>2, <1>4
<1>6. /\ ns \in Seq(Nat) /\ nt \in Seq(Nat)
      /\ Len(ns) = j /\ Len(nt) = k
  <2>1. ns \in [1..j -> Nat] /\ nt \in [1..k -> Nat]
    BY <1>2 DEF Lengthy
  <2> HIDE DEF ns, nt
  <2>2. QED
    BY <1>1, <2>1, IsASeq
<1>7. nu = ns \o nt
  <2> DEFINE v == ns \o nt
  <2>1. v \in Seq(Nat) /\ Len(v) = j + k
        /\ \A i \in 1..(j + k) : v[i] = IF i <= j THEN ns[i] ELSE nt[i - j]
    <3> HIDE DEF ns, nt
    <3>1. QED
      BY <1>6, ConcatProperties
  <2> HIDE DEF v
  <2>2. ASSUME NEW i \in 1..(j + k) PROVE nu[i] = v[i]
    <3>1. nu[i] = Longest(u[i])
      BY <1>3
    <3>2. CASE i \in 1..j
      <4>1. u[i] = s[i] /\ ns[i] = Longest(s[i]) /\ i <= j
        BY <1>1, <1>3, <3>2
      <4>2. QED
        BY <2>1, <3>1, <4>1
    <3>3. CASE i - j \in 1..k
      <4>1. ~(i <= j)
        BY <1>1, <3>3
      <4>2. u[i] = t[i - j] /\ nt[i - j] = Longest(t[i - j])
        BY <1>3, <3>3, <4>1
      <4>3. QED
        BY <2>1, <3>1, <4>1, <4>2
    <3>4. QED
      BY <1>4, <3>2, <3>3
  <2>3. nu = [i \in 1..(j + k) |-> nu[i]] /\ v = [i \in 1..(j + k) |-> v[i]]
    BY <1>3, <2>1
  <2>4. nu = v
    BY <2>2, <2>3
  <2>5. QED
    BY <2>4 DEF v
<1> HIDE DEF ns, nt, nu
<1>8. SumOf(nu) = SumOf(ns) + SumOf(nt)
  BY <1>6, <1>7, SumBoth
<1>9. Most(u) = Most(s) + Most(t)
  BY <1>8 DEF Most, nu, ns, nt, j, k
<1>10. /\ Most(s) \in Nat /\ Most(t) \in Nat /\ b \in Nat /\ c \in Nat
       /\ Most(s) <= b /\ Most(t) <= c
  BY DEF Told
<1>11. u \in Seq(Members(u))
  <2>1. u = [i \in 1..(j + k) |-> u[i]] /\ j + k \in Nat
    BY <1>1, <1>3
  <2>2. QED
    BY <2>1, OnNumbers
<1>12. Told(u, b + c, mem, bytes)
  BY <1>3, <1>5, <1>9, <1>10, <1>11 DEF Told
<1>13. QED
  BY <1>9, <1>12 DEF u

\* Rows of pieces of the same length.
LEMMA RowsTold ==
    ASSUME NEW k \in Nat, NEW b \in Nat, NEW R, NEW mem, NEW bytes,
           R = [i \in 1..k |-> R[i]], \A i \in 1..k : Told(<<R[i]>>, b, mem, bytes)
    PROVE  Told(R, k * b, mem, bytes)
<1>1. R \in Seq(Members(R)) /\ Len(R) = k
  BY OnNumbers
<1>2. ASSUME NEW i \in 1..k
      PROVE  /\ Lengthy(R[i]) /\ Held(R[i], mem, bytes)
             /\ Longest(R[i]) \in Nat /\ Longest(R[i]) <= b
  <2> DEFINE p == R[i]
             ps == <<p>>
  <2>1. Len(ps) = 1 /\ ps[1] = p /\ 1 \in 1..1
    OBVIOUS
  <2>2. Told(ps, b, mem, bytes)
    OBVIOUS
  <2> HIDE DEF ps, p
  <2>3. Lengthy(p) /\ Held(p, mem, bytes) /\ Most(ps) <= b
    BY <2>1, <2>2 DEF Told
  <2>4. [j \in 1..Len(ps) |-> Longest(ps[j])] = <<Longest(p)>>
    BY <2>1
  <2>5. Longest(p) \in Nat
    BY <2>3 DEF Lengthy
  <2>6. Most(ps) = Longest(p)
    BY <2>4, <2>5, SumOne DEF Most
  <2>7. QED
    BY <2>3, <2>5, <2>6 DEF p
<1> DEFINE ns == [i \in 1..k |-> Longest(R[i])]
<1>3. ns \in [1..k -> Nat] /\ \A i \in 1..k : ns[i] <= b
  BY <1>2
<1> HIDE DEF ns
<1>4. ns \in Seq(Nat) /\ Len(ns) = k
  BY <1>3, IsASeq
<1>5. SumOf(ns) \in Nat /\ SumOf(ns) <= k * b
  <2>1. SumOf(ns) \in Nat /\ SumOf(ns) <= Len(ns) * b
    BY <1>3, <1>4, SumAtMost
  <2>2. QED
    BY <1>4, <2>1
<1>6. Most(R) = SumOf(ns)
  BY <1>1 DEF Most, ns
<1>7. k * b \in Nat
  OBVIOUS
<1>8. QED
  BY <1>1, <1>2, <1>5, <1>6, <1>7 DEF Told

-----------------------------------------------------------------------------
(* The messages. *)

LEMMA HeadTold ==
    ASSUME NEW text, NEW l, NEW k, NEW b, Counted(text, l, k, 16, b),
           NEW labels, Len(labels) = l, NEW code, NEW P, Shape(HeadOf(code), P, P, 16),
           NEW names, Prints(names, k, P),
           NEW mem, NEW bytes \in Nat, SizeOf(HeadOf(code)) <= bytes
    PROVE  Told(HeadPiece(code, text, labels, names), b, mem, bytes)
<1> DEFINE s == HeadOf(code)
           ps == <<Piece(text, labels, "none", s, 0, names)>>
<1>1. SizeOf(s) \in Nat
  BY SizeIs
<1> HIDE DEF s
<1>2. Reaches(0, s, bytes)
  BY <1>1 DEF s, Reaches
<1>3. Shape(s, P, P, 16)
  BY DEF s
<1>4. Told(ps, b, mem, bytes)
  BY <1>2, <1>3, PieceTold
<1>5. QED
  BY <1>4 DEF HeadPiece, s

LEMMA InUnionTold ==
    ASSUME NEW text, NEW k, NEW w, NEW b, Counted(text, 0, k, w, b),
           NEW code, NEW member, NEW P, Shape(Data[code][member], P, P, w),
           NEW names, Prints(names, k, P), SizeOf(HeadOf(code)) \in Nat
    PROVE  Told(InUnion(code, member, text, names), b, member,
                SizeOf(HeadOf(code)) + SizeOf(Data[code][member]))
<1> DEFINE s == Data[code][member]
           at == SizeOf(HeadOf(code))
           labels == <<>>
           ps == <<Piece(text, labels, member, s, at, names)>>
           bytes == at + SizeOf(s)
<1>1. SizeOf(s) \in Nat
  BY SizeIs
<1>2. Len(labels) = 0
  OBVIOUS
<1>3. Shape(s, P, P, w) /\ at \in Nat
  OBVIOUS
<1> HIDE DEF s, at, labels
<1>4. Reaches(at, s, bytes)
  BY <1>1, <1>3 DEF Reaches
<1> HIDE DEF bytes
<1>5. Told(ps, b, member, bytes)
  BY <1>2, <1>3, <1>4, PieceTold
<1>6. QED
  BY <1>5 DEF InUnion, s, at, labels, bytes

\* Every member of a union has a size.
LEMMA OptionSizes == \A x \in DOMAIN OptionData : SizeOf(OptionData[x]) \in Nat
<1>1. DOMAIN OptionData = {"arg", "profile_level", "motion_vector_search_range",
                           "huffman_table", "quant_table", "tiles", "bitdepth",
                           "lambda_scale", "downscaled_frame", "dsl_pos"}
  BY DEF OptionData
<1>2. /\ SizeOf(OptionData["arg"]) \in Nat /\ SizeOf(OptionData["profile_level"]) \in Nat
      /\ SizeOf(OptionData["motion_vector_search_range"]) \in Nat
      /\ SizeOf(OptionData["huffman_table"]) \in Nat
      /\ SizeOf(OptionData["quant_table"]) \in Nat /\ SizeOf(OptionData["tiles"]) \in Nat
      /\ SizeOf(OptionData["bitdepth"]) \in Nat /\ SizeOf(OptionData["lambda_scale"]) \in Nat
      /\ SizeOf(OptionData["downscaled_frame"]) \in Nat /\ SizeOf(OptionData["dsl_pos"]) \in Nat
  BY OptionArg, OptionProfileLevel, OptionMotionVectorSearchRange, OptionHuffmanTable,
     OptionQuantTable, OptionTiles, OptionBitdepth, OptionLambdaScale,
     OptionDownscaledFrame, OptionDslPos, SizeIs
<1>3. QED
  BY <1>1, <1>2

LEMMA OptionMembers ==
    /\ \A o \in Options : OptionMember(o) \in DOMAIN OptionData
    /\ OptionMember("PROFILE_LEVEL") = "profile_level" /\ OptionMember("TILES") = "tiles"
    /\ OptionMember("HUFFMAN_TABLE") = "huffman_table"
    /\ OptionMember("QUANT_TABLE") = "quant_table"
    /\ OptionMember("MV_SEARCH_RANGE") = "motion_vector_search_range"
    /\ OptionMember("ENC_STREAM_BITDEPTH") = "bitdepth"
    /\ OptionMember("DEC_DOWNSCALE") = "downscaled_frame"
    /\ OptionMember("NALU_FORMAT") = "arg"
BY DEF Options, OptionMember, StructOption, OptionData

LEMMA OptionTold ==
    ASSUME NEW o \in Options
    PROVE  Told(PrintedOption(o), 100, OptionMember(o),
                SizeOf(HeadOf("SET_OPTION")) + SizeOf(OptionData[OptionMember(o)]))
<1>1. Data["SET_OPTION"] = OptionData /\ SizeOf(HeadOf("SET_OPTION")) \in Nat
  <2>1. HeadOf("SET_OPTION") = U32(<<"index">>)
    BY DEF HeadOf, Structs
  <2>2. QED
    BY <2>1, OptionHeadShape, SizeIs DEF Data
<1>2. \/ PrintedOption(o) = <<>>
      \/ /\ OptionMember(o) = "arg"
         /\ PrintedOption(o) = InUnion("SET_OPTION", "arg", 11, <<"arg", "arg">>)
      \/ o \in {"PROFILE_LEVEL", "TILES", "HUFFMAN_TABLE", "QUANT_TABLE", "MV_SEARCH_RANGE",
               "ENC_STREAM_BITDEPTH", "DEC_DOWNSCALE", "NALU_FORMAT"}
  BY DEF PrintedOption, OptionMember, StructOption
<1>3. CASE PrintedOption(o) = <<>>
  BY <1>3, NoneTold
<1>4. CASE /\ OptionMember(o) = "arg"
            /\ PrintedOption(o) = InUnion("SET_OPTION", "arg", 11, <<"arg", "arg">>)
  <2> DEFINE t == <<"arg", "arg">>
             P == {"arg"}
  <2>1. Prints(t, 2, P)
    BY DEF Prints
  <2>2. Shape(Data["SET_OPTION"]["arg"], P, P, 16)
    BY <1>1, OptionArg
  <2>3. OptionMember(o) = "arg"
        /\ PrintedOption(o) = InUnion("SET_OPTION", "arg", 11, t)
    BY <1>4
  <2> HIDE DEF t, P
  <2>4. Counted(11, 0, 2, 16, 100)
    BY DEF Counted
  <2>5. QED
    BY <1>1, <2>1, <2>2, <2>3, <2>4, InUnionTold
<1>5. CASE o = "PROFILE_LEVEL"
  <2> DEFINE t == <<"profile", "level">>
             P == {"profile", "level"}
  <2>1. Prints(t, 2, P)
    BY DEF Prints
  <2>2. Shape(Data["SET_OPTION"]["profile_level"], P, P, 16)
    BY <1>1, OptionProfileLevel
  <2>3. OptionMember(o) = "profile_level"
        /\ PrintedOption(o) = InUnion("SET_OPTION", "profile_level", 34, t)
    BY <1>5 DEF PrintedOption, OptionMember, StructOption
  <2> HIDE DEF t, P
  <2>4. Counted(34, 0, 2, 16, 100)
    BY DEF Counted
  <2>5. QED
    BY <1>1, <2>1, <2>2, <2>3, <2>4, InUnionTold
<1>6. CASE o = "TILES"
  <2> DEFINE t == <<"tile_rows", "tile_cols">>
             P == {"tile_rows", "tile_cols"}
  <2>1. Prints(t, 2, P)
    BY DEF Prints
  <2>2. Shape(Data["SET_OPTION"]["tiles"], P, P, 16)
    BY <1>1, OptionTiles
  <2>3. OptionMember(o) = "tiles"
        /\ PrintedOption(o) = InUnion("SET_OPTION", "tiles", 22, t)
    BY <1>6 DEF PrintedOption, OptionMember, StructOption
  <2> HIDE DEF t, P
  <2>4. Counted(22, 0, 2, 16, 100)
    BY DEF Counted
  <2>5. QED
    BY <1>1, <2>1, <2>2, <2>3, <2>4, InUnionTold
<1>7. CASE o = "HUFFMAN_TABLE"
  <2> DEFINE t == <<"type">>
             P == {"type"}
  <2>1. Prints(t, 1, P)
    BY DEF Prints
  <2>2. Shape(Data["SET_OPTION"]["huffman_table"], P, P, 16)
    BY <1>1, OptionHuffmanTable
  <2>3. OptionMember(o) = "huffman_table"
        /\ PrintedOption(o) = InUnion("SET_OPTION", "huffman_table", 23, t)
    BY <1>7 DEF PrintedOption, OptionMember, StructOption
  <2> HIDE DEF t, P
  <2>4. Counted(23, 0, 1, 16, 100)
    BY DEF Counted
  <2>5. QED
    BY <1>1, <2>1, <2>2, <2>3, <2>4, InUnionTold
<1>8. CASE o = "QUANT_TABLE"
  <2> DEFINE t == <<"type">>
             P == {"type"}
  <2>1. Prints(t, 1, P)
    BY DEF Prints
  <2>2. Shape(Data["SET_OPTION"]["quant_table"], P, P, 16)
    BY <1>1, OptionQuantTable
  <2>3. OptionMember(o) = "quant_table"
        /\ PrintedOption(o) = InUnion("SET_OPTION", "quant_table", 21, t)
    BY <1>8 DEF PrintedOption, OptionMember, StructOption
  <2> HIDE DEF t, P
  <2>4. Counted(21, 0, 1, 16, 100)
    BY DEF Counted
  <2>5. QED
    BY <1>1, <2>1, <2>2, <2>3, <2>4, InUnionTold
<1>9. CASE o = "MV_SEARCH_RANGE"
  <2> DEFINE t == <<"mv_search_range_x", "mv_search_range_y">>
             P == {"mv_search_range_x", "mv_search_range_y"}
  <2>1. Prints(t, 2, P)
    BY DEF Prints
  <2>2. Shape(Data["SET_OPTION"]["motion_vector_search_range"], P, P, 16)
    BY <1>1, OptionMotionVectorSearchRange
  <2>3. OptionMember(o) = "motion_vector_search_range"
        /\ PrintedOption(o) = InUnion("SET_OPTION", "motion_vector_search_range", 24, t)
    BY <1>9 DEF PrintedOption, OptionMember, StructOption
  <2> HIDE DEF t, P
  <2>4. Counted(24, 0, 2, 16, 100)
    BY DEF Counted
  <2>5. QED
    BY <1>1, <2>1, <2>2, <2>3, <2>4, InUnionTold
<1>10. CASE o = "ENC_STREAM_BITDEPTH"
  <2> DEFINE t == <<"luma_bitdepth", "chroma_bitdepth">>
             P == {"luma_bitdepth", "chroma_bitdepth"}
  <2>1. Prints(t, 2, P)
    BY DEF Prints
  <2>2. Shape(Data["SET_OPTION"]["bitdepth"], P, P, 16)
    BY <1>1, OptionBitdepth
  <2>3. OptionMember(o) = "bitdepth"
        /\ PrintedOption(o) = InUnion("SET_OPTION", "bitdepth", 27, t)
    BY <1>10 DEF PrintedOption, OptionMember, StructOption
  <2> HIDE DEF t, P
  <2>4. Counted(27, 0, 2, 16, 100)
    BY DEF Counted
  <2>5. QED
    BY <1>1, <2>1, <2>2, <2>3, <2>4, InUnionTold
<1>11. CASE o = "DEC_DOWNSCALE"
  <2> DEFINE t == <<"width", "height">>
             P == {"width", "height"}
  <2>1. Prints(t, 2, P)
    BY DEF Prints
  <2>2. Shape(Data["SET_OPTION"]["downscaled_frame"], P, P, 16)
    BY <1>1, OptionDownscaledFrame
  <2>3. OptionMember(o) = "downscaled_frame"
        /\ PrintedOption(o) = InUnion("SET_OPTION", "downscaled_frame", 29, t)
    BY <1>11 DEF PrintedOption, OptionMember, StructOption
  <2> HIDE DEF t, P
  <2>4. Counted(29, 0, 2, 16, 100)
    BY DEF Counted
  <2>5. QED
    BY <1>1, <2>1, <2>2, <2>3, <2>4, InUnionTold
<1>12. CASE o = "NALU_FORMAT"
  <2> DEFINE t == <<"arg">>
             P == {"arg"}
             labels == <<"nalu">>
             s == OptionData["arg"]
             at == SizeOf(HeadOf("SET_OPTION"))
             bytes == at + SizeOf(s)
  <2>1. Prints(t, 1, P)
    BY DEF Prints
  <2>2. Len(labels) = 1
    OBVIOUS
  <2>3. Shape(s, P, P, 16)
    BY OptionArg
  <2>4. OptionMember(o) = "arg"
        /\ PrintedOption(o) = <<Piece(12, labels, "arg", s, at, t)>>
    BY <1>12 DEF PrintedOption, OptionMember, StructOption
  <2>5. SizeOf(s) \in Nat /\ at \in Nat
    BY <1>1, <2>3, SizeIs
  <2> HIDE DEF t, P, labels, s, at
  <2>6. Reaches(at, s, bytes)
    BY <2>5 DEF Reaches
  <2> HIDE DEF bytes
  <2>7. Counted(12, Len(labels), 1, 16, 100)
    BY <2>2 DEF Counted
  <2>8. Told(<<Piece(12, labels, "arg", s, at, t)>>, 100, "arg", bytes)
    BY <2>1, <2>3, <2>6, <2>7, PieceTold
  <2>9. QED
    BY <2>4, <2>8 DEF bytes, s, at
<1>13. QED
  BY <1>2, <1>3, <1>4, <1>5, <1>6, <1>7, <1>8, <1>9, <1>10, <1>11, <1>12

LEMMA EventTold ==
    ASSUME NEW e \in DOMAIN EventMember
    PROVE  Told(PrintedEvent(e), 442, EventMember[e],
                SizeOf(HeadOf("EVENT")) + SizeOf(EventData[EventMember[e]]))
<1>1. Data["EVENT"] = EventData /\ SizeOf(HeadOf("EVENT")) \in Nat
  <2>1. HeadOf("EVENT") = U32(<<"event_code">>)
    BY DEF HeadOf, Structs
  <2>2. QED
    BY <2>1, EventHeadShape, SizeIs DEF Data
<1>2. \/ PrintedEvent(e) = <<>>
      \/ e \in {"PROCESSED", "REF_FRAME"}
  BY DEF PrintedEvent, EventMember
<1>3. CASE PrintedEvent(e) = <<>>
  BY <1>3, NoneTold
<1>4. CASE e = "PROCESSED"
  <2> DEFINE t == <<"pic_format", "parse_start_time", "parse_end_time", "parse_idle_time",
                    "pipe_start_time", "pipe_end_time", "pipe_idle_time", "parser_coreid",
                    "pipe_coreid", "bitstream_bits", "intermediate_buffer_size",
                    "total_memory_allocated", "bus_read_bytes", "bus_write_bytes",
                    "afbc_bytes">>
             P == {"pic_format", "parse_start_time", "parse_end_time", "parse_idle_time",
                   "pipe_start_time", "pipe_end_time", "pipe_idle_time", "parser_coreid",
                   "pipe_coreid", "bitstream_bits", "intermediate_buffer_size",
                   "total_memory_allocated", "bus_read_bytes", "bus_write_bytes",
                   "afbc_bytes"}
  <2>1. Prints(t, 15, P)
    BY DEF Prints
  <2>2. Shape(Data["EVENT"]["event_processed"], P, P, 11)
    BY <1>1, EventProcessedShape DEF EventData
  <2>3. EventMember[e] = "event_processed"
        /\ PrintedEvent(e) = InUnion("EVENT", "event_processed", 277, t)
    BY <1>4 DEF PrintedEvent, EventMember
  <2> HIDE DEF t, P
  <2>4. Counted(277, 0, 15, 11, 442)
    BY DEF Counted
  <2>5. QED
    BY <1>1, <2>1, <2>2, <2>3, <2>4, InUnionTold
<1>5. CASE e = "REF_FRAME"
  <2> DEFINE t == <<"ref_addr", "ref_width", "ref_height", "ref_mb_width", "ref_mb_height",
                    "ref_left_crop", "ref_top_crop", "ref_frame_size", "ref_display_order",
                    "bit_width">>
             P == {"ref_addr", "ref_width", "ref_height", "ref_mb_width", "ref_mb_height",
                   "ref_left_crop", "ref_top_crop", "ref_frame_size", "ref_display_order",
                   "bit_width"}
  <2>1. Prints(t, 10, P)
    BY DEF Prints
  <2>2. Shape(Data["EVENT"]["event_ref_frame"], P, P, 16)
    BY <1>1, EventRefFrameShape DEF EventData
  <2>3. EventMember[e] = "event_ref_frame"
        /\ PrintedEvent(e) = InUnion("EVENT", "event_ref_frame", 125, t)
    BY <1>5 DEF PrintedEvent, EventMember
  <2> HIDE DEF t, P
  <2>4. Counted(125, 0, 10, 16, 442)
    BY DEF Counted
  <2>5. QED
    BY <1>1, <2>1, <2>2, <2>3, <2>4, InUnionTold
<1>6. QED
  BY <1>2, <1>3, <1>4, <1>5

LEMMA ParamTold ==
    ASSUME NEW x \in DOMAIN ParamMember, x # "REGIONS", NEW count, NEW bytes,
           ParamMember[x] # "none" =>
               bytes = SizeOf(HeadOf("PARAM")) + SizeOf(ParamData[ParamMember[x]])
    PROVE  Told(PrintedParam(x, count), 136, ParamMember[x], bytes)
<1>1. Data["PARAM"] = ParamData /\ SizeOf(HeadOf("PARAM")) \in Nat
  <2>1. HeadOf("PARAM") = U32(<<"type">>)
    BY DEF HeadOf, Structs
  <2>2. QED
    BY <2>1, ParamHeadShape, SizeIs DEF Data
<1>2. \/ PrintedParam(x, count) = <<>>
      \/ x \in {"QP", "QP_I", "QP_P", "QP_B", "DISPLAY_SIZE", "RANGE_MAP", "FRAME_RATE",
               "RATE_CONTROL", "RATE_CONTROL_QP_RANGE", "COLOUR_DESCRIPTION",
               "FRAME_PACKING", "DPB_HELD_FRAMES", "CHANGE_RECTANGLES",
               "RATE_CONTROL_HRD_BUF_SIZE", "SEI_USER_DATA_UNREGISTERED",
               "FRAME_FIELD_INFO", "GOP_RESET"}
  BY DEF PrintedParam, ParamMember
<1>3. CASE PrintedParam(x, count) = <<>>
  BY <1>3, NoneTold
<1>4. CASE x = "QP"
  <2> DEFINE t == <<"qp">>
             P == {"qp"}
  <2>1. Prints(t, 1, P)
    BY DEF Prints
  <2>2. Shape(Data["PARAM"]["qp"], P, P, 16)
    BY <1>1, ParamQpShape DEF ParamData
  <2>3. ParamMember[x] = "qp"
        /\ PrintedParam(x, count) = InUnion("PARAM", "qp", 5, t)
    BY <1>4 DEF PrintedParam, ParamMember
  <2> HIDE DEF t, P
  <2>4. Counted(5, 0, 1, 16, 136)
    BY DEF Counted
  <2>5. QED
    BY <1>1, <2>1, <2>2, <2>3, <2>4, InUnionTold
<1>5. CASE x \in {"QP_I", "QP_P", "QP_B"}
  <2> DEFINE t == <<"qp">>
             P == {"qp"}
  <2>1. Prints(t, 1, P)
    BY DEF Prints
  <2>2. Shape(Data["PARAM"]["qp"], P, P, 16)
    BY <1>1, ParamQpShape DEF ParamData
  <2>3. ParamMember[x] = "qp"
        /\ PrintedParam(x, count) = InUnion("PARAM", "qp", 7, t)
    BY <1>5 DEF PrintedParam, ParamMember
  <2> HIDE DEF t, P
  <2>4. Counted(7, 0, 1, 16, 136)
    BY DEF Counted
  <2>5. QED
    BY <1>1, <2>1, <2>2, <2>3, <2>4, InUnionTold
<1>6. CASE x = "DISPLAY_SIZE"
  <2> DEFINE t == <<"display_width", "display_height">>
             P == {"display_width", "display_height"}
  <2>1. Prints(t, 2, P)
    BY DEF Prints
  <2>2. Shape(Data["PARAM"]["display_size"], P, P, 16)
    BY <1>1, DisplaySizeShape DEF ParamData
  <2>3. ParamMember[x] = "display_size"
        /\ PrintedParam(x, count) = InUnion("PARAM", "display_size", 32, t)
    BY <1>6 DEF PrintedParam, ParamMember
  <2> HIDE DEF t, P
  <2>4. Counted(32, 0, 2, 16, 136)
    BY DEF Counted
  <2>5. QED
    BY <1>1, <2>1, <2>2, <2>3, <2>4, InUnionTold
<1>7. CASE x = "RANGE_MAP"
  <2> DEFINE t == <<"luma_map_enabled", "luma_map_value", "chroma_map_enabled",
                    "chroma_map_value">>
             P == {"luma_map_enabled", "luma_map_value", "chroma_map_enabled",
                   "chroma_map_value"}
  <2>1. Prints(t, 4, P)
    BY DEF Prints
  <2>2. Shape(Data["PARAM"]["range_map"], P, P, 16)
    BY <1>1, ParamRangeMap
  <2>3. ParamMember[x] = "range_map"
        /\ PrintedParam(x, count) = InUnion("PARAM", "range_map", 72, t)
    BY <1>7 DEF PrintedParam, ParamMember
  <2> HIDE DEF t, P
  <2>4. Counted(72, 0, 4, 16, 136)
    BY DEF Counted
  <2>5. QED
    BY <1>1, <2>1, <2>2, <2>3, <2>4, InUnionTold
<1>8. CASE x = "FRAME_RATE"
  <2> DEFINE t == <<"arg", "arg">>
             P == {"arg"}
  <2>1. Prints(t, 2, P)
    BY DEF Prints
  <2>2. Shape(Data["PARAM"]["arg"], P, P, 16)
    BY <1>1, ParamArg
  <2>3. ParamMember[x] = "arg"
        /\ PrintedParam(x, count) = InUnion("PARAM", "arg", 16, t)
    BY <1>8 DEF PrintedParam, ParamMember
  <2> HIDE DEF t, P
  <2>4. Counted(16, 0, 2, 16, 136)
    BY DEF Counted
  <2>5. QED
    BY <1>1, <2>1, <2>2, <2>3, <2>4, InUnionTold
<1>9. CASE x = "RATE_CONTROL"
  <2> DEFINE t == <<"rate_control_mode", "target_bitrate", "maximum_bitrate">>
             P == {"rate_control_mode", "target_bitrate", "maximum_bitrate"}
  <2>1. Prints(t, 3, P)
    BY DEF Prints
  <2>2. Shape(Data["PARAM"]["rate_control"], P, P, 16)
    BY <1>1, ParamRateControl
  <2>3. ParamMember[x] = "rate_control"
        /\ PrintedParam(x, count) = InUnion("PARAM", "rate_control", 53, t)
    BY <1>9 DEF PrintedParam, ParamMember
  <2> HIDE DEF t, P
  <2>4. Counted(53, 0, 3, 16, 136)
    BY DEF Counted
  <2>5. QED
    BY <1>1, <2>1, <2>2, <2>3, <2>4, InUnionTold
<1>10. CASE x = "RATE_CONTROL_QP_RANGE"
  <2> DEFINE t == <<"qp_min", "qp_max">>
             P == {"qp_min", "qp_max"}
  <2>1. Prints(t, 2, P)
    BY DEF Prints
  <2>2. Shape(Data["PARAM"]["rate_control_qp_range"], P, P, 16)
    BY <1>1, ParamRateControlQpRange
  <2>3. ParamMember[x] = "rate_control_qp_range"
        /\ PrintedParam(x, count) = InUnion("PARAM", "rate_control_qp_range", 42, t)
    BY <1>10 DEF PrintedParam, ParamMember
  <2> HIDE DEF t, P
  <2>4. Counted(42, 0, 2, 16, 136)
    BY DEF Counted
  <2>5. QED
    BY <1>1, <2>1, <2>2, <2>3, <2>4, InUnionTold
<1>11. CASE x = "COLOUR_DESCRIPTION"
  <2> DEFINE t == <<>>
             P == {}
  <2>1. Prints(t, 0, P)
    BY DEF Prints
  <2>2. Shape(Data["PARAM"]["colour_description"], P, P, 16)
    BY <1>1, ColourDescriptionShape DEF ParamData
  <2>3. ParamMember[x] = "colour_description"
        /\ PrintedParam(x, count) = InUnion("PARAM", "colour_description", 19, t)
    BY <1>11 DEF PrintedParam, ParamMember
  <2> HIDE DEF t, P
  <2>4. Counted(19, 0, 0, 16, 136)
    BY DEF Counted
  <2>5. QED
    BY <1>1, <2>1, <2>2, <2>3, <2>4, InUnionTold
<1>12. CASE x = "FRAME_PACKING"
  <2> DEFINE t == <<>>
             P == {}
  <2>1. Prints(t, 0, P)
    BY DEF Prints
  <2>2. Shape(Data["PARAM"]["frame_packing"], P, P, 16)
    BY <1>1, FramePackingShape DEF ParamData
  <2>3. ParamMember[x] = "frame_packing"
        /\ PrintedParam(x, count) = InUnion("PARAM", "frame_packing", 15, t)
    BY <1>12 DEF PrintedParam, ParamMember
  <2> HIDE DEF t, P
  <2>4. Counted(15, 0, 0, 16, 136)
    BY DEF Counted
  <2>5. QED
    BY <1>1, <2>1, <2>2, <2>3, <2>4, InUnionTold
<1>13. CASE x = "DPB_HELD_FRAMES"
  <2> DEFINE t == <<"arg">>
             P == {"arg"}
  <2>1. Prints(t, 1, P)
    BY DEF Prints
  <2>2. Shape(Data["PARAM"]["arg"], P, P, 16)
    BY <1>1, ParamArg
  <2>3. ParamMember[x] = "arg"
        /\ PrintedParam(x, count) = InUnion("PARAM", "arg", 18, t)
    BY <1>13 DEF PrintedParam, ParamMember
  <2> HIDE DEF t, P
  <2>4. Counted(18, 0, 1, 16, 136)
    BY DEF Counted
  <2>5. QED
    BY <1>1, <2>1, <2>2, <2>3, <2>4, InUnionTold
<1>14. CASE x = "CHANGE_RECTANGLES"
  <2> DEFINE t == <<>>
             P == {}
  <2>1. Prints(t, 0, P)
    BY DEF Prints
  <2>2. Shape(Data["PARAM"]["change_rectangles"], P, P, 16)
    BY <1>1, ChangeRectanglesShape DEF ParamData
  <2>3. ParamMember[x] = "change_rectangles"
        /\ PrintedParam(x, count) = InUnion("PARAM", "change_rectangles", 19, t)
    BY <1>14 DEF PrintedParam, ParamMember
  <2> HIDE DEF t, P
  <2>4. Counted(19, 0, 0, 16, 136)
    BY DEF Counted
  <2>5. QED
    BY <1>1, <2>1, <2>2, <2>3, <2>4, InUnionTold
<1>15. CASE x = "RATE_CONTROL_HRD_BUF_SIZE"
  <2> DEFINE t == <<"arg">>
             P == {"arg"}
  <2>1. Prints(t, 1, P)
    BY DEF Prints
  <2>2. Shape(Data["PARAM"]["arg"], P, P, 16)
    BY <1>1, ParamArg
  <2>3. ParamMember[x] = "arg"
        /\ PrintedParam(x, count) = InUnion("PARAM", "arg", 15, t)
    BY <1>15 DEF PrintedParam, ParamMember
  <2> HIDE DEF t, P
  <2>4. Counted(15, 0, 1, 16, 136)
    BY DEF Counted
  <2>5. QED
    BY <1>1, <2>1, <2>2, <2>3, <2>4, InUnionTold
<1>16. CASE x = "SEI_USER_DATA_UNREGISTERED"
  <2> DEFINE t == <<>>
             P == {}
  <2>1. Prints(t, 0, P)
    BY DEF Prints
  <2>2. Shape(Data["PARAM"]["user_data_unregistered"], P, P, 16)
    BY <1>1, UserDataUnregisteredShape DEF ParamData
  <2>3. ParamMember[x] = "user_data_unregistered"
        /\ PrintedParam(x, count) = InUnion("PARAM", "user_data_unregistered", 15, t)
    BY <1>16 DEF PrintedParam, ParamMember
  <2> HIDE DEF t, P
  <2>4. Counted(15, 0, 0, 16, 136)
    BY DEF Counted
  <2>5. QED
    BY <1>1, <2>1, <2>2, <2>3, <2>4, InUnionTold
<1>17. CASE x = "FRAME_FIELD_INFO"
  <2> DEFINE t == <<"pic_struct", "source_scan_type", "duplicate_flag">>
             P == {"pic_struct", "source_scan_type", "duplicate_flag"}
  <2>1. Prints(t, 3, P)
    BY DEF Prints
  <2>2. Shape(Data["PARAM"]["frame_field_info"], P, P, 16)
    BY <1>1, ParamFrameFieldInfo
  <2>3. ParamMember[x] = "frame_field_info"
        /\ PrintedParam(x, count) = InUnion("PARAM", "frame_field_info", 68, t)
    BY <1>17 DEF PrintedParam, ParamMember
  <2> HIDE DEF t, P
  <2>4. Counted(68, 0, 3, 16, 136)
    BY DEF Counted
  <2>5. QED
    BY <1>1, <2>1, <2>2, <2>3, <2>4, InUnionTold
<1>18. CASE x = "GOP_RESET"
  <2> DEFINE none == <<>>
  <2>1. PrintedParam(x, count) = <<Piece(11, none, "none", none, 0, <<>>)>>
    BY <1>18 DEF PrintedParam
  <2>2. Len(none) = 0
    OBVIOUS
  <2> HIDE DEF none
  <2>3. Counted(11, Len(none), 0, 0, 136)
    BY <2>2 DEF Counted
  <2>4. QED
    BY <2>1, <2>3, BareTold
<1>19. QED
  BY <1>2, <1>3, <1>4, <1>5, <1>6, <1>7, <1>8, <1>9, <1>10, <1>11, <1>12, <1>13, <1>14,
     <1>15, <1>16, <1>17, <1>18

Formats == DOMAIN AfbcFormats \cup DOMAIN PlanarFormats

\* The bit of a format that the log tests is the one of the compressed formats.
LEMMA AfbcBit == \A f \in Formats : IsAfbc(f) <=> f \in DOMAIN AfbcFormats
<1>1. \A f \in DOMAIN AfbcFormats : IsAfbc(f)
  <2>1. \A f \in DOMAIN AfbcFormats : AfbcFormats[f] \in {32769, 32801, 32770, 32802}
    BY DEF AfbcFormats, Format
  <2>2. \A f \in DOMAIN AfbcFormats : FormatValue(f) \in {32769, 32801, 32770, 32802}
    BY <2>1 DEF FormatValue
  <2>3. \A v \in {32769, 32801, 32770, 32802} : (v \div 2^15) % 2 = 1
    OBVIOUS
  <2>4. QED
    BY <2>2, <2>3 DEF IsAfbc
<1>2. \A f \in DOMAIN PlanarFormats : f \notin DOMAIN AfbcFormats
  BY DEF PlanarFormats, AfbcFormats
<1>3. \A f \in DOMAIN PlanarFormats : ~IsAfbc(f)
  <2> DEFINE Values == {0, 1, 258, 260, 289, 386, 513, 641, 769, 4354, 4356, 4385, 4609,
                        8452, 12548}
  <2>1. \A f \in DOMAIN PlanarFormats : PlanarFormats[f] \in Values
    BY DEF PlanarFormats, Format
  <2>2. \A f \in DOMAIN PlanarFormats : FormatValue(f) \in Values
    BY <1>2, <2>1 DEF FormatValue
  <2>3. \A v \in Values : (v \div 2^15) % 2 = 0
    OBVIOUS
  <2>4. QED
    BY <2>2, <2>3 DEF IsAfbc
<1>4. QED
  BY <1>1, <1>2, <1>3 DEF Formats

LEMMA FrameTold ==
    ASSUME NEW f \in Formats
    PROVE  Told(PrintedFrame(f), 302, FrameMember(f),
                SizeOf(HeadOf("FRAME")) + SizeOf(FrameData[FrameMember(f)]))
<1>1. Data["FRAME"] = FrameData /\ SizeOf(HeadOf("FRAME")) \in Nat
  <2>1. HeadOf("FRAME") = FrameHead
    BY DEF HeadOf, Structs
  <2>2. QED
    BY <2>1, FrameHeadShape, SizeIs DEF Data
<1>2. CASE f \in DOMAIN AfbcFormats
  <2> DEFINE t == <<"plane", "alloc_bytes", "cropx", "cropy", "afbc_width_in_superblocks",
                    "afbc_params">>
             P == {"plane", "alloc_bytes", "cropx", "cropy", "afbc_width_in_superblocks",
                   "afbc_params"}
  <2>1. Prints(t, 6, P)
    BY DEF Prints
  <2>2. Shape(Data["FRAME"]["afbc"], P, P, 33)
    BY <1>1, FrameAfbcShape DEF FrameData
  <2>3. FrameMember(f) = "afbc" /\ PrintedFrame(f) = InUnion("FRAME", "afbc", 104, t)
    BY <1>2, AfbcBit DEF PrintedFrame, FrameMember
  <2> HIDE DEF t, P
  <2>4. Counted(104, 0, 6, 33, 302)
    BY DEF Counted
  <2>5. QED
    BY <1>1, <2>1, <2>2, <2>3, <2>4, InUnionTold
<1>3. CASE f \notin DOMAIN AfbcFormats
  <2> DEFINE t == <<"plane_top", "plane_bot", "stride", "max_frame_width",
                    "max_frame_height">>
             P == {"plane_top", "plane_bot", "stride", "max_frame_width",
                   "max_frame_height"}
  <2>1. Prints(t, 5, P)
    BY DEF Prints
  <2>2. Shape(Data["FRAME"]["planar"], P, P, 33)
    BY <1>1, FramePlanarShape DEF FrameData
  <2>3. FrameMember(f) = "planar" /\ PrintedFrame(f) = InUnion("FRAME", "planar", 97, t)
    BY <1>3, AfbcBit DEF PrintedFrame, FrameMember
  <2> HIDE DEF t, P
  <2>4. Counted(97, 0, 5, 33, 302)
    BY DEF Counted
  <2>5. QED
    BY <1>1, <2>1, <2>2, <2>3, <2>4, InUnionTold
<1>4. QED
  BY <1>2, <1>3

\* The list of regions: its length with four of them, and with sixteen.
RegionsLength(count) == IF count <= 4 THEN 394 ELSE 38 + (count * 89)

\* How far such a list is read.
RegionsReach(count) ==
    IF count > MaxRegions
    THEN SizeOf(HeadOf("PARAM")) + SizeOf(ParamRegions) + (count * SizeOf(ParamRegion))
    ELSE SizeOf(HeadOf("PARAM")) + SizeOf(ParamRegions)

\* The list of regions: where they start, and that they fill it but for a byte at most.
LEMMA RegionList ==
    /\ SizeOf(HeadOf("PARAM")) \in Nat /\ SizeOf(ParamRegion) \in Nat
    /\ SizeOf(ParamRegions) \in Nat /\ OffsetOf(ParamRegions, "region") \in Nat
    /\ OffsetOf(ParamRegions, "region") + (16 * SizeOf(ParamRegion)) <= SizeOf(ParamRegions)
    /\ SizeOf(ParamRegions) <= OffsetOf(ParamRegions, "region") + (16 * SizeOf(ParamRegion)) + 1
<1> DEFINE size == SizeOf(ParamRegion)
           list == SizeOf(ParamRegions)
           off == OffsetOf(ParamRegions, "region")
           P == {"mbx_left", "mbx_right", "mby_top", "mby_bottom", "qp_delta"}
           Q == {"n_regions"}
           u == <<"n_regions">>
<1>1. SizeOf(HeadOf("PARAM")) \in Nat
  <2>1. HeadOf("PARAM") = U32(<<"type">>)
    BY DEF HeadOf, Structs
  <2>2. QED
    BY <2>1, ParamHeadShape, SizeIs
<1>2. size \in Nat
  <2>1. Shape(ParamRegion, P, P, 6)
    BY ParamRegionShape
  <2>2. QED
    BY <2>1, SizeIs
<1>3. Shape(ParamRegions, {"n_regions", "region"}, Q, 16)
  BY ParamRegionsShape
<1> DEFINE i == IndexOf(ParamRegions, "region")
           f == ParamRegions[i]
<1>4. i \in 1..Len(ParamRegions) /\ f.name = "region" /\ Inside(ParamRegions, f)
  BY <1>3, MemberIs
<1>5. /\ f.size = size /\ f.n = 16 /\ f.align = 2 /\ i = 3 /\ Len(ParamRegions) = 3
      /\ ParamRegions[1].align = 1 /\ ParamRegions[2].align = 1
  <2> DEFINE a == U8(u)
             b == Array("reserved", 1, 1, 3)
             c == Array("region", size, 2, MaxRegions)
  <2>1. a \in Seq(Members(a)) /\ Len(a) = 1 /\ a[1].name = "n_regions"
        /\ a[1].align = 1
    <3>1. Len(u) = 1 /\ DOMAIN u = 1..1 /\ u[1] = "n_regions"
      OBVIOUS
    <3> HIDE DEF u
    <3>2. a = [j \in 1..1 |-> [name |-> u[j], size |-> 1, align |-> 1, n |-> 1]]
      BY <3>1 DEF U8, Fields
    <3> HIDE DEF a
    <3>3. a \in Seq(Members(a)) /\ Len(a) = 1
      <4>1. a = [j \in 1..1 |-> a[j]]
        BY <3>2
      <4>2. QED
        BY <4>1, OnNumbers
    <3>4. QED
      BY <3>1, <3>2, <3>3
  <2>2. b \in Seq({b[1]}) /\ Len(b) = 1 /\ b[1].name = "reserved" /\ b[1].align = 1
    BY DEF Array
  <2> HIDE DEF size
  <2>3. /\ c \in Seq({c[1]}) /\ Len(c) = 1 /\ c[1].name = "region"
        /\ c[1].size = size /\ c[1].n = 16 /\ c[1].align = 2
    BY DEF Array, MaxRegions
  <2>4. ParamRegions = a \o b \o c
    BY DEF ParamRegions, size
  <2> HIDE DEF a, b, c, i
  <2> DEFINE d == a \o b
             B == Members(a) \cup {b[1], c[1]}
  <2>5. a \in Seq(B) /\ b \in Seq(B) /\ c \in Seq(B)
    BY <2>1, <2>2, <2>3
  <2>6. d \in Seq(B) /\ Len(d) = 2 /\ d[1] = a[1] /\ d[2] = b[1]
    <3>1. /\ d \in Seq(B) /\ Len(d) = Len(a) + Len(b)
          /\ \A j \in 1..(Len(a) + Len(b)) :
                 d[j] = IF j <= Len(a) THEN a[j] ELSE b[j - Len(a)]
      BY <2>5, ConcatProperties
    <3> HIDE DEF d
    <3>2. /\ Len(d) = 2
          /\ \A j \in 1..2 : d[j] = IF j <= 1 THEN a[j] ELSE b[j - 1]
      BY <2>1, <2>2, <3>1
    <3>3. d[1] = a[1] /\ d[2] = b[1]
      BY <3>2
    <3>4. QED
      BY <3>1, <3>2, <3>3
  <2> HIDE DEF d, B
  <2> DEFINE s == d \o c
  <2>7. Len(s) = 3 /\ s[1] = d[1] /\ s[2] = d[2] /\ s[3] = c[1]
    <3>1. /\ Len(s) = Len(d) + Len(c)
          /\ \A j \in 1..(Len(d) + Len(c)) :
                 s[j] = IF j <= Len(d) THEN d[j] ELSE c[j - Len(d)]
      BY <2>5, <2>6, ConcatProperties
    <3> HIDE DEF s
    <3>2. /\ Len(s) = 3
          /\ \A j \in 1..3 : s[j] = IF j <= 2 THEN d[j] ELSE c[j - 2]
      BY <2>3, <2>6, <3>1
    <3>3. QED
      BY <3>2
  <2> HIDE DEF s
  <2>8. ParamRegions = s
    BY <2>4 DEF s, d
  <2>9. i \in 1..3 /\ s[i].name = "region"
    BY <1>4, <2>7, <2>8
  <2>10. i = 3
    <3>1. s[1].name # "region" /\ s[2].name # "region"
      BY <2>1, <2>2, <2>6, <2>7
    <3>2. QED
      BY <2>9, <3>1
  <2>11. Len(ParamRegions) = 3 /\ ParamRegions[1].align = 1 /\ ParamRegions[2].align = 1
    BY <2>1, <2>2, <2>6, <2>7, <2>8
  <2>12. f.size = size /\ f.n = 16 /\ f.align = 2
    BY <2>3, <2>7, <2>8, <2>10
  <2>13. QED
    BY <2>8, <2>10, <2>11, <2>12
<1> HIDE DEF i, f
<1>6. off \in Nat /\ list \in Nat /\ off + (16 * size) <= list
  <2> HIDE DEF size
  <2>1. off \in Nat /\ list \in Nat /\ off + (size * 16) <= list
    BY <1>4, <1>5 DEF Inside
  <2>2. size * 16 = 16 * size
    BY <1>2
  <2>3. QED
    BY <2>1, <2>2
<1>7. list <= off + (16 * size) + 1
  <2> DEFINE E == EndOf(ParamRegions)
  <2>1. AlignOf(ParamRegions) = 2
    <3>1. DOMAIN ParamRegions = 1..3
      BY <1>3, <1>5 DEF Shape
    <3>2. ParamRegions[3].align = 2
      BY <1>5 DEF f
    <3>3. \A j \in DOMAIN ParamRegions : ParamRegions[j].align \in {1, 2}
      BY <1>5, <3>1, <3>2
    <3> DEFINE Largest(a) == /\ \E j \in DOMAIN ParamRegions : ParamRegions[j].align = a
                             /\ \A j \in DOMAIN ParamRegions : ParamRegions[j].align <= a
    <3>4. Largest(2) /\ \A a \in {1, 2, 4, 8} : Largest(a) => a = 2
      BY <3>1, <3>2, <3>3
    <3>5. QED
      BY <3>4 DEF AlignOf
  <2>2. LaidOut(E, ParamRegions)
    BY <1>3, EndsAre
  <2> HIDE DEF E
  <2>3. E[3] = RoundUp(E[2], 2) + (size * 16) /\ E[3] \in Nat
    <3>1. E \in [0..3 -> Nat]
      BY <1>5, <2>2 DEF LaidOut
    <3>2. 3 \in 1..3 /\ 3 - 1 = 2 /\ 3 \in 0..3
      OBVIOUS
    <3> HIDE DEF size
    <3>3. E[3] = RoundUp(E[3 - 1], f.align) + (f.size * f.n)
      BY <1>5, <2>2, <3>2 DEF LaidOut, f
    <3>4. QED
      BY <1>5, <3>1, <3>2, <3>3
  <2>4. off = RoundUp(E[2], 2)
    <3>1. 3 - 1 = 2
      OBVIOUS
    <3>2. OffsetOf(ParamRegions, "region") = RoundUp(EndOf(ParamRegions)[i - 1], f.align)
      BY DEF OffsetOf, f, i
    <3>3. QED
      BY <1>5, <3>1, <3>2 DEF E
  <2>5. list = RoundUp(E[3], 2)
    BY <1>5, <2>1 DEF SizeOf, E
  <2> DEFINE e == E[3]
  <2> HIDE DEF e, off, list, size
  <2>6. list <= e + 1
    BY <2>3, <2>5 DEF RoundUp, e
  <2>7. e = off + (16 * size)
    BY <1>2, <2>3, <2>4 DEF e
  <2>8. QED
    BY <1>2, <1>6, <2>6, <2>7
<1>8. QED
  BY <1>1, <1>2, <1>6, <1>7

LEMMA RegionsTold ==
    ASSUME NEW count \in Nat
    PROVE  Told(PrintedRegions(count), RegionsLength(count), "regions", RegionsReach(count))
<1> DEFINE head == SizeOf(HeadOf("PARAM"))
           size == SizeOf(ParamRegion)
           list == SizeOf(ParamRegions)
           off == OffsetOf(ParamRegions, "region")
           bytes == RegionsReach(count)
           none == <<>>
           t == <<"mbx_left", "mbx_right", "mby_top", "mby_bottom", "qp_delta">>
           P == {"mbx_left", "mbx_right", "mby_top", "mby_bottom", "qp_delta"}
           Q == {"n_regions"}
           u == <<"n_regions">>
           R(i) == Piece(59, none, "regions", ParamRegion, head + off + (i - 1) * size, t)
           rows == [i \in 1..count |-> R(i)]
           first == Piece(21, none, "regions", ParamRegions, head, u)
           last == Piece(1, none, "regions", ParamRegions, head, <<>>)
<1>1. PrintedRegions(count) = <<first>> \o rows \o <<last>>
  BY DEF PrintedRegions
<1>2. Len(none) = 0 /\ count \in Nat
  OBVIOUS
<1>3. Prints(t, 5, P) /\ Prints(u, 1, Q)
  BY DEF Prints
<1>4. Shape(ParamRegion, P, P, 6)
  BY ParamRegionShape
<1>5. Shape(ParamRegions, {"n_regions", "region"}, Q, 16)
  BY ParamRegionsShape
<1>6. Shape(ParamRegions, Q, Q, 16)
  BY <1>5 DEF Shape
<1>7. /\ head \in Nat /\ size \in Nat /\ off \in Nat /\ list \in Nat
      /\ off + (16 * size) <= list
  BY RegionList
<1>8. bytes = IF count > 16 THEN head + list + (count * size) ELSE head + list
  BY DEF RegionsReach, MaxRegions
<1>9. bytes \in Nat /\ head + list <= bytes
      /\ head + off + (count * size) <= bytes /\ count * size \in Nat
  <2> HIDE DEF head, size, off, list, bytes
  <2> DEFINE c == count * size
  <2>1. c \in Nat
    BY <1>2, <1>7
  <2>2. ~(count > 16) => c <= 16 * size
    BY <1>2, <1>7
  <2>3. bytes = IF count > 16 THEN head + list + c ELSE head + list
    BY <1>8
  <2> DEFINE all == 16 * size
  <2>4. all \in Nat /\ off + all <= list
    BY <1>7
  <2>5. ~(count > 16) => c <= all
    BY <2>2
  <2> HIDE DEF c, all
  <2>6. bytes \in Nat /\ head + list <= bytes /\ head + off + c <= bytes
    <3>1. CASE count > 16
      BY <1>7, <2>1, <2>3, <2>4, <3>1
    <3>2. CASE ~(count > 16)
      BY <1>7, <2>1, <2>3, <2>4, <2>5, <3>2
    <3>3. QED
      BY <3>1, <3>2
  <2>7. QED
    BY <2>1, <2>6 DEF c
<1> HIDE DEF none, t, P, Q, u
<1>10. Told(<<first>>, 37, "regions", bytes)
  <2>1. Reaches(head, ParamRegions, bytes)
    BY <1>7, <1>9 DEF Reaches
  <2>2. Counted(21, Len(none), 1, 16, 37)
    BY <1>2 DEF Counted
  <2> HIDE DEF head, bytes
  <2>3. QED
    BY <1>3, <1>6, <2>1, <2>2, PieceTold
<1>11. Told(<<last>>, 1, "regions", bytes)
  <2>1. Counted(1, Len(none), 0, 0, 1)
    BY <1>2 DEF Counted
  <2> HIDE DEF head, bytes
  <2>2. QED
    BY <2>1, BareTold
<1>12. ASSUME NEW i \in 1..count PROVE Told(<<R(i)>>, 89, "regions", bytes)
  <2> DEFINE at == head + off + (i - 1) * size
  <2>1. (i - 1) * size \in Nat /\ ((i - 1) * size) + size <= count * size
    <3> HIDE DEF size
    <3>1. i - 1 \in Nat /\ count - i \in Nat
      BY <1>2
    <3>2. (i - 1) * size \in Nat /\ (count - i) * size \in Nat
      BY <1>7, <3>1
    <3>3. count * size = ((i - 1) * size) + size + ((count - i) * size)
      BY <1>2, <1>7
    <3> DEFINE g == (i - 1) * size
               h == (count - i) * size
    <3> HIDE DEF g, h
    <3>4. g + size <= g + size + h
      BY <1>7, <3>2 DEF g, h
    <3>5. QED
      BY <3>2, <3>3, <3>4 DEF g, h
  <2>2. Reaches(at, ParamRegion, bytes)
    <3> DEFINE g == (i - 1) * size
               h == count * size
    <3>1. g \in Nat /\ g + size <= h /\ h \in Nat
      BY <1>9, <2>1
    <3>2. head + off + h <= bytes
      BY <1>9
    <3> HIDE DEF g, h, head, off, list, size, bytes
    <3>3. (head + off + g) + size <= bytes
      BY <1>7, <1>9, <3>1, <3>2
    <3>4. QED
      BY <1>7, <1>9, <3>1, <3>3 DEF Reaches, g, size
  <2>3. Counted(59, Len(none), 5, 6, 89)
    BY <1>2 DEF Counted
  <2> HIDE DEF at, bytes
  <2>4. Told(<<Piece(59, none, "regions", ParamRegion, at, t)>>, 89, "regions", bytes)
    BY <1>3, <1>4, <2>2, <2>3, PieceTold
  <2>5. QED
    BY <2>4 DEF at
<1> HIDE DEF R, first, last, bytes, head, off, size, list
<1>13. Told(rows, count * 89, "regions", bytes)
  <2>1. rows = [i \in 1..count |-> rows[i]] /\ \A i \in 1..count : rows[i] = R(i)
    OBVIOUS
  <2> HIDE DEF rows
  <2>2. QED
    BY <1>2, <1>12, <2>1, RowsTold
<1>14. Told(<<first>> \o rows, 37 + (count * 89), "regions", bytes)
  BY <1>10, <1>13, BothTold
<1>15. Told(<<first>> \o rows \o <<last>>, (37 + (count * 89)) + 1, "regions", bytes)
  BY <1>11, <1>14, BothTold
<1>16. (37 + (count * 89)) + 1 <= RegionsLength(count) /\ RegionsLength(count) \in Nat
  BY <1>2 DEF RegionsLength
<1>17. Told(PrintedRegions(count), RegionsLength(count), "regions", bytes)
  BY <1>1, <1>15, <1>16, TellsLess
<1>18. QED
  BY <1>17 DEF bytes

LEMMA OfStructTold ==
    ASSUME NEW text, NEW k, NEW w, NEW b, Counted(text, 0, k, w, b),
           NEW code, HeadOf(code) = Structs[code], NEW P, Shape(Structs[code], P, P, w),
           NEW names, Prints(names, k, P)
    PROVE  Told(OfStruct(code, text, names), b, "none", SizeOf(HeadOf(code)) + 0)
<1> DEFINE s == Structs[code]
           labels == <<>>
           bytes == SizeOf(HeadOf(code)) + 0
<1>1. SizeOf(s) \in Nat
  BY SizeIs
<1>2. Len(labels) = 0
  OBVIOUS
<1>3. Shape(s, P, P, w)
  OBVIOUS
<1>4. SizeOf(HeadOf(code)) = SizeOf(s)
  OBVIOUS
<1> HIDE DEF s, labels
<1>5. Reaches(0, s, bytes)
  BY <1>1, <1>4 DEF Reaches
<1> HIDE DEF bytes
<1>6. Told(<<Piece(text, labels, "none", s, 0, names)>>, b, "none", bytes)
  BY <1>2, <1>3, <1>5, PieceTold
<1>7. QED
  BY <1>6 DEF OfStruct, s, labels, bytes

LEMMA StructTold ==
    ASSUME NEW code PROVE Told(StructPieces(code), 279, "none", SizeOf(HeadOf(code)) + 0)
<1>1. \/ StructPieces(code) = <<>>
      \/ code \in {"JOB", "SWITCHED_IN", "SWITCHED_OUT", "JOB_DEQUEUED", "ERROR",
                  "STATE_CHANGE", "SET_OPTION_FAIL", "FRAME_ALLOC_PARAM",
                  "SEQUENCE_PARAMETERS", "BITSTREAM"}
  BY DEF StructPieces
<1>2. CASE StructPieces(code) = <<>>
  BY <1>2, NoneTold
<1>3. CASE code = "JOB"
  <2> DEFINE t == <<"cores", "frames", "flags">>
             P == {"cores", "frames", "flags"}
  <2>1. Prints(t, 3, P)
    BY DEF Prints
  <2>2. HeadOf(code) = Structs[code] /\ Structs[code] = Job
    BY <1>3 DEF HeadOf, Structs
  <2>3. Shape(Structs[code], P, P, 16)
    BY <2>2, JobShape
  <2>4. StructPieces(code) = OfStruct(code, 25, t)
    BY <1>3 DEF StructPieces
  <2> HIDE DEF t, P
  <2>5. Counted(25, 0, 3, 16, 279)
    BY DEF Counted
  <2>6. QED
    BY <2>1, <2>2, <2>3, <2>4, <2>5, OfStructTold
<1>4. CASE code = "SWITCHED_IN"
  <2> DEFINE t == <<"core">>
             P == {"core"}
  <2>1. Prints(t, 1, P)
    BY DEF Prints
  <2>2. HeadOf(code) = Structs[code] /\ Structs[code] = SwitchedIn
    BY <1>4 DEF HeadOf, Structs
  <2>3. Shape(Structs[code], P, P, 16)
    BY <2>2, SwitchedInShape
  <2>4. StructPieces(code) = OfStruct(code, 5, t)
    BY <1>4 DEF StructPieces
  <2> HIDE DEF t, P
  <2>5. Counted(5, 0, 1, 16, 279)
    BY DEF Counted
  <2>6. QED
    BY <2>1, <2>2, <2>3, <2>4, <2>5, OfStructTold
<1>5. CASE code = "SWITCHED_OUT"
  <2> DEFINE t == <<"core", "reason", "sub_reason">>
             P == {"core", "reason", "sub_reason"}
  <2>1. Prints(t, 3, P)
    BY DEF Prints
  <2>2. HeadOf(code) = Structs[code] /\ Structs[code] = SwitchedOut
    BY <1>5 DEF HeadOf, Structs
  <2>3. Shape(Structs[code], P, P, 16)
    BY <2>2, SwitchedOutShape
  <2>4. StructPieces(code) = OfStruct(code, 27, t)
    BY <1>5 DEF StructPieces
  <2> HIDE DEF t, P
  <2>5. Counted(27, 0, 3, 16, 279)
    BY DEF Counted
  <2>6. QED
    BY <2>1, <2>2, <2>3, <2>4, <2>5, OfStructTold
<1>6. CASE code = "JOB_DEQUEUED"
  <2> DEFINE t == <<"valid_job">>
             P == {"valid_job"}
  <2>1. Prints(t, 1, P)
    BY DEF Prints
  <2>2. HeadOf(code) = Structs[code] /\ Structs[code] = JobDequeued
    BY <1>6 DEF HeadOf, Structs
  <2>3. Shape(Structs[code], P, P, 16)
    BY <2>2, JobDequeuedShape
  <2>4. StructPieces(code) = OfStruct(code, 10, t)
    BY <1>6 DEF StructPieces
  <2> HIDE DEF t, P
  <2>5. Counted(10, 0, 1, 16, 279)
    BY DEF Counted
  <2>6. QED
    BY <2>1, <2>2, <2>3, <2>4, <2>5, OfStructTold
<1>7. CASE code = "ERROR"
  <2> DEFINE t == <<"error_code", "message">>
             P == {"error_code", "message"}
  <2>1. Prints(t, 2, P)
    BY DEF Prints
  <2>2. HeadOf(code) = Structs[code] /\ Structs[code] = Error
    BY <1>7 DEF HeadOf, Structs
  <2>3. Shape(Structs[code], P, P, 127)
    BY <2>2, ErrorShape
  <2>4. StructPieces(code) = OfStruct(code, 25, t)
    BY <1>7 DEF StructPieces
  <2> HIDE DEF t, P
  <2>5. Counted(25, 0, 2, 127, 279)
    BY DEF Counted
  <2>6. QED
    BY <2>1, <2>2, <2>3, <2>4, <2>5, OfStructTold
<1>8. CASE code = "STATE_CHANGE"
  <2> DEFINE t == <<"new_state">>
             P == {"new_state"}
  <2>1. Prints(t, 1, P)
    BY DEF Prints
  <2>2. HeadOf(code) = Structs[code] /\ Structs[code] = StateChange
    BY <1>8 DEF HeadOf, Structs
  <2>3. Shape(Structs[code], P, P, 16)
    BY <2>2, StateChangeShape
  <2>4. StructPieces(code) = OfStruct(code, 10, t)
    BY <1>8 DEF StructPieces
  <2> HIDE DEF t, P
  <2>5. Counted(10, 0, 1, 16, 279)
    BY DEF Counted
  <2>6. QED
    BY <2>1, <2>2, <2>3, <2>4, <2>5, OfStructTold
<1>9. CASE code = "SET_OPTION_FAIL"
  <2> DEFINE t == <<"index", "message">>
             P == {"index", "message"}
  <2>1. Prints(t, 2, P)
    BY DEF Prints
  <2>2. HeadOf(code) = Structs[code] /\ Structs[code] = SetOptionFail
    BY <1>9 DEF HeadOf, Structs
  <2>3. Shape(Structs[code], P, P, 127)
    BY <2>2, SetOptionFailShape
  <2>4. StructPieces(code) = OfStruct(code, 18, t)
    BY <1>9 DEF StructPieces
  <2> HIDE DEF t, P
  <2>5. Counted(18, 0, 2, 127, 279)
    BY DEF Counted
  <2>6. QED
    BY <2>1, <2>2, <2>3, <2>4, <2>5, OfStructTold
<1>10. CASE code = "FRAME_ALLOC_PARAM"
  <2> DEFINE t == <<"planar_alloc_frame_width", "planar_alloc_frame_height",
                    "afbc_alloc_bytes", "afbc_width_in_superblocks", "mbinfo_alloc_bytes",
                    "dsl_frame_width", "dsl_frame_height">>
             P == {"planar_alloc_frame_width", "planar_alloc_frame_height",
                   "afbc_alloc_bytes", "afbc_width_in_superblocks", "mbinfo_alloc_bytes",
                   "dsl_frame_width", "dsl_frame_height"}
  <2>1. Prints(t, 7, P)
    BY DEF Prints
  <2>2. HeadOf(code) = Structs[code] /\ Structs[code] = FrameAllocParam
    BY <1>10 DEF HeadOf, Structs
  <2>3. Shape(Structs[code], P, P, 16)
    BY <2>2, FrameAllocParamShape
  <2>4. StructPieces(code) = OfStruct(code, 120, t)
    BY <1>10 DEF StructPieces
  <2> HIDE DEF t, P
  <2>5. Counted(120, 0, 7, 16, 279)
    BY DEF Counted
  <2>6. QED
    BY <2>1, <2>2, <2>3, <2>4, <2>5, OfStructTold
<1>11. CASE code = "SEQUENCE_PARAMETERS"
  <2> DEFINE t == <<"interlace", "chroma_format", "bitdepth_luma", "bitdepth_chroma",
                    "num_buffers_planar", "num_buffers_afbc", "range_mapping_enabled">>
             P == {"interlace", "chroma_format", "bitdepth_luma", "bitdepth_chroma",
                   "num_buffers_planar", "num_buffers_afbc", "range_mapping_enabled"}
  <2>1. Prints(t, 7, P)
    BY DEF Prints
  <2>2. HeadOf(code) = Structs[code] /\ Structs[code] = SequenceParameters
    BY <1>11 DEF HeadOf, Structs
  <2>3. Shape(Structs[code], P, P, 16)
    BY <2>2, SequenceParametersShape
  <2>4. StructPieces(code) = OfStruct(code, 124, t)
    BY <1>11 DEF StructPieces
  <2> HIDE DEF t, P
  <2>5. Counted(124, 0, 7, 16, 279)
    BY DEF Counted
  <2>6. QED
    BY <2>1, <2>2, <2>3, <2>4, <2>5, OfStructTold
<1>12. CASE code = "BITSTREAM"
  <2> DEFINE t == <<"host_handle", "user_data_tag", "bitstream_flags",
                    "bitstream_alloc_bytes", "bitstream_offset", "bitstream_filled_len",
                    "bitstream_buf_addr">>
             P == {"host_handle", "user_data_tag", "bitstream_flags",
                   "bitstream_alloc_bytes", "bitstream_offset", "bitstream_filled_len",
                   "bitstream_buf_addr"}
  <2>1. Prints(t, 7, P)
    BY DEF Prints
  <2>2. HeadOf(code) = Structs[code] /\ Structs[code] = Bitstream
    BY <1>12 DEF HeadOf, Structs
  <2>3. Shape(Structs[code], P, P, 16)
    BY <2>2, BitstreamShape
  <2>4. StructPieces(code) = OfStruct(code, 99, t)
    BY <1>12 DEF StructPieces
  <2> HIDE DEF t, P
  <2>5. Counted(99, 0, 7, 16, 279)
    BY DEF Counted
  <2>6. QED
    BY <2>1, <2>2, <2>3, <2>4, <2>5, OfStructTold
<1>13. QED
  BY <1>1, <1>2, <1>3, <1>4, <1>5, <1>6, <1>7, <1>8, <1>9, <1>10, <1>11, <1>12

LEMMA EventSizes == \A x \in DOMAIN EventData : SizeOf(EventData[x]) \in Nat
<1>1. DOMAIN EventData = {"event_processed", "event_ref_frame", "event_trace_buffers",
                         "message"}
  BY DEF EventData
<1>2. /\ SizeOf(EventData["event_processed"]) \in Nat
      /\ SizeOf(EventData["event_ref_frame"]) \in Nat
      /\ SizeOf(EventData["event_trace_buffers"]) \in Nat
      /\ SizeOf(EventData["message"]) \in Nat
  BY EventProcessedShape, EventRefFrameShape, EventTraceBuffersShape, EventMessage,
     SizeIs DEF EventData
<1>3. QED
  BY <1>1, <1>2

LEMMA FrameSizes == \A x \in DOMAIN FrameData : SizeOf(FrameData[x]) \in Nat
<1>1. DOMAIN FrameData = {"planar", "afbc"}
  BY DEF FrameData
<1>2. /\ SizeOf(FrameData["planar"]) \in Nat
      /\ SizeOf(FrameData["afbc"]) \in Nat
  BY FramePlanarShape, FrameAfbcShape, SizeIs DEF FrameData
<1>3. QED
  BY <1>1, <1>2

LEMMA ParamSizes == \A x \in DOMAIN ParamData : SizeOf(ParamData[x]) \in Nat
<1>1. DOMAIN ParamData = {"arg", "qp", "regions", "display_size", "range_map",
                         "rate_control", "rate_control_qp_range", "colour_description",
                         "frame_packing", "frame_field_info", "change_rectangles",
                         "vp9_segmap", "user_data_unregistered"}
  BY DEF ParamData
<1>2. /\ SizeOf(ParamData["arg"]) \in Nat
      /\ SizeOf(ParamData["qp"]) \in Nat
      /\ SizeOf(ParamData["regions"]) \in Nat
      /\ SizeOf(ParamData["display_size"]) \in Nat
      /\ SizeOf(ParamData["range_map"]) \in Nat
      /\ SizeOf(ParamData["rate_control"]) \in Nat
      /\ SizeOf(ParamData["rate_control_qp_range"]) \in Nat
      /\ SizeOf(ParamData["colour_description"]) \in Nat
      /\ SizeOf(ParamData["frame_packing"]) \in Nat
      /\ SizeOf(ParamData["frame_field_info"]) \in Nat
      /\ SizeOf(ParamData["change_rectangles"]) \in Nat
      /\ SizeOf(ParamData["vp9_segmap"]) \in Nat
      /\ SizeOf(ParamData["user_data_unregistered"]) \in Nat
  BY ParamArg, ParamQpShape, ParamRegionsShape, DisplaySizeShape, ParamRangeMap,
     ParamRateControl, ParamRateControlQpRange, ColourDescriptionShape, FramePackingShape,
     ParamFrameFieldInfo, ChangeRectanglesShape, Vp9SegmapShape, UserDataUnregisteredShape,
     SizeIs DEF ParamData
<1>3. QED
  BY <1>1, <1>2

\* A message: the members of its union are those its tag goes with.
LEMMA MemberIsOf ==
    ASSUME NEW m
    PROVE  /\ m.code = "SET_OPTION" => MemberOf(m) = OptionMember(m.tag)
           /\ m.code = "EVENT" => MemberOf(m) = EventMember[m.tag]
           /\ m.code = "PARAM" => MemberOf(m) = ParamMember[m.tag]
           /\ m.code = "FRAME" => MemberOf(m) = FrameMember(m.tag)
           /\ m.code = "GENERAL" => MemberOf(m) = GeneralMember[m.tag]
           /\ m.code \notin {"SET_OPTION", "EVENT", "PARAM", "FRAME", "GENERAL"} =>
                  MemberOf(m) = "none"
<1>1. DOMAIN Tags = {"SET_OPTION", "EVENT", "PARAM", "FRAME", "GENERAL"}
  BY DEF Tags
<1>2. QED
  BY <1>1 DEF MemberOf, Member

LEMMA OptionSignal ==
    ASSUME NEW m, m.code = "SET_OPTION", m.tag \in Options
    PROVE  Told(SignalPieces(m), 150, MemberOf(m), BytesSent(m))
<1> DEFINE o == m.tag
           mem == OptionMember(o)
           bytes == SizeOf(HeadOf("SET_OPTION")) + SizeOf(OptionData[mem])
           labels == <<SetOptionName(o)>>
           t == <<"index">>
           P == {"index"}
           head == HeadPiece("SET_OPTION", 9, labels, t)
<1>1. SignalPieces(m) = head \o PrintedOption(o)
  BY DEF SignalPieces
<1>2. MemberOf(m) = mem
  BY MemberIsOf
<1>3. mem \in DOMAIN OptionData /\ mem # "none" /\ Data["SET_OPTION"] = OptionData
  <2>1. mem \in DOMAIN OptionData
    BY OptionMembers
  <2>2. "none" \notin DOMAIN OptionData
    BY DEF OptionData
  <2>3. QED
    BY <2>1, <2>2 DEF Data
<1>4. BytesSent(m) = bytes
  BY <1>2, <1>3 DEF BytesSent
<1>5. Told(PrintedOption(o), 100, mem, bytes)
  BY OptionTold
<1>6. Shape(HeadOf("SET_OPTION"), P, P, 16)
  <2>1. HeadOf("SET_OPTION") = U32(<<"index">>)
    BY DEF HeadOf, Structs
  <2>2. QED
    BY <2>1, OptionHeadShape
<1>7. bytes \in Nat /\ SizeOf(HeadOf("SET_OPTION")) <= bytes
  <2>1. SizeOf(HeadOf("SET_OPTION")) \in Nat
    BY <1>6, SizeIs
  <2>2. SizeOf(OptionData[mem]) \in Nat
    BY <1>3, OptionSizes
  <2>3. QED
    BY <2>1, <2>2
<1>8. Prints(t, 1, P)
  BY DEF Prints
<1>9. Counted(9, Len(labels), 1, 16, 50)
  <2>1. Len(labels) = 1
    OBVIOUS
  <2>2. QED
    BY <2>1 DEF Counted
<1> HIDE DEF o, mem, bytes, labels, t, P
<1>10. Told(head, 50, mem, bytes)
  BY <1>6, <1>7, <1>8, <1>9, HeadTold
<1> HIDE DEF head
<1>11. Told(head \o PrintedOption(o), 50 + 100, mem, bytes)
  BY <1>5, <1>10, BothTold
<1>12. 50 + 100 = 150
  OBVIOUS
<1>13. QED
  BY <1>1, <1>2, <1>4, <1>11, <1>12

LEMMA EventSignal ==
    ASSUME NEW m, m.code = "EVENT", m.tag \in DOMAIN EventMember
    PROVE  Told(SignalPieces(m), 497, MemberOf(m), BytesSent(m))
<1> DEFINE o == m.tag
           mem == EventMember[o]
           bytes == SizeOf(HeadOf("EVENT")) + SizeOf(EventData[mem])
           labels == <<EventName(o)>>
           t == <<"event_code">>
           P == {"event_code"}
           head == HeadPiece("EVENT", 14, labels, t)
<1>1. SignalPieces(m) = head \o PrintedEvent(o)
  BY DEF SignalPieces
<1>2. MemberOf(m) = mem
  BY MemberIsOf
<1>3. mem \in DOMAIN EventData /\ mem # "none" /\ Data["EVENT"] = EventData
  <2>1. mem \in DOMAIN EventData
    BY DEF EventMember, EventData
  <2>2. "none" \notin DOMAIN EventData
    BY DEF EventData
  <2>3. QED
    BY <2>1, <2>2 DEF Data
<1>4. BytesSent(m) = bytes
  BY <1>2, <1>3 DEF BytesSent
<1>5. Told(PrintedEvent(o), 442, mem, bytes)
  BY EventTold
<1>6. Shape(HeadOf("EVENT"), P, P, 16)
  <2>1. HeadOf("EVENT") = U32(<<"event_code">>)
    BY DEF HeadOf, Structs
  <2>2. QED
    BY <2>1, EventHeadShape
<1>7. bytes \in Nat /\ SizeOf(HeadOf("EVENT")) <= bytes
  <2>1. SizeOf(HeadOf("EVENT")) \in Nat
    BY <1>6, SizeIs
  <2>2. SizeOf(EventData[mem]) \in Nat
    BY <1>3, EventSizes
  <2>3. QED
    BY <2>1, <2>2
<1>8. Prints(t, 1, P)
  BY DEF Prints
<1>9. Counted(14, Len(labels), 1, 16, 55)
  <2>1. Len(labels) = 1
    OBVIOUS
  <2>2. QED
    BY <2>1 DEF Counted
<1> HIDE DEF o, mem, bytes, labels, t, P
<1>10. Told(head, 55, mem, bytes)
  BY <1>6, <1>7, <1>8, <1>9, HeadTold
<1> DEFINE tail == PrintedEvent(o)
<1> HIDE DEF head, tail
<1>11. Told(head \o tail, 55 + 442, mem, bytes)
  <2>1. Told(tail, 442, mem, bytes)
    BY <1>5 DEF tail
  <2>2. QED
    BY <2>1, <1>10, BothTold
<1>12. 55 + 442 = 497
  OBVIOUS
<1>13. QED
  BY <1>1, <1>2, <1>4, <1>11, <1>12 DEF tail

LEMMA FrameSignal ==
    ASSUME NEW m, m.code = "FRAME", m.tag \in Formats
    PROVE  Told(SignalPieces(m), 472, MemberOf(m), BytesSent(m))
<1> DEFINE o == m.tag
           mem == FrameMember(o)
           bytes == SizeOf(HeadOf("FRAME")) + SizeOf(FrameData[mem])
           labels == <<>>
           t == <<"host_handle", "user_data_tag", "frame_flags", "visible_frame_width",
                  "visible_frame_height", "format">>
           P == {"host_handle", "user_data_tag", "frame_flags", "visible_frame_width",
                 "visible_frame_height", "format"}
           head == HeadPiece("FRAME", 74, labels, t)
<1>1. SignalPieces(m) = head \o PrintedFrame(o)
  BY DEF SignalPieces
<1>2. MemberOf(m) = mem
  BY MemberIsOf
<1>3. mem \in DOMAIN FrameData /\ mem # "none" /\ Data["FRAME"] = FrameData
  <2>1. mem \in DOMAIN FrameData
    BY DEF FrameMember, FrameData
  <2>2. "none" \notin DOMAIN FrameData
    BY DEF FrameData
  <2>3. QED
    BY <2>1, <2>2 DEF Data
<1>4. BytesSent(m) = bytes
  BY <1>2, <1>3 DEF BytesSent
<1>5. Told(PrintedFrame(o), 302, mem, bytes)
  BY FrameTold
<1>6. Shape(HeadOf("FRAME"), P, P, 16)
  <2>1. HeadOf("FRAME") = FrameHead
    BY DEF HeadOf, Structs
  <2>2. QED
    BY <2>1, FrameHeadShape
<1>7. bytes \in Nat /\ SizeOf(HeadOf("FRAME")) <= bytes
  <2>1. SizeOf(HeadOf("FRAME")) \in Nat
    BY <1>6, SizeIs
  <2>2. SizeOf(FrameData[mem]) \in Nat
    BY <1>3, FrameSizes
  <2>3. QED
    BY <2>1, <2>2
<1>8. Prints(t, 6, P)
  BY DEF Prints
<1>9. Counted(74, Len(labels), 6, 16, 170)
  <2>1. Len(labels) = 0
    OBVIOUS
  <2>2. QED
    BY <2>1 DEF Counted
<1> HIDE DEF o, mem, bytes, labels, t, P
<1>10. Told(head, 170, mem, bytes)
  BY <1>6, <1>7, <1>8, <1>9, HeadTold
<1> HIDE DEF head
<1>11. Told(head \o PrintedFrame(o), 170 + 302, mem, bytes)
  BY <1>5, <1>10, BothTold
<1>12. 170 + 302 = 472
  OBVIOUS
<1>13. QED
  BY <1>1, <1>2, <1>4, <1>11, <1>12

\* The bytes that are read: those that were sent, but for a list with too many regions.
Reach(m) == IF m.count > MaxRegions THEN BytesSent(m) + (m.count * SizeOf(ParamRegion))
                                    ELSE BytesSent(m)

LEMMA ParamSignal ==
    ASSUME NEW m, m.code = "PARAM", m.tag \in DOMAIN ParamMember, m.count \in Nat,
           m.tag # "REGIONS" => m.count = 0,
           NEW b, b = IF m.tag = "REGIONS" THEN RegionsLength(m.count) ELSE 136
    PROVE  Told(SignalPieces(m), 49 + b, MemberOf(m), Reach(m))
<1> DEFINE o == m.tag
           c == m.count
           mem == ParamMember[o]
           bytes == BytesSent(m)
           all == Reach(m)
           labels == <<BufferParamName(o)>>
           t == <<"type">>
           P == {"type"}
           head == HeadPiece("PARAM", 8, labels, t)
<1>1. SignalPieces(m) = head \o PrintedParam(o, c)
  BY DEF SignalPieces
<1>2. MemberOf(m) = mem
  BY MemberIsOf
<1>3. Data["PARAM"] = ParamData /\ mem \in DOMAIN ParamData \cup {"none"}
  BY DEF Data, ParamMember, ParamData
<1>4. bytes = SizeOf(HeadOf("PARAM")) + IF mem = "none" THEN 0 ELSE SizeOf(ParamData[mem])
  BY <1>2, <1>3 DEF BytesSent
<1>5. Shape(HeadOf("PARAM"), P, P, 16)
  <2>1. HeadOf("PARAM") = U32(<<"type">>)
    BY DEF HeadOf, Structs
  <2>2. QED
    BY <2>1, ParamHeadShape
<1>6. SizeOf(HeadOf("PARAM")) \in Nat
  BY <1>5, SizeIs
<1>7. bytes \in Nat /\ SizeOf(HeadOf("PARAM")) <= bytes
  <2>1. CASE mem = "none"
    BY <1>4, <1>6, <2>1
  <2>2. CASE mem # "none"
    <3>1. SizeOf(ParamData[mem]) \in Nat
      BY <1>3, <2>2, ParamSizes
    <3>2. QED
      BY <1>4, <1>6, <2>2, <3>1
  <2>3. QED
    BY <2>1, <2>2
<1>0. all \in Nat /\ SizeOf(HeadOf("PARAM")) <= all
  <2> DEFINE head1 == SizeOf(HeadOf("PARAM"))
             size == SizeOf(ParamRegion)
  <2>1. size \in Nat /\ c \in Nat
    BY RegionList
  <2>2. c * size \in Nat
    <3> HIDE DEF c, size
    <3>1. QED
      BY <2>1
  <2>3. all = IF c > MaxRegions THEN bytes + (c * size) ELSE bytes
    BY DEF Reach
  <2> DEFINE d == c * size
  <2> HIDE DEF d, bytes, c, head1, all
  <2>4. d \in Nat /\ (all = bytes + d \/ all = bytes)
    BY <2>2, <2>3 DEF d
  <2>5. bytes \in Nat /\ head1 <= bytes /\ head1 \in Nat
    BY <1>6, <1>7 DEF head1
  <2>6. all \in Nat /\ head1 <= all
    BY <2>4, <2>5
  <2>7. QED
    BY <2>6 DEF head1
<1>8. Prints(t, 1, P)
  BY DEF Prints
<1>9. Counted(8, Len(labels), 1, 16, 49)
  <2>1. Len(labels) = 1
    OBVIOUS
  <2>2. QED
    BY <2>1 DEF Counted
<1>10. Told(PrintedParam(o, c), b, mem, all)
  <2>1. CASE o # "REGIONS"
    <3>1. mem # "none" => bytes = SizeOf(HeadOf("PARAM")) + SizeOf(ParamData[mem])
      BY <1>4
    <3>2. all = bytes
      BY <2>1 DEF Reach, MaxRegions
    <3> HIDE DEF bytes, all
    <3>3. Told(PrintedParam(o, c), 136, mem, bytes)
      BY <2>1, <3>1, ParamTold
    <3>4. QED
      BY <2>1, <3>2, <3>3
  <2>2. CASE o = "REGIONS"
    <3>1. PrintedParam(o, c) = PrintedRegions(c)
      BY <2>2 DEF PrintedParam
    <3>2. mem = "regions" /\ ParamData["regions"] = ParamRegions
      BY <2>2 DEF ParamMember, ParamData
    <3>3. bytes = SizeOf(HeadOf("PARAM")) + SizeOf(ParamRegions)
      BY <1>4, <3>2
    <3>4. all = RegionsReach(c)
      BY <3>3 DEF Reach, RegionsReach
    <3> HIDE DEF bytes, all
    <3>5. Told(PrintedRegions(c), RegionsLength(c), "regions", all)
      BY <3>4, RegionsTold
    <3>6. QED
      BY <2>2, <3>1, <3>2, <3>5
  <2>3. QED
    BY <2>1, <2>2
<1> HIDE DEF o, c, mem, bytes, all, labels, t, P
<1>11. Told(head, 49, mem, all)
  BY <1>5, <1>0, <1>8, <1>9, HeadTold
<1> HIDE DEF head
<1>12. Told(head \o PrintedParam(o, c), 49 + b, mem, all)
  BY <1>10, <1>11, BothTold
<1>13. QED
  BY <1>1, <1>2, <1>12 DEF all

LEMMA GeneralSignal ==
    ASSUME NEW m, m.code = "GENERAL", m.tag \in DOMAIN GeneralMember
    PROVE  /\ \E bytes : Told(SignalPieces(m), 186, "block_configs", bytes)
           /\ m.tag = "BLOCK_CONFIGS" => Told(SignalPieces(m), 186, MemberOf(m), BytesSent(m))
           /\ SignalPieces(m)[Len(SignalPieces(m))].member = "block_configs"
<1> DEFINE bytes == SizeOf(HeadOf("GENERAL")) + SizeOf(GeneralData["block_configs"])
           labels == <<>>
           t == <<"host_handle", "user_data_tag", "buffer_size", "config_size">>
           P == {"host_handle", "user_data_tag", "buffer_size", "config_size"}
           u == <<"n_cols_minus1", "n_rows_minus1">>
           Q == {"n_cols_minus1", "n_rows_minus1"}
           head == HeadPiece("GENERAL", 60, labels, t)
           tail == InUnion("GENERAL", "block_configs", 30, u)
<1>1. SignalPieces(m) = head \o tail
  BY DEF SignalPieces
<1>2. Data["GENERAL"] = GeneralData /\ Data["GENERAL"]["block_configs"] = BlockConfigs
  BY DEF Data, GeneralData
<1>3. Shape(HeadOf("GENERAL"), P, P, 16)
  <2>1. HeadOf("GENERAL") = GeneralHead
    BY DEF HeadOf, Structs
  <2>2. QED
    BY <2>1, GeneralHeadShape
<1>4. Shape(Data["GENERAL"]["block_configs"], Q, Q, 16)
  BY <1>2, BlockConfigsShape
<1>5. SizeOf(HeadOf("GENERAL")) \in Nat /\ SizeOf(GeneralData["block_configs"]) \in Nat
  <2>1. SizeOf(HeadOf("GENERAL")) \in Nat
    BY <1>3, SizeIs
  <2>2. SizeOf(Data["GENERAL"]["block_configs"]) \in Nat
    BY <1>4, SizeIs
  <2>3. QED
    BY <1>2, <2>1, <2>2
<1>6. bytes \in Nat /\ SizeOf(HeadOf("GENERAL")) <= bytes
  BY <1>5
<1>7. Prints(t, 4, P) /\ Prints(u, 2, Q)
  BY DEF Prints
<1>8. Counted(60, Len(labels), 4, 16, 124) /\ Counted(30, 0, 2, 16, 62)
  <2>1. Len(labels) = 0
    OBVIOUS
  <2>2. QED
    BY <2>1 DEF Counted
<1>9. head \in Seq({head[1]}) /\ Len(head) = 1
  BY DEF HeadPiece
<1>10. tail \in Seq({tail[1]}) /\ Len(tail) = 1 /\ tail[1].member = "block_configs"
  BY DEF InUnion, Piece
<1>11. m.tag = "BLOCK_CONFIGS" => MemberOf(m) = "block_configs" /\ BytesSent(m) = bytes
  <2>1. ASSUME m.tag = "BLOCK_CONFIGS" PROVE MemberOf(m) = "block_configs"
    BY <2>1, MemberIsOf DEF GeneralMember
  <2>2. QED
    BY <1>2, <2>1 DEF BytesSent
<1> HIDE DEF labels, t, P, u, Q
<1>12. Told(tail, 62, "block_configs", bytes)
  BY <1>2, <1>4, <1>5, <1>7, <1>8, InUnionTold
<1> HIDE DEF bytes
<1>13. Told(head, 124, "block_configs", bytes)
  BY <1>3, <1>6, <1>7, <1>8, HeadTold
<1> HIDE DEF head, tail
<1>14. Told(head \o tail, 124 + 62, "block_configs", bytes)
  BY <1>12, <1>13, BothTold
<1>15. Len(head \o tail) = 2 /\ (head \o tail)[2] = tail[1]
  <2> DEFINE B == {head[1], tail[1]}
             s == head \o tail
  <2>1. head \in Seq(B) /\ tail \in Seq(B)
    BY <1>9, <1>10
  <2> HIDE DEF B
  <2>2. /\ Len(s) = Len(head) + Len(tail)
        /\ \A i \in 1..(Len(head) + Len(tail)) :
               s[i] = IF i <= Len(head) THEN head[i] ELSE tail[i - Len(head)]
    BY <2>1, ConcatProperties
  <2> HIDE DEF s
  <2>3. Len(s) = 2 /\ \A i \in 1..2 : s[i] = IF i <= 1 THEN head[i] ELSE tail[i - 1]
    BY <1>9, <1>10, <2>2
  <2>4. Len(s) = 2 /\ s[2] = tail[1]
    BY <2>3
  <2>5. QED
    BY <2>4 DEF s
<1>16. Told(head \o tail, 186, "block_configs", bytes)
  <2>1. 124 + 62 = 186
    OBVIOUS
  <2>2. QED
    BY <1>14, <2>1
<1>17. QED
  BY <1>1, <1>10, <1>11, <1>15, <1>16

-----------------------------------------------------------------------------
(* What Logd::rstrip leaves. *)

\* The first k characters are kept.
Kept(s, trim, k) ==
    /\ k \in 0..Len(s)
    /\ RStrip(s, trim) = SubSeq(s, 1, k)
    /\ k > 0 => s[k] \notin trim
    /\ \A i \in (k + 1)..Len(s) : s[i] \in trim

LEMMA RStripKeeps ==
    ASSUME NEW C, NEW s \in Seq(C), NEW trim
    PROVE  \E k : Kept(s, trim, k)
<1> DEFINE l == Len(s)
           Run(f) == f = [i \in 0..l |-> IF i = 0 \/ s[i] \notin trim THEN i ELSE f[i - 1]]
           step == [i \in 1..l |-> [v \in Nat |-> IF s[i] \notin trim THEN i ELSE v]]
<1>1. l \in Nat /\ step \in [1..l -> [Nat -> Nat]]
  <2>1. l \in Nat
    OBVIOUS
  <2> HIDE DEF l
  <2>2. \A i \in 1..l : i \in Nat
    BY <2>1
  <2>3. QED
    BY <2>1, <2>2
<1>2. PICK f \in [0..l -> Nat] : f[0] = 0 /\ \A i \in 1..l : f[i] = step[i][f[i - 1]]
  <2> HIDE DEF l, step, Run
  <2>1. \E f \in [0..l -> Nat] : Goes(f, l, 0, step)
    BY <1>1, Iterates
  <2>2. QED
    BY <2>1 DEF Goes
<1> HIDE DEF l
<1>3. ASSUME NEW i \in 1..l PROVE f[i] = IF s[i] \notin trim THEN i ELSE f[i - 1]
  <2>1. f[i - 1] \in Nat
    <3>1. i - 1 \in 0..l
      BY <1>1
    <3>2. QED
      BY <1>2, <3>1
  <2>2. QED
    BY <1>2, <2>1
<1>4. Run(f)
  <2> DEFINE g == [i \in 0..l |-> IF i = 0 \/ s[i] \notin trim THEN i ELSE f[i - 1]]
  <2>1. ASSUME NEW i \in 0..l PROVE f[i] = g[i]
    <3>1. CASE i = 0
      BY <1>2, <3>1
    <3>2. CASE i # 0
      <4>1. i \in 1..l
        BY <1>1, <3>2
      <4>2. QED
        BY <1>3, <3>2, <4>1
    <3>3. QED
      BY <3>1, <3>2
  <2>2. f = g
    BY <1>2, <2>1
  <2>3. QED
    BY <2>2
<1> DEFINE h == CHOOSE h : Run(h)
<1>5. Run(h)
  <2> HIDE DEF Run
  <2>1. QED
    BY <1>4
<1>6. RStrip(s, trim) = SubSeq(s, 1, h[l])
  BY DEF RStrip, l
<1> HIDE DEF h
<1>7. h[0] = 0 /\ \A i \in 1..l : h[i] = IF s[i] \notin trim THEN i ELSE h[i - 1]
  <2>1. h[0] = 0
    <3>1. 0 \in 0..l
      BY <1>1
    <3>2. QED
      BY <1>5, <3>1
  <2>2. ASSUME NEW i \in 1..l PROVE h[i] = IF s[i] \notin trim THEN i ELSE h[i - 1]
    <3>1. i \in 0..l /\ i # 0
      BY <1>1
    <3>2. QED
      BY <1>5, <3>1
  <2>3. QED
    BY <2>1, <2>2
<1> HIDE DEF Run
<1> DEFINE Ends(i, k) == /\ k \in 0..i
                         /\ k > 0 => s[k] \notin trim
                         /\ \A j \in (k + 1)..i : s[j] \in trim
           T == {i \in Nat : i <= l => Ends(i, h[i])}
<1>8. 0 \in T
  <2>1. Ends(0, 0)
    OBVIOUS
  <2>2. QED
    BY <1>7, <2>1
<1>9. ASSUME NEW i \in Nat, i \in T PROVE i + 1 \in T
  <2>1. SUFFICES ASSUME i + 1 <= l PROVE Ends(i + 1, h[i + 1])
    <3> HIDE DEF Ends
    <3>1. QED
      OBVIOUS
  <2>2. i + 1 \in 1..l /\ (i + 1) - 1 = i /\ i <= l
    BY <1>1, <2>1
  <2>3. Ends(i, h[i])
    <3> HIDE DEF Ends
    <3>1. QED
      BY <1>9, <2>2
  <2>4. CASE s[i + 1] \notin trim
    <3>1. h[i + 1] = i + 1
      BY <1>7, <2>2, <2>4
    <3>2. Ends(i + 1, i + 1)
      BY <2>4
    <3>3. QED
      BY <3>1, <3>2
  <2>5. CASE s[i + 1] \in trim
    <3> DEFINE k == h[i]
    <3>1. h[i + 1] = k
      BY <1>7, <2>2, <2>5
    <3>2. k \in 0..i /\ (k > 0 => s[k] \notin trim) /\ \A j \in (k + 1)..i : s[j] \in trim
      BY <2>3
    <3> HIDE DEF k
    <3>3. ASSUME NEW j \in (k + 1)..(i + 1) PROVE s[j] \in trim
      <4>1. j = i + 1 \/ j \in (k + 1)..i
        BY <3>2
      <4>2. QED
        BY <2>5, <3>2, <4>1
    <3>4. Ends(i + 1, k)
      BY <3>2, <3>3
    <3>5. QED
      BY <3>1, <3>4
  <2>6. QED
    BY <2>4, <2>5
<1> HIDE DEF T
<1>10. l \in T
  BY <1>1, <1>8, <1>9, AllNumbers
<1>11. Ends(l, h[l])
  <2> HIDE DEF Ends
  <2>1. QED
    BY <1>1, <1>10 DEF T
<1> DEFINE k == h[l]
<1>12. Kept(s, trim, k)
  BY <1>6, <1>11 DEF Kept, l
<1>13. QED
  BY <1>12

-----------------------------------------------------------------------------
(* The texts of the records. *)

LEMMA BoundedIsSeq ==
    ASSUME NEW S, NEW m \in Nat, NEW s \in BoundedSeq(S, m) PROVE s \in Seq(S)
<1>1. PICK k \in 0..m : s \in [1..k -> S]
  BY DEF BoundedSeq, SeqOf
<1>2. k \in Nat
  BY <1>1
<1>3. QED
  BY <1>1, <1>2

LEMMA TextsAre == ASSUME NEW t \in Texts PROVE t \in Seq(Chars)
<1>1. TextLength \in Nat
  BY UnpackAssumption
<1>2. QED
  BY <1>1, BoundedIsSeq DEF Texts

\* No signal is called RPC.
LEMMA SignalIsNoRpc == ASSUME NEW m \in SignalsSent PROVE m.code # "RPC"
<1>1. "RPC" \notin Requests \cup Responses \cup Buffers \cup OtherCodes
  BY DEF Requests, Responses, Buffers, OtherCodes
<1>2. "RPC" \notin DOMAIN Tags
  BY DEF Tags
<1>3. \A q \in Logged : q.code # "RPC"
  BY <1>1, <1>2 DEF Messages, Logged
<1>4. [code |-> m.code, tag |-> m.tag] \in Logged
  BY DEF SignalsSent
<1>5. [code |-> m.code, tag |-> m.tag].code = m.code
  OBVIOUS
<1>6. QED
  BY <1>3, <1>4, <1>5

LEMMA TextTyped == ASSUME NEW r \in Records, r.type = "TEXT" PROVE r.text \in Seq(Chars)
<1>1. r \in [type : {"TEXT"}, text : Texts]
  BY DEF Records, Fwif
<1>2. QED
  BY <1>1, TextsAre

LEMMA RpcTyped ==
    ASSUME NEW r \in Records, r.type = "FWIF", r.msg.code = "RPC"
    PROVE  r.msg.text \in Seq(Chars)
<1>1. r.msg \in SignalsSent \/ r.msg \in RpcSent
  BY DEF Records, Fwif
<1>2. r.msg \in RpcSent
  BY <1>1, SignalIsNoRpc
<1>3. r.msg.text \in {<<>>} \cup Texts
  BY <1>2 DEF RpcSent
<1>4. <<>> \in Seq(Chars)
  BY EmptySeq
<1>5. QED
  BY <1>3, <1>4, TextsAre

\* A list of more than four regions.
LongList(m) == m.code = "PARAM" /\ m.tag = "REGIONS" /\ m.count > 4

LEMMA SignalTyped ==
    ASSUME NEW m \in SignalsSent
    PROVE  /\ m.count \in Nat
           /\ m.count # 0 => m.code = "PARAM" /\ m.tag = "REGIONS"
           /\ m.code = "SET_OPTION" => m.tag \in Options
           /\ m.code = "EVENT" => m.tag \in DOMAIN EventMember
           /\ m.code = "PARAM" => m.tag \in DOMAIN ParamMember
           /\ m.code = "FRAME" => m.tag \in Formats
           /\ m.code = "GENERAL" => m.tag \in DOMAIN GeneralMember
<1> DEFINE q == [code |-> m.code, tag |-> m.tag]
<1>1. q \in Logged /\ m \in Signals /\ (m.tag # "REGIONS" => m.count = 0)
  BY DEF SignalsSent
<1>2. q.code = m.code /\ q.tag = m.tag
  OBVIOUS
<1> HIDE DEF q
<1>3. m.count \in Nat
  BY <1>1, UnpackAssumption DEF Signals
<1>6. OtherCodes \cap DOMAIN Tags = {}
  BY DEF OtherCodes, Tags
<1>4. /\ q.code \in DOMAIN Tags => q.tag \in Tags[q.code]
      /\ q.code \notin DOMAIN Tags => q.tag = "none"
  BY <1>1, <1>6 DEF Logged, Messages
<1>5. /\ "SET_OPTION" \in DOMAIN Tags /\ Tags["SET_OPTION"] = Options
      /\ "EVENT" \in DOMAIN Tags /\ Tags["EVENT"] = DOMAIN EventMember
      /\ "PARAM" \in DOMAIN Tags /\ Tags["PARAM"] = DOMAIN ParamMember
      /\ "FRAME" \in DOMAIN Tags /\ Tags["FRAME"] = Formats
      /\ "GENERAL" \in DOMAIN Tags /\ Tags["GENERAL"] = DOMAIN GeneralMember
      /\ DOMAIN Tags = {"SET_OPTION", "EVENT", "PARAM", "FRAME", "GENERAL"}
  BY DEF Tags, Formats
<1>7. q.tag = "REGIONS" => q.code = "PARAM"
  <2>1. "REGIONS" \notin Options
    BY DEF Options, StructOption
  <2>2. "REGIONS" \notin DOMAIN EventMember
    BY DEF EventMember
  <2>3. "REGIONS" \notin Formats
    BY DEF Formats, AfbcFormats, PlanarFormats
  <2>4. "REGIONS" \notin DOMAIN GeneralMember
    BY DEF GeneralMember
  <2>5. QED
    BY <1>4, <1>5, <2>1, <2>2, <2>3, <2>4
<1>8. m.count # 0 => m.code = "PARAM" /\ m.tag = "REGIONS"
  BY <1>1, <1>2, <1>7
<1>9. QED
  BY <1>2, <1>3, <1>4, <1>5, <1>8

\* How long a list of regions can be.
ListLength(m) == 87 + (m.count * 89)

\* Every message is printed as what was sent, in 499 characters if it is no long list;
\* but for the statistics of an encoder, which are printed as the blocks, and what is
\* behind a list with too many regions.
LEMMA SignalFits ==
    ASSUME NEW m \in SignalsSent, ~(m.code = "GENERAL" /\ m.tag = "ENCODER_STATS")
    PROVE  /\ Told(SignalPieces(m), IF LongList(m) THEN ListLength(m) ELSE 499,
                   MemberOf(m), Reach(m))
           /\ ListLength(m) \in Nat
<1> DEFINE ps == SignalPieces(m)
           mem == MemberOf(m)
           bytes == Reach(m)
           b == IF LongList(m) THEN ListLength(m) ELSE 499
<1>a. ListLength(m) \in Nat
  BY SignalTyped DEF ListLength
<1> SUFFICES Told(ps, b, mem, bytes)
  BY <1>a
<1>1. b \in Nat /\ (m.code # "PARAM" => b = 499)
  BY <1>a DEF LongList
<1>0. m.code # "PARAM" => bytes = BytesSent(m)
  <2>1. m.code # "PARAM" => m.count = 0
    BY SignalTyped
  <2>2. QED
    BY <2>1 DEF Reach, MaxRegions
<1>2. CASE m.code = "SET_OPTION"
  <2>1. Told(ps, 150, mem, bytes) /\ 150 <= b
    BY <1>0, <1>1, <1>2, SignalTyped, OptionSignal
  <2> HIDE DEF ps, mem, bytes, b
  <2>2. QED
    BY <1>1, <2>1, TellsLess
<1>3. CASE m.code = "EVENT"
  <2>1. Told(ps, 497, mem, bytes) /\ 497 <= b
    BY <1>0, <1>1, <1>3, SignalTyped, EventSignal
  <2> HIDE DEF ps, mem, bytes, b
  <2>2. QED
    BY <1>1, <2>1, TellsLess
<1>4. CASE m.code = "FRAME"
  <2>1. Told(ps, 472, mem, bytes) /\ 472 <= b
    BY <1>0, <1>1, <1>4, SignalTyped, FrameSignal
  <2> HIDE DEF ps, mem, bytes, b
  <2>2. QED
    BY <1>1, <2>1, TellsLess
<1>5. CASE m.code = "PARAM"
  <2> DEFINE c == IF m.tag = "REGIONS" THEN RegionsLength(m.count) ELSE 136
  <2>1. /\ m.tag \in DOMAIN ParamMember /\ m.count \in Nat
        /\ m.tag # "REGIONS" => m.count = 0
    BY <1>5, SignalTyped
  <2>2. Told(ps, 49 + c, mem, bytes)
    BY <1>5, <2>1, ParamSignal
  <2>3. c \in Nat /\ 49 + c <= b
    <3>1. CASE m.tag = "REGIONS"
      BY <1>5, <2>1, <3>1 DEF LongList, RegionsLength, ListLength
    <3>2. CASE m.tag # "REGIONS"
      BY <1>5, <3>2 DEF LongList
    <3>3. QED
      BY <3>1, <3>2
  <2> HIDE DEF ps, mem, bytes, b, c
  <2>4. QED
    BY <1>1, <2>2, <2>3, TellsLess
<1>6. CASE m.code = "GENERAL"
  <2>1. m.tag \in DOMAIN GeneralMember
    BY <1>6, SignalTyped
  <2>2. m.tag = "BLOCK_CONFIGS"
    BY <1>6, <2>1 DEF GeneralMember
  <2>3. Told(ps, 186, mem, bytes) /\ 186 <= b
    BY <1>0, <1>1, <1>6, <2>1, <2>2, GeneralSignal
  <2> HIDE DEF ps, mem, bytes, b
  <2>4. QED
    BY <1>1, <2>3, TellsLess
<1>7. CASE m.code \notin {"SET_OPTION", "EVENT", "PARAM", "FRAME", "GENERAL"}
  <2>1. ps = StructPieces(m.code)
    BY <1>7 DEF SignalPieces
  <2>2. mem = "none"
    BY <1>7, MemberIsOf
  <2>3. bytes = SizeOf(HeadOf(m.code)) + 0
    BY <1>0, <1>7, <2>2 DEF BytesSent
  <2>4. Told(ps, 279, mem, bytes) /\ 279 <= b
    BY <1>1, <1>7, <2>1, <2>2, <2>3, StructTold
  <2> HIDE DEF ps, mem, bytes, b
  <2>5. QED
    BY <1>1, <2>4, TellsLess
<1>8. QED
  BY <1>2, <1>3, <1>4, <1>5, <1>6, <1>7

\* The text of a print has a length; without the character that stands for many it is no
\* longer than it was.
LEMMA PrintLength ==
    ASSUME NEW t \in Seq(Chars)
    PROVE  /\ Length(RStrip(t, {"\n"})) \in Nat
           /\ "long" \notin Range(t) => Length(RStrip(t, {"\n"})) <= Len(t)
<1> DEFINE u == RStrip(t, {"\n"})
           l == Len(t)
           Of(c) == IF c = "long" THEN Long ELSE 1
           ns == [i \in DOMAIN u |-> Of(u[i])]
<1>1. PICK k : Kept(t, {"\n"}, k)
  BY RStripKeeps
<1>2. k \in 0..l /\ u = SubSeq(t, 1, k) /\ l \in Nat
  BY <1>1 DEF Kept
<1> HIDE DEF u
<1>3. DOMAIN u = 1..k /\ Len(u) = k /\ \A i \in 1..k : u[i] = t[i]
  <2>1. \A i \in 1..k : t[i] \in Chars
    BY <1>2
  <2>2. 1 \in Int /\ k \in Int
    BY <1>2
  <2>3. /\ Len(SubSeq(t, 1, k)) = IF 1 <= k THEN k - 1 + 1 ELSE 0
        /\ SubSeq(t, 1, k) \in Seq(Chars)
        /\ \A i \in 1..(k - 1 + 1) : SubSeq(t, 1, k)[i] = t[1 + i - 1]
    BY <2>1, <2>2, SubSeqProperties
  <2>4. Len(u) = k /\ u \in Seq(Chars) /\ \A i \in 1..k : u[i] = t[i]
    BY <1>2, <2>3
  <2>5. QED
    BY <2>4
<1>4. Length(u) = SumOf(ns)
  BY DEF Length
<1>5. Long \in Nat
  BY UnpackAssumption
<1>6. ns \in [1..k -> Nat]
  BY <1>3, <1>5
<1>7. ns \in Seq(Nat) /\ Len(ns) = k
  <2> HIDE DEF ns
  <2>1. QED
    BY <1>2, <1>6, IsASeq
<1>8. SumOf(ns) \in Nat
  <2> HIDE DEF ns
  <2>1. QED
    BY <1>7, SumExists, SumLess
<1>9. ASSUME "long" \notin Range(t) PROVE SumOf(ns) <= l
  <2>1. \A i \in 1..k : ns[i] = 1
    <3>1. \A i \in 1..l : t[i] # "long"
      BY <1>9 DEF Range
    <3>2. QED
      BY <1>2, <1>3, <3>1
  <2>2. \A i \in 1..k : ns[i] <= 1
    BY <2>1
  <2> HIDE DEF ns
  <2>3. SumOf(ns) <= Len(ns) * 1
    BY <1>7, <2>2, SumAtMost
  <2>4. QED
    BY <1>2, <1>7, <1>8, <2>3
<1>10. QED
  BY <1>4, <1>8, <1>9 DEF u

LEMMA InRpcTold ==
    ASSUME NEW text, NEW k, NEW b, Counted(text, 0, k, 16, b),
           NEW member, NEW P, Shape(RpcData[member], P, P, 16),
           NEW names, Prints(names, k, P), SizeOf(RpcHead) \in Nat
    PROVE  /\ SizeOf(RpcData[member]) \in Nat
           /\ Told(InRpc(member, text, names), b, member,
                   SizeOf(RpcHead) + SizeOf(RpcData[member]))
<1> DEFINE s == RpcData[member]
           at == SizeOf(RpcHead)
           labels == <<>>
           ps == <<Piece(text, labels, member, s, at, names)>>
           bytes == at + SizeOf(s)
<1>1. SizeOf(s) \in Nat
  BY SizeIs
<1>2. Len(labels) = 0
  OBVIOUS
<1>3. Shape(s, P, P, 16) /\ at \in Nat
  OBVIOUS
<1> HIDE DEF s, at, labels
<1>4. Reaches(at, s, bytes)
  BY <1>1, <1>3 DEF Reaches
<1> HIDE DEF bytes
<1>5. Told(ps, b, member, bytes)
  BY <1>2, <1>3, <1>4, PieceTold
<1>6. QED
  BY <1>1, <1>5 DEF InRpc, s, at, labels, bytes

LEMMA BareRpcTold ==
    ASSUME NEW text, NEW b, Counted(text, 0, 0, 0, b), NEW member, NEW bytes
    PROVE  Told(InRpc(member, text, <<>>), b, member, bytes)
<1> DEFINE labels == <<>>
           s == RpcData[member]
           at == SizeOf(RpcHead)
<1>1. Len(labels) = 0 /\ member \in {"none", member}
  OBVIOUS
<1> HIDE DEF labels, s, at
<1>2. Told(<<Piece(text, labels, member, s, at, <<>>)>>, b, member, bytes)
  BY <1>1, BareTold
<1>3. QED
  BY <1>2 DEF InRpc, labels, s, at

\* What follows the head of a call.
RpcBody(m) ==
    CASE m.state = "PARAM" /\ m.call = "DEBUG_PRINTF" ->
              InRpc("debug_print", 10 + Length(RStrip(m.text, {"\n"})), <<>>)
         [] m.state = "PARAM" /\ m.call = "MEM_ALLOC" ->
              InRpc("mem_alloc", 52, <<"size", "max_size", "region", "log2_alignment">>)
         [] m.state = "PARAM" /\ m.call = "MEM_RESIZE" ->
              InRpc("mem_resize", 25, <<"ve_pointer", "new_size">>)
         [] m.state = "PARAM" /\ m.call = "MEM_FREE" -> InRpc("mem_free", 12, <<"ve_pointer">>)
         [] m.state = "RETURN" /\ m.call \in {"MEM_ALLOC", "MEM_RESIZE"} ->
              InRpc("data", 7 + 8, <<>>)
         [] OTHER -> <<>>

LEMMA RpcBodyTold ==
    ASSUME NEW m, m.text \in Seq(Chars), SizeOf(RpcHead) \in Nat
    PROVE  \E b \in Nat, bytes \in Nat :
               /\ \E mem : Told(RpcBody(m), b, mem, bytes)
               /\ SizeOf(RpcHead) <= bytes
               /\ "long" \notin Range(m.text) => b <= 116 + Len(m.text)
<1> DEFINE head == SizeOf(RpcHead)
           ps == RpcBody(m)
           l == Len(m.text)
           long == "long" \in Range(m.text)
           Goal == \E b \in Nat, bytes \in Nat :
                       /\ \E mem : Told(ps, b, mem, bytes)
                       /\ head <= bytes
                       /\ ~long => b <= 116 + l
<1>0. head \in Nat /\ l \in Nat
  OBVIOUS
<1>1. SUFFICES Goal
  OBVIOUS
<1>2. CASE m.state = "PARAM" /\ m.call = "DEBUG_PRINTF"
  <2> DEFINE k == Length(RStrip(m.text, {"\n"}))
  <2>1. ps = InRpc("debug_print", 10 + k, <<>>)
    BY <1>2 DEF RpcBody
  <2>2. k \in Nat /\ (~long => k <= l)
    BY PrintLength
  <2> HIDE DEF ps, k, l, long, head
  <2>3. Counted(10 + k, 0, 0, 0, 10 + k)
    BY <2>2 DEF Counted
  <2>4. Told(ps, 10 + k, "debug_print", head)
    BY <2>1, <2>3, BareRpcTold
  <2>5. 10 + k \in Nat /\ (~long => 10 + k <= 116 + l)
    BY <1>0, <2>2
  <2>6. QED
    BY <1>0, <2>4, <2>5
<1>3. CASE m.state = "PARAM" /\ m.call = "MEM_ALLOC"
  <2> DEFINE t == <<"size", "max_size", "region", "log2_alignment">>
             P == {"size", "max_size", "region", "log2_alignment"}
             bytes == head + SizeOf(RpcData["mem_alloc"])
  <2>1. ps = InRpc("mem_alloc", 52, t)
    BY <1>3 DEF RpcBody
  <2>2. Prints(t, 4, P)
    BY DEF Prints
  <2>3. Shape(RpcData["mem_alloc"], P, P, 16)
    BY RpcMemAlloc
  <2>4. Counted(52, 0, 4, 16, 116)
    BY DEF Counted
  <2> HIDE DEF ps, t, P, l, long
  <2>5. SizeOf(RpcData["mem_alloc"]) \in Nat /\ Told(ps, 116, "mem_alloc", bytes)
    BY <2>1, <2>2, <2>3, <2>4, InRpcTold
  <2> HIDE DEF head
  <2>6. bytes \in Nat /\ head <= bytes /\ 116 <= 116 + l
    BY <1>0, <2>5
  <2> HIDE DEF bytes
  <2>7. QED
    BY <2>5, <2>6
<1>4. CASE m.state = "PARAM" /\ m.call = "MEM_RESIZE"
  <2> DEFINE t == <<"ve_pointer", "new_size">>
             P == {"ve_pointer", "new_size"}
             bytes == head + SizeOf(RpcData["mem_resize"])
  <2>1. ps = InRpc("mem_resize", 25, t)
    BY <1>4 DEF RpcBody
  <2>2. Prints(t, 2, P)
    BY DEF Prints
  <2>3. Shape(RpcData["mem_resize"], P, P, 16)
    BY RpcMemResize
  <2>4. Counted(25, 0, 2, 16, 116)
    BY DEF Counted
  <2> HIDE DEF ps, t, P, l, long
  <2>5. SizeOf(RpcData["mem_resize"]) \in Nat /\ Told(ps, 116, "mem_resize", bytes)
    BY <2>1, <2>2, <2>3, <2>4, InRpcTold
  <2> HIDE DEF head
  <2>6. bytes \in Nat /\ head <= bytes /\ 116 <= 116 + l
    BY <1>0, <2>5
  <2> HIDE DEF bytes
  <2>7. QED
    BY <2>5, <2>6
<1>5. CASE m.state = "PARAM" /\ m.call = "MEM_FREE"
  <2> DEFINE t == <<"ve_pointer">>
             P == {"ve_pointer"}
             bytes == head + SizeOf(RpcData["mem_free"])
  <2>1. ps = InRpc("mem_free", 12, t)
    BY <1>5 DEF RpcBody
  <2>2. Prints(t, 1, P)
    BY DEF Prints
  <2>3. Shape(RpcData["mem_free"], P, P, 16)
    BY RpcMemFree
  <2>4. Counted(12, 0, 1, 16, 116)
    BY DEF Counted
  <2> HIDE DEF ps, t, P, l, long
  <2>5. SizeOf(RpcData["mem_free"]) \in Nat /\ Told(ps, 116, "mem_free", bytes)
    BY <2>1, <2>2, <2>3, <2>4, InRpcTold
  <2> HIDE DEF head
  <2>6. bytes \in Nat /\ head <= bytes /\ 116 <= 116 + l
    BY <1>0, <2>5
  <2> HIDE DEF bytes
  <2>7. QED
    BY <2>5, <2>6
<1>6. CASE m.state = "RETURN" /\ m.call \in {"MEM_ALLOC", "MEM_RESIZE"}
  <2>1. ps = InRpc("data", 7 + 8, <<>>)
    BY <1>6 DEF RpcBody
  <2>2. Counted(7 + 8, 0, 0, 0, 116)
    BY DEF Counted
  <2> HIDE DEF ps, l, long, head
  <2>3. Told(ps, 116, "data", head)
    BY <2>1, <2>2, BareRpcTold
  <2>4. 116 <= 116 + l
    BY <1>0
  <2>5. QED
    BY <1>0, <2>3, <2>4
<1>7. CASE ps = <<>>
  <2>1. Told(ps, 0, "none", head)
    BY <1>7, NoneTold
  <2> HIDE DEF ps, l, long, head
  <2>2. 0 <= 116 + l
    BY <1>0
  <2>3. QED
    BY <1>0, <2>1, <2>2
<1>8. \/ ps = <<>>
      \/ m.state = "PARAM" /\ m.call \in {"DEBUG_PRINTF", "MEM_ALLOC", "MEM_RESIZE", "MEM_FREE"}
      \/ m.state = "RETURN" /\ m.call \in {"MEM_ALLOC", "MEM_RESIZE"}
  BY DEF RpcBody
<1>9. QED
  BY <1>2, <1>3, <1>4, <1>5, <1>6, <1>7, <1>8

LEMMA RpcTold ==
    ASSUME NEW m, m.text \in Seq(Chars)
    PROVE  \E b \in Nat :
               /\ \E mem, bytes : Told(RpcPieces(m), b, mem, bytes)
               /\ "long" \notin Range(m.text) => b <= 205 + Len(m.text)
<1> DEFINE labels == <<m.state, m.call>>
           t == <<"size">>
           P == {"size"}
           l == Len(m.text)
           long == "long" \in Range(m.text)
           head == <<Piece(23, labels, "none", RpcHead, 0, t)>>
           tail == RpcBody(m)
<1>1. RpcPieces(m) = head \o tail
  BY DEF RpcPieces, RpcBody
<1>2. Shape(RpcHead, P, P, 16)
  BY RpcHeadShape
<1>3. SizeOf(RpcHead) \in Nat
  BY <1>2, SizeIs
<1>4. Prints(t, 1, P)
  BY DEF Prints
<1>5. Counted(23, Len(labels), 1, 16, 89)
  <2>1. Len(labels) = 2
    OBVIOUS
  <2>2. QED
    BY <2>1 DEF Counted
<1>6. l \in Nat
  OBVIOUS
<1>7. PICK c \in Nat, bytes \in Nat :
          /\ \E mem : Told(tail, c, mem, bytes)
          /\ SizeOf(RpcHead) <= bytes
          /\ ~long => c <= 116 + l
  BY <1>3, RpcBodyTold
<1> HIDE DEF labels, t, P, l, long, tail
<1>8. PICK mem : Told(tail, c, mem, bytes)
  BY <1>7
<1>9. Told(head, 89, mem, bytes)
  <2>1. Reaches(0, RpcHead, bytes)
    BY <1>3, <1>7 DEF Reaches
  <2>2. "none" \in {"none", mem}
    OBVIOUS
  <2>3. QED
    BY <1>2, <1>4, <1>5, <2>1, <2>2, PieceTold
<1> HIDE DEF head
<1>10. Told(head \o tail, 89 + c, mem, bytes)
  BY <1>8, <1>9, BothTold
<1>11. 89 + c \in Nat /\ (~long => 89 + c <= 205 + l)
  BY <1>6, <1>7
<1>12. Told(RpcPieces(m), 89 + c, mem, bytes)
  BY <1>1, <1>10
<1>13. QED
  BY <1>11, <1>12 DEF long, l

LEMMA BinaryTold == \E mem, bytes : Told(BinaryPieces, 499, mem, bytes)
<1> DEFINE labels == <<>>
           t == <<"protocol_major", "protocol_minor", "info_string", "part_number",
                  "version_string">>
           P == {"protocol_major", "protocol_minor", "info_string", "part_number",
                 "version_string"}
           bytes == SizeOf(FirmwareHeader)
<1>1. Shape(FirmwareHeader, P, P, 55)
  BY FirmwareHeaderShape
<1>2. bytes \in Nat
  BY <1>1, SizeIs
<1>3. Prints(t, 5, P)
  BY DEF Prints
<1>4. Counted(83, Len(labels), 5, 55, 499)
  <2>1. Len(labels) = 0
    OBVIOUS
  <2>2. QED
    BY <2>1 DEF Counted
<1>5. Reaches(0, FirmwareHeader, bytes)
  BY <1>2 DEF Reaches
<1>6. BinaryPieces = <<Piece(83, labels, "none", FirmwareHeader, 0, t)>>
  BY DEF BinaryPieces
<1> HIDE DEF labels, t, P, bytes
<1>7. "none" \in {"none", "none"}
  OBVIOUS
<1>8. Told(<<Piece(83, labels, "none", FirmwareHeader, 0, t)>>, 499, "none", bytes)
  BY <1>1, <1>3, <1>4, <1>5, <1>7, PieceTold
<1>9. QED
  BY <1>6, <1>8

\* The records that may be cut.
Exempt(r) ==
    /\ r.type = "FWIF"
    /\ LongList(r.msg) \/ (r.msg.code = "RPC" /\ "long" \in Range(r.msg.text))

\* A text of a record is no longer than the texts are.
LEMMA RpcRecord ==
    ASSUME NEW r \in Records, r.type = "FWIF", r.msg.code = "RPC"
    PROVE  r.msg.text \in Seq(Chars) /\ Len(r.msg.text) <= TextLength
<1>1. r.msg.text \in Seq(Chars)
  BY RpcTyped
<1>2. r.msg \in SignalsSent \/ r.msg \in RpcSent
  BY DEF Records, Fwif
<1>3. r.msg.text \in {<<>>} \cup Texts
  BY <1>2, SignalIsNoRpc DEF RpcSent
<1>4. TextLength \in Nat
  BY UnpackAssumption
<1>5. ASSUME NEW t \in Texts PROVE Len(t) <= TextLength
  <2>1. PICK k \in 0..TextLength : t \in [1..k -> Chars]
    BY <1>5 DEF Texts, BoundedSeq, SeqOf
  <2>2. k \in Nat /\ k <= TextLength
    BY <1>4, <2>1
  <2>3. Len(t) = k
    BY <2>1, <2>2
  <2>4. QED
    BY <2>2, <2>3
<1>6. Len(<<>>) = 0
  OBVIOUS
<1>7. QED
  BY <1>1, <1>3, <1>4, <1>5, <1>6

\* What is printed for a record, and how long it can be.
LEMMA PiecesTold ==
    ASSUME NEW r \in Records
    PROVE  \E b \in Nat :
               /\ \E mem, bytes : Told(Pieces(r), b, mem, bytes)
               /\ ~Exempt(r) => b <= 499 \/ b <= 205 + TextLength
<1> DEFINE ps == Pieces(r)
           free == Exempt(r)
<1>1. SUFFICES \E b \in Nat : /\ \E mem, bytes : Told(ps, b, mem, bytes)
                              /\ ~free => b <= 499 \/ b <= 205 + TextLength
  OBVIOUS
<1>0. TextLength \in Nat
  BY UnpackAssumption
<1>2. CASE ps = <<>>
  <2>1. Told(ps, 0, "none", "none")
    BY <1>2, NoneTold
  <2> HIDE DEF ps, free
  <2>2. 0 \in Nat /\ 0 <= 499
    OBVIOUS
  <2>3. QED
    BY <2>1, <2>2
<1>3. CASE r.type = "FW_BINARY"
  <2>1. ps = BinaryPieces
    BY <1>3 DEF Pieces
  <2>2. \E mem, bytes : Told(ps, 499, mem, bytes)
    BY <2>1, BinaryTold
  <2> HIDE DEF ps, free
  <2>3. 499 \in Nat /\ 499 <= 499
    OBVIOUS
  <2>4. QED
    BY <2>2, <2>3
<1>4. CASE r.type = "FWIF" /\ Understood(r) /\ r.channel = "RPC"
  <2>1. ps = RpcPieces(r.msg)
    BY <1>4 DEF Pieces
  <2>2. r.msg.code = "RPC"
    <3>1. r.msg \in RpcSent
      BY <1>4 DEF Records, Fwif
    <3>2. QED
      BY <3>1 DEF RpcSent
  <2>3. r.msg.text \in Seq(Chars) /\ Len(r.msg.text) <= TextLength
    BY <1>4, <2>2, RpcRecord
  <2>4. PICK b \in Nat : /\ \E mem, bytes : Told(ps, b, mem, bytes)
                         /\ "long" \notin Range(r.msg.text) => b <= 205 + Len(r.msg.text)
    BY <2>1, <2>3, RpcTold
  <2>5. ~free => "long" \notin Range(r.msg.text)
    BY <1>4, <2>2 DEF Exempt
  <2>6. Len(r.msg.text) \in Nat
    BY <2>3
  <2> DEFINE l == Len(r.msg.text)
  <2> HIDE DEF ps, free, l
  <2>7. ~free => b <= 205 + l
    BY <2>4, <2>5 DEF l
  <2>8. l \in Nat /\ l <= TextLength
    BY <2>3, <2>6 DEF l
  <2>9. ~free => b <= 205 + TextLength
    BY <1>0, <2>7, <2>8
  <2>10. QED
    BY <2>4, <2>9
<1>5. CASE r.type = "FWIF" /\ Understood(r) /\ r.channel \in {"MESSAGE", "INPUT", "OUTPUT"}
  <2> DEFINE m == r.msg
  <2>1. ps = SignalPieces(m)
    BY <1>5 DEF Pieces
  <2>2. m \in SignalsSent
    BY <1>5 DEF Records, Fwif
  <2>3. CASE m.code = "GENERAL"
    <3>1. m.tag \in DOMAIN GeneralMember
      BY <2>2, <2>3, SignalTyped
    <3>2. \E mem, bytes : Told(ps, 186, mem, bytes)
      BY <2>1, <2>3, <3>1, GeneralSignal
    <3> HIDE DEF ps, free
    <3>3. 186 \in Nat /\ 186 <= 499
      OBVIOUS
    <3>4. QED
      BY <3>2, <3>3
  <2>4. CASE m.code # "GENERAL"
    <3> DEFINE b == IF LongList(m) THEN ListLength(m) ELSE 499
    <3>1. Told(ps, b, MemberOf(m), Reach(m)) /\ ListLength(m) \in Nat
      BY <2>1, <2>2, <2>4, SignalFits
    <3>2. b \in Nat
      BY <3>1
    <3>3. ~free => b <= 499
      BY <1>5 DEF Exempt
    <3> HIDE DEF ps, free, b
    <3>4. QED
      BY <3>1, <3>2, <3>3
  <2>5. QED
    BY <2>3, <2>4
<1>6. \/ ps = <<>>
      \/ r.type = "FW_BINARY"
      \/ r.type = "FWIF" /\ Understood(r) /\ r.channel = "RPC"
      \/ r.type = "FWIF" /\ Understood(r) /\ r.channel \in {"MESSAGE", "INPUT", "OUTPUT"}
  BY DEF Pieces
<1>7. QED
  BY <1>2, <1>3, <1>4, <1>5, <1>6

-----------------------------------------------------------------------------
(* The buffer. *)

AllPieces == UNION {Members(Pieces(r)) : r \in Records}

\* The pieces have lengths.
LEMMA LengthsAre ==
    /\ \A r \in Records : Pieces(r) \in Seq(AllPieces)
    /\ \A p \in AllPieces : Lengthy(p)
<1>1. ASSUME NEW r \in Records
      PROVE  Pieces(r) \in Seq(AllPieces) /\ \A p \in Members(Pieces(r)) : Lengthy(p)
  <2> DEFINE ps == Pieces(r)
  <2>1. PICK b, mem, bytes : Told(ps, b, mem, bytes)
    BY PiecesTold
  <2>2. Members(ps) \subseteq AllPieces
    BY DEF AllPieces
  <2> HIDE DEF ps
  <2>3. ps \in Seq(Members(ps)) /\ \A i \in 1..Len(ps) : Lengthy(ps[i])
    BY <2>1 DEF Told
  <2>4. DOMAIN ps = 1..Len(ps)
    BY <2>3
  <2>5. \A p \in Members(ps) : Lengthy(p)
    BY <2>3, <2>4 DEF Members
  <2>6. ps \in Seq(AllPieces)
    BY <2>2, <2>3
  <2>7. QED
    BY <2>5, <2>6 DEF ps
<1>2. QED
  BY <1>1 DEF AllPieces

\* DataExact is inductive once the pieces are known to have lengths.
IInv ==
    /\ n \in Nat /\ total \in Nat
    /\ todo \in Seq(AllPieces)
    /\ DataExact

LEMMA InitIInv == Init => IInv
  BY UnpackAssumption, SMT DEF Init, IInv, DataExact

LEMMA NextIInv == IInv /\ [Next]_vars => IInv'
<1> SUFFICES ASSUME IInv, [Next]_vars PROVE IInv'
  OBVIOUS
<1> USE DEF IInv
<1>1. CASE UNCHANGED vars
  BY <1>1 DEF vars, DataExact
<1>2. ASSUME NEW r \in Records, Unpack(r) PROVE IInv'
  <2>1. todo' \in Seq(AllPieces)
    BY <1>2, LengthsAre DEF Unpack
  <2> QED
    BY <1>2, <2>1 DEF Unpack, DataExact
<1>3. ASSUME todo # <<>>, NEW len \in Lengths(Head(todo)), NEW chars, PrintPiece(len, chars)
      PROVE  IInv'
  <2>1. Head(todo) \in AllPieces /\ Tail(todo) \in Seq(AllPieces)
    BY <1>3
  <2>2. len \in Nat
    BY <1>3, <2>1, LengthsAre DEF Lengthy
  <2>3. DataSize \in Nat \ {0}
    BY UnpackAssumption
  <2>4. n' = IF total + len < DataSize THEN total + len ELSE DataSize - 1
    <3>1. n = IF total < DataSize THEN total ELSE DataSize - 1
      BY DEF DataExact
    <3>2. n + Scn(len, DataSize - n)
            = IF total + len < DataSize THEN total + len ELSE DataSize - 1
      <4>1. n \in Nat /\ total \in Nat
        OBVIOUS
      <4> HIDE DEF IInv
      <4>2. CASE total < DataSize
        <5>1. n = total
          BY <3>1, <4>2
        <5> QED
          BY <2>2, <2>3, <4>1, <4>2, <5>1 DEF Scn
      <4>3. CASE ~(total < DataSize)
        <5>1. n = DataSize - 1 /\ DataSize - n = 1 /\ ~(total + len < DataSize)
          BY <2>2, <2>3, <3>1, <4>1, <4>3
        <5>2. Scn(len, 1) = 0
          BY <2>2 DEF Scn
        <5> QED
          BY <2>3, <5>1, <5>2
      <4> QED
        BY <4>2, <4>3
    <3> QED
      BY <1>3, <3>2 DEF PrintPiece
  <2>5. total' = total + len /\ todo' = Tail(todo)
    BY <1>3 DEF PrintPiece
  <2> QED
    BY <2>1, <2>2, <2>3, <2>4, <2>5 DEF DataExact
<1>4. CASE WritePast \/ WriteLine
  BY <1>4 DEF WritePast, WriteLine, DataExact
<1>5. CASE Return
  BY <1>5, UnpackAssumption DEF Return, DataExact
<1>6. CASE Terminated
  BY <1>1, <1>6 DEF Terminated
<1> QED
  BY <1>1, <1>2, <1>3, <1>4, <1>5, <1>6 DEF Next

\* The buffer of a description is exact after every number of pieces: it holds all
\* of them, or as much as fits before its terminating zero (Logd::scnprintf).
THEOREM Exactness == Spec => []DataExact
<1>1. IInv => DataExact
  BY DEF IInv
<1> QED
  BY <1>1, InitIInv, NextIInv, PTL DEF Spec

\* With the direction, the name of a signal tells its code, if it has one.
LEMMA NamesTell ==
    ASSUME NEW c, NEW d, OneWay(c, d), c # d
    PROVE  SignalName(c) = SignalName(d) <=> {c, d} \subseteq Unnamed
<1>1. ASSUME NEW e \in Requests \cup Responses \cup Buffers \cup OtherCodes
      PROVE  /\ e # "UNKNOWN"
             /\ SignalName(e) = CASE e \in Unnamed         -> "UNKNOWN"
                                  [] e = "DUMP_REQUEST"  -> "DUMP"
                                  [] e = "DEBUG_REQUEST" -> "DEBUG"
                                  [] OTHER -> e
             /\ e \in Unnamed => e \notin {"DUMP_REQUEST", "DEBUG_REQUEST"}
  <2>1. e # "UNKNOWN"
    BY DEF Requests, Responses, Buffers, OtherCodes
  <2>2. QED
    BY <2>1 DEF SignalName, Unnamed, OtherCodes
<1>2. CASE {c, d} \subseteq Requests \cup Buffers \cup OtherCodes
  <2>1. \A e \in {c, d} : e \notin {"DUMP", "DEBUG"}
    BY <1>2 DEF Requests, Buffers, OtherCodes
  <2>2. QED
    BY <1>1, <1>2, <2>1
<1>3. CASE {c, d} \subseteq Responses \cup Buffers \cup OtherCodes
  <2>1. \A e \in {c, d} : e \notin {"DUMP_REQUEST", "DEBUG_REQUEST"}
    BY <1>3 DEF Responses, Buffers, OtherCodes
  <2>2. QED
    BY <1>1, <1>3, <2>1
<1>4. QED
  BY <1>2, <1>3 DEF OneWay

\* In the JSON line the name of a signal, with the direction of its record, tells which
\* message it was, but for those of the four codes that are all named UNKNOWN, the two of
\* the driver and of newer firmware among them (LogdJSON::unpackFWIFv2 writes no code).
THEOREM SignalsTold == Spec => []SignalTold
<1>1. SignalTold
  BY NamesTell DEF SignalTold
<1>2. QED
  BY <1>1, PTL

-----------------------------------------------------------------------------
(* A line is read token by token. *)

Kinds  == {"start", "first", "comma", "value", "pair", "string", "escape", "end", "error"}
Places == Kinds \X Nat \X Seq(Chars)
At(k, d, s) == <<k, d, s>>
Failed == At("error", 0, <<>>)

LEMMA AtPlace ==
    ASSUME NEW k \in Kinds, NEW d \in Nat, NEW s \in Seq(Chars)
    PROVE  At(k, d, s) \in Places
  BY DEF Places, At

LEMMA FailedPlace == Failed \in Places
<1>1. "error" \in Kinds /\ <<>> \in Seq(Chars)
  BY DEF Kinds
<1>2. QED
  BY <1>1, AtPlace DEF Failed

LEMMA FailedReads == ASSUME NEW t PROVE Reads(Failed, t) = Failed
<1>1. Failed[1] = "error"
  BY DEF Failed, At
<1>2. QED
  BY <1>1 DEF Reads, Failed, At

LEMMA ReadsTyped == ASSUME NEW p \in Places, NEW t PROVE Reads(p, t) \in Places
<1>1. PICK k \in Kinds, d \in Nat, s \in Seq(Chars) : p = At(k, d, s)
  BY DEF Places, At
<1>2. p[1] = k /\ p[2] = d /\ p[3] = s /\ d + 1 \in Nat /\ (d > 0 => d - 1 \in Nat)
  BY <1>1 DEF At
<1>3. /\ "string" \in Kinds /\ "escape" \in Kinds /\ "first" \in Kinds /\ "value" \in Kinds
      /\ "pair" \in Kinds /\ "comma" \in Kinds /\ "end" \in Kinds
      /\ <<>> \in Seq(Chars)
  BY DEF Kinds
<1>4. ASSUME NEW c \in {"a", "'", "long", "\"", "\\"} PROVE Append(s, c) \in Seq(Chars)
  <2>1. c \in Chars
    BY DEF Chars, Special
  <2>2. QED
    BY <2>1, AppendProperties
<1>5. \/ Reads(p, t) \in {At("pair", d, s), At("escape", d, s), At("first", d + 1, s),
                          At("value", d, s), At("string", d, <<>>), At("comma", d, s),
                          At("end", 0, s), Failed}
      \/ \E c \in {"a", "'", "long", "\"", "\\"} : Reads(p, t) = At("string", d, Append(s, c))
      \/ d > 0 /\ Reads(p, t) = At("pair", d - 1, s)
  BY <1>2 DEF Reads, At, Failed
<1>6. /\ At("pair", d, s) \in Places /\ At("escape", d, s) \in Places
      /\ At("first", d + 1, s) \in Places /\ At("value", d, s) \in Places
      /\ At("string", d, <<>>) \in Places /\ At("comma", d, s) \in Places
  BY <1>2, <1>3, AtPlace
<1>7. At("end", 0, s) \in Places /\ (d > 0 => At("pair", d - 1, s) \in Places)
  BY <1>2, <1>3, AtPlace
<1>8. \A c \in {"a", "'", "long", "\"", "\\"} : At("string", d, Append(s, c)) \in Places
  BY <1>3, <1>4, AtPlace
<1>9. QED
  BY <1>5, <1>6, <1>7, <1>8, FailedPlace

ReadBy(f, p, line) ==
    /\ f \in [0..Len(line) -> Places]
    /\ ReadOn(p, line) = f[Len(line)]
    /\ f[0] = p
    /\ \A i \in 1..Len(line) : f[i] = Reads(f[i - 1], line[i])

LEMMA ReadOnIs ==
    ASSUME NEW p \in Places, NEW S, NEW line \in Seq(S)
    PROVE  \E f : ReadBy(f, p, line)
<1> DEFINE l == Len(line)
           Run(f) == f = [i \in 0..l |-> IF i = 0 THEN p ELSE Reads(f[i - 1], line[i])]
           step == [i \in 1..l |-> [q \in Places |-> Reads(q, line[i])]]
<1>1. l \in Nat /\ step \in [1..l -> [Places -> Places]]
  BY ReadsTyped
<1>2. PICK f \in [0..l -> Places] : f[0] = p /\ \A i \in 1..l : f[i] = step[i][f[i - 1]]
  <2> HIDE DEF l, step, Run
  <2>1. \E f \in [0..l -> Places] : Goes(f, l, p, step)
    BY <1>1, Iterates
  <2>2. QED
    BY <2>1 DEF Goes
<1>3. ASSUME NEW i \in 1..l PROVE f[i] = Reads(f[i - 1], line[i])
  <2>1. f[i - 1] \in Places
    BY <1>1, <1>2
  <2>2. QED
    BY <1>2, <2>1
<1> HIDE DEF l
<1>4. Run(f)
  <2> DEFINE g == [i \in 0..l |-> IF i = 0 THEN p ELSE Reads(f[i - 1], line[i])]
  <2>1. \A i \in 0..l : f[i] = g[i]
    BY <1>1, <1>2, <1>3
  <2>2. f = g
    BY <2>1
  <2>3. QED
    BY <2>2
<1> DEFINE h == CHOOSE h : Run(h)
<1>5. Run(h)
  <2> HIDE DEF Run
  <2>1. QED
    BY <1>4
<1>6. ReadOn(p, line) = h[l]
  BY DEF ReadOn, l
<1> HIDE DEF h
<1>7. h[0] = p /\ \A i \in 1..l : h[i] = Reads(h[i - 1], line[i])
  BY <1>1, <1>5
<1>8. h \in [0..l -> Places]
  <2> DEFINE T == {k \in Nat : k <= l => h[k] \in Places}
  <2>1. 0 \in T
    BY <1>7
  <2>2. ASSUME NEW k \in Nat, k \in T PROVE k + 1 \in T
    <3>1. SUFFICES ASSUME k + 1 <= l PROVE h[k + 1] \in Places
      OBVIOUS
    <3>2. h[k] \in Places /\ k + 1 \in 1..l /\ (k + 1) - 1 = k
      BY <1>1, <2>2, <3>1
    <3>3. h[k + 1] = Reads(h[k], line[k + 1])
      BY <1>7, <3>2
    <3>4. QED
      BY <3>2, <3>3, ReadsTyped
  <2> HIDE DEF T
  <2>3. \A k \in Nat : k \in T
    BY <2>1, <2>2, AllNumbers
  <2> USE DEF T
  <2>4. \A k \in 0..l : h[k] \in Places
    BY <1>1, <2>3
  <2>5. QED
    BY <1>5, <2>4
<1>9. QED
  BY <1>6, <1>7, <1>8 DEF l, ReadBy

LEMMA ReadOnTyped ==
    ASSUME NEW p \in Places, NEW S, NEW line \in Seq(S) PROVE ReadOn(p, line) \in Places
<1>1. PICK f : ReadBy(f, p, line)
  BY ReadOnIs
<1>2. Len(line) \in 0..Len(line)
  OBVIOUS
<1>3. QED
  BY <1>1, <1>2 DEF ReadBy

\* First the one part, from there the other.
LEMMA ReadOnParts ==
    ASSUME NEW p \in Places, NEW S, NEW s \in Seq(S), NEW t \in Seq(S)
    PROVE  ReadOn(p, s \o t) = ReadOn(ReadOn(p, s), t)
<1> DEFINE q == ReadOn(p, s)
           k == Len(s)
           l == Len(t)
           st == s \o t
<1>1. k \in Nat /\ l \in Nat
  OBVIOUS
<1>2. st \in Seq(S) /\ Len(st) = k + l
      /\ (\A i \in 1..k : st[i] = s[i]) /\ (\A i \in 1..l : st[k + i] = t[i])
  <2>1. \A i \in 1..(k + l) : st[i] = IF i <= k THEN s[i] ELSE t[i - k]
    BY ConcatProperties
  <2>2. \A i \in 1..l : k + i \in 1..(k + l) /\ ~(k + i <= k) /\ (k + i) - k = i
    BY <1>1
  <2>3. QED
    BY <2>1, <2>2, ConcatProperties
<1>3. q \in Places
  BY ReadOnTyped
<1> HIDE DEF st, k, l, q
<1>4. PICK f \in [0..k -> Places] :
          q = f[k] /\ f[0] = p /\ \A i \in 1..k : f[i] = Reads(f[i - 1], s[i])
  <2>1. \E f : ReadBy(f, p, s)
    BY ReadOnIs
  <2>2. QED
    BY <2>1 DEF ReadBy, k, q
<1>5. PICK g \in [0..l -> Places] :
          ReadOn(q, t) = g[l] /\ g[0] = q /\ \A i \in 1..l : g[i] = Reads(g[i - 1], t[i])
  <2>1. \E g : ReadBy(g, q, t)
    BY <1>3, ReadOnIs
  <2>2. QED
    BY <2>1 DEF ReadBy, l
<1>6. PICK h \in [0..(k + l) -> Places] :
          ReadOn(p, st) = h[k + l] /\ h[0] = p
          /\ \A i \in 1..(k + l) : h[i] = Reads(h[i - 1], st[i])
  <2>1. \E h : ReadBy(h, p, st)
    BY <1>2, ReadOnIs
  <2>2. QED
    BY <1>2, <2>1 DEF ReadBy
<1>7. h[k] = f[k]
  <2> DEFINE T == {i \in Nat : i <= k => h[i] = f[i]}
  <2>1. 0 \in T
    BY <1>4, <1>6
  <2>2. ASSUME NEW i \in Nat, i \in T PROVE i + 1 \in T
    <3>1. SUFFICES ASSUME i + 1 <= k PROVE h[i + 1] = f[i + 1]
      OBVIOUS
    <3>2. i + 1 \in 1..k /\ i + 1 \in 1..(k + l) /\ (i + 1) - 1 = i /\ h[i] = f[i]
      BY <1>1, <2>2, <3>1
    <3>3. f[i + 1] = Reads(f[i], s[i + 1])
      BY <1>4, <3>2
    <3>4. h[i + 1] = Reads(h[i], st[i + 1])
      BY <1>6, <3>2
    <3>5. QED
      BY <1>2, <3>2, <3>3, <3>4
  <2> HIDE DEF T
  <2>3. k \in T
    BY <1>1, <2>1, <2>2, AllNumbers
  <2>4. QED
    BY <1>1, <2>3 DEF T
<1>8. h[k + l] = g[l]
  <2> DEFINE T == {i \in Nat : i <= l => h[k + i] = g[i]}
  <2>1. 0 \in T
    <3>1. h[k + 0] = h[k]
      BY <1>1
    <3>2. QED
      BY <1>4, <1>5, <1>7, <3>1
  <2>2. ASSUME NEW i \in Nat, i \in T PROVE i + 1 \in T
    <3>1. SUFFICES ASSUME i + 1 <= l PROVE h[k + (i + 1)] = g[i + 1]
      OBVIOUS
    <3>2. i + 1 \in 1..l /\ k + (i + 1) \in 1..(k + l) /\ (i + 1) - 1 = i
          /\ (k + (i + 1)) - 1 = k + i /\ h[k + i] = g[i]
      BY <1>1, <2>2, <3>1
    <3>3. g[i + 1] = Reads(g[i], t[i + 1])
      BY <1>5, <3>2
    <3>4. h[k + (i + 1)] = Reads(h[k + i], st[k + (i + 1)])
      BY <1>6, <3>2
    <3>5. QED
      BY <1>2, <3>2, <3>3, <3>4
  <2> HIDE DEF T
  <2>3. l \in T
    BY <1>1, <2>1, <2>2, AllNumbers
  <2>4. QED
    BY <1>1, <2>3 DEF T
<1>9. QED
  BY <1>5, <1>6, <1>8 DEF q, st

Tokens == {"{", "}", ",", "key"} \cup Chars

LEMMA ReadOnNone ==
    ASSUME NEW p \in Places PROVE ReadOn(p, <<>>) = p
<1>1. <<>> \in Seq(Tokens) /\ Len(<<>>) = 0
  OBVIOUS
<1>2. PICK f : ReadBy(f, p, <<>>)
  BY <1>1, ReadOnIs
<1>3. QED
  BY <1>1, <1>2 DEF ReadBy

\* Once it is no object it stays none.
LEMMA ErrorStays ==
    ASSUME NEW S, NEW line \in Seq(S) PROVE ReadOn(Failed, line) = Failed
<1> DEFINE p == Failed
           l == Len(line)
<1>1. p \in Places /\ l \in Nat
  BY FailedPlace
<1>2. \A t : Reads(p, t) = p
  BY FailedReads
<1> HIDE DEF p, l
<1>3. PICK f : ReadBy(f, p, line)
  BY <1>1, ReadOnIs
<1> DEFINE T == {i \in Nat : i <= l => f[i] = p}
<1>4. 0 \in T
  BY <1>3 DEF ReadBy
<1>5. ASSUME NEW i \in Nat, i \in T PROVE i + 1 \in T
  <2>1. SUFFICES ASSUME i + 1 <= l PROVE f[i + 1] = p
    OBVIOUS
  <2>2. i + 1 \in 1..l /\ (i + 1) - 1 = i /\ f[i] = p
    BY <1>1, <1>5, <2>1
  <2>3. f[i + 1] = Reads(f[i], line[i + 1])
    BY <1>3, <2>2 DEF ReadBy, l
  <2>4. QED
    BY <1>2, <2>2, <2>3
<1> HIDE DEF T
<1>6. l \in T
  BY <1>1, <1>4, <1>5, AllNumbers
<1>7. f[l] = p
  BY <1>1, <1>6 DEF T
<1>8. QED
  BY <1>3, <1>7 DEF ReadBy, l, p

\* What a token does where it may stand, and where it may not.
LEMMA ReadsAt ==
    ASSUME NEW d \in Nat, NEW s \in Seq(Chars)
    PROVE  /\ Reads(At("start", d, s), "{") = At("first", d + 1, s)
           /\ Reads(At("value", d, s), "{") = At("first", d + 1, s)
           /\ Reads(At("first", d, s), "key") = At("value", d, s)
           /\ Reads(At("comma", d, s), "key") = At("value", d, s)
           /\ Reads(At("value", d, s), "\"") = At("string", d, <<>>)
           /\ Reads(At("pair", d, s), ",") = At("comma", d, s)
           /\ d > 0 => Reads(At("pair", d, s), "}") = At("pair", d - 1, s)
           /\ Reads(At("pair", d, s), "\n") = IF d = 0 THEN At("end", 0, s) ELSE Failed
           /\ Reads(At("pair", d, s), "key") = Failed
<1>1. ASSUME NEW k PROVE At(k, d, s)[1] = k /\ At(k, d, s)[2] = d /\ At(k, d, s)[3] = s
  BY DEF At
<1>2. /\ Reads(At("start", d, s), "{") = At("first", d + 1, s)
      /\ Reads(At("value", d, s), "{") = At("first", d + 1, s)
  BY <1>1 DEF Reads, At
<1>3. /\ Reads(At("first", d, s), "key") = At("value", d, s)
      /\ Reads(At("comma", d, s), "key") = At("value", d, s)
  BY <1>1 DEF Reads, At
<1>4. Reads(At("value", d, s), "\"") = At("string", d, <<>>)
  BY <1>1 DEF Reads, At
<1>5. Reads(At("pair", d, s), ",") = At("comma", d, s)
  BY <1>1 DEF Reads, At
<1>6. ASSUME d > 0 PROVE Reads(At("pair", d, s), "}") = At("pair", d - 1, s)
  BY <1>1, <1>6 DEF Reads, At
<1>7. Reads(At("pair", d, s), "\n") = IF d = 0 THEN At("end", 0, s) ELSE Failed
  <2> DEFINE p == At("pair", d, s)
  <2>1. p[1] = "pair" /\ p[2] = d /\ p[3] = s
    BY <1>1
  <2> HIDE DEF p
  <2>2. Reads(p, "\n") = IF d = 0 THEN <<"end", 0, s>> ELSE <<"error", 0, <<>>>>
    BY <2>1 DEF Reads
  <2>3. QED
    BY <2>2 DEF At, Failed, p
<1>8. Reads(At("pair", d, s), "key") = Failed
  BY <1>1 DEF Reads, At, Failed
<1>9. QED
  BY <1>2, <1>3, <1>4, <1>5, <1>6, <1>7, <1>8

\* What it does in a string.
LEMMA ReadsInString ==
    ASSUME NEW d \in Nat, NEW s \in Seq(Chars)
    PROVE  /\ Reads(At("string", d, s), "\"") = At("pair", d, s)
           /\ Reads(At("string", d, s), "\\") = At("escape", d, s)
           /\ \A c \in {"a", "'", "long"} :
                  Reads(At("string", d, s), c) = At("string", d, Append(s, c))
           /\ \A c \in {"\"", "\\"} :
                  Reads(At("escape", d, s), c) = At("string", d, Append(s, c))
           /\ Reads(At("escape", d, s), "'") = Failed
           /\ Reads(At("string", d, s), "\n") = Failed
<1>1. ASSUME NEW k PROVE At(k, d, s)[1] = k /\ At(k, d, s)[2] = d /\ At(k, d, s)[3] = s
  BY DEF At
<1>2. Reads(At("string", d, s), "\"") = At("pair", d, s)
  BY <1>1 DEF Reads, At
<1>3. Reads(At("string", d, s), "\\") = At("escape", d, s)
  BY <1>1 DEF Reads, At
<1>4. ASSUME NEW c \in {"a", "'", "long"}
      PROVE  Reads(At("string", d, s), c) = At("string", d, Append(s, c))
  BY <1>1 DEF Reads, At
<1>5. ASSUME NEW c \in {"\"", "\\"}
      PROVE  Reads(At("escape", d, s), c) = At("string", d, Append(s, c))
  BY <1>1 DEF Reads, At
<1>6. Reads(At("escape", d, s), "'") = Failed
  BY <1>1 DEF Reads, At, Failed
<1>7. Reads(At("string", d, s), "\n") = Failed
  BY <1>1 DEF Reads, At, Failed
<1>8. QED
  BY <1>2, <1>3, <1>4, <1>5, <1>6, <1>7

LEMMA ReadOne ==
    ASSUME NEW p \in Places, NEW S, NEW s \in Seq(S), Len(s) = 1
    PROVE  ReadOn(p, s) = Reads(p, s[1])
<1>1. PICK f : ReadBy(f, p, s)
  BY ReadOnIs
<1>2. ReadOn(p, s) = f[1] /\ f[0] = p /\ \A i \in 1..1 : f[i] = Reads(f[i - 1], s[i])
  BY <1>1 DEF ReadBy
<1>3. f[1] = Reads(f[0], s[1])
  BY <1>2
<1>4. QED
  BY <1>2, <1>3

LEMMA ReadTwo ==
    ASSUME NEW p \in Places, NEW S, NEW s \in Seq(S), Len(s) = 2
    PROVE  ReadOn(p, s) = Reads(Reads(p, s[1]), s[2])
<1>1. PICK f : ReadBy(f, p, s)
  BY ReadOnIs
<1>2. ReadOn(p, s) = f[2] /\ f[0] = p /\ \A i \in 1..2 : f[i] = Reads(f[i - 1], s[i])
  BY <1>1 DEF ReadBy
<1>3. f[1] = Reads(f[0], s[1])
  BY <1>2
<1>4. f[2] = Reads(f[1], s[2])
  BY <1>2
<1>5. QED
  BY <1>2, <1>3, <1>4

LEMMA ReadThree ==
    ASSUME NEW p \in Places, NEW S, NEW s \in Seq(S), Len(s) = 3
    PROVE  ReadOn(p, s) = Reads(Reads(Reads(p, s[1]), s[2]), s[3])
<1>1. PICK f : ReadBy(f, p, s)
  BY ReadOnIs
<1>2. ReadOn(p, s) = f[3] /\ f[0] = p /\ \A i \in 1..3 : f[i] = Reads(f[i - 1], s[i])
  BY <1>1 DEF ReadBy
<1>3. f[1] = Reads(f[0], s[1])
  BY <1>2
<1>4. f[2] = Reads(f[1], s[2])
  BY <1>2
<1>5. f[3] = Reads(f[2], s[3])
  BY <1>2
<1>6. QED
  BY <1>2, <1>3, <1>4, <1>5

LEMMA ReadFour ==
    ASSUME NEW p \in Places, NEW S, NEW s \in Seq(S), Len(s) = 4
    PROVE  ReadOn(p, s) = Reads(Reads(Reads(Reads(p, s[1]), s[2]), s[3]), s[4])
<1>1. PICK f : ReadBy(f, p, s)
  BY ReadOnIs
<1>2. ReadOn(p, s) = f[4] /\ f[0] = p /\ \A i \in 1..4 : f[i] = Reads(f[i - 1], s[i])
  BY <1>1 DEF ReadBy
<1>3. f[1] = Reads(f[0], s[1])
  BY <1>2
<1>4. f[2] = Reads(f[1], s[2])
  BY <1>2
<1>5. f[3] = Reads(f[2], s[3])
  BY <1>2
<1>6. f[4] = Reads(f[3], s[4])
  BY <1>2
<1>7. QED
  BY <1>2, <1>3, <1>4, <1>5, <1>6

-----------------------------------------------------------------------------
(* Flattening a sequence of sequences. *)

FlatTo(F, C, seqs) ==
    /\ F \in [0..Len(seqs) -> Seq(C)]
    /\ F[0] = <<>>
    /\ \A i \in 1..Len(seqs) : F[i] = F[i - 1] \o seqs[i]
    /\ FlattenSeq(seqs) = F[Len(seqs)]

LEMMA FlattenIs ==
    ASSUME NEW C, NEW seqs \in Seq(Seq(C))
    PROVE  \E F : FlatTo(F, C, seqs)
<1> DEFINE l == Len(seqs)
           S == Seq(C)
           step == [i \in 1..l |-> [s \in S |-> s \o seqs[i]]]
           Flat(f) == f = [i \in 1..l |-> IF i = 1 THEN seqs[i] ELSE f[i - 1] \o seqs[i]]
<1>1. l \in Nat /\ step \in [1..l -> [S -> S]] /\ <<>> \in S
  <2>1. \A i \in 1..l : seqs[i] \in S
    OBVIOUS
  <2>2. \A i \in 1..l : \A s \in S : s \o seqs[i] \in S
    BY <2>1
  <2>3. QED
    BY <2>2, EmptySeq
<1>2. PICK F \in [0..l -> S] : F[0] = <<>> /\ \A i \in 1..l : F[i] = step[i][F[i - 1]]
  <2> HIDE DEF l, step, S, Flat
  <2>1. \E f \in [0..l -> S] : Goes(f, l, <<>>, step)
    BY <1>1, Iterates
  <2>2. QED
    BY <2>1 DEF Goes
<1>3. ASSUME NEW i \in 1..l PROVE F[i] = F[i - 1] \o seqs[i]
  <2>1. i - 1 \in 0..l
    BY <1>1
  <2>2. F[i - 1] \in S
    <3> HIDE DEF l, S, step, Flat
    <3>1. QED
      BY <2>1
  <2>3. QED
    BY <1>2, <2>2
<1>4. FlattenSeq(seqs) = F[l]
  <2>1. CASE l = 0
    <3>1. seqs = <<>>
      BY <2>1, EmptySeq
    <3>2. QED
      BY <1>2, <2>1, <3>1 DEF FlattenSeq
  <2>2. CASE l # 0
    <3> DEFINE g == [i \in 1..l |-> F[i]]
               h == CHOOSE h : Flat(h)
    <3>1. F[1] = seqs[1]
      <4>1. 1 \in 1..l /\ seqs[1] \in Seq(C) /\ F[1 - 1] = <<>>
        BY <1>1, <1>2, <2>2
      <4>2. F[1] = <<>> \o seqs[1]
        BY <1>3, <4>1
      <4>3. QED
        BY <4>1, <4>2, ConcatEmptySeq
    <3>2. Flat(g)
      <4> HIDE DEF l, S, step
      <4>1. ASSUME NEW i \in 1..l
            PROVE  g[i] = IF i = 1 THEN seqs[i] ELSE g[i - 1] \o seqs[i]
        <5>1. CASE i = 1
          BY <3>1, <5>1
        <5>2. CASE i # 1
          <6>1. i - 1 \in 1..l
            BY <1>1, <5>2
          <6>2. QED
            BY <1>3, <5>2, <6>1
        <5>3. QED
          BY <5>1, <5>2
      <4> DEFINE k == [i \in 1..l |-> IF i = 1 THEN seqs[i] ELSE g[i - 1] \o seqs[i]]
      <4>2. \A i \in 1..l : g[i] = k[i]
        BY <4>1
      <4>3. g = k
        BY <4>2
      <4>4. QED
        BY <4>3
    <3>3. Flat(h)
      <4> HIDE DEF Flat, g
      <4>1. QED
        BY <3>2
    <3>4. FlattenSeq(seqs) = h[l]
      BY <2>2 DEF FlattenSeq
    <3> HIDE DEF h, g
    <3>5. /\ l >= 1 => h[1] = seqs[1]
          /\ \A i \in 2..l : h[i] = h[i - 1] \o seqs[i]
      <4> HIDE DEF l, S, step
      <4>1. \A i \in 1..l : h[i] = IF i = 1 THEN seqs[i] ELSE h[i - 1] \o seqs[i]
        BY <3>3
      <4>2. \A i \in 2..l : i \in 1..l /\ i # 1
        BY <1>1
      <4>3. l >= 1 => 1 \in 1..l
        BY <1>1
      <4>4. QED
        BY <4>1, <4>2, <4>3
    <3> HIDE DEF Flat, l, step, S
    <3> DEFINE T == {i \in Nat : i + 1 <= l => h[i + 1] = F[i + 1]}
    <3>6. 0 \in T
      BY <1>1, <2>2, <3>1, <3>5
    <3>7. ASSUME NEW i \in Nat, i \in T PROVE i + 1 \in T
      <4>1. SUFFICES ASSUME i + 1 + 1 <= l PROVE h[i + 1 + 1] = F[i + 1 + 1]
        OBVIOUS
      <4>2. i + 1 + 1 \in 2..l /\ i + 1 + 1 \in 1..l /\ (i + 1 + 1) - 1 = i + 1 /\ i + 1 <= l
        BY <1>1, <4>1
      <4>3. h[i + 1] = F[i + 1]
        BY <3>7, <4>2
      <4>4. h[i + 1 + 1] = h[i + 1] \o seqs[i + 1 + 1]
        BY <3>5, <4>2
      <4>5. F[i + 1 + 1] = F[i + 1] \o seqs[i + 1 + 1]
        BY <1>3, <4>2
      <4>6. QED
        BY <4>3, <4>4, <4>5
    <3> HIDE DEF T
    <3>8. l - 1 \in Nat /\ (l - 1) + 1 = l
      BY <1>1, <2>2
    <3>9. l - 1 \in T
      BY <3>6, <3>7, <3>8, AllNumbers
    <3>10. h[l] = F[l]
      BY <3>8, <3>9 DEF T
    <3>11. QED
      BY <3>4, <3>10
  <2>3. QED
    BY <2>1, <2>2
<1>5. FlatTo(F, C, seqs)
  BY <1>2, <1>3, <1>4 DEF FlatTo
<1>6. QED
  BY <1>5

-----------------------------------------------------------------------------
(* What is escaped is read again. *)

ImageOf(c) == IF c \in Special THEN <<"\\", c>> ELSE <<c>>

LEMMA Two ==
    ASSUME NEW C, NEW a \in C, NEW b \in C
    PROVE  /\ <<a, b>> \in Seq(C) /\ Len(<<a, b>>) = 2
           /\ <<a, b>>[1] = a /\ <<a, b>>[2] = b
OBVIOUS

LEMMA Three ==
    ASSUME NEW C, NEW a \in C, NEW b \in C, NEW c \in C
    PROVE  /\ <<a, b, c>> \in Seq(C) /\ Len(<<a, b, c>>) = 3
           /\ <<a, b, c>>[1] = a /\ <<a, b, c>>[2] = b /\ <<a, b, c>>[3] = c
OBVIOUS

LEMMA One ==
    ASSUME NEW C, NEW a \in C
    PROVE  <<a>> \in Seq(C) /\ Len(<<a>>) = 1 /\ <<a>>[1] = a
OBVIOUS

LEMMA ImageIs ==
    ASSUME NEW c \in Chars
    PROVE  /\ ImageOf(c) \in Seq(Chars)
           /\ c \in Special => /\ Len(ImageOf(c)) = 2 /\ ImageOf(c)[1] = "\\"
                               /\ ImageOf(c)[2] = c
           /\ c \notin Special => /\ Len(ImageOf(c)) = 1 /\ ImageOf(c)[1] = c
                                  /\ c # "\\" /\ c # "\""
<1>1. "\\" \in Chars /\ "\\" \in Special /\ "\"" \in Special
  BY DEF Chars, Special
<1>2. CASE c \in Special
  <2>1. ImageOf(c) = <<"\\", c>>
    BY <1>2 DEF ImageOf
  <2>2. /\ <<"\\", c>> \in Seq(Chars) /\ Len(<<"\\", c>>) = 2
        /\ <<"\\", c>>[1] = "\\" /\ <<"\\", c>>[2] = c
    <3> DEFINE d == "\\"
    <3>1. d \in Chars
      BY <1>1
    <3> HIDE DEF d
    <3>2. <<d, c>> \in Seq(Chars) /\ Len(<<d, c>>) = 2 /\ <<d, c>>[1] = d /\ <<d, c>>[2] = c
      BY <3>1, Two
    <3>3. QED
      BY <3>2 DEF d
  <2>3. QED
    BY <1>2, <2>1, <2>2
<1>3. CASE c \notin Special
  <2>1. ImageOf(c) = <<c>>
    BY <1>3 DEF ImageOf
  <2>2. <<c>> \in Seq(Chars) /\ Len(<<c>>) = 1 /\ <<c>>[1] = c
    OBVIOUS
  <2>3. c # "\\" /\ c # "\""
    BY <1>1, <1>3
  <2>4. QED
    BY <1>3, <2>1, <2>2, <2>3
<1>4. QED
  BY <1>2, <1>3

\* The reader takes one character of a string as it was before it was escaped.
LEMMA ReadImage ==
    ASSUME NEW d \in Nat, NEW s \in Seq(Chars), NEW c \in Chars
    PROVE  ReadOn(At("string", d, s), ImageOf(c))
             = IF c \notin {"\n", "'"} THEN At("string", d, Append(s, c)) ELSE Failed
<1> DEFINE p == At("string", d, s)
<1>1. p \in Places
  BY AtPlace DEF Kinds
<1>2. CASE c \in Special
  <2>1. ImageOf(c) \in Seq(Chars) /\ Len(ImageOf(c)) = 2 /\ ImageOf(c)[1] = "\\"
        /\ ImageOf(c)[2] = c
    BY <1>2, ImageIs
  <2>2. ReadOn(p, ImageOf(c)) = Reads(Reads(p, "\\"), c)
    BY <1>1, <2>1, ReadTwo
  <2>3. Reads(p, "\\") = At("escape", d, s)
    BY ReadsInString
  <2>4. Reads(At("escape", d, s), c)
          = IF c # "'" THEN At("string", d, Append(s, c)) ELSE Failed
    <3>1. CASE c = "'"
      BY <3>1, ReadsInString
    <3>2. CASE c # "'"
      <4>1. c \in {"\"", "\\"}
        BY <1>2, <3>2 DEF Special
      <4>2. QED
        BY <3>2, <4>1, ReadsInString
    <3>3. QED
      BY <3>1, <3>2
  <2>5. c # "\n"
    BY <1>2 DEF Special
  <2>6. QED
    BY <2>2, <2>3, <2>4, <2>5
<1>3. CASE c \notin Special
  <2>1. ImageOf(c) \in Seq(Chars) /\ Len(ImageOf(c)) = 1 /\ ImageOf(c)[1] = c
    BY <1>3, ImageIs
  <2>2. ReadOn(p, ImageOf(c)) = Reads(p, c)
    BY <1>1, <2>1, ReadOne
  <2>3. Reads(p, c) = IF c # "\n" THEN At("string", d, Append(s, c)) ELSE Failed
    <3>1. CASE c = "\n"
      BY <3>1, ReadsInString
    <3>2. CASE c # "\n"
      <4>1. c \in {"a", "'", "long"}
        BY <1>3, <3>2 DEF Chars
      <4>2. QED
        BY <3>2, <4>1, ReadsInString
    <3>3. QED
      BY <3>1, <3>2
  <2>4. c # "'"
    BY <1>3 DEF Special
  <2>5. QED
    BY <2>2, <2>3, <2>4
<1>4. QED
  BY <1>2, <1>3

\* A text that comes through JSON.
Plain(v) == {"\n", "'"} \cap Range(v) = {}

LEMMA ReadEscaped ==
    ASSUME NEW v \in Seq(Chars), NEW d \in Nat
    PROVE  /\ Escaped(v) \in Seq(Chars)
           /\ ReadOn(At("string", d, <<>>), Escaped(v))
                = IF Plain(v) THEN At("string", d, v) ELSE Failed
<1> DEFINE l == Len(v)
           images == [i \in 1..l |-> ImageOf(v[i])]
           p == At("string", d, <<>>)
<1>1. l \in Nat /\ \A i \in 1..l : v[i] \in Chars
  OBVIOUS
<1>2. images \in Seq(Seq(Chars)) /\ Len(images) = l
  <2>1. \A i \in 1..l : ImageOf(v[i]) \in Seq(Chars)
    BY <1>1, ImageIs
  <2>2. images \in [1..l -> Seq(Chars)]
    BY <2>1
  <2> HIDE DEF images, l
  <2>3. QED
    BY <1>1, <2>2
<1>3. Escaped(v) = FlattenSeq(images)
  <2>1. DOMAIN v = 1..l
    OBVIOUS
  <2>2. QED
    BY <2>1 DEF Escaped, ImageOf
<1>4. \A i \in 1..l : images[i] = ImageOf(v[i])
  OBVIOUS
<1> HIDE DEF images
<1>5. PICK F : FlatTo(F, Chars, images)
  BY <1>2, FlattenIs
<1>6. /\ F \in [0..l -> Seq(Chars)] /\ F[0] = <<>> /\ Escaped(v) = F[l]
      /\ \A i \in 1..l : F[i] = F[i - 1] \o images[i]
  BY <1>2, <1>3, <1>5 DEF FlatTo
<1>7. p \in Places
  <2>1. "string" \in Kinds /\ <<>> \in Seq(Chars)
    BY DEF Kinds
  <2>2. QED
    BY <2>1, AtPlace
<1> HIDE DEF l, p
<1> DEFINE Bad == {"\n", "'"}
           P(k) == ReadOn(p, F[k]) = IF \A i \in 1..k : v[i] \notin Bad
                                     THEN At("string", d, SubSeq(v, 1, k)) ELSE Failed
           T == {k \in Nat : k <= l => P(k)}
<1>8. 0 \in T
  <2>1. SubSeq(v, 1, 0) = <<>>
    BY SubSeqEmpty
  <2>2. ReadOn(p, F[0]) = p
    BY <1>6, <1>7, ReadOnNone
  <2>3. \A i \in 1..0 : v[i] \notin Bad
    OBVIOUS
  <2>4. P(0)
    BY <2>1, <2>2, <2>3 DEF p
  <2> HIDE DEF P
  <2>5. QED
    BY <2>4
<1>9. ASSUME NEW k \in Nat, k \in T PROVE k + 1 \in T
  <2>1. SUFFICES ASSUME k + 1 <= l PROVE P(k + 1)
    <3> HIDE DEF P
    <3>1. QED
      OBVIOUS
  <2>2. k + 1 \in 1..l /\ (k + 1) - 1 = k /\ k <= l /\ k \in 0..l
    BY <1>1, <2>1
  <2>3. P(k)
    <3> HIDE DEF P
    <3>1. QED
      BY <1>9, <2>2
  <2> DEFINE s == SubSeq(v, 1, k)
             c == v[k + 1]
             q == ReadOn(p, F[k])
  <2>4. c \in Chars /\ F[k + 1] = F[k] \o ImageOf(c) /\ F[k] \in Seq(Chars)
        /\ ImageOf(c) \in Seq(Chars)
    BY <1>1, <1>4, <1>6, <2>2, ImageIs
  <2>5. ReadOn(p, F[k + 1]) = ReadOn(q, ImageOf(c))
    BY <1>7, <2>4, ReadOnParts
  <2>6. s \in Seq(Chars)
    <3>1. \A i \in 1..k : v[i] \in Chars
      BY <1>1, <2>2
    <3>2. 1 \in Int /\ k \in Int
      BY <1>1, <2>2
    <3>3. QED
      BY <3>1, <3>2, SubSeqProperties
  <2>7. Append(s, c) = SubSeq(v, 1, k + 1)
    <3>1. 1 \in 1..Len(v) /\ k + 1 \in 1..Len(v)
      BY <1>1, <2>2 DEF l
    <3>2. SubSeq(v, 1, k + 1) = SubSeq(v, 1, (k + 1) - 1) \o <<v[k + 1]>>
      BY <3>1, SubSeqRecursiveSecond
    <3>3. Append(s, c) = s \o <<c>>
      <4> HIDE DEF s, c
      <4>1. QED
        BY <2>4, <2>6, AppendIsConcat
    <3>4. QED
      BY <2>2, <3>2, <3>3
  <2>8. (\A i \in 1..(k + 1) : v[i] \notin Bad)
          <=> (\A i \in 1..k : v[i] \notin Bad) /\ c \notin Bad
    <3>1. 1..(k + 1) = (1..k) \cup {k + 1}
      BY <2>2
    <3>2. QED
      BY <3>1
  <2>9. CASE \A i \in 1..k : v[i] \notin Bad
    <3>1. q = At("string", d, s)
      BY <2>3, <2>9
    <3> HIDE DEF q, s, c
    <3>2. ReadOn(q, ImageOf(c))
            = IF c \notin Bad THEN At("string", d, Append(s, c)) ELSE Failed
      BY <2>4, <2>6, <3>1, ReadImage
    <3>3. QED
      BY <2>5, <2>7, <2>8, <2>9, <3>2
  <2>10. CASE ~(\A i \in 1..k : v[i] \notin Bad)
    <3>1. q = Failed
      BY <2>3, <2>10
    <3>2. ReadOn(q, ImageOf(c)) = Failed
      <4> HIDE DEF c, q
      <4>1. QED
        BY <2>4, <3>1, ErrorStays
    <3>3. QED
      BY <2>5, <2>8, <2>10, <3>2
  <2>11. QED
    BY <2>9, <2>10
<1> HIDE DEF T
<1>10. l \in T
  BY <1>1, <1>8, <1>9, AllNumbers DEF l
<1>11. P(l)
  <2> HIDE DEF P
  <2>1. l \in Nat
    BY <1>1 DEF l
  <2>2. QED
    BY <1>10, <2>1 DEF T
<1>12. SubSeq(v, 1, l) = v
  BY SubSeqFull DEF l
<1>13. (\A i \in 1..l : v[i] \notin Bad) <=> Plain(v)
  <2>1. DOMAIN v = 1..l
    BY DEF l
  <2>2. \A x : x \in Range(v) <=> \E i \in 1..l : v[i] = x
    BY <2>1 DEF Range
  <2>3. QED
    BY <2>2 DEF Plain
<1>14. Escaped(v) \in Seq(Chars)
  BY <1>1, <1>6 DEF l
<1>15. QED
  BY <1>6, <1>11, <1>12, <1>13, <1>14 DEF p

-----------------------------------------------------------------------------
(* The lines. *)

TOpen   == <<"{", "key">>
TInner  == <<",", "key", "{", "key">>
TAgain  == <<"key", "{", "key">>
TClose  == <<"}">>
TEnd    == <<"}", "\n">>
TMember == <<",", "key", "\"">>
TQuote  == <<"\"">>

LEMMA TOpenIs ==
    /\ TOpen \in Seq(Tokens) /\ Len(TOpen) = 2
    /\ TOpen[1] = "{"
    /\ TOpen[2] = "key"
<1>1. TOpen \in Seq(Tokens)
  BY DEF Tokens, TOpen
<1>2. Len(TOpen) = 2
  BY DEF TOpen
<1>3. TOpen[1] = "{"
  BY DEF TOpen
<1>4. TOpen[2] = "key"
  BY DEF TOpen
<1>5. QED
  BY <1>1, <1>2, <1>3, <1>4

LEMMA TInnerIs ==
    /\ TInner \in Seq(Tokens) /\ Len(TInner) = 4
    /\ TInner[1] = ","
    /\ TInner[2] = "key"
    /\ TInner[3] = "{"
    /\ TInner[4] = "key"
<1>1. TInner \in Seq(Tokens)
  BY DEF Tokens, TInner
<1>2. Len(TInner) = 4
  BY DEF TInner
<1>3. TInner[1] = ","
  BY DEF TInner
<1>4. TInner[2] = "key"
  BY DEF TInner
<1>5. TInner[3] = "{"
  BY DEF TInner
<1>6. TInner[4] = "key"
  BY DEF TInner
<1>7. QED
  BY <1>1, <1>2, <1>3, <1>4, <1>5, <1>6

LEMMA TAgainIs ==
    /\ TAgain \in Seq(Tokens) /\ Len(TAgain) = 3
    /\ TAgain[1] = "key"
    /\ TAgain[2] = "{"
    /\ TAgain[3] = "key"
<1>1. TAgain \in Seq(Tokens)
  BY DEF Tokens, TAgain
<1>2. Len(TAgain) = 3
  BY DEF TAgain
<1>3. TAgain[1] = "key"
  BY DEF TAgain
<1>4. TAgain[2] = "{"
  BY DEF TAgain
<1>5. TAgain[3] = "key"
  BY DEF TAgain
<1>6. QED
  BY <1>1, <1>2, <1>3, <1>4, <1>5

LEMMA TCloseIs ==
    /\ TClose \in Seq(Tokens) /\ Len(TClose) = 1
    /\ TClose[1] = "}"
<1>1. TClose \in Seq(Tokens)
  BY DEF Tokens, TClose
<1>2. Len(TClose) = 1
  BY DEF TClose
<1>3. TClose[1] = "}"
  BY DEF TClose
<1>4. QED
  BY <1>1, <1>2, <1>3

LEMMA TEndIs ==
    /\ TEnd \in Seq(Tokens) /\ Len(TEnd) = 2
    /\ TEnd[1] = "}"
    /\ TEnd[2] = "\n"
<1>1. TEnd \in Seq(Tokens)
  BY DEF Tokens, TEnd, Chars, Special
<1>2. Len(TEnd) = 2
  BY DEF TEnd
<1>3. TEnd[1] = "}"
  BY DEF TEnd
<1>4. TEnd[2] = "\n"
  BY DEF TEnd
<1>5. QED
  BY <1>1, <1>2, <1>3, <1>4

LEMMA TMemberIs ==
    /\ TMember \in Seq(Tokens) /\ Len(TMember) = 3
    /\ TMember[1] = ","
    /\ TMember[2] = "key"
    /\ TMember[3] = "\""
<1>1. TMember \in Seq(Tokens)
  BY DEF Tokens, TMember, Chars, Special
<1>2. Len(TMember) = 3
  BY DEF TMember
<1>3. TMember[1] = ","
  BY DEF TMember
<1>4. TMember[2] = "key"
  BY DEF TMember
<1>5. TMember[3] = "\""
  BY DEF TMember
<1>6. QED
  BY <1>1, <1>2, <1>3, <1>4, <1>5

LEMMA TQuoteIs ==
    /\ TQuote \in Seq(Tokens) /\ Len(TQuote) = 1
    /\ TQuote[1] = "\""
<1>1. TQuote \in Seq(Tokens)
  BY DEF Tokens, TQuote, Chars, Special
<1>2. Len(TQuote) = 1
  BY DEF TQuote
<1>3. TQuote[1] = "\""
  BY DEF TQuote
<1>4. QED
  BY <1>1, <1>2, <1>3

LEMMA WordIs ==
    /\ Word \in Seq(Tokens) /\ Len(Word) = 3
    /\ Word[1] = "\""
    /\ Word[2] = "a"
    /\ Word[3] = "\""
<1>1. Word \in Seq(Tokens)
  BY DEF Tokens, Word, Chars, Special
<1>2. Len(Word) = 3
  BY DEF Word
<1>3. Word[1] = "\""
  BY DEF Word
<1>4. Word[2] = "a"
  BY DEF Word
<1>5. Word[3] = "\""
  BY DEF Word
<1>6. QED
  BY <1>1, <1>2, <1>3, <1>4, <1>5

\* From one place to another over a part of a line.
Takes(line, p, q) == line \in Seq(Tokens) /\ p \in Places /\ q \in Places /\ ReadOn(p, line) = q

LEMMA TakesBoth ==
    ASSUME NEW s, NEW t, NEW p, NEW q, NEW r, Takes(s, p, q), Takes(t, q, r)
    PROVE  Takes(s \o t, p, r)
<1>1. s \in Seq(Tokens) /\ t \in Seq(Tokens) /\ p \in Places /\ q \in Places /\ r \in Places
      /\ ReadOn(p, s) = q /\ ReadOn(q, t) = r
  BY DEF Takes
<1>2. s \o t \in Seq(Tokens)
  BY <1>1
<1>3. ReadOn(p, s \o t) = r
  BY <1>1, ReadOnParts
<1>4. QED
  BY <1>1, <1>2, <1>3 DEF Takes

LEMMA TakesNothing == ASSUME NEW p \in Places PROVE Takes(<<>>, p, p)
<1>1. <<>> \in Seq(Tokens)
  OBVIOUS
<1>2. QED
  BY <1>1, ReadOnNone DEF Takes

LEMMA TakesFailed == ASSUME NEW line \in Seq(Tokens) PROVE Takes(line, Failed, Failed)
  BY FailedPlace, ErrorStays DEF Takes

LEMMA CharsAreTokens == Seq(Chars) \subseteq Seq(Tokens)
<1>1. Chars \subseteq Tokens
  BY DEF Tokens
<1>2. QED
  BY <1>1, SeqMonotonic

\* After a pair, if all before it was read.
After(ok, d, s) == IF ok THEN At("pair", d, s) ELSE Failed

LEMMA PlacesAre ==
    ASSUME NEW d \in Nat, NEW s \in Seq(Chars)
    PROVE  /\ At("start", d, s) \in Places /\ At("first", d, s) \in Places
           /\ At("comma", d, s) \in Places /\ At("value", d, s) \in Places
           /\ At("pair", d, s) \in Places /\ At("string", d, s) \in Places
           /\ At("end", d, s) \in Places
           /\ \A ok : After(ok, d, s) \in Places
<1>1. /\ "start" \in Kinds /\ "first" \in Kinds /\ "comma" \in Kinds /\ "value" \in Kinds
      /\ "pair" \in Kinds /\ "string" \in Kinds /\ "end" \in Kinds
  BY DEF Kinds
<1>2. QED
  BY <1>1, AtPlace, FailedPlace DEF After

LEMMA WordIsA == <<"a">> \in Seq(Chars) /\ Plain(<<"a">>) /\ <<"a">> # <<>>
<1>1. <<"a">> \in Seq(Chars)
  BY DEF Chars
<1>2. Range(<<"a">>) = {"a"}
  BY DEF Range
<1>3. QED
  BY <1>1, <1>2 DEF Plain

LEMMA TakesWord ==
    ASSUME NEW d \in Nat, NEW s \in Seq(Chars)
    PROVE  Takes(Word, At("value", d, s), At("pair", d, <<"a">>))
<1> DEFINE p == At("value", d, s)
           w == Append(<<>>, "a")
<1>1. p \in Places /\ At("pair", d, <<"a">>) \in Places
  BY PlacesAre, WordIsA
<1>2. ReadOn(p, Word) = Reads(Reads(Reads(p, "\""), "a"), "\"")
  BY <1>1, WordIs, ReadThree
<1>3. Reads(p, "\"") = At("string", d, <<>>)
  BY ReadsAt
<1>4. <<>> \in Seq(Chars) /\ w = <<"a">> /\ w \in Seq(Chars)
  BY WordIsA
<1>5. Reads(At("string", d, <<>>), "a") = At("string", d, w)
  BY <1>4, ReadsInString
<1>6. Reads(At("string", d, w), "\"") = At("pair", d, w)
  BY <1>4, ReadsInString
<1>7. ReadOn(p, Word) = At("pair", d, w)
  BY <1>2, <1>3, <1>5, <1>6
<1>8. QED
  BY <1>1, <1>4, <1>7, WordIs DEF Takes

LEMMA TakesOpen == Takes(TOpen, At("start", 0, <<>>), At("value", 1, <<>>))
<1>1. /\ <<>> \in Seq(Chars) /\ 0 \in Nat /\ 0 + 1 = 1
  OBVIOUS
<1>2. At("start", 0, <<>>) \in Places /\ At("value", 1, <<>>) \in Places
  BY <1>1, PlacesAre
<1>3. ReadOn(At("start", 0, <<>>), TOpen) = Reads(Reads(At("start", 0, <<>>), "{"), "key")
  BY <1>2, TOpenIs, ReadTwo
<1>4. Reads(At("start", 0, <<>>), "{") = At("first", 1, <<>>)
  BY <1>1, ReadsAt
<1>5. Reads(At("first", 1, <<>>), "key") = At("value", 1, <<>>)
  BY <1>1, ReadsAt
<1>6. QED
  BY <1>2, <1>3, <1>4, <1>5, TOpenIs DEF Takes

LEMMA TakesInner ==
    ASSUME NEW s \in Seq(Chars)
    PROVE  Takes(TInner, At("pair", 1, s), At("value", 2, s))
<1>1. 1 \in Nat /\ 2 \in Nat /\ 1 + 1 = 2
  OBVIOUS
<1>2. At("pair", 1, s) \in Places /\ At("value", 2, s) \in Places
  BY PlacesAre
<1>3. ReadOn(At("pair", 1, s), TInner)
        = Reads(Reads(Reads(Reads(At("pair", 1, s), ","), "key"), "{"), "key")
  BY <1>2, TInnerIs, ReadFour
<1>4. Reads(At("pair", 1, s), ",") = At("comma", 1, s)
  BY <1>1, ReadsAt
<1>5. Reads(At("comma", 1, s), "key") = At("value", 1, s)
  BY <1>1, ReadsAt
<1>6. Reads(At("value", 1, s), "{") = At("first", 2, s)
  BY <1>1, ReadsAt
<1>7. Reads(At("first", 2, s), "key") = At("value", 2, s)
  BY <1>1, ReadsAt
<1>8. QED
  BY <1>2, <1>3, <1>4, <1>5, <1>6, <1>7, TInnerIs DEF Takes

LEMMA TakesAgain ==
    ASSUME NEW s \in Seq(Chars)
    PROVE  Takes(TAgain, At("pair", 1, s), Failed)
<1>1. At("pair", 1, s) \in Places
  BY PlacesAre
<1>2. ReadOn(At("pair", 1, s), TAgain)
        = Reads(Reads(Reads(At("pair", 1, s), "key"), "{"), "key")
  BY <1>1, TAgainIs, ReadThree
<1>3. Reads(At("pair", 1, s), "key") = Failed
  BY ReadsAt
<1>4. \A t : Reads(Failed, t) = Failed
  BY FailedReads
<1>5. QED
  BY <1>1, <1>2, <1>3, <1>4, TAgainIs, FailedPlace DEF Takes

LEMMA TakesClose ==
    ASSUME NEW ok \in BOOLEAN, NEW s \in Seq(Chars)
    PROVE  Takes(TClose, After(ok, 2, s), After(ok, 1, s))
<1>1. 2 > 0 /\ 2 - 1 = 1 /\ 2 \in Nat
  OBVIOUS
<1>2. After(ok, 2, s) \in Places /\ After(ok, 1, s) \in Places /\ At("pair", 2, s) \in Places
  BY PlacesAre
<1>3. CASE ok
  <2>1. ReadOn(At("pair", 2, s), TClose) = Reads(At("pair", 2, s), "}")
    BY <1>2, TCloseIs, ReadOne
  <2>2. Reads(At("pair", 2, s), "}") = At("pair", 1, s)
    BY <1>1, ReadsAt
  <2>3. QED
    BY <1>2, <1>3, <2>1, <2>2, TCloseIs DEF Takes, After
<1>4. CASE ~ok
  BY <1>4, TCloseIs, TakesFailed DEF After
<1>5. QED
  BY <1>3, <1>4

LEMMA TakesEnd ==
    ASSUME NEW s \in Seq(Chars)
    PROVE  /\ Takes(TEnd, At("pair", 1, s), At("end", 0, s))
           /\ Takes(TEnd, At("pair", 2, s), Failed)
           /\ Takes(TEnd, Failed, Failed)
<1>1. 2 > 0 /\ 2 - 1 = 1 /\ 2 \in Nat /\ 1 > 0 /\ 1 - 1 = 0 /\ 1 \in Nat /\ 0 \in Nat /\ 1 # 0
  OBVIOUS
<1>2. At("pair", 1, s) \in Places /\ At("pair", 2, s) \in Places /\ At("end", 0, s) \in Places
  BY PlacesAre
<1>3. /\ ReadOn(At("pair", 1, s), TEnd) = Reads(Reads(At("pair", 1, s), "}"), "\n")
      /\ ReadOn(At("pair", 2, s), TEnd) = Reads(Reads(At("pair", 2, s), "}"), "\n")
  BY <1>2, TEndIs, ReadTwo
<1>4. Reads(At("pair", 1, s), "}") = At("pair", 0, s)
  BY <1>1, ReadsAt
<1>5. Reads(At("pair", 2, s), "}") = At("pair", 1, s)
  BY <1>1, ReadsAt
<1>6. Reads(At("pair", 0, s), "\n") = At("end", 0, s)
  BY <1>1, ReadsAt
<1>7. Reads(At("pair", 1, s), "\n") = Failed
  BY <1>1, ReadsAt
<1>8. QED
  BY <1>2, <1>3, <1>4, <1>5, <1>6, <1>7, TEndIs, FailedPlace, TakesFailed DEF Takes

\* A string, in an object of any depth.
LEMMA TakesJSON ==
    ASSUME NEW d \in Nat, NEW s \in Seq(Chars), NEW v \in Seq(Chars)
    PROVE  Takes(WriteJSON(v), At("pair", d, s), After(Plain(v), d, v))
<1> DEFINE p == At("pair", d, s)
           b == At("string", d, <<>>)
           e == IF Plain(v) THEN At("string", d, v) ELSE Failed
<1>1. p \in Places /\ b \in Places /\ e \in Places /\ After(Plain(v), d, v) \in Places
  <2>1. <<>> \in Seq(Chars)
    OBVIOUS
  <2>2. QED
    BY <2>1, PlacesAre, FailedPlace
<1>2. Takes(TMember, p, b)
  <2>1. ReadOn(p, TMember) = Reads(Reads(Reads(p, ","), "key"), "\"")
    BY <1>1, TMemberIs, ReadThree
  <2>2. Reads(p, ",") = At("comma", d, s)
    BY ReadsAt
  <2>3. Reads(At("comma", d, s), "key") = At("value", d, s)
    BY ReadsAt
  <2>4. Reads(At("value", d, s), "\"") = b
    BY ReadsAt
  <2>5. QED
    BY <1>1, <2>1, <2>2, <2>3, <2>4, TMemberIs DEF Takes
<1>3. Takes(Escaped(v), b, e)
  <2>1. Escaped(v) \in Seq(Chars) /\ ReadOn(b, Escaped(v)) = e
    BY ReadEscaped
  <2>2. Escaped(v) \in Seq(Tokens)
    BY <2>1, CharsAreTokens
  <2> HIDE DEF b, e
  <2>3. QED
    BY <1>1, <2>1, <2>2 DEF Takes
<1>4. Takes(TQuote, e, After(Plain(v), d, v))
  <2>1. CASE Plain(v)
    <3>1. ReadOn(At("string", d, v), TQuote) = Reads(At("string", d, v), "\"")
      BY <1>1, <2>1, TQuoteIs, ReadOne
    <3>2. Reads(At("string", d, v), "\"") = At("pair", d, v)
      BY ReadsInString
    <3>3. QED
      BY <1>1, <2>1, <3>1, <3>2, TQuoteIs DEF Takes, After
  <2>2. CASE ~Plain(v)
    BY <2>2, TQuoteIs, TakesFailed DEF After
  <2>3. QED
    BY <2>1, <2>2
<1>5. WriteJSON(v) = (TMember \o Escaped(v)) \o TQuote
  BY DEF WriteJSON, TMember, TQuote
<1> HIDE DEF p, b, e
<1>6. Takes(TMember \o Escaped(v), p, e)
  BY <1>2, <1>3, TakesBoth
<1>7. Takes((TMember \o Escaped(v)) \o TQuote, p, After(Plain(v), d, v))
  BY <1>4, <1>6, TakesBoth
<1>8. QED
  BY <1>5, <1>7 DEF p

LEMMA TakesSignal ==
    ASSUME NEW channel, NEW v \in Seq(Chars),
           channel \in {"MESSAGE", "INPUT", "OUTPUT", "RPC"} \/ v = <<>>
    PROVE  \E s \in Seq(Chars) :
               /\ Takes(JsonV2(channel, v), At("pair", 2, <<"a">>), After(Plain(v), 2, s))
               /\ v # <<>> => s = v
<1> DEFINE word == <<"a">>
<1>1. word \in Seq(Chars) /\ Plain(word) /\ 2 \in Nat
  BY WordIsA
<1> HIDE DEF word
<1>2. Plain(<<>>)
  BY DEF Plain, Range
<1>3. Takes(WriteJSON(v), At("pair", 2, word), After(Plain(v), 2, v))
  BY <1>1, TakesJSON
<1>4. Takes(WriteJSON(word), At("pair", 2, word), At("pair", 2, word))
  <2>1. Takes(WriteJSON(word), At("pair", 2, word), After(Plain(word), 2, word))
    BY <1>1, TakesJSON
  <2>2. QED
    BY <1>1, <2>1 DEF After
<1>5. Takes(<<>>, At("pair", 2, word), At("pair", 2, word))
  BY <1>1, PlacesAre, TakesNothing
<1>6. v = <<>> => At("pair", 2, word) = After(Plain(v), 2, word)
  BY <1>2 DEF After
<1>7. CASE channel \in {"MESSAGE", "INPUT", "OUTPUT"} /\ v # <<>>
  <2>1. JsonV2(channel, v) = WriteJSON(word) \o WriteJSON(v)
    BY <1>7 DEF JsonV2, word
  <2>2. Takes(JsonV2(channel, v), At("pair", 2, word), After(Plain(v), 2, v))
    BY <1>3, <1>4, <2>1, TakesBoth
  <2>3. QED
    BY <2>2 DEF word
<1>8. CASE channel \in {"MESSAGE", "INPUT", "OUTPUT"} /\ v = <<>>
  <2>1. JsonV2(channel, v) = WriteJSON(word) \o <<>>
    BY <1>8 DEF JsonV2, word
  <2>2. Takes(JsonV2(channel, v), At("pair", 2, word), At("pair", 2, word))
    BY <1>4, <1>5, <2>1, TakesBoth
  <2>3. QED
    BY <1>1, <1>6, <1>8, <2>2 DEF word
<1>9. CASE channel = "RPC"
  <2>1. JsonV2(channel, v) = WriteJSON(v)
    BY <1>9 DEF JsonV2
  <2>2. QED
    BY <1>3, <2>1 DEF word
<1>10. CASE channel \notin {"MESSAGE", "INPUT", "OUTPUT", "RPC"}
  <2>1. JsonV2(channel, v) = <<>> /\ v = <<>>
    BY <1>10 DEF JsonV2
  <2>2. QED
    BY <1>1, <1>5, <1>6, <2>1 DEF word
<1>11. QED
  BY <1>7, <1>8, <1>9, <1>10

LEMMA TakesFwif ==
    ASSUME NEW r, NEW v \in Seq(Chars),
           r.channel \in {"MESSAGE", "INPUT", "OUTPUT", "RPC"} \/ v = <<>>
    PROVE  IF Understood(r)
           THEN \E s \in Seq(Chars) :
                    /\ Takes(JsonFwif(r, v), At("pair", 1, <<"a">>), After(Plain(v), 1, s))
                    /\ v # <<>> => s = v
           ELSE Takes(JsonFwif(r, v), At("pair", 1, <<"a">>), At("pair", 2, <<"a">>))
<1> DEFINE word == <<"a">>
           json == WriteJSON(word)
           head == ((TInner \o Word) \o json) \o json
<1>1. word \in Seq(Chars) /\ Plain(word) /\ 2 \in Nat /\ 1 \in Nat
  BY WordIsA
<1>2. Takes(head, At("pair", 1, word), At("pair", 2, word))
  <2>1. Takes(TInner, At("pair", 1, word), At("value", 2, word))
    BY <1>1, TakesInner
  <2>2. Takes(Word, At("value", 2, word), At("pair", 2, word))
    BY <1>1, TakesWord
  <2>3. Takes(json, At("pair", 2, word), At("pair", 2, word))
    <3> HIDE DEF word
    <3>1. Takes(json, At("pair", 2, word), After(Plain(word), 2, word))
      BY <1>1, TakesJSON
    <3>2. QED
      BY <1>1, <3>1 DEF After
  <2> HIDE DEF json, word
  <2>4. Takes(TInner \o Word, At("pair", 1, word), At("pair", 2, word))
    BY <2>1, <2>2, TakesBoth
  <2>5. Takes((TInner \o Word) \o json, At("pair", 1, word), At("pair", 2, word))
    BY <2>3, <2>4, TakesBoth
  <2>6. QED
    BY <2>3, <2>5, TakesBoth
<1>3. CASE Understood(r)
  <2>1. JsonFwif(r, v) = head \o (JsonV2(r.channel, v) \o TClose)
    BY <1>3 DEF JsonFwif, TInner, TClose
  <2>2. PICK s \in Seq(Chars) :
            /\ Takes(JsonV2(r.channel, v), At("pair", 2, word), After(Plain(v), 2, s))
            /\ v # <<>> => s = v
    BY TakesSignal
  <2>3. Takes(TClose, After(Plain(v), 2, s), After(Plain(v), 1, s))
    BY TakesClose DEF Plain
  <2> HIDE DEF head, word
  <2>4. Takes(JsonV2(r.channel, v) \o TClose, At("pair", 2, word), After(Plain(v), 1, s))
    BY <2>2, <2>3, TakesBoth
  <2>5. Takes(JsonFwif(r, v), At("pair", 1, word), After(Plain(v), 1, s))
    BY <1>2, <2>1, <2>4, TakesBoth
  <2>6. QED
    BY <1>3, <2>2, <2>5 DEF word
<1>4. CASE ~Understood(r)
  <2>1. JsonFwif(r, v) = head \o <<>>
    BY <1>4 DEF JsonFwif, TInner
  <2>2. Takes(<<>>, At("pair", 2, word), At("pair", 2, word))
    BY <1>1, PlacesAre, TakesNothing
  <2> HIDE DEF head, word
  <2>3. Takes(JsonFwif(r, v), At("pair", 1, word), At("pair", 2, word))
    BY <1>2, <2>1, <2>2, TakesBoth
  <2>4. QED
    BY <1>4, <2>3 DEF word
<1>5. QED
  BY <1>3, <1>4

LEMMA TakesBinary ==
    ASSUME NEW v \in Seq(Chars)
    PROVE  Takes(((TAgain \o Word) \o WriteJSON(v)) \o TClose, At("pair", 1, <<"a">>), Failed)
<1> DEFINE word == <<"a">>
<1>1. word \in Seq(Chars)
  BY WordIsA
<1> HIDE DEF word
<1>2. WriteJSON(v) \in Seq(Tokens)
  <2>1. 0 \in Nat
    OBVIOUS
  <2>2. Takes(WriteJSON(v), At("pair", 0, word), After(Plain(v), 0, v))
    BY <1>1, <2>1, TakesJSON
  <2>3. QED
    BY <2>2 DEF Takes
<1>3. /\ Takes(Word, Failed, Failed) /\ Takes(WriteJSON(v), Failed, Failed)
      /\ Takes(TClose, Failed, Failed)
  BY <1>2, WordIs, TCloseIs, TakesFailed
<1>4. Takes(TAgain, At("pair", 1, word), Failed)
  BY <1>1, TakesAgain
<1>5. Takes(TAgain \o Word, At("pair", 1, word), Failed)
  BY <1>3, <1>4, TakesBoth
<1>6. Takes((TAgain \o Word) \o WriteJSON(v), At("pair", 1, word), Failed)
  BY <1>3, <1>5, TakesBoth
<1>7. QED
  BY <1>3, <1>6, TakesBoth DEF word

RecordTypes == {"TEXT", "FWIF", "FW_BINARY"}
Open(r) == r.type = "FWIF" /\ ~Understood(r)
Nothing(r) == r.type = "FWIF" /\ r.channel \notin {"MESSAGE", "INPUT", "OUTPUT", "RPC"}

\* Which JSON lines are an object, and what its reader has.
LEMMA ObjectOrNot ==
    ASSUME NEW r, NEW v \in Seq(Chars), NEW w \in Seq(Chars), r.type \in RecordTypes,
           w = IF r.type = "TEXT" THEN r.text ELSE v,
           Nothing(r) => v = <<>>
    PROVE  /\ IsObject(JsonLine(r, v)) <=> ~Open(r) /\ r.type # "FW_BINARY" /\ Plain(w)
           /\ IsObject(JsonLine(r, v)) /\ w # <<>> => Reading(JsonLine(r, v))[3] = w
<1> DEFINE word  == <<"a">>
           bin   == ((TAgain \o Word) \o WriteJSON(v)) \o TClose
           inner == CASE r.type = "TEXT"      -> WriteJSON(r.text)
                      [] r.type = "FWIF"      -> JsonFwif(r, v)
                      [] r.type = "FW_BINARY" -> bin
           line  == JsonLine(r, v)
           first == At("start", 0, <<>>)
<1>1. line = ((TOpen \o Word) \o inner) \o TEnd
  BY DEF JsonLine, TOpen, TEnd, TAgain, TClose
<1>2. word \in Seq(Chars) /\ Plain(word) /\ 2 \in Nat /\ 1 \in Nat
  BY WordIsA
<1>3. Takes(TOpen \o Word, first, At("pair", 1, word))
  <2>1. <<>> \in Seq(Chars)
    OBVIOUS
  <2>2. Takes(Word, At("value", 1, <<>>), At("pair", 1, word))
    BY <1>2, <2>1, TakesWord
  <2>3. QED
    BY <2>2, TakesOpen, TakesBoth
<1>4. Reading(line) = ReadOn(first, line)
  BY DEF Reading, At
<1>5. CASE Open(r)
  <2>1. inner = JsonFwif(r, v) /\ ~Understood(r) /\ r.type = "FWIF"
    BY <1>5 DEF Open
  <2>2. r.channel \in {"MESSAGE", "INPUT", "OUTPUT", "RPC"} \/ v = <<>>
    BY <2>1 DEF Nothing
  <2>3. Takes(JsonFwif(r, v), At("pair", 1, word), At("pair", 2, word))
    BY <2>1, <2>2, TakesFwif
  <2>4. Takes(TEnd, At("pair", 2, word), Failed)
    BY <1>2, TakesEnd
  <2> HIDE DEF inner, word, first, line
  <2>5. Takes((TOpen \o Word) \o inner, first, At("pair", 2, word))
    BY <1>3, <2>1, <2>3, TakesBoth
  <2>6. Takes(line, first, Failed)
    BY <1>1, <2>4, <2>5, TakesBoth
  <2>7. Reading(line) = Failed
    BY <1>4, <2>6 DEF Takes
  <2>8. ~IsObject(line)
    BY <2>7 DEF IsObject, Failed, At
  <2>9. QED
    BY <1>5, <2>8 DEF line
<1>6. CASE r.type = "FW_BINARY"
  <2>1. inner = bin
    BY <1>6
  <2>2. Takes(bin, At("pair", 1, word), Failed)
    BY TakesBinary
  <2>3. Takes(TEnd, Failed, Failed)
    BY <1>2, TakesEnd
  <2> HIDE DEF inner, word, first, line, bin
  <2>4. Takes((TOpen \o Word) \o inner, first, Failed)
    BY <1>3, <2>1, <2>2, TakesBoth
  <2>5. Takes(line, first, Failed)
    BY <1>1, <2>3, <2>4, TakesBoth
  <2>6. Reading(line) = Failed
    BY <1>4, <2>5 DEF Takes
  <2>7. ~IsObject(line)
    BY <2>6 DEF IsObject, Failed, At
  <2>8. QED
    BY <1>6, <2>7 DEF line
<1>7. CASE ~Open(r) /\ r.type # "FW_BINARY"
  <2>1. \E s \in Seq(Chars) :
            /\ Takes(inner, At("pair", 1, word), After(Plain(w), 1, s))
            /\ w # <<>> => s = w
    <3>1. CASE r.type = "TEXT"
      <4>1. inner = WriteJSON(w)
        BY <3>1
      <4> HIDE DEF inner, word
      <4>2. Takes(WriteJSON(w), At("pair", 1, word), After(Plain(w), 1, w))
        BY <1>2, TakesJSON
      <4>3. QED
        BY <4>1, <4>2
    <3>2. CASE r.type = "FWIF"
      <4>1. inner = JsonFwif(r, v) /\ w = v /\ Understood(r)
        BY <1>7, <3>2 DEF Open
      <4>2. r.channel \in {"MESSAGE", "INPUT", "OUTPUT", "RPC"} \/ v = <<>>
        BY <3>2 DEF Nothing
      <4>3. \E s \in Seq(Chars) :
                /\ Takes(JsonFwif(r, v), At("pair", 1, word), After(Plain(v), 1, s))
                /\ v # <<>> => s = v
        BY <4>1, <4>2, TakesFwif
      <4> HIDE DEF inner, word
      <4>4. QED
        BY <4>1, <4>3
    <3>3. QED
      BY <1>7, <3>1, <3>2 DEF RecordTypes
  <2>2. PICK s \in Seq(Chars) :
            /\ Takes(inner, At("pair", 1, word), After(Plain(w), 1, s))
            /\ w # <<>> => s = w
    BY <2>1
  <2> HIDE DEF inner, word, first, line
  <2>3. Takes((TOpen \o Word) \o inner, first, After(Plain(w), 1, s))
    BY <1>3, <2>2, TakesBoth
  <2>4. CASE Plain(w)
    <3>1. Takes(TEnd, After(Plain(w), 1, s), At("end", 0, s))
      BY <2>4, TakesEnd DEF After
    <3>2. Takes(line, first, At("end", 0, s))
      BY <1>1, <2>3, <3>1, TakesBoth
    <3>3. Reading(line) = At("end", 0, s)
      BY <1>4, <3>2 DEF Takes
    <3>4. IsObject(line) /\ Reading(line)[3] = s
      BY <3>3 DEF IsObject, At
    <3>5. QED
      BY <1>7, <2>2, <2>4, <3>4 DEF line
  <2>5. CASE ~Plain(w)
    <3>1. Takes(TEnd, After(Plain(w), 1, s), Failed)
      BY <2>5, TakesEnd DEF After
    <3>2. Takes(line, first, Failed)
      BY <1>1, <2>3, <3>1, TakesBoth
    <3>3. Reading(line) = Failed
      BY <1>4, <3>2 DEF Takes
    <3>4. ~IsObject(line)
      BY <3>3 DEF IsObject, Failed, At
    <3>5. QED
      BY <2>5, <3>4 DEF line
  <2>6. QED
    BY <2>4, <2>5
<1>8. QED
  BY <1>5, <1>6, <1>7 DEF RecordTypes

LEMMA Associates ==
    ASSUME NEW s \in Seq(Chars), NEW t \in Seq(Chars), NEW u \in Seq(Chars)
    PROVE  (s \o t) \o u = s \o (t \o u)
  BY ConcatAssociative

\* Text: what ends in a newline and has no other is a line.
LEMMA LineIf ==
    ASSUME NEW s \in Seq(Chars), NEW t \in Seq(Chars)
    PROVE  IsLine(s \o (t \o <<"\n">>)) <=> "\n" \notin Range(s) \cup Range(t)
<1> DEFINE nl   == <<"\n">>
           most == s \o t
           line == most \o nl
           k    == Len(most)
<1>1. nl \in Seq(Chars) /\ Len(nl) = 1 /\ nl[1] = "\n"
  <2>1. "\n" \in Chars
    BY DEF Chars
  <2>2. QED
    BY <2>1, One
<1> HIDE DEF nl
<1>2. s \o (t \o nl) = line
  <2>1. nl \in Seq(Chars)
    BY <1>1
  <2>2. (s \o t) \o nl = s \o (t \o nl)
    BY <2>1, Associates
  <2>3. QED
    BY <2>2
<1>3. most \in Seq(Chars) /\ Range(most) = Range(s) \cup Range(t)
  BY RangeConcatenation
<1> HIDE DEF most
<1>4. k \in Nat
  BY <1>3
<1>5. /\ line \in Seq(Chars) /\ Len(line) = k + 1
      /\ \A i \in 1..(k + 1) : line[i] = IF i <= k THEN most[i] ELSE nl[i - k]
  <2>1. nl \in Seq(Chars) /\ most \in Seq(Chars)
    BY <1>1, <1>3
  <2>2. /\ line \in Seq(Chars) /\ Len(line) = Len(most) + Len(nl)
        /\ \A i \in 1..(Len(most) + Len(nl)) :
               line[i] = IF i <= Len(most) THEN most[i] ELSE nl[i - Len(most)]
    BY <2>1, ConcatProperties
  <2>3. QED
    BY <1>1, <2>2
<1>6. line[k + 1] = "\n"
  <2>1. k + 1 \in 1..(k + 1) /\ ~(k + 1 <= k) /\ (k + 1) - k = 1
    BY <1>4
  <2>2. QED
    BY <1>1, <1>5, <2>1
<1>7. SubSeq(line, 1, k) = most
  <2>1. CASE k = 0
    <3>1. most = <<>>
      BY <1>3, <2>1
    <3>2. SubSeq(line, 1, 0) = <<>>
      BY SubSeqEmpty
    <3>3. QED
      BY <2>1, <3>1, <3>2
  <2>2. CASE k # 0
    <3>1. 1 \in 1..Len(most) /\ k \in 1..Len(most)
      BY <1>4, <2>2
    <3>2. SubSeq(line, 1, k) = SubSeq(most, 1, k)
      BY <1>1, <1>3, <3>1, SubSeqOfConcat1
    <3>3. SubSeq(most, 1, k) = most
      BY <1>3, SubSeqFull
    <3>4. QED
      BY <3>2, <3>3
  <2>3. QED
    BY <2>1, <2>2
<1> HIDE DEF line, k
<1>8. Last(line) = "\n" /\ Front(line) = most
  <2>1. Len(line) - 1 = k
    BY <1>4, <1>5
  <2>2. QED
    BY <1>5, <1>6, <1>7, <2>1 DEF Last, Front
<1>9. IsLine(line) <=> "\n" \notin Range(most)
  BY <1>8 DEF IsLine
<1>10. QED
  BY <1>2, <1>3, <1>9 DEF nl

LEMMA WordRange == Range(<<"a">>) = {"a"}
  BY DEF Range

\* Which text lines are one.
LEMMA LineOrNot ==
    ASSUME NEW r, NEW v \in Seq(Chars), NEW w \in Seq(Chars), r.type \in RecordTypes,
           w = IF r.type = "TEXT" THEN r.text ELSE v,
           Nothing(r) => v = <<>>
    PROVE  IsLine(TextLine(r, v)) <=> ~Open(r) /\ "\n" \notin Range(w)
<1> DEFINE word == <<"a">>
           two  == word \o word
           nl   == <<"\n">>
<1>1. word \in Seq(Chars) /\ Range(word) = {"a"}
  BY WordIsA, WordRange
<1>2. two \in Seq(Chars) /\ Range(two) = {"a"}
  <2> HIDE DEF word
  <2>1. two \in Seq(Chars) /\ Range(two) = Range(word) \cup Range(word)
    BY <1>1, RangeConcatenation
  <2>2. QED
    BY <1>1, <2>1
<1>3. nl \in Seq(Chars) /\ "\n" # "a"
  BY DEF Chars
<1>4. CASE r.type = "TEXT"
  <2>1. TextLine(r, v) = word \o (w \o nl) /\ ~Open(r)
    BY <1>4 DEF TextLine, Open
  <2> HIDE DEF word
  <2>2. IsLine(word \o (w \o nl)) <=> "\n" \notin Range(word) \cup Range(w)
    BY <1>1, LineIf
  <2>3. QED
    BY <1>1, <1>3, <2>1, <2>2
<1>5. CASE r.type = "FW_BINARY"
  <2>1. TextLine(r, v) = word \o ((word \o v) \o nl) /\ ~Open(r) /\ w = v
    BY <1>5 DEF TextLine, Open
  <2> HIDE DEF word
  <2>2. word \o v \in Seq(Chars) /\ Range(word \o v) = Range(word) \cup Range(v)
    BY <1>1, RangeConcatenation
  <2>3. IsLine(word \o ((word \o v) \o nl)) <=> "\n" \notin Range(word) \cup Range(word \o v)
    BY <1>1, <2>2, LineIf
  <2>4. QED
    BY <1>1, <1>3, <2>1, <2>2, <2>3
<1>6. CASE r.type = "FWIF" /\ Understood(r)
  <2>1. ~Open(r) /\ w = v
    BY <1>6 DEF Open
  <2> DEFINE t == TextV2(r.channel, v)
  <2>2. TextLine(r, v) = word \o (word \o (t \o nl))
    BY <1>6 DEF TextLine, TextFwif
  <2>3. t \in Seq(Chars) /\ ("\n" \in Range(t) <=> "\n" \in Range(v))
    <3>1. CASE r.channel \in {"MESSAGE", "INPUT", "OUTPUT", "RPC"}
      <4>1. t = word \o v
        BY <3>1 DEF TextV2
      <4> HIDE DEF word, t
      <4>2. t \in Seq(Chars) /\ Range(t) = Range(word) \cup Range(v)
        BY <1>1, <4>1, RangeConcatenation
      <4>3. QED
        BY <1>1, <1>3, <4>2
    <3>2. CASE r.channel \notin {"MESSAGE", "INPUT", "OUTPUT", "RPC"}
      <4>1. t = <<>> /\ v = <<>>
        BY <1>6, <3>2 DEF TextV2, Nothing
      <4>2. QED
        BY <4>1
    <3>3. QED
      BY <3>1, <3>2
  <2> HIDE DEF t, word, nl
  <2>4. t \o nl \in Seq(Chars)
    BY <1>3, <2>3, ConcatProperties
  <2>5. word \o (word \o (t \o nl)) = (word \o word) \o (t \o nl)
    <3> DEFINE u == t \o nl
    <3>1. word \in Seq(Chars) /\ u \in Seq(Chars)
      BY <1>1, <2>4
    <3> HIDE DEF u
    <3>2. (word \o word) \o u = word \o (word \o u)
      BY <3>1, Associates
    <3>3. QED
      BY <3>2 DEF u
  <2>6. IsLine(two \o (t \o nl)) <=> "\n" \notin Range(two) \cup Range(t)
    BY <1>2, <2>3, LineIf DEF nl
  <2> HIDE DEF two
  <2>7. TextLine(r, v) = two \o (t \o nl)
    BY <2>2, <2>5 DEF two
  <2>8. QED
    BY <1>2, <1>3, <2>1, <2>3, <2>6, <2>7
<1>7. CASE Open(r)
  <2>1. TextLine(r, v) = word \o (word \o <<>>)
    BY <1>7 DEF TextLine, TextFwif, Open
  <2>2. Len(word) = 1 /\ word[1] = "a"
    OBVIOUS
  <2> HIDE DEF word, two
  <2>3. word \o <<>> = word
    BY <1>1, ConcatEmptySeq
  <2>4. Len(two) = 2 /\ two[2] = "a"
    <3>1. /\ Len(two) = Len(word) + Len(word)
          /\ \A i \in 1..(Len(word) + Len(word)) :
                 two[i] = IF i <= Len(word) THEN word[i] ELSE word[i - Len(word)]
      BY <1>1, ConcatProperties DEF two
    <3>2. QED
      BY <2>2, <3>1
  <2>5. Last(two) = "a" /\ TextLine(r, v) = two
    BY <2>1, <2>3, <2>4 DEF Last, two
  <2>6. ~IsLine(TextLine(r, v))
    BY <1>3, <2>5 DEF IsLine
  <2>7. QED
    BY <1>7, <2>6
<1>8. QED
  BY <1>4, <1>5, <1>6, <1>7 DEF RecordTypes, Open

-----------------------------------------------------------------------------
(* What is written. *)

LEMMA TypesAre == ASSUME NEW r \in Records PROVE r.type \in RecordTypes
  BY DEF Records, Fwif, RecordTypes

LEMMA StripTyped ==
    ASSUME NEW t \in Seq(Chars), NEW k, Kept(t, {"\n"}, k)
    PROVE  SubSeq(t, 1, k) \in Seq(Chars) /\ Len(SubSeq(t, 1, k)) = k /\ k \in Nat
<1>1. k \in 0..Len(t) /\ Len(t) \in Nat
  BY DEF Kept
<1>2. k \in Nat /\ 1 \in Int /\ k \in Int
  BY <1>1
<1>3. \A i \in 1..k : t[i] \in Chars
  BY <1>1
<1>4. /\ SubSeq(t, 1, k) \in Seq(Chars)
      /\ Len(SubSeq(t, 1, k)) = IF 1 <= k THEN k - 1 + 1 ELSE 0
  BY <1>2, <1>3, SubSeqProperties
<1>5. QED
  BY <1>2, <1>4

\* Two characters of the code, the text in quotes.
LEMMA PrintedIs ==
    ASSUME NEW r \in Records, IsPrint(r)
    PROVE  /\ Printed(r) \in Seq(Chars) /\ Printed(r) # <<>>
           /\ \E k : /\ Kept(r.msg.text, {"\n"}, k)
                     /\ Printed(r) = (<<"a", "\"">> \o SubSeq(r.msg.text, 1, k)) \o <<"\"">>
<1> DEFINE t == r.msg.text
           first == <<"a", "\"">>
           last == <<"\"">>
<1>1. t \in Seq(Chars)
  BY RpcTyped DEF IsPrint
<1>2. PICK k : Kept(t, {"\n"}, k)
  BY <1>1, RStripKeeps
<1>3. Printed(r) = (first \o SubSeq(t, 1, k)) \o last
  BY <1>2 DEF Printed, Kept
<1>4. SubSeq(t, 1, k) \in Seq(Chars)
  BY <1>1, <1>2, StripTyped
<1>5. first \in Seq(Chars) /\ Len(first) = 2 /\ last \in Seq(Chars) /\ Len(last) = 1
  <2>1. "a" \in Chars /\ "\"" \in Chars
    BY DEF Chars, Special
  <2>2. QED
    BY <2>1, One, Two
<1> DEFINE u == SubSeq(t, 1, k)
           st == first \o u
<1> HIDE DEF first, last, u
<1>6. u \in Seq(Chars)
  BY <1>4 DEF u
<1>7. st \in Seq(Chars) /\ Len(st) = Len(first) + Len(u)
  BY <1>5, <1>6, ConcatProperties
<1> HIDE DEF st
<1>8. st \o last \in Seq(Chars) /\ Len(st \o last) = Len(st) + Len(last)
  BY <1>5, <1>7, ConcatProperties
<1>9. Len(st \o last) # 0 /\ Len(<<>>) = 0
  BY <1>5, <1>6, <1>7, <1>8
<1>10. Printed(r) = st \o last
  BY <1>3 DEF st, u
<1>11. Printed(r) \in Seq(Chars) /\ Printed(r) # <<>>
  BY <1>8, <1>9, <1>10
<1>12. QED
  BY <1>2, <1>3, <1>11 DEF first, last

LEMMA ContentsTyped ==
    ASSUME NEW r \in Records, NEW p, NEW chars \in Contents(p, r)
    PROVE  chars \in Seq(Chars) /\ chars # <<>>
<1>1. \/ IsPrint(r) /\ chars = Printed(r)
      \/ \E c \in Chars : chars = <<"a", c>>
      \/ chars = <<"a">>
  BY DEF Contents
<1>2. ASSUME NEW c \in Chars, chars = <<"a", c>> PROVE chars \in Seq(Chars) /\ chars # <<>>
  <2>1. "a" \in Chars
    BY DEF Chars
  <2>2. QED
    BY <1>2, <2>1
<1>3. QED
  BY <1>1, <1>2, PrintedIs, WordIsA

LEMMA FittingTyped ==
    ASSUME NEW chars \in Seq(Chars), chars # <<>>, NEW len, NEW size,
           NEW s \in Fitting(chars, len, size)
    PROVE  s \in Seq(Chars)
<1>1. \/ s = chars
      \/ s = <<>>
      \/ \E k \in {1} \cup 1..(Len(chars) - 1) : s = SubSeq(chars, 1, k)
  BY DEF Fitting
<1>2. ASSUME NEW k \in {1} \cup 1..(Len(chars) - 1) PROVE SubSeq(chars, 1, k) \in Seq(Chars)
  <2>1. Len(chars) \in Nat \ {0}
    BY EmptySeq
  <2>2. k \in 1..Len(chars)
    BY <2>1
  <2>3. \A i \in 1..k : chars[i] \in Chars
    BY <2>1, <2>2
  <2>4. 1 \in Int /\ k \in Int
    BY <2>2
  <2>5. QED
    BY <2>3, <2>4, SubSeqProperties
<1>3. QED
  BY <1>1, <1>2, EmptySeq

\* The line that was written is that of the record and its description.
WrittenInv ==
    /\ fmt \in {"text", "json"} /\ stage \in {"idle", "describe", "written", "undefined"}
    /\ stage # "idle" => rec \in Records
    /\ data \in Seq(Chars)
    /\ stage = "idle" => todo = <<>> /\ data = <<>>
    /\ stage # "idle" /\ Pieces(rec) = <<>> => todo = <<>> /\ data = <<>>
    /\ stage = "written" =>
           /\ todo = <<>>
           /\ out = IF fmt = "text" THEN TextLine(rec, data) ELSE JsonLine(rec, data)

LEMMA WrittenCorrect == Spec => []WrittenInv
<1>1. Init => WrittenInv
  BY EmptySeq DEF Init, WrittenInv
<1>2. IInv /\ WrittenInv /\ [Next]_vars => WrittenInv'
  <2> SUFFICES ASSUME IInv, WrittenInv, [Next]_vars PROVE WrittenInv'
    OBVIOUS
  <2>1. CASE UNCHANGED vars
    BY <2>1 DEF vars, WrittenInv
  <2>2. ASSUME NEW r \in Records, Unpack(r) PROVE WrittenInv'
    BY <2>2 DEF Unpack, WrittenInv
  <2>3. ASSUME todo # <<>>, NEW len, NEW chars \in Contents(Head(todo), rec),
               PrintPiece(len, chars)
        PROVE  WrittenInv'
    <3>1. stage = "describe" /\ stage' = stage /\ rec' = rec /\ fmt' = fmt
      BY <2>3 DEF PrintPiece
    <3>2. rec \in Records /\ data \in Seq(Chars) /\ Pieces(rec) # <<>>
      BY <2>3, <3>1 DEF WrittenInv
    <3>3. PICK s \in Fitting(chars, len, DataSize - n) : data' = data \o s
      BY <2>3 DEF PrintPiece
    <3>4. chars \in Seq(Chars) /\ chars # <<>>
      BY <2>3, <3>2, ContentsTyped
    <3>5. s \in Seq(Chars)
      BY <3>3, <3>4, FittingTyped
    <3>6. data' \in Seq(Chars)
      BY <3>2, <3>3, <3>5, ConcatProperties
    <3>7. QED
      BY <3>1, <3>2, <3>6 DEF WrittenInv
  <2>4. CASE WritePast
    BY <2>4 DEF WritePast, WrittenInv
  <2>5. CASE WriteLine
    BY <2>5 DEF WriteLine, WrittenInv
  <2>6. CASE Return
    BY <2>6, EmptySeq DEF Return, WrittenInv
  <2>7. CASE Terminated
    BY <2>1, <2>7 DEF Terminated
  <2>8. QED
    BY <2>1, <2>2, <2>3, <2>4, <2>5, <2>6, <2>7 DEF Next
<1>3. QED
  BY <1>1, <1>2, InitIInv, NextIInv, PTL DEF Spec

\* What the two writers are given.
LEMMA Given ==
    ASSUME WrittenInv, stage = "written"
    PROVE  /\ rec.type \in RecordTypes /\ data \in Seq(Chars) /\ Shown \in Seq(Chars)
           /\ Shown = IF rec.type = "TEXT" THEN rec.text ELSE data
           /\ Nothing(rec) => data = <<>>
<1>1. rec \in Records /\ data \in Seq(Chars)
  BY DEF WrittenInv
<1>2. Shown \in Seq(Chars)
  BY <1>1, TextTyped DEF Shown
<1>3. ASSUME Nothing(rec) PROVE data = <<>>
  <2>1. Pieces(rec) = <<>>
    BY <1>3 DEF Nothing, Pieces
  <2>2. QED
    BY <2>1 DEF WrittenInv
<1>4. QED
  BY <1>1, <1>2, <1>3, TypesAre DEF Shown

\* Whatever is in the log and whatever fits the description: what LogdText and LogdJSON
\* write for a record is one line, and one object, but for exactly these: a record of an
\* unknown version, a text with a newline, and as an object a firmware binary and a text
\* with an apostrophe.
THEOREM OneRecordEachCorrect == Spec => []OneRecordEach
<1>1. WrittenInv => OneRecordEach
  <2> SUFFICES ASSUME WrittenInv, stage = "written"
               PROVE  IF fmt = "text"
                      THEN IsLine(out) <=> ~Open(rec) /\ "\n" \notin Range(Shown)
                      ELSE IsObject(out) <=> /\ ~Open(rec) /\ rec.type # "FW_BINARY"
                                             /\ Plain(Shown)
    BY DEF OneRecordEach, Open, Plain
  <2>1. out = IF fmt = "text" THEN TextLine(rec, data) ELSE JsonLine(rec, data)
    BY DEF WrittenInv
  <2>2. IsLine(TextLine(rec, data)) <=> ~Open(rec) /\ "\n" \notin Range(Shown)
    BY Given, LineOrNot
  <2>3. IsObject(JsonLine(rec, data))
          <=> ~Open(rec) /\ rec.type # "FW_BINARY" /\ Plain(Shown)
    BY Given, ObjectOrNot
  <2>4. QED
    BY <2>1, <2>2, <2>3
<1>2. QED
  BY <1>1, WrittenCorrect, PTL

-----------------------------------------------------------------------------
(* What is cut. *)

LEMMA MostIs ==
    ASSUME NEW s \in Seq(AllPieces)
    PROVE  /\ Most(s) \in Nat
           /\ s # <<>> => Most(s) = Longest(Head(s)) + Most(Tail(s))
<1> DEFINE l == Len(s)
           ns == [i \in 1..l |-> Longest(s[i])]
<1>1. \A p \in AllPieces : Longest(p) \in Nat
  BY LengthsAre DEF Lengthy
<1>2. l \in Nat /\ \A i \in 1..l : s[i] \in AllPieces
  OBVIOUS
<1>3. ns \in [1..l -> Nat]
  BY <1>1, <1>2
<1>4. ns \in Seq(Nat) /\ Len(ns) = l
  <2> HIDE DEF ns, l
  <2>1. QED
    BY <1>2, <1>3, IsASeq
<1>5. Most(s) = SumOf(ns)
  BY DEF Most
<1>6. Most(s) \in Nat
  <2> HIDE DEF ns
  <2>1. QED
    BY <1>4, <1>5, SumLess
<1>7. ASSUME s # <<>> PROVE Most(s) = Longest(Head(s)) + Most(Tail(s))
  <2> DEFINE t == Tail(s)
             k == Len(t)
             a == Longest(Head(s))
             nt == [i \in 1..k |-> Longest(t[i])]
             b == <<a>>
             c == b \o nt
  <2>1. /\ Head(s) \in AllPieces /\ t \in Seq(AllPieces) /\ k = l - 1
        /\ \A i \in 1..k : t[i] = s[i + 1]
    BY <1>7, HeadTailProperties
  <2>2. Head(s) = s[1] /\ l >= 1
    BY <1>7
  <2>3. a \in Nat
    BY <1>1, <2>1
  <2>4. k \in Nat /\ l = k + 1
    BY <1>2, <2>1
  <2>5. \A i \in 1..k : t[i] \in AllPieces
    BY <2>1
  <2>6. nt \in [1..k -> Nat]
    BY <1>1, <2>5
  <2>7. nt \in Seq(Nat) /\ Len(nt) = k
    <3> HIDE DEF nt, k
    <3>1. QED
      BY <2>4, <2>6, IsASeq
  <2>8. b \in Seq(Nat) /\ Len(b) = 1 /\ b[1] = a
    <3> HIDE DEF a
    <3>1. QED
      BY <2>3
  <2>9. \A i \in 1..k : nt[i] = ns[i + 1]
    <3>1. \A i \in 1..k : i + 1 \in 1..l
      BY <2>4
    <3>2. QED
      BY <2>1, <3>1
  <2>10. ns[1] = a
    BY <2>2
  <2> HIDE DEF ns, nt, a, b, t, k, l
  <2>11. /\ c \in Seq(Nat) /\ Len(c) = Len(b) + Len(nt)
         /\ \A i \in 1..(Len(b) + Len(nt)) :
                c[i] = IF i <= Len(b) THEN b[i] ELSE nt[i - Len(b)]
    BY <2>7, <2>8, ConcatProperties
  <2> HIDE DEF c
  <2>12. /\ Len(c) = l /\ c \in Seq(Nat)
         /\ \A i \in 1..l : c[i] = IF i <= 1 THEN b[i] ELSE nt[i - 1]
    BY <2>4, <2>7, <2>8, <2>11
  <2>13. ASSUME NEW i \in 1..l PROVE c[i] = ns[i]
    <3>1. CASE i = 1
      BY <2>8, <2>10, <2>12, <3>1
    <3>2. CASE i # 1
      <4>1. i - 1 \in 1..k /\ (i - 1) + 1 = i /\ ~(i <= 1)
        BY <1>2, <2>4, <3>2
      <4>2. QED
        BY <2>9, <2>12, <4>1
    <3>3. QED
      BY <3>1, <3>2
  <2>14. c = [i \in 1..l |-> c[i]] /\ ns = [i \in 1..l |-> ns[i]]
    BY <1>4, <2>12
  <2>15. c = ns
    BY <2>13, <2>14
  <2>16. SumOf(ns) = SumOf(b) + SumOf(nt)
    BY <2>7, <2>8, <2>15, SumBoth DEF c
  <2>17. SumOf(b) = a
    BY <2>3, SumOne DEF b
  <2>18. Most(t) = SumOf(nt)
    BY DEF Most, nt, k
  <2>19. QED
    BY <1>5, <2>16, <2>17, <2>18 DEF a, t
<1>8. QED
  BY <1>6, <1>7

\* What is printed and what is still to print come to no more than the record can.
FitInv ==
    /\ stage = "idle" => total = 0
    /\ stage \in {"describe", "undefined"} => total + Most(todo) <= Most(Pieces(rec))
    /\ stage = "written" => total <= Most(Pieces(rec))

LEMMA FitCorrect == Spec => []FitInv
<1>1. Init => FitInv
  BY DEF Init, FitInv
<1>2. IInv /\ WrittenInv /\ FitInv /\ [Next]_vars => FitInv'
  <2> SUFFICES ASSUME IInv, WrittenInv, FitInv, [Next]_vars PROVE FitInv'
    OBVIOUS
  <2>0. total \in Nat /\ todo \in Seq(AllPieces) /\ Most(todo) \in Nat
    BY MostIs DEF IInv
  <2>1. CASE UNCHANGED vars
    BY <2>1 DEF vars, FitInv
  <2>2. ASSUME NEW r \in Records, Unpack(r) PROVE FitInv'
    <3>1. stage = "idle" /\ stage' = "describe" /\ rec' = r /\ todo' = Pieces(r)
          /\ total' = total
      BY <2>2 DEF Unpack
    <3>2. total = 0
      BY <3>1 DEF FitInv
    <3>3. Most(Pieces(r)) \in Nat
      BY LengthsAre, MostIs
    <3>4. total' + Most(todo') <= Most(Pieces(rec'))
      BY <3>1, <3>2, <3>3
    <3>5. QED
      BY <3>1, <3>4 DEF FitInv
  <2>3. ASSUME todo # <<>>, NEW len \in Lengths(Head(todo)), NEW chars, PrintPiece(len, chars)
        PROVE  FitInv'
    <3> DEFINE a == Longest(Head(todo))
               b == Most(Tail(todo))
               c == Most(Pieces(rec))
    <3>1. stage = "describe" /\ stage' = stage /\ rec' = rec /\ todo' = Tail(todo)
          /\ total' = total + len
      BY <2>3 DEF PrintPiece
    <3>2. Head(todo) \in AllPieces /\ Tail(todo) \in Seq(AllPieces)
      BY <2>0, <2>3, HeadTailProperties
    <3>3. len \in Nat /\ a \in Nat /\ len <= a
      BY <2>3, <3>2, LengthsAre DEF Lengthy
    <3>4. b \in Nat
      BY <3>2, MostIs
    <3>5. Most(todo) = a + b
      BY <2>0, <2>3, MostIs
    <3>6. total + (a + b) <= c
      BY <3>1, <3>5 DEF FitInv
    <3>7. c \in Nat
      BY <3>1, LengthsAre, MostIs DEF WrittenInv
    <3> HIDE DEF a, b, c
    <3>8. (total + len) + b <= c
      BY <2>0, <3>3, <3>4, <3>6, <3>7
    <3>9. total' + Most(todo') <= Most(Pieces(rec'))
      BY <3>1, <3>8 DEF b, c
    <3>10. QED
      BY <3>1, <3>9 DEF FitInv
  <2>4. CASE WriteLine
    <3>1. stage = "describe" /\ stage' = "written" /\ rec' = rec /\ total' = total
      BY <2>4 DEF WriteLine
    <3>2. total + Most(todo) <= Most(Pieces(rec)) /\ Most(Pieces(rec)) \in Nat
      BY <3>1, LengthsAre, MostIs DEF FitInv, WrittenInv
    <3>3. total <= Most(Pieces(rec))
      BY <2>0, <3>2
    <3>4. QED
      BY <3>1, <3>3 DEF FitInv
  <2>5. CASE Return
    BY <2>5 DEF Return, FitInv
  <2>6. CASE WritePast
    BY <2>6 DEF WritePast, FitInv
  <2>7. CASE Terminated
    BY <2>1, <2>7 DEF Terminated
  <2>8. QED
    BY <2>1, <2>2, <2>3, <2>4, <2>5, <2>6, <2>7 DEF Next
<1>3. QED
  BY <1>1, <1>2, InitIInv, NextIInv, WrittenCorrect, PTL DEF Spec

\* A buffer of 500 characters, and 206 more than a print of the firmware has, cuts no
\* description but long lists of regions and long prints (mvx_logd_fwif_v2.cpp), whatever
\* the values in the messages.
THEOREM CutCorrect ==
    ASSUME DataSize >= 500, DataSize >= 206 + TextLength
    PROVE  Spec => []CutOnlyLists
<1>1. IInv /\ WrittenInv /\ FitInv => CutOnlyLists
  <2> SUFFICES ASSUME IInv, WrittenInv, FitInv, total >= DataSize
               PROVE  Exempt(rec)
    BY DEF CutOnlyLists, Exempt, LongList
  <2>1. DataSize \in Nat /\ TextLength \in Nat
    BY UnpackAssumption
  <2>2. total \in Nat /\ total >= 500
    BY <2>1 DEF IInv
  <2>3. stage # "idle"
    BY <2>2 DEF FitInv
  <2>4. stage \in {"describe", "written", "undefined"} /\ rec \in Records
    BY <2>3 DEF WrittenInv
  <2>5. total <= Most(Pieces(rec)) /\ Most(Pieces(rec)) \in Nat
    <3>1. Most(Pieces(rec)) \in Nat
      BY <2>4, LengthsAre, MostIs
    <3>2. CASE stage = "written"
      BY <3>1, <3>2 DEF FitInv
    <3>3. CASE stage \in {"describe", "undefined"}
      <4>1. total + Most(todo) <= Most(Pieces(rec))
        BY <3>3 DEF FitInv
      <4>2. Most(todo) \in Nat
        BY MostIs DEF IInv
      <4>3. QED
        BY <2>2, <3>1, <4>1, <4>2
    <3>4. QED
      BY <2>4, <3>2, <3>3
  <2>6. PICK b \in Nat : /\ \E mem, bytes : Told(Pieces(rec), b, mem, bytes)
                         /\ ~Exempt(rec) => b <= 499 \/ b <= 205 + TextLength
    BY <2>4, PiecesTold
  <2>7. Most(Pieces(rec)) <= b
    BY <2>6 DEF Told
  <2>8. ~(b <= 499 \/ b <= 205 + TextLength)
    <3> DEFINE most == Most(Pieces(rec))
    <3> HIDE DEF most
    <3>1. most \in Nat /\ most <= b /\ total <= most
      BY <2>5, <2>7 DEF most
    <3>2. QED
      BY <2>1, <2>2, <3>1
  <2>9. QED
    BY <2>6, <2>8
<1>2. Spec => []IInv
  BY InitIInv, NextIInv, PTL DEF Spec
<1>3. QED
  BY <1>1, <1>2, FitCorrect, WrittenCorrect, PTL

-----------------------------------------------------------------------------
(* What a description keeps of a print. *)

\* The description is a part of the start of what it was to be.
Cut(d, whole) == \E j \in 0..(Len(whole) - 1) : d = SubSeq(whole, 1, j)

LEMMA CutIsPrefix ==
    ASSUME NEW whole \in Seq(Chars), whole # <<>>, NEW d, Cut(d, whole)
    PROVE  IsStrictPrefix(d, whole)
<1>1. PICK j \in 0..(Len(whole) - 1) : d = SubSeq(whole, 1, j)
  BY DEF Cut
<1>2. Len(whole) \in Nat \ {0}
  BY EmptySeq
<1>3. j \in Nat /\ j < Len(whole) /\ 1 \in Int /\ j \in Int
  BY <1>1, <1>2
<1>4. \A i \in 1..j : whole[i] \in Chars
  BY <1>2, <1>3
<1>5. d \in Seq(Chars) /\ Len(d) = j
  <2>1. /\ SubSeq(whole, 1, j) \in Seq(Chars)
        /\ Len(SubSeq(whole, 1, j)) = IF 1 <= j THEN j - 1 + 1 ELSE 0
    BY <1>3, <1>4, SubSeqProperties
  <2>2. QED
    BY <1>1, <1>3, <2>1
<1>6. SubSeq(d, 1, Len(d)) = d
  BY <1>5, SubSeqFull
<1>7. SubSeq(whole, 1, Len(d)) = d
  BY <1>1, <1>5
<1>8. Len(d) < Len(whole) /\ Len(d) <= Len(whole)
  BY <1>2, <1>3, <1>5
<1>9. d # whole
  BY <1>2, <1>8
<1>10. QED
  BY <1>6, <1>7, <1>8, <1>9 DEF IsStrictPrefix, IsPrefix

\* Nothing, the first character, and that with a part of the rest.
LEMMA CutAfter ==
    ASSUME NEW c \in Seq(Chars), Len(c) = 1, NEW p \in Seq(Chars), p # <<>>
    PROVE  /\ c \o p \in Seq(Chars) /\ Len(c \o p) = Len(p) + 1 /\ c \o p # <<>>
           /\ Cut(<<>>, c \o p) /\ Cut(c, c \o p)
           /\ \A k \in 1..(Len(p) - 1) : Cut(c \o SubSeq(p, 1, k), c \o p)
<1> DEFINE w == c \o p
           l == Len(p)
<1>1. l \in Nat \ {0}
  BY EmptySeq
<1>2. /\ w \in Seq(Chars) /\ Len(w) = Len(c) + Len(p)
      /\ \A i \in 1..(Len(c) + Len(p)) : w[i] = IF i <= Len(c) THEN c[i] ELSE p[i - Len(c)]
  BY ConcatProperties
<1> HIDE DEF w
<1>3. /\ Len(w) = l + 1
      /\ \A i \in 1..(l + 1) : w[i] = IF i <= 1 THEN c[i] ELSE p[i - 1]
  BY <1>1, <1>2
<1> HIDE DEF l
<1>4. w # <<>> /\ Len(w) - 1 = l
  BY <1>1, <1>2, <1>3, EmptySeq
<1>5. ASSUME NEW j \in 0..l
      PROVE  /\ SubSeq(w, 1, j) \in Seq(Chars) /\ Len(SubSeq(w, 1, j)) = j
             /\ \A i \in 1..j : SubSeq(w, 1, j)[i] = w[i]
  <2>1. j \in Nat /\ j <= l /\ 1 \in Int /\ j \in Int
    BY <1>1
  <2>2. \A i \in 1..j : w[i] \in Chars
    BY <1>1, <1>2, <1>3, <2>1
  <2>3. /\ SubSeq(w, 1, j) \in Seq(Chars)
        /\ Len(SubSeq(w, 1, j)) = IF 1 <= j THEN j - 1 + 1 ELSE 0
        /\ \A i \in 1..(j - 1 + 1) : SubSeq(w, 1, j)[i] = w[1 + i - 1]
    BY <2>1, <2>2, SubSeqProperties
  <2>4. QED
    BY <2>1, <2>3
<1>6. Cut(<<>>, w)
  <2>1. 0 \in 0..l
    BY <1>1
  <2>2. SubSeq(w, 1, 0) = <<>>
    BY <1>5, <2>1, EmptySeq
  <2>3. QED
    BY <1>4, <2>1, <2>2 DEF Cut
<1>7. Cut(c, w)
  <2>1. 1 \in 0..l /\ 1 \in 1..(l + 1)
    BY <1>1
  <2> DEFINE s == SubSeq(w, 1, 1)
  <2>2. s \in Seq(Chars) /\ Len(s) = 1 /\ \A i \in 1..1 : s[i] = w[i]
    BY <1>5, <2>1
  <2>3. w[1] = c[1]
    BY <1>3, <2>1
  <2> HIDE DEF s
  <2>4. \A i \in 1..Len(s) : s[i] = c[i]
    BY <2>2, <2>3
  <2>5. s = c
    BY <2>2, <2>4, SeqEqual
  <2>6. QED
    BY <1>4, <2>1, <2>5 DEF Cut, s
<1>8. ASSUME NEW k \in 1..(l - 1) PROVE Cut(c \o SubSeq(p, 1, k), w)
  <2> DEFINE q == SubSeq(p, 1, k)
             u == c \o q
             s == SubSeq(w, 1, k + 1)
  <2>1. k \in Nat /\ k < l /\ k + 1 \in 0..l /\ k + 1 \in Nat
    BY <1>1
  <2>2. q \in Seq(Chars) /\ Len(q) = k /\ \A i \in 1..k : q[i] = p[i]
    <3>1. 1 \in Int /\ k \in Int /\ \A i \in 1..k : p[i] \in Chars
      BY <2>1 DEF l
    <3>2. /\ SubSeq(p, 1, k) \in Seq(Chars)
          /\ Len(SubSeq(p, 1, k)) = IF 1 <= k THEN k - 1 + 1 ELSE 0
          /\ \A i \in 1..(k - 1 + 1) : SubSeq(p, 1, k)[i] = p[1 + i - 1]
      BY <3>1, SubSeqProperties
    <3>3. QED
      BY <2>1, <3>2
  <2> HIDE DEF q
  <2>3. /\ u \in Seq(Chars) /\ Len(u) = Len(c) + Len(q)
        /\ \A i \in 1..(Len(c) + Len(q)) :
               u[i] = IF i <= Len(c) THEN c[i] ELSE q[i - Len(c)]
    BY <2>2, ConcatProperties
  <2> HIDE DEF u
  <2>4. /\ Len(u) = k + 1
        /\ \A i \in 1..(k + 1) : u[i] = IF i <= 1 THEN c[i] ELSE q[i - 1]
    BY <2>1, <2>2, <2>3
  <2>5. s \in Seq(Chars) /\ Len(s) = k + 1 /\ \A i \in 1..(k + 1) : s[i] = w[i]
    BY <1>5, <2>1
  <2> HIDE DEF s
  <2>6. ASSUME NEW i \in 1..(k + 1) PROVE s[i] = u[i]
    <3>1. i \in 1..(l + 1)
      BY <1>1, <2>1
    <3>2. CASE i = 1
      BY <1>3, <2>4, <2>5, <3>1, <3>2
    <3>3. CASE i # 1
      <4>1. i - 1 \in 1..k /\ ~(i <= 1)
        BY <2>1, <3>3
      <4>2. QED
        BY <1>3, <2>2, <2>4, <2>5, <3>1, <4>1
    <3>4. QED
      BY <3>2, <3>3
  <2>7. s = u
    BY <2>3, <2>4, <2>5, <2>6, SeqEqual
  <2>8. QED
    BY <1>4, <2>1, <2>7 DEF Cut, s, u, q
<1>9. QED
  BY <1>2, <1>3, <1>4, <1>6, <1>7, <1>8 DEF w, l

\* One character fits or does not; of more a part may fit.
LEMMA OneFits ==
    ASSUME NEW c \in Seq(Chars), Len(c) = 1, NEW len \in Nat, NEW size \in Nat \ {0},
           NEW s \in Fitting(c, len, size)
    PROVE  (len < size => s = c) /\ s \in {c, <<>>}
<1>1. ASSUME len >= size, size > 1 PROVE s = c
  <2>1. {1} \cup 1..(Len(c) - 1) = {1}
    OBVIOUS
  <2>2. s = SubSeq(c, 1, 1)
    BY <1>1, <2>1 DEF Fitting
  <2>3. QED
    BY <2>2, SubSeqFull
<1>2. len < size => s = c
  BY DEF Fitting
<1>3. ASSUME ~(len < size), ~(size > 1) PROVE s = <<>>
  BY <1>3 DEF Fitting
<1>4. QED
  BY <1>1, <1>2, <1>3

LEMMA MoreFits ==
    ASSUME NEW p \in Seq(Chars), Len(p) > 1, NEW len \in Nat \ {0}, NEW size \in Nat \ {0},
           NEW s \in Fitting(p, len, size)
    PROVE  /\ len < size => s = p
           /\ len >= size => s = <<>> \/ \E k \in 1..(Len(p) - 1) : s = SubSeq(p, 1, k)
           /\ size = 1 => s = <<>>
<1>1. len < size => s = p
  BY DEF Fitting
<1>2. ASSUME len >= size, size > 1 PROVE \E k \in 1..(Len(p) - 1) : s = SubSeq(p, 1, k)
  <2>1. {1} \cup 1..(Len(p) - 1) = 1..(Len(p) - 1)
    OBVIOUS
  <2>2. QED
    BY <1>2, <2>1 DEF Fitting
<1>3. ASSUME ~(len < size), ~(size > 1) PROVE s = <<>>
  BY <1>3 DEF Fitting
<1>4. QED
  BY <1>1, <1>2, <1>3

\* A print of the firmware that is understood, in two pieces.
PrintSent(r) == r.type = "FWIF" /\ r.channel = "RPC" /\ Understood(r) /\ IsPrint(r)
HeadOfPrint(m) == Piece(23, <<m.state, m.call>>, "none", RpcHead, 0, <<"size">>)
BodyOfPrint(m) == Piece(10 + Length(RStrip(m.text, {"\n"})), <<>>, "debug_print",
                        RpcData["debug_print"], SizeOf(RpcHead), <<>>)

LEMMA PrintPieces ==
    ASSUME NEW r, PrintSent(r)
    PROVE  /\ Pieces(r) # <<>> /\ Head(Pieces(r)) = HeadOfPrint(r.msg)
           /\ Tail(Pieces(r)) = <<BodyOfPrint(r.msg)>>
<1> DEFINE h == HeadOfPrint(r.msg)
           b == BodyOfPrint(r.msg)
<1>1. Pieces(r) = <<h>> \o <<b>>
  BY DEF PrintSent, IsPrint, Pieces, RpcPieces, InRpc, HeadOfPrint, BodyOfPrint
<1> DEFINE A == {h, b}
           x == <<h>>
           y == <<b>>
           ps == x \o y
<1> HIDE DEF h, b
<1>2. x \in Seq(A) /\ Len(x) = 1 /\ x[1] = h /\ y \in Seq(A) /\ Len(y) = 1 /\ y[1] = b
  OBVIOUS
<1> HIDE DEF A, x, y
<1>3. /\ ps \in Seq(A) /\ Len(ps) = Len(x) + Len(y)
      /\ \A i \in 1..(Len(x) + Len(y)) : ps[i] = IF i <= Len(x) THEN x[i] ELSE y[i - Len(x)]
  BY <1>2, ConcatProperties
<1>4. Pieces(r) = ps
  BY <1>1 DEF x, y
<1> HIDE DEF ps
<1>5. Len(ps) = 2 /\ ps[1] = h /\ ps[2] = b
  <2>1. Len(ps) = 2 /\ \A i \in 1..2 : ps[i] = IF i <= 1 THEN x[i] ELSE y[i - 1]
    BY <1>2, <1>3
  <2>2. QED
    BY <1>2, <2>1
<1>6. ps # <<>> /\ Head(ps) = h
  <2>1. Len(ps) # 0 /\ Len(<<>>) = 0
    BY <1>5
  <2>2. ps # <<>>
    BY <2>1
  <2>3. ps \in Seq(A)
    BY <1>3
  <2>4. Head(ps) = ps[1]
    BY <2>2, <2>3
  <2>5. QED
    BY <1>5, <2>2, <2>4
<1>7. /\ Tail(ps) \in Seq(A) /\ Len(Tail(ps)) = 1
      /\ \A i \in 1..1 : Tail(ps)[i] = y[i]
  <2>1. /\ Tail(ps) \in Seq(A) /\ Len(Tail(ps)) = Len(ps) - 1
        /\ \A i \in 1..Len(Tail(ps)) : Tail(ps)[i] = ps[i + 1]
    BY <1>3, <1>6, HeadTailProperties
  <2>2. Len(Tail(ps)) = 1
    BY <1>5, <2>1
  <2>3. ASSUME NEW i \in 1..1 PROVE Tail(ps)[i] = y[i]
    <3>1. i = 1 /\ i + 1 = 2 /\ i \in 1..Len(Tail(ps))
      BY <2>2
    <3>2. Tail(ps)[i] = ps[i + 1]
      BY <2>1, <3>1
    <3>3. QED
      BY <1>2, <1>5, <3>1, <3>2
  <2>4. QED
    BY <2>1, <2>2, <2>3
<1>8. Tail(ps) = y
  BY <1>2, <1>7, SeqEqual
<1>9. QED
  BY <1>4, <1>6, <1>8 DEF h, b, y

LEMMA HeadOfPrintIs ==
    ASSUME NEW r, IsPrint(r)
    PROVE  Contents(HeadOfPrint(r.msg), r) = {<<"a">>}
<1> DEFINE p == HeadOfPrint(r.msg)
           P == {"size"}
           i == IndexOf(RpcHead, "size")
           f == RpcHead[i]
<1>1. p.member = "none" /\ p.names = <<"size">> /\ p.s = RpcHead
  BY DEF HeadOfPrint, Piece
<1>2. i \in 1..Len(RpcHead)
  <2>1. Shape(RpcHead, P, P, 16) /\ "size" \in P
    BY RpcHeadShape
  <2> HIDE DEF P
  <2>2. QED
    BY <2>1, MemberIs
<1>3. f.size = 4
  <2> DEFINE names == <<"state", "call_id", "size">>
  <2>1. Len(names) = 3 /\ DOMAIN names = 1..3
    OBVIOUS
  <2> HIDE DEF names
  <2>2. RpcHead = [j \in 1..3 |-> [name |-> names[j], size |-> 4, align |-> 4, n |-> 1]]
    BY <2>1 DEF RpcHead, U32, Fields, names
  <2> HIDE DEF i
  <2>3. Len(RpcHead) = 3
    BY <2>2
  <2>4. i \in 1..3
    BY <1>2, <2>3
  <2>5. QED
    BY <2>2, <2>4
<1> HIDE DEF p
<1>4. ~HasString(p)
  <2>1. DOMAIN p.names = 1..1 /\ p.names[1] = "size"
    BY <1>1
  <2>2. \A j \in DOMAIN p.names : p.s[IndexOf(p.s, p.names[j])] = f
    BY <1>1, <2>1
  <2> HIDE DEF f, i
  <2>3. QED
    BY <1>3, <2>2 DEF HasString
<1>5. Contents(p, r) = {<<"a">>}
  BY <1>1, <1>4 DEF Contents
<1>6. QED
  BY <1>5 DEF p

LEMMA BodyOfPrintIs ==
    ASSUME NEW r \in Records, r.type = "FWIF", IsPrint(r)
    PROVE  /\ Contents(BodyOfPrint(r.msg), r) = {Printed(r)}
           /\ Lengths(BodyOfPrint(r.msg)) \subseteq Nat \ {0}
<1> DEFINE t == r.msg.text
           k == Length(RStrip(t, {"\n"}))
           p == BodyOfPrint(r.msg)
<1>1. p.member = "debug_print" /\ p.names = <<>> /\ p.labels = <<>> /\ p.text = 10 + k
  BY DEF BodyOfPrint, Piece
<1>2. k \in Nat
  <2>1. t \in Seq(Chars)
    BY RpcTyped DEF IsPrint
  <2> HIDE DEF t
  <2>2. QED
    BY <2>1, PrintLength
<1> HIDE DEF p, k
<1>3. Contents(p, r) = {Printed(r)}
  BY <1>1 DEF Contents
<1>4. Sum(p, Widest) = 0 /\ Sum(p, Narrow) = 0
  <2>1. DOMAIN p.names = {}
    BY <1>1
  <2>2. /\ [i \in DOMAIN p.names |-> Widest(p.s[IndexOf(p.s, p.names[i])])] = <<>>
        /\ [i \in DOMAIN p.names |-> Narrow(p.s[IndexOf(p.s, p.names[i])])] = <<>>
    BY <2>1
  <2>3. QED
    BY <2>2, SumNone DEF Sum
<1>5. Len(p.labels) = 0
  BY <1>1
<1>6. Lengths(p) = {10 + k}
  BY <1>1, <1>2, <1>4, <1>5 DEF Lengths, LabelMax, LabelMin
<1>7. QED
  BY <1>2, <1>3, <1>6 DEF p

\* The description of a print before, between and after its pieces.
Whole(r) == <<"a">> \o Printed(r)
Described(d, r, ps, sum) ==
    \/ ps = Pieces(r) /\ sum = 0 /\ d = <<>>
    \/ ps = <<BodyOfPrint(r.msg)>>
       /\ IF sum < DataSize THEN d = <<"a">> ELSE Cut(d, Whole(r))
    \/ ps = <<>> /\ IF sum < DataSize THEN d = Whole(r) ELSE Cut(d, Whole(r))
DescribedInv ==
    stage \in {"describe", "written"} /\ PrintSent(rec) => Described(data, rec, todo, total)

LEMMA WholeIs ==
    ASSUME NEW r \in Records, IsPrint(r)
    PROVE  /\ Printed(r) \in Seq(Chars) /\ Printed(r) # <<>> /\ Len(Printed(r)) > 1
           /\ <<"a">> \in Seq(Chars) /\ Len(<<"a">>) = 1
<1>1. Printed(r) \in Seq(Chars) /\ Printed(r) # <<>>
  BY PrintedIs
<1>2. PICK k : /\ Kept(r.msg.text, {"\n"}, k)
               /\ Printed(r) = (<<"a", "\"">> \o SubSeq(r.msg.text, 1, k)) \o <<"\"">>
  BY PrintedIs
<1> DEFINE a == <<"a", "\"">>
           q == SubSeq(r.msg.text, 1, k)
           c == <<"\"">>
           aq == a \o q
<1>3. q \in Seq(Chars)
  <2>1. r.msg.text \in Seq(Chars)
    BY RpcTyped DEF IsPrint
  <2>2. QED
    BY <1>2, <2>1, StripTyped
<1>4. a \in Seq(Chars) /\ Len(a) = 2 /\ c \in Seq(Chars) /\ Len(c) = 1
  <2>1. "a" \in Chars /\ "\"" \in Chars
    BY DEF Chars, Special
  <2>2. QED
    BY <2>1, One, Two
<1>5. Printed(r) = aq \o c
  BY <1>2
<1> HIDE DEF a, q, c
<1>6. aq \in Seq(Chars) /\ Len(aq) = Len(a) + Len(q)
  BY <1>3, <1>4, ConcatProperties
<1> HIDE DEF aq
<1>7. Len(aq \o c) = Len(aq) + Len(c)
  BY <1>4, <1>6, ConcatProperties
<1>8. Len(q) \in Nat
  BY <1>3
<1>9. Len(Printed(r)) > 1
  BY <1>4, <1>5, <1>6, <1>7, <1>8
<1>10. <<"a">> \in Seq(Chars) /\ Len(<<"a">>) = 1
  BY WordIsA
<1>11. QED
  BY <1>1, <1>9, <1>10

\* A piece goes where the description of a print is.
LEMMA PiecePrinted ==
    ASSUME NEW r \in Records, PrintSent(r), NEW ps, ps # <<>>, NEW d, NEW sum \in Nat,
           Described(d, r, ps, sum), NEW len \in Lengths(Head(ps)), len \in Nat,
           NEW chars \in Contents(Head(ps), r), NEW size \in Nat \ {0},
           size = IF sum < DataSize THEN DataSize - sum ELSE 1,
           NEW s \in Fitting(chars, len, size)
    PROVE  Described(d \o s, r, Tail(ps), sum + len)
<1> DEFINE c == <<"a">>
           p == Printed(r)
           w == c \o p
           h == HeadOfPrint(r.msg)
           b == BodyOfPrint(r.msg)
<1>0. r.type = "FWIF" /\ IsPrint(r) /\ DataSize \in Nat \ {0}
  BY UnpackAssumption DEF PrintSent
<1>1. p \in Seq(Chars) /\ p # <<>> /\ Len(p) > 1 /\ c \in Seq(Chars) /\ Len(c) = 1
  BY <1>0, WholeIs
<1>2. Pieces(r) # <<>> /\ Head(Pieces(r)) = h /\ Tail(Pieces(r)) = <<b>>
  BY PrintPieces
<1>3. Contents(h, r) = {c}
  BY <1>0, HeadOfPrintIs
<1>4. Contents(b, r) = {p} /\ Lengths(b) \subseteq Nat \ {0}
  BY <1>0, BodyOfPrintIs
<1>5. Whole(r) = w
  BY DEF Whole
<1> HIDE DEF c, p, h, b
<1>6. /\ w \in Seq(Chars) /\ Cut(<<>>, w) /\ Cut(c, w)
      /\ \A k \in 1..(Len(p) - 1) : Cut(c \o SubSeq(p, 1, k), w)
  BY <1>1, CutAfter
<1>7. <<>> \o c = c /\ <<>> \o <<>> = <<>> /\ c \o <<>> = c /\ w \o <<>> = w
  <2>1. <<>> \in Seq(Chars)
    BY EmptySeq
  <2>2. QED
    BY <1>1, <1>6, <2>1, ConcatEmptySeq
<1>8. CASE ps = Pieces(r) /\ sum = 0 /\ d = <<>>
  <2>1. chars = c
    BY <1>2, <1>3, <1>8
  <2>2. size = DataSize
    BY <1>0, <1>8
  <2>3. (len < size => s = c) /\ s \in {c, <<>>}
    BY <1>1, <2>1, OneFits
  <2>4. d \o s = s
    BY <1>7, <1>8, <2>3
  <2>5. IF sum + len < DataSize THEN s = c ELSE Cut(s, w)
    BY <1>0, <1>6, <1>8, <2>2, <2>3
  <2>6. Tail(ps) = <<b>>
    BY <1>2, <1>8
  <2>7. QED
    BY <1>5, <2>4, <2>5, <2>6 DEF Described, c, b
<1>9. CASE ps = <<b>> /\ IF sum < DataSize THEN d = c ELSE Cut(d, w)
  <2>1. Head(ps) = b /\ Tail(ps) = <<>>
    BY <1>9
  <2>2. chars = p /\ len \in Nat \ {0}
    BY <1>4, <2>1
  <2>3. /\ len < size => s = p
        /\ len >= size => s = <<>> \/ \E k \in 1..(Len(p) - 1) : s = SubSeq(p, 1, k)
        /\ size = 1 => s = <<>>
    <3>1. s \in Fitting(p, len, size)
      BY <2>2
    <3>2. p \in Seq(Chars) /\ Len(p) > 1
      BY <1>1
    <3>3. len \in Nat \ {0}
      BY <2>2
    <3>4. QED
      BY <3>1, <3>2, <3>3, MoreFits
  <2>4. ASSUME sum < DataSize
        PROVE  IF sum + len < DataSize THEN d \o s = w ELSE Cut(d \o s, w)
    <3>1. d = c /\ size = DataSize - sum
      BY <1>9, <2>4
    <3>2. CASE len < size
      <4>1. s = p /\ sum + len < DataSize
        BY <1>0, <2>3, <3>1, <3>2
      <4>2. QED
        BY <3>1, <4>1
    <3>3. CASE ~(len < size)
      <4>1. ~(sum + len < DataSize) /\ len >= size
        BY <1>0, <3>1, <3>3
      <4>2. Cut(c \o s, w)
        BY <1>6, <1>7, <2>3, <4>1
      <4>3. QED
        BY <3>1, <4>1, <4>2
    <3>4. QED
      BY <3>2, <3>3
  <2>5. ASSUME ~(sum < DataSize)
        PROVE  ~(sum + len < DataSize) /\ Cut(d \o s, w)
    <3>1. Cut(d, w) /\ s = <<>>
      BY <1>9, <2>3, <2>5
    <3>2. d \o <<>> = d
      <4>1. PICK j \in 0..(Len(w) - 1) : d = SubSeq(w, 1, j)
        BY <3>1 DEF Cut
      <4>2. \A i \in 1..j : w[i] \in Chars
        BY <1>6
      <4>3. 1 \in Int /\ j \in Int
        BY <4>1
      <4>4. d \in Seq(Chars)
        BY <4>1, <4>2, <4>3, SubSeqProperties
      <4>5. QED
        BY <4>4, ConcatEmptySeq
    <3>3. ~(sum + len < DataSize)
      BY <1>0, <2>5
    <3>4. QED
      BY <3>1, <3>2, <3>3
  <2>6. IF sum + len < DataSize THEN d \o s = w ELSE Cut(d \o s, w)
    <3>1. CASE sum < DataSize
      BY <2>4, <3>1
    <3>2. CASE ~(sum < DataSize)
      BY <2>5, <3>2
    <3>3. QED
      BY <3>1, <3>2
  <2>7. QED
    BY <1>5, <2>1, <2>6 DEF Described
<1>10. (ps = Pieces(r) /\ sum = 0 /\ d = <<>>)
       \/ (ps = <<b>> /\ IF sum < DataSize THEN d = c ELSE Cut(d, w))
  BY <1>5 DEF Described, c, b
<1>11. QED
  BY <1>8, <1>9, <1>10

LEMMA DescribedCorrect == Spec => []DescribedInv
<1>1. Init => DescribedInv
  BY DEF Init, DescribedInv
<1>2. IInv /\ WrittenInv /\ FitInv /\ DescribedInv /\ [Next]_vars => DescribedInv'
  <2> SUFFICES ASSUME IInv, WrittenInv, FitInv, DescribedInv, [Next]_vars
               PROVE  DescribedInv'
    OBVIOUS
  <2>1. CASE UNCHANGED vars
    BY <2>1 DEF vars, DescribedInv
  <2>2. ASSUME NEW r \in Records, Unpack(r) PROVE DescribedInv'
    <3>1. rec' = r /\ todo' = Pieces(r) /\ total' = total /\ data' = data /\ stage = "idle"
      BY <2>2 DEF Unpack
    <3>2. total = 0 /\ data = <<>>
      BY <3>1 DEF FitInv, WrittenInv
    <3>3. Described(data', rec', todo', total')
      BY <3>1, <3>2 DEF Described
    <3>4. QED
      BY <3>3 DEF DescribedInv
  <2>3. ASSUME todo # <<>>, NEW len \in Lengths(Head(todo)),
               NEW chars \in Contents(Head(todo), rec), PrintPiece(len, chars)
        PROVE  DescribedInv'
    <3>1. stage = "describe" /\ stage' = stage /\ rec' = rec /\ todo' = Tail(todo)
          /\ total' = total + len
      BY <2>3 DEF PrintPiece
    <3>2. PICK s \in Fitting(chars, len, DataSize - n) : data' = data \o s
      BY <2>3 DEF PrintPiece
    <3>3. SUFFICES ASSUME PrintSent(rec) PROVE Described(data', rec', todo', total')
      BY <3>1 DEF DescribedInv
    <3>4. rec \in Records /\ Described(data, rec, todo, total)
      BY <3>1, <3>3 DEF WrittenInv, DescribedInv
    <3>5. total \in Nat /\ n = IF total < DataSize THEN total ELSE DataSize - 1
      BY DEF IInv, DataExact
    <3>6. DataSize \in Nat \ {0}
      BY UnpackAssumption
    <3> DEFINE size == DataSize - n
    <3>7. size = (IF total < DataSize THEN DataSize - total ELSE 1) /\ size \in Nat \ {0}
      BY <3>5, <3>6
    <3>8. len \in Nat
      <4>1. Head(todo) \in AllPieces
        BY <2>3 DEF IInv
      <4>2. QED
        BY <4>1, LengthsAre DEF Lengthy
    <3> HIDE DEF size
    <3>9. s \in Fitting(chars, len, size)
      BY <3>2 DEF size
    <3>10. Described(data \o s, rec, Tail(todo), total + len)
      BY <2>3, <3>3, <3>4, <3>5, <3>7, <3>8, <3>9, PiecePrinted
    <3>11. QED
      BY <3>1, <3>2, <3>10
  <2>4. CASE WritePast
    BY <2>4 DEF WritePast, DescribedInv
  <2>5. CASE WriteLine
    <3>1. stage = "describe" /\ UNCHANGED <<rec, todo, total, data>>
      BY <2>5 DEF WriteLine
    <3>2. QED
      BY <3>1 DEF DescribedInv
  <2>6. CASE Return
    BY <2>6 DEF Return, DescribedInv
  <2>7. CASE Terminated
    BY <2>1, <2>7 DEF Terminated
  <2>8. QED
    BY <2>1, <2>2, <2>3, <2>4, <2>5, <2>6, <2>7 DEF Next
<1>3. QED
  BY <1>1, <1>2, InitIInv, NextIInv, WrittenCorrect, FitCorrect, PTL DEF Spec

\* What it was to be: the text without the newlines at its end, in quotes.
LEMMA WholeText ==
    ASSUME NEW r \in Records, IsPrint(r)
    PROVE  \E k \in 0..Len(r.msg.text) :
               /\ k > 0 => r.msg.text[k] # "\n"
               /\ \A i \in (k + 1)..Len(r.msg.text) : r.msg.text[i] = "\n"
               /\ Whole(r) = <<"a", "a", "\"">> \o SubSeq(r.msg.text, 1, k) \o <<"\"">>
<1> DEFINE t == r.msg.text
           a == <<"a", "\"">>
           c == <<"\"">>
           x == <<"a">>
           y == <<"a", "a", "\"">>
<1>1. PICK k : Kept(t, {"\n"}, k) /\ Printed(r) = (a \o SubSeq(t, 1, k)) \o c
  BY PrintedIs
<1>2. k \in 0..Len(t) /\ (k > 0 => t[k] # "\n") /\ \A i \in (k + 1)..Len(t) : t[i] = "\n"
  BY <1>1 DEF Kept
<1> DEFINE q == SubSeq(t, 1, k)
<1>3. q \in Seq(Chars)
  <2>1. t \in Seq(Chars)
    BY RpcTyped DEF IsPrint
  <2>2. QED
    BY <1>1, <2>1, StripTyped
<1>4. /\ a \in Seq(Chars) /\ Len(a) = 2 /\ a[1] = "a" /\ a[2] = "\""
      /\ c \in Seq(Chars) /\ x \in Seq(Chars) /\ Len(x) = 1 /\ x[1] = "a"
  <2>1. "a" \in Chars /\ "\"" \in Chars
    BY DEF Chars, Special
  <2>2. QED
    BY <2>1, One, Two
<1>5. y \in Seq(Chars) /\ Len(y) = 3 /\ y[1] = "a" /\ y[2] = "a" /\ y[3] = "\""
  <2>1. "a" \in Chars /\ "\"" \in Chars
    BY DEF Chars, Special
  <2>2. QED
    BY <2>1, Three
<1> HIDE DEF a, c, x, y, q
<1>6. x \o a = y
  <2> DEFINE xa == x \o a
  <2>1. /\ xa \in Seq(Chars) /\ Len(xa) = Len(x) + Len(a)
        /\ \A i \in 1..(Len(x) + Len(a)) : xa[i] = IF i <= Len(x) THEN x[i] ELSE a[i - Len(x)]
    BY <1>4, ConcatProperties
  <2> HIDE DEF xa
  <2>0. Len(x) = 1 /\ Len(a) = 2
    BY <1>4
  <2>2. Len(xa) = 3 /\ \A i \in 1..3 : xa[i] = IF i <= 1 THEN x[i] ELSE a[i - 1]
    BY <2>0, <2>1
  <2>3. xa[1] = x[1] /\ xa[2] = a[1] /\ xa[3] = a[2]
    BY <2>2
  <2>4. \A i \in 1..3 : xa[i] = y[i]
    <3>1. x[1] = y[1] /\ a[1] = y[2] /\ a[2] = y[3]
      BY <1>4, <1>5
    <3>2. QED
      BY <2>3, <3>1
  <2>5. xa = y
    BY <1>5, <2>1, <2>2, <2>4, SeqEqual
  <2>6. QED
    BY <2>5 DEF xa
<1>7. x \o ((a \o q) \o c) = (y \o q) \o c
  <2> DEFINE aq == a \o q
  <2>1. aq \in Seq(Chars)
    BY <1>3, <1>4, ConcatProperties
  <2>2. x \o aq = (x \o a) \o q
    BY <1>3, <1>4, Associates
  <2> HIDE DEF aq
  <2>3. x \o (aq \o c) = (x \o aq) \o c
    BY <1>4, <2>1, Associates
  <2>4. QED
    BY <1>6, <2>2, <2>3 DEF aq
<1>8. Whole(r) = (y \o q) \o c
  BY <1>1, <1>7 DEF Whole, x, q
<1>9. QED
  BY <1>2, <1>8 DEF y, q, c

\* Whatever is in the log, a reader of JSON that finds an object has the characters of
\* the driver or the firmware again as they were before they were escaped.  A print is
\* described whole, but for the newlines at its end, or by a part of its start.
THEOREM StringIntactCorrect == Spec => []StringIntact
<1>1. IInv /\ WrittenInv /\ DescribedInv => StringIntact
  <2> SUFFICES ASSUME IInv, WrittenInv, DescribedInv, stage = "written"
               PROVE  /\ fmt = "json" /\ IsObject(out) /\ Shown # <<>> =>
                             Reading(out)[3] = Shown
                      /\ PrintSent(rec) =>
                            \E k \in 0..Len(rec.msg.text) :
                               LET text  == rec.msg.text
                                   whole == <<"a", "a", "\"">> \o SubSeq(text, 1, k)
                                                \o <<"\"">>
                               IN  /\ k > 0 => text[k] # "\n"
                                   /\ \A i \in (k + 1)..Len(text) : text[i] = "\n"
                                   /\ IF total < DataSize THEN data = whole
                                                          ELSE IsStrictPrefix(data, whole)
    BY DEF StringIntact, PrintSent
  <2>1. ASSUME fmt = "json", IsObject(out), Shown # <<>> PROVE Reading(out)[3] = Shown
    <3>1. out = JsonLine(rec, data)
      BY <2>1 DEF WrittenInv
    <3>2. QED
      BY <2>1, <3>1, Given, ObjectOrNot
  <2>2. ASSUME PrintSent(rec)
        PROVE  IF total < DataSize THEN data = Whole(rec)
                                   ELSE IsStrictPrefix(data, Whole(rec))
    <3>1. rec \in Records /\ todo = <<>> /\ Described(data, rec, todo, total)
      BY <2>2 DEF WrittenInv, DescribedInv
    <3>2. Pieces(rec) # <<>> /\ <<BodyOfPrint(rec.msg)>> # <<>>
      BY <2>2, PrintPieces
    <3>3. IF total < DataSize THEN data = Whole(rec) ELSE Cut(data, Whole(rec))
      BY <3>1, <3>2 DEF Described
    <3>4. Whole(rec) \in Seq(Chars) /\ Whole(rec) # <<>>
      BY <2>2, <3>1, WholeIs, CutAfter DEF Whole, PrintSent
    <3>5. QED
      BY <3>3, <3>4, CutIsPrefix
  <2>3. ASSUME PrintSent(rec)
        PROVE  \E k \in 0..Len(rec.msg.text) :
                  /\ k > 0 => rec.msg.text[k] # "\n"
                  /\ \A i \in (k + 1)..Len(rec.msg.text) : rec.msg.text[i] = "\n"
                  /\ Whole(rec) = <<"a", "a", "\"">> \o SubSeq(rec.msg.text, 1, k) \o <<"\"">>
    <3>1. rec \in Records /\ IsPrint(rec)
      BY <2>3 DEF WrittenInv, PrintSent
    <3>2. QED
      BY <3>1, WholeText
  <2>4. QED
    BY <2>1, <2>2, <2>3
<1>2. Spec => []IInv
  BY InitIInv, NextIInv, PTL DEF Spec
<1>3. QED
  BY <1>1, <1>2, WrittenCorrect, DescribedCorrect, PTL

-----------------------------------------------------------------------------
(* What is printed was sent. *)

\* The statistics of an encoder, and a list that claims more regions than there are.
Stats(m)   == m.code = "GENERAL" /\ m.tag = "ENCODER_STATS"
TooLong(m) == m.count > MaxRegions

LEMMA SignalRecord ==
    ASSUME NEW r \in Records, r.type = "FWIF", r.msg.code # "RPC"
    PROVE  r.msg \in SignalsSent /\ (Pieces(r) = <<>> \/ Pieces(r) = SignalPieces(r.msg))
<1>1. r.msg \in SignalsSent \/ (r.channel = "RPC" /\ r.msg \in RpcSent)
  BY DEF Records, Fwif
<1>2. r.msg \notin RpcSent
  BY DEF RpcSent
<1>3. ~(r.channel = "RPC") \/ r.msg \in RpcSent
  BY DEF Records, Fwif
<1>4. QED
  BY <1>1, <1>2, <1>3 DEF Pieces

\* The row behind the last one there is room for begins behind the list, but for a byte.
LEMMA RowBeyond ==
    ASSUME NEW p, p.s = ParamRegion, NEW m, m.code = "PARAM", m.tag = "REGIONS",
           NEW k, k \in DOMAIN p.names, p.names[k] = "mbx_left",
           p.at = SizeOf(HeadOf("PARAM")) + OffsetOf(ParamRegions, "region")
                      + (16 * SizeOf(ParamRegion))
    PROVE  ~Sent(p, m)
<1> DEFINE head == SizeOf(HeadOf("PARAM"))
           size == SizeOf(ParamRegion)
           list == SizeOf(ParamRegions)
           off == OffsetOf(ParamRegions, "region")
           P == {"mbx_left", "mbx_right", "mby_top", "mby_bottom", "qp_delta"}
           i == IndexOf(ParamRegion, "mbx_left")
           f == ParamRegion[i]
           all == 16 * size
<1>1. BytesSent(m) = head + list
  <2>1. MemberOf(m) = "regions"
    BY MemberIsOf DEF ParamMember
  <2>2. Data["PARAM"]["regions"] = ParamRegions
    BY DEF Data, ParamData
  <2>3. QED
    BY <2>1, <2>2 DEF BytesSent
<1>2. /\ head \in Nat /\ list \in Nat /\ off \in Nat /\ size \in Nat
      /\ list <= off + all + 1
  BY RegionList
<1>3. i \in 1..Len(ParamRegion) /\ Inside(ParamRegion, f)
  <2>1. Shape(ParamRegion, P, P, 6)
    BY ParamRegionShape
  <2>2. "mbx_left" \in P
    OBVIOUS
  <2> HIDE DEF P
  <2>3. QED
    BY <2>1, <2>2, MemberIs
<1>4. f.size = 2 /\ f.n = 1
  <2> DEFINE names == <<"mbx_left", "mbx_right", "mby_top", "mby_bottom", "qp_delta",
                        "reserved">>
  <2>1. Len(names) = 6 /\ DOMAIN names = 1..6
    OBVIOUS
  <2> HIDE DEF names
  <2>2. ParamRegion = [j \in 1..6 |-> [name |-> names[j], size |-> 2, align |-> 2, n |-> 1]]
    BY <2>1 DEF ParamRegion, U16, Fields, names
  <2> HIDE DEF i
  <2>3. Len(ParamRegion) = 6
    BY <2>2
  <2>4. i \in 1..6
    BY <1>3, <2>3
  <2>5. QED
    BY <2>2, <2>4
<1>5. OffsetOf(ParamRegion, f.name) \in Nat
  BY <1>3 DEF Inside
<1>6. all \in Nat
  <2> HIDE DEF size
  <2>1. QED
    BY <1>2
<1> DEFINE o == OffsetOf(ParamRegion, f.name)
<1> HIDE DEF head, size, list, off, all, o
<1>7. ~(head + off + all + o + 2 * 1 <= head + list)
  BY <1>2, <1>5, <1>6 DEF o
<1>8. p.at = head + off + all
  BY DEF head, off, all, size
<1>9. ~(p.at + o + f.size * f.n <= BytesSent(m))
  <2>1. f.size * f.n = 2 * 1
    BY <1>4
  <2> HIDE DEF f
  <2>2. QED
    BY <1>1, <1>7, <1>8, <2>1
<1>10. p.s[IndexOf(p.s, p.names[k])] = f
  OBVIOUS
<1> HIDE DEF f, i
<1>11. p.at + OffsetOf(p.s, f.name) + f.size * f.n = p.at + o + f.size * f.n
  BY DEF o
<1>12. QED
  BY <1>9, <1>10, <1>11 DEF Sent

LEMMA RowsBeyond ==
    ASSUME NEW m, m.code = "PARAM", m.tag = "REGIONS", m.count \in Nat, TooLong(m)
    PROVE  \E i \in DOMAIN SignalPieces(m) : ~Sent(SignalPieces(m)[i], m)
<1> DEFINE head == SizeOf(HeadOf("PARAM"))
           size == SizeOf(ParamRegion)
           off == OffsetOf(ParamRegions, "region")
           names == <<"mbx_left", "mbx_right", "mby_top", "mby_bottom", "qp_delta">>
           R(i) == Piece(59, <<>>, "regions", ParamRegion, head + off + (i - 1) * size, names)
           rows == [i \in 1..m.count |-> R(i)]
           p == R(17)
           a == HeadPiece("PARAM", 8, <<BufferParamName(m.tag)>>, <<"type">>)
           b == <<Piece(21, <<>>, "regions", ParamRegions, head, <<"n_regions">>)>>
           c == <<Piece(1, <<>>, "regions", ParamRegions, head, <<>>)>>
<1>1. SignalPieces(m) = a \o (b \o rows \o c)
  BY DEF SignalPieces, PrintedParam, PrintedRegions
<1>2. ~Sent(p, m)
  <2>1. /\ p.s = ParamRegion /\ p.names = names
        /\ p.at = head + off + (17 - 1) * size
    BY DEF Piece
  <2>2. 1 \in DOMAIN names /\ names[1] = "mbx_left"
    OBVIOUS
  <2>3. (17 - 1) * size = 16 * size
    OBVIOUS
  <2>4. p.at = SizeOf(HeadOf("PARAM")) + OffsetOf(ParamRegions, "region")
                   + (16 * SizeOf(ParamRegion))
    BY <2>1, <2>3
  <2> HIDE DEF p, names
  <2>5. QED
    BY <2>1, <2>2, <2>4, RowBeyond
<1>3. p \in Range(rows)
  <2>1. 17 \in 1..m.count
    BY DEF TooLong, MaxRegions
  <2> HIDE DEF R
  <2>2. rows[17] = p /\ 17 \in DOMAIN rows
    BY <2>1
  <2>3. QED
    BY <2>2 DEF Range
<1> DEFINE A == {a[1], b[1], c[1]} \cup Range(rows)
<1>4. a \in Seq({a[1]}) /\ b \in Seq({b[1]}) /\ c \in Seq({c[1]})
  BY DEF HeadPiece
<1>5. rows \in Seq(Range(rows))
  <2>1. rows = [i \in 1..m.count |-> rows[i]]
    OBVIOUS
  <2> HIDE DEF rows
  <2>2. rows \in Seq(Members(rows))
    BY <2>1, OnNumbers
  <2>3. QED
    BY <2>2 DEF Members, Range
<1> HIDE DEF a, b, c, rows, p
<1>6. a \in Seq(A) /\ b \in Seq(A) /\ c \in Seq(A) /\ rows \in Seq(A)
  BY <1>4, <1>5
<1> HIDE DEF A
<1> DEFINE d == b \o rows
           e == d \o c
           s == a \o e
<1>7. d \in Seq(A) /\ Range(d) = Range(b) \cup Range(rows)
  BY <1>6, ConcatProperties, RangeConcatenation
<1> HIDE DEF d
<1>8. e \in Seq(A) /\ Range(e) = Range(d) \cup Range(c)
  BY <1>6, <1>7, ConcatProperties, RangeConcatenation
<1> HIDE DEF e
<1>9. Range(s) = Range(a) \cup Range(e)
  BY <1>6, <1>8, RangeConcatenation
<1>10. p \in Range(s)
  BY <1>3, <1>7, <1>8, <1>9
<1>11. SignalPieces(m) = s
  BY <1>1 DEF d, e
<1> HIDE DEF s
<1>12. PICK i \in DOMAIN s : s[i] = p
  BY <1>10 DEF Range
<1>13. QED
  BY <1>2, <1>11, <1>12

LEMMA StatsRead ==
    ASSUME NEW m \in SignalsSent, Stats(m)
    PROVE  \E i \in DOMAIN SignalPieces(m) : ~Sent(SignalPieces(m)[i], m)
<1> DEFINE ps == SignalPieces(m)
<1>1. m.code = "GENERAL" /\ m.tag \in DOMAIN GeneralMember
  BY SignalTyped DEF Stats
<1>2. PICK bytes : Told(ps, 186, "block_configs", bytes)
  BY <1>1, GeneralSignal
<1>3. ps[Len(ps)].member = "block_configs"
  BY <1>1, GeneralSignal
<1>4. ps # <<>>
  <2>1. ps = HeadPiece(m.code, 60, <<>>,
                       <<"host_handle", "user_data_tag", "buffer_size", "config_size">>)
             \o InUnion(m.code, "block_configs", 30, <<"n_cols_minus1", "n_rows_minus1">>)
    BY <1>1 DEF SignalPieces
  <2> DEFINE a == HeadPiece(m.code, 60, <<>>,
                       <<"host_handle", "user_data_tag", "buffer_size", "config_size">>)
             b == InUnion(m.code, "block_configs", 30, <<"n_cols_minus1", "n_rows_minus1">>)
             A == {a[1], b[1]}
  <2>2. a \in Seq(A) /\ b \in Seq(A) /\ Len(a) = 1 /\ Len(b) = 1
    BY DEF HeadPiece, InUnion
  <2>5. ps = a \o b
    BY <2>1
  <2> HIDE DEF ps, a, b, A
  <2>3. Len(a \o b) = Len(a) + Len(b)
    BY <2>2, ConcatProperties
  <2>4. Len(ps) = 2 /\ Len(<<>>) = 0
    BY <2>2, <2>3, <2>5
  <2>6. QED
    BY <2>4
<1> HIDE DEF ps
<1>5. Len(ps) \in DOMAIN ps
  BY <1>2, <1>4 DEF Told
<1>6. MemberOf(m) = "encoder_stats"
  BY MemberIsOf DEF Stats, GeneralMember
<1>7. ~Sent(ps[Len(ps)], m)
  BY <1>3, <1>6 DEF Sent
<1>8. QED
  BY <1>5, <1>7 DEF ps

\* Which pieces are printed of what was sent.
LEMMA PrintsStart ==
    ASSUME NEW r \in Records, r.type = "FWIF", r.msg.code # "RPC"
    PROVE  (\A i \in DOMAIN Pieces(r) : Sent(Pieces(r)[i], r.msg))
               <=> Pieces(r) = <<>> \/ ~(Stats(r.msg) \/ TooLong(r.msg))
<1> DEFINE m == r.msg
           ps == Pieces(r)
<1>1. m \in SignalsSent /\ (ps = <<>> \/ ps = SignalPieces(m))
  BY SignalRecord
<1>2. CASE ps = <<>>
  <2>1. DOMAIN ps = {}
    BY <1>2
  <2>2. QED
    BY <1>2, <2>1
<1>3. CASE ps # <<>>
  <2>0. ps = SignalPieces(m)
    BY <1>1, <1>3
  <2>1. ASSUME ~Stats(m), ~TooLong(m) PROVE \A i \in DOMAIN ps : Sent(ps[i], m)
    <3>1. m.count \in Nat /\ Reach(m) = BytesSent(m)
      BY <1>1, <2>1, SignalTyped DEF Reach, TooLong
    <3>2. PICK b : Told(ps, b, MemberOf(m), BytesSent(m))
      BY <1>1, <2>0, <2>1, <3>1, SignalFits DEF Stats
    <3> HIDE DEF ps, m
    <3>3. DOMAIN ps = 1..Len(ps)
      BY <3>2 DEF Told
    <3>4. QED
      BY <3>2, <3>3 DEF Told, Held, Sent
  <2>2. ASSUME Stats(m) PROVE \E i \in DOMAIN ps : ~Sent(ps[i], m)
    BY <1>1, <2>0, <2>2, StatsRead
  <2>3. ASSUME TooLong(m) PROVE \E i \in DOMAIN ps : ~Sent(ps[i], m)
    <3>1. m.count \in Nat /\ (m.count # 0 => m.code = "PARAM" /\ m.tag = "REGIONS")
      BY <1>1, SignalTyped
    <3>2. m.count # 0
      BY <2>3, <3>1 DEF TooLong, MaxRegions
    <3>3. QED
      BY <2>0, <2>3, <3>1, <3>2, RowsBeyond
  <2> HIDE DEF ps, m
  <2>4. (\A i \in DOMAIN ps : Sent(ps[i], m)) <=> ~(Stats(m) \/ TooLong(m))
    BY <2>1, <2>2, <2>3
  <2>5. QED
    BY <1>3, <2>4 DEF ps, m
<1>4. QED
  BY <1>2, <1>3

\* Every member that Logd::getSignalData prints is of the structure the tag goes with, and
\* inside what was sent, but for two: the statistics of an encoder are read as another
\* structure, and rows are read behind a list that claims more than there is room for.
THEOREM PrintsCorrect == Spec => []PrintsWhatWasSent
<1>1. WrittenInv => PrintsWhatWasSent
  <2> SUFFICES ASSUME WrittenInv, stage = "describe", rec.type = "FWIF",
                      rec.msg.code # "RPC"
               PROVE  (\A i \in DOMAIN Pieces(rec) : Sent(Pieces(rec)[i], rec.msg))
                          <=> Pieces(rec) = <<>> \/ ~(Stats(rec.msg) \/ TooLong(rec.msg))
    BY DEF PrintsWhatWasSent, Stats, TooLong
  <2>1. rec \in Records
    BY DEF WrittenInv
  <2>2. QED
    BY <2>1, PrintsStart
<1>2. QED
  BY <1>1, WrittenCorrect, PTL
=============================================================================
