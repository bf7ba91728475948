--------------------------- MODULE InputFileProofs ---------------------------
(***************************************************************************)
(* That InputFile cuts its file where the reference does, for every file   *)
(* and every length of the buffer, of the reads and of the packets.        *)
(*                                                                         *)
(* Each mode has an invariant, which says where in the file the buffer     *)
(* begins and that what has been prepared is what the reference has up to  *)
(* there.  One turn of the loop then is a fact about a slice of the file:  *)
(* what is found to end in the slice ends there in the file as well, and   *)
(* what the slice cuts off is looked for again.                            *)
(***************************************************************************)
EXTENDS InputFile, FiniteSetTheorems, SequenceTheorems, WellFoundedInduction, TLAPS

-----------------------------------------------------------------------------
(* Numbers and sets of them. *)

LessThan == {p \in Nat \X Nat : p[1] < p[2]}

LEMMA LessThanWellFounded == IsWellFoundedOn(LessThan, Nat)
BY NatLessThanWellFounded, Zenon DEF OpToRel, LessThan

\* A set of numbers has a smallest one.
LEMMA MinOf ==
    ASSUME NEW T \in SUBSET Nat, T # {}
    PROVE  Min(T) \in T /\ \A y \in T : Min(T) <= y
<1>1. PICK x \in T : \A y \in T : ~ (<<y, x>> \in LessThan)
  BY LessThanWellFounded, WFMin, Zenon
<1>2. ASSUME NEW y \in T PROVE x <= y
  <2>1. <<y, x>> \notin LessThan /\ x \in Nat /\ y \in Nat
    BY <1>1
  <2>2. ~(y < x)
    BY <2>1 DEF LessThan
  <2>3. QED
    BY <2>1, <2>2
<1>3. QED
  BY <1>2 DEF Min

\* And one that is bounded has a largest one.
LEMMA MaxOf ==
    ASSUME NEW T \in SUBSET Nat, T # {}, NEW n \in Nat, \A y \in T : y <= n
    PROVE  Max(T) \in T /\ \A y \in T : y <= Max(T)
<1> DEFINE U == {n - y : y \in T}
<1>1. U \in SUBSET Nat /\ U # {}
  <2>1. \A y \in T : y \in Nat /\ y <= n /\ n - y \in Nat
    OBVIOUS
  <2>2. QED
    BY <2>1
<1>2. PICK x \in T : n - x \in U /\ \A y \in T : n - x <= n - y
  <2> HIDE DEF U
  <2>1. Min(U) \in U /\ \A u \in U : Min(U) <= u
    BY <1>1, MinOf
  <2> USE DEF U
  <2>2. QED
    BY <2>1
<1>3. \A y \in T : x >= y
  BY <1>2
<1>4. QED
  BY <1>3 DEF Max

LEMMA MinOfTwo ==
    ASSUME NEW a \in Nat, NEW b \in Nat
    PROVE  Min({a, b}) = IF a <= b THEN a ELSE b
<1> DEFINE T == {a, b}
<1>1. T \in SUBSET Nat /\ T # {}
  OBVIOUS
<1> HIDE DEF T
<1>2. Min(T) \in T /\ \A y \in T : Min(T) <= y
  BY <1>1, MinOf
<1>3. QED
  BY <1>2 DEF T

-----------------------------------------------------------------------------
(* The reference. *)

\* The places in front of a place are fewer than all.
LEMMA PlacesCounted ==
    ASSUME NEW P \in SUBSET Nat, IsFiniteSet(P), NEW i \in P
    PROVE  /\ Before(P, i) \in Nat /\ Before(P, i) + 1 \in 1..Cardinality(P)
           /\ Cardinality(P) \in Nat
           /\ \A j \in P : j < i => Before(P, j) < Before(P, i)
           /\ Nth(P, Before(P, i) + 1) = i
<1> DEFINE Low(k) == {j \in P : j < k}
<1>1. ASSUME NEW k \in P
      PROVE  Low(k) \subseteq P /\ IsFiniteSet(Low(k)) /\ Before(P, k) = Cardinality(Low(k))
             /\ Before(P, k) \in Nat /\ k \notin Low(k)
  <2>1. Low(k) \in SUBSET P
    OBVIOUS
  <2>2. IsFiniteSet(Low(k))
    BY <2>1, FS_Subset
  <2>3. Cardinality(Low(k)) \in Nat
    BY <2>2, FS_CardinalityType
  <2>4. k \notin Low(k)
    OBVIOUS
  <2>5. QED
    BY <2>1, <2>2, <2>3, <2>4 DEF Before
<1>2. ASSUME NEW j \in P, NEW k \in P, j < k PROVE Before(P, j) < Before(P, k)
  <2>1. Low(j) \in SUBSET Low(k) /\ j \in Low(k) /\ j \notin Low(j)
    <3>1. \A x \in P : x < j => x < k
      BY <1>2
    <3>2. j < k /\ ~(j < j)
      BY <1>2
    <3>3. QED
      BY <3>1, <3>2, Zenon
  <2> HIDE DEF Low
  <2>2. Cardinality(Low(j)) <= Cardinality(Low(k)) /\ Cardinality(Low(j)) # Cardinality(Low(k))
    BY <1>1, <2>1, FS_Subset
  <2>3. QED
    BY <1>1, <2>2
<1>3. Before(P, i) < Cardinality(P) /\ Cardinality(P) \in Nat
  <2>1. Low(i) \in SUBSET P /\ i \notin Low(i)
    BY <1>1
  <2> HIDE DEF Low
  <2>2. Cardinality(Low(i)) <= Cardinality(P) /\ Cardinality(Low(i)) # Cardinality(P)
    BY <2>1, FS_Subset
  <2>3. Cardinality(P) \in Nat
    BY FS_CardinalityType
  <2>4. QED
    BY <1>1, <2>2, <2>3
<1> HIDE DEF Low
<1>4. Nth(P, Before(P, i) + 1) = i
  <2>1. ASSUME NEW j \in P, Before(P, j) = (Before(P, i) + 1) - 1 PROVE j = i
    <3>1. Before(P, j) = Before(P, i) /\ Before(P, i) \in Nat
      BY <1>1, <2>1
    <3>2. j \in Nat /\ i \in Nat
      OBVIOUS
    <3>3. ~(j < i) /\ ~(i < j)
      BY <1>2, <3>1
    <3>4. QED
      BY <3>2, <3>3
  <2>2. Before(P, i) = (Before(P, i) + 1) - 1
    BY <1>1
  <2>3. QED
    BY <2>1, <2>2 DEF Nth
<1>5. QED
  BY <1>1, <1>2, <1>3, <1>4

\* The place behind is the next one, or there is none and this is the last.
LEMMA NextPlace ==
    ASSUME NEW P \in SUBSET Nat, IsFiniteSet(P), NEW i \in P
    PROVE  /\ Behind(P, i) = {} => Before(P, i) + 1 = Cardinality(P)
           /\ \A n \in P : i < n /\ (\A j \in P : j <= i \/ n <= j)
                => /\ Before(P, n) = Before(P, i) + 1
                   /\ Behind(P, i) # {} /\ Min(Behind(P, i)) = n
<1> DEFINE Low(k) == {j \in P : j < k}
<1>1. /\ Low(i) \in SUBSET P /\ IsFiniteSet(Low(i)) /\ i \notin Low(i)
      /\ Before(P, i) = Cardinality(Low(i)) /\ Cardinality(Low(i)) \in Nat
  <2>1. Low(i) \in SUBSET P /\ i \notin Low(i)
    OBVIOUS
  <2>2. IsFiniteSet(Low(i))
    BY <2>1, FS_Subset
  <2>3. QED
    BY <2>1, <2>2, FS_CardinalityType DEF Before
<1>2. Cardinality(Low(i) \cup {i}) = Before(P, i) + 1
  <2> HIDE DEF Low
  <2>1. QED
    BY <1>1, FS_AddElement
<1>3. ASSUME Behind(P, i) = {} PROVE Before(P, i) + 1 = Cardinality(P)
  <2>1. \A j \in P : j \in Nat /\ i \in Nat /\ ~(j > i)
    BY <1>3 DEF Behind
  <2>2. \A j \in P : j < i \/ j = i
    BY <2>1
  <2>3. P = Low(i) \cup {i}
    BY <2>2, Zenon
  <2>4. QED
    BY <1>2, <2>3
<1>4. ASSUME NEW n \in P, i < n, \A j \in P : j <= i \/ n <= j
      PROVE  /\ Before(P, n) = Before(P, i) + 1
             /\ Behind(P, i) # {} /\ Min(Behind(P, i)) = n
  <2>1. \A j \in P : j \in Nat
    OBVIOUS
  <2>2. {j \in P : j < n} = Low(i) \cup {i}
    <3>1. \A j \in P : j < n <=> j < i \/ j = i
      BY <1>4, <2>1
    <3>2. QED
      BY <3>1, Zenon
  <2>3. n \in Behind(P, i) /\ \A j \in Behind(P, i) : n <= j
    BY <1>4, <2>1 DEF Behind
  <2>4. \A x \in Behind(P, i) : (\A j \in Behind(P, i) : x <= j) => x = n
    BY <2>1, <2>3 DEF Behind
  <2>5. Min(Behind(P, i)) = n
    BY <2>3, <2>4 DEF Min
  <2>6. QED
    BY <1>2, <2>2, <2>3, <2>5 DEF Before
<1>5. QED
  BY <1>3, <1>4

\* The part behind place i, and how many there are up to it.
LEMMA PartBehind ==
    ASSUME NEW s, NEW ends, DOMAIN ends \in SUBSET Nat, IsFiniteSet(DOMAIN ends),
           NEW i \in DOMAIN ends
    PROVE  Parts(s, ends)[Before(DOMAIN ends, i) + 1] = SubSeq(s, i + 1, EndOfPart(s, ends, i))
<1> DEFINE P == DOMAIN ends
           k == Before(P, i) + 1
<1>1. k \in 1..Cardinality(P) /\ Nth(P, k) = i
  <2> HIDE DEF P
  <2>1. P \in SUBSET Nat /\ IsFiniteSet(P) /\ i \in P
    BY DEF P
  <2>2. QED
    BY <2>1, PlacesCounted
<1>2. Parts(s, ends) = [j \in 1..Cardinality(P) |->
                           SubSeq(s, Nth(P, j) + 1, EndOfPart(s, ends, Nth(P, j)))]
  BY DEF Parts
<1> HIDE DEF P, k
<1>3. Parts(s, ends)[k] = SubSeq(s, i + 1, EndOfPart(s, ends, i))
  BY <1>1, <1>2
<1>4. QED
  BY <1>3 DEF P, k

-----------------------------------------------------------------------------
(* Slices of a sequence. *)

LEMMA Slice1 ==
    ASSUME NEW S, NEW s \in Seq(S), NEW a \in Nat, NEW b \in Nat, a <= b, b <= Len(s)
    PROVE  /\ SubSeq(s, a + 1, b) \in Seq(S) /\ Len(SubSeq(s, a + 1, b)) = b - a
           /\ \A i \in 1..(b - a) : SubSeq(s, a + 1, b)[i] = s[a + i]
<1>1. a + 1 \in Int /\ b \in Int /\ Len(s) \in Nat
  OBVIOUS
<1>2. \A i \in (a + 1)..b : s[i] \in S
  OBVIOUS
<1> DEFINE t == SubSeq(s, a + 1, b)
<1>3. /\ t \in Seq(S)
      /\ Len(t) = IF a + 1 <= b THEN b - (a + 1) + 1 ELSE 0
      /\ \A i \in 1..(b - (a + 1) + 1) : t[i] = s[a + 1 + i - 1]
  BY <1>1, <1>2, SubSeqProperties
<1> HIDE DEF t
<1>4. Len(t) = b - a
  BY <1>3
<1>5. ASSUME NEW i \in 1..(b - a) PROVE t[i] = s[a + i]
  <2>1. i \in 1..(b - (a + 1) + 1) /\ a + 1 + i - 1 = a + i
    BY <1>5
  <2>2. QED
    BY <1>3, <2>1
<1>6. QED
  BY <1>3, <1>4, <1>5 DEF t

LEMMA SliceJoined ==
    ASSUME NEW S, NEW s \in Seq(S), NEW a \in Nat, NEW b \in Nat, NEW c \in Nat,
           a <= b, b <= c, c <= Len(s)
    PROVE  SubSeq(s, a + 1, b) \o SubSeq(s, b + 1, c) = SubSeq(s, a + 1, c)
<1>1. a + 1 \in 1..(Len(s) + 1) /\ b \in ((a + 1) - 1)..Len(s) /\ c \in b..Len(s)
  OBVIOUS
<1>2. QED
  BY <1>1, ConcatAdjacentSubSeq

LEMMA SliceOfSlice ==
    ASSUME NEW S, NEW s \in Seq(S), NEW a \in Nat, NEW b \in Nat, a <= b, b <= Len(s),
           NEW i \in Nat, NEW j \in Nat, i <= j, j <= b - a
    PROVE  SubSeq(SubSeq(s, a + 1, b), i + 1, j) = SubSeq(s, a + i + 1, a + j)
<1> DEFINE t == SubSeq(s, a + 1, b)
           u == SubSeq(t, i + 1, j)
           v == SubSeq(s, a + i + 1, a + j)
<1>1. t \in Seq(S) /\ Len(t) = b - a /\ \A k \in 1..(b - a) : t[k] = s[a + k]
  BY Slice1
<1> HIDE DEF t
<1>2. u \in Seq(S) /\ Len(u) = j - i /\ \A k \in 1..(j - i) : u[k] = t[i + k]
  BY <1>1, Slice1
<1>3. /\ v \in Seq(S) /\ Len(v) = (a + j) - (a + i)
      /\ \A k \in 1..((a + j) - (a + i)) : v[k] = s[a + i + k]
  <2> DEFINE x == a + i
             y == a + j
  <2>1. x \in Nat /\ y \in Nat /\ x <= y /\ y <= Len(s)
    OBVIOUS
  <2> HIDE DEF x, y
  <2>2. /\ SubSeq(s, x + 1, y) \in Seq(S) /\ Len(SubSeq(s, x + 1, y)) = y - x
        /\ \A k \in 1..(y - x) : SubSeq(s, x + 1, y)[k] = s[x + k]
    BY <2>1, Slice1
  <2>3. QED
    BY <2>2 DEF x, y
<1> HIDE DEF u, v
<1>4. Len(u) = Len(v)
  BY <1>2, <1>3
<1>5. ASSUME NEW k \in 1..Len(u) PROVE u[k] = v[k]
  <2>1. /\ k \in 1..(j - i) /\ k \in 1..((a + j) - (a + i))
        /\ i + k \in 1..(b - a) /\ a + (i + k) = a + i + k
    BY <1>2, <1>5
  <2>2. QED
    BY <1>1, <1>2, <1>3, <2>1
<1>6. u = v
  BY <1>2, <1>3, <1>4, <1>5, SeqEqual
<1>7. QED
  BY <1>6 DEF t, u, v

-----------------------------------------------------------------------------
(* One frame for each buffer: where find_one_frame cuts. *)

Boundary == NalKinds \ {Slice}

\* The beginning of a stream of units, in which no further slice follows another kind.
UnitsFollow(s) ==
    \A i, m \in HeadsOf(s) :
        i < m /\ (\A j \in HeadsOf(s) : j <= i \/ m <= j) /\ s[m] = Slice => s[i] \in SliceKinds

LEMMA KindsDiffer ==
    /\ First \in Boundary /\ Boundary = {Config, Other, First} /\ First \in SliceKinds
    /\ Slice \in SliceKinds /\ Slice \notin Boundary /\ Boundary \subseteq NalKinds
    /\ NalKinds \subseteq Cells /\ First # Slice
    /\ \A c \in NalKinds : c \in Boundary \/ c = Slice
    /\ \A c \in Boundary : c \in SliceKinds => c = First
BY DEF Boundary, NalKinds, SliceKinds, Cells, Config, Other, First, Slice, Body

LEMMA FirstsBegun ==
    ASSUME NEW b \in Seq(Cells), NEW i \in 1..Len(b)
    PROVE  /\ Begun(b, i) \in Nat
           /\ b[1] = First => Begun(b, i) >= 1 /\ (Begun(b, i) >= 2 <=> \E j \in 2..i : b[j] = First)
           /\ b[1] # First => Begun(b, 1) = 0
<1> DEFINE F(k) == {j \in HeadsOf(b) : j <= k /\ b[j] = First}
<1>1. \A k \in 1..Len(b) : b[k] = First => k \in HeadsOf(b)
  BY KindsDiffer DEF HeadsOf
<1>2. /\ F(i) \subseteq 1..i /\ IsFiniteSet(F(i)) /\ Cardinality(F(i)) \in Nat
      /\ Begun(b, i) = Cardinality(F(i))
  <2>1. F(i) \subseteq 1..i
    BY DEF HeadsOf
  <2>2. IsFiniteSet(1..i)
    BY FS_Interval
  <2>3. IsFiniteSet(F(i))
    BY <2>1, <2>2, FS_Subset
  <2>4. QED
    BY <2>1, <2>3, FS_CardinalityType DEF Begun
<1>3. ASSUME b[1] # First PROVE Begun(b, 1) = 0
  <2>1. F(1) = {}
    BY <1>3 DEF HeadsOf
  <2>2. QED
    BY <2>1, FS_EmptySet DEF Begun
<1>4. ASSUME b[1] = First
      PROVE  Begun(b, i) >= 1 /\ (Begun(b, i) >= 2 <=> \E j \in 2..i : b[j] = First)
  <2>1. 1 \in F(i)
    BY <1>1, <1>4
  <2>2. ASSUME NEW j \in 2..i, b[j] = First PROVE Cardinality(F(i)) >= 2
    <3>1. j \in F(i) /\ j # 1
      BY <1>1, <2>2
    <3>2. {1} \cup {j} \in SUBSET F(i)
      BY <2>1, <3>1
    <3>3. IsFiniteSet({1}) /\ Cardinality({1}) = 1
      BY FS_Singleton
    <3>4. j \notin {1}
      BY <3>1
    <3>5. Cardinality({1} \cup {j}) = 2
      <4> DEFINE T == {1}
      <4> HIDE DEF T
      <4>1. IsFiniteSet(T) /\ Cardinality(T) = 1 /\ j \notin T
        BY <3>3, <3>4 DEF T
      <4>2. Cardinality(T \cup {j}) = 2
        BY <4>1, FS_AddElement
      <4>3. QED
        BY <4>2 DEF T
    <3> HIDE DEF F
    <3>6. QED
      BY <1>2, <3>2, <3>5, FS_Subset
  <2>3. ASSUME ~ \E j \in 2..i : b[j] = First PROVE Cardinality(F(i)) = 1
    <3>1. ASSUME NEW j \in F(i) PROVE j = 1
      <4>1. j \in 1..i /\ b[j] = First
        BY <1>2, <3>1
      <4>2. j = 1 \/ j \in 2..i
        BY <4>1
      <4>3. QED
        BY <2>3, <4>1, <4>2
    <3>2. F(i) = {1}
      BY <2>1, <3>1
    <3>3. QED
      BY <3>2, FS_Singleton
  <2> HIDE DEF F
  <2>4. QED
    BY <1>2, <2>2, <2>3
<1>5. QED
  BY <1>2, <1>3, <1>4

\* What the parser tells of a buffer that begins with a frame or another unit: where the
\* next one begins, or that there is no other.
Tells(b, eos, n) ==
    /\ n \in 0..Len(b)
    /\ \A j \in 2..n : b[j] \notin Boundary
    /\ n > 0 /\ n < Len(b) => b[n + 1] \in Boundary
    /\ n > 0 /\ n = Len(b) => eos /\ b[1] \notin SliceKinds /\ \A j \in 2..n : b[j] \notin NalKinds
    /\ n = 0 /\ eos => b[1] = First /\ \A j \in 2..Len(b) : b[j] \notin Boundary

\* A unit that is no slice ends at the next one, which is none either.
LEMMA OtherEnds ==
    ASSUME NEW b \in Seq(Cells), b # <<>>, b[1] \in Boundary, b[1] # First, UnitsFollow(b),
           NEW eos \in BOOLEAN
    PROVE  Tells(b, eos, FrameEnd(b, eos))
<1> DEFINE stops == {i \in HeadsOf(b) : StopsAt(b, i)}
           later == {j \in HeadsOf(b) : j > 1}
<1>1. /\ Len(b) \in Nat \ {0} /\ 1 \in HeadsOf(b) /\ b[1] \notin SliceKinds
      /\ \A i \in HeadsOf(b) : i \in 1..Len(b) /\ b[i] \in NalKinds
      /\ \A i \in 1..Len(b) : b[i] \in NalKinds => i \in HeadsOf(b)
  BY KindsDiffer DEF HeadsOf
<1>2. stops # {} /\ Min(stops) = 1
  <2>1. 1 \in stops
    BY <1>1 DEF StopsAt
  <2>2. stops \in SUBSET Nat
    BY <1>1
  <2> HIDE DEF stops
  <2>3. Min(stops) \in stops /\ Min(stops) <= 1
    BY <2>1, <2>2, MinOf
  <2>4. \A i \in stops : i \in 1..Len(b)
    BY <1>1 DEF stops
  <2> DEFINE k == Min(stops)
  <2>5. k \in 1..Len(b) /\ k <= 1
    BY <2>3, <2>4
  <2> HIDE DEF k
  <2>6. k = 1
    BY <2>5
  <2>7. QED
    BY <2>1, <2>6 DEF k
<1>3. Begun(b, 1) = 0
  BY <1>1, FirstsBegun
<1>4. FrameEnd(b, eos) = IF eos \/ later # {} THEN EndOf(b, 1) ELSE 0
  <2>1. Ends(b, 1, eos) <=> eos \/ later # {}
    BY DEF Ends
  <2>2. QED
    BY <1>2, <1>3, <2>1 DEF FrameEnd
<1>5. CASE later = {}
  <2>1. EndOf(b, 1) = Len(b)
    BY <1>5 DEF EndOf
  <2>2. \A j \in 2..Len(b) : b[j] \notin NalKinds
    <3>1. \A j \in HeadsOf(b) : ~(j > 1)
      BY <1>5
    <3>2. \A j \in 2..Len(b) : j \in 1..Len(b) /\ j > 1
      OBVIOUS
    <3>3. QED
      BY <1>1, <3>1, <3>2
  <2>3. \A j \in 2..Len(b) : b[j] \notin Boundary
    BY <2>2, KindsDiffer
  <2>4. CASE eos
    BY <1>1, <1>4, <2>1, <2>2, <2>3, <2>4 DEF Tells
  <2>5. CASE ~eos
    BY <1>1, <1>4, <1>5, <2>5 DEF Tells
  <2>6. QED
    BY <2>4, <2>5
<1>6. CASE later # {}
  <2> DEFINE m == Min(later)
  <2>1. m \in later /\ \A j \in later : m <= j
    <3>1. later \in SUBSET Nat
      BY <1>1
    <3> HIDE DEF later
    <3>2. QED
      BY <1>6, <3>1, MinOf
  <2>2. FrameEnd(b, eos) = m - 1
    BY <1>4, <1>6 DEF EndOf
  <2> HIDE DEF m
  <2>3. m \in 2..Len(b) /\ b[m] \in NalKinds /\ m \in HeadsOf(b)
    BY <1>1, <2>1
  <2>4. \A j \in HeadsOf(b) : j <= 1 \/ m <= j
    BY <1>1, <2>1
  <2>5. b[m] # Slice
    BY <1>1, <2>3, <2>4 DEF UnitsFollow
  <2>6. b[m] \in Boundary
    BY <2>3, <2>5, KindsDiffer
  <2>7. \A j \in 2..(m - 1) : b[j] \notin NalKinds
    BY <1>1, <2>3, <2>4
  <2>8. \A j \in 2..(m - 1) : b[j] \notin Boundary
    BY <2>7, KindsDiffer
  <2>9. m - 1 \in 1..Len(b) /\ m - 1 < Len(b) /\ (m - 1) + 1 = m
    BY <1>1, <2>3
  <2>10. QED
    BY <2>2, <2>6, <2>8, <2>9 DEF Tells
<1>7. QED
  BY <1>5, <1>6

\* A frame ends where something else than a further slice of it begins.
LEMMA FrameEnds ==
    ASSUME NEW b \in Seq(Cells), b # <<>>, b[1] = First, NEW eos \in BOOLEAN
    PROVE  Tells(b, eos, FrameEnd(b, eos))
<1> DEFINE stops == {i \in HeadsOf(b) : StopsAt(b, i)}
           behind == {j \in 2..Len(b) : b[j] \in Boundary}
<1>1. /\ Len(b) \in Nat \ {0} /\ 1 \in HeadsOf(b)
      /\ \A i \in HeadsOf(b) : i \in 1..Len(b) /\ b[i] \in NalKinds
      /\ \A i \in 1..Len(b) : b[i] \in NalKinds => i \in HeadsOf(b)
  BY KindsDiffer DEF HeadsOf
<1>2. ASSUME NEW i \in 1..Len(b)
      PROVE  /\ Begun(b, i) \in Nat /\ Begun(b, i) >= 1
             /\ Begun(b, i) >= 2 <=> \E j \in 2..i : b[j] = First
  BY FirstsBegun
<1>3. ASSUME NEW i \in behind PROVE i \in stops
  <2>1. i \in HeadsOf(b) /\ i \in 1..Len(b) /\ i \in 2..i
    BY <1>1, <1>3, KindsDiffer
  <2>2. CASE b[i] \notin SliceKinds
    BY <2>1, <2>2 DEF StopsAt
  <2>3. CASE b[i] \in SliceKinds
    <3>1. b[i] = First
      BY <1>3, <2>3, KindsDiffer
    <3>2. QED
      BY <1>2, <2>1, <3>1 DEF StopsAt
  <2>4. QED
    BY <2>2, <2>3
<1>4. ASSUME NEW i \in stops PROVE i \in 2..Len(b) /\ \E j \in behind : j <= i
  <2>1. i \in 1..Len(b) /\ b[i] \in NalKinds /\ (b[i] \notin SliceKinds \/ Begun(b, i) >= 2)
    BY <1>1, <1>4 DEF StopsAt
  <2>2. CASE Begun(b, i) >= 2
    <3>1. PICK j \in 2..i : b[j] = First
      BY <1>2, <2>1, <2>2
    <3>2. QED
      BY <2>1, <3>1, KindsDiffer
  <2>3. CASE b[i] \notin SliceKinds
    <3>1. i # 1 /\ b[i] \in Boundary
      BY <2>1, <2>3, KindsDiffer
    <3>2. i \in behind
      BY <2>1, <3>1
    <3>3. QED
      BY <2>1, <3>2
  <2>4. QED
    BY <2>1, <2>2, <2>3
<1>5. CASE behind = {}
  <2>1. stops = {}
    BY <1>4, <1>5
  <2>2. FrameEnd(b, eos) = 0
    BY <2>1 DEF FrameEnd
  <2>3. \A j \in 2..Len(b) : b[j] \notin Boundary
    BY <1>5
  <2>4. QED
    BY <1>1, <2>2, <2>3 DEF Tells
<1>6. CASE behind # {}
  <2> DEFINE m == Min(behind)
  <2>1. m \in behind /\ \A j \in behind : m <= j
    <3>1. behind \in SUBSET Nat
      OBVIOUS
    <3> HIDE DEF behind
    <3>2. QED
      BY <1>6, <3>1, MinOf
  <2>2. m \in 2..Len(b) /\ b[m] \in Boundary /\ m \in stops
    BY <1>3, <2>1
  <2>3. Min(stops) = m /\ stops # {}
    <3>1. \A i \in stops : i \in Nat /\ m <= i
      <4> TAKE i \in stops
      <4>1. PICK j \in behind : j <= i
        BY <1>4
      <4>2. m <= j /\ i \in Nat /\ j \in Nat /\ m \in Nat
        BY <1>4, <2>1, <2>2
      <4>3. QED
        BY <4>1, <4>2
    <3>2. stops \in SUBSET Nat /\ m \in stops /\ m \in Nat
      BY <2>2, <3>1
    <3> HIDE DEF stops, m
    <3> DEFINE k == Min(stops)
    <3>3. k \in stops /\ k <= m
      BY <3>2, MinOf
    <3> HIDE DEF k
    <3>4. k = m
      BY <3>1, <3>2, <3>3
    <3>5. QED
      BY <3>2, <3>4 DEF k
  <2>4. \A j \in 2..(m - 1) : b[j] \notin Boundary
    <3> TAKE j \in 2..(m - 1)
    <3>1. j \in 2..Len(b) /\ ~(m <= j)
      BY <2>2
    <3>2. j \in behind => m <= j
      BY <2>1
    <3> HIDE DEF m
    <3>3. QED
      BY <3>1, <3>2
  <2>5. Begun(b, m) # 0
    BY <1>2, <2>2
  <2> HIDE DEF m, stops, behind
  <2>6. FrameEnd(b, eos) = IF Ends(b, m, eos) THEN m - 1 ELSE 0
    BY <2>3, <2>5 DEF FrameEnd, stops
  <2>7. m - 1 \in 1..Len(b) /\ m - 1 < Len(b) /\ (m - 1) + 1 = m /\ Len(b) \in Nat
    BY <1>1, <2>2
  <2>8. CASE Ends(b, m, eos)
    BY <2>2, <2>4, <2>6, <2>7, <2>8 DEF Tells
  <2>9. CASE ~Ends(b, m, eos)
    BY <2>6, <2>7, <2>9 DEF Tells, Ends
  <2>10. QED
    BY <2>8, <2>9
<1>7. QED
  BY <1>5, <1>6

-----------------------------------------------------------------------------
(* One frame for each buffer: the units of the file. *)

FrameFile == file \in Seq(Cells) /\ Stream(file)

LastIsNoSlice == file[Max(HeadsOf(file))] \notin SliceKinds

LEMMA FileUnits ==
    ASSUME FrameFile
    PROVE  /\ UnitPlaces \in SUBSET Nat /\ IsFiniteSet(UnitPlaces)
           /\ \A i \in Nat : i \in UnitPlaces <=> i < Len(file) /\ file[i + 1] \in Boundary
           /\ UnitsFollow(file)
           /\ file # <<>> => 0 \in UnitPlaces
<1>1. /\ Len(file) \in Nat /\ (file # <<>> <=> Len(file) > 0)
      /\ \A i \in 1..Len(file) : file[i] \in NalKinds => i \in HeadsOf(file)
      /\ \A i \in HeadsOf(file) : i \in 1..Len(file) /\ file[i] \in NalKinds
  BY EmptySeq DEF FrameFile, HeadsOf
<1>2. file # <<>> => file[1] \in Boundary
  BY DEF FrameFile, Stream, Boundary
<1>3. ASSUME NEW i \in Nat
      PROVE  i \in UnitPlaces <=> i < Len(file) /\ file[i + 1] \in Boundary
  <2>1. ASSUME i \in UnitPlaces PROVE i < Len(file) /\ file[i + 1] \in Boundary
    <3>1. PICK k \in HeadsOf(file) : (k = 1 \/ file[k] # Slice) /\ i = k - 1
      BY <2>1 DEF UnitPlaces
    <3>2. k \in 1..Len(file) /\ k = i + 1 /\ file[k] \in NalKinds
      BY <1>1, <3>1
    <3>3. file[k] \in Boundary
      BY <1>1, <1>2, <3>1, <3>2 DEF Boundary
    <3>4. QED
      BY <3>2, <3>3
  <2>2. ASSUME i < Len(file), file[i + 1] \in Boundary PROVE i \in UnitPlaces
    <3> DEFINE k == i + 1
    <3>1. k \in 1..Len(file) /\ i = k - 1
      BY <1>1, <2>2
    <3>2. k \in HeadsOf(file) /\ file[k] # Slice
      BY <1>1, <2>2, <3>1, KindsDiffer
    <3> HIDE DEF k
    <3>3. QED
      BY <3>1, <3>2 DEF UnitPlaces
  <2>3. QED
    BY <2>1, <2>2
<1>4. UnitPlaces \in SUBSET Nat /\ IsFiniteSet(UnitPlaces)
  <2>1. \A i \in UnitPlaces : i \in 0..Len(file)
    BY <1>1 DEF UnitPlaces
  <2>2. UnitPlaces \in SUBSET (0..Len(file)) /\ IsFiniteSet(0..Len(file))
    BY <1>1, <2>1, FS_Interval
  <2>3. IsFiniteSet(UnitPlaces)
    BY <2>2, FS_Subset
  <2>4. QED
    BY <2>1, <2>3
<1>5. UnitsFollow(file)
  <2> SUFFICES ASSUME NEW i \in HeadsOf(file), NEW m \in HeadsOf(file), i < m,
                      \A j \in HeadsOf(file) : j <= i \/ m <= j, file[m] = Slice
               PROVE  file[i] \in SliceKinds
    BY DEF UnitsFollow
  <2> DEFINE T == {j \in HeadsOf(file) : j < m}
  <2>1. T \in SUBSET Nat /\ i \in T /\ i \in Nat
    BY <1>1
  <2>2. \A y \in T : y <= i
    BY <1>1
  <2>3. Max(T) \in T /\ \A y \in T : y <= Max(T)
    <3> HIDE DEF T
    <3>1. QED
      BY <2>1, <2>2, MaxOf
  <2> DEFINE x == Max(T)
  <2>4. x \in Nat /\ x <= i /\ i <= x
    BY <2>1, <2>2, <2>3
  <2>5. x = i
    <3> HIDE DEF x
    <3>1. QED
      BY <2>1, <2>4
  <2>6. Previous(file, m) = i
    BY <2>5 DEF Previous
  <2>7. file # <<>>
    BY <1>1
  <2>8. QED
    BY <2>6, <2>7 DEF FrameFile, Stream
<1>6. file # <<>> => 0 \in UnitPlaces
  BY <1>1, <1>2, <1>3
<1>7. QED
  BY <1>3, <1>4, <1>5, <1>6

LEMMA BufferFollows ==
    ASSUME FrameFile, NEW a \in Nat, NEW p \in Nat, a <= p, p <= Len(file)
    PROVE  UnitsFollow(SubSeq(file, a + 1, p))
<1> DEFINE b == SubSeq(file, a + 1, p)
<1>1. b \in Seq(Cells) /\ Len(b) = p - a /\ \A i \in 1..(p - a) : b[i] = file[a + i]
  BY Slice1 DEF FrameFile
<1> HIDE DEF b
<1>2. Len(file) \in Nat
  BY DEF FrameFile
<1>3. \A i \in 1..(p - a) : i \in HeadsOf(b) <=> a + i \in HeadsOf(file)
  BY <1>1, <1>2 DEF HeadsOf
<1>4. \A i \in HeadsOf(b) : i \in 1..(p - a) /\ a + i \in HeadsOf(file)
  BY <1>1, <1>3 DEF HeadsOf
<1> SUFFICES ASSUME NEW i \in HeadsOf(b), NEW m \in HeadsOf(b), i < m,
                    \A j \in HeadsOf(b) : j <= i \/ m <= j, b[m] = Slice
             PROVE  b[i] \in SliceKinds
  BY DEF UnitsFollow, b
<1>5. ASSUME NEW j \in HeadsOf(file) PROVE j <= a + i \/ a + m <= j
  <2>1. j \in Nat /\ i \in 1..(p - a) /\ m \in 1..(p - a)
    BY <1>2, <1>4 DEF HeadsOf
  <2> DEFINE k == j - a
  <2>2. CASE a + i < j /\ j < a + m
    <3>1. k \in 1..(p - a) /\ a + k = j /\ ~(k <= i) /\ ~(m <= k)
      BY <2>1, <2>2
    <3> HIDE DEF k
    <3>2. k \in HeadsOf(b)
      BY <1>3, <3>1
    <3>3. QED
      BY <3>1, <3>2
  <2>3. QED
    BY <2>1, <2>2
<1>6. /\ a + i \in HeadsOf(file) /\ a + m \in HeadsOf(file) /\ a + i < a + m
      /\ b[i] = file[a + i] /\ b[m] = file[a + m]
  BY <1>1, <1>4
<1> DEFINE x == a + i
           y == a + m
<1> HIDE DEF x, y
<1>7. file[x] \in SliceKinds
  <2>1. x \in HeadsOf(file) /\ y \in HeadsOf(file) /\ x < y /\ file[y] = Slice
    BY <1>6 DEF x, y
  <2>2. \A j \in HeadsOf(file) : j <= x \/ y <= j
    BY <1>5 DEF x, y
  <2>3. UnitsFollow(file)
    BY FileUnits
  <2>4. QED
    BY <2>1, <2>2, <2>3 DEF UnitsFollow
<1>8. QED
  BY <1>6, <1>7 DEF x

\* The unit at a place ends at e, where the next one begins or the file ends.
EndsAt(base, e) ==
    /\ Units[Before(UnitPlaces, base) + 1] = SubSeq(file, base + 1, e)
    /\ \/ /\ e \in UnitPlaces /\ Before(UnitPlaces, e) = Before(UnitPlaces, base) + 1
       \/ e = Len(file) /\ Before(UnitPlaces, base) + 1 = Cardinality(UnitPlaces)

LEMMA UnitAt ==
    ASSUME FrameFile, NEW base \in UnitPlaces, NEW e \in Nat, base < e, e <= Len(file),
           \A i \in UnitPlaces : i <= base \/ e <= i,
           e < Len(file) => e \in UnitPlaces
    PROVE  EndsAt(base, e)
<1> DEFINE P == UnitPlaces
           ends == [i \in P |-> i]
<1>1. /\ P \in SUBSET Nat /\ IsFiniteSet(P) /\ base \in P /\ DOMAIN ends = P
      /\ \A i \in P : i < Len(file) /\ ends[i] = i
  BY FileUnits
<1>2. Len(file) \in Nat
  BY DEF FrameFile
<1> HIDE DEF P
<1>3. /\ Behind(P, base) = {} => Before(P, base) + 1 = Cardinality(P)
      /\ \A n \in P : base < n /\ (\A j \in P : j <= base \/ n <= j)
           => /\ Before(P, n) = Before(P, base) + 1
              /\ Behind(P, base) # {} /\ Min(Behind(P, base)) = n
  BY <1>1, NextPlace
<1>4. Units[Before(P, base) + 1] = SubSeq(file, base + 1, EndOfPart(file, ends, base))
  <2> HIDE DEF ends
  <2>1. Parts(file, ends)[Before(P, base) + 1] = SubSeq(file, base + 1, EndOfPart(file, ends, base))
    BY <1>1, PartBehind
  <2>2. Units = Parts(file, ends)
    BY DEF Units, P, ends
  <2>3. QED
    BY <2>1, <2>2
<1>5. \A j \in P : j <= base \/ e <= j
  BY DEF P
<1>6. CASE e < Len(file)
  <2>1. e \in P
    BY <1>6 DEF P
  <2>2. Before(P, e) = Before(P, base) + 1 /\ Behind(P, base) # {} /\ Min(Behind(P, base)) = e
    BY <1>3, <1>5, <2>1
  <2>3. EndOfPart(file, ends, base) = e
    <3>1. EndOfPart(file, ends, base) = ends[Min(Behind(P, base))]
      BY <1>1, <2>2 DEF EndOfPart
    <3>2. QED
      BY <1>1, <2>1, <2>2, <3>1
  <2>4. QED
    BY <1>4, <2>1, <2>2, <2>3 DEF EndsAt, P
<1>7. CASE e = Len(file)
  <2>1. Behind(P, base) = {}
    <3>1. \A j \in P : ~(j > base)
      BY <1>1, <1>2, <1>5, <1>7
    <3>2. QED
      BY <3>1 DEF Behind
  <2>2. EndOfPart(file, ends, base) = e
    BY <1>1, <1>7, <2>1 DEF EndOfPart
  <2>3. QED
    BY <1>3, <1>4, <1>7, <2>1, <2>2 DEF EndsAt, P
<1>8. QED
  BY <1>2, <1>6, <1>7

\* What find_one_frame cuts off the buffer is a unit, and what it leaves as the last
\* frame is the last one.
LEMMA CutsUnit ==
    ASSUME FrameFile, NEW base \in UnitPlaces, NEW p \in Nat, base <= p, p <= Len(file),
           NEW eos \in BOOLEAN, eos => p = Len(file),
           NEW n, n = FrameEnd(SubSeq(file, base + 1, p), eos)
    PROVE  /\ n \in 0..(p - base)
           /\ n > 0 => EndsAt(base, base + n) /\ (base + n = Len(file) => LastIsNoSlice)
           /\ n = 0 /\ eos => EndsAt(base, Len(file)) /\ ~LastIsNoSlice
<1> DEFINE b == SubSeq(file, base + 1, p)
           H == HeadsOf(file)
<1>1. /\ UnitPlaces \in SUBSET Nat /\ base \in Nat /\ base < Len(file) /\ Len(file) \in Nat
      /\ file[base + 1] \in Boundary
      /\ \A i \in Nat : i \in UnitPlaces <=> i < Len(file) /\ file[i + 1] \in Boundary
  BY FileUnits DEF FrameFile
<1>2. b \in Seq(Cells) /\ Len(b) = p - base /\ \A i \in 1..(p - base) : b[i] = file[base + i]
  BY <1>1, Slice1 DEF FrameFile
<1>3. UnitsFollow(b)
  BY <1>1, BufferFollows
<1>4. H \in SUBSET Nat /\ \A i \in 1..Len(file) : i \in H <=> file[i] \in NalKinds
  BY <1>1 DEF HeadsOf
<1>5. \A i \in H : i \in 1..Len(file)
  BY DEF HeadsOf
<1> HIDE DEF b, H
<1>6. CASE b = <<>>
  <2>1. p = base
    BY <1>1, <1>2, <1>6
  <2>2. HeadsOf(b) = {}
    BY <1>2, <2>1 DEF HeadsOf
  <2>3. n = 0
    BY <2>2 DEF FrameEnd, b
  <2>4. QED
    BY <1>1, <2>1, <2>3
<1>7. CASE b # <<>>
  <2>1. p > base
    <3>1. Len(b) # 0
      BY <1>2, <1>7, EmptySeq
    <3>2. QED
      BY <1>1, <1>2, <3>1
  <2>2. b[1] = file[base + 1] /\ b[1] \in Boundary
    BY <1>1, <1>2, <2>1
  <2>3. Tells(b, eos, n)
    <3>1. n = FrameEnd(b, eos)
      BY DEF b
    <3>2. CASE b[1] = First
      BY <1>2, <1>7, <3>1, <3>2, FrameEnds
    <3>3. CASE b[1] # First
      BY <1>2, <1>3, <1>7, <2>2, <3>1, <3>3, OtherEnds
    <3>4. QED
      BY <3>2, <3>3
  <2>4. n \in 0..(p - base)
    BY <1>2, <2>3 DEF Tells
  <2>5. \A e \in Nat : (\A j \in 2..(e - base) : b[j] \notin Boundary) /\ base < e /\ e <= p
            => \A i \in UnitPlaces : i <= base \/ e <= i
    <3> SUFFICES ASSUME NEW e \in Nat, \A j \in 2..(e - base) : b[j] \notin Boundary,
                        base < e, e <= p, NEW i \in UnitPlaces, base < i, i < e
                 PROVE  FALSE
      BY <1>1
    <3> DEFINE j == i + 1 - base
    <3>1. j \in 2..(e - base) /\ j \in 1..(p - base) /\ base + j = i + 1
      BY <1>1
    <3> HIDE DEF j
    <3>2. b[j] = file[i + 1] /\ b[j] \notin Boundary
      BY <1>2, <3>1
    <3>3. QED
      BY <1>1, <3>2
  <2>6. ASSUME n > 0 PROVE EndsAt(base, base + n) /\ (base + n = Len(file) => LastIsNoSlice)
    <3> DEFINE e == base + n
    <3>1. e \in Nat /\ base < e /\ e <= Len(file) /\ e <= p /\ e - base = n
      BY <1>1, <2>4, <2>6
    <3>2. \A j \in 2..n : b[j] \notin Boundary
      BY <2>3 DEF Tells
    <3>3. n < p - base \/ n = p - base
      BY <1>1, <2>4
    <3>4. CASE n < p - base
      <4>1. b[n + 1] \in Boundary /\ n + 1 \in 1..(p - base)
        BY <1>1, <1>2, <2>3, <2>4, <2>6, <3>4 DEF Tells
      <4>2. e < Len(file) /\ file[e + 1] \in Boundary
        <5>0. n \in Nat
          BY <2>4
        <5>1. b[n + 1] = file[base + (n + 1)] /\ base + (n + 1) = (base + n) + 1
          <6>1. b[n + 1] = file[base + (n + 1)]
            BY <1>2, <4>1
          <6>2. base + (n + 1) = (base + n) + 1
            BY <1>1, <5>0
          <6>3. QED
            BY <6>1, <6>2
        <5>2. base + n < Len(file)
          BY <1>1, <2>4, <3>4
        <5>3. file[(base + n) + 1] \in Boundary
          BY <4>1, <5>1
        <5>4. QED
          BY <5>2, <5>3
      <4> HIDE DEF e
      <4>3. e \in UnitPlaces
        BY <1>1, <3>1, <4>2
      <4>4. EndsAt(base, e)
        BY <1>1, <2>5, <3>1, <3>2, <4>3, UnitAt
      <4>5. e # Len(file)
        BY <1>1, <3>1, <4>2
      <4>6. QED
        BY <4>4, <4>5 DEF e
    <3>5. CASE n = p - base
      <4>1. eos /\ b[1] \notin SliceKinds /\ \A j \in 2..n : b[j] \notin NalKinds
        BY <1>2, <2>3, <2>6, <3>5 DEF Tells
      <4>0. p = Len(file)
        BY <4>1
      <4>2. p = Len(file) /\ e = p
        BY <1>1, <3>5, <4>0
      <4>3. EndsAt(base, e)
        <5> HIDE DEF e
        <5>1. \A i \in UnitPlaces : i <= base \/ e <= i
          BY <2>5, <3>1, <3>2
        <5>2. ~(e < Len(file))
          BY <1>1, <4>2
        <5>3. QED
          BY <3>1, <5>1, <5>2, UnitAt
      <4>4. LastIsNoSlice
        <5> DEFINE x == base + 1
        <5>1. x \in H /\ file[x] \notin SliceKinds
          BY <1>1, <1>4, <2>2, <4>1, KindsDiffer
        <5>2. ASSUME NEW i \in H PROVE x >= i
          <6> DEFINE j == i - base
          <6>1. i \in 1..Len(file) /\ file[i] \in NalKinds
            BY <1>4, <1>5
          <6>2. CASE i > base + 1
            <7>1. j \in 2..n /\ j \in 1..(p - base) /\ base + j = i
              BY <1>1, <3>5, <4>2, <6>1, <6>2
            <7> HIDE DEF j
            <7>2. b[j] = file[i] /\ b[j] \notin NalKinds
              BY <1>2, <4>1, <7>1
            <7>3. QED
              BY <6>1, <7>2
          <6>3. QED
            BY <1>1, <6>1, <6>2
        <5>3. x \in Nat
          BY <1>1
        <5> HIDE DEF x
        <5>4. \A y \in H : (\A i \in H : y >= i) => y = x
          <6> TAKE y \in H
          <6> HAVE \A i \in H : y >= i
          <6>1. y >= x /\ x >= y /\ y \in Nat
            BY <1>4, <5>1, <5>2
          <6>2. QED
            BY <5>3, <6>1
        <5>5. Max(H) = x
          BY <5>1, <5>2, <5>4 DEF Max
        <5>6. QED
          BY <5>1, <5>5 DEF LastIsNoSlice, H
      <4>5. QED
        BY <4>3, <4>4
    <3>6. QED
      BY <3>3, <3>4, <3>5
  <2>7. ASSUME n = 0, eos PROVE EndsAt(base, Len(file)) /\ ~LastIsNoSlice
    <3>1. b[1] = First /\ (\A j \in 2..(p - base) : b[j] \notin Boundary) /\ p = Len(file)
      BY <1>2, <2>3, <2>7 DEF Tells
    <3>2. EndsAt(base, Len(file))
      BY <1>1, <2>1, <2>5, <3>1, UnitAt
    <3>3. Max(H) \in H /\ \A y \in H : y <= Max(H)
      <4>1. base + 1 \in H
        BY <1>1, <1>4, <2>2, KindsDiffer
      <4>2. \A y \in H : y <= Len(file)
        BY <1>1, <1>5
      <4>3. QED
        BY <1>1, <1>4, <4>1, <4>2, MaxOf
    <3> DEFINE x == Max(H)
               j == x - base
    <3>4. x \in 1..Len(file) /\ x >= base + 1 /\ file[x] \in NalKinds
      <4>1. base + 1 \in H
        BY <1>1, <1>4, <2>2, KindsDiffer
      <4>2. QED
        BY <1>1, <1>4, <1>5, <3>3, <4>1
    <3> HIDE DEF x
    <3>5. j \in 1..(p - base) /\ base + j = x /\ (j = 1 \/ j \in 2..(p - base))
      BY <1>1, <3>1, <3>4
    <3> HIDE DEF j
    <3>6. b[j] = file[x]
      BY <1>2, <3>5
    <3>7. file[x] \in SliceKinds
      <4>1. CASE j = 1
        BY <3>1, <3>6, <4>1, KindsDiffer
      <4>2. CASE j \in 2..(p - base)
        BY <3>1, <3>4, <3>6, <4>2, KindsDiffer
      <4>3. QED
        BY <3>5, <4>1, <4>2
    <3>8. QED
      BY <3>2, <3>7 DEF LastIsNoSlice, H, x
  <2>8. QED
    BY <2>4, <2>6, <2>7
<1>8. QED
  BY <1>6, <1>7

-----------------------------------------------------------------------------
(* One frame for each buffer: the invariant. *)

\* What is left in the buffer begins here in the file.
Base == pos - Len(rem)

FrameTyped ==
    /\ FrameFile
    /\ pos \in Nat /\ pos <= Len(file)
    /\ rem \in Seq(Cells) /\ Len(rem) <= pos /\ Len(rem) <= BufLen
    /\ isEos \in BOOLEAN /\ iseof \in BOOLEAN
    /\ out \in Seq(Seq(Cells) \cup {Stale})

UnitsBefore(base) ==
    IF base \in UnitPlaces THEN Before(UnitPlaces, base) ELSE Cardinality(UnitPlaces)

\* The units in front of it are prepared, and it begins with the next one.
FrameCut ==
    /\ rem = SubSeq(file, Base + 1, pos)
    /\ isEos => pos = Len(file) /\ file # <<>>
    /\ Base \in UnitPlaces \cup {Len(file)}
    /\ Base = Len(file) /\ file # <<>> => LastIsNoSlice
    /\ Len(out) = UnitsBefore(Base)
    /\ \A k \in 1..Len(out) : out[k] = Units[k]

FrameEnded == out # <<>> /\ Sent = Units /\ (Last(out) = Stale <=> LastIsNoSlice)

FrameInv == mode = "frame" => FrameTyped /\ (iseof => FrameEnded) /\ (~iseof => FrameCut)

LEMMA BoundedIsSeq ==
    ASSUME NEW S, NEW n \in Nat, NEW s \in BoundedSeq(S, n) PROVE s \in Seq(S)
<1>1. PICK m \in 0..n : s \in [1..m -> S]
  BY DEF BoundedSeq, SeqOf
<1>2. m \in Nat
  BY <1>1
<1>3. QED
  BY <1>1, <1>2

LEMMA FrameInit == Init => FrameInv
<1> SUFFICES ASSUME Init, mode = "frame" PROVE FrameTyped /\ FrameCut /\ iseof = FALSE
  BY DEF FrameInv
<1>1. file \in Seq(Cells) /\ Stream(file)
  <2>1. CASE preload
    <3>1. file = <<>>
      BY <2>1 DEF Init, Files
    <3>2. QED
      BY <3>1, EmptySeq DEF Stream
  <2>2. CASE ~preload
    <3>1. file \in BoundedSeq(Cells, MaxCells) /\ Stream(file)
      BY <2>2 DEF Init, Files
    <3>2. QED
      BY <3>1, BoundedIsSeq, ReaderAssumption
  <2>3. QED
    BY <2>1, <2>2
<1>2. pos = 0 /\ rem = <<>> /\ isEos = FALSE /\ iseof = FALSE /\ out = <<>>
  <2>1. preload => Len(file) = 0
    BY DEF Init, Files
  <2>2. QED
    BY <2>1 DEF Init
<1>3. Len(rem) = 0 /\ Len(out) = 0 /\ Base = 0 /\ Len(file) \in Nat /\ BufLen \in Nat
  <2>1. Len(rem) = 0 /\ Len(out) = 0
    BY <1>2, EmptySeq
  <2>0. pos = 0
    BY <1>2
  <2>2. Base = 0
    BY <2>0, <2>1 DEF Base
  <2>3. Len(file) \in Nat
    BY <1>1, LenProperties
  <2>4. QED
    BY <2>1, <2>2, <2>3, ReaderAssumption
<1>4. rem \in Seq(Cells) /\ out \in Seq(Seq(Cells) \cup {Stale})
  BY <1>2, EmptySeq
<1>5. FrameTyped
  <2>1. FrameFile
    BY <1>1 DEF FrameFile
  <2>2. /\ pos \in Nat /\ pos <= Len(file) /\ Len(rem) <= pos /\ Len(rem) <= BufLen
        /\ isEos \in BOOLEAN /\ iseof \in BOOLEAN
    <3>1. 0 <= Len(file) /\ 0 <= BufLen
      BY <1>3
    <3>2. pos = 0 /\ Len(rem) = 0
      BY <1>2, <1>3
    <3>3. isEos \in BOOLEAN /\ iseof \in BOOLEAN
      BY <1>2
    <3>4. QED
      BY <3>1, <3>2, <3>3
  <2>3. QED
    BY <1>4, <2>1, <2>2 DEF FrameTyped
<1>6. FrameFile
  BY <1>1 DEF FrameFile
<1>7. rem = SubSeq(file, Base + 1, pos)
  BY <1>2, <1>3, SubSeqEmpty
<1>8. file # <<>> => 0 \in UnitPlaces
  BY <1>6, FileUnits
<1>9. file = <<>> => Len(file) = 0
  OBVIOUS
<1>10. file # <<>> => Len(file) # 0
  BY <1>1, EmptySeq
<1>11. UnitsBefore(0) = 0
  <2>1. CASE file = <<>>
    <3>1. UnitPlaces = {}
      BY <2>1 DEF UnitPlaces, HeadsOf
    <3>2. QED
      BY <3>1, FS_EmptySet DEF UnitsBefore
  <2>2. CASE file # <<>>
    <3>1. 0 \in UnitPlaces /\ UnitPlaces \in SUBSET Nat
      BY <1>6, <1>8, <2>2, FileUnits
    <3>2. {j \in UnitPlaces : j < 0} = {}
      <4>1. \A j \in UnitPlaces : ~(j < 0)
        BY <3>1
      <4>2. QED
        BY <4>1
    <3>3. QED
      BY <3>1, <3>2, FS_EmptySet DEF UnitsBefore, Before
  <2>3. QED
    BY <2>1, <2>2
<1>12. FrameCut
  BY <1>2, <1>3, <1>7, <1>8, <1>9, <1>10, <1>11 DEF FrameCut
<1>13. QED
  BY <1>2, <1>5, <1>12

\* One turn of the loop reads on, and meets the end only at the end.
LEMMA FrameRead ==
    ASSUME FrameTyped, FrameCut
    PROVE  /\ pos + Count \in Nat /\ pos <= pos + Count /\ pos + Count <= Len(file)
           /\ Base \in Nat /\ Base <= pos
           /\ Filled = SubSeq(file, Base + 1, pos + Count)
           /\ Filled \in Seq(Cells) /\ Len(Filled) = (pos + Count) - Base /\ Len(Filled) <= BufLen
           /\ EosAfterRead \in BOOLEAN
           /\ EosAfterRead => pos + Count = Len(file) /\ file # <<>>
<1>1. /\ Len(file) \in Nat /\ pos \in Nat /\ pos <= Len(file) /\ Len(rem) \in Nat
      /\ Len(rem) <= pos /\ Len(rem) <= BufLen /\ BufLen \in Nat /\ file \in Seq(Cells)
  BY ReaderAssumption DEF FrameTyped, FrameFile
<1>2. Space \in Nat /\ Len(file) - pos \in Nat /\ Space = BufLen - Len(rem)
  BY <1>1 DEF Space
<1>3. Count = IF Space <= Len(file) - pos THEN Space ELSE Len(file) - pos
  BY <1>2, MinOfTwo DEF Count
<1> DEFINE p == pos + Count
<1>4. p \in Nat /\ pos <= p /\ p <= Len(file) /\ p - pos <= Space
  BY <1>1, <1>2, <1>3
<1>5. Base \in Nat /\ Base <= pos /\ pos - Base = Len(rem)
  BY <1>1 DEF Base
<1>6. Filled = SubSeq(file, Base + 1, p)
  <2>1. rem = SubSeq(file, Base + 1, pos)
    BY DEF FrameCut
  <2> HIDE DEF p
  <2>2. SubSeq(file, Base + 1, pos) \o SubSeq(file, pos + 1, p) = SubSeq(file, Base + 1, p)
    BY <1>1, <1>4, <1>5, SliceJoined
  <2>3. QED
    BY <2>1, <2>2 DEF Filled, p
<1>7. Filled \in Seq(Cells) /\ Len(Filled) = p - Base
  <2> HIDE DEF p
  <2>1. Base <= p
    BY <1>1, <1>4, <1>5
  <2>2. QED
    BY <1>1, <1>4, <1>5, <1>6, <2>1, Slice1
<1>8. Len(Filled) <= BufLen
  BY <1>1, <1>2, <1>4, <1>5, <1>7
<1>9. EosAfterRead \in BOOLEAN
  BY DEF EosAfterRead, FrameTyped
<1>10. ASSUME EosAfterRead PROVE p = Len(file) /\ file # <<>>
  <2>1. CASE isEos
    <3>1. pos = Len(file) /\ file # <<>>
      BY <2>1 DEF FrameCut
    <3>2. QED
      BY <1>1, <1>4, <3>1
  <2>2. CASE pos < Len(file) /\ Count < Space
    <3>1. file # <<>>
      BY <1>1, <2>2
    <3>2. QED
      BY <1>1, <1>2, <1>3, <2>2, <3>1
  <2>3. QED
    BY <1>10, <2>1, <2>2 DEF EosAfterRead
<1>11. EosAfterRead => p = Len(file) /\ file # <<>>
  BY <1>10
<1>12. QED
  BY <1>4, <1>5, <1>6, <1>7, <1>8, <1>9, <1>11, Zenon

LEMMA OutIsUnits ==
    ASSUME FrameFile, NEW S, NEW o \in Seq(S), Len(o) = Cardinality(UnitPlaces),
           \A k \in 1..Len(o) : o[k] = Units[k]
    PROVE  o = Units
<1> DEFINE C == Cardinality(UnitPlaces)
           e(k) == SubSeq(file, Nth(UnitPlaces, k) + 1,
                          EndOfPart(file, [i \in UnitPlaces |-> i], Nth(UnitPlaces, k)))
<1>1. DOMAIN [i \in UnitPlaces |-> i] = UnitPlaces
  OBVIOUS
<1>2. Units = [k \in 1..C |-> e(k)]
  BY <1>1 DEF Units, Parts
<1>3. o = [k \in 1..Len(o) |-> o[k]]
  OBVIOUS
<1> HIDE DEF C, e
<1>4. \A k \in 1..C : Units[k] = e(k)
  BY <1>2
<1>5. Len(o) = C
  BY DEF C
<1>6. [k \in 1..Len(o) |-> o[k]] = [k \in 1..C |-> e(k)]
  BY <1>4, <1>5
<1>7. QED
  BY <1>2, <1>3, <1>6

LEMMA NotStale == \A b \in Seq(Cells) : b # Stale
<1> SUFFICES ASSUME Stale \in Seq(Cells) PROVE FALSE
  OBVIOUS
<1>1. Stale[1] = "stale" /\ 1 \in 1..Len(Stale)
  BY DEF Stale
<1>2. "stale" \in Cells
  BY <1>1, ElementOfSeq
<1>3. QED
  BY <1>2 DEF Cells, NalKinds, SliceKinds, Config, Other, First, Slice, Body

\* The last buffer is added: the last frame, or the one that is not filled.
LEMMA EndIsReached ==
    ASSUME FrameFile, UNCHANGED file, out \in Seq(Seq(Cells) \cup {Stale}), NEW b,
           out' = Append(out, b),
           \A k \in 1..Len(out) : out[k] = Units[k],
           \/ b = Stale /\ LastIsNoSlice /\ Len(out) = Cardinality(UnitPlaces)
           \/ /\ b \in Seq(Cells) /\ ~LastIsNoSlice
              /\ Len(out) + 1 = Cardinality(UnitPlaces) /\ b = Units[Len(out) + 1]
    PROVE  FrameEnded'
<1> DEFINE S == Seq(Cells) \cup {Stale}
<1>1. out \in Seq(S) /\ b \in S
  OBVIOUS
<1> HIDE DEF S
<1>2. /\ out' \in Seq(S) /\ Len(out') = Len(out) + 1 /\ Len(out) \in Nat
      /\ out'[Len(out) + 1] = b
      /\ out' # <<>> /\ \A k \in 1..Len(out) : out'[k] = out[k]
  BY <1>1
<1>3. Last(out') = b
  BY <1>2 DEF Last
<1>4. Units' = Units /\ LastIsNoSlice' = LastIsNoSlice
  BY DEF Units, UnitPlaces, LastIsNoSlice
<1>5. CASE b = Stale /\ LastIsNoSlice /\ Len(out) = Cardinality(UnitPlaces)
  <2>1. Front(out') = out
    <3>1. Front(out') = SubSeq(out', 1, Len(out))
      BY <1>2 DEF Front
    <3>2. \A i \in 1..Len(out) : out'[i] \in S
      BY <1>2
    <3> DEFINE f == SubSeq(out', 1, Len(out))
    <3>3. /\ f \in Seq(S) /\ Len(f) = IF 1 <= Len(out) THEN Len(out) - 1 + 1 ELSE 0
          /\ \A i \in 1..(Len(out) - 1 + 1) : f[i] = out'[1 + i - 1]
      BY <1>2, <3>2, SubSeqProperties
    <3> HIDE DEF f
    <3>4. Len(f) = Len(out)
      BY <1>2, <3>3
    <3>5. ASSUME NEW i \in 1..Len(f) PROVE f[i] = out[i]
      <4>1. i \in 1..(Len(out) - 1 + 1) /\ i \in 1..Len(out) /\ 1 + i - 1 = i
        BY <1>2, <3>4, <3>5
      <4>2. QED
        BY <1>2, <3>3, <4>1
    <3>6. f = out
      BY <1>1, <3>3, <3>4, <3>5, SeqEqual
    <3>7. QED
      BY <3>1, <3>6 DEF f
  <2>2. Sent' = out
    BY <1>2, <1>3, <1>5, <2>1 DEF Sent
  <2>3. out = Units
    BY <1>1, <1>5, OutIsUnits
  <2>4. QED
    BY <1>2, <1>3, <1>4, <1>5, <2>2, <2>3 DEF FrameEnded
<1>6. CASE /\ b \in Seq(Cells) /\ ~LastIsNoSlice
           /\ Len(out) + 1 = Cardinality(UnitPlaces) /\ b = Units[Len(out) + 1]
  <2>1. b # Stale
    BY <1>6, NotStale
  <2>2. Sent' = out'
    BY <1>3, <2>1 DEF Sent
  <2>3. \A k \in 1..Len(out') : out'[k] = Units[k]
    <3> TAKE k \in 1..Len(out')
    <3>1. k \in 1..Len(out) \/ k = Len(out) + 1
      BY <1>2
    <3>2. QED
      BY <1>2, <1>6, <3>1
  <2>4. out' = Units
    <3> DEFINE o == out'
    <3>1. o \in Seq(S) /\ Len(o) = Cardinality(UnitPlaces) /\ \A k \in 1..Len(o) : o[k] = Units[k]
      BY <1>2, <1>6, <2>3
    <3> HIDE DEF o
    <3>2. o = Units
      BY <3>1, OutIsUnits
    <3>3. QED
      BY <3>2 DEF o
  <2>5. QED
    BY <1>2, <1>3, <1>4, <1>6, <2>1, <2>2, <2>4 DEF FrameEnded
<1>7. QED
  BY <1>5, <1>6

LEMMA FrameStep == FrameInv /\ [Next]_vars => FrameInv'
<1> SUFFICES ASSUME FrameInv, [Next]_vars, mode' = "frame"
             PROVE  FrameTyped' /\ (iseof => FrameEnded)' /\ (~iseof => FrameCut)'
  BY DEF FrameInv
<1>1. mode = "frame" /\ UNCHANGED <<mode, preload, file>>
  BY DEF Next, Prepare, PrepareFrame, PrepareUnit, PrepareRaw, PrepareAgain, Done, vars, config
<1>2. FrameTyped /\ (iseof => FrameEnded) /\ (~iseof => FrameCut)
  BY <1>1 DEF FrameInv
<1>3. CASE UNCHANGED vars
  <2>1. UNCHANGED <<pos, rem, isEos, iseof, out, file>>
    BY <1>3 DEF vars, config, reading
  <2>2. FrameTyped' <=> FrameTyped
    BY <2>1 DEF FrameTyped, FrameFile, Stream, HeadsOf, Previous
  <2>3. FrameEnded' <=> FrameEnded
    BY <2>1 DEF FrameEnded, Sent, Units, UnitPlaces, LastIsNoSlice
  <2>4. FrameCut' <=> FrameCut
    BY <2>1 DEF FrameCut, Base, Units, UnitPlaces, UnitsBefore, LastIsNoSlice
  <2>5. QED
    BY <1>2, <2>1, <2>2, <2>3, <2>4
<1>4. CASE PrepareFrame
  <2> DEFINE p == pos + Count
             n == FrameEnd(Filled, EosAfterRead)
  <2>1. ~iseof /\ pos' = p /\ isEos' = EosAfterRead /\ FrameCut
    BY <1>2, <1>4 DEF PrepareFrame
  <2>2. /\ FrameFile /\ file \in Seq(Cells) /\ Len(file) \in Nat /\ pos \in Nat /\ BufLen \in Nat
        /\ out \in Seq(Seq(Cells) \cup {Stale}) /\ Len(out) \in Nat
    BY <1>2, ReaderAssumption DEF FrameTyped, FrameFile
  <2>3. /\ UnitPlaces \in SUBSET Nat
        /\ \A i \in UnitPlaces : i < Len(file)
        /\ file # <<>> => 0 \in UnitPlaces
    BY <2>2, FileUnits
  <2>4. /\ p \in Nat /\ pos <= p /\ p <= Len(file) /\ Base \in Nat /\ Base <= pos
        /\ Filled = SubSeq(file, Base + 1, p)
        /\ Filled \in Seq(Cells) /\ Len(Filled) = p - Base /\ Len(Filled) <= BufLen
        /\ EosAfterRead \in BOOLEAN
        /\ EosAfterRead => p = Len(file) /\ file # <<>>
    BY <1>2, <2>1, FrameRead
  <2>5. FrameFile' /\ UnitPlaces' = UnitPlaces /\ Units' = Units /\ LastIsNoSlice' = LastIsNoSlice
    BY <1>1, <2>2 DEF FrameFile, Stream, HeadsOf, Previous, Units, UnitPlaces, LastIsNoSlice
  <2>6. /\ Base \in UnitPlaces \cup {Len(file)} /\ Len(out) = UnitsBefore(Base)
        /\ \A k \in 1..Len(out) : out[k] = Units[k]
        /\ Base = Len(file) /\ file # <<>> => LastIsNoSlice
    BY <2>1 DEF FrameCut
  <2> HIDE DEF p
  <2>7. UnitsBefore(Len(file)) = Cardinality(UnitPlaces) /\ UnitsBefore(Base)' = UnitsBefore(Base')
    BY <2>2, <2>3, <2>5 DEF UnitsBefore
  <2>8. ASSUME UNCHANGED iseof, isEos' => p = Len(file) /\ file # <<>>,
               rem' \in Seq(Cells), Len(rem') <= p, Len(rem') <= BufLen,
               out' \in Seq(Seq(Cells) \cup {Stale}),
               NEW e \in UnitPlaces \cup {Len(file)}, p - Len(rem') = e,
               rem' = SubSeq(file, e + 1, p),
               e = Len(file) /\ file # <<>> => LastIsNoSlice,
               Len(out') = UnitsBefore(e), \A k \in 1..Len(out') : out'[k] = Units[k]
        PROVE  FrameTyped' /\ (iseof => FrameEnded)' /\ (~iseof => FrameCut)'
    <3>1. iseof' = FALSE
      BY <1>2, <2>1, <2>8 DEF FrameTyped
    <3>2. isEos' \in BOOLEAN
      BY <2>1, <2>4
    <3>3. FrameTyped'
      BY <1>1, <2>1, <2>4, <2>5, <2>8, <3>1, <3>2 DEF FrameTyped
    <3>4. Base' = e
      BY <2>1, <2>8 DEF Base
    <3>5. UnitsBefore(Base)' = UnitsBefore(e)
      BY <2>7, <3>4
    <3>6. FrameCut'
      BY <1>1, <2>1, <2>5, <2>8, <3>4, <3>5 DEF FrameCut
    <3>7. QED
      BY <3>1, <3>3, <3>6
  <2>9. ASSUME iseof' = TRUE, rem' = <<>>, NEW b, out' = Append(out, b),
               \/ b = Stale /\ LastIsNoSlice /\ Len(out) = Cardinality(UnitPlaces)
               \/ /\ b \in Seq(Cells) /\ ~LastIsNoSlice
                  /\ Len(out) + 1 = Cardinality(UnitPlaces) /\ b = Units[Len(out) + 1]
        PROVE  FrameTyped' /\ (iseof => FrameEnded)' /\ (~iseof => FrameCut)'
    <3>1. FrameEnded'
      BY <1>1, <2>2, <2>6, <2>9, EndIsReached
    <3>2. rem' \in Seq(Cells) /\ Len(rem') = 0
      BY <2>9, EmptySeq
    <3>3. out' \in Seq(Seq(Cells) \cup {Stale})
      BY <2>2, <2>9
    <3>4. FrameTyped'
      BY <1>1, <2>1, <2>2, <2>4, <2>5, <2>9, <3>2, <3>3 DEF FrameTyped
    <3>5. QED
      BY <2>9, <3>1, <3>4
  <2> DEFINE keeps == rem' = Filled /\ UNCHANGED <<out, iseof>> /\ ~EosAfterRead
             ends == iseof' = TRUE /\ rem' = <<>> /\ out' = Append(out, LastFrame(Filled))
                     /\ EosAfterRead
             finds == /\ rem' = SubSeq(Filled, n + 1, Len(Filled)) /\ UNCHANGED iseof
                      /\ out' = Append(out, SubSeq(Filled, 1, n))
  <2>10. \/ n > 0 /\ finds
         \/ n = 0 /\ (ends \/ keeps)
    BY <1>4 DEF PrepareFrame, Found, EndOfStream, EndOfPacket, Left
  <2> HIDE DEF n
  <2>11. CASE Base = Len(file)
    <3>1. p = Base
      BY <2>2, <2>4, <2>11
    <3>2. Len(Filled) = 0 /\ Filled = <<>> /\ HeadsOf(Filled) = {}
      <4>1. Len(Filled) = 0
        BY <2>4, <3>1
      <4>2. Filled = <<>>
        BY <2>4, <4>1, EmptySeq
      <4>3. QED
        BY <4>1, <4>2 DEF HeadsOf
    <3>3. n = 0
      BY <3>2 DEF FrameEnd, n
    <3>4. CASE keeps
      <4>1. /\ rem' = Filled /\ UNCHANGED <<out, iseof>> /\ isEos' = FALSE
            /\ p - Len(rem') = Len(file)
        BY <2>1, <2>2, <2>4, <2>11, <3>1, <3>2, <3>4
      <4>2. Len(rem') <= p
        BY <2>2, <2>4, <3>2, <4>1
      <4>3. QED
        BY <2>2, <2>4, <2>6, <2>8, <2>11, <4>1, <4>2
    <3>5. CASE ends
      <4>1. LastFrame(Filled) = Stale /\ file # <<>>
        BY <2>4, <3>2, <3>5 DEF LastFrame
      <4>2. QED
        BY <2>6, <2>7, <2>9, <2>11, <3>5, <4>1
    <3>6. ends \/ keeps
      <4> HIDE DEF keeps, ends, finds
      <4>1. QED
        BY <2>10, <3>3
    <3>7. QED
      BY <3>4, <3>5, <3>6
  <2>12. CASE Base \in UnitPlaces
    <3> DEFINE k == Before(UnitPlaces, Base)
    <3>0. Len(out) = k /\ k \in Nat
      BY <2>2, <2>6, <2>12 DEF UnitsBefore
    <3>1. /\ n \in 0..(p - Base)
          /\ n > 0 => EndsAt(Base, Base + n) /\ (Base + n = Len(file) => LastIsNoSlice)
          /\ n = 0 /\ EosAfterRead => EndsAt(Base, Len(file)) /\ ~LastIsNoSlice
      <4> DEFINE b == Base
                 eos == EosAfterRead
      <4>1. /\ b \in UnitPlaces /\ b <= p /\ p <= Len(file) /\ eos \in BOOLEAN
            /\ eos => p = Len(file)
            /\ n = FrameEnd(SubSeq(file, b + 1, p), eos)
        BY <2>2, <2>4, <2>12 DEF n
      <4> HIDE DEF b, eos
      <4>2. /\ n \in 0..(p - b)
            /\ n > 0 => EndsAt(b, b + n) /\ (b + n = Len(file) => LastIsNoSlice)
            /\ n = 0 /\ eos => EndsAt(b, Len(file)) /\ ~LastIsNoSlice
        BY <2>2, <2>4, <4>1, CutsUnit
      <4>3. QED
        BY <4>2 DEF b, eos
    <3>2. CASE n = 0 /\ keeps
      <4>1. /\ rem' = Filled /\ UNCHANGED <<out, iseof>> /\ isEos' = FALSE
            /\ p - Len(rem') = Base /\ Len(rem') <= p
        BY <2>1, <2>2, <2>4, <3>2
      <4>2. Base # Len(file)
        BY <2>2, <2>3, <2>12
      <4>3. QED
        BY <2>2, <2>4, <2>6, <2>8, <2>12, <4>1, <4>2
    <3>3. CASE n = 0 /\ ends
      <4>1. EosAfterRead /\ EndsAt(Base, Len(file)) /\ ~LastIsNoSlice /\ p = Len(file)
        BY <2>4, <3>1, <3>3
      <4>2. Filled # <<>> /\ LastFrame(Filled) = Filled /\ Filled = SubSeq(file, Base + 1, Len(file))
        <5>1. Base < Len(file)
          BY <2>3, <2>12
        <5>2. Len(Filled) # 0
          BY <2>2, <2>4, <4>1, <5>1
        <5>3. Filled # <<>>
          BY <2>4, <5>2
        <5>4. QED
          BY <2>4, <4>1, <5>3 DEF LastFrame
      <4>3. Filled = Units[k + 1] /\ k + 1 = Cardinality(UnitPlaces)
        <5>1. Len(file) \notin UnitPlaces
          BY <2>2, <2>3
        <5>2. QED
          BY <4>1, <4>2, <5>1 DEF EndsAt
      <4>4. QED
        BY <2>4, <2>9, <3>0, <3>3, <4>1, <4>2, <4>3
    <3>4. CASE n > 0 /\ finds
      <4> DEFINE e == Base + n
      <4>1. EndsAt(Base, e) /\ (e = Len(file) => LastIsNoSlice) /\ n \in Nat /\ n <= p - Base
        BY <2>4, <3>1, <3>4
      <4>2. e \in Nat /\ e <= p /\ e <= Len(file) /\ e - Base = n /\ Base <= p
        BY <2>2, <2>4, <4>1
      <4>3. SubSeq(Filled, 1, n) = SubSeq(file, Base + 1, e) /\ SubSeq(Filled, 1, n) \in Seq(Cells)
        <5> DEFINE b == Base
        <5>1. b \in Nat /\ b <= p /\ p <= Len(file) /\ Filled = SubSeq(file, b + 1, p)
          BY <2>4, <4>2
        <5>2. 0 \in Nat /\ n \in Nat /\ 0 <= n /\ n <= p - b
          BY <4>1
        <5> HIDE DEF b
        <5>3. SubSeq(SubSeq(file, b + 1, p), 0 + 1, n) = SubSeq(file, b + 0 + 1, b + n)
          BY <2>2, <2>4, <5>1, <5>2, SliceOfSlice
        <5>4. 0 + 1 = 1 /\ b + 0 + 1 = b + 1
          BY <5>1
        <5>5. SubSeq(Filled, 1, n) = SubSeq(file, b + 1, b + n)
          BY <5>1, <5>3, <5>4
        <5>6. b + n \in Nat /\ b <= b + n /\ b + n <= Len(file)
          BY <2>2, <2>4, <5>1, <5>2
        <5>7. SubSeq(file, b + 1, b + n) \in Seq(Cells)
          BY <2>2, <5>1, <5>6, Slice1
        <5>8. QED
          BY <5>5, <5>7 DEF b
      <4>4. rem' = SubSeq(file, e + 1, p) /\ rem' \in Seq(Cells) /\ Len(rem') = p - e
        <5> DEFINE b == Base
                   m == p - b
        <5>1. b \in Nat /\ b <= p /\ p <= Len(file) /\ Filled = SubSeq(file, b + 1, p)
              /\ m = Len(Filled)
          BY <2>4, <4>2
        <5>2. n \in Nat /\ m \in Nat /\ n <= m /\ m <= p - b /\ b + m = p
          BY <2>4, <4>1, <5>1
        <5> HIDE DEF b, m
        <5>3. SubSeq(SubSeq(file, b + 1, p), n + 1, m) = SubSeq(file, b + n + 1, b + m)
          BY <2>2, <2>4, <5>1, <5>2, SliceOfSlice
        <5>4. rem' = SubSeq(file, b + n + 1, p)
          BY <3>4, <5>1, <5>2, <5>3
        <5>5. rem' = SubSeq(file, e + 1, p)
          BY <5>4 DEF b
        <5> HIDE DEF e
        <5>6. e \in Nat /\ p \in Nat /\ e <= p /\ p <= Len(file)
          BY <2>2, <2>4, <4>2
        <5>7. file \in Seq(Cells)
          BY <2>2
        <5>8. SubSeq(file, e + 1, p) \in Seq(Cells) /\ Len(SubSeq(file, e + 1, p)) = p - e
          BY <5>6, <5>7, Slice1
        <5>9. QED
          BY <5>5, <5>8
      <4>5. e \in UnitPlaces \cup {Len(file)} /\ UnitsBefore(e) = k + 1
            /\ SubSeq(file, Base + 1, e) = Units[k + 1]
        <5> HIDE DEF e
        <5>0. Len(file) \notin UnitPlaces
          BY <2>2, <2>3
        <5>1. CASE e \in UnitPlaces
          BY <4>1, <5>0, <5>1 DEF EndsAt, UnitsBefore
        <5>2. CASE e \notin UnitPlaces
          BY <4>1, <5>2 DEF EndsAt, UnitsBefore
        <5>3. QED
          BY <5>1, <5>2
      <4> HIDE DEF e, k
      <4>6. /\ out' \in Seq(Seq(Cells) \cup {Stale}) /\ Len(out') = k + 1
            /\ \A l \in 1..Len(out') : out'[l] = Units[l]
        <5> DEFINE b == SubSeq(Filled, 1, n)
        <5>1. b \in Seq(Cells) \cup {Stale} /\ b = Units[k + 1] /\ out' = Append(out, b)
          BY <3>4, <4>3, <4>5
        <5> HIDE DEF b
        <5>2. /\ out' \in Seq(Seq(Cells) \cup {Stale}) /\ Len(out') = k + 1
              /\ out'[k + 1] = b /\ \A l \in 1..k : out'[l] = out[l]
          BY <2>2, <3>0, <5>1
        <5>3. ASSUME NEW l \in 1..Len(out') PROVE out'[l] = Units[l]
          <6>1. l \in 1..k \/ l = k + 1
            BY <3>0, <5>2
          <6>2. QED
            BY <2>6, <3>0, <5>1, <5>2, <6>1
        <5>4. QED
          BY <5>2, <5>3
      <4>7. p - Len(rem') = e /\ Len(rem') <= p /\ Len(rem') <= BufLen
        <5>1. Base \in Nat /\ Len(Filled) = p - Base /\ Len(Filled) <= BufLen /\ BufLen \in Nat
              /\ p \in Nat
          BY <2>2, <2>4
        <5>2. e - Base = n /\ n \in Nat /\ e \in Nat /\ e <= p
          BY <4>1, <4>2
        <5>3. Len(rem') = p - e
          BY <4>4
        <5>4. QED
          BY <5>1, <5>2, <5>3
      <4>8. QED
        BY <2>1, <2>4, <2>8, <3>4, <4>1, <4>4, <4>5, <4>6, <4>7
    <3>5. QED
      BY <2>10, <3>2, <3>3, <3>4
  <2>13. QED
    BY <2>6, <2>11, <2>12
<1>5. QED
  BY <1>1, <1>3, <1>4 DEF Next, Prepare, PrepareUnit, PrepareRaw, PrepareAgain, Done

LEMMA FirstOfUnits ==
    ASSUME FrameFile, NEW n \in Nat, n <= Cardinality(UnitPlaces), NEW S, NEW o \in Seq(S),
           Len(o) = n, \A k \in 1..n : o[k] = Units[k]
    PROVE  IsPrefix(o, Units)
<1> DEFINE C == Cardinality(UnitPlaces)
           u == Units
           T == {u[k] : k \in 1..C}
<1>1. C \in Nat
  BY FileUnits, FS_CardinalityType
<1>2. /\ u \in Seq(T) /\ Len(u) = C
  <2> DEFINE e(k) == SubSeq(file, Nth(UnitPlaces, k) + 1,
                            EndOfPart(file, [i \in UnitPlaces |-> i], Nth(UnitPlaces, k)))
  <2>1. DOMAIN [i \in UnitPlaces |-> i] = UnitPlaces
    OBVIOUS
  <2>2. u = [k \in 1..C |-> e(k)]
    BY <2>1 DEF Units, Parts
  <2> HIDE DEF C, e, u
  <2>3. \A k \in 1..C : e(k) \in T
    BY <2>2
  <2>4. u \in [1..C -> T]
    BY <2>2, <2>3
  <2> HIDE DEF T
  <2>5. QED
    BY <1>1, <2>4
<1> HIDE DEF C, u, T
<1>3. n <= C /\ \A k \in 1..n : o[k] = u[k]
  BY DEF C, u
<1>4. 1 \in Int /\ n \in Int /\ (\A k \in 1..n : u[k] \in T) /\ \A k \in 1..n : o[k] \in S
  BY <1>1, <1>2, <1>3
<1> DEFINE a == SubSeq(o, 1, n)
           b == SubSeq(u, 1, n)
<1>5. /\ a \in Seq(S) /\ Len(a) = (IF 1 <= n THEN n - 1 + 1 ELSE 0)
      /\ \A i \in 1..(n - 1 + 1) : a[i] = o[1 + i - 1]
  BY <1>4, SubSeqProperties
<1>6. /\ b \in Seq(T) /\ Len(b) = (IF 1 <= n THEN n - 1 + 1 ELSE 0)
      /\ \A i \in 1..(n - 1 + 1) : b[i] = u[1 + i - 1]
  BY <1>4, SubSeqProperties
<1> HIDE DEF a, b
<1>7. Len(a) = n /\ Len(b) = n
  BY <1>5, <1>6
<1>8. ASSUME NEW i \in 1..n PROVE a[i] = b[i]
  <2>1. i \in 1..(n - 1 + 1) /\ 1 + i - 1 = i
    OBVIOUS
  <2>2. QED
    BY <1>3, <1>5, <1>6, <2>1
<1>9. a \in Seq(S \cup T) /\ b \in Seq(S \cup T)
  BY <1>5, <1>6
<1>10. a = b
  BY <1>7, <1>8, <1>9, SeqEqual
<1>11. QED
  BY <1>2, <1>3, <1>10 DEF IsPrefix, a, b, u

\* What is prepared without the end is a beginning of the units.
LEMMA CutInOrder == FrameTyped /\ FrameCut => IsPrefix(Sent, Units)
<1> SUFFICES ASSUME FrameTyped, FrameCut PROVE IsPrefix(Sent, Units)
  OBVIOUS
<1> DEFINE S == Seq(Cells) \cup {Stale}
<1>1. FrameFile /\ out \in Seq(S) /\ Len(out) = UnitsBefore(Base)
      /\ \A k \in 1..Len(out) : out[k] = Units[k]
  BY DEF FrameTyped, FrameCut
<1> HIDE DEF S
<1>2. UnitPlaces \in SUBSET Nat /\ IsFiniteSet(UnitPlaces) /\ Cardinality(UnitPlaces) \in Nat
  BY <1>1, FileUnits, FS_CardinalityType
<1>3. Len(out) \in Nat /\ Len(out) <= Cardinality(UnitPlaces)
  <2>1. CASE Base \in UnitPlaces
    <3>1. Before(UnitPlaces, Base) \in Nat /\ Before(UnitPlaces, Base) + 1 \in 1..Cardinality(UnitPlaces)
      BY <1>2, <2>1, PlacesCounted
    <3>2. QED
      BY <1>1, <1>2, <2>1, <3>1 DEF UnitsBefore
  <2>2. CASE Base \notin UnitPlaces
    BY <1>1, <1>2, <2>2 DEF UnitsBefore
  <2>3. QED
    BY <2>1, <2>2
<1>4. IsPrefix(out, Units)
  BY <1>1, <1>3, FirstOfUnits
<1>5. ASSUME out # <<>> PROVE IsPrefix(Front(out), Units)
  <2> DEFINE m == Len(out) - 1
             f == SubSeq(out, 1, m)
  <2>1. m \in Nat /\ m <= Len(out)
    BY <1>1, <1>3, <1>5, EmptySeq
  <2> HIDE DEF m
  <2>2. 1 \in Int /\ m \in Int /\ \A i \in 1..m : out[i] \in S
    BY <1>1, <1>3, <2>1
  <2>3. /\ f \in Seq(S) /\ Len(f) = (IF 1 <= m THEN m - 1 + 1 ELSE 0)
        /\ \A i \in 1..(m - 1 + 1) : f[i] = out[1 + i - 1]
    BY <2>2, SubSeqProperties
  <2> HIDE DEF f
  <2>4. Len(f) = m
    BY <2>1, <2>3
  <2>5. ASSUME NEW i \in 1..m PROVE f[i] = Units[i]
    <3>1. i \in 1..(m - 1 + 1) /\ 1 + i - 1 = i /\ i \in 1..Len(out)
      BY <1>3, <2>1
    <3>2. QED
      BY <1>1, <2>3, <3>1
  <2>6. m <= Cardinality(UnitPlaces)
    BY <1>2, <1>3, <2>1
  <2>7. IsPrefix(f, Units)
    BY <1>1, <2>1, <2>3, <2>4, <2>5, <2>6, FirstOfUnits
  <2>8. QED
    BY <2>7 DEF f, m, Front
<1>6. QED
  BY <1>4, <1>5 DEF Sent

LEMMA EndedInOrder == FrameTyped /\ FrameEnded => IsPrefix(Sent, Units)
<1> SUFFICES ASSUME FrameFile PROVE IsPrefix(Units, Units)
  BY DEF FrameTyped, FrameEnded
<1> DEFINE C == Cardinality(UnitPlaces)
<1>1. C \in Nat
  BY FileUnits, FS_CardinalityType
<1>2. Len(Units) = C
  <2>1. DOMAIN [i \in UnitPlaces |-> i] = UnitPlaces
    OBVIOUS
  <2>2. DOMAIN Units = 1..C
    BY <2>1 DEF Units, Parts
  <2>3. QED
    BY <1>1, <2>2
<1>3. QED
  BY <1>1, <1>2 DEF IsPrefix

-----------------------------------------------------------------------------
(* Raw packets. *)

LEMMA Quotient ==
    ASSUME NEW q1 \in Int, NEW q2 \in Int, NEW m1 \in Nat, NEW m2 \in Nat, NEW r \in Nat,
           m1 < r, m2 < r, r * q1 + m1 = r * q2 + m2
    PROVE  m1 = m2
OBVIOUS

LEMMA Divided ==
    ASSUME NEW c \in Nat, NEW r \in Nat \ {0}
    PROVE  c = r * (c \div r) + (c % r) /\ c \div r \in Nat /\ c % r \in 0..(r - 1)
OBVIOUS

LEMMA NextRest ==
    ASSUME NEW c \in Nat, NEW r \in Nat \ {0}
    PROVE  (c + 1) % r = IF (c % r) + 1 < r THEN (c % r) + 1 ELSE 0
<1> DEFINE q == c \div r
           m == c % r
           d == c + 1
           v == d \div r
           n == d % r
<1>1. c = r * q + m /\ q \in Nat /\ m \in 0..(r - 1)
  BY Divided
<1>2. d \in Nat
  OBVIOUS
<1>3. d = c + 1
  OBVIOUS
<1> HIDE DEF d
<1>4. d = r * v + n /\ v \in Nat /\ n \in 0..(r - 1)
  BY <1>2, Divided
<1> HIDE DEF q, m, v, n
<1>5. CASE m + 1 < r
  <2>1. m + 1 \in Nat /\ n \in Nat /\ n < r /\ r \in Nat /\ q \in Int /\ v \in Int
    BY <1>1, <1>4
  <2>2. r * q + (m + 1) = r * v + n
    BY <1>1, <1>3, <1>4
  <2>3. m + 1 = n
    BY <1>5, <2>1, <2>2, Quotient
  <2>4. QED
    BY <1>5, <2>3 DEF m, n, d
<1>6. CASE ~(m + 1 < r)
  <2>1. m + 1 = r
    BY <1>1, <1>6
  <2>2. r * (q + 1) = r * q + r
    BY <1>1
  <2>3. r * (q + 1) + 0 = r * v + n
    BY <1>1, <1>3, <1>4, <2>1, <2>2
  <2>4. 0 \in Nat /\ n \in Nat /\ n < r /\ 0 < r /\ r \in Nat /\ q + 1 \in Int /\ v \in Int
    BY <1>1, <1>4
  <2>5. 0 = n
    BY <2>3, <2>4, Quotient
  <2>6. QED
    BY <1>6, <2>5 DEF m, n, d
<1>7. QED
  BY <1>5, <1>6

Rounds ==
    Len(file) = 0 \/
    /\ InRound \in Nat \ {0}
    /\ Len(file) <= InRound * PacketLen /\ (InRound - 1) * PacketLen < Len(file)

RoundPlace == IF readPos < Len(file) THEN readPos ELSE 0

Packets == [data : Seq(Bytes), measured : BOOLEAN]

RawTyped ==
    /\ file \in Seq(Bytes) /\ preload \in BOOLEAN
    /\ pos \in Nat /\ pos <= Len(file)
    /\ readPos \in Nat /\ iseof \in BOOLEAN
    /\ out \in Seq(Packets)

\* Where the next packet is taken from.
RawPlace ==
    /\ preload => ~iseof /\ (file # <<>> => RoundPlace = PlaceOf(Len(out) + 1))
    /\ ~preload /\ ~iseof => pos = PlaceOf(Len(out) + 1)
    /\ ~preload /\ iseof => PlaceOf(Len(out)) <= Len(file) /\ Len(file) < PlaceOf(Len(out) + 1)

RawInv ==
    mode = "raw" => /\ RawTyped /\ RawPlace
                    /\ \A k \in 1..Len(out) : out[k] = Packet(Piece(k), TRUE)

\* A packet has a whole number of bytes, at most what the file has left.
LEMMA PieceFits ==
    ASSUME file \in Seq(Bytes), NEW a \in Nat, a <= Len(file)
    PROVE  LET e == Min({a + PacketLen, Len(file)})
               d == SubSeq(file, a + 1, e)
           IN  /\ e \in Nat /\ a <= e /\ e <= Len(file) /\ d \in Seq(Bytes) /\ Len(d) = e - a
               /\ Len(d) < PacketLen <=> Len(file) < a + PacketLen
               /\ Len(file) < a + PacketLen => e = Len(file)
               /\ Len(file) >= a + PacketLen => e = a + PacketLen
<1> DEFINE b == a + PacketLen
           l == Len(file)
           e == Min({b, l})
<1>1. b \in Nat /\ l \in Nat /\ a <= l /\ PacketLen \in Nat /\ PacketLen > 0
  BY ReaderAssumption
<1>2. e = IF b <= l THEN b ELSE l
  <2> HIDE DEF b, l
  <2>1. QED
    BY <1>1, MinOfTwo
<1>3. e \in Nat /\ a <= e /\ e <= l
  <2> HIDE DEF e, l
  <2>1. QED
    BY <1>1, <1>2
<1>4. SubSeq(file, a + 1, e) \in Seq(Bytes) /\ Len(SubSeq(file, a + 1, e)) = e - a
  <2> HIDE DEF e
  <2>1. QED
    BY <1>3, Slice1
<1>5. /\ e - a < PacketLen <=> l < a + PacketLen
      /\ l < a + PacketLen => e = l
      /\ l >= a + PacketLen => e = a + PacketLen
  <2>1. b = a + PacketLen
    OBVIOUS
  <2> HIDE DEF e, l, b
  <2>2. QED
    BY <1>1, <1>2, <2>1
<1>6. QED
  BY <1>3, <1>4, <1>5

LEMMA RoundsOf ==
    ASSUME file \in Seq(Bytes)
    PROVE  Rounds
<1> DEFINE l == Len(file)
<1>1. l \in Nat /\ PacketLen \in Nat \ {0}
  BY ReaderAssumption
<1>2. InRound = (l + PacketLen - 1) \div PacketLen
  BY DEF InRound
<1> HIDE DEF l
<1>3. l # 0 => /\ InRound \in Nat \ {0} /\ InRound * PacketLen >= l
               /\ (InRound - 1) * PacketLen < l
  BY <1>1, <1>2
<1>4. QED
  BY <1>3 DEF Rounds, l

\* In a preloaded file the place goes on by a packet, or back to the front when the file has
\* been copied.
LEMMA GoesAround ==
    ASSUME NEW c \in Nat, NEW r \in Nat \ {0}, NEW p \in Nat \ {0}, NEW l \in Nat \ {0},
           l <= r * p, (r - 1) * p < l
    PROVE  LET a == (c % r) * p
               n == ((c + 1) % r) * p
           IN  /\ a \in Nat /\ a < l
               /\ n = IF a + p < l THEN a + p ELSE 0
<1> DEFINE q == c % r
<1>1. q \in Nat /\ q < r
  OBVIOUS
<1>2. (c + 1) % r = IF q + 1 < r THEN q + 1 ELSE 0
  BY NextRest
<1> HIDE DEF q
<1>3. q * p \in Nat /\ (q + 1) * p = q * p + p
  BY <1>1
<1>4. q * p <= (r - 1) * p
  BY <1>1
<1>5. (r - 1) * p \in Nat
  OBVIOUS
<1>6. q * p < l
  BY <1>3, <1>4, <1>5
<1>7. CASE q + 1 < r
  <2>1. (q + 1) * p <= (r - 1) * p
    BY <1>1, <1>7
  <2>2. q * p + p < l
    BY <1>3, <1>5, <2>1
  <2>3. QED
    BY <1>2, <1>3, <1>6, <1>7, <2>2 DEF q
<1>8. CASE ~(q + 1 < r)
  <2>1. q + 1 = r
    BY <1>1, <1>8
  <2>2. q * p + p >= l
    BY <1>3, <2>1
  <2>3. 0 * p = 0
    OBVIOUS
  <2>4. QED
    BY <1>2, <1>3, <1>6, <1>8, <2>2, <2>3 DEF q
<1>9. QED
  BY <1>7, <1>8

LEMMA RawInit == Init => RawInv
<1> SUFFICES ASSUME Init, mode = "raw"
             PROVE  RawTyped /\ RawPlace /\ \A k \in 1..Len(out) : out[k] = Packet(Piece(k), TRUE)
  BY DEF RawInv
<1>1. file \in BoundedSeq(Bytes, MaxBytes) \cup BoundedSeq({"0", "1"}, MaxLong)
  BY DEF Init, Files
<1>2. file \in Seq(Bytes)
  <2>1. CASE file \in BoundedSeq(Bytes, MaxBytes)
    BY <2>1, BoundedIsSeq, ReaderAssumption
  <2>2. CASE file \in BoundedSeq({"0", "1"}, MaxLong)
    <3>1. file \in Seq({"0", "1"})
      BY <2>2, BoundedIsSeq, ReaderAssumption
    <3>2. {"0", "1"} \in SUBSET Bytes
      BY DEF Bytes
    <3>3. QED
      BY <3>1, <3>2
  <2>3. QED
    BY <1>1, <2>1, <2>2
<1>3. /\ preload \in BOOLEAN /\ pos = (IF preload THEN Len(file) ELSE 0)
      /\ readPos = 0 /\ iseof = FALSE
  BY DEF Init
<1>4. Len(out) = 0 /\ out \in Seq(Packets)
  <2>1. out = <<>>
    BY DEF Init
  <2>2. QED
    BY <2>1, EmptySeq
<1>5. Len(file) \in Nat
  BY <1>2
<1>6. RawTyped
  <2>1. pos \in Nat /\ pos <= Len(file)
    BY <1>3, <1>5
  <2>2. iseof \in BOOLEAN /\ readPos \in Nat
    BY <1>3
  <2>3. QED
    BY <1>2, <1>3, <1>4, <2>1, <2>2 DEF RawTyped
<1>7. PlaceOf(Len(out) + 1) = 0 \/ (preload /\ file = <<>>)
  <2> DEFINE p == PacketLen
             r == InRound
  <2>1. p \in Nat
    BY ReaderAssumption
  <2>2. file = <<>> \/ r \in Nat \ {0}
    BY <1>2, <1>5, RoundsOf, EmptySeq DEF Rounds
  <2> HIDE DEF p, r
  <2>3. 0 * p = 0 /\ (r \in Nat \ {0} => 0 % r = 0)
    BY <2>1
  <2>4. PlaceOf(Len(out) + 1) = (IF preload THEN 0 % r ELSE 0) * p
    BY <1>4 DEF PlaceOf, p, r
  <2>5. QED
    BY <1>3, <2>2, <2>3, <2>4
<1>8. RawPlace
  BY <1>3, <1>5, <1>7 DEF RawPlace, RoundPlace
<1>9. QED
  BY <1>4, <1>6, <1>8

LEMMA RawStep == RawInv /\ [Next]_vars => RawInv'
<1> SUFFICES ASSUME RawInv, [Next]_vars, mode' = "raw"
             PROVE  /\ RawTyped' /\ RawPlace'
                    /\ (\A k \in 1..Len(out) : out[k] = Packet(Piece(k), TRUE))'
  BY DEF RawInv
<1>1. mode = "raw" /\ UNCHANGED <<mode, preload, file>>
  BY DEF Next, Prepare, PrepareFrame, PrepareUnit, PrepareRaw, PrepareAgain, Done, vars, config
<1>2. RawTyped /\ RawPlace /\ \A k \in 1..Len(out) : out[k] = Packet(Piece(k), TRUE)
  BY <1>1 DEF RawInv
<1>3. /\ InRound' = InRound /\ \A k \in Nat : PlaceOf(k)' = PlaceOf(k) /\ Piece(k)' = Piece(k)
  BY <1>1 DEF PlaceOf, Piece, InRound
<1> DEFINE S == Packets
           c == Len(out)
           a == PlaceOf(c + 1)
           l == Len(file)
<1>4. /\ file \in Seq(Bytes) /\ out \in Seq(S) /\ c \in Nat /\ l \in Nat /\ preload \in BOOLEAN
      /\ pos \in Nat /\ pos <= l /\ readPos \in Nat /\ iseof \in BOOLEAN
      /\ PacketLen \in Nat \ {0}
  BY <1>2, ReaderAssumption DEF RawTyped
<1> HIDE DEF S
\* One more packet, the one at the next place.
<1>5. ASSUME NEW d \in Seq(Bytes), d = Piece(c + 1), out' = Append(out, Packet(d, TRUE))
      PROVE  /\ out' \in Seq(S) /\ Len(out') = c + 1
             /\ (\A k \in 1..Len(out) : out[k] = Packet(Piece(k), TRUE))'
  <2> DEFINE x == Packet(d, TRUE)
  <2>1. x \in S /\ x = Packet(Piece(c + 1), TRUE)
    BY <1>5 DEF S, Packets, Packet
  <2>2. out' = Append(out, x)
    BY <1>5
  <2> HIDE DEF x
  <2>3. /\ out' \in Seq(S) /\ Len(out') = c + 1 /\ out'[c + 1] = x
        /\ \A k \in 1..c : out'[k] = out[k]
    <3>1. out \in Seq(S) /\ x \in S
      BY <1>4, <2>1
    <3>2. QED
      BY <2>2, <3>1
  <2>4. ASSUME NEW k \in 1..Len(out') PROVE out'[k] = Packet(Piece(k), TRUE)
    <3>1. k \in 1..c \/ k = c + 1
      BY <1>4, <2>3
    <3>2. QED
      BY <1>2, <2>1, <2>3, <3>1
  <2>5. \A k \in 1..Len(out') : Piece(k)' = Piece(k)
    <3>1. \A k \in 1..Len(out') : k \in Nat
      BY <1>4, <2>3
    <3>2. QED
      BY <1>3, <3>1
  <2>6. \A k \in 1..Len(out') : out'[k] = Packet(Piece(k)', TRUE)
    BY <2>4, <2>5
  <2>7. QED
    BY <2>3, <2>6 DEF Packet
<1>6. CASE UNCHANGED vars
  <2>1. UNCHANGED <<pos, readPos, iseof, out, file, preload>>
    BY <1>6 DEF vars, config, reading
  <2>2. RawTyped' /\ RawPlace'
    BY <1>2, <2>1 DEF RawTyped, RawPlace, RoundPlace, PlaceOf, InRound
  <2>3. QED
    BY <1>2, <2>1, <2>2 DEF Piece, PlaceOf, InRound
<1>7. CASE PrepareRaw
  <2> DEFINE e == Min({pos + PacketLen, l})
             d == SubSeq(file, pos + 1, e)
  <2>1. /\ ~preload /\ ~iseof /\ out' = Append(out, Packet(d, TRUE)) /\ pos' = pos + Len(d)
        /\ iseof' = (Len(d) < PacketLen) /\ readPos' = readPos
    BY <1>7 DEF PrepareRaw
  <2>2. pos = a
    BY <1>2, <2>1 DEF RawPlace
  <2>3. /\ e \in Nat /\ pos <= e /\ e <= l /\ d \in Seq(Bytes) /\ Len(d) = e - pos
        /\ Len(d) < PacketLen <=> l < pos + PacketLen
        /\ l < pos + PacketLen => e = l
        /\ l >= pos + PacketLen => e = pos + PacketLen
    BY <1>4, PieceFits
  <2>4. d = Piece(c + 1)
    BY <2>2 DEF Piece
  <2> HIDE DEF d, e
  <2>5. /\ out' \in Seq(S) /\ Len(out') = c + 1
        /\ (\A k \in 1..Len(out) : out[k] = Packet(Piece(k), TRUE))'
    BY <1>5, <2>1, <2>3, <2>4
  <2>6. PlaceOf(c + 2) = a + PacketLen
    <3> DEFINE p == PacketLen
    <3> HIDE DEF p, c
    <3>1. (c + 1) * p = c * p + p /\ (c + 2) - 1 = c + 1 /\ (c + 1) - 1 = c
      BY <1>4 DEF p
    <3>2. QED
      BY <2>1, <3>1 DEF PlaceOf, p
  <2>7. pos' = e /\ pos' \in Nat /\ pos' <= l /\ iseof' \in BOOLEAN
    BY <1>4, <2>1, <2>3
  <2>8. RawTyped'
    BY <1>1, <1>4, <2>1, <2>5, <2>7 DEF RawTyped, S
  <2>9. PlaceOf(Len(out) + 1)' = a + PacketLen /\ PlaceOf(Len(out))' = a
    <3>1. Len(out') = c + 1 /\ Len(out') + 1 = c + 2
      BY <1>4, <2>5
    <3>2. PlaceOf(Len(out))' = a /\ PlaceOf(Len(out) + 1)' = PlaceOf(c + 2)
      <4> HIDE DEF c
      <4>1. QED
        BY <1>1, <1>3, <3>1 DEF PlaceOf
    <3>3. QED
      BY <2>6, <3>2
  <2>10. RawPlace'
    <3>1. CASE l < pos + PacketLen
      <4>1. iseof' = TRUE
        BY <2>1, <2>3, <3>1
      <4>2. PlaceOf(Len(out))' <= l /\ l < PlaceOf(Len(out) + 1)'
        BY <1>4, <2>2, <2>9, <3>1
      <4>3. QED
        BY <1>1, <2>1, <4>1, <4>2 DEF RawPlace
    <3>2. CASE ~(l < pos + PacketLen)
      <4>1. ~iseof'
        <5>1. ~(Len(d) < PacketLen)
          BY <2>3, <3>2
        <5>2. iseof' <=> Len(d) < PacketLen
          BY <2>1
        <5>3. QED
          BY <5>1, <5>2
      <4>2. pos' = pos + PacketLen
        BY <1>4, <2>3, <2>7, <3>2
      <4>3. QED
        BY <1>1, <2>1, <2>2, <2>9, <4>1, <4>2 DEF RawPlace
    <3>3. QED
      BY <3>1, <3>2
  <2>11. QED
    BY <2>5, <2>8, <2>10
<1>8. CASE PrepareAgain
  <2> DEFINE front == RoundPlace
             e == Min({front + PacketLen, l})
             d == SubSeq(file, front + 1, e)
  <2>1. /\ preload /\ file # <<>> /\ out' = Append(out, Packet(d, TRUE))
        /\ readPos' = (IF Len(d) < PacketLen THEN 0 ELSE front + PacketLen)
        /\ iseof' = iseof /\ pos' = pos
    BY <1>8 DEF PrepareAgain, RoundPlace
  <2>2. front = a /\ ~iseof
    BY <1>2, <2>1 DEF RawPlace
  <2>3. l # 0
    BY <1>4, <2>1, EmptySeq
  <2>4. /\ InRound \in Nat \ {0}
        /\ l <= InRound * PacketLen /\ (InRound - 1) * PacketLen < l
    BY <1>4, <2>3, RoundsOf DEF Rounds
  <2>5. /\ PlaceOf(c + 1) = (c % InRound) * PacketLen
        /\ PlaceOf(c + 2) = ((c + 1) % InRound) * PacketLen
    <3>1. (c + 1) - 1 = c /\ (c + 2) - 1 = c + 1
      BY <1>4
    <3>2. QED
      BY <2>1, <3>1 DEF PlaceOf
  <2>6. /\ a \in Nat /\ a < l
        /\ PlaceOf(c + 2) = IF a + PacketLen < l THEN a + PacketLen ELSE 0
    <3> DEFINE p == PacketLen
               r == InRound
    <3>1. l \in Nat \ {0} /\ p \in Nat \ {0} /\ r \in Nat \ {0} /\ l <= r * p /\ (r - 1) * p < l
      BY <1>4, <2>3, <2>4
    <3> HIDE DEF c, l, p, r
    <3>2. /\ (c % r) * p \in Nat /\ (c % r) * p < l
          /\ ((c + 1) % r) * p = IF (c % r) * p + p < l THEN (c % r) * p + p ELSE 0
      BY <1>4, <3>1, GoesAround
    <3>3. QED
      BY <2>5, <3>2 DEF p, r
  <2>7. /\ e \in Nat /\ front <= e /\ e <= l /\ d \in Seq(Bytes) /\ Len(d) = e - front
        /\ Len(d) < PacketLen <=> l < front + PacketLen
    <3>1. front \in Nat /\ front <= Len(file)
      BY <1>4, <2>2, <2>6
    <3> HIDE DEF front
    <3>2. QED
      BY <1>4, <3>1, PieceFits
  <2>8. d = Piece(c + 1)
    BY <2>2 DEF Piece
  <2> HIDE DEF d, e
  <2>9. /\ out' \in Seq(S) /\ Len(out') = c + 1
        /\ (\A k \in 1..Len(out) : out[k] = Packet(Piece(k), TRUE))'
    BY <1>5, <2>1, <2>7, <2>8
  <2>10. readPos' = (IF l < a + PacketLen THEN 0 ELSE a + PacketLen) /\ readPos' \in Nat
    BY <1>4, <2>1, <2>2, <2>6, <2>7
  <2>11. RawTyped'
    BY <1>1, <1>4, <2>1, <2>9, <2>10 DEF RawTyped, S
  <2>12. PlaceOf(Len(out) + 1)' = PlaceOf(c + 2)
    <3>1. Len(out') + 1 = c + 2
      BY <1>4, <2>9
    <3> HIDE DEF c
    <3>2. QED
      BY <1>1, <1>3, <3>1 DEF PlaceOf
  <2>13. RoundPlace' = PlaceOf(c + 2)
    <3>1. RoundPlace' = IF readPos' < l THEN readPos' ELSE 0
      BY <1>1 DEF RoundPlace
    <3> HIDE DEF a, l
    <3>2. QED
      BY <1>4, <2>6, <2>10, <3>1
  <2>14. RawPlace'
    BY <1>1, <2>1, <2>2, <2>12, <2>13 DEF RawPlace
  <2>15. QED
    BY <2>9, <2>11, <2>14
<1>9. QED
  BY <1>1, <1>6, <1>7, <1>8 DEF Next, Prepare, PrepareFrame, PrepareUnit, Done

-----------------------------------------------------------------------------
(* One unit for each buffer: start codes. *)

LongAt(s, q) ==
    q + 3 <= Len(s) /\ s[q] = "0" /\ s[q + 1] = "0" /\ s[q + 2] = "0" /\ s[q + 3] = "1"
ShortAt(s, q) == q + 2 <= Len(s) /\ s[q] = "0" /\ s[q + 1] = "0" /\ s[q + 2] = "1"
CodeAt(s, q) == LongAt(s, q) \/ ShortAt(s, q)

LEMMA CodeLenIs ==
    ASSUME NEW s \in Seq(Bytes), NEW q \in Nat \ {0}
    PROVE  /\ IsAt(s, q, StartCode) <=> LongAt(s, q)
           /\ CodeLen(s, q) = IF LongAt(s, q) THEN 4 ELSE IF ShortAt(s, q) THEN 3 ELSE 0
<1>1. IsAt(s, q, StartCode) <=> LongAt(s, q)
  <2> DEFINE t == SubSeq(s, q, q + 3)
             v == <<"0", "0", "0", "1">>
  <2>1. /\ v \in Seq({"0", "1"}) /\ Len(v) = 4
        /\ v[1] = "0" /\ v[2] = "0" /\ v[3] = "0" /\ v[4] = "1"
    OBVIOUS
  <2>2. IsAt(s, q, StartCode) <=> q + 3 <= Len(s) /\ t = v
    <3>1. q + Len(v) - 1 = q + 3 /\ StartCode = v
      BY DEF StartCode
    <3> HIDE DEF v
    <3>2. QED
      BY <3>1 DEF IsAt
  <2>3. ASSUME q + 3 <= Len(s)
        PROVE  t \in Seq(Bytes) /\ Len(t) = 4
               /\ t[1] = s[q] /\ t[2] = s[q + 1] /\ t[3] = s[q + 2] /\ t[4] = s[q + 3]
    <3> DEFINE a == q - 1
               b == q + 3
    <3>1. a \in Nat /\ b \in Nat /\ a <= b /\ b <= Len(s) /\ b - a = 4 /\ a + 1 = q
          /\ a + 2 = q + 1 /\ a + 3 = q + 2 /\ a + 4 = q + 3
      BY <2>3
    <3>2. t = SubSeq(s, a + 1, b)
      BY <3>1
    <3> HIDE DEF a, b, t
    <3>3. t \in Seq(Bytes) /\ Len(t) = b - a /\ \A i \in 1..(b - a) : t[i] = s[a + i]
      <4>1. a \in Nat /\ b \in Nat /\ a <= b /\ b <= Len(s)
        BY <3>1
      <4>2. /\ SubSeq(s, a + 1, b) \in Seq(Bytes) /\ Len(SubSeq(s, a + 1, b)) = b - a
            /\ \A i \in 1..(b - a) : SubSeq(s, a + 1, b)[i] = s[a + i]
        BY <4>1, Slice1
      <4>3. QED
        BY <3>2, <4>2
    <3>4. Len(t) = 4 /\ t[1] = s[a + 1] /\ t[2] = s[a + 2] /\ t[3] = s[a + 3] /\ t[4] = s[a + 4]
      BY <3>1, <3>3
    <3>5. QED
      BY <3>1, <3>3, <3>4
  <2> HIDE DEF t, v
  <2>4. ASSUME LongAt(s, q) PROVE t = v
    <3>1. t \in Seq(Bytes \cup {"0", "1"}) /\ v \in Seq(Bytes \cup {"0", "1"}) /\ Len(t) = Len(v)
      BY <2>1, <2>3, <2>4 DEF LongAt
    <3>2. t[1] = v[1] /\ t[2] = v[2] /\ t[3] = v[3] /\ t[4] = v[4]
      BY <2>1, <2>3, <2>4 DEF LongAt
    <3>3. \A i \in 1..Len(t) : i = 1 \/ i = 2 \/ i = 3 \/ i = 4
      BY <2>1, <3>1
    <3>4. \A i \in 1..Len(t) : t[i] = v[i]
      BY <3>2, <3>3
    <3>5. QED
      BY <3>1, <3>4, SeqEqual
  <2>5. QED
    BY <2>1, <2>2, <2>3, <2>4 DEF LongAt
<1>2. IsAt(s, q, SubStartCode) <=> ShortAt(s, q)
  <2> DEFINE t == SubSeq(s, q, q + 2)
             v == <<"0", "0", "1">>
  <2>1. v \in Seq({"0", "1"}) /\ Len(v) = 3 /\ v[1] = "0" /\ v[2] = "0" /\ v[3] = "1"
    OBVIOUS
  <2>2. IsAt(s, q, SubStartCode) <=> q + 2 <= Len(s) /\ t = v
    <3>1. q + Len(v) - 1 = q + 2 /\ SubStartCode = v
      BY DEF SubStartCode
    <3> HIDE DEF v
    <3>2. QED
      BY <3>1 DEF IsAt
  <2>3. ASSUME q + 2 <= Len(s)
        PROVE  t \in Seq(Bytes) /\ Len(t) = 3
               /\ t[1] = s[q] /\ t[2] = s[q + 1] /\ t[3] = s[q + 2]
    <3> DEFINE a == q - 1
               b == q + 2
    <3>1. a \in Nat /\ b \in Nat /\ a <= b /\ b <= Len(s) /\ b - a = 3 /\ a + 1 = q
          /\ a + 2 = q + 1 /\ a + 3 = q + 2
      BY <2>3
    <3>2. t = SubSeq(s, a + 1, b)
      BY <3>1
    <3> HIDE DEF a, b, t
    <3>3. t \in Seq(Bytes) /\ Len(t) = b - a /\ \A i \in 1..(b - a) : t[i] = s[a + i]
      <4>1. a \in Nat /\ b \in Nat /\ a <= b /\ b <= Len(s)
        BY <3>1
      <4>2. /\ SubSeq(s, a + 1, b) \in Seq(Bytes) /\ Len(SubSeq(s, a + 1, b)) = b - a
            /\ \A i \in 1..(b - a) : SubSeq(s, a + 1, b)[i] = s[a + i]
        BY <4>1, Slice1
      <4>3. QED
        BY <3>2, <4>2
    <3>4. Len(t) = 3 /\ t[1] = s[a + 1] /\ t[2] = s[a + 2] /\ t[3] = s[a + 3]
      BY <3>1, <3>3
    <3>5. QED
      BY <3>1, <3>3, <3>4
  <2> HIDE DEF t, v
  <2>4. ASSUME ShortAt(s, q) PROVE t = v
    <3>1. t \in Seq(Bytes \cup {"0", "1"}) /\ v \in Seq(Bytes \cup {"0", "1"}) /\ Len(t) = Len(v)
      BY <2>1, <2>3, <2>4 DEF ShortAt
    <3>2. t[1] = v[1] /\ t[2] = v[2] /\ t[3] = v[3]
      BY <2>1, <2>3, <2>4 DEF ShortAt
    <3>3. \A i \in 1..Len(t) : i = 1 \/ i = 2 \/ i = 3
      BY <2>1, <3>1
    <3>4. \A i \in 1..Len(t) : t[i] = v[i]
      BY <3>2, <3>3
    <3>5. QED
      BY <3>1, <3>4, SeqEqual
  <2>5. QED
    BY <2>1, <2>2, <2>3, <2>4 DEF ShortAt
<1>3. QED
  BY <1>1, <1>2 DEF CodeLen

\* A code that is in a slice as a whole is one of the sequence.
LEMMA CodeInSlice ==
    ASSUME NEW s \in Seq(Bytes), NEW a \in Nat, NEW b \in Nat, a <= b, b <= Len(s),
           NEW t \in 1..(b - a)
    PROVE  LET v == SubSeq(s, a + 1, b) IN
           /\ v[t] = s[a + t]
           /\ t + 3 <= b - a => (CodeAt(v, t) <=> CodeAt(s, a + t))
                                /\ (LongAt(v, t) <=> LongAt(s, a + t))
           /\ CodeAt(v, t) => CodeAt(s, a + t)
<1> DEFINE v == SubSeq(s, a + 1, b)
<1>1. v \in Seq(Bytes) /\ Len(v) = b - a /\ \A i \in 1..(b - a) : v[i] = s[a + i]
  BY Slice1
<1> HIDE DEF v
<1>2. t \in Nat /\ b - a \in Nat /\ Len(s) \in Nat
  OBVIOUS
<1>3. v[t] = s[a + t]
  BY <1>1
<1>4. t + 1 <= b - a => v[t + 1] = s[a + t + 1]
  <2>1. t + 1 <= b - a => t + 1 \in 1..(b - a) /\ a + (t + 1) = a + t + 1
    BY <1>2
  <2>2. QED
    BY <1>1, <2>1
<1>5. t + 2 <= b - a => v[t + 2] = s[a + t + 2]
  <2>1. t + 2 <= b - a => t + 2 \in 1..(b - a) /\ a + (t + 2) = a + t + 2
    BY <1>2
  <2>2. QED
    BY <1>1, <2>1
<1>6. t + 3 <= b - a => v[t + 3] = s[a + t + 3]
  <2>1. t + 3 <= b - a => t + 3 \in 1..(b - a) /\ a + (t + 3) = a + t + 3
    BY <1>2
  <2>2. QED
    BY <1>1, <2>1
<1>7. /\ t + 3 <= b - a => t + 2 <= b - a /\ t + 1 <= b - a /\ a + t + 3 <= Len(s)
      /\ t + 2 <= b - a => t + 1 <= b - a /\ a + t + 2 <= Len(s)
  BY <1>2
<1> DEFINE n == b - a
<1>8. Len(v) = n
  BY <1>1
<1> HIDE DEF n
<1>9. /\ LongAt(v, t) => LongAt(s, a + t)
      /\ ShortAt(v, t) => ShortAt(s, a + t)
      /\ t + 3 <= n => (LongAt(s, a + t) => LongAt(v, t)) /\ (ShortAt(s, a + t) => ShortAt(v, t))
  <2> USE <1>3, <1>4, <1>5, <1>6, <1>7, <1>8
  <2>1. LongAt(v, t) => LongAt(s, a + t)
    BY DEF LongAt, n
  <2>2. ShortAt(v, t) => ShortAt(s, a + t)
    BY DEF ShortAt, n
  <2>3. t + 3 <= n /\ LongAt(s, a + t) => LongAt(v, t)
    BY DEF LongAt, n
  <2>4. t + 3 <= n /\ ShortAt(s, a + t) => ShortAt(v, t)
    BY DEF ShortAt, n
  <2>5. QED
    BY <2>1, <2>2, <2>3, <2>4
<1>10. QED
  BY <1>3, <1>9 DEF CodeAt, n, v

-----------------------------------------------------------------------------
(* One unit for each buffer: where the reference cuts. *)

UnitData ==
    file \in Seq(Bytes) /\ heap \in Seq(Bytes) /\ Len(heap) = ReadLen - Min({ReadLen, Len(file)})

NalPlaces == {InFront} \cup Cuts

\* In what follows place u, up to y, no start code begins.
NoCode(u, y) == \A q \in (u + 1)..y : ~CodeAt(Seen, q)

LEMMA SeenIs ==
    ASSUME UnitData
    PROVE  /\ Seen \in Seq(Bytes) /\ Len(Seen) \in Nat /\ Len(Seen) = Len(file) + Len(heap)
           /\ Len(Seen) >= ReadLen /\ Len(Seen) > 4
           /\ InFront = IF LongAt(Seen, 1) THEN 4 ELSE 0
           /\ NalPlaces \in SUBSET Nat /\ IsFiniteSet(NalPlaces)
           /\ \A u \in NalPlaces : u <= Len(Seen) /\ InFront <= u /\ (u = 0 \/ Seen[u] = "1")
<1>1. Seen \in Seq(Bytes) /\ Len(Seen) = Len(file) + Len(heap) /\ Len(file) \in Nat /\ Len(heap) \in Nat
  BY DEF Seen, UnitData
<1>2. Len(Seen) >= ReadLen /\ Len(Seen) > 4 /\ Len(Seen) \in Nat
  <2> DEFINE l == Len(file)
  <2>1. l \in Nat /\ ReadLen \in Nat /\ ReadLen > 4
    BY <1>1, ReaderAssumption
  <2> HIDE DEF l
  <2>2. Min({ReadLen, l}) = IF ReadLen <= l THEN ReadLen ELSE l
    BY <2>1, MinOfTwo
  <2>3. Len(heap) = ReadLen - Min({ReadLen, l})
    BY DEF UnitData, l
  <2>4. Len(Seen) = l + Len(heap)
    BY <1>1 DEF l
  <2>5. QED
    BY <1>1, <2>1, <2>2, <2>3, <2>4
<1>3. InFront = (IF LongAt(Seen, 1) THEN 4 ELSE 0) /\ (LongAt(Seen, 1) => Seen[4] = "1")
  <2>1. 1 \in Nat \ {0}
    OBVIOUS
  <2>2. CodeLen(Seen, 1) = IF LongAt(Seen, 1) THEN 4 ELSE IF ShortAt(Seen, 1) THEN 3 ELSE 0
    BY <1>1, <2>1, CodeLenIs
  <2>3. CodeLen(Seen, 1) = 4 <=> LongAt(Seen, 1)
    BY <2>2
  <2>4. LongAt(Seen, 1) => Seen[4] = "1"
    BY DEF LongAt
  <2>5. QED
    BY <2>3, <2>4 DEF InFront
<1>4. \A m \in Cuts : m \in 3..Len(Seen) /\ InFront < m /\ Seen[m] = "1"
  BY <1>2, <1>3 DEF Cuts, CodeEnds
<1>5. InFront \in 0..4
  BY <1>3
<1>6. \A u \in NalPlaces : u \in 0..Len(Seen) /\ InFront <= u /\ (u = 0 \/ Seen[u] = "1")
  <2>1. CASE LongAt(Seen, 1)
    BY <1>2, <1>3, <1>4, <1>5, <2>1 DEF NalPlaces
  <2>2. CASE ~LongAt(Seen, 1)
    BY <1>2, <1>3, <1>4, <1>5, <2>2 DEF NalPlaces
  <2>3. QED
    BY <2>1, <2>2
<1>7. NalPlaces \in SUBSET (0..Len(Seen)) /\ IsFiniteSet(0..Len(Seen))
  BY <1>2, <1>6, FS_Interval
<1>8. IsFiniteSet(NalPlaces)
  BY <1>7, FS_Subset
<1>9. QED
  BY <1>1, <1>2, <1>3, <1>6, <1>8

\* The cuts behind a place are at codes that begin behind it.
LEMMA CutsAhead ==
    ASSUME UnitData, NEW u \in NalPlaces, NEW y \in Nat, NoCode(u, y)
    PROVE  \A m \in Cuts : u < m => y < CodeStart(m) /\ CodeStart(m) + 2 <= m
                                    /\ CodeStart(m) + 4 <= Len(Seen)
<1> SUFFICES ASSUME NEW m \in Cuts, u < m
             PROVE  y < CodeStart(m) /\ CodeStart(m) + 2 <= m /\ CodeStart(m) + 4 <= Len(Seen)
  OBVIOUS
<1> DEFINE st == CodeStart(m)
<1>1. /\ Len(Seen) \in Nat /\ u \in Nat /\ (u = 0 \/ Seen[u] = "1")
      /\ m \in 3..Len(Seen) /\ Seen[m] = "1" /\ Seen[m - 1] = "0" /\ Seen[m - 2] = "0"
      /\ st + 4 <= Len(Seen)
  BY SeenIs DEF Cuts, CodeEnds
<1>2. /\ st = IF m > 3 /\ Seen[m - 3] = "0" THEN m - 3 ELSE m - 2
  BY DEF CodeStart
<1> HIDE DEF st
<1>3. CASE m > 3 /\ Seen[m - 3] = "0"
  <2>1. st = m - 3 /\ st \in Nat \ {0} /\ st + 1 = m - 2 /\ st + 2 = m - 1 /\ st + 3 = m
    BY <1>1, <1>2, <1>3
  <2>2. LongAt(Seen, st)
    BY <1>1, <1>3, <2>1 DEF LongAt
  <2>3. u # m - 1 /\ u # m - 2 /\ u # m - 3
    BY <1>1, <1>3
  <2>4. u < st
    BY <1>1, <2>1, <2>3
  <2>5. ~(st <= y)
    BY <1>1, <2>1, <2>2, <2>4 DEF NoCode, CodeAt
  <2>6. QED
    BY <1>1, <2>1, <2>5 DEF st
<1>4. CASE ~(m > 3 /\ Seen[m - 3] = "0")
  <2>1. st = m - 2 /\ st \in Nat \ {0} /\ st + 1 = m - 1 /\ st + 2 = m
    <3>1. st = m - 2
      BY <1>2, <1>4
    <3>2. QED
      BY <1>1, <3>1
  <2>2. ShortAt(Seen, st)
    BY <1>1, <2>1 DEF ShortAt
  <2>3. u # m - 1 /\ u # m - 2
    BY <1>1
  <2>4. u < st
    BY <1>1, <2>1, <2>3
  <2>5. ~(st <= y)
    BY <1>1, <2>1, <2>2, <2>4 DEF NoCode, CodeAt
  <2>6. QED
    BY <1>1, <2>1, <2>5 DEF st
<1>5. QED
  BY <1>3, <1>4

\* A unit goes up to the next code with enough behind it.
LEMMA UnitUpTo ==
    ASSUME UnitData, NEW u \in NalPlaces, NEW g \in Nat, u < g, NoCode(u, g - 1),
           g + 4 <= Len(Seen), CodeAt(Seen, g)
    PROVE  LET i == IF LongAt(Seen, g) THEN g + 3 ELSE g + 2 IN
           /\ i \in NalPlaces /\ Before(NalPlaces, i) = Before(NalPlaces, u) + 1
           /\ NalUnits[Before(NalPlaces, u) + 1] = SubSeq(Seen, u + 1, g - 1)
<1> DEFINE i == IF LongAt(Seen, g) THEN g + 3 ELSE g + 2
           P == NalPlaces
           ends == [m \in P |-> CodeStart(m) - 1]
<1>1. /\ Seen \in Seq(Bytes) /\ Len(Seen) \in Nat /\ P \in SUBSET Nat /\ IsFiniteSet(P)
      /\ u \in Nat /\ InFront \in Nat /\ InFront <= u /\ (u = 0 \/ Seen[u] = "1")
  BY SeenIs DEF NalPlaces
<1>2. i \in 3..Len(Seen) /\ i > u /\ i > 2
  BY <1>1
<1>3. Seen[i] = "1" /\ Seen[i - 1] = "0" /\ Seen[i - 2] = "0" /\ CodeStart(i) = g
  <2>1. CASE LongAt(Seen, g)
    <3>1. i = g + 3 /\ i - 1 = g + 2 /\ i - 2 = g + 1 /\ i - 3 = g /\ i > 3
      BY <1>1, <2>1
    <3> HIDE DEF i
    <3>2. QED
      BY <2>1, <3>1 DEF LongAt, CodeStart
  <2>2. CASE ~LongAt(Seen, g)
    <3>1. i = g + 2 /\ i - 1 = g + 1 /\ i - 2 = g /\ i - 3 = g - 1 /\ ShortAt(Seen, g)
      BY <2>2 DEF CodeAt
    <3> HIDE DEF i
    <3>2. ASSUME i > 3, Seen[g - 1] = "0" PROVE FALSE
      <4>1. /\ (g - 1) + 1 = g /\ (g - 1) + 2 = g + 1 /\ (g - 1) + 3 = g + 2
            /\ g - 1 \in Nat \ {0}
        BY <3>1, <3>2
      <4>2. LongAt(Seen, g - 1)
        BY <3>1, <3>2, <4>1 DEF LongAt, ShortAt
      <4>3. u # g - 1
        BY <1>1, <3>2, <4>1
      <4>4. g - 1 \in (u + 1)..(g - 1)
        BY <1>1, <4>1, <4>3
      <4>5. QED
        BY <4>2, <4>4 DEF NoCode, CodeAt
    <3>3. CodeStart(i) = g
      BY <3>1, <3>2 DEF CodeStart
    <3>4. QED
      BY <3>1, <3>3 DEF ShortAt
  <2>3. QED
    BY <2>1, <2>2
<1>4. i \in P
  <2>1. i \in CodeEnds
    BY <1>2, <1>3 DEF CodeEnds
  <2>2. i > InFront
    <3> HIDE DEF i
    <3>1. QED
      BY <1>1, <1>2
  <2>3. QED
    BY <1>3, <2>1, <2>2 DEF Cuts, NalPlaces
<1>5. \A j \in P : j <= u \/ i <= j
  <2> SUFFICES ASSUME NEW j \in P, u < j, j < i PROVE FALSE
    BY <1>1, <1>2
  <2>1. j \in Cuts /\ j \in Nat
    BY <1>1 DEF NalPlaces
  <2>2. g - 1 \in Nat
    BY <1>1
  <2>3. g - 1 < CodeStart(j) /\ CodeStart(j) + 2 <= j
    BY <2>1, <2>2, CutsAhead
  <2>4. CodeStart(j) \in Int
    BY <2>1 DEF CodeStart
  <2>5. j >= g + 2
    BY <1>1, <2>1, <2>3, <2>4
  <2>6. LongAt(Seen, g) /\ j = g + 2
    BY <1>1, <2>1, <2>5
  <2>7. Seen[j] = "1"
    BY <2>1 DEF Cuts, CodeEnds
  <2>8. QED
    BY <2>6, <2>7 DEF LongAt
<1> HIDE DEF i
<1>6. /\ Before(P, i) = Before(P, u) + 1 /\ Behind(P, u) # {} /\ Min(Behind(P, u)) = i
  <2> HIDE DEF P
  <2>1. u \in P
    BY DEF P
  <2>2. i \in P /\ u < i /\ \A j \in P : j <= u \/ i <= j
    BY <1>1, <1>2, <1>4, <1>5
  <2>3. QED
    BY <1>1, <2>1, <2>2, NextPlace
<1>7. EndOfPart(Seen, ends, u) = g - 1
  <2>1. DOMAIN ends = P /\ ends[i] = CodeStart(i) - 1
    BY <1>4
  <2> HIDE DEF ends
  <2>2. QED
    BY <1>3, <1>6, <2>1 DEF EndOfPart
<1>8. NalUnits[Before(P, u) + 1] = SubSeq(Seen, u + 1, g - 1)
  <2>1. DOMAIN ends = P /\ NalUnits = Parts(Seen, ends)
    BY DEF NalUnits, NalPlaces
  <2> HIDE DEF ends, P
  <2>2. u \in P
    BY DEF P
  <2>3. Parts(Seen, ends)[Before(P, u) + 1] = SubSeq(Seen, u + 1, EndOfPart(Seen, ends, u))
    BY <1>1, <2>1, <2>2, PartBehind
  <2>4. QED
    BY <1>7, <2>1, <2>3
<1>9. QED
  BY <1>4, <1>6, <1>8 DEF i, P

\* The last unit goes up to the end.
LEMMA UnitAtEnd ==
    ASSUME UnitData, NEW u \in NalPlaces, NEW y \in Nat, NoCode(u, y), Len(Seen) < y + 5
    PROVE  /\ Before(NalPlaces, u) + 1 = Cardinality(NalPlaces)
           /\ NalUnits[Before(NalPlaces, u) + 1] = SubSeq(Seen, u + 1, Len(Seen))
<1> DEFINE P == NalPlaces
           ends == [m \in P |-> CodeStart(m) - 1]
<1>1. Len(Seen) \in Nat /\ P \in SUBSET Nat /\ IsFiniteSet(P) /\ u \in Nat /\ InFront <= u
      /\ InFront \in Nat
  BY SeenIs DEF NalPlaces
<1>2. Behind(P, u) = {}
  <2> SUFFICES ASSUME NEW j \in P, j > u PROVE FALSE
    BY DEF Behind
  <2>1. j \in Cuts /\ j \in Nat /\ u < j
    BY <1>1 DEF NalPlaces
  <2>2. y < CodeStart(j) /\ CodeStart(j) + 4 <= Len(Seen)
    BY <2>1, CutsAhead
  <2>3. CodeStart(j) \in Int
    BY <2>1 DEF CodeStart
  <2>4. QED
    BY <1>1, <2>2, <2>3
<1>3. Before(P, u) + 1 = Cardinality(P)
  <2> HIDE DEF P
  <2>1. u \in P
    BY DEF P
  <2>2. QED
    BY <1>1, <1>2, <2>1, NextPlace
<1>4. EndOfPart(Seen, ends, u) = Len(Seen)
  <2>1. DOMAIN ends = P
    OBVIOUS
  <2> HIDE DEF ends
  <2>2. QED
    BY <1>2, <2>1 DEF EndOfPart
<1>5. NalUnits[Before(P, u) + 1] = SubSeq(Seen, u + 1, Len(Seen))
  <2>1. DOMAIN ends = P /\ NalUnits = Parts(Seen, ends)
    BY DEF NalUnits, NalPlaces
  <2> HIDE DEF ends, P
  <2>2. u \in P
    BY DEF P
  <2>3. Parts(Seen, ends)[Before(P, u) + 1] = SubSeq(Seen, u + 1, EndOfPart(Seen, ends, u))
    BY <1>1, <2>1, <2>2, PartBehind
  <2>4. QED
    BY <1>4, <2>1, <2>3
<1>6. QED
  BY <1>3, <1>5
-----------------------------------------------------------------------------
(* One unit for each buffer: the invariant. *)

\* The code has read the file, and what the buffer held, up to here, and what is left in
\* the buffer begins there.
ReadUpTo == pos + Len(heap)
RemFrom  == ReadUpTo - Len(rem)

UnitTyped ==
    /\ UnitData /\ pos \in Nat /\ pos <= Len(file) /\ iseof \in BOOLEAN
    /\ out \in Seq(Packets)

UnitStart == pos = 0 /\ rem = <<>> /\ part = <<>> /\ out = <<>>

\* The unit behind place u is being put together, and no code is in what it has already.
UnitCut(u) ==
    /\ rem \in Seq(Bytes) /\ rem # <<>> /\ Len(rem) <= ReadUpTo
    /\ rem = SubSeq(Seen, RemFrom + 1, ReadUpTo)
    /\ heap # <<>> => pos = Len(file)
    /\ offset \in 0..Len(rem)
    /\ u <= RemFrom + offset /\ NoCode(u, RemFrom + offset)
    /\ part = SubSeq(Seen, u + 1, RemFrom + offset)
    /\ Len(out) = Before(NalPlaces, u)
    /\ \A k \in 1..Len(out) : out[k] = Packet(NalUnits[k], TRUE)

UnitEnded ==
    /\ Len(out) = Cardinality(NalPlaces)
    /\ \A k \in 1..Len(out) : out[k] = Packet(NalUnits[k], k < Cardinality(NalPlaces))

UnitInv ==
    mode = "unit" => /\ UnitTyped
                     /\ iseof => UnitEnded
                     /\ ~iseof => UnitStart \/ \E u \in NalPlaces : UnitCut(u)

\* Where the search stops, and what it has passed.
LEMMA StopIs ==
    ASSUME rem \in Seq(Bytes), offset \in 0..Len(rem)
    PROVE  /\ Stop \in (offset + 1)..(Len(rem) + 1)
           /\ \A t \in (offset + 1)..(Stop - 1) :
                 ~(rem[t] = "0" /\ (t > Len(rem) - 4 \/ CodeLen(rem, t) > 0))
           /\ Stop <= Len(rem) => rem[Stop] = "0" /\ (Stop > Len(rem) - 4 \/ CodeLen(rem, Stop) > 0)
<1> DEFINE n == Len(rem)
           Hit(t) == rem[t] = "0" /\ (t > n - 4 \/ CodeLen(rem, t) > 0)
           T == {t \in (offset + 1)..n : Hit(t)} \cup {n + 1}
<1>1. n \in Nat /\ offset \in Nat /\ offset <= n
  OBVIOUS
<1>2. Stop = Min(T)
  BY DEF Stop, TailLen
<1> HIDE DEF n, Hit
<1>3. T \in SUBSET Nat /\ T # {}
  BY <1>1
<1> HIDE DEF T
<1>4. Stop \in T /\ \A t \in T : Stop <= t
  BY <1>2, <1>3, MinOf
<1> USE DEF T
<1>5. Stop \in (offset + 1)..(n + 1) /\ (Stop <= n => Hit(Stop))
  BY <1>1, <1>4
<1>6. ASSUME NEW t \in (offset + 1)..(Stop - 1) PROVE ~Hit(t)
  <2>1. t \in (offset + 1)..n /\ ~(Stop <= t)
    BY <1>1, <1>5
  <2>2. QED
    BY <1>4, <2>1
<1>7. QED
  BY <1>5, <1>6 DEF Hit, n

\* One turn of the loop.
LEMMA UnitTurn ==
    ASSUME UnitTyped, NEW u \in NalPlaces, UnitCut(u)
    PROVE  LET b == RemFrom
               r == ReadUpTo
               n == Len(rem)
               g == b + Stop
           IN  /\ b \in Nat /\ r \in Nat /\ r <= Len(Seen) /\ n \in Nat /\ b + n = r
               /\ offset \in Nat /\ Stop \in Nat /\ offset < Stop /\ Stop <= n + 1
               /\ NoCode(u, g - 1)
               /\ Unit(Stop - 1) = SubSeq(Seen, u + 1, g - 1)
               /\ Unit(n) = SubSeq(Seen, u + 1, r)
               /\ AtTail => n < Stop + 4
               /\ ~AtTail => /\ Stop + 4 <= n /\ CodeAt(Seen, g)
                             /\ CodeLen(rem, Stop) = IF LongAt(Seen, g) THEN 4 ELSE 3
               /\ pos = Len(file) => r = Len(Seen)
<1> DEFINE b == RemFrom
           r == ReadUpTo
           n == Len(rem)
           x == b + offset
           j == Stop
           g == b + j
<1>1. /\ Seen \in Seq(Bytes) /\ Len(Seen) \in Nat /\ Len(Seen) = Len(file) + Len(heap)
      /\ u \in Nat /\ u <= Len(Seen)
  BY SeenIs DEF UnitTyped
<1>2. /\ Len(file) \in Nat /\ Len(heap) \in Nat /\ pos \in Nat /\ pos <= Len(file)
      /\ rem \in Seq(Bytes) /\ n \in Nat /\ n <= r /\ offset \in Nat /\ offset <= n
  BY DEF UnitTyped, UnitData, UnitCut
<1>3. b \in Nat /\ r \in Nat /\ r <= Len(Seen) /\ b + n = r /\ b <= r /\ r - b = n
  <2>1. r = pos + Len(heap) /\ b = r - n
    BY DEF ReadUpTo, RemFrom
  <2> HIDE DEF b, r, n
  <2>2. QED
    BY <1>1, <1>2, <2>1
<1>4. pos = Len(file) => r = Len(Seen)
  BY <1>1 DEF ReadUpTo
<1>5. rem = SubSeq(Seen, b + 1, r) /\ u <= x /\ NoCode(u, x) /\ part = SubSeq(Seen, u + 1, x)
  BY DEF UnitCut
<1>6. /\ j \in (offset + 1)..(n + 1)
      /\ \A t \in (offset + 1)..(j - 1) : ~(rem[t] = "0" /\ (t > n - 4 \/ CodeLen(rem, t) > 0))
      /\ j <= n => rem[j] = "0" /\ (j > n - 4 \/ CodeLen(rem, j) > 0)
  BY StopIs DEF UnitCut
<1>7. AtTail <=> j > n - 4
  BY DEF AtTail, TailLen
<1> HIDE DEF b, r, n, j
<1>8. j \in Nat /\ offset < j /\ j <= n + 1 /\ g \in Nat /\ x \in Nat /\ x < g
  BY <1>2, <1>3, <1>6
<1>9. ASSUME NEW t \in 1..n
      PROVE  /\ rem[t] = Seen[b + t]
             /\ t + 3 <= n => (CodeAt(rem, t) <=> CodeAt(Seen, b + t))
                              /\ (LongAt(rem, t) <=> LongAt(Seen, b + t))
             /\ CodeLen(rem, t) = IF LongAt(rem, t) THEN 4 ELSE IF ShortAt(rem, t) THEN 3 ELSE 0
  <2>1. t \in 1..(r - b) /\ t \in Nat \ {0}
    BY <1>3
  <2>2. LET v == SubSeq(Seen, b + 1, r) IN
        /\ v[t] = Seen[b + t]
        /\ t + 3 <= r - b => (CodeAt(v, t) <=> CodeAt(Seen, b + t))
                             /\ (LongAt(v, t) <=> LongAt(Seen, b + t))
    BY <1>1, <1>3, <2>1, CodeInSlice
  <2>3. CodeLen(rem, t) = IF LongAt(rem, t) THEN 4 ELSE IF ShortAt(rem, t) THEN 3 ELSE 0
    BY <1>2, <2>1, CodeLenIs
  <2>4. QED
    BY <1>3, <1>5, <2>2, <2>3
<1>10. ASSUME NEW t \in (offset + 1)..(j - 1) PROVE ~CodeAt(Seen, b + t)
  <2>1. t \in 1..n
    BY <1>2, <1>8
  <2>2. rem[t] = "0" => t + 3 <= n /\ ~(CodeLen(rem, t) > 0)
    BY <1>2, <1>6, <2>1
  <2>3. CASE rem[t] = "0"
    <3>1. ~LongAt(rem, t) /\ ~ShortAt(rem, t)
      BY <1>9, <2>1, <2>2, <2>3
    <3>2. QED
      BY <1>9, <2>1, <2>2, <2>3, <3>1 DEF CodeAt
  <2>4. CASE rem[t] # "0"
    BY <1>9, <2>1, <2>4 DEF CodeAt, LongAt, ShortAt
  <2>5. QED
    BY <2>3, <2>4
<1>11. NoCode(u, g - 1)
  <2> SUFFICES ASSUME NEW q \in (u + 1)..(g - 1) PROVE ~CodeAt(Seen, q)
    BY DEF NoCode
  <2>1. CASE q <= x
    <3>1. q \in (u + 1)..x
      BY <1>1, <1>8, <2>1
    <3> HIDE DEF x
    <3>2. QED
      BY <1>5, <3>1 DEF NoCode
  <2>2. CASE q > x
    <3> DEFINE t == q - b
    <3>1. t \in (offset + 1)..(j - 1) /\ b + t = q
      BY <1>1, <1>2, <1>3, <1>8, <2>2
    <3> HIDE DEF t
    <3>2. ~CodeAt(Seen, b + t)
      BY <1>10, <3>1
    <3>3. QED
      BY <3>1, <3>2
  <2>3. QED
    BY <1>1, <1>8, <2>1, <2>2
<1>12. ASSUME NEW e \in Nat, offset <= e, e <= n
       PROVE  part \o SubSeq(rem, offset + 1, e) = SubSeq(Seen, u + 1, b + e)
  <2>1. SubSeq(SubSeq(Seen, b + 1, r), offset + 1, e) = SubSeq(Seen, b + offset + 1, b + e)
    BY <1>1, <1>2, <1>3, <1>12, SliceOfSlice
  <2>2. SubSeq(rem, offset + 1, e) = SubSeq(Seen, x + 1, b + e)
    BY <1>5, <2>1
  <2> DEFINE y == b + e
  <2>3. y \in Nat /\ x <= y /\ y <= Len(Seen) /\ x \in Nat /\ u <= x
    BY <1>1, <1>2, <1>3, <1>5, <1>12
  <2> HIDE DEF x, y
  <2>4. SubSeq(Seen, u + 1, x) \o SubSeq(Seen, x + 1, y) = SubSeq(Seen, u + 1, y)
    BY <1>1, <2>3, SliceJoined
  <2>5. QED
    BY <1>5, <2>2, <2>4 DEF y
<1>13. Unit(j - 1) = SubSeq(Seen, u + 1, g - 1)
  <2> DEFINE e == j - 1
  <2>1. e \in Nat /\ offset <= e /\ e <= n /\ b + e = g - 1
    BY <1>2, <1>3, <1>8
  <2> HIDE DEF e
  <2>2. part \o SubSeq(rem, offset + 1, e) = SubSeq(Seen, u + 1, b + e)
    BY <1>12, <2>1
  <2>3. Unit(e) = SubSeq(Seen, u + 1, g - 1)
    BY <2>1, <2>2 DEF Unit
  <2>4. QED
    BY <2>3 DEF e
<1>14. Unit(n) = SubSeq(Seen, u + 1, r)
  <2>1. n \in Nat /\ offset <= n /\ n <= n
    BY <1>2
  <2>2. part \o SubSeq(rem, offset + 1, n) = SubSeq(Seen, u + 1, b + n)
    BY <1>12, <2>1
  <2>3. QED
    BY <1>3, <2>2 DEF Unit
<1>15. AtTail => n < j + 4
  BY <1>2, <1>7, <1>8
<1>16. ASSUME ~AtTail
       PROVE  /\ j + 4 <= n /\ CodeAt(Seen, g)
              /\ CodeLen(rem, j) = IF LongAt(Seen, g) THEN 4 ELSE 3
  <2>1. j + 4 <= n /\ j <= n /\ ~(j > n - 4) /\ j \in 1..n /\ j + 3 <= n
    BY <1>2, <1>7, <1>8, <1>16
  <2>2. CodeLen(rem, j) > 0
    BY <1>6, <2>1
  <2>3. CodeLen(rem, j) = IF LongAt(rem, j) THEN 4 ELSE IF ShortAt(rem, j) THEN 3 ELSE 0
    BY <1>9, <2>1
  <2>4. (CodeAt(rem, j) <=> CodeAt(Seen, g)) /\ (LongAt(rem, j) <=> LongAt(Seen, g))
    BY <1>9, <2>1
  <2>5. LongAt(rem, j) \/ ShortAt(rem, j)
    BY <2>2, <2>3
  <2>6. CodeLen(rem, j) = IF LongAt(rem, j) THEN 4 ELSE 3
    BY <2>3, <2>5
  <2>7. QED
    BY <2>1, <2>4, <2>5, <2>6 DEF CodeAt
<1>17. QED
  BY <1>2, <1>3, <1>4, <1>8, <1>11, <1>13, <1>14, <1>15, <1>16 DEF b, r, n, j

\* What is unchanged of the file leaves the reference as it is.
LEMMA SameUnits ==
    ASSUME UNCHANGED <<file, heap>>
    PROVE  /\ Seen' = Seen /\ InFront' = InFront /\ NalPlaces' = NalPlaces /\ NalUnits' = NalUnits
           /\ UnitData' <=> UnitData
<1>1. Seen' = Seen
  BY DEF Seen
<1>2. InFront' = InFront
  BY <1>1 DEF InFront
<1>3. Cuts' = Cuts
  BY <1>1, <1>2 DEF Cuts, CodeEnds, CodeStart
<1>4. NalPlaces' = NalPlaces
  BY <1>2, <1>3 DEF NalPlaces
<1>5. NalUnits' = NalUnits
  BY <1>1, <1>2, <1>3 DEF NalUnits, CodeStart
<1>6. UnitData' <=> UnitData
  BY DEF UnitData
<1>7. QED
  BY <1>1, <1>2, <1>4, <1>5, <1>6

LEMMA CutHolds ==
    ASSUME UNCHANGED <<file, heap>>, NEW v \in Nat, NEW b \in Nat, NEW r \in Nat, NEW x \in Nat,
           rem' \in Seq(Bytes), rem' # <<>>, pos' + Len(heap) = r, b + Len(rem') = r,
           rem' = SubSeq(Seen, b + 1, r), heap # <<>> => pos' = Len(file),
           offset' \in 0..Len(rem'), b + offset' = x, v <= x, NoCode(v, x),
           part' = SubSeq(Seen, v + 1, x), Len(out') = Before(NalPlaces, v),
           \A k \in 1..Len(out') : out'[k] = Packet(NalUnits[k], TRUE)
    PROVE  UnitCut(v)'
<1>1. Seen' = Seen /\ NalPlaces' = NalPlaces /\ NalUnits' = NalUnits
  BY SameUnits
<1>2. ReadUpTo' = r
  BY DEF ReadUpTo
<1>3. Len(rem') \in Nat
  OBVIOUS
<1>4. RemFrom' = b /\ Len(rem') <= r
  <2> DEFINE n == Len(rem')
  <2>1. n \in Nat /\ b + n = r
    BY <1>3
  <2>2. RemFrom' = r - n
    BY <1>2 DEF RemFrom
  <2> HIDE DEF n
  <2>3. b = r - n /\ n <= r
    BY <2>1
  <2>4. QED
    BY <2>2, <2>3 DEF n
<1>5. NoCode(v, x)' <=> NoCode(v, x)
  BY <1>1 DEF NoCode
<1>6. NoCode(v, RemFrom + offset)'
  BY <1>1, <1>4 DEF NoCode
<1>7. QED
  BY <1>1, <1>2, <1>4, <1>6, Zenon DEF UnitCut, Packet
LEMMA UnitInit == Init => UnitInv
<1> SUFFICES ASSUME Init, mode = "unit" PROVE UnitTyped /\ ~iseof /\ UnitStart
  BY DEF UnitInv
<1>1. file \in Seq(Bytes)
  <2>1. CASE preload
    <3>1. file = <<>>
      BY <2>1 DEF Init, Files
    <3>2. QED
      BY <3>1, EmptySeq
  <2>2. CASE ~preload
    <3>1. file \in BoundedSeq(Bytes, MaxBytes) \cup BoundedSeq({"0", "1"}, MaxLong)
      BY <2>2 DEF Init, Files
    <3>2. CASE file \in BoundedSeq(Bytes, MaxBytes)
      BY <3>2, BoundedIsSeq, ReaderAssumption
    <3>3. CASE file \in BoundedSeq({"0", "1"}, MaxLong)
      <4>1. file \in Seq({"0", "1"})
        BY <3>3, BoundedIsSeq, ReaderAssumption
      <4>2. {"0", "1"} \in SUBSET Bytes
        BY DEF Bytes
      <4>3. QED
        BY <4>1, <4>2
    <3>4. QED
      BY <3>1, <3>2, <3>3
  <2>3. QED
    BY <2>1, <2>2
<1>2. Len(file) \in Nat
  BY <1>1
<1>3. heap \in Seq(Bytes) /\ Len(heap) = ReadLen - Min({ReadLen, Len(file)})
  <2> DEFINE l == Len(file)
             h == ReadLen - Min({ReadLen, l})
  <2>1. heap \in [1..h -> Bytes]
    BY DEF Init
  <2>2. h \in Nat
    <3>1. l \in Nat /\ ReadLen \in Nat
      BY <1>2, ReaderAssumption
    <3> HIDE DEF l
    <3>2. Min({ReadLen, l}) = IF ReadLen <= l THEN ReadLen ELSE l
      BY <3>1, MinOfTwo
    <3>3. QED
      BY <3>1, <3>2
  <2> HIDE DEF h
  <2>3. heap \in Seq(Bytes) /\ Len(heap) = h
    BY <2>1, <2>2
  <2>4. QED
    BY <2>3 DEF h
<1>4. pos = 0
  <2>1. CASE preload
    <3>1. file = <<>> /\ pos = Len(file)
      BY <2>1 DEF Init, Files
    <3>2. QED
      BY <3>1, EmptySeq
  <2>2. CASE ~preload
    BY <2>2 DEF Init
  <2>3. QED
    BY <2>1, <2>2
<1>5. rem = <<>> /\ part = <<>> /\ out = <<>> /\ iseof = FALSE
  BY DEF Init
<1>6. UnitTyped
  <2>1. out \in Seq(Packets)
    BY <1>5, EmptySeq
  <2>2. pos \in Nat /\ pos <= Len(file)
    BY <1>2, <1>4
  <2>3. iseof \in BOOLEAN
    BY <1>5
  <2>4. QED
    BY <1>1, <1>3, <2>1, <2>2, <2>3 DEF UnitTyped, UnitData
<1>7. QED
  BY <1>4, <1>5, <1>6 DEF UnitStart

\* The first read, which fills the buffer or is taken to have.
LEMMA UnitFirst ==
    ASSUME UnitTyped, UnitStart, FirstRead, UNCHANGED <<file, heap>>
    PROVE  pos' \in Nat /\ pos' <= Len(file) /\ \E v \in NalPlaces : UnitCut(v)'
<1> DEFINE l == Len(file)
           h == Len(heap)
           e == Min({pos + ReadLen, l})
           d == SubSeq(file, pos + 1, e)
<1>1. /\ file \in Seq(Bytes) /\ heap \in Seq(Bytes) /\ l \in Nat /\ h \in Nat
      /\ ReadLen \in Nat /\ ReadLen > 4 /\ pos = 0
  BY ReaderAssumption DEF UnitTyped, UnitData, UnitStart
<1>2. /\ rem' = d \o heap /\ pos' = pos + Len(d) /\ UNCHANGED <<part, iseof, out>>
      /\ offset' = IF IsAt(rem', 1, StartCode) THEN 4 ELSE 0
  BY DEF FirstRead, NextRead
<1>3. e = (IF ReadLen <= l THEN ReadLen ELSE l) /\ h = ReadLen - e
  <2>1. pos + ReadLen = ReadLen
    BY <1>1
  <2>2. Min({ReadLen, l}) = IF ReadLen <= l THEN ReadLen ELSE l
    <3> HIDE DEF l
    <3>1. QED
      BY <1>1, MinOfTwo
  <2>3. h = ReadLen - Min({ReadLen, l})
    BY DEF UnitTyped, UnitData
  <2>4. QED
    BY <2>1, <2>2, <2>3
<1>4. d = SubSeq(file, 0 + 1, e) /\ 0 \in Nat
  BY <1>1
<1> HIDE DEF d, e
<1>5. e \in Nat /\ e <= l /\ (l < ReadLen => e = l) /\ (ReadLen <= l => e = ReadLen /\ h = 0)
  <2> HIDE DEF l, h
  <2>1. QED
    BY <1>1, <1>3
<1>6. d \in Seq(Bytes) /\ Len(d) = e
  <2>1. 0 <= e /\ e - 0 = e
    BY <1>5
  <2>2. SubSeq(file, 0 + 1, e) \in Seq(Bytes) /\ Len(SubSeq(file, 0 + 1, e)) = e - 0
    BY <1>1, <1>4, <1>5, <2>1, Slice1
  <2>3. QED
    BY <1>4, <2>1, <2>2
<1>7. pos' = e
  BY <1>1, <1>2, <1>5, <1>6
<1>8. /\ Seen = file \o heap /\ Seen \in Seq(Bytes) /\ Len(Seen) = l + h
  BY SeenIs DEF UnitTyped, Seen
<1> DEFINE r == e + h
<1>9. r \in Nat /\ r > 4 /\ r <= Len(Seen)
  <2> HIDE DEF l, h
  <2>1. QED
    BY <1>1, <1>3, <1>5, <1>8
<1>10. rem' = SubSeq(Seen, 0 + 1, r)
  <2>1. CASE ReadLen <= l
    <3>1. heap = <<>> /\ r = e
      BY <1>1, <1>5, <2>1, EmptySeq
    <3>2. Seen = file /\ rem' = d
      BY <1>1, <1>2, <1>6, <1>8, <3>1, ConcatEmptySeq
    <3>3. QED
      BY <1>4, <3>1, <3>2
  <2>2. CASE l < ReadLen
    <3>1. e = l /\ 0 + 1 = 1
      BY <1>5, <2>2
    <3>2. d = file
      BY <1>1, <1>4, <3>1, SubSeqFull
    <3>3. rem' = Seen /\ r = Len(Seen)
      BY <1>2, <1>8, <3>1, <3>2
    <3>4. SubSeq(Seen, 1, Len(Seen)) = Seen
      BY <1>8, SubSeqFull
    <3>5. QED
      BY <3>1, <3>3, <3>4
  <2>3. QED
    BY <1>1, <2>1, <2>2
<1> HIDE DEF r
<1>11. rem' \in Seq(Bytes) /\ Len(rem') = r /\ rem' # <<>>
  <2>1. 0 <= r /\ r - 0 = r /\ 0 \in Nat
    BY <1>9
  <2>2. SubSeq(Seen, 0 + 1, r) \in Seq(Bytes) /\ Len(SubSeq(Seen, 0 + 1, r)) = r - 0
    BY <1>8, <1>9, <2>1, Slice1
  <2>3. Len(rem') = r /\ rem' \in Seq(Bytes)
    BY <1>10, <2>1, <2>2
  <2>4. QED
    BY <1>9, <2>3, EmptySeq
<1>12. offset' = InFront /\ InFront \in 0..4
  <2>1. LongAt(rem', 1) <=> LongAt(Seen, 1)
    <3>1. 0 \in Nat /\ 0 <= r /\ 1 \in 1..(r - 0) /\ 1 + 3 <= r - 0 /\ 0 + 1 = 1
      BY <1>9
    <3>2. LET v == SubSeq(Seen, 0 + 1, r) IN
          1 + 3 <= r - 0 => (LongAt(v, 1) <=> LongAt(Seen, 0 + 1))
      BY <1>8, <1>9, <3>1, CodeInSlice
    <3>3. QED
      BY <1>10, <3>1, <3>2
  <2>2. 1 \in Nat \ {0}
    OBVIOUS
  <2>3. IsAt(rem', 1, StartCode) <=> LongAt(rem', 1)
    BY <1>11, <2>2, CodeLenIs
  <2>4. InFront = IF LongAt(Seen, 1) THEN 4 ELSE 0
    BY SeenIs DEF UnitTyped
  <2>5. QED
    BY <1>2, <2>1, <2>3, <2>4
<1>13. PICK v : v = InFront
  OBVIOUS
<1>14. v \in NalPlaces /\ v = offset'
  BY <1>12, <1>13 DEF NalPlaces
<1>14a. v \in Nat /\ v <= 4
  BY <1>12, <1>13
<1>15. NoCode(v, v)
  <2>1. (v + 1)..v = {}
    BY <1>14a
  <2>2. QED
    BY <2>1 DEF NoCode
<1>16. part' = SubSeq(Seen, v + 1, v)
  <2>1. part' = <<>>
    BY <1>2 DEF UnitStart
  <2>2. SubSeq(Seen, v + 1, v) = <<>>
    <3>1. v \in Int /\ v + 1 \in Int /\ v + 1 > v
      BY <1>14a
    <3>2. QED
      BY <3>1, SubSeqEmpty
  <2>3. QED
    BY <2>1, <2>2
<1>17. Len(out') = Before(NalPlaces, v) /\ \A k \in 1..Len(out') : out'[k] = Packet(NalUnits[k], TRUE)
  <2>1. Len(out') = 0
    BY <1>2, EmptySeq DEF UnitStart
  <2>2. \A j \in NalPlaces : ~(j < v)
    BY <1>13, <1>14a, SeenIs DEF UnitTyped
  <2>3. {j \in NalPlaces : j < v} = {}
    BY <2>2
  <2>4. Before(NalPlaces, v) = 0
    BY <2>3, FS_EmptySet DEF Before
  <2>5. QED
    BY <2>1, <2>4
<1>18. UnitCut(v)'
  <2>1. 0 \in Nat /\ pos' + Len(heap) = r /\ 0 + Len(rem') = r /\ 0 + offset' = v /\ v <= v
        /\ offset' \in 0..Len(rem')
    <3>1. pos' + Len(heap) = r
      BY <1>7 DEF r
    <3>2. 0 + Len(rem') = r
      BY <1>9, <1>11
    <3>3. v <= v /\ v \in 0..r /\ 0 + v = v
      BY <1>9, <1>14a
    <3>4. QED
      BY <1>11, <1>14, <3>1, <3>2, <3>3
  <2>2. heap # <<>> => pos' = Len(file)
    <3>1. CASE ReadLen <= l
      BY <1>1, <1>5, <3>1, EmptySeq
    <3>2. CASE l < ReadLen
      BY <1>5, <1>7, <3>2
    <3>3. QED
      BY <1>1, <3>1, <3>2
  <2>3. QED
    BY <1>9, <1>10, <1>11, <1>14a, <1>15, <1>16, <1>17, <2>1, <2>2, CutHolds
<1>19. QED
  BY <1>5, <1>7, <1>14, <1>18

\* A code ends the unit.
LEMMA UnitFound ==
    ASSUME UnitTyped, NEW u \in NalPlaces, UnitCut(u), FoundUnit, UNCHANGED <<file, heap>>
    PROVE  /\ out' \in Seq(Packets)
           /\ \E v \in NalPlaces : UnitCut(v)'
<1> DEFINE b == RemFrom
           r == ReadUpTo
           n == Len(rem)
           j == Stop
           g == b + j
           c == CodeLen(rem, j)
           S == Packets
           k == Before(NalPlaces, u)
<1>1. /\ ~AtTail /\ out' = Append(out, Packet(Unit(j - 1), TRUE)) /\ part' = <<>>
      /\ offset' = (j - 1) + c /\ UNCHANGED <<pos, rem, iseof>>
  <2>1. Stop - 1 + CodeLen(rem, Stop) = (j - 1) + c
    OBVIOUS
  <2>2. QED
    BY <2>1 DEF FoundUnit
<1>2. /\ b \in Nat /\ r \in Nat /\ r <= Len(Seen) /\ n \in Nat /\ b + n = r
      /\ offset \in Nat /\ j \in Nat /\ offset < j
      /\ NoCode(u, g - 1)
      /\ Unit(j - 1) = SubSeq(Seen, u + 1, g - 1)
      /\ j + 4 <= n /\ CodeAt(Seen, g)
      /\ c = IF LongAt(Seen, g) THEN 4 ELSE 3
  BY <1>1, UnitTurn
<1>3. Seen \in Seq(Bytes) /\ Len(Seen) \in Nat /\ u \in Nat /\ NalPlaces \in SUBSET Nat
      /\ IsFiniteSet(NalPlaces)
  BY SeenIs DEF UnitTyped
<1>4. /\ rem \in Seq(Bytes) /\ rem # <<>> /\ rem = SubSeq(Seen, b + 1, r)
      /\ heap # <<>> => pos = Len(file)
      /\ u <= b + offset /\ Len(out) = k /\ r = pos + Len(heap)
      /\ \A i \in 1..Len(out) : out[i] = Packet(NalUnits[i], TRUE)
  BY DEF UnitCut, ReadUpTo
<1> HIDE DEF b, r, n, j, c
<1>5. g \in Nat /\ u < g /\ g + 4 <= Len(Seen) /\ g - 1 \in Nat /\ u <= g - 1 /\ g - 1 <= Len(Seen)
  BY <1>2, <1>3, <1>4
<1> HIDE DEF g
<1>6. PICK v : v = IF LongAt(Seen, g) THEN g + 3 ELSE g + 2
  OBVIOUS
<1>7. /\ v \in NalPlaces /\ Before(NalPlaces, v) = k + 1
      /\ NalUnits[k + 1] = SubSeq(Seen, u + 1, g - 1)
  BY <1>2, <1>5, <1>6, UnitUpTo DEF UnitTyped
<1>8. v = b + offset' /\ v \in Nat /\ offset' \in 0..n
  <2>1. c \in 3..4 /\ v = (g + c) - 1 /\ c \in Nat
    BY <1>2, <1>5, <1>6
  <2>2. g = b + j
    BY DEF g
  <2>3. QED
    BY <1>1, <1>2, <2>1, <2>2
<1>9. NoCode(v, v)
  BY <1>8 DEF NoCode
<1>10. part' = SubSeq(Seen, v + 1, v)
  <2>1. SubSeq(Seen, v + 1, v) = <<>>
    BY <1>8, SubSeqEmpty
  <2>2. QED
    BY <1>1, <2>1
<1>11. k \in Nat
  BY <1>3, PlacesCounted
<1> HIDE DEF k
<1>12. /\ out' \in Seq(S) /\ Len(out') = k + 1
       /\ \A i \in 1..Len(out') : out'[i] = Packet(NalUnits[i], TRUE)
  <2> DEFINE p == Packet(SubSeq(Seen, u + 1, g - 1), TRUE)
  <2>1. p \in S
    <3>1. SubSeq(Seen, u + 1, g - 1) \in Seq(Bytes)
      <4> DEFINE y == g - 1
      <4> HIDE DEF y
      <4>1. y \in Nat /\ u <= y /\ y <= Len(Seen)
        BY <1>5 DEF y
      <4>2. SubSeq(Seen, u + 1, y) \in Seq(Bytes)
        BY <1>3, <4>1, Slice1
      <4>3. QED
        BY <4>2 DEF y
    <3> DEFINE d == SubSeq(Seen, u + 1, g - 1)
    <3> HIDE DEF d
    <3>2. d \in Seq(Bytes) /\ TRUE \in BOOLEAN
      BY <3>1 DEF d
    <3>3. Packet(d, TRUE) \in S
      BY <3>2 DEF Packet, Packets
    <3> HIDE DEF S
    <3>4. QED
      BY <3>3 DEF d
  <2>2. out \in Seq(S)
    BY DEF UnitTyped
  <2>3. out' = Append(out, p)
    BY <1>1, <1>2
  <2>4. p = Packet(NalUnits[k + 1], TRUE)
    BY <1>7
  <2> HIDE DEF p, S
  <2>5. /\ out' \in Seq(S) /\ Len(out') = k + 1 /\ out'[k + 1] = p
        /\ \A i \in 1..k : out'[i] = out[i]
    BY <1>4, <2>1, <2>2, <2>3
  <2>6. ASSUME NEW i \in 1..Len(out') PROVE out'[i] = Packet(NalUnits[i], TRUE)
    <3>1. i \in 1..k \/ i = k + 1
      BY <1>11, <2>5
    <3>2. QED
      BY <1>4, <2>4, <2>5, <3>1
  <2>7. QED
    BY <2>5, <2>6
<1>13. UnitCut(v)'
  <2>1. pos' + Len(heap) = r /\ b + Len(rem') = r /\ rem' = SubSeq(Seen, b + 1, r)
        /\ rem' \in Seq(Bytes) /\ rem' # <<>> /\ (heap # <<>> => pos' = Len(file))
        /\ offset' \in 0..Len(rem') /\ b + offset' = v /\ v <= v
    <3>1. Len(rem') = n /\ n = Len(rem)
      BY <1>1 DEF n
    <3>2. v \in Nat
      BY <1>8
    <3>3. v <= v
      BY <3>2
    <3>4. b + n = r /\ b + offset' = v /\ offset' \in 0..n
      BY <1>2, <1>8
    <3>5. pos' + Len(heap) = r /\ (heap # <<>> => pos' = Len(file)) /\ rem' = rem
      BY <1>1, <1>4
    <3>6. QED
      BY <1>4, <3>1, <3>3, <3>4, <3>5
  <2>2. Len(out') = Before(NalPlaces, v)
    BY <1>7, <1>12
  <2>3. v \in Nat
    BY <1>8
  <2>4. b \in Nat /\ r \in Nat
    BY <1>2
  <2>5. \A i \in 1..Len(out') : out'[i] = Packet(NalUnits[i], TRUE)
    BY <1>12
  <2>6. QED
    BY <1>9, <1>10, <2>1, <2>2, <2>3, <2>4, <2>5, CutHolds
<1>14. QED
  BY <1>7, <1>12, <1>13

\* No code is found, and more is read.
LEMMA UnitOn ==
    ASSUME UnitTyped, NEW u \in NalPlaces, UnitCut(u), ReadOn, UNCHANGED <<file, heap>>
    PROVE  pos' \in Nat /\ pos' <= Len(file) /\ UnitCut(u)'
<1> DEFINE b == RemFrom
           r == ReadUpTo
           n == Len(rem)
           j == Stop
           g == b + j
           y == g - 1
           l == Len(file)
           e == Min({pos + ReadLen, l})
           d == SubSeq(file, pos + 1, e)
           t == SubSeq(rem, j, n)
<1>1. /\ pos < l /\ part' = Unit(j - 1) /\ rem' = t \o d /\ offset' = 0
      /\ pos' = pos + Len(d) /\ UNCHANGED <<iseof, out>>
  BY DEF ReadOn, NextRead
<1>2. /\ b \in Nat /\ r \in Nat /\ r <= Len(Seen) /\ n \in Nat /\ b + n = r
      /\ offset \in Nat /\ j \in Nat /\ offset < j /\ j <= n + 1
      /\ NoCode(u, g - 1)
      /\ Unit(j - 1) = SubSeq(Seen, u + 1, g - 1)
  BY UnitTurn
<1>3. /\ Seen \in Seq(Bytes) /\ Len(Seen) \in Nat /\ u \in Nat
  BY SeenIs DEF UnitTyped
<1>4. /\ rem \in Seq(Bytes) /\ rem = SubSeq(Seen, b + 1, r)
      /\ heap # <<>> => pos = Len(file)
      /\ u <= b + offset /\ Len(out) = Before(NalPlaces, u) /\ r = pos + Len(heap)
      /\ \A i \in 1..Len(out) : out[i] = Packet(NalUnits[i], TRUE)
  BY DEF UnitCut, ReadUpTo
<1>5. /\ file \in Seq(Bytes) /\ heap \in Seq(Bytes) /\ l \in Nat /\ pos \in Nat
      /\ ReadLen \in Nat /\ ReadLen > 4
  BY ReaderAssumption DEF UnitTyped, UnitData
<1>6. heap = <<>> /\ Len(heap) = 0 /\ Seen = file /\ r = pos
  <2>1. heap = <<>>
    BY <1>1, <1>4, <1>5
  <2>2. Len(heap) = 0
    BY <2>1
  <2>3. Seen = file
    BY <1>5, <2>1, ConcatEmptySeq DEF Seen
  <2>4. QED
    BY <1>4, <1>5, <2>1, <2>2, <2>3
<1> HIDE DEF b, r, n, j
<1>7. y \in Nat /\ u <= y /\ b <= y /\ y <= r /\ y = b + (j - 1)
  BY <1>2, <1>3, <1>4
<1>8. e \in Nat /\ pos < e /\ e <= l
  <2> DEFINE q == pos + ReadLen
  <2>1. q \in Nat /\ pos < q
    BY <1>5
  <2> HIDE DEF q, l
  <2>2. Min({q, l}) = IF q <= l THEN q ELSE l
    BY <1>5, <2>1, MinOfTwo
  <2>3. Min({q, l}) \in Nat /\ pos < Min({q, l}) /\ Min({q, l}) <= l
    BY <1>1, <1>5, <2>1, <2>2
  <2>4. QED
    BY <2>3 DEF q
<1>9. t = SubSeq(Seen, y + 1, pos)
  <2> DEFINE i == j - 1
  <2>1. i \in Nat /\ i + 1 = j /\ i <= n /\ n <= r - b /\ b <= r /\ b + i = y /\ b + n = pos
    BY <1>2, <1>6, <1>7
  <2> HIDE DEF i
  <2>2. SubSeq(SubSeq(Seen, b + 1, r), i + 1, n) = SubSeq(Seen, b + i + 1, b + n)
    BY <1>2, <1>3, <2>1, SliceOfSlice
  <2>3. QED
    BY <1>4, <2>1, <2>2
<1> HIDE DEF t, y, e, l
<1>10. d = SubSeq(Seen, pos + 1, e) /\ Len(d) = e - pos /\ pos <= e /\ e <= Len(Seen)
  <2>1. pos <= e /\ e <= Len(Seen)
    BY <1>5, <1>6, <1>8 DEF l
  <2>2. Len(SubSeq(Seen, pos + 1, e)) = e - pos
    BY <1>3, <1>5, <1>8, <2>1, Slice1
  <2>3. QED
    BY <1>6, <2>1, <2>2
<1> HIDE DEF d
<1>11. rem' = SubSeq(Seen, y + 1, e)
  <2>1. y \in Nat /\ pos \in Nat /\ e \in Nat /\ y <= pos
    BY <1>5, <1>6, <1>7, <1>8
  <2>2. SubSeq(Seen, y + 1, pos) \o SubSeq(Seen, pos + 1, e) = SubSeq(Seen, y + 1, e)
    BY <1>3, <1>10, <2>1, SliceJoined
  <2>3. QED
    BY <1>1, <1>9, <1>10, <2>2
<1>12. pos' = e
  BY <1>1, <1>5, <1>8, <1>10
<1>13. y < e /\ rem' \in Seq(Bytes) /\ Len(rem') = e - y /\ rem' # <<>>
  <2>1. y < e /\ y <= e
    BY <1>5, <1>6, <1>7, <1>8
  <2>2. SubSeq(Seen, y + 1, e) \in Seq(Bytes) /\ Len(SubSeq(Seen, y + 1, e)) = e - y
    BY <1>3, <1>7, <1>8, <1>10, <2>1, Slice1
  <2>3. Len(rem') = e - y /\ rem' \in Seq(Bytes)
    BY <1>11, <2>2
  <2>4. Len(rem') # 0
    BY <1>7, <1>8, <2>1, <2>3
  <2>5. QED
    BY <2>1, <2>3, <2>4, EmptySeq
<1>14. part' = SubSeq(Seen, u + 1, y) /\ NoCode(u, y)
  BY <1>1, <1>2 DEF y
<1>15. UnitCut(u)'
  <2>1. pos' + Len(heap) = e /\ y + Len(rem') = e /\ y + offset' = y
        /\ offset' \in 0..Len(rem') /\ (heap # <<>> => pos' = Len(file))
    BY <1>1, <1>6, <1>7, <1>8, <1>12, <1>13
  <2>2. Len(out') = Before(NalPlaces, u) /\ \A i \in 1..Len(out') : out'[i] = Packet(NalUnits[i], TRUE)
    BY <1>1, <1>4
  <2>3. QED
    BY <1>3, <1>7, <1>8, <1>11, <1>13, <1>14, <2>1, <2>2, CutHolds
<1>16. QED
  BY <1>8, <1>12, <1>15 DEF l

\* At the end of the file what is left is the last unit.
LEMMA UnitLast ==
    ASSUME UnitTyped, NEW u \in NalPlaces, UnitCut(u), LastUnit, UNCHANGED <<file, heap>>
    PROVE  out' \in Seq(Packets) /\ UnitEnded'
<1> DEFINE b == RemFrom
           r == ReadUpTo
           n == Len(rem)
           j == Stop
           y == b + j - 1
           l == Len(Seen)
           S == Packets
           k == Before(NalPlaces, u)
           c == Cardinality(NalPlaces)
<1>1. /\ AtTail /\ pos = Len(file) /\ out' = Append(out, Packet(Unit(n), FALSE))
  BY DEF LastUnit
<1>2. /\ b \in Nat /\ r = l /\ n \in Nat /\ b + n = r
      /\ j \in Nat /\ offset \in Nat /\ offset < j
      /\ NoCode(u, y) /\ n < j + 4
      /\ Unit(n) = SubSeq(Seen, u + 1, r)
  <2>1. b + j - 1 = y
    OBVIOUS
  <2>2. QED
    BY <1>1, <2>1, UnitTurn
<1>3. /\ Seen \in Seq(Bytes) /\ l \in Nat /\ u \in Nat /\ u <= l /\ NalPlaces \in SUBSET Nat
      /\ IsFiniteSet(NalPlaces)
  BY SeenIs DEF UnitTyped
<1>4. Len(out) = k /\ \A i \in 1..Len(out) : out[i] = Packet(NalUnits[i], TRUE)
  BY DEF UnitCut
<1>5. k \in Nat /\ c \in Nat
  BY <1>3, PlacesCounted
<1>6. k + 1 = c /\ NalUnits[k + 1] = SubSeq(Seen, u + 1, l)
  <2> HIDE DEF b, r, n, j
  <2>1. y \in Nat /\ Len(Seen) < y + 5
    <3> HIDE DEF l
    <3>1. y \in Nat /\ l < y + 5
      BY <1>2
    <3>2. QED
      BY <3>1 DEF l
  <2> HIDE DEF y
  <2>2. QED
    BY <1>2, <2>1, UnitAtEnd DEF UnitTyped
<1> HIDE DEF k, c, b, r, n, j, l
<1>7. /\ out' \in Seq(S) /\ Len(out') = c
      /\ \A i \in 1..Len(out') : out'[i] = Packet(NalUnits[i], i < c)
  <2> DEFINE p == Packet(SubSeq(Seen, u + 1, l), FALSE)
  <2>1. p \in S
    <3> DEFINE d == SubSeq(Seen, u + 1, l)
    <3>1. d \in Seq(Bytes)
      BY <1>3, Slice1 DEF l
    <3> HIDE DEF d
    <3>2. d \in Seq(Bytes) /\ FALSE \in BOOLEAN
      BY <3>1
    <3>3. Packet(d, FALSE) \in S
      BY <3>2 DEF Packet, Packets
    <3> HIDE DEF S
    <3>4. QED
      BY <3>3 DEF d
  <2>2. out \in Seq(S)
    BY DEF UnitTyped
  <2>3. out' = Append(out, p)
    BY <1>1, <1>2
  <2>4. p = Packet(NalUnits[k + 1], FALSE)
    BY <1>6
  <2> HIDE DEF p, S
  <2>5. /\ out' \in Seq(S) /\ Len(out') = k + 1 /\ out'[k + 1] = p
        /\ \A i \in 1..k : out'[i] = out[i]
    BY <1>4, <2>1, <2>2, <2>3
  <2>6. ASSUME NEW i \in 1..Len(out') PROVE out'[i] = Packet(NalUnits[i], i < c)
    <3>1. CASE i \in 1..k
      <4>1. (i < c) = TRUE
        BY <1>5, <1>6, <3>1
      <4>2. QED
        BY <1>4, <2>5, <3>1, <4>1
    <3>2. CASE i = k + 1
      <4>1. (i < c) = FALSE
        BY <1>5, <1>6, <3>2
      <4>2. QED
        BY <2>4, <2>5, <3>2, <4>1
    <3>3. QED
      BY <1>5, <2>5, <3>1, <3>2
  <2>7. QED
    BY <1>6, <2>5, <2>6
<1>8. UnitEnded'
  <2>1. NalPlaces' = NalPlaces /\ NalUnits' = NalUnits
    BY SameUnits
  <2>2. QED
    BY <1>7, <2>1 DEF UnitEnded, c, Packet
<1>9. QED
  BY <1>7, <1>8
LEMMA UnitStep == UnitInv /\ [Next]_vars => UnitInv'
<1> SUFFICES ASSUME UnitInv, [Next]_vars, mode' = "unit"
             PROVE  /\ UnitTyped' /\ (iseof => UnitEnded)'
                    /\ ~iseof' => UnitStart' \/ (\E u \in NalPlaces : UnitCut(u))'
  BY DEF UnitInv
<1>1. mode = "unit" /\ UNCHANGED <<mode, preload, file, heap>>
  BY DEF Next, Prepare, PrepareFrame, PrepareUnit, PrepareRaw, PrepareAgain, Done, vars, config
<1>2. /\ UnitTyped /\ (iseof => UnitEnded)
      /\ ~iseof => UnitStart \/ \E u \in NalPlaces : UnitCut(u)
  BY <1>1 DEF UnitInv
<1>3. /\ Seen' = Seen /\ InFront' = InFront /\ NalPlaces' = NalPlaces /\ NalUnits' = NalUnits
      /\ UnitData' <=> UnitData
  BY <1>1, SameUnits
<1>4. CASE UNCHANGED vars
  <2>1. UNCHANGED <<pos, rem, offset, part, iseof, out, file, heap>>
    BY <1>4 DEF vars, config, reading
  <2>2. UnitTyped' <=> UnitTyped
    BY <1>3, <2>1 DEF UnitTyped
  <2>3. UnitEnded' <=> UnitEnded
    BY <1>3, <2>1 DEF UnitEnded
  <2>4. UnitStart' <=> UnitStart
    BY <2>1 DEF UnitStart
  <2>5. \A u : UnitCut(u)' <=> UnitCut(u)
    BY <1>3, <2>1 DEF UnitCut, NoCode, ReadUpTo, RemFrom
  <2>6. (\E u \in NalPlaces : UnitCut(u))' <=> \E u \in NalPlaces : UnitCut(u)
    BY <1>3, <2>5
  <2>7. QED
    BY <1>2, <2>1, <2>2, <2>3, <2>4, <2>6
<1>5. CASE PrepareUnit
  <2>1. ~iseof /\ (FirstRead \/ FoundUnit \/ ReadOn \/ LastUnit)
    BY <1>5 DEF PrepareUnit
  <2>2. UnitData' /\ out \in Seq(Packets) /\ pos \in Nat /\ pos <= Len(file) /\ iseof = FALSE
    BY <1>2, <1>3, <2>1 DEF UnitTyped
  \* On the way.
  <2>3. ASSUME pos' \in Nat, pos' <= Len(file), out' \in Seq(Packets), iseof' = iseof,
               NEW v \in NalPlaces, UnitCut(v)'
        PROVE  /\ UnitTyped' /\ (iseof => UnitEnded)'
               /\ ~iseof' => UnitStart' \/ (\E u \in NalPlaces : UnitCut(u))'
    <3>1. UnitTyped'
      BY <1>1, <2>2, <2>3 DEF UnitTyped
    <3>2. (\E u \in NalPlaces : UnitCut(u))'
      BY <1>3, <2>3
    <3>3. QED
      BY <2>2, <2>3, <3>1, <3>2
  <2>4. CASE FirstRead
    <3>1. UnitStart
      BY <1>2, <2>1, <2>4 DEF FirstRead, UnitCut
    <3>2. /\ pos' \in Nat /\ pos' <= Len(file)
          /\ \E v \in NalPlaces : UnitCut(v)'
      BY <1>1, <1>2, <2>4, <3>1, UnitFirst
    <3>3. out' = out /\ iseof' = iseof
      BY <2>4 DEF FirstRead
    <3>4. QED
      BY <2>2, <2>3, <3>2, <3>3
  <2>5. CASE FoundUnit
    <3>1. PICK u \in NalPlaces : UnitCut(u)
      BY <1>2, <2>1, <2>5 DEF FoundUnit, UnitStart
    <3>2. out' \in Seq(Packets) /\ \E v \in NalPlaces : UnitCut(v)'
      BY <1>1, <1>2, <2>5, <3>1, UnitFound
    <3>3. pos' = pos /\ iseof' = iseof
      BY <2>5 DEF FoundUnit
    <3>4. QED
      BY <2>2, <2>3, <3>2, <3>3
  <2>6. CASE ReadOn
    <3>1. PICK u \in NalPlaces : UnitCut(u)
      BY <1>2, <2>1, <2>6 DEF ReadOn, UnitStart
    <3>2. pos' \in Nat /\ pos' <= Len(file) /\ UnitCut(u)'
      BY <1>1, <1>2, <2>6, <3>1, UnitOn
    <3>3. out' = out /\ iseof' = iseof
      BY <2>6 DEF ReadOn
    <3>4. QED
      BY <2>2, <2>3, <3>1, <3>2, <3>3
  <2>7. CASE LastUnit
    <3>1. PICK u \in NalPlaces : UnitCut(u)
      BY <1>2, <2>1, <2>7 DEF LastUnit, UnitStart
    <3>2. out' \in Seq(Packets) /\ UnitEnded'
      BY <1>1, <1>2, <2>7, <3>1, UnitLast
    <3>3. pos' = pos /\ iseof' = TRUE
      BY <2>7 DEF LastUnit
    <3>4. UnitTyped'
      BY <1>1, <2>2, <3>2, <3>3 DEF UnitTyped
    <3>5. QED
      BY <3>2, <3>3, <3>4
  <2>8. QED
    BY <2>1, <2>4, <2>5, <2>6, <2>7
<1>6. QED
  BY <1>1, <1>4, <1>5 DEF Next, Prepare, PrepareFrame, PrepareRaw, PrepareAgain, Done

LEMMA UnitsInOrder == UnitInv => OneUnitEach
<1> SUFFICES ASSUME UnitInv, mode = "unit"
             PROVE  /\ Len(out) <= Len(NalUnits)
                    /\ \A k \in DOMAIN out : out[k] = Packet(NalUnits[k], k < Len(NalUnits))
                    /\ iseof => Len(out) = Len(NalUnits)
  BY DEF OneUnitEach
<1> DEFINE c == Cardinality(NalPlaces)
<1>1. UnitTyped /\ NalPlaces \in SUBSET Nat /\ IsFiniteSet(NalPlaces) /\ InFront \in NalPlaces
  BY SeenIs DEF UnitInv, UnitTyped, NalPlaces
<1>2. c \in Nat
  BY <1>1, FS_CardinalityType
<1>3. Len(NalUnits) = c
  <2> DEFINE ends == [m \in NalPlaces |-> CodeStart(m) - 1]
  <2>1. NalUnits = Parts(Seen, ends) /\ DOMAIN ends = NalPlaces
    BY DEF NalUnits, NalPlaces
  <2> HIDE DEF ends
  <2>2. DOMAIN NalUnits = 1..c
    BY <2>1 DEF Parts
  <2>3. QED
    BY <1>2, <2>2
<1>4. Len(out) \in Nat /\ DOMAIN out = 1..Len(out) /\ iseof \in BOOLEAN
  BY <1>1 DEF UnitTyped
<1>5. CASE iseof
  <2>1. Len(out) = c /\ \A k \in 1..Len(out) : out[k] = Packet(NalUnits[k], k < c)
    BY <1>5 DEF UnitInv, UnitEnded
  <2> HIDE DEF c
  <2>2. QED
    BY <1>2, <1>3, <1>4, <2>1
<1>6. CASE ~iseof /\ UnitStart
  <2>1. Len(out) = 0
    BY <1>6, EmptySeq DEF UnitStart
  <2> HIDE DEF c
  <2>2. QED
    BY <1>2, <1>3, <1>4, <1>6, <2>1
<1>7. CASE ~iseof /\ \E u \in NalPlaces : UnitCut(u)
  <2>1. PICK u \in NalPlaces : UnitCut(u)
    BY <1>7
  <2>2. Before(NalPlaces, u) \in Nat /\ Before(NalPlaces, u) + 1 \in 1..c
    BY <1>1, PlacesCounted
  <2>3. Len(out) = Before(NalPlaces, u) /\ \A k \in 1..Len(out) : out[k] = Packet(NalUnits[k], TRUE)
    BY <2>1 DEF UnitCut
  <2> HIDE DEF c
  <2>4. Len(out) < c
    BY <1>2, <2>2, <2>3
  <2>5. ASSUME NEW k \in DOMAIN out PROVE out[k] = Packet(NalUnits[k], k < c)
    <3>1. k \in 1..Len(out) /\ (k < c) = TRUE
      BY <1>2, <1>4, <2>4
    <3>2. QED
      BY <2>3, <3>1
  <2>6. Len(out) <= Len(NalUnits)
    BY <1>2, <1>3, <1>4, <2>4
  <2>7. \A k \in DOMAIN out : out[k] = Packet(NalUnits[k], k < Len(NalUnits))
    BY <1>3, <2>5
  <2>8. QED
    BY <1>7, <2>6, <2>7
<1>8. QED
  BY <1>4, <1>5, <1>6, <1>7 DEF UnitInv

-----------------------------------------------------------------------------
(* The results. *)

THEOREM Invariant == Spec => [](FrameInv /\ RawInv /\ UnitInv)
<1>1. Init => FrameInv /\ RawInv /\ UnitInv
  BY FrameInit, RawInit, UnitInit
<1>2. (FrameInv /\ RawInv /\ UnitInv) /\ [Next]_vars => (FrameInv /\ RawInv /\ UnitInv)'
  BY FrameStep, RawStep, UnitStep
<1>3. QED
  BY <1>1, <1>2, PTL DEF Spec

\* For every file, every length of the buffer and every way the reads cut the stream: each
\* buffer that InputFile::prepare hands out has exactly one frame or other unit, and they
\* come in the order of the file.
THEOREM OneFrameEachCorrect == Spec => []OneFrameEach
<1>1. FrameInv => OneFrameEach
  BY CutInOrder, EndedInOrder DEF FrameInv, OneFrameEach
<1>2. QED
  BY <1>1, Invariant, PTL

\* No part of a file is missing when prepare reports its end: neither a frame nor, of a raw
\* file, a byte; and a preloaded raw file comes again and again in the same pieces.
THEOREM NothingLostCorrect == Spec => []NothingLost
<1>1. FrameInv /\ RawInv => NothingLost
  <2> SUFFICES ASSUME FrameInv, RawInv PROVE NothingLost
    OBVIOUS
  <2>1. mode = "frame" /\ iseof => Sent = Units
    BY DEF FrameInv, FrameEnded
  <2>2. ASSUME mode = "raw"
        PROVE  /\ \A k \in DOMAIN out : out[k] = Packet(Piece(k), TRUE)
               /\ iseof => PlaceOf(Len(out)) <= Len(file) /\ Len(file) < PlaceOf(Len(out) + 1)
    <3>1. RawTyped /\ RawPlace /\ \A k \in 1..Len(out) : out[k] = Packet(Piece(k), TRUE)
      BY <2>2 DEF RawInv
    <3>2. DOMAIN out = 1..Len(out)
      BY <3>1 DEF RawTyped
    <3>3. QED
      BY <3>1, <3>2 DEF RawPlace
  <2>3. QED
    BY <2>1, <2>2 DEF NothingLost
<1>2. QED
  BY <1>1, Invariant, PTL

\* The buffer that prepare hands out as it was is the last one of a file that ends in no
\* slice, and no other.
THEOREM StaleOnlyAtEndCorrect == Spec => []StaleOnlyAtEnd
<1>1. FrameInv => StaleOnlyAtEnd
  BY DEF FrameInv, StaleOnlyAtEnd, FrameEnded, LastIsNoSlice
<1>2. QED
  BY <1>1, Invariant, PTL

\* Whichever bytes of a start code a read cuts: each buffer has exactly one unit, says how
\* long it is unless it is the last one, and at the end there is one for each unit.
THEOREM OneUnitEachCorrect == Spec => []OneUnitEach
<1>1. UnitInv => OneUnitEach
  BY UnitsInOrder
<1>2. QED
  BY <1>1, Invariant, PTL
=============================================================================
