---------------------------- MODULE BloomdProofs ----------------------------
(***************************************************************************)
(* The proofs about pack.c and about khash.h, the table that its parsers   *)
(* file their keys in.                                                     *)
(*                                                                         *)
(* Pack: texts of any lines and any number of parts, the split, the calls  *)
(* of parser that share the text, and their buffers of keys.  The          *)
(* positions of lines and the lengths of buffers are defined by recursion  *)
(* over the text.  Induction is used as a fact about sets of numbers       *)
(* (Induct), which follows from their being well-founded.                  *)
(*                                                                         *)
(* The bounds of a part are the first line end it would find in a whole    *)
(* text, and that of the next part; as search positions rise, the bounds   *)
(* do, so that no position has two parts and every one has a part.  This   *)
(* takes that the places of the parts fit into an unsigned int (NoWrap).   *)
(* IInv says where the keys come from, Territory where the searches are.   *)
(*                                                                         *)
(* KHash: tables of any power of two of buckets, any keys and any hashes.  *)
(* The triangular numbers up to n differ modulo n when n is a power of     *)
(* two, so that a search comes to every bucket, and to an empty one when   *)
(* there is one.  TableInv says that there is one and that every key is    *)
(* where a search for it comes first; RehashInv is the account of the      *)
(* entries between the turns of a rehashing.  The map follows from what    *)
(* each operation does to the set of the entries.                          *)
(***************************************************************************)
EXTENDS Pack, KHash, FiniteSetTheorems, FunctionTheorems, WellFoundedInduction, TLAPS

-----------------------------------------------------------------------------
(* Induction over the natural numbers, as a property of sets of them. *)

LEMMA Least ==
    ASSUME NEW T, T \subseteq Nat, T # {}
    PROVE  \E x \in T : \A y \in T : x <= y
<1>1. PICK x \in T : \A y \in T : ~ (<<y, x>> \in OpToRel(<, Nat))
  BY NatLessThanWellFounded, WFMin
<1>2. ASSUME NEW y \in T PROVE x <= y
  <2>1. ~ (<<y, x>> \in OpToRel(<, Nat))
    BY <1>1
  <2>2. ~ (y < x)
    BY <2>1 DEF OpToRel
  <2> QED
    BY <2>2
<1> QED
  BY <1>2

LEMMA Induct ==
    ASSUME NEW T, T \subseteq Nat, 0 \in T, \A n \in T : n + 1 \in T
    PROVE  \A n \in Nat : n \in T
<1>1. SUFFICES ASSUME Nat \ T # {} PROVE FALSE
  OBVIOUS
<1>2. PICK x \in Nat \ T : \A y \in Nat \ T : x <= y
  BY <1>1, Least
<1>3. x - 1 \in Nat /\ x - 1 \in T
  BY <1>2
<1> QED
  BY <1>2, <1>3

\* A function may be defined by recursion up to any number.
Defined(S, a, F, m) == \E f \in [0..m -> S] :
    f[0] = a /\ \A k \in 1..m : f[k] = F[<<f[k - 1], k>>]

LEMMA Recursion ==
    ASSUME NEW S, NEW a \in S, NEW F \in [S \X Nat -> S]
    PROVE  \A m \in Nat : Defined(S, a, F, m)
<1> DEFINE Upto(m, f) == f[0] = a /\ \A k \in 1..m : f[k] = F[<<f[k - 1], k>>]
           T == {m \in Nat : \E f \in [0..m -> S] : Upto(m, f)}
<1>1. 0 \in T
  <2>1. [k \in 0..0 |-> a] \in [0..0 -> S] /\ Upto(0, [k \in 0..0 |-> a])
    OBVIOUS
  <2> QED
    BY <2>1
<1>2. ASSUME NEW m \in T PROVE m + 1 \in T
  <2>1. PICK f \in [0..m -> S] : Upto(m, f)
    OBVIOUS
  <2> DEFINE g == [k \in 0..(m + 1) |-> IF k = m + 1 THEN F[<<f[m], m + 1>>] ELSE f[k]]
  <2>2. m \in Nat /\ m \in 0..m /\ f[m] \in S
    OBVIOUS
  <2>3. F[<<f[m], m + 1>>] \in S
    BY <2>2
  <2>4. g \in [0..(m + 1) -> S]
    <3>1. ASSUME NEW k \in 0..(m + 1), k # m + 1 PROVE f[k] \in S
      <4>1. k \in 0..m
        BY <2>2, <3>1
      <4> QED
        BY <4>1
    <3> QED
      BY <2>3, <3>1
  <2>5. g[0] = a
    BY <2>1, <2>2
  <2>6. ASSUME NEW k \in 1..(m + 1) PROVE g[k] = F[<<g[k - 1], k>>]
    <3>1. CASE k = m + 1
      <4>1. k - 1 = m /\ g[k - 1] = f[m] /\ g[k] = F[<<f[m], m + 1>>]
        BY <2>2, <3>1
      <4> QED
        BY <3>1, <4>1
    <3>2. CASE k # m + 1
      <4>1. k \in 1..m /\ k - 1 \in 0..m /\ g[k] = f[k] /\ g[k - 1] = f[k - 1]
        BY <2>2, <3>2
      <4> QED
        BY <2>1, <4>1
    <3> QED
      BY <3>1, <3>2
  <2>7. \E h \in [0..(m + 1) -> S] : Upto(m + 1, h)
    <3> HIDE DEF g
    <3> QED
      BY <2>4, <2>5, <2>6
  <2> QED
    BY <2>2, <2>7
<1>3. \A m \in Nat : m \in T
  <2> HIDE DEF T
  <2>1. T \subseteq Nat
    BY DEF T
  <2> QED
    BY <1>1, <1>2, <2>1, Induct
<1> QED
  BY <1>3 DEF Defined

-----------------------------------------------------------------------------
(* Where the lines of a text begin. *)

LEMMA StartExists ==
    ASSUME NEW lines \in Seq(Nat)
    PROVE  \E f \in [1..(Len(lines) + 1) -> Nat] :
               f = [k \in 1..(Len(lines) + 1) |-> IF k = 1 THEN 0 ELSE f[k - 1] + lines[k - 1] + 1]
<1> DEFINE F == [x \in Nat \X Nat |->
                    IF x[2] \in DOMAIN lines THEN x[1] + lines[x[2]] + 1 ELSE x[1]]
           N == Len(lines)
<1>1. N \in Nat /\ DOMAIN lines = 1..N /\ \A i \in 1..N : lines[i] \in Nat
  OBVIOUS
<1>2. F \in [Nat \X Nat -> Nat]
  BY <1>1
<1>3. PICK g \in [0..N -> Nat] : g[0] = 0 /\ \A k \in 1..N : g[k] = F[<<g[k - 1], k>>]
  <2> HIDE DEF F, N
  <2>1. 0 \in Nat
    OBVIOUS
  <2>2. \A m \in Nat : Defined(Nat, 0, F, m)
    BY ONLY <1>2, <2>1, Recursion
  <2> QED
    BY <1>1, <2>2 DEF Defined
<1> DEFINE f == [k \in 1..(N + 1) |-> g[k - 1]]
<1>4. ASSUME NEW k \in 1..(N + 1)
      PROVE  f[k] \in Nat /\ f[k] = IF k = 1 THEN 0 ELSE f[k - 1] + lines[k - 1] + 1
  <2>1. k - 1 \in 0..N /\ g[k - 1] \in Nat /\ f[k] = g[k - 1]
    BY <1>1
  <2>2. CASE k = 1
    BY <1>3, <2>1, <2>2
  <2>3. CASE k # 1
    <3>1. k - 1 \in 1..N /\ (k - 1) - 1 \in 0..N /\ f[k - 1] = g[(k - 1) - 1]
      <4>1. N \in Nat
        BY <1>1
      <4> HIDE DEF N, F
      <4>2. k - 1 \in 1..N /\ (k - 1) - 1 \in 0..N /\ k - 1 \in 1..(N + 1)
        BY ONLY <4>1, <2>3
      <4> QED
        BY ONLY <4>2
    <3>2. g[k - 1] = F[<<g[(k - 1) - 1], k - 1>>] /\ g[(k - 1) - 1] \in Nat
      BY <1>3, <3>1
    <3>3. F[<<g[(k - 1) - 1], k - 1>>] = g[(k - 1) - 1] + lines[k - 1] + 1
      <4>1. \A x \in Nat, m \in 1..N : F[<<x, m>>] = x + lines[m] + 1
        BY <1>1
      <4> HIDE DEF F, N, f
      <4> QED
        BY ONLY <3>1, <3>2, <4>1, Zenon
    <3> QED
      BY <2>1, <2>3, <3>1, <3>2, <3>3
  <2> QED
    BY <2>2, <2>3
<1>5. f \in [1..(N + 1) -> Nat]
  <2> HIDE DEF N
  <2> QED
    BY <1>4
<1>6. f = [k \in 1..(N + 1) |-> IF k = 1 THEN 0 ELSE f[k - 1] + lines[k - 1] + 1]
  <2>1. f = [k \in 1..(N + 1) |-> f[k]]
    OBVIOUS
  <2> HIDE DEF f, N
  <2> QED
    BY <1>4, <2>1
<1> QED
  BY <1>5, <1>6

LEMMA StartUnfolds ==
    ASSUME NEW lines \in Seq(Nat)
    PROVE  /\ LineStart(lines, 1) = 0
           /\ \A i \in 1..Len(lines) : LineStart(lines, i + 1) = LineStart(lines, i) + lines[i] + 1
           /\ \A i \in 1..(Len(lines) + 1) : LineStart(lines, i) \in Nat
<1> DEFINE Good(f) == f = [k \in 1..(Len(lines) + 1) |->
                              IF k = 1 THEN 0 ELSE f[k - 1] + lines[k - 1] + 1]
           f == CHOOSE f : Good(f)
<1>1. Good(f)
  BY StartExists, Zenon
<1>2. \A i : LineStart(lines, i) = f[i]
  BY Zenon DEF LineStart
<1>3. Len(lines) \in Nat /\ \A i \in 1..Len(lines) : lines[i] \in Nat
  OBVIOUS
<1> HIDE DEF f
<1>4. \A k \in 1..(Len(lines) + 1) :
          f[k] = IF k = 1 THEN 0 ELSE f[k - 1] + lines[k - 1] + 1
  BY <1>1
<1>5. f[1] = 0 /\ \A i \in 1..Len(lines) : f[i + 1] = f[i] + lines[i] + 1
  BY <1>3, <1>4
<1>6. \A i \in 1..(Len(lines) + 1) : f[i] \in Nat
  <2> DEFINE T == {m \in Nat : m <= Len(lines) => f[m + 1] \in Nat}
  <2>1. 0 \in T
    BY <1>5
  <2>2. ASSUME NEW m \in T PROVE m + 1 \in T
    <3>1. m \in Nat /\ m + 1 \in Nat /\ (m <= Len(lines) => f[m + 1] \in Nat)
      OBVIOUS
    <3>2. m + 1 <= Len(lines) => f[(m + 1) + 1] \in Nat
      <4> SUFFICES ASSUME m + 1 <= Len(lines) PROVE f[(m + 1) + 1] \in Nat
        OBVIOUS
      <4>1. m + 1 \in 1..Len(lines) /\ lines[m + 1] \in Nat /\ f[m + 1] \in Nat
        BY <1>3, <3>1
      <4>2. f[(m + 1) + 1] = f[m + 1] + lines[m + 1] + 1
        BY <1>5, <4>1
      <4> QED
        BY <4>1, <4>2
    <3> QED
      BY <3>1, <3>2
  <2>3. \A m \in Nat : m \in T
    <3>1. T \subseteq Nat
      OBVIOUS
    <3> HIDE DEF T
    <3> QED
      BY <2>1, <2>2, <3>1, Induct
  <2>4. ASSUME NEW i \in 1..(Len(lines) + 1) PROVE f[i] \in Nat
    <3>1. i - 1 \in Nat /\ i - 1 <= Len(lines) /\ (i - 1) + 1 = i
      BY <1>3
    <3>2. f[(i - 1) + 1] \in Nat
      BY <2>3, <3>1
    <3> QED
      BY <3>1, <3>2
  <2> QED
    BY <2>4
<1> QED
  BY <1>2, <1>5, <1>6

LEMMA Onward == \A a, x, b, y \in Nat : a + x + 1 <= b => a + x + 1 <= b + y + 1
OBVIOUS

LEMMA StartsRise ==
    ASSUME NEW lines \in Seq(Nat), NEW i \in 1..(Len(lines) + 1), NEW j \in 1..(Len(lines) + 1), i < j
    PROVE  LineStart(lines, i) + lines[i] + 1 <= LineStart(lines, j)
<1> DEFINE T == {d \in Nat : i + 1 + d <= Len(lines) + 1 =>
                    LineStart(lines, i) + lines[i] + 1 <= LineStart(lines, i + 1 + d)}
<1>1. Len(lines) \in Nat /\ \A k \in 1..Len(lines) : lines[k] \in Nat
  OBVIOUS
<1>2. i \in 1..Len(lines) /\ LineStart(lines, i) \in Nat
  BY <1>1, StartUnfolds
<1>3. 0 \in T
  BY <1>1, <1>2, StartUnfolds
<1>4. ASSUME NEW d \in T PROVE d + 1 \in T
  <2>1. d \in Nat /\ d + 1 \in Nat
    OBVIOUS
  <2>2. ASSUME i + 1 + (d + 1) <= Len(lines) + 1
        PROVE  LineStart(lines, i) + lines[i] + 1 <= LineStart(lines, i + 1 + (d + 1))
    <3>1. PICK k \in 1..Len(lines) : k = i + 1 + d
      BY <1>1, <2>1, <2>2
    <3>2. LineStart(lines, i) + lines[i] + 1 <= LineStart(lines, k)
      BY <2>1, <2>2, <3>1
    <3>3. LineStart(lines, k + 1) = LineStart(lines, k) + lines[k] + 1 /\ LineStart(lines, k) \in Nat
      BY <1>1, <3>1, StartUnfolds
    <3>4. i + 1 + (d + 1) = k + 1 /\ lines[k] \in Nat /\ lines[i] \in Nat
      BY <1>1, <1>2, <2>1, <3>1
    <3>5. LineStart(lines, i + 1 + (d + 1)) = LineStart(lines, k + 1)
      BY ONLY <3>4
    <3>6. LineStart(lines, i) \in Nat /\ LineStart(lines, k) \in Nat /\ lines[i] \in Nat /\ lines[k] \in Nat
      BY <1>2, <3>3, <3>4
    <3> HIDE DEF T
    <3>7. LineStart(lines, i) + lines[i] + 1 <= LineStart(lines, k) + lines[k] + 1
      BY ONLY <3>2, <3>6, Onward, Zenon
    <3> QED
      BY ONLY <3>3, <3>5, <3>7, Zenon
  <2> QED
    BY ONLY <2>1, <2>2
<1>5. \A d \in Nat : d \in T
  <2>1. T \subseteq Nat
    OBVIOUS
  <2> HIDE DEF T
  <2> QED
    BY <1>3, <1>4, <2>1, Induct
<1>6. PICK d \in Nat : d = j - (i + 1)
  BY <1>1
<1>7. i + 1 + d = j
  BY <1>6
<1>8. i + 1 + d <= Len(lines) + 1 => LineStart(lines, i) + lines[i] + 1 <= LineStart(lines, i + 1 + d)
  BY <1>5
<1> QED
  BY <1>1, <1>7, <1>8

\* A line end comes just before the next line.
LEMMA EndsBefore ==
    ASSUME NEW lines \in Seq(Nat)
    PROVE  /\ Len(lines) \in Nat /\ Length(lines) \in Nat \ {0}
           /\ Length(lines) = LineStart(lines, Len(lines) + 1) + 1
           /\ \A i \in 1..Len(lines) :
                 /\ NewlineOf(lines, i) \in Nat
                 /\ NewlineOf(lines, i) + 1 = LineStart(lines, i + 1)
                 /\ NewlineOf(lines, i) + 1 < Length(lines)
           /\ \A i \in 1..(Len(lines) + 1) :
                 LineStart(lines, i) \in Nat /\ LineStart(lines, i) < Length(lines)
           /\ \A i, j \in 1..(Len(lines) + 1) : i < j => LineStart(lines, i) < LineStart(lines, j)
<1>1. Len(lines) \in Nat /\ \A k \in 1..Len(lines) : lines[k] \in Nat
  OBVIOUS
<1>2. Len(lines) + 1 \in 1..(Len(lines) + 1)
  BY <1>1
<1>3. \A i \in 1..(Len(lines) + 1) : LineStart(lines, i) \in Nat
  BY StartUnfolds
<1>4. ASSUME NEW i \in 1..(Len(lines) + 1), NEW j \in 1..(Len(lines) + 1), i < j
      PROVE  LineStart(lines, i) < LineStart(lines, j)
  <2>1. LineStart(lines, i) + lines[i] + 1 <= LineStart(lines, j)
    BY <1>4, StartsRise
  <2>2. lines[i] \in Nat
    BY <1>1, <1>4
  <2> QED
    BY <1>3, <2>1, <2>2
<1>5. ASSUME NEW i \in 1..(Len(lines) + 1)
      PROVE  LineStart(lines, i) <= LineStart(lines, Len(lines) + 1)
  <2>1. CASE i = Len(lines) + 1
    BY <1>3, <2>1
  <2>2. CASE i # Len(lines) + 1
    BY <1>1, <1>2, <1>3, <1>4, <2>2
  <2> QED
    BY <2>1, <2>2
<1>6. Length(lines) = LineStart(lines, Len(lines) + 1) + 1
  BY DEF Length
<1>7. ASSUME NEW i \in 1..Len(lines)
      PROVE  /\ NewlineOf(lines, i) \in Nat
             /\ NewlineOf(lines, i) + 1 = LineStart(lines, i + 1)
             /\ NewlineOf(lines, i) + 1 < Length(lines)
  <2>1. LineStart(lines, i + 1) = LineStart(lines, i) + lines[i] + 1 /\ LineStart(lines, i) \in Nat
    BY <1>1, StartUnfolds
  <2>2. i + 1 \in 1..(Len(lines) + 1) /\ LineStart(lines, i + 1) <= LineStart(lines, Len(lines) + 1)
    BY <1>1, <1>5
  <2>3. lines[i] \in Nat /\ i \in Nat
    BY <1>1
  <2>4. NewlineOf(lines, i) = LineStart(lines, i) + lines[i] \/ NewlineOf(lines, i) = LineStart(lines, i + 1) - 1
    BY DEF NewlineOf
  <2>5. NewlineOf(lines, i) \in Nat /\ NewlineOf(lines, i) + 1 = LineStart(lines, i + 1)
    BY ONLY <2>1, <2>3, <2>4
  <2>6. LineStart(lines, Len(lines) + 1) \in Nat
    BY <1>2, <1>3
  <2> QED
    BY ONLY <1>6, <2>2, <2>5, <2>6
<1>8. Length(lines) \in Nat \ {0}
  BY <1>2, <1>3, <1>6
<1>9. ASSUME NEW i \in 1..(Len(lines) + 1)
      PROVE  LineStart(lines, i) \in Nat /\ LineStart(lines, i) < Length(lines)
  BY <1>2, <1>3, <1>5, <1>6
<1> QED
  BY ONLY <1>1, <1>4, <1>6, <1>7, <1>8, <1>9

-----------------------------------------------------------------------------
(* The search for a line end. *)

\* NextEnd, in a text of such lines.
EndIn(lines, pos) ==
    LET ends == {q \in Newlines(lines) : q >= pos - 1 /\ q + 1 < Length(lines)}
    IN  IF ends = {} THEN Length(lines) - 1 ELSE Min(ends)

LEMMA EndFound ==
    ASSUME NEW lines \in Seq(Nat), NEW pos \in Nat
    PROVE  /\ EndIn(lines, pos) \in Nat
           /\ \/ EndIn(lines, pos) + 1 = Length(lines)
              \/ \E i \in 1..Len(lines) : EndIn(lines, pos) = NewlineOf(lines, i) /\ NewlineOf(lines, i) >= pos - 1
           /\ \A i \in 1..Len(lines) : NewlineOf(lines, i) >= pos - 1 => EndIn(lines, pos) <= NewlineOf(lines, i)
<1> DEFINE ends == {q \in Newlines(lines) : q >= pos - 1 /\ q + 1 < Length(lines)}
<1>1. ASSUME NEW q PROVE q \in ends <=> \E i \in 1..Len(lines) : q = NewlineOf(lines, i) /\ q >= pos - 1
  BY EndsBefore DEF Newlines
<1>2. EndIn(lines, pos) = IF ends = {} THEN Length(lines) - 1 ELSE Min(ends)
  BY DEF EndIn
<1>3. Length(lines) \in Nat \ {0}
  BY EndsBefore
<1>4. ends \subseteq Nat
  BY <1>1, EndsBefore
<1> HIDE DEF ends
<1>5. CASE ends = {}
  BY <1>1, <1>2, <1>3, <1>5
<1>6. CASE ends # {}
  <2>1. PICK x \in ends : \A y \in ends : x <= y
    BY <1>4, <1>6, Least
  <2>2. Min(ends) \in ends /\ \A y \in ends : Min(ends) <= y
    BY <2>1 DEF Min
  <2> QED
    BY <1>1, <1>2, <1>4, <1>6, <2>2
<1> QED
  BY <1>5, <1>6

LEMMA EndBounded ==
    ASSUME NEW lines \in Seq(Nat), NEW pos \in Nat
    PROVE  EndIn(lines, pos) + 1 <= Length(lines)
<1>1. EndIn(lines, pos) \in Nat /\ Length(lines) \in Nat
  BY EndFound, EndsBefore
<1>2. ASSUME NEW i \in 1..Len(lines), EndIn(lines, pos) = NewlineOf(lines, i)
      PROVE  EndIn(lines, pos) + 1 < Length(lines)
  BY <1>2, EndsBefore
<1>3. \/ EndIn(lines, pos) + 1 = Length(lines)
      \/ \E i \in 1..Len(lines) : EndIn(lines, pos) = NewlineOf(lines, i)
  BY EndFound
<1> QED
  BY ONLY <1>1, <1>2, <1>3

LEMMA EndsRise ==
    ASSUME NEW lines \in Seq(Nat), NEW p \in Nat, NEW q \in Nat, p <= q
    PROVE  EndIn(lines, p) <= EndIn(lines, q)
<1>1. EndIn(lines, p) \in Nat /\ EndIn(lines, q) \in Nat /\ Length(lines) \in Nat
  BY EndFound, EndsBefore
<1>2. CASE EndIn(lines, q) + 1 = Length(lines)
  BY <1>1, <1>2, EndBounded
<1>3. ASSUME NEW i \in 1..Len(lines), EndIn(lines, q) = NewlineOf(lines, i), NewlineOf(lines, i) >= q - 1
      PROVE  EndIn(lines, p) <= EndIn(lines, q)
  <2>1. NewlineOf(lines, i) \in Nat /\ NewlineOf(lines, i) >= p - 1
    BY <1>3, EndsBefore
  <2> QED
    BY <1>3, <2>1, EndFound
<1> QED
  BY <1>2, <1>3, EndFound

-----------------------------------------------------------------------------
(* The lines of a part, as long as no line is longer than a part: those    *)
(* that begin between its bounds.                                          *)

\* Where part n begins when nobody has touched the text.
Bound(lines, p, n) ==
    IF n = 0 THEN 0 ELSE IF n = p THEN Length(lines) ELSE EndIn(lines, n * PartLength(lines, p)) + 1

\* The line end at which the last line of part n is found.
Final(lines, p, n) == EndIn(lines, (n * PartLength(lines, p)) + PartLength(lines, p))

Short(lines, p) == \A i \in DOMAIN lines : lines[i] + 1 <= PartLength(lines, p)

\* Part n has the line that begins at a position.
HasPart(lines, p, n, pos) == Bound(lines, p, n) <= pos /\ pos < Bound(lines, p, n + 1)

LEMMA PartsAre == nthr \in Nat \ {0} /\ Parts = 0..(nthr - 1)
  BY PartsAssumption DEF Parts

LEMMA PartType ==
    ASSUME NEW lines \in Seq(Nat), NEW p \in Nat \ {0}
    PROVE  PartLength(lines, p) \in Nat
<1>1. Length(lines) \in Nat
  BY EndsBefore
<1>2. PICK d \in Nat : d = Length(lines) \div p
  BY <1>1
<1> QED
  BY <1>2, SplitAssumption DEF PartLength

\* The place of a part, in general, and in a text that is not too long.
LEMMA PlaceType ==
    ASSUME NEW lines \in Seq(Nat), NEW p \in Nat \ {0}, NEW n \in Nat
    PROVE  PartStart(lines, n, p) \in Nat
<1>1. PICK x \in Nat : x = n * PartLength(lines, p)
  BY PartType
<1> QED
  BY <1>1, SplitAssumption DEF PartStart

LEMMA PlaceIs ==
    ASSUME NEW lines \in Seq(Nat), NEW p \in Nat \ {0}, NEW n \in 0..(p - 1), NoWrap(lines, p)
    PROVE  PartStart(lines, n, p) = n * PartLength(lines, p)
<1>1. PICK a \in Nat : a = PartLength(lines, p)
  BY PartType
<1>2. PICK d \in Nat : p - 1 = n + d
  <2>1. (p - 1) - n \in Nat /\ p - 1 = n + ((p - 1) - n)
    OBVIOUS
  <2> QED
    BY <2>1
<1>3. (p - 1) * a = (n * a) + (d * a) /\ n * a \in Nat /\ d * a \in Nat
  BY <1>2
<1>4. PICK x \in Nat, y \in Nat : x = n * a /\ y = d * a
  BY <1>3
<1>5. x < UIntSpace /\ UIntSpace \in Nat \ {0}
  <2>1. (p - 1) * a < UIntSpace /\ UIntSpace \in Nat \ {0}
    BY <1>1, SplitAssumption DEF NoWrap
  <2>2. x + y < UIntSpace
    BY ONLY <1>3, <1>4, <2>1
  <2> QED
    BY <1>4, <2>1, <2>2
<1>6. x % UIntSpace = x
  BY <1>5
<1> QED
  BY <1>1, <1>4, <1>6 DEF PartStart

LEMMA Multiples ==
    ASSUME NEW a \in Nat, NEW n \in Nat
    PROVE  n * a \in Nat /\ (n + 1) * a = (n * a) + a
  OBVIOUS

LEMMA BoundType ==
    ASSUME NEW lines \in Seq(Nat), NEW p \in Nat \ {0}, NEW n \in 0..p
    PROVE  Bound(lines, p, n) \in Nat /\ Bound(lines, p, n) <= Length(lines)
<1>1. PartLength(lines, p) \in Nat /\ n \in Nat /\ Length(lines) \in Nat \ {0}
  BY PartType, EndsBefore
<1>2. n * PartLength(lines, p) \in Nat
  BY <1>1, Multiples
<1>3. EndIn(lines, n * PartLength(lines, p)) \in Nat /\ EndIn(lines, n * PartLength(lines, p)) + 1 <= Length(lines)
  BY <1>2, EndFound, EndBounded
<1> QED
  BY <1>1, <1>3 DEF Bound

LEMMA FinalBound ==
    ASSUME NEW lines \in Seq(Nat), NEW p \in Nat \ {0}, NEW n \in 0..(p - 1)
    PROVE  /\ Final(lines, p, n) \in Nat
           /\ Final(lines, p, n) + 1 <= Bound(lines, p, n + 1)
           /\ n # p - 1 => Final(lines, p, n) + 1 = Bound(lines, p, n + 1)
<1>1. PartLength(lines, p) \in Nat /\ n \in Nat /\ p \in Nat \ {0} /\ n + 1 \in 1..p
  BY PartType
<1>2. /\ (n * PartLength(lines, p)) + PartLength(lines, p) \in Nat
      /\ (n + 1) * PartLength(lines, p) = (n * PartLength(lines, p)) + PartLength(lines, p)
  BY <1>1, Multiples
<1>3. Final(lines, p, n) \in Nat /\ Final(lines, p, n) + 1 <= Length(lines)
  BY <1>2, EndFound, EndBounded DEF Final
<1>4. CASE n = p - 1
  BY <1>1, <1>3, <1>4 DEF Bound
<1>5. CASE n # p - 1
  <2>1. Bound(lines, p, n + 1) = EndIn(lines, (n + 1) * PartLength(lines, p)) + 1
    BY <1>1, <1>5 DEF Bound
  <2> QED
    BY <1>2, <1>3, <1>5, <2>1 DEF Final
<1> QED
  BY <1>4, <1>5

LEMMA BoundsRise ==
    ASSUME NEW lines \in Seq(Nat), NEW p \in Nat \ {0}, NEW n \in 0..p, NEW m \in 0..p, n <= m
    PROVE  Bound(lines, p, n) <= Bound(lines, p, m)
<1>1. PartLength(lines, p) \in Nat /\ p \in Nat \ {0} /\ Length(lines) \in Nat
  BY PartType, EndsBefore
<1>2. CASE n = 0
  BY <1>2, BoundType DEF Bound
<1>3. CASE m = p
  BY <1>1, <1>3, BoundType DEF Bound
<1>4. CASE n # 0 /\ m # p
  <2>1. n * PartLength(lines, p) \in Nat /\ m * PartLength(lines, p) \in Nat
    BY <1>1, Multiples
  <2>2. n * PartLength(lines, p) <= m * PartLength(lines, p)
    <3>1. PICK a \in Nat, d \in Nat : a = PartLength(lines, p) /\ d = m - n
      BY <1>1
    <3>2. m * a = (n + d) * a /\ (n + d) * a = (n * a) + (d * a) /\ d * a \in Nat /\ n * a \in Nat
      BY <3>1
    <3> QED
      BY <3>1, <3>2
  <2>3. EndIn(lines, n * PartLength(lines, p)) <= EndIn(lines, m * PartLength(lines, p))
    BY <2>1, <2>2, EndsRise
  <2>4. EndIn(lines, n * PartLength(lines, p)) \in Nat /\ EndIn(lines, m * PartLength(lines, p)) \in Nat
    BY <2>1, EndFound
  <2>5. n # p /\ m # 0
    BY <1>1, <1>4
  <2> QED
    BY <1>4, <2>3, <2>4, <2>5 DEF Bound
<1> QED
  BY <1>2, <1>3, <1>4

\* No two parts have the same line.
LEMMA Apart ==
    ASSUME NEW lines \in Seq(Nat), NEW p \in Nat \ {0}, NEW n \in 0..(p - 1),
           NEW m \in 0..(p - 1), NEW pos \in Nat,
           HasPart(lines, p, n, pos), HasPart(lines, p, m, pos)
    PROVE  n = m
<1>1. n \in Nat /\ m \in Nat /\ {n, m, n + 1, m + 1} \subseteq 0..p
  OBVIOUS
<1>2. \A k \in {n, m, n + 1, m + 1} : Bound(lines, p, k) \in Nat
  BY <1>1, BoundType
<1>3. CASE n < m
  <2>1. Bound(lines, p, n + 1) <= Bound(lines, p, m)
    BY <1>1, <1>3, BoundsRise
  <2> QED
    BY <1>2, <2>1 DEF HasPart
<1>4. CASE m < n
  <2>1. Bound(lines, p, m + 1) <= Bound(lines, p, n)
    BY <1>1, <1>4, BoundsRise
  <2> QED
    BY <1>2, <2>1 DEF HasPart
<1> QED
  BY <1>1, <1>3, <1>4

\* The line that ends a part belongs to it: it is short, so it begins in the part.
LEMMA Owner ==
    ASSUME NEW lines \in Seq(Nat), NEW p \in Nat \ {0}, Short(lines, p), NEW n \in 0..(p - 1),
           NEW i \in 1..Len(lines), NewlineOf(lines, i) = Final(lines, p, n)
    PROVE  HasPart(lines, p, n, LineStart(lines, i))
<1> DEFINE l1 == PartLength(lines, p)
           begin == LineStart(lines, i)
<1>1. l1 \in Nat /\ n \in Nat /\ n * l1 \in Nat /\ (n * l1) + l1 \in Nat
  BY PartType, Multiples
<1>2. /\ begin \in Nat /\ lines[i] \in Nat /\ NewlineOf(lines, i) = begin + lines[i]
      /\ NewlineOf(lines, i) + 1 < Length(lines) /\ lines[i] + 1 <= l1 /\ Len(lines) \in Nat
      /\ Length(lines) \in Nat
  <2>1. i \in 1..(Len(lines) + 1)
    OBVIOUS
  <2> QED
    BY <2>1, EndsBefore DEF NewlineOf, Short
<1>3. NewlineOf(lines, i) >= ((n * l1) + l1) - 1
  <2>1. \/ Final(lines, p, n) + 1 = Length(lines)
        \/ \E j \in 1..Len(lines) : /\ Final(lines, p, n) = NewlineOf(lines, j)
                                    /\ NewlineOf(lines, j) >= ((n * l1) + l1) - 1
    BY <1>1, EndFound DEF Final
  <2> HIDE DEF l1
  <2> QED
    BY <1>2, <2>1
<1> HIDE DEF l1
<1>4. begin >= n * l1
  BY ONLY <1>1, <1>2, <1>3
<1>5. begin < Bound(lines, p, n + 1)
  <2>1. Final(lines, p, n) + 1 <= Bound(lines, p, n + 1) /\ Final(lines, p, n) \in Nat
    BY FinalBound
  <2>2. n + 1 \in 0..p
    OBVIOUS
  <2>3. Bound(lines, p, n + 1) \in Nat
    BY <2>2, BoundType
  <2> QED
    BY <1>2, <2>1, <2>3
<1>6. Bound(lines, p, n) <= begin
  <2>1. CASE n = 0
    BY <1>2, <2>1 DEF Bound
  <2>2. CASE n # 0
    <3>1. n # p
      OBVIOUS
    <3>2. Bound(lines, p, n) = EndIn(lines, n * l1) + 1
      BY <2>2, <3>1 DEF Bound, l1
    <3>3. n * l1 > 0
      <4>1. PICK m \in Nat : n = m + 1
        BY <1>1, <2>2
      <4>2. n * l1 = (m * l1) + l1 /\ m * l1 \in Nat
        BY <1>1, <4>1, Multiples
      <4> QED
        BY <1>1, <1>2, <4>2
    <3>4. i # 1
      BY <1>1, <1>2, <1>4, <3>3, StartUnfolds
    <3>5. i - 1 \in 1..Len(lines) /\ (i - 1) + 1 = i
      BY <1>2, <3>4
    <3>6. NewlineOf(lines, i - 1) + 1 = begin /\ NewlineOf(lines, i - 1) \in Nat
      BY <3>5, EndsBefore
    <3>7. NewlineOf(lines, i - 1) >= (n * l1) - 1
      BY <1>1, <1>2, <1>4, <3>6
    <3>8. EndIn(lines, n * l1) <= NewlineOf(lines, i - 1) /\ EndIn(lines, n * l1) \in Nat
      BY <1>1, <3>5, <3>7, EndFound
    <3> QED
      BY <1>2, <3>2, <3>6, <3>8
  <2> QED
    BY <2>1, <2>2
<1> QED
  BY <1>5, <1>6 DEF HasPart

-----------------------------------------------------------------------------
(* The split of a text that nobody else touches. *)

LEMMA Advanced ==
    ASSUME NEW lines \in Seq(Nat), NEW pos \in Nat
    PROVE  Advance(Newlines(lines), pos, Length(lines)) = EndIn(lines, pos) + 1
<1> DEFINE ends == {q \in Newlines(lines) : q >= pos - 1 /\ q + 1 < Length(lines)}
<1>1. Advance(Newlines(lines), pos, Length(lines)) = IF ends = {} THEN Length(lines) ELSE Min(ends) + 1
  BY DEF Advance
<1>2. EndIn(lines, pos) = IF ends = {} THEN Length(lines) - 1 ELSE Min(ends)
  BY DEF EndIn
<1>3. Length(lines) \in Nat
  BY EndsBefore
<1> HIDE DEF ends
<1> QED
  BY <1>1, <1>2, <1>3

\* A block has the positions of its part, and all of them unless it is empty.
LEMMA BlockIs ==
    ASSUME NEW lines \in Seq(Nat), NEW p \in Nat \ {0}, NEW n \in 0..(p - 1),
           NoWrap(lines, p), p <= MostParts
    PROVE  Positions(GetSubBlock(lines, n, p)) =
               IF Bound(lines, p, n) = Final(lines, p, n) + 1 THEN {}
               ELSE Bound(lines, p, n)..(Bound(lines, p, n + 1) - 1)
<1> DEFINE a == PartLength(lines, p)
           begin == Bound(lines, p, n)
           end == Final(lines, p, n) + 1
<1>1. /\ a \in Nat /\ n * a \in Nat /\ (n * a) + a \in Nat /\ n \in 0..p /\ n + 1 \in 0..p /\ n # p
      /\ n \in Nat /\ Length(lines) \in Nat
  BY PartType, Multiples, EndsBefore
<1>2. begin \in Nat /\ Bound(lines, p, n + 1) \in Nat /\ end \in Nat
  <2>1. Final(lines, p, n) \in Nat
    BY FinalBound
  <2>2. Bound(lines, p, n) \in Nat /\ Bound(lines, p, n + 1) \in Nat
    BY <1>1, BoundType
  <2> QED
    BY <2>1, <2>2
<1>3. begin = IF n > 0 THEN Advance(Newlines(lines), n * a, Length(lines)) ELSE 0
  BY <1>1, Advanced DEF Bound
<1>4. end = Advance(Newlines(lines), (n * a) + a, Length(lines))
  BY <1>1, Advanced DEF Final
<1>5. GetSubBlock(lines, n, p) = BlockOf(begin, end, Length(lines), n = p - 1)
  <2>1. PartStart(lines, n, p) = n * a
    BY PlaceIs
  <2>2. n * a = 0 \/ n > 0
    BY <1>1
  <2>3. ~ (n > p - 1) /\ ~ (p > MostParts)
    BY SplitAssumption
  <2> QED
    BY <1>1, <1>3, <1>4, <2>1, <2>2, <2>3 DEF GetSubBlock
<1>6. (IF n = p - 1 THEN Length(lines) ELSE end) = Bound(lines, p, n + 1)
  <2>1. n = p - 1 => Bound(lines, p, n + 1) = Length(lines)
    BY DEF Bound
  <2>2. n # p - 1 => Bound(lines, p, n + 1) = end
    BY FinalBound
  <2> QED
    BY <2>1, <2>2
<1> HIDE DEF a, begin, end
<1>7. CASE begin = end
  <2>1. GetSubBlock(lines, n, p) = [start |-> 0, length |-> 0]
    BY <1>5, <1>7 DEF BlockOf, NoBlock
  <2>2. 0..(0 + 0 - 1) = {}
    OBVIOUS
  <2> QED
    BY <1>7, <2>1, <2>2 DEF Positions, begin, end
<1>8. CASE begin # end
  <2>1. GetSubBlock(lines, n, p) = [start |-> begin, length |-> Bound(lines, p, n + 1) - begin]
    BY <1>5, <1>6, <1>8 DEF BlockOf
  <2>2. begin + (Bound(lines, p, n + 1) - begin) - 1 = Bound(lines, p, n + 1) - 1
    BY <1>2
  <2> QED
    BY <1>8, <2>1, <2>2 DEF Positions, begin, end
<1> QED
  BY <1>7, <1>8

\* A part that is not the whole of its bounds is the last of a text with a long line.
LEMMA Covered ==
    ASSUME NEW lines \in Seq(Nat), NEW p \in Nat \ {0}, Short(lines, p), NEW n \in 0..(p - 1),
           NoWrap(lines, p), p <= MostParts, NEW pos \in Nat, HasPart(lines, p, n, pos)
    PROVE  pos \in Positions(GetSubBlock(lines, n, p))
<1>1. n \in 0..p /\ n + 1 \in 0..p
  OBVIOUS
<1>2. /\ Bound(lines, p, n) \in Nat /\ Bound(lines, p, n + 1) \in Nat
      /\ Bound(lines, p, n + 1) <= Length(lines) /\ Length(lines) \in Nat /\ Final(lines, p, n) \in Nat
      /\ Bound(lines, p, n) <= pos /\ pos < Bound(lines, p, n + 1)
  BY <1>1, BoundType, FinalBound, EndsBefore DEF HasPart
<1>3. Bound(lines, p, n) # Final(lines, p, n) + 1
  <2> SUFFICES ASSUME Bound(lines, p, n) = Final(lines, p, n) + 1 PROVE FALSE
    OBVIOUS
  <2>1. (n * PartLength(lines, p)) + PartLength(lines, p) \in Nat
    BY PartType, Multiples
  <2>2. \/ Final(lines, p, n) + 1 = Length(lines)
        \/ \E i \in 1..Len(lines) : Final(lines, p, n) = NewlineOf(lines, i)
    BY <2>1, EndFound DEF Final
  <2>3. PICK i \in 1..Len(lines) : NewlineOf(lines, i) = Final(lines, p, n)
    BY <1>2, <2>2
  <2>4. HasPart(lines, p, n, LineStart(lines, i))
    BY <2>3, Owner
  <2>5. i \in 1..(Len(lines) + 1) /\ lines[i] \in Nat
    BY EndsBefore
  <2>6. LineStart(lines, i) \in Nat /\ LineStart(lines, i) <= Final(lines, p, n)
    BY <2>3, <2>5, EndsBefore DEF NewlineOf
  <2> QED
    BY <1>2, <2>4, <2>6 DEF HasPart
<1> QED
  BY <1>2, <1>3, BlockIs

\* Every position of the text lies between the bounds of a part.
LEMMA SomePart ==
    ASSUME NEW lines \in Seq(Nat), NEW p \in Nat \ {0}, NEW pos \in Nat, pos < Length(lines)
    PROVE  \E n \in 0..(p - 1) : HasPart(lines, p, n, pos)
<1> DEFINE T == {n \in 0..(p - 1) : pos < Bound(lines, p, n + 1)}
<1>1. p - 1 \in T
  <2>1. (p - 1) + 1 = p /\ p # 0 /\ p - 1 \in 0..(p - 1)
    OBVIOUS
  <2>2. Bound(lines, p, (p - 1) + 1) = Length(lines)
    BY <2>1 DEF Bound
  <2> QED
    BY <2>1, <2>2
<1>2. T \subseteq Nat /\ T # {}
  <2>1. T \subseteq 0..(p - 1)
    OBVIOUS
  <2> HIDE DEF T
  <2> QED
    BY <1>1, <2>1
<1>3. PICK n \in T : \A m \in T : n <= m
  <2> HIDE DEF T
  <2> QED
    BY <1>2, Least
<1>4. Bound(lines, p, n) <= pos
  <2>1. CASE n = 0
    BY <2>1 DEF Bound
  <2>2. CASE n # 0
    <3>1. n \in 0..(p - 1)
      OBVIOUS
    <3>2. n - 1 \in 0..(p - 1) /\ (n - 1) + 1 = n /\ n \in 0..p /\ ~ (n <= n - 1)
      BY <2>2, <3>1
    <3>3. n - 1 \notin T
      <4> HIDE DEF T
      <4> QED
        BY <1>3, <3>2
    <3>4. ~ (pos < Bound(lines, p, (n - 1) + 1))
      BY <3>2, <3>3
    <3>5. Bound(lines, p, n) \in Nat
      BY <3>2, BoundType
    <3> QED
      BY <3>2, <3>4, <3>5
  <2> QED
    BY <2>1, <2>2
<1> QED
  BY <1>4 DEF HasPart

\* Too many parts have no block at all.
LEMMA NoPositions ==
    ASSUME NEW lines, NEW p \in Nat \ {0}, NEW n, p > MostParts
    PROVE  Positions(GetSubBlock(lines, n, p)) = {}
<1>1. GetSubBlock(lines, n, p) = [start |-> 0, length |-> 0]
  BY DEF GetSubBlock, NoBlock
<1>2. 0..(0 + 0 - 1) = {}
  OBVIOUS
<1> QED
  BY <1>1, <1>2 DEF Positions

LEMMA SplitOf ==
    ASSUME NEW lines \in Seq(Nat), NEW p \in Nat \ {0}, NoWrap(lines, p)
    PROVE  LET b == BlocksOf(lines, p) IN
           /\ \A i, j \in DOMAIN b : i # j => Positions(b[i]) \cap Positions(b[j]) = {}
           /\ p <= MostParts /\ Short(lines, p)
              => UNION {Positions(b[i]) : i \in DOMAIN b} = 0..(Length(lines) - 1)
<1> DEFINE b == BlocksOf(lines, p)
<1>1. DOMAIN b = 0..(p - 1) /\ \A i \in 0..(p - 1) : b[i] = GetSubBlock(lines, i, p)
  BY DEF BlocksOf
<1>5. p > MostParts \/ p <= MostParts
  BY SplitAssumption
<1>2. ASSUME NEW i \in 0..(p - 1), NEW pos \in Positions(b[i])
      PROVE  pos \in 0..(Length(lines) - 1) /\ HasPart(lines, p, i, pos)
  <2>1. i \in 0..p /\ i + 1 \in 0..p
    OBVIOUS
  <2>2. Bound(lines, p, i) \in Nat /\ Bound(lines, p, i + 1) \in Nat
        /\ Bound(lines, p, i + 1) <= Length(lines) /\ Length(lines) \in Nat
    BY <2>1, BoundType, EndsBefore
  <2>3. pos \in Bound(lines, p, i)..(Bound(lines, p, i + 1) - 1)
    BY <1>1, <1>2, <1>5, BlockIs, NoPositions
  <2> QED
    BY <2>2, <2>3 DEF HasPart
<1> HIDE DEF b
<1>3. ASSUME NEW i \in DOMAIN b, NEW j \in DOMAIN b, i # j
      PROVE  Positions(b[i]) \cap Positions(b[j]) = {}
  <2> SUFFICES ASSUME NEW pos, pos \in Positions(b[i]), pos \in Positions(b[j]) PROVE FALSE
    OBVIOUS
  <2>1. pos \in Nat /\ HasPart(lines, p, i, pos) /\ HasPart(lines, p, j, pos)
    BY <1>1, <1>2
  <2> QED
    BY <1>1, <1>3, <2>1, Apart
<1>4. ASSUME p <= MostParts, Short(lines, p)
      PROVE  UNION {Positions(b[i]) : i \in DOMAIN b} = 0..(Length(lines) - 1)
  <2>1. ASSUME NEW pos \in 0..(Length(lines) - 1)
        PROVE  \E i \in DOMAIN b : pos \in Positions(b[i])
    <3>1. pos \in Nat /\ pos < Length(lines)
      BY EndsBefore
    <3>2. PICK i \in 0..(p - 1) : HasPart(lines, p, i, pos)
      BY <3>1, SomePart
    <3> QED
      BY <1>1, <1>4, <3>1, <3>2, Covered
  <2>2. ASSUME NEW i \in DOMAIN b, NEW pos \in Positions(b[i])
        PROVE  pos \in 0..(Length(lines) - 1)
    BY <1>1, <1>2
  <2> QED
    BY <2>1, <2>2
<1> QED
  BY <1>3, <1>4 DEF b

\* LineAt, at the beginning of a line.
LEMMA LineFound ==
    ASSUME NEW lines \in Seq(Nat), NEW i \in 1..(Len(lines) + 1)
    PROVE  Max({j \in 1..(Len(lines) + 1) : LineStart(lines, j) <= LineStart(lines, i)}) = i
<1> DEFINE S == {j \in 1..(Len(lines) + 1) : LineStart(lines, j) <= LineStart(lines, i)}
<1>1. \A j \in 1..(Len(lines) + 1) : LineStart(lines, j) \in Nat
  BY EndsBefore
<1>2. \A j \in S : j <= i
  <2> SUFFICES ASSUME NEW j \in S, i < j PROVE FALSE
    BY EndsBefore
  <2> QED
    BY <1>1, EndsBefore
<1>3. i \in S
  BY <1>1
<1>4. S \subseteq Int
  BY EndsBefore
<1> HIDE DEF S
<1>5. Max(S) \in S /\ \A y \in S : Max(S) >= y
  <2>1. \A y \in S : i >= y
    BY <1>2, <1>3, <1>4
  <2> QED
    BY <1>3, <2>1 DEF Max
<1>6. PICK m \in S : m = Max(S) /\ m >= i /\ m <= i
  BY <1>2, <1>3, <1>5
<1>7. m \in Int /\ i \in Int
  BY <1>3, <1>4
<1>8. Max(S) = i
  BY <1>6, <1>7
<1> QED
  BY <1>8 DEF S

-----------------------------------------------------------------------------
(* The buffer of a segment: keys that are shorter than it was at first     *)
(* always find room, as it is at least doubled when they do not.           *)

Roomy(k) == \E u, len \in Nat : /\ k = [used |-> u, length |-> len, fits |-> TRUE]
                                 /\ u + 1 <= len /\ KeysNew <= len

LEMMA AddFits ==
    ASSUME NEW k, Roomy(k), NEW len \in Nat, len < KeysNew
    PROVE  Roomy(KeysAdd(k, len))
<1>1. PICK u \in Nat, old \in Nat : k = [used |-> u, length |-> old, fits |-> TRUE]
                                    /\ u + 1 <= old /\ KeysNew <= old
  BY DEF Roomy
<1>2. k.used = u /\ k.length = old /\ k.fits = TRUE
  BY <1>1
<1>3. PICK new \in Nat : new = IF u + len + 2 > old THEN 2 * old ELSE old
  OBVIOUS
<1>4. u + len + 1 \in Nat /\ (u + len + 1) + 1 <= new /\ KeysNew <= new /\ u + len + 2 <= new
  BY <1>1, <1>3, KeysAssumption
<1>5. (k.fits /\ u + len + 2 <= new) = TRUE
  BY <1>2, <1>4, Zenon
<1>6. KeysAdd(k, len) = [used |-> u + len + 1, length |-> new, fits |-> k.fits /\ u + len + 2 <= new]
  BY <1>2, <1>3, Zenon DEF KeysAdd
<1>7. KeysAdd(k, len) = [used |-> u + len + 1, length |-> new, fits |-> TRUE]
  BY <1>5, <1>6, Zenon
<1> QED
  BY <1>4, <1>7 DEF Roomy

LEMMA BufferFits ==
    ASSUME NEW ks \in Seq(DOMAIN KeyLen), \A i \in DOMAIN ks : KeyLen[ks[i]] < KeysNew
    PROVE  Buffer(ks).fits
<1> DEFINE S == {k \in [used : Nat, length : Nat, fits : BOOLEAN] : Roomy(k)}
           N == Len(ks)
           F == [x \in S \X Nat |-> IF x[2] \in DOMAIN ks THEN KeysAdd(x[1], KeyLen[ks[x[2]]]) ELSE x[1]]
           Good(f) == f = [i \in 0..Len(ks) |->
                              IF i = 0 THEN EmptyKeys ELSE KeysAdd(f[i - 1], KeyLen[ks[i]])]
<1>1. N \in Nat /\ DOMAIN ks = 1..N
  OBVIOUS
<1>2. EmptyKeys \in S
  BY KeysAssumption DEF EmptyKeys, Roomy
<1>3. ASSUME NEW k \in S, NEW i \in DOMAIN ks PROVE KeysAdd(k, KeyLen[ks[i]]) \in S
  <2>1. KeyLen[ks[i]] \in Nat /\ KeyLen[ks[i]] < KeysNew
    BY KeysAssumption
  <2>2. Roomy(KeysAdd(k, KeyLen[ks[i]]))
    BY <2>1, AddFits
  <2> QED
    BY <2>2 DEF Roomy
<1>4. F \in [S \X Nat -> S]
  <2> HIDE DEF S
  <2> QED
    BY <1>3
<1>5. PICK g \in [0..N -> S] : g[0] = EmptyKeys /\ \A i \in 1..N : g[i] = F[<<g[i - 1], i>>]
  <2> HIDE DEF S, F, N
  <2>1. \A m \in Nat : Defined(S, EmptyKeys, F, m)
    BY ONLY <1>2, <1>4, Recursion
  <2> QED
    BY <1>1, <2>1 DEF Defined
<1>6. ASSUME NEW i \in 1..N PROVE g[i] = KeysAdd(g[i - 1], KeyLen[ks[i]])
  <2>1. i - 1 \in 0..N /\ i \in Nat /\ i \in DOMAIN ks
    BY <1>1
  <2>2. g[i - 1] \in S /\ g[i] = F[<<g[i - 1], i>>]
    BY <1>5, <2>1
  <2> HIDE DEF S
  <2> QED
    BY <2>1, <2>2
<1>7. Good(g)
  <2>1. g = [i \in 0..N |-> g[i]]
    BY <1>5
  <2>2. ASSUME NEW i \in 0..N
        PROVE  g[i] = IF i = 0 THEN EmptyKeys ELSE KeysAdd(g[i - 1], KeyLen[ks[i]])
    BY <1>1, <1>5, <1>6
  <2> HIDE DEF S, F
  <2> QED
    BY <2>1, <2>2
<1> DEFINE f == CHOOSE f : Good(f)
<1>8. Good(f)
  BY <1>7, Zenon
<1>9. Buffer(ks) = f[Len(ks)]
  BY Zenon DEF Buffer
<1> HIDE DEF f
<1>10. \A i \in 0..N : f[i] = IF i = 0 THEN EmptyKeys ELSE KeysAdd(f[i - 1], KeyLen[ks[i]])
  BY <1>8
<1> DEFINE T == {m \in Nat : m <= N => f[m] \in S}
<1>11. 0 \in T
  <2>1. 0 \in 0..N /\ f[0] = EmptyKeys
    BY <1>1, <1>10
  <2> HIDE DEF S
  <2> QED
    BY <1>2, <2>1
<1>12. ASSUME NEW m \in T PROVE m + 1 \in T
  <2>1. m \in Nat /\ m + 1 \in Nat /\ (m <= N => f[m] \in S)
    OBVIOUS
  <2>2. ASSUME m + 1 <= N PROVE f[m + 1] \in S
    <3>1. m + 1 \in 0..N /\ m + 1 \in DOMAIN ks /\ m + 1 # 0 /\ (m + 1) - 1 = m /\ m <= N
      <4>1. m \in Nat
        BY <2>1
      <4> HIDE DEF S, T, F, Good
      <4> QED
        BY ONLY <1>1, <2>2, <4>1
    <3>2. f[m + 1] = KeysAdd(f[m], KeyLen[ks[m + 1]])
      BY <1>10, <3>1
    <3> HIDE DEF S
    <3> QED
      BY <1>3, <2>1, <3>1, <3>2
  <2> HIDE DEF S
  <2> QED
    BY <2>1, <2>2
<1>13. N \in T
  <2>1. T \subseteq Nat
    OBVIOUS
  <2> HIDE DEF T, N
  <2>2. \A m \in Nat : m \in T
    BY <1>11, <1>12, <2>1, Induct
  <2> QED
    BY <1>1, <2>2
<1>14. f[N] \in S
  BY <1>1, <1>13
<1>15. Roomy(f[N])
  BY <1>14
<1>16. PICK u \in Nat, len \in Nat : f[N] = [used |-> u, length |-> len, fits |-> TRUE]
  BY <1>15 DEF Roomy
<1>17. f[N].fits = TRUE
  BY <1>16
<1> QED
  BY <1>9, <1>17

-----------------------------------------------------------------------------
(* The invariant. *)

Searching == {"none", "from", "to"}
Printing  == {"print", "print_keys", "done"}
Marks     == {"end", "tab", "space", "slash"}

\* The names under which keys may be filed.
Names == {FlagSegs} \cup UNION {UNION {Range(file[i].segs) : i \in DOMAIN file} : file \in Texts}
KeyNames == DOMAIN KeyLen

\* The record of what is printed.
Printed == [op : {"create", "b"}, seg : Names, keys : Seq(KeyNames)]

\* What s2k holds.
Hashes == UNION {[D -> Seq(KeyNames)] : D \in SUBSET Names}

TypeOK ==
    /\ text \in Texts
    /\ cut \in [Lines -> SUBSET Marks]
    /\ pc \in [Parts -> Searching \cup Parsing \cup Printing]
    /\ s \in [Parts -> Nat] /\ e \in [Parts -> Nat] /\ key \in [Parts -> Nat]
    /\ s2k \in [Parts -> Hashes]
    /\ seg \in [Parts -> Names]
    /\ out \in Seq(Printed)
    /\ dead \in BOOLEAN

\* What parser has found out about the line it is at.
Known(n) ==
    /\ pc[n] \in Parsing \ {"end"} => key[n] \in Lines
    /\ pc[n] \in Parsing \ {"end", "cut_end", "tab"} => text[key[n]].form # "no_tab"
    /\ pc[n] \in {"cut_space", "cut_flag", "file", "file_flag"} => text[key[n]].form # "bare"

\* The keys belong to the segment, and to lines of the file.
Belong(file, g, ks) ==
    \A j \in DOMAIN ks :
        /\ \E i \in DOMAIN file : ks[j] = file[i].key
        /\ \/ g = FlagSegs
           \/ \E i \in DOMAIN file : /\ file[i].form = "entry" /\ file[i].key = ks[j]
                                     /\ g \in Range(file[i].segs)

Filing ==
    /\ \A n \in Parts : /\ Known(n)
                        /\ \A g \in DOMAIN s2k[n] : Belong(text, g, s2k[n][g])
                        /\ pc[n] = "print_keys" => seg[n] \in DOMAIN s2k[n]
    /\ \A i \in DOMAIN out : Belong(text, out[i].seg, out[i].keys)

IInv == TypeOK /\ Filing /\ FaultsExplained

-----------------------------------------------------------------------------
(* What the lines of the text are. *)

LEMMA TextFacts ==
    ASSUME text \in Texts
    PROVE  /\ lengths \in Seq(Nat) /\ Len(lengths) = Len(text) /\ Len(text) \in Nat
           /\ DOMAIN lengths = Lines /\ Lines = 1..Len(text)
           /\ \A i \in Lines : lengths[i] = text[i].len
<1>1. /\ text \in Seq(Range(text))
      /\ \A i \in Lines : text[i].len \in Nat
  BY LinesAssumption DEF Lines
<1>2. Len(text) \in Nat /\ Lines = 1..Len(text)
  BY <1>1 DEF Lines
<1>3. lengths = [i \in 1..Len(text) |-> text[i].len]
  BY <1>2 DEF lengths, LengthsOf, Lines
<1>4. lengths \in Seq(Nat) /\ Len(lengths) = Len(text)
  BY <1>1, <1>2, <1>3
<1> QED
  BY <1>2, <1>3, <1>4

LEMMA LineFacts ==
    ASSUME text \in Texts, NEW i \in Lines
    PROVE  /\ text[i].form \in {"entry", "no_tab", "bare"}
           /\ text[i].key \in KeyNames
           /\ text[i].segs \in Seq(Range(text[i].segs)) /\ Len(text[i].segs) \in Nat \ {0}
           /\ Range(text[i].segs) \subseteq Names
<1>1. /\ text[i].form \in {"entry", "no_tab", "bare"}
      /\ text[i].key \in KeyNames
      /\ text[i].segs \in Seq(Range(text[i].segs)) /\ text[i].segs # <<>>
  BY LinesAssumption DEF Lines, KeyNames
<1>2. Len(text[i].segs) \in Nat \ {0}
  BY <1>1
<1>3. Range(text[i].segs) \subseteq Names
  BY DEF Names, Lines
<1> QED
  BY <1>1, <1>2, <1>3

LEMMA Searches ==
    ASSUME text \in Texts, NEW pos \in Nat
    PROVE  NextEnd(pos) = EndIn(lengths, pos) /\ NextEnd(pos) \in Nat /\ E \in Nat /\ E = Length(lengths)
<1>1. lengths \in Seq(Nat)
  BY TextFacts
<1>2. NextEnd(pos) = EndIn(lengths, pos) /\ E = Length(lengths)
  BY DEF NextEnd, EndIn, E
<1> HIDE DEF lengths
<1>3. Length(lengths) \in Nat /\ EndIn(lengths, pos) \in Nat
  BY <1>1, EndFound, EndsBefore
<1> QED
  BY <1>2, <1>3

\* The last of the numbers up to N that are in a set.
LEMMA Greatest ==
    ASSUME NEW N \in Nat, NEW T, T \subseteq 1..N, T # {}
    PROVE  Max(T) \in T
<1> DEFINE U == {N - x : x \in T}
<1>1. U \subseteq Nat /\ U # {}
  <2>1. ASSUME NEW x \in T PROVE N - x \in Nat
    OBVIOUS
  <2>2. PICK x : x \in T
    OBVIOUS
  <2>3. N - x \in U
    BY <2>2
  <2> QED
    BY <2>1, <2>3
<1> HIDE DEF U
<1>2. PICK u \in U : \A y \in U : u <= y
  BY <1>1, Least
<1>3. PICK x \in T : u = N - x
  BY DEF U
<1>4. ASSUME NEW y \in T PROVE x >= y
  <2>1. N - y \in U /\ x \in 1..N /\ y \in 1..N
    BY DEF U
  <2>2. N - x <= N - y
    BY <1>2, <1>3, <2>1
  <2> QED
    BY <2>1, <2>2
<1> QED
  BY <1>4 DEF Max

LEMMA LineType ==
    ASSUME text \in Texts, NEW pos \in Nat
    PROVE  LineAt(pos) \in 1..(Len(text) + 1)
<1> DEFINE T == {i \in 1..(Len(text) + 1) : LineStart(lengths, i) <= pos}
<1>1. lengths \in Seq(Nat) /\ Len(text) \in Nat
  BY TextFacts
<1>2. LineStart(lengths, 1) = 0
  <2> HIDE DEF lengths
  <2> QED
    BY <1>1, StartUnfolds
<1>3. 1 \in T
  BY <1>1, <1>2
<1>4. Len(text) + 1 \in Nat /\ T \subseteq 1..(Len(text) + 1) /\ T # {}
  BY <1>1, <1>3
<1> HIDE DEF T
<1>5. Max(T) \in T
  BY <1>4, Greatest
<1> QED
  BY <1>4, <1>5 DEF LineAt, T

-----------------------------------------------------------------------------
(* What a step does to the hash table of a part. *)

LEMMA FiledType ==
    ASSUME NEW hash \in Hashes, NEW g \in Names, NEW ks \in Seq(KeyNames)
    PROVE  Filed(hash, g, ks) \in Hashes
<1>1. PICK D \in SUBSET Names : hash \in [D -> Seq(KeyNames)]
  BY DEF Hashes
<1>2. D \cup {g} \in SUBSET Names /\ DOMAIN hash = D
  BY <1>1
<1>3. ASSUME NEW h \in D \cup {g} PROVE Filed(hash, g, ks)[h] \in Seq(KeyNames)
  <2>1. Filed(hash, g, ks)[h] =
            IF h # g THEN hash[h] ELSE (IF g \in DOMAIN hash THEN hash[g] ELSE <<>>) \o ks
    BY <1>2 DEF Filed
  <2>2. (IF g \in DOMAIN hash THEN hash[g] ELSE <<>>) \in Seq(KeyNames)
    BY <1>1, <1>2
  <2>3. (IF g \in DOMAIN hash THEN hash[g] ELSE <<>>) \o ks \in Seq(KeyNames)
    BY <2>2
  <2> QED
    BY <1>1, <2>1, <2>3
<1>4. Filed(hash, g, ks) \in [D \cup {g} -> Seq(KeyNames)]
  BY <1>2, <1>3 DEF Filed
<1> QED
  BY <1>2, <1>4 DEF Hashes

LEMMA FiledBelongs ==
    ASSUME NEW file, NEW hash \in Hashes, NEW g \in Names, NEW ks \in Seq(KeyNames),
           \A h \in DOMAIN hash : Belong(file, h, hash[h]), Belong(file, g, ks)
    PROVE  \A h \in DOMAIN Filed(hash, g, ks) : Belong(file, h, Filed(hash, g, ks)[h])
<1>1. PICK D \in SUBSET Names : hash \in [D -> Seq(KeyNames)]
  BY DEF Hashes
<1> SUFFICES ASSUME NEW h \in DOMAIN Filed(hash, g, ks)
             PROVE  Belong(file, h, Filed(hash, g, ks)[h])
  OBVIOUS
<1>2. /\ h \in D \cup {g} /\ DOMAIN hash = D
      /\ Filed(hash, g, ks)[h] =
            IF h # g THEN hash[h] ELSE (IF g \in DOMAIN hash THEN hash[g] ELSE <<>>) \o ks
  BY <1>1 DEF Filed
<1>3. CASE h # g
  BY <1>2, <1>3
<1>4. CASE h = g
  <2>1. PICK old \in Seq(KeyNames) : /\ old = IF g \in DOMAIN hash THEN hash[g] ELSE <<>>
                                 /\ Belong(file, g, old)
    <3>1. CASE g \in D
      BY <1>1, <1>2, <3>1
    <3>2. CASE g \notin D
      <4>1. <<>> \in Seq(KeyNames) /\ DOMAIN <<>> = {}
        OBVIOUS
      <4>2. Belong(file, g, <<>>)
        BY <4>1, Zenon DEF Belong
      <4> QED
        BY <1>2, <3>2, <4>1, <4>2
    <3> QED
      BY <3>1, <3>2
  <2>2. ASSUME NEW j \in DOMAIN (old \o ks)
        PROVE  \/ j \in DOMAIN old /\ (old \o ks)[j] = old[j]
               \/ j - Len(old) \in DOMAIN ks /\ (old \o ks)[j] = ks[j - Len(old)]
    OBVIOUS
  <2>3. Belong(file, g, old \o ks)
    <3> SUFFICES ASSUME NEW j \in DOMAIN (old \o ks)
                 PROVE  \/ \E i \in DOMAIN old : (old \o ks)[j] = old[i]
                        \/ \E i \in DOMAIN ks : (old \o ks)[j] = ks[i]
      BY <2>1 DEF Belong
    <3> QED
      BY <2>2
  <2> QED
    BY <1>2, <1>4, <2>1, <2>3
<1> QED
  BY <1>3, <1>4

-----------------------------------------------------------------------------
(* The invariant holds at first, and every step of a part preserves it. *)

LEMMA InitInv == Init => IInv
<1> SUFFICES ASSUME Init PROVE IInv
  OBVIOUS
<1>1. text \in Texts
  BY DEF Init
<1>2. l \in Nat
  <2>1. lengths \in Seq(Nat)
    BY <1>1, TextFacts
  <2> HIDE DEF lengths
  <2>2. PartLength(lengths, nthr) \in Nat
    BY <2>1, PartType, PartsAre
  <2> QED
    BY <2>2 DEF l
<1>3. \A n \in Parts : PartStart(lengths, n, nthr) \in Nat /\ PartStart(lengths, n, nthr) + l \in Nat
  <2> SUFFICES ASSUME NEW n \in Parts
               PROVE  PartStart(lengths, n, nthr) \in Nat /\ PartStart(lengths, n, nthr) + l \in Nat
    OBVIOUS
  <2>1. n \in Nat /\ lengths \in Seq(Nat)
    BY <1>1, TextFacts DEF Parts
  <2> HIDE DEF l, lengths
  <2>2. PartStart(lengths, n, nthr) \in Nat
    BY <2>1, PlaceType, PartsAre
  <2> QED
    BY <1>2, <2>2
<1>4. <<>> \in Hashes
  <2>1. <<>> \in [{} -> Seq(KeyNames)] /\ {} \in SUBSET Names
    OBVIOUS
  <2> QED
    BY <2>1 DEF Hashes
<1>5. FlagSegs \in Names
  BY DEF Names
<1>6. TypeOK
  <2>1. cut \in [Lines -> SUBSET Marks]
    BY DEF Init
  <2>2. pc \in [Parts -> Searching \cup Parsing \cup Printing]
    BY DEF Init, Searching
  <2>3. s \in [Parts -> Nat] /\ e \in [Parts -> Nat] /\ key \in [Parts -> Nat]
    BY <1>3 DEF Init
  <2>4. s2k \in [Parts -> Hashes] /\ seg \in [Parts -> Names]
    BY <1>4, <1>5 DEF Init
  <2>5. out \in Seq(Printed) /\ dead \in BOOLEAN
    <3>1. out = <<>> /\ dead = FALSE
      BY DEF Init
    <3>2. <<>> \in Seq(Printed)
      OBVIOUS
    <3> QED
      BY <3>1, <3>2
  <2> QED
    BY <1>1, <2>1, <2>2, <2>3, <2>4, <2>5 DEF TypeOK
<1>7. Filing
  <2>1. ASSUME NEW n \in Parts PROVE pc[n] = "none" /\ DOMAIN s2k[n] = {}
    <3>1. pc[n] = "none" /\ s2k[n] = <<>>
      BY DEF Init
    <3>2. DOMAIN <<>> = {}
      OBVIOUS
    <3> QED
      BY <3>1, <3>2
  <2>2. DOMAIN out = {}
    BY DEF Init
  <2> QED
    BY <2>1, <2>2 DEF Filing, Known, Parsing
<1>8. FaultsExplained
  BY DEF FaultsExplained, Init
<1> QED
  BY <1>6, <1>7, <1>8 DEF IInv

\* A step of part n that files no key and prints nothing.
LEMMA Quiet ==
    ASSUME IInv, NEW n \in Parts, UNCHANGED <<text, s2k, out, seg>>, TypeOK',
           \A m \in Parts \ {n} : pc'[m] = pc[m] /\ key'[m] = key[m],
           Known(n)', pc'[n] # "print_keys", FaultsExplained'
    PROVE  IInv'
<1>1. TypeOK /\ Filing
  BY DEF IInv
<1>2. ASSUME NEW m \in Parts PROVE Known(m)'
  <2>1. CASE m # n
    <3>1. Known(m)
      BY <1>1 DEF Filing
    <3> QED
      BY <2>1, <3>1 DEF Known, Lines
  <2> QED
    BY <2>1
<1>3. ASSUME NEW m \in Parts PROVE (pc[m] = "print_keys" => seg[m] \in DOMAIN s2k[m])'
  <2>1. CASE m # n
    BY <1>1, <2>1 DEF Filing
  <2> QED
    BY <2>1
<1>4. ASSUME NEW m \in Parts
      PROVE  (\A g \in DOMAIN s2k[m] : Belong(text, g, s2k[m][g]))'
  BY <1>1 DEF Filing
<1>5. (\A i \in DOMAIN out : Belong(text, out[i].seg, out[i].keys))'
  BY <1>1 DEF Filing
<1>6. Filing'
  BY <1>2, <1>3, <1>4, <1>5, Zenon DEF Filing
<1> QED
  BY <1>6 DEF IInv

\* A step that leaves the text as it is and the process alive.
LEMMA StillAlive ==
    ASSUME ~dead'
    PROVE  FaultsExplained'
  BY DEF FaultsExplained

LEMMA SearchPreserves ==
    ASSUME IInv, NEW n \in Parts, ~dead, Start(n) \/ From(n) \/ To(n)
    PROVE  IInv'
<1>1. TypeOK
  BY DEF IInv
<1>2. s[n] \in Nat /\ e[n] \in Nat /\ text \in Texts /\ Len(text) \in Nat
  BY <1>1, TextFacts DEF TypeOK
<1>3. NextEnd(s[n]) \in Nat /\ NextEnd(e[n]) \in Nat /\ E \in Nat
  BY <1>2, Searches
<1>4. LineAt(s[n]) \in Nat
  <2>1. LineAt(s[n]) \in 1..(Len(text) + 1)
    BY <1>2, LineType
  <2> QED
    BY <1>2, <2>1
<1>5. UNCHANGED <<text, cut, s2k, seg, out, dead>>
  BY DEF Start, From, To
<1>6. /\ pc' \in [Parts -> Searching \cup Parsing \cup Printing]
      /\ \A m \in Parts \ {n} : pc'[m] = pc[m]
      /\ pc'[n] \in Searching \cup {"end", "done"}
  <2>1. pc \in [Parts -> Searching \cup Parsing \cup Printing]
    BY <1>1 DEF TypeOK
  <2>2. CASE Start(n)
    BY <2>1, <2>2 DEF Start, Searching, Printing
  <2>3. CASE From(n)
    BY <2>1, <2>3 DEF From, Searching
  <2>4. CASE To(n)
    BY <2>1, <2>4 DEF To, Searching, Parsing, Printing
  <2> QED
    BY <2>2, <2>3, <2>4
<1>7. /\ s' \in [Parts -> Nat] /\ e' \in [Parts -> Nat] /\ key' \in [Parts -> Nat]
      /\ \A m \in Parts \ {n} : key'[m] = key[m]
  <2>1. s \in [Parts -> Nat] /\ e \in [Parts -> Nat] /\ key \in [Parts -> Nat]
    BY <1>1 DEF TypeOK
  <2>2. CASE Start(n)
    BY <2>1, <2>2 DEF Start
  <2>3. CASE From(n)
    BY <1>3, <2>1, <2>3 DEF From
  <2>4. CASE To(n)
    BY <1>3, <1>4, <2>1, <2>4 DEF To
  <2> QED
    BY <2>2, <2>3, <2>4
<1>8. TypeOK'
  BY <1>1, <1>5, <1>6, <1>7 DEF TypeOK, Lines
<1>9. Known(n)' /\ pc'[n] # "print_keys"
  BY <1>6 DEF Known, Parsing, Searching
<1>10. FaultsExplained'
  BY <1>5, StillAlive
<1> QED
  BY <1>5, <1>6, <1>7, <1>8, <1>9, <1>10, Quiet

\* Where NextLine takes part n.
LEMMA NextLineType ==
    ASSUME TypeOK, NEW n \in Parts, NextLine(n)
    PROVE  /\ key' \in [Parts -> Nat] /\ key'[n] = key[n] + 1
           /\ pc' \in [Parts -> Searching \cup Parsing \cup Printing]
           /\ pc'[n] \in {"print", "end"}
           /\ \A m \in Parts \ {n} : pc'[m] = pc[m] /\ key'[m] = key[m]
<1>1. key \in [Parts -> Nat] /\ pc \in [Parts -> Searching \cup Parsing \cup Printing]
  BY DEF TypeOK
<1>2. PICK c \in {"print", "end"} : pc' = [pc EXCEPT ![n] = c]
  BY DEF NextLine
<1>3. key' = [key EXCEPT ![n] = key[n] + 1]
  BY DEF NextLine
<1> QED
  BY <1>1, <1>2, <1>3 DEF Parsing, Printing

LEMMA CutType ==
    ASSUME TypeOK, UNCHANGED text, NEW n \in Parts, NEW mark \in Marks, Cut(n, mark)
    PROVE  cut' \in [Lines' -> SUBSET Marks]
  BY DEF TypeOK, Cut, Lines

\* A part goes on to another place of its program.
LEMMA GoesOn ==
    ASSUME TypeOK, NEW n \in Parts, NEW c \in Searching \cup Parsing \cup Printing,
           pc' = [pc EXCEPT ![n] = c]
    PROVE  /\ pc' \in [Parts -> Searching \cup Parsing \cup Printing]
           /\ pc'[n] = c /\ \A m \in Parts \ {n} : pc'[m] = pc[m]
<1>1. pc \in [Parts -> Searching \cup Parsing \cup Printing]
  BY DEF TypeOK
<1> QED
  BY <1>1

LEMMA ParseGoesOn ==
    ASSUME IInv, NEW n \in Parts,
           FindEnd(n) \/ CutEnd(n) \/ FindTab(n) \/ CutTab(n) \/ FindSpace(n) \/ CutSpace(n)
    PROVE  /\ pc' \in [Parts -> Searching \cup Parsing \cup Printing] /\ key' \in [Parts -> Nat]
           /\ \A m \in Parts \ {n} : pc'[m] = pc[m] /\ key'[m] = key[m]
           /\ Known(n)' /\ pc'[n] # "print_keys"
<1>1. TypeOK /\ Known(n)
  BY DEF IInv, Filing
<1>2. UNCHANGED text /\ key \in [Parts -> Nat]
  BY <1>1 DEF TypeOK, FindEnd, CutEnd, FindTab, CutTab, FindSpace, CutSpace
<1>3. CASE FindEnd(n)
  <2>1. pc' = [pc EXCEPT ![n] = IF key[n] \in Lines /\ cut[key[n]] = {} THEN "cut_end" ELSE "print"]
        /\ UNCHANGED key
    BY <1>3 DEF FindEnd
  <2>2. CASE key[n] \in Lines /\ cut[key[n]] = {}
    <3>1. pc' = [pc EXCEPT ![n] = "cut_end"] /\ "cut_end" \in Searching \cup Parsing \cup Printing
      BY <2>1, <2>2 DEF Parsing
    <3> QED
      BY <1>1, <1>2, <2>1, <2>2, <3>1, GoesOn DEF Known, Parsing, Lines
  <2>3. CASE ~ (key[n] \in Lines /\ cut[key[n]] = {})
    <3>1. pc' = [pc EXCEPT ![n] = "print"] /\ "print" \in Searching \cup Parsing \cup Printing
      BY <2>1, <2>3 DEF Printing
    <3> QED
      BY <1>1, <1>2, <2>1, <3>1, GoesOn DEF Known, Parsing
  <2> QED
    BY <2>2, <2>3
<1>4. CASE CutEnd(n)
  <2>1. pc[n] = "cut_end" /\ pc' = [pc EXCEPT ![n] = "tab"] /\ UNCHANGED key
    BY <1>4 DEF CutEnd
  <2>2. "tab" \in Searching \cup Parsing \cup Printing
    BY DEF Parsing
  <2> QED
    BY <1>1, <1>2, <2>1, <2>2, GoesOn DEF Known, Parsing, Lines
<1>5. CASE FindTab(n)
  <2>1. CASE text[key[n]].form = "no_tab" \/ "tab" \in cut[key[n]]
    <3>1. NextLine(n)
      BY <1>5, <2>1 DEF FindTab
    <3>2. pc'[n] \in {"print", "end"}
      BY <1>1, <3>1, NextLineType
    <3>3. Known(n)' /\ pc'[n] # "print_keys"
      BY <3>2 DEF Known, Parsing
    <3> QED
      BY <1>1, <3>1, <3>3, NextLineType
  <2>2. CASE ~ (text[key[n]].form = "no_tab" \/ "tab" \in cut[key[n]])
    <3>1. pc[n] = "tab" /\ pc' = [pc EXCEPT ![n] = "cut_tab"] /\ UNCHANGED key
      BY <1>5, <2>2 DEF FindTab
    <3>2. "cut_tab" \in Searching \cup Parsing \cup Printing
      BY DEF Parsing
    <3> QED
      BY <1>1, <1>2, <2>2, <3>1, <3>2, GoesOn DEF Known, Parsing, Lines
  <2> QED
    BY <2>1, <2>2
<1>6. CASE CutTab(n)
  <2>1. pc[n] = "cut_tab" /\ pc' = [pc EXCEPT ![n] = "space"] /\ UNCHANGED key
    BY <1>6 DEF CutTab
  <2>2. "space" \in Searching \cup Parsing \cup Printing
    BY DEF Parsing
  <2> QED
    BY <1>1, <1>2, <2>1, <2>2, GoesOn DEF Known, Parsing, Lines
<1>7. CASE FindSpace(n)
  <2>1. pc[n] = "space" /\ UNCHANGED key
    BY <1>7 DEF FindSpace
  <2>2. CASE text[key[n]].form = "bare"
    <3>1. UNCHANGED pc
      BY <1>7, <2>2 DEF FindSpace
    <3> QED
      BY <1>1, <1>2, <2>1, <3>1 DEF Known, Lines, TypeOK
  <2>3. CASE text[key[n]].form # "bare"
    <3>1. PICK c \in {"cut_flag", "cut_space"} : pc' = [pc EXCEPT ![n] = c]
      BY <1>7, <2>3 DEF FindSpace
    <3>2. c \in Searching \cup Parsing \cup Printing
      BY DEF Parsing
    <3> QED
      BY <1>1, <1>2, <2>1, <2>3, <3>1, <3>2, GoesOn DEF Known, Parsing, Lines
  <2> QED
    BY <2>2, <2>3
<1>8. CASE CutSpace(n)
  <2>1. pc[n] \in {"cut_space", "cut_flag"} /\ UNCHANGED key
    BY <1>8 DEF CutSpace
  <2>2. PICK c \in {"file", "file_flag"} : pc' = [pc EXCEPT ![n] = c]
    BY <1>8 DEF CutSpace
  <2>3. c \in Searching \cup Parsing \cup Printing
    BY DEF Parsing
  <2> QED
    BY <1>1, <1>2, <2>1, <2>2, <2>3, GoesOn DEF Known, Parsing, Lines
<1> QED
  BY <1>3, <1>4, <1>5, <1>6, <1>7, <1>8

LEMMA ParsePreserves ==
    ASSUME IInv, NEW n \in Parts, ~dead,
           FindEnd(n) \/ CutEnd(n) \/ FindTab(n) \/ CutTab(n) \/ FindSpace(n) \/ CutSpace(n)
    PROVE  IInv'
<1>1. TypeOK /\ Known(n)
  BY DEF IInv, Filing
<1>2. UNCHANGED <<text, s, e, s2k, seg, out>>
  BY DEF FindEnd, CutEnd, FindTab, CutTab, FindSpace, CutSpace
<1>3. cut' \in [Lines' -> SUBSET Marks]
  <2>1. CASE UNCHANGED cut
    BY <1>1, <1>2, <2>1 DEF TypeOK, Lines
  <2>2. CASE \E mark \in Marks : Cut(n, mark)
    BY <1>1, <1>2, <2>2, CutType
  <2>3. UNCHANGED cut \/ \E mark \in Marks : Cut(n, mark)
    BY DEF FindEnd, CutEnd, FindTab, CutTab, FindSpace, CutSpace, Marks
  <2> QED
    BY <2>1, <2>2, <2>3
<1>4. dead' \in BOOLEAN /\ FaultsExplained'
  <2>1. CASE FindSpace(n) /\ text[key[n]].form = "bare"
    <3>1. pc[n] = "space" /\ dead' = TRUE
      BY <2>1 DEF FindSpace
    <3>2. key[n] \in Lines
      BY <1>1, <3>1 DEF Known, Parsing
    <3> QED
      BY <1>2, <2>1, <3>1, <3>2 DEF FaultsExplained, Lines
  <2>2. CASE UNCHANGED dead
    <3>1. dead' = FALSE
      BY <1>1, <2>2 DEF TypeOK
    <3> QED
      BY <3>1, StillAlive
  <2>3. (FindSpace(n) /\ text[key[n]].form = "bare") \/ UNCHANGED dead
    BY DEF FindEnd, CutEnd, FindTab, CutTab, FindSpace, CutSpace
  <2> QED
    BY <2>1, <2>2, <2>3
<1>5. TypeOK'
  BY <1>1, <1>2, <1>3, <1>4, ParseGoesOn DEF TypeOK
<1> QED
  BY <1>2, <1>4, <1>5, ParseGoesOn, Quiet

\* The tokens of a line and the keys that are filed for them.
LEMMA TokensType ==
    ASSUME IInv, NEW n \in Parts, pc[n] \in {"file", "file_flag"}
    PROVE  LET k == text[key[n]].key
               ks == [i \in DOMAIN Tokens(n) |-> k]
           IN  /\ key[n] \in Lines /\ k \in KeyNames /\ text[key[n]].form = "entry"
               /\ Tokens(n)[1] \in Names /\ ks \in Seq(KeyNames)
               /\ Belong(text, Tokens(n)[1], ks)
<1> DEFINE k == text[key[n]].key
           g == Tokens(n)[1]
           ks == [i \in DOMAIN Tokens(n) |-> k]
           segs == text[key[n]].segs
<1>1. text \in Texts /\ Known(n)
  BY DEF IInv, TypeOK, Filing
<1>2. key[n] \in Lines /\ text[key[n]].form # "no_tab" /\ text[key[n]].form # "bare"
  BY <1>1 DEF Known, Parsing
<1>3. k \in KeyNames /\ segs \in Seq(Range(segs)) /\ Len(segs) \in Nat \ {0} /\ Range(segs) \subseteq Names
      /\ text[key[n]].form = "entry"
  BY <1>1, <1>2, LineFacts
<1>4. segs[1] \in Range(segs)
  BY <1>3
<1>5. \/ Tokens(n) = <<FlagSegs>>
      \/ Tokens(n) = <<segs[1]>>
      \/ Tokens(n) = segs
  BY DEF Tokens
<1>6. /\ \E N \in Nat : DOMAIN Tokens(n) = 1..N
      /\ g = FlagSegs \/ g = segs[1]
  <2>1. DOMAIN segs = 1..Len(segs) /\ Len(segs) \in Nat
    BY <1>3
  <2>2. \A x : DOMAIN <<x>> = 1..1 /\ <<x>>[1] = x
    OBVIOUS
  <2> HIDE DEF segs
  <2> QED
    BY <1>5, <2>1, <2>2
<1>7. g \in Names
  BY <1>3, <1>4, <1>6 DEF Names
<1> HIDE DEF g, k
<1>8. ks \in Seq(KeyNames) /\ \A j \in DOMAIN ks : ks[j] = k
  BY <1>3, <1>6
<1>9. Belong(text, g, ks)
  <2> SUFFICES ASSUME NEW j \in DOMAIN ks
               PROVE  /\ \E i \in DOMAIN text : ks[j] = text[i].key
                      /\ \/ g = FlagSegs
                         \/ \E i \in DOMAIN text : /\ text[i].form = "entry" /\ text[i].key = ks[j]
                                                   /\ g \in Range(text[i].segs)
    BY DEF Belong
  <2>1. ks[j] = text[key[n]].key /\ key[n] \in DOMAIN text
    BY <1>2, <1>8 DEF k, Lines
  <2> QED
    BY <1>3, <1>4, <1>6, <2>1
<1> QED
  BY <1>2, <1>3, <1>7, <1>8, <1>9 DEF g, k

LEMMA FilePreserves ==
    ASSUME IInv, NEW n \in Parts, ~dead, File(n)
    PROVE  IInv'
<1> DEFINE g == Tokens(n)[1]
           ks == [i \in DOMAIN Tokens(n) |-> text[key[n]].key]
           hash == Filed(s2k[n], g, ks)
<1>1. TypeOK /\ Filing
  BY DEF IInv
<1>2. pc[n] \in {"file", "file_flag"} /\ NextLine(n) /\ Cut(n, "slash") /\ UNCHANGED <<text, s, e, seg, out>>
  BY DEF File
<1>3. s2k' = [s2k EXCEPT ![n] = hash] /\ dead' \in {FALSE, ~Buffer(s2k'[n][g]).fits}
  BY DEF File
<1>4. g \in Names /\ ks \in Seq(KeyNames) /\ Belong(text, g, ks)
  BY <1>2, TokensType
<1> HIDE DEF g, ks
<1>5. s2k \in [Parts -> Hashes] /\ text \in Texts
  BY <1>1 DEF TypeOK
<1>6. s2k[n] \in Hashes /\ \A h \in DOMAIN s2k[n] : Belong(text, h, s2k[n][h])
  BY <1>1, <1>5 DEF Filing
<1>7. hash \in Hashes
  BY <1>4, <1>6, FiledType
<1>8. \A h \in DOMAIN hash : Belong(text, h, hash[h])
  BY <1>4, <1>6, FiledBelongs
<1>9. g \in DOMAIN hash
  BY DEF Filed
<1> HIDE DEF hash
<1>10. s2k' \in [Parts -> Hashes] /\ s2k'[n] = hash /\ \A m \in Parts \ {n} : s2k'[m] = s2k[m]
  BY <1>3, <1>5, <1>7
<1>11. dead' = FALSE \/ dead' = ~Buffer(hash[g]).fits
  BY <1>3, <1>10, Zenon
<1>12. dead' \in BOOLEAN
  BY <1>11, Zenon
<1>13. FaultsExplained'
  <2> SUFFICES ASSUME dead'
               PROVE  \E i \in DOMAIN text : KeyLen[text[i].key] >= KeysNew
    BY <1>2 DEF FaultsExplained, Lines
  <2>1. ~Buffer(hash[g]).fits
    BY <1>11, Zenon
  <2>2. hash[g] \in Seq(KeyNames)
    BY <1>7, <1>9 DEF Hashes
  <2>3. PICK j \in DOMAIN hash[g] : ~ (KeyLen[hash[g][j]] < KeysNew)
    BY <2>1, <2>2, BufferFits DEF KeyNames
  <2>4. PICK i \in DOMAIN text : hash[g][j] = text[i].key
    BY <1>8, <1>9 DEF Belong
  <2>5. text[i].key \in DOMAIN KeyLen
    BY <1>5, LineFacts DEF KeyNames, Lines
  <2>6. KeyLen[text[i].key] \in Nat /\ KeysNew \in Nat
    BY <2>5, KeysAssumption
  <2> QED
    BY <2>3, <2>4, <2>6
<1>14. cut' \in [Lines' -> SUBSET Marks]
  BY <1>1, <1>2, CutType DEF Marks
<1>15. TypeOK'
  BY <1>1, <1>2, <1>10, <1>12, <1>14, NextLineType DEF TypeOK
<1>16. pc'[n] \in {"print", "end"}
  BY <1>1, <1>2, NextLineType
<1>17. \A m \in Parts \ {n} : pc'[m] = pc[m] /\ key'[m] = key[m]
  BY <1>1, <1>2, NextLineType
<1>18. ASSUME NEW m \in Parts PROVE Known(m)'
  <2>1. CASE m = n
    BY <1>16, <2>1 DEF Known, Parsing
  <2>2. CASE m # n
    <3>1. Known(m)
      BY <1>1 DEF Filing
    <3> QED
      BY <1>2, <1>17, <2>2, <3>1 DEF Known, Lines
  <2> QED
    BY <2>1, <2>2
<1>19. ASSUME NEW m \in Parts PROVE (pc[m] = "print_keys" => seg[m] \in DOMAIN s2k[m])'
  <2>1. CASE m = n
    BY <1>16, <2>1
  <2>2. CASE m # n
    BY <1>1, <1>2, <1>10, <1>17, <2>2 DEF Filing
  <2> QED
    BY <2>1, <2>2
<1>20. ASSUME NEW m \in Parts
       PROVE  (\A h \in DOMAIN s2k[m] : Belong(text, h, s2k[m][h]))'
  <2>1. CASE m = n
    BY <1>2, <1>8, <1>10, <2>1
  <2>2. CASE m # n
    BY <1>1, <1>2, <1>10, <2>2 DEF Filing
  <2> QED
    BY <2>1, <2>2
<1>21. (\A i \in DOMAIN out : Belong(text, out[i].seg, out[i].keys))'
  BY <1>1, <1>2 DEF Filing
<1>22. Filing'
  BY <1>18, <1>19, <1>20, <1>21, Zenon DEF Filing
<1> QED
  BY <1>13, <1>15, <1>22 DEF IInv

LEMMA PrintPreserves ==
    ASSUME IInv, NEW n \in Parts, ~dead, PrintCreate(n) \/ PrintKeys(n)
    PROVE  IInv'
<1>1. TypeOK /\ Filing
  BY DEF IInv
<1>2. UNCHANGED <<text, cut, s, e, key, dead>>
  BY DEF PrintCreate, PrintKeys
<1>3. s2k \in [Parts -> Hashes] /\ seg \in [Parts -> Names] /\ out \in Seq(Printed)
  BY <1>1 DEF TypeOK
<1>4. PICK D \in SUBSET Names : s2k[n] \in [D -> Seq(KeyNames)]
  BY <1>3 DEF Hashes
<1>5. PICK c \in {"print", "print_keys"} :
          pc' = [pc EXCEPT ![n] = c] /\ (c = "print_keys" <=> pc[n] = "print")
  BY DEF PrintCreate, PrintKeys
<1>6. /\ pc' \in [Parts -> Searching \cup Parsing \cup Printing]
      /\ pc'[n] = c /\ \A m \in Parts \ {n} : pc'[m] = pc[m]
  <2>1. c \in Searching \cup Parsing \cup Printing
    BY DEF Printing
  <2>2. pc' = [pc EXCEPT ![n] = c]
    BY <1>5
  <2> HIDE DEF Searching, Parsing, Printing
  <2> QED
    BY ONLY <1>1, <2>1, <2>2, GoesOn
<1>7. PICK line \in Printed : /\ out' = Append(out, line)
                              /\ Belong(text, line.seg, line.keys)
  <2>1. CASE PrintCreate(n)
    <3>1. PICK g \in D : out' = Append(out, [op |-> "create", seg |-> g, keys |-> <<>>])
      BY <1>4, <2>1 DEF PrintCreate
    <3>2. [op |-> "create", seg |-> g, keys |-> <<>>] \in Printed
      BY DEF Printed
    <3>3. Belong(text, g, <<>>)
      <4>1. DOMAIN <<>> = {}
        OBVIOUS
      <4> QED
        BY <4>1, Zenon DEF Belong
    <3> QED
      BY <3>1, <3>2, <3>3
  <2>2. CASE PrintKeys(n)
    <3>1. seg[n] \in D /\ Belong(text, seg[n], s2k[n][seg[n]])
      BY <1>1, <1>4, <2>2 DEF Filing, PrintKeys
    <3>2. out' = Append(out, [op |-> "b", seg |-> seg[n], keys |-> s2k[n][seg[n]]])
      BY <2>2 DEF PrintKeys
    <3>3. [op |-> "b", seg |-> seg[n], keys |-> s2k[n][seg[n]]] \in Printed
      BY <1>4, <3>1 DEF Printed
    <3> QED
      BY <3>1, <3>2, <3>3
  <2> QED
    BY <2>1, <2>2
<1>8. /\ s2k' \in [Parts -> Hashes] /\ \A m \in Parts \ {n} : s2k'[m] = s2k[m]
      /\ \A h \in DOMAIN s2k'[n] : Belong(text, h, s2k'[n][h])
      /\ PrintCreate(n) => s2k'[n] = s2k[n]
  <2>1. \A h \in DOMAIN s2k[n] : Belong(text, h, s2k[n][h])
    BY <1>1 DEF Filing
  <2>2. CASE PrintCreate(n)
    BY <1>3, <2>1, <2>2 DEF PrintCreate
  <2>3. CASE PrintKeys(n)
    <3>1. PICK F \in SUBSET D : s2k' = [s2k EXCEPT ![n] = [h \in F |-> s2k[n][h]]]
      BY <1>4, <2>3 DEF PrintKeys, Restrict
    <3>2. [h \in F |-> s2k[n][h]] \in Hashes
      BY <1>4 DEF Hashes
    <3>3. \A h \in DOMAIN [x \in F |-> s2k[n][x]] : Belong(text, h, [x \in F |-> s2k[n][x]][h])
      BY <1>4, <2>1
    <3>4. s2k'[n] = [x \in F |-> s2k[n][x]] /\ s2k' \in [Parts -> Hashes]
          /\ \A m \in Parts \ {n} : s2k'[m] = s2k[m]
      BY <1>3, <3>1, <3>2
    <3>5. ~ PrintCreate(n)
      BY <2>3 DEF PrintKeys, PrintCreate
    <3> QED
      BY <3>3, <3>4, <3>5
  <2> QED
    BY <2>2, <2>3
<1>9. seg' \in [Parts -> Names] /\ \A m \in Parts \ {n} : seg'[m] = seg[m]
  <2>1. CASE PrintCreate(n)
    <3>1. PICK g \in D : seg' = [seg EXCEPT ![n] = g]
      BY <1>4, <2>1 DEF PrintCreate
    <3> QED
      BY <1>3, <3>1
  <2>2. CASE PrintKeys(n)
    BY <1>3, <2>2 DEF PrintKeys
  <2> QED
    BY <2>1, <2>2
<1>10. out' \in Seq(Printed)
  BY <1>3, <1>7
<1>11. TypeOK'
  BY <1>1, <1>2, <1>6, <1>8, <1>9, <1>10 DEF TypeOK, Lines
<1>12. ASSUME NEW m \in Parts PROVE Known(m)'
  <2>1. CASE m = n
    BY <1>6, <2>1 DEF Known, Parsing
  <2>2. CASE m # n
    <3>1. Known(m)
      BY <1>1 DEF Filing
    <3> QED
      BY <1>2, <1>6, <2>2, <3>1 DEF Known, Lines
  <2> QED
    BY <2>1, <2>2
<1>13. ASSUME NEW m \in Parts PROVE (pc[m] = "print_keys" => seg[m] \in DOMAIN s2k[m])'
  <2>1. CASE m = n
    <3> SUFFICES ASSUME pc'[n] = "print_keys" PROVE seg'[n] \in DOMAIN s2k'[n]
      BY <2>1
    <3>1. PrintCreate(n)
      BY <1>5, <1>6 DEF PrintKeys
    <3>2. PICK g \in D : seg' = [seg EXCEPT ![n] = g]
      BY <1>4, <3>1 DEF PrintCreate
    <3> QED
      BY <1>3, <1>4, <1>8, <3>1, <3>2
  <2>2. CASE m # n
    BY <1>1, <1>6, <1>8, <1>9, <2>2 DEF Filing
  <2> QED
    BY <2>1, <2>2
<1>14. ASSUME NEW m \in Parts
       PROVE  (\A h \in DOMAIN s2k[m] : Belong(text, h, s2k[m][h]))'
  <2>1. CASE m = n
    BY <1>2, <1>8, <2>1
  <2>2. CASE m # n
    BY <1>1, <1>2, <1>8, <2>2 DEF Filing
  <2> QED
    BY <2>1, <2>2
<1>15. (\A i \in DOMAIN out : Belong(text, out[i].seg, out[i].keys))'
  <2> SUFFICES ASSUME NEW i \in DOMAIN out'
               PROVE  Belong(text, out'[i].seg, out'[i].keys)
    BY <1>2
  <2>1. (i \in DOMAIN out /\ out'[i] = out[i]) \/ out'[i] = line
    BY <1>3, <1>7
  <2> QED
    BY <1>1, <1>7, <2>1 DEF Filing
<1>16. Filing'
  BY <1>12, <1>13, <1>14, <1>15, Zenon DEF Filing
<1>17. FaultsExplained'
  <2>1. dead' = FALSE
    BY <1>1, <1>2 DEF TypeOK
  <2> QED
    BY <2>1, StillAlive
<1> QED
  BY <1>11, <1>16, <1>17 DEF IInv

LEMMA ReturnPreserves ==
    ASSUME IInv, NEW n \in Parts, ~dead, Return(n)
    PROVE  IInv'
<1>1. TypeOK
  BY DEF IInv
<1>2. UNCHANGED <<text, cut, s, e, key, s2k, seg, out, dead>> /\ pc' = [pc EXCEPT ![n] = "done"]
  BY DEF Return
<1>3. /\ pc' \in [Parts -> Searching \cup Parsing \cup Printing]
      /\ pc'[n] = "done" /\ \A m \in Parts \ {n} : pc'[m] = pc[m]
  <2>1. "done" \in Searching \cup Parsing \cup Printing
    BY DEF Printing
  <2> QED
    BY <1>1, <1>2, <2>1, GoesOn
<1>4. TypeOK'
  BY <1>1, <1>2, <1>3 DEF TypeOK, Lines
<1>5. Known(n)'
  BY <1>3 DEF Known, Parsing
<1>6. FaultsExplained'
  <2>1. dead' = FALSE
    BY <1>1, <1>2 DEF TypeOK
  <2> QED
    BY <2>1, StillAlive
<1> QED
  BY <1>2, <1>3, <1>4, <1>5, <1>6, Quiet

LEMMA StopPreserves ==
    ASSUME IInv, UNCHANGED vars
    PROVE  IInv'
<1>1. UNCHANGED <<text, cut, pc, s, e, key, s2k, seg, out, dead>>
  BY DEF vars
<1>2. TypeOK'
  BY <1>1 DEF IInv, TypeOK, Lines
<1>3. Filing'
  BY <1>1 DEF IInv, Filing, Known, Lines
<1>4. FaultsExplained'
  BY <1>1 DEF IInv, FaultsExplained, Lines
<1> QED
  BY <1>2, <1>3, <1>4 DEF IInv

LEMMA NextInv == IInv /\ [Next]_vars => IInv'
<1> SUFFICES ASSUME IInv, [Next]_vars PROVE IInv'
  OBVIOUS
<1>1. CASE UNCHANGED vars
  BY <1>1, StopPreserves
<1>2. CASE Stopped
  BY <1>2, StopPreserves DEF Stopped
<1>3. ASSUME NEW n \in Parts, Parser(n) PROVE IInv'
  <2>1. ~dead
    BY <1>3 DEF Parser
  <2>2. CASE Start(n) \/ From(n) \/ To(n)
    BY <2>1, <2>2, SearchPreserves
  <2>3. CASE FindEnd(n) \/ CutEnd(n) \/ FindTab(n) \/ CutTab(n) \/ FindSpace(n) \/ CutSpace(n)
    BY <2>1, <2>3, ParsePreserves
  <2>4. CASE File(n)
    BY <2>1, <2>4, FilePreserves
  <2>5. CASE PrintCreate(n) \/ PrintKeys(n)
    BY <2>1, <2>5, PrintPreserves
  <2>6. CASE Return(n)
    BY <2>1, <2>6, ReturnPreserves
  <2> QED
    BY <1>3, <2>2, <2>3, <2>4, <2>5, <2>6 DEF Parser
<1> QED
  BY <1>1, <1>2, <1>3 DEF Next

\* The three parts of the invariant hold in every state (pack.c, main and parser).
THEOREM Invariance == Spec => []IInv
  BY InitInv, NextInv, PTL DEF Spec

\* The tables of every call hold keys under the names of segments, and what is printed
\* are such lists of keys (parser, keys_add).
THEOREM TypeCorrect == Spec => []TypeOK
<1>1. IInv => TypeOK
  BY DEF IInv
<1> QED
  BY <1>1, Invariance, PTL

\* A key is sent for a segment of an entry that has it, or for a piece of the flags
\* (parser).
THEOREM KeysFiled == Spec => []KeysBelong
<1>1. IInv => KeysBelong
  <2> SUFFICES ASSUME IInv, NEW i \in DOMAIN out, NEW j \in DOMAIN out[i].keys
               PROVE  \/ out[i].seg = FlagSegs
                      \/ \E k \in Lines : /\ text[k].form = "entry"
                                          /\ text[k].key = out[i].keys[j]
                                          /\ out[i].seg \in Range(text[k].segs)
    BY DEF KeysBelong
  <2>1. Belong(text, out[i].seg, out[i].keys)
    BY DEF IInv, Filing
  <2> QED
    BY <2>1 DEF Belong, Lines
<1> QED
  BY <1>1, Invariance, PTL

\* The process dies of a line without a space behind its tab or of a key as long as a
\* new buffer, however many keys a segment has (parser, keys_add).
THEOREM FaultsKnown == Spec => []FaultsExplained
<1>1. IInv => FaultsExplained
  BY DEF IInv
<1> QED
  BY <1>1, Invariance, PTL

-----------------------------------------------------------------------------
(* Why the parts do not meet, as long as no line is longer than a part.    *)
(* A part that searches looks for line ends in a text that the others cut. *)
(* It never passes its own last line end, as only the part itself could    *)
(* have cut that one: the line it ends begins in the part.                 *)

Stops(lines) == Starts(lines) \cup {Length(lines)}

\* A part that searches has not passed its last line end; one that parses is at a
\* line of its own.
Search(n, lines) ==
    /\ pc[n] \in Searching =>
          /\ e[n] >= (n * PartLength(lines, nthr)) + PartLength(lines, nthr)
          /\ n # nthr - 1 => e[n] = (n * PartLength(lines, nthr)) + PartLength(lines, nthr)
    /\ pc[n] = "none" => s[n] = n * PartLength(lines, nthr)
    /\ pc[n] = "from" => n * PartLength(lines, nthr) <= s[n] /\ EndIn(lines, s[n]) <= Final(lines, nthr, n)
    /\ pc[n] = "to" => /\ s[n] \in Stops(lines)
                       /\ Bound(lines, nthr, n) <= s[n] /\ s[n] <= Final(lines, nthr, n) + 1
    /\ pc[n] \in Parsing => /\ s[n] # e[n]
                            /\ n # nthr - 1 => e[n] = Bound(lines, nthr, n + 1)
                            /\ key[n] \in 1..(Len(lines) + 1)
                            /\ HasPart(lines, nthr, n, LineStart(lines, key[n]))

\* What is cut was cut by the part that has the line.
CutByOwner(lines) == \A i \in DOMAIN lines : cut[i] # {} =>
    \E n \in Parts : HasPart(lines, nthr, n, LineStart(lines, i)) /\ pc[n] \notin Searching

Territories(lines) == (\A n \in Parts : Search(n, lines)) /\ CutByOwner(lines)

Territory == Short(lengths, nthr) /\ NoWrap(lengths, nthr) => Territories(lengths)

LEMMA PartsType ==
    ASSUME NEW lines \in Seq(Nat), NEW n \in Parts
    PROVE  /\ PartLength(lines, nthr) \in Nat /\ n \in Nat /\ n * PartLength(lines, nthr) \in Nat
           /\ (n * PartLength(lines, nthr)) + PartLength(lines, nthr) \in Nat
           /\ n \in 0..nthr /\ n + 1 \in 0..nthr /\ n # nthr
           /\ Bound(lines, nthr, n) \in Nat /\ Bound(lines, nthr, n + 1) \in Nat
           /\ Bound(lines, nthr, n) <= Length(lines) /\ Bound(lines, nthr, n + 1) <= Length(lines)
           /\ Length(lines) \in Nat \ {0}
<1>1. n \in Nat /\ n \in 0..nthr /\ n + 1 \in 0..nthr /\ n # nthr
  BY PartsAre
<1>2. PartLength(lines, nthr) \in Nat /\ n * PartLength(lines, nthr) \in Nat /\ Length(lines) \in Nat \ {0}
  BY <1>1, PartType, Multiples, EndsBefore, PartsAre
<1> QED
  BY <1>1, <1>2, BoundType, PartsAre

\* The line end that closes a part which still searches has not been cut.
LEMMA LastEndWhole ==
    ASSUME TypeOK, NEW lines, lines = lengths, Short(lines, nthr), Territories(lines),
           NEW n \in Parts, pc[n] \in Searching, NEW i \in 1..Len(lines),
           NewlineOf(lines, i) = Final(lines, nthr, n)
    PROVE  Final(lines, nthr, n) \in Uncut
<1>1. lines \in Seq(Nat) /\ DOMAIN lines = Lines /\ Lines = 1..Len(lines) /\ Len(lines) \in Nat
  BY TextFacts DEF TypeOK
<1>2. LineStart(lines, i) \in Nat
  BY <1>1, EndsBefore
<1>3. HasPart(lines, nthr, n, LineStart(lines, i))
  BY <1>1, Owner, PartsAre
<1>4. cut[i] = {}
  <2> SUFFICES ASSUME cut[i] # {} PROVE FALSE
    OBVIOUS
  <2>1. PICK m \in Parts : HasPart(lines, nthr, m, LineStart(lines, i)) /\ pc[m] \notin Searching
    BY <1>1 DEF Territories, CutByOwner
  <2>2. m = n
    BY <1>1, <1>2, <1>3, <2>1, Apart, PartsAre
  <2> QED
    BY <2>1, <2>2
<1> HIDE DEF lengths
<1> QED
  BY <1>1, <1>4 DEF Uncut

\* A line end that has been found but is cut.
LEMMA PassedEnd ==
    ASSUME TypeOK, NEW lines, lines = lengths, Short(lines, nthr), Territories(lines),
           NEW n \in Parts, pc[n] \in Searching, NEW pos \in Nat,
           EndIn(lines, pos) \notin Uncut, EndIn(lines, pos) + 1 < Length(lines)
    PROVE  EndIn(lines, pos) # Final(lines, nthr, n) /\ EndIn(lines, pos) + 1 >= pos
<1>1. lines \in Seq(Nat)
  BY TextFacts DEF TypeOK
<1>2. EndIn(lines, pos) \in Nat /\ Length(lines) \in Nat
  BY <1>1, EndFound, EndsBefore
<1>3. PICK i \in 1..Len(lines) : EndIn(lines, pos) = NewlineOf(lines, i) /\ NewlineOf(lines, i) >= pos - 1
  <2>1. \/ EndIn(lines, pos) + 1 = Length(lines)
        \/ \E i \in 1..Len(lines) : /\ EndIn(lines, pos) = NewlineOf(lines, i)
                                    /\ NewlineOf(lines, i) >= pos - 1
    BY <1>1, EndFound
  <2>2. EndIn(lines, pos) + 1 # Length(lines)
    BY <1>2
  <2> QED
    BY <2>1, <2>2
<1>4. EndIn(lines, pos) # Final(lines, nthr, n)
  BY <1>3, LastEndWhole
<1> QED
  BY <1>2, <1>3, <1>4

\* The next line end behind one that comes before the last one of the part.
LEMMA NotPassed ==
    ASSUME NEW lines \in Seq(Nat), NEW n \in Parts, NEW q \in Nat, q < Final(lines, nthr, n)
    PROVE  EndIn(lines, q + 2) <= Final(lines, nthr, n)
<1>1. (n * PartLength(lines, nthr)) + PartLength(lines, nthr) \in Nat /\ Length(lines) \in Nat
  BY PartsType
<1>2. Final(lines, nthr, n) \in Nat /\ EndIn(lines, q + 2) \in Nat /\ EndIn(lines, q + 2) + 1 <= Length(lines)
  <2>1. q + 2 \in Nat
    OBVIOUS
  <2>2. EndIn(lines, q + 2) \in Nat /\ EndIn(lines, q + 2) + 1 <= Length(lines)
    BY <2>1, EndFound, EndBounded
  <2> QED
    BY <2>2, FinalBound, PartsAre
<1>3. \/ Final(lines, nthr, n) + 1 = Length(lines)
      \/ \E i \in 1..Len(lines) : Final(lines, nthr, n) = NewlineOf(lines, i)
  BY <1>1, EndFound DEF Final
<1>4. CASE Final(lines, nthr, n) + 1 = Length(lines)
  BY <1>1, <1>2, <1>4
<1>5. CASE \E i \in 1..Len(lines) : Final(lines, nthr, n) = NewlineOf(lines, i)
  <2>1. PICK i \in 1..Len(lines) : Final(lines, nthr, n) = NewlineOf(lines, i)
    BY <1>5
  <2>2. NewlineOf(lines, i) >= (q + 2) - 1
    BY <1>2, <2>1
  <2> QED
    BY <2>1, <2>2, EndFound
<1> QED
  BY <1>3, <1>4, <1>5

\* Nothing but the searches of part n changes, or a line that is its own is cut.
LEMMA OthersKept ==
    ASSUME NEW lines, Territories(lines), NEW n \in Parts,
           \A m \in Parts \ {n} : pc'[m] = pc[m] /\ s'[m] = s[m] /\ e'[m] = e[m] /\ key'[m] = key[m],
           Search(n, lines)', pc'[n] \in Searching => pc[n] \in Searching,
           \A i \in DOMAIN lines : \/ cut'[i] = cut[i]
                                   \/ HasPart(lines, nthr, n, LineStart(lines, i)) /\ pc'[n] \notin Searching
    PROVE  Territories(lines)'
<1>1. ASSUME NEW m \in Parts PROVE Search(m, lines)'
  <2>1. CASE m = n
    BY <2>1
  <2>2. CASE m # n
    <3>1. Search(m, lines)
      BY DEF Territories
    <3> QED
      BY <2>2, <3>1 DEF Search
  <2> QED
    BY <2>1, <2>2
<1>2. CutByOwner(lines)'
  <2> SUFFICES ASSUME NEW i \in DOMAIN lines, cut'[i] # {}
               PROVE  \E m \in Parts : HasPart(lines, nthr, m, LineStart(lines, i)) /\ pc'[m] \notin Searching
    BY DEF CutByOwner
  <2>1. CASE cut'[i] = cut[i]
    <3>1. PICK m \in Parts : HasPart(lines, nthr, m, LineStart(lines, i)) /\ pc[m] \notin Searching
      BY <2>1 DEF Territories, CutByOwner
    <3> QED
      BY <3>1
  <2>2. CASE cut'[i] # cut[i]
    BY <2>2
  <2> QED
    BY <2>1, <2>2
<1> QED
  BY <1>1, <1>2 DEF Territories

LEMMA InitTerritory == Init => Territory
<1> SUFFICES ASSUME Init, Short(lengths, nthr), NoWrap(lengths, nthr) PROVE Territories(lengths)
  BY DEF Territory
<1>1. PICK lines : lines = lengths
  OBVIOUS
<1>2. lines \in Seq(Nat) /\ DOMAIN lines = Lines
  BY <1>1, TextFacts DEF Init
<1>3. l = PartLength(lines, nthr)
  BY <1>1 DEF l
<1>4. ASSUME NEW n \in Parts PROVE Search(n, lines)
  <2>1. pc[n] = "none"
    BY DEF Init
  <2>2. s[n] = n * l /\ e[n] = n * l + l
    <3>1. s[n] = PartStart(lines, n, nthr) /\ e[n] = PartStart(lines, n, nthr) + l
      BY <1>1 DEF Init
    <3>2. PartStart(lines, n, nthr) = n * PartLength(lines, nthr)
      BY <1>1, <1>2, PlaceIs, PartsAre
    <3> HIDE DEF l
    <3> QED
      BY <1>3, <3>1, <3>2
  <2>3. (n * PartLength(lines, nthr)) + PartLength(lines, nthr) \in Nat
    BY <1>2, PartsType
  <2> HIDE DEF l
  <2> QED
    BY <1>3, <2>1, <2>2, <2>3 DEF Search, Parsing
<1>5. CutByOwner(lines)
  BY <1>2 DEF CutByOwner, Init
<1> QED
  BY <1>1, <1>4, <1>5 DEF Territories

LEMMA StartTerritory ==
    ASSUME TypeOK, NEW lines, lines = lengths, Short(lines, nthr), Territories(lines),
           NEW n \in Parts, Start(n)
    PROVE  Territories(lines)'
<1> DEFINE a == PartLength(lines, nthr)
<1>1. lines \in Seq(Nat) /\ pc \in [Parts -> Searching \cup Parsing \cup Printing]
  BY TextFacts DEF TypeOK
<1>2. /\ pc[n] = "none"
      /\ pc' = [pc EXCEPT ![n] = IF nthr > MostParts THEN "done" ELSE IF n > 0 THEN "from" ELSE "to"]
      /\ UNCHANGED <<cut, s, e, key>>
  BY DEF Start
<1>3. /\ pc'[n] = (IF nthr > MostParts THEN "done" ELSE IF n > 0 THEN "from" ELSE "to")
      /\ \A m \in Parts \ {n} : pc'[m] = pc[m]
  BY <1>1, <1>2
<1>4. /\ e[n] >= (n * a) + a /\ s[n] = n * a
      /\ n # nthr - 1 => e[n] = (n * a) + a
  BY <1>2 DEF Territories, Search, Searching
<1>5. a \in Nat /\ n \in Nat /\ n * a \in Nat /\ (n * a) + a \in Nat
  BY <1>1, PartsType
<1> HIDE DEF a
<1>6. n > 0 => EndIn(lines, s[n]) <= Final(lines, nthr, n)
  <2>1. n * a <= (n * a) + a
    BY <1>5
  <2>2. EndIn(lines, n * a) <= EndIn(lines, (n * a) + a)
    BY <1>1, <1>5, <2>1, EndsRise
  <2> QED
    BY <1>4, <2>2 DEF Final, a
<1>7. n = 0 => s[n] \in Stops(lines) /\ Bound(lines, nthr, n) <= s[n] /\ s[n] <= Final(lines, nthr, n) + 1
  <2> SUFFICES ASSUME n = 0
               PROVE  s[n] \in Stops(lines) /\ Bound(lines, nthr, n) <= s[n] /\ s[n] <= Final(lines, nthr, n) + 1
    OBVIOUS
  <2>1. s[n] = 0 /\ Bound(lines, nthr, n) = 0
    BY <1>4, <1>5 DEF Bound
  <2>2. LineStart(lines, 1) = 0 /\ 1 \in 1..(Len(lines) + 1)
    BY <1>1, StartUnfolds, EndsBefore
  <2>3. s[n] \in Starts(lines)
    BY <2>1, <2>2 DEF Starts
  <2>4. Final(lines, nthr, n) \in Nat
    BY <1>1, FinalBound, PartsAre
  <2> QED
    BY <2>1, <2>3, <2>4 DEF Stops
<1>8. Search(n, lines)'
  <2>3. CASE nthr > MostParts
    BY <1>3, <2>3 DEF Search, Searching, Parsing
  <2>1. CASE n > 0 /\ ~ (nthr > MostParts)
    <3>1. pc'[n] = "from"
      BY <1>3, <2>1
    <3> QED
      BY <1>2, <1>4, <1>5, <1>6, <2>1, <3>1 DEF Search, Parsing, a
  <2>2. CASE n = 0 /\ ~ (nthr > MostParts)
    <3>1. pc'[n] = "to"
      BY <1>3, <2>2
    <3> QED
      BY <1>2, <1>4, <1>5, <1>7, <2>2, <3>1 DEF Search, Parsing, a
  <2> QED
    BY <1>5, <2>1, <2>2, <2>3
<1> QED
  BY <1>2, <1>3, <1>8, OthersKept DEF Searching

LEMMA FromTerritory ==
    ASSUME TypeOK, NEW lines, lines = lengths, Short(lines, nthr), Territories(lines),
           NEW n \in Parts, From(n)
    PROVE  Territories(lines)'
<1> DEFINE a == PartLength(lines, nthr)
           q == EndIn(lines, s[n])
<1>1. lines \in Seq(Nat) /\ Lines = 1..Len(lines) /\ Len(lines) \in Nat
  BY TextFacts DEF TypeOK
<1>2. pc \in [Parts -> Searching \cup Parsing \cup Printing] /\ s \in [Parts -> Nat] /\ s[n] \in Nat
  BY DEF TypeOK
<1>3. NextEnd(s[n]) = q /\ E = Length(lines)
  BY <1>2, Searches DEF TypeOK
<1>4. pc[n] = "from" /\ UNCHANGED <<cut, e, key>>
  BY DEF From
<1>5. /\ e[n] >= (n * a) + a /\ n * a <= s[n] /\ q <= Final(lines, nthr, n)
      /\ n # nthr - 1 => e[n] = (n * a) + a
  BY <1>4 DEF Territories, Search, Searching
<1>6. /\ a \in Nat /\ n \in Nat /\ n * a \in Nat /\ (n * a) + a \in Nat
      /\ Bound(lines, nthr, n) \in Nat /\ Bound(lines, nthr, n) <= Length(lines) /\ Length(lines) \in Nat \ {0}
      /\ n # nthr
  BY <1>1, PartsType
<1>7. q \in Nat /\ q + 1 <= Length(lines) /\ Final(lines, nthr, n) \in Nat
  BY <1>1, <1>2, EndFound, EndBounded, FinalBound, PartsAre
<1>8. Bound(lines, nthr, n) <= q + 1
  <2>1. EndIn(lines, n * a) <= q /\ EndIn(lines, n * a) \in Nat
    BY <1>1, <1>2, <1>5, <1>6, EndsRise, EndFound
  <2> QED
    BY <1>6, <1>7, <2>1 DEF Bound
<1> HIDE DEF q
<1>9. CASE q + 1 >= E
  <2>1. s' = [s EXCEPT ![n] = E] /\ pc' = [pc EXCEPT ![n] = "to"]
    BY <1>3, <1>9 DEF From
  <2>2. s'[n] = Length(lines) /\ pc'[n] = "to"
        /\ \A m \in Parts \ {n} : pc'[m] = pc[m] /\ s'[m] = s[m]
    BY <1>2, <1>3, <2>1
  <2>3. Length(lines) <= Final(lines, nthr, n) + 1
    BY <1>3, <1>5, <1>6, <1>7, <1>9
  <2>4. Search(n, lines)'
    BY <1>4, <1>5, <1>6, <2>2, <2>3 DEF Search, Stops, Parsing
  <2> QED
    BY <1>4, <2>2, <2>4, OthersKept DEF Searching
<1>10. CASE ~ (q + 1 >= E) /\ q \in Uncut
  <2>1. s' = [s EXCEPT ![n] = q + 1] /\ pc' = [pc EXCEPT ![n] = "to"]
    BY <1>3, <1>10 DEF From
  <2>2. s'[n] = q + 1 /\ pc'[n] = "to"
        /\ \A m \in Parts \ {n} : pc'[m] = pc[m] /\ s'[m] = s[m]
    BY <1>2, <2>1
  <2>3. PICK i \in 1..Len(lines) : q = NewlineOf(lines, i)
    BY <1>1, <1>10 DEF Uncut
  <2>4. q + 1 = LineStart(lines, i + 1) /\ i + 1 \in 1..(Len(lines) + 1)
    BY <1>1, <2>3, EndsBefore
  <2>5. q + 1 \in Stops(lines)
    BY <2>4 DEF Stops, Starts
  <2>6. q + 1 <= Final(lines, nthr, n) + 1
    BY <1>5, <1>7
  <2>7. Search(n, lines)'
    BY <1>4, <1>5, <1>8, <2>2, <2>5, <2>6 DEF Search, Parsing
  <2> QED
    BY <1>4, <2>2, <2>7, OthersKept DEF Searching
<1>11. CASE ~ (q + 1 >= E) /\ q \notin Uncut
  <2>1. s' = [s EXCEPT ![n] = q + 2] /\ UNCHANGED pc
    BY <1>3, <1>11 DEF From
  <2>2. s'[n] = q + 2 /\ \A m \in Parts \ {n} : s'[m] = s[m]
    BY <1>2, <2>1
  <2>3. q # Final(lines, nthr, n) /\ q + 1 >= s[n]
    <3>1. q + 1 < Length(lines)
      BY <1>3, <1>6, <1>7, <1>11
    <3> QED
      BY <1>2, <1>4, <1>11, <3>1, PassedEnd DEF Searching, q
  <2>4. EndIn(lines, q + 2) <= Final(lines, nthr, n)
    BY <1>1, <1>5, <1>7, <2>3, NotPassed
  <2>5. n * a <= q + 2
    BY <1>2, <1>5, <1>6, <1>7, <2>3
  <2>6. Search(n, lines)'
    BY <1>4, <1>5, <2>1, <2>2, <2>4, <2>5 DEF Search, Parsing
  <2> QED
    BY <1>4, <2>1, <2>2, <2>6, OthersKept DEF Searching
<1> QED
  BY <1>9, <1>10, <1>11

\* A block begins at the line that its part has first.
LEMMA FirstLine ==
    ASSUME TypeOK, NEW lines, lines = lengths, NEW n \in Parts,
           s[n] \in Stops(lines), s[n] < Length(lines)
    PROVE  LineAt(s[n]) \in 1..(Len(lines) + 1) /\ LineStart(lines, LineAt(s[n])) = s[n]
<1>1. lines \in Seq(Nat) /\ Len(lines) = Len(text) /\ s[n] \in Nat
  BY TextFacts DEF TypeOK
<1>2. Length(lines) \in Nat
  BY <1>1, EndsBefore
<1>3. PICK i \in 1..(Len(lines) + 1) : s[n] = LineStart(lines, i)
  BY <1>1, <1>2 DEF Stops, Starts
<1>4. LineAt(s[n]) = Max({j \in 1..(Len(lines) + 1) : LineStart(lines, j) <= s[n]})
  BY <1>1 DEF LineAt
<1>5. LineAt(s[n]) = i
  BY <1>1, <1>3, <1>4, LineFound
<1> QED
  BY <1>3, <1>5

LEMMA ToTerritory ==
    ASSUME TypeOK, NEW lines, lines = lengths, Short(lines, nthr), Territories(lines),
           NEW n \in Parts, To(n)
    PROVE  Territories(lines)'
<1> DEFINE a == PartLength(lines, nthr)
           q == EndIn(lines, e[n])
<1>1. lines \in Seq(Nat) /\ Lines = 1..Len(lines) /\ Len(lines) \in Nat
  BY TextFacts DEF TypeOK
<1>2. /\ pc \in [Parts -> Searching \cup Parsing \cup Printing] /\ e \in [Parts -> Nat]
      /\ key \in [Parts -> Nat] /\ s[n] \in Nat /\ e[n] \in Nat
  BY DEF TypeOK
<1>3. NextEnd(e[n]) = q /\ E = Length(lines)
  BY <1>2, Searches DEF TypeOK
<1>4. pc[n] = "to" /\ UNCHANGED <<cut, s>>
  BY DEF To
<1>5. /\ e[n] >= (n * a) + a /\ (n # nthr - 1 => e[n] = (n * a) + a)
      /\ s[n] \in Stops(lines) /\ Bound(lines, nthr, n) <= s[n] /\ s[n] <= Final(lines, nthr, n) + 1
  BY <1>4 DEF Territories, Search, Searching
<1>6. /\ a \in Nat /\ n \in Nat /\ (n * a) + a \in Nat
      /\ Bound(lines, nthr, n) \in Nat /\ Bound(lines, nthr, n + 1) \in Nat /\ Length(lines) \in Nat \ {0}
  BY <1>1, PartsType
<1>7. q \in Nat /\ q + 1 <= Length(lines) /\ Final(lines, nthr, n) \in Nat /\ Final(lines, nthr, n) <= q
  <2>1. EndIn(lines, (n * a) + a) <= q
    BY <1>1, <1>2, <1>5, <1>6, EndsRise
  <2> QED
    BY <1>1, <1>2, <2>1, EndFound, EndBounded, FinalBound, PartsAre DEF Final
<1>8. n # nthr - 1 => q = Final(lines, nthr, n) /\ q + 1 = Bound(lines, nthr, n + 1)
  BY <1>1, <1>5, FinalBound, PartsAre DEF Final
<1>9. n = nthr - 1 => Bound(lines, nthr, n + 1) = Length(lines)
  BY PartsAre DEF Bound
<1> HIDE DEF q
<1>10. CASE q \in Uncut \/ q + 1 >= E
  <2>1. /\ e' = [e EXCEPT ![n] = q + 1]
        /\ pc' = [pc EXCEPT ![n] = IF s[n] = q + 1 THEN "done" ELSE "end"]
        /\ key' = [key EXCEPT ![n] = LineAt(s[n])]
    BY <1>3, <1>10 DEF To
  <2>2. /\ e'[n] = q + 1 /\ pc'[n] = (IF s[n] = q + 1 THEN "done" ELSE "end")
        /\ key'[n] = LineAt(s[n])
        /\ \A m \in Parts \ {n} : pc'[m] = pc[m] /\ e'[m] = e[m] /\ key'[m] = key[m]
    BY <1>2, <2>1
  <2>3. CASE s[n] = q + 1
    <3>1. pc'[n] = "done"
      BY <2>2, <2>3
    <3>2. Search(n, lines)'
      BY <3>1 DEF Search, Searching, Parsing
    <3> QED
      BY <1>4, <2>2, <3>1, <3>2, OthersKept DEF Searching
  <2>4. CASE s[n] # q + 1
    <3>1. pc'[n] = "end"
      BY <2>2, <2>4
    <3>2. s[n] < q + 1 /\ s[n] < Length(lines) /\ s[n] < Bound(lines, nthr, n + 1)
      <4>1. s[n] < q + 1
        BY <1>2, <1>5, <1>7, <2>4
      <4> QED
        BY <1>2, <1>6, <1>7, <1>8, <1>9, <4>1
    <3>3. LineAt(s[n]) \in 1..(Len(lines) + 1) /\ LineStart(lines, LineAt(s[n])) = s[n]
      BY <1>5, <3>2, FirstLine
    <3>4. HasPart(lines, nthr, n, LineStart(lines, LineAt(s[n])))
      BY <1>5, <3>2, <3>3 DEF HasPart
    <3>5. n # nthr - 1 => e'[n] = Bound(lines, nthr, n + 1)
      BY <1>8, <2>2
    <3>6. s'[n] # e'[n]
      BY <1>4, <2>2, <2>4
    <3>7. Search(n, lines)'
      BY <2>2, <3>1, <3>3, <3>4, <3>5, <3>6 DEF Search, Searching
    <3> QED
      BY <1>4, <2>2, <3>1, <3>7, OthersKept DEF Searching
  <2> QED
    BY <2>3, <2>4
<1>11. CASE ~ (q \in Uncut \/ q + 1 >= E)
  <2>1. e' = [e EXCEPT ![n] = q + 2] /\ UNCHANGED <<pc, key>>
    BY <1>3, <1>11 DEF To
  <2>2. e'[n] = q + 2 /\ \A m \in Parts \ {n} : e'[m] = e[m]
    BY <1>2, <2>1
  <2>3. q # Final(lines, nthr, n) /\ q + 1 >= e[n]
    <3>1. q + 1 < Length(lines)
      BY <1>3, <1>6, <1>7, <1>11
    <3> QED
      BY <1>2, <1>4, <1>11, <3>1, PassedEnd DEF Searching, q
  <2>4. n = nthr - 1
    BY <1>8, <2>3
  <2>5. q + 2 >= (n * a) + a
    BY <1>2, <1>5, <1>6, <1>7, <2>3
  <2>6. Search(n, lines)'
    BY <1>4, <1>5, <2>1, <2>2, <2>4, <2>5 DEF Search, Parsing
  <2> QED
    BY <1>4, <2>1, <2>2, <2>6, OthersKept DEF Searching
<1> QED
  BY <1>10, <1>11

\* The next line of a block is a line of the same part.
LEMMA NextLineOwn ==
    ASSUME TypeOK, NEW lines, lines = lengths, UNCHANGED <<text, s, e>>,
           NEW n \in Parts, Search(n, lines), pc[n] \in Parsing, NextLine(n)
    PROVE  Search(n, lines)'
<1>1. lines \in Seq(Nat) /\ Len(lines) = Len(text) /\ Len(lines) \in Nat
  BY TextFacts DEF TypeOK
<1>2. /\ s[n] # e[n] /\ (n # nthr - 1 => e[n] = Bound(lines, nthr, n + 1))
      /\ key[n] \in 1..(Len(lines) + 1) /\ HasPart(lines, nthr, n, LineStart(lines, key[n]))
  BY DEF Search
<1>3. key'[n] = key[n] + 1 /\ pc'[n] \in {"print", "end"}
  BY NextLineType
<1>4. CASE pc'[n] = "print"
  BY <1>4 DEF Search, Searching, Parsing
<1>5. CASE pc'[n] = "end"
  <2> DEFINE k == key[n] + 1
             stop == \/ k > Len(text)
                     \/ LineStart(lines, k) >= Block(n).start + Block(n).length
                     \/ text[k].len = 0 /\ "end" \in cut[k]
  <2>1. ~ stop
    <3>1. pc' = [pc EXCEPT ![n] = IF stop THEN "print" ELSE "end"]
      BY DEF NextLine
    <3>2. pc \in [Parts -> Searching \cup Parsing \cup Printing]
      BY DEF TypeOK
    <3> HIDE DEF stop
    <3> QED
      BY <1>5, <3>1, <3>2
  <2>2. k \in 1..Len(lines) /\ k \in 1..(Len(lines) + 1) /\ key[n] < k
    BY <1>1, <1>2, <2>1
  <2>3. s[n] \in Nat /\ e[n] \in Nat
    BY DEF TypeOK
  <2>4. E = Length(lines) /\ Length(lines) \in Nat
    BY <1>1, EndsBefore DEF E
  <2>5. Block(n).start + Block(n).length = IF n = nthr - 1 THEN Length(lines) ELSE e[n]
    <3>1. Block(n) = [start |-> s[n], length |-> (IF n = nthr - 1 THEN E ELSE e[n]) - s[n]]
      BY <1>2 DEF Block, BlockOf
    <3> QED
      BY <2>3, <2>4, <3>1
  <2>6. LineStart(lines, k) \in Nat /\ LineStart(lines, key[n]) \in Nat
        /\ LineStart(lines, key[n]) < LineStart(lines, k) /\ LineStart(lines, k) < Length(lines)
    BY <1>1, <1>2, <2>2, EndsBefore
  <2>7. LineStart(lines, k) < Bound(lines, nthr, n + 1)
    <3>1. CASE n = nthr - 1
      <4>1. Bound(lines, nthr, n + 1) = Length(lines)
        BY <3>1, PartsAre DEF Bound
      <4> QED
        BY <2>6, <4>1
    <3>2. CASE n # nthr - 1
      <4>1. ~ (LineStart(lines, k) >= e[n])
        BY <2>1, <2>5, <3>2
      <4> HIDE DEF k
      <4> QED
        BY <1>2, <2>3, <2>6, <3>2, <4>1
    <3> QED
      BY <3>1, <3>2
  <2>8. Bound(lines, nthr, n) <= LineStart(lines, k)
    <3>1. Bound(lines, nthr, n) \in Nat
      BY <1>1, PartsType
    <3> HIDE DEF k
    <3> QED
      BY <1>2, <2>6, <3>1 DEF HasPart
  <2>9. HasPart(lines, nthr, n, LineStart(lines, k))
    BY <2>7, <2>8 DEF HasPart
  <2>10. key'[n] = k
    BY <1>3
  <2> HIDE DEF k
  <2> QED
    BY <1>2, <1>5, <2>2, <2>9, <2>10 DEF Search, Searching
<1> QED
  BY <1>3, <1>4, <1>5

LEMMA ParseTerritory ==
    ASSUME IInv, NEW lines, lines = lengths, Short(lines, nthr), Territories(lines), NEW n \in Parts,
           \/ FindEnd(n) \/ CutEnd(n) \/ FindTab(n) \/ CutTab(n) \/ FindSpace(n) \/ CutSpace(n)
           \/ File(n)
    PROVE  Territories(lines)'
<1>1. TypeOK /\ Search(n, lines)
  BY DEF IInv, Territories
<1>2. UNCHANGED <<text, s, e>>
  BY DEF FindEnd, CutEnd, FindTab, CutTab, FindSpace, CutSpace, File
<1>3. pc[n] \in Parsing /\ pc[n] \notin Searching
  BY DEF FindEnd, CutEnd, FindTab, CutTab, FindSpace, CutSpace, File, Parsing, Searching
<1>4. pc \in [Parts -> Searching \cup Parsing \cup Printing] /\ text \in Texts
  BY <1>1 DEF TypeOK
<1>5. NextLine(n) \/ UNCHANGED key
  BY DEF FindEnd, CutEnd, FindTab, CutTab, FindSpace, CutSpace, File
<1>6. /\ \A m \in Parts \ {n} : pc'[m] = pc[m] /\ key'[m] = key[m]
      /\ pc'[n] \notin Searching
      /\ UNCHANGED key => pc'[n] \in Parsing \/ pc'[n] = "print"
  <2>1. CASE NextLine(n)
    BY <1>1, <2>1, NextLineType DEF Searching, Parsing
  <2>2. CASE ~ NextLine(n)
    <3>1. UNCHANGED key /\ (UNCHANGED pc \/ \E c \in Parsing \cup {"print"} : pc' = [pc EXCEPT ![n] = c])
      BY <2>2 DEF FindEnd, CutEnd, FindTab, CutTab, FindSpace, CutSpace, File, Parsing
    <3>2. \A c \in Parsing \cup {"print"} : c \notin Searching
      BY DEF Parsing, Searching
    <3> QED
      BY <1>3, <1>4, <3>1, <3>2
  <2> QED
    BY <2>1, <2>2
<1>7. Search(n, lines)'
  <2>1. CASE NextLine(n)
    BY <1>1, <1>2, <1>3, <2>1, NextLineOwn
  <2>2. CASE UNCHANGED key
    <3>1. CASE pc'[n] = "print"
      BY <3>1 DEF Search, Searching, Parsing
    <3>2. CASE pc'[n] \in Parsing
      BY <1>1, <1>2, <1>3, <1>6, <2>2, <3>2 DEF Search, Searching
    <3> QED
      BY <1>6, <2>2, <3>1, <3>2
  <2> QED
    BY <1>5, <2>1, <2>2
<1>8. ASSUME NEW i \in DOMAIN lines, cut'[i] # cut[i] PROVE HasPart(lines, nthr, n, LineStart(lines, i))
  <2>1. \E mark \in Marks : Cut(n, mark)
    BY <1>8 DEF FindEnd, CutEnd, FindTab, CutTab, FindSpace, CutSpace, File, Marks
  <2>2. i = key[n]
    BY <1>8, <2>1 DEF Cut
  <2> QED
    BY <1>1, <1>3, <2>2 DEF Search
<1> QED
  BY <1>2, <1>3, <1>6, <1>7, <1>8, OthersKept

LEMMA PrintTerritory ==
    ASSUME TypeOK, NEW lines, Territories(lines), NEW n \in Parts,
           PrintCreate(n) \/ PrintKeys(n) \/ Return(n)
    PROVE  Territories(lines)'
<1>1. UNCHANGED <<cut, s, e, key>>
  BY DEF PrintCreate, PrintKeys, Return
<1>2. PICK c \in Printing : pc' = [pc EXCEPT ![n] = c]
  BY DEF PrintCreate, PrintKeys, Return, Printing
<1>3. pc'[n] = c /\ \A m \in Parts \ {n} : pc'[m] = pc[m]
  BY <1>2 DEF TypeOK
<1>4. pc'[n] \notin Searching \cup Parsing
  BY <1>3 DEF Printing, Searching, Parsing
<1>5. Search(n, lines)'
  BY <1>4 DEF Search, Searching
<1> QED
  BY <1>1, <1>3, <1>4, <1>5, OthersKept

LEMMA NextTerritory == IInv /\ Territory /\ [Next]_vars => Territory'
<1> SUFFICES ASSUME IInv, Territory, [Next]_vars PROVE Territory'
  OBVIOUS
<1>1. UNCHANGED text
  BY DEF Next, Stopped, vars, Parser, Start, From, To, FindEnd, CutEnd, FindTab, CutTab, FindSpace,
         CutSpace, File, PrintCreate, PrintKeys, Return
<1>2. PICK lines : lines = lengths
  OBVIOUS
<1>3. lengths' = lines
  BY <1>1, <1>2 DEF lengths
<1>4. SUFFICES ASSUME Short(lines, nthr), NoWrap(lines, nthr) PROVE Territories(lines)'
  BY <1>3 DEF Territory
<1>5. Territories(lines) /\ TypeOK
  BY <1>2, <1>4 DEF Territory, IInv
<1>6. CASE UNCHANGED vars
  BY <1>5, <1>6 DEF Territories, Search, CutByOwner, vars
<1>7. ASSUME NEW n \in Parts, Parser(n) PROVE Territories(lines)'
  <2>1. CASE Start(n)
    BY <1>2, <1>4, <1>5, <2>1, StartTerritory
  <2>2. CASE From(n)
    BY <1>2, <1>4, <1>5, <2>2, FromTerritory
  <2>3. CASE To(n)
    BY <1>2, <1>4, <1>5, <2>3, ToTerritory
  <2>4. CASE \/ FindEnd(n) \/ CutEnd(n) \/ FindTab(n) \/ CutTab(n) \/ FindSpace(n)
             \/ CutSpace(n) \/ File(n)
    BY <1>2, <1>4, <1>5, <2>4, ParseTerritory
  <2>5. CASE PrintCreate(n) \/ PrintKeys(n) \/ Return(n)
    BY <1>5, <2>5, PrintTerritory
  <2> QED
    BY <1>7, <2>1, <2>2, <2>3, <2>4, <2>5 DEF Parser
<1>8. CASE Stopped
  BY <1>6, <1>8 DEF Stopped
<1> QED
  BY <1>6, <1>7, <1>8 DEF Next

LEMMA TerritoryHolds == Spec => []Territory
<1>1. Init => Territory
  BY InitTerritory
<1>2. IInv /\ Territory /\ [Next]_vars => Territory'
  BY NextTerritory
<1> QED
  BY <1>1, <1>2, Invariance, PTL DEF Spec

\* When no line is longer than a part and the places of the parts fit into an unsigned
\* int, no two calls ever parse the same line, whatever the text, the number of parts
\* and the order of their steps (getSubBlock, parser).
THEOREM Separate == Spec => []OwnLines
<1>1. IInv /\ Territory => OwnLines
  <2> SUFFICES ASSUME IInv, Territory, \A i \in Lines : text[i].len + 1 <= l, NoWrap(lengths, nthr),
                      NEW n \in Parts, NEW m \in Parts,
                      pc[n] \in Parsing, pc[m] \in Parsing, key[n] = key[m]
               PROVE  n = m
    BY DEF OwnLines
  <2>1. PICK lines : lines = lengths
    OBVIOUS
  <2>2. /\ lines \in Seq(Nat) /\ DOMAIN lines = Lines /\ \A i \in Lines : lines[i] = text[i].len
    BY <2>1, TextFacts DEF IInv, TypeOK
  <2>3. l = PartLength(lines, nthr)
    BY <2>1 DEF l
  <2>4. Short(lines, nthr)
    BY <2>2, <2>3 DEF Short
  <2>5. Search(n, lines) /\ Search(m, lines)
    BY <2>1, <2>4 DEF Territory, Territories
  <2>6. key[n] \in 1..(Len(lines) + 1)
        /\ HasPart(lines, nthr, n, LineStart(lines, key[n])) /\ HasPart(lines, nthr, m, LineStart(lines, key[n]))
    BY <2>5 DEF Search
  <2>7. LineStart(lines, key[n]) \in Nat
    BY <2>2, <2>6, EndsBefore
  <2> QED
    BY <2>2, <2>6, <2>7, Apart, PartsAre
<1> QED
  BY <1>1, Invariance, TerritoryHolds, PTL

\* The parts of a text whose places fit into an unsigned int never overlap and, when no
\* line is longer than a part, they are the whole text, unless they are more than
\* MostParts (getSubBlock).
THEOREM Split == Spec => []SplitSound
<1>1. SplitSound
  <2> SUFFICES ASSUME NEW file \in Splits, NEW p \in 1..MaxParts, NoWrap(file, p)
               PROVE  LET b == BlocksOf(file, p) IN
                      /\ \A i, j \in DOMAIN b : i # j => Positions(b[i]) \cap Positions(b[j]) = {}
                      /\ p <= MostParts /\ (\A i \in DOMAIN file : file[i] + 1 <= PartLength(file, p))
                         => UNION {Positions(b[i]) : i \in DOMAIN b} = 0..(Length(file) - 1)
    BY DEF SplitSound
  <2>1. file \in Seq(Nat) /\ p \in Nat \ {0}
    BY SplitsAssumption
  <2> QED
    BY <2>1, SplitOf DEF Short
<1> QED
  BY <1>1, PTL

-----------------------------------------------------------------------------
(* The powers of two. *)

\* Pow2 is what its recursion says.
LEMMA PowUnfolds ==
    /\ Pow2[0] = 1
    /\ \A x \in 1..31 : Pow2[x] = 2 * Pow2[x - 1]
    /\ \A x \in 0..31 : Pow2[x] \in Nat
<1> DEFINE F == [q \in Nat \X Nat |-> 2 * q[1]]
           Rec(f) == f = [x \in 0..31 |-> IF x = 0 THEN 1 ELSE 2 * f[x - 1]]
<1>1. F \in [Nat \X Nat -> Nat]
  OBVIOUS
<1>2. Defined(Nat, 1, F, 31)
  BY <1>1, Recursion
<1>3. PICK f \in [0..31 -> Nat] : f[0] = 1 /\ \A k \in 1..31 : f[k] = F[<<f[k - 1], k>>]
  BY <1>2 DEF Defined
<1>4. \A k \in 1..31 : f[k] = 2 * f[k - 1]
  <2>1. ASSUME NEW k \in 1..31 PROVE f[k] = 2 * f[k - 1]
    <3>1. f[k - 1] \in Nat /\ k \in Nat
      OBVIOUS
    <3>2. F[<<f[k - 1], k>>] = 2 * f[k - 1]
      BY <3>1
    <3> QED
      BY <1>3, <3>2
  <2> QED
    BY <2>1
<1>5. Rec(f)
  BY <1>3, <1>4
<1>6. Pow2 = CHOOSE g : Rec(g)
  BY DEF Pow2
<1>7. Rec(Pow2)
  <2> HIDE DEF Rec
  <2> QED
    BY <1>5, <1>6
<1>8. /\ Pow2[0] = 1
      /\ \A x \in 1..31 : Pow2[x] = 2 * Pow2[x - 1]
  BY <1>7
<1> DEFINE T == {x \in Nat : x <= 31 => Pow2[x] \in Nat}
<1>9. 0 \in T
  BY <1>8
<1>10. ASSUME NEW x \in T PROVE x + 1 \in T
  <2>1. CASE x + 1 <= 31
    <3>1. x + 1 \in 1..31 /\ (x + 1) - 1 = x /\ Pow2[x] \in Nat
      BY <2>1
    <3>2. Pow2[x + 1] = 2 * Pow2[x]
      BY <1>8, <3>1
    <3> QED
      BY <3>1, <3>2
  <2> QED
    BY <2>1
<1>11. \A x \in Nat : x \in T
  <2> HIDE DEF T
  <2>1. T \subseteq Nat
    BY DEF T
  <2> QED
    BY <1>9, <1>10, <2>1, Induct
<1> QED
  BY <1>8, <1>11

\* The powers rise.
LEMMA PowPositive == \A x \in 0..31 : Pow2[x] \in Nat /\ Pow2[x] >= x + 1
<1> DEFINE T == {x \in Nat : x <= 31 => Pow2[x] >= x + 1}
<1>1. 0 \in T
  BY PowUnfolds
<1>2. ASSUME NEW x \in T PROVE x + 1 \in T
  <2>1. CASE x + 1 <= 31
    <3>1. x + 1 \in 1..31 /\ (x + 1) - 1 = x /\ x \in 0..31
      BY <2>1
    <3>2. Pow2[x + 1] = 2 * Pow2[x] /\ Pow2[x] \in Nat /\ Pow2[x] >= x + 1
      BY <3>1, PowUnfolds
    <3> QED
      BY <3>1, <3>2
  <2> QED
    BY <2>1
<1>3. \A x \in Nat : x \in T
  <2> HIDE DEF T
  <2>1. T \subseteq Nat
    BY DEF T
  <2> QED
    BY <1>1, <1>2, <2>1, Induct
<1> QED
  BY <1>3, PowUnfolds

\* A greater power is at least twice a smaller one.
LEMMA PowRises == \A x, y \in 0..31 : x < y => 2 * Pow2[x] <= Pow2[y]
<1>1. SUFFICES ASSUME NEW x \in 0..31 PROVE \A y \in 0..31 : x < y => 2 * Pow2[x] <= Pow2[y]
  OBVIOUS
<1> DEFINE T == {y \in Nat : y <= 31 /\ x < y => 2 * Pow2[x] <= Pow2[y]}
<1>2. 0 \in T
  OBVIOUS
<1>3. ASSUME NEW y \in T PROVE y + 1 \in T
  <2>1. CASE y + 1 <= 31 /\ x < y + 1
    <3>1. y + 1 \in 1..31 /\ (y + 1) - 1 = y /\ y \in 0..31
      BY <2>1
    <3>2. Pow2[y + 1] = 2 * Pow2[y] /\ Pow2[y] \in Nat /\ Pow2[x] \in Nat
      BY <3>1, PowUnfolds
    <3>3. x = y \/ 2 * Pow2[x] <= Pow2[y]
      BY <2>1
    <3> QED
      BY <3>2, <3>3
  <2> QED
    BY <2>1
<1>4. \A y \in Nat : y \in T
  <2> HIDE DEF T
  <2>1. T \subseteq Nat
    BY DEF T
  <2> QED
    BY <1>2, <1>3, <2>1, Induct
<1> QED
  BY <1>4

Divides(d, z) == \E q \in Nat : z = d * q

\* A power of two that divides a product with an odd factor divides the other one.
LEMMA OddFactor ==
    \A m \in 0..31 : \A x, y \in Nat : x % 2 = 1 /\ Divides(Pow2[m], x * y) => Divides(Pow2[m], y)
<1> DEFINE Good(m) == \A x, y \in Nat : x % 2 = 1 /\ Divides(Pow2[m], x * y) => Divides(Pow2[m], y)
           T == {m \in Nat : m <= 31 => Good(m)}
<1>1. 0 \in T
  <2>1. ASSUME NEW y \in Nat PROVE Divides(Pow2[0], y)
    BY PowUnfolds DEF Divides
  <2> QED
    BY <2>1
<1>2. ASSUME NEW m \in T, m + 1 <= 31 PROVE Good(m + 1)
  <2>1. m + 1 \in 1..31 /\ (m + 1) - 1 = m /\ m \in 0..31
    BY <1>2
  <2>2. Pow2[m + 1] = 2 * Pow2[m] /\ Pow2[m] \in Nat
    BY <2>1, PowUnfolds
  <2>3. SUFFICES ASSUME NEW x \in Nat, NEW y \in Nat, x % 2 = 1, Divides(Pow2[m + 1], x * y)
                 PROVE  Divides(Pow2[m + 1], y)
    OBVIOUS
  <2>4. PICK q \in Nat : x * y = Pow2[m + 1] * q
    BY <2>3 DEF Divides
  <2>5. PICK a \in Nat : x = 2 * a + 1
    <3>1. x = 2 * (x \div 2) + 1 /\ x \div 2 \in Nat
      BY <2>3
    <3> QED
      BY <3>1
  <2>6. PICK ay \in Nat : ay = a * y
    OBVIOUS
  <2>7. PICK pq \in Nat : pq = Pow2[m] * q
    BY <2>2
  <2>8. x * y = 2 * ay + y
    BY <2>5, <2>6
  <2>9. Pow2[m + 1] * q = 2 * pq
    BY <2>2, <2>7
  <2>10. PICK z \in Nat : y = 2 * z
    <3>1. y = 2 * (pq - ay) /\ pq - ay \in Nat
      BY <2>4, <2>8, <2>9
    <3> QED
      BY <3>1
  <2>11. x * z = Pow2[m] * q
    <3>1. PICK xz \in Nat : xz = x * z
      OBVIOUS
    <3>2. x * y = 2 * xz
      BY <2>10, <3>1
    <3> QED
      BY <2>4, <2>7, <2>9, <3>1, <3>2
  <2>12. Divides(Pow2[m], z)
    BY <1>2, <2>1, <2>3, <2>11 DEF Divides
  <2>13. PICK r \in Nat : z = Pow2[m] * r
    BY <2>12 DEF Divides
  <2>14. y = Pow2[m + 1] * r
    <3>1. PICK pr \in Nat : pr = Pow2[m] * r
      BY <2>2
    <3>2. Pow2[m + 1] * r = 2 * pr
      BY <2>2, <3>1
    <3> QED
      BY <2>10, <2>13, <3>1, <3>2
  <2> QED
    BY <2>14 DEF Divides
<1>3. \A m \in Nat : m \in T
  <2>1. \A m \in T : m + 1 \in T
    <3>1. ASSUME NEW m \in T PROVE m + 1 \in T
      <4>1. m + 1 <= 31 => Good(m + 1)
        BY <1>2
      <4> HIDE DEF Good
      <4> QED
        BY <4>1
    <3> QED
      BY <3>1
  <2> HIDE DEF T
  <2>2. T \subseteq Nat
    BY DEF T
  <2> QED
    BY <1>1, <2>1, <2>2, Induct
<1> QED
  BY <1>3

LEMMA Division ==
    ASSUME NEW z \in Nat, NEW d \in Nat \ {0}
    PROVE  z = d * (z \div d) + (z % d) /\ z \div d \in Nat /\ z % d \in 0..(d - 1)
  OBVIOUS

\* The triangular numbers.
Triangle(j) == (j * (j + 1)) \div 2

\* They are whole numbers.
LEMMA TriangleType == \A j \in Nat : Triangle(j) \in Nat /\ 2 * Triangle(j) = j * (j + 1)
<1>1. SUFFICES ASSUME NEW j \in Nat PROVE Triangle(j) \in Nat /\ 2 * Triangle(j) = j * (j + 1)
  OBVIOUS
<1>2. PICK h \in Nat : j = 2 * h \/ j = 2 * h + 1
  <2>1. j \div 2 \in Nat /\ (j = 2 * (j \div 2) \/ j = 2 * (j \div 2) + 1)
    OBVIOUS
  <2> QED
    BY <2>1
<1>3. PICK p \in Nat : 2 * p = j * (j + 1)
  <2>1. CASE j = 2 * h
    <3>1. 2 * (h * (j + 1)) = j * (j + 1) /\ h * (j + 1) \in Nat
      BY <2>1
    <3> QED
      BY <3>1
  <2>2. CASE j = 2 * h + 1
    <3>1. j + 1 = 2 * (h + 1)
      BY <2>2
    <3>2. 2 * (j * (h + 1)) = j * (j + 1) /\ j * (h + 1) \in Nat
      BY <3>1
    <3> QED
      BY <3>2
  <2> QED
    BY <1>2, <2>1, <2>2
<1>4. (2 * p) \div 2 = p
  BY <1>3
<1> QED
  BY <1>3, <1>4 DEF Triangle

\* The first n steps of a search visit different buckets when n is a power of two.
LEMMA Different ==
    ASSUME NEW x \in 1..30, NEW n \in Nat, n = Pow2[x],
           NEW a \in 0..(n - 1), NEW b \in 0..(n - 1), a < b, NEW start \in Nat,
           (start + Triangle(a)) % n = (start + Triangle(b)) % n
    PROVE  FALSE
<1>1. x + 1 \in 1..31 /\ (x + 1) - 1 = x /\ x + 1 \in 0..31
  OBVIOUS
<1>2. Pow2[x + 1] = 2 * n
  BY <1>1, PowUnfolds
<1>3. PICK ta \in Nat : ta = Triangle(a) /\ 2 * ta = a * (a + 1)
  <2>1. a \in Nat
    OBVIOUS
  <2> QED
    BY <2>1, TriangleType
<1>4. PICK tb \in Nat : tb = Triangle(b) /\ 2 * tb = b * (b + 1)
  <2>1. b \in Nat
    OBVIOUS
  <2> QED
    BY <2>1, TriangleType
<1>5. PICK q \in Int : tb - ta = n * q
  <2>1. PICK za \in Nat : za = start + ta
    OBVIOUS
  <2>2. PICK zb \in Nat : zb = start + tb
    OBVIOUS
  <2>3. PICK qa \in Nat, qb \in Nat, rest \in Nat : za = n * qa + rest /\ zb = n * qb + rest
    <3>1. za % n = zb % n
      BY <1>3, <1>4, <2>1, <2>2
    <3>2. n \in Nat \ {0}
      OBVIOUS
    <3>3. /\ za = n * (za \div n) + (za % n) /\ za \div n \in Nat /\ za % n \in 0..(n - 1)
          /\ zb = n * (zb \div n) + (zb % n) /\ zb \div n \in Nat
      BY <3>2, Division
    <3> QED
      BY <3>1, <3>3
  <2>4. tb - ta = n * qb - n * qa
    BY <2>1, <2>2, <2>3
  <2>5. n * qb - n * qa = n * (qb - qa) /\ qb - qa \in Int
    OBVIOUS
  <2> QED
    BY <2>4, <2>5
<1>6. PICK d \in Nat : d = b - a /\ d >= 1 /\ d < n
  OBVIOUS
<1>7. PICK u \in Nat : u = a + b + 1 /\ u >= 1 /\ u < 2 * n
  OBVIOUS
<1>8. d * u = 2 * tb - 2 * ta
  <2>1. d * u = b * (b + 1) - a * (a + 1)
    BY <1>6, <1>7
  <2> QED
    BY <1>3, <1>4, <2>1
<1>9. d * u = Pow2[x + 1] * q
  <2>1. PICK nq \in Int : nq = n * q
    OBVIOUS
  <2>2. (2 * n) * q = 2 * nq
    BY <2>1
  <2> QED
    BY <1>2, <1>5, <1>8, <2>1, <2>2
<1>10. q \in Nat
  <2>1. CASE q < 0
    <3>1. d * u > 0
      BY <1>6, <1>7
    <3>2. Pow2[x + 1] > 0
      BY <1>2
    <3>3. Pow2[x + 1] * q < 0
      BY <2>1, <3>2, <1>2
    <3> QED
      BY <1>9, <3>1, <3>3, <1>2
  <2> QED
    BY <2>1
<1>11. Divides(Pow2[x + 1], d * u) /\ Divides(Pow2[x + 1], u * d)
  <2>1. d * u = u * d
    OBVIOUS
  <2> QED
    BY <1>9, <1>10, <2>1 DEF Divides
<1>12. d % 2 = 1 \/ u % 2 = 1
  <2>1. u = d + 2 * a + 1
    BY <1>6, <1>7
  <2> QED
    BY <2>1
<1>13. Divides(2 * n, d) \/ Divides(2 * n, u)
  BY <1>1, <1>2, <1>11, <1>12, OddFactor
<1>14. ASSUME NEW z \in Nat, z >= 1, z < 2 * n, Divides(2 * n, z) PROVE FALSE
  <2>1. PICK r \in Nat : z = (2 * n) * r
    BY <1>14 DEF Divides
  <2>2. r >= 1
    BY <1>14, <2>1
  <2>3. (2 * n) * r >= 2 * n
    BY <2>2
  <2> QED
    BY <1>14, <2>1, <2>3
<1> QED
  BY <1>6, <1>7, <1>13, <1>14

\* So they visit all of them.
LEMMA Coverage ==
    ASSUME NEW x \in 1..30, NEW n \in Nat, n = Pow2[x], NEW start \in Nat, NEW i \in 0..(n - 1)
    PROVE  \E j \in 0..(n - 1) : (start + Triangle(j)) % n = i
<1> DEFINE I == 0..(n - 1)
           f == [j \in I |-> (start + Triangle(j)) % n]
<1>1. n \in Nat \ {0}
  BY PowPositive
<1>2. f \in [I -> I]
  <2>1. ASSUME NEW j \in I PROVE (start + Triangle(j)) % n \in I
    <3>1. PICK z \in Nat : z = start + Triangle(j)
      BY TriangleType
    <3>2. z % n \in 0..(n - 1)
      BY <1>1
    <3> QED
      BY <3>1, <3>2
  <2> QED
    BY <2>1
<1>3. ASSUME NEW a \in I, NEW b \in I, f[a] = f[b] PROVE a = b
  <2>1. (start + Triangle(a)) % n = (start + Triangle(b)) % n
    BY <1>3
  <2>2. ~ (a < b) /\ ~ (b < a)
    BY <2>1, Different
  <2> QED
    BY <2>2
<1>4. f \in Injection(I, I)
  <2> HIDE DEF f
  <2> QED
    BY <1>2, <1>3 DEF Injection, IsInjective
<1>5. IsFiniteSet(I)
  BY FS_Interval
<1>6. f \in Surjection(I, I)
  <2> HIDE DEF f, I
  <2> QED
    BY <1>4, <1>5, FS_Injection
<1>7. PICK j \in I : f[j] = i
  <2>1. i \in I
    OBVIOUS
  <2> HIDE DEF f, I
  <2> QED
    BY <1>6, <2>1 DEF Surjection
<1> QED
  BY <1>7

-----------------------------------------------------------------------------
(* What a search finds in buckets some of which are empty. *)

\* An entry, a bucket, and the numbers of buckets of a table.
Entries    == Keys \X Vals
Cells      == {Empty, Deleted} \cup Entries
Sizes      == {Pow2[x] : x \in 2..30}
Buckets(n) == [0..(n - 1) -> Cells]

\* Some bucket is empty.
HasEmpty(n, b) == \E i \in 0..(n - 1) : b[i] = Empty

\* The steps of a search for k before step j meet no empty bucket.
Path(n, b, k, j)   == \A m \in 0..(j - 1) : b[Probe(n, k, m)] # Empty
OpenTo(n, b, k, i) == \E j \in 0..(n - 1) : Probe(n, k, j) = i /\ Path(n, b, k, j)
\* Every live key is where a search for it comes to before an empty bucket.
Reach(n, b)  == \A i \in 0..(n - 1) : IsLive(b[i]) => OpenTo(n, b, b[i][1], i)
\* No key is live twice; a key that is not live.
Single(n, b) == \A i, j \in 0..(n - 1) :
                    IsLive(b[i]) /\ IsLive(b[j]) /\ b[i][1] = b[j][1] => i = j
Absent(n, b, k) == \A i \in 0..(n - 1) : IsLive(b[i]) => b[i][1] # k

\* A table has more than two buckets.
LEMMA SizeFacts == \A n \in Sizes : n \in Nat /\ n >= 3
<1>1. ASSUME NEW x \in 2..30 PROVE Pow2[x] \in Nat /\ Pow2[x] >= 3
  <2>1. x \in 0..31
    OBVIOUS
  <2>2. Pow2[x] \in Nat /\ Pow2[x] >= x + 1
    BY <2>1, PowPositive
  <2> QED
    BY <2>2
<1> QED
  BY <1>1 DEF Sizes

\* Entries, and only they, are live.
LEMMA CellFacts ==
    /\ Empty # Deleted /\ ~IsLive(Empty) /\ ~IsLive(Deleted)
    /\ \A x \in Entries : IsLive(x) /\ x[1] \in Keys /\ x[2] \in Vals /\ x = <<x[1], x[2]>>
    /\ \A x \in Cells : IsLive(x) => x \in Entries
<1>1. Empty # Deleted
  BY DEF Empty, Deleted
<1>2. ASSUME NEW x \in Entries
      PROVE  IsLive(x) /\ x[1] \in Keys /\ x[2] \in Vals /\ x = <<x[1], x[2]>>
  <2>1. x[1] \in Keys /\ x[2] \in Vals /\ x = <<x[1], x[2]>>
    BY DEF Entries
  <2>2. Len(x) = 2 /\ Len(Empty) = 1 /\ Len(Deleted) = 1
    BY <2>1 DEF Empty, Deleted
  <2> QED
    BY <2>1, <2>2 DEF IsLive
<1> QED
  BY <1>1, <1>2 DEF IsLive, Cells

\* A search looks at buckets of the table.
LEMMA ProbeType ==
    ASSUME NEW n \in Sizes, NEW k \in Keys, NEW j \in Nat
    PROVE  Probe(n, k, j) \in 0..(n - 1) /\ Probe(n, k, j) = (HashFunc[k] + Triangle(j)) % n
<1>1. HashFunc[k] \in Nat /\ Triangle(j) \in Nat /\ n \in Nat \ {0}
  BY HashFuncAssumption, TriangleType, SizeFacts
<1>2. Probe(n, k, j) = (HashFunc[k] + Triangle(j)) % n
  BY DEF Probe, Triangle
<1>3. PICK z \in Nat : z = HashFunc[k] + Triangle(j)
  BY <1>1
<1>4. z % n \in 0..(n - 1)
  BY <1>1, Division
<1> QED
  BY <1>2, <1>3, <1>4

\* A search comes to every bucket.
LEMMA ProbeCovers ==
    ASSUME NEW n \in Sizes, NEW k \in Keys, NEW i \in 0..(n - 1)
    PROVE  \E j \in 0..(n - 1) : Probe(n, k, j) = i
<1>1. PICK x \in 2..30 : n = Pow2[x]
  BY DEF Sizes
<1>2. x \in 1..30 /\ n \in Nat /\ HashFunc[k] \in Nat
  BY SizeFacts, HashFuncAssumption
<1>3. PICK j \in 0..(n - 1) : (HashFunc[k] + Triangle(j)) % n = i
  BY <1>1, <1>2, Coverage
<1>4. j \in Nat
  OBVIOUS
<1> QED
  BY <1>3, <1>4, ProbeType

\* A search ends, in less than n steps, at its key or at an empty bucket.
LEMMA StopFound ==
    ASSUME NEW n \in Sizes, NEW b \in Buckets(n), NEW k \in Keys, HasEmpty(n, b)
    PROVE  /\ Stop(n, b, k) \in 0..(n - 1)
           /\ Ends(b[Probe(n, k, Stop(n, b, k))], k)
           /\ \A m \in 0..(Stop(n, b, k) - 1) : ~Ends(b[Probe(n, k, m)], k)
<1> DEFINE Good(j) == /\ j = (2 * n) - 1 \/ Ends(b[Probe(n, k, j)], k)
                      /\ \A m \in 0..(j - 1) : ~Ends(b[Probe(n, k, m)], k)
           T == {j \in Nat : Ends(b[Probe(n, k, j)], k)}
<1>1. n \in Nat /\ n >= 3
  BY SizeFacts
<1>2. PICK i \in 0..(n - 1) : b[i] = Empty
  BY DEF HasEmpty
<1>3. PICK j0 \in 0..(n - 1) : Probe(n, k, j0) = i
  BY ProbeCovers
<1>4. j0 \in T
  BY <1>2, <1>3 DEF Ends
<1>5. PICK j1 \in T : \A y \in T : j1 <= y
  <2>1. T \subseteq Nat /\ T # {}
    BY <1>4
  <2> HIDE DEF T
  <2> QED
    BY <2>1, Least
<1>6. j1 \in 0..((2 * n) - 1) /\ Good(j1)
  <2>1. j1 \in Nat /\ j1 <= j0 /\ Ends(b[Probe(n, k, j1)], k)
    BY <1>4, <1>5
  <2>2. ASSUME NEW m \in 0..(j1 - 1), Ends(b[Probe(n, k, m)], k) PROVE FALSE
    <3>1. m \in T /\ m < j1 /\ m \in Nat
      BY <2>1, <2>2
    <3> HIDE DEF T
    <3> QED
      BY <1>5, <2>1, <3>1
  <2> QED
    BY <1>1, <2>1, <2>2
<1>7. Stop(n, b, k) = CHOOSE j \in 0..((2 * n) - 1) : Good(j)
  BY DEF Stop
<1>8. Stop(n, b, k) \in 0..((2 * n) - 1) /\ Good(Stop(n, b, k))
  <2> HIDE DEF Good
  <2> QED
    BY <1>6, <1>7
<1> DEFINE w == Stop(n, b, k)
<1>9. w \in Nat /\ w <= j0
  <2>1. w \in Nat
    BY <1>1, <1>8
  <2>2. ASSUME j0 < w PROVE FALSE
    <3>1. j0 \in 0..(w - 1)
      BY <2>1, <2>2
    <3> QED
      BY <1>2, <1>3, <1>8, <3>1 DEF Ends
  <2> QED
    BY <2>1, <2>2
<1> HIDE DEF w
<1> QED
  <2>1. w \in 0..(n - 1) /\ w # (2 * n) - 1
    BY <1>1, <1>9
  <2> QED
    BY <1>8, <2>1 DEF w

\* The search of the rehashing ends at an empty bucket, and meets none before.
LEMMA FirstEmptyFound ==
    ASSUME NEW n \in Sizes, NEW b \in Buckets(n), NEW k \in Keys, HasEmpty(n, b)
    PROVE  /\ FirstEmpty(n, b, k) \in 0..(n - 1)
           /\ b[FirstEmpty(n, b, k)] = Empty
           /\ OpenTo(n, b, k, FirstEmpty(n, b, k))
<1> DEFINE Good(j) == /\ b[Probe(n, k, j)] = Empty
                      /\ \A m \in 0..(j - 1) : b[Probe(n, k, m)] # Empty
           T == {j \in Nat : b[Probe(n, k, j)] = Empty}
           c == CHOOSE j \in 0..((2 * n) - 2) : Good(j)
<1>1. n \in Nat /\ n >= 3
  BY SizeFacts
<1>2. PICK i \in 0..(n - 1) : b[i] = Empty
  BY DEF HasEmpty
<1>3. PICK j0 \in 0..(n - 1) : Probe(n, k, j0) = i
  BY ProbeCovers
<1>4. j0 \in T
  BY <1>2, <1>3
<1>5. PICK j1 \in T : \A y \in T : j1 <= y
  <2>1. T \subseteq Nat /\ T # {}
    BY <1>4
  <2> HIDE DEF T
  <2> QED
    BY <2>1, Least
<1>6. j1 \in 0..((2 * n) - 2) /\ Good(j1)
  <2>1. j1 \in Nat /\ j1 <= j0 /\ b[Probe(n, k, j1)] = Empty
    BY <1>4, <1>5
  <2>2. ASSUME NEW m \in 0..(j1 - 1), b[Probe(n, k, m)] = Empty PROVE FALSE
    <3>1. m \in T /\ m < j1 /\ m \in Nat
      BY <2>1, <2>2
    <3> HIDE DEF T
    <3> QED
      BY <1>5, <2>1, <3>1
  <2> QED
    BY <1>1, <2>1, <2>2
<1>7. c \in 0..((2 * n) - 2) /\ Good(c)
  <2> HIDE DEF Good
  <2> QED
    BY <1>6
<1>8. FirstEmpty(n, b, k) = Probe(n, k, c)
  BY DEF FirstEmpty
<1> HIDE DEF c
<1>9. c \in Nat /\ c <= j0
  <2>1. c \in Nat
    BY <1>1, <1>7
  <2>2. ASSUME j0 < c PROVE FALSE
    <3>1. j0 \in 0..(c - 1)
      BY <2>1, <2>2
    <3> QED
      BY <1>2, <1>3, <1>7, <3>1
  <2> QED
    BY <2>1, <2>2
<1>10. c \in 0..(n - 1)
  BY <1>1, <1>9
<1>11. OpenTo(n, b, k, Probe(n, k, c))
  BY <1>7, <1>10 DEF OpenTo, Path
<1>12. Probe(n, k, c) \in 0..(n - 1)
  BY <1>9, ProbeType
<1> QED
  BY <1>7, <1>8, <1>11, <1>12

-----------------------------------------------------------------------------
(* kh_get and the bucket of kh_put. *)

\* Where a key is live, the search for it ends there.
LEMMA StopLive ==
    ASSUME NEW n \in Sizes, NEW b \in Buckets(n), NEW k \in Keys, HasEmpty(n, b),
           Reach(n, b), Single(n, b),
           NEW i \in 0..(n - 1), IsLive(b[i]), b[i][1] = k
    PROVE  Probe(n, k, Stop(n, b, k)) = i
<1>1. n \in Nat /\ n >= 3
  BY SizeFacts
<1>2. PICK j \in 0..(n - 1) : Probe(n, k, j) = i /\ Path(n, b, k, j)
  BY DEF Reach, OpenTo
<1>3. PICK w \in 0..(n - 1) : /\ w = Stop(n, b, k)
                              /\ Ends(b[Probe(n, k, w)], k)
                              /\ \A m \in 0..(w - 1) : ~Ends(b[Probe(n, k, m)], k)
  BY StopFound
<1>4. ~ (j < w)
  <2>1. ASSUME j < w PROVE FALSE
    <3>1. j \in 0..(w - 1)
      BY <2>1
    <3>2. Ends(b[Probe(n, k, j)], k)
      BY <1>2 DEF Ends
    <3> QED
      BY <1>3, <3>1, <3>2
  <2> QED
    BY <2>1
<1>5. CASE w < j
  <2>1. w \in 0..(j - 1)
    BY <1>5
  <2>2. b[Probe(n, k, w)] # Empty
    BY <1>2, <2>1 DEF Path
  <2>3. IsLive(b[Probe(n, k, w)]) /\ b[Probe(n, k, w)][1] = k
    BY <1>3, <2>2 DEF Ends
  <2>4. w \in Nat
    OBVIOUS
  <2>5. Probe(n, k, w) \in 0..(n - 1)
    BY <2>4, ProbeType
  <2> QED
    BY <1>3, <2>3, <2>5 DEF Single
<1>6. CASE w = j
  BY <1>2, <1>3, <1>6
<1> QED
  BY <1>4, <1>5, <1>6

\* Where it is not, the search ends at an empty bucket.
LEMMA StopAbsent ==
    ASSUME NEW n \in Sizes, NEW b \in Buckets(n), NEW k \in Keys, HasEmpty(n, b), Absent(n, b, k)
    PROVE  b[Probe(n, k, Stop(n, b, k))] = Empty
<1>1. PICK w \in 0..(n - 1) : w = Stop(n, b, k) /\ Ends(b[Probe(n, k, w)], k)
  BY StopFound
<1>2. w \in Nat
  BY SizeFacts
<1>3. Probe(n, k, w) \in 0..(n - 1)
  BY <1>2, ProbeType
<1> QED
  BY <1>1, <1>3 DEF Ends, Absent

\* A record with the fields of a table.
IsTable(h) == h = [n |-> h.n, bucket |-> h.bucket, size |-> h.size,
                   occupied |-> h.occupied, upper |-> h.upper]

\* kh_get finds the bucket of a key that is live.
LEMMA LookupLive ==
    ASSUME NEW h, h.n \in Sizes, h.bucket \in Buckets(h.n), HasEmpty(h.n, h.bucket),
           Reach(h.n, h.bucket), Single(h.n, h.bucket),
           NEW k \in Keys, NEW i \in 0..(h.n - 1), IsLive(h.bucket[i]), h.bucket[i][1] = k
    PROVE  Lookup(h, k) = i
<1>1. h.n \in Nat /\ h.n >= 3
  BY SizeFacts
<1>2. Probe(h.n, k, Stop(h.n, h.bucket, k)) = i
  BY StopLive
<1>3. Stop(h.n, h.bucket, k) \in 0..(h.n - 1)
  BY StopFound
<1>4. Stop(h.n, h.bucket, k) < (2 * h.n) - 1
  BY <1>1, <1>3
<1> QED
  BY <1>1, <1>2, <1>4 DEF Lookup

\* kh_get finds no bucket of a key that is not.
LEMMA LookupAbsent ==
    ASSUME NEW h, h.n \in Sizes, h.bucket \in Buckets(h.n), HasEmpty(h.n, h.bucket),
           NEW k \in Keys, Absent(h.n, h.bucket, k)
    PROVE  Lookup(h, k) = h.n
<1>1. h.n \in Nat /\ h.n >= 3
  BY SizeFacts
<1>2. ~IsLive(h.bucket[Probe(h.n, k, Stop(h.n, h.bucket, k))])
  BY StopAbsent, CellFacts
<1> QED
  BY <1>1, <1>2 DEF Lookup

\* Where kh_put puts a key: where it is, or, if it is nowhere, in a bucket that is
\* not live and that the search for it comes to.
LEMMA SiteFound ==
    ASSUME NEW h, h.n \in Sizes, h.bucket \in Buckets(h.n), HasEmpty(h.n, h.bucket),
           Reach(h.n, h.bucket), Single(h.n, h.bucket), NEW k \in Keys
    PROVE  /\ Site(h, k) \in 0..(h.n - 1)
           /\ IF Absent(h.n, h.bucket, k)
              THEN ~IsLive(h.bucket[Site(h, k)]) /\ OpenTo(h.n, h.bucket, k, Site(h, k))
              ELSE IsLive(h.bucket[Site(h, k)]) /\ h.bucket[Site(h, k)][1] = k
<1> DEFINE n == h.n
           b == h.bucket
           DeadAt(j) == b[Probe(n, k, j)] = Deleted
<1>1. n \in Nat /\ n >= 3
  BY SizeFacts
<1>2. PICK w \in 0..(n - 1) : /\ w = Stop(n, b, k)
                              /\ Ends(b[Probe(n, k, w)], k)
                              /\ \A m \in 0..(w - 1) : ~Ends(b[Probe(n, k, m)], k)
  BY StopFound
<1> DEFINE last == CHOOSE j \in 0..(w - 1) : DeadAt(j) /\ \A m \in (j + 1)..(w - 1) : ~DeadAt(m)
           here == Probe(n, k, w)
<1>3. w \in Nat /\ w # (2 * n) - 1
  BY <1>1
<1>4. here \in 0..(n - 1)
  BY <1>3, ProbeType
<1>5. Site(h, k) = IF b[here] = Empty /\ \E j \in 0..(w - 1) : DeadAt(j)
                   THEN Probe(n, k, last) ELSE here
  BY <1>2, <1>3 DEF Site
<1>6. CASE ~Absent(n, b, k)
  <2>1. PICK i \in 0..(n - 1) : IsLive(b[i]) /\ b[i][1] = k
    BY <1>6 DEF Absent
  <2>2. here = i
    BY <1>2, <2>1, StopLive
  <2>3. b[here] # Empty
    BY <2>1, <2>2, CellFacts
  <2>4. Site(h, k) = here
    BY <1>5, <2>3
  <2> QED
    BY <1>6, <2>1, <2>2, <2>4
<1>7. ASSUME NEW j \in 0..(n - 1), j <= w PROVE OpenTo(n, b, k, Probe(n, k, j))
  <2>1. ASSUME NEW m \in 0..(j - 1) PROVE b[Probe(n, k, m)] # Empty
    <3>1. m \in 0..(w - 1)
      BY <1>7, <1>3
    <3> QED
      BY <1>2, <3>1 DEF Ends
  <2> QED
    BY <2>1 DEF OpenTo, Path
<1>8. CASE Absent(n, b, k)
  <2>1. b[here] = Empty
    BY <1>2, <1>8, StopAbsent
  <2>2. CASE \E j \in 0..(w - 1) : DeadAt(j)
    <3> DEFINE U == {z \in 0..(w - 1) : DeadAt(w - 1 - z)}
    <3>1. U \subseteq Nat /\ U # {}
      <4>1. PICK j \in 0..(w - 1) : DeadAt(j)
        BY <2>2
      <4>2. PICK z \in 0..(w - 1) : w - 1 - z = j
        <5>1. (w - 1) - j \in 0..(w - 1) /\ w - 1 - ((w - 1) - j) = j
          BY <1>3
        <5> QED
          BY <5>1
      <4>3. DeadAt(w - 1 - z)
        BY <4>1, <4>2
      <4> HIDE DEF DeadAt
      <4>4. z \in U
        BY <4>3
      <4>5. U \subseteq Nat
        OBVIOUS
      <4> HIDE DEF U
      <4> QED
        BY <4>4, <4>5
    <3>2. PICK z \in U : \A y \in U : z <= y
      <4> HIDE DEF U
      <4> QED
        BY <3>1, Least
    <3>3. PICK d \in 0..(w - 1) : d = w - 1 - z /\ DeadAt(d)
      <4>1. z \in 0..(w - 1) /\ DeadAt(w - 1 - z)
        BY <3>2
      <4>2. w - 1 - z \in 0..(w - 1)
        BY <1>3, <4>1
      <4> HIDE DEF DeadAt
      <4> QED
        BY <4>1, <4>2
    <3>4. ASSUME NEW m \in (d + 1)..(w - 1), DeadAt(m) PROVE FALSE
      <4>0. z \in 0..(w - 1)
        BY <3>2
      <4>1. w - 1 - m \in 0..(w - 1) /\ w - 1 - (w - 1 - m) = m /\ w - 1 - m < z
        BY <1>3, <3>3, <4>0
      <4>2. w - 1 - m \in U
        BY <3>4, <4>1
      <4> HIDE DEF U
      <4> QED
        BY <3>2, <4>0, <4>1, <4>2
    <3>5. DeadAt(d) /\ \A m \in (d + 1)..(w - 1) : ~DeadAt(m)
      BY <3>3, <3>4
    <3>6. last \in 0..(w - 1) /\ DeadAt(last)
      <4> HIDE DEF DeadAt
      <4> QED
        BY <3>5
    <3>7. Site(h, k) = Probe(n, k, last)
      BY <1>5, <2>1, <2>2
    <3> HIDE DEF last
    <3>8. last \in 0..(n - 1) /\ last <= w /\ last \in Nat
      BY <1>1, <1>3, <3>6
    <3>9. Probe(n, k, last) \in 0..(n - 1)
      BY <3>8, ProbeType
    <3>10. OpenTo(n, b, k, Probe(n, k, last))
      BY ONLY <1>7, <3>8
    <3>11. ~IsLive(b[Probe(n, k, last)])
      BY <3>6, CellFacts
    <3> QED
      BY ONLY <1>8, <3>7, <3>9, <3>10, <3>11
  <2>3. CASE ~ \E j \in 0..(w - 1) : DeadAt(j)
    <3>1. Site(h, k) = here
      BY <1>5, <2>3
    <3>2. OpenTo(n, b, k, here)
      BY <1>3, <1>7
    <3> QED
      BY <1>4, <1>8, <2>1, <3>1, <3>2, CellFacts
  <2> QED
    BY <2>2, <2>3
<1> QED
  BY <1>6, <1>8

-----------------------------------------------------------------------------
(* What a bucket that is written leaves as it was. *)

\* A bucket stays open to searches when no bucket is emptied.
LEMMA OpenKept ==
    ASSUME NEW n \in Sizes, NEW b, NEW b2, NEW k \in Keys, NEW i, OpenTo(n, b, k, i),
           \A a \in 0..(n - 1) : b2[a] = Empty => b[a] = Empty
    PROVE  OpenTo(n, b2, k, i)
<1>1. PICK j \in 0..(n - 1) : Probe(n, k, j) = i /\ Path(n, b, k, j)
  BY DEF OpenTo
<1>2. ASSUME NEW m \in 0..(j - 1) PROVE b2[Probe(n, k, m)] # Empty
  <2>1. m \in Nat
    OBVIOUS
  <2>2. Probe(n, k, m) \in 0..(n - 1)
    BY <2>1, ProbeType
  <2> QED
    BY <1>1, <2>2 DEF Path
<1>3. Path(n, b2, k, j)
  BY <1>2 DEF Path
<1> QED
  BY <1>1, <1>3 DEF OpenTo

\* The buckets b with x written into the bucket i.
Written(b, i, x) == [b EXCEPT ![i] = x]

LEMMA WrittenAt ==
    ASSUME NEW n \in Sizes, NEW b \in Buckets(n), NEW i \in 0..(n - 1), NEW x \in Cells
    PROVE  /\ Written(b, i, x) \in Buckets(n)
           /\ Written(b, i, x)[i] = x
           /\ \A a \in 0..(n - 1) : a # i => Written(b, i, x)[a] = b[a]
BY DEF Written, Buckets

\* Writing where the search for the key comes to keeps the keys in reach.
LEMMA WrittenReach ==
    ASSUME NEW n \in Sizes, NEW b \in Buckets(n), NEW i \in 0..(n - 1), NEW x \in Cells,
           Reach(n, b), x # Empty, IsLive(x) => OpenTo(n, b, x[1], i)
    PROVE  Reach(n, Written(b, i, x))
<1> DEFINE w == Written(b, i, x)
<1>1. w \in Buckets(n) /\ w[i] = x /\ \A a \in 0..(n - 1) : a # i => w[a] = b[a]
  BY WrittenAt
<1>2. \A a \in 0..(n - 1) : w[a] = Empty => b[a] = Empty
  BY <1>1
<1> HIDE DEF w
<1>3. ASSUME NEW a \in 0..(n - 1), IsLive(w[a]) PROVE OpenTo(n, w, w[a][1], a)
  <2>1. OpenTo(n, b, w[a][1], a)
    BY <1>1, <1>3 DEF Reach
  <2>2. w[a][1] \in Keys
    BY <1>1, <1>3, CellFacts DEF Buckets
  <2> QED
    BY <1>2, <2>1, <2>2, OpenKept
<1> QED
  BY <1>3 DEF Reach, w

-----------------------------------------------------------------------------
(* The turns of a rehashing. *)

\* The live buckets and their number; the buckets hold x; the number of entries in hand.
Lives(n, b)   == {i \in 0..(n - 1) : IsLive(b[i])}
Live(n, b)    == Cardinality(Lives(n, b))
In(n, b, x)   == \E i \in 0..(n - 1) : b[i] = x
One(x)        == IF x = Empty THEN 0 ELSE 1
\* No bucket is deleted.
NoDead(n, b)  == \A i \in 0..(n - 1) : b[i] # Deleted
\* No key is live in both.
NoneInBoth(old, new, N, n) == \A i \in 0..(N - 1), a \in 0..(n - 1) :
                              IsLive(old[i]) /\ IsLive(new[a]) => old[i][1] # new[a][1]

\* The number of live buckets.
LEMMA LivesFinite ==
    ASSUME NEW n \in Nat, NEW b
    PROVE  IsFiniteSet(Lives(n, b)) /\ Live(n, b) \in Nat /\ Live(n, b) <= n
<1>1. IsFiniteSet(0..(n - 1)) /\ Cardinality(0..(n - 1)) = n
  BY FS_Interval
<1>2. Lives(n, b) \in SUBSET (0..(n - 1))
  BY DEF Lives
<1> QED
  BY <1>1, <1>2, FS_Subset, FS_CardinalityType DEF Live

\* Buckets less than all of which are live have one that is not.
LEMMA SomeNotLive ==
    ASSUME NEW n \in Nat, NEW b, Live(n, b) < n
    PROVE  \E i \in 0..(n - 1) : ~IsLive(b[i])
<1>1. IsFiniteSet(0..(n - 1)) /\ Cardinality(0..(n - 1)) = n
  BY FS_Interval
<1>2. SUFFICES ASSUME \A i \in 0..(n - 1) : IsLive(b[i]) PROVE FALSE
  OBVIOUS
<1>3. Lives(n, b) = 0..(n - 1)
  BY <1>2 DEF Lives
<1>4. Live(n, b) = n
  BY ONLY <1>1, <1>3 DEF Live
<1> QED
  BY <1>4

\* Buckets that differ from b in the bucket i only.
LEMMA LivesLost ==
    ASSUME NEW n \in Nat, NEW b, NEW w, NEW i \in 0..(n - 1), IsLive(b[i]), ~IsLive(w[i]),
           \A a \in 0..(n - 1) : a # i => w[a] = b[a]
    PROVE  Live(n, w) = Live(n, b) - 1
<1>1. Lives(n, w) = Lives(n, b) \ {i} /\ i \in Lives(n, b)
  BY DEF Lives
<1>2. IsFiniteSet(Lives(n, b))
  BY LivesFinite
<1>3. Cardinality(Lives(n, b) \ {i}) = Cardinality(Lives(n, b)) - 1
  BY <1>1, <1>2, FS_RemoveElement
<1> QED
  BY <1>1, <1>3 DEF Live

\* A bucket more is live.
LEMMA LivesGained ==
    ASSUME NEW n \in Nat, NEW b, NEW w, NEW i \in 0..(n - 1), ~IsLive(b[i]), IsLive(w[i]),
           \A a \in 0..(n - 1) : a # i => w[a] = b[a]
    PROVE  Live(n, w) = Live(n, b) + 1
<1>1. Lives(n, w) = Lives(n, b) \cup {i} /\ i \notin Lives(n, b)
  BY DEF Lives
<1>2. IsFiniteSet(Lives(n, b))
  BY LivesFinite
<1>3. Cardinality(Lives(n, b) \cup {i}) = Cardinality(Lives(n, b)) + 1
  BY <1>1, <1>2, FS_AddElement
<1> QED
  BY <1>1, <1>3 DEF Live

\* The old bucket i is taken: left are the buckets then, taken is its entry or Empty.
TakenFrom(N, old, i, left, taken) ==
    /\ left \in [0..(N - 1) -> Cells] /\ Single(N, left)
    /\ taken \in {Empty} \cup Entries
    /\ taken # Empty => i \in 0..(N - 1) /\ IsLive(old[i])
                        /\ taken = old[i] /\ Absent(N, left, taken[1])
    /\ i \in 0..(N - 1) => ~IsLive(left[i])
    /\ \A a \in 0..(N - 1) : IsLive(left[a]) => IsLive(old[a]) /\ left[a] = old[a]
    /\ \A x \in Entries : In(N, old, x) <=> In(N, left, x) \/ taken = x
    /\ Live(N, left) + One(taken) = Live(N, old)

\* What a turn of the rehashing takes.
LEMMA TakenFacts ==
    ASSUME NEW N \in Nat, NEW old \in [0..(N - 1) -> Cells], Single(N, old), NEW i \in Nat
    PROVE  TakenFrom(N, old, i, Left(old, i), Taken(old, i))
<1>1. DOMAIN old = 0..(N - 1)
  OBVIOUS
<1>2. Live(N, old) \in Nat
  BY LivesFinite
<1>3. CASE i \in 0..(N - 1) /\ IsLive(old[i])
  <2>1. Taken(old, i) = old[i] /\ old[i] \in Entries /\ old[i] # Empty
    BY <1>1, <1>3, CellFacts DEF Taken
  <2>2. PICK w : w = Left(old, i)
    OBVIOUS
  <2>3. /\ w \in [0..(N - 1) -> Cells] /\ w[i] = Deleted
        /\ \A a \in 0..(N - 1) : a # i => w[a] = old[a]
    BY <1>1, <1>3, <2>2 DEF Left, Cells
  <2>4. ~IsLive(w[i])
    BY <2>3, CellFacts
  <2>5. Single(N, w)
    BY <2>3, <2>4 DEF Single
  <2>6. Absent(N, w, old[i][1])
    BY <1>3, <2>3, <2>4 DEF Absent, Single
  <2>7. Live(N, w) = Live(N, old) - 1
    BY <1>3, <2>3, <2>4, LivesLost
  <2>8. \A a \in 0..(N - 1) : IsLive(w[a]) => IsLive(old[a]) /\ w[a] = old[a]
    BY <2>3, <2>4
  <2>9. ASSUME NEW x \in Entries PROVE In(N, old, x) <=> In(N, w, x) \/ old[i] = x
    <3>1. x # Deleted
      BY CellFacts
    <3> QED
      BY <1>3, <2>3, <3>1 DEF In
  <2>10. Live(N, w) + One(old[i]) = Live(N, old)
    BY <1>2, <2>1, <2>7 DEF One
  <2> QED
    BY <1>3, <2>1, <2>2, <2>3, <2>4, <2>5, <2>6, <2>8, <2>9, <2>10 DEF TakenFrom
<1>4. CASE ~(i \in 0..(N - 1) /\ IsLive(old[i]))
  <2>1. Taken(old, i) = Empty /\ Left(old, i) = old
    BY <1>1, <1>4 DEF Taken, Left
  <2>2. \A x \in Entries : x # Empty
    BY CellFacts
  <2>3. Live(N, old) + One(Empty) = Live(N, old)
    BY <1>2 DEF One
  <2> QED
    BY <1>4, <2>1, <2>2, <2>3 DEF TakenFrom
<1> QED
  BY <1>3, <1>4

\* An entry is put in an empty bucket.
LEMMA PutFacts ==
    ASSUME NEW n \in Sizes, NEW b \in Buckets(n), NEW i \in 0..(n - 1), NEW x \in Entries,
           ~IsLive(b[i]), OpenTo(n, b, x[1], i), Absent(n, b, x[1]), Single(n, b), Reach(n, b)
    PROVE  /\ Written(b, i, x) \in Buckets(n) /\ Single(n, Written(b, i, x)) /\ Reach(n, Written(b, i, x))
           /\ \A a \in 0..(n - 1) : Written(b, i, x)[a] = (IF a = i THEN x ELSE b[a])
           /\ \A y \in Entries : In(n, Written(b, i, x), y) <=> In(n, b, y) \/ x = y
           /\ Live(n, Written(b, i, x)) = Live(n, b) + 1
<1>1. PICK w : w = Written(b, i, x)
  OBVIOUS
<1>2. x \in Cells /\ IsLive(x) /\ x # Empty
  BY CellFacts DEF Cells
<1>3. w \in Buckets(n) /\ w[i] = x /\ \A a \in 0..(n - 1) : a # i => w[a] = b[a]
  BY <1>1, <1>2, WrittenAt
<1>4. Reach(n, w)
  BY <1>1, <1>2, WrittenReach
<1>5. Single(n, w)
  BY <1>3 DEF Single, Absent
<1>6. ASSUME NEW y \in Entries PROVE In(n, w, y) <=> In(n, b, y) \/ x = y
  <2>1. b[i] # y
    BY CellFacts
  <2> QED
    BY <1>3, <2>1 DEF In
<1>7. Live(n, w) = Live(n, b) + 1
  <2>1. n \in Nat
    BY SizeFacts
  <2> QED
    BY <1>2, <1>3, <2>1, LivesGained
<1> QED
  BY <1>1, <1>3, <1>4, <1>5, <1>6, <1>7

\* What a turn finds and leaves.
Turns(N, n) == [j : Nat, old : [0..(N - 1) -> Cells], new : Buckets(n), hand : Cells]

\* After m turns of the rehashing of the N buckets b, size of which are live: every
\* entry is in the old buckets, in the new ones or in hand, and in one place.
RehashInv(r, m, N, n, b, size) ==
    /\ r \in Turns(N, n) /\ r.hand \in {Empty} \cup Entries
    /\ NoDead(n, r.new) /\ Reach(n, r.new)
    /\ Single(N, r.old) /\ Single(n, r.new) /\ NoneInBoth(r.old, r.new, N, n)
    /\ r.hand # Empty => /\ Absent(N, r.old, r.hand[1]) /\ Absent(n, r.new, r.hand[1])
                         /\ r.j <= N
    /\ \A i \in 0..(N - 1) : i < r.j => ~IsLive(r.old[i])
    /\ \A x \in Entries : In(N, b, x) <=> In(N, r.old, x) \/ In(n, r.new, x) \/ r.hand = x
    /\ Live(N, r.old) + Live(n, r.new) + One(r.hand) = size
    /\ m = r.j + Live(n, r.new)

\* The two kinds of turns.
TakeTurn(r) == [j |-> r.j + 1, old |-> Left(r.old, r.j), new |-> r.new, hand |-> Taken(r.old, r.j)]
PutTurn(r, i) == [j |-> r.j, old |-> Left(r.old, i), new |-> Written(r.new, i, r.hand),
                  hand |-> Taken(r.old, i)]

\* A turn takes or puts.
LEMMA TurnIs ==
    ASSUME NEW r, NEW n
    PROVE  Turn(r, n) = IF r.hand = Empty THEN TakeTurn(r)
                        ELSE PutTurn(r, FirstEmpty(n, r.new, r.hand[1]))
BY DEF Turn, TakeTurn, PutTurn, Written

\* Taking keeps the account of the rehashing.
LEMMA TakeKeeps ==
    ASSUME NEW N \in Nat, NEW n \in Sizes, NEW b, NEW size \in Nat, NEW m \in Nat,
           NEW r, RehashInv(r, m, N, n, b, size), r.hand = Empty
    PROVE  RehashInv(TakeTurn(r), m + 1, N, n, b, size)
<1> DEFINE j == r.j
           old == r.old
           q == TakeTurn(r)
<1>1. /\ j \in Nat /\ old \in [0..(N - 1) -> Cells] /\ r.new \in Buckets(n)
      /\ NoDead(n, r.new) /\ Reach(n, r.new)
      /\ Single(N, old) /\ Single(n, r.new) /\ NoneInBoth(old, r.new, N, n)
      /\ \A i \in 0..(N - 1) : i < j => ~IsLive(old[i])
      /\ \A x \in Entries : In(N, b, x) <=> In(N, old, x) \/ In(n, r.new, x) \/ r.hand = x
      /\ Live(N, old) + Live(n, r.new) + One(r.hand) = size
      /\ m = j + Live(n, r.new)
  BY DEF RehashInv, Turns
<1>2. PICK left : left = Left(old, j)
  OBVIOUS
<1>3. PICK taken : taken = Taken(old, j)
  OBVIOUS
<1>4. /\ left \in [0..(N - 1) -> Cells] /\ Single(N, left)
      /\ taken \in {Empty} \cup Entries
      /\ taken # Empty => j \in 0..(N - 1) /\ IsLive(old[j])
                          /\ taken = old[j] /\ Absent(N, left, taken[1])
      /\ j \in 0..(N - 1) => ~IsLive(left[j])
      /\ \A a \in 0..(N - 1) : IsLive(left[a]) => IsLive(old[a]) /\ left[a] = old[a]
      /\ \A x \in Entries : In(N, old, x) <=> In(N, left, x) \/ taken = x
      /\ Live(N, left) + One(taken) = Live(N, old)
  <2>1. TakenFrom(N, old, j, left, taken)
    BY <1>1, <1>2, <1>3, TakenFacts
  <2> HIDE DEF old, j
  <2> QED
    BY ONLY <2>1 DEF TakenFrom
<1>5. q = [j |-> j + 1, old |-> left, new |-> r.new, hand |-> taken]
  BY <1>2, <1>3 DEF TakeTurn
<1>6. q.j = j + 1 /\ q.old = left /\ q.new = r.new /\ q.hand = taken
  BY <1>5
<1> HIDE DEF q, old, j
<1>7. q \in Turns(N, n) /\ q.hand \in {Empty} \cup Entries
  <2>1. taken \in Cells
    BY <1>4 DEF Cells
  <2>2. j + 1 \in Nat
    BY <1>1
  <2> QED
    BY <1>1, <1>4, <1>5, <1>6, <2>1, <2>2 DEF Turns
<1>8. NoneInBoth(left, r.new, N, n)
  BY <1>1, <1>4 DEF NoneInBoth
<1>9. taken # Empty => Absent(N, left, taken[1]) /\ Absent(n, r.new, taken[1]) /\ j + 1 <= N
  <2>1. SUFFICES ASSUME taken # Empty
                 PROVE  Absent(N, left, taken[1]) /\ Absent(n, r.new, taken[1]) /\ j + 1 <= N
    OBVIOUS
  <2>2. j \in 0..(N - 1) /\ IsLive(old[j]) /\ taken = old[j] /\ Absent(N, left, taken[1])
    BY <1>4, <2>1
  <2>3. Absent(n, r.new, taken[1])
    BY <1>1, <2>2 DEF NoneInBoth, Absent
  <2> QED
    BY <2>2, <2>3
<1>10. \A i \in 0..(N - 1) : i < j + 1 => ~IsLive(left[i])
  <2>1. ASSUME NEW i \in 0..(N - 1), i < j + 1 PROVE ~IsLive(left[i])
    <3>1. i < j \/ i = j
      BY <1>1, <2>1
    <3> QED
      BY <1>1, <1>4, <3>1
  <2> QED
    BY <2>1
<1>11. \A x \in Entries : In(N, b, x) <=> In(N, left, x) \/ In(n, r.new, x) \/ taken = x
  <2>1. \A x \in Entries : r.hand # x
    BY CellFacts
  <2> QED
    BY <1>1, <1>4, <2>1
<1>12. Live(N, left) + Live(n, r.new) + One(taken) = size
  <2>1. Live(N, left) \in Nat /\ Live(n, r.new) \in Nat /\ Live(N, old) \in Nat
    BY LivesFinite, SizeFacts
  <2>2. One(r.hand) = 0
    BY DEF One
  <2>3. One(taken) \in {0, 1}
    BY DEF One
  <2> QED
    BY <1>1, <1>4, <2>1, <2>2, <2>3
<1>13. m + 1 = (j + 1) + Live(n, r.new)
  <2>1. Live(n, r.new) \in Nat
    BY LivesFinite, SizeFacts
  <2> QED
    BY <1>1, <2>1
<1>14. q.hand # Empty => Absent(N, q.old, q.hand[1]) /\ Absent(n, q.new, q.hand[1]) /\ q.j <= N
  BY ONLY <1>6, <1>9
<1>15. /\ \A i \in 0..(N - 1) : i < q.j => ~IsLive(q.old[i])
       /\ \A x \in Entries : In(N, b, x) <=> In(N, q.old, x) \/ In(n, q.new, x) \/ q.hand = x
       /\ Live(N, q.old) + Live(n, q.new) + One(q.hand) = size
       /\ m + 1 = q.j + Live(n, q.new)
  BY ONLY <1>6, <1>10, <1>11, <1>12, <1>13
<1>16. /\ NoDead(n, q.new) /\ Reach(n, q.new)
       /\ Single(N, q.old) /\ Single(n, q.new) /\ NoneInBoth(q.old, q.new, N, n)
  BY ONLY <1>1, <1>4, <1>6, <1>8
<1>17. RehashInv(q, m + 1, N, n, b, size)
  BY ONLY <1>7, <1>14, <1>15, <1>16 DEF RehashInv
<1> QED
  BY <1>17 DEF q

\* Putting, and kicking out what the old table has there, keeps it.
LEMMA PutKeeps ==
    ASSUME NEW N \in Nat, NEW n \in Sizes, NEW b, NEW size \in Nat, NEW m \in Nat, size < n,
           NEW r, RehashInv(r, m, N, n, b, size), r.hand # Empty
    PROVE  RehashInv(PutTurn(r, FirstEmpty(n, r.new, r.hand[1])), m + 1, N, n, b, size)
<1> DEFINE j == r.j
           old == r.old
           x == r.hand
           i == FirstEmpty(n, r.new, r.hand[1])
           q == PutTurn(r, i)
<1>1. /\ j \in Nat /\ old \in [0..(N - 1) -> Cells] /\ r.new \in Buckets(n) /\ x \in Entries
      /\ NoDead(n, r.new) /\ Reach(n, r.new)
      /\ Single(N, old) /\ Single(n, r.new) /\ NoneInBoth(old, r.new, N, n)
      /\ Absent(N, old, x[1]) /\ Absent(n, r.new, x[1]) /\ j <= N
      /\ \A a \in 0..(N - 1) : a < j => ~IsLive(old[a])
      /\ \A y \in Entries : In(N, b, y) <=> In(N, old, y) \/ In(n, r.new, y) \/ x = y
      /\ Live(N, old) + Live(n, r.new) + One(x) = size
      /\ m = j + Live(n, r.new)
  BY DEF RehashInv, Turns
<1>2. One(x) = 1
  BY DEF One
<1>3. Live(N, old) \in Nat /\ Live(n, r.new) \in Nat /\ n \in Nat
  BY LivesFinite, SizeFacts
<1>4. HasEmpty(n, r.new)
  <2>1. Live(n, r.new) < n
    BY <1>1, <1>2, <1>3
  <2>2. PICK a \in 0..(n - 1) : ~IsLive(r.new[a])
    BY <1>3, <2>1, SomeNotLive
  <2>3. r.new[a] = Empty
    BY <1>1, <2>2 DEF NoDead, IsLive
  <2> QED
    BY <2>3 DEF HasEmpty
<1>5. x[1] \in Keys
  BY <1>1, CellFacts
<1>6. i \in 0..(n - 1) /\ r.new[i] = Empty /\ OpenTo(n, r.new, x[1], i)
  BY <1>1, <1>4, <1>5, FirstEmptyFound
<1> HIDE DEF i
<1>7. PICK new : new = Written(r.new, i, x)
  OBVIOUS
<1>8. PICK left : left = Left(old, i)
  OBVIOUS
<1>9. PICK taken : taken = Taken(old, i)
  OBVIOUS
<1>10. i \in Nat
  BY <1>6
<1>11. /\ left \in [0..(N - 1) -> Cells] /\ Single(N, left)
       /\ taken \in {Empty} \cup Entries
       /\ taken # Empty => i \in 0..(N - 1) /\ IsLive(old[i])
                           /\ taken = old[i] /\ Absent(N, left, taken[1])
       /\ \A a \in 0..(N - 1) : IsLive(left[a]) => IsLive(old[a]) /\ left[a] = old[a]
       /\ \A y \in Entries : In(N, old, y) <=> In(N, left, y) \/ taken = y
       /\ Live(N, left) + One(taken) = Live(N, old)
  <2>1. Single(N, old) /\ old \in [0..(N - 1) -> Cells] /\ N \in Nat
    BY <1>1
  <2> HIDE DEF old
  <2>2. TakenFrom(N, old, i, left, taken)
    BY ONLY <1>8, <1>9, <1>10, <2>1, TakenFacts
  <2> QED
    BY ONLY <2>2 DEF TakenFrom
<1>12. /\ new \in Buckets(n) /\ Single(n, new) /\ Reach(n, new)
       /\ \A a \in 0..(n - 1) : new[a] = (IF a = i THEN x ELSE r.new[a])
       /\ \A y \in Entries : In(n, new, y) <=> In(n, r.new, y) \/ x = y
       /\ Live(n, new) = Live(n, r.new) + 1
  <2>1. ~IsLive(r.new[i])
    BY <1>6, CellFacts
  <2> QED
    BY <1>1, <1>6, <1>7, <2>1, PutFacts
<1>13. q = [j |-> j, old |-> left, new |-> new, hand |-> taken]
  BY <1>7, <1>8, <1>9 DEF PutTurn
<1>14. q.j = j /\ q.old = left /\ q.new = new /\ q.hand = taken
  BY <1>13
<1> HIDE DEF q, old, j, x
<1>15. q \in Turns(N, n) /\ q.hand \in {Empty} \cup Entries
  <2>1. taken \in Cells
    BY <1>11 DEF Cells
  <2> QED
    BY <1>1, <1>11, <1>12, <1>13, <1>14, <2>1 DEF Turns
<1>16. NoDead(n, new)
  BY <1>1, <1>12, CellFacts DEF NoDead
<1>17. NoneInBoth(left, new, N, n)
  <2>1. ASSUME NEW a \in 0..(N - 1), NEW c \in 0..(n - 1), IsLive(left[a]), IsLive(new[c])
        PROVE  left[a][1] # new[c][1]
    <3>1. IsLive(old[a]) /\ left[a] = old[a]
      BY <1>11, <2>1
    <3>2. CASE c = i
      BY <1>1, <1>12, <3>1, <3>2 DEF Absent
    <3>3. CASE c # i
      BY <1>1, <1>12, <2>1, <3>1, <3>3 DEF NoneInBoth
    <3> QED
      BY <3>2, <3>3
  <2> QED
    BY <2>1 DEF NoneInBoth
<1>18. taken # Empty => Absent(N, left, taken[1]) /\ Absent(n, new, taken[1]) /\ j <= N
  <2>1. SUFFICES ASSUME taken # Empty
                 PROVE  Absent(N, left, taken[1]) /\ Absent(n, new, taken[1]) /\ j <= N
    OBVIOUS
  <2>2. i \in 0..(N - 1) /\ IsLive(old[i]) /\ taken = old[i] /\ Absent(N, left, taken[1])
    BY <1>11, <2>1
  <2>3. ASSUME NEW c \in 0..(n - 1), IsLive(new[c]) PROVE new[c][1] # taken[1]
    <3>1. CASE c = i
      BY <1>1, <1>12, <2>2, <3>1 DEF Absent
    <3>2. CASE c # i
      BY <1>1, <1>12, <2>2, <2>3, <3>2 DEF NoneInBoth
    <3> QED
      BY <3>1, <3>2
  <2> QED
    BY <1>1, <2>2, <2>3 DEF Absent
<1>19. \A a \in 0..(N - 1) : a < j => ~IsLive(left[a])
  BY <1>1, <1>11
<1>20. \A y \in Entries : In(N, b, y) <=> In(N, left, y) \/ In(n, new, y) \/ taken = y
  BY ONLY <1>1, <1>11, <1>12
<1>21. Live(N, left) + Live(n, new) + One(taken) = size
  <2>1. Live(N, left) \in Nat /\ Live(n, new) \in Nat
    BY LivesFinite, SizeFacts
  <2>2. One(taken) \in {0, 1}
    BY DEF One
  <2> QED
    BY <1>1, <1>2, <1>3, <1>11, <1>12, <2>1, <2>2
<1>22. m + 1 = j + Live(n, new)
  BY <1>1, <1>3, <1>12
<1>23. q.hand # Empty => Absent(N, q.old, q.hand[1]) /\ Absent(n, q.new, q.hand[1]) /\ q.j <= N
  BY ONLY <1>14, <1>18
<1>24. /\ \A a \in 0..(N - 1) : a < q.j => ~IsLive(q.old[a])
       /\ \A y \in Entries : In(N, b, y) <=> In(N, q.old, y) \/ In(n, q.new, y) \/ q.hand = y
       /\ Live(N, q.old) + Live(n, q.new) + One(q.hand) = size
       /\ m + 1 = q.j + Live(n, q.new)
  BY ONLY <1>14, <1>19, <1>20, <1>21, <1>22
<1>25. /\ NoDead(n, q.new) /\ Reach(n, q.new)
       /\ Single(N, q.old) /\ Single(n, q.new) /\ NoneInBoth(q.old, q.new, N, n)
  BY ONLY <1>11, <1>12, <1>14, <1>16, <1>17
<1>26. RehashInv(q, m + 1, N, n, b, size)
  BY ONLY <1>15, <1>23, <1>24, <1>25 DEF RehashInv
<1> QED
  BY <1>26 DEF q, i

\* Before the first turn.
FirstTurn(h, n) == [j |-> 0, old |-> h.bucket, new |-> NoBuckets(n), hand |-> Empty]

\* The turns of a rehashing, one after the other.
IsRun(run, h, N, n) ==
    /\ run[0] = FirstTurn(h, n)
    /\ \A m \in 1..(2 * N) : run[m] = Turn(run[m - 1], n)
    /\ Rehashed(h, n) = run[2 * N].new

\* The turns of a rehashing, as defined by recursion over their number.
LEMMA RehashedIs ==
    ASSUME NEW h, NEW N \in Nat, h.n = N, h.bucket \in [0..(N - 1) -> Cells], NEW n \in Sizes
    PROVE  \E run \in [0..(2 * N) -> Turns(N, n)] : IsRun(run, h, N, n)
<1> DEFINE S == Turns(N, n)
           F == [p \in S \X Nat |-> Turn(p[1], n)]
           M == 2 * N
           Rec(f) == f = [m \in 0..M |-> IF m = 0 THEN FirstTurn(h, n) ELSE Turn(f[m - 1], n)]
           Run == CHOOSE f : Rec(f)
<1>1. M \in Nat
  OBVIOUS
<1>2. ASSUME NEW r \in S PROVE Turn(r, n) \in S
  <2>1. /\ r.j \in Nat /\ r.old \in [0..(N - 1) -> Cells] /\ r.new \in Buckets(n) /\ r.hand \in Cells
        /\ r.j + 1 \in Nat
    BY DEF Turns
  <2>2. \A i : Left(r.old, i) \in [0..(N - 1) -> Cells] /\ Taken(r.old, i) \in Cells
    <3>1. Deleted \in Cells /\ Empty \in Cells
      BY DEF Cells
    <3> QED
      BY <2>1, <3>1 DEF Left, Taken
  <2>3. \A i : Written(r.new, i, r.hand) \in Buckets(n)
    BY <2>1 DEF Written, Buckets
  <2>4. TakeTurn(r) \in S
    BY <2>1, <2>2 DEF Turns, TakeTurn
  <2>5. \A i : PutTurn(r, i) \in S
    BY <2>1, <2>2, <2>3 DEF Turns, PutTurn
  <2> QED
    BY <2>4, <2>5, TurnIs
<1>3. F \in [S \X Nat -> S]
  <2>1. ASSUME NEW p \in S \X Nat PROVE Turn(p[1], n) \in S
    <3>1. p[1] \in S
      OBVIOUS
    <3> HIDE DEF S
    <3> QED
      BY <1>2, <3>1
  <2> HIDE DEF S
  <2> QED
    BY <2>1
<1>4. FirstTurn(h, n) \in S
  <2>1. NoBuckets(n) \in Buckets(n) /\ Empty \in Cells
    BY DEF NoBuckets, Buckets, Cells
  <2> QED
    BY <2>1 DEF FirstTurn, Turns
<1>5. PICK f \in [0..M -> S] : f[0] = FirstTurn(h, n) /\ \A m \in 1..M : f[m] = F[<<f[m - 1], m>>]
  <2> HIDE DEF S, F, M
  <2>1. Defined(S, FirstTurn(h, n), F, M)
    BY <1>1, <1>3, <1>4, Recursion
  <2> QED
    BY <2>1 DEF Defined
<1>6. ASSUME NEW m \in 1..M PROVE f[m] = Turn(f[m - 1], n)
  <2>1. f[m - 1] \in S /\ m \in Nat
    <3>1. m - 1 \in 0..M /\ m \in Nat
      BY <1>1
    <3> HIDE DEF S, M
    <3> QED
      BY <3>1
  <2> HIDE DEF S
  <2>2. F[<<f[m - 1], m>>] = Turn(f[m - 1], n)
    BY <2>1
  <2> HIDE DEF F, M
  <2> QED
    BY <1>5, <2>2
<1>7. Rec(f)
  <2> HIDE DEF S, F
  <2> QED
    BY <1>1, <1>5, <1>6
<1>8. Rec(Run)
  <2> HIDE DEF Rec
  <2> QED
    BY <1>7
<1>9. Rehashed(h, n) = Run[M].new
  BY Zenon DEF Rehashed, FirstTurn
<1> HIDE DEF Run
<1>10. Run[0] = FirstTurn(h, n) /\ \A m \in 1..M : Run[m] = Turn(Run[m - 1], n)
  BY <1>1, <1>8
<1>11. Run \in [0..M -> S]
  <2> DEFINE T == {m \in Nat : m <= M => Run[m] \in S}
  <2>1. 0 \in T
    BY <1>4, <1>10
  <2>2. ASSUME NEW m \in T PROVE m + 1 \in T
    <3>1. CASE m + 1 <= M
      <4>1. m + 1 \in 1..M /\ (m + 1) - 1 = m /\ m <= M
        BY <1>1, <3>1
      <4>2. Run[m + 1] = Turn(Run[m], n)
        BY <1>10, <4>1
      <4>3. Run[m] \in S
        BY <4>1
      <4> HIDE DEF S
      <4>4. Run[m + 1] \in S
        BY <1>2, <4>2, <4>3
      <4> QED
        BY <4>4
    <3> QED
      BY <3>1
  <2>3. \A m \in Nat : m \in T
    <3> HIDE DEF T
    <3>1. T \subseteq Nat
      BY DEF T
    <3> QED
      BY <2>1, <2>2, <3>1, Induct
  <2>4. \A m \in 0..M : Run[m] \in S
    BY <1>1, <2>3
  <2> HIDE DEF S
  <2> QED
    BY <1>8, <2>4
<1> QED
  BY <1>9, <1>10, <1>11 DEF IsRun

\* The account at the end of a rehashing.
LEMMA RehashTurns ==
    ASSUME NEW h, NEW N \in Nat, h.n = N, h.bucket \in [0..(N - 1) -> Cells], Single(N, h.bucket),
           NEW n \in Sizes, NEW size \in Nat, size < n, Live(N, h.bucket) = size
    PROVE  \E r : RehashInv(r, 2 * N, N, n, h.bucket, size) /\ Rehashed(h, n) = r.new
<1>0. PICK run \in [0..(2 * N) -> Turns(N, n)] : IsRun(run, h, N, n)
  BY RehashedIs
<1>1. /\ run[0] = FirstTurn(h, n)
      /\ \A m \in 1..(2 * N) : run[m] = Turn(run[m - 1], n)
      /\ Rehashed(h, n) = run[2 * N].new
  BY <1>0 DEF IsRun
<1> DEFINE T == {m \in Nat : m <= 2 * N => RehashInv(run[m], m, N, n, h.bucket, size)}
<1>2. RehashInv(FirstTurn(h, n), 0, N, n, h.bucket, size)
  <2> DEFINE new == NoBuckets(n)
             q == FirstTurn(h, n)
  <2>1. new \in Buckets(n) /\ Empty \in Cells /\ \A i \in 0..(n - 1) : new[i] = Empty
    BY DEF NoBuckets, Buckets, Cells
  <2>2. q = [j |-> 0, old |-> h.bucket, new |-> new, hand |-> Empty]
    BY DEF FirstTurn
  <2>3. q.j = 0 /\ q.old = h.bucket /\ q.new = new /\ q.hand = Empty
    BY <2>2
  <2> HIDE DEF new, q
  <2>4. q \in Turns(N, n)
    BY <2>1, <2>2 DEF Turns
  <2>5. \A i \in 0..(n - 1) : ~IsLive(new[i])
    BY <2>1, CellFacts
  <2>6. Reach(n, new) /\ Single(n, new) /\ NoneInBoth(h.bucket, new, N, n)
    BY <2>5 DEF Reach, Single, NoneInBoth
  <2>7. NoDead(n, new)
    BY <2>1, CellFacts DEF NoDead
  <2>8. Live(n, new) = 0
    <3>1. Lives(n, new) = {}
      BY <2>5 DEF Lives
    <3> QED
      BY <3>1, FS_EmptySet DEF Live
  <2>9. One(Empty) = 0
    BY DEF One
  <2>10. \A x \in Entries : ~In(n, new, x) /\ Empty # x
    BY <2>1, CellFacts DEF In
  <2>11. Live(N, q.old) + Live(n, q.new) + One(q.hand) = size /\ 0 = q.j + Live(n, q.new)
    BY <2>3, <2>8, <2>9
  <2>12. \A i \in 0..(N - 1) : i < q.j => ~IsLive(q.old[i])
    BY <2>3
  <2>13. \A x \in Entries : In(N, h.bucket, x) <=> In(N, q.old, x) \/ In(n, q.new, x) \/ q.hand = x
    BY ONLY <2>3, <2>10
  <2>14. NoDead(n, q.new) /\ Reach(n, q.new) /\ Single(n, q.new) /\ NoneInBoth(q.old, q.new, N, n)
         /\ Single(N, q.old)
    BY <2>3, <2>6, <2>7
  <2>15. q.hand \in {Empty} \cup Entries
    BY <2>3
  <2>16. RehashInv(q, 0, N, n, h.bucket, size)
    BY ONLY <2>3, <2>4, <2>11, <2>12, <2>13, <2>14, <2>15 DEF RehashInv
  <2> QED
    BY <2>16 DEF q
<1>3. 0 \in T
  BY <1>1, <1>2
<1>4. ASSUME NEW m \in T PROVE m + 1 \in T
  <2>1. CASE m + 1 <= 2 * N
    <3>1. m + 1 \in 1..(2 * N) /\ (m + 1) - 1 = m /\ m <= 2 * N /\ m \in Nat
      BY <2>1
    <3>2. RehashInv(run[m], m, N, n, h.bucket, size)
      BY <3>1
    <3>3. run[m + 1] = Turn(run[m], n)
      BY <1>1, <3>1
    <3>4. CASE run[m].hand = Empty
      <4>1. run[m + 1] = TakeTurn(run[m])
        BY ONLY <3>3, <3>4, TurnIs
      <4>2. RehashInv(TakeTurn(run[m]), m + 1, N, n, h.bucket, size)
        BY <3>1, <3>2, <3>4, TakeKeeps
      <4> QED
        BY <4>1, <4>2
    <3>5. CASE run[m].hand # Empty
      <4>1. run[m + 1] = PutTurn(run[m], FirstEmpty(n, run[m].new, run[m].hand[1]))
        BY ONLY <3>3, <3>5, TurnIs
      <4>2. RehashInv(PutTurn(run[m], FirstEmpty(n, run[m].new, run[m].hand[1])),
                      m + 1, N, n, h.bucket, size)
        BY <3>1, <3>2, <3>5, PutKeeps
      <4> QED
        BY <4>1, <4>2
    <3> QED
      BY <3>4, <3>5
  <2> QED
    BY <2>1
<1>5. \A m \in Nat : m \in T
  <2> HIDE DEF T
  <2>1. T \subseteq Nat
    BY DEF T
  <2> QED
    BY <1>3, <1>4, <2>1, Induct
<1>6. RehashInv(run[2 * N], 2 * N, N, n, h.bucket, size)
  <2>1. 2 * N \in Nat
    OBVIOUS
  <2>2. 2 * N \in T
    BY <1>5, <2>1
  <2> QED
    BY <2>1, <2>2
<1> QED
  BY <1>1, <1>6

\* A rehashing moves every entry, and leaves no deleted bucket.
LEMMA RehashedFacts ==
    ASSUME NEW h, NEW N \in Nat, h.n = N, h.bucket \in [0..(N - 1) -> Cells], Single(N, h.bucket),
           NEW n \in Sizes, NEW size \in Nat, size < n, Live(N, h.bucket) = size
    PROVE  /\ Rehashed(h, n) \in Buckets(n) /\ NoDead(n, Rehashed(h, n))
           /\ Single(n, Rehashed(h, n)) /\ Reach(n, Rehashed(h, n))
           /\ Live(n, Rehashed(h, n)) = size
           /\ \A x \in Entries : In(n, Rehashed(h, n), x) <=> In(N, h.bucket, x)
<1>1. PICK r : RehashInv(r, 2 * N, N, n, h.bucket, size) /\ Rehashed(h, n) = r.new
  BY RehashTurns
<1>2. /\ r.j \in Nat /\ r.old \in [0..(N - 1) -> Cells] /\ r.new \in Buckets(n)
      /\ r.hand \in {Empty} \cup Entries
      /\ NoDead(n, r.new) /\ Reach(n, r.new) /\ Single(n, r.new)
      /\ r.hand # Empty => r.j <= N
      /\ \A i \in 0..(N - 1) : i < r.j => ~IsLive(r.old[i])
      /\ \A x \in Entries : In(N, h.bucket, x) <=> In(N, r.old, x) \/ In(n, r.new, x) \/ r.hand = x
      /\ Live(N, r.old) + Live(n, r.new) + One(r.hand) = size
      /\ 2 * N = r.j + Live(n, r.new)
  BY <1>1 DEF RehashInv, Turns
<1>3. /\ Live(N, r.old) \in Nat /\ Live(n, r.new) \in Nat /\ size <= N
  BY LivesFinite, SizeFacts
<1>4. r.hand = Empty
  <2>1. ASSUME r.hand # Empty PROVE FALSE
    <3>1. One(r.hand) = 1 /\ r.j <= N
      BY <1>2, <2>1 DEF One
    <3> QED
      BY <1>2, <1>3, <3>1
  <2> QED
    BY <2>1
<1>5. One(r.hand) = 0
  BY <1>4 DEF One
<1>6. r.j >= N
  BY <1>2, <1>3, <1>5
<1>7. \A i \in 0..(N - 1) : ~IsLive(r.old[i])
  BY <1>2, <1>6
<1>8. Live(N, r.old) = 0
  <2>1. Lives(N, r.old) = {}
    BY <1>7 DEF Lives
  <2> QED
    BY <2>1, FS_EmptySet DEF Live
<1>9. Live(n, r.new) = size
  BY <1>2, <1>3, <1>5, <1>8
<1>10. \A x \in Entries : ~In(N, r.old, x) /\ r.hand # x
  BY <1>4, <1>7, CellFacts DEF In
<1> QED
  BY <1>1, <1>2, <1>9, <1>10

-----------------------------------------------------------------------------
(* The table: what its counters say, and that a key is found where it is. *)

\* The buckets that are not empty, and their number.
Used(n, b)   == {i \in 0..(n - 1) : b[i] # Empty}
Filled(n, b) == Cardinality(Used(n, b))

\* The invariant of a table: its counters are right, and leave an empty bucket, and
\* every live key is live once, in reach of a search for it.
TableInv(h) ==
    /\ IsTable(h) /\ h.n \in {0} \cup Sizes /\ h.bucket \in [0..(h.n - 1) -> Cells]
    /\ h.size = Live(h.n, h.bucket) /\ h.occupied = Filled(h.n, h.bucket)
    /\ h.upper = UpperBound(h.n) /\ h.occupied <= h.upper
    /\ Single(h.n, h.bucket) /\ Reach(h.n, h.bucket)

\* The number of buckets that are not empty; one is, when they are less than all.
LEMMA UsedFinite ==
    ASSUME NEW n \in Nat, NEW b
    PROVE  /\ IsFiniteSet(Used(n, b)) /\ Filled(n, b) \in Nat /\ Live(n, b) <= Filled(n, b)
           /\ Filled(n, b) < n => HasEmpty(n, b)
<1>1. IsFiniteSet(0..(n - 1)) /\ Cardinality(0..(n - 1)) = n
  BY FS_Interval
<1>2. Used(n, b) \in SUBSET (0..(n - 1)) /\ Lives(n, b) \in SUBSET Used(n, b)
  BY CellFacts DEF Used, Lives
<1>3. IsFiniteSet(Used(n, b)) /\ Filled(n, b) \in Nat
  BY <1>1, <1>2, FS_Subset, FS_CardinalityType DEF Filled
<1>4. Live(n, b) <= Filled(n, b)
  BY <1>2, <1>3, FS_Subset DEF Filled, Live
<1>5. ASSUME ~HasEmpty(n, b) PROVE Filled(n, b) = n
  <2>1. Used(n, b) = 0..(n - 1)
    BY <1>5 DEF HasEmpty, Used
  <2> QED
    BY ONLY <1>1, <2>1 DEF Filled
<1> QED
  BY <1>3, <1>4, <1>5

\* An empty bucket less.
LEMMA UsedGained ==
    ASSUME NEW n \in Nat, NEW b, NEW w, NEW i \in 0..(n - 1), b[i] = Empty, w[i] # Empty,
           \A a \in 0..(n - 1) : a # i => w[a] = b[a]
    PROVE  Filled(n, w) = Filled(n, b) + 1
<1>1. Used(n, w) = Used(n, b) \cup {i} /\ i \notin Used(n, b)
  BY DEF Used
<1>2. IsFiniteSet(Used(n, b))
  BY UsedFinite
<1>3. Cardinality(Used(n, b) \cup {i}) = Cardinality(Used(n, b)) + 1
  BY <1>1, <1>2, FS_AddElement
<1> QED
  BY <1>1, <1>3 DEF Filled

\* The counts depend on which buckets are empty and which are live.
LEMMA SameUsed ==
    ASSUME NEW n \in Nat, NEW b, NEW w, \A a \in 0..(n - 1) : w[a] = Empty <=> b[a] = Empty
    PROVE  Filled(n, w) = Filled(n, b)
<1>1. Used(n, w) = Used(n, b)
  BY DEF Used
<1> QED
  BY <1>1 DEF Filled

LEMMA SameLives ==
    ASSUME NEW n \in Nat, NEW b, NEW w, \A a \in 0..(n - 1) : IsLive(w[a]) <=> IsLive(b[a])
    PROVE  Live(n, w) = Live(n, b)
<1>1. Lives(n, w) = Lives(n, b)
  BY DEF Lives
<1> QED
  BY <1>1 DEF Live

\* The bound on the occupied buckets leaves an empty one.
LEMMA UpperFacts ==
    /\ UpperBound(0) = 0
    /\ \A n \in Nat : /\ UpperBound(n) \in Nat
                      /\ n >= 3 => UpperBound(n) < n
                      /\ n >= 3 => UpperBound(n) < UpperBound(2 * n)
                      /\ \A z \in Nat : n > 2 * z => z < UpperBound(n)
<1>1. UpperBound(0) = 0
  BY DEF UpperBound
<1>2. ASSUME NEW n \in Nat
      PROVE  \E u \in Nat : u = UpperBound(n) /\ 100 * u <= 77 * n + 50 /\ 77 * n + 50 < 100 * u + 100
  <2>1. PICK z \in Nat : z = (77 * n) + 50
    OBVIOUS
  <2>2. z \div 100 \in Nat /\ 100 * (z \div 100) <= z /\ z < 100 * (z \div 100) + 100
    OBVIOUS
  <2> QED
    BY <2>1, <2>2 DEF UpperBound
<1>3. ASSUME NEW n \in Nat
      PROVE  /\ UpperBound(n) \in Nat
             /\ n >= 3 => UpperBound(n) < n
             /\ n >= 3 => UpperBound(n) < UpperBound(2 * n)
             /\ \A z \in Nat : n > 2 * z => z < UpperBound(n)
  <2>1. PICK u \in Nat : u = UpperBound(n) /\ 100 * u <= 77 * n + 50 /\ 77 * n + 50 < 100 * u + 100
    BY <1>2
  <2>2. PICK n2 \in Nat : n2 = 2 * n
    OBVIOUS
  <2>3. PICK w \in Nat : w = UpperBound(n2) /\ 100 * w <= 77 * n2 + 50 /\ 77 * n2 + 50 < 100 * w + 100
    BY <1>2
  <2> QED
    BY <2>1, <2>2, <2>3
<1> QED
  BY <1>1, <1>3

\* The types of the counters, and the empty bucket.
LEMMA TableFacts ==
    ASSUME NEW h, TableInv(h)
    PROVE  /\ h.n \in Nat /\ h.size \in Nat /\ h.occupied \in Nat /\ h.upper \in Nat
           /\ h.size <= h.occupied
           /\ h.n \in Sizes => HasEmpty(h.n, h.bucket) /\ h.bucket \in Buckets(h.n)
           /\ h.n = 0 => h.size = 0
<1>1. h.n \in Nat
  BY SizeFacts DEF TableInv
<1>2. Filled(h.n, h.bucket) \in Nat /\ Live(h.n, h.bucket) <= Filled(h.n, h.bucket)
      /\ (Filled(h.n, h.bucket) < h.n => HasEmpty(h.n, h.bucket))
  BY <1>1, UsedFinite
<1>3. Live(h.n, h.bucket) \in Nat
  BY <1>1, LivesFinite
<1>4. h.upper \in Nat /\ (h.n >= 3 => h.upper < h.n) /\ (h.n = 0 => h.upper = 0)
  BY <1>1, UpperFacts DEF TableInv
<1>5. h.size \in Nat /\ h.occupied \in Nat /\ h.size <= h.occupied /\ h.occupied <= h.upper
  BY <1>2, <1>3 DEF TableInv
<1>6. h.n \in Sizes => HasEmpty(h.n, h.bucket)
  BY <1>1, <1>2, <1>4, SizeFacts DEF TableInv
<1> QED
  BY <1>1, <1>4, <1>5, <1>6 DEF TableInv, Buckets

\* What a table holds.
Holds(h, x) == In(h.n, h.bucket, x)

\* hash_has and hash_get tell what the table holds.
LEMMA Answers ==
    ASSUME NEW h, TableInv(h), NEW k \in Keys
    PROVE  /\ Has(h, k) <=> ~Absent(h.n, h.bucket, k)
           /\ Has(h, k) => Holds(h, <<k, Get(h, k)>>)
           /\ \A v \in Vals : Holds(h, <<k, v>>) => Has(h, k) /\ Get(h, k) = v
<1>1. CASE h.n = 0
  <2>1. Lookup(h, k) = 0
    BY <1>1 DEF Lookup
  <2>2. \A x : ~Holds(h, x)
    BY <1>1 DEF Holds, In
  <2>3. Absent(h.n, h.bucket, k)
    BY <1>1 DEF Absent
  <2> QED
    BY <1>1, <2>1, <2>2, <2>3 DEF Has
<1>2. CASE h.n \in Sizes
  <2>1. /\ HasEmpty(h.n, h.bucket) /\ h.bucket \in Buckets(h.n)
        /\ Reach(h.n, h.bucket) /\ Single(h.n, h.bucket) /\ h.n \in Nat
    BY <1>2, TableFacts DEF TableInv
  <2>2. ASSUME NEW i \in 0..(h.n - 1), IsLive(h.bucket[i]), h.bucket[i][1] = k
        PROVE  Has(h, k) /\ Get(h, k) = h.bucket[i][2]
    <3>1. Lookup(h, k) = i
      BY <1>2, <2>1, <2>2, LookupLive
    <3>2. i # h.n
      BY <2>1
    <3> QED
      BY <3>1, <3>2 DEF Has, Get
  <2>3. CASE Absent(h.n, h.bucket, k)
    <3>1. ~Has(h, k)
      BY <1>2, <2>1, <2>3, LookupAbsent DEF Has
    <3>2. ASSUME NEW v \in Vals, Holds(h, <<k, v>>) PROVE FALSE
      <4>1. PICK i \in 0..(h.n - 1) : h.bucket[i] = <<k, v>>
        BY <3>2 DEF Holds, In
      <4>2. IsLive(<<k, v>>)
        BY CellFacts DEF Entries
      <4> QED
        BY <2>3, <4>1, <4>2 DEF Absent
    <3> QED
      BY <2>3, <3>1, <3>2
  <2>4. CASE ~Absent(h.n, h.bucket, k)
    <3>1. PICK i \in 0..(h.n - 1) : IsLive(h.bucket[i]) /\ h.bucket[i][1] = k
      BY <2>4 DEF Absent
    <3>2. Has(h, k) /\ Get(h, k) = h.bucket[i][2]
      BY <2>2, <3>1
    <3>3. h.bucket[i] = <<k, h.bucket[i][2]>>
      BY <2>1, <3>1, CellFacts DEF Buckets
    <3>4. Holds(h, <<k, Get(h, k)>>)
      BY <3>2, <3>3 DEF Holds, In
    <3>5. ASSUME NEW v \in Vals, Holds(h, <<k, v>>) PROVE Get(h, k) = v
      <4>1. PICK a \in 0..(h.n - 1) : h.bucket[a] = <<k, v>>
        BY <3>5 DEF Holds, In
      <4>2. IsLive(<<k, v>>)
        BY CellFacts DEF Entries
      <4> QED
        BY <2>2, <4>1, <4>2
    <3> QED
      BY <2>4, <3>2, <3>4, <3>5
  <2> QED
    BY <2>3, <2>4
<1> QED
  BY <1>1, <1>2 DEF TableInv

-----------------------------------------------------------------------------
(* The size that put asks for. *)

\* The power of two that is asked for.
LEMMA RoundUpIs ==
    ASSUME NEW a \in Nat, a > 4, NEW x \in 3..31, Pow2[x - 1] < a, a <= Pow2[x]
    PROVE  RoundUp(a) = Pow2[x]
<1> DEFINE Good(y) == Pow2[y - 1] < a /\ a <= Pow2[y]
           c == CHOOSE y \in 3..31 : Good(y)
<1>1. RoundUp(a) = Pow2[c]
  BY DEF RoundUp
<1>2. c \in 3..31 /\ Good(c)
  <2>1. Good(x)
    OBVIOUS
  <2> HIDE DEF Good
  <2> QED
    BY <2>1
<1> HIDE DEF c
<1>3. ASSUME NEW y \in 3..31, NEW z \in 3..31, Good(y), Good(z), y < z PROVE FALSE
  <2>1. y \in 0..31 /\ z - 1 \in 0..31
    OBVIOUS
  <2>2. Pow2[y] \in Nat /\ Pow2[z - 1] \in Nat
    BY <2>1, PowUnfolds
  <2>3. y = z - 1 \/ 2 * Pow2[y] <= Pow2[z - 1]
    BY <1>3, <2>1, PowRises
  <2>4. Pow2[y] <= Pow2[z - 1]
    BY <2>2, <2>3
  <2> QED
    BY <1>3, <2>2, <2>4
<1>4. c = x
  <2>1. Good(x)
    OBVIOUS
  <2>2. ~ (c < x) /\ ~ (x < c)
    BY <1>2, <1>3, <2>1
  <2> QED
    BY <1>2, <2>2
<1> QED
  BY <1>1, <1>4

\* The smallest table.
LEMMA Four == Pow2[2] = 4 /\ 4 \in Sizes
<1>1. 1 - 1 = 0 /\ 2 - 1 = 1 /\ 1 \in 1..31 /\ 2 \in 1..31 /\ 2 \in 2..30
  OBVIOUS
<1>2. Pow2[1] = 2 * Pow2[0] /\ Pow2[2] = 2 * Pow2[1] /\ Pow2[0] = 1
  BY <1>1, PowUnfolds
<1>3. Pow2[2] = 4
  BY <1>2
<1> QED
  BY <1>1, <1>3 DEF Sizes

\* One less than a size rounds up to it, one more to its double.
LEMMA RoundedSizes ==
    ASSUME NEW n \in Sizes
    PROVE  RoundUp(n - 1) = n /\ RoundUp(n + 1) = 2 * n /\ (2 * n <= MaxBuckets => 2 * n \in Sizes)
<1>1. PICK x \in 2..30 : n = Pow2[x]
  BY DEF Sizes
<1>2. /\ x \in 0..31 /\ x \in 1..31 /\ x - 1 \in 0..31 /\ x + 1 \in 0..31 /\ x + 1 \in 1..31
      /\ (x + 1) - 1 = x /\ x + 1 \in 3..31 /\ x \in Nat
  OBVIOUS
<1>3. /\ n \in Nat /\ n >= x + 1 /\ Pow2[x - 1] \in Nat /\ Pow2[x - 1] >= x
      /\ n = 2 * Pow2[x - 1] /\ Pow2[x + 1] = 2 * n
  <2>1. Pow2[x - 1] >= (x - 1) + 1
    BY <1>2, PowPositive
  <2>2. (x - 1) + 1 = x
    BY <1>2
  <2>3. Pow2[x - 1] >= x
    BY ONLY <2>1, <2>2
  <2>4. Pow2[x] \in Nat /\ Pow2[x] >= x + 1 /\ Pow2[x - 1] \in Nat
    BY <1>2, PowPositive
  <2>5. Pow2[x] = 2 * Pow2[x - 1] /\ Pow2[x + 1] = 2 * Pow2[x]
    BY <1>2, PowUnfolds
  <2> QED
    BY ONLY <1>1, <2>3, <2>4, <2>5
<1>4. RoundUp(n - 1) = n
  <2>1. CASE x = 2
    <3>1. n = 4
      BY <1>1, <2>1, Four
    <3>2. n - 1 <= 4
      BY <3>1
    <3> QED
      BY <3>1, <3>2 DEF RoundUp
  <2>2. CASE x # 2
    <3>1. x \in 3..31 /\ x >= 3
      BY <2>2
    <3>2. n - 1 \in Nat /\ n - 1 > 4 /\ Pow2[x - 1] < n - 1 /\ n - 1 <= Pow2[x]
      BY <1>1, <1>3, <3>1
    <3> QED
      BY <1>1, <3>1, <3>2, RoundUpIs
  <2> QED
    BY <2>1, <2>2
<1>5. RoundUp(n + 1) = 2 * n
  <2>1. n >= 4
    BY <1>2, <1>3
  <2>2. n + 1 \in Nat /\ n + 1 > 4 /\ n < n + 1 /\ n + 1 <= Pow2[x + 1]
    BY ONLY <1>3, <2>1
  <2>3. Pow2[(x + 1) - 1] < n + 1
    BY ONLY <1>1, <1>2, <2>2
  <2> QED
    BY <1>2, <1>3, <2>2, <2>3, RoundUpIs
<1>6. ASSUME 2 * n <= MaxBuckets PROVE 2 * n \in Sizes
  <2>1. MaxBuckets \in Int /\ MaxBuckets <= Pow2[30] /\ Pow2[30] \in Nat
    <3>1. 30 \in 0..31
      OBVIOUS
    <3>2. Pow2[30] \in Nat
      BY <3>1, PowPositive
    <3> QED
      BY <3>2, BoundsAssumption
  <2>2. CASE x = 30
    <3>1. n = Pow2[30]
      BY <1>1, <2>2
    <3>2. n > 0
      BY <1>2, <1>3
    <3> QED
      BY <1>3, <1>6, <2>1, <3>1, <3>2
  <2>3. CASE x # 30
    <3>1. x + 1 \in 2..30
      BY <2>3
    <3> QED
      BY <1>3, <3>1 DEF Sizes
  <2> QED
    BY <2>2, <2>3
<1> QED
  BY <1>4, <1>5, <1>6

-----------------------------------------------------------------------------
(* What the operations do to a table. *)

\* Growing or rehashing keeps what the table holds and leaves room.
HasRoom(h) == TableInv(h) /\ h.n \in Sizes /\ h.occupied < h.upper

LEMMA ResizeFacts ==
    ASSUME NEW h, TableInv(h), NEW asked,
           RoundUp(asked) \in Sizes, h.size < UpperBound(RoundUp(asked))
    PROVE  /\ HasRoom(Resize(h, asked))
           /\ \A x \in Entries : Holds(Resize(h, asked), x) <=> Holds(h, x)
<1> DEFINE n == RoundUp(asked)
           R == Rehashed(h, n)
           q == Resize(h, asked)
<1>1. n \in Nat /\ n >= 3 /\ UpperBound(n) \in Nat /\ UpperBound(n) < n
  <2>1. n \in Nat /\ n >= 3
    BY SizeFacts
  <2> QED
    BY <2>1, UpperFacts
<1>2. h.n \in Nat /\ h.size \in Nat
  BY TableFacts
<1>3. h.size < n /\ h.size < UpperBound(n)
  BY <1>1, <1>2
<1>4. /\ h.bucket \in [0..(h.n - 1) -> Cells] /\ Single(h.n, h.bucket) /\ Live(h.n, h.bucket) = h.size
  BY DEF TableInv
<1>5. /\ R \in Buckets(n) /\ NoDead(n, R) /\ Single(n, R) /\ Reach(n, R) /\ Live(n, R) = h.size
      /\ \A x \in Entries : In(n, R, x) <=> In(h.n, h.bucket, x)
  <2> HIDE DEF n
  <2>1. n \in Sizes
    BY DEF n
  <2> QED
    BY <1>2, <1>3, <1>4, <2>1, RehashedFacts
<1>6. q = [n |-> n, bucket |-> R, size |-> h.size, occupied |-> h.size, upper |-> UpperBound(n)]
  BY <1>1, <1>2 DEF Resize
<1>7. q.n = n /\ q.bucket = R /\ q.size = h.size /\ q.occupied = h.size /\ q.upper = UpperBound(n)
  BY <1>6
<1> HIDE DEF q, R
<1>8. Filled(n, R) = h.size
  <2>1. Used(n, R) = Lives(n, R)
    BY <1>5, CellFacts DEF Used, Lives, NoDead, IsLive
  <2> QED
    BY <1>5, <2>1 DEF Filled, Live
<1>9. IsTable(q)
  BY <1>6, <1>7 DEF IsTable
<1>10. n \in Sizes /\ R \in [0..(n - 1) -> Cells]
  BY <1>5 DEF Buckets
<1> HIDE DEF n
<1>11. TableInv(q)
  BY <1>1, <1>2, <1>3, <1>5, <1>7, <1>8, <1>9, <1>10 DEF TableInv
<1>12. HasRoom(q)
  BY <1>1, <1>2, <1>3, <1>7, <1>10, <1>11 DEF HasRoom
<1>13. \A x \in Entries : Holds(q, x) <=> Holds(h, x)
  BY <1>5, <1>7 DEF Holds
<1> QED
  BY <1>12, <1>13 DEF q

\* hash_set has room for its key, and lost none to make it.
LEMMA ReadyFacts ==
    ASSUME NEW h, TableInv(h), Ready(h).n <= MaxBuckets
    PROVE  /\ HasRoom(Ready(h))
           /\ \A x \in Entries : Holds(Ready(h), x) <=> Holds(h, x)
<1>1. /\ h.n \in Nat /\ h.size \in Nat /\ h.occupied \in Nat /\ h.upper \in Nat
      /\ h.size <= h.occupied /\ (h.n = 0 => h.size = 0) /\ h.n \in {0} \cup Sizes
      /\ h.upper = UpperBound(h.n) /\ h.occupied <= h.upper
  BY TableFacts DEF TableInv
<1>2. CASE ~Full(h)
  <2>1. Ready(h) = h
    BY <1>2 DEF Ready
  <2>2. h.n # 0
    BY <1>1, <1>2, UpperFacts DEF Full
  <2>3. h.occupied < h.upper
    BY <1>1, <1>2 DEF Full
  <2> QED
    BY <1>1, <2>1, <2>2, <2>3 DEF HasRoom
<1>3. CASE Full(h)
  <2>1. Ready(h) = Resize(h, Asked(h))
    BY <1>3 DEF Ready
  <2>2. RoundUp(Asked(h)) \in Nat /\ h.size < UpperBound(RoundUp(Asked(h)))
    <3>1. CASE h.n = 0
      <4>1. Asked(h) = 1
        BY <1>1, <3>1 DEF Asked
      <4>2. RoundUp(Asked(h)) = 4
        BY <4>1 DEF RoundUp
      <4>3. UpperBound(4) > 0
        BY UpperFacts
      <4> QED
        BY <1>1, <3>1, <4>2, <4>3
    <3>2. CASE h.n \in Sizes /\ h.n > 2 * h.size
      <4>1. RoundUp(Asked(h)) = h.n
        BY <3>2, RoundedSizes DEF Asked
      <4> QED
        BY <1>1, <3>2, <4>1, UpperFacts
    <3>3. CASE h.n \in Sizes /\ ~(h.n > 2 * h.size)
      <4>1. RoundUp(Asked(h)) = 2 * h.n
        BY <3>3, RoundedSizes DEF Asked
      <4>2. h.n >= 3
        BY <3>3, SizeFacts
      <4>3. UpperBound(h.n) < UpperBound(2 * h.n)
        BY <1>1, <4>2, UpperFacts
      <4>4. UpperBound(2 * h.n) \in Nat /\ 2 * h.n \in Nat
        BY <1>1, UpperFacts
      <4> QED
        BY <1>1, <4>1, <4>3, <4>4
    <3> QED
      BY <1>1, <3>1, <3>2, <3>3
  <2>3. Ready(h).n = RoundUp(Asked(h))
    <3>1. UpperBound(RoundUp(Asked(h))) \in Nat
      BY <2>2, UpperFacts
    <3>2. ~(h.size >= UpperBound(RoundUp(Asked(h))))
      BY <1>1, <2>2, <3>1
    <3> QED
      BY <2>1, <3>2 DEF Resize
  <2>4. RoundUp(Asked(h)) \in Sizes
    <3>1. CASE h.n = 0
      <4>1. Asked(h) = 1
        BY <1>1, <3>1 DEF Asked
      <4>2. RoundUp(Asked(h)) = 4
        BY <4>1 DEF RoundUp
      <4> QED
        BY <4>2, Four
    <3>2. CASE h.n \in Sizes /\ h.n > 2 * h.size
      <4>1. RoundUp(Asked(h)) = h.n
        BY <3>2, RoundedSizes DEF Asked
      <4> QED
        BY <3>2, <4>1
    <3>3. CASE h.n \in Sizes /\ ~(h.n > 2 * h.size)
      <4>1. RoundUp(Asked(h)) = 2 * h.n
        BY <3>3, RoundedSizes DEF Asked
      <4>2. 2 * h.n <= MaxBuckets
        BY ONLY <2>3, <4>1, Ready(h).n <= MaxBuckets
      <4> QED
        BY <3>3, <4>1, <4>2, RoundedSizes
    <3> QED
      BY <1>1, <3>1, <3>2, <3>3
  <2> QED
    BY <2>1, <2>2, <2>4, ResizeFacts
<1> QED
  BY <1>2, <1>3

\* kh_put and kh_clear, field by field.
LEMMA PutValueIs ==
    ASSUME NEW h, IsTable(h), NEW k, NEW v, NEW i, i = Site(h, k), NEW r, r = Ret(h, k),
           NEW b, b = [h.bucket EXCEPT ![i] = <<IF r = 0 THEN h.bucket[i][1] ELSE k, v>>],
           NEW q, q = PutValue(h, k, v)
    PROVE  q = [n |-> h.n, bucket |-> b, size |-> IF r = 0 THEN h.size ELSE h.size + 1,
                occupied |-> IF r = 1 THEN h.occupied + 1 ELSE h.occupied, upper |-> h.upper]
<1>1. PICK c, d : /\ c = (IF r = 0 THEN h.size ELSE h.size + 1)
                  /\ d = (IF r = 1 THEN h.occupied + 1 ELSE h.occupied)
  OBVIOUS
<1>2. q = [h EXCEPT !.bucket = b, !.size = c, !.occupied = d]
  BY <1>1 DEF PutValue
<1>3. q = [n |-> h.n, bucket |-> b, size |-> c, occupied |-> d, upper |-> h.upper]
  BY <1>2 DEF IsTable
<1> QED
  BY Zenon, <1>1, <1>3

LEMMA ClearedIs ==
    ASSUME NEW h, IsTable(h), NEW b, b = [i \in DOMAIN h.bucket |-> Empty], NEW q, q = Cleared(h)
    PROVE  q = [n |-> h.n, bucket |-> b, size |-> 0, occupied |-> 0, upper |-> h.upper]
<1>1. q = [h EXCEPT !.bucket = b, !.size = 0, !.occupied = 0]
  BY Zenon DEF Cleared
<1> QED
  BY <1>1 DEF IsTable

\* hash_set gives the key its value and leaves the other keys as they are.
LEMMA PutValueFacts ==
    ASSUME NEW h, HasRoom(h), NEW k \in Keys, NEW v \in Vals
    PROVE  /\ TableInv(PutValue(h, k, v))
           /\ \A x \in Entries : Holds(PutValue(h, k, v), x)
                                   <=> x = <<k, v>> \/ (x[1] # k /\ Holds(h, x))
<1> DEFINE n == h.n
           b == h.bucket
           i == Site(h, k)
           q == PutValue(h, k, v)
<1>1. /\ TableInv(h) /\ h.occupied < h.upper /\ n \in Sizes /\ n \in Nat /\ n >= 3
      /\ h.size \in Nat /\ h.occupied \in Nat /\ h.upper \in Nat
      /\ HasEmpty(n, b) /\ b \in Buckets(n) /\ IsTable(h)
      /\ h.size = Live(n, b) /\ h.occupied = Filled(n, b) /\ h.upper = UpperBound(n)
      /\ Single(n, b) /\ Reach(n, b)
  BY TableFacts, SizeFacts DEF HasRoom, TableInv
<1>2. /\ i \in 0..(n - 1)
      /\ IF Absent(n, b, k) THEN ~IsLive(b[i]) /\ OpenTo(n, b, k, i)
         ELSE IsLive(b[i]) /\ b[i][1] = k
  BY <1>1, SiteFound
<1>3. PICK x : x = <<k, v>>
  OBVIOUS
<1>4. x \in Entries /\ x[1] = k /\ x \in Cells /\ IsLive(x) /\ x # Empty
  BY <1>3, CellFacts DEF Entries, Cells
<1>5. b[i] \in Cells
  BY <1>1, <1>2 DEF Buckets
<1>6. PICK r : r = Ret(h, k)
  OBVIOUS
<1>7. r = (IF b[i] = Empty THEN 1 ELSE IF b[i] = Deleted THEN 2 ELSE 0)
  BY <1>6 DEF Ret
<1>8. (IF r = 0 THEN b[i][1] ELSE k) = k
  BY <1>2, <1>7 DEF IsLive
<1>9. PICK w : w = [b EXCEPT ![i] = <<IF r = 0 THEN b[i][1] ELSE k, v>>]
  OBVIOUS
<1>10. w = Written(b, i, x)
  BY <1>3, <1>8, <1>9 DEF Written
<1>11. q = [n |-> n, bucket |-> w,
            size |-> IF r = 0 THEN h.size ELSE h.size + 1,
            occupied |-> IF r = 1 THEN h.occupied + 1 ELSE h.occupied, upper |-> h.upper]
  BY <1>1, <1>6, <1>9, PutValueIs
<1>12. /\ q.n = n /\ q.bucket = w /\ q.upper = h.upper
       /\ q.size = (IF r = 0 THEN h.size ELSE h.size + 1)
       /\ q.occupied = (IF r = 1 THEN h.occupied + 1 ELSE h.occupied)
  BY <1>11
<1>13. IsTable(q)
  BY <1>11, <1>12 DEF IsTable
<1> HIDE DEF q, i, b, n
<1>14. w \in Buckets(n) /\ w[i] = x /\ \A a \in 0..(n - 1) : a # i => w[a] = b[a]
  BY <1>1, <1>2, <1>4, <1>10, WrittenAt
<1>15. CASE Absent(n, b, k)
  <2>1. ~IsLive(b[i]) /\ OpenTo(n, b, k, i)
    BY <1>2, <1>15
  <2>2. /\ Single(n, w) /\ Reach(n, w) /\ Live(n, w) = Live(n, b) + 1
        /\ \A y \in Entries : In(n, w, y) <=> In(n, b, y) \/ x = y
    BY <1>1, <1>2, <1>4, <1>10, <1>15, <2>1, PutFacts
  <2>3. r # 0 /\ (r = 1 <=> b[i] = Empty)
    BY <1>7, <2>1 DEF IsLive
  <2>4. Filled(n, w) = q.occupied
    <3>1. CASE b[i] = Empty
      <4>1. Filled(n, w) = Filled(n, b) + 1
        BY <1>1, <1>2, <1>4, <1>14, <3>1, UsedGained
      <4> QED
        BY <1>1, <1>12, <2>3, <3>1, <4>1
    <3>2. CASE b[i] # Empty
      <4>1. \A a \in 0..(n - 1) : w[a] = Empty <=> b[a] = Empty
        BY <1>4, <1>14, <3>2
      <4>2. Filled(n, w) = Filled(n, b)
        BY <1>1, <4>1, SameUsed
      <4> QED
        BY <1>1, <1>12, <2>3, <3>2, <4>2
    <3> QED
      BY <3>1, <3>2
  <2>5. ASSUME NEW y \in Entries PROVE In(n, w, y) <=> y = x \/ (y[1] # k /\ In(n, b, y))
    <3>1. ASSUME In(n, b, y) PROVE y[1] # k
      <4>1. PICK a \in 0..(n - 1) : b[a] = y
        BY <3>1 DEF In
      <4> QED
        BY <1>15, <4>1, CellFacts DEF Absent
    <3> QED
      BY <2>2, <3>1
  <2>6. q.size = Live(n, w) /\ q.occupied <= q.upper
    BY <1>1, <1>12, <2>2, <2>3
  <2> QED
    BY <1>1, <1>3, <1>12, <1>13, <1>14, <2>2, <2>4, <2>5, <2>6 DEF TableInv, Holds, Buckets, q, n, b
<1>16. CASE ~Absent(n, b, k)
  <2>1. IsLive(b[i]) /\ b[i][1] = k
    BY <1>2, <1>16
  <2>2. r = 0
    BY <1>7, <2>1 DEF IsLive
  <2>3. \A a \in 0..(n - 1) : /\ IsLive(w[a]) <=> IsLive(b[a])
                              /\ w[a] = Empty <=> b[a] = Empty
                              /\ IsLive(w[a]) => w[a][1] = b[a][1]
    BY <1>4, <1>14, <2>1, CellFacts
  <2>4. Single(n, w)
    BY <1>1, <2>3 DEF Single
  <2>5. Reach(n, w)
    <3>1. OpenTo(n, b, x[1], i)
      BY <1>1, <1>2, <1>4, <2>1 DEF Reach
    <3> QED
      BY <1>1, <1>2, <1>4, <1>10, <3>1, WrittenReach
  <2>6. Live(n, w) = Live(n, b) /\ Filled(n, w) = Filled(n, b)
    BY <1>1, <2>3, SameLives, SameUsed
  <2>7. ASSUME NEW y \in Entries PROVE In(n, w, y) <=> y = x \/ (y[1] # k /\ In(n, b, y))
    <3>1. ASSUME In(n, w, y), y # x PROVE y[1] # k /\ In(n, b, y)
      <4>1. PICK a \in 0..(n - 1) : w[a] = y
        BY <3>1 DEF In
      <4>2. a # i /\ b[a] = y /\ IsLive(y)
        BY <1>14, <3>1, <4>1, CellFacts
      <4>3. y[1] # k
        BY <1>1, <1>2, <2>1, <4>2 DEF Single
      <4> QED
        BY <4>2, <4>3 DEF In
    <3>2. ASSUME y[1] # k, In(n, b, y) PROVE In(n, w, y)
      <4>1. PICK a \in 0..(n - 1) : b[a] = y
        BY <3>2 DEF In
      <4>2. a # i
        BY <2>1, <3>2, <4>1
      <4> QED
        BY <1>14, <4>1, <4>2 DEF In
    <3>3. In(n, w, x)
      BY <1>2, <1>14 DEF In
    <3> QED
      BY <3>1, <3>2, <3>3
  <2>8. q.size = Live(n, w) /\ q.occupied = Filled(n, w) /\ q.occupied <= q.upper
    BY <1>1, <1>12, <2>2, <2>6
  <2> QED
    BY <1>1, <1>3, <1>12, <1>13, <1>14, <2>4, <2>5, <2>7, <2>8 DEF TableInv, Holds, Buckets, q, n, b
<1> QED
  BY <1>15, <1>16

\* hash_del removes the key and leaves the other keys as they are.
LEMMA EraseFacts ==
    ASSUME NEW h, TableInv(h), NEW k \in Keys
    PROVE  /\ TableInv(Erase(h, k))
           /\ \A x \in Entries : Holds(Erase(h, k), x) <=> x[1] # k /\ Holds(h, x)
<1> DEFINE n == h.n
           b == h.bucket
           i == Lookup(h, k)
           q == Erase(h, k)
<1>1. CASE ~Has(h, k)
  <2>1. q = h
    BY <1>1 DEF Erase
  <2>2. Absent(n, b, k)
    BY <1>1, Answers
  <2>3. ASSUME NEW x \in Entries, Holds(h, x) PROVE x[1] # k
    <3>1. PICK a \in 0..(n - 1) : b[a] = x
      BY <2>3 DEF Holds, In
    <3> QED
      BY <2>2, <3>1, CellFacts DEF Absent
  <2> QED
    BY <2>1, <2>3
<1>2. CASE Has(h, k)
  <2>1. ~Absent(n, b, k)
    BY <1>2, Answers
  <2>2. n # 0 /\ n \in {0} \cup Sizes
    BY <2>1 DEF Absent, TableInv
  <2>3. /\ n \in Sizes /\ n \in Nat /\ h.size \in Nat /\ h.occupied \in Nat
        /\ HasEmpty(n, b) /\ b \in Buckets(n) /\ IsTable(h)
        /\ h.size = Live(n, b) /\ h.occupied = Filled(n, b) /\ h.upper = UpperBound(n)
        /\ h.occupied <= h.upper /\ Single(n, b) /\ Reach(n, b)
    BY <2>2, TableFacts DEF TableInv
  <2>4. PICK a \in 0..(n - 1) : IsLive(b[a]) /\ b[a][1] = k
    BY <2>1 DEF Absent
  <2>5. i = a
    BY <2>3, <2>4, LookupLive
  <2>6. PICK w : w = Written(b, a, Deleted)
    OBVIOUS
  <2>7. q = [n |-> n, bucket |-> w, size |-> h.size - 1, occupied |-> h.occupied, upper |-> h.upper]
    BY <1>2, <2>3, <2>5, <2>6 DEF Erase, Written, IsTable
  <2>8. /\ q.n = n /\ q.bucket = w /\ q.upper = h.upper
        /\ q.size = h.size - 1 /\ q.occupied = h.occupied
    BY <2>7
  <2>9. IsTable(q)
    BY <2>7, <2>8 DEF IsTable
  <2> HIDE DEF q, i, b, n
  <2>10. Deleted \in Cells /\ ~IsLive(Deleted) /\ Deleted # Empty /\ b[a] # Empty
    BY <2>4, CellFacts DEF Cells
  <2>11. w \in Buckets(n) /\ w[a] = Deleted /\ \A c \in 0..(n - 1) : c # a => w[c] = b[c]
    BY <2>3, <2>6, <2>10, WrittenAt
  <2>12. Reach(n, w)
    BY <2>3, <2>6, <2>10, WrittenReach
  <2>13. Single(n, w)
    BY <2>3, <2>10, <2>11 DEF Single
  <2>14. Live(n, w) = Live(n, b) - 1
    BY <2>3, <2>4, <2>10, <2>11, LivesLost
  <2>15. Filled(n, w) = Filled(n, b)
    <3>1. \A c \in 0..(n - 1) : w[c] = Empty <=> b[c] = Empty
      BY <2>10, <2>11
    <3> QED
      BY <2>3, <3>1, SameUsed
  <2>16. ASSUME NEW y \in Entries PROVE In(n, w, y) <=> y[1] # k /\ In(n, b, y)
    <3>0. IsLive(y)
      BY CellFacts
    <3>1. ASSUME In(n, w, y) PROVE y[1] # k /\ In(n, b, y)
      <4>1. PICK c \in 0..(n - 1) : w[c] = y
        BY <3>1 DEF In
      <4>2. c # a /\ b[c] = y
        BY <2>10, <2>11, <3>0, <4>1
      <4>3. y[1] # k
        BY <2>3, <2>4, <3>0, <4>2 DEF Single
      <4> QED
        BY <4>2, <4>3 DEF In
    <3>2. ASSUME y[1] # k, In(n, b, y) PROVE In(n, w, y)
      <4>1. PICK c \in 0..(n - 1) : b[c] = y
        BY <3>2 DEF In
      <4>2. c # a
        BY <2>4, <3>2, <4>1
      <4> QED
        BY <2>11, <4>1, <4>2 DEF In
    <3> QED
      BY <3>1, <3>2
  <2>17. TableInv(q)
    BY <2>3, <2>8, <2>9, <2>11, <2>12, <2>13, <2>14, <2>15 DEF TableInv, Buckets
  <2> QED
    BY <2>8, <2>16, <2>17 DEF Holds, q, n, b
<1> QED
  BY <1>1, <1>2

\* hash_clear leaves nothing.
LEMMA ClearedFacts ==
    ASSUME NEW h, TableInv(h)
    PROVE  TableInv(Cleared(h)) /\ \A x \in Entries : ~Holds(Cleared(h), x)
<1> DEFINE n == h.n
           q == Cleared(h)
           w == [i \in DOMAIN h.bucket |-> Empty]
<1>1. /\ n \in {0} \cup Sizes /\ n \in Nat /\ IsTable(h) /\ h.upper = UpperBound(n) /\ h.upper \in Nat
      /\ DOMAIN h.bucket = 0..(n - 1)
  BY TableFacts DEF TableInv
<1>2. q = [n |-> n, bucket |-> w, size |-> 0, occupied |-> 0, upper |-> h.upper]
  BY <1>1, ClearedIs
<1>3. q.n = n /\ q.bucket = w /\ q.upper = h.upper /\ q.size = 0 /\ q.occupied = 0
  BY <1>2
<1>4. IsTable(q)
  BY <1>2, <1>3 DEF IsTable
<1>5. w \in [0..(n - 1) -> Cells] /\ \A i \in 0..(n - 1) : w[i] = Empty
  BY <1>1 DEF Cells
<1> HIDE DEF q, w, n
<1>6. \A i \in 0..(n - 1) : ~IsLive(w[i])
  BY <1>5, CellFacts
<1>7. Single(n, w) /\ Reach(n, w)
  BY <1>6 DEF Single, Reach
<1>8. Live(n, w) = 0 /\ Filled(n, w) = 0
  <2>1. Lives(n, w) = {} /\ Used(n, w) = {}
    BY <1>5, <1>6 DEF Lives, Used
  <2> QED
    BY <2>1, FS_EmptySet DEF Live, Filled
<1>9. TableInv(q)
  BY <1>1, <1>3, <1>4, <1>5, <1>7, <1>8 DEF TableInv
<1>10. \A x \in Entries : ~Holds(q, x)
  BY <1>3, <1>5, CellFacts DEF Holds, In
<1> QED
  BY <1>9, <1>10 DEF q

\* A new table holds nothing.
LEMMA NewTableFacts == TableInv(NewTable) /\ \A x : ~Holds(NewTable, x)
<1> DEFINE b == [i \in {} |-> Empty]
           q == NewTable
<1>1. q = [n |-> 0, bucket |-> b, size |-> 0, occupied |-> 0, upper |-> 0]
  BY DEF NewTable
<1>2. q.n = 0 /\ q.bucket = b /\ q.upper = 0 /\ q.size = 0 /\ q.occupied = 0
  BY <1>1
<1>3. 0..(0 - 1) = {}
  OBVIOUS
<1>4. b \in [0..(0 - 1) -> Cells]
  BY <1>3
<1> HIDE DEF q, b
<1>5. IsTable(q)
  BY <1>1, <1>2 DEF IsTable
<1>6. Single(0, b) /\ Reach(0, b)
  BY <1>3 DEF Single, Reach
<1>7. Live(0, b) = 0 /\ Filled(0, b) = 0
  <2>1. Lives(0, b) = {} /\ Used(0, b) = {}
    BY <1>3 DEF Lives, Used
  <2> QED
    BY <2>1, FS_EmptySet DEF Live, Filled
<1>8. TableInv(q)
  BY <1>2, <1>4, <1>5, <1>6, <1>7, UpperFacts DEF TableInv
<1>9. \A x : ~Holds(q, x)
  BY <1>2, <1>3 DEF Holds, In
<1> QED
  BY <1>8, <1>9 DEF q

-----------------------------------------------------------------------------
(* The table through all operations. *)

\* hash_set, with the growing before it.
LEMMA SetKeeps ==
    ASSUME NEW h, TableInv(h), NEW k \in Keys, NEW v \in Vals, Ready(h).n <= MaxBuckets
    PROVE  /\ TableInv(PutValue(Ready(h), k, v))
           /\ \A x \in Entries : Holds(PutValue(Ready(h), k, v), x)
                                   <=> x = <<k, v>> \/ (x[1] # k /\ Holds(h, x))
<1>1. PICK q : q = Ready(h)
  OBVIOUS
<1>2. HasRoom(q) /\ \A x \in Entries : Holds(q, x) <=> Holds(h, x)
  BY <1>1, ReadyFacts
<1>3. /\ TableInv(PutValue(q, k, v))
      /\ \A x \in Entries : Holds(PutValue(q, k, v), x) <=> x = <<k, v>> \/ (x[1] # k /\ Holds(q, x))
  BY <1>2, PutValueFacts
<1> QED
  BY <1>1, <1>2, <1>3

\* Every operation keeps the invariant of the table.
LEMMA TableKept == TableInv(table) /\ [TableNext]_tableVars => TableInv(table')
<1>1. SUFFICES ASSUME TableInv(table), [TableNext]_tableVars PROVE TableInv(table')
  OBVIOUS
<1>2. ASSUME NEW k \in Keys, NEW v \in Vals, Set(k, v) PROVE TableInv(table')
  BY <1>1, <1>2, SetKeeps DEF Set
<1>3. ASSUME NEW k \in Keys, Del(k) PROVE TableInv(table')
  BY <1>1, <1>3, EraseFacts DEF Del
<1>4. CASE SetFails
  BY <1>1, <1>4 DEF SetFails
<1>5. CASE Clear
  BY <1>1, <1>5, ClearedFacts DEF Clear
<1>6. CASE UNCHANGED tableVars
  BY <1>1, <1>6 DEF tableVars
<1> QED
  BY <1>1, <1>2, <1>3, <1>4, <1>5, <1>6 DEF TableNext

(* Every key of the table is in one bucket, which a search for it comes to  *)
(* before any empty one; the counters are right, and leave an empty bucket. *)
THEOREM TableInvariance == TableSpec => []TableInv(table)
<1>1. TableInit => TableInv(table)
  BY NewTableFacts DEF TableInit
<1>2. TableInv(table) /\ [TableNext]_tableVars => TableInv(table)'
  BY TableKept
<1> QED
  BY <1>1, <1>2, PTL DEF TableSpec

(* A search of kh_get or kh_put ends, the counters say what the buckets     *)
(* hold, and hash_each visits every key once.                               *)
THEOREM SearchesEnd == TableSpec => []SearchEnds
<1>1. TableInv(table) => SearchEnds
  <2>1. SUFFICES ASSUME TableInv(table) PROVE SearchEnds
    OBVIOUS
  <2>2. /\ table.n \in Nat /\ table.n \in {0} \cup Sizes
        /\ DOMAIN table.bucket = 0..(table.n - 1)
        /\ table.size = Live(table.n, table.bucket) /\ table.occupied = Filled(table.n, table.bucket)
        /\ Single(table.n, table.bucket)
    BY <2>1, TableFacts DEF TableInv
  <2>3. table.n > 0 => HasEmpty(table.n, table.bucket)
    BY <2>1, <2>2, TableFacts
  <2>4. /\ Lives(table.n, table.bucket) = {i \in DOMAIN table.bucket : IsLive(table.bucket[i])}
        /\ Used(table.n, table.bucket) = {i \in DOMAIN table.bucket : table.bucket[i] # Empty}
    BY <2>2 DEF Lives, Used
  <2>5. /\ table.size = Cardinality({i \in DOMAIN table.bucket : IsLive(table.bucket[i])})
        /\ table.occupied = Cardinality({i \in DOMAIN table.bucket : table.bucket[i] # Empty})
    BY Zenon, <2>2, <2>4 DEF Live, Filled
  <2> QED
    BY <2>2, <2>3, <2>5 DEF SearchEnds, HasEmpty, Single
<1> QED
  BY <1>1, TableInvariance, PTL

-----------------------------------------------------------------------------
(* The table as a map. *)

\* The map that the table stands for.
Contents(h) == [k \in {x \in Keys : Has(h, x)} |-> Get(h, k)]

\* The map, by what the table holds.
LEMMA ContentsIs ==
    ASSUME NEW h, TableInv(h), NEW k \in Keys
    PROVE  /\ Has(h, k) <=> \E v \in Vals : Holds(h, <<k, v>>)
           /\ \A v \in Vals : Holds(h, <<k, v>>) => Get(h, k) = v
<1>1. /\ Has(h, k) => Holds(h, <<k, Get(h, k)>>)
      /\ \A v \in Vals : Holds(h, <<k, v>>) => Has(h, k) /\ Get(h, k) = v
  BY Answers
<1>2. ASSUME Has(h, k) PROVE Get(h, k) \in Vals
  <2>1. PICK x : x = <<k, Get(h, k)>>
    OBVIOUS
  <2>2. PICK i \in 0..(h.n - 1) : h.bucket[i] = x
    BY <1>1, <1>2, <2>1 DEF Holds, In
  <2>3. x \in Cells
    BY <2>2 DEF TableInv
  <2>4. x # Empty /\ x # Deleted
    BY <2>1 DEF Empty, Deleted
  <2>5. x \in Entries
    BY <2>3, <2>4 DEF Cells
  <2> QED
    BY <2>1, <2>5 DEF Entries
<1> QED
  BY <1>1, <1>2

\* The map after hash_set, hash_del and hash_clear.
LEMMA ContentsSet ==
    ASSUME NEW h, TableInv(h), NEW q, TableInv(q), NEW k \in Keys, NEW v \in Vals,
           \A x \in Entries : Holds(q, x) <=> x = <<k, v>> \/ (x[1] # k /\ Holds(h, x))
    PROVE  Contents(q) = [y \in DOMAIN Contents(h) \cup {k} |-> IF y = k THEN v ELSE Contents(h)[y]]
<1>1. ASSUME NEW y \in Keys, NEW w \in Vals
      PROVE  Holds(q, <<y, w>>) <=> (y = k /\ w = v) \/ (y # k /\ Holds(h, <<y, w>>))
  <2>1. PICK x \in Entries : x = <<y, w>>
    BY DEF Entries
  <2>2. x[1] = y /\ (x = <<k, v>> <=> y = k /\ w = v)
    BY <2>1
  <2> QED
    BY <2>1, <2>2
<1>2. Has(q, k) /\ Get(q, k) = v
  BY <1>1, ContentsIs
<1>3. ASSUME NEW y \in Keys, y # k
      PROVE  (Has(q, y) <=> Has(h, y)) /\ (Has(h, y) => Get(q, y) = Get(h, y))
  <2>1. \A w \in Vals : Holds(q, <<y, w>>) <=> Holds(h, <<y, w>>)
    BY <1>1, <1>3
  <2> QED
    BY <2>1, ContentsIs
<1>4. {x \in Keys : Has(q, x)} = {x \in Keys : Has(h, x)} \cup {k}
  BY <1>2, <1>3
<1> QED
  BY <1>2, <1>3, <1>4 DEF Contents

LEMMA ContentsDel ==
    ASSUME NEW h, TableInv(h), NEW q, TableInv(q), NEW k \in Keys,
           \A x \in Entries : Holds(q, x) <=> x[1] # k /\ Holds(h, x)
    PROVE  Contents(q) = [y \in DOMAIN Contents(h) \ {k} |-> Contents(h)[y]]
<1>1. ASSUME NEW y \in Keys, NEW w \in Vals
      PROVE  Holds(q, <<y, w>>) <=> y # k /\ Holds(h, <<y, w>>)
  <2>1. PICK x \in Entries : x = <<y, w>>
    BY DEF Entries
  <2>2. x[1] = y
    BY <2>1
  <2> QED
    BY <2>1, <2>2
<1>2. ~Has(q, k)
  BY <1>1, ContentsIs
<1>3. ASSUME NEW y \in Keys, y # k
      PROVE  (Has(q, y) <=> Has(h, y)) /\ (Has(h, y) => Get(q, y) = Get(h, y))
  <2>1. \A w \in Vals : Holds(q, <<y, w>>) <=> Holds(h, <<y, w>>)
    BY <1>1, <1>3
  <2> QED
    BY <2>1, ContentsIs
<1>4. {x \in Keys : Has(q, x)} = {x \in Keys : Has(h, x)} \ {k}
  BY <1>2, <1>3
<1> QED
  BY <1>3, <1>4 DEF Contents

LEMMA ContentsNone ==
    ASSUME NEW h, TableInv(h), \A x \in Entries : ~Holds(h, x)
    PROVE  Contents(h) = [y \in {} |-> 0]
<1>1. ASSUME NEW y \in Keys PROVE ~Has(h, y)
  <2>1. \A w \in Vals : <<y, w>> \in Entries
    BY DEF Entries
  <2> QED
    BY <2>1, ContentsIs
<1>2. {x \in Keys : Has(h, x)} = {}
  BY <1>1
<1> QED
  BY <1>2 DEF Contents

(* hash.c is a map: through all the deletions, reuses and rehashings, what  *)
(* hash_get finds is what hash_set set last and hash_del did not remove.    *)
THEOREM TableImplementsMap == TableSpec => ImplementsMap
<1>1. TableInit => Map!Init
  <2>1. SUFFICES ASSUME TableInit PROVE Map!Init
    OBVIOUS
  <2>2. Contents(table) = [y \in {} |-> 0]
    BY <2>1, NewTableFacts, ContentsNone DEF TableInit
  <2> QED
    BY <2>2 DEF Map!Init, Contents
<1>2. TableInv(table) /\ [TableNext]_tableVars => [Map!Next]_(Map!vars)
  <2>1. SUFFICES ASSUME TableInv(table), [TableNext]_tableVars
                 PROVE  [Map!Next]_(Map!vars)
    OBVIOUS
  <2>2. TableInv(table')
    BY <2>1, TableKept
  <2>3. ASSUME NEW k \in Keys, NEW v \in Vals, Set(k, v) PROVE Map!Set(k, v)
    <3>1. Contents(table') = [y \in DOMAIN Contents(table) \cup {k} |->
                                  IF y = k THEN v ELSE Contents(table)[y]]
      <4>1. \A x \in Entries : Holds(table', x) <=> x = <<k, v>> \/ (x[1] # k /\ Holds(table, x))
        BY <2>1, <2>3, SetKeeps DEF Set
      <4> QED
        BY <2>1, <2>2, <4>1, ContentsSet
    <3> QED
      BY <3>1 DEF Map!Set, Contents
  <2>4. ASSUME NEW k \in Keys, Del(k) PROVE Map!Del(k)
    <3>1. Contents(table') = [y \in DOMAIN Contents(table) \ {k} |-> Contents(table)[y]]
      <4>1. \A x \in Entries : Holds(table', x) <=> x[1] # k /\ Holds(table, x)
        BY <2>1, <2>4, EraseFacts DEF Del
      <4> QED
        BY <2>1, <2>2, <4>1, ContentsDel
    <3> QED
      BY <3>1 DEF Map!Del, Contents
  <2>5. CASE Clear
    <3>1. Contents(table') = [y \in {} |-> 0]
      BY <2>1, <2>5, ClearedFacts, ContentsNone DEF Clear
    <3>2. Map!Clear
      BY <3>1 DEF Map!Clear, Contents
    <3> QED
      BY <3>2 DEF Map!Next
  <2>6. CASE UNCHANGED table
    BY <2>6 DEF Map!vars
  <2>7. CASE SetFails
    BY <2>6, <2>7 DEF SetFails
  <2>8. CASE UNCHANGED tableVars
    BY <2>6, <2>8 DEF tableVars
  <2> QED
    BY <2>1, <2>3, <2>4, <2>5, <2>7, <2>8 DEF TableNext, Map!Next
<1> QED
  BY <1>1, <1>2, TableInvariance, PTL DEF TableSpec, ImplementsMap, Map!Spec
=============================================================================
