--------------------------- MODULE PyreBloomProofs ----------------------------
(*************************************************************************)
(* pyrebloom for every number of objects, values, hashes, databases and  *)
(* faults: what an object that has not raised an exception may rely on.  *)
(*                                                                       *)
(* The invariant has three layers.                                       *)
(*                                                                       *)
(* IInv: as long as an object has not raised, all that is on its         *)
(* connection, commands and replies, belongs to its current call, and is *)
(* as many as the replies the call still has to read; so there is        *)
(* nothing left when the call returns. Only contains can lose the count, *)
(* when a read fails: then one of its answers is -1, and it ends by      *)
(* raising. On a connection that is down nothing more can be received.   *)
(*                                                                       *)
(* Orderly: what the commands of init and delete ask for. A SELECT asks  *)
(* for the database of the object, and without a password it is the last *)
(* thing init waits for; so an object whose constructor has returned is  *)
(* admitted and at home, unless it could not ask. A delete that has not  *)
(* failed has had the keys that are not ahead of it any more deleted, or *)
(* refused.                                                              *)
(*                                                                       *)
(* Truthful: where each reply and command stands in line. Behind the     *)
(* replies a put or contains has read comes the one for the next place,  *)
(* in its order; a reply without error tells what the bit at this place  *)
(* was when the server ran the command. Bits are not cleared but by a    *)
(* delete, after which nothing is owed; so contains ends with 1 for      *)
(* every value it must find.                                             *)
(*************************************************************************)
EXTENDS PyreBloom, FiniteSetTheorems, WellFoundedInduction, TLAPS

Own(q, tag) == \A i \in DOMAIN q : q[i].tag = tag

OnLine(con) == Len(con.obuf) + Len(con.wire) + Len(con.sock) + Len(con.reader)

El(q) == {q[i] : i \in DOMAIN q}

\* The commands the server has still to run, in their order, and the replies
\* the caller has still to read, in theirs.
Asked(con) == con.wire \o con.obuf
Heard(con) == con.reader \o con.sock

\* All of a connection but what has been received on it.
Wired(x, con) ==
    /\ x.up = con.up /\ x.obuf = con.obuf /\ x.wire = con.wire /\ x.want = con.want
    /\ x.password = con.password /\ x.db = con.db /\ x.authed = con.authed

\* contains has seen an error, and will raise.
Doomed(k) == k.op = "get" /\ \E i \in DOMAIN k.answers : k.answers[i] = -1

\* A call that runs has a reply to read, in init and delete one at a time.
Live(k, con) == con.state = "busy" => /\ k.left > 0 /\ k.op \in {"init", "del", "set", "get"}
                                      /\ k.op \in {"init", "del"} => k.left = 1

\* What is on the connection belongs to the call.
Belongs(k, con) ==
    /\ ~k.foreign
    /\ Own(con.reader, k.tag) /\ Own(k.todo, k.tag)
    /\ con.up => Own(con.obuf, k.tag) /\ Own(con.wire, k.tag) /\ Own(con.sock, k.tag)
    /\ ~con.up => con.sock = <<>>

\* n replies are still to come, as the call runs.
Expects(k, con, n) ==
    /\ ~Doomed(k) => /\ Len(con.reader) <= n
                     /\ con.up => OnLine(con) = n
    /\ k.op \in {"init", "del"} => (con.up => ~con.err)

Quiet(con) == /\ con.reader = <<>> /\ con.sock = <<>>
              /\ con.up => con.obuf = <<>> /\ con.wire = <<>> /\ ~con.err

InStep(k, con) ==
    /\ ~k.foreign
    /\ con.state = "busy" => Belongs(k, con) /\ Expects(k, con, k.left)
    /\ con.state = "idle" => Quiet(con)

\* What the invariant looks at in a call.
Same(k, j) == /\ k.op = j.op /\ k.tag = j.tag /\ k.left = j.left /\ k.todo = j.todo
              /\ k.answers = j.answers /\ k.foreign = j.foreign

IInv == /\ TypeOK
        /\ \A c \in Clients : /\ Live(call[c], conn[c])
                              /\ c \notin raised => InStep(call[c], conn[c])

-----------------------------------------------------------------------------
(* The floats of init: what is counted is not lost altogether. *)

LEMMA Smallest ==
    ASSUME NEW T, T \subseteq Nat, T # {}
    PROVE  \E x \in T : \A y \in T : x <= y
<1>1. PICK x \in T : \A y \in T : ~ (<<y, x>> \in OpToRel(<, Nat))
  BY NatLessThanWellFounded, WFMin
<1>2. ASSUME NEW y \in T PROVE x <= y
  <2>1. ~ (y < x)
    BY <1>1 DEF OpToRel
  <2> QED
    BY <2>1
<1> QED
  BY <1>2

LEMMA Induction ==
    ASSUME NEW T, T \subseteq Nat, 0 \in T, \A n \in T : n + 1 \in T
    PROVE  \A n \in Nat : n \in T
<1> SUFFICES ASSUME Nat \ T # {} PROVE FALSE
  OBVIOUS
<1>1. PICK x \in Nat \ T : \A y \in Nat \ T : x <= y
  BY Smallest
<1>2. x - 1 \in Nat /\ x - 1 \in T
  BY <1>1
<1> QED
  BY <1>1, <1>2

\* The powers of two up to the m-th.
IsPowers(f, m) == f[0] = 1 /\ \A k \in 1..m : f[k] = 2 * f[k - 1]

LEMMA PowersExist == \A m \in Nat : \E f \in [0..m -> Nat] : IsPowers(f, m)
<1> DEFINE T == {m \in Nat : \E f \in [0..m -> Nat] : IsPowers(f, m)}
<1>1. 0 \in T
  <2>1. [k \in 0..0 |-> 1] \in [0..0 -> Nat] /\ IsPowers([k \in 0..0 |-> 1], 0)
    BY DEF IsPowers
  <2> QED
    BY <2>1
<1>2. ASSUME NEW m \in T PROVE m + 1 \in T
  <2>1. PICK f \in [0..m -> Nat] : IsPowers(f, m)
    OBVIOUS
  <2>2. m \in Nat /\ m \in 0..m /\ f[m] \in Nat /\ 2 * f[m] \in Nat
    OBVIOUS
  <2> DEFINE h == [k \in 0..(m + 1) |-> IF k = m + 1 THEN 2 * f[m] ELSE f[k]]
  <2>3. h \in [0..(m + 1) -> Nat]
    <3>1. ASSUME NEW k \in 0..(m + 1), k # m + 1 PROVE f[k] \in Nat
      <4>1. k \in 0..m
        BY <2>2, <3>1
      <4> QED
        BY <4>1
    <3> QED
      BY <2>2, <3>1
  <2>4. h[0] = 1
    BY <2>1, <2>2 DEF IsPowers
  <2>5. ASSUME NEW k \in 1..(m + 1) PROVE h[k] = 2 * h[k - 1]
    <3>1. CASE k = m + 1
      <4>1. k - 1 = m /\ h[k - 1] = f[m] /\ h[k] = 2 * f[m]
        BY <2>2, <3>1
      <4> QED
        BY <4>1
    <3>2. CASE k # m + 1
      <4>1. k \in 1..m /\ k - 1 \in 0..m /\ h[k] = f[k] /\ h[k - 1] = f[k - 1]
        BY <2>2, <3>2
      <4> QED
        BY <2>1, <4>1 DEF IsPowers
    <3> QED
      BY <3>1, <3>2
  <2>6. \E e \in [0..(m + 1) -> Nat] : IsPowers(e, m + 1)
    <3> HIDE DEF h
    <3> QED
      BY <2>3, <2>4, <2>5 DEF IsPowers
  <2> QED
    BY <2>2, <2>6
<1>3. \A m \in Nat : m \in T
  <2> HIDE DEF T
  <2>1. T \subseteq Nat
    BY DEF T
  <2> QED
    BY <1>1, <1>2, <2>1, Induction
<1> QED
  BY <1>3

\* Pow2 is what its recursion says.
LEMMA PowersUnfold ==
    Pow2[0] = 1 /\ \A k \in 1..WordBits : Pow2[k] = 2 * Pow2[k - 1]
<1> DEFINE Rec(f) == f = [i \in 0..WordBits |-> IF i = 0 THEN 1 ELSE 2 * f[i - 1]]
<1>1. WordBits \in Nat
  BY FloatAssumption
<1>2. PICK f \in [0..WordBits -> Nat] : IsPowers(f, WordBits)
  BY <1>1, PowersExist
<1>3. Rec(f)
  BY <1>1, <1>2 DEF IsPowers
<1>4. Pow2 = CHOOSE e : Rec(e)
  BY DEF Pow2
<1>5. Rec(Pow2)
  <2> HIDE DEF Rec
  <2> QED
    BY <1>3, <1>4
<1> QED
  BY <1>1, <1>5

\* The powers rise.
LEMMA PowersRise ==
    ASSUME NEW x \in 0..WordBits
    PROVE  /\ Pow2[x] \in Nat \ {0} /\ (x > 0 => Pow2[x] >= 2)
           /\ \A y \in 0..WordBits : x <= y => Pow2[x] <= Pow2[y]
<1>1. WordBits \in Nat
  BY FloatAssumption
<1> DEFINE P == {n \in Nat : n <= WordBits => Pow2[n] \in Nat \ {0} /\ (n > 0 => Pow2[n] >= 2)}
<1>2. \A n \in Nat : n \in P
  <2>1. 0 \in P
    BY PowersUnfold
  <2>2. ASSUME NEW n \in P PROVE n + 1 \in P
    <3>1. CASE n + 1 <= WordBits
      <4>1. n + 1 \in 1..WordBits /\ (n + 1) - 1 = n /\ Pow2[n] \in Nat \ {0}
        BY <1>1, <3>1
      <4>2. Pow2[n + 1] = 2 * Pow2[n]
        BY <4>1, PowersUnfold
      <4> QED
        BY <4>1, <4>2
    <3> QED
      BY <3>1
  <2>3. P \subseteq Nat
    OBVIOUS
  <2> HIDE DEF P
  <2> QED
    BY <2>1, <2>2, <2>3, Induction
<1> DEFINE T == {n \in Nat : n <= WordBits /\ x <= n => Pow2[x] <= Pow2[n]}
<1>3. \A n \in Nat : n \in T
  <2>1. 0 \in T
    BY <1>2
  <2>2. ASSUME NEW n \in T PROVE n + 1 \in T
    <3>1. CASE n + 1 <= WordBits /\ x <= n
      <4>1. /\ n + 1 \in 1..WordBits /\ (n + 1) - 1 = n /\ n \in Nat
            /\ Pow2[n] \in Nat /\ Pow2[x] \in Nat /\ Pow2[x] <= Pow2[n]
        BY <1>1, <1>2, <3>1
      <4>2. Pow2[n + 1] = 2 * Pow2[n]
        BY <4>1, PowersUnfold
      <4> QED
        BY <4>1, <4>2
    <3>2. CASE x = n + 1
      BY <1>2, <3>2
    <3> QED
      BY <3>1, <3>2
  <2>3. T \subseteq Nat
    OBVIOUS
  <2> HIDE DEF T
  <2> QED
    BY <2>1, <2>2, <2>3, Induction
<1>4. Pow2[x] \in Nat \ {0} /\ (x > 0 => Pow2[x] >= 2)
  BY <1>1, <1>2
<1>5. \A y \in 0..WordBits : x <= y => Pow2[x] <= Pow2[y]
  BY <1>1, <1>3
<1> QED
  BY <1>4, <1>5

\* The distance of the floats next to a number is not more than the number.
LEMMA GapType ==
    ASSUME NEW x \in 1..(Pow2[WordBits] - 1)
    PROVE  Gap(x) \in Nat \ {0} /\ Gap(x) <= x
<1>1. /\ WordBits \in Nat \ {0} /\ Mantissa \in 1..WordBits /\ Pow2[WordBits] \in Nat
      /\ WordBits \in 0..WordBits
  BY FloatAssumption, PowersRise
<1> DEFINE Fits(i) == x < Pow2[i + Mantissa] /\ (i = 0 \/ x >= Pow2[i + Mantissa - 1])
           S == {i \in 0..(WordBits - Mantissa) : x < Pow2[i + Mantissa]}
<1>2. \E i \in 0..(WordBits - Mantissa) : Fits(i)
  <2>1. WordBits - Mantissa \in S
    <3>1. (WordBits - Mantissa) + Mantissa = WordBits /\ WordBits - Mantissa \in Nat
      BY <1>1
    <3> QED
      BY <1>1, <3>1
  <2>2. S \subseteq Nat /\ S # {}
    BY <1>1, <2>1
  <2>3. PICK i \in S : \A j \in S : i <= j
    <3> HIDE DEF S
    <3> QED
      BY <2>2, Smallest
  <2>4. ASSUME i # 0 PROVE x >= Pow2[i + Mantissa - 1]
    <3>1. i - 1 \in 0..(WordBits - Mantissa) /\ (i - 1) + Mantissa = i + Mantissa - 1
          /\ i - 1 \notin S /\ i + Mantissa - 1 \in 0..WordBits
      BY <1>1, <2>3, <2>4
    <3>2. ~(x < Pow2[i + Mantissa - 1]) /\ Pow2[i + Mantissa - 1] \in Nat
      BY <3>1, PowersRise
    <3> QED
      BY <3>2
  <2> QED
    BY <2>3, <2>4
<1>3. PICK i \in 0..(WordBits - Mantissa) : Gap(x) = Pow2[i] /\ Fits(i)
  <2>1. PICK i : i = CHOOSE j \in 0..(WordBits - Mantissa) : Fits(j)
    OBVIOUS
  <2>2. i \in 0..(WordBits - Mantissa) /\ Fits(i)
    <3> HIDE DEF Fits
    <3> QED
      BY <1>2, <2>1
  <2>3. Gap(x) = Pow2[i]
    BY <2>1 DEF Gap
  <2> QED
    BY <2>2, <2>3
<1>4. i \in 0..WordBits /\ Pow2[i] \in Nat \ {0}
  BY <1>1, PowersRise
<1>5. CASE i = 0
  BY <1>3, <1>4, <1>5, PowersUnfold
<1>6. CASE i # 0
  <2>1. i + Mantissa - 1 \in 0..WordBits /\ i <= i + Mantissa - 1
    BY <1>1
  <2>2. Pow2[i] <= Pow2[i + Mantissa - 1] /\ Pow2[i + Mantissa - 1] \in Nat
    BY <1>4, <2>1, PowersRise
  <2> QED
    BY <1>3, <1>4, <1>6, <2>2
<1> QED
  BY <1>5, <1>6

\* A number that is not 0 is not 0 as a float.
LEMMA FloatType ==
    ASSUME NEW x \in 1..(Pow2[WordBits] - 1)
    PROVE  AsFloat(x) \in Nat \ {0}
<1>1. PICK g \in Nat \ {0} : g = Gap(x) /\ g <= x
  BY GapType
<1>2. PICK m \in Nat \ {0} : m = x \div g
  <2>1. x \in Nat /\ x >= g
    BY <1>1
  <2>2. x \div g \in Nat /\ x \div g # 0
    BY <1>1, <2>1
  <2> QED
    BY <2>2
<1>3. AsFloat(x) = m * g \/ AsFloat(x) = (m + 1) * g
  BY <1>1, <1>2 DEF AsFloat
<1>4. \A p, q \in Nat \ {0} : p * q \in Nat \ {0}
  OBVIOUS
<1> QED
  BY <1>2, <1>3, <1>4

-----------------------------------------------------------------------------
(* The commands. *)

LEMMA Constants ==
    /\ Hashes \in Nat \ {0} /\ MaxBits \in Nat \ {0} /\ BitCounts \subseteq Nat \ {0}
    /\ BitCounts \subseteq 1..(Pow2[WordBits] - 1) /\ MaxBits \in 1..(Pow2[WordBits] - 1)
    /\ 0 \in Databases /\ Databases \subseteq Nat /\ MaxFaults \in Nat
    /\ \A c \in Clients : Wanted[c] \subseteq Nat /\ MaxCalls[c] \in Nat
    /\ \A c \in Clients : Lists[c] \subseteq Seq(Items)
    /\ \A i \in Items, j \in 1..Hashes : Hash[i][j] \in Nat
<1>1. PICK i \in (Mantissa + 1)..WordBits : MaxBits = Pow2[i] - 1
  BY BitsAssumption
<1>2. /\ i \in 0..WordBits /\ i > 0 /\ i <= WordBits /\ WordBits \in 0..WordBits
  BY FloatAssumption
<1>3. /\ Pow2[i] \in Nat /\ Pow2[i] >= 2 /\ Pow2[WordBits] \in Nat
      /\ Pow2[i] <= Pow2[WordBits]
  BY <1>2, PowersRise
<1>4. MaxBits \in Nat \ {0} /\ MaxBits \in 1..(Pow2[WordBits] - 1)
  BY <1>1, <1>3
<1>5. BitCounts \subseteq 1..(Pow2[WordBits] - 1)
  BY BitsAssumption
<1>6. BitCounts \subseteq Nat \ {0}
  BY <1>5
<1> QED
  BY <1>4, <1>5, <1>6, HashesAssumption, HashAssumption, DbAssumption, ListsAssumption,
     BoundsAssumption

LEMMA DivType ==
    ASSUME NEW a \in Nat, NEW b \in Nat \ {0}
    PROVE  a \div b \in Nat /\ a % b \in Nat /\ a % b < b
  OBVIOUS

LEMMA DivBound ==
    ASSUME NEW a \in Nat, NEW b \in Nat \ {0}, NEW m \in Nat, a < b * m
    PROVE  a \div b < m
<1> DEFINE q == a \div b  r == a % b
<1>1. q \in Nat /\ r \in Nat /\ a = q * b + r
  BY DivType
<1> HIDE DEF q, r
<1>2. CASE q >= m
  <2>1. q * b >= m * b
    BY <1>1, <1>2
  <2> QED
    BY <1>1, <2>1
<1> QED
  BY <1>1, <1>2 DEF q

LEMMA DivWhole ==
    ASSUME NEW a \in Nat, NEW b \in Nat \ {0}
    PROVE  a % b \in Nat /\ a % b < b /\ a = ((a \div b) * b) + (a % b)
  OBVIOUS

LEMMA DivShift ==
    ASSUME NEW a \in Nat, NEW b \in Nat \ {0}
    PROVE  (a + b) \div b = (a \div b) + 1
  OBVIOUS

LEMMA PlaceType ==
    ASSUME TypeOK, NEW i \in Items, NEW j \in 1..Hashes
    PROVE  Place(i, j) \in Nat \X Nat
<1>1. bits \in Nat \ {0}
  BY Constants DEF TypeOK
<1>2. Hash[i][j] % bits \in Nat
  BY <1>1, Constants, DivType
<1> QED
  BY <1>2, Constants, DivType DEF Place

\* One command per hash of every value, and all of this call.
LEMMA AppendedType ==
    ASSUME TypeOK, NEW s \in Seq(Items), NEW op \in {"set", "get"}, NEW tag \in Nat
    PROVE  /\ Appended(op, tag, s) \in Seq(Commands)
           /\ Len(Appended(op, tag, s)) = Hashes * Len(s)
           /\ Hashes * Len(s) \in Nat
           /\ Own(Appended(op, tag, s), tag)
<1>1. Hashes * Len(s) \in Nat /\ Hashes \in Nat \ {0} /\ Len(s) \in Nat
  BY Constants
<1>2. ASSUME NEW n \in 1..(Hashes * Len(s))
      PROVE  Place(s[((n - 1) \div Hashes) + 1], ((n - 1) % Hashes) + 1) \in Nat \X Nat
  <2>1. n - 1 \in Nat /\ n - 1 < Hashes * Len(s)
    BY <1>1
  <2>2. (n - 1) \div Hashes \in Nat /\ (n - 1) \div Hashes < Len(s)
    BY <1>1, <2>1, DivType, DivBound
  <2>3. (n - 1) % Hashes \in Nat /\ (n - 1) % Hashes < Hashes
    BY <1>1, <2>1, DivType
  <2>4. ((n - 1) \div Hashes) + 1 \in 1..Len(s) /\ ((n - 1) % Hashes) + 1 \in 1..Hashes
    BY <1>1, <2>2, <2>3
  <2> QED
    BY <2>4, PlaceType
<1>3. ASSUME NEW n \in 1..(Hashes * Len(s))
      PROVE  [op |-> op, tag |-> tag,
              at |-> Place(s[((n - 1) \div Hashes) + 1], ((n - 1) % Hashes) + 1)] \in Commands
  BY <1>2 DEF Commands
<1> QED
  BY <1>1, <1>3 DEF Appended, Own

LEMMA DeletesType ==
    ASSUME TypeOK, NEW tag \in Nat
    PROVE  /\ NumKeys \in Nat \ {0}
           /\ Deletes(tag) \in Seq(Commands)
           /\ Len(Deletes(tag)) = NumKeys
           /\ Own(Deletes(tag), tag)
<1>1. NumKeys \in Nat \ {0}
  <2>1. AsFloat(bits) \in Nat \ {0} /\ AsFloat(MaxBits) \in Nat \ {0}
    BY Constants, FloatType DEF TypeOK
  <2>2. PICK a \in Nat, b \in Nat \ {0} :
          a = AsFloat(bits) + AsFloat(MaxBits) - 1 /\ b = AsFloat(MaxBits) /\ a >= b
    BY <2>1
  <2>3. a \div b \in Nat /\ a \div b # 0
    BY <2>2
  <2> QED
    BY <2>2, <2>3 DEF NumKeys
<1>2. \A n \in 1..NumKeys : [op |-> "del", tag |-> tag, at |-> <<n - 1, 0>>] \in Commands
  BY <1>1 DEF Commands
<1> QED
  BY <1>1, <1>2 DEF Deletes, Own

-----------------------------------------------------------------------------
(* A step changes one object. *)

LEMMA SameInStep ==
    ASSUME NEW k, NEW j, NEW con, Same(k, j)
    PROVE  (Live(j, con) => Live(k, con)) /\ (InStep(j, con) => InStep(k, con))
  BY DEF Same, Live, InStep, Belongs, Expects, Doomed

LEMMA OneObject ==
    ASSUME IInv, NEW c \in Clients, NEW x \in Conns, NEW y \in Calls,
           conn' = [conn EXCEPT ![c] = x], call' = [call EXCEPT ![c] = y],
           UNCHANGED <<bits, requires, store>>,
           stored' \in [Databases -> SUBSET Items], faults' \in 0..MaxFaults,
           raised \subseteq raised', raised' \subseteq Clients,
           Live(y, x), c \notin raised' => InStep(y, x)
    PROVE  IInv'
<1>1. TypeOK'
  BY DEF IInv, TypeOK
<1>2. conn'[c] = x /\ call'[c] = y
  BY DEF IInv, TypeOK
<1>3. \A d \in Clients \ {c} : conn'[d] = conn[d] /\ call'[d] = call[d]
  BY DEF IInv, TypeOK
<1>4. ASSUME NEW d \in Clients
      PROVE  Live(call'[d], conn'[d]) /\ (d \notin raised' => InStep(call'[d], conn'[d]))
  BY <1>2, <1>3 DEF IInv
<1> QED
  BY <1>1, <1>4 DEF IInv

\* A step that leaves the calls alone.
LEMMA OneConn ==
    ASSUME IInv, NEW c \in Clients, NEW x \in Conns,
           conn' = [conn EXCEPT ![c] = x],
           UNCHANGED <<bits, requires, store, call, stored, raised>>, faults' \in 0..MaxFaults,
           Live(call[c], x), c \notin raised => InStep(call[c], x)
    PROVE  IInv'
<1>1. call' = [call EXCEPT ![c] = call[c]] /\ call[c] \in Calls
  BY DEF IInv, TypeOK
<1>2. stored' \in [Databases -> SUBSET Items] /\ raised' \subseteq Clients
  BY DEF IInv, TypeOK
<1> QED
  BY <1>1, <1>2, OneObject

LEMMA StartType ==
    ASSUME NEW op \in {"none", "init", "set", "get", "del", "aborted"}, NEW tag \in Nat,
           NEW s \in Seq(Items), NEW left \in Nat, NEW todo \in Seq(Commands),
           NEW must \in SUBSET Items
    PROVE  /\ Start(op, tag, s, left, todo, must) \in Calls
           /\ Start(op, tag, s, left, todo, must).op = op
           /\ Start(op, tag, s, left, todo, must).tag = tag
           /\ Start(op, tag, s, left, todo, must).left = left
           /\ Start(op, tag, s, left, todo, must).todo = todo
           /\ ~Start(op, tag, s, left, todo, must).foreign
           /\ ~Doomed(Start(op, tag, s, left, todo, must))
  BY DEF Start, Calls, Doomed

LEMMA InitInv == Init => IInv
<1> SUFFICES ASSUME Init PROVE IInv
  OBVIOUS
<1>1. NoConn \in Conns /\ NoConn.state = "new"
  BY Constants DEF NoConn, Conns
<1>2. /\ Start("none", 0, <<>>, 0, <<>>, {}) \in Calls
      /\ ~Start("none", 0, <<>>, 0, <<>>, {}).foreign
  <2>1. <<>> \in Seq(Items) /\ <<>> \in Seq(Commands) /\ {} \in SUBSET Items /\ 0 \in Nat
    OBVIOUS
  <2> QED
    BY <2>1, StartType
<1>3. TypeOK
  BY <1>1, <1>2, Constants DEF Init, TypeOK
<1>4. \A c \in Clients : Live(call[c], conn[c]) /\ InStep(call[c], conn[c])
  BY <1>1, <1>2 DEF Init, Live, InStep
<1> QED
  BY <1>3, <1>4 DEF IInv

LEMMA ConnectInv == ASSUME IInv, NEW c \in Clients, Connect(c) PROVE IInv'
<1>1. UNCHANGED <<bits, requires, store, stored, raised, faults>>
  BY DEF Connect
<1>2. /\ stored' \in [Databases -> SUBSET Items] /\ raised' \subseteq Clients
      /\ faults' \in 0..MaxFaults /\ conn[c] \in Conns /\ call[c] \in Calls
      /\ conn[c].state = "new"
  BY <1>1 DEF IInv, TypeOK, Connect
<1>3. CASE conn' = [conn EXCEPT ![c].state = "closed"] /\ UNCHANGED call
  <2> DEFINE x == [conn[c] EXCEPT !.state = "closed"]
  <2>1. x \in Conns /\ x.state = "closed" /\ conn' = [conn EXCEPT ![c] = x]
    BY <1>2, <1>3 DEF Conns
  <2>2. Live(call[c], x)
    BY <2>1 DEF Live
  <2>3. c \notin raised => InStep(call[c], x)
    BY <2>1 DEF IInv, InStep
  <2> HIDE DEF x
  <2> QED
    BY <1>1, <1>2, <1>3, <2>1, <2>2, <2>3, OneConn
<1>4. CASE \E password \in BOOLEAN, db \in Wanted[c] :
            LET cmds == Greeting(password, db) IN
            /\ conn' = [conn EXCEPT ![c] = [NoConn EXCEPT !.state = "busy", !.up = TRUE,
                           !.want = db, !.password = password, !.obuf = << cmds[1] >>]]
            /\ call' = [call EXCEPT ![c] = Start("init", 0, <<>>, 1, Tail(cmds), {})]
  <2>1. PICK password \in BOOLEAN, db \in Wanted[c] :
            LET cmds == Greeting(password, db) IN
            /\ conn' = [conn EXCEPT ![c] = [NoConn EXCEPT !.state = "busy", !.up = TRUE,
                           !.want = db, !.password = password, !.obuf = << cmds[1] >>]]
            /\ call' = [call EXCEPT ![c] = Start("init", 0, <<>>, 1, Tail(cmds), {})]
    BY <1>4
  <2> DEFINE cmds == Greeting(password, db)
             x == [NoConn EXCEPT !.state = "busy", !.up = TRUE, !.want = db,
                                 !.password = password, !.obuf = << cmds[1] >>]
             y == Start("init", 0, <<>>, 1, Tail(cmds), {})
  <2>2. /\ cmds[1] \in Commands /\ cmds[1].tag = 0
        /\ Tail(cmds) \in Seq(Commands) /\ Own(Tail(cmds), 0)
    <3>1. db \in Nat
      BY Constants
    <3> DEFINE m(op, n) == [op |-> op, tag |-> 0, at |-> <<n, 0>>]
    <3>2. /\ m("auth", 0) \in Commands /\ m("ping", 0) \in Commands
          /\ m("select", db) \in Commands
      BY <3>1 DEF Commands
    <3>3. CASE password
      <4>1. cmds = << m("auth", 0) >>
        BY <3>3 DEF Greeting
      <4> QED
        BY <3>2, <4>1 DEF Own
    <3>4. CASE ~password
      <4>1. cmds = << m("ping", 0), m("select", db) >>
        BY <3>4 DEF Greeting
      <4>2. Tail(cmds) = << m("select", db) >>
        BY <4>1
      <4> QED
        BY <3>2, <4>1, <4>2 DEF Own
    <3> QED
      BY <3>3, <3>4
  <2> HIDE DEF cmds
  <2>3. /\ y \in Calls /\ y.op = "init" /\ y.tag = 0 /\ y.left = 1
        /\ y.todo = Tail(cmds) /\ ~y.foreign /\ ~Doomed(y)
    <3> DEFINE todo == Tail(cmds)
    <3>1. todo \in Seq(Commands)
      BY <2>2
    <3> HIDE DEF todo
    <3>2. /\ Start("init", 0, <<>>, 1, todo, {}) \in Calls
          /\ Start("init", 0, <<>>, 1, todo, {}).op = "init"
          /\ Start("init", 0, <<>>, 1, todo, {}).tag = 0
          /\ Start("init", 0, <<>>, 1, todo, {}).left = 1
          /\ Start("init", 0, <<>>, 1, todo, {}).todo = todo
          /\ ~Start("init", 0, <<>>, 1, todo, {}).foreign
          /\ ~Doomed(Start("init", 0, <<>>, 1, todo, {}))
      BY <3>1 DEF Start, Calls, Doomed
    <3> QED
      BY <3>2 DEF todo
  <2>4. /\ x \in Conns /\ x.state = "busy" /\ x.up /\ ~x.err /\ x.obuf = << cmds[1] >>
        /\ x.wire = <<>> /\ x.sock = <<>> /\ x.reader = <<>>
    <3>1. /\ NoConn \in Conns /\ NoConn.err = FALSE /\ NoConn.wire = <<>>
          /\ NoConn.sock = <<>> /\ NoConn.reader = <<>>
      BY Constants DEF NoConn, Conns
    <3>2. db \in Nat /\ << cmds[1] >> \in Seq(Commands)
      BY <2>2, Constants
    <3> QED
      BY <3>1, <3>2 DEF Conns
  <2>5. conn' = [conn EXCEPT ![c] = x] /\ call' = [call EXCEPT ![c] = y]
    BY <2>1 DEF cmds
  <2> HIDE DEF x, y
  <2>6. Live(y, x)
    BY <2>3 DEF Live
  <2>7. InStep(y, x)
    BY <2>2, <2>3, <2>4 DEF InStep, Belongs, Expects, OnLine, Own
  <2> QED
    BY <1>1, <1>2, <2>3, <2>4, <2>5, <2>6, <2>7, OneObject
<1> QED
  BY <1>3, <1>4 DEF Connect

-----------------------------------------------------------------------------
(* The ways a step of a call ends. *)

LEMMA GoOnInv ==
    ASSUME IInv, NEW c \in Clients, NEW k \in Calls, NEW con \in Conns, GoOn(c, k, con),
           UNCHANGED <<bits, requires, store>>, faults' = faults,
           Live(k, con), c \notin raised => InStep(k, con)
    PROVE  IInv'
<1>1. /\ conn' = [conn EXCEPT ![c] = con] /\ call' = [call EXCEPT ![c] = k]
      /\ stored' = stored /\ raised' = raised
  BY DEF GoOn
<1>2. /\ stored' \in [Databases -> SUBSET Items] /\ raised' \subseteq Clients
      /\ faults' \in 0..MaxFaults
  BY <1>1 DEF IInv, TypeOK
<1> QED
  BY <1>1, <1>2, OneObject

LEMMA ReturnInv ==
    ASSUME IInv, NEW c \in Clients, NEW k \in Calls, NEW con \in Conns, Return(c, k, con),
           UNCHANGED <<bits, requires, store>>, faults' = faults,
           c \notin raised => ~k.foreign /\ Quiet(con)
    PROVE  IInv'
<1> DEFINE x == [con EXCEPT !.state = "idle"]
           y == [k EXCEPT !.swept = FALSE]
<1>1. /\ x \in Conns /\ x.state = "idle" /\ x.reader = con.reader /\ x.sock = con.sock
      /\ x.up = con.up /\ x.obuf = con.obuf /\ x.wire = con.wire /\ x.err = con.err
  BY DEF Conns
<1>2. y \in Calls /\ y.foreign = k.foreign
  BY DEF Calls
<1>3. /\ conn' = [conn EXCEPT ![c] = x] /\ call' = [call EXCEPT ![c] = y] /\ raised' = raised
  BY DEF Return
<1>4. stored' \in [Databases -> SUBSET Items]
  <2>1. con.db \in Databases /\ {k.items[n] : n \in DOMAIN k.items} \subseteq Items
    BY DEF Conns, Calls
  <2>2. stored \in [Databases -> SUBSET Items]
    BY DEF IInv, TypeOK
  <2> QED
    BY <2>1, <2>2 DEF Return
<1>5. raised' \subseteq Clients /\ faults' \in 0..MaxFaults
  BY <1>3 DEF IInv, TypeOK
<1> HIDE DEF x, y
<1>6. Live(y, x)
  BY <1>1 DEF Live
<1>7. c \notin raised => InStep(y, x)
  BY <1>1, <1>2 DEF InStep, Quiet
<1> QED
  BY <1>1, <1>2, <1>3, <1>4, <1>5, <1>6, <1>7, OneObject

LEMMA AbortedType ==
    ASSUME NEW tag \in Nat, NEW foreign \in BOOLEAN
    PROVE  Aborted(tag, foreign) \in Calls
<1> DEFINE k == Start("aborted", tag, <<>>, 0, <<>>, {})
<1>1. k \in Calls
  BY DEF Start, Calls
<1> HIDE DEF k
<1>2. [k EXCEPT !.foreign = foreign] \in Calls
  BY <1>1 DEF Calls
<1> QED
  BY <1>2 DEF Aborted, k

LEMMA RaiseInv ==
    ASSUME IInv, NEW c \in Clients, NEW k \in Calls, NEW con \in Conns, Raise(c, k, con),
           UNCHANGED <<bits, requires, store>>, faults' = faults
    PROVE  IInv'
<1> DEFINE x == [con EXCEPT !.state = "idle"]
<1>1. x \in Conns /\ x.state = "idle" /\ conn' = [conn EXCEPT ![c] = x]
  BY DEF Raise, Conns
<1>2. PICK y \in Calls : call' = [call EXCEPT ![c] = y]
  BY AbortedType DEF Raise, Calls
<1>3. raised' = raised \cup {c} /\ stored' = stored
  BY DEF Raise
<1>4. /\ stored' \in [Databases -> SUBSET Items] /\ raised' \subseteq Clients
      /\ faults' \in 0..MaxFaults
  BY <1>3 DEF IInv, TypeOK
<1> HIDE DEF x
<1>5. Live(y, x)
  BY <1>1 DEF Live
<1> QED
  BY <1>1, <1>2, <1>3, <1>4, <1>5, OneObject

\* With no reply to come and no error, the object is quiet.
LEMMA EmptyLine ==
    ASSUME NEW con \in Conns, Len(con.reader) <= 0, con.up => OnLine(con) = 0 /\ ~con.err,
           ~con.up => con.sock = <<>>
    PROVE  Quiet(con)
<1>1. /\ con.reader \in Seq(Replies) /\ con.sock \in Seq(Replies)
      /\ con.obuf \in Seq(Commands) /\ con.wire \in Seq(Commands)
  BY DEF Conns
<1>2. con.reader = <<>>
  BY <1>1
<1>3. CASE con.up
  <2>1. Len(con.obuf) = 0 /\ Len(con.wire) = 0 /\ Len(con.sock) = 0
    <3>1. /\ Len(con.reader) \in Nat /\ Len(con.sock) \in Nat
          /\ Len(con.obuf) \in Nat /\ Len(con.wire) \in Nat
      BY <1>1
    <3>2. PICK m \in Nat, n \in Nat, o \in Nat, p \in Nat :
            m = Len(con.obuf) /\ n = Len(con.wire) /\ o = Len(con.sock) /\ p = Len(con.reader)
      BY <3>1
    <3>3. m + n + o + p = 0
      <4>1. OnLine(con) = 0
        BY <1>3
      <4>2. OnLine(con) = m + n + o + p
        BY <3>2 DEF OnLine
      <4> QED
        BY <4>1, <4>2
    <3>4. m = 0 /\ n = 0 /\ o = 0
      BY <3>3
    <3> QED
      BY <3>2, <3>4
  <2>2. con.obuf = <<>> /\ con.wire = <<>> /\ con.sock = <<>>
    BY <1>1, <2>1
  <2> QED
    BY <1>2, <1>3, <2>2 DEF Quiet
<1> QED
  BY <1>2, <1>3 DEF Quiet

-----------------------------------------------------------------------------
(* The steps that start a call, and those of the connection. *)

LEMMA OwnPart ==
    ASSUME NEW q \in Seq(Commands), NEW m \in 1..(Len(q) + 1), NEW n \in 0..Len(q)
    PROVE  /\ SubSeq(q, m, n) \in Seq(Commands)
           /\ Len(SubSeq(q, m, n)) = IF m <= n THEN (n - m) + 1 ELSE 0
           /\ \A tag : Own(q, tag) => Own(SubSeq(q, m, n), tag)
<1>1. /\ SubSeq(q, m, n) \in Seq(Commands)
      /\ Len(SubSeq(q, m, n)) = IF m <= n THEN (n - m) + 1 ELSE 0
  OBVIOUS
<1>2. \A i \in 1..Len(SubSeq(q, m, n)) : SubSeq(q, m, n)[i] = q[m + i - 1] /\ m + i - 1 \in 1..Len(q)
  BY <1>1
<1> QED
  BY <1>1, <1>2 DEF Own

LEMMA OwnConcat ==
    ASSUME NEW p \in Seq(Commands), NEW q \in Seq(Commands), NEW tag, Own(p, tag), Own(q, tag)
    PROVE  p \o q \in Seq(Commands) /\ Len(p \o q) = Len(p) + Len(q) /\ Own(p \o q, tag)
  BY DEF Own

\* A quiet object that appends commands of a new call has those on the line.
LEMMA BeginInv ==
    ASSUME IInv, NEW c \in Clients, NEW op \in {"set", "get", "del"}, NEW s \in Seq(Items),
           NEW cmds \in Seq(Commands), NEW todo \in Seq(Commands),
           Own(cmds, call[c].tag + 1), Own(todo, call[c].tag + 1),
           IF op = "del" THEN Len(cmds) <= 1 ELSE Hashes * Len(s) = Len(cmds),
           conn[c].state = "idle", Begin(c, op, s, cmds, todo),
           UNCHANGED <<bits, requires, store, stored, faults>>
    PROVE  IInv'
<1>1. conn[c] \in Conns /\ call[c] \in Calls
  BY DEF IInv, TypeOK
<1>2. PICK tag \in Nat : tag = call[c].tag + 1
  BY <1>1 DEF Calls
<1>3. PICK must \in SUBSET Items : must = IF c \in raised THEN {} ELSE stored[conn[c].db]
  <2>1. conn[c].db \in Databases
    BY <1>1 DEF Conns
  <2> QED
    BY <2>1 DEF IInv, TypeOK
<1>4. PICK n \in Nat : n = Len(cmds)
  OBVIOUS
<1> DEFINE y == Start(op, tag, s, n, todo, must)
           x == [conn[c] EXCEPT !.obuf = @ \o cmds, !.err = Clears(op, @),
                                !.state = IF cmds = <<>> THEN "idle" ELSE "busy"]
<1>5. call' = [call EXCEPT ![c] = y] /\ raised' = raised
  BY <1>2, <1>3, <1>4 DEF Begin
<1>6. conn' = [conn EXCEPT ![c] = x]
  BY DEF Begin, IInv, TypeOK
<1>7. x \in Conns
  <2>1. conn[c].obuf \o cmds \in Seq(Commands)
    BY <1>1 DEF Conns
  <2>2. Clears(op, conn[c].err) \in BOOLEAN
    BY <1>1 DEF Clears, Conns
  <2> QED
    BY <1>1, <2>1, <2>2 DEF Conns
<1>8. /\ x.state = (IF cmds = <<>> THEN "idle" ELSE "busy")
      /\ x.obuf = conn[c].obuf \o cmds /\ x.err = Clears(op, conn[c].err) /\ x.up = conn[c].up
      /\ x.wire = conn[c].wire /\ x.sock = conn[c].sock /\ x.reader = conn[c].reader
  BY <1>1 DEF Conns
<1>9. /\ y \in Calls /\ y.op = op /\ y.tag = tag /\ y.left = n /\ y.todo = todo
      /\ ~y.foreign /\ ~Doomed(y)
  BY DEF Start, Calls, Doomed
<1> HIDE DEF x, y
<1>10. Live(y, x)
  BY <1>4, <1>8, <1>9 DEF Live
<1>11. ASSUME c \notin raised PROVE InStep(y, x)
  <2>1. Quiet(conn[c])
    BY <1>11 DEF IInv, InStep
  <2>2. x.reader = <<>> /\ x.sock = <<>> /\ (x.up => x.obuf = cmds /\ x.wire = <<>> /\ ~x.err)
    BY <1>8, <2>1 DEF Quiet, Clears
  <2>3. ASSUME x.up PROVE OnLine(x) = n
    <3>1. Len(x.obuf) = n /\ Len(x.wire) = 0 /\ Len(x.sock) = 0 /\ Len(x.reader) = 0
      BY <1>4, <2>2, <2>3
    <3> QED
      BY <3>1 DEF OnLine
  <2>4. Belongs(y, x)
    BY <1>2, <1>9, <2>2 DEF Belongs, Own
  <2>5. x.state = "busy" => Expects(y, x, n)
    BY <1>4, <1>8, <1>9, <2>2, <2>3 DEF Expects
  <2>6. x.state = "idle" => Quiet(x)
    BY <1>8, <2>2 DEF Quiet
  <2> QED
    BY <1>9, <2>4, <2>5, <2>6 DEF InStep
<1>12. stored' \in [Databases -> SUBSET Items] /\ raised' \subseteq Clients /\ faults' \in 0..MaxFaults
  BY <1>5 DEF IInv, TypeOK
<1> QED
  BY <1>5, <1>6, <1>7, <1>9, <1>10, <1>11, <1>12, OneObject

LEMMA BatchInv ==
    ASSUME IInv, NEW c \in Clients, NEW op \in {"set", "get"}, NEW s \in Seq(Items),
           Batch(c, op, s)
    PROVE  IInv'
<1>1. /\ conn[c] \in Conns /\ call[c] \in Calls /\ conn[c].state = "idle"
      /\ UNCHANGED <<bits, requires, store, stored, faults>>
  BY DEF IInv, TypeOK, Batch
<1>2. PICK tag \in Nat : tag = call[c].tag + 1
  BY <1>1 DEF Calls
<1>3. PICK cmds \in Seq(Commands) :
        cmds = Appended(op, tag, s) /\ Len(cmds) = Hashes * Len(s) /\ Own(cmds, tag)
  BY AppendedType DEF IInv
<1>4. /\ stored' \in [Databases -> SUBSET Items] /\ faults' \in 0..MaxFaults
  BY <1>1 DEF IInv, TypeOK
<1>5. CASE Strays(c)
  <2> DEFINE x == [conn[c] EXCEPT !.state = "dead", !.up = FALSE]
  <2>1. x \in Conns /\ x.state = "dead" /\ conn' = [conn EXCEPT ![c] = x]
    BY <1>1, <1>5 DEF Conns, Strays, IInv, TypeOK
  <2>2. call' = call /\ raised' = raised
    BY <1>5 DEF Strays
  <2> HIDE DEF x
  <2>3. Live(call[c], x) /\ (c \notin raised => InStep(call[c], x))
    BY <2>1 DEF Live, InStep, IInv
  <2> QED
    BY <1>1, <1>4, <2>1, <2>2, <2>3, OneConn
<1>6. CASE Begin(c, op, s, cmds, <<>>)
  <2>1. <<>> \in Seq(Commands) /\ Own(<<>>, tag)
    BY DEF Own
  <2>2. op \in {"set", "get", "del"} /\ op # "del"
    OBVIOUS
  <2> QED
    BY <1>1, <1>2, <1>3, <1>6, <2>1, <2>2, BeginInv
<1>7. CASE /\ conn' = [conn EXCEPT ![c].obuf = @ \o cmds]
           /\ call' = [call EXCEPT ![c] = Aborted(@.tag + 1, FALSE)]
           /\ raised' = raised \cup {c}
  <2> DEFINE x == [conn[c] EXCEPT !.obuf = @ \o cmds]
  <2>1. x \in Conns /\ x.state = "idle" /\ conn' = [conn EXCEPT ![c] = x]
    <3>1. conn[c].obuf \o cmds \in Seq(Commands)
      BY <1>1 DEF Conns
    <3> QED
      BY <1>1, <1>7, <3>1 DEF Conns
  <2>2. PICK y \in Calls : call' = [call EXCEPT ![c] = y]
    BY <1>2, <1>7, AbortedType
  <2> HIDE DEF x
  <2>3. Live(y, x)
    BY <2>1 DEF Live
  <2>4. raised' \subseteq Clients
    BY <1>7 DEF IInv, TypeOK
  <2> QED
    BY <1>1, <1>4, <1>7, <2>1, <2>2, <2>3, <2>4, OneObject
<1> QED
  BY <1>2, <1>3, <1>5, <1>6, <1>7 DEF Batch

LEMMA CallInv ==
    ASSUME IInv, NEW c \in Clients, Put(c) \/ Add(c) \/ Extend(c) \/ Contains(c) \/ In(c)
    PROVE  IInv'
  BY Constants, BatchInv DEF Put, Add, Extend, Contains, In

LEMMA DeleteInv == ASSUME IInv, NEW c \in Clients, Delete(c) PROVE IInv'
<1>1. conn[c] \in Conns /\ call[c] \in Calls
  BY DEF IInv, TypeOK
<1>2. PICK tag \in Nat : tag = call[c].tag + 1
  BY <1>1 DEF Calls
<1>3. PICK cmds \in Seq(Commands) : cmds = Deletes(tag) /\ Own(cmds, tag) /\ Len(cmds) > 0
  BY DeletesType DEF IInv
<1>4. /\ 1 \in 1..(Len(cmds) + 1) /\ 1 \in 0..Len(cmds) /\ 2 \in 1..(Len(cmds) + 1)
      /\ Len(cmds) \in 0..Len(cmds)
  BY <1>3
<1>5. PICK first : /\ first = SubSeq(cmds, 1, 1) /\ first \in Seq(Commands)
                   /\ Len(first) <= 1 /\ Own(first, tag)
  <2>1. /\ SubSeq(cmds, 1, 1) \in Seq(Commands) /\ Own(SubSeq(cmds, 1, 1), tag)
        /\ Len(SubSeq(cmds, 1, 1)) = IF 1 <= 1 THEN (1 - 1) + 1 ELSE 0
    BY <1>3, <1>4, OwnPart
  <2>2. Len(SubSeq(cmds, 1, 1)) <= 1
    BY <2>1
  <2> QED
    BY <2>1, <2>2
<1>6. PICK rest : /\ rest = SubSeq(cmds, 2, Len(cmds)) /\ rest \in Seq(Commands)
                  /\ Own(rest, tag)
  BY <1>3, <1>4, OwnPart
<1>7. /\ conn[c].state = "idle" /\ Begin(c, "del", <<>>, first, rest)
      /\ UNCHANGED <<bits, requires, store, stored, faults>>
  BY <1>2, <1>3, <1>5, <1>6 DEF Delete
<1>8. <<>> \in Seq(Items) /\ "del" \in {"set", "get", "del"}
  OBVIOUS
<1> QED
  BY <1>2, <1>5, <1>6, <1>7, <1>8, BeginInv

LEMMA Empty == <<>> \in Seq(Commands) /\ <<>> \in Seq(Replies) /\ <<>> \in Seq(Items)
  OBVIOUS

LEMMA DeallocInv == ASSUME IInv, NEW c \in Clients, Dealloc(c) PROVE IInv'
<1>1. conn[c] \in Conns /\ faults' \in 0..MaxFaults
  BY DEF IInv, TypeOK, Dealloc
<1>2. PICK n \in 0..Len(conn[c].wire) :
        conn' = [conn EXCEPT ![c].state = "closed", ![c].up = FALSE,
                             ![c].wire = SubSeq(@, 1, n), ![c].sock = <<>>, ![c].reader = <<>>]
  BY DEF Dealloc
<1> DEFINE x == [conn[c] EXCEPT !.state = "closed", !.up = FALSE,
                                !.wire = SubSeq(@, 1, n), !.sock = <<>>, !.reader = <<>>]
<1>3. PICK wire \in Seq(Commands) : wire = SubSeq(conn[c].wire, 1, n)
  <2>1. conn[c].wire \in Seq(Commands) /\ 1 \in 1..(Len(conn[c].wire) + 1)
    BY <1>1 DEF Conns
  <2> QED
    BY <2>1, OwnPart
<1>4. x \in Conns /\ x.state = "closed"
  <2>1. \A con \in Conns : [con EXCEPT !.state = "closed", !.up = FALSE,
                               !.wire = wire, !.sock = <<>>, !.reader = <<>>] \in Conns
    BY Empty DEF Conns
  <2> QED
    BY <1>1, <1>3, <2>1 DEF Conns
<1>5. conn' = [conn EXCEPT ![c] = x]
  BY <1>2 DEF IInv, TypeOK
<1> HIDE DEF x
<1>6. Live(call[c], x) /\ (c \notin raised => InStep(call[c], x))
  BY <1>4 DEF Live, InStep, IInv
<1>7. UNCHANGED <<bits, requires, store, call, stored, raised>>
  BY DEF Dealloc
<1> QED
  BY <1>1, <1>4, <1>5, <1>6, <1>7, OneConn

LEMMA FlushInv == ASSUME IInv, NEW c \in Clients, Flush(c) PROVE IInv'
<1>1. /\ conn[c] \in Conns /\ faults' \in 0..MaxFaults /\ conn[c].state = "busy"
      /\ conn[c].up /\ UNCHANGED <<bits, requires, store, call, stored, raised>>
  BY DEF IInv, TypeOK, Flush, Reading
<1> DEFINE x == [conn[c] EXCEPT !.wire = @ \o conn[c].obuf, !.obuf = <<>>]
<1>2. conn[c].wire \in Seq(Commands) /\ conn[c].obuf \in Seq(Commands)
  BY <1>1 DEF Conns
<1>3. PICK wire \in Seq(Commands) : wire = conn[c].wire \o conn[c].obuf
  <2>1. \A p, q \in Seq(Commands) : p \o q \in Seq(Commands)
    OBVIOUS
  <2> QED
    BY <1>2, <2>1
<1>4. conn' = [conn EXCEPT ![c] = x]
  BY DEF Flush, IInv, TypeOK
<1>5. /\ x \in Conns /\ x.state = "busy" /\ x.up /\ x.err = conn[c].err
      /\ x.obuf = <<>> /\ x.wire = conn[c].wire \o conn[c].obuf
      /\ x.sock = conn[c].sock /\ x.reader = conn[c].reader
  <2>1. \A con \in Conns : [con EXCEPT !.wire = wire, !.obuf = <<>>] \in Conns
    BY Empty DEF Conns
  <2> QED
    BY <1>1, <1>3, <2>1 DEF Conns
<1> HIDE DEF x
<1>6. Live(call[c], x)
  BY <1>1, <1>5 DEF Live, IInv
<1>7. ASSUME c \notin raised PROVE InStep(call[c], x)
  <2>1. InStep(call[c], conn[c])
    BY <1>7 DEF IInv
  <2>2. Belongs(call[c], x)
    <3>1. /\ Belongs(call[c], conn[c])
          /\ Own(conn[c].wire, call[c].tag) /\ Own(conn[c].obuf, call[c].tag)
      BY <1>1, <2>1 DEF InStep, Belongs
    <3>2. Own(x.wire, call[c].tag) /\ Own(x.obuf, call[c].tag)
      <4>1. Own(conn[c].wire \o conn[c].obuf, call[c].tag)
        BY <1>2, <3>1, OwnConcat
      <4>2. Own(<<>>, call[c].tag)
        BY DEF Own
      <4> QED
        BY <1>5, <4>1, <4>2
    <3> QED
      BY <1>1, <1>5, <3>1, <3>2 DEF Belongs
  <2>3. OnLine(x) = OnLine(conn[c])
    <3>1. PICK a \in Nat, b \in Nat, d \in Nat, e \in Nat :
            /\ a = Len(conn[c].obuf) /\ b = Len(conn[c].wire)
            /\ d = Len(conn[c].sock) /\ e = Len(conn[c].reader)
      BY <1>1 DEF Conns
    <3>2. Len(x.obuf) = 0 /\ Len(x.wire) = b + a /\ Len(x.sock) = d /\ Len(x.reader) = e
      BY <1>2, <1>5, <3>1
    <3>3. OnLine(x) = 0 + (b + a) + d + e
      BY <3>2 DEF OnLine
    <3>4. OnLine(conn[c]) = a + b + d + e
      BY <3>1 DEF OnLine
    <3> QED
      BY <3>3, <3>4
  <2>4. Expects(call[c], x, call[c].left)
    BY <1>1, <1>5, <2>1, <2>3 DEF InStep, Expects
  <2> QED
    BY <1>5, <2>1, <2>2, <2>4 DEF InStep
<1> QED
  BY <1>1, <1>4, <1>5, <1>6, <1>7, OneConn

LEMMA BreakInv == ASSUME IInv, NEW c \in Clients, Break(c) PROVE IInv'
<1>1. /\ conn[c] \in Conns /\ faults' \in 0..MaxFaults
      /\ UNCHANGED <<bits, requires, store, call, stored, raised>>
  BY Constants DEF IInv, TypeOK, Break
<1>2. PICK n \in 0..Len(conn[c].wire) :
        conn' = [conn EXCEPT ![c].up = FALSE, ![c].wire = SubSeq(@, 1, n), ![c].sock = <<>>]
  BY DEF Break
<1> DEFINE x == [conn[c] EXCEPT !.up = FALSE, !.wire = SubSeq(@, 1, n), !.sock = <<>>]
<1>3. PICK wire \in Seq(Commands) : wire = SubSeq(conn[c].wire, 1, n)
  <2>1. conn[c].wire \in Seq(Commands) /\ 1 \in 1..(Len(conn[c].wire) + 1)
    BY <1>1 DEF Conns
  <2> QED
    BY <2>1, OwnPart
<1>4. /\ x \in Conns /\ x.state = conn[c].state /\ ~x.up /\ x.sock = <<>>
      /\ x.reader = conn[c].reader
  <2>1. \A con \in Conns :
          [con EXCEPT !.up = FALSE, !.wire = wire, !.sock = <<>>] \in Conns
    BY Empty DEF Conns
  <2> QED
    BY <1>1, <1>3, <2>1 DEF Conns
<1>5. conn' = [conn EXCEPT ![c] = x]
  BY <1>2 DEF IInv, TypeOK
<1> HIDE DEF x
<1>6. Live(call[c], x)
  BY <1>4 DEF Live, IInv
<1>7. c \notin raised => InStep(call[c], x)
  BY <1>4 DEF IInv, InStep, Belongs, Expects, Quiet
<1> QED
  BY <1>1, <1>4, <1>5, <1>6, <1>7, OneConn

-----------------------------------------------------------------------------
(* The reads.  A reply comes from those hiredis holds or, when it holds    *)
(* none, from the socket.                                                  *)

LEMMA OwnTail ==
    ASSUME NEW q \in Seq(Replies), q # <<>>, NEW tag
    PROVE  /\ Head(q) \in Replies /\ Tail(q) \in Seq(Replies)
           /\ Len(q) \in Nat \ {0} /\ Len(Tail(q)) = Len(q) - 1
           /\ Own(q, tag) => Head(q).tag = tag /\ Own(Tail(q), tag)
  BY DEF Own

LEMMA Onward ==
    ASSUME NEW p \in Seq(Replies), NEW q \in Seq(Replies), p # <<>>
    PROVE  p \o q # <<>> /\ Head(p \o q) = Head(p) /\ Tail(p) \o q = Tail(p \o q)
<1>1. /\ p \o q \in Seq(Replies) /\ Tail(p) \in Seq(Replies)
      /\ Len(p) \in Nat \ {0} /\ Len(q) \in Nat
      /\ Len(Tail(p)) = Len(p) - 1 /\ Len(p \o q) = Len(p) + Len(q)
  OBVIOUS
<1>2. p \o q # <<>> /\ Head(p \o q) = Head(p)
  BY <1>1
<1>3. /\ Tail(p) \o q \in Seq(Replies) /\ Tail(p \o q) \in Seq(Replies)
      /\ Len(Tail(p) \o q) = Len(p) + Len(q) - 1 /\ Len(Tail(p \o q)) = Len(p) + Len(q) - 1
  BY <1>1, <1>2
<1>4. \A i \in 1..(Len(p) + Len(q) - 1) : (Tail(p) \o q)[i] = Tail(p \o q)[i]
  BY <1>1, <1>2
<1> QED
  BY <1>2, <1>3, <1>4

LEMMA Held ==
    ASSUME NEW k \in Calls, NEW con \in Conns, NEW n \in Nat, con.reader # <<>>
    PROVE  \E x \in Conns :
        /\ x = [con EXCEPT !.reader = Tail(@)] /\ Head(con.reader) \in Replies
        /\ x.state = con.state /\ x.err = con.err /\ Wired(x, con)
        /\ Heard(con) # <<>> /\ Head(con.reader) = Head(Heard(con))
        /\ Heard(x) = Tail(Heard(con))
        /\ Belongs(k, con) => Belongs(k, x) /\ Head(con.reader).tag = k.tag
        /\ Belongs(k, con) /\ Expects(k, con, n) => Expects(k, x, n - 1)
<1> DEFINE x == [con EXCEPT !.reader = Tail(@)]
<1>1. con.reader \in Seq(Replies) /\ Tail(con.reader) \in Seq(Replies)
  BY OwnTail DEF Conns
<1>2. /\ x \in Conns /\ x.state = con.state /\ x.up = con.up /\ x.err = con.err
      /\ x.obuf = con.obuf /\ x.wire = con.wire /\ x.sock = con.sock /\ x.reader = Tail(con.reader)
      /\ Wired(x, con)
  BY <1>1 DEF Conns, Wired
<1> HIDE DEF x
<1>3. Belongs(k, con) => Belongs(k, x) /\ Head(con.reader).tag = k.tag
  BY <1>1, <1>2, OwnTail DEF Belongs
<1>4. Expects(k, con, n) => Expects(k, x, n - 1)
  <2>1. PICK a \in Nat, b \in Nat, d \in Nat, e \in Nat :
          /\ a = Len(con.obuf) /\ b = Len(con.wire)
          /\ d = Len(con.sock) /\ e = Len(con.reader)
    BY DEF Conns
  <2>2. Len(x.obuf) = a /\ Len(x.wire) = b /\ Len(x.sock) = d /\ Len(x.reader) = e - 1
    BY <1>1, <1>2, <2>1, OwnTail
  <2>3. OnLine(x) = a + b + d + (e - 1)
    BY <2>2 DEF OnLine
  <2>4. OnLine(con) = a + b + d + e
    BY <2>1 DEF OnLine
  <2>5. OnLine(con) = n => OnLine(x) = n - 1
    BY <2>3, <2>4
  <2>6. Len(con.reader) <= n => Len(x.reader) <= n - 1
    BY <2>1, <2>2
  <2> QED
    BY <1>2, <2>5, <2>6 DEF Expects
<1>5. /\ Heard(con) # <<>> /\ Head(con.reader) = Head(Heard(con))
      /\ Heard(x) = Tail(Heard(con))
  <2>1. con.reader \in Seq(Replies) /\ con.sock \in Seq(Replies)
    BY DEF Conns
  <2> QED
    BY <1>2, <2>1, Onward DEF Heard
<1> QED
  BY <1>1, <1>2, <1>3, <1>4, <1>5, OwnTail DEF x

LEMMA Received ==
    ASSUME NEW k \in Calls, NEW con \in Conns, NEW n \in Nat, con.reader = <<>>, con.sock # <<>>
    PROVE  \E x \in Conns :
        /\ x = [con EXCEPT !.reader = Tail(con.sock), !.sock = <<>>] /\ Head(con.sock) \in Replies
        /\ x.state = con.state /\ x.err = con.err /\ Wired(x, con)
        /\ Heard(con) # <<>> /\ Head(con.sock) = Head(Heard(con))
        /\ Heard(x) = Tail(Heard(con))
        /\ Belongs(k, con) => Belongs(k, x) /\ Head(con.sock).tag = k.tag
        /\ Belongs(k, con) /\ Expects(k, con, n) => Expects(k, x, n - 1)
<1> DEFINE x == [con EXCEPT !.reader = Tail(con.sock), !.sock = <<>>]
<1>1. con.sock \in Seq(Replies) /\ Tail(con.sock) \in Seq(Replies)
  BY OwnTail DEF Conns
<1>2. /\ x \in Conns /\ x.state = con.state /\ x.up = con.up /\ x.err = con.err
      /\ x.obuf = con.obuf /\ x.wire = con.wire /\ x.sock = <<>> /\ x.reader = Tail(con.sock)
      /\ Wired(x, con)
  BY <1>1, Empty DEF Conns, Wired
<1> HIDE DEF x
<1>3. Belongs(k, con) => con.up /\ Belongs(k, x) /\ Head(con.sock).tag = k.tag
  <2>1. Own(<<>>, k.tag)
    BY DEF Own
  <2> QED
    BY <1>1, <1>2, <2>1, OwnTail DEF Belongs
<1>4. con.up /\ Expects(k, con, n) => Expects(k, x, n - 1)
  <2>1. PICK a \in Nat, b \in Nat, d \in Nat :
          a = Len(con.obuf) /\ b = Len(con.wire) /\ d = Len(con.sock) /\ Len(con.reader) = 0
    BY DEF Conns
  <2>2. Len(x.obuf) = a /\ Len(x.wire) = b /\ Len(x.sock) = 0 /\ Len(x.reader) = d - 1
    BY <1>1, <1>2, <2>1, OwnTail
  <2>3. OnLine(x) = a + b + 0 + (d - 1)
    BY <2>2 DEF OnLine
  <2>4. OnLine(con) = a + b + d + 0
    BY <2>1 DEF OnLine
  <2>5. OnLine(con) = n => OnLine(x) = n - 1 /\ Len(x.reader) <= n - 1
    BY <2>2, <2>3, <2>4
  <2> QED
    BY <1>2, <2>5 DEF Expects
<1>5. Heard(con) = con.sock /\ Heard(x) = Tail(con.sock)
  <2>1. \A q \in Seq(Replies) : <<>> \o q = q /\ q \o <<>> = q
    OBVIOUS
  <2> QED
    BY <1>1, <1>2, <2>1 DEF Heard
<1> QED
  BY <1>1, <1>2, <1>3, <1>4, <1>5, OwnTail DEF x

LEMMA CallParts ==
    ASSUME NEW k \in Calls, NEW left \in Nat, NEW ones \in BOOLEAN, NEW new \in Nat
    PROVE  [k EXCEPT !.left = left, !.ones = ones, !.new = new] \in Calls
  BY DEF Calls

LEMMA TakePutInv ==
    ASSUME IInv, NEW c \in Clients, NEW k \in Calls, NEW con \in Conns, NEW r \in Replies,
           con.state = "busy", k.left > 0, k.op = "set", TakePut(c, k, con, r),
           UNCHANGED <<bits, requires, store>>, faults' = faults,
           c \notin raised => Belongs(k, con) /\ Expects(k, con, k.left - 1)
    PROVE  IInv'
<1>1. PICK last \in BOOLEAN, ones \in BOOLEAN :
        last = ((k.left - 1) % Hashes = 0) /\ ones = (k.ones /\ r.val = 1)
  OBVIOUS
<1>2. PICK left \in Nat : left = k.left - 1
  BY DEF Calls
<1>3. PICK new \in Nat : new = IF last /\ ~ones THEN k.new + 1 ELSE k.new
  BY DEF Calls
<1>4. PICK err \in BOOLEAN : err = (con.err \/ r.bad)
  BY DEF Conns, Replies
<1> DEFINE k2 == [k EXCEPT !.left = left, !.ones = last \/ ones, !.new = new]
           con2 == [con EXCEPT !.err = err]
<1>5. /\ k2 \in Calls /\ k2.left = left /\ k2.op = "set" /\ k2.tag = k.tag
      /\ k2.todo = k.todo /\ k2.foreign = k.foreign
  <2>1. (last \/ ones) \in BOOLEAN
    OBVIOUS
  <2> QED
    BY <2>1, CallParts DEF Calls
<1>6. /\ con2 \in Conns /\ con2.err = err /\ con2.state = "busy" /\ con2.up = con.up
      /\ con2.obuf = con.obuf /\ con2.wire = con.wire /\ con2.sock = con.sock
      /\ con2.reader = con.reader
  BY DEF Conns
<1>7. IF left > 0 THEN GoOn(c, k2, con2)
      ELSE IF err THEN Raise(c, k2, con2) ELSE Return(c, k2, con2)
  BY <1>1, <1>2, <1>3, <1>4 DEF TakePut, Calls, Conns
<1> HIDE DEF k2, con2
<1>8. c \notin raised => Belongs(k2, con2) /\ Expects(k2, con2, left)
  BY <1>2, <1>5, <1>6 DEF Belongs, Expects, Doomed, OnLine
<1>9. CASE left > 0
  <2>1. Live(k2, con2)
    BY <1>5, <1>9 DEF Live
  <2>2. c \notin raised => InStep(k2, con2)
    BY <1>5, <1>6, <1>8 DEF InStep, Belongs
  <2> QED
    BY <1>5, <1>6, <1>7, <1>9, <2>1, <2>2, GoOnInv
<1>10. CASE left = 0 /\ err
  BY <1>5, <1>6, <1>7, <1>10, RaiseInv
<1>11. CASE left = 0 /\ ~err
  <2>1. ASSUME c \notin raised PROVE ~k2.foreign /\ Quiet(con2)
    <3>1. /\ Len(con2.reader) <= 0 /\ (con2.up => OnLine(con2) = 0)
          /\ ~k2.foreign /\ (~con2.up => con2.sock = <<>>)
      BY <1>5, <1>8, <1>11, <2>1 DEF Belongs, Expects, Doomed
    <3> QED
      BY <1>6, <1>11, <3>1, EmptyLine
  <2> QED
    BY <1>5, <1>6, <1>7, <1>11, <2>1, ReturnInv
<1>12. left > 0 \/ left = 0
  OBVIOUS
<1> QED
  BY <1>9, <1>10, <1>11, <1>12, Zenon

LEMMA AnsweredInv ==
    ASSUME IInv, NEW c \in Clients, NEW k \in Calls, NEW con \in Conns,
           con.state = "busy", k.op = "get", Answered(c, k, con),
           UNCHANGED <<bits, requires, store>>, faults' = faults,
           c \notin raised => /\ Belongs(k, con) /\ Expects(k, con, k.left)
                              /\ ~Doomed(k) => ~con.err
    PROVE  IInv'
<1>1. k.left \in Nat /\ k.answers \in Seq({-1, 0, 1})
  BY DEF Calls
<1>2. CASE k.left > 0
  <2> DEFINE x == [con EXCEPT !.err = FALSE]
  <2>1. /\ x \in Conns /\ x.state = "busy" /\ x.up = con.up /\ x.obuf = con.obuf
        /\ x.wire = con.wire /\ x.sock = con.sock /\ x.reader = con.reader
    BY DEF Conns
  <2>2. GoOn(c, k, x)
    BY <1>2 DEF Answered, Clears
  <2> HIDE DEF x
  <2>3. Live(k, x)
    BY <1>2 DEF Live
  <2>4. c \notin raised => InStep(k, x)
    BY <2>1 DEF InStep, Belongs, Expects, OnLine
  <2> QED
    BY <2>1, <2>2, <2>3, <2>4, GoOnInv
<1>3. CASE k.left = 0 /\ Doomed(k)
  <2>1. -1 \in {k.answers[n] : n \in DOMAIN k.answers}
    BY <1>3 DEF Doomed
  <2> QED
    BY <1>3, <2>1, RaiseInv DEF Answered
<1>4. CASE k.left = 0 /\ ~Doomed(k)
  <2>1. -1 \notin {k.answers[n] : n \in DOMAIN k.answers}
    BY <1>4 DEF Doomed
  <2>2. Return(c, k, con)
    BY <1>4, <2>1 DEF Answered
  <2>3. ASSUME c \notin raised PROVE ~k.foreign /\ Quiet(con)
    <3>1. /\ Len(con.reader) <= 0 /\ (con.up => OnLine(con) = 0 /\ ~con.err)
          /\ ~k.foreign /\ (~con.up => con.sock = <<>>)
      BY <1>4, <2>3 DEF Belongs, Expects
    <3> QED
      BY <3>1, EmptyLine
  <2> QED
    BY <2>2, <2>3, ReturnInv
<1> QED
  BY <1>1, <1>2, <1>3, <1>4

\* The call k with the answer v for the value at hand.
AnswerOf(y, k, left, v) ==
    /\ y = [k EXCEPT !.left = left, !.ones = TRUE, !.answers = Append(@, v)]
    /\ y.op = k.op /\ y.tag = k.tag /\ y.left = left /\ y.todo = k.todo
    /\ y.foreign = k.foreign
    /\ Doomed(k) \/ v = -1 => Doomed(y)

LEMMA AppendDoom ==
    ASSUME NEW k \in Calls, NEW left \in Nat, NEW v \in {-1, 0, 1}, k.op = "get"
    PROVE  \E y \in Calls : AnswerOf(y, k, left, v)
<1>1. k.answers \in Seq({-1, 0, 1})
  BY DEF Calls
<1>2. PICK q \in Seq({-1, 0, 1}) : q = Append(k.answers, v)
  <2>1. \A p \in Seq({-1, 0, 1}), w \in {-1, 0, 1} : Append(p, w) \in Seq({-1, 0, 1})
    OBVIOUS
  <2> QED
    BY <1>1, <2>1
<1>3. /\ \A i \in DOMAIN k.answers : i \in DOMAIN q /\ q[i] = k.answers[i]
      /\ Len(q) \in DOMAIN q /\ q[Len(q)] = v
  BY <1>1, <1>2
<1> DEFINE y == [k EXCEPT !.left = left, !.ones = TRUE, !.answers = q]
<1>4. /\ y \in Calls /\ y.op = k.op /\ y.tag = k.tag /\ y.left = left /\ y.todo = k.todo
      /\ y.foreign = k.foreign /\ y.answers = q
  BY DEF Calls
<1> HIDE DEF y
<1>5. Doomed(k) \/ v = -1 => Doomed(y)
  BY <1>3, <1>4 DEF Doomed
<1> QED
  BY <1>2, <1>4, <1>5 DEF y, AnswerOf

LEMMA LineLengths ==
    ASSUME NEW con \in Conns
    PROVE  /\ Len(con.obuf) \in Nat /\ Len(con.wire) \in Nat
           /\ Len(con.sock) \in Nat /\ Len(con.reader) \in Nat
  BY DEF Conns

LEMMA TakeContainsInv ==
    ASSUME IInv, NEW c \in Clients, NEW k \in Calls, NEW con \in Conns, NEW r \in Replies,
           con.state = "busy", k.left > 0, k.op = "get", TakeContains(c, k, con, r),
           UNCHANGED <<bits, requires, store>>, faults' = faults,
           c \notin raised => Belongs(k, con) /\ Expects(k, con, k.left - 1)
    PROVE  IInv'
<1>1. PICK ones \in BOOLEAN : ones = (k.ones /\ r.val = 1)
  OBVIOUS
<1>2. PICK left \in Nat : left = k.left - 1
  BY DEF Calls
<1>3. PICK err \in BOOLEAN : err = (con.err \/ r.bad)
  BY DEF Conns, Replies
<1> DEFINE con2 == [con EXCEPT !.err = err]
<1>4. /\ con2 \in Conns /\ con2.err = err /\ con2.state = "busy" /\ con2.up = con.up
      /\ con2.obuf = con.obuf /\ con2.wire = con.wire /\ con2.sock = con.sock
      /\ con2.reader = con.reader
  BY DEF Conns
<1>5. con2 = [con EXCEPT !.err = @ \/ r.bad]
  BY <1>3 DEF Conns
<1> HIDE DEF con2
<1>6. ASSUME c \notin raised PROVE Belongs(k, con2) /\ Expects(k, con2, left)
  <2>1. Belongs(k, con) /\ Expects(k, con, left)
    BY <1>2, <1>6
  <2>2. OnLine(con2) = OnLine(con)
    BY <1>4 DEF OnLine
  <2> QED
    BY <1>4, <2>1, <2>2 DEF Belongs, Expects
<1>7. CASE left % Hashes # 0
  <2> DEFINE y == [k EXCEPT !.left = left, !.ones = ones]
  <2>1. /\ y \in Calls /\ y.left = left /\ y.op = k.op /\ y.tag = k.tag /\ y.todo = k.todo
        /\ y.foreign = k.foreign /\ y.answers = k.answers
    BY DEF Calls
  <2>2. GoOn(c, y, con2)
    BY <1>1, <1>2, <1>5, <1>7 DEF TakeContains
  <2> HIDE DEF y
  <2>3. left > 0
    <3>1. 0 % Hashes = 0
      BY Constants
    <3> QED
      BY <1>7, <3>1
  <2>4. Live(y, con2)
    BY <2>1, <2>3 DEF Live
  <2>5. c \notin raised => InStep(y, con2)
    BY <1>4, <1>6, <2>1 DEF InStep, Belongs, Expects, Doomed
  <2> QED
    BY <1>4, <2>1, <2>2, <2>4, <2>5, GoOnInv
<1>8. CASE left % Hashes = 0
  <2>1. PICK v \in {-1, 0, 1} : v = IF err THEN -1 ELSE IF ones THEN 1 ELSE 0
    OBVIOUS
  <2>2. PICK y \in Calls : AnswerOf(y, k, left, v)
    BY AppendDoom
  <2>3. Answered(c, y, con2)
    BY <1>1, <1>2, <1>4, <1>5, <1>8, <2>1, <2>2 DEF TakeContains, AnswerOf
  <2>4. ASSUME c \notin raised
        PROVE  Belongs(y, con2) /\ Expects(y, con2, y.left) /\ (~Doomed(y) => ~con2.err)
    <3>1. Belongs(y, con2)
      BY <1>6, <2>2, <2>4 DEF Belongs, AnswerOf
    <3>2. Expects(y, con2, y.left)
      BY <1>6, <2>2, <2>4 DEF Expects, AnswerOf
    <3>3. ~Doomed(y) => ~con2.err
      BY <1>4, <2>1, <2>2 DEF AnswerOf
    <3> QED
      BY <3>1, <3>2, <3>3
  <2> QED
    BY <1>4, <2>2, <2>3, <2>4, AnsweredInv DEF AnswerOf
<1> QED
  BY <1>7, <1>8

\* delete and init go on to the next of their commands, one at a time.
LEMMA SendNext ==
    ASSUME NEW k \in Calls, NEW con \in Conns, k.todo # <<>>, k.left = 1,
           k.op \in {"init", "del"}, con.state = "busy"
    PROVE  \E y \in Calls, x \in Conns :
        /\ y = [k EXCEPT !.todo = Tail(@)] /\ x = [con EXCEPT !.obuf = Append(@, Head(k.todo))]
        /\ Live(y, x)
        /\ Belongs(k, con) /\ Expects(k, con, 0) => InStep(y, x)
<1>1. k.todo \in Seq(Commands) /\ con.obuf \in Seq(Commands)
  BY DEF Calls, Conns
<1>2. PICK m \in Commands, todo \in Seq(Commands), obuf \in Seq(Commands) :
        /\ m = Head(k.todo) /\ todo = Tail(k.todo) /\ obuf = Append(con.obuf, m)
  <2>1. \A p \in Seq(Commands) : p # <<>> => Head(p) \in Commands /\ Tail(p) \in Seq(Commands)
    OBVIOUS
  <2>2. \A p \in Seq(Commands), m \in Commands : Append(p, m) \in Seq(Commands)
    OBVIOUS
  <2> QED
    BY <1>1, <2>1, <2>2
<1> DEFINE y == [k EXCEPT !.todo = todo]
           x == [con EXCEPT !.obuf = obuf]
<1>3. /\ y \in Calls /\ y.op = k.op /\ y.tag = k.tag /\ y.left = 1 /\ y.todo = todo
      /\ y.foreign = k.foreign
  BY DEF Calls
<1>4. /\ x \in Conns /\ x.state = "busy" /\ x.up = con.up /\ x.err = con.err /\ x.obuf = obuf
      /\ x.wire = con.wire /\ x.sock = con.sock /\ x.reader = con.reader
  BY DEF Conns
<1> HIDE DEF x, y
<1>5. ASSUME Belongs(k, con), Expects(k, con, 0) PROVE InStep(y, x)
  <2>1. Own(todo, k.tag) /\ m.tag = k.tag
    BY <1>1, <1>2, <1>5 DEF Belongs, Own
  <2>2. Own(con.obuf, k.tag) => Own(obuf, k.tag)
    BY <1>1, <1>2, <2>1 DEF Own
  <2>3. Belongs(y, x)
    BY <1>3, <1>4, <1>5, <2>1, <2>2 DEF Belongs
  <2>4. OnLine(con) = 0 => OnLine(x) = 1
    <3>1. PICK a \in Nat, b \in Nat, d \in Nat, e \in Nat :
            /\ a = Len(con.obuf) /\ b = Len(con.wire)
            /\ d = Len(con.sock) /\ e = Len(con.reader)
      BY LineLengths
    <3>2. Len(x.obuf) = a + 1 /\ Len(x.wire) = b /\ Len(x.sock) = d /\ Len(x.reader) = e
      BY <1>1, <1>2, <1>4, <3>1
    <3>3. OnLine(x) = (a + 1) + b + d + e
      BY <3>2 DEF OnLine
    <3>4. OnLine(con) = a + b + d + e
      BY <3>1 DEF OnLine
    <3> QED
      BY <3>3, <3>4
  <2>5. Len(x.reader) <= 1
    <3>1. Len(con.reader) \in Nat /\ Len(con.reader) <= 0
      BY <1>5 DEF Conns, Expects, Doomed
    <3> QED
      BY <1>4, <3>1
  <2>6. /\ con.up => OnLine(con) = 0 /\ ~con.err
    BY <1>5 DEF Expects, Doomed
  <2>7. Expects(y, x, y.left)
    BY <1>3, <1>4, <2>4, <2>5, <2>6 DEF Expects, Doomed
  <2> QED
    BY <1>3, <1>4, <2>3, <2>7 DEF InStep, Belongs
<1>6. Live(y, x)
  BY <1>3 DEF Live
<1> QED
  BY <1>2, <1>3, <1>4, <1>5, <1>6 DEF x, y

LEMMA LastInv ==
    ASSUME IInv, NEW c \in Clients, NEW k \in Calls, NEW con \in Conns,
           k.op \in {"init", "del"}, Return(c, [k EXCEPT !.left = 0], con),
           UNCHANGED <<bits, requires, store>>, faults' = faults,
           c \notin raised => Belongs(k, con) /\ Expects(k, con, 0)
    PROVE  IInv'
<1> DEFINE y == [k EXCEPT !.left = 0]
<1>1. y \in Calls /\ y.foreign = k.foreign
  BY DEF Calls
<1>2. ASSUME c \notin raised PROVE ~k.foreign /\ Quiet(con)
  <2>1. /\ Len(con.reader) <= 0 /\ (con.up => OnLine(con) = 0 /\ ~con.err)
        /\ ~k.foreign /\ (~con.up => con.sock = <<>>)
    BY <1>2 DEF Belongs, Expects, Doomed
  <2> QED
    BY <2>1, EmptyLine
<1>3. Return(c, y, con)
  OBVIOUS
<1> HIDE DEF y
<1> QED
  BY <1>1, <1>2, <1>3, ReturnInv

LEMMA SendInv ==
    ASSUME IInv, NEW c \in Clients, NEW k \in Calls, NEW con \in Conns,
           k.op \in {"init", "del"}, k.left = 1, con.state = "busy", k.todo # <<>>,
           GoOn(c, [k EXCEPT !.todo = Tail(@)], [con EXCEPT !.obuf = Append(@, Head(k.todo))]),
           UNCHANGED <<bits, requires, store>>, faults' = faults,
           c \notin raised => Belongs(k, con) /\ Expects(k, con, 0)
    PROVE  IInv'
<1>1. PICK y \in Calls, x \in Conns :
        /\ y = [k EXCEPT !.todo = Tail(@)] /\ x = [con EXCEPT !.obuf = Append(@, Head(k.todo))]
        /\ Live(y, x)
        /\ Belongs(k, con) /\ Expects(k, con, 0) => InStep(y, x)
  BY SendNext
<1>2. GoOn(c, y, x)
  BY <1>1
<1> QED
  BY <1>1, <1>2, GoOnInv

LEMMA NextDeleteInv ==
    ASSUME IInv, NEW c \in Clients, NEW k \in Calls, NEW con \in Conns,
           k.op = "del", k.left = 1, con.state = "busy", NextDelete(c, k, con),
           UNCHANGED <<bits, requires, store>>, faults' = faults,
           c \notin raised => Belongs(k, con) /\ Expects(k, con, 0)
    PROVE  IInv'
<1>1. CASE k.todo = <<>>
  BY <1>1, LastInv DEF NextDelete
<1>2. CASE k.todo # <<>>
  BY <1>2, SendInv DEF NextDelete
<1> QED
  BY <1>1, <1>2

LEMMA NextGreetingInv ==
    ASSUME IInv, NEW c \in Clients, NEW k \in Calls, NEW con \in Conns, NEW r \in Replies,
           k.op = "init", k.left = 1, con.state = "busy", NextGreeting(c, k, con, r),
           UNCHANGED <<bits, requires, store>>, faults' = faults,
           c \notin raised => Belongs(k, con) /\ Expects(k, con, 0)
    PROVE  IInv'
<1>1. /\ stored \in [Databases -> SUBSET Items] /\ raised \subseteq Clients
      /\ faults' \in 0..MaxFaults
  BY DEF IInv, TypeOK
<1>2. CASE r.bad /\ r.op = "select"
  <2> DEFINE x == [con EXCEPT !.state = "dead", !.up = FALSE]
  <2>1. x \in Conns /\ x.state = "dead"
    BY DEF Conns
  <2>2. GoOn(c, k, x)
    BY <1>2 DEF NextGreeting
  <2> HIDE DEF x
  <2>3. Live(k, x) /\ (c \notin raised => InStep(k, x))
    BY <2>1 DEF Live, InStep, Belongs
  <2> QED
    BY <2>1, <2>2, <2>3, GoOnInv
<1>3. CASE r.bad /\ r.op # "select"
  <2> DEFINE x == [con EXCEPT !.state = "closed", !.up = FALSE]
  <2>1. x \in Conns /\ x.state = "closed"
    BY DEF Conns
  <2>2. /\ conn' = [conn EXCEPT ![c] = x] /\ call' = [call EXCEPT ![c] = k]
        /\ raised' = raised \cup {c} /\ stored' = stored
    BY <1>3 DEF NextGreeting
  <2> HIDE DEF x
  <2>3. Live(k, x)
    BY <2>1 DEF Live
  <2>4. /\ stored' \in [Databases -> SUBSET Items] /\ raised' \subseteq Clients
        /\ raised \subseteq raised' /\ c \in raised'
    BY <1>1, <2>2
  <2> QED
    BY <1>1, <2>1, <2>2, <2>3, <2>4, OneObject
<1>4. CASE ~r.bad /\ k.todo = <<>>
  BY <1>4, LastInv DEF NextGreeting
<1>5. CASE ~r.bad /\ k.todo # <<>>
  BY <1>5, SendInv DEF NextGreeting
<1> QED
  BY <1>2, <1>3, <1>4, <1>5

\* The call k with what it has read so far.
Continues(k, j) == \E b \in BOOLEAN : k = [j EXCEPT !.foreign = b]

\* What the call k of c does with the reply r.
Took(c, k, con, r) ==
    /\ k.op = "init" => NextGreeting(c, k, con, r)
    /\ k.op = "del"  => NextDelete(c, k, con)
    /\ k.op = "set"  => TakePut(c, k, con, r)
    /\ k.op = "get"  => TakeContains(c, k, con, r)

\* The reply r taken from the connection of c leaves con to the call k.
Taken(c, k, con, r) ==
    /\ con.state = "busy" /\ con.err = conn[c].err /\ Wired(con, conn[c])
    /\ conn[c].state = "busy"
    /\ Heard(conn[c]) # <<>> /\ r = Head(Heard(conn[c])) /\ Heard(con) = Tail(Heard(conn[c]))
    /\ Continues(k, call[c]) /\ k.op = call[c].op /\ k.left = call[c].left
    /\ k.op \in {"init", "del", "set", "get"} /\ k.left > 0
    /\ k.op \in {"init", "del"} => k.left = 1
    /\ c \notin raised => Belongs(k, con) /\ Expects(k, con, k.left - 1)
    /\ Took(c, k, con, r)

LEMMA TakeShape ==
    ASSUME IInv, NEW c \in Clients, Take(c)
    PROVE  /\ UNCHANGED <<bits, requires, store>> /\ faults' = faults
           /\ \E con \in Conns, k \in Calls, r \in Replies : Taken(c, k, con, r)
<1>1. /\ conn[c] \in Conns /\ call[c] \in Calls /\ conn[c].state = "busy"
      /\ Incoming(c) # <<>>
      /\ UNCHANGED <<bits, requires, store>> /\ faults' = faults
  BY DEF IInv, TypeOK, Take, Reading
<1>2. /\ call[c].left > 0 /\ call[c].op \in {"init", "del", "set", "get"}
      /\ call[c].op \in {"init", "del"} => call[c].left = 1
  BY <1>1 DEF IInv, Live
<1>3. PICK n \in Nat : n = call[c].left
  BY <1>1 DEF Calls
<1>4. c \notin raised => Belongs(call[c], conn[c]) /\ Expects(call[c], conn[c], n)
  BY <1>1, <1>3 DEF IInv, InStep
<1> DEFINE next == IF conn[c].reader # <<>> THEN [conn[c] EXCEPT !.reader = Tail(@)]
                   ELSE [conn[c] EXCEPT !.reader = Tail(conn[c].sock), !.sock = <<>>]
<1>5. PICK con \in Conns, r \in Replies :
        /\ con = next /\ r = Head(Incoming(c)) /\ con.state = "busy"
        /\ con.err = conn[c].err /\ Wired(con, conn[c])
        /\ Heard(conn[c]) # <<>> /\ r = Head(Heard(conn[c])) /\ Heard(con) = Tail(Heard(conn[c]))
        /\ Belongs(call[c], conn[c]) => Belongs(call[c], con) /\ r.tag = call[c].tag
        /\ Belongs(call[c], conn[c]) /\ Expects(call[c], conn[c], n)
             => Expects(call[c], con, n - 1)
  <2>1. CASE conn[c].reader # <<>>
    <3>1. PICK x \in Conns :
            /\ x = [conn[c] EXCEPT !.reader = Tail(@)] /\ Head(conn[c].reader) \in Replies
            /\ x.state = conn[c].state /\ x.err = conn[c].err /\ Wired(x, conn[c])
            /\ Heard(conn[c]) # <<>> /\ Head(conn[c].reader) = Head(Heard(conn[c]))
            /\ Heard(x) = Tail(Heard(conn[c]))
            /\ Belongs(call[c], conn[c]) =>
                   Belongs(call[c], x) /\ Head(conn[c].reader).tag = call[c].tag
            /\ Belongs(call[c], conn[c]) /\ Expects(call[c], conn[c], n) =>
                   Expects(call[c], x, n - 1)
      BY <1>1, <2>1, Held
    <3>2. Incoming(c) = conn[c].reader /\ x = next
      BY <2>1, <3>1 DEF Incoming
    <3> HIDE DEF next
    <3> QED
      BY <1>1, <3>1, <3>2
  <2>2. CASE conn[c].reader = <<>>
    <3>1. Incoming(c) = conn[c].sock /\ conn[c].sock # <<>>
      BY <1>1, <2>2 DEF Incoming
    <3>2. next = [conn[c] EXCEPT !.reader = Tail(conn[c].sock), !.sock = <<>>]
      BY <2>2
    <3>3. PICK con \in Conns :
            /\ con = [conn[c] EXCEPT !.reader = Tail(conn[c].sock), !.sock = <<>>]
            /\ Head(conn[c].sock) \in Replies
            /\ con.state = conn[c].state /\ con.err = conn[c].err /\ Wired(con, conn[c])
            /\ Heard(conn[c]) # <<>> /\ Head(conn[c].sock) = Head(Heard(conn[c]))
            /\ Heard(con) = Tail(Heard(conn[c]))
            /\ Belongs(call[c], conn[c])
                 => Belongs(call[c], con) /\ Head(conn[c].sock).tag = call[c].tag
            /\ Belongs(call[c], conn[c]) /\ Expects(call[c], conn[c], n)
                 => Expects(call[c], con, n - 1)
      BY <1>1, <2>2, <3>1, Received
    <3> HIDE DEF next
    <3> QED
      BY <1>1, <3>1, <3>2, <3>3
  <2> QED
    BY <2>1, <2>2
<1>6. PICK foreign \in BOOLEAN : foreign = (call[c].foreign \/ r.tag # call[c].tag)
  BY <1>1 DEF Calls
<1>7. PICK k \in Calls :
        /\ k = [call[c] EXCEPT !.foreign = @ \/ r.tag # call[c].tag]
        /\ k = [call[c] EXCEPT !.foreign = foreign]
        /\ k.op = call[c].op /\ k.tag = call[c].tag /\ k.left = call[c].left
        /\ k.todo = call[c].todo /\ k.answers = call[c].answers /\ k.foreign = foreign
  <2>1. \A j \in Calls : [j EXCEPT !.foreign = foreign] \in Calls
    BY DEF Calls
  <2> QED
    BY <1>1, <1>6, <2>1 DEF Calls
<1>8. ASSUME c \notin raised PROVE Belongs(k, con) /\ Expects(k, con, k.left - 1)
  <2>1. ~k.foreign
    BY <1>4, <1>5, <1>6, <1>7, <1>8 DEF Belongs
  <2>2. Belongs(k, con)
    BY <1>4, <1>5, <1>7, <1>8, <2>1 DEF Belongs
  <2>3. Expects(k, con, n - 1)
    BY <1>4, <1>5, <1>7, <1>8 DEF Expects, Doomed
  <2> QED
    BY <1>3, <1>7, <2>2, <2>3
<1> HIDE DEF next
<1>9. Took(c, k, con, r)
  <2>1. /\ k.op = call[c].op
        /\ CASE k.op = "init" -> NextGreeting(c, k, con, r)
             [] k.op = "del"  -> NextDelete(c, k, con)
             [] k.op = "set"  -> TakePut(c, k, con, r)
             [] k.op = "get"  -> TakeContains(c, k, con, r)
    BY <1>5, <1>7 DEF Take, next
  <2> QED
    BY <2>1 DEF Took
<1>10. Continues(k, call[c])
  BY <1>7 DEF Continues
<1>11. Taken(c, k, con, r)
  BY <1>1, <1>2, <1>5, <1>7, <1>8, <1>9, <1>10 DEF Taken
<1> QED
  BY <1>1, <1>11

LEMMA TakeInv == ASSUME IInv, NEW c \in Clients, Take(c) PROVE IInv'
<1>1. UNCHANGED <<bits, requires, store>> /\ faults' = faults
  BY TakeShape
<1>2. PICK con \in Conns, k \in Calls, r \in Replies : Taken(c, k, con, r)
  BY TakeShape
<1>3. /\ con.state = "busy" /\ k.op \in {"init", "del", "set", "get"} /\ k.left > 0
      /\ k.op \in {"init", "del"} => k.left = 1 /\ k.left - 1 = 0
      /\ c \notin raised => Belongs(k, con) /\ Expects(k, con, k.left - 1)
  BY <1>2 DEF Taken
<1>4. CASE k.op = "init"
  BY <1>1, <1>2, <1>3, <1>4, NextGreetingInv DEF Taken, Took
<1>5. CASE k.op = "del"
  BY <1>1, <1>2, <1>3, <1>5, NextDeleteInv DEF Taken, Took
<1>6. CASE k.op = "set"
  BY <1>1, <1>2, <1>3, <1>6, TakePutInv DEF Taken, Took
<1>7. CASE k.op = "get"
  BY <1>1, <1>2, <1>3, <1>7, TakeContainsInv DEF Taken, Took
<1> QED
  BY <1>3, <1>4, <1>5, <1>6, <1>7

\* The read of the call k of c fails.
Failed(c, k, con) ==
    LET skip == ((k.left - 1) \div Hashes) * Hashes
    IN  /\ k.op = "init" => GoOn(c, k, [con EXCEPT !.state = "dead"])
        /\ k.op = "del"  => NextDelete(c, k, con)
        /\ k.op = "set"  => Raise(c, k, con)
        /\ k.op = "get"  => Answered(c, [k EXCEPT !.left = skip, !.ones = TRUE,
                                                  !.answers = Append(@, -1)], con)

LEMMA FailShape ==
    ASSUME IInv, NEW c \in Clients, Fail(c)
    PROVE  /\ UNCHANGED <<bits, requires, store>> /\ faults' = faults
           /\ call[c] \in Calls /\ conn[c].state = "busy" /\ call[c].left > 0
           /\ call[c].op \in {"init", "del", "set", "get"}
           /\ call[c].op \in {"init", "del"} =>
                  call[c].left = 1 /\ (c \notin raised => ~conn[c].up)
           /\ \E con \in Conns :
                 /\ con.state = "busy" /\ con.err /\ Wired(con, conn[c]) /\ con.reader = <<>>
                 /\ Heard(con) = Heard(conn[c])
                 /\ c \notin raised => Belongs(call[c], con)
                 /\ Failed(c, call[c], con)
<1>1. /\ conn[c] \in Conns /\ call[c] \in Calls /\ conn[c].state = "busy"
      /\ conn[c].reader = <<>> /\ (conn[c].err \/ ~conn[c].up)
      /\ UNCHANGED <<bits, requires, store>> /\ faults' = faults
  BY DEF IInv, TypeOK, Fail, Reading
<1>2. PICK k \in Calls : k = call[c]
  BY <1>1
<1>3. /\ k.left > 0 /\ k.op \in {"init", "del", "set", "get"}
      /\ k.op \in {"init", "del"} => k.left = 1
  BY <1>1, <1>2 DEF IInv, Live
<1>4. c \notin raised => Belongs(k, conn[c]) /\ Expects(k, conn[c], k.left)
  BY <1>1, <1>2 DEF IInv, InStep
<1> DEFINE next == [conn[c] EXCEPT !.err = TRUE]
<1>5. PICK con \in Conns :
        /\ con = next /\ con.state = "busy" /\ con.err /\ con.up = conn[c].up
        /\ con.sock = conn[c].sock /\ con.obuf = conn[c].obuf /\ con.wire = conn[c].wire
        /\ con.reader = <<>> /\ Wired(con, conn[c])
  <2>1. next \in Conns
    BY <1>1 DEF Conns
  <2>2. /\ next.state = "busy" /\ next.err = TRUE /\ next.up = conn[c].up
        /\ next.sock = conn[c].sock /\ next.obuf = conn[c].obuf /\ next.wire = conn[c].wire
        /\ next.reader = <<>> /\ Wired(next, conn[c])
    BY <1>1 DEF Conns, Wired
  <2> HIDE DEF next
  <2> QED
    BY <2>1, <2>2
<1>6. c \notin raised => Belongs(k, con)
  BY <1>1, <1>4, <1>5 DEF Belongs
<1> HIDE DEF next
<1>7. Heard(con) = Heard(conn[c])
  BY <1>1, <1>5 DEF Heard
<1>8. Failed(c, k, con)
  BY <1>2, <1>5 DEF Fail, Failed, next
<1>9. k.op \in {"init", "del"} => (c \notin raised => ~conn[c].up)
  BY <1>1, <1>4 DEF Expects
<1> QED
  BY <1>1, <1>2, <1>3, <1>5, <1>6, <1>7, <1>8, <1>9

LEMMA FailInv == ASSUME IInv, NEW c \in Clients, Fail(c) PROVE IInv'
<1>1. UNCHANGED <<bits, requires, store>> /\ faults' = faults
  BY FailShape
<1>2. PICK k \in Calls : k = call[c]
  BY FailShape
<1>3. /\ k.left > 0 /\ k.op \in {"init", "del", "set", "get"}
      /\ k.op \in {"init", "del"} => k.left = 1 /\ (c \notin raised => ~conn[c].up)
  BY <1>2, FailShape
<1>5. PICK con \in Conns :
        /\ con.state = "busy" /\ con.err /\ Wired(con, conn[c]) /\ con.reader = <<>>
        /\ c \notin raised => Belongs(k, con)
        /\ Failed(c, k, con)
  BY <1>2, FailShape
<1>6. c \notin raised => Belongs(k, con)
  BY <1>5
<1>7. CASE k.op = "init"
  <2> DEFINE x == [con EXCEPT !.state = "dead"]
  <2>1. x \in Conns /\ x.state = "dead"
    BY DEF Conns
  <2>2. GoOn(c, k, x)
    BY <1>5, <1>7 DEF Failed
  <2> HIDE DEF x
  <2>3. Live(k, x) /\ (c \notin raised => InStep(k, x))
    BY <1>6, <2>1 DEF Live, InStep, Belongs
  <2> QED
    BY <1>1, <2>1, <2>2, <2>3, GoOnInv
<1>8. CASE k.op = "del"
  <2>1. NextDelete(c, k, con)
    BY <1>5, <1>8 DEF Failed
  <2>2. ASSUME c \notin raised PROVE Expects(k, con, 0)
    <3>1. ~con.up
      BY <1>3, <1>5, <1>8, <2>2 DEF Wired
    <3>2. Len(con.reader) <= 0
      BY <1>5
    <3> QED
      BY <3>1, <3>2 DEF Expects
  <2> QED
    BY <1>1, <1>3, <1>5, <1>6, <1>8, <2>1, <2>2, NextDeleteInv
<1>9. CASE k.op = "set"
  <2>1. Raise(c, k, con)
    BY <1>5, <1>9 DEF Failed
  <2> QED
    BY <1>1, <2>1, RaiseInv
<1>10. CASE k.op = "get"
  <2>1. PICK left \in Nat : left = ((k.left - 1) \div Hashes) * Hashes
    <3>1. k.left - 1 \in Nat
      BY <1>3 DEF Calls
    <3>2. (k.left - 1) \div Hashes \in Nat
      BY <3>1, Constants, DivType
    <3> QED
      BY <3>2, Constants
  <2>2. PICK y \in Calls : AnswerOf(y, k, left, -1)
    <3>1. -1 \in {-1, 0, 1}
      OBVIOUS
    <3> QED
      BY <1>10, <3>1, AppendDoom
  <2>3. Answered(c, y, con)
    BY <1>5, <1>10, <2>1, <2>2 DEF Failed, AnswerOf
  <2>4. Doomed(y)
    BY <2>2 DEF AnswerOf
  <2>5. c \notin raised => Belongs(y, con) /\ Expects(y, con, y.left)
    BY <1>6, <1>10, <2>2, <2>4 DEF Belongs, Expects, AnswerOf
  <2>6. y.op = "get"
    BY <1>10, <2>2 DEF AnswerOf
  <2> QED
    BY <1>1, <1>5, <2>3, <2>4, <2>5, <2>6, AnsweredInv
<1> QED
  BY <1>3, <1>7, <1>8, <1>9, <1>10

-----------------------------------------------------------------------------
(* The server. *)

LEMMA SweepType ==
    ASSUME IInv, NEW d
    PROVE  /\ Sweep(d) \in [Clients -> Calls]
           /\ \A e \in Clients : Same(Sweep(d)[e], call[e])
<1>1. ASSUME NEW e \in Clients PROVE Sweep(d)[e] \in Calls /\ Same(Sweep(d)[e], call[e])
  <2>1. PICK k \in Calls, b \in BOOLEAN : k = call[e] /\ b = (call[e].op = "set")
    BY DEF IInv, TypeOK
  <2>2. /\ [k EXCEPT !.must = {}, !.swept = b] \in Calls
        /\ Same([k EXCEPT !.must = {}, !.swept = b], k) /\ Same(k, k)
    BY DEF Calls, Same
  <2>3. \/ Sweep(d)[e] = k
        \/ Sweep(d)[e] = [k EXCEPT !.must = {}, !.swept = b]
    BY <2>1 DEF Sweep
  <2> QED
    BY <2>1, <2>2, <2>3
<1>2. Sweep(d) = [e \in Clients |-> Sweep(d)[e]]
  BY DEF Sweep
<1> QED
  BY <1>1, <1>2

\* A command moves from one end of the line to the other as its reply.
Turned(base, r) ==
    [base EXCEPT !.wire = Tail(@), !.sock = IF base.up THEN Append(@, r) ELSE @]

LEMMA Replied ==
    ASSUME NEW k \in Calls, NEW con \in Conns, NEW base \in Conns, NEW r \in Replies,
           con.wire # <<>>, r.tag = Head(con.wire).tag,
           base.state = con.state, base.up = con.up, base.err = con.err,
           base.obuf = con.obuf, base.wire = con.wire, base.sock = con.sock,
           base.reader = con.reader
    PROVE  \E x \in Conns :
        /\ x = Turned(base, r)
        /\ Live(k, con) => Live(k, x)
        /\ InStep(k, con) => InStep(k, x)
<1>1. con.wire \in Seq(Commands) /\ con.sock \in Seq(Replies) /\ con.up \in BOOLEAN
  BY DEF Conns
<1>2. PICK wire \in Seq(Commands) : wire = Tail(con.wire) /\ Len(wire) = Len(con.wire) - 1
  <2>1. \A p \in Seq(Commands) :
          p # <<>> => Tail(p) \in Seq(Commands) /\ Len(Tail(p)) = Len(p) - 1
    OBVIOUS
  <2> QED
    BY <1>1, <2>1
<1>3. PICK sock \in Seq(Replies) : sock = IF con.up THEN Append(con.sock, r) ELSE con.sock
  <2>1. \A p \in Seq(Replies) : Append(p, r) \in Seq(Replies)
    OBVIOUS
  <2> QED
    BY <1>1, <2>1
<1> DEFINE x == [base EXCEPT !.wire = wire, !.sock = sock]
<1>4. /\ x \in Conns /\ x.state = con.state /\ x.up = con.up /\ x.err = con.err
      /\ x.obuf = con.obuf /\ x.wire = wire /\ x.sock = sock /\ x.reader = con.reader
  BY DEF Conns
<1>5. x = Turned(base, r)
  BY <1>2, <1>3 DEF Conns, Turned
<1> HIDE DEF x
<1>6. Live(k, con) => Live(k, x)
  BY <1>4 DEF Live
<1>7. Belongs(k, con) => Belongs(k, x)
  <2>1. Own(con.wire, k.tag) => Own(wire, k.tag) /\ r.tag = k.tag
    BY <1>1, <1>2 DEF Own
  <2>2. con.up /\ Own(con.sock, k.tag) /\ r.tag = k.tag => Own(sock, k.tag)
    BY <1>1, <1>3 DEF Own
  <2>3. ~con.up => sock = con.sock
    BY <1>3
  <2> QED
    BY <1>4, <2>1, <2>2, <2>3 DEF Belongs
<1>8. con.up => OnLine(x) = OnLine(con)
  <2> SUFFICES ASSUME con.up PROVE OnLine(x) = OnLine(con)
    OBVIOUS
  <2>1. PICK a \in Nat, b \in Nat, d \in Nat, e \in Nat :
          /\ a = Len(con.obuf) /\ b = Len(con.wire)
          /\ d = Len(con.sock) /\ e = Len(con.reader)
    BY LineLengths
  <2>2. Len(x.obuf) = a /\ Len(x.wire) = b - 1 /\ Len(x.sock) = d + 1 /\ Len(x.reader) = e
    BY <1>1, <1>2, <1>3, <1>4, <2>1
  <2>3. OnLine(x) = a + (b - 1) + (d + 1) + e
    BY <2>2 DEF OnLine
  <2>4. OnLine(con) = a + b + d + e
    BY <2>1 DEF OnLine
  <2> QED
    BY <2>3, <2>4
<1>9. \A n : Expects(k, con, n) => Expects(k, x, n)
  BY <1>4, <1>8 DEF Expects
<1>10. Quiet(con) => Quiet(x)
  <2>1. Quiet(con) => ~con.up
    BY DEF Quiet
  <2> QED
    BY <1>3, <1>4, <2>1 DEF Quiet
<1>11. InStep(k, con) => InStep(k, x)
  BY <1>4, <1>7, <1>9, <1>10 DEF InStep
<1> QED
  BY <1>4, <1>5, <1>6, <1>11

LEMMA OneReply ==
    ASSUME IInv, NEW c \in Clients, NEW base \in Conns, NEW r \in Replies,
           conn[c].wire # <<>>, r.tag = Head(conn[c].wire).tag,
           base.state = conn[c].state, base.up = conn[c].up, base.err = conn[c].err,
           base.obuf = conn[c].obuf, base.wire = conn[c].wire, base.sock = conn[c].sock,
           base.reader = conn[c].reader,
           conn' = [conn EXCEPT ![c] = Turned(base, r)],
           UNCHANGED <<bits, requires, raised>>,
           store' \in [Databases -> SUBSET (Nat \X Nat)],
           stored' \in [Databases -> SUBSET Items], faults' \in 0..MaxFaults,
           call' \in [Clients -> Calls], \A e \in Clients : Same(call'[e], call[e])
    PROVE  IInv'
<1>1. conn \in [Clients -> Conns] /\ call[c] \in Calls
  BY DEF IInv, TypeOK
<1>2. PICK x \in Conns :
        /\ x = Turned(base, r)
        /\ Live(call[c], conn[c]) => Live(call[c], x)
        /\ InStep(call[c], conn[c]) => InStep(call[c], x)
  <2>1. PICK con \in Conns, k \in Calls : con = conn[c] /\ k = call[c]
    BY <1>1
  <2>2. /\ con.wire # <<>> /\ r.tag = Head(con.wire).tag
        /\ base.state = con.state /\ base.up = con.up /\ base.err = con.err
        /\ base.obuf = con.obuf /\ base.wire = con.wire /\ base.sock = con.sock
        /\ base.reader = con.reader
    BY <2>1
  <2>3. \E x \in Conns : /\ x = Turned(base, r)
                         /\ Live(k, con) => Live(k, x)
                         /\ InStep(k, con) => InStep(k, x)
    BY <2>2, Replied
  <2> QED
    BY <2>1, <2>3
<1>3. conn' = [conn EXCEPT ![c] = x]
  BY <1>2
<1>4. TypeOK'
  BY <1>1, <1>3 DEF IInv, TypeOK
<1>5. ASSUME NEW e \in Clients
      PROVE  Live(call'[e], conn'[e]) /\ (e \notin raised' => InStep(call'[e], conn'[e]))
  <2>1. /\ Live(call[e], conn[e]) => Live(call[e], conn'[e])
        /\ InStep(call[e], conn[e]) => InStep(call[e], conn'[e])
    BY <1>1, <1>2, <1>3
  <2>2. Live(call[e], conn[e]) /\ (e \notin raised => InStep(call[e], conn[e]))
    BY DEF IInv
  <2>3. /\ Live(call[e], conn'[e]) => Live(call'[e], conn'[e])
        /\ InStep(call[e], conn'[e]) => InStep(call'[e], conn'[e])
    BY SameInStep
  <2> QED
    BY <2>1, <2>2, <2>3
<1> QED
  BY <1>4, <1>5 DEF IInv

LEMMA ExecInv == ASSUME IInv, NEW c \in Clients, Exec(c) PROVE IInv'
<1>1. /\ conn \in [Clients -> Conns] /\ call \in [Clients -> Calls] /\ conn[c] \in Conns
      /\ store \in [Databases -> SUBSET (Nat \X Nat)]
      /\ stored \in [Databases -> SUBSET Items] /\ faults \in 0..MaxFaults /\ requires \in BOOLEAN
      /\ conn[c].wire # <<>> /\ UNCHANGED <<bits, requires, raised>>
  BY DEF IInv, TypeOK, Exec
<1>2. PICK m \in Commands : m = Head(conn[c].wire)
  <2>1. \A p \in Seq(Commands) : p # <<>> => Head(p) \in Commands
    OBVIOUS
  <2> QED
    BY <1>1, <2>1 DEF Conns
<1>3. m.op \in {"auth", "ping", "select", "set", "get", "del"} /\ m.tag \in Nat /\ m.at \in Nat \X Nat
  BY DEF Commands
<1>4. PICK d \in Databases : d = conn[c].db
  BY <1>1 DEF Conns
<1> DEFINE R(bad, val) == [op |-> m.op, tag |-> m.tag, bad |-> bad, val |-> val]
           A(bad, val, con) == conn' = [conn EXCEPT ![c] = Turned(con, R(bad, val))]
<1>5. \A bad \in BOOLEAN, val \in {0, 1} : R(bad, val) \in Replies /\ R(bad, val).tag = m.tag
  BY <1>3 DEF Replies
<1> HIDE DEF R
<1>6. \/ /\ call' = call /\ store' = store /\ stored' = stored /\ faults' = faults
         /\ \/ A(TRUE, 0, conn[c]) \/ A(FALSE, 0, conn[c])
            \/ A(FALSE, IF m.at \in store[d] THEN 1 ELSE 0, conn[c])
            \/ A(~requires, 0, [conn[c] EXCEPT !.authed = requires])
            \/ m.at[1] \in Databases /\ A(FALSE, 0, [conn[c] EXCEPT !.db = m.at[1]])
      \/ /\ call' = call /\ stored' = stored /\ faults' = faults
         /\ store' = [store EXCEPT ![d] = @ \cup {m.at}]
         /\ A(FALSE, IF m.at \in store[d] THEN 1 ELSE 0, conn[c])
      \/ /\ store' = store /\ stored' = stored
         /\ call' = [call EXCEPT ![c].denied =
                 IF m.op = "del" /\ m.tag = call[c].tag THEN @ \cup {m.at[1]} ELSE @]
         /\ faults < MaxFaults /\ faults' = faults + 1 /\ A(TRUE, 0, conn[c])
      \/ /\ faults' = faults
         /\ store' = [store EXCEPT ![d] = {b \in @ : b[1] # m.at[1]}]
         /\ stored' = [stored EXCEPT ![d] = {}]
         /\ call' = [Sweep(d) EXCEPT ![c].done =
                 IF m.tag = call[c].tag THEN @ \cup {m.at[1]} ELSE @]
         /\ A(FALSE, 0, conn[c])
  <2> DEFINE mm == Head(conn[c].wire)
             dd == conn[c].db
             Sent(bad, val, con) == conn' = [conn EXCEPT ![c] =
                 [con EXCEPT !.wire = Tail(@), !.sock =
                     IF con.up THEN Append(@, [op |-> mm.op, tag |-> mm.tag, bad |-> bad, val |-> val])
                               ELSE @]]
             Rest == UNCHANGED <<store, call, stored, faults>>
             One  == IF mm.at \in store[dd] THEN 1 ELSE 0
  <2>1. \/ Sent(TRUE, 0, conn[c]) /\ Rest
        \/ Rest /\ Sent(~requires, 0, [conn[c] EXCEPT !.authed = requires])
        \/ Sent(FALSE, 0, conn[c]) /\ Rest
        \/ Rest /\ IF mm.at[1] \in Databases
                   THEN Sent(FALSE, 0, [conn[c] EXCEPT !.db = mm.at[1]])
                   ELSE Sent(TRUE, 0, conn[c])
        \/ /\ UNCHANGED <<call, stored, faults>>
           /\ store' = [store EXCEPT ![dd] = @ \cup {mm.at}]
           /\ Sent(FALSE, One, conn[c])
        \/ /\ faults < MaxFaults /\ faults' = faults + 1 /\ UNCHANGED <<store, stored>>
           /\ Sent(TRUE, 0, conn[c])
           /\ call' = [call EXCEPT ![c].denied =
                   IF mm.op = "del" /\ mm.tag = call[c].tag THEN @ \cup {mm.at[1]} ELSE @]
        \/ Rest /\ Sent(FALSE, One, conn[c])
        \/ /\ UNCHANGED faults
           /\ store' = [store EXCEPT ![dd] = {b \in @ : b[1] # mm.at[1]}]
           /\ stored' = [stored EXCEPT ![dd] = {}]
           /\ call' = [Sweep(dd) EXCEPT ![c].done =
                   IF mm.tag = call[c].tag THEN @ \cup {mm.at[1]} ELSE @]
           /\ Sent(FALSE, 0, conn[c])
    BY ONLY Exec(c), Zenon DEF Exec
  <2>2. mm = m /\ dd = d
    BY <1>2, <1>4
  <2> HIDE DEF mm, dd
  <2>3. \A bad, val, con : Sent(bad, val, con) => A(bad, val, con)
    BY ONLY <2>2, Zenon DEF Turned, R
  <2> HIDE DEF Sent, A
  <2> QED
    BY ONLY <2>1, <2>2, <2>3
<1>7. PICK base \in Conns, bad \in BOOLEAN, val \in {0, 1} :
        /\ base.state = conn[c].state /\ base.up = conn[c].up /\ base.err = conn[c].err
        /\ base.obuf = conn[c].obuf /\ base.wire = conn[c].wire /\ base.sock = conn[c].sock
        /\ base.reader = conn[c].reader
        /\ A(bad, val, base)
  <2>1. PICK v \in {0, 1} : v = IF m.at \in store[d] THEN 1 ELSE 0
    OBVIOUS
  <2>2. PICK b \in BOOLEAN : b = ~requires
    OBVIOUS
  <2>3. CASE \/ A(TRUE, 0, conn[c]) \/ A(FALSE, 0, conn[c])
             \/ A(FALSE, IF m.at \in store[d] THEN 1 ELSE 0, conn[c])
    <3>1. A(TRUE, 0, conn[c]) \/ A(FALSE, 0, conn[c]) \/ A(FALSE, v, conn[c])
      BY <2>1, <2>3
    <3> QED
      BY <1>1, <3>1
  <2>4. CASE A(~requires, 0, [conn[c] EXCEPT !.authed = requires])
    <3> DEFINE base == [conn[c] EXCEPT !.authed = requires]
    <3>1. /\ base \in Conns
          /\ base.state = conn[c].state /\ base.up = conn[c].up /\ base.err = conn[c].err
          /\ base.obuf = conn[c].obuf /\ base.wire = conn[c].wire /\ base.sock = conn[c].sock
          /\ base.reader = conn[c].reader
      BY <1>1 DEF Conns
    <3>2. A(b, 0, base)
      BY <2>2, <2>4
    <3> HIDE DEF base
    <3> QED
      BY <3>1, <3>2
  <2>5. CASE m.at[1] \in Databases /\ A(FALSE, 0, [conn[c] EXCEPT !.db = m.at[1]])
    <3> DEFINE base == [conn[c] EXCEPT !.db = m.at[1]]
    <3>1. /\ base \in Conns
          /\ base.state = conn[c].state /\ base.up = conn[c].up /\ base.err = conn[c].err
          /\ base.obuf = conn[c].obuf /\ base.wire = conn[c].wire /\ base.sock = conn[c].sock
          /\ base.reader = conn[c].reader
      BY <1>1, <2>5 DEF Conns
    <3>2. A(FALSE, 0, base)
      BY <2>5
    <3> HIDE DEF base
    <3> QED
      BY <3>1, <3>2
  <2> QED
    BY <1>6, <2>3, <2>4, <2>5
<1>8. PICK r \in Replies : r = R(bad, val) /\ r.tag = m.tag
  BY <1>5
<1>9. conn' = [conn EXCEPT ![c] = Turned(base, r)]
  BY <1>7, <1>8
<1> HIDE DEF A
<1>10. /\ store' \in [Databases -> SUBSET (Nat \X Nat)]
       /\ stored' \in [Databases -> SUBSET Items] /\ faults' \in 0..MaxFaults
  <2>1. store' \in [Databases -> SUBSET (Nat \X Nat)]
    <3>1. [store EXCEPT ![d] = @ \cup {m.at}] \in [Databases -> SUBSET (Nat \X Nat)]
      BY <1>1, <1>3
    <3>2. [store EXCEPT ![d] = {b \in @ : b[1] # m.at[1]}] \in [Databases -> SUBSET (Nat \X Nat)]
      BY <1>1
    <3> QED
      BY <1>1, <1>6, <3>1, <3>2
  <2>2. stored' \in [Databases -> SUBSET Items]
    BY <1>1, <1>6
  <2>3. faults' \in 0..MaxFaults
    <3>1. faults' = faults \/ (faults < MaxFaults /\ faults' = faults + 1)
      BY <1>6, Zenon
    <3> QED
      BY <1>1, <3>1, Constants
  <2> QED
    BY <2>1, <2>2, <2>3
<1>11. call' \in [Clients -> Calls] /\ \A e \in Clients : Same(call'[e], call[e])
  <2>1. CASE call' = call
    BY <1>1, <2>1 DEF Same
  <2>2. CASE call' = [Sweep(d) EXCEPT ![c].done =
                 IF m.tag = call[c].tag THEN @ \cup {m.at[1]} ELSE @]
    <3>1. PICK sw \in [Clients -> Calls] :
            sw = Sweep(d) /\ \A e \in Clients : Same(sw[e], call[e])
      BY SweepType
    <3>2. PICK done \in SUBSET Nat :
            done = IF m.tag = call[c].tag THEN sw[c].done \cup {m.at[1]} ELSE sw[c].done
      <4>1. sw[c].done \in SUBSET Nat /\ m.at[1] \in Nat
        BY <1>3 DEF Calls
      <4> QED
        BY <4>1
    <3>3. call' = [sw EXCEPT ![c].done = done]
      BY <2>2, <3>1, <3>2
    <3>4. [sw[c] EXCEPT !.done = done] \in Calls /\ Same([sw[c] EXCEPT !.done = done], sw[c])
      BY DEF Calls, Same
    <3> QED
      BY <3>1, <3>3, <3>4 DEF Same
  <2>3. CASE call' = [call EXCEPT ![c].denied =
                 IF m.op = "del" /\ m.tag = call[c].tag THEN @ \cup {m.at[1]} ELSE @]
    <3>1. PICK denied \in SUBSET Nat :
            denied = IF m.op = "del" /\ m.tag = call[c].tag
                     THEN call[c].denied \cup {m.at[1]} ELSE call[c].denied
      <4>1. call[c].denied \in SUBSET Nat /\ m.at[1] \in Nat
        BY <1>1, <1>3 DEF Calls
      <4> QED
        BY <4>1
    <3>2. call' = [call EXCEPT ![c].denied = denied]
      BY <2>3, <3>1
    <3>3. /\ [call[c] EXCEPT !.denied = denied] \in Calls
          /\ Same([call[c] EXCEPT !.denied = denied], call[c])
      BY <1>1 DEF Calls, Same
    <3> QED
      BY <1>1, <3>2, <3>3 DEF Same
  <2> QED
    BY <1>6, <2>1, <2>2, <2>3
<1>12. r.tag = Head(conn[c].wire).tag
  BY <1>2, <1>8
<1> QED
  BY <1>1, <1>7, <1>9, <1>10, <1>11, <1>12, OneReply

-----------------------------------------------------------------------------
(* The theorems. *)

LEMMA NextInv == IInv /\ [Next]_vars => IInv'
<1> SUFFICES ASSUME IInv, [Next]_vars PROVE IInv'
  OBVIOUS
<1>1. ASSUME NEW c \in Clients,
             \/ Connect(c) \/ Dealloc(c)
             \/ Put(c) \/ Add(c) \/ Extend(c) \/ Contains(c) \/ In(c) \/ Delete(c)
             \/ Client(c) \/ Exec(c) \/ Break(c)
      PROVE  IInv'
  <2>1. Connect(c) => IInv'
    BY ConnectInv
  <2>2. Dealloc(c) => IInv'
    BY DeallocInv
  <2>3. Put(c) \/ Add(c) \/ Extend(c) \/ Contains(c) \/ In(c) => IInv'
    BY CallInv
  <2>4. Delete(c) => IInv'
    BY DeleteInv
  <2>5. Client(c) => IInv'
    BY FlushInv, TakeInv, FailInv DEF Client
  <2>6. Exec(c) => IInv'
    BY ExecInv
  <2>7. Break(c) => IInv'
    BY BreakInv
  <2> QED
    BY <1>1, <2>1, <2>2, <2>3, <2>4, <2>5, <2>6, <2>7
<1>2. ASSUME UNCHANGED vars PROVE IInv'
  <2>1. TypeOK'
    BY <1>2 DEF IInv, TypeOK, vars
  <2>2. \A c \in Clients : /\ Live(call'[c], conn'[c])
                           /\ c \notin raised' => InStep(call'[c], conn'[c])
    BY <1>2 DEF IInv, vars
  <2> QED
    BY <2>1, <2>2 DEF IInv
<1> QED
  BY <1>1, <1>2 DEF Next

(* The connections hold commands and replies, and the calls their values,  *)
(* whatever the objects, the server and the network do.                    *)
THEOREM TypeCorrect == Spec => []TypeOK
<1>1. IInv => TypeOK
  BY DEF IInv
<1> QED
  BY <1>1, InitInv, NextInv, PTL DEF Spec

(* An object that has not raised an exception has read no reply meant for  *)
(* another call: every call of bloom.c reads as many replies as it         *)
(* appended commands, and those that do not raise.                         *)
THEOREM OneForOne == Spec => []OwnReplies
<1>1. IInv => OwnReplies
  BY DEF IInv, InStep, OwnReplies
<1> QED
  BY <1>1, InitInv, NextInv, PTL DEF Spec

-----------------------------------------------------------------------------
(* The greeting and the deletion: what an object that was constructed, or  *)
(* that deleted its filter, may rely on.                                   *)

\* rq: whether the server requires a password.
Admitted(con, rq) == ~rq \/ con.authed

\* The database of the object is the one it asked for, or it could not ask.
AtHome(con) == con.password \/ con.db = con.want

\* What is asked of the server with SELECT, and what its answer stands for.
Selects(k, con, rq) ==
    /\ \A m \in El(Asked(con)) \cup El(k.todo) :
          m.op = "select" => m.at[1] = con.want /\ ~con.password
    /\ \A m \in El(Asked(con)) : m.op = "select" => Admitted(con, rq)
    /\ \A r \in El(Heard(con)) :
          /\ ~r.bad => Admitted(con, rq)
          /\ r.op = "select" /\ ~r.bad => con.db = con.want

\* The last reply init reads without a password is that of SELECT; n faults
\* have occurred.
Greets(k, con, n) == con.state = "busy" /\ k.op = "init" =>
    /\ ~con.up => n > 0
    /\ \A r \in El(Heard(con)) :
          r.op = "select" /\ r.bad => con.want \notin Databases \/ n > 0
    /\ ~con.password => \A m \in El(k.todo) : m.op = "select"
    /\ ~con.password /\ k.todo = <<>> =>
          /\ \A r \in El(Heard(con)) : r.op = "select"
          /\ con.up => \A m \in El(Asked(con)) : m.op = "select"

Settled(k, con, rq) == con.state = "idle" \/ (con.state = "busy" /\ k.op # "init") =>
    Admitted(con, rq) /\ AtHome(con)

\* A filter of b bits has more keys than init names, or there was a fault.
Explained(k, con, n, b) == con.state = "dead" =>
    \/ con.want \notin Databases
    \/ k.op = "init" /\ n > 0
    \/ /\ b > MaxBits
       /\ AsFloat(b) < b \/ (b - 1) \div MaxBits # (b - 1) \div AsFloat(MaxBits)

Polite(k, con, rq, n, b) == /\ Selects(k, con, rq) /\ Greets(k, con, n)
                            /\ Settled(k, con, rq) /\ Explained(k, con, n, b)

\* The keys whose DEL the server has run or refused.
Over(k) == k.done \cup k.denied

\* The commands delete still waits for, and the keys they are for.
Ahead(k, con) == El(Asked(con)) \cup El(k.todo)
KeysIn(cmds) == {m.at[1] : m \in cmds}

Sweeps(k, con, names) == k.op = "del" /\ con.up =>
    /\ con.state = "busy" => /\ Over(k) \cup KeysIn(Ahead(k, con)) = names
                             /\ \A m \in Ahead(k, con) : m.op = "del"
    /\ con.state = "idle" => Over(k) = names

\* An object whose constructor has not returned.
Fresh(k, con) == con.state = "new" \/ (con.state = "busy" /\ k.op = "init")

Orderly == \A c \in Clients : /\ Polite(call[c], conn[c], requires, faults, bits)
                              /\ c \notin raised => Sweeps(call[c], conn[c], KeyNames)
                              /\ Fresh(call[c], conn[c]) => c \notin raised

-----------------------------------------------------------------------------
(* Elements of the lines. *)

LEMMA ElConcat ==
    ASSUME NEW S, NEW p \in Seq(S), NEW q \in Seq(S)
    PROVE  El(p \o q) = El(p) \cup El(q)
<1>1. /\ \A i \in DOMAIN p : i \in DOMAIN (p \o q) /\ (p \o q)[i] = p[i]
      /\ \A i \in DOMAIN q : Len(p) + i \in DOMAIN (p \o q) /\ (p \o q)[Len(p) + i] = q[i]
  OBVIOUS
<1>2. ASSUME NEW i \in DOMAIN (p \o q)
      PROVE  \/ i \in DOMAIN p /\ (p \o q)[i] = p[i]
             \/ i - Len(p) \in DOMAIN q /\ (p \o q)[i] = q[i - Len(p)]
  OBVIOUS
<1>3. \A i \in DOMAIN (p \o q) : (p \o q)[i] \in El(p) \cup El(q)
  BY <1>2 DEF El
<1>4. El(p \o q) \subseteq El(p) \cup El(q)
  BY <1>3 DEF El
<1>5. El(p) \subseteq El(p \o q) /\ El(q) \subseteq El(p \o q)
  BY <1>1 DEF El
<1> QED
  BY <1>4, <1>5

LEMMA ElNone == El(<<>>) = {}
  BY DEF El

LEMMA ElTail ==
    ASSUME NEW S, NEW p \in Seq(S), p # <<>>
    PROVE  Head(p) \in El(p) /\ El(p) = {Head(p)} \cup El(Tail(p))
<1>1. 1 \in DOMAIN p /\ Head(p) = p[1] /\ Len(p) \in Nat
  OBVIOUS
<1>2. \A i \in DOMAIN Tail(p) : i + 1 \in DOMAIN p /\ Tail(p)[i] = p[i + 1]
  OBVIOUS
<1>3. \A i \in DOMAIN p : i = 1 \/ (i - 1 \in DOMAIN Tail(p) /\ p[i] = Tail(p)[i - 1])
  OBVIOUS
<1> QED
  BY <1>1, <1>2, <1>3 DEF El

LEMMA ElAppend ==
    ASSUME NEW S, NEW p \in Seq(S), NEW m \in S
    PROVE  El(Append(p, m)) = El(p) \cup {m}
<1>1. /\ Len(p) \in Nat /\ DOMAIN Append(p, m) = 1..(Len(p) + 1) /\ DOMAIN p = 1..Len(p)
      /\ Append(p, m)[Len(p) + 1] = m
      /\ \A i \in 1..Len(p) : Append(p, m)[i] = p[i]
  OBVIOUS
<1>2. El(p) \cup {m} \subseteq El(Append(p, m))
  BY <1>1 DEF El
<1>3. \A i \in 1..(Len(p) + 1) : i = Len(p) + 1 \/ i \in 1..Len(p)
  BY <1>1
<1>4. El(Append(p, m)) \subseteq El(p) \cup {m}
  BY <1>1, <1>3 DEF El
<1> QED
  BY <1>2, <1>4

LEMMA ElOne == \A m : El(<< m >>) = {m}
<1>1. ASSUME NEW m PROVE El(<< m >>) = {m}
  BY DEF El
<1> QED
  BY <1>1

LEMMA ElSub ==
    ASSUME NEW S, NEW p \in Seq(S), NEW n \in 0..Len(p)
    PROVE  SubSeq(p, 1, n) \in Seq(S) /\ El(SubSeq(p, 1, n)) \subseteq El(p)
<1>1. SubSeq(p, 1, n) \in Seq(S) /\ Len(SubSeq(p, 1, n)) = n
  OBVIOUS
<1>2. \A i \in 1..n : SubSeq(p, 1, n)[i] = p[i] /\ i \in DOMAIN p
  OBVIOUS
<1> QED
  BY <1>1, <1>2 DEF El

\* A wire and an output buffer.
LEMMA ElAsked ==
    ASSUME NEW con \in Conns
    PROVE  /\ Asked(con) \in Seq(Commands) /\ El(Asked(con)) = El(con.wire) \cup El(con.obuf)
           /\ Heard(con) \in Seq(Replies) /\ El(Heard(con)) = El(con.reader) \cup El(con.sock)
<1>1. /\ con.wire \in Seq(Commands) /\ con.obuf \in Seq(Commands)
      /\ con.reader \in Seq(Replies) /\ con.sock \in Seq(Replies)
  BY DEF Conns
<1>2. Asked(con) \in Seq(Commands) /\ Heard(con) \in Seq(Replies)
  BY <1>1 DEF Asked, Heard
<1> QED
  BY <1>1, <1>2, ElConcat DEF Asked, Heard

-----------------------------------------------------------------------------
(* A step of one object, again. *)

LEMMA SelectsKept ==
    ASSUME NEW k, NEW con, NEW y, NEW x, NEW rq, Selects(k, con, rq),
           x.want = con.want, x.password = con.password, x.db = con.db, x.authed = con.authed,
           El(Asked(x)) \subseteq El(Asked(con)), El(y.todo) \subseteq El(k.todo),
           El(Heard(x)) \subseteq El(Heard(con))
    PROVE  Selects(y, x, rq)
  BY DEF Selects, Admitted

\* What only time changes in the facts about a call.
LEMMA Endures ==
    ASSUME NEW k, NEW con, NEW y, NEW rq, NEW m \in Nat, NEW n \in Nat, m <= n, NEW b, NEW names,
           y.op = k.op, y.todo = k.todo, Over(y) = Over(k)
    PROVE  /\ Polite(k, con, rq, m, b) => Polite(y, con, rq, n, b)
           /\ Sweeps(k, con, names) => Sweeps(y, con, names)
           /\ Fresh(k, con) <=> Fresh(y, con)
<1>1. Selects(k, con, rq) => Selects(y, con, rq)
  BY DEF Selects
<1>2. Greets(k, con, m) => Greets(y, con, n)
  BY DEF Greets
<1>3. Settled(k, con, rq) => Settled(y, con, rq)
  BY DEF Settled
<1>4. Explained(k, con, m, b) => Explained(y, con, n, b)
  BY DEF Explained
<1>5. Sweeps(k, con, names) => Sweeps(y, con, names)
  BY DEF Sweeps, Ahead
<1> QED
  BY <1>1, <1>2, <1>3, <1>4, <1>5 DEF Polite, Fresh

LEMMA OneOrderly ==
    ASSUME IInv, Orderly, NEW c \in Clients, NEW x \in Conns, NEW y \in Calls,
           conn' = [conn EXCEPT ![c] = x], call'[c] = y,
           \A e \in Clients \ {c} : /\ call'[e].op = call[e].op /\ call'[e].todo = call[e].todo
                                    /\ Over(call'[e]) = Over(call[e]),
           UNCHANGED <<bits, requires>>, faults' \in Nat, faults <= faults',
           raised \subseteq raised', raised' \subseteq raised \cup {c},
           Polite(y, x, requires, faults', bits), c \notin raised' => Sweeps(y, x, KeyNames),
           Fresh(y, x) => c \notin raised'
    PROVE  Orderly'
<1>1. conn \in [Clients -> Conns] /\ faults \in Nat
  BY Constants DEF IInv, TypeOK
<1>2. conn'[c] = x /\ \A e \in Clients \ {c} : conn'[e] = conn[e]
  BY <1>1
<1>3. KeyNames' = KeyNames
  BY DEF KeyNames, NumKeys
<1>4. ASSUME NEW e \in Clients
      PROVE  /\ Polite(call'[e], conn'[e], requires, faults', bits)
             /\ e \notin raised' => Sweeps(call'[e], conn'[e], KeyNames)
             /\ Fresh(call'[e], conn'[e]) => e \notin raised'
  <2>1. CASE e = c
    BY <1>2, <2>1
  <2>2. CASE e # c
    <3>1. conn'[e] = conn[e] /\ (e \in raised <=> e \in raised')
      BY <1>2, <2>2
    <3>2. /\ Polite(call[e], conn[e], requires, faults, bits)
          /\ e \notin raised => Sweeps(call[e], conn[e], KeyNames)
          /\ Fresh(call[e], conn[e]) => e \notin raised
      BY DEF Orderly
    <3>3. /\ Polite(call'[e], conn[e], requires, faults', bits)
          /\ Sweeps(call[e], conn[e], KeyNames) => Sweeps(call'[e], conn[e], KeyNames)
          /\ Fresh(call[e], conn[e]) <=> Fresh(call'[e], conn[e])
      BY <1>1, <2>2, <3>2, Endures
    <3> QED
      BY <3>1, <3>2, <3>3
  <2> QED
    BY <2>1, <2>2
<1> QED
  BY <1>3, <1>4 DEF Orderly

LEMMA OneCallOrderly ==
    ASSUME IInv, Orderly, NEW c \in Clients, NEW x \in Conns, NEW y \in Calls,
           conn' = [conn EXCEPT ![c] = x], call' = [call EXCEPT ![c] = y],
           UNCHANGED <<bits, requires>>, faults' \in Nat, faults <= faults',
           raised \subseteq raised', raised' \subseteq raised \cup {c},
           Polite(y, x, requires, faults', bits), c \notin raised' => Sweeps(y, x, KeyNames),
           Fresh(y, x) => c \notin raised'
    PROVE  Orderly'
<1>1. call \in [Clients -> Calls]
  BY DEF IInv, TypeOK
<1>2. call'[c] = y /\ \A e \in Clients \ {c} : call'[e] = call[e]
  BY <1>1
<1> QED
  BY <1>2, OneOrderly

\* What holds of an object before a step.
LEMMA OrderlyObject ==
    ASSUME IInv, Orderly, NEW c \in Clients
    PROVE  /\ conn[c] \in Conns /\ call[c] \in Calls /\ faults \in Nat
           /\ Selects(call[c], conn[c], requires) /\ Greets(call[c], conn[c], faults)
           /\ Settled(call[c], conn[c], requires) /\ Explained(call[c], conn[c], faults, bits)
           /\ c \notin raised => Sweeps(call[c], conn[c], KeyNames)
           /\ Fresh(call[c], conn[c]) => c \notin raised
  BY Constants DEF IInv, TypeOK, Orderly, Polite

LEMMA WiredAsked ==
    ASSUME NEW x, NEW con, Wired(x, con)
    PROVE  Asked(x) = Asked(con)
  BY DEF Wired, Asked

LEMMA ReturnShape ==
    ASSUME NEW c \in Clients, NEW k \in Calls, NEW con \in Conns, Return(c, k, con)
    PROVE  /\ raised' = raised
           /\ \E x \in Conns, y \in Calls :
                 /\ conn' = [conn EXCEPT ![c] = x] /\ call' = [call EXCEPT ![c] = y]
                 /\ x.state = "idle" /\ x.err = con.err /\ Wired(x, con)
                 /\ Heard(x) = Heard(con)
                 /\ y = [k EXCEPT !.swept = FALSE]
<1> DEFINE x == [con EXCEPT !.state = "idle"]
           y == [k EXCEPT !.swept = FALSE]
<1>1. /\ x \in Conns /\ x.state = "idle" /\ x.err = con.err /\ Wired(x, con)
      /\ Heard(x) = Heard(con)
  BY DEF Conns, Wired, Heard
<1>2. y \in Calls
  BY DEF Calls
<1>3. conn' = [conn EXCEPT ![c] = x] /\ call' = [call EXCEPT ![c] = y] /\ raised' = raised
  BY DEF Return
<1> HIDE DEF x
<1> QED
  BY <1>1, <1>2, <1>3

LEMMA ReturnOrderly ==
    ASSUME IInv, Orderly, NEW c \in Clients, NEW k \in Calls, NEW con \in Conns,
           Return(c, k, con), UNCHANGED <<bits, requires>>, faults' = faults,
           Selects(k, con, requires), Admitted(con, requires), AtHome(con),
           c \notin raised /\ k.op = "del" /\ con.up => Over(k) = KeyNames
    PROVE  Orderly'
<1>1. raised' = raised
  BY ReturnShape
<1>2. PICK x \in Conns, y \in Calls :
        /\ conn' = [conn EXCEPT ![c] = x] /\ call' = [call EXCEPT ![c] = y]
        /\ x.state = "idle" /\ Wired(x, con) /\ Heard(x) = Heard(con)
        /\ y = [k EXCEPT !.swept = FALSE]
  BY ReturnShape
<1>3. y.op = k.op /\ y.todo = k.todo /\ Over(y) = Over(k)
  BY <1>2 DEF Calls, Over
<1>4. Selects(y, x, requires)
  BY <1>2, <1>3, SelectsKept, WiredAsked DEF Wired
<1>5. Greets(y, x, faults) /\ Explained(y, x, faults, bits) /\ ~Fresh(y, x)
  BY <1>2 DEF Greets, Explained, Fresh
<1>6. Settled(y, x, requires)
  BY <1>2 DEF Settled, Admitted, AtHome, Wired
<1>7. c \notin raised => Sweeps(y, x, KeyNames)
  BY <1>2, <1>3 DEF Sweeps, Wired
<1>8. faults' \in Nat /\ faults <= faults'
  BY OrderlyObject
<1>9. Polite(y, x, requires, faults', bits)
  BY <1>4, <1>5, <1>6 DEF Polite
<1> QED
  BY <1>1, <1>2, <1>5, <1>7, <1>8, <1>9, OneCallOrderly

LEMMA AbortedFields ==
    \A tag, foreign : /\ Aborted(tag, foreign).op = "aborted"
                      /\ Aborted(tag, foreign).todo = <<>>
  BY DEF Aborted, Start

LEMMA RaiseOrderly ==
    ASSUME IInv, Orderly, NEW c \in Clients, NEW k \in Calls, NEW con \in Conns,
           Raise(c, k, con), UNCHANGED <<bits, requires>>, faults' = faults,
           Selects(k, con, requires), Admitted(con, requires), AtHome(con)
    PROVE  Orderly'
<1> DEFINE x == [con EXCEPT !.state = "idle"]
<1>1. x \in Conns /\ x.state = "idle" /\ Wired(x, con) /\ Heard(x) = Heard(con)
  BY DEF Conns, Wired, Heard
<1>2. PICK y \in Calls : y = Aborted(k.tag, k.foreign)
  BY AbortedType DEF Calls
<1>3. /\ conn' = [conn EXCEPT ![c] = x] /\ call' = [call EXCEPT ![c] = y]
      /\ raised' = raised \cup {c}
  BY <1>2 DEF Raise
<1> HIDE DEF x
<1>4. y.op = "aborted" /\ El(y.todo) = {}
  BY <1>2, AbortedFields, ElNone
<1>5. Selects(y, x, requires)
  BY <1>1, <1>4, SelectsKept, WiredAsked DEF Wired
<1>6. Greets(y, x, faults) /\ Explained(y, x, faults, bits) /\ ~Fresh(y, x)
  BY <1>1 DEF Greets, Explained, Fresh
<1>7. Settled(y, x, requires)
  BY <1>1 DEF Settled, Admitted, AtHome, Wired
<1>8. faults' \in Nat /\ faults <= faults'
  BY OrderlyObject
<1>9. Polite(y, x, requires, faults', bits)
  BY <1>5, <1>6, <1>7 DEF Polite
<1> QED
  BY <1>1, <1>3, <1>6, <1>8, <1>9, OneCallOrderly

LEMMA GoOnOrderly ==
    ASSUME IInv, Orderly, NEW c \in Clients, NEW k \in Calls, NEW con \in Conns,
           GoOn(c, k, con), UNCHANGED <<bits, requires>>, faults' = faults,
           Polite(k, con, requires, faults, bits), c \notin raised => Sweeps(k, con, KeyNames),
           Fresh(k, con) => c \notin raised
    PROVE  Orderly'
<1>1. faults' \in Nat /\ faults <= faults'
  BY OrderlyObject
<1> QED
  BY <1>1, OneCallOrderly DEF GoOn

\* put and contains go on, return or raise.
LEMMA ReadOrderly ==
    ASSUME IInv, Orderly, NEW c \in Clients, NEW k \in Calls, NEW con \in Conns,
           k.op \in {"set", "get"}, con.state = "busy",
           GoOn(c, k, con) \/ Return(c, k, con) \/ Raise(c, k, con),
           UNCHANGED <<bits, requires>>, faults' = faults,
           Selects(k, con, requires), Admitted(con, requires), AtHome(con)
    PROVE  Orderly'
<1>1. CASE GoOn(c, k, con)
  <2>1. Polite(k, con, requires, faults, bits) /\ ~Fresh(k, con) /\ Sweeps(k, con, KeyNames)
    BY DEF Polite, Greets, Settled, Explained, Fresh, Sweeps
  <2> QED
    BY <1>1, <2>1, GoOnOrderly
<1>2. CASE Return(c, k, con)
  BY <1>2, ReturnOrderly
<1>3. CASE Raise(c, k, con)
  BY <1>3, RaiseOrderly
<1> QED
  BY <1>1, <1>2, <1>3

-----------------------------------------------------------------------------
(* The calls, and the steps of the connection. *)

LEMMA ConnectOrderly == ASSUME IInv, Orderly, NEW c \in Clients, Connect(c) PROVE Orderly'
<1>1. /\ UNCHANGED <<bits, requires, raised, faults>> /\ conn[c].state = "new"
  BY DEF Connect
<1>2. faults' \in Nat /\ faults <= faults' /\ faults' = faults /\ c \notin raised
  BY <1>1, OrderlyObject DEF Fresh
<1>3. CASE conn' = [conn EXCEPT ![c].state = "closed"] /\ UNCHANGED call
  <2> DEFINE x == [conn[c] EXCEPT !.state = "closed"]
  <2>1. conn[c] \in Conns /\ call[c] \in Calls /\ call' = [call EXCEPT ![c] = call[c]]
    BY <1>3 DEF IInv, TypeOK
  <2>2. /\ x \in Conns /\ x.state = "closed" /\ conn' = [conn EXCEPT ![c] = x]
        /\ Wired(x, conn[c]) /\ Heard(x) = Heard(conn[c])
    BY <1>3, <2>1 DEF Conns, Wired, Heard, IInv, TypeOK
  <2> HIDE DEF x
  <2>3. Selects(call[c], x, requires)
    BY <2>2, OrderlyObject, SelectsKept, WiredAsked DEF Wired
  <2>4. Polite(call[c], x, requires, faults', bits) /\ ~Fresh(call[c], x) /\ Sweeps(call[c], x, KeyNames)
    BY <2>2, <2>3 DEF Polite, Greets, Settled, Explained, Fresh, Sweeps
  <2> QED
    BY <1>1, <1>2, <2>1, <2>2, <2>4, OneCallOrderly
<1>4. CASE \E password \in BOOLEAN, db \in Wanted[c] :
            LET cmds == Greeting(password, db) IN
            /\ conn' = [conn EXCEPT ![c] = [NoConn EXCEPT !.state = "busy", !.up = TRUE,
                           !.want = db, !.password = password, !.obuf = << cmds[1] >>]]
            /\ call' = [call EXCEPT ![c] = Start("init", 0, <<>>, 1, Tail(cmds), {})]
  <2>1. PICK password \in BOOLEAN, db \in Wanted[c] :
            LET cmds == Greeting(password, db) IN
            /\ conn' = [conn EXCEPT ![c] = [NoConn EXCEPT !.state = "busy", !.up = TRUE,
                           !.want = db, !.password = password, !.obuf = << cmds[1] >>]]
            /\ call' = [call EXCEPT ![c] = Start("init", 0, <<>>, 1, Tail(cmds), {})]
    BY <1>4
  <2> DEFINE m(op, n) == [op |-> op, tag |-> 0, at |-> <<n, 0>>]
  <2>2. db \in Nat
    BY Constants
  <2>3. PICK first \in Commands, todo \in Seq(Commands) :
          /\ first = Greeting(password, db)[1] /\ todo = Tail(Greeting(password, db))
          /\ first.op # "select"
          /\ El(todo) = IF password THEN {} ELSE {m("select", db)}
          /\ ~password => todo # <<>>
    <3>1. /\ m("auth", 0) \in Commands /\ m("ping", 0) \in Commands
          /\ m("select", db) \in Commands
      BY <2>2 DEF Commands
    <3>2. CASE password
      <4>1. Greeting(password, db) = << m("auth", 0) >>
        BY <3>2 DEF Greeting
      <4>2. Greeting(password, db)[1] = m("auth", 0) /\ Tail(Greeting(password, db)) = <<>>
        BY <4>1
      <4> QED
        BY <3>1, <3>2, <4>2, ElNone, Empty
    <3>3. CASE ~password
      <4>1. Greeting(password, db) = << m("ping", 0), m("select", db) >>
        BY <3>3 DEF Greeting
      <4>2. /\ Greeting(password, db)[1] = m("ping", 0)
            /\ Tail(Greeting(password, db)) = << m("select", db) >>
        BY <4>1
      <4>3. << m("select", db) >> \in Seq(Commands) /\ << m("select", db) >> # <<>>
        BY <3>1
      <4>4. El(<< m("select", db) >>) = {m("select", db)}
        BY ElOne
      <4> QED
        BY <3>1, <3>3, <4>2, <4>3, <4>4
    <3> QED
      BY <3>2, <3>3
  <2> DEFINE x == [NoConn EXCEPT !.state = "busy", !.up = TRUE, !.want = db,
                                 !.password = password, !.obuf = << first >>]
             y == Start("init", 0, <<>>, 1, todo, {})
  <2>4. conn' = [conn EXCEPT ![c] = x] /\ call' = [call EXCEPT ![c] = y]
    BY <2>1, <2>3
  <2>5. y \in Calls /\ y.op = "init" /\ y.todo = todo
    BY DEF Start, Calls
  <2>6. /\ x \in Conns /\ x.state = "busy" /\ x.up /\ x.obuf = << first >> /\ x.want = db
        /\ x.password = password /\ x.wire = <<>> /\ x.sock = <<>> /\ x.reader = <<>>
    <3>1. /\ NoConn \in Conns /\ NoConn.wire = <<>> /\ NoConn.sock = <<>> /\ NoConn.reader = <<>>
      BY Constants DEF NoConn, Conns
    <3>2. << first >> \in Seq(Commands)
      OBVIOUS
    <3> QED
      BY <2>2, <3>1, <3>2 DEF Conns
  <2> HIDE DEF x, y
  <2>7. El(Asked(x)) = {first} /\ El(Heard(x)) = {}
    BY <2>6, ElAsked, ElNone, ElOne
  <2>8. Selects(y, x, requires)
    <3>1. \A n \in El(todo) : n.op = "select" => n.at[1] = db /\ ~password
      BY <2>3
    <3> QED
      BY <2>3, <2>5, <2>6, <2>7, <3>1 DEF Selects
  <2>9. Greets(y, x, faults)
    <3>1. ~password => \A n \in El(todo) : n.op = "select"
      BY <2>3
    <3> QED
      BY <2>3, <2>5, <2>6, <2>7, <3>1 DEF Greets
  <2>10. Polite(y, x, requires, faults', bits) /\ Sweeps(y, x, KeyNames)
    BY <1>2, <2>5, <2>6, <2>8, <2>9 DEF Polite, Settled, Explained, Sweeps
  <2> QED
    BY <1>1, <1>2, <2>4, <2>5, <2>6, <2>10, OneCallOrderly
<1> QED
  BY <1>3, <1>4 DEF Connect

\* A call has begun with x and y for the connection and the call of c.
Begun(c, op, s, cmds, todo, x, y) ==
    /\ x.state = (IF cmds = <<>> THEN "idle" ELSE "busy")
    /\ x.err = Clears(op, conn[c].err) /\ x.up = conn[c].up /\ x.want = conn[c].want
    /\ x.password = conn[c].password /\ x.db = conn[c].db /\ x.authed = conn[c].authed
    /\ x.wire = conn[c].wire /\ x.obuf = conn[c].obuf \o cmds /\ Heard(x) = Heard(conn[c])
    /\ y = Start(op, call[c].tag + 1, s, IF op = "del" THEN Len(cmds) ELSE Hashes * Len(s), todo,
                 IF c \in raised THEN {} ELSE stored[conn[c].db])

LEMMA BeginShape ==
    ASSUME IInv, NEW c \in Clients, NEW op \in {"set", "get", "del"}, NEW s \in Seq(Items),
           NEW cmds \in Seq(Commands), NEW todo \in Seq(Commands), Begin(c, op, s, cmds, todo)
    PROVE  /\ raised' = raised
           /\ \E x \in Conns, y \in Calls :
                 /\ conn' = [conn EXCEPT ![c] = x] /\ call' = [call EXCEPT ![c] = y]
                 /\ Begun(c, op, s, cmds, todo, x, y)
<1>1. conn[c] \in Conns /\ call[c] \in Calls
  BY DEF IInv, TypeOK
<1>2. PICK tag \in Nat : tag = call[c].tag + 1
  BY <1>1 DEF Calls
<1>3. PICK must \in SUBSET Items : must = IF c \in raised THEN {} ELSE stored[conn[c].db]
  <2>1. conn[c].db \in Databases
    BY <1>1 DEF Conns
  <2> QED
    BY <2>1 DEF IInv, TypeOK
<1>4. PICK n \in Nat : n = IF op = "del" THEN Len(cmds) ELSE Hashes * Len(s)
  BY Constants
<1> DEFINE y == Start(op, tag, s, n, todo, must)
           x == [conn[c] EXCEPT !.obuf = @ \o cmds, !.err = Clears(op, @),
                                !.state = IF cmds = <<>> THEN "idle" ELSE "busy"]
<1>5. call' = [call EXCEPT ![c] = y] /\ raised' = raised
  BY <1>2, <1>3, <1>4 DEF Begin
<1>6. conn' = [conn EXCEPT ![c] = x]
  BY DEF Begin, IInv, TypeOK
<1>7. x \in Conns
  <2>1. conn[c].obuf \o cmds \in Seq(Commands)
    BY <1>1 DEF Conns
  <2>2. Clears(op, conn[c].err) \in BOOLEAN
    BY <1>1 DEF Clears, Conns
  <2> QED
    BY <1>1, <2>1, <2>2 DEF Conns
<1>8. /\ x.state = (IF cmds = <<>> THEN "idle" ELSE "busy")
      /\ x.err = Clears(op, conn[c].err) /\ x.up = conn[c].up /\ x.want = conn[c].want
      /\ x.password = conn[c].password /\ x.db = conn[c].db
      /\ x.authed = conn[c].authed /\ x.wire = conn[c].wire
      /\ x.obuf = conn[c].obuf \o cmds /\ Heard(x) = Heard(conn[c])
  BY <1>1 DEF Conns, Heard
<1>9. y \in Calls
  BY DEF Start, Calls
<1> HIDE DEF x
<1> QED
  BY <1>2, <1>3, <1>4, <1>5, <1>6, <1>7, <1>8, <1>9 DEF Begun

LEMMA StartFields ==
    \A op, tag, s, left, todo, must :
        /\ Start(op, tag, s, left, todo, must).op = op
        /\ Start(op, tag, s, left, todo, must).tag = tag
        /\ Start(op, tag, s, left, todo, must).items = s
        /\ Start(op, tag, s, left, todo, must).left = left
        /\ Start(op, tag, s, left, todo, must).todo = todo
        /\ Start(op, tag, s, left, todo, must).ones
        /\ Start(op, tag, s, left, todo, must).new = 0
        /\ Start(op, tag, s, left, todo, must).answers = <<>>
        /\ Start(op, tag, s, left, todo, must).must = must
        /\ ~Start(op, tag, s, left, todo, must).swept
        /\ Over(Start(op, tag, s, left, todo, must)) = {}
  BY DEF Start, Over

\* The commands of put, contains and delete are no SELECTs.
LEMMA BeginOrderly ==
    ASSUME IInv, Orderly, NEW c \in Clients, NEW op \in {"set", "get", "del"}, NEW s \in Seq(Items),
           NEW cmds \in Seq(Commands), NEW todo \in Seq(Commands),
           \A m \in El(cmds) \cup El(todo) : m.op = op,
           op = "del" => cmds # <<>> /\ KeysIn(El(cmds) \cup El(todo)) = KeyNames,
           conn[c].state = "idle", Begin(c, op, s, cmds, todo),
           UNCHANGED <<bits, requires, faults>>
    PROVE  Orderly'
<1>1. raised' = raised
  BY BeginShape
<1>10. PICK x \in Conns, y \in Calls :
        /\ conn' = [conn EXCEPT ![c] = x] /\ call' = [call EXCEPT ![c] = y]
        /\ Begun(c, op, s, cmds, todo, x, y)
  BY BeginShape
<1>2. /\ x.state = (IF cmds = <<>> THEN "idle" ELSE "busy")
      /\ x.up = conn[c].up /\ x.want = conn[c].want
      /\ x.password = conn[c].password /\ x.db = conn[c].db
      /\ x.authed = conn[c].authed /\ x.wire = conn[c].wire
      /\ x.obuf = conn[c].obuf \o cmds /\ Heard(x) = Heard(conn[c])
      /\ y.op = op /\ y.todo = todo /\ Over(y) = {}
  BY <1>10, StartFields DEF Begun
<1>3. /\ conn[c] \in Conns /\ Selects(call[c], conn[c], requires) /\ faults \in Nat
      /\ Admitted(conn[c], requires) /\ AtHome(conn[c])
  BY OrderlyObject DEF Settled
<1>4. El(Asked(x)) = El(Asked(conn[c])) \cup El(cmds)
  <2>1. conn[c].obuf \in Seq(Commands)
    BY <1>3 DEF Conns
  <2>2. El(x.obuf) = El(conn[c].obuf) \cup El(cmds)
    BY <1>2, <2>1, ElConcat
  <2> QED
    BY <1>2, <1>3, <2>2, ElAsked
<1>5. Selects(y, x, requires)
  <2>1. \A m \in El(cmds) \cup El(todo) : m.op # "select"
    OBVIOUS
  <2> QED
    BY <1>2, <1>3, <1>4, <2>1 DEF Selects, Admitted
<1>6. Greets(y, x, faults) /\ Explained(y, x, faults, bits) /\ ~Fresh(y, x)
  BY <1>2 DEF Greets, Explained, Fresh
<1>7. Settled(y, x, requires)
  BY <1>2, <1>3 DEF Settled, Admitted, AtHome
<1>8. ASSUME c \notin raised PROVE Sweeps(y, x, KeyNames)
  <2>1. Quiet(conn[c])
    BY <1>8 DEF IInv, InStep
  <2>2. x.up => El(Asked(conn[c])) = {}
    BY <1>2, <1>3, <2>1, ElAsked, ElNone DEF Quiet
  <2>3. x.up => Ahead(y, x) = El(cmds) \cup El(todo)
    BY <1>2, <1>4, <2>2 DEF Ahead
  <2> QED
    BY <1>2, <2>3 DEF Sweeps
<1>9. Polite(y, x, requires, faults', bits) /\ faults' \in Nat /\ faults <= faults'
  BY <1>3, <1>5, <1>6, <1>7 DEF Polite
<1> QED
  BY <1>1, <1>6, <1>8, <1>9, <1>10, OneCallOrderly

LEMMA AppendedOps ==
    ASSUME NEW s \in Seq(Items), NEW op, NEW tag
    PROVE  \A m \in El(Appended(op, tag, s)) : m.op = op
  BY DEF El, Appended

LEMMA DeletesAll ==
    ASSUME TypeOK, NEW tag \in Nat
    PROVE  /\ \A m \in El(Deletes(tag)) : m.op = "del"
           /\ KeysIn(El(Deletes(tag))) = KeyNames
<1>1. NumKeys \in Nat
  BY DeletesType
<1> DEFINE m(n) == [op |-> "del", tag |-> tag, at |-> <<n - 1, 0>>]
<1>2. El(Deletes(tag)) = {m(n) : n \in 1..NumKeys}
  BY <1>1 DEF Deletes, El
<1>3. \A n \in 1..NumKeys : m(n).op = "del" /\ m(n).at[1] = n - 1
  OBVIOUS
<1>4. ASSUME NEW i \in 0..(NumKeys - 1) PROVE i \in KeysIn({m(n) : n \in 1..NumKeys})
  <2>1. i + 1 \in 1..NumKeys /\ m(i + 1).at[1] = i
    BY <1>1
  <2>2. m(i + 1) \in {m(n) : n \in 1..NumKeys}
    BY <2>1
  <2> HIDE DEF m
  <2> QED
    BY <2>1, <2>2 DEF KeysIn
<1>5. ASSUME NEW i \in KeysIn({m(n) : n \in 1..NumKeys}) PROVE i \in 0..(NumKeys - 1)
  <2> HIDE DEF m
  <2>1. PICK n \in 1..NumKeys : i = m(n).at[1]
    BY DEF KeysIn
  <2> QED
    BY <1>1, <1>3, <2>1
<1> HIDE DEF m
<1>6. KeysIn(El(Deletes(tag))) = KeyNames
  BY <1>2, <1>4, <1>5 DEF KeyNames
<1> QED
  BY <1>2, <1>3, <1>6

\* A hash beyond the last key that init named: the rounding of init is to blame.
LEMMA Rounded ==
    ASSUME TypeOK, NEW s \in Seq(Items), ~Named(s)
    PROVE  /\ bits > MaxBits
           /\ \/ AsFloat(bits) < bits
              \/ (bits - 1) \div MaxBits # (bits - 1) \div AsFloat(MaxBits)
<1>1. PICK n \in DOMAIN s, j \in 1..Hashes : Place(s[n], j)[1] \notin KeyNames
  BY DEF Named
<1>2. s[n] \in Items /\ Hash[s[n]][j] \in Nat
  BY Constants
<1>3. bits \in Nat \ {0} /\ MaxBits \in Nat \ {0}
  BY Constants DEF TypeOK
<1>4. PICK d \in Nat : d = Hash[s[n]][j] % bits /\ d <= bits - 1
  BY <1>2, <1>3, DivType
<1>5. Place(s[n], j)[1] = d \div MaxBits
  BY <1>4 DEF Place
<1>6. AsFloat(bits) \in Nat \ {0} /\ AsFloat(MaxBits) \in Nat \ {0} /\ NumKeys \in Nat \ {0}
  <2>1. 1 \in Nat
    OBVIOUS
  <2> QED
    BY <2>1, Constants, FloatType, DeletesType DEF TypeOK
<1>7. PICK f \in Nat \ {0}, g \in Nat \ {0} : f = AsFloat(bits) /\ g = AsFloat(MaxBits)
  BY <1>6
<1>8. PICK a \in Nat, b \in Nat, e \in Nat :
        a = (bits - 1) \div MaxBits /\ b = (bits - 1) \div g /\ e = d \div MaxBits
  <2>1. bits - 1 \in Nat
    BY <1>3
  <2> QED
    BY <1>3, <2>1, DivType
<1>9. e \notin 0..(NumKeys - 1)
  BY <1>1, <1>5, <1>8 DEF KeyNames
<1>10. e <= a
  <2>1. bits - 1 \in Nat /\ (bits - 1) % MaxBits \in Nat /\ (bits - 1) % MaxBits < MaxBits
        /\ bits - 1 = (a * MaxBits) + ((bits - 1) % MaxBits)
    BY <1>3, <1>8, DivWhole
  <2>2. d < MaxBits * (a + 1)
    BY <1>3, <1>4, <2>1
  <2>3. d \div MaxBits < a + 1
    BY <1>3, <2>2, DivBound
  <2> QED
    BY <1>8, <2>3
<1>11. bits > MaxBits
  <2>1. SUFFICES ASSUME bits <= MaxBits PROVE FALSE
    BY <1>3
  <2>2. d < MaxBits * 1
    BY <1>3, <1>4, <2>1
  <2>3. e < 1
    BY <1>3, <1>8, <2>2, DivBound
  <2> QED
    BY <1>6, <1>8, <1>9, <2>3
<1>12. ASSUME f >= bits PROVE NumKeys >= b + 1
  <2>1. PICK u \in Nat : u = f - 1 /\ u >= bits - 1
    BY <1>3, <1>12
  <2>2. NumKeys = (u \div g) + 1
    <3>1. PICK w \in Nat : w = (f + g) - 1 /\ w = u + g
      BY <2>1
    <3>2. NumKeys = w \div g
      BY <1>7, <3>1 DEF NumKeys
    <3>3. (u + g) \div g = (u \div g) + 1
      BY DivShift
    <3> QED
      BY <3>1, <3>2, <3>3
  <2>3. PICK q \in Nat : q = u \div g
    BY DivType
  <2>4. u < g * (q + 1)
    <3>1. q * g \in Nat /\ u % g \in Nat /\ u % g < g /\ u = (q * g) + (u % g)
      BY <2>3, DivWhole
    <3>2. PICK p \in Nat, t \in Nat : p = q * g /\ t = u % g /\ t < g /\ u = p + t
      BY <3>1
    <3>3. g * (q + 1) = (q * g) + g
      BY <2>3
    <3> QED
      BY <3>2, <3>3
  <2>5. bits - 1 \in Nat /\ bits - 1 < g * (q + 1)
    BY <1>3, <2>1, <2>4
  <2>6. (bits - 1) \div g < q + 1
    <3>1. PICK z \in Nat, y \in Nat : z = bits - 1 /\ y = q + 1 /\ z < g * y
      BY <2>3, <2>5
    <3>2. z \div g < y
      BY <3>1, DivBound
    <3> QED
      BY <3>1, <3>2
  <2> QED
    BY <1>8, <2>2, <2>3, <2>6
<1>13. f < bits \/ a # b
  BY <1>3, <1>6, <1>8, <1>9, <1>10, <1>12
<1> QED
  BY <1>7, <1>8, <1>11, <1>13

LEMMA BatchOrderly ==
    ASSUME IInv, Orderly, NEW c \in Clients, NEW op \in {"set", "get"}, NEW s \in Seq(Items),
           Batch(c, op, s)
    PROVE  Orderly'
<1>1. /\ conn[c] \in Conns /\ call[c] \in Calls /\ conn[c].state = "idle"
      /\ UNCHANGED <<bits, requires, faults>>
  BY DEF IInv, TypeOK, Batch
<1>2. faults' \in Nat /\ faults <= faults'
  BY <1>1, OrderlyObject
<1>3. PICK tag \in Nat : tag = call[c].tag + 1
  BY <1>1 DEF Calls
<1>4. PICK cmds \in Seq(Commands) : cmds = Appended(op, tag, s)
  BY AppendedType DEF IInv
<1>5. \A m \in El(cmds) : m.op = op
  BY <1>4, AppendedOps
<1>6. CASE ~Named(s) /\ Strays(c)
  <2> DEFINE x == [conn[c] EXCEPT !.state = "dead", !.up = FALSE]
  <2>1. /\ x \in Conns /\ x.state = "dead" /\ conn' = [conn EXCEPT ![c] = x] /\ ~x.up
        /\ x.want = conn[c].want /\ x.password = conn[c].password /\ x.db = conn[c].db
        /\ x.authed = conn[c].authed /\ Asked(x) = Asked(conn[c]) /\ Heard(x) = Heard(conn[c])
    BY <1>1, <1>6 DEF Conns, Strays, IInv, TypeOK, Asked, Heard
  <2>2. call' = [call EXCEPT ![c] = call[c]] /\ raised' = raised
    BY <1>6 DEF Strays, IInv, TypeOK
  <2> HIDE DEF x
  <2>3. Selects(call[c], x, requires)
    BY <2>1, OrderlyObject, SelectsKept
  <2>4. Explained(call[c], x, faults', bits)
    BY <1>6, Rounded DEF Explained, IInv
  <2>5. Polite(call[c], x, requires, faults', bits) /\ ~Fresh(call[c], x) /\ Sweeps(call[c], x, KeyNames)
    BY <2>1, <2>3, <2>4 DEF Polite, Greets, Settled, Fresh, Sweeps
  <2> QED
    BY <1>1, <1>2, <2>1, <2>2, <2>5, OneCallOrderly
<1>7. CASE Begin(c, op, s, cmds, <<>>)
  <2>1. <<>> \in Seq(Commands) /\ El(<<>>) = {} /\ op \in {"set", "get", "del"} /\ op # "del"
    BY ElNone
  <2> QED
    BY <1>1, <1>5, <1>7, <2>1, BeginOrderly
<1>8. CASE /\ conn' = [conn EXCEPT ![c].obuf = @ \o cmds]
           /\ call' = [call EXCEPT ![c] = Aborted(@.tag + 1, FALSE)]
           /\ raised' = raised \cup {c}
  <2> DEFINE x == [conn[c] EXCEPT !.obuf = @ \o cmds]
  <2>1. /\ x \in Conns /\ x.state = "idle" /\ conn' = [conn EXCEPT ![c] = x]
        /\ x.want = conn[c].want /\ x.password = conn[c].password /\ x.db = conn[c].db
        /\ x.authed = conn[c].authed /\ x.wire = conn[c].wire
        /\ x.obuf = conn[c].obuf \o cmds /\ Heard(x) = Heard(conn[c])
    <3>1. conn[c].obuf \o cmds \in Seq(Commands)
      BY <1>1 DEF Conns
    <3> QED
      BY <1>1, <1>8, <3>1 DEF Conns, Heard
  <2>2. PICK y \in Calls : y = Aborted(tag, FALSE)
    BY AbortedType
  <2>3. call' = [call EXCEPT ![c] = y]
    BY <1>3, <1>8, <2>2
  <2>4. y.op = "aborted" /\ El(y.todo) = {}
    BY <2>2, AbortedFields, ElNone
  <2> HIDE DEF x
  <2>5. El(Asked(x)) = El(Asked(conn[c])) \cup El(cmds)
    <3>1. conn[c].obuf \in Seq(Commands)
      BY <1>1 DEF Conns
    <3>2. El(x.obuf) = El(conn[c].obuf) \cup El(cmds)
      BY <2>1, <3>1, ElConcat
    <3> QED
      BY <1>1, <2>1, <3>2, ElAsked
  <2>6. Selects(y, x, requires)
    <3>1. \A m \in El(cmds) : m.op # "select"
      BY <1>5
    <3>2. Selects(call[c], conn[c], requires)
      BY OrderlyObject
    <3> QED
      BY <2>1, <2>4, <2>5, <3>1, <3>2 DEF Selects, Admitted
  <2>7. Greets(y, x, faults) /\ Explained(y, x, faults, bits) /\ ~Fresh(y, x)
    BY <2>1 DEF Greets, Explained, Fresh
  <2>8. Settled(y, x, requires)
    BY <1>1, <2>1, OrderlyObject DEF Settled, Admitted, AtHome
  <2>9. Polite(y, x, requires, faults', bits)
    BY <1>1, <2>6, <2>7, <2>8 DEF Polite
  <2> QED
    BY <1>1, <1>2, <1>8, <2>1, <2>3, <2>7, <2>9, OneCallOrderly
<1> QED
  BY <1>3, <1>4, <1>6, <1>7, <1>8 DEF Batch

LEMMA FirstRest ==
    ASSUME NEW p \in Seq(Commands), p # <<>>
    PROVE  /\ SubSeq(p, 1, 1) \in Seq(Commands) /\ SubSeq(p, 1, 1) # <<>>
           /\ SubSeq(p, 2, Len(p)) \in Seq(Commands)
           /\ El(SubSeq(p, 1, 1)) \cup El(SubSeq(p, 2, Len(p))) = El(p)
<1>1. Len(p) \in Nat /\ Len(p) >= 1
  OBVIOUS
<1> DEFINE f == SubSeq(p, 1, 1)
           r == SubSeq(p, 2, Len(p))
<1>2. f \in Seq(Commands) /\ Len(f) = 1 /\ f[1] = p[1]
  BY <1>1
<1>3. /\ r \in Seq(Commands) /\ Len(r) = Len(p) - 1
      /\ \A i \in 1..(Len(p) - 1) : r[i] = p[i + 1]
  <2>1. PICK n \in Nat : n = Len(p) /\ 2 \in 1..(n + 1) /\ n \in 0..n
    BY <1>1
  <2>2. SubSeq(p, 2, n) \in Seq(Commands) /\ Len(SubSeq(p, 2, n)) = n - 1
    <3>1. SubSeq(p, 2, n) \in Seq(Commands) /\ Len(SubSeq(p, 2, n)) = IF 2 <= n THEN (n - 2) + 1 ELSE 0
      BY <2>1, OwnPart
    <3> QED
      BY <1>1, <2>1, <3>1
  <2>3. \A i \in 1..(n - 1) : SubSeq(p, 2, n)[i] = p[i + 1]
    BY <2>1, <2>2
  <2> QED
    BY <2>1, <2>2, <2>3
<1> HIDE DEF f, r
<1>4. El(f) = {p[1]}
  BY <1>2 DEF El
<1>5. El(r) \subseteq El(p) /\ p[1] \in El(p)
  BY <1>1, <1>3 DEF El
<1>6. ASSUME NEW i \in DOMAIN p PROVE p[i] \in El(f) \cup El(r)
  <2>1. CASE i = 1
    BY <1>4, <2>1
  <2>2. CASE i # 1
    <3>1. i - 1 \in DOMAIN r /\ r[i - 1] = p[i]
      BY <1>1, <1>3, <2>2
    <3> QED
      BY <3>1 DEF El
  <2> QED
    BY <2>1, <2>2
<1>7. El(p) \subseteq El(f) \cup El(r)
  BY <1>6 DEF El
<1> QED
  BY <1>2, <1>3, <1>4, <1>5, <1>7 DEF f, r

LEMMA DeleteOrderly == ASSUME IInv, Orderly, NEW c \in Clients, Delete(c) PROVE Orderly'
<1>1. PICK tag \in Nat : tag = call[c].tag + 1
  BY DEF IInv, TypeOK, Calls
<1>2. PICK cmds \in Seq(Commands) :
        /\ cmds = Deletes(tag) /\ cmds # <<>> /\ KeysIn(El(cmds)) = KeyNames
        /\ \A m \in El(cmds) : m.op = "del"
  BY DeletesType, DeletesAll DEF IInv
<1>3. PICK first \in Seq(Commands), rest \in Seq(Commands) :
        /\ first = SubSeq(cmds, 1, 1) /\ rest = SubSeq(cmds, 2, Len(cmds)) /\ first # <<>>
        /\ El(first) \cup El(rest) = El(cmds)
  BY <1>2, FirstRest
<1>4. /\ conn[c].state = "idle" /\ Begin(c, "del", <<>>, first, rest)
      /\ UNCHANGED <<bits, requires, faults>>
  BY <1>1, <1>2, <1>3 DEF Delete
<1>5. <<>> \in Seq(Items) /\ "del" \in {"set", "get", "del"}
  OBVIOUS
<1> QED
  BY <1>2, <1>3, <1>4, <1>5, BeginOrderly

\* A connection that is closed, broken or flushed.
LEMMA LineOrderly ==
    ASSUME IInv, Orderly, NEW c \in Clients, NEW x \in Conns,
           conn' = [conn EXCEPT ![c] = x], UNCHANGED <<bits, requires, call, raised>>,
           faults' \in Nat, faults <= faults',
           x.want = conn[c].want, x.password = conn[c].password, x.db = conn[c].db,
           x.authed = conn[c].authed, x.state \in {conn[c].state, "closed"},
           El(Asked(x)) \subseteq El(Asked(conn[c])), El(Heard(x)) \subseteq El(Heard(conn[c])),
           IF x.up THEN conn[c].up /\ El(Asked(x)) = El(Asked(conn[c]))
                   ELSE x.state = "closed" \/ faults' > 0
    PROVE  Orderly'
<1>1. PICK k \in Calls : k = call[c] /\ call' = [call EXCEPT ![c] = k]
  BY DEF IInv, TypeOK
<1>2. PICK con \in Conns :
        /\ con = conn[c] /\ faults \in Nat /\ Selects(k, con, requires) /\ Greets(k, con, faults)
        /\ Settled(k, con, requires) /\ Explained(k, con, faults, bits)
        /\ c \notin raised => Sweeps(k, con, KeyNames)
        /\ Fresh(k, con) => c \notin raised
  BY <1>1, OrderlyObject
<1>3. Selects(k, x, requires)
  BY <1>2, SelectsKept
<1>4. Greets(k, x, faults')
  BY <1>2 DEF Greets
<1>5. Settled(k, x, requires) /\ Explained(k, x, faults', bits)
  BY <1>2 DEF Settled, Explained, Admitted, AtHome
<1>6. c \notin raised => Sweeps(k, x, KeyNames)
  BY <1>2 DEF Sweeps, Ahead
<1>7. Fresh(k, x) => c \notin raised
  BY <1>2 DEF Fresh
<1>8. Polite(k, x, requires, faults', bits)
  BY <1>3, <1>4, <1>5 DEF Polite
<1> QED
  BY <1>1, <1>6, <1>7, <1>8, OneCallOrderly

LEMMA DeallocOrderly == ASSUME IInv, Orderly, NEW c \in Clients, Dealloc(c) PROVE Orderly'
<1>1. conn[c] \in Conns /\ UNCHANGED <<bits, requires, call, raised, faults>>
  BY DEF IInv, TypeOK, Dealloc
<1>2. faults' \in Nat /\ faults <= faults'
  BY <1>1, OrderlyObject
<1>3. PICK n \in 0..Len(conn[c].wire) :
        conn' = [conn EXCEPT ![c].state = "closed", ![c].up = FALSE,
                             ![c].wire = SubSeq(@, 1, n), ![c].sock = <<>>, ![c].reader = <<>>]
  BY DEF Dealloc
<1>4. PICK wire \in Seq(Commands) :
        wire = SubSeq(conn[c].wire, 1, n) /\ El(wire) \subseteq El(conn[c].wire)
  BY <1>1, ElSub DEF Conns
<1> DEFINE x == [conn[c] EXCEPT !.state = "closed", !.up = FALSE,
                                !.wire = wire, !.sock = <<>>, !.reader = <<>>]
<1>5. /\ x \in Conns /\ x.state = "closed" /\ ~x.up /\ x.wire = wire /\ x.obuf = conn[c].obuf
      /\ x.want = conn[c].want /\ x.password = conn[c].password /\ x.db = conn[c].db
      /\ x.authed = conn[c].authed /\ x.sock = <<>> /\ x.reader = <<>>
  BY <1>1, Empty DEF Conns
<1>6. conn' = [conn EXCEPT ![c] = x]
  BY <1>3, <1>4 DEF IInv, TypeOK
<1> HIDE DEF x
<1>7. El(Asked(x)) \subseteq El(Asked(conn[c])) /\ El(Heard(x)) \subseteq El(Heard(conn[c]))
  BY <1>1, <1>4, <1>5, ElAsked, ElNone
<1> QED
  BY <1>1, <1>2, <1>5, <1>6, <1>7, LineOrderly

LEMMA BreakOrderly == ASSUME IInv, Orderly, NEW c \in Clients, Break(c) PROVE Orderly'
<1>1. /\ conn[c] \in Conns /\ UNCHANGED <<bits, requires, call, raised>> /\ faults' = faults + 1
  BY DEF IInv, TypeOK, Break
<1>2. faults' \in Nat /\ faults <= faults' /\ faults' > 0
  BY <1>1, OrderlyObject
<1>3. PICK n \in 0..Len(conn[c].wire) :
        conn' = [conn EXCEPT ![c].up = FALSE, ![c].wire = SubSeq(@, 1, n), ![c].sock = <<>>]
  BY DEF Break
<1>4. PICK wire \in Seq(Commands) :
        wire = SubSeq(conn[c].wire, 1, n) /\ El(wire) \subseteq El(conn[c].wire)
  BY <1>1, ElSub DEF Conns
<1> DEFINE x == [conn[c] EXCEPT !.up = FALSE, !.wire = wire, !.sock = <<>>]
<1>5. /\ x \in Conns /\ x.state = conn[c].state /\ ~x.up /\ x.wire = wire /\ x.obuf = conn[c].obuf
      /\ x.want = conn[c].want /\ x.password = conn[c].password /\ x.db = conn[c].db
      /\ x.authed = conn[c].authed /\ x.sock = <<>> /\ x.reader = conn[c].reader
  BY <1>1, Empty DEF Conns
<1>6. conn' = [conn EXCEPT ![c] = x]
  BY <1>3, <1>4 DEF IInv, TypeOK
<1> HIDE DEF x
<1>7. El(Asked(x)) \subseteq El(Asked(conn[c])) /\ El(Heard(x)) \subseteq El(Heard(conn[c]))
  BY <1>1, <1>4, <1>5, ElAsked, ElNone
<1> QED
  BY <1>1, <1>2, <1>5, <1>6, <1>7, LineOrderly

LEMMA FlushOrderly == ASSUME IInv, Orderly, NEW c \in Clients, Flush(c) PROVE Orderly'
<1>1. /\ conn[c] \in Conns /\ UNCHANGED <<bits, requires, call, raised, faults>> /\ conn[c].up
  BY DEF IInv, TypeOK, Flush
<1>2. faults' \in Nat /\ faults <= faults'
  BY <1>1, OrderlyObject
<1>3. conn[c].wire \in Seq(Commands) /\ conn[c].obuf \in Seq(Commands)
  BY <1>1 DEF Conns
<1>4. PICK wire \in Seq(Commands) :
        wire = conn[c].wire \o conn[c].obuf /\ El(wire) = El(conn[c].wire) \cup El(conn[c].obuf)
  <2>1. \A p, q \in Seq(Commands) : p \o q \in Seq(Commands)
    OBVIOUS
  <2> QED
    BY <1>3, <2>1, ElConcat
<1> DEFINE x == [conn[c] EXCEPT !.wire = wire, !.obuf = <<>>]
<1>5. /\ x \in Conns /\ x.state = conn[c].state /\ x.up /\ x.wire = wire /\ x.obuf = <<>>
      /\ x.want = conn[c].want /\ x.password = conn[c].password /\ x.db = conn[c].db
      /\ x.authed = conn[c].authed /\ Heard(x) = Heard(conn[c])
  BY <1>1, Empty DEF Conns, Heard
<1>6. conn' = [conn EXCEPT ![c] = x]
  BY <1>4 DEF Flush, IInv, TypeOK
<1> HIDE DEF x
<1>7. El(Asked(x)) = El(Asked(conn[c]))
  BY <1>1, <1>4, <1>5, ElAsked, ElNone
<1> QED
  BY <1>1, <1>2, <1>5, <1>6, <1>7, LineOrderly

-----------------------------------------------------------------------------
(* The reads. *)

\* What no read changes in a call.
Resumes(y, k) ==
    /\ y.op = k.op /\ y.items = k.items /\ y.todo = k.todo /\ y.must = k.must
    /\ y.swept = k.swept /\ Over(y) = Over(k)

\* add_complete has read r.
PutStep(k, con, r, y, x) ==
    \E last \in BOOLEAN, ones \in BOOLEAN :
        /\ last = ((k.left - 1) % Hashes = 0) /\ ones = (k.ones /\ r.val = 1)
        /\ Resumes(y, k) /\ y.left = k.left - 1 /\ y.ones = (last \/ ones)
        /\ y.new = IF last /\ ~ones THEN k.new + 1 ELSE k.new
        /\ x.err = (con.err \/ r.bad) /\ x.state = con.state /\ Wired(x, con)
        /\ Heard(x) = Heard(con)

LEMMA PutShape ==
    ASSUME NEW c \in Clients, NEW k \in Calls, NEW con \in Conns, NEW r \in Replies, k.left > 0,
           TakePut(c, k, con, r)
    PROVE  \E x \in Conns, y \in Calls :
              /\ PutStep(k, con, r, y, x)
              /\ IF y.left > 0 THEN GoOn(c, y, x)
                 ELSE IF x.err THEN Raise(c, y, x) ELSE Return(c, y, x)
<1>1. PICK last \in BOOLEAN, ones \in BOOLEAN :
        last = ((k.left - 1) % Hashes = 0) /\ ones = (k.ones /\ r.val = 1)
  OBVIOUS
<1>2. PICK left \in Nat : left = k.left - 1
  BY DEF Calls
<1>3. PICK new \in Nat : new = IF last /\ ~ones THEN k.new + 1 ELSE k.new
  BY DEF Calls
<1>4. PICK err \in BOOLEAN : err = (con.err \/ r.bad)
  BY DEF Conns, Replies
<1> DEFINE y == [k EXCEPT !.left = left, !.ones = last \/ ones, !.new = new]
           x == [con EXCEPT !.err = err]
<1>5. /\ y \in Calls /\ y.left = left /\ y.ones = (last \/ ones) /\ y.new = new /\ Resumes(y, k)
  <2>1. (last \/ ones) \in BOOLEAN
    OBVIOUS
  <2> QED
    BY <2>1, CallParts DEF Calls, Resumes, Over
<1>6. /\ x \in Conns /\ x.err = err /\ x.state = con.state /\ Wired(x, con)
      /\ Heard(x) = Heard(con)
  BY DEF Conns, Wired, Heard
<1>7. IF left > 0 THEN GoOn(c, y, x) ELSE IF err THEN Raise(c, y, x) ELSE Return(c, y, x)
  BY <1>1, <1>2, <1>3, <1>4 DEF TakePut, Calls, Conns
<1> HIDE DEF x, y
<1>8. PutStep(k, con, r, y, x)
  BY <1>1, <1>2, <1>3, <1>4, <1>5, <1>6 DEF PutStep
<1> QED
  BY <1>5, <1>6, <1>7, <1>8

\* check_next has read r, and the value has more bits.
GetStep(k, con, r, y, x) ==
    /\ Resumes(y, k) /\ y.left = k.left - 1 /\ y.ones = (k.ones /\ r.val = 1)
    /\ y.answers = k.answers
    /\ x.err = (con.err \/ r.bad) /\ x.state = con.state /\ Wired(x, con)
    /\ Heard(x) = Heard(con)

\* check_next has read r, the last reply of the value.
GetLast(k, con, r, y, x) ==
    /\ Resumes(y, k) /\ y.left = k.left - 1 /\ y.ones
    /\ y.answers = Append(k.answers, IF x.err THEN -1 ELSE IF k.ones /\ r.val = 1 THEN 1 ELSE 0)
    /\ Doomed(k) \/ x.err => Doomed(y)
    /\ x.err = (con.err \/ r.bad) /\ x.state = con.state /\ Wired(x, con)
    /\ Heard(x) = Heard(con)

LEMMA AnswerFields ==
    ASSUME NEW k \in Calls, NEW y \in Calls, NEW left \in Nat, NEW v \in {-1, 0, 1},
           AnswerOf(y, k, left, v)
    PROVE  /\ Resumes(y, k) /\ y.left = left /\ y.ones /\ y.answers = Append(k.answers, v)
           /\ Doomed(k) \/ v = -1 => Doomed(y)
  BY DEF AnswerOf, Calls, Resumes, Over

LEMMA GetShape ==
    ASSUME NEW c \in Clients, NEW k \in Calls, NEW con \in Conns, NEW r \in Replies, k.left > 0,
           k.op = "get", TakeContains(c, k, con, r)
    PROVE  \E x \in Conns, y \in Calls :
              \/ /\ (k.left - 1) % Hashes # 0
                 /\ GetStep(k, con, r, y, x) /\ GoOn(c, y, x)
              \/ /\ (k.left - 1) % Hashes = 0
                 /\ GetLast(k, con, r, y, x) /\ Answered(c, y, x)
<1>1. PICK ones \in BOOLEAN : ones = (k.ones /\ r.val = 1)
  OBVIOUS
<1>2. PICK left \in Nat : left = k.left - 1
  BY DEF Calls
<1>3. PICK err \in BOOLEAN : err = (con.err \/ r.bad)
  BY DEF Conns, Replies
<1> DEFINE x == [con EXCEPT !.err = err]
<1>4. /\ x \in Conns /\ x.err = err /\ x.state = con.state /\ Wired(x, con)
      /\ Heard(x) = Heard(con)
  BY DEF Conns, Wired, Heard
<1>5. x = [con EXCEPT !.err = @ \/ r.bad]
  BY <1>3 DEF Conns
<1> HIDE DEF x
<1>6. CASE left % Hashes # 0
  <2> DEFINE y == [k EXCEPT !.left = left, !.ones = ones]
  <2>1. y \in Calls /\ Resumes(y, k) /\ y.left = left /\ y.ones = ones /\ y.answers = k.answers
    BY DEF Calls, Resumes, Over
  <2>2. GoOn(c, y, x)
    BY <1>1, <1>2, <1>5, <1>6 DEF TakeContains
  <2> HIDE DEF y
  <2>3. GetStep(k, con, r, y, x)
    BY <1>1, <1>2, <1>3, <1>4, <2>1 DEF GetStep
  <2> QED
    BY <1>2, <1>4, <1>6, <2>1, <2>2, <2>3
<1>7. CASE left % Hashes = 0
  <2>1. PICK v \in {-1, 0, 1} : v = IF err THEN -1 ELSE IF ones THEN 1 ELSE 0
    OBVIOUS
  <2>2. PICK y \in Calls : AnswerOf(y, k, left, v)
    BY AppendDoom
  <2>3. Answered(c, y, x)
    BY <1>1, <1>2, <1>4, <1>5, <1>7, <2>1, <2>2 DEF TakeContains, AnswerOf
  <2>4. /\ Resumes(y, k) /\ y.left = left /\ y.ones /\ y.answers = Append(k.answers, v)
        /\ Doomed(k) \/ v = -1 => Doomed(y)
    BY <2>2, AnswerFields
  <2>5. GetLast(k, con, r, y, x)
    BY <1>1, <1>2, <1>3, <1>4, <2>1, <2>4 DEF GetLast
  <2> QED
    BY <1>2, <1>4, <1>7, <2>3, <2>5
<1> QED
  BY <1>6, <1>7

LEMMA AnsweredShape ==
    ASSUME NEW c \in Clients, NEW k \in Calls, NEW con \in Conns, Answered(c, k, con)
    PROVE  \/ /\ k.left > 0
              /\ \E x \in Conns : /\ GoOn(c, k, x) /\ x.state = con.state /\ ~x.err
                                  /\ Wired(x, con) /\ Heard(x) = Heard(con)
           \/ k.left = 0 /\ k.op = "get" /\ Doomed(k) /\ Raise(c, k, con)
           \/ k.left = 0 /\ ~Doomed(k) /\ Return(c, k, con)
           \/ k.left = 0 /\ k.op # "get" /\ (Raise(c, k, con) \/ Return(c, k, con))
<1>1. k.left \in Nat /\ k.answers \in Seq({-1, 0, 1})
  BY DEF Calls
<1>2. CASE k.left > 0
  <2> DEFINE x == [con EXCEPT !.err = FALSE]
  <2>1. /\ x \in Conns /\ x.state = con.state /\ ~x.err /\ Wired(x, con) /\ Heard(x) = Heard(con)
    BY DEF Conns, Wired, Heard
  <2>2. GoOn(c, k, x)
    BY <1>2 DEF Answered, Clears
  <2> HIDE DEF x
  <2> QED
    BY <1>2, <2>1, <2>2
<1>3. CASE k.left = 0
  <2>1. k.op = "get" => (Doomed(k) <=> -1 \in {k.answers[n] : n \in DOMAIN k.answers})
    BY DEF Doomed
  <2>2. CASE -1 \in {k.answers[n] : n \in DOMAIN k.answers}
    BY <1>3, <2>1, <2>2 DEF Answered
  <2>3. CASE -1 \notin {k.answers[n] : n \in DOMAIN k.answers}
    BY <1>3, <2>1, <2>3 DEF Answered
  <2> QED
    BY <2>2, <2>3
<1> QED
  BY <1>1, <1>2, <1>3

\* What the next read of put or contains may rely on.
Reads(k, con) == Selects(k, con, requires) /\ Admitted(con, requires) /\ AtHome(con)

LEMMA SelectsWired ==
    ASSUME NEW k, NEW con, NEW y, NEW x, Reads(k, con), Wired(x, con), Heard(x) = Heard(con),
           y.todo = k.todo
    PROVE  Reads(y, x)
<1>1. Selects(y, x, requires)
  BY SelectsKept, WiredAsked DEF Wired, Reads
<1> QED
  BY <1>1 DEF Reads, Admitted, AtHome, Wired

LEMMA AnsweredOrderly ==
    ASSUME IInv, Orderly, NEW c \in Clients, NEW k \in Calls, NEW con \in Conns, k.op = "get",
           con.state = "busy", Answered(c, k, con), Reads(k, con),
           UNCHANGED <<bits, requires>>, faults' = faults
    PROVE  Orderly'
<1>1. CASE \E x \in Conns : /\ GoOn(c, k, x) /\ x.state = con.state /\ ~x.err
                            /\ Wired(x, con) /\ Heard(x) = Heard(con)
  <2>1. PICK x \in Conns : /\ GoOn(c, k, x) /\ x.state = con.state
                           /\ Wired(x, con) /\ Heard(x) = Heard(con)
    BY <1>1
  <2>2. Reads(k, x)
    BY <2>1, SelectsWired
  <2> QED
    BY <2>1, <2>2, ReadOrderly DEF Reads
<1>2. CASE Raise(c, k, con) \/ Return(c, k, con)
  BY <1>2, ReadOrderly DEF Reads
<1> QED
  BY <1>1, <1>2, AnsweredShape

\* The next command of init or delete is sent: k and con become y and x.
Sent(k, con, y, x) ==
    /\ y = [k EXCEPT !.todo = Tail(@)] /\ x = [con EXCEPT !.obuf = Append(@, Head(k.todo))]
    /\ y.op = k.op /\ Over(y) = Over(k) /\ y.must = k.must
    /\ x.state = con.state /\ x.up = con.up /\ x.want = con.want
    /\ x.password = con.password /\ x.db = con.db /\ x.authed = con.authed
    /\ Heard(x) = Heard(con)
    /\ El(k.todo) = {Head(k.todo)} \cup El(y.todo)
    /\ El(Asked(x)) = El(Asked(con)) \cup {Head(k.todo)}

LEMMA SendShape ==
    ASSUME NEW k \in Calls, NEW con \in Conns, k.todo # <<>>
    PROVE  \E y \in Calls, x \in Conns : Sent(k, con, y, x)
<1>1. k.todo \in Seq(Commands) /\ con.obuf \in Seq(Commands)
  BY DEF Calls, Conns
<1>2. PICK m \in Commands, todo \in Seq(Commands), obuf \in Seq(Commands) :
        /\ m = Head(k.todo) /\ todo = Tail(k.todo) /\ obuf = Append(con.obuf, m)
  <2>1. \A p \in Seq(Commands) : p # <<>> => Head(p) \in Commands /\ Tail(p) \in Seq(Commands)
    OBVIOUS
  <2>2. \A p \in Seq(Commands), m \in Commands : Append(p, m) \in Seq(Commands)
    OBVIOUS
  <2> QED
    BY <1>1, <2>1, <2>2
<1> DEFINE y == [k EXCEPT !.todo = todo]
           x == [con EXCEPT !.obuf = obuf]
<1>3. y \in Calls /\ y.op = k.op /\ y.todo = todo /\ Over(y) = Over(k) /\ y.must = k.must
  BY DEF Calls, Over
<1>4. /\ x \in Conns /\ x.obuf = obuf /\ x.wire = con.wire /\ Heard(x) = Heard(con)
      /\ x.state = con.state /\ x.up = con.up /\ x.want = con.want
      /\ x.password = con.password /\ x.db = con.db /\ x.authed = con.authed
  BY DEF Conns, Heard
<1>5. y = [k EXCEPT !.todo = Tail(@)] /\ x = [con EXCEPT !.obuf = Append(@, Head(k.todo))]
  BY <1>2
<1> HIDE DEF x, y
<1>6. El(k.todo) = {Head(k.todo)} \cup El(y.todo)
  BY <1>1, <1>2, <1>3, ElTail
<1>7. El(obuf) = El(con.obuf) \cup {m}
  BY <1>1, <1>2, ElAppend
<1>8. El(Asked(x)) = El(Asked(con)) \cup {m}
  BY <1>4, <1>7, ElAsked
<1>9. Sent(k, con, y, x)
  BY <1>2, <1>3, <1>4, <1>5, <1>6, <1>8 DEF Sent
<1> QED
  BY <1>3, <1>4, <1>9

LEMMA NextDeleteOrderly ==
    ASSUME IInv, Orderly, NEW c \in Clients, NEW k \in Calls, NEW con \in Conns, k.op = "del",
           con.state = "busy", NextDelete(c, k, con), Reads(k, con),
           c \notin raised => Sweeps(k, con, KeyNames) /\ (con.up => El(Asked(con)) = {}),
           UNCHANGED <<bits, requires>>, faults' = faults
    PROVE  Orderly'
<1>1. CASE k.todo = <<>>
  <2> DEFINE y == [k EXCEPT !.left = 0]
  <2>1. y \in Calls /\ y.op = k.op /\ y.todo = k.todo /\ Over(y) = Over(k)
    BY DEF Calls, Over
  <2>2. Return(c, y, con)
    BY <1>1 DEF NextDelete
  <2> HIDE DEF y
  <2>3. Selects(y, con, requires)
    BY <2>1 DEF Reads, Selects
  <2>4. ASSUME c \notin raised, con.up PROVE Over(y) = KeyNames
    <3>1. Ahead(k, con) = {}
      BY <1>1, <2>4, ElNone DEF Ahead
    <3>2. KeysIn(Ahead(k, con)) = {}
      BY <3>1 DEF KeysIn
    <3> QED
      BY <2>1, <2>4, <3>2 DEF Sweeps
  <2> QED
    BY <2>1, <2>2, <2>3, <2>4, ReturnOrderly DEF Reads
<1>2. CASE k.todo # <<>>
  <2>1. PICK y \in Calls, x \in Conns : Sent(k, con, y, x)
    BY <1>2, SendShape
  <2>2. GoOn(c, y, x)
    BY <1>2, <2>1 DEF NextDelete, Sent
  <2>3. Selects(y, x, requires) /\ Admitted(x, requires) /\ AtHome(x)
    BY <2>1 DEF Sent, Reads, Selects, Admitted, AtHome
  <2>4. Ahead(y, x) = Ahead(k, con)
    BY <2>1 DEF Sent, Ahead
  <2>5. c \notin raised => Sweeps(y, x, KeyNames)
    BY <2>1, <2>4 DEF Sent, Sweeps
  <2>6. Polite(y, x, requires, faults, bits) /\ ~Fresh(y, x)
    BY <2>1, <2>3 DEF Sent, Polite, Greets, Settled, Explained, Fresh
  <2> QED
    BY <2>2, <2>5, <2>6, GoOnOrderly
<1> QED
  BY <1>1, <1>2

\* Nothing is left on the line of a call that has no reply to come.
LEMMA NothingLeft ==
    ASSUME NEW k, NEW con \in Conns, k.op \in {"init", "del"}, Belongs(k, con), Expects(k, con, 0)
    PROVE  El(Heard(con)) = {} /\ (con.up => El(Asked(con)) = {})
<1>1. Quiet(con)
  <2>1. /\ Len(con.reader) <= 0 /\ (con.up => OnLine(con) = 0 /\ ~con.err)
        /\ (~con.up => con.sock = <<>>)
    BY DEF Belongs, Expects, Doomed
  <2> QED
    BY <2>1, EmptyLine
<1> QED
  BY <1>1, ElAsked, ElNone DEF Quiet

\* init without a password has heard the answer to SELECT when it returns.
Hears(k, con, r) ==
    /\ ~r.bad => Admitted(con, requires)
    /\ r.op = "select" => IF r.bad THEN con.want \notin Databases \/ faults > 0
                                   ELSE con.db = con.want
    /\ ~con.password /\ k.todo = <<>> => r.op = "select"

LEMMA NextGreetingOrderly ==
    ASSUME IInv, Orderly, NEW c \in Clients, NEW k \in Calls, NEW con \in Conns, NEW r \in Replies,
           k.op = "init", con.state = "busy", NextGreeting(c, k, con, r),
           Selects(k, con, requires), Greets(k, con, faults), Hears(k, con, r),
           c \notin raised, Belongs(k, con), Expects(k, con, 0),
           UNCHANGED <<bits, requires>>, faults' = faults
    PROVE  Orderly'
<1>1. faults' \in Nat /\ faults <= faults'
  BY OrderlyObject
<1>2. CASE r.bad /\ r.op = "select"
  <2> DEFINE x == [con EXCEPT !.state = "dead", !.up = FALSE]
  <2>1. /\ x \in Conns /\ x.state = "dead" /\ x.want = con.want /\ x.password = con.password
        /\ x.db = con.db /\ x.authed = con.authed /\ Asked(x) = Asked(con)
        /\ Heard(x) = Heard(con)
    BY DEF Conns, Asked, Heard
  <2>2. GoOn(c, k, x)
    BY <1>2 DEF NextGreeting
  <2> HIDE DEF x
  <2>3. Selects(k, x, requires)
    BY <2>1, SelectsKept
  <2>4. Polite(k, x, requires, faults, bits)
    BY <1>2, <2>1, <2>3 DEF Polite, Greets, Settled, Explained, Hears
  <2>5. Sweeps(k, x, KeyNames)
    BY DEF Sweeps
  <2> QED
    BY <2>1, <2>2, <2>4, <2>5, GoOnOrderly
<1>3. CASE r.bad /\ r.op # "select"
  <2> DEFINE x == [con EXCEPT !.state = "closed", !.up = FALSE]
  <2>1. /\ x \in Conns /\ x.state = "closed" /\ x.want = con.want /\ x.password = con.password
        /\ x.db = con.db /\ x.authed = con.authed /\ Asked(x) = Asked(con)
        /\ Heard(x) = Heard(con)
    BY DEF Conns, Asked, Heard
  <2>2. conn' = [conn EXCEPT ![c] = x] /\ call' = [call EXCEPT ![c] = k] /\ raised' = raised \cup {c}
    BY <1>3 DEF NextGreeting
  <2> HIDE DEF x
  <2>3. Selects(k, x, requires)
    BY <2>1, SelectsKept
  <2>4. Polite(k, x, requires, faults', bits) /\ ~Fresh(k, x)
    BY <2>1, <2>3 DEF Polite, Greets, Settled, Explained, Fresh
  <2> QED
    BY <1>1, <2>1, <2>2, <2>4, OneCallOrderly
<1>4. CASE ~r.bad /\ k.todo = <<>>
  <2> DEFINE y == [k EXCEPT !.left = 0]
  <2>1. y \in Calls /\ y.op = k.op /\ y.todo = k.todo
    BY DEF Calls
  <2>2. Return(c, y, con)
    BY <1>4 DEF NextGreeting
  <2> HIDE DEF y
  <2>3. Selects(y, con, requires)
    BY <2>1 DEF Selects
  <2>4. Admitted(con, requires) /\ AtHome(con)
    BY <1>4 DEF Hears, AtHome
  <2> QED
    BY <2>1, <2>2, <2>3, <2>4, ReturnOrderly
<1>5. CASE ~r.bad /\ k.todo # <<>>
  <2>1. PICK y \in Calls, x \in Conns : Sent(k, con, y, x)
    BY <1>5, SendShape
  <2>2. GoOn(c, y, x)
    BY <1>5, <2>1 DEF NextGreeting, Sent
  <2>3. Selects(y, x, requires)
    BY <1>5, <2>1 DEF Sent, Selects, Admitted, Hears
  <2>4. El(Heard(con)) = {} /\ (con.up => El(Asked(con)) = {})
    BY NothingLeft
  <2>5. Greets(y, x, faults)
    BY <2>1, <2>4 DEF Sent, Greets
  <2>6. Polite(y, x, requires, faults, bits) /\ Sweeps(y, x, KeyNames)
    BY <2>1, <2>3, <2>5 DEF Sent, Polite, Settled, Explained, Sweeps
  <2> QED
    BY <2>2, <2>6, GoOnOrderly
<1> QED
  BY <1>2, <1>3, <1>4, <1>5

LEMMA Continued ==
    ASSUME NEW j \in Calls, NEW k \in Calls, Continues(k, j)
    PROVE  /\ k.op = j.op /\ k.tag = j.tag /\ k.items = j.items /\ k.left = j.left
           /\ k.todo = j.todo /\ k.ones = j.ones /\ k.new = j.new /\ k.answers = j.answers
           /\ k.must = j.must /\ k.swept = j.swept /\ Over(k) = Over(j)
  BY DEF Continues, Calls, Over

\* What the reply just taken tells, and what is left on the line.
LEMMA TakenOrderly ==
    ASSUME IInv, Orderly, NEW c \in Clients, NEW con \in Conns, NEW k \in Calls,
           NEW r \in Replies, Taken(c, k, con, r)
    PROVE  /\ Selects(k, con, requires)
           /\ k.op = "init" => Greets(k, con, faults) /\ Hears(k, con, r) /\ c \notin raised
           /\ k.op # "init" => Reads(k, con)
           /\ c \notin raised => Sweeps(k, con, KeyNames)
           /\ c \notin raised /\ k.op = "del" /\ con.up => El(Asked(con)) = {}
<1>1. PICK j \in Calls : j = call[c]
  BY DEF IInv, TypeOK
<1>2. PICK old \in Conns : old = conn[c]
  BY DEF IInv, TypeOK
<1>3. /\ Selects(j, old, requires) /\ Greets(j, old, faults) /\ Settled(j, old, requires)
      /\ c \notin raised => Sweeps(j, old, KeyNames)
      /\ Fresh(j, old) => c \notin raised
  BY <1>1, <1>2, OrderlyObject
<1>4. /\ con.state = "busy" /\ Wired(con, old) /\ old.state = "busy"
      /\ Heard(old) # <<>> /\ r = Head(Heard(old)) /\ Heard(con) = Tail(Heard(old))
      /\ Continues(k, j) /\ (k.op = "del" => k.left = 1)
      /\ c \notin raised => Belongs(k, con) /\ Expects(k, con, k.left - 1)
  BY <1>1, <1>2 DEF Taken
<1>5. k.op = j.op /\ k.todo = j.todo /\ Over(k) = Over(j)
  BY <1>4, Continued
<1>6. r \in El(Heard(old)) /\ El(Heard(con)) \subseteq El(Heard(old))
  BY <1>4, ElAsked, ElTail
<1>7. Asked(con) = Asked(old)
  BY <1>4, WiredAsked
<1>8. /\ con.up = old.up /\ con.want = old.want /\ con.password = old.password
      /\ con.db = old.db /\ con.authed = old.authed
  BY <1>4 DEF Wired
<1>9. Selects(k, con, requires)
  BY <1>3, <1>5, <1>6, <1>7, <1>8, SelectsKept
<1>10. ASSUME k.op = "init" PROVE Greets(k, con, faults) /\ Hears(k, con, r) /\ c \notin raised
  <2>1. Greets(k, con, faults)
    BY <1>3, <1>4, <1>5, <1>6, <1>7, <1>8, <1>10 DEF Greets
  <2>2. /\ ~r.bad => Admitted(old, requires)
        /\ r.op = "select" /\ ~r.bad => old.db = old.want
    BY <1>3, <1>6 DEF Selects
  <2>6. r.op = "select" /\ r.bad => old.want \notin Databases \/ faults > 0
    BY <1>3, <1>4, <1>5, <1>6, <1>10 DEF Greets
  <2>3. ~con.password /\ k.todo = <<>> => r.op = "select"
    BY <1>3, <1>4, <1>5, <1>6, <1>8, <1>10 DEF Greets
  <2>4. Hears(k, con, r)
    BY <1>8, <2>2, <2>3, <2>6 DEF Hears, Admitted
  <2>5. c \notin raised
    BY <1>3, <1>4, <1>5, <1>10 DEF Fresh
  <2> QED
    BY <2>1, <2>4, <2>5
<1>11. k.op # "init" => Reads(k, con)
  BY <1>3, <1>4, <1>5, <1>8, <1>9 DEF Reads, Settled, Admitted, AtHome
<1>12. c \notin raised => Sweeps(k, con, KeyNames)
  BY <1>3, <1>4, <1>5, <1>7, <1>8 DEF Sweeps, Ahead
<1>13. c \notin raised /\ k.op = "del" /\ con.up => El(Asked(con)) = {}
  <2>1. k.op = "del" => k.left - 1 = 0
    BY <1>4
  <2> QED
    BY <1>4, <2>1, NothingLeft
<1> QED
  BY <1>9, <1>10, <1>11, <1>12, <1>13

LEMMA TakePutOrderly ==
    ASSUME IInv, Orderly, NEW c \in Clients, NEW k \in Calls, NEW con \in Conns,
           NEW r \in Replies, k.op = "set", k.left > 0, con.state = "busy",
           TakePut(c, k, con, r), Reads(k, con), UNCHANGED <<bits, requires>>, faults' = faults
    PROVE  Orderly'
<1>1. PICK x \in Conns, y \in Calls :
        /\ PutStep(k, con, r, y, x)
        /\ IF y.left > 0 THEN GoOn(c, y, x)
           ELSE IF x.err THEN Raise(c, y, x) ELSE Return(c, y, x)
  BY PutShape
<1>2. /\ x.state = con.state /\ Wired(x, con) /\ Heard(x) = Heard(con) /\ Resumes(y, k)
  BY <1>1 DEF PutStep
<1>3. y.op = "set" /\ y.todo = k.todo
  BY <1>2 DEF Resumes
<1>4. Reads(y, x)
  BY <1>2, <1>3, SelectsWired
<1> QED
  BY <1>1, <1>2, <1>3, <1>4, ReadOrderly DEF Reads

LEMMA TakeContainsOrderly ==
    ASSUME IInv, Orderly, NEW c \in Clients, NEW k \in Calls, NEW con \in Conns,
           NEW r \in Replies, k.op = "get", k.left > 0, con.state = "busy",
           TakeContains(c, k, con, r), Reads(k, con), UNCHANGED <<bits, requires>>,
           faults' = faults
    PROVE  Orderly'
<1>1. PICK x \in Conns, y \in Calls :
        \/ GetStep(k, con, r, y, x) /\ GoOn(c, y, x)
        \/ GetLast(k, con, r, y, x) /\ Answered(c, y, x)
  BY GetShape
<1>2. /\ x.state = con.state /\ Wired(x, con) /\ Heard(x) = Heard(con) /\ Resumes(y, k)
  BY <1>1 DEF GetStep, GetLast
<1>3. y.op = "get" /\ y.todo = k.todo
  BY <1>2 DEF Resumes
<1>4. Reads(y, x)
  BY <1>2, <1>3, SelectsWired
<1>5. CASE GoOn(c, y, x)
  BY <1>2, <1>3, <1>4, <1>5, ReadOrderly DEF Reads
<1>6. CASE Answered(c, y, x)
  BY <1>2, <1>3, <1>4, <1>6, AnsweredOrderly
<1> QED
  BY <1>1, <1>5, <1>6

LEMMA TakeOrderly == ASSUME IInv, Orderly, NEW c \in Clients, Take(c) PROVE Orderly'
<1>1. UNCHANGED <<bits, requires>> /\ faults' = faults
  BY TakeShape
<1>2. PICK con \in Conns, k \in Calls, r \in Replies : Taken(c, k, con, r)
  BY TakeShape
<1>3. /\ con.state = "busy" /\ k.op \in {"init", "del", "set", "get"} /\ k.left > 0
      /\ k.op \in {"init", "del"} => k.left - 1 = 0
      /\ c \notin raised => Belongs(k, con) /\ Expects(k, con, k.left - 1)
      /\ Took(c, k, con, r)
  BY <1>2 DEF Taken
<1>4. /\ Selects(k, con, requires)
      /\ k.op = "init" => Greets(k, con, faults) /\ Hears(k, con, r) /\ c \notin raised
      /\ k.op # "init" => Reads(k, con)
      /\ c \notin raised => Sweeps(k, con, KeyNames)
      /\ c \notin raised /\ k.op = "del" /\ con.up => El(Asked(con)) = {}
  BY <1>2, TakenOrderly
<1>5. CASE k.op = "init"
  BY <1>1, <1>3, <1>4, <1>5, NextGreetingOrderly DEF Took
<1>6. CASE k.op = "del"
  BY <1>1, <1>3, <1>4, <1>6, NextDeleteOrderly DEF Took
<1>7. CASE k.op = "set"
  BY <1>1, <1>3, <1>4, <1>7, TakePutOrderly DEF Took
<1>8. CASE k.op = "get"
  BY <1>1, <1>3, <1>4, <1>8, TakeContainsOrderly DEF Took
<1> QED
  BY <1>3, <1>5, <1>6, <1>7, <1>8

LEMMA FailOrderly == ASSUME IInv, Orderly, NEW c \in Clients, Fail(c) PROVE Orderly'
<1>1. UNCHANGED <<bits, requires>> /\ faults' = faults
  BY FailShape
<1>2. PICK k \in Calls : k = call[c]
  BY FailShape
<1>3. PICK old \in Conns : old = conn[c]
  BY DEF IInv, TypeOK
<1>4. /\ k.left > 0 /\ k.op \in {"init", "del", "set", "get"} /\ old.state = "busy"
      /\ k.op \in {"init", "del"} => (c \notin raised => ~old.up)
  BY <1>2, <1>3, FailShape
<1>5. PICK con \in Conns :
        /\ con.state = "busy" /\ Wired(con, old) /\ Heard(con) = Heard(old)
        /\ Failed(c, k, con)
  BY <1>2, <1>3, FailShape
<1>6. /\ Selects(k, old, requires) /\ Greets(k, old, faults) /\ Settled(k, old, requires)
      /\ c \notin raised => Sweeps(k, old, KeyNames)
      /\ Fresh(k, old) => c \notin raised
  BY <1>2, <1>3, OrderlyObject
<1>7. Selects(k, con, requires)
  BY <1>5, <1>6, SelectsKept, WiredAsked DEF Wired
<1>8. k.op # "init" => Reads(k, con)
  BY <1>4, <1>5, <1>6, <1>7 DEF Reads, Settled, Admitted, AtHome, Wired
<1>9. CASE k.op = "init"
  <2> DEFINE x == [con EXCEPT !.state = "dead"]
  <2>1. /\ x \in Conns /\ x.state = "dead" /\ x.want = con.want /\ x.password = con.password
        /\ x.db = con.db /\ x.authed = con.authed /\ Asked(x) = Asked(con)
        /\ Heard(x) = Heard(con)
    BY DEF Conns, Asked, Heard
  <2>2. GoOn(c, k, x)
    BY <1>5, <1>9 DEF Failed
  <2> HIDE DEF x
  <2>3. Selects(k, x, requires)
    BY <1>7, <2>1, SelectsKept
  <2>4. c \notin raised /\ faults > 0
    BY <1>4, <1>6, <1>9 DEF Fresh, Greets
  <2>5. Polite(k, x, requires, faults, bits)
    BY <1>9, <2>1, <2>3, <2>4 DEF Polite, Greets, Settled, Explained
  <2>6. Sweeps(k, x, KeyNames) /\ ~Fresh(k, x)
    BY <1>9, <2>1 DEF Sweeps, Fresh
  <2> QED
    BY <1>1, <2>1, <2>2, <2>5, <2>6, GoOnOrderly
<1>10. CASE k.op = "del"
  <2>1. NextDelete(c, k, con)
    BY <1>5, <1>10 DEF Failed
  <2>2. c \notin raised => ~con.up
    BY <1>4, <1>5, <1>10 DEF Wired
  <2>3. c \notin raised => Sweeps(k, con, KeyNames)
    BY <2>2 DEF Sweeps
  <2> QED
    BY <1>1, <1>5, <1>8, <1>10, <2>1, <2>2, <2>3, NextDeleteOrderly
<1>11. CASE k.op = "set"
  <2>1. Raise(c, k, con)
    BY <1>5, <1>11 DEF Failed
  <2> QED
    BY <1>1, <1>8, <1>11, <2>1, RaiseOrderly DEF Reads
<1>12. CASE k.op = "get"
  <2>1. PICK left \in Nat : left = ((k.left - 1) \div Hashes) * Hashes
    <3>1. k.left - 1 \in Nat
      BY <1>4 DEF Calls
    <3>2. (k.left - 1) \div Hashes \in Nat
      BY <3>1, Constants, DivType
    <3> QED
      BY <3>2, Constants
  <2>2. PICK y \in Calls : AnswerOf(y, k, left, -1)
    <3>1. -1 \in {-1, 0, 1}
      OBVIOUS
    <3> QED
      BY <1>12, <3>1, AppendDoom
  <2>3. Answered(c, y, con)
    BY <1>5, <1>12, <2>1, <2>2 DEF Failed, AnswerOf
  <2>4. -1 \in {-1, 0, 1}
    OBVIOUS
  <2>5. Resumes(y, k)
    BY <2>1, <2>2, <2>4, AnswerFields
  <2>6. y.op = "get" /\ y.todo = k.todo
    BY <1>12, <2>5 DEF Resumes
  <2>7. Wired(con, con)
    BY DEF Wired
  <2>8. Reads(y, con)
    BY <1>8, <1>12, <2>6, <2>7, SelectsWired
  <2> QED
    BY <1>1, <1>5, <2>3, <2>6, <2>8, AnsweredOrderly
<1> QED
  BY <1>4, <1>9, <1>10, <1>11, <1>12

-----------------------------------------------------------------------------
(* The server, again. *)

\* base differs from con in what the server knows of the connection alone.
Base(base, con) ==
    /\ base.state = con.state /\ base.up = con.up /\ base.err = con.err
    /\ base.want = con.want /\ base.password = con.password
    /\ base.obuf = con.obuf /\ base.wire = con.wire /\ base.sock = con.sock
    /\ base.reader = con.reader

\* The server has run the command m it had from c on the connection con, with
\* the answer r; x is what it knows of the connection now.
Ran(c, m, con, r, x) ==
    /\ r.op = m.op /\ r.tag = m.tag
    /\ ~r.bad => Admitted(x, requires)
    /\ Admitted(con, requires) => Admitted(x, requires)
    /\ x.db = IF m.op = "select" /\ ~r.bad THEN m.at[1] ELSE con.db
    /\ m.op = "select" /\ r.bad /\ Admitted(con, requires) =>
          m.at[1] \notin Databases \/ faults' = faults + 1
    /\ m.op \in {"set", "get"} /\ ~r.bad => r.val = IF m.at \in store[con.db] THEN 1 ELSE 0
    /\ IF m.op = "del" /\ ~r.bad
       THEN /\ store' = [store EXCEPT ![con.db] = {b \in @ : b[1] # m.at[1]}]
            /\ stored' = [stored EXCEPT ![con.db] = {}]
            /\ call' = [Sweep(con.db) EXCEPT ![c].done =
                           IF m.tag = call[c].tag THEN @ \cup {m.at[1]} ELSE @]
       ELSE /\ \/ call' = call /\ (m.op = "del" => ~Admitted(con, requires))
               \/ call' = [call EXCEPT ![c].denied =
                              IF m.op = "del" /\ m.tag = call[c].tag THEN @ \cup {m.at[1]} ELSE @]
            /\ stored' = stored
            /\ store' = IF m.op = "set" /\ ~r.bad
                        THEN [store EXCEPT ![con.db] = @ \cup {m.at}] ELSE store

\* x is base with the command at the head of its wire answered by r.
Answers(base, r, x) ==
    /\ x.wire = Tail(base.wire)
    /\ x.sock = IF base.up THEN Append(base.sock, r) ELSE base.sock
    /\ x.state = base.state /\ x.up = base.up /\ x.err = base.err /\ x.want = base.want
    /\ x.password = base.password /\ x.obuf = base.obuf /\ x.reader = base.reader

LEMMA TurnedFields ==
    ASSUME NEW base \in Conns, NEW r \in Replies, base.wire # <<>>
    PROVE  \E x \in Conns : /\ x = Turned(base, r) /\ Answers(base, r, x)
                            /\ x.db = base.db /\ x.authed = base.authed
<1>1. base.wire \in Seq(Commands) /\ base.sock \in Seq(Replies) /\ base.up \in BOOLEAN
  BY DEF Conns
<1>2. PICK wire \in Seq(Commands) : wire = Tail(base.wire)
  <2>1. \A p \in Seq(Commands) : p # <<>> => Tail(p) \in Seq(Commands)
    OBVIOUS
  <2> QED
    BY <1>1, <2>1
<1>3. PICK sock \in Seq(Replies) : sock = IF base.up THEN Append(base.sock, r) ELSE base.sock
  <2>1. \A p \in Seq(Replies) : Append(p, r) \in Seq(Replies)
    OBVIOUS
  <2> QED
    BY <1>1, <2>1
<1> DEFINE x == [base EXCEPT !.wire = wire, !.sock = sock]
<1>4. x = Turned(base, r)
  BY <1>2, <1>3 DEF Conns, Turned
<1>5. /\ x \in Conns /\ x.wire = wire /\ x.sock = sock
      /\ x.state = base.state /\ x.up = base.up /\ x.err = base.err /\ x.want = base.want
      /\ x.password = base.password /\ x.obuf = base.obuf /\ x.reader = base.reader
      /\ x.db = base.db /\ x.authed = base.authed
  BY DEF Conns
<1> HIDE DEF x
<1>6. Answers(base, r, x)
  BY <1>2, <1>3, <1>5 DEF Answers
<1> QED
  BY <1>4, <1>5, <1>6

LEMMA ExecShape ==
    ASSUME IInv, NEW c \in Clients, Exec(c)
    PROVE  /\ UNCHANGED <<bits, requires, raised>> /\ faults' \in {faults, faults + 1}
           /\ conn[c].wire # <<>>
           /\ \E m \in Commands, base \in Conns, r \in Replies :
                 /\ m = Head(conn[c].wire) /\ Base(base, conn[c]) /\ Ran(c, m, conn[c], r, base)
                 /\ conn' = [conn EXCEPT ![c] = Turned(base, r)]
<1>1. /\ conn[c] \in Conns /\ requires \in BOOLEAN /\ conn[c].wire # <<>>
      /\ UNCHANGED <<bits, requires, raised>>
  BY DEF IInv, TypeOK, Exec
<1> DEFINE m == Head(conn[c].wire)
<1>2. m \in Commands
  <2>1. \A p \in Seq(Commands) : p # <<>> => Head(p) \in Commands
    OBVIOUS
  <2> QED
    BY <1>1, <2>1 DEF Conns
<1>3. conn[c] \in Conns /\ conn[c].authed \in BOOLEAN
  BY <1>1 DEF Conns
<1> DEFINE R(bad, val) == [op |-> m.op, tag |-> m.tag, bad |-> bad, val |-> val]
           A(bad, val, x) == conn' = [conn EXCEPT ![c] = Turned(x, R(bad, val))]
           Bit == IF m.at \in store[conn[c].db] THEN 1 ELSE 0
           Same2 == call' = call /\ store' = store /\ stored' = stored
           Refused == /\ faults' = faults + 1 /\ store' = store /\ stored' = stored
                      /\ call' = [call EXCEPT ![c].denied =
                             IF m.op = "del" /\ m.tag = call[c].tag THEN @ \cup {m.at[1]} ELSE @]
                      /\ A(TRUE, 0, conn[c])
<1>7. Base(conn[c], conn[c])
  BY DEF Base
<1> DEFINE shut == requires /\ ~conn[c].authed /\ m.op # "auth"
<1>8. \/ shut /\ A(TRUE, 0, conn[c]) /\ Same2 /\ faults' = faults
      \/ /\ m.op = "auth" /\ Same2 /\ faults' = faults
         /\ A(~requires, 0, [conn[c] EXCEPT !.authed = requires])
      \/ m.op = "ping" /\ ~shut /\ A(FALSE, 0, conn[c]) /\ Same2 /\ faults' = faults
      \/ /\ m.op = "select" /\ ~shut /\ m.at[1] \in Databases /\ Same2 /\ faults' = faults
         /\ A(FALSE, 0, [conn[c] EXCEPT !.db = m.at[1]])
      \/ /\ m.op = "select" /\ ~shut /\ m.at[1] \notin Databases /\ Same2 /\ faults' = faults
         /\ A(TRUE, 0, conn[c])
      \/ /\ m.op = "set" /\ ~shut /\ call' = call /\ stored' = stored /\ faults' = faults
         /\ store' = [store EXCEPT ![conn[c].db] = @ \cup {m.at}] /\ A(FALSE, Bit, conn[c])
      \/ Refused
      \/ m.op = "get" /\ ~shut /\ Same2 /\ faults' = faults /\ A(FALSE, Bit, conn[c])
      \/ /\ m.op = "del" /\ ~shut /\ faults' = faults
         /\ store' = [store EXCEPT ![conn[c].db] = {e \in @ : e[1] # m.at[1]}]
         /\ stored' = [stored EXCEPT ![conn[c].db] = {}]
         /\ call' = [Sweep(conn[c].db) EXCEPT ![c].done =
                        IF m.tag = call[c].tag THEN @ \cup {m.at[1]} ELSE @]
         /\ A(FALSE, 0, conn[c])
  BY DEF Exec, Turned
<1> HIDE DEF m
<1>4. PICK v \in {0, 1} : v = Bit
  OBVIOUS
<1>5. PICK b \in BOOLEAN : b = ~requires
  OBVIOUS
<1>6. ASSUME NEW bad \in BOOLEAN, NEW val \in {0, 1}
      PROVE  /\ R(bad, val) \in Replies /\ R(bad, val).op = m.op /\ R(bad, val).tag = m.tag
             /\ R(bad, val).bad = bad /\ R(bad, val).val = val
  BY <1>2 DEF Replies, Commands
<1> HIDE DEF A, R
<1>9. \E base \in Conns, bad \in BOOLEAN, val \in {0, 1} :
        Base(base, conn[c]) /\ Ran(c, m, conn[c], R(bad, val), base) /\ A(bad, val, base)
  <2>1. CASE shut /\ A(TRUE, 0, conn[c]) /\ Same2
    <3>1. Ran(c, m, conn[c], R(TRUE, 0), conn[c])
      BY <1>6, <2>1 DEF Ran, Admitted
    <3> QED
      BY <1>3, <1>7, <2>1, <3>1
  <2>2. CASE m.op = "auth" /\ Same2 /\ A(~requires, 0, [conn[c] EXCEPT !.authed = requires])
    <3> DEFINE base == [conn[c] EXCEPT !.authed = requires]
    <3>1. base \in Conns /\ Base(base, conn[c]) /\ base.authed = requires /\ base.db = conn[c].db
      BY <1>1, <1>3 DEF Conns, Base
    <3>2. A(b, 0, base)
      BY <1>5, <2>2
    <3> HIDE DEF base
    <3>3. Ran(c, m, conn[c], R(b, 0), base)
      BY <1>1, <1>5, <1>6, <2>2, <3>1 DEF Ran, Admitted
    <3> QED
      BY <3>1, <3>2, <3>3
  <2>3. CASE m.op = "ping" /\ ~shut /\ A(FALSE, 0, conn[c]) /\ Same2
    <3>1. Ran(c, m, conn[c], R(FALSE, 0), conn[c])
      BY <1>6, <2>3 DEF Ran, Admitted
    <3> QED
      BY <1>3, <1>7, <2>3, <3>1
  <2>4. CASE /\ m.op = "select" /\ ~shut /\ m.at[1] \in Databases /\ Same2
             /\ A(FALSE, 0, [conn[c] EXCEPT !.db = m.at[1]])
    <3> DEFINE base == [conn[c] EXCEPT !.db = m.at[1]]
    <3>1. base \in Conns /\ Base(base, conn[c]) /\ base.authed = conn[c].authed /\ base.db = m.at[1]
      BY <1>3, <2>4 DEF Conns, Base
    <3>2. A(FALSE, 0, base)
      BY <2>4
    <3> HIDE DEF base
    <3>3. Ran(c, m, conn[c], R(FALSE, 0), base)
      BY <1>6, <2>4, <3>1 DEF Ran, Admitted
    <3> QED
      BY <3>1, <3>2, <3>3
  <2>5. CASE m.op = "select" /\ ~shut /\ m.at[1] \notin Databases /\ Same2 /\ A(TRUE, 0, conn[c])
    <3>1. Ran(c, m, conn[c], R(TRUE, 0), conn[c])
      BY <1>6, <2>5 DEF Ran, Admitted
    <3> QED
      BY <1>3, <1>7, <2>5, <3>1
  <2>6. CASE /\ m.op = "set" /\ ~shut /\ call' = call /\ stored' = stored
             /\ store' = [store EXCEPT ![conn[c].db] = @ \cup {m.at}] /\ A(FALSE, Bit, conn[c])
    <3>1. Ran(c, m, conn[c], R(FALSE, v), conn[c]) /\ A(FALSE, v, conn[c])
      BY <1>4, <1>6, <2>6 DEF Ran, Admitted
    <3> QED
      BY <1>3, <1>7, <3>1
  <2>7. CASE Refused
    <3>1. Ran(c, m, conn[c], R(TRUE, 0), conn[c])
      BY <1>6, <2>7 DEF Ran, Admitted
    <3> QED
      BY <1>3, <1>7, <2>7, <3>1
  <2>8. CASE m.op = "get" /\ ~shut /\ Same2 /\ A(FALSE, Bit, conn[c])
    <3>1. Ran(c, m, conn[c], R(FALSE, v), conn[c]) /\ A(FALSE, v, conn[c])
      BY <1>4, <1>6, <2>8 DEF Ran, Admitted
    <3> QED
      BY <1>3, <1>7, <3>1
  <2>9. CASE /\ m.op = "del" /\ ~shut
             /\ store' = [store EXCEPT ![conn[c].db] = {e \in @ : e[1] # m.at[1]}]
             /\ stored' = [stored EXCEPT ![conn[c].db] = {}]
             /\ call' = [Sweep(conn[c].db) EXCEPT ![c].done =
                           IF m.tag = call[c].tag THEN @ \cup {m.at[1]} ELSE @]
             /\ A(FALSE, 0, conn[c])
    <3>1. Ran(c, m, conn[c], R(FALSE, 0), conn[c])
      BY <1>6, <2>9 DEF Ran, Admitted
    <3> QED
      BY <1>3, <1>7, <2>9, <3>1
  <2> QED
    BY <1>8, <2>1, <2>2, <2>3, <2>4, <2>5, <2>6, <2>7, <2>8, <2>9
<1>10. PICK base \in Conns, r \in Replies :
         /\ Base(base, conn[c]) /\ Ran(c, m, conn[c], r, base)
         /\ conn' = [conn EXCEPT ![c] = Turned(base, r)]
  BY <1>6, <1>9 DEF A
<1>11. faults' \in {faults, faults + 1}
  BY <1>8
<1> QED
  BY <1>1, <1>2, <1>10, <1>11 DEF m

\* What the server never changes in a call, but its history.
Alike(y, k) ==
    /\ y.op = k.op /\ y.tag = k.tag /\ y.items = k.items /\ y.left = k.left /\ y.todo = k.todo
    /\ y.ones = k.ones /\ y.new = k.new /\ y.answers = k.answers /\ y.foreign = k.foreign

LEMMA SweepAlike ==
    ASSUME IInv, NEW d, NEW e \in Clients
    PROVE  /\ Sweep(d)[e] \in Calls /\ Alike(Sweep(d)[e], call[e])
           /\ Over(Sweep(d)[e]) = Over(call[e])
           /\ IF conn[e].db = d /\ conn[e].state = "busy" /\ e \notin raised
              THEN Sweep(d)[e].must = {} /\ Sweep(d)[e].swept = (call[e].op = "set")
              ELSE Sweep(d)[e] = call[e]
<1>1. PICK k \in Calls, b \in BOOLEAN : k = call[e] /\ b = (call[e].op = "set")
  BY DEF IInv, TypeOK
<1> DEFINE y == [k EXCEPT !.must = {}, !.swept = b]
<1>2. y \in Calls /\ Alike(y, k) /\ Over(y) = Over(k) /\ y.must = {} /\ y.swept = b
  BY DEF Calls, Alike, Over
<1>3. Alike(k, k)
  BY DEF Alike
<1>4. IF conn[e].db = d /\ conn[e].state = "busy" /\ e \notin raised
      THEN Sweep(d)[e] = y ELSE Sweep(d)[e] = k
  BY <1>1 DEF Sweep
<1> HIDE DEF y
<1> QED
  BY <1>1, <1>2, <1>3, <1>4

\* What the call is told of the DELs that ran: gone, when one has run in its database.
Recalls(y, k, gone) ==
    /\ gone => y.must = {} /\ y.swept = (k.op = "set")
    /\ ~gone => y.must = k.must /\ y.swept = k.swept

\* A DEL that ran on the connection con concerns the call of e.
Reached(e, con) == conn[e].db = con.db /\ conn[e].state = "busy" /\ e \notin raised

\* The DEL of key i has been answered.
Counted(y, k, i) == Over(y) = Over(k) \cup {i}

\* The history of the calls, when the server has run m.
LEMMA RanAlike ==
    ASSUME IInv, NEW c \in Clients, NEW m \in Commands, NEW con, NEW r, NEW x,
           Ran(c, m, con, r, x), NEW e \in Clients
    PROVE  /\ Alike(call'[e], call[e])
           /\ e # c => Over(call'[e]) = Over(call[e])
           /\ e = c /\ m.op = "del" /\ m.tag = call[c].tag /\ Admitted(con, requires) =>
                 Counted(call'[e], call[e], m.at[1])
           /\ Recalls(call'[e], call[e], m.op = "del" /\ ~r.bad /\ Reached(e, con))
<1>1. CASE m.op = "del" /\ ~r.bad
  <2>1. PICK sw : sw = Sweep(con.db)
    OBVIOUS
  <2>2. sw \in [Clients -> Calls]
    BY <2>1, SweepType
  <2>3. PICK k \in Calls : k = sw[e]
    BY <2>2
  <2>4. /\ Alike(k, call[e]) /\ Over(k) = Over(call[e])
        /\ IF conn[e].db = con.db /\ conn[e].state = "busy" /\ e \notin raised
           THEN k.must = {} /\ k.swept = (call[e].op = "set")
           ELSE k.must = call[e].must /\ k.swept = call[e].swept
    BY <2>1, <2>3, SweepAlike
  <2>5. call' = [sw EXCEPT ![c].done = IF m.tag = call[c].tag THEN @ \cup {m.at[1]} ELSE @]
    BY <1>1, <2>1 DEF Ran
  <2>6. CASE e # c
    <3>1. call'[e] = k
      BY <2>2, <2>3, <2>5, <2>6
    <3> QED
      BY <1>1, <2>4, <2>6, <3>1 DEF Recalls, Reached
  <2>7. CASE e = c
    <3> DEFINE done == IF m.tag = call[c].tag THEN k.done \cup {m.at[1]} ELSE k.done
               y == [k EXCEPT !.done = done]
    <3>1. call'[e] = y
      BY <2>2, <2>3, <2>5, <2>7
    <3>2. /\ Alike(y, k) /\ y.done = done /\ y.denied = k.denied
          /\ y.must = k.must /\ y.swept = k.swept
      BY DEF Calls, Alike
    <3>4. m.tag = call[c].tag => Counted(y, call[e], m.at[1])
      BY <2>4, <3>2 DEF Over, Counted
    <3> HIDE DEF y
    <3>3. Alike(y, call[e])
      BY <2>4, <3>2 DEF Alike
    <3> QED
      BY <1>1, <2>4, <2>7, <3>1, <3>2, <3>3, <3>4 DEF Recalls, Reached
  <2> QED
    BY <2>6, <2>7
<1>2. CASE ~(m.op = "del" /\ ~r.bad)
  <2>1. CASE call' = call /\ (m.op = "del" => ~Admitted(con, requires))
    BY <1>2, <2>1 DEF Recalls, Alike
  <2>2. CASE call' = [call EXCEPT ![c].denied =
                   IF m.op = "del" /\ m.tag = call[c].tag THEN @ \cup {m.at[1]} ELSE @]
    <3>1. call \in [Clients -> Calls]
      BY DEF IInv, TypeOK
    <3>2. CASE e # c
      <4>1. call'[e] = call[e]
        BY <2>2, <3>1, <3>2
      <4> QED
        BY <1>2, <3>2, <4>1 DEF Recalls, Alike
    <3>3. CASE e = c
      <4> DEFINE denied == IF m.op = "del" /\ m.tag = call[c].tag
                           THEN call[c].denied \cup {m.at[1]} ELSE call[c].denied
      <4>1. PICK k \in Calls : k = call[c]
        BY <3>1
      <4> DEFINE y == [k EXCEPT !.denied = denied]
      <4>2. call'[e] = y
        BY <2>2, <3>1, <3>3, <4>1
      <4>3. /\ Alike(y, k) /\ y.done = k.done /\ y.denied = denied
            /\ y.must = k.must /\ y.swept = k.swept
        BY DEF Calls, Alike
      <4>4. m.op = "del" /\ m.tag = call[c].tag => Counted(y, k, m.at[1])
        BY <4>1, <4>3 DEF Over, Counted
      <4> HIDE DEF y
      <4> QED
        BY <1>2, <3>3, <4>1, <4>2, <4>3, <4>4 DEF Recalls
    <3> QED
      BY <3>2, <3>3
  <2> QED
    BY <1>2, <2>1, <2>2 DEF Ran
<1> QED
  BY <1>1, <1>2

\* The line when the command at its head has been answered.
LEMMA AnsweredLine ==
    ASSUME NEW con \in Conns, NEW x \in Conns, NEW r \in Replies, con.wire # <<>>,
           Answers(con, r, x)
    PROVE  /\ Head(con.wire) \in El(Asked(con))
           /\ El(Asked(con)) = {Head(con.wire)} \cup El(Asked(x))
           /\ El(Heard(x)) = El(Heard(con)) \cup (IF con.up THEN {r} ELSE {})
<1>1. con.wire \in Seq(Commands) /\ con.sock \in Seq(Replies)
  BY DEF Conns
<1>2. El(con.wire) = {Head(con.wire)} \cup El(Tail(con.wire)) /\ Head(con.wire) \in El(con.wire)
  BY <1>1, ElTail
<1>3. El(Append(con.sock, r)) = El(con.sock) \cup {r}
  BY <1>1, ElAppend
<1>4. x.wire = Tail(con.wire) /\ x.obuf = con.obuf /\ x.reader = con.reader
  BY DEF Answers
<1>5. x.sock = IF con.up THEN Append(con.sock, r) ELSE con.sock
  BY DEF Answers
<1>6. El(x.sock) = El(con.sock) \cup (IF con.up THEN {r} ELSE {})
  BY <1>3, <1>5
<1>7. /\ El(Asked(con)) = El(con.wire) \cup El(con.obuf)
      /\ El(Asked(x)) = El(x.wire) \cup El(x.obuf)
      /\ El(Heard(con)) = El(con.reader) \cup El(con.sock)
      /\ El(Heard(x)) = El(x.reader) \cup El(x.sock)
  BY ElAsked
<1> QED
  BY <1>2, <1>4, <1>6, <1>7

LEMMA ServedShape ==
    ASSUME IInv, NEW c \in Clients, Exec(c)
    PROVE  \E m \in Commands, r \in Replies, x \in Conns :
              /\ m = Head(conn[c].wire) /\ Ran(c, m, conn[c], r, x) /\ Answers(conn[c], r, x)
              /\ conn' = [conn EXCEPT ![c] = x]
<1>1. PICK m \in Commands, base \in Conns, r \in Replies :
        /\ m = Head(conn[c].wire) /\ Base(base, conn[c]) /\ Ran(c, m, conn[c], r, base)
        /\ conn' = [conn EXCEPT ![c] = Turned(base, r)]
  BY ExecShape
<1>2. base.wire # <<>>
  BY <1>1, ExecShape DEF Base
<1>3. PICK x \in Conns : /\ x = Turned(base, r) /\ Answers(base, r, x)
                         /\ x.db = base.db /\ x.authed = base.authed
  BY <1>2, TurnedFields
<1>4. Answers(conn[c], r, x)
  BY <1>1, <1>3 DEF Answers, Base
<1>5. Ran(c, m, conn[c], r, x)
  BY <1>1, <1>3 DEF Ran, Admitted
<1> QED
  BY <1>1, <1>3, <1>4, <1>5

\* What was asked and heard stays what init meant by it.
LEMMA RanSelects ==
    ASSUME NEW c, NEW m \in Commands, NEW con \in Conns, NEW r \in Replies, NEW x \in Conns,
           NEW k, con.wire # <<>>, m = Head(con.wire), Ran(c, m, con, r, x), Answers(con, r, x),
           Selects(k, con, requires)
    PROVE  Selects(k, x, requires) /\ (AtHome(con) => AtHome(x))
<1>1. /\ m \in El(Asked(con)) /\ El(Asked(con)) = {m} \cup El(Asked(x))
      /\ El(Heard(x)) \subseteq El(Heard(con)) \cup {r}
  BY AnsweredLine
<1>2. x.want = con.want /\ x.password = con.password
  BY DEF Answers
<1>3. /\ r.op = m.op /\ (~r.bad => Admitted(x, requires))
      /\ Admitted(con, requires) => Admitted(x, requires)
      /\ x.db = IF m.op = "select" /\ ~r.bad THEN m.at[1] ELSE con.db
  BY DEF Ran
<1>4. /\ m.op = "select" => m.at[1] = con.want /\ ~con.password /\ Admitted(con, requires)
  BY <1>1 DEF Selects
<1>5. /\ \A e \in El(Asked(x)) \cup El(k.todo) :
            e.op = "select" => e.at[1] = x.want /\ ~x.password
      /\ \A e \in El(Asked(x)) : e.op = "select" => Admitted(x, requires)
  BY <1>1, <1>2, <1>3 DEF Selects
<1>6. ASSUME NEW e \in El(Heard(con))
      PROVE  /\ ~e.bad => Admitted(x, requires)
             /\ e.op = "select" /\ ~e.bad => x.db = x.want
  BY <1>2, <1>3, <1>4 DEF Selects
<1>7. r.op = "select" /\ ~r.bad => x.db = x.want
  BY <1>2, <1>3, <1>4
<1>8. Selects(k, x, requires)
  BY <1>1, <1>3, <1>5, <1>6, <1>7 DEF Selects
<1>9. AtHome(con) => AtHome(x)
  BY <1>2, <1>3, <1>4 DEF AtHome
<1> QED
  BY <1>8, <1>9

\* The DEL that runs is one of those the call waited for.
LEMMA RanSweeps ==
    ASSUME IInv, NEW c \in Clients, NEW m \in Commands, NEW r \in Replies, NEW x \in Conns,
           conn[c].wire # <<>>, m = Head(conn[c].wire), Ran(c, m, conn[c], r, x),
           Answers(conn[c], r, x), NEW names, Sweeps(call[c], conn[c], names),
           Settled(call[c], conn[c], requires), c \notin raised
    PROVE  Sweeps(call'[c], x, names)
<1>1. PICK con \in Conns : con = conn[c]
  BY DEF IInv, TypeOK
<1>2. PICK k \in Calls : k = call[c]
  BY DEF IInv, TypeOK
<1>3. InStep(k, con)
  BY <1>1, <1>2 DEF IInv
<1>4. Alike(call'[c], k)
  BY <1>2, RanAlike
<1>5. call'[c].op = k.op /\ call'[c].todo = k.todo
  BY <1>4 DEF Alike
<1>6. x.up = con.up /\ x.state = con.state
  BY <1>1 DEF Answers
<1>7. CASE con.state = "idle" /\ con.up
  BY <1>1, <1>3, <1>7 DEF InStep, Quiet
<1>8. CASE con.state = "busy" /\ con.up /\ k.op = "del"
  <2>1. /\ m \in El(Asked(con)) /\ El(Asked(con)) = {m} \cup El(Asked(x))
    BY <1>1, AnsweredLine
  <2>2. Over(k) \cup KeysIn(Ahead(k, con)) = names /\ \A e \in Ahead(k, con) : e.op = "del"
    BY <1>1, <1>2, <1>8 DEF Sweeps
  <2>3. Ahead(k, con) = {m} \cup Ahead(call'[c], x)
    BY <1>5, <2>1 DEF Ahead
  <2>4. m.op = "del"
    BY <2>2, <2>3
  <2>5. Admitted(con, requires)
    BY <1>1, <1>2, <1>8 DEF Settled
  <2>6. m.tag = k.tag
    <3>1. Own(con.wire, k.tag) /\ con.wire \in Seq(Commands) /\ con.wire # <<>>
      BY <1>1, <1>3, <1>8 DEF InStep, Belongs, Conns
    <3>2. 1 \in DOMAIN con.wire /\ m = con.wire[1]
      BY <1>1, <3>1
    <3> QED
      BY <3>1, <3>2 DEF Own
  <2>7. Over(call'[c]) = Over(k) \cup {m.at[1]}
    <3>1. m.tag = call[c].tag /\ Ran(c, m, con, r, x)
      BY <1>1, <1>2, <2>6
    <3>2. Counted(call'[c], call[c], m.at[1])
      BY <2>4, <2>5, <3>1, RanAlike
    <3> QED
      BY <1>2, <3>2 DEF Counted
  <2>8. KeysIn(Ahead(k, con)) = {m.at[1]} \cup KeysIn(Ahead(call'[c], x))
    BY <2>3 DEF KeysIn
  <2> QED
    BY <1>5, <1>6, <1>8, <2>2, <2>3, <2>7, <2>8 DEF Sweeps
<1> QED
  BY <1>5, <1>6, <1>7, <1>8 DEF Sweeps

LEMMA ExecOrderly == ASSUME IInv, Orderly, NEW c \in Clients, Exec(c) PROVE Orderly'
<1>1. /\ UNCHANGED <<bits, requires, raised>> /\ conn[c].wire # <<>>
      /\ faults' \in {faults, faults + 1}
  BY ExecShape
<1>2. faults \in Nat /\ faults' \in Nat /\ faults <= faults'
  BY <1>1, OrderlyObject
<1>3. PICK m \in Commands, r \in Replies, x \in Conns :
        /\ m = Head(conn[c].wire) /\ Ran(c, m, conn[c], r, x) /\ Answers(conn[c], r, x)
        /\ conn' = [conn EXCEPT ![c] = x]
  BY ServedShape
<1>4. PICK con \in Conns : con = conn[c]
  BY DEF IInv, TypeOK
<1>5. PICK k \in Calls : k = call[c]
  BY DEF IInv, TypeOK
<1>6. PICK y \in Calls : y = call'[c]
  <2>1. TypeOK'
    BY ExecInv DEF IInv
  <2> QED
    BY <2>1 DEF TypeOK
<1>7. /\ Selects(k, con, requires) /\ Greets(k, con, faults)
      /\ Settled(k, con, requires) /\ Explained(k, con, faults, bits)
      /\ c \notin raised => Sweeps(k, con, KeyNames)
      /\ Fresh(k, con) => c \notin raised
  BY <1>4, <1>5, OrderlyObject
<1>8. y.op = k.op /\ y.todo = k.todo
  BY <1>3, <1>5, <1>6, RanAlike DEF Alike
<1>9. /\ x.state = con.state /\ x.up = con.up /\ x.want = con.want /\ x.password = con.password
  BY <1>3, <1>4 DEF Answers
<1>10. Selects(k, x, requires) /\ (AtHome(con) => AtHome(x))
  BY <1>1, <1>3, <1>4, <1>7, RanSelects
<1>11. Selects(y, x, requires)
  BY <1>8, <1>10 DEF Selects
<1>12. Greets(y, x, faults')
  <2>1. /\ m \in El(Asked(con)) /\ El(Asked(con)) = {m} \cup El(Asked(x))
        /\ El(Heard(x)) = El(Heard(con)) \cup (IF con.up THEN {r} ELSE {})
    BY <1>1, <1>3, <1>4, AnsweredLine
  <2>2. r.op = m.op
    BY <1>3 DEF Ran
  <2>3. r.op = "select" /\ r.bad => con.want \notin Databases \/ faults' > 0
    <3>1. r.op = "select" => m.at[1] = con.want /\ Admitted(con, requires)
      BY <1>7, <2>1, <2>2 DEF Selects
    <3> QED
      BY <1>2, <1>3, <1>4, <2>2, <3>1 DEF Ran
  <2> QED
    BY <1>2, <1>7, <1>8, <1>9, <2>1, <2>2, <2>3 DEF Greets
<1>13. Settled(y, x, requires)
  BY <1>3, <1>4, <1>7, <1>8, <1>9, <1>10 DEF Settled, Ran
<1>14. Explained(y, x, faults', bits)
  BY <1>2, <1>7, <1>8, <1>9 DEF Explained
<1>15. c \notin raised => Sweeps(y, x, KeyNames)
  BY <1>1, <1>3, <1>4, <1>5, <1>6, <1>7, RanSweeps
<1>16. Fresh(y, x) => c \notin raised
  BY <1>7, <1>8, <1>9 DEF Fresh
<1>17. Polite(y, x, requires, faults', bits)
  BY <1>11, <1>12, <1>13, <1>14 DEF Polite
<1>18. ASSUME NEW e \in Clients \ {c}
       PROVE  /\ call'[e].op = call[e].op /\ call'[e].todo = call[e].todo
              /\ Over(call'[e]) = Over(call[e])
  <2>1. Alike(call'[e], call[e]) /\ Over(call'[e]) = Over(call[e])
    BY <1>3, RanAlike
  <2> QED
    BY <2>1 DEF Alike
<1> QED
  BY <1>1, <1>2, <1>3, <1>6, <1>15, <1>16, <1>17, <1>18, OneOrderly

-----------------------------------------------------------------------------
(* The theorems of the greeting and the deletion. *)

LEMMA InitOrderly == Init => Orderly
<1> SUFFICES ASSUME Init, NEW c \in Clients
             PROVE  /\ Polite(call[c], conn[c], requires, faults, bits)
                    /\ c \notin raised => Sweeps(call[c], conn[c], KeyNames)
                    /\ Fresh(call[c], conn[c]) => c \notin raised
  BY DEF Orderly
<1>1. /\ NoConn.state = "new" /\ NoConn.wire = <<>> /\ NoConn.obuf = <<>>
      /\ NoConn.reader = <<>> /\ NoConn.sock = <<>> /\ NoConn \in Conns
  BY Constants, Empty DEF NoConn, Conns
<1>2. PICK con \in Conns, k \in {call[c]} : con = conn[c] /\ con = NoConn /\ k = call[c]
                              /\ k = Start("none", 0, <<>>, 0, <<>>, {})
  BY <1>1 DEF Init
<1>3. k.op = "none" /\ k.todo = <<>>
  BY <1>2 DEF Start
<1>4. El(Asked(con)) = {} /\ El(Heard(con)) = {} /\ El(k.todo) = {}
  BY <1>1, <1>2, <1>3, ElAsked, ElNone
<1>5. Selects(k, con, requires)
  BY <1>4 DEF Selects
<1>6. Polite(k, con, requires, faults, bits) /\ Sweeps(k, con, KeyNames)
  BY <1>1, <1>2, <1>3, <1>5 DEF Polite, Greets, Settled, Explained, Sweeps
<1>7. c \notin raised
  BY DEF Init
<1> QED
  BY <1>2, <1>6, <1>7

LEMMA CallOrderly ==
    ASSUME IInv, Orderly, NEW c \in Clients, Put(c) \/ Add(c) \/ Extend(c) \/ Contains(c) \/ In(c)
    PROVE  Orderly'
  BY BatchOrderly, ListsAssumption DEF Put, Contains, Add, Extend, In

LEMMA NextOrderly == IInv /\ Orderly /\ [Next]_vars => Orderly'
<1> SUFFICES ASSUME IInv, Orderly, [Next]_vars PROVE Orderly'
  OBVIOUS
<1>1. ASSUME NEW c \in Clients,
             \/ Connect(c) \/ Dealloc(c)
             \/ Put(c) \/ Add(c) \/ Extend(c) \/ Contains(c) \/ In(c) \/ Delete(c)
             \/ Client(c) \/ Exec(c) \/ Break(c)
      PROVE  Orderly'
  <2>1. Connect(c) => Orderly'
    BY ConnectOrderly
  <2>2. Dealloc(c) => Orderly'
    BY DeallocOrderly
  <2>3. Put(c) \/ Add(c) \/ Extend(c) \/ Contains(c) \/ In(c) => Orderly'
    BY CallOrderly
  <2>4. Delete(c) => Orderly'
    BY DeleteOrderly
  <2>5. Client(c) => Orderly'
    BY FlushOrderly, TakeOrderly, FailOrderly DEF Client
  <2>6. Exec(c) => Orderly'
    BY ExecOrderly
  <2>7. Break(c) => Orderly'
    BY BreakOrderly
  <2> QED
    BY <1>1, <2>1, <2>2, <2>3, <2>4, <2>5, <2>6, <2>7
<1>2. ASSUME UNCHANGED vars PROVE Orderly'
  <2>1. KeyNames' = KeyNames
    BY <1>2 DEF vars, KeyNames, NumKeys
  <2>2. \A c \in Clients : /\ Polite(call'[c], conn'[c], requires', faults', bits')
                           /\ c \notin raised' => Sweeps(call'[c], conn'[c], KeyNames')
                           /\ Fresh(call'[c], conn'[c]) => c \notin raised'
    BY <1>2, <2>1 DEF Orderly, vars
  <2> QED
    BY <2>2 DEF Orderly
<1> QED
  BY <1>1, <1>2 DEF Next

(* An object that was constructed without a password works on the database *)
(* it asked for: init_pyrebloom of bloom.c reads the answer to its SELECT  *)
(* before it returns, and gives the object up when the server refuses it.  *)
THEOREM HomeDatabase == Spec => []Isolated
<1>1. Orderly => Isolated
  BY DEF Orderly, Polite, Settled, AtHome, Isolated
<1> QED
  BY <1>1, InitInv, NextInv, InitOrderly, NextOrderly, PTL DEF Spec

(* The process of an object dies only when the server refused its SELECT   *)
(* and the error text is read from freed memory, when the connection broke *)
(* under the constructor, which reads a reply that is not there, or when   *)
(* the floats of bloom.c (52, 220) leave out the key of a bit: bits is     *)
(* rounded down, or max_bits_per_key up and the quotient with it.          *)
THEOREM DeathsExplained == Spec => []FaultsExplained
<1>1. Orderly => FaultsExplained
  BY DEF Orderly, Polite, Explained, FaultsExplained
<1> QED
  BY <1>1, InitInv, NextInv, InitOrderly, NextOrderly, PTL DEF Spec

(* A delete that returned on a connection that is up, of an object that    *)
(* never raised, has had every key deleted that the object names, but for  *)
(* those whose DEL the server refused: delete of bloom.c frees each reply  *)
(* without a look at it. No bit of a value is under any other key.         *)
THEOREM AllDeleted == Spec => []Deleted
<1>1. ASSUME IInv, Orderly PROVE Deleted
  <2> SUFFICES ASSUME NEW c \in Clients, conn[c].state = "idle", call[c].op = "del",
                      c \notin raised, conn[c].up
               PROVE  /\ Over(call[c]) = KeyNames
                      /\ ~\E i \in Items, j \in 1..Hashes :
                            Place(i, j)[1] \notin Over(call[c]) /\ Named(<<i>>)
    BY DEF Deleted, Over
  <2>1. Over(call[c]) = KeyNames
    BY <1>1 DEF Orderly, Sweeps
  <2>2. ASSUME NEW i \in Items, NEW j \in 1..Hashes, Named(<<i>>)
        PROVE  Place(i, j)[1] \in KeyNames
    <3>1. 1 \in DOMAIN <<i>> /\ <<i>>[1] = i
      OBVIOUS
    <3> QED
      BY <2>2, <3>1 DEF Named
  <2> QED
    BY <2>1, <2>2
<1>2. IInv /\ Orderly => Deleted
  BY <1>1
<1> QED
  BY <1>2, InitInv, NextInv, InitOrderly, NextOrderly, PTL DEF Spec
-----------------------------------------------------------------------------
(* The answers: what put and contains may conclude from their replies.     *)
(*                                                                         *)
(* pl is the layout of the filter, the place of each bit of each value;    *)
(* st is the set of bits of the database the object works on.              *)

Layout == [i \in Items |-> [j \in 1..Hashes |-> Place(i, j)]]

\* The value the p-th command of the call is for, and the bit.
Item(k, p) == k.items[((p - 1) \div Hashes) + 1]
At(k, p, pl) == pl[Item(k, p)][((p - 1) % Hashes) + 1]

\* The replies read so far.
Read(k) == (Hashes * Len(k.items)) - k.left

Stays(i, pl, st) == \A j \in 1..Hashes : pl[i][j] \in st

\* What the reply r to the p-th command says, unless it is an error.
Tells(k, p, r, pl, st) == ~r.bad =>
    /\ Item(k, p) \in k.must => r.val = 1
    /\ k.op = "set" /\ ~k.swept => At(k, p, pl) \in st

\* When n replies have been read, the replies and then the commands on the
\* line are those of the next positions of the call, in their order.
InLine(k, con, n, pl, st) ==
    /\ k.left <= Hashes * Len(k.items)
    /\ \A i \in k.must : Stays(i, pl, st)
    /\ \A i \in DOMAIN Heard(con) : Tells(k, n + i, Heard(con)[i], pl, st)
    /\ con.up => \A i \in DOMAIN Asked(con) :
          Asked(con)[i].op = k.op /\ Asked(con)[i].at = At(k, n + Len(Heard(con)) + i, pl)

\* Of the first n values, those that put may count as new.
News(k, n) == {i \in 1..n : k.items[i] \notin k.must}

\* What the call has made of the replies it has read.
Counts(k, con, pl, st) ==
    /\ Item(k, Read(k) + 1) \in k.must => k.ones \/ con.err
    /\ k.op = "set" /\ ~con.err =>
          /\ k.new <= Cardinality(News(k, Read(k) \div Hashes))
          /\ ~k.swept => \A p \in 1..Read(k) : At(k, p, pl) \in st
    /\ k.op = "get" =>
          /\ Len(k.answers) = Read(k) \div Hashes
          /\ \A i \in DOMAIN k.answers : k.items[i] \in k.must => k.answers[i] = 1

\* The result of a call that returned.
Result(k) ==
    /\ k.op = "get" => /\ Len(k.answers) = Len(k.items)
                       /\ \A n \in DOMAIN k.items : k.items[n] \in k.must => k.answers[n] = 1
    /\ k.op = "set" => k.new <= Cardinality(News(k, Len(k.items)))

Knows(k, con, pl, st) ==
    /\ con.state = "busy" /\ k.op \in {"set", "get"} /\ ~Doomed(k) =>
          InLine(k, con, Read(k), pl, st) /\ Counts(k, con, pl, st)
    /\ con.state = "idle" => Result(k)

Kept(kept, pl, bitsOf) == \A d \in Databases : \A i \in kept[d] : Stays(i, pl, bitsOf[d])

Truthful ==
    /\ Kept(stored, Layout, store)
    /\ \A c \in Clients : c \notin raised =>
          Knows(call[c], conn[c], Layout, store[conn[c].db])

-----------------------------------------------------------------------------
(* Positions. *)

LEMMA DivUnique ==
    ASSUME NEW q \in Nat, NEW b \in Nat \ {0}, NEW s \in 0..(b - 1), NEW a, a = (b * q) + s
    PROVE  a \div b = q /\ a % b = s
<1>1. a \in Nat
  OBVIOUS
<1>2. PICK x \in Nat, t \in Nat :
        x = a \div b /\ t = a % b /\ t < b /\ a = (x * b) + t
  BY <1>1, DivType, DivWhole
<1>3. x = q
  <2>1. CASE x > q
    <3>1. x * b >= (q + 1) * b
      BY <2>1
    <3>2. (q + 1) * b = (b * q) + b
      OBVIOUS
    <3> QED
      BY <1>2, <3>1, <3>2
  <2>2. CASE x < q
    <3>1. q * b >= (x + 1) * b
      BY <2>2
    <3>2. (x + 1) * b = (x * b) + b /\ q * b = b * q
      OBVIOUS
    <3> QED
      BY <1>2, <3>1, <3>2
  <2> QED
    BY <2>1, <2>2
<1>4. x * b = b * q
  BY <1>3
<1> QED
  BY <1>2, <1>3, <1>4

LEMMA PositionType ==
    ASSUME NEW p \in Nat \ {0}
    PROVE  (p - 1) \div Hashes \in Nat /\ ((p - 1) % Hashes) + 1 \in 1..Hashes
<1>1. p - 1 \in Nat /\ Hashes \in Nat \ {0}
  BY Constants
<1>2. /\ (p - 1) \div Hashes \in Nat /\ (p - 1) % Hashes \in Nat
      /\ (p - 1) % Hashes < Hashes
  BY <1>1, DivType
<1> QED
  BY <1>1, <1>2

\* A bit of a value that stays is there.
LEMMA StaysAt ==
    ASSUME NEW k, NEW p \in Nat \ {0}, NEW pl, NEW st, Stays(Item(k, p), pl, st)
    PROVE  At(k, p, pl) \in st
  BY PositionType DEF Stays, At

LEMMA PositionOf ==
    ASSUME NEW b \in Nat \ {0}, NEW w \in Nat, NEW q \in Nat, q < w, NEW j \in 1..b
    PROVE  \E p \in 1..(b * w) : (p - 1) \div b = q /\ ((p - 1) % b) + 1 = j
<1>1. PICK v \in Nat : v = w - (q + 1)
  OBVIOUS
<1>2. PICK x \in Nat, y \in Nat : x = b * q /\ y = b * v
  OBVIOUS
<1>3. b * w = (x + b) + y
  <2>1. w = (q + 1) + v
    BY <1>1
  <2>2. b * ((q + 1) + v) = ((b * q) + b) + (b * v)
    OBVIOUS
  <2> QED
    BY <1>2, <2>1, <2>2
<1>4. PICK t \in 0..(b - 1) : t = j - 1
  OBVIOUS
<1>5. PICK a \in Nat : a = x + t
  <2>1. t \in Nat
    OBVIOUS
  <2> QED
    BY <1>2, <2>1
<1>6. a \div b = q /\ a % b = t
  <2>1. a = (b * q) + t
    BY <1>2, <1>5
  <2> QED
    BY <2>1, DivUnique
<1>7. a + 1 \in 1..(b * w) /\ (a + 1) - 1 = a
  BY <1>2, <1>3, <1>4, <1>5
<1>8. (a % b) + 1 = j
  BY <1>4, <1>6
<1> QED
  BY <1>6, <1>7, <1>8

\* The commands of all positions are those of all bits of all values.
LEMMA AllPositions ==
    ASSUME NEW k \in Calls, NEW pl, NEW st,
           \A p \in 1..(Hashes * Len(k.items)) : At(k, p, pl) \in st
    PROVE  \A n \in DOMAIN k.items : Stays(k.items[n], pl, st)
<1> SUFFICES ASSUME NEW n \in DOMAIN k.items, NEW j \in 1..Hashes
             PROVE  pl[k.items[n]][j] \in st
  BY DEF Stays
<1>1. PICK w \in Nat, q \in Nat : w = Len(k.items) /\ q = n - 1 /\ q < w /\ q + 1 = n
  BY DEF Calls
<1>2. PICK p \in 1..(Hashes * w) : (p - 1) \div Hashes = q /\ ((p - 1) % Hashes) + 1 = j
  <2>1. PICK b \in Nat \ {0} : b = Hashes
    BY Constants
  <2>2. j \in 1..b
    BY <2>1
  <2>3. \E p \in 1..(b * w) : (p - 1) \div b = q /\ ((p - 1) % b) + 1 = j
    BY ONLY <1>1, <2>2, PositionOf
  <2> QED
    BY <2>1, <2>3
<1>3. At(k, p, pl) = pl[k.items[n]][j]
  BY <1>1, <1>2 DEF Item, At
<1> QED
  BY <1>1, <1>2, <1>3

-----------------------------------------------------------------------------
(* The values that count as new. *)

LEMMA NewsType ==
    ASSUME NEW k, NEW n \in Nat
    PROVE  IsFiniteSet(News(k, n)) /\ Cardinality(News(k, n)) \in Nat
<1>1. IsFiniteSet(1..n)
  BY FS_Interval
<1>2. News(k, n) \in SUBSET (1..n)
  BY DEF News
<1>3. IsFiniteSet(News(k, n))
  BY <1>1, <1>2, FS_Subset
<1> QED
  BY <1>3, FS_CardinalityType

LEMMA NewsNext ==
    ASSUME NEW k, NEW n \in Nat
    PROVE  Cardinality(News(k, n + 1)) = Cardinality(News(k, n))
                + (IF k.items[n + 1] \in k.must THEN 0 ELSE 1)
<1>1. CASE k.items[n + 1] \in k.must
  <2>1. News(k, n + 1) = News(k, n)
    BY <1>1 DEF News
  <2> QED
    BY <1>1, <2>1, NewsType
<1>2. CASE k.items[n + 1] \notin k.must
  <2>1. News(k, n + 1) = News(k, n) \cup {n + 1} /\ n + 1 \notin News(k, n)
    BY <1>2 DEF News
  <2>2. IsFiniteSet(News(k, n))
    BY NewsType
  <2>3. Cardinality(News(k, n) \cup {n + 1}) = Cardinality(News(k, n)) + 1
    BY <2>1, <2>2, FS_AddElement
  <2> QED
    BY <1>2, <2>1, <2>3
<1> QED
  BY <1>1, <1>2

LEMMA NewsMore ==
    ASSUME NEW k, NEW y, y.items = k.items, y.must \subseteq k.must, NEW n \in Nat
    PROVE  Cardinality(News(k, n)) <= Cardinality(News(y, n))
<1>1. News(k, n) \in SUBSET News(y, n)
  BY DEF News
<1>2. IsFiniteSet(News(y, n))
  BY NewsType
<1> QED
  BY <1>1, <1>2, FS_Subset

\* The number of values read so far.
LEMMA ReadType ==
    ASSUME NEW k \in Calls, k.left <= Hashes * Len(k.items)
    PROVE  /\ Read(k) \in Nat /\ Read(k) \div Hashes \in Nat
           /\ k.left = 0 => Read(k) \div Hashes = Len(k.items)
<1>1. PICK h \in Nat \ {0}, w \in Nat, m \in Nat : h = Hashes /\ w = Len(k.items) /\ m = k.left
  <2>1. Len(k.items) \in Nat /\ k.left \in Nat
    BY DEF Calls
  <2>2. Hashes \in Nat \ {0}
    BY Constants
  <2> QED
    BY ONLY <2>1, <2>2
<1>2. PICK p \in Nat : p = h * w /\ m <= p
  BY <1>1
<1>3. PICK n \in Nat : n = p - m
  BY <1>2
<1>4. Read(k) = n
  BY <1>1, <1>2, <1>3 DEF Read
<1>5. n \div h \in Nat
  BY <1>1, DivType
<1>6. m = 0 => n \div h = w
  <2>1. ASSUME m = 0 PROVE n \div h = w
    <3>1. n = (h * w) + 0 /\ 0 \in 0..(h - 1)
      BY <1>2, <1>3, <2>1
    <3> QED
      BY ONLY h \in Nat \ {0}, w \in Nat, <3>1, DivUnique
  <2> QED
    BY <2>1
<1> QED
  BY <1>1, <1>4, <1>5, <1>6

-----------------------------------------------------------------------------
(* What a call knows, when others change the database. *)

LEMMA AlikeFields ==
    ASSUME NEW y, NEW k, Alike(y, k)
    PROVE  /\ Read(y) = Read(k) /\ (Doomed(y) <=> Doomed(k))
           /\ \A p : Item(y, p) = Item(k, p)
           /\ \A p, pl : At(y, p, pl) = At(k, p, pl)
  BY DEF Alike, Read, Doomed, Item, At

LEMMA ResultKept ==
    ASSUME NEW y \in Calls, NEW k \in Calls, Alike(y, k), y.must \subseteq k.must, Result(k)
    PROVE  Result(y)
<1>1. /\ y.op = k.op /\ y.items = k.items /\ y.answers = k.answers /\ y.new = k.new
  BY DEF Alike
<1>2. Len(k.items) \in Nat /\ y.new \in Nat
  BY DEF Calls
<1>3. Cardinality(News(k, Len(k.items))) <= Cardinality(News(y, Len(k.items)))
  BY <1>1, <1>2, NewsMore
<1>4. /\ Cardinality(News(k, Len(k.items))) \in Nat /\ Cardinality(News(y, Len(k.items))) \in Nat
  BY <1>2, NewsType
<1> QED
  BY <1>1, <1>2, <1>3, <1>4 DEF Result

\* st2: the bits of the database have become more, or else the call has been
\* told that nothing is certain any more.
LEMMA StillKnows ==
    ASSUME NEW y \in Calls, NEW k \in Calls, NEW con \in Conns, NEW pl, NEW st, NEW st2,
           Alike(y, k), Knows(k, con, pl, st),
           \/ st \subseteq st2 /\ y.must = k.must /\ y.swept = k.swept
           \/ y.must = {} /\ y.swept = (k.op = "set")
           \/ con.state # "busy" /\ y.must = k.must
    PROVE  Knows(y, con, pl, st2)
<1>1. /\ y.op = k.op /\ y.items = k.items /\ y.answers = k.answers /\ y.new = k.new
      /\ y.left = k.left /\ y.ones = k.ones
  BY DEF Alike
<1>2. y.must \subseteq k.must
  OBVIOUS
<1>3. con.state = "idle" => Result(y)
  BY <1>2, ResultKept DEF Knows
<1>4. ASSUME con.state = "busy", k.op \in {"set", "get"}, ~Doomed(y)
      PROVE  InLine(y, con, Read(y), pl, st2) /\ Counts(y, con, pl, st2)
  <2>1. InLine(k, con, Read(k), pl, st) /\ Counts(k, con, pl, st)
    BY <1>4, AlikeFields DEF Knows
  <2>2. /\ Read(y) = Read(k) /\ \A p : Item(y, p) = Item(k, p) /\ At(y, p, pl) = At(k, p, pl)
    BY AlikeFields
  <2>3. \/ st \subseteq st2 /\ y.must = k.must /\ y.swept = k.swept
        \/ y.must = {} /\ (k.op = "set" => y.swept)
    BY <1>4
  <2>4. \A i \in y.must : Stays(i, pl, st2)
    BY <2>1, <2>3 DEF InLine, Stays
  <2>5. \A p, r : Tells(k, p, r, pl, st) => Tells(y, p, r, pl, st2)
    BY <1>1, <2>2, <2>3 DEF Tells
  <2>6. InLine(y, con, Read(y), pl, st2)
    BY <1>1, <2>1, <2>2, <2>4, <2>5 DEF InLine
  <2>7. PICK n \in Nat : n = Read(k) \div Hashes
    BY <2>1, ReadType DEF InLine
  <2>8. /\ Cardinality(News(k, n)) <= Cardinality(News(y, n))
        /\ Cardinality(News(k, n)) \in Nat /\ Cardinality(News(y, n)) \in Nat /\ k.new \in Nat
    BY <1>1, <1>2, NewsMore, NewsType DEF Calls
  <2>9. Item(y, Read(y) + 1) \in y.must => y.ones \/ con.err
    BY <1>1, <1>2, <2>1, <2>2 DEF Counts
  <2>10. k.op = "set" /\ ~con.err =>
          /\ y.new <= Cardinality(News(y, n))
          /\ ~y.swept => \A p \in 1..Read(y) : At(y, p, pl) \in st2
    BY <1>1, <2>1, <2>2, <2>3, <2>7, <2>8 DEF Counts
  <2>11. k.op = "get" =>
          /\ Len(y.answers) = Read(y) \div Hashes
          /\ \A i \in DOMAIN y.answers : y.items[i] \in y.must => y.answers[i] = 1
    BY <1>1, <1>2, <2>1, <2>2 DEF Counts
  <2>12. Counts(y, con, pl, st2)
    BY <1>1, <2>2, <2>7, <2>9, <2>10, <2>11 DEF Counts
  <2> QED
    BY <2>6, <2>12
<1> QED
  BY <1>1, <1>3, <1>4 DEF Knows

-----------------------------------------------------------------------------
(* A step of one object, once more. *)

LEMMA SameLayout == bits' = bits => Layout' = Layout
  BY DEF Layout, Place

LEMMA OneTruthful ==
    ASSUME IInv, Truthful, NEW c \in Clients, NEW x \in Conns,
           conn' = [conn EXCEPT ![c] = x], bits' = bits, raised \subseteq raised',
           raised' \subseteq raised \cup {c},
           Kept(stored', Layout, store'),
           \A e \in Clients \ {c} : e \notin raised =>
                Knows(call'[e], conn[e], Layout, store'[conn[e].db]),
           c \notin raised' => Knows(call'[c], x, Layout, store'[x.db])
    PROVE  Truthful'
<1>1. conn \in [Clients -> Conns]
  BY DEF IInv, TypeOK
<1>2. conn'[c] = x /\ \A e \in Clients \ {c} : conn'[e] = conn[e]
  BY <1>1
<1>3. Layout' = Layout
  BY SameLayout
<1>4. ASSUME NEW e \in Clients, e \notin raised'
      PROVE  Knows(call'[e], conn'[e], Layout, store'[conn'[e].db])
  <2>1. CASE e = c
    BY <1>2, <1>4, <2>1
  <2>2. CASE e # c
    <3>1. conn'[e] = conn[e] /\ e \in Clients \ {c} /\ e \notin raised
      BY <1>2, <1>4, <2>2
    <3> QED
      BY <3>1
  <2> QED
    BY <2>1, <2>2
<1> QED
  BY <1>3, <1>4 DEF Truthful

\* The server has nothing to do with the step.
LEMMA OneCallTruthful ==
    ASSUME IInv, Truthful, NEW c \in Clients, NEW x \in Conns, NEW y \in Calls,
           conn' = [conn EXCEPT ![c] = x], call' = [call EXCEPT ![c] = y],
           UNCHANGED <<bits, store>>, raised \subseteq raised', raised' \subseteq raised \cup {c},
           Kept(stored', Layout, store),
           c \notin raised' => Knows(y, x, Layout, store[x.db])
    PROVE  Truthful'
<1>1. call \in [Clients -> Calls]
  BY DEF IInv, TypeOK
<1>2. call'[c] = y /\ \A e \in Clients \ {c} : call'[e] = call[e]
  BY <1>1
<1>3. \A e \in Clients \ {c} : e \notin raised =>
          Knows(call[e], conn[e], Layout, store[conn[e].db])
  BY DEF Truthful
<1>4. store' = store /\ bits' = bits
  OBVIOUS
<1>5. \A e \in Clients \ {c} : e \notin raised =>
          Knows(call'[e], conn[e], Layout, store'[conn[e].db])
  BY <1>2, <1>3, <1>4
<1> QED
  BY <1>2, <1>4, <1>5, OneTruthful

LEMMA GoOnTruthful ==
    ASSUME IInv, Truthful, NEW c \in Clients, NEW k \in Calls, NEW con \in Conns,
           GoOn(c, k, con), UNCHANGED <<bits, store>>,
           c \notin raised => Knows(k, con, Layout, store[con.db])
    PROVE  Truthful'
<1>1. /\ conn' = [conn EXCEPT ![c] = con] /\ call' = [call EXCEPT ![c] = k]
      /\ raised' = raised /\ stored' = stored
  BY DEF GoOn
<1>2. Kept(stored', Layout, store)
  BY <1>1 DEF Truthful
<1> QED
  BY <1>1, <1>2, OneCallTruthful

LEMMA RaiseTruthful ==
    ASSUME IInv, Truthful, NEW c \in Clients, NEW k \in Calls, NEW con \in Conns,
           Raise(c, k, con), UNCHANGED <<bits, store>>
    PROVE  Truthful'
<1>1. PICK x \in Conns : x = [con EXCEPT !.state = "idle"]
  BY DEF Conns
<1>2. PICK y \in Calls : y = Aborted(k.tag, k.foreign)
  BY AbortedType DEF Calls
<1>3. /\ conn' = [conn EXCEPT ![c] = x] /\ call' = [call EXCEPT ![c] = y]
      /\ raised' = raised \cup {c} /\ stored' = stored
  BY <1>1, <1>2 DEF Raise
<1>4. Kept(stored', Layout, store)
  BY <1>3 DEF Truthful
<1>5. raised \subseteq raised' /\ raised' \subseteq raised \cup {c} /\ c \in raised'
  BY <1>3
<1> QED
  BY <1>3, <1>4, <1>5, OneCallTruthful

\* A call that returns: what put stored is kept from now on.
LEMMA ReturnTruthful ==
    ASSUME IInv, Truthful, NEW c \in Clients, NEW k \in Calls, NEW con \in Conns,
           Return(c, k, con), UNCHANGED <<bits, store>>,
           c \notin raised => Result(k),
           c \notin raised /\ k.op = "set" /\ ~k.swept =>
                \A n \in DOMAIN k.items : Stays(k.items[n], Layout, store[con.db])
    PROVE  Truthful'
<1>1. raised' = raised
  BY ReturnShape
<1>2. PICK x \in Conns, y \in Calls :
        /\ conn' = [conn EXCEPT ![c] = x] /\ call' = [call EXCEPT ![c] = y]
        /\ x.state = "idle" /\ y = [k EXCEPT !.swept = FALSE]
  BY ReturnShape
<1>3. y.op = k.op /\ y.items = k.items /\ y.answers = k.answers /\ y.new = k.new /\ y.must = k.must
  BY <1>2 DEF Calls
<1>4. Result(k) => Result(y)
  BY <1>3 DEF Result, News
<1>5. c \notin raised => Knows(y, x, Layout, store[x.db])
  BY <1>2, <1>4 DEF Knows
<1>6. Kept(stored', Layout, store)
  <2>1. Kept(stored, Layout, store) /\ stored \in [Databases -> SUBSET Items]
    BY DEF Truthful, IInv, TypeOK
  <2>2. CASE k.op = "set" /\ c \notin raised /\ ~k.swept
    <3>1. stored' = [stored EXCEPT ![con.db] = @ \cup {k.items[n] : n \in DOMAIN k.items}]
      BY <2>2 DEF Return
    <3>2. \A n \in DOMAIN k.items : Stays(k.items[n], Layout, store[con.db])
      BY <2>2
    <3>3. ASSUME NEW d \in Databases, NEW i \in stored'[d] PROVE Stays(i, Layout, store[d])
      <4>1. i \in stored[d] \/ (d = con.db /\ \E n \in DOMAIN k.items : i = k.items[n])
        BY <2>1, <3>1, <3>3
      <4> QED
        BY <2>1, <3>2, <4>1 DEF Kept
    <3> QED
      BY <3>3 DEF Kept
  <2>3. CASE ~(k.op = "set" /\ c \notin raised /\ ~k.swept)
    <3>1. stored' = stored
      BY <2>3 DEF Return
    <3> QED
      BY <2>1, <3>1
  <2> QED
    BY <2>2, <2>3
<1> QED
  BY <1>1, <1>2, <1>5, <1>6, OneCallTruthful

LEMMA InitTruthful == Init => Truthful
<1> SUFFICES ASSUME Init PROVE Truthful
  OBVIOUS
<1>1. Kept(stored, Layout, store)
  BY DEF Init, Kept
<1>2. \A c \in Clients : conn[c].state = "new"
  BY DEF Init, NoConn
<1>3. \A c \in Clients : Knows(call[c], conn[c], Layout, store[conn[c].db])
  BY <1>2 DEF Knows
<1> QED
  BY <1>1, <1>3 DEF Truthful

\* A connection that is closed, broken or flushed: what has been received of
\* the replies stays, and while it is up all that is on the line.
LEMMA LineTruthful ==
    ASSUME IInv, Truthful, NEW c \in Clients, NEW x \in Conns,
           conn' = [conn EXCEPT ![c] = x], UNCHANGED <<bits, store, call, stored, raised>>,
           x.db = conn[c].db, x.err = conn[c].err, x.state \in {conn[c].state, "closed"},
           x.state # "closed" =>
              \A i \in DOMAIN Heard(x) : i \in DOMAIN Heard(conn[c]) /\ Heard(x)[i] = Heard(conn[c])[i],
           x.up => conn[c].up /\ Asked(x) = Asked(conn[c]) /\ Heard(x) = Heard(conn[c])
    PROVE  Truthful'
<1>1. PICK k \in Calls : k = call[c] /\ call' = [call EXCEPT ![c] = k]
  BY DEF IInv, TypeOK
<1>2. PICK con \in Conns : con = conn[c]
  BY DEF IInv, TypeOK
<1>3. PICK pl, st : pl = Layout /\ st = store[con.db]
  OBVIOUS
<1>4. ASSUME c \notin raised PROVE Knows(k, x, pl, st)
  <2>1. Knows(k, con, pl, st)
    BY <1>1, <1>2, <1>3, <1>4 DEF Truthful
  <2>2. ASSUME x.state = "busy", InLine(k, con, Read(k), pl, st) PROVE InLine(k, x, Read(k), pl, st)
    <3>1. \A i \in DOMAIN Heard(x) : i \in DOMAIN Heard(con) /\ Heard(x)[i] = Heard(con)[i]
      BY <1>2, <2>2
    <3>2. x.up => con.up /\ Asked(x) = Asked(con) /\ Heard(x) = Heard(con)
      BY <1>2
    <3> QED
      BY ONLY <2>2, <3>1, <3>2 DEF InLine
  <2>3. Counts(k, con, pl, st) => Counts(k, x, pl, st)
    BY <1>2 DEF Counts
  <2>4. x.state \in {con.state, "closed"}
    BY <1>2
  <2> QED
    BY ONLY <2>1, <2>2, <2>3, <2>4 DEF Knows
<1>5. Kept(stored', Layout, store) /\ store[x.db] = st
  BY <1>2, <1>3 DEF Truthful
<1>6. c \notin raised' => Knows(k, x, Layout, store[x.db])
  BY ONLY <1>3, <1>4, <1>5, raised' = raised
<1> QED
  BY <1>1, <1>5, <1>6, OneCallTruthful

LEMMA DeallocTruthful == ASSUME IInv, Truthful, NEW c \in Clients, Dealloc(c) PROVE Truthful'
<1>1. conn[c] \in Conns /\ UNCHANGED <<bits, store, call, stored, raised>>
  BY DEF IInv, TypeOK, Dealloc
<1>2. PICK n \in 0..Len(conn[c].wire) :
        conn' = [conn EXCEPT ![c].state = "closed", ![c].up = FALSE,
                             ![c].wire = SubSeq(@, 1, n), ![c].sock = <<>>, ![c].reader = <<>>]
  BY DEF Dealloc
<1>3. PICK wire \in Seq(Commands) : wire = SubSeq(conn[c].wire, 1, n)
  BY <1>1, ElSub DEF Conns
<1> DEFINE x == [conn[c] EXCEPT !.state = "closed", !.up = FALSE,
                                !.wire = wire, !.sock = <<>>, !.reader = <<>>]
<1>4. /\ x.state = "closed" /\ ~x.up /\ x.db = conn[c].db /\ x.err = conn[c].err
  BY <1>1 DEF Conns
<1>5. x \in Conns
  BY <1>1, Empty DEF Conns
<1>6. conn' = [conn EXCEPT ![c] = x]
  BY <1>2, <1>3 DEF IInv, TypeOK
<1> HIDE DEF x
<1> QED
  BY <1>1, <1>4, <1>5, <1>6, LineTruthful

LEMMA BreakTruthful == ASSUME IInv, Truthful, NEW c \in Clients, Break(c) PROVE Truthful'
<1>1. conn[c] \in Conns /\ UNCHANGED <<bits, store, call, stored, raised>>
  BY DEF IInv, TypeOK, Break
<1>2. PICK n \in 0..Len(conn[c].wire) :
        conn' = [conn EXCEPT ![c].up = FALSE, ![c].wire = SubSeq(@, 1, n), ![c].sock = <<>>]
  BY DEF Break
<1>3. PICK wire \in Seq(Commands) : wire = SubSeq(conn[c].wire, 1, n)
  BY <1>1, ElSub DEF Conns
<1> DEFINE x == [conn[c] EXCEPT !.up = FALSE, !.wire = wire, !.sock = <<>>]
<1>4. /\ x \in Conns /\ x.state = conn[c].state /\ ~x.up /\ x.db = conn[c].db
      /\ x.err = conn[c].err /\ x.reader = conn[c].reader /\ x.sock = <<>>
  BY <1>1, Empty DEF Conns
<1>5. conn' = [conn EXCEPT ![c] = x]
  BY <1>2, <1>3 DEF IInv, TypeOK
<1> HIDE DEF x
<1>6. \A i \in DOMAIN Heard(x) : i \in DOMAIN Heard(conn[c]) /\ Heard(x)[i] = Heard(conn[c])[i]
  <2>1. ASSUME NEW p \in Seq(Replies), NEW q \in Seq(Replies), NEW i \in DOMAIN (p \o <<>>)
        PROVE  i \in DOMAIN (p \o q) /\ (p \o <<>>)[i] = (p \o q)[i]
    <3>1. p \o <<>> = p
      OBVIOUS
    <3>2. i \in 1..Len(p)
      BY <3>1
    <3> QED
      BY <3>1, <3>2
  <2>2. conn[c].reader \in Seq(Replies) /\ conn[c].sock \in Seq(Replies)
    BY <1>1 DEF Conns
  <2>3. Heard(x) = conn[c].reader \o <<>> /\ Heard(conn[c]) = conn[c].reader \o conn[c].sock
    BY <1>4 DEF Heard
  <2>4. PICK p \in Seq(Replies), q \in Seq(Replies) : p = conn[c].reader /\ q = conn[c].sock
    BY ONLY <2>2
  <2>5. Heard(x) = p \o <<>> /\ Heard(conn[c]) = p \o q
    BY ONLY <2>3, <2>4
  <2> QED
    BY ONLY <2>1, <2>5, Zenon
<1> QED
  BY <1>1, <1>4, <1>5, <1>6, LineTruthful

LEMMA FlushTruthful == ASSUME IInv, Truthful, NEW c \in Clients, Flush(c) PROVE Truthful'
<1>1. conn[c] \in Conns /\ UNCHANGED <<bits, store, call, stored, raised>> /\ conn[c].up
  BY DEF IInv, TypeOK, Flush
<1>2. conn[c].wire \in Seq(Commands) /\ conn[c].obuf \in Seq(Commands)
  BY <1>1 DEF Conns
<1>3. PICK wire \in Seq(Commands) :
        wire = conn[c].wire \o conn[c].obuf /\ wire \o <<>> = conn[c].wire \o conn[c].obuf
  <2>1. \A p, q \in Seq(Commands) : p \o q \in Seq(Commands) /\ (p \o q) \o <<>> = p \o q
    OBVIOUS
  <2> QED
    BY <1>2, <2>1
<1> DEFINE x == [conn[c] EXCEPT !.wire = wire, !.obuf = <<>>]
<1>4. /\ x \in Conns /\ x.state = conn[c].state /\ x.wire = wire /\ x.obuf = <<>>
      /\ x.db = conn[c].db /\ x.err = conn[c].err /\ Heard(x) = Heard(conn[c])
  BY <1>1, Empty DEF Conns, Heard
<1>5. conn' = [conn EXCEPT ![c] = x]
  BY <1>3 DEF Flush, IInv, TypeOK
<1> HIDE DEF x
<1>6. Asked(x) = Asked(conn[c])
  BY <1>3, <1>4 DEF Asked
<1> QED
  BY <1>1, <1>4, <1>5, <1>6, LineTruthful

LEMMA ConnectTruthful == ASSUME IInv, Truthful, NEW c \in Clients, Connect(c) PROVE Truthful'
<1>1. /\ conn \in [Clients -> Conns] /\ call \in [Clients -> Calls]
      /\ UNCHANGED <<bits, store, stored, raised>>
  BY DEF IInv, TypeOK, Connect
<1>2. Kept(stored', Layout, store) /\ raised \subseteq raised' /\ raised' \subseteq raised \cup {c}
  BY <1>1 DEF Truthful
<1>3. PICK x \in Conns : x = conn'[c] /\ conn' = [conn EXCEPT ![c] = x]
  <2>1. conn'[c] \in Conns
    BY ConnectInv DEF IInv, TypeOK
  <2> QED
    BY <1>1, <2>1 DEF Connect
<1>4. PICK y \in Calls : y = call'[c] /\ call' = [call EXCEPT ![c] = y]
  <2>1. call'[c] \in Calls
    BY ConnectInv DEF IInv, TypeOK
  <2> QED
    BY <1>1, <2>1 DEF Connect
<1>5. (x.state = "busy" /\ y.op = "init") \/ x.state = "closed"
  <2>1. CASE conn' = [conn EXCEPT ![c].state = "closed"]
    <3>1. x = [conn[c] EXCEPT !.state = "closed"] /\ conn[c] \in Conns
      BY <1>1, <1>3, <2>1
    <3> QED
      BY <3>1 DEF Conns
  <2>2. ASSUME NEW password \in BOOLEAN, NEW db \in Wanted[c],
               conn' = [conn EXCEPT ![c] = [NoConn EXCEPT !.state = "busy", !.up = TRUE,
                           !.want = db, !.password = password, !.obuf = << Greeting(password, db)[1] >>]],
               call' = [call EXCEPT ![c] = Start("init", 0, <<>>, 1, Tail(Greeting(password, db)), {})]
        PROVE  x.state = "busy" /\ y.op = "init"
    <3>1. x.state = "busy"
      BY <1>1, <1>3, <2>2 DEF NoConn
    <3>2. y = Start("init", 0, <<>>, 1, Tail(Greeting(password, db)), {})
      BY <1>1, <1>4, <2>2
    <3> QED
      BY <3>1, <3>2, StartFields
  <2> QED
    BY <2>1, <2>2 DEF Connect
<1>6. Knows(y, x, Layout, store[x.db])
  BY <1>5 DEF Knows
<1> QED
  BY <1>1, <1>2, <1>3, <1>4, <1>6, OneCallTruthful

-----------------------------------------------------------------------------
(* A call begins. *)

LEMMA AppendedAt ==
    ASSUME TypeOK, NEW s \in Seq(Items), NEW op, NEW tag, NEW y, y.items = s,
           NEW n \in 1..(Hashes * Len(s))
    PROVE  Appended(op, tag, s)[n].op = op /\ Appended(op, tag, s)[n].at = At(y, n, Layout)
<1>1. Hashes * Len(s) \in Nat /\ Hashes \in Nat \ {0} /\ Len(s) \in Nat
  BY Constants
<1>2. PICK q \in 1..Len(s), j \in 1..Hashes :
        q = ((n - 1) \div Hashes) + 1 /\ j = ((n - 1) % Hashes) + 1
  <2>1. n - 1 \in Nat /\ n - 1 < Hashes * Len(s)
    BY <1>1
  <2>2. (n - 1) \div Hashes \in Nat /\ (n - 1) \div Hashes < Len(s)
    BY <1>1, <2>1, DivType, DivBound
  <2>3. (n - 1) % Hashes \in Nat /\ (n - 1) % Hashes < Hashes
    BY <1>1, <2>1, DivType
  <2> QED
    BY <1>1, <2>2, <2>3
<1>3. s[q] \in Items
  BY <1>1, <1>2
<1>4. At(y, n, Layout) = Layout[s[q]][j]
  BY <1>2 DEF At, Item
<1>5. Layout[s[q]][j] = Place(s[q], j)
  BY <1>2, <1>3 DEF Layout
<1> QED
  BY <1>2, <1>4, <1>5 DEF Appended

\* A call that has read nothing knows what it has to.
LEMMA StartKnows ==
    ASSUME NEW y \in Calls, NEW x \in Conns, NEW pl, NEW st,
           y.left = Hashes * Len(y.items), y.ones, y.new = 0, y.answers = <<>>,
           \A i \in y.must : Stays(i, pl, st),
           Heard(x) = <<>>,
           x.up => \A i \in DOMAIN Asked(x) : Asked(x)[i].op = y.op /\ Asked(x)[i].at = At(y, i, pl)
    PROVE  InLine(y, x, Read(y), pl, st) /\ Counts(y, x, pl, st)
<1>1. y.left \in Nat /\ Read(y) = 0
  BY DEF Calls, Read
<1>2. 0 \div Hashes = 0
  <2>1. PICK b \in Nat \ {0} : b = Hashes
    BY Constants
  <2>2. 0 = (b * 0) + 0 /\ 0 \in 0..(b - 1) /\ 0 \in Nat
    OBVIOUS
  <2> QED
    BY <2>1, <2>2, DivUnique
<1>3. \A i \in DOMAIN Asked(x) : (0 + Len(<<>>)) + i = i
  <2>1. Asked(x) \in Seq(Commands)
    <3>1. \A p, q \in Seq(Commands) : p \o q \in Seq(Commands)
      OBVIOUS
    <3> QED
      BY <3>1 DEF Asked, Conns
  <2> QED
    BY <2>1
<1>4. InLine(y, x, 0, pl, st)
  <2>1. y.left <= Hashes * Len(y.items)
    BY <1>1
  <2>2. x.up => \A i \in DOMAIN Asked(x) :
          Asked(x)[i].op = y.op /\ Asked(x)[i].at = At(y, (0 + Len(Heard(x))) + i, pl)
    BY <1>3
  <2>3. \A i \in DOMAIN Heard(x) : Tells(y, 0 + i, Heard(x)[i], pl, st)
    OBVIOUS
  <2> QED
    BY <2>1, <2>2, <2>3 DEF InLine
<1>5. Cardinality(News(y, 0)) \in Nat
  BY NewsType
<1>6. Counts(y, x, pl, st)
  BY <1>1, <1>2, <1>5 DEF Counts
<1> QED
  BY <1>1, <1>4, <1>6

LEMMA BeginTruthful ==
    ASSUME IInv, Truthful, NEW c \in Clients, NEW op \in {"set", "get", "del"}, NEW s \in Seq(Items),
           NEW cmds \in Seq(Commands), NEW todo \in Seq(Commands),
           op # "del" => cmds = Appended(op, call[c].tag + 1, s),
           op = "del" => cmds # <<>>,
           conn[c].state = "idle", Begin(c, op, s, cmds, todo), UNCHANGED <<bits, store, stored>>
    PROVE  Truthful'
<1>1. raised' = raised
  BY BeginShape
<1>2. PICK x \in Conns, y \in Calls :
        /\ conn' = [conn EXCEPT ![c] = x] /\ call' = [call EXCEPT ![c] = y]
        /\ Begun(c, op, s, cmds, todo, x, y)
  BY BeginShape
<1>3. PICK con \in Conns : con = conn[c]
  BY DEF IInv, TypeOK
<1>4. /\ x.state = (IF cmds = <<>> THEN "idle" ELSE "busy")
      /\ x.up = con.up /\ x.db = con.db /\ x.wire = con.wire
      /\ x.obuf = con.obuf \o cmds /\ Heard(x) = Heard(con)
      /\ y.op = op /\ y.items = s /\ y.ones /\ y.new = 0 /\ y.answers = <<>>
      /\ op # "del" => y.left = Hashes * Len(s)
      /\ c \notin raised => y.must = stored[con.db]
  BY <1>2, <1>3, StartFields DEF Begun
<1>5. Kept(stored, Layout, store) /\ Kept(stored', Layout, store)
  BY DEF Truthful
<1>6. ASSUME c \notin raised, op # "del" PROVE Knows(y, x, Layout, store[con.db])
  <2>1. /\ con.reader = <<>> /\ con.sock = <<>>
        /\ con.up => con.obuf = <<>> /\ con.wire = <<>>
    BY <1>3, <1>6 DEF IInv, InStep, Quiet
  <2>2. Heard(x) = <<>>
    <3>1. <<>> \o <<>> = <<>>
      OBVIOUS
    <3> QED
      BY <1>4, <2>1, <3>1 DEF Heard
  <2>3. x.up => Asked(x) = cmds
    <3>1. <<>> \o (<<>> \o cmds) = cmds
      OBVIOUS
    <3> QED
      BY <1>4, <2>1, <3>1 DEF Asked
  <2>4. op \in {"set", "get"} /\ call[c].tag + 1 \in Nat
    BY <1>6 DEF IInv, TypeOK, Calls
  <2>5. Len(cmds) = Hashes * Len(s) /\ cmds = Appended(op, call[c].tag + 1, s)
    BY <1>6, <2>4, AppendedType DEF IInv
  <2>6. \A i \in DOMAIN cmds : cmds[i].op = op /\ cmds[i].at = At(y, i, Layout)
    BY <1>4, <2>5, AppendedAt DEF IInv
  <2>7. \A i \in y.must : Stays(i, Layout, store[con.db])
    <3>1. con.db \in Databases
      BY DEF Conns
    <3> QED
      BY <1>4, <1>5, <1>6, <3>1 DEF Kept
  <2>8. InLine(y, x, Read(y), Layout, store[con.db]) /\ Counts(y, x, Layout, store[con.db])
    BY <1>4, <1>6, <2>2, <2>3, <2>6, <2>7, StartKnows
  <2>9. ASSUME x.state = "idle" PROVE Result(y)
    <3>1. cmds = <<>> /\ Len(cmds) = 0
      BY <1>4, <2>9
    <3>2. PICK h \in Nat \ {0}, w \in Nat : h = Hashes /\ w = Len(s) /\ h * w = 0
      BY <2>5, <3>1, Constants
    <3>3. Len(s) = 0
      BY <3>2
    <3>4. Cardinality(News(y, 0)) \in Nat
      BY NewsType
    <3> QED
      BY <1>4, <3>3, <3>4 DEF Result
  <2> QED
    BY <2>8, <2>9 DEF Knows
<1>7. ASSUME op = "del" PROVE Knows(y, x, Layout, store[con.db])
  BY <1>4, <1>7 DEF Knows
<1> QED
  BY <1>1, <1>2, <1>4, <1>5, <1>6, <1>7, OneCallTruthful

LEMMA BatchTruthful ==
    ASSUME IInv, Truthful, NEW c \in Clients, NEW op \in {"set", "get"}, NEW s \in Seq(Items),
           Batch(c, op, s)
    PROVE  Truthful'
<1>1. /\ conn[c] \in Conns /\ call[c] \in Calls /\ conn[c].state = "idle"
      /\ UNCHANGED <<bits, store, stored>>
  BY DEF IInv, TypeOK, Batch
<1>2. PICK tag \in Nat : tag = call[c].tag + 1
  BY <1>1 DEF Calls
<1>3. PICK cmds \in Seq(Commands) : cmds = Appended(op, tag, s)
  BY AppendedType DEF IInv
<1>4. CASE Strays(c)
  <2> DEFINE x == [conn[c] EXCEPT !.state = "dead", !.up = FALSE]
  <2>1. x \in Conns /\ x.state = "dead" /\ conn' = [conn EXCEPT ![c] = x]
    BY <1>1, <1>4 DEF Conns, Strays, IInv, TypeOK
  <2>2. call' = [call EXCEPT ![c] = call[c]] /\ raised' = raised
    BY <1>4 DEF Strays, IInv, TypeOK
  <2> HIDE DEF x
  <2>3. Knows(call[c], x, Layout, store[x.db]) /\ Kept(stored', Layout, store)
    BY <1>1, <2>1 DEF Knows, Truthful
  <2> QED
    BY <1>1, <2>1, <2>2, <2>3, OneCallTruthful
<1>5. CASE Begin(c, op, s, cmds, <<>>)
  <2>1. <<>> \in Seq(Commands) /\ op \in {"set", "get", "del"} /\ op # "del"
    OBVIOUS
  <2> QED
    BY <1>1, <1>2, <1>3, <1>5, <2>1, BeginTruthful
<1>6. CASE /\ conn' = [conn EXCEPT ![c].obuf = @ \o cmds]
           /\ call' = [call EXCEPT ![c] = Aborted(@.tag + 1, FALSE)]
           /\ raised' = raised \cup {c}
  <2>1. PICK x \in Conns : conn' = [conn EXCEPT ![c] = x]
    <3>1. conn[c].obuf \o cmds \in Seq(Commands)
      BY <1>1 DEF Conns
    <3>2. [conn[c] EXCEPT !.obuf = @ \o cmds] \in Conns
      BY <1>1, <3>1 DEF Conns
    <3> QED
      BY <1>6, <3>2 DEF IInv, TypeOK
  <2>2. PICK y \in Calls : y = Aborted(tag, FALSE)
    BY AbortedType
  <2>3. call' = [call EXCEPT ![c] = y]
    BY <1>2, <1>6, <2>2
  <2>4. /\ raised \subseteq raised' /\ raised' \subseteq raised \cup {c} /\ c \in raised'
        /\ Kept(stored', Layout, store)
    BY <1>1, <1>6 DEF Truthful
  <2> QED
    BY <1>1, <2>1, <2>3, <2>4, OneCallTruthful
<1> QED
  BY <1>2, <1>3, <1>4, <1>5, <1>6 DEF Batch

LEMMA CallTruthful ==
    ASSUME IInv, Truthful, NEW c \in Clients, Put(c) \/ Add(c) \/ Extend(c) \/ Contains(c) \/ In(c)
    PROVE  Truthful'
  BY BatchTruthful, ListsAssumption DEF Put, Contains, Add, Extend, In

LEMMA DeleteTruthful == ASSUME IInv, Truthful, NEW c \in Clients, Delete(c) PROVE Truthful'
<1>1. PICK tag \in Nat : tag = call[c].tag + 1
  BY DEF IInv, TypeOK, Calls
<1>2. PICK cmds \in Seq(Commands) : cmds = Deletes(tag) /\ cmds # <<>>
  BY DeletesType DEF IInv
<1>3. PICK first \in Seq(Commands), rest \in Seq(Commands) :
        first = SubSeq(cmds, 1, 1) /\ rest = SubSeq(cmds, 2, Len(cmds)) /\ first # <<>>
  BY <1>2, FirstRest
<1>4. /\ conn[c].state = "idle" /\ Begin(c, "del", <<>>, first, rest)
      /\ UNCHANGED <<bits, store, stored>>
  BY <1>1, <1>2, <1>3 DEF Delete
<1>5. <<>> \in Seq(Items) /\ "del" \in {"set", "get", "del"}
  OBVIOUS
<1> QED
  BY <1>3, <1>4, <1>5, BeginTruthful

-----------------------------------------------------------------------------
(* A reply is read. *)

LEMMA SameParts ==
    ASSUME NEW y, NEW k, Resumes(y, k)
    PROVE  /\ y.op = k.op /\ y.items = k.items /\ y.must = k.must /\ y.swept = k.swept
           /\ \A p : Item(y, p) = Item(k, p)
           /\ \A p, pl : At(y, p, pl) = At(k, p, pl)
           /\ \A n : News(y, n) = News(k, n)
           /\ \A p, r, pl, st : Tells(k, p, r, pl, st) => Tells(y, p, r, pl, st)
<1>1. y.op = k.op /\ y.items = k.items /\ y.must = k.must /\ y.swept = k.swept
  BY DEF Resumes
<1>2. \A p : Item(y, p) = Item(k, p)
  BY <1>1 DEF Item
<1>3. \A p, pl : At(y, p, pl) = At(k, p, pl)
  BY <1>2 DEF At
<1>4. \A n : News(y, n) = News(k, n)
  BY <1>1 DEF News
<1>5. \A p, r, pl, st : Tells(k, p, r, pl, st) => Tells(y, p, r, pl, st)
  BY ONLY <1>1, <1>2, <1>3 DEF Tells
<1> QED
  BY <1>1, <1>2, <1>3, <1>4, <1>5

\* The line is the same for the call that has gone on.
LEMMA SameLine ==
    ASSUME NEW k, NEW con, NEW y, NEW x, NEW n, NEW pl, NEW st, Resumes(y, k),
           Wired(x, con), Heard(x) = Heard(con), InLine(k, con, n, pl, st),
           y.left <= Hashes * Len(y.items)
    PROVE  InLine(y, x, n, pl, st)
<1>1. x.up = con.up /\ Asked(x) = Asked(con)
  BY WiredAsked DEF Wired
<1> QED
  BY <1>1, SameParts DEF InLine

\* One reply on, the call has read one more, and may have done with a value.
LEMMA OneMore ==
    ASSUME NEW k \in Calls, NEW y \in Calls, k.left > 0, k.left <= Hashes * Len(k.items),
           y.left = k.left - 1, y.items = k.items
    PROVE  /\ Read(k) \in Nat /\ Read(y) = Read(k) + 1 /\ y.left <= Hashes * Len(y.items)
           /\ Read(k) \div Hashes \in Nat /\ (Read(k) \div Hashes) + 1 \in DOMAIN k.items
           /\ IF (k.left - 1) % Hashes = 0
              THEN Read(y) \div Hashes = (Read(k) \div Hashes) + 1
              ELSE Read(y) \div Hashes = Read(k) \div Hashes
<1>1. PICK h \in Nat \ {0}, w \in Nat, m \in Nat : h = Hashes /\ w = Len(k.items) /\ m = k.left
  <2>1. Hashes \in Nat \ {0} /\ Len(k.items) \in Nat /\ k.left \in Nat
    BY Constants DEF Calls
  <2> QED
    BY ONLY <2>1
<1>2. PICK z \in Nat : z = h * w /\ m > 0 /\ m <= z
  BY <1>1
<1>3. PICK n \in Nat : n = z - m /\ n = (h * w) - m
  BY <1>2
<1>4. Read(k) = n /\ Read(y) = n + 1 /\ y.left <= Hashes * Len(y.items)
  BY <1>1, <1>2, <1>3 DEF Read
<1>5. /\ (n \div h) + 1 \in 1..w
      /\ IF (m - 1) % h = 0 THEN (n + 1) \div h = (n \div h) + 1
         ELSE (n + 1) \div h = n \div h
  <2>1. h * w \in Nat /\ n \in Nat /\ n < h * w /\ n = (h * w) - m
    BY <1>2, <1>3
  <2>2. PICK q \in Nat, s \in Nat : q = n \div h /\ s = n % h /\ s < h /\ n = (q * h) + s
    BY <2>1, DivType, DivWhole
  <2>3. q < w
    BY <2>1, <2>2, DivBound
  <2>4. q * h = h * q /\ h * (q + 1) = (h * q) + h
    OBVIOUS
  <2>5. PICK v \in Nat : v = w - (q + 1)
    BY <2>3
  <2>6. h * w = ((h * v) + (h * q)) + h
    <3>1. w = v + (q + 1)
      BY <2>5
    <3>2. h * (v + (q + 1)) = (h * v) + (h * (q + 1))
      OBVIOUS
    <3> QED
      BY <2>4, <3>1, <3>2
  <2>7. h * v \in Nat /\ h * q \in Nat
    OBVIOUS
  <2>8. PICK t \in 0..(h - 1) : t = (h - 1) - s
    BY <2>2
  <2>9. m - 1 = (h * v) + t
    <3>1. PICK x \in Nat, p \in Nat : x = h * v /\ p = h * q
      BY <2>7
    <3>2. m = (h * w) - n /\ n = p + s /\ h * w = (x + p) + h
      BY <2>1, <2>2, <2>4, <2>6, <3>1
    <3>3. m = ((x + p) + h) - (p + s)
      BY <3>2
    <3> QED
      BY <2>8, <3>1, <3>3
  <2>10. (m - 1) % h = (h - 1) - s
    <3>1. PICK a \in Nat : a = m - 1
      BY <1>2
    <3>2. h \in Nat \ {0} /\ v \in Nat /\ t \in 0..(h - 1) /\ a = (h * v) + t
      BY <2>9, <3>1
    <3>3. a % h = t
      BY ONLY <3>2, DivUnique
    <3> QED
      BY <2>8, <3>1, <3>3
  <2>11. CASE s = h - 1
    <3>1. n + 1 = (h * (q + 1)) + 0 /\ 0 \in 0..(h - 1) /\ q + 1 \in Nat
      BY <2>2, <2>4, <2>7, <2>11
    <3>2. (n + 1) \div h = q + 1
      <4>1. h \in Nat \ {0}
        OBVIOUS
      <4> QED
        BY ONLY <3>1, <4>1, DivUnique
    <3> QED
      BY <2>1, <2>2, <2>3, <2>10, <2>11, <3>2
  <2>12. CASE s # h - 1
    <3>1. n + 1 = (h * q) + (s + 1) /\ s + 1 \in 0..(h - 1)
      BY <2>2, <2>4, <2>7, <2>12
    <3>2. (n + 1) \div h = q
      <4>1. h \in Nat \ {0} /\ q \in Nat
        OBVIOUS
      <4> QED
        BY ONLY <3>1, <4>1, DivUnique
    <3>3. (h - 1) - s # 0
      BY <2>2, <2>12
    <3> QED
      BY <2>1, <2>2, <2>3, <2>10, <3>2, <3>3
  <2> QED
    BY <2>11, <2>12
<1>6. n \div h \in Nat
  BY DivType
<1>7. DOMAIN k.items = 1..w
  BY <1>1 DEF Calls
<1> QED
  BY <1>1, <1>4, <1>5, <1>6, <1>7

\* The item of the next position is the one the replies are counted for.
LEMMA NextItem ==
    ASSUME NEW k, Read(k) \in Nat
    PROVE  Item(k, Read(k) + 1) = k.items[(Read(k) \div Hashes) + 1]
<1>1. (Read(k) + 1) - 1 = Read(k)
  OBVIOUS
<1> QED
  BY <1>1 DEF Item

\* The first reply on the line is for the next position, and the line moves up.
LEMMA TakenKnows ==
    ASSUME IInv, Truthful, NEW c \in Clients, NEW con \in Conns, NEW k \in Calls,
           NEW r \in Replies, Taken(c, k, con, r), c \notin raised, k.op \in {"set", "get"},
           ~Doomed(k)
    PROVE  /\ Tells(k, Read(k) + 1, r, Layout, store[con.db])
           /\ InLine(k, con, Read(k) + 1, Layout, store[con.db])
           /\ Counts(k, con, Layout, store[con.db])
<1>1. PICK j \in Calls, old \in Conns : j = call[c] /\ old = conn[c]
  BY DEF IInv, TypeOK
<1>2. PICK pl, st : pl = Layout /\ st = store[con.db]
  OBVIOUS
<1>3. /\ con.err = old.err /\ Wired(con, old) /\ old.state = "busy"
      /\ Heard(old) # <<>> /\ r = Head(Heard(old)) /\ Heard(con) = Tail(Heard(old))
      /\ Continues(k, j)
  BY <1>1 DEF Taken
<1>4. /\ k.op = j.op /\ k.items = j.items /\ k.left = j.left /\ k.ones = j.ones
      /\ k.new = j.new /\ k.answers = j.answers /\ k.must = j.must /\ k.swept = j.swept
  BY <1>3, Continued
<1>5. /\ \A p : Item(j, p) = Item(k, p) /\ At(j, p, pl) = At(k, p, pl)
      /\ \A n : News(j, n) = News(k, n)
      /\ Read(j) = Read(k) /\ (Doomed(j) <=> Doomed(k))
  BY <1>4 DEF Item, At, News, Read, Doomed
<1>6. old.db = con.db /\ con.up = old.up /\ Asked(con) = Asked(old)
  BY <1>3, WiredAsked DEF Wired
<1>7. Knows(j, old, pl, st)
  BY <1>1, <1>2, <1>6 DEF Truthful
<1>8. InLine(j, old, Read(j), pl, st) /\ Counts(j, old, pl, st)
  BY <1>3, <1>4, <1>5, <1>7 DEF Knows
<1>9. PICK n \in Nat : n = Read(k)
  BY <1>4, <1>5, <1>8, ReadType DEF InLine
<1>10. \A i \in DOMAIN Heard(old) : Tells(k, n + i, Heard(old)[i], pl, st)
  <2>1. \A p, e : Tells(j, p, e, pl, st) => Tells(k, p, e, pl, st)
    BY ONLY <1>4, <1>5 DEF Tells
  <2> QED
    BY <1>5, <1>8, <1>9, <2>1 DEF InLine
<1>11. PICK q \in Seq(Replies), u \in Seq(Replies) :
          /\ q = Heard(old) /\ u = Heard(con) /\ 1 \in DOMAIN q /\ r = q[1]
          /\ Len(q) = Len(u) + 1 /\ \A i \in DOMAIN u : i + 1 \in DOMAIN q /\ u[i] = q[i + 1]
  <2>1. \A p, q \in Seq(Replies) : p \o q \in Seq(Replies)
    OBVIOUS
  <2>2. Heard(old) \in Seq(Replies) /\ Heard(con) \in Seq(Replies)
    BY <2>1 DEF Heard, Conns
  <2>3. \A q \in Seq(Replies) : q # <<>> =>
          /\ 1 \in DOMAIN q /\ Head(q) = q[1] /\ Len(q) = Len(Tail(q)) + 1
          /\ \A i \in DOMAIN Tail(q) : i + 1 \in DOMAIN q /\ Tail(q)[i] = q[i + 1]
    OBVIOUS
  <2> QED
    BY <1>3, <2>2, <2>3
<1>12. Tells(k, n + 1, r, pl, st)
  BY <1>10, <1>11
<1>13. InLine(k, con, n + 1, pl, st)
  <2>1. k.left <= Hashes * Len(k.items) /\ \A i \in k.must : Stays(i, pl, st)
    BY <1>4, <1>8 DEF InLine
  <2>2. \A i \in DOMAIN u : Tells(k, (n + 1) + i, u[i], pl, st)
    <3> SUFFICES ASSUME NEW i \in DOMAIN u PROVE Tells(k, (n + 1) + i, u[i], pl, st)
      OBVIOUS
    <3>1. i \in Nat /\ n + (i + 1) = (n + 1) + i /\ i + 1 \in DOMAIN q /\ u[i] = q[i + 1]
      BY <1>11
    <3>2. Tells(k, n + (i + 1), q[i + 1], pl, st)
      BY <1>10, <1>11, <3>1
    <3> QED
      BY <3>1, <3>2
  <2>3. con.up => \A i \in DOMAIN Asked(con) :
          Asked(con)[i].op = k.op /\ Asked(con)[i].at = At(k, ((n + 1) + Len(u)) + i, pl)
    <3>1. (n + 1) + Len(u) = n + Len(q)
      BY <1>11
    <3> QED
      BY <1>4, <1>5, <1>6, <1>8, <1>9, <1>11, <3>1 DEF InLine
  <2> QED
    BY <1>11, <2>1, <2>2, <2>3 DEF InLine
<1>14. Counts(k, con, pl, st)
  BY <1>3, <1>4, <1>5, <1>8 DEF Counts
<1> QED
  BY <1>2, <1>9, <1>12, <1>13, <1>14

\* put has read a reply.
LEMMA PutKnows ==
    ASSUME NEW k \in Calls, NEW con \in Conns, NEW r \in Replies, NEW y \in Calls,
           NEW x \in Conns, NEW pl, NEW st, k.op = "set", k.left > 0, PutStep(k, con, r, y, x),
           Tells(k, Read(k) + 1, r, pl, st), InLine(k, con, Read(k) + 1, pl, st),
           Counts(k, con, pl, st)
    PROVE  InLine(y, x, Read(y), pl, st) /\ Counts(y, x, pl, st)
<1>1. PICK last \in BOOLEAN, ones \in BOOLEAN :
        /\ last = ((k.left - 1) % Hashes = 0) /\ ones = (k.ones /\ r.val = 1)
        /\ Resumes(y, k) /\ y.left = k.left - 1 /\ y.ones = (last \/ ones)
        /\ y.new = IF last /\ ~ones THEN k.new + 1 ELSE k.new
        /\ x.err = (con.err \/ r.bad) /\ Wired(x, con) /\ Heard(x) = Heard(con)
  BY DEF PutStep
<1>2. k.left <= Hashes * Len(k.items) /\ y.items = k.items
  BY <1>1, SameParts DEF InLine
<1>3. PICK n \in Nat, q \in Nat : n = Read(k) /\ q = n \div Hashes
  BY <1>1, <1>2, OneMore
<1>4. /\ Read(y) = n + 1 /\ y.left <= Hashes * Len(y.items)
      /\ (n + 1) \div Hashes = IF last THEN q + 1 ELSE q
  BY <1>1, <1>2, <1>3, OneMore
<1>5. InLine(y, x, Read(y), pl, st)
  BY <1>1, <1>3, <1>4, SameLine
<1>6. Item(k, n + 1) = k.items[q + 1]
  BY <1>3, NextItem
<1>7. k.items[q + 1] \in k.must => (k.ones \/ con.err) /\ (r.bad \/ r.val = 1)
  BY <1>3, <1>6 DEF Counts, Tells
<1>8. Item(y, Read(y) + 1) \in y.must => y.ones \/ x.err
  <2>1. CASE last
    BY <1>1, <2>1
  <2>2. CASE ~last
    <3>1. Item(y, (n + 1) + 1) = y.items[((n + 1) \div Hashes) + 1]
      BY <1>4, NextItem
    <3>2. Item(y, Read(y) + 1) = k.items[q + 1]
      BY <1>2, <1>4, <2>2, <3>1
    <3> QED
      BY <1>1, <1>7, <3>2, SameParts
  <2> QED
    BY <2>1, <2>2
<1>9. ASSUME ~x.err PROVE y.new <= Cardinality(News(y, Read(y) \div Hashes))
  <2>1. ~con.err /\ ~r.bad
    BY <1>1, <1>9
  <2>2. PICK a \in Nat, b \in Nat : a = Cardinality(News(k, q)) /\ b = Cardinality(News(k, q + 1))
    BY NewsType
  <2>3. b = a + (IF k.items[q + 1] \in k.must THEN 0 ELSE 1)
    BY <2>2, NewsNext
  <2>4. k.new \in Nat /\ k.new <= a
    BY <1>3, <2>1, <2>2 DEF Counts, Calls
  <2>5. \A i : News(y, i) = News(k, i)
    BY <1>1, SameParts
  <2>6. CASE last
    <3>1. k.items[q + 1] \in k.must => ones
      BY <1>1, <1>7, <2>1
    <3> QED
      BY <1>1, <1>4, <2>2, <2>3, <2>4, <2>5, <2>6, <3>1
  <2>7. CASE ~last
    BY <1>1, <1>4, <2>2, <2>4, <2>5, <2>7
  <2> QED
    BY <2>6, <2>7
<1>10. ASSUME ~x.err, ~y.swept, NEW p \in 1..Read(y) PROVE At(y, p, pl) \in st
  <2>1. ~con.err /\ ~r.bad /\ ~k.swept
    BY <1>1, <1>10, SameParts
  <2>2. At(y, p, pl) = At(k, p, pl)
    BY <1>1, SameParts
  <2>3. CASE p = n + 1
    BY <1>3, <2>1, <2>2, <2>3 DEF Tells
  <2>4. CASE p # n + 1
    <3>1. p \in 1..n
      BY <1>4, <2>4
    <3> QED
      BY <1>3, <2>1, <2>2, <3>1 DEF Counts
  <2> QED
    BY <2>3, <2>4
<1>11. y.op = "set"
  BY <1>1, SameParts
<1>12. Counts(y, x, pl, st)
  BY <1>8, <1>9, <1>10, <1>11 DEF Counts
<1> QED
  BY <1>5, <1>12

\* put that has read all it had to, without an error.
LEMMA PutResult ==
    ASSUME NEW y \in Calls, NEW x, NEW pl, NEW st, y.op = "set", y.left = 0, ~x.err,
           InLine(y, x, Read(y), pl, st), Counts(y, x, pl, st)
    PROVE  /\ Result(y)
           /\ ~y.swept => \A n \in DOMAIN y.items : Stays(y.items[n], pl, st)
<1>1. Read(y) \div Hashes = Len(y.items)
  BY ReadType DEF InLine
<1>2. Read(y) = Hashes * Len(y.items)
  <2>1. Hashes * Len(y.items) \in Nat
    BY Constants DEF Calls
  <2> QED
    BY <2>1 DEF Read
<1>3. Result(y)
  BY <1>1 DEF Result, Counts
<1>4. ~y.swept => \A p \in 1..(Hashes * Len(y.items)) : At(y, p, pl) \in st
  BY <1>2 DEF Counts
<1> QED
  BY <1>3, <1>4, AllPositions

LEMMA TakePutTruthful ==
    ASSUME IInv, Truthful, NEW c \in Clients, NEW k \in Calls, NEW con \in Conns,
           NEW r \in Replies, k.op = "set", k.left > 0, con.state = "busy",
           TakePut(c, k, con, r), UNCHANGED <<bits, store>>,
           c \notin raised =>
              /\ Tells(k, Read(k) + 1, r, Layout, store[con.db])
              /\ InLine(k, con, Read(k) + 1, Layout, store[con.db])
              /\ Counts(k, con, Layout, store[con.db])
    PROVE  Truthful'
<1>1. PICK x \in Conns, y \in Calls :
        /\ PutStep(k, con, r, y, x)
        /\ IF y.left > 0 THEN GoOn(c, y, x)
           ELSE IF x.err THEN Raise(c, y, x) ELSE Return(c, y, x)
  BY PutShape
<1>2. /\ x.state = "busy" /\ Wired(x, con) /\ Resumes(y, k)
  BY <1>1 DEF PutStep
<1>3. y.op = "set" /\ x.db = con.db /\ y.left \in Nat
  BY <1>2 DEF Resumes, Wired, Calls
<1>4. c \notin raised =>
         InLine(y, x, Read(y), Layout, store[x.db]) /\ Counts(y, x, Layout, store[x.db])
  BY <1>1, <1>3, PutKnows
<1>5. CASE GoOn(c, y, x)
  <2>1. c \notin raised => Knows(y, x, Layout, store[x.db])
    BY <1>2, <1>4 DEF Knows
  <2> QED
    BY <1>5, <2>1, GoOnTruthful
<1>6. CASE Raise(c, y, x)
  BY <1>6, RaiseTruthful
<1>7. CASE y.left = 0 /\ ~x.err /\ Return(c, y, x)
  <2>1. c \notin raised =>
          /\ Result(y)
          /\ ~y.swept => \A n \in DOMAIN y.items : Stays(y.items[n], Layout, store[x.db])
    BY <1>3, <1>4, <1>7, PutResult
  <2> QED
    BY <1>7, <2>1, ReturnTruthful
<1> QED
  BY <1>1, <1>3, <1>5, <1>6, <1>7

\* contains has read a reply that is not the last of its value.
LEMMA GetKnows ==
    ASSUME NEW k \in Calls, NEW con \in Conns, NEW r \in Replies, NEW y \in Calls,
           NEW x \in Conns, NEW pl, NEW st, k.op = "get", k.left > 0,
           (k.left - 1) % Hashes # 0, GetStep(k, con, r, y, x),
           Tells(k, Read(k) + 1, r, pl, st), InLine(k, con, Read(k) + 1, pl, st),
           Counts(k, con, pl, st)
    PROVE  InLine(y, x, Read(y), pl, st) /\ Counts(y, x, pl, st)
<1>1. /\ Resumes(y, k) /\ y.left = k.left - 1 /\ y.ones = (k.ones /\ r.val = 1)
      /\ y.answers = k.answers
      /\ x.err = (con.err \/ r.bad) /\ Wired(x, con) /\ Heard(x) = Heard(con)
  BY DEF GetStep
<1>2. k.left <= Hashes * Len(k.items) /\ y.items = k.items
  BY <1>1, SameParts DEF InLine
<1>3. PICK n \in Nat, q \in Nat : n = Read(k) /\ q = n \div Hashes
  BY <1>1, <1>2, OneMore
<1>4. Read(y) = n + 1 /\ y.left <= Hashes * Len(y.items) /\ (n + 1) \div Hashes = q
  BY <1>1, <1>2, <1>3, OneMore
<1>5. InLine(y, x, Read(y), pl, st)
  BY <1>1, <1>3, <1>4, SameLine
<1>6. Item(k, n + 1) = k.items[q + 1] /\ Item(y, (n + 1) + 1) = y.items[q + 1]
  <2>1. Read(k) \in Nat /\ Read(y) \in Nat
    BY <1>3, <1>4
  <2> QED
    BY <1>3, <1>4, <2>1, NextItem
<1>7. k.items[q + 1] \in k.must => (k.ones \/ con.err) /\ (r.bad \/ r.val = 1)
  BY <1>3, <1>6 DEF Counts, Tells
<1>8. Item(y, Read(y) + 1) \in y.must => y.ones \/ x.err
  BY <1>1, <1>2, <1>4, <1>6, <1>7, SameParts
<1>9. y.op = "get" /\ y.must = k.must
  BY <1>1, SameParts
<1>10. /\ Len(y.answers) = Read(y) \div Hashes
       /\ \A i \in DOMAIN y.answers : y.items[i] \in y.must => y.answers[i] = 1
  BY <1>1, <1>2, <1>3, <1>4, <1>9 DEF Counts
<1>11. Counts(y, x, pl, st)
  BY <1>8, <1>9, <1>10 DEF Counts
<1> QED
  BY <1>5, <1>11

\* contains has read the last reply of a value.
LEMMA GetLastKnows ==
    ASSUME NEW k \in Calls, NEW con \in Conns, NEW r \in Replies, NEW y \in Calls,
           NEW x \in Conns, NEW pl, NEW st, k.op = "get", k.left > 0,
           (k.left - 1) % Hashes = 0, GetLast(k, con, r, y, x), ~Doomed(y),
           Tells(k, Read(k) + 1, r, pl, st), InLine(k, con, Read(k) + 1, pl, st),
           Counts(k, con, pl, st)
    PROVE  y.ones /\ InLine(y, x, Read(y), pl, st) /\ Counts(y, x, pl, st)
<1>1. PICK v : v = IF k.ones /\ r.val = 1 THEN 1 ELSE 0
  OBVIOUS
<1>2. /\ Resumes(y, k) /\ y.left = k.left - 1 /\ y.ones /\ y.answers = Append(k.answers, v)
      /\ ~x.err /\ ~con.err /\ ~r.bad /\ Wired(x, con) /\ Heard(x) = Heard(con)
  BY <1>1 DEF GetLast
<1>3. k.left <= Hashes * Len(k.items) /\ y.items = k.items
  BY <1>2, SameParts DEF InLine
<1>4. PICK n \in Nat, q \in Nat : n = Read(k) /\ q = n \div Hashes
  BY <1>2, <1>3, OneMore
<1>5. Read(y) = n + 1 /\ y.left <= Hashes * Len(y.items) /\ (n + 1) \div Hashes = q + 1
  BY <1>2, <1>3, <1>4, OneMore
<1>6. InLine(y, x, Read(y), pl, st)
  BY <1>2, <1>4, <1>5, SameLine
<1>7. Item(k, n + 1) = k.items[q + 1]
  BY <1>4, NextItem
<1>8. k.items[q + 1] \in k.must => v = 1
  BY <1>1, <1>2, <1>4, <1>7 DEF Counts, Tells
<1>9. y.op = "get" /\ y.must = k.must
  BY <1>2, SameParts
<1>10. k.answers \in Seq({-1, 0, 1}) /\ Len(k.answers) = q
  BY <1>4 DEF Counts, Calls
<1>11. /\ Len(y.answers) = q + 1 /\ y.answers[q + 1] = v
       /\ \A i \in DOMAIN y.answers : i # q + 1 =>
             i \in DOMAIN k.answers /\ y.answers[i] = k.answers[i]
  <2>1. \A p \in Seq({-1, 0, 1}) :
          /\ Len(Append(p, v)) = Len(p) + 1 /\ Append(p, v)[Len(p) + 1] = v
          /\ \A i \in DOMAIN Append(p, v) : i # Len(p) + 1 =>
                i \in DOMAIN p /\ Append(p, v)[i] = p[i]
    BY <1>1
  <2> QED
    BY ONLY <1>2, <1>10, <2>1
<1>12. \A i \in DOMAIN y.answers : y.items[i] \in y.must => y.answers[i] = 1
  <2> SUFFICES ASSUME NEW i \in DOMAIN y.answers, y.items[i] \in y.must PROVE y.answers[i] = 1
    OBVIOUS
  <2>1. CASE i = q + 1
    BY <1>3, <1>8, <1>9, <1>11, <2>1
  <2>2. CASE i # q + 1
    <3>1. i \in DOMAIN k.answers /\ y.answers[i] = k.answers[i]
      BY <1>11, <2>2
    <3> QED
      BY <1>3, <1>9, <3>1 DEF Counts
  <2> QED
    BY <2>1, <2>2
<1>13. Counts(y, x, pl, st)
  BY <1>2, <1>5, <1>9, <1>11, <1>12 DEF Counts
<1> QED
  BY <1>2, <1>6, <1>13

\* contains goes on to the next value, returns, or raises.
LEMMA AnsweredTruthful ==
    ASSUME IInv, Truthful, NEW c \in Clients, NEW k \in Calls, NEW con \in Conns, k.op = "get",
           con.state = "busy", Answered(c, k, con), UNCHANGED <<bits, store>>,
           c \notin raised /\ ~Doomed(k) =>
              /\ k.ones /\ InLine(k, con, Read(k), Layout, store[con.db])
              /\ Counts(k, con, Layout, store[con.db])
    PROVE  Truthful'
<1>1. CASE \E x \in Conns : /\ GoOn(c, k, x) /\ x.state = con.state /\ ~x.err
                            /\ Wired(x, con) /\ Heard(x) = Heard(con)
  <2>1. PICK x \in Conns : /\ GoOn(c, k, x) /\ x.state = con.state
                           /\ Wired(x, con) /\ Heard(x) = Heard(con)
    BY <1>1
  <2>2. x.db = con.db /\ x.state = "busy"
    BY <2>1 DEF Wired
  <2>3. ASSUME c \notin raised, ~Doomed(k)
        PROVE  InLine(k, x, Read(k), Layout, store[x.db]) /\ Counts(k, x, Layout, store[x.db])
    <3>1. /\ k.ones /\ InLine(k, con, Read(k), Layout, store[x.db])
          /\ Counts(k, con, Layout, store[x.db])
      BY <2>2, <2>3
    <3>2. Resumes(k, k) /\ k.left <= Hashes * Len(k.items)
      BY <3>1 DEF Resumes, InLine
    <3>3. InLine(k, x, Read(k), Layout, store[x.db])
      BY <2>1, <3>1, <3>2, SameLine
    <3> QED
      BY <3>1, <3>3 DEF Counts
  <2>4. c \notin raised => Knows(k, x, Layout, store[x.db])
    BY <2>2, <2>3 DEF Knows
  <2> QED
    BY <2>1, <2>4, GoOnTruthful
<1>2. CASE Raise(c, k, con)
  BY <1>2, RaiseTruthful
<1>3. CASE k.left = 0 /\ ~Doomed(k) /\ Return(c, k, con)
  <2>1. ASSUME c \notin raised PROVE Result(k)
    <3>1. InLine(k, con, Read(k), Layout, store[con.db]) /\ Counts(k, con, Layout, store[con.db])
      BY <1>3, <2>1
    <3>2. Read(k) \div Hashes = Len(k.items)
      BY <1>3, <3>1, ReadType DEF InLine
    <3>3. /\ Len(k.answers) = Len(k.items)
          /\ \A i \in DOMAIN k.answers : k.items[i] \in k.must => k.answers[i] = 1
      BY <3>1, <3>2 DEF Counts
    <3>4. DOMAIN k.answers = DOMAIN k.items
      BY <3>3 DEF Calls
    <3> QED
      BY <3>3, <3>4 DEF Result
  <2> QED
    BY <1>3, <2>1, ReturnTruthful
<1> QED
  BY <1>1, <1>2, <1>3, AnsweredShape

LEMMA TakeContainsTruthful ==
    ASSUME IInv, Truthful, NEW c \in Clients, NEW k \in Calls, NEW con \in Conns,
           NEW r \in Replies, k.op = "get", k.left > 0, con.state = "busy",
           TakeContains(c, k, con, r), UNCHANGED <<bits, store>>,
           c \notin raised /\ ~Doomed(k) =>
              /\ Tells(k, Read(k) + 1, r, Layout, store[con.db])
              /\ InLine(k, con, Read(k) + 1, Layout, store[con.db])
              /\ Counts(k, con, Layout, store[con.db])
    PROVE  Truthful'
<1>1. PICK x \in Conns, y \in Calls :
        \/ /\ (k.left - 1) % Hashes # 0
           /\ GetStep(k, con, r, y, x) /\ GoOn(c, y, x)
        \/ /\ (k.left - 1) % Hashes = 0
           /\ GetLast(k, con, r, y, x) /\ Answered(c, y, x)
  BY GetShape
<1>2. /\ x.state = "busy" /\ Wired(x, con) /\ Heard(x) = Heard(con) /\ Resumes(y, k)
  BY <1>1 DEF GetStep, GetLast
<1>3. y.op = "get" /\ x.db = con.db
  BY <1>2 DEF Resumes, Wired
<1>4. CASE (k.left - 1) % Hashes # 0 /\ GetStep(k, con, r, y, x) /\ GoOn(c, y, x)
  <2>1. Doomed(k) => Doomed(y)
    BY <1>3, <1>4 DEF GetStep, Doomed
  <2>2. ASSUME c \notin raised, ~Doomed(y)
        PROVE  InLine(y, x, Read(y), Layout, store[x.db]) /\ Counts(y, x, Layout, store[x.db])
    BY <1>3, <1>4, <2>1, <2>2, GetKnows
  <2>3. c \notin raised => Knows(y, x, Layout, store[x.db])
    BY <1>2, <2>2 DEF Knows
  <2> QED
    BY <1>4, <2>3, GoOnTruthful
<1>5. CASE (k.left - 1) % Hashes = 0 /\ GetLast(k, con, r, y, x) /\ Answered(c, y, x)
  <2>1. Doomed(k) => Doomed(y)
    BY <1>5 DEF GetLast
  <2>2. ASSUME c \notin raised, ~Doomed(y)
        PROVE  /\ y.ones /\ InLine(y, x, Read(y), Layout, store[x.db])
               /\ Counts(y, x, Layout, store[x.db])
    BY <1>3, <1>5, <2>1, <2>2, GetLastKnows
  <2> QED
    BY <1>2, <1>3, <1>5, <2>2, AnsweredTruthful
<1> QED
  BY <1>1, <1>4, <1>5

\* init and delete conclude nothing from their replies.
LEMMA OtherTruthful ==
    ASSUME IInv, Truthful, NEW c \in Clients, NEW k \in Calls, NEW con \in Conns,
           k.op \in {"init", "del"}, con.state = "busy", UNCHANGED <<bits, store>>,
           \/ k.todo = <<>> /\ Return(c, [k EXCEPT !.left = 0], con)
           \/ k.todo # <<>> /\ GoOn(c, [k EXCEPT !.todo = Tail(@)],
                                    [con EXCEPT !.obuf = Append(@, Head(k.todo))])
    PROVE  Truthful'
<1>1. CASE Return(c, [k EXCEPT !.left = 0], con)
  <2> DEFINE y == [k EXCEPT !.left = 0]
  <2>1. y \in Calls /\ y.op = k.op /\ Return(c, y, con)
    BY <1>1 DEF Calls
  <2> HIDE DEF y
  <2>2. Result(y)
    BY <2>1 DEF Result
  <2> QED
    BY <2>1, <2>2, ReturnTruthful
<1>2. CASE k.todo # <<>> /\ GoOn(c, [k EXCEPT !.todo = Tail(@)],
                                 [con EXCEPT !.obuf = Append(@, Head(k.todo))])
  <2>1. PICK y \in Calls, x \in Conns : Sent(k, con, y, x)
    BY <1>2, SendShape
  <2>2. GoOn(c, y, x) /\ y.op = k.op /\ x.state = "busy"
    BY <1>2, <2>1 DEF Sent
  <2>3. Knows(y, x, Layout, store[x.db])
    BY <2>2 DEF Knows
  <2> QED
    BY <2>2, <2>3, GoOnTruthful
<1> QED
  BY <1>1, <1>2

LEMMA NextGreetingTruthful ==
    ASSUME IInv, Truthful, NEW c \in Clients, NEW k \in Calls, NEW con \in Conns, NEW r \in Replies,
           k.op = "init", con.state = "busy", NextGreeting(c, k, con, r),
           UNCHANGED <<bits, store>>
    PROVE  Truthful'
<1>1. CASE r.bad /\ r.op = "select"
  <2> DEFINE x == [con EXCEPT !.state = "dead", !.up = FALSE]
  <2>1. x \in Conns /\ x.state = "dead" /\ GoOn(c, k, x)
    BY <1>1 DEF Conns, NextGreeting
  <2> HIDE DEF x
  <2>2. Knows(k, x, Layout, store[x.db])
    BY <2>1 DEF Knows
  <2> QED
    BY <2>1, <2>2, GoOnTruthful
<1>2. CASE r.bad /\ r.op # "select"
  <2> DEFINE x == [con EXCEPT !.state = "closed", !.up = FALSE]
  <2>1. x \in Conns /\ x.state = "closed"
    BY DEF Conns
  <2>2. /\ conn' = [conn EXCEPT ![c] = x] /\ call' = [call EXCEPT ![c] = k]
        /\ raised' = raised \cup {c} /\ stored' = stored
    BY <1>2 DEF NextGreeting
  <2> HIDE DEF x
  <2>3. Knows(k, x, Layout, store[x.db]) /\ Kept(stored', Layout, store)
    BY <2>1, <2>2 DEF Knows, Truthful
  <2>4. raised \subseteq raised' /\ raised' \subseteq raised \cup {c}
    BY <2>2
  <2> QED
    BY <2>1, <2>2, <2>3, <2>4, OneCallTruthful
<1>3. CASE ~r.bad /\ k.todo = <<>>
  <2>1. Return(c, [k EXCEPT !.left = 0], con)
    BY <1>3 DEF NextGreeting
  <2> QED
    BY <1>3, <2>1, OtherTruthful
<1>4. CASE ~r.bad /\ k.todo # <<>>
  <2>1. GoOn(c, [k EXCEPT !.todo = Tail(@)], [con EXCEPT !.obuf = Append(@, Head(k.todo))])
    BY <1>4 DEF NextGreeting
  <2> QED
    BY <1>4, <2>1, OtherTruthful
<1> QED
  BY <1>1, <1>2, <1>3, <1>4

LEMMA NextDeleteTruthful ==
    ASSUME IInv, Truthful, NEW c \in Clients, NEW k \in Calls, NEW con \in Conns, k.op = "del",
           con.state = "busy", NextDelete(c, k, con), UNCHANGED <<bits, store>>
    PROVE  Truthful'
  BY OtherTruthful DEF NextDelete

LEMMA TakeTruthful == ASSUME IInv, Truthful, NEW c \in Clients, Take(c) PROVE Truthful'
<1>1. UNCHANGED <<bits, store>>
  BY TakeShape
<1>2. PICK con \in Conns, k \in Calls, r \in Replies : Taken(c, k, con, r)
  BY TakeShape
<1>3. /\ con.state = "busy" /\ k.op \in {"init", "del", "set", "get"} /\ k.left > 0
      /\ Took(c, k, con, r)
  BY <1>2 DEF Taken
<1>4. c \notin raised /\ k.op \in {"set", "get"} /\ ~Doomed(k) =>
         /\ Tells(k, Read(k) + 1, r, Layout, store[con.db])
         /\ InLine(k, con, Read(k) + 1, Layout, store[con.db])
         /\ Counts(k, con, Layout, store[con.db])
  BY <1>2, TakenKnows
<1>5. CASE k.op = "init"
  BY <1>1, <1>3, <1>5, NextGreetingTruthful DEF Took
<1>6. CASE k.op = "del"
  BY <1>1, <1>3, <1>6, NextDeleteTruthful DEF Took
<1>7. CASE k.op = "set"
  <2>1. ~Doomed(k) /\ TakePut(c, k, con, r)
    BY <1>3, <1>7 DEF Doomed, Took
  <2> QED
    BY <1>1, <1>3, <1>4, <1>7, <2>1, TakePutTruthful
<1>8. CASE k.op = "get"
  BY <1>1, <1>3, <1>4, <1>8, TakeContainsTruthful DEF Took
<1> QED
  BY <1>3, <1>5, <1>6, <1>7, <1>8

LEMMA FailTruthful == ASSUME IInv, Truthful, NEW c \in Clients, Fail(c) PROVE Truthful'
<1>1. UNCHANGED <<bits, store>>
  BY FailShape
<1>2. PICK k \in Calls : k = call[c]
  BY FailShape
<1>3. k.left > 0 /\ k.op \in {"init", "del", "set", "get"}
  BY <1>2, FailShape
<1>4. PICK con \in Conns : con.state = "busy" /\ Failed(c, k, con)
  BY <1>2, FailShape
<1>5. CASE k.op = "init"
  <2> DEFINE x == [con EXCEPT !.state = "dead"]
  <2>1. x \in Conns /\ x.state = "dead" /\ GoOn(c, k, x)
    BY <1>4, <1>5 DEF Conns, Failed
  <2> HIDE DEF x
  <2>2. Knows(k, x, Layout, store[x.db])
    BY <2>1 DEF Knows
  <2> QED
    BY <1>1, <2>1, <2>2, GoOnTruthful
<1>6. CASE k.op = "del"
  <2>1. NextDelete(c, k, con)
    BY <1>4, <1>6 DEF Failed
  <2> QED
    BY <1>1, <1>4, <1>6, <2>1, NextDeleteTruthful
<1>7. CASE k.op = "set"
  <2>1. Raise(c, k, con)
    BY <1>4, <1>7 DEF Failed
  <2> QED
    BY <1>1, <2>1, RaiseTruthful
<1>8. CASE k.op = "get"
  <2>1. PICK left \in Nat : left = ((k.left - 1) \div Hashes) * Hashes
    <3>1. k.left - 1 \in Nat
      BY <1>3 DEF Calls
    <3>2. (k.left - 1) \div Hashes \in Nat
      BY <3>1, Constants, DivType
    <3> QED
      BY <3>2, Constants
  <2>2. -1 \in {-1, 0, 1}
    OBVIOUS
  <2>3. PICK y \in Calls : AnswerOf(y, k, left, -1)
    BY <1>8, <2>2, AppendDoom
  <2>4. Answered(c, y, con)
    BY <1>4, <1>8, <2>1, <2>3 DEF Failed, AnswerOf
  <2>5. y.op = "get" /\ Doomed(y)
    BY <1>8, <2>3 DEF AnswerOf
  <2> QED
    BY <1>1, <1>4, <2>4, <2>5, AnsweredTruthful
<1> QED
  BY <1>3, <1>5, <1>6, <1>7, <1>8

-----------------------------------------------------------------------------
(* The server runs a command. *)

LEMMA ConcatTail ==
    ASSUME NEW S, NEW p \in Seq(S), NEW q \in Seq(S), p # <<>>
    PROVE  /\ 1 \in DOMAIN (p \o q) /\ (p \o q)[1] = Head(p)
           /\ \A i \in DOMAIN (Tail(p) \o q) :
                 i \in Nat /\ i + 1 \in DOMAIN (p \o q) /\ (Tail(p) \o q)[i] = (p \o q)[i + 1]
<1>1. Len(p) \in Nat /\ Len(q) \in Nat /\ Len(p) >= 1
  OBVIOUS
<1>2. PICK t \in Seq(S) :
        /\ t = Tail(p) /\ Len(t) = Len(p) - 1 /\ Head(p) = p[1]
        /\ \A i \in 1..(Len(p) - 1) : t[i] = p[i + 1]
  <2>1. /\ Tail(p) \in Seq(S) /\ Len(Tail(p)) = Len(p) - 1 /\ Head(p) = p[1]
        /\ \A i \in 1..(Len(p) - 1) : Tail(p)[i] = p[i + 1]
    OBVIOUS
  <2> QED
    BY <2>1
<1>3. /\ DOMAIN (p \o q) = 1..(Len(p) + Len(q))
      /\ \A i \in 1..(Len(p) + Len(q)) :
            (p \o q)[i] = IF i <= Len(p) THEN p[i] ELSE q[i - Len(p)]
  OBVIOUS
<1>4. /\ DOMAIN (t \o q) = 1..(Len(t) + Len(q))
      /\ \A i \in 1..(Len(t) + Len(q)) :
            (t \o q)[i] = IF i <= Len(t) THEN t[i] ELSE q[i - Len(t)]
  OBVIOUS
<1>5. ASSUME NEW i \in 1..(Len(t) + Len(q))
      PROVE  i + 1 \in 1..(Len(p) + Len(q)) /\ (t \o q)[i] = (p \o q)[i + 1]
  <2>1. i + 1 \in 1..(Len(p) + Len(q)) /\ i \in Nat
    BY <1>1, <1>2
  <2>2. CASE i <= Len(t)
    <3>1. i \in 1..(Len(p) - 1) /\ i + 1 <= Len(p)
      BY <1>1, <1>2, <2>1, <2>2
    <3> QED
      BY <1>2, <1>3, <1>4, <2>1, <2>2, <3>1
  <2>3. CASE ~(i <= Len(t))
    <3>1. ~(i + 1 <= Len(p)) /\ (i + 1) - Len(p) = i - Len(t)
      BY <1>1, <1>2, <2>1, <2>3
    <3> QED
      BY <1>3, <1>4, <2>1, <2>3, <3>1
  <2> QED
    BY <2>1, <2>2, <2>3
<1>6. 1 \in DOMAIN (p \o q) /\ (p \o q)[1] = Head(p)
  BY <1>1, <1>2, <1>3
<1> QED
  BY <1>2, <1>3, <1>4, <1>5, <1>6

\* The command at the head of the line has become the last reply on it.
LEMMA ServedLine ==
    ASSUME NEW con \in Conns, NEW x \in Conns, NEW r \in Replies, con.wire # <<>>,
           Answers(con, r, x)
    PROVE  /\ Heard(con) \in Seq(Replies) /\ Heard(x) \in Seq(Replies)
           /\ con.up => /\ Len(Heard(x)) = Len(Heard(con)) + 1
                        /\ Heard(x)[Len(Heard(con)) + 1] = r
                        /\ \A i \in 1..Len(Heard(con)) : Heard(x)[i] = Heard(con)[i]
           /\ ~con.up => Heard(x) = Heard(con)
           /\ 1 \in DOMAIN Asked(con) /\ Asked(con)[1] = Head(con.wire)
           /\ \A i \in DOMAIN Asked(x) :
                 i \in Nat /\ i + 1 \in DOMAIN Asked(con) /\ Asked(x)[i] = Asked(con)[i + 1]
<1>1. /\ con.wire \in Seq(Commands) /\ con.obuf \in Seq(Commands)
      /\ con.reader \in Seq(Replies) /\ con.sock \in Seq(Replies)
  BY DEF Conns
<1>2. /\ x.wire = Tail(con.wire) /\ x.obuf = con.obuf /\ x.reader = con.reader
      /\ x.sock = IF con.up THEN Append(con.sock, r) ELSE con.sock
  BY DEF Answers
<1>3. \A p, q \in Seq(Commands) : p # <<>> =>
        /\ 1 \in DOMAIN (p \o q) /\ (p \o q)[1] = Head(p)
        /\ \A i \in DOMAIN (Tail(p) \o q) :
              i \in Nat /\ i + 1 \in DOMAIN (p \o q) /\ (Tail(p) \o q)[i] = (p \o q)[i + 1]
  BY ConcatTail
<1>4. \A p, q \in Seq(Replies) :
        /\ p \o q \in Seq(Replies) /\ p \o Append(q, r) \in Seq(Replies)
        /\ Len(p \o Append(q, r)) = Len(p \o q) + 1
        /\ (p \o Append(q, r))[Len(p \o q) + 1] = r
        /\ \A i \in 1..Len(p \o q) : (p \o Append(q, r))[i] = (p \o q)[i]
  OBVIOUS
<1>5. PICK a \in Seq(Replies), b \in Seq(Replies) : a = con.reader /\ b = con.sock
  BY <1>1
<1>6. /\ Heard(con) = a \o b
      /\ Heard(x) = IF con.up THEN a \o Append(b, r) ELSE a \o b
  BY <1>2, <1>5 DEF Heard
<1>7. /\ Heard(con) \in Seq(Replies) /\ Heard(x) \in Seq(Replies)
      /\ con.up => /\ Len(Heard(x)) = Len(Heard(con)) + 1
                   /\ Heard(x)[Len(Heard(con)) + 1] = r
                   /\ \A i \in 1..Len(Heard(con)) : Heard(x)[i] = Heard(con)[i]
      /\ ~con.up => Heard(x) = Heard(con)
  <2>1. a \in Seq(Replies) /\ b \in Seq(Replies)
    OBVIOUS
  <2>2. /\ a \o b \in Seq(Replies) /\ a \o Append(b, r) \in Seq(Replies)
        /\ Len(a \o Append(b, r)) = Len(a \o b) + 1
        /\ (a \o Append(b, r))[Len(a \o b) + 1] = r
        /\ \A i \in 1..Len(a \o b) : (a \o Append(b, r))[i] = (a \o b)[i]
    BY ONLY <1>4, <2>1
  <2>3. PICK f, g : f = a \o b /\ g = a \o Append(b, r)
    OBVIOUS
  <2> QED
    BY ONLY <1>6, <2>2, <2>3
<1>8. PICK u \in Seq(Commands), v \in Seq(Commands) : u = con.wire /\ v = con.obuf
  BY <1>1
<1>9. Asked(con) = u \o v /\ Asked(x) = Tail(u) \o v /\ u # <<>>
  BY <1>2, <1>8 DEF Asked
<1>10. /\ 1 \in DOMAIN Asked(con) /\ Asked(con)[1] = Head(con.wire)
       /\ \A i \in DOMAIN Asked(x) :
             i \in Nat /\ i + 1 \in DOMAIN Asked(con) /\ Asked(x)[i] = Asked(con)[i + 1]
  <2>1. u \in Seq(Commands) /\ v \in Seq(Commands)
    OBVIOUS
  <2>2. /\ 1 \in DOMAIN (u \o v) /\ (u \o v)[1] = Head(u)
        /\ \A i \in DOMAIN (Tail(u) \o v) :
              i \in Nat /\ i + 1 \in DOMAIN (u \o v) /\ (Tail(u) \o v)[i] = (u \o v)[i + 1]
    BY ONLY <1>3, <1>9, <2>1
  <2> QED
    BY ONLY <1>8, <1>9, <2>2
<1> QED
  BY <1>7, <1>10

\* What running m makes of the databases and of what is kept in them.
LEMMA RanStore ==
    ASSUME IInv, NEW c \in Clients, NEW m \in Commands, NEW con \in Conns, NEW r, NEW x,
           Ran(c, m, con, r, x)
    PROVE  /\ \A d \in Databases : (m.op = "del" /\ ~r.bad /\ d = con.db) \/ store[d] \subseteq store'[d]
           /\ m.op = "set" /\ ~r.bad => m.at \in store'[con.db]
           /\ \A pl : Kept(stored, pl, store) => Kept(stored', pl, store')
<1>1. /\ con.db \in Databases /\ store \in [Databases -> SUBSET (Nat \X Nat)]
      /\ stored \in [Databases -> SUBSET Items]
  BY DEF Conns, IInv, TypeOK
<1>2. \A d \in Databases : (m.op = "del" /\ ~r.bad /\ d = con.db) \/ store[d] \subseteq store'[d]
  <2>1. CASE m.op = "del" /\ ~r.bad
    <3>1. store' = [store EXCEPT ![con.db] = {b \in @ : b[1] # m.at[1]}]
      BY <2>1 DEF Ran
    <3> QED
      BY <1>1, <2>1, <3>1
  <2>2. CASE ~(m.op = "del" /\ ~r.bad)
    <3>1. store' = store \/ store' = [store EXCEPT ![con.db] = @ \cup {m.at}]
      BY <2>2 DEF Ran
    <3> QED
      BY <1>1, <3>1
  <2> QED
    BY <2>1, <2>2
<1>3. m.op = "set" /\ ~r.bad => m.at \in store'[con.db]
  BY <1>1 DEF Ran
<1>4. ASSUME NEW pl, Kept(stored, pl, store), NEW d \in Databases, NEW i \in stored'[d]
      PROVE  Stays(i, pl, store'[d])
  <2>1. ~(m.op = "del" /\ ~r.bad /\ d = con.db) /\ i \in stored[d]
    <3>1. CASE m.op = "del" /\ ~r.bad
      <4>1. stored' = [stored EXCEPT ![con.db] = {}]
        BY <3>1 DEF Ran
      <4> QED
        BY <1>1, <1>4, <4>1
    <3>2. CASE ~(m.op = "del" /\ ~r.bad)
      BY <1>4, <3>2 DEF Ran
    <3> QED
      BY <3>1, <3>2
  <2>2. store[d] \subseteq store'[d]
    BY <1>2, <2>1
  <2>3. Stays(i, pl, store[d])
    BY <1>4, <2>1 DEF Kept
  <2> QED
    BY <2>2, <2>3 DEF Stays
<1>5. \A pl : Kept(stored, pl, store) => Kept(stored', pl, store')
  BY <1>4 DEF Kept
<1> QED
  BY <1>2, <1>3, <1>5

\* Every object knows as much as before, of the database as it is now.
LEMMA RanKnows ==
    ASSUME IInv, Truthful, NEW c \in Clients, NEW m \in Commands, NEW r \in Replies, NEW x,
           Ran(c, m, conn[c], r, x), call' \in [Clients -> Calls],
           NEW e \in Clients, e \notin raised
    PROVE  Knows(call'[e], conn[e], Layout, store'[conn[e].db])
<1>1. PICK k \in Calls, y \in Calls, con \in Conns :
        k = call[e] /\ y = call'[e] /\ con = conn[e] /\ con.db \in Databases
  BY DEF IInv, TypeOK, Conns
<1>2. Alike(y, k) /\ Recalls(y, k, m.op = "del" /\ ~r.bad /\ Reached(e, conn[c]))
  <2>1. /\ Alike(call'[e], call[e])
        /\ Recalls(call'[e], call[e], m.op = "del" /\ ~r.bad /\ Reached(e, conn[c]))
    BY RanAlike
  <2> QED
    BY <1>1, <2>1
<1>3. (m.op = "del" /\ ~r.bad /\ con.db = conn[c].db) \/ store[con.db] \subseteq store'[con.db]
  <2>1. conn[c] \in Conns
    BY DEF IInv, TypeOK
  <2> QED
    BY <1>1, <2>1, RanStore
<1>4. Knows(k, con, Layout, store[con.db])
  BY <1>1 DEF Truthful
<1>5. \/ store[con.db] \subseteq store'[con.db] /\ y.must = k.must /\ y.swept = k.swept
      \/ y.must = {} /\ y.swept = (k.op = "set")
      \/ con.state # "busy" /\ y.must = k.must
  BY <1>1, <1>2, <1>3 DEF Recalls, Reached
<1>6. Knows(y, con, Layout, store'[con.db])
  <2>1. k \in Calls /\ y \in Calls /\ con \in Conns
    OBVIOUS
  <2> QED
    BY ONLY <1>2, <2>1, <1>4, <1>5, StillKnows
<1> QED
  BY <1>1, <1>6

\* The answer of the server says of its position what the call expects.
LEMMA AnswerTells ==
    ASSUME NEW c, NEW m \in Commands, NEW con \in Conns, NEW r \in Replies, NEW x,
           Ran(c, m, con, r, x), NEW k, NEW y, NEW p \in Nat \ {0}, NEW pl, NEW st,
           Alike(y, k), y.must \subseteq k.must, y.op \in {"set", "get"},
           m.op = y.op, m.at = At(y, p, pl),
           \A i \in k.must : Stays(i, pl, store[con.db]),
           m.op = "set" /\ ~r.bad => m.at \in st
    PROVE  Tells(y, p, r, pl, st)
<1>1. Item(y, p) = Item(k, p) /\ At(y, p, pl) = At(k, p, pl)
  BY AlikeFields
<1>2. Item(y, p) \in y.must => At(y, p, pl) \in store[con.db]
  <2>1. ASSUME Item(y, p) \in y.must PROVE At(y, p, pl) \in store[con.db]
    <3>1. PICK b : b = store[con.db] /\ Stays(Item(k, p), pl, b)
      BY <1>1, <2>1
    <3>2. At(k, p, pl) \in b
      BY <3>1, StaysAt
    <3> QED
      BY <1>1, <3>1, <3>2
  <2> QED
    BY <2>1
<1>3. ~r.bad => r.val = IF m.at \in store[con.db] THEN 1 ELSE 0
  BY DEF Ran
<1> QED
  BY <1>2, <1>3 DEF Tells

LEMMA MovedLine ==
    ASSUME NEW c, NEW m \in Commands, NEW con \in Conns, NEW r \in Replies, NEW x \in Conns,
           con.wire # <<>>, m = Head(con.wire), Ran(c, m, con, r, x), Answers(con, r, x),
           NEW k, NEW y, NEW n \in Nat, NEW pl, NEW st,
           Alike(y, k), y.must \subseteq k.must, y.op \in {"set", "get"},
           InLine(k, con, n, pl, store[con.db]), InLine(y, con, n, pl, st),
           m.op = "set" /\ ~r.bad => m.at \in st
    PROVE  InLine(y, x, n, pl, st)
<1>1. x.up = con.up
  BY DEF Answers
<1>2. y.left <= Hashes * Len(y.items) /\ \A i \in y.must : Stays(i, pl, st)
  BY DEF InLine
<1>3. PICK h \in Seq(Replies), g \in Seq(Replies), w \in Nat :
        h = Heard(con) /\ g = Heard(x) /\ w = Len(h)
  BY ServedLine
<1>4. \A i \in 1..w : Tells(y, n + i, h[i], pl, st)
  BY <1>3 DEF InLine
<1>5. CASE ~con.up
  <2>1. Heard(x) = Heard(con)
    BY <1>5, ServedLine
  <2> QED
    BY <1>1, <1>2, <1>5, <2>1 DEF InLine
<1>6. CASE con.up
  <2>1. Len(g) = w + 1 /\ g[w + 1] = r /\ \A i \in 1..w : g[i] = h[i]
    BY <1>3, <1>6, ServedLine
  <2>2. \A i \in DOMAIN Asked(con) :
          Asked(con)[i].op = y.op /\ Asked(con)[i].at = At(y, (n + w) + i, pl)
    BY <1>3, <1>6 DEF InLine
  <2>3. m.op = y.op /\ m.at = At(y, (n + w) + 1, pl)
    BY <2>2, ServedLine
  <2>4. Tells(y, (n + w) + 1, r, pl, st)
    <3>1. PICK p \in Nat \ {0} : p = (n + w) + 1
      OBVIOUS
    <3>2. m.at = At(y, p, pl)
      BY <2>3, <3>1
    <3>3. \A i \in k.must : Stays(i, pl, store[con.db])
      BY DEF InLine
    <3>4. Tells(y, p, r, pl, st)
      BY <2>3, <3>2, <3>3, AnswerTells
    <3> QED
      BY <3>1, <3>4
  <2>5. \A i \in DOMAIN Heard(x) : Tells(y, n + i, Heard(x)[i], pl, st)
    <3> SUFFICES ASSUME NEW i \in 1..(w + 1) PROVE Tells(y, n + i, g[i], pl, st)
      BY <1>3, <2>1
    <3>1. CASE i = w + 1
      <4>1. n + i = (n + w) + 1
        BY <3>1
      <4> QED
        BY <2>1, <2>4, <3>1, <4>1
    <3>2. CASE i # w + 1
      BY <1>4, <2>1, <3>2
    <3> QED
      BY <3>1, <3>2
  <2>6. ASSUME NEW i \in DOMAIN Asked(x)
        PROVE  Asked(x)[i].op = y.op /\ Asked(x)[i].at = At(y, (n + (w + 1)) + i, pl)
    <3>1. i \in Nat /\ i + 1 \in DOMAIN Asked(con) /\ Asked(x)[i] = Asked(con)[i + 1]
      BY ServedLine
    <3>2. (n + w) + (i + 1) = (n + (w + 1)) + i
      BY <3>1
    <3> QED
      BY <2>2, <3>1, <3>2
  <2> QED
    BY <1>2, <1>3, <2>1, <2>5, <2>6 DEF InLine
<1> QED
  BY <1>5, <1>6

\* A SELECT under way names the database the object is on already.
LEMMA SameDatabase ==
    ASSUME IInv, Orderly, NEW c \in Clients, NEW m \in Commands, NEW r \in Replies,
           NEW x \in Conns, conn[c].wire # <<>>, m = Head(conn[c].wire),
           Ran(c, m, conn[c], r, x), conn[c].state = "busy", call[c].op # "init"
    PROVE  x.db = conn[c].db
<1>1. PICK con \in Conns, k \in {call[c]} : con = conn[c] /\ k = call[c]
  BY DEF IInv, TypeOK
<1>2. Selects(k, con, requires) /\ AtHome(con)
  BY <1>1, OrderlyObject DEF Settled
<1>3. m \in El(con.wire)
  <2>1. con.wire \in Seq(Commands)
    BY DEF Conns
  <2> QED
    BY <1>1, <2>1, ElTail
<1>4. m \in El(Asked(con))
  BY <1>3, ElAsked
<1>5. x.db = IF m.op = "select" /\ ~r.bad THEN m.at[1] ELSE con.db
  BY <1>1 DEF Ran
<1> QED
  BY <1>1, <1>2, <1>4, <1>5 DEF Selects, AtHome

LEMMA ExecTruthful == ASSUME IInv, Orderly, Truthful, NEW c \in Clients, Exec(c) PROVE Truthful'
<1>1. UNCHANGED <<bits, requires, raised>> /\ conn[c].wire # <<>>
  BY ExecShape
<1>2. PICK m \in Commands, r \in Replies, x \in Conns :
        /\ m = Head(conn[c].wire) /\ Ran(c, m, conn[c], r, x) /\ Answers(conn[c], r, x)
        /\ conn' = [conn EXCEPT ![c] = x]
  BY ServedShape
<1>3. call' \in [Clients -> Calls]
  BY ExecInv DEF IInv, TypeOK
<1>4. \A e \in Clients : e \notin raised => Knows(call'[e], conn[e], Layout, store'[conn[e].db])
  BY <1>2, <1>3, RanKnows
<1>5. PICK con \in Conns, k \in Calls, y \in Calls :
        con = conn[c] /\ k = call[c] /\ y = call'[c] /\ con.db \in Databases
  BY <1>3 DEF IInv, TypeOK, Conns
<1>6. Ran(c, m, con, r, x) /\ Answers(con, r, x) /\ con.wire # <<>> /\ m = Head(con.wire)
  BY <1>1, <1>2, <1>5
<1>7. /\ \A pl : Kept(stored, pl, store) => Kept(stored', pl, store')
      /\ m.op = "set" /\ ~r.bad => m.at \in store'[con.db]
  BY <1>6, RanStore
<1>8. Kept(stored', Layout, store')
  BY <1>7 DEF Truthful
<1>9. Alike(y, k) /\ y.must \subseteq k.must
  <2>1. /\ Alike(call'[c], call[c])
        /\ Recalls(call'[c], call[c], m.op = "del" /\ ~r.bad /\ Reached(c, con))
    BY <1>6, RanAlike
  <2> QED
    BY <1>5, <2>1 DEF Recalls
<1>10. x.state = con.state /\ x.err = con.err
  BY <1>6 DEF Answers
<1>11. PICK pl, st : pl = Layout /\ st = store'[con.db]
  OBVIOUS
<1>12. ASSUME c \notin raised PROVE Knows(y, x, pl, store'[x.db])
  <2>1. Knows(y, con, pl, st) /\ Knows(k, con, pl, store[con.db])
    BY <1>4, <1>5, <1>11, <1>12 DEF Truthful
  <2>2. ASSUME con.state = "busy", y.op \in {"set", "get"}, ~Doomed(y)
        PROVE  InLine(y, x, Read(y), pl, store'[x.db]) /\ Counts(y, x, pl, store'[x.db])
    <3>1. k.op = y.op /\ ~Doomed(k) /\ Read(k) = Read(y)
      BY <1>9, <2>2, AlikeFields DEF Alike
    <3>2. InLine(y, con, Read(y), pl, st) /\ Counts(y, con, pl, st)
      BY <2>1, <2>2 DEF Knows
    <3>3. InLine(k, con, Read(y), pl, store[con.db])
      BY <2>1, <2>2, <3>1 DEF Knows
    <3>4. x.db = con.db
      BY <1>1, <1>2, <1>5, <2>2, <3>1, SameDatabase
    <3>5. PICK n \in Nat : n = Read(y)
      BY <3>2, ReadType DEF InLine
    <3>6. InLine(y, x, n, pl, st)
      BY <1>6, <1>7, <1>9, <1>11, <2>2, <3>2, <3>3, <3>5, MovedLine
    <3>7. Counts(y, x, pl, st)
      BY <1>10, <3>2 DEF Counts
    <3> QED
      BY <1>11, <3>4, <3>5, <3>6, <3>7
  <2> QED
    BY <1>10, <2>1, <2>2 DEF Knows
<1> QED
  BY <1>1, <1>2, <1>4, <1>5, <1>8, <1>11, <1>12, OneTruthful

LEMMA NextTruthful == IInv /\ Orderly /\ Truthful /\ [Next]_vars => Truthful'
<1> SUFFICES ASSUME IInv, Orderly, Truthful, [Next]_vars PROVE Truthful'
  OBVIOUS
<1>1. ASSUME NEW c \in Clients,
             \/ Connect(c) \/ Dealloc(c)
             \/ Put(c) \/ Add(c) \/ Extend(c) \/ Contains(c) \/ In(c) \/ Delete(c)
             \/ Client(c) \/ Exec(c) \/ Break(c)
      PROVE  Truthful'
  <2>1. Connect(c) => Truthful'
    BY ConnectTruthful
  <2>2. Dealloc(c) => Truthful'
    BY DeallocTruthful
  <2>3. Put(c) \/ Add(c) \/ Extend(c) \/ Contains(c) \/ In(c) => Truthful'
    BY CallTruthful
  <2>4. Delete(c) => Truthful'
    BY DeleteTruthful
  <2>5. Client(c) => Truthful'
    BY FlushTruthful, TakeTruthful, FailTruthful DEF Client
  <2>6. Exec(c) => Truthful'
    BY ExecTruthful
  <2>7. Break(c) => Truthful'
    BY BreakTruthful
  <2> QED
    BY <1>1, <2>1, <2>2, <2>3, <2>4, <2>5, <2>6, <2>7
<1>2. ASSUME UNCHANGED vars PROVE Truthful'
  <2>1. Layout' = Layout
    BY <1>2 DEF vars, Layout, Place
  <2> QED
    BY <1>2, <2>1 DEF vars, Truthful
<1> QED
  BY <1>1, <1>2 DEF Next

(* An object that has not raised answers yes for every value that some put *)
(* stored before its contains began and no delete swept away meanwhile,    *)
(* and its put counts none of those as new: the bits that add sets for the *)
(* value stay, check asks for the same ones, and its replies are read in   *)
(* the order of the commands.                                              *)
THEOREM NoFalseNegative == Spec => []NoMiss
<1>1. ASSUME Truthful, IInv PROVE NoMiss
  <2> SUFFICES ASSUME NEW c \in Clients, conn[c].state = "idle", c \notin raised, NEW k \in Calls,
                      k = call[c]
               PROVE  /\ k.op = "get" =>
                           /\ Len(k.answers) = Len(k.items)
                           /\ \A n \in DOMAIN k.items : k.items[n] \in k.must => k.answers[n] = 1
                      /\ k.op = "set" =>
                           k.new <= Cardinality({n \in DOMAIN k.items : k.items[n] \notin k.must})
    BY <1>1 DEF NoMiss, IInv, TypeOK
  <2>1. Result(k)
    BY <1>1 DEF Truthful, Knows
  <2>2. DOMAIN k.items = 1..Len(k.items)
    BY DEF Calls
  <2>3. News(k, Len(k.items)) = {n \in DOMAIN k.items : k.items[n] \notin k.must}
    BY <2>2 DEF News
  <2> QED
    BY <2>1, <2>3 DEF Result
<1>2. IInv /\ Orderly /\ Truthful => NoMiss
  BY <1>1
<1> QED
  BY <1>2, InitInv, NextInv, InitOrderly, NextOrderly, InitTruthful, NextTruthful, PTL DEF Spec

=============================================================================
