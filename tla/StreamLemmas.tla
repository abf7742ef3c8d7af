---------------------------- MODULE StreamLemmas ----------------------------
(***************************************************************************)
(* What FlattenSeq of SequencesExt, which is defined by a recursive        *)
(* function, computes for a sequence of sequences of any length.  Streams  *)
(* of updates are described with it.  And what it means that a sequence is *)
(* a piece of another one.                                                 *)
(***************************************************************************)
EXTENDS Integers, Sequences, SequencesExt, SequenceTheorems, WellFoundedInduction, TLAPS

(* Induction over the naturals, for a set: the provers cannot instantiate  *)
(* the theorems of the library, which have an operator for a parameter.    *)
LEMMA SetInduction ==
  ASSUME NEW S, 0 \in S, \A n \in Nat : n \in S => n + 1 \in S
  PROVE  \A n \in Nat : n \in S
<1> DEFINE Less == {p \in Nat \X Nat : p[1] < p[2]}
           Rest == {n \in Nat : n \notin S}
<1>1. IsWellFoundedOn(Less, Nat)
  BY NatLessThanWellFounded DEF OpToRel
<1>2. SUFFICES ASSUME Rest # {} PROVE FALSE
  OBVIOUS
<1> HIDE DEF Less
<1>3. PICK n \in Rest : \A m \in Rest : <<m, n>> \notin Less
  BY <1>1, <1>2, WFMin, Rest \subseteq Nat
<1>4. n \in Nat /\ n # 0 /\ n - 1 \in Nat /\ n - 1 < n
  BY <1>3
<1>5. <<n - 1, n>> \in Less
  BY <1>4 DEF Less
<1>6. n - 1 \in S
  BY <1>3, <1>4, <1>5
<1>7. (n - 1) + 1 \in S
  BY <1>4, <1>6
<1>8. QED BY <1>3, <1>4, <1>7

(* f joins the first sequences of s: the recursion of FlattenSeq.          *)
Joins(f, s, n) ==
  f = [i \in 1 .. n |-> IF i = 1 THEN s[i] ELSE f[i - 1] \o s[i]]

LEMMA JoinExists ==
  ASSUME NEW S, NEW s \in Seq(Seq(S)), NEW n \in 0 .. Len(s)
  PROVE  \E f \in [1 .. n -> Seq(S)] : Joins(f, s, n)
<1> DEFINE Good == {k \in Nat : k <= Len(s) => \E f \in [1 .. k -> Seq(S)] : Joins(f, s, k)}
<1>1. 0 \in Good
  <2>1. <<>> \in [1 .. 0 -> Seq(S)] /\ 1 .. 0 = {}
    OBVIOUS
  <2> DEFINE e == [i \in 1 .. 0 |-> <<>>]
  <2>2. Joins(e, s, 0)
    BY <2>1 DEF Joins
  <2>3. e \in [1 .. 0 -> Seq(S)]
    BY <2>1
  <2> HIDE DEF e
  <2>4. QED BY <2>2, <2>3
<1>2. ASSUME NEW k \in Nat, k \in Good PROVE k + 1 \in Good
  <2>1. SUFFICES ASSUME k + 1 <= Len(s)
                 PROVE  \E f \in [1 .. k + 1 -> Seq(S)] : Joins(f, s, k + 1)
    BY <1>2
  <2>2. Len(s) \in Nat /\ k <= Len(s) /\ \A i \in 1 .. k + 1 : s[i] \in Seq(S)
    BY <2>1
  <2>3. PICK f \in [1 .. k -> Seq(S)] : Joins(f, s, k)
    BY <1>2, <2>2
  <2> DEFINE g == [i \in 1 .. k + 1 |-> IF i <= k THEN f[i]
                                         ELSE IF i = 1 THEN s[i] ELSE f[i - 1] \o s[i]]
  <2>4. \A i \in 1 .. k : f[i] = IF i = 1 THEN s[i] ELSE f[i - 1] \o s[i]
    BY <2>3 DEF Joins
  <2>5. ASSUME NEW i \in 1 .. k + 1 
        PROVE  g[i] \in Seq(S) /\ g[i] = IF i = 1 THEN s[i] ELSE g[i - 1] \o s[i]
    <3>1. CASE i <= k
      <4>1. i \in 1 .. k /\ (i # 1 => i - 1 \in 1 .. k + 1 /\ i - 1 <= k)
        BY <3>1
      <4>2. g[i] = f[i] /\ (i # 1 => g[i - 1] = f[i - 1]) /\ f[i] \in Seq(S)
        BY <3>1, <4>1
      <4> HIDE DEF g
      <4>3. QED BY <2>4, <4>1, <4>2
    <3>2. CASE i = k + 1 /\ k = 0
      BY <2>2, <3>2
    <3>3. CASE i = k + 1 /\ k # 0
      <4>1. i - 1 \in 1 .. k /\ i \in 1 .. k + 1 /\ i # 1 /\ ~(i <= k)
        BY <3>3
      <4>2. g[i - 1] = f[i - 1] /\ f[i - 1] \in Seq(S)
        BY <4>1
      <4>3. g[i] = f[i - 1] \o s[i]
        BY <4>1
      <4>4. QED BY <2>2, <4>1, <4>2, <4>3, ConcatProperties
    <3>4. QED BY <3>1, <3>2, <3>3
  <2>6. DOMAIN g = 1 .. k + 1
    OBVIOUS
  <2>7. g \in [1 .. k + 1 -> Seq(S)]
    BY <2>5, <2>6
  <2>8. g = [i \in 1 .. k + 1 |-> g[i]]
    OBVIOUS
  <2> HIDE DEF g
  <2>9. Joins(g, s, k + 1)
    BY <2>5, <2>8 DEF Joins
  <2>10. QED BY <2>7, <2>9
<1>3. \A k \in Nat : k \in Good
  BY <1>1, <1>2, SetInduction
<1>4. n \in Nat /\ n <= Len(s)
  OBVIOUS
<1>5. QED BY <1>3, <1>4

(* There is one such function, and that of a part agrees with it.          *)
LEMMA JoinUnique ==
  ASSUME NEW s, NEW m \in Nat, NEW n \in Nat, NEW f, NEW g,
         Joins(f, s, m), Joins(g, s, n), NEW j \in 1 .. m, j <= n
  PROVE  f[j] = g[j]
<1> DEFINE Good == {k \in Nat : k \in 1 .. m /\ k <= n => f[k] = g[k]}
<1>1. \A i \in 1 .. m : f[i] = IF i = 1 THEN s[i] ELSE f[i - 1] \o s[i]
  BY DEF Joins
<1>2. \A i \in 1 .. n : g[i] = IF i = 1 THEN s[i] ELSE g[i - 1] \o s[i]
  BY DEF Joins
<1>3. 0 \in Good
  OBVIOUS
<1>4. ASSUME NEW k \in Nat, k \in Good PROVE k + 1 \in Good
  <2>1. SUFFICES ASSUME k + 1 \in 1 .. m, k + 1 <= n PROVE f[k + 1] = g[k + 1]
    OBVIOUS
  <2>2. k + 1 \in 1 .. n /\ (k + 1) - 1 = k
    BY <2>1
  <2>3. CASE k = 0
    BY <1>1, <1>2, <2>1, <2>2, <2>3
  <2>4. CASE k # 0
    <3>1. f[k] = g[k] /\ k + 1 # 1
      BY <1>4, <2>1, <2>4
    <3>2. QED BY <1>1, <1>2, <2>1, <2>2, <3>1
  <2>5. QED BY <2>3, <2>4
<1>5. \A k \in Nat : k \in Good
  BY <1>3, <1>4, SetInduction
<1>6. QED BY <1>5

LEMMA FlattenIsJoin ==
  ASSUME NEW S, NEW s \in Seq(Seq(S)), NEW f, Joins(f, s, Len(s)), Len(s) # 0
  PROVE  FlattenSeq(s) = f[Len(s)]
<1> DEFINE n == Len(s)
           flatten == CHOOSE g : Joins(g, s, n)
<1>1. n \in Nat /\ n \in 1 .. n
  OBVIOUS
<1>2. Joins(flatten, s, n)
  OBVIOUS
<1>3. FlattenSeq(s) = flatten[n]
  BY DEF FlattenSeq, Joins
<1> HIDE DEF flatten, n
<1>4. flatten[n] = f[n]
  BY <1>1, <1>2, JoinUnique DEF n
<1>5. QED BY <1>3, <1>4 DEF n

(* Nothing flattens to nothing.                                            *)
LEMMA FlattenEmpty == FlattenSeq(<<>>) = <<>>
BY EmptySeq DEF FlattenSeq

LEMMA FlattenType ==
  ASSUME NEW S, NEW s \in Seq(Seq(S))
  PROVE  FlattenSeq(s) \in Seq(S)
<1>1. CASE Len(s) = 0
  <2>1. s = <<>>
    BY <1>1, EmptySeq
  <2>2. QED BY <2>1, FlattenEmpty, EmptySeq
<1>2. CASE Len(s) # 0
  <2>1. Len(s) \in Nat /\ Len(s) \in 0 .. Len(s) /\ Len(s) \in 1 .. Len(s)
    BY <1>2
  <2>2. PICK f \in [1 .. Len(s) -> Seq(S)] : Joins(f, s, Len(s))
    BY <2>1, JoinExists
  <2>3. QED BY <1>2, <2>1, <2>2, FlattenIsJoin
<1>3. QED BY <1>1, <1>2

(* A sequence appended is joined at the end.                               *)
LEMMA FlattenAppend ==
  ASSUME NEW S, NEW s \in Seq(Seq(S)), NEW x \in Seq(S)
  PROVE  FlattenSeq(Append(s, x)) = FlattenSeq(s) \o x
<1> DEFINE n == Len(s)
           t == Append(s, x)
<1>1. /\ n \in Nat /\ t \in Seq(Seq(S)) /\ Len(t) = n + 1 /\ t[n + 1] = x
      /\ \A i \in 1 .. n : t[i] = s[i]
  BY AppendProperties
<1> HIDE DEF t, n
<1>2. Len(t) \in 0 .. Len(t) /\ n \in 0 .. Len(t)
  BY <1>1
<1>3. PICK f \in [1 .. Len(t) -> Seq(S)] : Joins(f, t, Len(t))
  BY <1>1, <1>2, JoinExists
<1>4. FlattenSeq(t) = f[n + 1]
  BY <1>1, <1>3, FlattenIsJoin
<1>5. \A i \in 1 .. n + 1 : f[i] = IF i = 1 THEN t[i] ELSE f[i - 1] \o t[i]
  BY <1>1, <1>3 DEF Joins
<1>6. CASE n = 0
  <2>1. s = <<>> /\ FlattenSeq(s) = <<>>
    BY <1>6, EmptySeq, FlattenEmpty DEF n
  <2>2. f[n + 1] = x
    BY <1>1, <1>5, <1>6
  <2>3. QED BY <1>4, <2>1, <2>2, ConcatEmptySeq DEF t
<1>7. CASE n # 0
  <2>1. n + 1 \in 1 .. n + 1 /\ n + 1 # 1 /\ (n + 1) - 1 = n /\ n \in 1 .. n
    BY <1>1, <1>7
  <2>2. f[n + 1] = f[n] \o x
    BY <1>1, <1>5, <2>1
  <2> DEFINE g == [i \in 1 .. n |-> f[i]]
  <2>3. \A i \in 1 .. n : f[i] = IF i = 1 THEN s[i] ELSE g[i - 1] \o s[i]
    <3>1. ASSUME NEW i \in 1 .. n
          PROVE  f[i] = IF i = 1 THEN s[i] ELSE g[i - 1] \o s[i]
      <4>1. i \in 1 .. n + 1 /\ t[i] = s[i] /\ (i # 1 => i - 1 \in 1 .. n)
        BY <1>1
      <4>2. i # 1 => g[i - 1] = f[i - 1]
        BY <4>1
      <4>3. QED BY <1>5, <4>1, <4>2
    <3>2. QED BY <3>1
  <2>4. Joins(g, s, n)
    BY <2>3 DEF Joins
  <2>5. g[n] = f[n]
    BY <2>1
  <2> HIDE DEF g
  <2>6. FlattenSeq(s) = f[n]
    BY <1>7, <2>4, <2>5, FlattenIsJoin DEF n
  <2>7. QED BY <1>4, <2>2, <2>6 DEF t
<1>8. QED BY <1>6, <1>7

LEMMA Associative ==
  ASSUME NEW S, NEW a \in Seq(S), NEW b \in Seq(S), NEW c \in Seq(S)
  PROVE  (a \o b) \o c = a \o (b \o c)
<1>1. /\ a \o b \in Seq(S) /\ Len(a \o b) = Len(a) + Len(b)
      /\ \A i \in 1 .. Len(a) + Len(b) :
           (a \o b)[i] = IF i <= Len(a) THEN a[i] ELSE b[i - Len(a)]
  BY ConcatProperties
<1>2. /\ b \o c \in Seq(S) /\ Len(b \o c) = Len(b) + Len(c)
      /\ \A i \in 1 .. Len(b) + Len(c) :
           (b \o c)[i] = IF i <= Len(b) THEN b[i] ELSE c[i - Len(b)]
  BY ConcatProperties
<1> DEFINE ab == a \o b
           bc == b \o c
<1> HIDE DEF ab, bc
<1>3. ab \in Seq(S) /\ bc \in Seq(S)
  BY <1>1, <1>2 DEF ab, bc
<1>4. /\ ab \o c \in Seq(S) /\ Len(ab \o c) = Len(ab) + Len(c)
      /\ \A i \in 1 .. Len(ab) + Len(c) :
           (ab \o c)[i] = IF i <= Len(ab) THEN ab[i] ELSE c[i - Len(ab)]
  BY <1>3, ConcatProperties
<1>5. /\ a \o bc \in Seq(S) /\ Len(a \o bc) = Len(a) + Len(bc)
      /\ \A i \in 1 .. Len(a) + Len(bc) :
           (a \o bc)[i] = IF i <= Len(a) THEN a[i] ELSE bc[i - Len(a)]
  BY <1>3, ConcatProperties
<1> DEFINE l == ab \o c
           r == a \o bc
<1> HIDE DEF l, r
<1>6. Len(a) \in Nat /\ Len(b) \in Nat /\ Len(c) \in Nat
  OBVIOUS
<1>7. Len(ab) = Len(a) + Len(b) /\ Len(bc) = Len(b) + Len(c)
  BY <1>1, <1>2 DEF ab, bc
<1>8. /\ l \in Seq(S) /\ r \in Seq(S) /\ Len(l) = Len(a) + Len(b) + Len(c) /\ Len(l) = Len(r)
  BY <1>4, <1>5, <1>6, <1>7 DEF l, r
<1>9. ASSUME NEW i \in 1 .. Len(l) PROVE l[i] = r[i]
  <2>1. l[i] = IF i <= Len(ab) THEN ab[i] ELSE c[i - Len(ab)]
    BY <1>4, <1>6, <1>7, <1>8 DEF l
  <2>2. r[i] = IF i <= Len(a) THEN a[i] ELSE bc[i - Len(a)]
    BY <1>5, <1>6, <1>7, <1>8 DEF r
  <2>3. i <= Len(ab) => ab[i] = IF i <= Len(a) THEN a[i] ELSE b[i - Len(a)]
    BY <1>1, <1>6, <1>7 DEF ab
  <2>4. i > Len(a) => bc[i - Len(a)] = IF i - Len(a) <= Len(b) THEN b[i - Len(a)]
                                         ELSE c[(i - Len(a)) - Len(b)]
    BY <1>2, <1>6, <1>7, <1>8 DEF bc
  <2>5. (i - Len(a)) - Len(b) = i - Len(ab)
    BY <1>6, <1>7
  <2>6. QED BY <1>6, <1>7, <1>8, <2>1, <2>2, <2>3, <2>4, <2>5
<1>10. l = r
  BY <1>8, <1>9, SeqEqual
<1>11. QED BY <1>10 DEF l, r, ab, bc

(* The first sequence stands at the front.                                 *)
LEMMA FlattenHead ==
  ASSUME NEW S, NEW s \in Seq(Seq(S)), s # <<>>
  PROVE  FlattenSeq(s) = Head(s) \o FlattenSeq(Tail(s))
<1> DEFINE n == Len(s)
           t == Tail(s)
<1>1. /\ n \in Nat \ {0} /\ t \in Seq(Seq(S)) /\ Len(t) = n - 1 /\ s[1] = Head(s)
      /\ \A i \in 1 .. n - 1 : t[i] = s[i + 1]
  BY EmptySeq, HeadTailProperties
<1>2. \A i \in 1 .. n : s[i] \in Seq(S)
  OBVIOUS
<1> HIDE DEF n, t
<1>3. n \in 0 .. Len(s) /\ Len(t) \in 0 .. Len(t) /\ n = Len(s)
  BY <1>1 DEF n
<1>4. PICK f \in [1 .. n -> Seq(S)] : Joins(f, s, n)
  BY <1>3, JoinExists
<1>5. PICK g \in [1 .. Len(t) -> Seq(S)] : Joins(g, t, Len(t))
  BY <1>1, <1>3, JoinExists
<1>6. FlattenSeq(s) = f[n]
  BY <1>1, <1>3, <1>4, FlattenIsJoin
<1>7. \A i \in 1 .. n : f[i] = IF i = 1 THEN s[i] ELSE f[i - 1] \o s[i]
  BY <1>4 DEF Joins
<1>8. \A i \in 1 .. n - 1 : g[i] = IF i = 1 THEN t[i] ELSE g[i - 1] \o t[i]
  BY <1>1, <1>5 DEF Joins
<1>9. CASE n = 1
  <2>1. FlattenSeq(s) = Head(s) /\ t = <<>> /\ Head(s) \in Seq(S)
    BY <1>1, <1>2, <1>6, <1>7, <1>9, EmptySeq
  <2>2. QED BY <2>1, FlattenEmpty, ConcatEmptySeq DEF t
<1>10. CASE n # 1
  <2> DEFINE Good == {k \in Nat : 1 <= k /\ k < n => f[k + 1] = s[1] \o g[k]}
  <2>1. \A i \in 1 .. n - 1 : f[i + 1] = f[i] \o t[i]
    <3>1. ASSUME NEW i \in 1 .. n - 1 PROVE f[i + 1] = f[i] \o t[i]
      <4>1. i + 1 \in 1 .. n /\ i + 1 # 1 /\ (i + 1) - 1 = i /\ t[i] = s[i + 1]
        BY SMTT(30), <1>1
      <4>2. QED BY <1>7, <4>1
    <3>2. QED BY <3>1
  <2>2. 1 \in 1 .. n /\ 1 \in 1 .. n - 1
    BY <1>1, <1>10
  <2>3. f[1] = s[1] /\ g[1] = t[1]
    BY <1>7, <1>8, <2>2
  <2>4. 0 \in Good
    OBVIOUS
  <2>5. ASSUME NEW k \in Nat, k \in Good PROVE k + 1 \in Good
    <3>1. ASSUME NEW j \in Nat, j = k + 1, j < n PROVE f[j + 1] = s[1] \o g[j]
      <4>1. j \in 1 .. n - 1 /\ j - 1 = k
        BY <1>1, <3>1
      <4>2. f[j + 1] = f[j] \o t[j]
        BY <2>1, <4>1
      <4>3. CASE j = 1
        <5>1. f[j] = s[1] /\ t[j] = g[j]
          BY <2>3, <4>3
        <5>2. QED BY <4>2, <5>1
      <4>4. CASE j # 1
        <5>1. k \in 1 .. n - 1 /\ 1 <= k /\ k < n
          BY <1>1, <3>1, <4>4
        <5>2. f[j] = s[1] \o g[k]
          BY <2>5, <3>1, <5>1
        <5>3. g[j] = g[k] \o t[j]
          BY <1>8, <4>1, <4>4
        <5>4. s[1] \in Seq(S)
          BY <1>2, <2>2
        <5>5. g[k] \in Seq(S)
          BY <1>1, <1>5, <5>1
        <5>6. t[j] \in Seq(S)
          BY <1>1, <1>2, <4>1
        <5> DEFINE x == s[1]
                   y == g[k]
                   z == t[j]
        <5> HIDE DEF x, y, z, Good
        <5>7. (x \o y) \o z = x \o (y \o z)
          <6>1. x \in Seq(S) /\ y \in Seq(S) /\ z \in Seq(S)
            BY <5>4, <5>5, <5>6 DEF x, y, z
          <6>2. QED BY SMTT(30), <6>1, Associative
        <5> USE DEF x, y, z
        <5>8. QED BY <4>2, <5>2, <5>3, <5>7
      <4>5. QED BY <4>3, <4>4
    <3>2. ASSUME NEW j \in Nat, j = k + 1 PROVE j \in Good
      BY <3>1, <3>2
    <3> HIDE DEF Good
    <3>3. QED BY <3>2
  <2>6. \A k \in Nat : k \in Good
    BY <2>4, <2>5, SetInduction
  <2>7. n - 1 \in Nat /\ (n - 1) + 1 = n /\ 1 <= n - 1 /\ n - 1 < n
    BY <1>1, <1>10
  <2>8. f[n] = s[1] \o g[n - 1]
    BY <2>6, <2>7
  <2>9. FlattenSeq(t) = g[n - 1]
    BY <1>1, <1>5, <1>10, FlattenIsJoin
  <2>10. QED BY <1>1, <1>6, <2>8, <2>9 DEF t
<1>11. QED BY <1>9, <1>10

-------------------------------------------------------------------------------
(***************************************************************************)
(* Pieces of a sequence.                                                   *)
(***************************************************************************)
(* x stands in o behind the first a elements.                              *)
Piece(x, a, o) ==
  /\ a + Len(x) <= Len(o)
  /\ \A k \in 1 .. Len(x) : x[k] = o[a + k]

(* A piece stays one when the sequence grows.                              *)
LEMMA PieceGrows ==
  ASSUME NEW S, NEW o \in Seq(S), NEW m \in S, NEW x \in Seq(S), NEW a \in Nat,
         Piece(x, a, o)
  PROVE  Piece(x, a, Append(o, m))
<1> DEFINE p == Append(o, m)
<1>1. Len(p) = Len(o) + 1 /\ \A k \in 1 .. Len(o) : p[k] = o[k]
  BY AppendProperties
<1> HIDE DEF p
<1>2. Len(x) \in Nat /\ Len(o) \in Nat
  OBVIOUS
<1>3. \A k \in 1 .. Len(x) : a + k \in 1 .. Len(o)
  BY <1>2 DEF Piece
<1>4. Piece(x, a, p)
  BY <1>1, <1>2, <1>3 DEF Piece
<1>5. QED BY <1>4 DEF p

(* Two pieces that meet make one.                                          *)
LEMMA PiecesJoin ==
  ASSUME NEW S, NEW o \in Seq(S), NEW x \in Seq(S), NEW y \in Seq(S), NEW a \in Nat,
         Piece(x, a, o), Piece(y, a + Len(x), o)
  PROVE  Piece(x \o y, a, o)
<1> DEFINE z == x \o y
<1>1. /\ Len(z) = Len(x) + Len(y)
      /\ \A k \in 1 .. Len(x) + Len(y) : z[k] = IF k <= Len(x) THEN x[k] ELSE y[k - Len(x)]
  BY ConcatProperties
<1> HIDE DEF z
<1>2. Len(x) \in Nat /\ Len(y) \in Nat /\ Len(o) \in Nat
  OBVIOUS
<1>3. a + Len(z) <= Len(o)
  BY <1>1, <1>2 DEF Piece
<1>4. ASSUME NEW k \in 1 .. Len(z) PROVE z[k] = o[a + k]
  <2>1. CASE k <= Len(x)
    <3>1. k \in 1 .. Len(x) /\ k \in 1 .. Len(x) + Len(y)
      BY <1>1, <1>2, <2>1
    <3>2. z[k] = x[k] /\ x[k] = o[a + k]
      BY <1>1, <2>1, <3>1 DEF Piece
    <3>3. QED BY <3>2
  <2>2. CASE k > Len(x)
    <3>1. k - Len(x) \in 1 .. Len(y) /\ (a + Len(x)) + (k - Len(x)) = a + k
      BY <1>1, <1>2, <2>2
    <3>2. y[k - Len(x)] = o[(a + Len(x)) + (k - Len(x))]
      BY <3>1 DEF Piece
    <3>3. QED BY <1>1, <1>2, <2>2, <3>1, <3>2
  <2>3. QED BY <1>1, <1>2, <2>1, <2>2
<1>5. QED BY <1>3, <1>4 DEF Piece, z

(* The front of a piece is one.                                            *)
LEMMA PieceFront ==
  ASSUME NEW S, NEW o \in Seq(S), NEW x \in Seq(S), NEW y \in Seq(S), NEW a \in Nat,
         Piece(x \o y, a, o)
  PROVE  Piece(x, a, o)
<1> DEFINE z == x \o y
<1>1. /\ Len(z) = Len(x) + Len(y)
      /\ \A k \in 1 .. Len(x) + Len(y) : z[k] = IF k <= Len(x) THEN x[k] ELSE y[k - Len(x)]
  BY ConcatProperties
<1>2. Piece(z, a, o)
  OBVIOUS
<1> HIDE DEF z
<1>3. Len(x) \in Nat /\ Len(y) \in Nat /\ Len(o) \in Nat
  OBVIOUS
<1>4. QED BY <1>1, <1>2, <1>3 DEF Piece

LEMMA PieceOfNothing ==
  ASSUME NEW S, NEW o \in Seq(S), NEW a \in 0 .. Len(o)
  PROVE  Piece(<<>>, a, o)
<1>1. Len(<<>>) = 0 /\ Len(o) \in Nat
  OBVIOUS
<1>2. QED BY <1>1 DEF Piece

LEMMA PrefixByElements ==
  ASSUME NEW S, NEW x \in Seq(S), NEW y \in Seq(S), Len(x) <= Len(y),
         \A k \in 1 .. Len(x) : x[k] = y[k]
  PROVE  IsPrefix(x, y)
<1> DEFINE u == SubSeq(x, 1, Len(x))
           v == SubSeq(y, 1, Len(x))
<1>1. Len(x) \in Nat /\ Len(y) \in Nat /\ \A k \in 1 .. Len(x) : x[k] \in S /\ y[k] \in S
  OBVIOUS
<1>2. /\ u \in Seq(S) /\ Len(u) = IF 1 <= Len(x) THEN Len(x) - 1 + 1 ELSE 0
      /\ \A k \in 1 .. Len(x) - 1 + 1 : u[k] = x[1 + k - 1]
  BY <1>1, SubSeqProperties
<1>3. /\ v \in Seq(S) /\ Len(v) = IF 1 <= Len(x) THEN Len(x) - 1 + 1 ELSE 0
      /\ \A k \in 1 .. Len(x) - 1 + 1 : v[k] = y[1 + k - 1]
  BY <1>1, SubSeqProperties
<1> HIDE DEF u, v
<1>4. /\ Len(u) = Len(x) /\ Len(v) = Len(x)
      /\ \A k \in 1 .. Len(x) : u[k] = x[k] /\ v[k] = y[k]
  BY <1>1, <1>2, <1>3
<1>5. u = v
  BY <1>1, <1>2, <1>3, <1>4, SeqEqual
<1>6. QED BY <1>5 DEF IsPrefix, u, v

(* What a piece is in the words of SequencesExt.                           *)
LEMMA PieceIsPrefix ==
  ASSUME NEW S, NEW o \in Seq(S), NEW x \in Seq(S), NEW a \in 0 .. Len(o), Piece(x, a, o)
  PROVE  IsPrefix(x, SubSeq(o, a + 1, Len(o)))
<1> DEFINE y == SubSeq(o, a + 1, Len(o))
<1>1. Len(x) \in Nat /\ Len(o) \in Nat /\ a + 1 \in Int
      /\ \A k \in a + 1 .. Len(o) : o[k] \in S
  OBVIOUS
<1>2. /\ y \in Seq(S) /\ Len(y) = IF a + 1 <= Len(o) THEN Len(o) - (a + 1) + 1 ELSE 0
      /\ \A k \in 1 .. Len(o) - (a + 1) + 1 : y[k] = o[(a + 1) + k - 1]
  BY <1>1, SubSeqProperties
<1> HIDE DEF y
<1>3. Len(y) = Len(o) - a
  BY <1>1, <1>2
<1>4. ASSUME NEW k \in 1 .. Len(x) PROVE x[k] = y[k]
  <2>1. x[k] = o[a + k] /\ a + Len(x) <= Len(o)
    BY DEF Piece
  <2>2. k \in 1 .. Len(o) - (a + 1) + 1 /\ (a + 1) + k - 1 = a + k
    <3>1. a \in Nat /\ k \in Nat /\ k >= 1 /\ k <= Len(x)
      BY <1>1
    <3>2. Len(o) \in Nat /\ a + k <= Len(o)
      BY <1>1, <2>1, <3>1
    <3>3. Len(o) - (a + 1) + 1 = Len(o) - a
      BY <3>1, <3>2
    <3>4. k <= Len(o) - a
      BY <3>1, <3>2
    <3>5. QED BY <3>1, <3>2, <3>3, <3>4
  <2>3. y[k] = o[(a + 1) + k - 1]
    BY <1>2, <2>2
  <2>4. y[k] = o[a + k]
    BY <2>2, <2>3
  <2>5. QED BY <2>1, <2>4
<1>5. Len(x) <= Len(y)
  BY <1>1, <1>3 DEF Piece
<1>6. IsPrefix(x, y)
  BY <1>2, <1>4, <1>5, PrefixByElements
<1>7. QED BY <1>6 DEF y

LEMMA ReverseProperties ==
  ASSUME NEW S, NEW x \in Seq(S)
  PROVE  /\ Reverse(x) \in Seq(S) /\ Len(Reverse(x)) = Len(x)
         /\ \A k \in 1 .. Len(x) : Reverse(x)[k] = x[(Len(x) - k) + 1]
<1>1. Len(x) \in Nat /\ \A k \in 1 .. Len(x) : (Len(x) - k) + 1 \in 1 .. Len(x)
  OBVIOUS
<1>2. Reverse(x) \in [1 .. Len(x) -> S]
  BY <1>1 DEF Reverse
<1>3. QED BY <1>1, <1>2 DEF Reverse

LEMMA PieceIsSuffix ==
  ASSUME NEW S, NEW o \in Seq(S), NEW x \in Seq(S), NEW a \in Nat, NEW n \in 0 .. Len(o),
         Piece(x, a, o), a + Len(x) = n
  PROVE  IsSuffix(x, SubSeq(o, 1, n))
<1> DEFINE y == SubSeq(o, 1, n)
<1>1. Len(x) \in Nat /\ Len(o) \in Nat /\ n \in Nat /\ \A k \in 1 .. n : o[k] \in S
  OBVIOUS
<1>2. /\ y \in Seq(S) /\ Len(y) = IF 1 <= n THEN n - 1 + 1 ELSE 0
      /\ \A k \in 1 .. n - 1 + 1 : y[k] = o[1 + k - 1]
  BY <1>1, SubSeqProperties
<1> HIDE DEF y
<1>3. Len(y) = n /\ \A k \in 1 .. n : y[k] = o[k]
  BY <1>1, <1>2
<1> DEFINE u == Reverse(x)
           v == Reverse(y)
<1>4. u \in Seq(S) /\ Len(u) = Len(x) /\ \A k \in 1 .. Len(x) : u[k] = x[(Len(x) - k) + 1]
  BY ReverseProperties
<1>5. v \in Seq(S) /\ Len(v) = n /\ \A k \in 1 .. n : v[k] = y[(n - k) + 1]
  <2>1. v \in Seq(S) /\ Len(v) = Len(y) /\ \A k \in 1 .. Len(y) : v[k] = y[(Len(y) - k) + 1]
    BY <1>2, ReverseProperties
  <2> HIDE DEF v
  <2>2. QED BY <1>3, <2>1
<1> HIDE DEF u, v
<1>6. ASSUME NEW k \in 1 .. Len(x) PROVE u[k] = v[k]
  <2> DEFINE j == (Len(x) - k) + 1
  <2>1. j \in 1 .. Len(x) /\ a + j = (n - k) + 1 /\ a + j \in 1 .. n /\ k \in 1 .. n
    BY SMTT(30), <1>1
  <2> HIDE DEF j
  <2>2. u[k] = x[j] /\ x[j] = o[a + j] /\ o[a + j] = y[a + j]
    BY <1>3, <1>4, <2>1 DEF j, Piece
  <2>3. v[k] = y[a + j]
    BY <1>5, <2>1
  <2>4. QED BY <2>2, <2>3
<1>7. Len(u) <= Len(v) /\ \A k \in 1 .. Len(u) : u[k] = v[k]
  BY <1>1, <1>4, <1>5, <1>6
<1>8. IsPrefix(u, v)
  BY <1>4, <1>5, <1>7, PrefixByElements
<1>9. QED BY <1>8 DEF IsSuffix, u, v, y
===============================================================================
