-------------------------- MODULE FlattenTheorems --------------------------
(***************************************************************************)
(* What FlattenSeq of the community modules does to a sequence that is     *)
(* extended at its end or shortened at its front.  Tokens on a stream are  *)
(* written one after the other and read from the front: TokenFraming and   *)
(* Der describe the stream by the tokens that it carries.                  *)
(*                                                                         *)
(* The library's induction theorems quantify over operators, which no      *)
(* prover here instantiates; induction over a SET of numbers follows from  *)
(* its well-founded minimum, which is first-order.                         *)
(***************************************************************************)
EXTENDS Integers, Sequences, SequencesExt, SequenceTheorems, WellFoundedInduction, TLAPS

\* A set of natural numbers with 0 and with every successor has them all.
LEMMA SetInduction ==
  ASSUME NEW S, 0 \in S, \A n \in Nat : n \in S => n + 1 \in S
  PROVE  \A n \in Nat : n \in S
<1> DEFINE R == {ss \in Nat \X Nat : ss[1] < ss[2]}
           T == {n \in Nat : n \notin S}
<1> SUFFICES ASSUME T # {} PROVE FALSE
  OBVIOUS
<1>1. IsWellFoundedOn(R, Nat)
  <2>1. R = OpToRel(<, Nat)
    BY Zenon DEF OpToRel
  <2> QED
    BY <2>1, NatLessThanWellFounded, Zenon
<1>2. PICK x \in T : \A y \in T : ~ (<<y, x>> \in R)
  <2>1. T \subseteq Nat
    OBVIOUS
  <2> HIDE DEF T, R
  <2> QED
    BY <1>1, <2>1, WFMin
<1>3. \A y \in T : ~ (y < x)
  BY <1>2
<1>4. x - 1 \in Nat /\ (x - 1) + 1 = x
  BY <1>2
<1>5. x - 1 \in S
  BY <1>3, <1>4
<1> QED
  BY <1>2, <1>4, <1>5

-----------------------------------------------------------------------------
\* f[i] is s[1] \o ... \o s[i].
Flattens(f, s) ==
  \A i \in 1 .. Len(s) : f[i] = IF i = 1 THEN s[i] ELSE f[i - 1] \o s[i]

\* f and g agree up to k.
Agree(f, g, k) == \A i \in 1 .. k : f[i] = g[i]

\* f is determined by the sequence, as far as two sequences agree.
LEMMA FlattensUnique ==
  \A f, s, g, t, k :
    /\ Flattens(f, s) /\ Flattens(g, t) /\ Len(s) \in Nat /\ Len(t) \in Nat
    /\ k \in Nat /\ k <= Len(s) /\ k <= Len(t) /\ Agree(s, t, k)
    => Agree(f, g, k)
<1> SUFFICES ASSUME NEW f, NEW s, NEW g, NEW t, Flattens(f, s), Flattens(g, t),
                    Len(s) \in Nat, Len(t) \in Nat, NEW k \in Nat,
                    k <= Len(s), k <= Len(t), Agree(s, t, k)
             PROVE  Agree(f, g, k)
  OBVIOUS
<1> DEFINE Good == {n \in Nat : n \in 1 .. k => f[n] = g[n]}
<1>1. 0 \in Good
  OBVIOUS
<1>2. ASSUME NEW n \in Nat, n \in Good PROVE n + 1 \in Good
  BY <1>2 DEF Flattens, Agree
<1>3. \A n \in Nat : n \in Good
  <2> HIDE DEF Good
  <2> QED
    BY <1>1, <1>2, SetInduction
<1> QED
  BY <1>3 DEF Agree

\* There is one.
LEMMA FlattensExists ==
  ASSUME NEW A, NEW s \in Seq(Seq(A))
  PROVE  \E f \in [1 .. Len(s) -> Seq(A)] : Flattens(f, s)
<1> DEFINE Equations(f, n) ==
             \A i \in 1 .. n : f[i] = IF i = 1 THEN s[i] ELSE f[i - 1] \o s[i]
           Has(n) == n <= Len(s) => \E f \in [1 .. n -> Seq(A)] : Equations(f, n)
           S == {n \in Nat : Has(n)}
<1>1. Has(0)
  <2>1. [i \in 1 .. 0 |-> <<>>] \in [1 .. 0 -> Seq(A)]
    OBVIOUS
  <2>2. Equations([i \in 1 .. 0 |-> <<>>], 0)
    OBVIOUS
  <2> QED
    BY <2>1, <2>2
<1>2. ASSUME NEW n \in Nat, Has(n) PROVE Has(n + 1)
  <2> SUFFICES ASSUME n + 1 <= Len(s)
               PROVE  \E g \in [1 .. n + 1 -> Seq(A)] : Equations(g, n + 1)
    OBVIOUS
  <2>1. PICK f \in [1 .. n -> Seq(A)] : Equations(f, n)
    <3>1. n <= Len(s)
      BY LenProperties
    <3> QED
      BY <1>2, <3>1, Zenon
  <2> DEFINE last == IF n = 0 THEN s[1] ELSE f[n] \o s[n + 1]
             g == [i \in 1 .. n + 1 |-> IF i = n + 1 THEN last ELSE f[i]]
  <2>2. last \in Seq(A)
    <3>1. n + 1 \in 1 .. Len(s)
      BY LenProperties
    <3>2. s[n + 1] \in Seq(A)
      BY <3>1, ElementOfSeq
    <3>3. n # 0 => f[n] \in Seq(A)
      OBVIOUS
    <3> QED
      BY <3>2, <3>3, ConcatProperties
  <2>3. g \in [1 .. n + 1 -> Seq(A)]
    <3> HIDE DEF last
    <3> QED
      BY <2>2
  <2>4. Equations(g, n + 1)
    <3> SUFFICES ASSUME NEW i \in 1 .. n + 1
                 PROVE  g[i] = IF i = 1 THEN s[i] ELSE g[i - 1] \o s[i]
      OBVIOUS
    <3>1. CASE i = n + 1
      BY <3>1
    <3>2. CASE i # n + 1
      <4>1. i \in 1 .. n /\ g[i] = f[i]
        BY <3>2
      <4>2. i # 1 => g[i - 1] = f[i - 1]
        BY <4>1
      <4>3. f[i] = IF i = 1 THEN s[i] ELSE f[i - 1] \o s[i]
        BY <2>1, <4>1
      <4> HIDE DEF g
      <4> QED
        BY <4>1, <4>2, <4>3
    <3> QED
      BY <3>1, <3>2
  <2> HIDE DEF g, Equations
  <2> QED
    BY <2>3, <2>4
<1>3. \A n \in Nat : n \in S
  <2> HIDE DEF Has
  <2>1. 0 \in S
    BY <1>1
  <2>2. \A n \in Nat : n \in S => n + 1 \in S
    BY <1>2
  <2> HIDE DEF S
  <2> QED
    BY <2>1, <2>2, SetInduction
<1>4. Has(Len(s))
  <2> HIDE DEF Has
  <2> QED
    BY <1>3, LenProperties
<1> QED
  BY <1>4, LenProperties DEF Flattens

\* FlattenSeq is its last value.
LEMMA FlattenIsLast ==
  ASSUME NEW A, NEW s \in Seq(Seq(A)), s # <<>>
  PROVE  \E f \in [1 .. Len(s) -> Seq(A)] : Flattens(f, s) /\ FlattenSeq(s) = f[Len(s)]
<1> DEFINE F == CHOOSE f : f = [i \in 1 .. Len(s) |-> IF i = 1 THEN s[i] ELSE f[i - 1] \o s[i]]
<1>1. Len(s) \in Nat /\ Len(s) # 0
  BY EmptySeq
<1>2. PICK f \in [1 .. Len(s) -> Seq(A)] : Flattens(f, s)
  BY FlattensExists
<1>3. f = [i \in 1 .. Len(s) |-> IF i = 1 THEN s[i] ELSE f[i - 1] \o s[i]]
  BY <1>2 DEF Flattens
<1>4. F = [i \in 1 .. Len(s) |-> IF i = 1 THEN s[i] ELSE F[i - 1] \o s[i]]
  BY <1>3
<1>5. FlattenSeq(s) = F[Len(s)]
  BY <1>1 DEF FlattenSeq
<1> HIDE DEF F
<1>6. Flattens(F, s)
  BY <1>4 DEF Flattens
<1>7. Agree(F, f, Len(s))
  <2>1. Agree(s, s, Len(s)) /\ Len(s) <= Len(s)
    BY <1>1 DEF Agree
  <2> QED
    BY <1>1, <1>2, <1>6, <2>1, FlattensUnique, Zenon
<1>8. Len(s) \in 1 .. Len(s)
  BY <1>1
<1>9. FlattenSeq(s) = f[Len(s)]
  BY <1>5, <1>7, <1>8 DEF Agree
<1> QED
  BY <1>2, <1>9

-----------------------------------------------------------------------------
\* No sequences make the empty one.
LEMMA FlattenEmpty == FlattenSeq(<<>>) = <<>>
BY DEF FlattenSeq

\* It is a sequence of the elements of its sequences.
LEMMA FlattenTyped ==
  ASSUME NEW A, NEW s \in Seq(Seq(A))
  PROVE  FlattenSeq(s) \in Seq(A)
<1>1. CASE s = <<>>
  BY <1>1, FlattenEmpty, EmptySeq
<1>2. CASE s # <<>>
  <2>1. PICK f \in [1 .. Len(s) -> Seq(A)] : FlattenSeq(s) = f[Len(s)]
    BY <1>2, FlattenIsLast
  <2>2. Len(s) \in 1 .. Len(s)
    BY <1>2, EmptySeq, LenProperties
  <2> QED
    BY <2>1, <2>2
<1> QED
  BY <1>1, <1>2

\* One sequence makes itself.
LEMMA FlattenOne ==
  ASSUME NEW A, NEW t \in Seq(A)
  PROVE  FlattenSeq(<<t>>) = t
<1>1. <<t>> \in Seq(Seq(A)) /\ <<t>> # <<>> /\ Len(<<t>>) = 1 /\ <<t>>[1] = t
  OBVIOUS
<1>2. PICK f \in [1 .. 1 -> Seq(A)] : Flattens(f, <<t>>) /\ FlattenSeq(<<t>>) = f[1]
  BY <1>1, FlattenIsLast
<1> QED
  BY <1>1, <1>2 DEF Flattens

\* z is x and then y.
Joins(x, y, z) == z = x \o y

\* It does not matter which two of three are joined first.
LEMMA Associative ==
  \A A, x, y, z, xy, yz, all :
    /\ x \in Seq(A) /\ y \in Seq(A) /\ z \in Seq(A)
    /\ Joins(x, y, xy) /\ Joins(y, z, yz)
    => (Joins(xy, z, all) <=> Joins(x, yz, all))
<1> TAKE A, x, y, z, xy, yz, all
<1> HAVE /\ x \in Seq(A) /\ y \in Seq(A) /\ z \in Seq(A)
         /\ Joins(x, y, xy) /\ Joins(y, z, yz)
<1>1. (x \o y) \o z = x \o (y \o z)
  BY ConcatAssociative
<1> QED
  BY <1>1, Zenon DEF Joins

\* What follows a sequence is found behind it.
LEMMA Behind ==
  ASSUME NEW A, NEW h \in Seq(A), NEW t \in Seq(A)
  PROVE  /\ h \o t \in Seq(A) /\ Len(h \o t) = Len(h) + Len(t)
         /\ \A i \in 1 .. Len(h) : (h \o t)[i] = h[i]
         /\ \A i \in Len(h) + 1 .. Len(h) + Len(t) : (h \o t)[i] = t[i - Len(h)]
         /\ SubSeq(h \o t, Len(h) + 1, Len(h) + Len(t)) = t
<1>1. h \o t \in Seq(A) /\ Len(h \o t) = Len(h) + Len(t)
  OBVIOUS
<1>2. \A i \in 1 .. Len(h) : (h \o t)[i] = h[i]
  OBVIOUS
<1>3. \A i \in Len(h) + 1 .. Len(h) + Len(t) : (h \o t)[i] = t[i - Len(h)]
  OBVIOUS
<1>4. SubSeq(h \o t, Len(h) + 1, Len(h) + Len(t)) = t
  BY <1>1
<1> QED
  BY <1>1, <1>2, <1>3, <1>4

\* The same of a sequence that is named.
LEMMA Joined ==
  \A A, x, y, w :
    x \in Seq(A) /\ y \in Seq(A) /\ Joins(x, y, w)
    => /\ w \in Seq(A) /\ Len(w) = Len(x) + Len(y)
       /\ \A i \in 1 .. Len(x) : w[i] = x[i]
       /\ \A i \in Len(x) + 1 .. Len(x) + Len(y) : w[i] = y[i - Len(x)]
       /\ SubSeq(w, Len(x) + 1, Len(w)) = y
BY Behind DEF Joins

\* If two pairs of sequences make the same one, the longer first part is the
\* shorter one and the beginning of the other second part.
LEMMA CommonBeginning ==
  ASSUME NEW A, NEW a \in Seq(A), NEW x \in Seq(A), NEW b \in Seq(A), NEW y \in Seq(A),
         NEW w, Joins(a, x, w), Joins(b, y, w), Len(a) <= Len(b)
  PROVE  \E z \in Seq(A) : Joins(a, z, b) /\ Joins(z, y, x)
<1> DEFINE z == SubSeq(b, Len(a) + 1, Len(b))
<1>1. /\ Len(a) \in Nat /\ Len(x) \in Nat /\ Len(b) \in Nat /\ Len(y) \in Nat
  BY LenProperties
<1>2. /\ Len(w) = Len(a) + Len(x)
      /\ \A i \in 1 .. Len(a) : w[i] = a[i]
      /\ \A i \in Len(a) + 1 .. Len(a) + Len(x) : w[i] = x[i - Len(a)]
  BY Joined
<1>3. /\ Len(w) = Len(b) + Len(y)
      /\ \A i \in 1 .. Len(b) : w[i] = b[i]
      /\ \A i \in Len(b) + 1 .. Len(b) + Len(y) : w[i] = y[i - Len(b)]
  BY Joined
<1>4. Len(a) + Len(x) = Len(b) + Len(y)
  BY <1>2, <1>3
<1>5. /\ \A i \in 1 .. Len(a) : a[i] = b[i]
      /\ \A i \in Len(a) + 1 .. Len(b) : x[i - Len(a)] = b[i]
      /\ \A i \in Len(b) + 1 .. Len(a) + Len(x) : x[i - Len(a)] = y[i - Len(b)]
  <2>1. \A i \in 1 .. Len(a) : a[i] = b[i]
    BY <1>1, <1>2, <1>3
  <2>2. \A i \in Len(a) + 1 .. Len(b) : x[i - Len(a)] = b[i]
    BY <1>1, <1>2, <1>3, <1>4
  <2>3. \A i \in Len(b) + 1 .. Len(a) + Len(x) : x[i - Len(a)] = y[i - Len(b)]
    <3> TAKE i \in Len(b) + 1 .. Len(a) + Len(x)
    <3>1. i \in Len(a) + 1 .. Len(a) + Len(x) /\ i \in Len(b) + 1 .. Len(b) + Len(y)
      BY <1>1, <1>4
    <3> QED
      BY <1>2, <1>3, <3>1, Zenon
  <2> QED
    BY <2>1, <2>2, <2>3
<1>6. /\ z \in Seq(A) /\ Len(z) = Len(b) - Len(a)
      /\ \A i \in 1 .. Len(b) - Len(a) : z[i] = b[Len(a) + i]
  BY <1>1
<1> HIDE DEF z
<1>7. Joins(a, z, b)
  <2>1. a \o z \in Seq(A) /\ Len(a \o z) = Len(a) + Len(z)
    BY <1>6, Behind
  <2>2. Len(a \o z) = Len(b)
    BY <1>1, <1>6, <2>1
  <2>3. ASSUME NEW i \in 1 .. Len(b) PROVE (a \o z)[i] = b[i]
    <3>1. CASE i <= Len(a)
      <4>1. i \in 1 .. Len(a)
        BY <1>1, <3>1
      <4>2. (a \o z)[i] = a[i]
        BY <1>6, <4>1, Behind
      <4> QED
        BY <1>5, <4>1, <4>2
    <3>2. CASE i > Len(a)
      <4>1. /\ i \in Len(a) + 1 .. Len(a) + Len(z) /\ i - Len(a) \in 1 .. Len(b) - Len(a)
            /\ Len(a) + (i - Len(a)) = i
        BY <1>1, <1>6, <3>2
      <4>2. (a \o z)[i] = z[i - Len(a)]
        BY <1>6, <4>1, Behind
      <4>3. z[i - Len(a)] = b[i]
        BY <1>6, <4>1
      <4> QED
        BY <4>2, <4>3
    <3>3. i <= Len(a) \/ i > Len(a)
      BY <1>1
    <3> QED
      BY <3>1, <3>2, <3>3, Zenon
  <2> QED
    BY <2>1, <2>2, <2>3, SeqEqual DEF Joins
<1>8. Joins(z, y, x)
  <2>1. z \o y \in Seq(A) /\ Len(z \o y) = Len(z) + Len(y)
    BY <1>6, Behind
  <2>2. Len(z \o y) = Len(x)
    BY <1>1, <1>4, <1>6, <2>1
  <2>3. ASSUME NEW i \in 1 .. Len(x) PROVE (z \o y)[i] = x[i]
    <3>1. CASE i <= Len(z)
      <4>1. /\ i \in 1 .. Len(z) /\ Len(a) + i \in Len(a) + 1 .. Len(b)
            /\ (Len(a) + i) - Len(a) = i /\ i \in 1 .. Len(b) - Len(a)
        BY <1>1, <1>6, <3>1
      <4>2. (z \o y)[i] = z[i]
        BY <1>6, <4>1, Behind
      <4>3. z[i] = b[Len(a) + i]
        BY <1>6, <4>1
      <4>4. x[(Len(a) + i) - Len(a)] = b[Len(a) + i]
        BY <1>5, <4>1
      <4> QED
        BY <4>1, <4>2, <4>3, <4>4
    <3>2. CASE i > Len(z)
      <4>1. /\ i \in Len(z) + 1 .. Len(z) + Len(y)
            /\ Len(a) + i \in Len(b) + 1 .. Len(a) + Len(x)
            /\ (Len(a) + i) - Len(a) = i /\ (Len(a) + i) - Len(b) = i - Len(z)
        BY <1>1, <1>4, <1>6, <3>2
      <4>2. (z \o y)[i] = y[i - Len(z)]
        BY <1>6, <4>1, Behind
      <4>3. x[(Len(a) + i) - Len(a)] = y[(Len(a) + i) - Len(b)]
        BY <1>5, <4>1
      <4> QED
        BY <4>1, <4>2, <4>3
    <3>3. i <= Len(z) \/ i > Len(z)
      BY <1>1, <1>6
    <3> QED
      BY <3>1, <3>2, <3>3, Zenon
  <2> QED
    BY <2>1, <2>2, <2>3, SeqEqual DEF Joins
<1> QED
  BY <1>6, <1>7, <1>8

\* From its m-th value on, u is t.
Continues(u, m, t, n) == \A i \in 1 .. n : u[m + i] = t[i]

\* The values of a concatenation beyond its first part.
LEMMA FlattensJoined ==
  \A A, s, t, u, m, n, f, g, h :
    /\ m \in Nat /\ n \in Nat /\ Len(s) = m /\ Len(t) = n /\ Len(u) = m + n
    /\ m # 0 /\ n # 0 /\ Agree(u, s, m) /\ Continues(u, m, t, n)
    /\ f \in [1 .. m -> Seq(A)] /\ g \in [1 .. n -> Seq(A)]
    /\ \A i \in 1 .. n : t[i] \in Seq(A)
    /\ Flattens(f, s) /\ Flattens(g, t) /\ Flattens(h, u)
    => Joins(f[m], g[n], h[m + n])
<1> TAKE A, s, t, u, m, n, f, g, h
<1> HAVE /\ m \in Nat /\ n \in Nat /\ Len(s) = m /\ Len(t) = n /\ Len(u) = m + n
         /\ m # 0 /\ n # 0 /\ Agree(u, s, m) /\ Continues(u, m, t, n)
         /\ f \in [1 .. m -> Seq(A)] /\ g \in [1 .. n -> Seq(A)]
         /\ \A i \in 1 .. n : t[i] \in Seq(A)
         /\ Flattens(f, s) /\ Flattens(g, t) /\ Flattens(h, u)
<1>1. Agree(h, f, m)
  <2>1. Len(u) \in Nat /\ Len(s) \in Nat /\ m <= Len(u) /\ m <= Len(s)
    OBVIOUS
  <2> QED
    BY <2>1, FlattensUnique, Zenon
<1>2. h[m] = f[m] /\ f[m] \in Seq(A)
  BY <1>1 DEF Agree
<1>3. \A i \in 1 .. n : h[m + i] = h[m + i - 1] \o t[i]
  <2> SUFFICES ASSUME NEW i \in 1 .. n PROVE h[m + i] = h[m + i - 1] \o t[i]
    OBVIOUS
  <2>1. PICK j \in 1 .. Len(u) : j = m + i /\ j # 1
    OBVIOUS
  <2>2. h[j] = h[j - 1] \o u[j]
    BY <2>1, Zenon DEF Flattens
  <2>3. u[j] = t[i]
    BY <2>1, Zenon DEF Continues
  <2> QED
    <3>1. h[m + i] = h[j]  /\ h[m + i - 1] = h[j - 1]
      BY <2>1
    <3> QED
      BY <2>2, <2>3, <3>1, Zenon
<1>4. \A i \in 1 .. n : g[i] = IF i = 1 THEN t[i] ELSE g[i - 1] \o t[i]
  BY DEF Flattens
<1>5. \A i \in 1 .. n : t[i] \in Seq(A) /\ g[i] \in Seq(A)
  OBVIOUS
<1> DEFINE Has(i) == i \in 1 .. n => h[m + i] = f[m] \o g[i]
           Good == {i \in Nat : Has(i)}
<1>6. Has(0)
  OBVIOUS
<1>7. ASSUME NEW i \in Nat, Has(i) PROVE Has(i + 1)
  <2> SUFFICES ASSUME i + 1 \in 1 .. n PROVE h[m + (i + 1)] = f[m] \o g[i + 1]
    OBVIOUS
  <2>1. h[m + (i + 1)] = h[m + i] \o t[i + 1]
    <3>1. m + (i + 1) - 1 = m + i
      OBVIOUS
    <3> QED
      BY <1>3, <3>1
  <2>2. CASE i = 0
    <3>1. m + i = m /\ i + 1 = 1
      BY <2>2
    <3> QED
      BY <1>2, <1>4, <2>1, <3>1
  <2>3. CASE i # 0
    <3>1. i \in 1 .. n
      BY <2>3
    <3>2. h[m + i] = f[m] \o g[i]
      BY <1>7, <3>1
    <3>3. g[i + 1] = g[i] \o t[i + 1]
      <4>1. (i + 1) - 1 = i /\ i + 1 # 1
        BY <2>3
      <4> QED
        BY <1>4, <4>1
    <3>4. f[m] \in Seq(A) /\ g[i] \in Seq(A) /\ t[i + 1] \in Seq(A)
      BY <1>2, <1>5, <3>1
    <3>5. /\ Joins(f[m], g[i], h[m + i]) /\ Joins(g[i], t[i + 1], g[i + 1])
          /\ Joins(h[m + i], t[i + 1], h[m + (i + 1)])
      BY <2>1, <3>2, <3>3, Zenon DEF Joins
    <3>6. Joins(f[m], g[i + 1], h[m + (i + 1)])
      BY <3>4, <3>5, Associative
    <3> QED
      BY <3>6, Zenon DEF Joins
  <2> QED
    BY <2>2, <2>3
<1>8. \A i \in Nat : i \in Good
  <2> HIDE DEF Has
  <2>1. 0 \in Good
    BY <1>6
  <2>2. \A i \in Nat : i \in Good => i + 1 \in Good
    BY <1>7
  <2> HIDE DEF Good
  <2> QED
    BY <2>1, <2>2, SetInduction
<1>9. Has(n)
  <2> HIDE DEF Has
  <2> QED
    BY <1>8
<1>10. n \in 1 .. n
  OBVIOUS
<1> QED
  BY <1>9, <1>10 DEF Joins

\* What two lists of sequences make, one list after the other.
THEOREM FlattenConcat ==
  ASSUME NEW A, NEW s \in Seq(Seq(A)), NEW t \in Seq(Seq(A))
  PROVE  FlattenSeq(s \o t) = FlattenSeq(s) \o FlattenSeq(t)
<1>1. CASE s = <<>>
  BY <1>1, FlattenEmpty, FlattenTyped, ConcatEmptySeq
<1>2. CASE t = <<>>
  BY <1>2, FlattenEmpty, FlattenTyped, ConcatEmptySeq
<1>3. CASE s # <<>> /\ t # <<>>
  <2>1. /\ Len(s) \in Nat /\ Len(s) # 0 /\ Len(t) \in Nat /\ Len(t) # 0
        /\ s \o t \in Seq(Seq(A)) /\ Len(s \o t) = Len(s) + Len(t)
        /\ \A i \in 1 .. Len(t) : t[i] \in Seq(A)
        /\ Agree(s \o t, s, Len(s)) /\ Continues(s \o t, Len(s), t, Len(t))
    BY <1>3, EmptySeq, LenProperties, ConcatProperties DEF Agree, Continues
  <2>2. s \o t # <<>>
    BY <2>1, EmptySeq
  <2>3. PICK f \in [1 .. Len(s) -> Seq(A)] : Flattens(f, s) /\ FlattenSeq(s) = f[Len(s)]
    BY <1>3, FlattenIsLast
  <2>4. PICK g \in [1 .. Len(t) -> Seq(A)] : Flattens(g, t) /\ FlattenSeq(t) = g[Len(t)]
    BY <1>3, FlattenIsLast
  <2>5. PICK h : Flattens(h, s \o t) /\ FlattenSeq(s \o t) = h[Len(s) + Len(t)]
    BY <2>1, <2>2, FlattenIsLast
  <2>6. Joins(f[Len(s)], g[Len(t)], h[Len(s) + Len(t)])
    <3>1. PICK u : u = s \o t
      OBVIOUS
    <3>2. /\ Len(u) = Len(s) + Len(t) /\ Agree(u, s, Len(s))
          /\ Continues(u, Len(s), t, Len(t)) /\ Flattens(h, u)
      BY <2>1, <2>5, <3>1
    <3> QED
      BY <2>1, <2>3, <2>4, <3>2, FlattensJoined, Zenon
  <2> QED
    BY <2>3, <2>4, <2>5, <2>6 DEF Joins
<1> QED
  BY <1>1, <1>2, <1>3

\* A sequence written at the end comes out at the end.
LEMMA FlattenAppend ==
  ASSUME NEW A, NEW s \in Seq(Seq(A)), NEW t \in Seq(A)
  PROVE  FlattenSeq(Append(s, t)) = FlattenSeq(s) \o t
<1>1. <<t>> \in Seq(Seq(A)) /\ Append(s, t) = s \o <<t>>
  BY AppendIsConcat
<1>2. FlattenSeq(s \o <<t>>) = FlattenSeq(s) \o FlattenSeq(<<t>>)
  BY <1>1, FlattenConcat
<1> QED
  BY <1>1, <1>2, FlattenOne

\* One taken at the front leaves what the others make.
LEMMA FlattenFront ==
  ASSUME NEW A, NEW s \in Seq(Seq(A)), s # <<>>
  PROVE  FlattenSeq(s) = Head(s) \o FlattenSeq(Tail(s))
<1>1. /\ Head(s) \in Seq(A) /\ Tail(s) \in Seq(Seq(A))
      /\ <<Head(s)>> \in Seq(Seq(A))
  BY HeadTailProperties
<1>2. s = <<Head(s)>> \o Tail(s)
  BY <1>1, HeadTailProperties, ConcatProperties, SeqEqual
<1>3. FlattenSeq(<<Head(s)>> \o Tail(s)) = FlattenSeq(<<Head(s)>>) \o FlattenSeq(Tail(s))
  BY <1>1, FlattenConcat
<1> QED
  BY <1>1, <1>2, <1>3, FlattenOne

\* The first ones of them make its beginning.
LEMMA FlattenBeginning ==
  ASSUME NEW A, NEW s \in Seq(Seq(A)), NEW k \in 0 .. Len(s)
  PROVE  /\ SubSeq(s, 1, k) \in Seq(Seq(A))
         /\ SubSeq(s, k + 1, Len(s)) \in Seq(Seq(A))
         /\ FlattenSeq(s) = FlattenSeq(SubSeq(s, 1, k)) \o FlattenSeq(SubSeq(s, k + 1, Len(s)))
<1>1. /\ SubSeq(s, 1, k) \in Seq(Seq(A))
      /\ SubSeq(s, k + 1, Len(s)) \in Seq(Seq(A))
  BY SubSeqProperties, LenProperties
<1>2. s = SubSeq(s, 1, k) \o SubSeq(s, k + 1, Len(s))
  <2>1. Len(s) \in Nat /\ 1 \in 1 .. Len(s) + 1 /\ k \in 1 - 1 .. Len(s)
        /\ Len(s) \in k .. Len(s)
    BY LenProperties
  <2>2. SubSeq(s, 1, k) \o SubSeq(s, k + 1, Len(s)) = SubSeq(s, 1, Len(s))
    BY <2>1, ConcatAdjacentSubSeq
  <2> QED
    BY <2>2, SubSeqFull
<1>3. FlattenSeq(SubSeq(s, 1, k) \o SubSeq(s, k + 1, Len(s)))
        = FlattenSeq(SubSeq(s, 1, k)) \o FlattenSeq(SubSeq(s, k + 1, Len(s)))
  BY <1>1, FlattenConcat
<1>4. FlattenSeq(s) = FlattenSeq(SubSeq(s, 1, k) \o SubSeq(s, k + 1, Len(s)))
  BY <1>2
<1> QED
  BY <1>1, <1>3, <1>4
=============================================================================
