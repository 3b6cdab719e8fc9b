---------------------------- MODULE CodecProofs ----------------------------
(***************************************************************************)
(* Every decoder undoes its encoder, for every value, key and random byte. *)
(* What the recursive functions of the codecs compute is proved by         *)
(* induction on their index, from the well-foundedness of < on Nat.        *)
(***************************************************************************)
EXTENDS Codec, SequenceTheorems, WellFoundedInduction, TLAPS

----------------------------------------------------------------------------
(* Induction and recursion *)

\* Induction over the natural numbers, for a set of them instead of a
\* predicate: the least number outside the set has none before it.
LEMMA NatInductionSet ==
    ASSUME NEW S, 0 \in S, \A n \in Nat : n \in S => n + 1 \in S
    PROVE  \A n \in Nat : n \in S
<1> DEFINE T == Nat \ S
<1>0. SUFFICES ASSUME T # {} PROVE FALSE
  OBVIOUS
<1>1. T \subseteq Nat
  OBVIOUS
<1>2. \E x \in T : \A y \in T : ~ (<<y, x>> \in OpToRel(<, Nat))
  <2> HIDE DEF T
  <2> QED BY <1>0, <1>1, NatLessThanWellFounded, WFMin
<1>3. PICK x \in T : \A y \in T : ~ (<<y, x>> \in OpToRel(<, Nat))
  BY <1>2
<1>4. \A y \in T : ~ (y < x)
  BY <1>3 DEF OpToRel
<1>5. x # 0 /\ x - 1 \in Nat /\ x - 1 \in S
  BY <1>4
<1> QED BY <1>5

\* The same up to a bound.
LEMMA RangeInductionSet ==
    ASSUME NEW n \in Nat, NEW S, 0 \in S, \A i \in 1..n : i - 1 \in S => i \in S
    PROVE  \A i \in 0..n : i \in S
<1> DEFINE T == {i \in Nat : i <= n => i \in S}
<1>1. 0 \in T
  OBVIOUS
<1>2. ASSUME NEW i \in Nat, i \in T PROVE i + 1 \in T
  <2>1. CASE i + 1 <= n
    <3>1. i + 1 \in 1..n /\ (i + 1) - 1 = i /\ i \in S
      BY <1>2, <2>1
    <3> QED BY <3>1
  <2>2. CASE ~(i + 1 <= n)
    BY <2>2
  <2> QED BY <2>1, <2>2
<1> HIDE DEF T
<1>3. \A i \in Nat : i \in T
  BY <1>1, <1>2, NatInductionSet
<1> QED BY <1>3 DEF T

\* A recursion over an index: from x0 by the step F, a function of the index
\* and the value before it.
Solvable(n, X, x0, F) ==
    \E f \in [0..n -> X] : f[0] = x0 /\ \A i \in 1..n : f[i] = F[<<i, f[i - 1]>>]

\* Such a recursion has a solution.
LEMMA RecursionExists ==
    ASSUME NEW n \in Nat, NEW X, NEW x0 \in X, NEW F \in [(1..n) \X X -> X]
    PROVE  Solvable(n, X, x0, F)
<1> DEFINE S == {m \in 0..n : \E f \in [0..m -> X] :
                     f[0] = x0 /\ \A i \in 1..m : f[i] = F[<<i, f[i - 1]>>]}
<1>1. 0 \in S
  <2> DEFINE f == [i \in 0..0 |-> x0]
  <2>1. f \in [0..0 -> X] /\ f[0] = x0 /\ \A i \in 1..0 : f[i] = F[<<i, f[i - 1]>>]
    OBVIOUS
  <2> HIDE DEF f
  <2>2. \E h \in [0..0 -> X] : h[0] = x0 /\ \A i \in 1..0 : h[i] = F[<<i, h[i - 1]>>]
    BY <2>1
  <2> QED BY <2>2
<1>2. ASSUME NEW m \in 1..n, m - 1 \in S PROVE m \in S
  <2>1. PICK f \in [0..(m - 1) -> X] :
            f[0] = x0 /\ \A i \in 1..(m - 1) : f[i] = F[<<i, f[i - 1]>>]
    BY <1>2
  <2>2. F[<<m, f[m - 1]>>] \in X
    <3>1. f[m - 1] \in X /\ <<m, f[m - 1]>> \in (1..n) \X X
      BY <2>1
    <3> QED BY <3>1
  <2> DEFINE g == [i \in 0..m |-> IF i = m THEN F[<<m, f[m - 1]>>] ELSE f[i]]
  <2>3. g \in [0..m -> X]
    BY <2>1, <2>2
  <2>4. g[0] = x0
    BY <2>1
  <2>5. ASSUME NEW i \in 1..m PROVE g[i] = F[<<i, g[i - 1]>>]
    <3>1. CASE i = m
      <4>1. g[m] = F[<<m, f[m - 1]>>] /\ g[m - 1] = f[m - 1]
        OBVIOUS
      <4> QED BY <3>1, <4>1
    <3>2. CASE i # m
      <4>1. i \in 1..(m - 1) /\ i - 1 \in 0..(m - 1) /\ i \in 0..m /\ i - 1 \in 0..m /\ i - 1 # m
        BY <3>2
      <4>2. g[i] = f[i] /\ g[i - 1] = f[i - 1]
        BY <4>1, <3>2
      <4> QED BY <4>1, <4>2, <2>1
    <3> QED BY <3>1, <3>2
  <2> HIDE DEF g
  <2>6. \E h \in [0..m -> X] : h[0] = x0 /\ \A i \in 1..m : h[i] = F[<<i, h[i - 1]>>]
    BY <2>3, <2>4, <2>5
  <2> QED BY <2>6
<1> HIDE DEF S
<1>3. \A i \in 0..n : i \in S
  BY <1>1, <1>2, RangeInductionSet
<1>4. n \in S
  BY <1>3
<1> QED BY <1>4 DEF S, Solvable

----------------------------------------------------------------------------
(* Division *)

\* Quotient and remainder of an integer by a positive number.
LEMMA DivMod ==
    ASSUME NEW a \in Int, NEW b \in Nat, b > 0
    PROVE  a \div b \in Int /\ a % b \in 0..(b - 1) /\ a = (a \div b) * b + (a % b)
OBVIOUS

\* They are the only ones.
LEMMA DivUnique ==
    ASSUME NEW q \in Int, NEW b \in Nat, b > 0, NEW r \in 0..(b - 1)
    PROVE  (q * b + r) \div b = q /\ (q * b + r) % b = r
OBVIOUS

\* Division keeps the order.
LEMMA DivMonotone ==
    ASSUME NEW a \in Nat, NEW c \in Nat, a <= c, NEW b \in Nat, b > 0
    PROVE  a \div b \in Nat /\ a \div b <= c \div b /\ a \div b <= a
OBVIOUS

\* A number below the divisor is its own remainder.
LEMMA ModSmall ==
    ASSUME NEW x \in Nat, NEW m \in Nat, m > 0
    PROVE  /\ x < m => x % m = x
           /\ m <= x /\ x < 2 * m => x % m = x - m
OBVIOUS

\* A recursion keeps its values in a set that its step keeps.
LEMMA RecursionTyped ==
    ASSUME NEW n \in Nat, NEW X, NEW f, f[0] \in X,
           \A i \in 1..n : f[i - 1] \in X => f[i] \in X
    PROVE  \A i \in 0..n : f[i] \in X
<1> DEFINE S == {i \in 0..n : f[i] \in X}
<1>1. 0 \in S /\ \A i \in 1..n : i - 1 \in S => i \in S
  OBVIOUS
<1> HIDE DEF S
<1>2. \A i \in 0..n : i \in S
  BY <1>1, RangeInductionSet
<1> QED BY <1>2 DEF S

----------------------------------------------------------------------------
(* Exclusive or: within its width, its own inverse, and independent of order *)

\* On one bit.
LEMMA Xor1Facts ==
    ASSUME NEW a \in Nat, NEW b \in Nat, NEW c \in Nat, a < 2, b < 2, c < 2
    PROVE  /\ xor1(a, b) \in Nat /\ xor1(a, b) < 2
           /\ xor1(xor1(a, b), b) = a
           /\ xor1(xor1(a, b), c) = xor1(xor1(a, c), b)
           /\ xor1(0, a) = a
BY DEF xor1

\* On two bits, each half on its own.
LEMMA Xor2Facts ==
    ASSUME NEW a \in Nat, NEW b \in Nat, NEW c \in Nat, a < 4, b < 4, c < 4
    PROVE  /\ xor2(a, b) \in Nat /\ xor2(a, b) < 4
           /\ xor2(xor2(a, b), b) = a
           /\ xor2(xor2(a, b), c) = xor2(xor2(a, c), b)
           /\ xor2(0, a) = a
<1> DEFINE H(x) == x \div 2  L(x) == x % 2
<1>1. ASSUME NEW x \in Nat, x < 4
      PROVE  H(x) \in Nat /\ H(x) < 2 /\ L(x) \in Nat /\ L(x) < 2 /\ x = 2 * H(x) + L(x)
  BY <1>1
<1>2. ASSUME NEW h \in Nat, NEW l \in Nat, h < 2, l < 2
      PROVE  /\ 2 * h + l \in Nat /\ 2 * h + l < 4
             /\ H(2 * h + l) = h /\ L(2 * h + l) = l
  BY <1>2
<1>3. \A x, y : xor2(x, y) = 2 * xor1(H(x), H(y)) + xor1(L(x), L(y))
  BY DEF xor2
<1>4. H(0) = 0 /\ L(0) = 0
  OBVIOUS
<1> HIDE DEF H, L
<1>5. ASSUME NEW x \in Nat, NEW y \in Nat, x < 4, y < 4
      PROVE  /\ xor2(x, y) \in Nat /\ xor2(x, y) < 4
             /\ H(xor2(x, y)) = xor1(H(x), H(y))
             /\ L(xor2(x, y)) = xor1(L(x), L(y))
  <2>1. /\ xor1(H(x), H(y)) \in Nat /\ xor1(H(x), H(y)) < 2
        /\ xor1(L(x), L(y)) \in Nat /\ xor1(L(x), L(y)) < 2
    BY <1>1, <1>5, Xor1Facts
  <2> QED BY <2>1, <1>2, <1>3
<1>6. xor2(xor2(a, b), b) = a
  <2>1. /\ xor1(H(xor2(a, b)), H(b)) = H(a)
        /\ xor1(L(xor2(a, b)), L(b)) = L(a)
    BY <1>1, <1>5, Xor1Facts
  <2> QED BY <2>1, <1>1, <1>3
<1>7. xor2(xor2(a, b), c) = xor2(xor2(a, c), b)
  <2>1. /\ xor1(H(xor2(a, b)), H(c)) = xor1(H(xor2(a, c)), H(b))
        /\ xor1(L(xor2(a, b)), L(c)) = xor1(L(xor2(a, c)), L(b))
    BY <1>1, <1>5, Xor1Facts, SMTT(30)
  <2> QED BY <2>1, <1>3
<1>8. xor2(0, a) = a
  BY <1>1, <1>3, <1>4, Xor1Facts
<1> QED BY <1>5, <1>6, <1>7, <1>8

\* On four bits, in the same way.
LEMMA Xor4Facts ==
    ASSUME NEW a \in Nat, NEW b \in Nat, NEW c \in Nat, a < 16, b < 16, c < 16
    PROVE  /\ xor4(a, b) \in Nat /\ xor4(a, b) < 16
           /\ xor4(xor4(a, b), b) = a
           /\ xor4(xor4(a, b), c) = xor4(xor4(a, c), b)
           /\ xor4(0, a) = a
<1> DEFINE H(x) == x \div 4  L(x) == x % 4
<1>1. ASSUME NEW x \in Nat, x < 16
      PROVE  H(x) \in Nat /\ H(x) < 4 /\ L(x) \in Nat /\ L(x) < 4 /\ x = 4 * H(x) + L(x)
  BY <1>1
<1>2. ASSUME NEW h \in Nat, NEW l \in Nat, h < 4, l < 4
      PROVE  /\ 4 * h + l \in Nat /\ 4 * h + l < 16
             /\ H(4 * h + l) = h /\ L(4 * h + l) = l
  BY <1>2
<1>3. \A x, y : xor4(x, y) = 4 * xor2(H(x), H(y)) + xor2(L(x), L(y))
  BY DEF xor4
<1>4. H(0) = 0 /\ L(0) = 0
  OBVIOUS
<1> HIDE DEF H, L
<1>5. ASSUME NEW x \in Nat, NEW y \in Nat, x < 16, y < 16
      PROVE  /\ xor4(x, y) \in Nat /\ xor4(x, y) < 16
             /\ H(xor4(x, y)) = xor2(H(x), H(y))
             /\ L(xor4(x, y)) = xor2(L(x), L(y))
  <2>1. /\ xor2(H(x), H(y)) \in Nat /\ xor2(H(x), H(y)) < 4
        /\ xor2(L(x), L(y)) \in Nat /\ xor2(L(x), L(y)) < 4
    BY <1>1, <1>5, Xor2Facts
  <2> QED BY <2>1, <1>2, <1>3
<1>6. xor4(xor4(a, b), b) = a
  <2>1. /\ xor2(H(xor4(a, b)), H(b)) = H(a)
        /\ xor2(L(xor4(a, b)), L(b)) = L(a)
    BY <1>1, <1>5, Xor2Facts
  <2> QED BY <2>1, <1>1, <1>3
<1>7. xor4(xor4(a, b), c) = xor4(xor4(a, c), b)
  <2>1. /\ xor2(H(xor4(a, b)), H(c)) = xor2(H(xor4(a, c)), H(b))
        /\ xor2(L(xor4(a, b)), L(c)) = xor2(L(xor4(a, c)), L(b))
    BY <1>1, <1>5, Xor2Facts, SMTT(30)
  <2> QED BY <2>1, <1>3
<1>8. xor4(0, a) = a
  BY <1>1, <1>3, <1>4, Xor2Facts
<1> QED BY <1>5, <1>6, <1>7, <1>8

\* On a byte.
LEMMA Xor8Facts ==
    ASSUME NEW a \in Nat, NEW b \in Nat, NEW c \in Nat, a < 256, b < 256, c < 256
    PROVE  /\ xor8(a, b) \in Nat /\ xor8(a, b) < 256
           /\ xor8(xor8(a, b), b) = a
           /\ xor8(xor8(a, b), c) = xor8(xor8(a, c), b)
           /\ xor8(0, a) = a
<1> DEFINE H(x) == x \div 16  L(x) == x % 16
<1>1. ASSUME NEW x \in Nat, x < 256
      PROVE  H(x) \in Nat /\ H(x) < 16 /\ L(x) \in Nat /\ L(x) < 16 /\ x = 16 * H(x) + L(x)
  BY <1>1
<1>2. ASSUME NEW h \in Nat, NEW l \in Nat, h < 16, l < 16
      PROVE  /\ 16 * h + l \in Nat /\ 16 * h + l < 256
             /\ H(16 * h + l) = h /\ L(16 * h + l) = l
  BY <1>2
<1>3. \A x, y : xor8(x, y) = 16 * xor4(H(x), H(y)) + xor4(L(x), L(y))
  BY DEF xor8
<1>4. H(0) = 0 /\ L(0) = 0
  OBVIOUS
<1> HIDE DEF H, L
<1>5. ASSUME NEW x \in Nat, NEW y \in Nat, x < 256, y < 256
      PROVE  /\ xor8(x, y) \in Nat /\ xor8(x, y) < 256
             /\ H(xor8(x, y)) = xor4(H(x), H(y))
             /\ L(xor8(x, y)) = xor4(L(x), L(y))
  <2>1. /\ xor4(H(x), H(y)) \in Nat /\ xor4(H(x), H(y)) < 16
        /\ xor4(L(x), L(y)) \in Nat /\ xor4(L(x), L(y)) < 16
    BY <1>1, <1>5, Xor4Facts
  <2> QED BY <2>1, <1>2, <1>3
<1>6. xor8(xor8(a, b), b) = a
  <2>1. /\ xor4(H(xor8(a, b)), H(b)) = H(a)
        /\ xor4(L(xor8(a, b)), L(b)) = L(a)
    BY <1>1, <1>5, Xor4Facts
  <2> QED BY <2>1, <1>1, <1>3
<1>7. xor8(xor8(a, b), c) = xor8(xor8(a, c), b)
  <2>1. /\ xor4(H(xor8(a, b)), H(c)) = xor4(H(xor8(a, c)), H(b))
        /\ xor4(L(xor8(a, b)), L(c)) = xor4(L(xor8(a, c)), L(b))
    BY <1>1, <1>5, Xor4Facts, SMTT(30)
  <2> QED BY <2>1, <1>3
<1>8. xor8(0, a) = a
  BY <1>1, <1>3, <1>4, Xor4Facts
<1> QED BY <1>5, <1>6, <1>7, <1>8

\* On sixteen bits.
LEMMA Xor16Facts ==
    ASSUME NEW a \in Nat, NEW b \in Nat, NEW c \in Nat, a < 65536, b < 65536, c < 65536
    PROVE  /\ xor16(a, b) \in Nat /\ xor16(a, b) < 65536
           /\ xor16(xor16(a, b), b) = a
           /\ xor16(xor16(a, b), c) = xor16(xor16(a, c), b)
           /\ xor16(0, a) = a
<1> DEFINE H(x) == x \div 256  L(x) == x % 256
<1>1. ASSUME NEW x \in Nat, x < 65536
      PROVE  H(x) \in Nat /\ H(x) < 256 /\ L(x) \in Nat /\ L(x) < 256 /\ x = 256 * H(x) + L(x)
  BY <1>1
<1>2. ASSUME NEW h \in Nat, NEW l \in Nat, h < 256, l < 256
      PROVE  /\ 256 * h + l \in Nat /\ 256 * h + l < 65536
             /\ H(256 * h + l) = h /\ L(256 * h + l) = l
  BY <1>2
<1>3. \A x, y : xor16(x, y) = 256 * xor8(H(x), H(y)) + xor8(L(x), L(y))
  BY DEF xor16
<1>4. H(0) = 0 /\ L(0) = 0
  OBVIOUS
<1> HIDE DEF H, L
<1>5. ASSUME NEW x \in Nat, NEW y \in Nat, x < 65536, y < 65536
      PROVE  /\ xor16(x, y) \in Nat /\ xor16(x, y) < 65536
             /\ H(xor16(x, y)) = xor8(H(x), H(y))
             /\ L(xor16(x, y)) = xor8(L(x), L(y))
  <2>1. /\ xor8(H(x), H(y)) \in Nat /\ xor8(H(x), H(y)) < 256
        /\ xor8(L(x), L(y)) \in Nat /\ xor8(L(x), L(y)) < 256
    BY <1>1, <1>5, Xor8Facts
  <2> QED BY <2>1, <1>2, <1>3
<1>6. xor16(xor16(a, b), b) = a
  <2>1. /\ xor8(H(xor16(a, b)), H(b)) = H(a)
        /\ xor8(L(xor16(a, b)), L(b)) = L(a)
    BY <1>1, <1>5, Xor8Facts
  <2> QED BY <2>1, <1>1, <1>3
<1>7. xor16(xor16(a, b), c) = xor16(xor16(a, c), b)
  <2>1. /\ xor8(H(xor16(a, b)), H(c)) = xor8(H(xor16(a, c)), H(b))
        /\ xor8(L(xor16(a, b)), L(c)) = xor8(L(xor16(a, c)), L(b))
    BY <1>1, <1>5, Xor8Facts, SMTT(30)
  <2> QED BY <2>1, <1>3
<1>8. xor16(0, a) = a
  BY <1>1, <1>3, <1>4, Xor8Facts
<1> QED BY <1>5, <1>6, <1>7, <1>8

\* A header's checksum xored with a length is below the smallest modulus.
LEMMA Xor32Small ==
    ASSUME NEW a \in Nat, a < 65536, NEW b \in Nat, b < 262144
    PROVE  xor32(a, b) \in Nat /\ xor32(a, b) < 262144
<1> DEFINE bh == b \div 65536  bl == b % 65536
           h == xor16(0, bh)  l == xor16(a, bl)
<1>1. a \div 65536 = 0 /\ a % 65536 = a
  OBVIOUS
<1>2. bh \in Nat /\ bh < 4 /\ bl \in Nat /\ bl < 65536
  OBVIOUS
<1>3. xor32(a, b) = 65536 * h + l
  BY <1>1 DEF xor32
<1> HIDE DEF bh, bl
<1>4. h \in Nat /\ h < 4
  BY <1>2, Xor16Facts
<1>5. l \in Nat /\ l < 65536
  BY <1>2, Xor16Facts
<1> HIDE DEF h, l
<1> QED BY <1>3, <1>4, <1>5

\* Byte, without its 256 elements.
LEMMA ByteRange == \A x : x \in Byte <=> (x \in Nat /\ x < 256)
BY DEF Byte

\* Bounds, not an equation: the provers would enumerate the interval.
LEMMA HalfValue == Half \in Nat /\ Half >= 65536 /\ Half <= 65536
BY DEF Half

\* The numbers of sixteen bits, by their bound.
LEMMA U16Range == \A x : x \in U16 <=> (x \in Nat /\ x < 65536)
BY HalfValue DEF U16

\* Exclusive or of bytes, in terms of Byte.
LEMMA XorByte ==
    ASSUME NEW a \in Byte, NEW b \in Byte, NEW c \in Byte
    PROVE  /\ xor8(a, b) \in Byte
           /\ xor8(xor8(a, b), b) = a
           /\ xor8(xor8(a, b), c) = xor8(xor8(a, c), b)
<1>1. a \in Nat /\ b \in Nat /\ c \in Nat /\ a < 256 /\ b < 256 /\ c < 256
  BY ByteRange
<1> QED BY <1>1, ByteRange, Xor8Facts

\* A function of 1..n with values in S is a sequence of S, and conversely.
LEMMA FunSeq ==
    ASSUME NEW S, NEW n \in Nat, NEW f \in [1..n -> S]
    PROVE  f \in Seq(S) /\ Len(f) = n /\ DOMAIN f = 1..n
OBVIOUS

----------------------------------------------------------------------------
(* Positional notation *)

\* Quotients is the function its recursive definition describes.
LEMMA QuotientsDef ==
    ASSUME NEW v \in Nat, NEW base \in Nat, base > 0, NEW n \in Nat
    PROVE  /\ Quotients(v, base, n) \in [0..n -> Nat]
           /\ Quotients(v, base, n)[0] = v
           /\ \A i \in 1..n : Quotients(v, base, n)[i] = Quotients(v, base, n)[i - 1] \div base
<1> DEFINE F == [p \in (1..n) \X Nat |-> p[2] \div base]
<1>1. F \in [(1..n) \X Nat -> Nat]
  <2>1. \A p \in (1..n) \X Nat : p[2] \in Nat
    OBVIOUS
  <2>2. \A x \in Nat : x \div base \in Nat
    OBVIOUS
  <2> QED BY <2>1, <2>2
<1>2. \A i \in 1..n, x \in Nat : F[<<i, x>>] = x \div base
  OBVIOUS
<1> HIDE DEF F
<1>s. Solvable(n, Nat, v, F)
  BY <1>1, RecursionExists
<1>3. PICK f \in [0..n -> Nat] : f[0] = v /\ \A i \in 1..n : f[i] = F[<<i, f[i - 1]>>]
  BY <1>s DEF Solvable
<1>4. ASSUME NEW i \in 1..n PROVE f[i] = f[i - 1] \div base
  <2>1. i - 1 \in 0..n /\ f[i - 1] \in Nat
    BY <1>3
  <2> QED BY <2>1, <1>2, <1>3
<1>5. f = [i \in 0..n |-> IF i = 0 THEN v ELSE f[i - 1] \div base]
  BY <1>3, <1>4
<1> DEFINE q == Quotients(v, base, n)
<1>6. q = [i \in 0..n |-> IF i = 0 THEN v ELSE q[i - 1] \div base]
  BY <1>5 DEF Quotients
<1> HIDE DEF q
<1>7. q[0] = v /\ \A i \in 1..n : q[i] = q[i - 1] \div base
  BY <1>6
<1>8. \A i \in 0..n : q[i] \in Nat
  <2>1. \A x \in Nat : x \div base \in Nat
    OBVIOUS
  <2>2. q[0] \in Nat /\ \A i \in 1..n : q[i - 1] \in Nat => q[i] \in Nat
    BY <1>7, <2>1
  <2> QED BY <2>2, RecursionTyped
<1>9. q \in [0..n -> Nat]
  BY <1>6, <1>8
<1> QED BY <1>7, <1>9 DEF q

\* A smaller number leaves smaller quotients.
LEMMA QuotientsMonotone ==
    ASSUME NEW v \in Nat, NEW w \in Nat, v <= w, NEW base \in Nat, base > 0, NEW n \in Nat
    PROVE  \A i \in 0..n : Quotients(v, base, n)[i] <= Quotients(w, base, n)[i]
<1> DEFINE q == Quotients(v, base, n)  r == Quotients(w, base, n)
           S == {i \in 0..n : q[i] <= r[i]}
<1>1. q \in [0..n -> Nat] /\ q[0] = v /\ \A i \in 1..n : q[i] = q[i - 1] \div base
  BY QuotientsDef
<1>r. r \in [0..n -> Nat] /\ r[0] = w /\ \A i \in 1..n : r[i] = r[i - 1] \div base
  BY QuotientsDef
<1> HIDE DEF q, r
<1>2. 0 \in S
  BY <1>1, <1>r
<1>3. ASSUME NEW i \in 1..n, i - 1 \in S PROVE i \in S
  <2>1. q[i - 1] \in Nat /\ r[i - 1] \in Nat /\ q[i - 1] <= r[i - 1]
    BY <1>1, <1>r, <1>3
  <2>2. q[i - 1] \div base <= r[i - 1] \div base
    BY <2>1, DivMonotone
  <2>3. q[i] <= r[i]
    BY <1>1, <1>r, <2>2
  <2> QED BY <2>3
<1> HIDE DEF S
<1>4. \A i \in 0..n : i \in S
  BY <1>2, <1>3, RangeInductionSet
<1> QED BY <1>4 DEF S, q, r

\* So is Values.
LEMMA ValuesDef ==
    ASSUME NEW n \in Nat, NEW d \in [1..n -> Nat], NEW base \in Nat
    PROVE  /\ Values(d, base) \in [0..n -> Nat]
           /\ Values(d, base)[0] = 0
           /\ \A i \in 1..n : Values(d, base)[i] = Values(d, base)[i - 1] * base + d[i]
           /\ FromDigits(d, base) = Values(d, base)[n]
<1> DEFINE F == [p \in (1..n) \X Nat |-> p[2] * base + d[p[1]]]
<1>0. Len(d) = n
  BY FunSeq
<1>m. \A x, y \in Nat : x * base + y \in Nat
  OBVIOUS
<1>1. F \in [(1..n) \X Nat -> Nat]
  <2>1. \A p \in (1..n) \X Nat : p[2] \in Nat /\ d[p[1]] \in Nat
    OBVIOUS
  <2> QED BY <2>1, <1>m
<1>2. \A i \in 1..n, x \in Nat : F[<<i, x>>] = x * base + d[i]
  OBVIOUS
<1> HIDE DEF F
<1>s. Solvable(n, Nat, 0, F)
  BY <1>1, RecursionExists
<1>3. PICK f \in [0..n -> Nat] : f[0] = 0 /\ \A i \in 1..n : f[i] = F[<<i, f[i - 1]>>]
  BY <1>s DEF Solvable
<1>4. ASSUME NEW i \in 1..n PROVE f[i] = f[i - 1] * base + d[i]
  <2>1. i - 1 \in 0..n
    OBVIOUS
  <2>2. f[i - 1] \in Nat
    BY <2>1
  <2> QED BY <2>2, <1>2, <1>3
<1>5. f = [i \in 0..Len(d) |-> IF i = 0 THEN 0 ELSE f[i - 1] * base + d[i]]
  BY <1>0, <1>3, <1>4
<1> DEFINE q == Values(d, base)
<1>6. q = [i \in 0..Len(d) |-> IF i = 0 THEN 0 ELSE q[i - 1] * base + d[i]]
  BY <1>5 DEF Values
<1>f. FromDigits(d, base) = q[n]
  BY <1>0 DEF FromDigits
<1> HIDE DEF q
<1>7. q[0] = 0 /\ \A i \in 1..n : q[i] = q[i - 1] * base + d[i]
  BY <1>0, <1>6
<1>8. \A i \in 0..n : q[i] \in Nat
  <2>1. ASSUME NEW i \in 1..n, q[i - 1] \in Nat PROVE q[i] \in Nat
    <3>1. d[i] \in Nat
      OBVIOUS
    <3> QED BY <3>1, <2>1, <1>7, <1>m
  <2>2. q[0] \in Nat
    BY <1>7
  <2> QED BY <2>1, <2>2, RecursionTyped
<1>9. q \in [0..n -> Nat]
  BY <1>0, <1>6, <1>8
<1> QED BY <1>7, <1>9, <1>f DEF q

\* d holds the n digits of v: the remainders of its quotients, until nothing
\* is left of it.
AreDigits(d, n, v, base, max) ==
    LET q == Quotients(v, base, max)
    IN /\ q[n] = 0
       /\ d \in [1..n -> 0..(base - 1)]
       /\ \A i \in 1..n : d[i] = q[n - i] % base

\* ToDigits writes them, if they fit.
LEMMA ToDigitsFacts ==
    ASSUME NEW v \in Nat, NEW base \in Nat, base > 1, NEW max \in Nat, max > 0,
           Quotients(v, base, max)[max] = 0
    PROVE  \E n \in 1..max : AreDigits(ToDigits(v, base, max), n, v, base, max)
<1> DEFINE q == Quotients(v, base, max)
           P(i) == q[i] = 0 /\ (i = 1 \/ q[i - 1] # 0)
           n == CHOOSE i \in 1..max : P(i)
           T == {i \in 1..max : q[i] = 0}
<1>b. base > 0
  OBVIOUS
<1>1. q \in [0..max -> Nat] /\ q[max] = 0
  BY <1>b, QuotientsDef
<1>d. ToDigits(v, base, max) = [i \in 1..n |-> q[n - i] % base]
  BY DEF ToDigits
<1> HIDE DEF q
<1>2. \E i \in 1..max : P(i)
  <2>0. SUFFICES ASSUME \A i \in 1..max : ~P(i) PROVE FALSE
    OBVIOUS
  <2> DEFINE S == {i \in 0..max : i = 0 \/ q[i] # 0}
  <2>1. 0 \in S /\ \A i \in 1..max : i - 1 \in S => i \in S
    BY <2>0
  <2> HIDE DEF S
  <2>2. \A i \in 0..max : i \in S
    BY <2>1, RangeInductionSet
  <2>3. max \in S
    BY <2>2
  <2> QED BY <2>3, <1>1 DEF S
<1>3. n \in 1..max /\ P(n)
  BY <1>2
<1> HIDE DEF n
<1>4. \A i \in 1..n : q[n - i] \in Nat /\ q[n - i] % base \in 0..(base - 1)
  BY <1>1, <1>3
<1> DEFINE d == [i \in 1..n |-> q[n - i] % base]
<1>5. d \in [1..n -> 0..(base - 1)] /\ \A i \in 1..n : d[i] = q[n - i] % base
  BY <1>4
<1> HIDE DEF d
<1>6. AreDigits(d, n, v, base, max)
  BY <1>3, <1>5 DEF AreDigits, q
<1> QED BY <1>3, <1>6, <1>d DEF d

\* Reading digits that are the remainders of the quotients of v yields v.
LEMMA FromDigitsOf ==
    ASSUME NEW v \in Nat, NEW base \in Nat, base > 1, NEW max \in Nat, NEW n \in Nat, n <= max,
           NEW d, AreDigits(d, n, v, base, max)
    PROVE  FromDigits(d, base) = v
<1> DEFINE q == Quotients(v, base, max)  u == Values(d, base)
           S == {i \in 0..n : u[i] = q[n - i]}
<1>b. base > 0
  OBVIOUS
<1>1. q \in [0..max -> Nat] /\ q[0] = v /\ \A i \in 1..max : q[i] = q[i - 1] \div base
  <2>1. q \in [0..max -> Nat] /\ q[0] = v
    BY <1>b, QuotientsDef
  <2>2. ASSUME NEW i \in 1..max PROVE q[i] = q[i - 1] \div base
    BY <1>b, QuotientsDef
  <2> QED BY <2>1, <2>2
<1>a. /\ q[n] = 0 /\ d \in [1..n -> 0..(base - 1)]
      /\ \A i \in 1..n : d[i] = q[n - i] % base
  BY DEF AreDigits
<1>t. d \in [1..n -> Nat]
  BY <1>a
<1>2. /\ u \in [0..n -> Nat] /\ u[0] = 0 /\ \A i \in 1..n : u[i] = u[i - 1] * base + d[i]
      /\ FromDigits(d, base) = u[n]
  <2>1. u \in [0..n -> Nat]
    BY <1>t, ValuesDef
  <2>3. u[0] = 0
    BY <1>t, ValuesDef
  <2>4. FromDigits(d, base) = u[n]
    BY <1>t, ValuesDef
  <2>2. ASSUME NEW i \in 1..n PROVE u[i] = u[i - 1] * base + d[i]
    BY <1>t, ValuesDef, ZenonT(60)
  <2> QED BY <2>1, <2>2, <2>3, <2>4
<1>d. \A x \in Nat : x = (x \div base) * base + (x % base)
  BY <1>b, DivMod
<1> HIDE DEF q, u
<1>3. 0 \in S
  BY <1>a, <1>2
<1>4. ASSUME NEW i \in 1..n, i - 1 \in S PROVE i \in S
  <2>1. n - i \in 0..max /\ n - i + 1 \in 1..max /\ (n - i + 1) - 1 = n - i /\ n - (i - 1) = n - i + 1
    OBVIOUS
  <2>2. q[n - i] \in Nat /\ q[n - i + 1] = q[n - i] \div base
    BY <1>1, <2>1
  <2>3. u[i - 1] = q[n - i] \div base
    BY <1>4, <2>1, <2>2
  <2>4. u[i] = (q[n - i] \div base) * base + (q[n - i] % base)
    BY <1>a, <1>2, <2>3
  <2>5. u[i] = q[n - i]
    BY <2>2, <2>4, <1>d
  <2> QED BY <2>5
<1> HIDE DEF S
<1>5. \A i \in 0..n : i \in S
  BY <1>3, <1>4, RangeInductionSet
<1>6. u[n] = q[0]
  BY <1>5 DEF S
<1> QED BY <1>1, <1>2, <1>6

----------------------------------------------------------------------------
(* Varints *)

\* What encode_varint writes, by the quotients of its number: flagged bytes
\* and one that is not, which in the last place is not too wide.
IsVarint(e, n, v) ==
    LET q == Quotients(v, Cont, MaxVarint)
    IN /\ n \in 1..MaxVarint
       /\ e \in [1..n -> Nat]
       /\ q[n] = 0
       /\ \A i \in 1..n : e[i] % Cont = q[i - 1] % Cont
       /\ \A i \in 1..n : i < n => ~(e[i] < Cont)
       /\ e[n] < Cont
       /\ ~TooWide(e[n], n)

\* Every number up to MaxWord has its varint.
LEMMA VarintEncoded ==
    ASSUME NEW v \in Nat, v <= MaxWord
    PROVE  \E n \in 1..MaxVarint : IsVarint(encode_varint(v), n, v)
<1> DEFINE q == Quotients(v, Cont, MaxVarint)
           w == Quotients(MaxWord, Cont, MaxVarint)
           d == ToDigits(v, Cont, MaxVarint)
           e == encode_varint(v)
<1>c. /\ Cont \in Nat /\ Cont > 1 /\ Cont > 0 /\ MaxVarint \in Nat /\ MaxVarint > 0
      /\ LastLimit \in Nat /\ LastLimit <= Cont /\ MaxWord \in Nat
      /\ w[MaxVarint - 1] < LastLimit
      /\ MaxVarint - 1 \in 0..MaxVarint /\ MaxVarint \in 1..MaxVarint
  BY VarintAssumption
<1>1. q \in [0..MaxVarint -> Nat] /\ w \in [0..MaxVarint -> Nat]
  BY <1>c, QuotientsDef
<1>s. \A i \in 1..MaxVarint : q[i] = q[i - 1] \div Cont
  BY <1>c, QuotientsDef
<1>2. q[MaxVarint - 1] <= w[MaxVarint - 1]
  BY <1>c, QuotientsMonotone
<1>e. e = [i \in 1..Len(d) |-> IF i < Len(d) THEN d[Len(d) + 1 - i] + Cont ELSE d[Len(d) + 1 - i]]
  BY DEF encode_varint
<1> HIDE DEF q, w, d, e
<1>3. q[MaxVarint - 1] \in Nat /\ w[MaxVarint - 1] \in Nat /\ q[MaxVarint - 1] < LastLimit
  BY <1>1, <1>2, <1>c
<1>4. q[MaxVarint] = 0
  <2>1. \A x \in Nat : x < Cont => x \div Cont = 0
    BY <1>c
  <2> QED BY <2>1, <1>3, <1>s, <1>c
<1>t. \E n \in 1..MaxVarint : AreDigits(d, n, v, Cont, MaxVarint)
  BY <1>4, <1>c, ToDigitsFacts DEF q, d
<1>5. PICK n \in 1..MaxVarint : AreDigits(d, n, v, Cont, MaxVarint)
  BY <1>t
<1>5a. /\ q[n] = 0 /\ d \in [1..n -> 0..(Cont - 1)]
       /\ \A i \in 1..n : d[i] = q[n - i] % Cont
  BY <1>5 DEF AreDigits, q
<1>5b. Len(d) = n
  BY <1>5a, <1>c, FunSeq
<1>6. e = [i \in 1..n |-> IF i < n THEN d[n + 1 - i] + Cont ELSE d[n + 1 - i]]
  BY <1>5b, <1>e
<1>7. ASSUME NEW i \in 1..n
      PROVE  /\ d[n + 1 - i] \in 0..(Cont - 1)
             /\ d[n + 1 - i] = q[i - 1] % Cont
             /\ e[i] = IF i < n THEN d[n + 1 - i] + Cont ELSE d[n + 1 - i]
  <2>1. n + 1 - i \in 1..n /\ n - (n + 1 - i) = i - 1
    OBVIOUS
  <2>2. d[n + 1 - i] \in 0..(Cont - 1)
    BY <1>5a, <2>1
  <2>3. d[n + 1 - i] = q[n - (n + 1 - i)] % Cont
    BY <1>5a, <2>1
  <2> QED BY <2>1, <2>2, <2>3, <1>6
<1>8. ASSUME NEW i \in 1..n
      PROVE  /\ e[i] \in Nat /\ e[i] % Cont = q[i - 1] % Cont
             /\ i < n => ~(e[i] < Cont)
             /\ i = n => e[i] < Cont /\ e[i] = q[i - 1] % Cont
  <2>1. \A x \in 0..(Cont - 1) : x % Cont = x /\ (x + Cont) % Cont = x
    BY <1>c, ModSmall
  <2> DEFINE x == d[n + 1 - i]
  <2>x. x \in 0..(Cont - 1) /\ x = q[i - 1] % Cont /\ e[i] = IF i < n THEN x + Cont ELSE x
    BY <1>7
  <2> HIDE DEF x
  <2>y. x \in Nat /\ x < Cont /\ x % Cont = x /\ (x + Cont) % Cont = x
    BY <2>1, <2>x, <1>c
  <2>2. CASE i < n
    BY <2>x, <2>y, <2>2, <1>c
  <2>3. CASE ~(i < n)
    BY <2>x, <2>y, <2>3, <1>c
  <2> QED BY <2>2, <2>3
<1>9. e \in [1..n -> Nat]
  BY <1>6, <1>8
<1>10. ~TooWide(e[n], n)
  <2>1. CASE n = MaxVarint
    <3>1. \A x \in Nat : x < LastLimit => x % Cont = x
      BY <1>c, ModSmall
    <3>2. e[n] = q[MaxVarint - 1] % Cont
      BY <1>8, <2>1
    <3> QED BY <3>1, <3>2, <1>3, <1>c DEF TooWide
  <2>2. CASE n # MaxVarint
    BY <2>2 DEF TooWide
  <2> QED BY <2>1, <2>2
<1>11. n \in 1..n
  OBVIOUS
<1> QED BY <1>5, <1>5a, <1>8, <1>9, <1>10, <1>11 DEF IsVarint, q, e

\* buf starts with the n bytes of e.
StartsWith(buf, e, n) == n <= Len(buf) /\ \A i \in 1..n : buf[i] = e[i]

\* Whatever follows it, a varint is read back, and no further.
LEMMA VarintDecoded ==
    ASSUME NEW v \in Nat, v <= MaxWord, NEW n \in 1..MaxVarint, NEW e, IsVarint(e, n, v),
           NEW buf \in Seq(Nat), StartsWith(buf, e, n)
    PROVE  decode_varint(buf) = Ok([v |-> v, n |-> n])
<1> DEFINE q == Quotients(v, Cont, MaxVarint)
           stop == Stops(buf)
           m == CHOOSE i \in stop : \A j \in stop : i <= j
           d == [i \in 1..n |-> buf[n + 1 - i] % Cont]
<1>c. Cont \in Nat /\ Cont > 1 /\ Cont > 0 /\ MaxVarint \in Nat /\ n \in Nat /\ n <= MaxVarint
  BY VarintAssumption
<1>1. /\ e \in [1..n -> Nat] /\ q[n] = 0 /\ e[n] < Cont /\ ~TooWide(e[n], n)
      /\ \A i \in 1..n : e[i] % Cont = q[i - 1] % Cont
      /\ \A i \in 1..n : i < n => ~(e[i] < Cont)
  BY DEF IsVarint
<1>2. Len(buf) \in Nat /\ DOMAIN buf = 1..Len(buf) /\ n <= Len(buf) /\ \A i \in 1..n : buf[i] = e[i]
  BY DEF StartsWith
<1>3. n \in stop
  BY <1>1, <1>2, <1>c DEF Stops
<1>4. ASSUME NEW j \in stop PROVE j \in Int /\ n <= j
  <2>1. j \in 1..Len(buf) /\ buf[j] < Cont
    BY <1>2 DEF Stops
  <2> QED BY <2>1, <1>1, <1>2, <1>c
<1>f. decode_varint(buf) = IF stop = {} THEN Error
                           ELSE IF TooWide(buf[m], m) THEN Error
                           ELSE Ok([v |-> FromDigits([i \in 1..m |-> buf[m + 1 - i] % Cont], Cont), n |-> m])
  BY DEF decode_varint
<1> HIDE DEF stop
<1>5. m = n
  <2>1. m \in stop /\ \A j \in stop : m <= j
    BY <1>3, <1>4
  <2> HIDE DEF m
  <2>2. m \in Int /\ n <= m /\ m <= n
    BY <2>1, <1>3, <1>4
  <2> QED BY <2>2, <1>c
<1> HIDE DEF m
<1>6. decode_varint(buf) = Ok([v |-> FromDigits(d, Cont), n |-> n])
  <2>1. n \in 1..n
    BY <1>c
  <2>2. stop # {} /\ ~TooWide(buf[n], n)
    BY <1>1, <1>2, <1>3, <2>1
  <2> QED BY <1>f, <1>5, <2>2
<1>7. ASSUME NEW i \in 1..n PROVE d[i] \in 0..(Cont - 1) /\ d[i] = q[n - i] % Cont
  <2>1. n + 1 - i \in 1..n /\ (n + 1 - i) - 1 = n - i
    BY <1>c
  <2>2. buf[n + 1 - i] = e[n + 1 - i] /\ e[n + 1 - i] % Cont = q[(n + 1 - i) - 1] % Cont
    BY <2>1, <1>1, <1>2
  <2>3. e[n + 1 - i] \in Nat
    BY <2>1, <1>1
  <2>4. \A x \in Nat : x % Cont \in 0..(Cont - 1)
    BY <1>c
  <2> QED BY <2>1, <2>2, <2>3, <2>4
<1>8. d \in [1..n -> 0..(Cont - 1)]
  BY <1>7
<1>9. AreDigits(d, n, v, Cont, MaxVarint)
  BY <1>1, <1>7, <1>8 DEF AreDigits
<1> HIDE DEF d
<1>10. FromDigits(d, Cont) = v
  BY <1>9, <1>c, FromDigitsOf
<1> QED BY <1>6, <1>10

\* A front part of a varint is none.
LEMMA VarintPrefix ==
    ASSUME NEW v \in Nat, NEW n \in 1..MaxVarint, NEW e, IsVarint(e, n, v),
           NEW buf \in Seq(Nat), Len(buf) < n, \A i \in 1..Len(buf) : buf[i] = e[i]
    PROVE  decode_varint(buf) = Error
<1>1. \A i \in 1..n : i < n => ~(e[i] < Cont)
  BY DEF IsVarint
<1>2. Len(buf) \in Nat /\ DOMAIN buf = 1..Len(buf) /\ n \in Nat
  BY VarintAssumption
<1>3. Stops(buf) = {}
  BY <1>1, <1>2 DEF Stops
<1> QED BY <1>3 DEF decode_varint

----------------------------------------------------------------------------
(* Addresses *)

\* Concatenation, by the lengths of its parts.
LEMMA ConcatParts ==
    ASSUME NEW S, NEW s \in Seq(S), NEW t \in Seq(S), NEW m \in Nat, NEW n \in Nat,
           Len(s) = m, Len(t) = n
    PROVE  /\ s \o t \in Seq(S) /\ Len(s \o t) = m + n
           /\ \A i \in 1..m : (s \o t)[i] = s[i]
           /\ \A i \in 1..n : (s \o t)[m + i] = t[i]
<1>1. s \o t \in Seq(S) /\ Len(s \o t) = m + n
  BY ConcatProperties
<1>2. ASSUME NEW i \in 1..m PROVE (s \o t)[i] = s[i]
  OBVIOUS
<1>3. ASSUME NEW i \in 1..n PROVE (s \o t)[m + i] = t[i]
  OBVIOUS
<1> QED BY <1>1, <1>2, <1>3

\* Where the parts of an address lie in e.
IsLaidOut(e, S, x, lead, k, host, h, y, z) ==
    /\ e \in Seq(S) /\ Len(e) = k + h + 3
    /\ e[1] = x
    /\ \A i \in 1..k : e[1 + i] = lead[i]
    /\ \A j \in (k + 2)..(k + 1 + h) : e[j] = host[j - k - 1]
    /\ e[k + h + 2] = y /\ e[k + h + 3] = z

\* <<x>>, then lead, host and two more bytes, place by place.
LEMMA FourParts ==
    ASSUME NEW S, NEW x \in S, NEW y \in S, NEW z \in S, NEW lead \in Seq(S), NEW host \in Seq(S),
           NEW k \in Nat, Len(lead) = k, NEW h \in Nat, Len(host) = h,
           NEW e, e = ((<<x>> \o lead) \o host) \o <<y, z>>
    PROVE  IsLaidOut(e, S, x, lead, k, host, h, y, z)
<1> DEFINE e1 == <<x>> \o lead
           e2 == e1 \o host
<1>1. e1 \in Seq(S) /\ Len(e1) = k + 1 /\ e1[1] = x /\ \A i \in 1..k : e1[1 + i] = lead[i]
  OBVIOUS
<1>e. e = e2 \o <<y, z>>
  OBVIOUS
<1> HIDE DEF e1
<1>k. k + 1 \in Nat /\ k + 1 + h \in Nat
  OBVIOUS
<1>2. e2 \in Seq(S) /\ Len(e2) = k + 1 + h
  BY <1>1, <1>k, ConcatParts
<1>3. \A i \in 1..(k + 1) : e2[i] = e1[i]
  BY <1>1
<1>4. ASSUME NEW i \in 1..h PROVE e2[k + 1 + i] = host[i]
  <2>1. /\ k + 1 + i \in 1..(Len(e1) + Len(host)) /\ ~(k + 1 + i <= Len(e1))
        /\ (k + 1 + i) - Len(e1) = i
    BY <1>1
  <2>2. \A j \in 1..(Len(e1) + Len(host)) :
            (e1 \o host)[j] = IF j <= Len(e1) THEN e1[j] ELSE host[j - Len(e1)]
    BY <1>1, ConcatProperties
  <2> QED BY <2>1, <2>2
<1> HIDE DEF e2
<1>5. e \in Seq(S) /\ Len(e) = k + h + 3
  BY <1>2, <1>e
<1>y. <<y, z>> \in Seq(S) /\ Len(<<y, z>>) = 2 /\ 2 \in Nat
  OBVIOUS
<1>6. ASSUME NEW i \in 1..(k + 1 + h) PROVE e[i] = e2[i]
  <2>1. i \in 1..(Len(e2) + 2) /\ i <= Len(e2)
    BY <1>2, <1>k
  <2>2. \A j \in 1..(Len(e2) + Len(<<y, z>>)) :
            (e2 \o <<y, z>>)[j] = IF j <= Len(e2) THEN e2[j] ELSE <<y, z>>[j - Len(e2)]
    BY <1>2, <1>y, ConcatProperties
  <2> QED BY <2>1, <2>2, <1>e, <1>y
<1>7. e[k + h + 2] = y /\ e[k + h + 3] = z
  BY <1>2, <1>e
<1>8. e[1] = x
  BY <1>1, <1>3, <1>6
<1>9. \A i \in 1..k : e[1 + i] = lead[i]
  BY <1>1, <1>3, <1>6
<1>10. ASSUME NEW j \in (k + 2)..(k + 1 + h) PROVE e[j] = host[j - k - 1]
  <2>1. j - k - 1 \in 1..h /\ k + 1 + (j - k - 1) = j /\ j \in 1..(k + 1 + h)
    OBVIOUS
  <2> QED BY <2>1, <1>4, <1>6
<1> QED BY <1>5, <1>7, <1>8, <1>9, <1>10 DEF IsLaidOut

\* 1 for the length byte a name has in front.
Lead(a) == IF a.atyp = ATYP_DOMAIN THEN 1 ELSE 0

\* What an address is made of, field by field.
LEMMA AddressFields ==
    ASSUME NEW a \in Addresses
    PROVE  /\ a.host \in Seq(Byte) /\ a.atyp \in Byte /\ a.port \in Nat /\ a.port < 65536
           /\ Len(a.host) \in Nat /\ Len(a.host) > 0 /\ Len(a.host) < 256
           /\ Lead(a) \in {0, 1} /\ (Lead(a) = 1 <=> a.atyp = ATYP_DOMAIN)
<1>1. a.host \in Seq(Byte) /\ a.port \in U16 /\ a.atyp \in {ATYP_IPV4, ATYP_DOMAIN, ATYP_IPV6}
  BY DEF Addresses
<1>2. \/ a.atyp = ATYP_IPV4 /\ Len(a.host) = 4
      \/ a.atyp = ATYP_IPV6 /\ Len(a.host) = 16
      \/ a.atyp = ATYP_DOMAIN /\ NameOk(a.host) /\ Len(a.host) <= 255
  BY DEF Addresses
<1> DEFINE host == a.host  h == Len(a.host)
<1>h. h \in Nat /\ (host # <<>> => h > 0)
  BY <1>1, EmptySeq
<1>3. NameOk(host) => host # <<>>
  BY DEF NameOk
<1>4. h = 4 \/ h = 16 \/ (NameOk(host) /\ h <= 255)
  BY <1>2
<1> HIDE DEF host, h
<1>5. h > 0 /\ h < 256
  BY <1>h, <1>3, <1>4
<1>6. a.port \in Nat /\ a.port < 65536
  BY <1>1, U16Range
<1>7. a.atyp \in Byte
  <2>1. a.atyp \in Nat /\ a.atyp < 256
    BY <1>1 DEF ATYP_IPV4, ATYP_DOMAIN, ATYP_IPV6
  <2> QED BY <2>1, ByteRange
<1>8. Lead(a) \in {0, 1} /\ (Lead(a) = 1 <=> a.atyp = ATYP_DOMAIN)
  BY DEF Lead
<1> QED BY <1>1, <1>5, <1>6, <1>7, <1>8, <1>h DEF h

\* e holds a: its type, the length of a name, the host and the port.
HoldsAddress(e, a) ==
    LET k == Lead(a)
        h == Len(a.host)
    IN /\ e \in Seq(Byte) /\ Len(e) = k + h + 3
       /\ e[1] = a.atyp
       /\ k = 1 => e[2] = h
       /\ \A j \in (k + 2)..(k + 1 + h) : e[j] = a.host[j - k - 1]
       /\ e[k + h + 2] = a.port \div 256 /\ e[k + h + 3] = a.port % 256

\* The bytes of an encoded address, place by place.
LEMMA EncodeIntoShape ==
    ASSUME NEW a \in Addresses
    PROVE  HoldsAddress(EncodeInto(a), a)
<1> DEFINE h == Len(a.host)  k == Lead(a)  x == a.atyp  host == a.host
           y == a.port \div 256  z == a.port % 256
           lead == IF a.atyp = ATYP_DOMAIN THEN <<Len(a.host)>> ELSE <<>>
           e == EncodeInto(a)
<1>1. /\ host \in Seq(Byte) /\ x \in Byte /\ h \in Nat /\ h \in Byte /\ k \in {0, 1}
  BY AddressFields, ByteRange
<1>p. y \in Byte /\ z \in Byte
  <2> DEFINE p == a.port
  <2>1. p \in Nat /\ p < 65536
    BY AddressFields
  <2> HIDE DEF p
  <2>2. p \div 256 \in Nat /\ p \div 256 < 256 /\ p % 256 \in Nat /\ p % 256 < 256
    BY <2>1
  <2> QED BY <2>2, ByteRange DEF p
<1>4. lead \in Seq(Byte) /\ Len(lead) = k /\ (k = 1 => lead[1] = h)
  BY <1>1 DEF Lead
<1>e. e = ((<<x>> \o lead) \o host) \o <<y, z>>
  BY DEF EncodeInto, be16
<1>h. Len(host) = h /\ k \in Nat
  BY <1>1
<1> HIDE DEF h, k, x, host, y, z, lead, e
<1>l. IsLaidOut(e, Byte, x, lead, k, host, h, y, z)
  BY <1>1, <1>p, <1>4, <1>e, <1>h, FourParts
<1>7. e \in Seq(Byte) /\ Len(e) = k + h + 3 /\ e[1] = x /\ e[k + h + 2] = y /\ e[k + h + 3] = z
  BY <1>l DEF IsLaidOut
<1>8. ASSUME NEW j \in (k + 2)..(k + 1 + h) PROVE e[j] = host[j - k - 1]
  BY <1>l DEF IsLaidOut
<1>5. ASSUME NEW i \in 1..k PROVE e[1 + i] = lead[i]
  BY <1>l DEF IsLaidOut
<1>6. k = 1 => e[2] = h
  BY <1>4, <1>5
<1> QED BY <1>6, <1>7, <1>8 DEF HoldsAddress, h, k, x, host, y, z, e

\* The length of the host at the front of s, once s holds it.
LEMMA HostLenOf ==
    ASSUME NEW a \in Addresses, NEW s \in Seq(Byte), s # <<>>, s[1] = a.atyp,
           Lead(a) = 1 /\ Len(s) > 1 => s[2] = Len(a.host)
    PROVE  HostLen(s[1], Tail(s)) =
              IF Lead(a) = 1 /\ Len(s) = 1 THEN 0 ELSE Lead(a) + Len(a.host)
<1>2. \/ a.atyp = ATYP_IPV4 /\ Len(a.host) = 4
      \/ a.atyp = ATYP_IPV6 /\ Len(a.host) = 16
      \/ a.atyp = ATYP_DOMAIN /\ NameOk(a.host) /\ Len(a.host) <= 255
  BY DEF Addresses
<1>h. Len(a.host) \in Nat
  BY AddressFields
<1>t. Tail(s) \in Seq(Byte) /\ Len(Tail(s)) = Len(s) - 1 /\ Len(s) \in Nat /\ Len(s) > 0
  BY HeadTailProperties, EmptySeq
<1>3. CASE a.atyp = ATYP_IPV4 /\ Len(a.host) = 4
  BY <1>3, <1>h DEF HostLen, Lead, ATYP_IPV4, ATYP_DOMAIN, ATYP_IPV6
<1>4. CASE a.atyp = ATYP_IPV6 /\ Len(a.host) = 16
  BY <1>4, <1>h DEF HostLen, Lead, ATYP_IPV4, ATYP_DOMAIN, ATYP_IPV6
<1>5. CASE a.atyp = ATYP_DOMAIN
  <2>0. Lead(a) = 1
    BY <1>5 DEF Lead
  <2>1. CASE Len(s) = 1
    <3>1. Tail(s) = <<>>
      <4> DEFINE t == Tail(s)
      <4>1. t \in Seq(Byte) /\ Len(t) = 0
        BY <2>1, <1>t
      <4> HIDE DEF t
      <4>2. t = <<>>
        BY <4>1, EmptySeq
      <4> QED BY <4>2 DEF t
    <3> QED BY <3>1, <2>0, <2>1, <1>5 DEF HostLen, ATYP_IPV4, ATYP_DOMAIN, ATYP_IPV6
  <2>2. CASE Len(s) > 1
    <3>1. Tail(s) # <<>> /\ Tail(s)[1] = s[2]
      BY <2>2, <1>t, HeadTailProperties
    <3> QED BY <3>1, <2>0, <2>2, <1>5 DEF HostLen, ATYP_IPV4, ATYP_DOMAIN, ATYP_IPV6
  <2> QED BY <2>1, <2>2, <1>t
<1> QED BY <1>2, <1>3, <1>4, <1>5

\* An address of which not all is there, n being the bytes of its host.
LEMMA AddressShort ==
    ASSUME NEW s, NEW n, n = IF s = <<>> THEN 0 ELSE HostLen(s[1], Tail(s)),
           n = 0 \/ Len(s) < n + 3
    PROVE  Decode(s) = Error
BY DEF Decode

\* ProxyAddr::decode inverts encode_into.
LEMMA AddressDecoded ==
    ASSUME NEW a \in Addresses, NEW s, HoldsAddress(s, a)
    PROVE  Decode(s) = Ok(a)
<1> DEFINE k == Lead(a)  h == Len(a.host)  n == k + h
           host == SubSeq(s, IF s[1] = ATYP_DOMAIN THEN 3 ELSE 2, n + 1)
           p == a.port  ah == a.host  x == a.atyp
<1>1. /\ ah \in Seq(Byte) /\ p \in Nat /\ p < 65536 /\ h \in Nat /\ h > 0 /\ h < 256
      /\ k \in {0, 1} /\ (k = 1 <=> x = ATYP_DOMAIN) /\ Len(ah) = h
  BY AddressFields
<1>2. /\ s \in Seq(Byte) /\ Len(s) = k + h + 3 /\ s[1] = x
      /\ (k = 1 => s[2] = h)
      /\ s[k + h + 2] = p \div 256 /\ s[k + h + 3] = p % 256
  BY DEF HoldsAddress
<1>3. \A j \in (k + 2)..(k + 1 + h) : s[j] = ah[j - k - 1]
  BY DEF HoldsAddress
<1>a. a = [atyp |-> x, host |-> ah, port |-> p]
  BY DEF Addresses
<1>b. x = ATYP_DOMAIN => NameOk(ah)
  BY DEF Addresses, ATYP_IPV4, ATYP_DOMAIN, ATYP_IPV6
<1>4. s # <<>>
  BY <1>1, <1>2
<1>5. HostLen(s[1], Tail(s)) = n
  <2>1. HostLen(s[1], Tail(s)) = IF Lead(a) = 1 /\ Len(s) = 1 THEN 0 ELSE Lead(a) + Len(a.host)
    BY <1>2, <1>4, HostLenOf
  <2>2. ~(Lead(a) = 1 /\ Len(s) = 1)
    BY <1>1, <1>2
  <2> QED BY <2>1, <2>2
<1> HIDE DEF k, h, p, ah, x
<1>6. host = ah
  <2>0. s[1] = ATYP_DOMAIN <=> k = 1
    BY <1>1, <1>2
  <2>1. host = SubSeq(s, k + 2, n + 1)
    BY <2>0, <1>1
  <2>2. \A i \in (k + 2)..(n + 1) : s[i] \in Byte
    BY <1>1, <1>2
  <2> DEFINE g == SubSeq(s, k + 2, n + 1)
  <2>3. g \in Seq(Byte) /\ Len(g) = h
    BY <2>2, <1>1, SubSeqProperties
  <2>4. ASSUME NEW i \in 1..h PROVE g[i] = ah[i]
    <3>1. g[i] = s[(k + 2) + i - 1]
      BY <2>2, <1>1, SubSeqProperties
    <3>2. (k + 2) + i - 1 \in (k + 2)..(k + 1 + h) /\ ((k + 2) + i - 1) - k - 1 = i
      BY <1>1
    <3> QED BY <3>1, <3>2, <1>3
  <2> HIDE DEF g
  <2>5. g = ah
    BY <2>3, <2>4, <1>1, SeqEqual
  <2> QED BY <2>1, <2>5 DEF g
<1>7. s[n + 2] * 256 + s[n + 3] = p
  BY <1>1, <1>2
<1>9. ~(n = 0 \/ Len(s) < n + 3) /\ ~(Len(s) > n + 3)
  BY <1>1, <1>2
<1>c. s[1] = ATYP_DOMAIN => NameOk(host)
  BY <1>b, <1>2, <1>6
<1>d. n = IF s = <<>> THEN 0 ELSE HostLen(s[1], Tail(s))
  BY <1>4, <1>5
<1> DEFINE N == HostLen(s[1], Tail(s))
           H == SubSeq(s, IF s[1] = ATYP_DOMAIN THEN 3 ELSE 2, N + 1)
           P == s[N + 2] * 256 + s[N + 3]
<1>t. Decode(s) = IF N = 0 \/ Len(s) < N + 3 THEN Error
                  ELSE IF s[1] = ATYP_DOMAIN /\ ~NameOk(H) THEN Error
                  ELSE IF Len(s) > N + 3 THEN Error
                  ELSE Ok([atyp |-> s[1], host |-> H, port |-> P])
  BY <1>4 DEF Decode
<1>e. N = n
  BY <1>5
<1> HIDE DEF N, n
<1>f. H = host /\ P = p
  BY <1>e, <1>7
<1> HIDE DEF H, P, host
<1>10. Decode(s) = Ok([atyp |-> s[1], host |-> H, port |-> P])
  BY <1>t, <1>9, <1>c, <1>e, <1>f
<1>g. [atyp |-> s[1], host |-> H, port |-> P] = a
  BY <1>f, <1>6, <1>2, <1>a
<1> QED BY <1>10, <1>g

\* A front part of an address is none.
LEMMA AddressPrefix ==
    ASSUME NEW a \in Addresses, NEW e, HoldsAddress(e, a),
           NEW s \in Seq(Byte), Len(s) < Len(e), \A i \in 1..Len(s) : s[i] = e[i]
    PROVE  Decode(s) = Error
<1> DEFINE k == Lead(a)  h == Len(a.host)
           n == IF s = <<>> THEN 0 ELSE HostLen(s[1], Tail(s))
<1>1. h \in Nat /\ h > 0 /\ k \in {0, 1} /\ Len(s) \in Nat
  BY AddressFields
<1>2. Len(e) = k + h + 3 /\ e[1] = a.atyp /\ (k = 1 => e[2] = h)
  BY DEF HoldsAddress
<1>3. n = 0 \/ Len(s) < n + 3
  <2>1. CASE s = <<>>
    BY <2>1
  <2>2. CASE s # <<>>
    <3>1. Len(s) > 0 /\ s[1] = a.atyp /\ (Lead(a) = 1 /\ Len(s) > 1 => s[2] = Len(a.host))
      <4>1. Len(s) > 0
        BY <2>2, EmptySeq
      <4>2. 1 \in 1..Len(s) /\ (Len(s) > 1 => 2 \in 1..Len(s))
        BY <4>1, <1>1
      <4> QED BY <4>1, <4>2, <1>2
    <3>2. HostLen(s[1], Tail(s)) = IF Lead(a) = 1 /\ Len(s) = 1 THEN 0 ELSE Lead(a) + Len(a.host)
      BY <2>2, <3>1, HostLenOf
    <3>3. n = 0 \/ n = k + h
      BY <3>2, <2>2
    <3> QED BY <3>3, <1>1, <1>2
  <2> QED BY <2>1, <2>2
<1> QED BY <1>3, AddressShort

\* Every target read_addr takes off a SOCKS5 request is one ProxyAddr can
\* hold, and so one an OPEN frame carries.
THEOREM AcceptedTargets ==
    ASSUME NEW s \in Seq(Byte), read_addr(s) # Error
    PROVE  read_addr(s).value \in Addresses
<1> DEFINE x == s[1]
           dom == s[1] = ATYP_DOMAIN
           first == IF dom THEN 3 ELSE 2
           len == CASE s[1] = ATYP_IPV4 -> 4
                    [] s[1] = ATYP_IPV6 -> 16
                    [] dom /\ Len(s) > 1 -> s[2]
                    [] OTHER -> 0
           p == first + len
           host == SubSeq(s, first, first + len - 1)
           port == s[p] * 256 + s[p + 1]
           a == [atyp |-> s[1], host |-> host, port |-> port]
<1>1. read_addr(s) = IF s = <<>> THEN Error
                     ELSE IF len = 0 \/ Len(s) < p + 1 THEN Error
                     ELSE IF dom /\ ~NameOk(host) THEN Error
                     ELSE Ok(a)
  BY DEF read_addr
<1>l. Len(s) \in Nat /\ \A i \in 1..Len(s) : s[i] \in Byte
  BY LenProperties, ElementOfSeq
<1>2. \/ x = ATYP_IPV4 /\ len = 4
      \/ x = ATYP_IPV6 /\ len = 16
      \/ x = ATYP_DOMAIN /\ Len(s) > 1 /\ len = s[2]
      \/ len = 0
  <2>1. x = ATYP_IPV4 => len = 4
    BY DEF ATYP_IPV4, ATYP_IPV6, ATYP_DOMAIN
  <2>2. x = ATYP_IPV6 => len = 16
    BY DEF ATYP_IPV4, ATYP_IPV6, ATYP_DOMAIN
  <2>3. x = ATYP_DOMAIN /\ Len(s) > 1 => len = s[2]
    BY DEF ATYP_IPV4, ATYP_IPV6, ATYP_DOMAIN
  <2>4. x # ATYP_IPV4 /\ x # ATYP_IPV6 /\ ~(x = ATYP_DOMAIN /\ Len(s) > 1) => len = 0
    OBVIOUS
  <2> HIDE DEF x, len
  <2> QED BY <2>1, <2>2, <2>3, <2>4
<1>3. first = (IF x = ATYP_DOMAIN THEN 3 ELSE 2) /\ p = first + len /\ (dom <=> x = ATYP_DOMAIN)
  OBVIOUS
<1>h. host = SubSeq(s, first, first + len - 1) /\ port = s[p] * 256 + s[p + 1]
  OBVIOUS
<1>a. a = [atyp |-> x, host |-> host, port |-> port]
  OBVIOUS
<1> HIDE DEF x, dom, first, len, p, host, port, a
<1>4. len # 0 /\ ~(Len(s) < p + 1) /\ (dom => NameOk(host)) /\ read_addr(s) = Ok(a)
  BY <1>1
<1>5. read_addr(s).value = a
  BY <1>4 DEF Ok
<1>6. len \in Nat /\ len > 0 /\ len < 256
  <2>1. Len(s) > 1 => s[2] \in Nat /\ s[2] < 256
    BY <1>l, ByteRange
  <2> QED BY <2>1, <1>2, <1>4
<1>7. first \in 2..3 /\ first + len - 1 \in Nat /\ first + len - 1 >= first
  BY <1>3, <1>6
<1>8. p \in 1..Len(s) /\ p + 1 \in 1..Len(s)
  BY <1>3, <1>4, <1>6, <1>7, <1>l
<1>10. port \in U16
  <2>1. s[p] \in Byte /\ s[p + 1] \in Byte
    BY <1>8, <1>l
  <2> DEFINE y == s[p]  z == s[p + 1]
  <2>2. y \in Nat /\ y < 256 /\ z \in Nat /\ z < 256
    BY <2>1, ByteRange
  <2>3. port = y * 256 + z
    BY <1>h
  <2> HIDE DEF y, z
  <2>4. port \in Nat /\ port < 65536
    BY <2>2, <2>3
  <2> QED BY <2>4, U16Range
<1>12. host \in Seq(Byte) /\ Len(host) = len
  <2> DEFINE q == first + len - 1
  <2>0. q \in Nat /\ q >= first /\ q - first + 1 = len /\ q < p
    BY <1>3, <1>6, <1>7
  <2>q. host = SubSeq(s, first, q)
    BY <1>h
  <2> HIDE DEF q
  <2>1. ASSUME NEW i \in first..q PROVE s[i] \in Byte
    <3>1. i \in 1..Len(s)
      BY <2>0, <1>7, <1>8, <1>l
    <3> QED BY <3>1, <1>l
  <2>2. SubSeq(s, first, q) \in Seq(Byte)
    BY <2>0, <2>1, <1>7, SubSeqProperties
  <2>3. Len(SubSeq(s, first, q)) = IF first <= q THEN q - first + 1 ELSE 0
    BY <2>0, <2>1, <1>7, SubSeqProperties
  <2> QED BY <2>0, <2>2, <2>3, <2>q
<1>13. \/ x = ATYP_IPV4 /\ Len(host) = 4
       \/ x = ATYP_IPV6 /\ Len(host) = 16
       \/ x = ATYP_DOMAIN /\ NameOk(host) /\ Len(host) <= 255
  BY <1>2, <1>3, <1>4, <1>6, <1>12
<1>14. x \in {ATYP_IPV4, ATYP_DOMAIN, ATYP_IPV6}
  BY <1>13
<1>15. a \in Addresses
  BY <1>10, <1>12, <1>13, <1>14, <1>a DEF Addresses
<1> QED BY <1>5, <1>15

----------------------------------------------------------------------------
(* OPEN frames *)

\* x, then the n elements of e, then m, place by place.
IsFrame(w, x, e, n, m) ==
    /\ w \in Seq(Nat) /\ Len(w) = 1 + n + Len(m) /\ w[1] = x
    /\ \A j \in 2..(n + 1) : w[j] = e[j - 1]
    /\ \A j \in (n + 2)..(1 + n + Len(m)) : w[j] = m[j - n - 1]

\* A kind, a varint and a payload in a row are a frame.
LEMMA FrameParts ==
    ASSUME NEW x \in Nat, NEW n \in Nat, NEW e \in [1..n -> Nat], NEW m \in Seq(Byte)
    PROVE  IsFrame((<<x>> \o e) \o m, x, e, n, m)
<1> DEFINE u == <<x>> \o e  w == u \o m  l == Len(m)
<1>1. e \in Seq(Nat) /\ Len(e) = n
  BY FunSeq
<1>b. \A b \in Byte : b \in Nat
  BY ByteRange
<1>2. m \in Seq(Nat) /\ l \in Nat
  BY <1>b, SeqMonotonic
<1>3. <<x>> \in Seq(Nat) /\ Len(<<x>>) = 1 /\ <<x>>[1] = x
  OBVIOUS
<1>4. u \in Seq(Nat) /\ Len(u) = 1 + n /\ u[1] = x
  BY <1>1
<1>5. ASSUME NEW j \in 2..(n + 1) PROVE u[j] = e[j - 1]
  <2>1. \A i \in 1..(Len(<<x>>) + Len(e)) :
            (<<x>> \o e)[i] = IF i <= Len(<<x>>) THEN <<x>>[i] ELSE e[i - Len(<<x>>)]
    BY <1>1, <1>3, ConcatProperties
  <2>2. j \in 1..(Len(<<x>>) + Len(e)) /\ ~(j <= Len(<<x>>)) /\ j - Len(<<x>>) = j - 1
    BY <1>1, <1>3
  <2> QED BY <2>1, <2>2
<1> HIDE DEF u
<1>6. w \in Seq(Nat) /\ Len(w) = 1 + n + l
  BY <1>2, <1>4, ConcatProperties
<1>7. \A i \in 1..(Len(u) + Len(m)) : (u \o m)[i] = IF i <= Len(u) THEN u[i] ELSE m[i - Len(u)]
  BY <1>2, <1>4, ConcatProperties
<1>8. \A i \in 1..(1 + n + l) : w[i] = IF i <= 1 + n THEN u[i] ELSE m[i - (1 + n)]
  BY <1>7, <1>4, <1>2
<1> HIDE DEF w
<1>9. w[1] = x
  BY <1>8, <1>4, <1>2
<1>10. ASSUME NEW j \in 2..(n + 1) PROVE w[j] = e[j - 1]
  <2>1. j \in 1..(1 + n + l) /\ j <= 1 + n
    BY <1>2
  <2> QED BY <2>1, <1>8, <1>5
<1>l. Len(m) = l
  OBVIOUS
<1> HIDE DEF l
<1>11. ASSUME NEW j \in (n + 2)..(1 + n + l) PROVE w[j] = m[j - n - 1]
  <2>1. j \in 1..(1 + n + l) /\ ~(j <= 1 + n) /\ j - (1 + n) = j - n - 1
    BY <1>2
  <2> QED BY <2>1, <1>8
<1>12. IsFrame(w, x, e, n, m)
  BY <1>6, <1>9, <1>10, <1>11, <1>l DEF IsFrame
<1> QED BY <1>12 DEF w, u

\* s is the front of w, or all of it.
FrontOf(s, w) == Len(s) <= Len(w) /\ \A i \in 1..Len(s) : s[i] = w[i]

\* A frame of which the varint is not all there.
LEMMA FrameCutEarly ==
    ASSUME NEW v \in Nat, NEW n \in 1..MaxVarint, NEW e, IsVarint(e, n, v),
           NEW m \in Seq(Byte), NEW w, IsFrame(w, OPEN, e, n, m),
           NEW s \in Seq(Nat), FrontOf(s, w), Len(s) <= n
    PROVE  parse_frame(s) = Error
<1>1. CASE s = <<>>
  BY <1>1 DEF parse_frame
<1>2. CASE s # <<>>
  <2> DEFINE t == Tail(s)
  <2>n. n \in Nat /\ n > 0 /\ Len(m) \in Nat
    BY VarintAssumption
  <2>1. t \in Seq(Nat) /\ Len(t) = Len(s) - 1 /\ Len(s) \in Nat /\ Len(s) > 0
    BY <1>2, HeadTailProperties, EmptySeq
  <2>2. ASSUME NEW i \in 1..Len(t) PROVE t[i] = s[i + 1]
    BY <1>2, HeadTailProperties
  <2> HIDE DEF t
  <2>3. ASSUME NEW i \in 1..Len(t) PROVE t[i] = e[i]
    <3>1. i + 1 \in 1..Len(s) /\ i + 1 \in 2..(n + 1) /\ (i + 1) - 1 = i
      BY <2>1, <2>n
    <3>2. s[i + 1] = w[i + 1] /\ w[i + 1] = e[(i + 1) - 1]
      BY <3>1 DEF FrontOf, IsFrame
    <3> QED BY <3>1, <3>2, <2>2
  <2>4. Len(t) < n
    BY <2>1, <2>n
  <2>5. decode_varint(t) = Error
    BY <2>1, <2>3, <2>4, VarintPrefix
  <2> QED BY <2>5, <1>2 DEF parse_frame, t
<1> QED BY <1>1, <1>2

\* p is what is there of the payload m behind a varint of n bytes.
IsPayload(p, s, n, m) ==
    /\ p \in Seq(Byte) /\ Len(p) = Len(s) - n - 1
    /\ \A i \in 1..(Len(s) - n - 1) : p[i] = m[i]

\* A frame with all of its varint: the rest is the payload.
LEMMA FrameParsed ==
    ASSUME NEW v \in Nat, v <= MaxWord, NEW n \in 1..MaxVarint, NEW e, IsVarint(e, n, v),
           NEW m \in Seq(Byte), NEW w, IsFrame(w, OPEN, e, n, m),
           NEW s \in Seq(Nat), FrontOf(s, w), n < Len(s)
    PROVE  /\ parse_frame(s) = Ok([kind |-> OPEN, stream |-> v, payload |-> From(s, 2 + n)])
           /\ IsPayload(From(s, 2 + n), s, n, m)
<1> DEFINE t == Tail(s)  l == Len(s)  k == Len(m)
<1>n. n \in Nat /\ n > 0 /\ k \in Nat /\ l \in Nat /\ n < l /\ l <= 1 + n + k
  BY VarintAssumption, SMTT(30) DEF FrontOf, IsFrame
<1>e. s # <<>>
  BY <1>n
<1>1. t \in Seq(Nat) /\ Len(t) = l - 1
  BY <1>e, HeadTailProperties
<1>2. ASSUME NEW i \in 1..Len(t) PROVE t[i] = s[i + 1]
  BY <1>e, HeadTailProperties
<1> HIDE DEF t
<1>w. /\ \A i \in 1..l : s[i] = w[i]
      /\ w[1] = OPEN /\ \A j \in 2..(n + 1) : w[j] = e[j - 1]
      /\ \A j \in (n + 2)..(1 + n + k) : w[j] = m[j - n - 1]
  BY DEF FrontOf, IsFrame
<1>l. Len(s) = l
  OBVIOUS
<1>k. Len(m) = k
  OBVIOUS
<1> HIDE DEF l, k
<1>3. ASSUME NEW i \in 1..n PROVE t[i] = e[i]
  <2>1. i \in 1..Len(t) /\ i + 1 \in 1..l /\ i + 1 \in 2..(n + 1) /\ (i + 1) - 1 = i
    BY <1>1, <1>n
  <2>2. s[i + 1] = w[i + 1] /\ w[i + 1] = e[(i + 1) - 1]
    BY <2>1, <1>w
  <2> QED BY <2>1, <2>2, <1>2
<1>4. StartsWith(t, e, n)
  BY <1>1, <1>3, <1>n DEF StartsWith
<1>5. decode_varint(t) = Ok([v |-> v, n |-> n])
  BY <1>1, <1>4, VarintDecoded
<1>6. s[1] = OPEN
  BY <1>w, <1>n
<1>7. parse_frame(s) = Ok([kind |-> OPEN, stream |-> v, payload |-> From(s, 2 + n)])
  <2> DEFINE d == decode_varint(t)
  <2>1. parse_frame(s) = IF s = <<>> THEN Error
                         ELSE IF s[1] \notin Kinds \/ d = Error THEN Error
                         ELSE Ok([kind |-> s[1], stream |-> d.value.v, payload |-> From(s, 2 + d.value.n)])
    BY DEF parse_frame, t
  <2>2. d # Error /\ d.value.v = v /\ d.value.n = n
    BY <1>5 DEF Ok, Error
  <2>3. OPEN \in Kinds
    BY DEF OPEN, Kinds
  <2> HIDE DEF d
  <2> QED BY <2>1, <2>2, <2>3, <1>6, <1>e
<1>8. ASSUME NEW i \in (2 + n)..l PROVE s[i] = m[i - n - 1] /\ s[i] \in Byte
  <2>1. i \in 1..l /\ i \in (n + 2)..(1 + n + k) /\ i - n - 1 \in 1..k
    BY <1>n
  <2>2. s[i] = m[i - n - 1]
    BY <2>1, <1>w
  <2>3. m[i - n - 1] \in Byte
    BY <2>1, <1>k, ElementOfSeq
  <2> QED BY <2>2, <2>3
<1>p. \A h \in (2 + n)..l : s[h] \in Byte
  BY <1>8
<1> DEFINE g == SubSeq(s, 2 + n, l)
<1>g. From(s, 2 + n) = g
  BY <1>l DEF From
<1>9. g \in Seq(Byte) /\ Len(g) = l - n - 1
  BY <1>8, <1>n, SubSeqProperties
<1>10. ASSUME NEW i \in 1..(l - n - 1) PROVE g[i] = m[i]
  <2>1. (2 + n) + i - 1 \in (2 + n)..l /\ ((2 + n) + i - 1) - n - 1 = i /\ i \in 1..(l - (2 + n) + 1)
    BY <1>n
  <2>3. \A j \in 1..(l - (2 + n) + 1) : g[j] = s[(2 + n) + j - 1]
    <3> DEFINE a == 2 + n
    <3>1. a \in Int /\ l \in Int /\ a \in 1..(l + 1) /\ (\A h \in a..l : s[h] \in Byte)
      <4>1. a \in Int /\ l \in Int /\ a \in 1..(l + 1)
        BY <1>n
      <4> QED BY <4>1, <1>p
    <3> HIDE DEF a
    <3>2. \A j \in 1..(l - a + 1) : SubSeq(s, a, l)[j] = s[a + j - 1]
      BY <3>1, SubSeqProperties
    <3> QED BY <3>2 DEF a
  <2>2. g[i] = s[(2 + n) + i - 1]
    BY <2>1, <2>3
  <2> QED BY <2>1, <2>2, <1>8
<1> HIDE DEF g
<1>11. IsPayload(g, s, n, m)
  BY <1>9, <1>10, <1>l DEF IsPayload
<1> QED BY <1>7, <1>11, <1>g

\* The OPEN frame of every stream and target is read back; the front of one
\* is refused.
LEMMA OpenLossless ==
    ASSUME NEW v \in Nat, v <= MaxWord, NEW a \in Addresses,
           NEW w, w = FrameHeader(OPEN, v) \o EncodeInto(a),
           NEW s \in Seq(Nat), FrontOf(s, w)
    PROVE  /\ w \in Seq(Nat) /\ Len(w) > 0
           /\ Len(s) = Len(w) => OpenIn(s) = Ok(<<v, a>>)
           /\ Len(s) < Len(w) => OpenIn(s) = Error
<1> DEFINE e == encode_varint(v)  m == EncodeInto(a)
<1>1. PICK n \in 1..MaxVarint : IsVarint(e, n, v)
  BY VarintEncoded
<1>n. n \in Nat /\ n > 0
  BY VarintAssumption
<1>2. HoldsAddress(m, a)
  BY EncodeIntoShape
<1>3. m \in Seq(Byte) /\ e \in [1..n -> Nat]
  BY <1>1, <1>2 DEF HoldsAddress, IsVarint
<1>w. w = (<<OPEN>> \o e) \o m
  BY DEF FrameHeader
<1> HIDE DEF e, m
<1>4. OPEN \in Nat
  BY DEF OPEN
<1>5. IsFrame(w, OPEN, e, n, m)
  BY <1>3, <1>4, <1>w, <1>n, FrameParts
<1>6. w \in Seq(Nat) /\ Len(w) = 1 + n + Len(m) /\ Len(m) \in Nat /\ Len(s) \in Nat
  BY <1>5, <1>3 DEF IsFrame
<1>7. CASE Len(s) <= n
  <2>1. parse_frame(s) = Error
    BY <1>1, <1>3, <1>5, <1>7, FrameCutEarly
  <2> QED BY <2>1, <1>6, <1>7, <1>n DEF OpenIn
<1>8. CASE n < Len(s)
  <2> DEFINE p == From(s, 2 + n)
  <2>1. parse_frame(s) = Ok([kind |-> OPEN, stream |-> v, payload |-> p])
    BY <1>1, <1>3, <1>5, <1>8, FrameParsed
  <2>p. IsPayload(From(s, 2 + n), s, n, m)
    BY <1>1, <1>3, <1>5, <1>8, FrameParsed
  <2>2. p \in Seq(Byte) /\ Len(p) = Len(s) - n - 1 /\ \A i \in 1..(Len(s) - n - 1) : p[i] = m[i]
    BY <2>p DEF IsPayload
  <2>3. ASSUME NEW i \in 1..(Len(s) - n - 1) PROVE p[i] = m[i]
    BY <2>2
  <2>o. OpenIn(s) = LET b == Decode(p) IN IF b = Error THEN Error ELSE Ok(<<v, b.value>>)
    <3> DEFINE f == parse_frame(s)
    <3>1. OpenIn(s) = IF f = Error THEN Error
                      ELSE LET b == Decode(f.value.payload)
                           IN IF b = Error THEN Error ELSE Ok(<<f.value.stream, b.value>>)
      BY DEF OpenIn
    <3>2. f # Error /\ f.value.payload = p /\ f.value.stream = v
      BY <2>1 DEF Ok, Error
    <3> HIDE DEF f, p
    <3> QED BY <3>1, <3>2
  <2> HIDE DEF p
  <2>4. CASE Len(s) = Len(w)
    <3>1. Len(p) = Len(m)
      BY <2>2, <2>4, <1>6, <1>n
    <3>2. p = m
      BY <3>1, <2>2, <2>3, <1>3, SeqEqual
    <3>3. Decode(p) = Ok(a)
      BY <3>2, <1>2, AddressDecoded
    <3>4. OpenIn(s) = Ok(<<v, a>>)
      BY <3>3, <2>o DEF Ok, Error
    <3> QED BY <3>4, <2>4, <1>6, <1>n
  <2>5. CASE Len(s) < Len(w)
    <3>0. Len(p) = Len(s) - n - 1 /\ Len(p) < Len(m)
      BY <2>2, <2>5, <1>6, <1>n
    <3>1. Len(p) < Len(m) /\ \A i \in 1..Len(p) : p[i] = m[i]
      BY <2>3, <3>0
    <3>2. Decode(p) = Error
      BY <3>1, <2>2, <1>2, AddressPrefix
    <3>3. OpenIn(s) = Error
      BY <3>2, <2>o
    <3> QED BY <3>3, <2>5, <1>6, <1>n
  <2> QED BY <2>4, <2>5, <1>6 DEF FrontOf
<1> QED BY <1>7, <1>8, <1>6, <1>n

\* What the prefix v is to a bonded carrier: a length, or too long or empty.
PrefixRead(v, n) == IF v \in 1..PREFIX_MAX_FRAME THEN Ok([v |-> v, n |-> n]) ELSE Error

\* The length prefix of every message of a bonded carrier is read back, one
\* out of bounds refused; the front of one is waited for.
LEMMA VarintLossless ==
    ASSUME NEW v \in Nat, v <= MaxWord, NEW w, w = encode_varint(v),
           NEW s \in Seq(Nat), FrontOf(s, w)
    PROVE  /\ w \in Seq(Nat) /\ Len(w) > 0
           /\ Len(s) = Len(w) => peek_prefix(s) = PrefixRead(v, Len(w))
           /\ Len(s) < Len(w) => peek_prefix(s) = More
<1>1. PICK n \in 1..MaxVarint : IsVarint(w, n, v)
  BY VarintEncoded
<1>n. n \in Nat /\ n > 0 /\ n <= MaxVarint /\ MaxVarint \in Nat /\ MaxWord \in Nat
  BY VarintAssumption
<1>2. w \in Seq(Nat) /\ Len(w) = n
  <2>1. w \in [1..n -> Nat]
    BY <1>1 DEF IsVarint
  <2> QED BY <2>1, <1>n, FunSeq
<1>3. \A i \in 1..Len(s) : s[i] = w[i]
  BY DEF FrontOf
<1>l. Len(s) \in Nat
  OBVIOUS
<1>4. CASE Len(s) = Len(w)
  <2>1. StartsWith(s, w, n)
    BY <1>2, <1>3, <1>4, <1>n DEF StartsWith
  <2> DEFINE d == decode_varint(s)
  <2>2. d = Ok([v |-> v, n |-> n])
    BY <2>1, <1>1, VarintDecoded
  <2>3. d # Error /\ d.value.v = v
    BY <2>2 DEF Ok, Error
  <2>4. peek_prefix(s) = IF d = Error THEN (IF Len(s) >= MaxVarint THEN Error ELSE More)
                         ELSE IF d.value.v \in 1..PREFIX_MAX_FRAME THEN d ELSE Error
    BY DEF peek_prefix
  <2> HIDE DEF d
  <2>5. peek_prefix(s) = PrefixRead(v, n)
    BY <2>2, <2>3, <2>4 DEF PrefixRead
  <2> QED BY <2>5, <1>2, <1>4, <1>n
<1>5. CASE Len(s) < Len(w)
  <2>1. Len(s) < n
    BY <1>2, <1>5
  <2>2. decode_varint(s) = Error
    BY <2>1, <1>1, <1>3, VarintPrefix
  <2>3. ~(Len(s) >= MaxVarint)
    BY <2>1, <1>n, <1>l
  <2>4. peek_prefix(s) = More
    BY <2>2, <2>3 DEF peek_prefix
  <2> QED BY <2>4, <1>2, <1>5, <1>n, <1>l
<1> QED BY <1>2, <1>4, <1>5, <1>n, <1>l DEF FrontOf

----------------------------------------------------------------------------
(* u32 words *)

Words == [hi : U16, lo : U16]

\* The two halves of an integer.
LEMMA HalfMod == \A x \in Int : x % Half \in U16 /\ x \div Half \in Int
<1>1. Half \in Nat /\ Half > 0
  BY HalfValue
<1> QED BY <1>1, DivMod DEF U16

\* A half is an integer.
LEMMA U16Int == \A x \in U16 : x \in Int
BY U16Range

\* The low byte of an integer.
LEMMA ByteMod == \A x \in Int : x % 256 \in Byte
<1>1. \A x \in Int : x % 256 \in Nat /\ x % 256 < 256
  OBVIOUS
<1> QED BY <1>1, ByteRange

\* An integer truncated to u32 is a word.
LEMMA WordTyped ==
    ASSUME NEW v \in Int
    PROVE  Word(v) \in Words
BY HalfMod DEF Word, Words

\* A product of two words has an integer in each half.
LEMMA ProductTyped ==
    ASSUME NEW x \in Int, NEW y \in Int
    PROVE  Product(x, y).hi \in Int /\ Product(x, y).lo \in U16
<1> DEFINE p == (x \div 256) * y
           q == (x % 256) * y
           s == (p % 256) * 256 + (q % Half)
<1>1. p \in Int /\ q \in Int
  OBVIOUS
<1> HIDE DEF p, q
<1>2. q % Half \in Int /\ q \div Half \in Int
  BY <1>1, HalfMod, U16Int
<1>3. s \in Int /\ p \div 256 \in Int
  BY <1>1, <1>2
<1>d. Product(x, y) = [hi |-> (p \div 256) + (q \div Half) + (s \div Half), lo |-> s % Half]
  BY DEF Product, p, q
<1> HIDE DEF s
<1>4. s \div Half \in Int /\ s % Half \in U16
  BY <1>3, HalfMod
<1> QED BY <1>d, <1>2, <1>3, <1>4

\* wrapping_mul stays within a word.
LEMMA MulTyped ==
    ASSUME NEW x \in Words, NEW y \in Words
    PROVE  wrapping_mul(x, y) \in Words
<1>1. x.hi \in Int /\ x.lo \in Int /\ y.hi \in Int /\ y.lo \in Int
  BY U16Int DEF Words
<1> DEFINE a == Product(x.lo, y.lo).hi
           b == Product(x.hi, y.lo).lo
           c == Product(x.lo, y.hi).lo
           l == Product(x.lo, y.lo).lo
<1>2. a \in Int /\ l \in U16
  BY <1>1, ProductTyped
<1>3. b \in Int /\ c \in Int
  BY <1>1, ProductTyped, U16Int
<1>4. wrapping_mul(x, y) = [hi |-> (a + b + c) % Half, lo |-> l]
  BY DEF wrapping_mul
<1> HIDE DEF a, b, c, l
<1>5. a + b + c \in Int
  BY <1>2, <1>3
<1>6. (a + b + c) % Half \in U16
  BY <1>5, HalfMod
<1> QED BY <1>2, <1>4, <1>6 DEF Words

\* wrapping_add stays within a word.
LEMMA AddTyped ==
    ASSUME NEW x \in Words, NEW y \in Words
    PROVE  wrapping_add(x, y) \in Words
<1>1. x.hi \in Int /\ x.lo \in Int /\ y.hi \in Int /\ y.lo \in Int
  BY U16Int DEF Words
<1> DEFINE s == x.lo + y.lo
           t == x.hi + y.hi + (s \div Half)
<1>2. s \in Int
  BY <1>1
<1>4. wrapping_add(x, y) = [hi |-> t % Half, lo |-> s % Half]
  BY DEF wrapping_add
<1> HIDE DEF s
<1>3. t \in Int
  BY <1>1, <1>2, HalfMod
<1> HIDE DEF t
<1>6. t % Half \in U16 /\ s % Half \in U16
  BY <1>2, <1>3, HalfMod
<1> QED BY <1>4, <1>6 DEF Words

\* The generator yields a number.
LEMMA LcgTyped ==
    ASSUME NEW seed \in Words
    PROVE  lcg_next(seed) \in Nat
<1>1. LCG_A \in Words /\ LCG_C \in Words /\ Word(1) \in Words
  BY WordTyped DEF LCG_A, LCG_C
<1>2. LCG_A2 \in Words
  BY <1>1, MulTyped DEF LCG_A2
<1>3. LCG_A3 \in Words
  BY <1>1, <1>2, MulTyped DEF LCG_A3
<1>4. LCG_C2 \in Words
  <2>1. wrapping_add(LCG_A, Word(1)) \in Words
    BY <1>1, AddTyped
  <2> QED BY <2>1, <1>1, MulTyped DEF LCG_C2
<1>5. LCG_C3 \in Words
  <2>1. wrapping_mul(LCG_C, LCG_A2) \in Words /\ wrapping_mul(LCG_C, LCG_A) \in Words
    BY <1>1, <1>2, MulTyped
  <2>2. wrapping_add(wrapping_mul(LCG_C, LCG_A2), wrapping_mul(LCG_C, LCG_A)) \in Words
    BY <2>1, AddTyped
  <2> QED BY <2>2, <1>1, AddTyped DEF LCG_C3
<1> DEFINE Jump(a, c) == wrapping_add(wrapping_mul(seed, a), c)
           n1 == Jump(LCG_A, LCG_C)
           n2 == Jump(LCG_A2, LCG_C2)
           n3 == Jump(LCG_A3, LCG_C3)
<1>6. ASSUME NEW a \in Words, NEW c \in Words PROVE Jump(a, c) \in Words
  BY MulTyped, AddTyped
<1>7. n1 \in Words /\ n2 \in Words /\ n3 \in Words
  BY <1>1, <1>2, <1>3, <1>4, <1>5, <1>6
<1>8. lcg_next(seed) = Mix(n1, n2, n3)
  BY DEF lcg_next
<1> HIDE DEF n1, n2, n3
<1>9. n1.hi \in Nat /\ n2.hi \in Nat /\ n3.hi \in Nat
  BY <1>7, U16Range DEF Words
<1>10. /\ n1.hi % 2048 \in Nat /\ n2.hi % 1024 \in Nat /\ n3.hi % 1024 \in Nat
  BY <1>9
<1> DEFINE x == n1.hi % 2048  y == n2.hi % 1024  z == n3.hi % 1024
<1>11. Mix(n1, n2, n3) = x * 1048576 + y * 1024 + z
  BY DEF Mix
<1>12. x \in Nat /\ y \in Nat /\ z \in Nat
  BY <1>10
<1> HIDE DEF x, y, z
<1> QED BY <1>8, <1>11, <1>12

\* lcg_range stays within its bounds.
LEMMA LcgRangeTyped ==
    ASSUME NEW seed \in Words, NEW min \in Nat, NEW max \in Nat, min <= max
    PROVE  lcg_range(seed, min, max) \in Nat /\ lcg_range(seed, min, max) >= min
           /\ lcg_range(seed, min, max) <= max
<1> DEFINE x == lcg_next(seed)  m == max - min + 1
<1>1. x \in Nat /\ m \in Nat /\ m > 0
  BY LcgTyped
<1>2. lcg_range(seed, min, max) = (x % m) + min
  BY DEF lcg_range
<1>m. m = max - min + 1
  OBVIOUS
<1> HIDE DEF x, m
<1>3. x % m \in 0..(m - 1)
  BY <1>1, DivMod
<1> QED BY <1>1, <1>2, <1>3, <1>m

----------------------------------------------------------------------------
(* Permutation *)

\* Exclusive or of integers is an integer, on two bits,
LEMMA XorInt2 ==
    ASSUME NEW a \in Int, NEW b \in Int
    PROVE  xor2(a, b) \in Int
<1> DEFINE h == xor1(a \div 2, b \div 2)  l == xor1(a % 2, b % 2)
<1>1. a \div 2 \in Int /\ b \div 2 \in Int /\ a % 2 \in Int /\ b % 2 \in Int
  OBVIOUS
<1>2. h \in Int /\ l \in Int
  BY <1>1 DEF xor1
<1>3. xor2(a, b) = 2 * h + l
  BY DEF xor2
<1> HIDE DEF h, l
<1> QED BY <1>2, <1>3

\* on four,
LEMMA XorInt4 ==
    ASSUME NEW a \in Int, NEW b \in Int
    PROVE  xor4(a, b) \in Int
<1> DEFINE h == xor2(a \div 4, b \div 4)  l == xor2(a % 4, b % 4)
<1>1. a \div 4 \in Int /\ b \div 4 \in Int /\ a % 4 \in Int /\ b % 4 \in Int
  OBVIOUS
<1>2. h \in Int /\ l \in Int
  BY <1>1, XorInt2
<1>3. xor4(a, b) = 4 * h + l
  BY DEF xor4
<1> HIDE DEF h, l
<1> QED BY <1>2, <1>3

\* on eight
LEMMA XorInt8 ==
    ASSUME NEW a \in Int, NEW b \in Int
    PROVE  xor8(a, b) \in Int
<1> DEFINE h == xor4(a \div 16, b \div 16)  l == xor4(a % 16, b % 16)
<1>1. a \div 16 \in Int /\ b \div 16 \in Int /\ a % 16 \in Int /\ b % 16 \in Int
  OBVIOUS
<1>2. h \in Int /\ l \in Int
  BY <1>1, XorInt4
<1>3. xor8(a, b) = 16 * h + l
  BY DEF xor8
<1> HIDE DEF h, l
<1> QED BY <1>2, <1>3

\* and on sixteen.
LEMMA XorInt16 ==
    ASSUME NEW a \in Int, NEW b \in Int
    PROVE  xor16(a, b) \in Int
<1> DEFINE h == xor8(a \div 256, b \div 256)  l == xor8(a % 256, b % 256)
<1>1. a \div 256 \in Int /\ b \div 256 \in Int /\ a % 256 \in Int /\ b % 256 \in Int
  OBVIOUS
<1>2. h \in Int /\ l \in Int
  BY <1>1, XorInt8
<1>3. xor16(a, b) = 256 * h + l
  BY DEF xor16
<1> HIDE DEF h, l
<1> QED BY <1>2, <1>3

\* A partner is a position of the buffer.
LEMMA PartnerTyped ==
    ASSUME NEW key \in Words, NEW n \in Nat, NEW i \in 1..n
    PROVE  Partner(i, key, n) \in 1..n
<1>1. key.hi \in Int /\ key.lo \in Int /\ n > 0 /\ i - 1 \in Int
  BY U16Int DEF Words
<1> DEFINE a == key.hi % n  b == Half % n  c == xor16(key.lo, i - 1)  x == a * b + c
<1>2. a \in Int /\ b \in Int
  BY <1>1, HalfValue, DivMod
<1>3. c \in Int
  BY <1>1, XorInt16
<1>4. Partner(i, key, n) = (x % n) + 1
  BY DEF Partner
<1> HIDE DEF a, b, c
<1>5. x \in Int
  BY <1>2, <1>3
<1> HIDE DEF x
<1>6. x % n \in 0..(n - 1)
  BY <1>5, <1>1, DivMod
<1> QED BY <1>4, <1>6

\* A swap keeps the buffer's length and undoes itself.
LEMMA SwapTyped ==
    ASSUME NEW S, NEW n \in Nat, NEW d \in [1..n -> S], NEW i \in 1..n, NEW j \in 1..n
    PROVE  Swap(d, i, j) \in [1..n -> S]
BY DEF Swap

\* The same swap again undoes a swap.
LEMMA SwapBack ==
    ASSUME NEW S, NEW n \in Nat, NEW d \in [1..n -> S], NEW i \in 1..n, NEW j \in 1..n,
           NEW e, e = Swap(d, i, j)
    PROVE  Swap(e, i, j) = d
<1>1. e = [m \in 1..n |-> IF m = i THEN d[j] ELSE IF m = j THEN d[i] ELSE d[m]]
  BY DEF Swap
<1>2. e \in [1..n -> S]
  BY <1>1
<1>3. Swap(e, i, j) = [m \in 1..n |-> IF m = i THEN e[j] ELSE IF m = j THEN e[i] ELSE e[m]]
  BY <1>2 DEF Swap
<1>4. ASSUME NEW m \in 1..n PROVE Swap(e, i, j)[m] = d[m]
  BY <1>1, <1>3
<1> QED BY <1>3, <1>4

\* f holds the buffers of a pass of n swaps: at step i positions P[i] and Q[i].
IsPass(f, d, n, P, Q) ==
    f[0] = d /\ \A i \in 1..n : f[i] = Swap(f[i - 1], P[i], Q[i])

\* Every pass of swaps has its buffers.
LEMMA SwapsExist ==
    ASSUME NEW S, NEW n \in Nat, NEW d \in [1..n -> S],
           NEW P \in [1..n -> 1..n], NEW Q \in [1..n -> 1..n]
    PROVE  \E f \in [0..n -> [1..n -> S]] : IsPass(f, d, n, P, Q)
<1> DEFINE X == [1..n -> S]
           F == [p \in (1..n) \X X |-> Swap(p[2], P[p[1]], Q[p[1]])]
<1>1. ASSUME NEW p \in (1..n) \X X PROVE Swap(p[2], P[p[1]], Q[p[1]]) \in X
  <2>1. p[1] \in 1..n /\ p[2] \in X /\ P[p[1]] \in 1..n /\ Q[p[1]] \in 1..n
    OBVIOUS
  <2> QED BY <2>1, SwapTyped
<1>2. F \in [(1..n) \X X -> X]
  BY <1>1
<1>3. \A i \in 1..n, x \in X : F[<<i, x>>] = Swap(x, P[i], Q[i])
  OBVIOUS
<1>d. d \in X
  OBVIOUS
<1> HIDE DEF F, X
<1>s. Solvable(n, X, d, F)
  BY <1>2, <1>d, RecursionExists
<1>4. PICK f \in [0..n -> X] : f[0] = d /\ \A i \in 1..n : f[i] = F[<<i, f[i - 1]>>]
  BY <1>s DEF Solvable
<1>5. ASSUME NEW i \in 1..n PROVE f[i] = Swap(f[i - 1], P[i], Q[i])
  <2>1. i - 1 \in 0..n
    OBVIOUS
  <2>2. f[i - 1] \in X
    BY <2>1
  <2> QED BY <2>2, <1>3, <1>4
<1>6. IsPass(f, d, n, P, Q)
  BY <1>4, <1>5 DEF IsPass
<1> QED BY <1>6 DEF X

\* What Swapped and Unswapped compute.
IsSwapping(e, d, n, key) ==
    e[0] = d /\ \A i \in 1..n : e[i] = Swap(e[i - 1], i, Partner(i, key, n))

\* Swapped is the pass of shuffle.
LEMMA SwappedDef ==
    ASSUME NEW S, NEW n \in Nat, NEW d \in [1..n -> S], NEW key \in Words
    PROVE  /\ IsSwapping(Swapped(d, key), d, n, key)
           /\ \A i \in 0..n : Swapped(d, key)[i] \in [1..n -> S]
<1> DEFINE P == [i \in 1..n |-> i]  Q == [i \in 1..n |-> Partner(i, key, n)]
           e == Swapped(d, key)
<1>0. Len(d) = n
  BY FunSeq
<1>1. P \in [1..n -> 1..n] /\ Q \in [1..n -> 1..n]
  BY PartnerTyped
<1>p. \A i \in 1..n : P[i] = i /\ Q[i] = Partner(i, key, n)
  OBVIOUS
<1> HIDE DEF P, Q
<1>2. PICK f \in [0..n -> [1..n -> S]] : IsPass(f, d, n, P, Q)
  BY <1>1, SwapsExist
<1>a. f[0] = d /\ \A i \in 1..n : f[i] = Swap(f[i - 1], i, Partner(i, key, n))
  BY <1>2, <1>p DEF IsPass
<1>3. f = [i \in 0..Len(d) |-> IF i = 0 THEN d ELSE Swap(f[i - 1], i, Partner(i, key, Len(d)))]
  BY <1>0, <1>a
<1>4. e = [i \in 0..Len(d) |-> IF i = 0 THEN d ELSE Swap(e[i - 1], i, Partner(i, key, Len(d)))]
  BY <1>3 DEF Swapped
<1> HIDE DEF e
<1>5. e[0] = d /\ \A i \in 1..n : e[i] = Swap(e[i - 1], i, Partner(i, key, n))
  BY <1>0, <1>4
<1>6. ASSUME NEW i \in 1..n, e[i - 1] \in [1..n -> S] PROVE e[i] \in [1..n -> S]
  <2> DEFINE x == e[i - 1]  y == Partner(i, key, n)
  <2>1. x \in [1..n -> S] /\ y \in 1..n /\ e[i] = Swap(x, i, y)
    BY <1>5, <1>6, PartnerTyped
  <2> HIDE DEF x, y
  <2>2. Swap(x, i, y) \in [1..n -> S]
    BY <2>1, SwapTyped
  <2> QED BY <2>1, <2>2
<1> DEFINE X == [1..n -> S]
<1>7. e[0] \in X /\ \A i \in 1..n : e[i - 1] \in X => e[i] \in X
  BY <1>5, <1>6
<1> HIDE DEF X
<1>8. \A i \in 0..n : e[i] \in X
  BY <1>7, RecursionTyped
<1>9. IsSwapping(e, d, n, key)
  BY <1>5 DEF IsSwapping
<1> QED BY <1>9, <1>8 DEF e, X

\* Unswapped is the same pass from the other end.
LEMMA UnswappedDef ==
    ASSUME NEW S, NEW n \in Nat, NEW d \in [1..n -> S], NEW key \in Words
    PROVE  /\ Unswapped(d, key)[0] = d
           /\ \A i \in 1..n : Unswapped(d, key)[i] =
                  Swap(Unswapped(d, key)[i - 1], n + 1 - i, Partner(n + 1 - i, key, n))
<1> DEFINE P == [i \in 1..n |-> n + 1 - i]  Q == [i \in 1..n |-> Partner(n + 1 - i, key, n)]
           e == Unswapped(d, key)
<1>0. Len(d) = n
  BY FunSeq
<1>1. P \in [1..n -> 1..n] /\ Q \in [1..n -> 1..n]
  <2>1. \A i \in 1..n : n + 1 - i \in 1..n
    OBVIOUS
  <2> QED BY <2>1, PartnerTyped
<1>p. \A i \in 1..n : P[i] = n + 1 - i /\ Q[i] = Partner(n + 1 - i, key, n)
  OBVIOUS
<1> HIDE DEF P, Q
<1>2. PICK f \in [0..n -> [1..n -> S]] : IsPass(f, d, n, P, Q)
  BY <1>1, SwapsExist
<1>a. f[0] = d /\ \A i \in 1..n : f[i] = Swap(f[i - 1], n + 1 - i, Partner(n + 1 - i, key, n))
  BY <1>2, <1>p DEF IsPass
<1>3. f = [i \in 0..Len(d) |->
              IF i = 0 THEN d
              ELSE LET m == Len(d) + 1 - i IN Swap(f[i - 1], m, Partner(m, key, Len(d)))]
  BY <1>0, <1>a
<1>4. e = [i \in 0..Len(d) |->
              IF i = 0 THEN d
              ELSE LET m == Len(d) + 1 - i IN Swap(e[i - 1], m, Partner(m, key, Len(d)))]
  BY <1>3 DEF Unswapped
<1> HIDE DEF e
<1>5. e[0] = d /\ \A i \in 1..n : e[i] = Swap(e[i - 1], n + 1 - i, Partner(n + 1 - i, key, n))
  BY <1>0, <1>4
<1> QED BY <1>5 DEF e

\* A shuffle keeps the length, and unshuffle undoes it.
LEMMA ShuffleLossless ==
    ASSUME NEW S, NEW n \in Nat, NEW d \in [1..n -> S], NEW key \in Words
    PROVE  shuffle(d, key) \in [1..n -> S] /\ unshuffle(shuffle(d, key), key) = d
<1> DEFINE e == Swapped(d, key)  g == Unswapped(e[n], key)  P(i) == Partner(i, key, n)
           T == {i \in 0..n : g[i] = e[n - i]}
<1>s. IsSwapping(e, d, n, key)
  BY SwappedDef
<1>1. e[0] = d /\ \A i \in 1..n : e[i] = Swap(e[i - 1], i, P(i))
  BY <1>s DEF IsSwapping
<1>3. \A i \in 0..n : e[i] \in [1..n -> S]
  BY SwappedDef
<1>l. Len(d) = n
  BY FunSeq
<1>4. shuffle(d, key) = e[n] /\ e[n] \in [1..n -> S]
  BY <1>3, <1>l DEF shuffle
<1> HIDE DEF e
<1>5. g[0] = e[n]
  BY <1>4, UnswappedDef, ZenonT(60)
<1>6. \A i \in 1..n : g[i] = Swap(g[i - 1], n + 1 - i, P(n + 1 - i))
  BY <1>4, UnswappedDef, ZenonT(60)
<1>7. unshuffle(e[n], key) = g[n]
  BY <1>4, FunSeq DEF unshuffle
<1> HIDE DEF g
<1>p. \A i \in 1..n : P(i) \in 1..n
  BY PartnerTyped
<1> HIDE DEF P
<1>8. 0 \in T
  BY <1>5
<1>9. ASSUME NEW i \in 1..n, i - 1 \in T PROVE i \in T
  <2> DEFINE m == n + 1 - i
  <2>1. m \in 1..n /\ n - (i - 1) = m /\ m - 1 = n - i /\ m - 1 \in 0..n
    OBVIOUS
  <2>2. g[i - 1] = e[m]
    BY <1>9, <2>1
  <2>3. g[i] = Swap(g[i - 1], m, P(m))
    BY <1>6
  <2> HIDE DEF m
  <2>4. e[m] = Swap(e[m - 1], m, P(m)) /\ e[m - 1] \in [1..n -> S] /\ P(m) \in 1..n
    BY <2>1, <1>1, <1>3, <1>p
  <2> DEFINE x == e[m - 1]  y == P(m)
  <2>x. x \in [1..n -> S] /\ y \in 1..n /\ g[i] = Swap(Swap(x, m, y), m, y) /\ x = e[n - i]
    BY <2>1, <2>2, <2>3, <2>4
  <2> HIDE DEF x, y
  <2>5. Swap(Swap(x, m, y), m, y) = x
    <3> DEFINE z == Swap(x, m, y)
    <3>0. z = Swap(x, m, y)
      OBVIOUS
    <3> HIDE DEF z
    <3>2. x \in [1..n -> S] /\ y \in 1..n /\ m \in 1..n
      BY <2>1, <2>x
    <3>1. Swap(z, m, y) = x
      BY <3>0, <3>2, SwapBack, ZenonT(60)
    <3> QED BY <3>1 DEF z
  <2>6. g[i] = e[n - i]
    BY <2>x, <2>5
  <2> QED BY <2>6
<1> HIDE DEF T
<1>10. \A i \in 0..n : i \in T
  BY <1>8, <1>9, RangeInductionSet
<1>11. g[n] = e[0]
  BY <1>10 DEF T
<1> QED BY <1>1, <1>4, <1>7, <1>11

----------------------------------------------------------------------------
(* Delta coding *)

\* Adding a difference back, modulo 256.
LEMMA DeltaBack ==
    ASSUME NEW x \in Byte, NEW y \in Byte
    PROVE  (y - x) % 256 \in Byte /\ (x + ((y - x) % 256)) % 256 = y
<1>1. x \in Nat /\ y \in Nat /\ x < 256 /\ y < 256
  BY ByteRange
<1>2. y - x \in Int
  BY <1>1
<1>3. (y - x) % 256 = IF y >= x THEN y - x ELSE y - x + 256
  BY <1>1
<1>4. (x + ((y - x) % 256)) % 256 = y
  BY <1>1, <1>3
<1> QED BY <1>2, <1>4, ByteMod

IsUndone(u, d, n, k) ==
    u[0] = k /\ \A i \in 1..n : u[i] = (u[i - 1] + d[i]) % 256

\* Undone is the running sum of delta_decode.
LEMMA UndoneDef ==
    ASSUME NEW n \in Nat, NEW d \in [1..n -> Byte], NEW k \in Byte
    PROVE  IsUndone(Undone(d, k), d, n, k)
<1> DEFINE F == [p \in (1..n) \X Byte |-> (p[2] + d[p[1]]) % 256]
           e == Undone(d, k)
<1>0. Len(d) = n
  BY FunSeq
<1>m. \A x, y \in Byte : (x + y) % 256 \in Byte
  <2>1. \A x, y \in Byte : x + y \in Int
    BY ByteRange
  <2> QED BY <2>1, ByteMod
<1>1. F \in [(1..n) \X Byte -> Byte]
  <2>1. \A p \in (1..n) \X Byte : p[2] \in Byte /\ d[p[1]] \in Byte
    OBVIOUS
  <2> QED BY <2>1, <1>m
<1>2. \A i \in 1..n, x \in Byte : F[<<i, x>>] = (x + d[i]) % 256
  OBVIOUS
<1> HIDE DEF F
<1>s. Solvable(n, Byte, k, F)
  BY <1>1, RecursionExists
<1>3. PICK f \in [0..n -> Byte] : f[0] = k /\ \A i \in 1..n : f[i] = F[<<i, f[i - 1]>>]
  BY <1>s DEF Solvable
<1>4. ASSUME NEW i \in 1..n PROVE f[i] = (f[i - 1] + d[i]) % 256
  <2>1. i - 1 \in 0..n
    OBVIOUS
  <2>2. f[i - 1] \in Byte
    BY <2>1
  <2> QED BY <2>2, <1>2, <1>3, ZenonT(60)
<1>5. f = [i \in 0..Len(d) |-> IF i = 0 THEN k ELSE (f[i - 1] + d[i]) % 256]
  BY <1>0, <1>3, <1>4
<1>6. e = [i \in 0..Len(d) |-> IF i = 0 THEN k ELSE (e[i - 1] + d[i]) % 256]
  BY <1>5 DEF Undone
<1> HIDE DEF e
<1>7. e[0] = k /\ \A i \in 1..n : e[i] = (e[i - 1] + d[i]) % 256
  BY <1>0, <1>6
<1> QED BY <1>7 DEF e, IsUndone

\* Differences keep the length, and delta_decode adds them up again.
LEMMA DeltaLossless ==
    ASSUME NEW n \in Nat, NEW d \in [1..n -> Byte], NEW k \in Byte
    PROVE  delta_encode(d, k) \in [1..n -> Byte] /\ delta_decode(delta_encode(d, k), k) = d
<1> DEFINE e == delta_encode(d, k)  u == Undone(e, k)
           Prev(i) == IF i = 1 THEN k ELSE d[i - 1]
           T == {i \in 0..n : u[i] = IF i = 0 THEN k ELSE d[i]}
<1>1. e = [i \in 1..n |-> (d[i] - Prev(i)) % 256]
  BY DEF delta_encode
<1>2. ASSUME NEW i \in 1..n PROVE Prev(i) \in Byte /\ d[i] \in Byte
  <2>1. i # 1 => i - 1 \in 1..n
    OBVIOUS
  <2> QED BY <2>1
<1>3. e \in [1..n -> Byte]
  BY <1>1, <1>2, DeltaBack
<1>4. delta_decode(e, k) = [i \in 1..n |-> u[i]]
  BY <1>3 DEF delta_decode
<1> HIDE DEF e
<1>u. IsUndone(u, e, n, k)
  BY <1>3, UndoneDef
<1> HIDE DEF u
<1>5. u[0] = k
  BY <1>u DEF IsUndone
<1>6. \A i \in 1..n : u[i] = (u[i - 1] + e[i]) % 256
  BY <1>u DEF IsUndone
<1>7. 0 \in T
  BY <1>5
<1>8. ASSUME NEW i \in 1..n, i - 1 \in T PROVE i \in T
  <2>1. u[i - 1] = Prev(i)
    BY <1>8
  <2> HIDE DEF Prev
  <2>2. u[i] = (Prev(i) + ((d[i] - Prev(i)) % 256)) % 256
    BY <2>1, <1>1, <1>6
  <2>3. u[i] = d[i]
    BY <2>2, <1>2, DeltaBack
  <2> QED BY <2>3
<1> HIDE DEF T
<1>9. \A i \in 0..n : i \in T
  BY <1>7, <1>8, RangeInductionSet
<1>10. \A i \in 1..n : u[i] = d[i]
  BY <1>9 DEF T
<1>11. delta_decode(e, k) = d
  BY <1>4, <1>10
<1> QED BY <1>3, <1>11 DEF e

----------------------------------------------------------------------------
(* Masking *)

\* The same mask twice leaves the buffer.
LEMMA XorTwice ==
    ASSUME NEW n \in Nat, NEW d \in [1..n -> Byte], NEW K \in [1..n -> Byte],
           NEW e, e = [i \in 1..n |-> xor8(d[i], K[i])]
    PROVE  e \in [1..n -> Byte] /\ [i \in 1..n |-> xor8(e[i], K[i])] = d
<1>1. ASSUME NEW i \in 1..n PROVE xor8(d[i], K[i]) \in Byte /\ xor8(xor8(d[i], K[i]), K[i]) = d[i]
  <2>1. d[i] \in Byte /\ K[i] \in Byte
    OBVIOUS
  <2> QED BY <2>1, XorByte
<1>2. e \in [1..n -> Byte]
  BY <1>1
<1>3. ASSUME NEW i \in 1..n PROVE xor8(e[i], K[i]) = d[i]
  BY <1>1
<1> QED BY <1>2, <1>3

\* The key of a chunk of masked_xor_random_next is a word.
LEMMA ChunkKeysTyped ==
    ASSUME NEW kf \in Words, NEW c \in Nat
    PROVE  ChunkKeys(kf, c)[c] \in Words
<1> DEFINE F == [p \in (1..c) \X Words |-> Word(lcg_next(p[2]))]
           e == ChunkKeys(kf, c)
<1>w. \A x \in Words : Word(lcg_next(x)) \in Words
  <2>1. \A x \in Words : lcg_next(x) \in Int
    BY LcgTyped
  <2> QED BY <2>1, WordTyped
<1>1. F \in [(1..c) \X Words -> Words]
  BY <1>w
<1>2. \A i \in 1..c, x \in Words : F[<<i, x>>] = Word(lcg_next(x))
  OBVIOUS
<1> DEFINE x0 == Word(lcg_next(kf))
<1>x. x0 \in Words
  BY <1>w
<1> HIDE DEF F, x0
<1>s. Solvable(c, Words, x0, F)
  BY <1>1, <1>x, RecursionExists
<1>3. PICK f \in [0..c -> Words] : f[0] = x0 /\ \A i \in 1..c : f[i] = F[<<i, f[i - 1]>>]
  BY <1>s DEF Solvable
<1>4. ASSUME NEW i \in 1..c PROVE f[i] = Word(lcg_next(f[i - 1]))
  <2>1. i - 1 \in 0..c
    OBVIOUS
  <2>2. f[i - 1] \in Words
    BY <2>1
  <2> QED BY <2>2, <1>2, <1>3
<1>5. f = [i \in 0..c |-> IF i = 0 THEN x0 ELSE Word(lcg_next(f[i - 1]))]
  BY <1>3, <1>4
<1>6. e = [i \in 0..c |-> IF i = 0 THEN x0 ELSE Word(lcg_next(e[i - 1]))]
  BY <1>5 DEF ChunkKeys, x0
<1> HIDE DEF e
<1>7. e[0] \in Words /\ \A i \in 1..c : e[i - 1] \in Words => e[i] \in Words
  BY <1>6, <1>x, <1>w
<1>8. \A i \in 0..c : e[i] \in Words
  BY <1>7, RecursionTyped
<1> QED BY <1>8 DEF e

\* Each of its bytes is one.
LEMMA ByteOfTyped ==
    ASSUME NEW x \in Words, NEW m \in Int
    PROVE  ByteOf(x, m) \in Byte
<1> DEFINE y == IF m < 2 THEN x.lo ELSE x.hi
<1>1. y \in Int
  BY U16Int DEF Words
<1>d. ByteOf(x, m) = (y \div (IF m % 2 = 0 THEN 1 ELSE 256)) % 256
  BY DEF ByteOf
<1> HIDE DEF y
<1>2. y \div 1 \in Int /\ y \div 256 \in Int
  BY <1>1
<1>3. CASE m % 2 = 0
  BY <1>2, <1>3, <1>d, ByteMod
<1>4. CASE ~(m % 2 = 0)
  BY <1>2, <1>4, <1>d, ByteMod
<1> QED BY <1>3, <1>4

\* The mask depends on the length and the key alone, and is its own inverse.
LEMMA MaskedLossless ==
    ASSUME NEW n \in Nat, NEW d \in [1..n -> Byte], NEW kf \in Words
    PROVE  /\ masked_xor_random_next(d, kf) \in [1..n -> Byte]
           /\ masked_xor_random_next(masked_xor_random_next(d, kf), kf) = d
<1> DEFINE words == n \div 4
           Chunk(i) == IF i <= 4 * words THEN (i - 1) \div 4 ELSE words + ((i - 4 * words - 1) \div 2)
           Offset(i) == IF i <= 4 * words THEN (i - 1) % 4 ELSE (i - 4 * words - 1) % 2
           k(i) == ByteOf(ChunkKeys(kf, Chunk(i))[Chunk(i)], Offset(i))
           K == [i \in 1..n |-> k(i)]
<1>m. ASSUME NEW f \in [1..n -> Byte]
      PROVE  masked_xor_random_next(f, kf) = [i \in 1..n |-> xor8(f[i], k(i))]
  <2>1. Len(f) = n /\ DOMAIN f = 1..n
    BY FunSeq
  <2> QED BY <2>1 DEF masked_xor_random_next
<1>1. ASSUME NEW i \in 1..n PROVE k(i) \in Byte
  <2>1. words \in Nat
    OBVIOUS
  <2> HIDE DEF words
  <2>2. Chunk(i) \in Nat /\ Offset(i) \in Int
    BY <2>1
  <2> HIDE DEF Chunk, Offset
  <2>3. ChunkKeys(kf, Chunk(i))[Chunk(i)] \in Words
    BY <2>2, ChunkKeysTyped
  <2> QED BY <2>2, <2>3, ByteOfTyped
<1> HIDE DEF k
<1>2. K \in [1..n -> Byte]
  BY <1>1
<1>3. ASSUME NEW f \in [1..n -> Byte]
      PROVE  masked_xor_random_next(f, kf) = [i \in 1..n |-> xor8(f[i], K[i])]
  BY <1>m
<1> HIDE DEF K
<1> DEFINE e == masked_xor_random_next(d, kf)
<1>4. e = [i \in 1..n |-> xor8(d[i], K[i])]
  BY <1>3
<1> HIDE DEF e
<1>5. e \in [1..n -> Byte] /\ [i \in 1..n |-> xor8(e[i], K[i])] = d
  BY <1>2, <1>4, XorTwice, SMTT(30)
<1> QED BY <1>3, <1>5 DEF e

----------------------------------------------------------------------------
(* Cipher modes *)

\* A block cipher gives blocks.
LEMMA BlockFacts ==
    /\ BlockLen \in Nat /\ BlockLen > 0 /\ BATCH \in Nat /\ BATCH > 0
    /\ \A k \in Block, j \in 1..BlockLen : encrypt_block(k)[j] \in Byte
<1>1. \A k \in Block : encrypt_block(k) \in Block
  BY BlockAssumption
<1>2. \A b \in Block, j \in 1..BlockLen : b[j] \in Byte
  BY DEF Block
<1> QED BY <1>1, <1>2, BlockAssumption

\* A number written into so many bytes.
LEMMA BytesTyped ==
    ASSUME NEW m \in Nat, NEW len \in Nat
    PROVE  Bytes(m, len) \in [1..len -> Byte]
<1> DEFINE q == Quotients(m, 256, len)
<1>1. q \in [0..len -> Nat]
  BY QuotientsDef
<1>d. Bytes(m, len) = [i \in 1..len |-> q[len - i] % 256]
  BY DEF Bytes
<1> HIDE DEF q
<1>2. ASSUME NEW i \in 1..len PROVE q[len - i] % 256 \in Byte
  <2>1. len - i \in 0..len
    OBVIOUS
  <2>2. q[len - i] \in Int
    BY <2>1, <1>1
  <2> QED BY <2>2, ByteMod
<1> QED BY <1>d, <1>2

\* A number written into a block.
LEMMA BlockOfTyped ==
    ASSUME NEW m \in Nat
    PROVE  BlockOf(m) \in Block
BY BlockFacts, BytesTyped DEF BlockOf, Block

\* A block read as a number.
LEMMA BlockValueTyped ==
    ASSUME NEW k \in Block
    PROVE  BlockValue(k) \in Nat
<1>1. k \in [1..BlockLen -> Nat] /\ BlockLen \in Nat /\ 256 \in Nat
  BY BlockFacts, ByteRange DEF Block
<1>2. Values(k, 256) \in [0..BlockLen -> Nat]
  BY <1>1, ValuesDef, ZenonT(60)
<1>3. FromDigits(k, 256) = Values(k, 256)[BlockLen]
  BY <1>1, ValuesDef
<1> QED BY <1>1, <1>2, <1>3 DEF BlockValue

\* Two blocks xored byte by byte.
LEMMA XorWithTyped ==
    ASSUME NEW a \in Block, NEW b \in Block
    PROVE  /\ XorWith(a, b) \in Block
           /\ \A j \in 1..BlockLen : XorWith(a, b)[j] = xor8(a[j], b[j])
<1>1. XorWith(a, b) = [i \in 1..BlockLen |-> xor8(a[i], b[i])]
  BY DEF XorWith, Block
<1>2. ASSUME NEW i \in 1..BlockLen PROVE xor8(a[i], b[i]) \in Byte
  <2>1. a[i] \in Byte /\ b[i] \in Byte
    BY DEF Block
  <2> QED BY <2>1, XorByte
<1> QED BY <1>1, <1>2 DEF Block

\* The block of a byte and its place in it.
LEMMA PlaceTyped ==
    ASSUME NEW n \in Nat, NEW i \in 1..n
    PROVE  /\ PieceOf(i) \in Nat /\ PieceOf(i) > 0 /\ PieceOf(i) - 1 \in 0..(n \div BlockLen)
           /\ PlaceOf(i) \in 1..BlockLen
<1> DEFINE q == (i - 1) \div BlockLen  r == (i - 1) % BlockLen
<1>b. BlockLen \in Nat /\ BlockLen > 0
  BY BlockFacts
<1>1. q \in Nat /\ q <= n \div BlockLen
  <2>1. i - 1 \in Nat /\ i - 1 <= n
    OBVIOUS
  <2> QED BY <2>1, <1>b, DivMonotone
<1>2. r \in 0..(BlockLen - 1)
  BY <1>b, DivMod
<1>3. n \div BlockLen \in Int
  BY <1>b, DivMod
<1>4. PieceOf(i) = q + 1 /\ PlaceOf(i) = r + 1
  BY DEF PieceOf, PlaceOf
<1> HIDE DEF q, r
<1> QED BY <1>1, <1>2, <1>3, <1>4, <1>b

\* Byte j of block m lies where it should.
LEMMA PlaceOfPiece ==
    ASSUME NEW n \in Nat, NEW m \in 1..(n \div BlockLen), NEW j \in 1..BlockLen
    PROVE  LET i == (m - 1) * BlockLen + j
           IN i \in 1..n /\ PieceOf(i) = m /\ PlaceOf(i) = j
<1> DEFINE i == (m - 1) * BlockLen + j  c == n \div BlockLen
<1>b. BlockLen \in Nat /\ BlockLen > 0
  BY BlockFacts
<1>1. c \in Int /\ n = c * BlockLen + (n % BlockLen) /\ n % BlockLen \in 0..(BlockLen - 1)
  BY <1>b, DivMod
<1>m. m \in Nat /\ m >= 1 /\ m <= c /\ j \in Nat /\ j >= 1 /\ j <= BlockLen
  BY <1>1, <1>b
<1> HIDE DEF c
<1>2. (m - 1) * BlockLen + BlockLen <= c * BlockLen /\ (m - 1) * BlockLen >= 0
      /\ (m - 1) * BlockLen \in Int /\ c * BlockLen \in Int
  BY <1>1, <1>m, <1>b
<1> DEFINE x == (m - 1) * BlockLen  y == c * BlockLen  z == n % BlockLen
<1>3. x \in Int /\ y \in Int /\ x + BlockLen <= y /\ x >= 0 /\ n = y + z /\ z \in Nat /\ i = x + j
  BY <1>1, <1>2, <1>b
<1>4. ((m - 1) * BlockLen + (j - 1)) \div BlockLen = m - 1
      /\ ((m - 1) * BlockLen + (j - 1)) % BlockLen = j - 1
  <2>1. m - 1 \in Int /\ j - 1 \in 0..(BlockLen - 1)
    BY <1>m, <1>b
  <2> QED BY <2>1, <1>b, DivUnique
<1>5. (x + (j - 1)) \div BlockLen = m - 1 /\ (x + (j - 1)) % BlockLen = j - 1
  BY <1>4
<1> HIDE DEF x, y, z, i
<1>6. i \in 1..n /\ i - 1 = x + (j - 1)
  BY <1>3, <1>m, <1>b
<1>7. PieceOf(i) = m /\ PlaceOf(i) = j
  BY <1>5, <1>6, <1>m DEF PieceOf, PlaceOf
<1> QED BY <1>6, <1>7 DEF i

\* A nonce is as long as its base IV.
LEMMA NonceBytes ==
    ASSUME NEW iv \in Nat, NEW seq \in Nat, NEW len \in Nat, NEW width
    PROVE  Nonce(iv, seq, len, width) \in [1..len -> Byte]
<1> DEFINE a == Bytes(iv, len)  b == Bytes(seq, len)
<1>1. a \in [1..len -> Byte] /\ b \in [1..len -> Byte]
  BY BytesTyped
<1>d. Nonce(iv, seq, len, width) = [i \in 1..len |-> IF i > len - width THEN xor8(a[i], b[i]) ELSE a[i]]
  BY DEF Nonce
<1> HIDE DEF a, b
<1>2. ASSUME NEW i \in 1..len PROVE xor8(a[i], b[i]) \in Byte /\ a[i] \in Byte
  <2>1. a[i] \in Byte /\ b[i] \in Byte
    BY <1>1
  <2> QED BY <2>1, XorByte
<1> QED BY <1>d, <1>2

\* Every method, and none.
Ciphers == [method : {"cfb", "ctr", "chacha20", "none"}, iv : Nat, seq : Nat]

\* A packet's nonce is one of its cipher's: ChaCha20 takes a shorter one than
\* the block modes.
LEMMA NonceTyped ==
    ASSUME NEW cipher \in Ciphers
    PROVE  /\ cipher.method # "chacha20" => next_nonce(cipher) \in Block
           /\ cipher.method = "chacha20" => next_nonce(cipher) \in [1..NonceLen -> Byte]
<1>1. cipher.iv \in Nat /\ cipher.seq \in Nat /\ BlockLen \in Nat /\ NonceLen \in Nat
  BY BlockFacts, ChaChaAssumption DEF Ciphers
<1>2. ASSUME cipher.method # "chacha20" PROVE next_nonce(cipher) \in Block
  BY <1>1, <1>2, NonceBytes DEF next_nonce, Block
<1>3. ASSUME cipher.method = "chacha20" PROVE next_nonce(cipher) \in [1..NonceLen -> Byte]
  BY <1>1, <1>3, NonceBytes DEF next_nonce
<1> QED BY <1>2, <1>3

\* A keystream is a mask that depends on the nonce alone.
LEMMA ChaChaLossless ==
    ASSUME NEW n \in Nat, NEW d \in [1..n -> Byte], NEW nonce \in [1..NonceLen -> Byte]
    PROVE  /\ apply_keystream(d, nonce) \in [1..n -> Byte]
           /\ apply_keystream(apply_keystream(d, nonce), nonce) = d
<1> DEFINE ks == chacha20(nonce)
           K == [i \in 1..n |-> ks[((i - 1) % KeystreamLen) + 1]]
           e == apply_keystream(d, nonce)
<1>1. ks \in [1..KeystreamLen -> Byte] /\ KeystreamLen \in Nat /\ KeystreamLen > 0
  BY ChaChaAssumption
<1>m. ASSUME NEW f \in [1..n -> Byte]
      PROVE  apply_keystream(f, nonce) = [i \in 1..n |-> xor8(f[i], K[i])]
  BY DEF apply_keystream
<1> HIDE DEF ks
<1>2. ASSUME NEW i \in 1..n PROVE ks[((i - 1) % KeystreamLen) + 1] \in Byte
  <2>1. (i - 1) % KeystreamLen \in 0..(KeystreamLen - 1)
    BY <1>1, DivMod
  <2>2. ((i - 1) % KeystreamLen) + 1 \in 1..KeystreamLen
    BY <2>1, <1>1
  <2> QED BY <2>2, <1>1
<1>3. K \in [1..n -> Byte]
  BY <1>2
<1>4. e = [i \in 1..n |-> xor8(d[i], K[i])]
  BY <1>m
<1> HIDE DEF K, e
<1>5. e \in [1..n -> Byte] /\ [i \in 1..n |-> xor8(e[i], K[i])] = d
  BY <1>3, <1>4, XorTwice, SMTT(60)
<1> QED BY <1>m, <1>5 DEF e

\* Counter mode is a mask that depends on the nonce alone.
LEMMA CtrLossless ==
    ASSUME NEW n \in Nat, NEW d \in [1..n -> Byte], NEW iv \in Block
    PROVE  ctr_apply(d, iv) \in [1..n -> Byte] /\ ctr_apply(ctr_apply(d, iv), iv) = d
<1> DEFINE Count(i) == BlockValue(iv) + ((PieceOf(i) - 1) \div BATCH) * BATCH + ((PieceOf(i) - 1) % BATCH)
           k(i) == encrypt_block(BlockOf(Count(i)))[PlaceOf(i)]
           K == [i \in 1..n |-> k(i)]
<1>m. ASSUME NEW f \in [1..n -> Byte]
      PROVE  ctr_apply(f, iv) = [i \in 1..n |-> xor8(f[i], k(i))]
  BY DEF ctr_apply
<1>1. ASSUME NEW i \in 1..n PROVE k(i) \in Byte
  <2> DEFINE p == PieceOf(i) - 1  v == BlockValue(iv)
  <2>0. PieceOf(i) \in Nat /\ PieceOf(i) > 0 /\ PlaceOf(i) \in 1..BlockLen
    BY PlaceTyped
  <2>1. p \in Nat /\ PlaceOf(i) \in 1..BlockLen
    BY <2>0
  <2>2. v \in Nat
    BY BlockValueTyped
  <2>b. BATCH \in Nat /\ BATCH > 0
    BY BlockFacts
  <2>c. Count(i) = v + (p \div BATCH) * BATCH + (p % BATCH)
    OBVIOUS
  <2> HIDE DEF p, v, Count
  <2>3. p \div BATCH \in Nat /\ p % BATCH \in Nat
    BY <2>1, <2>b, DivMod, DivMonotone
  <2>4. (p \div BATCH) * BATCH \in Nat
    BY <2>3, <2>b
  <2>5. Count(i) \in Nat
    BY <2>c, <2>2, <2>3, <2>4
  <2>6. BlockOf(Count(i)) \in Block
    BY <2>5, BlockOfTyped
  <2> QED BY <2>1, <2>6, BlockFacts
<1> HIDE DEF k
<1>2. K \in [1..n -> Byte]
  BY <1>1
<1>3. ASSUME NEW f \in [1..n -> Byte]
      PROVE  ctr_apply(f, iv) = [i \in 1..n |-> xor8(f[i], K[i])]
  BY <1>m
<1> HIDE DEF K
<1> DEFINE e == ctr_apply(d, iv)
<1>4. e = [i \in 1..n |-> xor8(d[i], K[i])]
  BY <1>3
<1> HIDE DEF e
<1>5. e \in [1..n -> Byte] /\ [i \in 1..n |-> xor8(e[i], K[i])] = d
  BY <1>2, <1>4, XorTwice
<1> QED BY <1>3, <1>5 DEF e

\* A full block of a buffer.
LEMMA PieceTyped ==
    ASSUME NEW n \in Nat, NEW d \in [1..n -> Byte], NEW m \in 1..(n \div BlockLen)
    PROVE  Piece(d, m) \in Block
<1>1. ASSUME NEW j \in 1..BlockLen PROVE d[(m - 1) * BlockLen + j] \in Byte
  <2>1. (m - 1) * BlockLen + j \in 1..n
    BY PlaceOfPiece
  <2> QED BY <2>1
<1> QED BY <1>1 DEF Piece, Block

\* What Feedback computes.
IsFeedback(fb, d, iv, c) ==
    /\ fb \in [0..c -> Block] /\ fb[0] = iv
    /\ \A m \in 1..c : fb[m] = XorWith(Piece(d, m), encrypt_block(fb[m - 1]))

\* Feedback is the function its recursive definition describes.
LEMMA FeedbackDef ==
    ASSUME NEW n \in Nat, NEW d \in [1..n -> Byte], NEW iv \in Block
    PROVE  IsFeedback(Feedback(d, iv), d, iv, n \div BlockLen)
<1> DEFINE c == n \div BlockLen
           F == [p \in (1..c) \X Block |-> XorWith(Piece(d, p[1]), encrypt_block(p[2]))]
           e == Feedback(d, iv)
<1>0. Len(d) \div BlockLen = c
  BY FunSeq
<1>c. c \in Nat
  BY BlockFacts, DivMonotone
<1>p. \A m \in 1..c : Piece(d, m) \in Block
  BY PieceTyped
<1>e. \A k \in Block : encrypt_block(k) \in Block
  BY BlockAssumption
<1> HIDE DEF c
<1>x. \A m \in 1..c, k \in Block : XorWith(Piece(d, m), encrypt_block(k)) \in Block
  BY <1>p, <1>e, XorWithTyped
<1>1. F \in [(1..c) \X Block -> Block]
  BY <1>x
<1>2. \A m \in 1..c, k \in Block : F[<<m, k>>] = XorWith(Piece(d, m), encrypt_block(k))
  OBVIOUS
<1> HIDE DEF F
<1>s. Solvable(c, Block, iv, F)
  BY <1>1, <1>c, RecursionExists
<1>3. PICK f \in [0..c -> Block] : f[0] = iv /\ \A i \in 1..c : f[i] = F[<<i, f[i - 1]>>]
  BY <1>s DEF Solvable
<1>4. ASSUME NEW i \in 1..c PROVE f[i] = XorWith(Piece(d, i), encrypt_block(f[i - 1]))
  <2>1. i - 1 \in 0..c
    BY <1>c
  <2>2. f[i - 1] \in Block
    BY <2>1
  <2> QED BY <2>2, <1>2, <1>3
<1>5. f = [i \in 0..(Len(d) \div BlockLen) |->
              IF i = 0 THEN iv ELSE XorWith(Piece(d, i), encrypt_block(f[i - 1]))]
  BY <1>0, <1>c, <1>3, <1>4
<1>6. e = [i \in 0..(Len(d) \div BlockLen) |->
              IF i = 0 THEN iv ELSE XorWith(Piece(d, i), encrypt_block(e[i - 1]))]
  BY <1>5 DEF Feedback
<1>z. e = [i \in 0..c |-> IF i = 0 THEN iv ELSE XorWith(Piece(d, i), encrypt_block(e[i - 1]))]
  BY <1>0, <1>6
<1> HIDE DEF e
<1>7. e[0] = iv /\ \A i \in 1..c : e[i] = XorWith(Piece(d, i), encrypt_block(e[i - 1]))
  BY <1>z, <1>c
<1>8. e[0] \in Block /\ \A i \in 1..c : e[i - 1] \in Block => e[i] \in Block
  BY <1>7, <1>x
<1>9. \A i \in 0..c : e[i] \in Block
  BY <1>8, <1>c, RecursionTyped
<1>10. e \in [0..c -> Block]
  BY <1>z, <1>9
<1> QED BY <1>7, <1>10 DEF e, c, IsFeedback

\* A buffer of n bytes being decrypted, and the block that feeds the next one.
BatchStates(n) == [data : [1..n -> Byte], prev : Block]

\* Blocks of the c of a buffer that are decrypted before and after batch b;
\* all of them after the last.
LEMMA DoneFacts ==
    ASSUME NEW c \in Nat, NEW last, last = (c + BATCH - 1) \div BATCH
    PROVE  /\ last \in Nat /\ Done(0, c) = 0 /\ Done(last, c) = c
           /\ \A b \in 1..last : /\ Done(b - 1, c) \in 0..c /\ Done(b, c) \in 1..c
                                 /\ Done(b - 1, c) < Done(b, c)
<1>b. BATCH \in Nat /\ BATCH > 0
  BY BlockFacts
<1> DEFINE x == c + BATCH - 1  r == x % BATCH
<1>1. x \in Nat
  BY <1>b
<1>2. last \in Int /\ r \in 0..(BATCH - 1) /\ x = last * BATCH + r
  BY <1>1, <1>b, DivMod
<1>3. last \in Nat
  BY <1>1, <1>b, DivMonotone
<1> HIDE DEF r
<1> DEFINE z == last * BATCH
<1>4. z \in Nat /\ z <= c + BATCH - 1 /\ z >= c
  BY <1>1, <1>2, <1>3, <1>b
<1>5. Done(last, c) = c
  BY <1>4 DEF Done
<1>6. Done(0, c) = 0
  BY <1>b DEF Done
<1>7. ASSUME NEW b \in 1..last
      PROVE  Done(b - 1, c) \in 0..c /\ Done(b, c) \in 1..c /\ Done(b - 1, c) < Done(b, c)
  <2> DEFINE u == (b - 1) * BATCH  v == b * BATCH
  <2>1. u \in Nat /\ v \in Nat /\ v = u + BATCH
    BY <1>b
  <2>2. v <= z
    <3>1. last - b \in Nat /\ (last - b) * BATCH \in Nat
      BY <1>3, <1>b
    <3>2. z = v + (last - b) * BATCH
      BY <1>3, <1>b
    <3> DEFINE y == (last - b) * BATCH
    <3> HIDE DEF y, z, v
    <3> QED BY <3>1, <3>2, <2>1, <1>4 DEF y
  <2>d. Done(b - 1, c) = (IF u < c THEN u ELSE c) /\ Done(b, c) = (IF v < c THEN v ELSE c)
    BY DEF Done
  <2> HIDE DEF u, v, z
  <2> QED BY <2>1, <2>2, <2>d, <1>4, <1>b
<1> QED BY <1>3, <1>5, <1>6, <1>7

\* The block that feeds block p in the batch that starts after block i.
BatchFeed(s, i, p) == IF p = i + 1 THEN s.prev ELSE Piece(s.data, p - 1)

\* What a batch does to each byte.
LEMMA BatchBytes ==
    ASSUME NEW n \in Nat, NEW s \in BatchStates(n), NEW i, NEW j
    PROVE  /\ DecryptBatch(s, i, j).prev = Piece(s.data, j)
           /\ DecryptBatch(s, i, j).data =
                [x \in 1..n |-> IF PieceOf(x) \in (i + 1)..j
                                THEN xor8(s.data[x], encrypt_block(BatchFeed(s, i, PieceOf(x)))[PlaceOf(x)])
                                ELSE s.data[x]]
<1>1. DOMAIN s.data = 1..n
  BY DEF BatchStates
<1>2. DecryptBatch(s, i, j).prev = Piece(s.data, j)
      /\ DecryptBatch(s, i, j).data = DecryptedBatch(s, i, j)
  BY DEF DecryptBatch
<1>3. DecryptedBatch(s, i, j) =
        [x \in DOMAIN s.data |->
            IF PieceOf(x) \in (i + 1)..j
            THEN xor8(s.data[x], encrypt_block(BatchFeed(s, i, PieceOf(x)))[PlaceOf(x)])
            ELSE s.data[x]]
  BY DEF DecryptedBatch, BatchFeed
<1> QED BY <1>1, <1>2, <1>3

\* A batch leaves a buffer of bytes and a block.
LEMMA BatchTyped ==
    ASSUME NEW n \in Nat, NEW s \in BatchStates(n), NEW i \in 0..(n \div BlockLen),
           NEW j \in 1..(n \div BlockLen), i < j
    PROVE  DecryptBatch(s, i, j) \in BatchStates(n)
<1> DEFINE c == n \div BlockLen  t == DecryptBatch(s, i, j)
<1>c. c \in Nat
  BY BlockFacts, DivMonotone
<1>0. s.data \in [1..n -> Byte] /\ s.prev \in Block
  BY DEF BatchStates
<1>p. \A m \in 1..c : Piece(s.data, m) \in Block
  BY <1>0, PieceTyped
<1>1. t.prev \in Block
  <2>1. t.prev = Piece(s.data, j)
    BY DEF DecryptBatch
  <2> QED BY <2>1, <1>p
<1>t. t = [data |-> t.data, prev |-> t.prev]
  BY DEF DecryptBatch
<1> DEFINE y(x) == IF PieceOf(x) \in (i + 1)..j
                   THEN xor8(s.data[x], encrypt_block(BatchFeed(s, i, PieceOf(x)))[PlaceOf(x)])
                   ELSE s.data[x]
<1>2. t.data = [x \in 1..n |-> y(x)]
  BY BatchBytes
<1>3. ASSUME NEW x \in 1..n PROVE y(x) \in Byte
  <2>1. s.data[x] \in Byte
    BY <1>0
  <2>2. PieceOf(x) \in Nat /\ PlaceOf(x) \in 1..BlockLen
    BY PlaceTyped
  <2>3. ASSUME PieceOf(x) \in (i + 1)..j PROVE BatchFeed(s, i, PieceOf(x)) \in Block
    <3> DEFINE p == PieceOf(x)
    <3>1. p = i + 1 \/ p - 1 \in 1..c
      <4>1. p \in (i + 1)..j /\ i \in Nat /\ j \in Nat /\ j <= c
        BY <2>3, <1>c
      <4> HIDE DEF p, c
      <4> QED BY <4>1, <1>c
    <3> QED BY <3>1, <1>0, <1>p DEF BatchFeed
  <2>4. CASE PieceOf(x) \in (i + 1)..j
    <3> DEFINE k == BatchFeed(s, i, PieceOf(x))
    <3>1. k \in Block
      BY <2>3, <2>4
    <3>2. y(x) = xor8(s.data[x], encrypt_block(k)[PlaceOf(x)])
      BY <2>4
    <3> HIDE DEF k, y
    <3>3. encrypt_block(k)[PlaceOf(x)] \in Byte
      BY <3>1, <2>2, BlockFacts
    <3> QED BY <3>2, <3>3, <2>1, XorByte
  <2>5. CASE PieceOf(x) \notin (i + 1)..j
    BY <2>1, <2>5
  <2> QED BY <2>4, <2>5
<1> HIDE DEF y, t
<1>4. t.data \in [1..n -> Byte]
  BY <1>2, <1>3
<1>5. t \in BatchStates(n)
  BY <1>1, <1>4, <1>t DEF BatchStates
<1> QED BY <1>5 DEF t

\* What Batches computes.
AreBatches(s, d, iv, n, c, last) ==
    /\ s \in [0..last -> BatchStates(n)] /\ s[0] = [data |-> d, prev |-> iv]
    /\ \A b \in 1..last : s[b] = DecryptBatch(s[b - 1], Done(b - 1, c), Done(b, c))

\* Batches is the function its recursive definition describes.
LEMMA BatchesDef ==
    ASSUME NEW n \in Nat, NEW d \in [1..n -> Byte], NEW iv \in Block,
           NEW c, c = n \div BlockLen, NEW last, last = (c + BATCH - 1) \div BATCH
    PROVE  AreBatches(Batches(d, iv), d, iv, n, c, last)
<1> DEFINE X == BatchStates(n)  x0 == [data |-> d, prev |-> iv]
           F == [p \in (1..last) \X X |-> DecryptBatch(p[2], Done(p[1] - 1, c), Done(p[1], c))]
           e == Batches(d, iv)
<1>0. Len(d) \div BlockLen = c
  BY FunSeq
<1>c. c \in Nat
  BY BlockFacts, DivMonotone
<1>l. last \in Nat
  BY <1>c, DoneFacts
<1>x. x0 \in X
  BY DEF BatchStates
<1>t. ASSUME NEW b \in 1..last, NEW s \in X PROVE DecryptBatch(s, Done(b - 1, c), Done(b, c)) \in X
  <2> DEFINE i == Done(b - 1, c)  j == Done(b, c)
  <2>1. i \in 0..c /\ j \in 1..c /\ i < j
    BY <1>c, DoneFacts
  <2> HIDE DEF i, j
  <2> QED BY <2>1, BatchTyped DEF i, j
<1>e. e = [b \in 0..last |-> IF b = 0 THEN x0 ELSE DecryptBatch(e[b - 1], Done(b - 1, c), Done(b, c))]
      \/ ~Solvable(last, X, x0, F)
  <2> SUFFICES ASSUME Solvable(last, X, x0, F)
               PROVE  e = [b \in 0..last |->
                              IF b = 0 THEN x0 ELSE DecryptBatch(e[b - 1], Done(b - 1, c), Done(b, c))]
    OBVIOUS
  <2>2. \A b \in 1..last, s \in X : F[<<b, s>>] = DecryptBatch(s, Done(b - 1, c), Done(b, c))
    OBVIOUS
  <2> HIDE DEF F, X, x0
  <2>3. PICK f \in [0..last -> X] : f[0] = x0 /\ \A b \in 1..last : f[b] = F[<<b, f[b - 1]>>]
    BY DEF Solvable
  <2>4. ASSUME NEW b \in 1..last PROVE f[b] = DecryptBatch(f[b - 1], Done(b - 1, c), Done(b, c))
    <3>1. b - 1 \in 0..last
      BY <1>l
    <3>2. f[b - 1] \in X
      BY <3>1
    <3> QED BY <3>2, <2>2, <2>3
  <2>5. f = [b \in 0..last |-> IF b = 0 THEN x0 ELSE DecryptBatch(f[b - 1], Done(b - 1, c), Done(b, c))]
    BY <1>l, <2>3, <2>4
  <2>6. f = [b \in 0..((Len(d) \div BlockLen + BATCH - 1) \div BATCH) |->
                IF b = 0 THEN [data |-> d, prev |-> iv]
                ELSE DecryptBatch(f[b - 1], Done(b - 1, Len(d) \div BlockLen),
                                  Done(b, Len(d) \div BlockLen))]
    BY <2>5, <1>0 DEF x0
  <2>7. e = [b \in 0..((Len(d) \div BlockLen + BATCH - 1) \div BATCH) |->
                IF b = 0 THEN [data |-> d, prev |-> iv]
                ELSE DecryptBatch(e[b - 1], Done(b - 1, Len(d) \div BlockLen),
                                  Done(b, Len(d) \div BlockLen))]
    BY <2>6 DEF Batches
  <2> QED BY <2>7, <1>0 DEF x0
<1>1. F \in [(1..last) \X X -> X]
  <2> HIDE DEF X
  <2> QED BY <1>t
<1> HIDE DEF F, X, x0
<1>s. Solvable(last, X, x0, F)
  BY <1>1, <1>l, <1>x, RecursionExists
<1>z. e = [b \in 0..last |-> IF b = 0 THEN x0 ELSE DecryptBatch(e[b - 1], Done(b - 1, c), Done(b, c))]
  BY <1>e, <1>s
<1> HIDE DEF e
<1>7. e[0] = x0 /\ \A b \in 1..last : e[b] = DecryptBatch(e[b - 1], Done(b - 1, c), Done(b, c))
  BY <1>z, <1>l
<1>8. e[0] \in X /\ \A b \in 1..last : e[b - 1] \in X => e[b] \in X
  BY <1>7, <1>t, <1>x
<1>9. \A b \in 0..last : e[b] \in X
  BY <1>8, <1>l, RecursionTyped
<1>10. e \in [0..last -> X]
  BY <1>z, <1>9
<1> QED BY <1>7, <1>10 DEF e, X, x0, AreBatches

\* The ciphertext that feeds block m + 1 of the buffer e.
Fed(e, iv, m) == IF m = 0 THEN iv ELSE Piece(e, m)

\* The first i blocks of the buffer e are decrypted in s, the others not.
Decrypted(s, e, iv, n, i) ==
    /\ s.prev = Fed(e, iv, i)
    /\ \A x \in 1..n : s.data[x] = IF PieceOf(x) <= i
                                   THEN xor8(e[x], encrypt_block(Fed(e, iv, PieceOf(x) - 1))[PlaceOf(x)])
                                   ELSE e[x]

\* A batch takes every block's feed from ciphertext: what it reads is not yet
\* overwritten.
LEMMA BatchDecrypts ==
    ASSUME NEW n \in Nat, NEW e \in [1..n -> Byte], NEW iv \in Block,
           NEW s \in BatchStates(n), NEW i \in 0..(n \div BlockLen),
           NEW j \in 1..(n \div BlockLen), i < j, Decrypted(s, e, iv, n, i)
    PROVE  Decrypted(DecryptBatch(s, i, j), e, iv, n, j)
<1> DEFINE c == n \div BlockLen  t == DecryptBatch(s, i, j)
<1>c. c \in Nat /\ i \in Nat /\ j \in Nat /\ j <= c /\ i < j /\ j > 0
  BY BlockFacts, DivMonotone
<1>d. \A x \in 1..n : s.data[x] = IF PieceOf(x) <= i
                                  THEN xor8(e[x], encrypt_block(Fed(e, iv, PieceOf(x) - 1))[PlaceOf(x)])
                                  ELSE e[x]
  BY DEF Decrypted
<1>v. s.prev = Fed(e, iv, i)
  BY DEF Decrypted
<1>b. /\ t.prev = Piece(s.data, j)
      /\ t.data = [x \in 1..n |-> IF PieceOf(x) \in (i + 1)..j
                                  THEN xor8(s.data[x], encrypt_block(BatchFeed(s, i, PieceOf(x)))[PlaceOf(x)])
                                  ELSE s.data[x]]
  BY BatchBytes
<1>j. ASSUME NEW m \in 1..c, NEW q \in 1..BlockLen
      PROVE  (m - 1) * BlockLen + q \in 1..n /\ PieceOf((m - 1) * BlockLen + q) = m
  BY PlaceOfPiece
<1> HIDE DEF c, t
<1>1. ASSUME NEW m \in 1..c, m > i PROVE Piece(s.data, m) = Piece(e, m)
  <2>1. ASSUME NEW q \in 1..BlockLen
        PROVE  s.data[(m - 1) * BlockLen + q] = e[(m - 1) * BlockLen + q]
    <3> DEFINE x == (m - 1) * BlockLen + q
    <3>1. x \in 1..n /\ PieceOf(x) = m
      BY <1>j
    <3> HIDE DEF x
    <3>2. ~(PieceOf(x) <= i)
      BY <3>1, <1>1, <1>c
    <3>3. s.data[x] = e[x]
      BY <3>1, <3>2, <1>d
    <3> QED BY <3>3 DEF x
  <2> QED BY <2>1 DEF Piece
<1>2. t.prev = Fed(e, iv, j)
  <2>1. j \in 1..c /\ j > i /\ j # 0
    BY <1>c
  <2> QED BY <2>1, <1>1, <1>b DEF Fed
<1>3. ASSUME NEW x \in 1..n
      PROVE  t.data[x] = IF PieceOf(x) <= j
                         THEN xor8(e[x], encrypt_block(Fed(e, iv, PieceOf(x) - 1))[PlaceOf(x)])
                         ELSE e[x]
  <2> DEFINE p == PieceOf(x)
  <2>0. p \in Nat /\ p > 0
    BY PlaceTyped
  <2>t. t.data[x] = IF p \in (i + 1)..j THEN xor8(s.data[x], encrypt_block(BatchFeed(s, i, p))[PlaceOf(x)])
                    ELSE s.data[x]
    BY <1>b
  <2>s. s.data[x] = IF p <= i THEN xor8(e[x], encrypt_block(Fed(e, iv, p - 1))[PlaceOf(x)]) ELSE e[x]
    BY <1>d
  <2> HIDE DEF p
  <2>1. CASE p <= i
    <3>1. p <= j /\ ~(p \in (i + 1)..j)
      BY <2>0, <2>1, <1>c
    <3> QED BY <3>1, <2>1, <2>s, <2>t DEF p
  <2>2. CASE p > i /\ p <= j
    <3>1. p \in (i + 1)..j /\ ~(p <= i)
      BY <2>0, <2>2, <1>c
    <3>2. BatchFeed(s, i, p) = Fed(e, iv, p - 1)
      <4>1. CASE p = i + 1
        <5>1. p - 1 = i
          BY <4>1, <1>c
        <5> QED BY <5>1, <4>1, <1>v DEF BatchFeed
      <4>2. CASE p # i + 1
        <5>1. p - 1 \in 1..c /\ p - 1 > i /\ p - 1 # 0
          BY <4>2, <2>0, <2>2, <1>c
        <5>2. Piece(s.data, p - 1) = Piece(e, p - 1)
          BY <5>1, <1>1
        <5> QED BY <5>1, <5>2, <4>2 DEF BatchFeed, Fed
      <4> QED BY <4>1, <4>2
    <3> QED BY <3>1, <3>2, <2>2, <2>s, <2>t DEF p
  <2>3. CASE p > j
    <3>1. ~(p <= j) /\ ~(p <= i) /\ ~(p \in (i + 1)..j)
      BY <2>0, <2>3, <1>c
    <3> QED BY <3>1, <2>s, <2>t DEF p
  <2> QED BY <2>0, <2>1, <2>2, <2>3, <1>c
<1>4. Decrypted(t, e, iv, n, j)
  BY <1>2, <1>3 DEF Decrypted
<1> QED BY <1>4 DEF t

\* Decrypting in place takes each block's feed from the ciphertext before it.
LEMMA CfbDecrypted ==
    ASSUME NEW n \in Nat, NEW e \in [1..n -> Byte], NEW iv \in Block
    PROVE  cfb_decrypt(e, iv) =
             [i \in 1..n |-> xor8(e[i], encrypt_block(Fed(e, iv, PieceOf(i) - 1))[PlaceOf(i)])]
<1> DEFINE c == n \div BlockLen  last == (c + BATCH - 1) \div BATCH  s == Batches(e, iv)
<1>c. c \in Nat
  BY BlockFacts, DivMonotone
<1>0. Len(e) \div BlockLen = c /\ DOMAIN e = 1..n
  BY FunSeq
<1>d. cfb_decrypt(e, iv) = [i \in 1..n |-> IF PieceOf(i) <= c THEN s[last].data[i]
                                           ELSE xor8(s[last].data[i], encrypt_block(s[last].prev)[PlaceOf(i)])]
  BY <1>0 DEF cfb_decrypt
<1>i. ASSUME NEW i \in 1..n PROVE PieceOf(i) \in Nat /\ PieceOf(i) - 1 \in 0..c
  BY PlaceTyped
<1>l. last = (c + BATCH - 1) \div BATCH
  OBVIOUS
<1>s. AreBatches(s, e, iv, n, c, last)
  BY BatchesDef
<1>k. ASSUME NEW t \in BatchStates(n), NEW a \in 0..c, NEW z \in 1..c, a < z, Decrypted(t, e, iv, n, a)
      PROVE  Decrypted(DecryptBatch(t, a, z), e, iv, n, z)
  BY <1>k, BatchDecrypts
<1> HIDE DEF c, last, s
<1>1. /\ last \in Nat /\ Done(0, c) = 0 /\ Done(last, c) = c
      /\ \A b \in 1..last : /\ Done(b - 1, c) \in 0..c /\ Done(b, c) \in 1..c
                            /\ Done(b - 1, c) < Done(b, c)
  BY <1>c, <1>l, DoneFacts
<1> DEFINE S == {b \in 0..last : Decrypted(s[b], e, iv, n, Done(b, c))}
<1>2. 0 \in S
  <2>1. s[0].data = e /\ s[0].prev = iv
    BY <1>s DEF AreBatches
  <2>2. ASSUME NEW x \in 1..n PROVE ~(PieceOf(x) <= 0)
    BY PlaceTyped
  <2>3. Decrypted(s[0], e, iv, n, 0)
    BY <2>1, <2>2 DEF Decrypted, Fed
  <2> QED BY <2>3, <1>1
<1>3. ASSUME NEW b \in 1..last, b - 1 \in S PROVE b \in S
  <2> DEFINE a == Done(b - 1, c)  z == Done(b, c)  t == s[b - 1]
  <2>1. a \in 0..c /\ z \in 1..c /\ a < z
    BY <1>1
  <2>2. t \in BatchStates(n) /\ Decrypted(t, e, iv, n, a)
    <3>1. b - 1 \in 0..last
      BY <1>1
    <3> QED BY <3>1, <1>3, <1>s DEF AreBatches
  <2>3. s[b] = DecryptBatch(t, a, z)
    BY <1>s DEF AreBatches
  <2> HIDE DEF a, z, t
  <2>4. Decrypted(s[b], e, iv, n, z)
    BY <2>1, <2>2, <2>3, <1>k
  <2> QED BY <2>4, <1>1 DEF z
<1> HIDE DEF S
<1>4. \A b \in 0..last : b \in S
  BY <1>1, <1>2, <1>3, RangeInductionSet
<1>5. Decrypted(s[last], e, iv, n, c)
  BY <1>1, <1>4 DEF S
<1> DEFINE u == s[last]
<1> HIDE DEF u
<1>6. ASSUME NEW i \in 1..n
      PROVE  (IF PieceOf(i) <= c THEN u.data[i] ELSE xor8(u.data[i], encrypt_block(u.prev)[PlaceOf(i)]))
               = xor8(e[i], encrypt_block(Fed(e, iv, PieceOf(i) - 1))[PlaceOf(i)])
  <2>1. u.prev = Fed(e, iv, c)
        /\ u.data[i] = IF PieceOf(i) <= c
                       THEN xor8(e[i], encrypt_block(Fed(e, iv, PieceOf(i) - 1))[PlaceOf(i)])
                       ELSE e[i]
    BY <1>5 DEF Decrypted, u
  <2>2. CASE PieceOf(i) <= c
    BY <2>1, <2>2
  <2>3. CASE ~(PieceOf(i) <= c)
    <3>1. PieceOf(i) - 1 = c
      BY <2>3, <1>i, <1>c
    <3> QED BY <3>1, <2>1, <2>3
  <2> QED BY <2>2, <2>3
<1>7. cfb_decrypt(e, iv) = [i \in 1..n |-> IF PieceOf(i) <= c THEN u.data[i]
                                           ELSE xor8(u.data[i], encrypt_block(u.prev)[PlaceOf(i)])]
  BY <1>d DEF u
<1> QED BY <1>6, <1>7

\* Cipher feedback: the decoder finds in the ciphertext the very blocks that
\* fed the encoder, in a batch or across two.
LEMMA CfbLossless ==
    ASSUME NEW n \in Nat, NEW d \in [1..n -> Byte], NEW iv \in Block
    PROVE  cfb_encrypt(d, iv) \in [1..n -> Byte] /\ cfb_decrypt(cfb_encrypt(d, iv), iv) = d
<1> DEFINE c == n \div BlockLen  fb == Feedback(d, iv)  e == cfb_encrypt(d, iv)
           k(i) == encrypt_block(fb[PieceOf(i) - 1])[PlaceOf(i)]
           K == [i \in 1..n |-> k(i)]
<1>b. BlockLen \in Nat /\ BlockLen > 0 /\ BATCH \in Nat /\ BATCH > 0
  BY BlockFacts
<1>c. c \in Nat
  BY <1>b, DivMonotone
<1>f. IsFeedback(fb, d, iv, c)
  BY FeedbackDef
<1>g. cfb_encrypt(d, iv) = [i \in 1..n |-> xor8(d[i], k(i))]
  BY DEF cfb_encrypt
<1>i. ASSUME NEW i \in 1..n
      PROVE  /\ PieceOf(i) \in Nat /\ PieceOf(i) > 0 /\ PieceOf(i) - 1 \in 0..c
             /\ PlaceOf(i) \in 1..BlockLen
  BY PlaceTyped
<1>j. ASSUME NEW m \in 1..c, NEW j \in 1..BlockLen
      PROVE  /\ (m - 1) * BlockLen + j \in 1..n
             /\ PieceOf((m - 1) * BlockLen + j) = m /\ PlaceOf((m - 1) * BlockLen + j) = j
  BY PlaceOfPiece
<1>p. \A m \in 1..c : Piece(d, m) \in Block
  BY PieceTyped
<1> HIDE DEF fb, c
<1>1. ASSUME NEW i \in 1..n PROVE k(i) \in Byte
  <2>1. fb[PieceOf(i) - 1] \in Block
    BY <1>i, <1>f DEF IsFeedback
  <2> QED BY <2>1, <1>i, BlockFacts
<1>2. K \in [1..n -> Byte]
  <2> HIDE DEF k
  <2> QED BY <1>1
<1>3. e = [i \in 1..n |-> xor8(d[i], K[i])]
  <2> HIDE DEF k
  <2> QED BY <1>g
<1>4. ASSUME NEW m \in 1..c PROVE Piece(e, m) = fb[m]
  <2>1. m - 1 \in 0..c /\ fb[m - 1] \in Block /\ fb[m] \in Block
        /\ fb[m] = XorWith(Piece(d, m), encrypt_block(fb[m - 1]))
    BY <1>c, <1>f DEF IsFeedback
  <2>2. encrypt_block(fb[m - 1]) \in Block
    BY <2>1, BlockAssumption
  <2>3. Piece(d, m) \in Block
    BY <1>p
  <2>4. ASSUME NEW j \in 1..BlockLen PROVE Piece(e, m)[j] = fb[m][j]
    <3> DEFINE i == (m - 1) * BlockLen + j
    <3>1. i \in 1..n /\ PieceOf(i) = m /\ PlaceOf(i) = j
      BY <1>j
    <3>2. Piece(e, m)[j] = e[i] /\ Piece(d, m)[j] = d[i]
      BY DEF Piece
    <3> HIDE DEF i, e
    <3>3. e[i] = xor8(d[i], k(i))
      BY <3>1, <1>3
    <3>4. k(i) = encrypt_block(fb[m - 1])[j]
      BY <3>1
    <3> DEFINE x == Piece(d, m)  y == encrypt_block(fb[m - 1])
    <3>x. x \in Block /\ y \in Block /\ fb[m] = XorWith(x, y) /\ x[j] = d[i]
      BY <2>1, <2>2, <2>3, <3>2
    <3> HIDE DEF x, y
    <3>5. XorWith(x, y)[j] = xor8(x[j], y[j])
      BY <3>x, XorWithTyped
    <3>6. fb[m][j] = xor8(d[i], y[j])
      BY <3>5, <3>x
    <3> QED BY <3>2, <3>3, <3>4, <3>6 DEF y
  <2>5. Piece(e, m) = [j \in 1..BlockLen |-> e[(m - 1) * BlockLen + j]]
    BY DEF Piece
  <2>6. fb[m] = [j \in 1..BlockLen |-> fb[m][j]]
    BY <2>1 DEF Block
  <2> DEFINE u == Piece(e, m)  w == fb[m]
  <2>7. DOMAIN u = 1..BlockLen /\ DOMAIN w = 1..BlockLen /\ u = [j \in DOMAIN u |-> u[j]]
        /\ w = [j \in DOMAIN w |-> w[j]]
    BY <2>5, <2>6
  <2>8. \A j \in 1..BlockLen : u[j] = w[j]
    BY <2>4
  <2> HIDE DEF u, w
  <2>9. u = w
    BY <2>7, <2>8
  <2> QED BY <2>9 DEF u, w
<1> HIDE DEF e
<1>5. e \in [1..n -> Byte] /\ [i \in 1..n |-> xor8(e[i], K[i])] = d
  <2> HIDE DEF K
  <2>1. e \in [1..n -> Byte]
    BY <1>2, <1>3, XorTwice, SMTT(30)
  <2>2. [i \in 1..n |-> xor8(e[i], K[i])] = d
    <3>1. ASSUME NEW i \in 1..n PROVE xor8(e[i], K[i]) = d[i]
      <4>1. d[i] \in Byte /\ K[i] \in Byte /\ e[i] = xor8(d[i], K[i])
        BY <1>2, <1>3
      <4> QED BY <4>1, XorByte
    <3> QED BY <3>1
  <2> QED BY <2>1, <2>2
<1>6. cfb_decrypt(e, iv) =
          [i \in 1..n |-> xor8(e[i], encrypt_block(Fed(e, iv, PieceOf(i) - 1))[PlaceOf(i)])]
  BY <1>5, CfbDecrypted
<1>7. ASSUME NEW i \in 1..n PROVE Fed(e, iv, PieceOf(i) - 1) = fb[PieceOf(i) - 1]
  <2> DEFINE p == PieceOf(i) - 1
  <2>1. p \in 0..c
    BY <1>i
  <2> HIDE DEF p
  <2>2. CASE p = 0
    BY <2>2, <1>f DEF p, Fed, IsFeedback
  <2>3. CASE p # 0
    <3>1. p \in 1..c
      BY <2>1, <2>3, <1>c
    <3> QED BY <3>1, <2>3, <1>4 DEF p, Fed
  <2> QED BY <2>2, <2>3
<1>8. cfb_decrypt(e, iv) = [i \in 1..n |-> xor8(e[i], K[i])]
  <2>1. ASSUME NEW i \in 1..n PROVE encrypt_block(Fed(e, iv, PieceOf(i) - 1))[PlaceOf(i)] = K[i]
    BY <1>7
  <2> HIDE DEF K
  <2> QED BY <1>6, <2>1
<1> QED BY <1>5, <1>8 DEF e

\* Decrypt undoes Encrypt at every length, nonce and method.
LEMMA CipherLossless ==
    ASSUME NEW n \in Nat, NEW d \in [1..n -> Byte], NEW cipher \in Ciphers
    PROVE  Encrypt(cipher, d) \in [1..n -> Byte] /\ Decrypt(cipher, Encrypt(cipher, d)) = d
<1> DEFINE iv == next_nonce(cipher)
<1>1. /\ cipher.method # "chacha20" => iv \in Block
      /\ cipher.method = "chacha20" => iv \in [1..NonceLen -> Byte]
  BY NonceTyped
<1> HIDE DEF iv
<1>2. CASE cipher.method = "cfb"
  <2>1. Encrypt(cipher, d) = cfb_encrypt(d, iv)
    BY <1>2 DEF Encrypt, iv
  <2>2. Decrypt(cipher, cfb_encrypt(d, iv)) = cfb_decrypt(cfb_encrypt(d, iv), iv)
    BY <1>2 DEF Decrypt, iv
  <2> QED BY <2>1, <2>2, <1>1, <1>2, CfbLossless
<1>3. CASE cipher.method = "ctr"
  <2>1. Encrypt(cipher, d) = ctr_apply(d, iv)
    BY <1>3 DEF Encrypt, iv
  <2>2. Decrypt(cipher, ctr_apply(d, iv)) = ctr_apply(ctr_apply(d, iv), iv)
    BY <1>3 DEF Decrypt, iv
  <2> QED BY <2>1, <2>2, <1>1, <1>3, CtrLossless
<1>4. CASE cipher.method = "chacha20"
  <2>1. Encrypt(cipher, d) = apply_keystream(d, iv)
    BY <1>4 DEF Encrypt, iv
  <2>2. Decrypt(cipher, apply_keystream(d, iv)) = apply_keystream(apply_keystream(d, iv), iv)
    BY <1>4 DEF Decrypt, iv
  <2> QED BY <2>1, <2>2, <1>1, <1>4, ChaChaLossless
<1>5. CASE cipher.method = "none"
  BY <1>5 DEF Encrypt, Decrypt
<1> QED BY <1>2, <1>3, <1>4, <1>5 DEF Ciphers

----------------------------------------------------------------------------
(* Binary frames *)

\* The key a header derives is a word.
LEMMA HeaderKfTyped ==
    ASSUME NEW kf \in Int, NEW seed \in Byte
    PROVE  header_kf(kf, seed) \in Words
<1> DEFINE x == Word(kf)  l == xor16(x.lo, seed)
<1>1. x \in Words
  BY WordTyped
<1>d. header_kf(kf, seed) = [x EXCEPT !.lo = l]
  BY DEF header_kf
<1>2. x.lo \in Nat /\ x.lo < 65536 /\ seed \in Nat /\ seed < 65536
  BY <1>1, U16Range, ByteRange DEF Words
<1>3. l \in Nat /\ l < 65536
  BY <1>2, Xor16Facts
<1>4. l \in U16
  BY <1>3, U16Range
<1> HIDE DEF x, l
<1> QED BY <1>1, <1>4, <1>d DEF Words

\* The low byte of a word is a byte.
LEMMA LowByteTyped ==
    ASSUME NEW x \in Words
    PROVE  LowByte(x) \in Byte
BY U16Int, ByteMod DEF Words, LowByte

\* A pair as a function.
LEMMA PairTyped ==
    ASSUME NEW S, NEW x \in S, NEW y \in S
    PROVE  <<x, y>> \in [1..2 -> S] /\ <<x, y>>[1] = x /\ <<x, y>>[2] = y
OBVIOUS

\* One byte in front of two.
LEMMA ThreeBytes ==
    ASSUME NEW S, NEW x \in S, NEW p \in Seq(S), Len(p) >= 2, Len(p) <= 2
    PROVE  /\ <<x>> \o p \in Seq(S) /\ Len(<<x>> \o p) = 3
           /\ (<<x>> \o p)[1] = x /\ SubSeq(<<x>> \o p, 2, 3) = p
<1> DEFINE t == <<x>> \o p
<1>1. t \in Seq(S) /\ Len(t) = 1 + Len(p) /\ t[1] = x
  OBVIOUS
<1>l. Len(p) = 2
  OBVIOUS
<1>2. t[2] = p[1] /\ t[3] = p[2]
  <2>1. <<x>> \in Seq(S) /\ Len(<<x>>) = 1
    OBVIOUS
  <2>2. \A i \in 1..(Len(<<x>>) + Len(p)) :
            (<<x>> \o p)[i] = IF i <= Len(<<x>>) THEN <<x>>[i] ELSE p[i - Len(<<x>>)]
    BY <2>1, ConcatProperties
  <2>3. \A i \in 1..(1 + 2) : t[i] = IF i <= 1 THEN <<x>>[i] ELSE p[i - 1]
    BY <2>1, <2>2, <1>l
  <2> HIDE DEF t
  <2> QED BY <2>3
<1> HIDE DEF t
<1>3. t[2] \in S /\ t[3] \in S
  BY <1>2, <1>l, ElementOfSeq
<1> DEFINE g == SubSeq(t, 2, 3)
<1>4. \A i \in 2..3 : t[i] \in S
  BY <1>3
<1>5. g \in Seq(S) /\ Len(g) = 2
  BY <1>4, SubSeqProperties
<1>6. \A i \in 1..(3 - 2 + 1) : g[i] = t[2 + i - 1]
  BY <1>4, SubSeqProperties
<1> HIDE DEF g
<1>7. g[1] = p[1] /\ g[2] = p[2]
  BY <1>2, <1>6
<1>8. \A i \in 1..Len(g) : g[i] = p[i]
  BY <1>5, <1>7
<1>9. g = p
  BY <1>8, <1>l, <1>5, SeqEqual
<1> QED BY <1>1, <1>l, <1>9 DEF t, g

\* The two bytes of a length.
IsLength(len, x, y) == x \in Byte /\ y \in Byte /\ x * 256 + y + 1 = len

\* Every length up to 65536 has its two bytes.
LEMMA LengthBytes ==
    ASSUME NEW len \in Nat, len > 0, len <= 65536
    PROVE  IsLength(len, (len - 1) \div 256, (len - 1) % 256)
<1>1. /\ (len - 1) \div 256 \in Nat /\ (len - 1) \div 256 < 256
      /\ (len - 1) % 256 \in Nat /\ (len - 1) % 256 < 256
  OBVIOUS
<1>2. ((len - 1) \div 256) * 256 + ((len - 1) % 256) + 1 = len
  OBVIOUS
<1> QED BY <1>1, <1>2, ByteRange DEF IsLength

\* The three header bytes of a frame give its length and the key of its body.
LEMMA HeaderLossless ==
    ASSUME NEW kf \in Int, NEW seed \in Byte, NEW protocol \in Ciphers,
           NEW len, IsLength(len, (len - 1) \div 256, (len - 1) % 256)
    PROVE  /\ header_encrypt(kf, seed, protocol, len) \in Seq(Byte)
           /\ Len(header_encrypt(kf, seed, protocol, len)) = 3
           /\ header_decrypt(kf, protocol, header_encrypt(kf, seed, protocol, len)) =
                  [len |-> len, hkf |-> header_kf(kf, seed)]
<1> DEFINE hkf == header_kf(kf, seed)  k == LowByte(hkf)  k0 == LowByte(Word(kf))
           two == 2  three == 3
           pair == <<(len - 1) \div 256, (len - 1) % 256>>
           body == Encrypt(protocol, pair)
           mask == [i \in 1..two |-> xor8(body[i], k)]
           mixed == shuffle(mask, hkf)
           t == <<seed>> \o mixed
           w == delta_encode(t, k0)
<1>0. hkf \in Words /\ k0 \in Byte
  BY HeaderKfTyped, WordTyped, LowByteTyped
<1>k. k \in Byte
  BY <1>0, LowByteTyped
<1>a. w = header_encrypt(kf, seed, protocol, len)
  BY DEF header_encrypt
<1>1. /\ (len - 1) \div 256 \in Byte /\ (len - 1) % 256 \in Byte
      /\ ((len - 1) \div 256) * 256 + ((len - 1) % 256) + 1 = len
  BY DEF IsLength
<1>2. pair \in [1..two -> Byte] /\ pair[1] * 256 + pair[2] + 1 = len
  BY <1>1, PairTyped
<1>n. two \in Nat /\ two >= 2 /\ two <= 2 /\ three \in Nat /\ three >= 3 /\ three <= 3
  OBVIOUS
<1>d. ASSUME NEW h
      PROVE  header_decrypt(kf, protocol, h) =
                 LET b == Decrypt(protocol,
                              [i \in 1..two |-> xor8(unshuffle(SubSeq(delta_decode(h, k0), 2, 3),
                                                               header_kf(kf, delta_decode(h, k0)[1]))[i],
                                                     LowByte(header_kf(kf, delta_decode(h, k0)[1])))])
                 IN [len |-> b[1] * 256 + b[2] + 1, hkf |-> header_kf(kf, delta_decode(h, k0)[1])]
  BY DEF header_decrypt
<1> HIDE DEF pair, hkf, k, k0, two, three
<1>3. body \in [1..two -> Byte] /\ Decrypt(protocol, body) = pair
  BY <1>2, <1>n, CipherLossless
<1> HIDE DEF body
<1>4. mask \in [1..two -> Byte] /\ [i \in 1..two |-> xor8(mask[i], k)] = body
  <2>1. ASSUME NEW i \in 1..two
        PROVE  xor8(body[i], k) \in Byte /\ xor8(xor8(body[i], k), k) = body[i]
    <3>1. body[i] \in Byte
      BY <1>3
    <3> QED BY <3>1, <1>k, XorByte
  <2>2. mask \in [1..two -> Byte]
    BY <2>1
  <2>3. ASSUME NEW i \in 1..two PROVE xor8(mask[i], k) = body[i]
    BY <2>1
  <2> HIDE DEF mask
  <2> QED BY <2>2, <2>3, <1>3
<1> HIDE DEF mask
<1>5. mixed \in [1..two -> Byte] /\ unshuffle(mixed, hkf) = mask
  <2>1. mask \in [1..two -> Byte] /\ hkf \in Words /\ two \in Nat
    BY <1>4, <1>0, <1>n
  <2> QED BY <2>1, ShuffleLossless, ZenonT(20)
<1> HIDE DEF mixed
<1>s. mixed \in Seq(Byte) /\ Len(mixed) >= 2 /\ Len(mixed) <= 2
  BY <1>5, <1>n, FunSeq
<1>6. t \in Seq(Byte) /\ Len(t) = 3 /\ t[1] = seed /\ SubSeq(t, 2, 3) = mixed
  BY <1>s, ThreeBytes
<1> HIDE DEF t
<1>t. t \in [1..three -> Byte]
  BY <1>6, LenProperties DEF three
<1>7. w \in [1..three -> Byte] /\ delta_decode(w, k0) = t
  BY <1>t, <1>0, <1>n, DeltaLossless
<1> HIDE DEF w
<1>w. w \in Seq(Byte) /\ Len(w) = 3
  BY <1>7, <1>n, FunSeq
<1>8. header_decrypt(kf, protocol, w) = [len |-> len, hkf |-> hkf]
  <2> DEFINE h == delta_decode(w, k0)
             key == header_kf(kf, h[1])
             g == SubSeq(h, 2, 3)
             m == unshuffle(g, key)
             f == [i \in 1..two |-> xor8(m[i], LowByte(key))]
             b == Decrypt(protocol, f)
  <2>1. header_decrypt(kf, protocol, w) = [len |-> b[1] * 256 + b[2] + 1, hkf |-> key]
    BY <1>d
  <2>2. h = t /\ h[1] = seed /\ g = mixed
    BY <1>6, <1>7
  <2> HIDE DEF h, g
  <2>3. key = hkf
    BY <2>2 DEF hkf
  <2>k. LowByte(key) = k
    BY <2>3 DEF k
  <2> HIDE DEF key
  <2>4. m = mask
    BY <2>2, <2>3, <1>5
  <2> HIDE DEF m
  <2>5. f = body
    BY <2>4, <2>k, <1>4
  <2> HIDE DEF f
  <2>6. b = pair
    BY <2>5, <1>3
  <2> HIDE DEF b
  <2> QED BY <2>1, <2>3, <2>6, <1>2
<1> QED BY <1>w, <1>8, <1>a DEF hkf

\* Every combination of the three transforms is undone, last to first.
LEMMA PayloadLossless ==
    ASSUME NEW n \in Nat, NEW d \in [1..n -> Byte], NEW flags, NEW hkf \in Words, NEW kf \in Int
    PROVE  /\ payload_obfuscate(d, flags, hkf, kf) \in [1..n -> Byte]
           /\ payload_deobfuscate(payload_obfuscate(d, flags, hkf, kf), flags, hkf, kf) = d
<1> DEFINE k0 == LowByte(Word(kf))
           masked == IF "masked" \in flags THEN masked_xor_random_next(d, hkf) ELSE d
           shuffled == IF "shuffle" \in flags THEN shuffle(masked, hkf) ELSE masked
           w == IF "delta" \in flags THEN delta_encode(shuffled, k0) ELSE shuffled
           plain == IF "delta" \in flags THEN delta_decode(w, k0) ELSE w
           ordered == IF "shuffle" \in flags THEN unshuffle(plain, hkf) ELSE plain
           back == IF "masked" \in flags THEN masked_xor_random_next(ordered, hkf) ELSE ordered
<1>0. k0 \in Byte
  BY WordTyped, LowByteTyped
<1>a. payload_obfuscate(d, flags, hkf, kf) = w
  BY DEF payload_obfuscate
<1>b. payload_deobfuscate(w, flags, hkf, kf) = back
  BY DEF payload_deobfuscate
<1> HIDE DEF k0
<1>1. masked \in [1..n -> Byte] /\ ("masked" \in flags => masked_xor_random_next(masked, hkf) = d)
                                /\ ("masked" \notin flags => masked = d)
  BY MaskedLossless
<1> HIDE DEF masked
<1>2. shuffled \in [1..n -> Byte] /\ ("shuffle" \in flags => unshuffle(shuffled, hkf) = masked)
                                  /\ ("shuffle" \notin flags => shuffled = masked)
  BY <1>1, ShuffleLossless
<1> HIDE DEF shuffled
<1>3. w \in [1..n -> Byte] /\ ("delta" \in flags => delta_decode(w, k0) = shuffled)
                           /\ ("delta" \notin flags => w = shuffled)
  BY <1>0, <1>2, DeltaLossless
<1> HIDE DEF w
<1>4. plain = shuffled
  BY <1>3
<1> HIDE DEF plain
<1>5. ordered = masked
  BY <1>2, <1>4
<1> HIDE DEF ordered
<1>6. back = d
  BY <1>1, <1>5
<1> QED BY <1>3, <1>6, <1>a, <1>b

----------------------------------------------------------------------------
(* Packets *)

\* The bound of a plaintext, as bounds the provers do not enumerate.
LEMMA BufferSize == PPP_BUFFER_SIZE \in Nat /\ PPP_BUFFER_SIZE >= 65536 /\ PPP_BUFFER_SIZE <= 65536
BY DEF PPP_BUFFER_SIZE

\* Every plaintext's length fits a header.
LEMMA FrameLength ==
    ASSUME NEW len \in 1..PPP_BUFFER_SIZE
    PROVE  len \in Nat /\ len > 0 /\ IsLength(len, (len - 1) \div 256, (len - 1) % 256)
<1>1. len \in Nat /\ len > 0 /\ len <= 65536
  BY BufferSize
<1> QED BY <1>1, LengthBytes

\* A header of three bytes and a body, front by front.
LEMMA FrontParts ==
    ASSUME NEW S, NEW h \in Seq(S), Len(h) = 3, NEW n \in Nat, NEW b \in [1..n -> S],
           NEW s \in Seq(S), FrontOf(s, h \o b)
    PROVE  /\ h \o b \in Seq(S) /\ Len(h \o b) = 3 + n /\ Len(s) \in Nat /\ Len(s) <= 3 + n
           /\ Len(s) >= 3 => SubSeq(s, 1, 3) = h
           /\ Len(s) >= 3 + n => SubSeq(s, 4, 3 + n) = b
<1> DEFINE w == h \o b
<1>1. b \in Seq(S) /\ Len(b) = n
  BY FunSeq
<1>2. w \in Seq(S) /\ Len(w) = 3 + n
  <2>1. w \in Seq(S)
    BY <1>1, ConcatProperties
  <2>2. Len(w) = Len(h) + Len(b)
    BY <1>1, ConcatProperties
  <2> QED BY <2>1, <2>2, <1>1
<1>3. \A i \in 1..(Len(h) + Len(b)) : (h \o b)[i] = IF i <= Len(h) THEN h[i] ELSE b[i - Len(h)]
  BY <1>1, ConcatProperties
<1>4. \A i \in 1..(3 + n) : w[i] = IF i <= 3 THEN h[i] ELSE b[i - 3]
  BY <1>1, <1>3
<1>5. Len(s) \in Nat /\ Len(s) <= 3 + n /\ \A i \in 1..Len(s) : s[i] = w[i]
  BY <1>2 DEF FrontOf
<1> HIDE DEF w
<1>6. ASSUME Len(s) >= 3 PROVE SubSeq(s, 1, 3) = h
  <2> DEFINE g == SubSeq(s, 1, 3)
  <2>1. ASSUME NEW i \in 1..3 PROVE s[i] = h[i] /\ s[i] \in S
    <3>1. i \in 1..Len(s) /\ i \in 1..(3 + n) /\ i <= 3 /\ i \in 1..Len(h)
      BY <1>5, <1>6
    <3>2. s[i] = h[i]
      BY <3>1, <1>4, <1>5
    <3> QED BY <3>1, <3>2, ElementOfSeq
  <2>2. g \in Seq(S) /\ Len(g) = 3
    BY <2>1, SubSeqProperties
  <2>3. \A i \in 1..(3 - 1 + 1) : g[i] = s[1 + i - 1]
    BY <2>1, SubSeqProperties
  <2> HIDE DEF g
  <2>4. ASSUME NEW i \in 1..Len(g) PROVE g[i] = h[i]
    <3>1. i \in 1..3 /\ i \in 1..(3 - 1 + 1) /\ 1 + i - 1 = i
      BY <2>2
    <3> QED BY <3>1, <2>1, <2>3
  <2>5. g = h
    BY <2>2, <2>4, SeqEqual
  <2> QED BY <2>5 DEF g
<1>7. ASSUME Len(s) >= 3 + n PROVE SubSeq(s, 4, 3 + n) = b
  <2> DEFINE g == SubSeq(s, 4, 3 + n)
  <2>1. ASSUME NEW i \in 4..(3 + n) PROVE s[i] = b[i - 3] /\ s[i] \in S
    <3>1. i \in 1..Len(s) /\ i \in 1..(3 + n) /\ ~(i <= 3) /\ i - 3 \in 1..n
      BY <1>5, <1>7
    <3>2. s[i] = b[i - 3]
      BY <3>1, <1>4, <1>5
    <3> QED BY <3>1, <3>2
  <2>2. g \in Seq(S) /\ Len(g) = n
    BY <2>1, SubSeqProperties
  <2>3. \A i \in 1..((3 + n) - 4 + 1) : g[i] = s[4 + i - 1]
    BY <2>1, SubSeqProperties
  <2> HIDE DEF g
  <2>4. ASSUME NEW i \in 1..Len(g) PROVE g[i] = b[i]
    <3>1. i \in 1..((3 + n) - 4 + 1) /\ 4 + i - 1 \in 4..(3 + n) /\ (4 + i - 1) - 3 = i
      BY <2>2
    <3> QED BY <3>1, <2>1, <2>3
  <2>5. g = b
    BY <2>2, <2>4, <1>1, SeqEqual
  <2> QED BY <2>5 DEF g
<1> QED BY <1>2, <1>5, <1>6, <1>7 DEF w

\* A packet is read back whole, and waited for until it is.
LEMMA PacketCarried ==
    ASSUME NEW j \in PacketJob, NEW s \in Seq(Byte), FrontOf(s, PacketOf(j))
    PROVE  /\ PacketOf(j) \in Seq(Byte) /\ Len(PacketOf(j)) > 0
           /\ Len(s) = Len(PacketOf(j)) => PacketIn(j, s) = Ok(j.value)
           /\ Len(s) < Len(PacketOf(j)) => PacketIn(j, s) = More
<1> DEFINE P == ProtocolOf(j)  T == TransportOf(j)  d == j.value  n == Len(j.value)
           kf == j.kf  seed == j.seed  flags == j.flags
           hkf == header_kf(kf, seed)
           h == header_encrypt(kf, seed, P, n)
           c == Encrypt(T, d)
           b == payload_obfuscate(c, flags, hkf, kf)
<1>1. /\ kf \in Int /\ seed \in Byte /\ d \in Seq(Byte) /\ n \in 1..PPP_BUFFER_SIZE
      /\ j.method \in {"cfb", "ctr", "chacha20"} /\ j.iv \in Nat /\ j.seq \in Nat
  BY DEF PacketJob
<1>2. P \in Ciphers /\ T \in Ciphers
  <2>1. j.iv + 1 \in Nat
    BY <1>1
  <2> QED BY <2>1, <1>1 DEF Ciphers, ProtocolOf, TransportOf
<1>3. n \in Nat /\ n > 0 /\ IsLength(n, (n - 1) \div 256, (n - 1) % 256)
  BY <1>1, FrameLength
<1>4. d \in [1..n -> Byte]
  BY <1>1, LenProperties
<1>w. PacketOf(j) = h \o b
  BY DEF PacketOf
<1>d. PacketIn(j, s) =
          LET g == header_decrypt(kf, P, SubSeq(s, 1, 3))
          IN IF Len(s) < 3 THEN More
             ELSE IF Len(s) < 3 + g.len THEN More
             ELSE Ok(Decrypt(T, payload_deobfuscate(SubSeq(s, 4, 3 + g.len), flags, g.hkf, kf)))
  BY DEF PacketIn
<1>v. j.value = d
  OBVIOUS
<1> HIDE DEF P, T, d, n, kf, seed, flags
<1>5. hkf \in Words
  BY <1>1, HeaderKfTyped
<1> HIDE DEF hkf
<1>6. h \in Seq(Byte) /\ Len(h) = 3 /\ header_decrypt(kf, P, h) = [len |-> n, hkf |-> hkf]
  BY <1>1, <1>2, <1>3, HeaderLossless DEF hkf
<1> HIDE DEF h
<1>7. c \in [1..n -> Byte] /\ Decrypt(T, c) = d
  BY <1>2, <1>3, <1>4, CipherLossless
<1> HIDE DEF c
<1>8. b \in [1..n -> Byte] /\ payload_deobfuscate(b, flags, hkf, kf) = c
  BY <1>1, <1>3, <1>5, <1>7, PayloadLossless
<1> HIDE DEF b
<1>9. /\ h \o b \in Seq(Byte) /\ Len(h \o b) = 3 + n /\ Len(s) \in Nat /\ Len(s) <= 3 + n
      /\ Len(s) >= 3 => SubSeq(s, 1, 3) = h
      /\ Len(s) >= 3 + n => SubSeq(s, 4, 3 + n) = b
  <2>0. FrontOf(s, h \o b) /\ h \in Seq(Byte) /\ Len(h) = 3 /\ n \in Nat /\ b \in [1..n -> Byte]
    BY <1>3, <1>6, <1>8, <1>w
  <2>1. h \o b \in Seq(Byte) /\ Len(h \o b) = 3 + n /\ Len(s) \in Nat /\ Len(s) <= 3 + n
    BY <2>0, FrontParts
  <2>2. ASSUME Len(s) >= 3 PROVE SubSeq(s, 1, 3) = h
    BY <2>0, <2>2, FrontParts
  <2>3. ASSUME Len(s) >= 3 + n PROVE SubSeq(s, 4, 3 + n) = b
    BY <2>0, <2>3, FrontParts
  <2> QED BY <2>1, <2>2, <2>3
<1>10. CASE Len(s) < 3
  <2>1. PacketIn(j, s) = More
    BY <1>d, <1>10
  <2> QED BY <2>1, <1>3, <1>9, <1>10, <1>w
<1>11. CASE Len(s) >= 3
  <2> DEFINE g == header_decrypt(kf, P, SubSeq(s, 1, 3))
  <2>1. g = [len |-> n, hkf |-> hkf]
    BY <1>6, <1>9, <1>11
  <2>2. g.len = n /\ g.hkf = hkf
    BY <2>1
  <2>3. PacketIn(j, s) = IF Len(s) < 3 THEN More
             ELSE IF Len(s) < 3 + g.len THEN More
             ELSE Ok(Decrypt(T, payload_deobfuscate(SubSeq(s, 4, 3 + g.len), flags, g.hkf, kf)))
    BY <1>d
  <2> HIDE DEF g
  <2>4. CASE Len(s) < 3 + n
    <3>1. PacketIn(j, s) = More
      BY <2>2, <2>3, <2>4, <1>9
    <3> QED BY <3>1, <2>4, <1>3, <1>9, <1>w
  <2>5. CASE Len(s) = 3 + n
    <3>1. SubSeq(s, 4, 3 + n) = b
      BY <2>5, <1>9
    <3>2. PacketIn(j, s) = Ok(Decrypt(T, payload_deobfuscate(SubSeq(s, 4, 3 + n), flags, hkf, kf)))
      BY <2>2, <2>3, <2>5, <1>3, <1>9
    <3>3. PacketIn(j, s) = Ok(d)
      BY <3>1, <3>2, <1>7, <1>8
    <3> QED BY <3>3, <2>5, <1>3, <1>9, <1>w, <1>v
  <2> QED BY <2>4, <2>5, <1>9, <1>3
<1> QED BY <1>10, <1>11, <1>9

\* So is the header of a frame without its body.
LEMMA HeaderCarried ==
    ASSUME NEW j \in HeaderJob, NEW w, w = header_encrypt(j.kf, j.seed, NoCipher, j.value)
    PROVE  w \in Seq(Byte) /\ Len(w) = 3 /\ header_decrypt(j.kf, NoCipher, w).len = j.value
<1> DEFINE kf == j.kf  seed == j.seed  len == j.value
<1>1. kf \in Int /\ seed \in Byte /\ len \in 1..PPP_BUFFER_SIZE
  BY DEF HeaderJob
<1>2. IsLength(len, (len - 1) \div 256, (len - 1) % 256)
  BY <1>1, FrameLength
<1>3. NoCipher \in Ciphers
  BY DEF NoCipher, Ciphers
<1>w. w = header_encrypt(kf, seed, NoCipher, len)
  OBVIOUS
<1>v. j.value = len /\ j.kf = kf
  OBVIOUS
<1> HIDE DEF kf, seed, len
<1>4. w \in Seq(Byte) /\ Len(w) = 3
  <2>1. w \in Seq(Byte)
    BY <1>1, <1>2, <1>3, <1>w, HeaderLossless
  <2>2. Len(header_encrypt(kf, seed, NoCipher, len)) = 3
    BY <1>1, <1>2, <1>3, HeaderLossless
  <2> QED BY <2>1, <2>2, <1>w
<1>5. header_decrypt(kf, NoCipher, w) = [len |-> len, hkf |-> header_kf(kf, seed)]
  BY <1>1, <1>2, <1>3, <1>w, HeaderLossless
<1> QED BY <1>4, <1>5, <1>v

----------------------------------------------------------------------------
(* Base94 headers *)

\* The bounds of the length modulus.
LEMMA ModBounds ==
    /\ MOD_MIN \in Nat /\ MOD_MIN >= 262144 /\ MOD_MIN <= 262144
    /\ MOD_MAX \in Nat /\ MOD_MAX >= 830584 /\ MOD_MAX <= 830584
BY DEF MOD_MIN, MOD_MAX

\* The modulus and the offset of a framer.
IsFramer(f, kf) ==
    /\ f.kf = kf
    /\ f.mod \in Nat /\ f.mod >= MOD_MIN /\ f.mod <= MOD_MAX
    /\ f.kf_mod \in Nat /\ f.kf_mod < f.mod

\* The modulus and the offset derived from any kf.
LEMMA FramerTyped ==
    ASSUME NEW kf \in Int
    PROVE  IsFramer(Framer(kf), kf)
<1> DEFINE mod == lcg_range(Word(kf), MOD_MIN, MOD_MAX)
           a == IF kf < 0 THEN -kf ELSE kf
<1>1. Word(kf) \in Words /\ MOD_MIN \in Nat /\ MOD_MAX \in Nat /\ MOD_MIN <= MOD_MAX /\ MOD_MIN > 0
  BY WordTyped, ModBounds
<1>2. mod \in Nat /\ mod >= MOD_MIN /\ mod <= MOD_MAX
  BY <1>1, LcgRangeTyped
<1>d. Framer(kf) = [kf |-> kf, mod |-> mod, kf_mod |-> a % mod]
  BY DEF Framer
<1> HIDE DEF mod
<1>3. a \in Nat /\ mod > 0
  BY <1>1, <1>2
<1> HIDE DEF a
<1>4. a % mod \in 0..(mod - 1)
  BY <1>2, <1>3, DivMod
<1>5. a % mod \in Nat /\ a % mod < mod
  BY <1>2, <1>4
<1> QED BY <1>2, <1>5, <1>d DEF IsFramer

\* One division of Quotients.
LEMMA QuotientsStep ==
    ASSUME NEW v \in Nat, NEW base \in Nat, base > 0, NEW n \in Nat, NEW i \in 1..n
    PROVE  Quotients(v, base, n)[i] = Quotients(v, base, n)[i - 1] \div base
BY QuotientsDef

\* Three digits hold x: every number below the modulus.
Fits(x) == Quotients(x, 94, 3)[3] = 0

\* Every number below the largest modulus has three digits or fewer.
LEMMA FitsThree ==
    ASSUME NEW x \in Nat, x < MOD_MAX
    PROVE  Fits(x)
<1> DEFINE three == 3  q == Quotients(x, 94, three)
<1>n. three \in Nat /\ 94 \in Nat /\ 94 > 0 /\ 1 \in 1..three /\ 2 \in 1..three /\ 3 \in 1..three
  OBVIOUS
<1>q. Quotients(x, 94, 3) = q
  OBVIOUS
<1> HIDE DEF three
<1>0. q \in [0..three -> Nat] /\ q[0] = x
  BY <1>n, QuotientsDef, ZenonT(60)
<1>1. \A i \in 1..three : q[i] = q[i - 1] \div 94
  BY <1>n, QuotientsDef
<1> HIDE DEF q
<1>2. q[1] = q[0] \div 94 /\ q[2] = q[1] \div 94 /\ q[3] = q[2] \div 94
  BY <1>n, <1>1
<1>3. x < 830584
  BY ModBounds
<1>a. q[1] \in Nat /\ q[1] < 8836
  BY <1>0, <1>2, <1>3
<1>b. q[2] \in Nat /\ q[2] < 94
  BY <1>a, <1>2
<1>c. q[3] = 0
  BY <1>b, <1>2
<1> QED BY <1>q, <1>c DEF Fits

\* A number in three places, in front of which it is filled with zeros, and
\* back.
IsAligned(a, x) ==
    /\ a \in Seq(Nat) /\ Len(a) >= 3 /\ Len(a) <= 3
    /\ \A i \in 1..Len(a) : a[i] >= 32 /\ a[i] <= 125
    /\ base94_decimal_decode(a) = Ok(x)

\* Three padded digits decode to the number they were made of.
LEMMA AlignedDigits ==
    ASSUME NEW x \in Nat, Fits(x)
    PROVE  IsAligned(Aligned3(base94_decimal_encode(x)), x)
<1> DEFINE three == 3  q == Quotients(x, 94, three)  d == ToDigits(x, 94, three)
           e == base94_decimal_encode(x)
           a == Aligned3(e)
<1>n. three \in Nat /\ 94 \in Nat /\ 94 > 0 /\ 94 > 1 /\ three > 0 /\ three >= 3 /\ three <= 3
  OBVIOUS
<1>z. Zero \in Nat /\ Zero >= 32 /\ Zero <= 32
  BY DEF Zero
<1>q. q[three] = 0
  BY DEF Fits
<1>e. e = [i \in DOMAIN d |-> d[i] + Zero]
  BY DEF base94_decimal_encode
<1>a. a = [i \in 1..(three - Len(e)) |-> Zero] \o e
  BY DEF Aligned3
<1> HIDE DEF three, e, a
<1>0. q \in [0..three -> Nat] /\ q[0] = x
  BY <1>n, QuotientsDef, ZenonT(60)
<1>1. ASSUME NEW i \in 1..three PROVE q[i] = q[i - 1] \div 94
  <2>1. x \in Nat
    OBVIOUS
  <2> QED BY <2>1, <1>n, QuotientsStep
<1>t. \E m \in 1..three : AreDigits(d, m, x, 94, three)
  BY <1>n, <1>q, ToDigitsFacts
<1>2. PICK m \in 1..three : AreDigits(d, m, x, 94, three)
  BY <1>t
<1>3. /\ q[m] = 0 /\ d \in [1..m -> 0..(94 - 1)]
      /\ \A i \in 1..m : d[i] = q[m - i] % 94
  BY <1>2 DEF AreDigits
<1> HIDE DEF q, d
<1>4. ASSUME NEW i \in m..three PROVE q[i] = 0
  <2> DEFINE S == {l \in 0..three : l < m \/ q[l] = 0}
  <2>1. 0 \in S
    BY <1>n
  <2>2. ASSUME NEW l \in 1..three, l - 1 \in S PROVE l \in S
    <3>1. CASE l < m
      BY <3>1
    <3>2. CASE l = m
      BY <3>2, <1>3
    <3>3. CASE l > m
      <4>1. q[l - 1] = 0
        BY <2>2, <3>3
      <4>2. q[l] = 0
        BY <4>1, <1>1
      <4> QED BY <4>2
    <3> QED BY <3>1, <3>2, <3>3
  <2> HIDE DEF S
  <2>3. \A l \in 0..three : l \in S
    BY <1>n, <2>1, <2>2, RangeInductionSet
  <2> QED BY <2>3, <1>n DEF S
<1>5. e \in [1..m -> Nat] /\ \A i \in 1..m : e[i] = (q[m - i] % 94) + Zero
  <2>0. \A y : y \in 0..(94 - 1) => y \in Nat
    OBVIOUS
  <2>1. DOMAIN d = 1..m /\ \A i \in 1..m : d[i] \in Nat
    <3>1. DOMAIN d = 1..m
      BY <1>3
    <3>2. ASSUME NEW i \in 1..m PROVE d[i] \in Nat
      <4>1. d[i] \in 0..(94 - 1)
        BY <1>3
      <4> QED BY <4>1, <2>0
    <3> QED BY <3>1, <3>2
  <2> QED BY <2>1, <1>3, <1>e, <1>z
<1>6. e \in Seq(Nat) /\ Len(e) = m /\ m \in Nat
  BY <1>5, <1>n, FunSeq
<1> DEFINE l == three - m  p == [i \in 1..l |-> Zero]
<1>7. l \in Nat /\ l + m = three
  BY <1>n
<1> HIDE DEF l
<1>8. p \in [1..l -> Nat] /\ \A i \in 1..l : p[i] = Zero
  BY <1>z
<1>9. p \in Seq(Nat) /\ Len(p) = l
  BY <1>7, <1>8, FunSeq
<1>10. a = p \o e
  BY <1>a, <1>6 DEF l
<1> HIDE DEF p
<1>11. a \in Seq(Nat) /\ Len(a) = three
  <2>1. a \in Seq(Nat)
    BY <1>6, <1>9, <1>10, ConcatProperties
  <2>2. Len(a) = Len(p) + Len(e)
    BY <1>6, <1>9, <1>10, ConcatProperties
  <2> QED BY <2>1, <2>2, <1>6, <1>7, <1>9
<1>12. ASSUME NEW i \in 1..three PROVE a[i] = (q[three - i] % 94) + Zero
  <2>0. \A j \in 1..(Len(p) + Len(e)) : (p \o e)[j] = IF j <= Len(p) THEN p[j] ELSE e[j - Len(p)]
    BY <1>6, <1>9, ConcatProperties
  <2>1. \A j \in 1..three : a[j] = IF j <= l THEN p[j] ELSE e[j - l]
    BY <2>0, <1>6, <1>7, <1>9, <1>10
  <2>2. CASE i <= l
    <3>1. three - i \in m..three
      BY <2>2, <1>7, <1>6
    <3>2. q[three - i] = 0
      BY <3>1, <1>4
    <3>3. a[i] = Zero
      BY <2>1, <2>2, <1>8, <1>7
    <3>4. 0 % 94 = 0
      OBVIOUS
    <3> QED BY <3>2, <3>3, <3>4, <1>z
  <2>3. CASE ~(i <= l)
    <3>1. i - l \in 1..m /\ m - (i - l) = three - i
      BY <2>3, <1>7, <1>6
    <3>2. a[i] = e[i - l]
      BY <2>1, <2>3
    <3> QED BY <3>1, <3>2, <1>5
  <2> QED BY <2>2, <2>3
<1>13. ASSUME NEW i \in 1..three
       PROVE  q[three - i] % 94 \in 0..(94 - 1) /\ a[i] >= 32 /\ a[i] <= 125
              /\ a[i] - Zero = q[three - i] % 94
  <2>1. three - i \in 0..three
    BY <1>n
  <2>2. q[three - i] \in Nat
    BY <2>1, <1>0
  <2>3. q[three - i] % 94 \in 0..(94 - 1)
    BY <2>2
  <2> DEFINE y == q[three - i] % 94
  <2>4. y \in Nat /\ y <= 93 /\ a[i] = y + Zero
    BY <2>3, <1>12
  <2> HIDE DEF y
  <2>5. a[i] >= 32 /\ a[i] <= 125 /\ a[i] - Zero = y
    BY <2>4, <1>z
  <2> QED BY <2>3, <2>5 DEF y
<1> DEFINE u == [i \in 1..three |-> a[i] - Zero]
<1>14. u \in [1..three -> 0..(94 - 1)] /\ \A i \in 1..three : u[i] = q[three - i] % 94
  BY <1>13
<1>u. base94_decimal_decode(a) = Ok(FromDigits(u, 94))
  <2>1. DOMAIN a = 1..three
    BY <1>11, LenProperties
  <2>2. ASSUME NEW i \in DOMAIN a PROVE a[i] - Zero \in 0..93
    <3>1. a[i] - Zero = q[three - i] % 94 /\ q[three - i] % 94 \in 0..(94 - 1)
      BY <2>1, <2>2, <1>13
    <3> QED BY <3>1
  <2>3. base94_decimal_decode(a) = Ok(FromDigits([i \in DOMAIN a |-> a[i] - Zero], 94))
    BY <2>2 DEF base94_decimal_decode
  <2> QED BY <2>1, <2>3
<1> HIDE DEF u
<1>15. AreDigits(u, three, x, 94, three)
  BY <1>14, <1>q DEF AreDigits, q
<1>16. FromDigits(u, 94) = x
  BY <1>15, <1>n, FromDigitsOf
<1>17. Len(a) >= 3 /\ Len(a) <= 3 /\ \A i \in 1..Len(a) : a[i] >= 32 /\ a[i] <= 125
  BY <1>11, <1>13, <1>n
<1>18. IsAligned(a, x)
  BY <1>11, <1>16, <1>17, <1>u DEF IsAligned
<1> QED BY <1>18 DEF a, e

\* An offset added modulo m is taken off again.
LEMMA ModBack ==
    ASSUME NEW m \in Nat, NEW x \in Nat, NEW k \in Nat, x < m, k < m
    PROVE  /\ (x + k) % m \in Nat /\ (x + k) % m < m
           /\ (((x + k) % m) + m - k) % m = x
<1>1. m > 0 /\ x + k \in Nat
  OBVIOUS
<1>2. CASE x + k < m
  <2>1. (x + k) % m = x + k
    BY <1>1, <1>2, ModSmall
  <2>2. (x + k) + m - k = x + m /\ x + m \in Nat /\ m <= x + m /\ x + m < 2 * m /\ (x + m) - m = x
    OBVIOUS
  <2>3. (x + m) % m = x
    BY <2>2, <1>1, ModSmall
  <2> QED BY <2>1, <2>2, <2>3, <1>1, <1>2
<1>3. CASE ~(x + k < m)
  <2>1. (x + k) % m = x + k - m
    <3>1. m <= x + k /\ x + k < 2 * m
      BY <1>3
    <3> QED BY <3>1, <1>1, ModSmall
  <2>2. (x + k - m) + m - k = x /\ x + k - m \in Nat /\ x + k - m < m
    BY <1>3
  <2>3. x % m = x
    BY <1>1, ModSmall
  <2> QED BY <2>1, <2>2, <2>3
<1> QED BY <1>2, <1>3

\* What is encoded below the modulus is decoded.
LEMMA LengthDecoded ==
    ASSUME NEW kf, NEW f, IsFramer(f, kf), NEW x \in Nat, x < f.mod,
           NEW a, a = Aligned3(base94_decimal_encode((x + f.kf_mod) % f.mod))
    PROVE  \E y : IsAligned(a, y) /\ decode_length(f, a) = Ok(x)
<1> DEFINE m == f.mod  k == f.kf_mod  y == (x + k) % m
<1>1. m \in Nat /\ m <= MOD_MAX /\ k \in Nat /\ k < m /\ x < m
  BY DEF IsFramer
<1>a. a = Aligned3(base94_decimal_encode(y))
  OBVIOUS
<1> DEFINE n == base94_decimal_decode(a)
<1>d. decode_length(f, a) = IF n = Error THEN Error ELSE Ok((n.value + m - k) % m)
  BY DEF decode_length
<1> HIDE DEF m, k
<1>2. y \in Nat /\ y < m /\ (y + m - k) % m = x
  BY <1>1, ModBack
<1> HIDE DEF y
<1>3. y < MOD_MAX
  BY <1>1, <1>2, ModBounds
<1>4. IsAligned(a, y)
  BY <1>2, <1>3, <1>a, FitsThree, AlignedDigits
<1>5. n = Ok(y)
  BY <1>4 DEF IsAligned
<1>6. n # Error /\ n.value = y
  BY <1>5 DEF Ok, Error
<1> HIDE DEF n
<1> QED BY <1>2, <1>4, <1>6, <1>d

\* Equality from two bounds.
LEMMA Squeeze ==
    ASSUME NEW n \in Nat, NEW m \in Nat, n >= m, n <= m
    PROVE  n = m
OBVIOUS

\* The printable characters, by their bounds.
LEMMA PrintableRange == \A x \in Printable : x \in Nat /\ x >= 32 /\ x <= 126
BY DEF Printable

\* The seed byte says whether a filler follows it.
LEMMA SeedParity ==
    ASSUME NEW k \in Printable
    PROVE  /\ SeedByte(k, TRUE) \in Nat /\ SeedByte(k, TRUE) < 256 /\ SeedByte(k, TRUE) % 2 = 0
           /\ SeedByte(k, FALSE) \in Nat /\ SeedByte(k, FALSE) < 256 /\ SeedByte(k, FALSE) % 2 # 0
<1>1. k \in Nat /\ k <= 126
  BY PrintableRange
<1>2. SeedByte(k, TRUE) = IF k % 2 = 0 THEN k ELSE k + 1
  BY DEF SeedByte
<1>3. SeedByte(k, FALSE) = IF k % 2 = 1 THEN k ELSE IF k = 126 THEN 33 ELSE k + 1
  BY DEF SeedByte
<1> DEFINE a == SeedByte(k, TRUE)  b == SeedByte(k, FALSE)
<1>a. a = IF k % 2 = 0 THEN k ELSE k + 1
  BY <1>2
<1>b. b = IF k % 2 = 1 THEN k ELSE IF k = 126 THEN 33 ELSE k + 1
  BY <1>3
<1> HIDE DEF a, b
<1>6. a \in Nat /\ a < 256 /\ a % 2 = 0 /\ b \in Nat /\ b < 256 /\ b % 2 # 0
  BY <1>1, <1>a, <1>b
<1> QED BY <1>6 DEF a, b

\* The checksum of four bytes has sixteen bits.
LEMMA ChecksumRange ==
    ASSUME NEW h, h[1] \in Nat, h[2] \in Nat, h[3] \in Nat, h[4] \in Nat,
           h[1] < 256, h[2] < 256, h[3] < 256, h[4] < 256
    PROVE  inet_chksum(h) \in Nat /\ inet_chksum(h) < 65536
<1> DEFINE s == (h[1] * 256 + h[2]) + (h[3] * 256 + h[4])
           q == s \div Half  r == s % Half
<1>1. s \in Nat /\ s <= 131070
  OBVIOUS
<1>d. inet_chksum(h) = 65535 - (r + q)
  BY DEF inet_chksum
<1> HIDE DEF s
<1>2. Half \in Nat /\ Half > 0 /\ Half >= 65536 /\ Half <= 65536
  BY HalfValue
<1>3. q \in Int /\ r \in 0..(Half - 1) /\ s = q * Half + r
  BY <1>1, <1>2, DivMod
<1> HIDE DEF q, r
<1>4. q * Half = q * 65536 /\ r \in Nat /\ r < 65536
  BY <1>2, <1>3
<1>5. q \in Int /\ r \in Nat /\ r < 65536 /\ s = q * 65536 + r
  BY <1>3, <1>4
<1>6. r + q \in Nat /\ r + q <= 65535
  BY <1>1, <1>5
<1> HIDE DEF q, r
<1> QED BY <1>d, <1>5, <1>6

\* restore_header puts the digits in order and drops the filler.
LEMMA Restored ==
    ASSUME NEW d, NEW y, IsAligned(d, y), NEW k \in Printable, NEW fill, NEW w,
           w[1] = SeedByte(k, d[1] = Zero), w[2] = IF d[1] = Zero THEN fill ELSE d[1],
           w[3] = d[3], w[4] = d[2]
    PROVE  restore_header(w) = d
<1>0. d \in Seq(Nat) /\ Len(d) >= 3 /\ Len(d) <= 3
  BY DEF IsAligned
<1>l. Len(d) \in Nat
  BY <1>0, LenProperties
<1>1. d \in Seq(Nat) /\ Len(d) = 3
  BY <1>0, <1>l, Squeeze
<1>n. 1 \in 1..Len(d) /\ 2 \in 1..Len(d) /\ 3 \in 1..Len(d)
  BY <1>0, <1>l
<1>2. d[1] \in Nat /\ d[2] \in Nat /\ d[3] \in Nat
  BY <1>0, <1>n, ElementOfSeq
<1> DEFINE x == IF w[1] % 2 = 0 THEN Zero ELSE w[2]
<1>r. restore_header(w) = <<x, w[4], w[3]>>
  BY DEF restore_header
<1>3. x = d[1]
  <2>1. CASE d[1] = Zero
    <3>0. (d[1] = Zero) = TRUE
      BY <2>1
    <3>1. w[1] = SeedByte(k, TRUE)
      BY <3>0
    <3> QED BY <3>1, <2>1, SeedParity
  <2>2. CASE d[1] # Zero
    <3>0. (d[1] = Zero) = FALSE
      BY <2>2
    <3>1. w[1] = SeedByte(k, FALSE)
      BY <3>0
    <3> QED BY <3>1, <2>2, SeedParity
  <2> QED BY <2>1, <2>2
<1> HIDE DEF x
<1>4. restore_header(w) = <<d[1], d[2], d[3]>>
  BY <1>3, <1>r
<1> DEFINE e == <<d[1], d[2], d[3]>>
<1>5. e \in Seq(Nat) /\ Len(e) = 3 /\ e[1] = d[1] /\ e[2] = d[2] /\ e[3] = d[3]
  BY <1>2
<1> HIDE DEF e
<1>6. \A i \in 1..Len(e) : e[i] = d[i]
  BY <1>5
<1>7. e = d
  BY <1>1, <1>5, <1>6, SeqEqual
<1> QED BY <1>4, <1>7 DEF e

\* Four bytes and three more.
LEMMA SevenBytes ==
    ASSUME NEW S, NEW h \in Seq(S), Len(h) >= 4, Len(h) <= 4, NEW g \in Seq(S), Len(g) >= 3, Len(g) <= 3
    PROVE  /\ h \o g \in Seq(S) /\ Len(h \o g) = 7
           /\ SubSeq(h \o g, 1, 4) = h /\ SubSeq(h \o g, 5, 7) = g
           /\ \A i \in 1..4 : (h \o g)[i] = h[i]
<1>l. Len(h) \in Nat /\ Len(g) \in Nat
  BY LenProperties
<1>0. Len(h) = 4 /\ Len(g) = 3
  BY <1>l, Squeeze
<1>1. h \o g \in Seq(S)
  BY ConcatProperties
<1>2. Len(h \o g) = Len(h) + Len(g)
  BY ConcatProperties
<1>3. SubSeq(h \o g, 1, Len(h)) = SubSeq(h, 1, Len(h))
  <2>1. 1 \in 1..Len(h) /\ Len(h) \in 1..Len(h)
    BY <1>0
  <2> QED BY <2>1, SubSeqOfConcat1
<1>4. SubSeq(h, 1, Len(h)) = h /\ SubSeq(g, 1, Len(g)) = g
  BY SubSeqFull
<1>5. SubSeq(h \o g, 5, 7) = SubSeq(g, 5 - Len(h), 7 - Len(h))
  <2>1. 5 \in (Len(h) + 1)..(Len(h) + Len(g)) /\ 7 \in (Len(h) + 1)..(Len(h) + Len(g))
    BY <1>0
  <2> QED BY <2>1, SubSeqOfConcat2
<1>6. \A i \in 1..(Len(h) + Len(g)) : (h \o g)[i] = IF i <= Len(h) THEN h[i] ELSE g[i - Len(h)]
  BY ConcatProperties
<1>7. ASSUME NEW i \in 1..4 PROVE (h \o g)[i] = h[i]
  <2>1. i \in 1..(Len(h) + Len(g)) /\ i <= Len(h)
    BY <1>0
  <2> QED BY <2>1, <1>6
<1> QED BY <1>0, <1>1, <1>2, <1>3, <1>4, <1>5, <1>7

\* The four bytes of a header: the seed, the first digit or the filler, and
\* the other two digits.
IsSimple(h, d, k, fill) ==
    /\ h \in Seq(Nat) /\ Len(h) >= 4 /\ Len(h) <= 4
    /\ h[1] = SeedByte(k, d[1] = Zero)
    /\ h[2] = (IF d[1] = Zero THEN fill ELSE d[1])
    /\ h[3] = d[3] /\ h[4] = d[2]
    /\ h[1] < 256 /\ h[2] < 256 /\ h[3] < 256 /\ h[4] < 256

\* Every four-byte header has that form.
LEMMA SimpleHeader ==
    ASSUME NEW d, NEW y, IsAligned(d, y), NEW k \in Printable, NEW fill \in Printable
    PROVE  IsSimple(<<SeedByte(k, d[1] = Zero), IF d[1] = Zero THEN fill ELSE d[1], d[3], d[2]>>,
                    d, k, fill)
<1> DEFINE a == SeedByte(k, d[1] = Zero)  b == IF d[1] = Zero THEN fill ELSE d[1]
           p == d[3]  q == d[2]
<1>0. d \in Seq(Nat) /\ Len(d) >= 3 /\ Len(d) <= 3 /\ \A i \in 1..Len(d) : d[i] >= 32 /\ d[i] <= 125
  BY DEF IsAligned
<1>l. Len(d) \in Nat
  BY <1>0, LenProperties
<1>n. 1 \in 1..Len(d) /\ 2 \in 1..Len(d) /\ 3 \in 1..Len(d)
  BY <1>0, <1>l
<1>2. d[1] \in Nat /\ d[2] \in Nat /\ d[3] \in Nat /\ d[1] <= 125 /\ d[2] <= 125 /\ d[3] <= 125
  BY <1>0, <1>n, ElementOfSeq
<1>3. a \in Nat /\ a < 256
  <2>1. CASE d[1] = Zero
    <3>0. (d[1] = Zero) = TRUE
      BY <2>1
    <3>1. a = SeedByte(k, TRUE)
      BY <3>0
    <3> QED BY <3>1, SeedParity, ZenonT(60)
  <2>2. CASE d[1] # Zero
    <3>0. (d[1] = Zero) = FALSE
      BY <2>2
    <3>1. a = SeedByte(k, FALSE)
      BY <3>0
    <3> QED BY <3>1, SeedParity, ZenonT(60)
  <2> QED BY <2>1, <2>2
<1>4. b \in Nat /\ b < 256
  BY <1>2, PrintableRange
<1>5. p \in Nat /\ p < 256 /\ q \in Nat /\ q < 256
  BY <1>2
<1>v. a = SeedByte(k, d[1] = Zero) /\ b = (IF d[1] = Zero THEN fill ELSE d[1]) /\ p = d[3] /\ q = d[2]
  OBVIOUS
<1> HIDE DEF a, b, p, q
<1> DEFINE h == <<a, b, p, q>>
<1>6. h \in Seq(Nat) /\ Len(h) = 4 /\ h[1] = a /\ h[2] = b /\ h[3] = p /\ h[4] = q
  BY <1>3, <1>4, <1>5
<1>7. Len(h) >= 4 /\ Len(h) <= 4
  BY <1>6
<1> HIDE DEF h
<1>8. IsSimple(h, d, k, fill)
  BY <1>3, <1>4, <1>5, <1>6, <1>7, <1>v DEF IsSimple
<1> QED BY <1>8 DEF h, a, b, p, q

\* The bytes of a header.
HeaderLen(first) == IF first THEN HEADER_EXTENDED ELSE HEADER_SIMPLE

\* A header gives the length of its body: the simple one, and the first of a
\* session with its checksum.
LEMMA Base94Header ==
    ASSUME NEW kf \in Int, NEW len \in 1..BASE94_MAX_FRAME, NEW first \in BOOLEAN,
           NEW k \in Printable, NEW fill \in Printable,
           NEW f, f = Framer(kf), NEW w, w = encode_header(f, len, first, k, fill)
    PROVE  /\ w \in Seq(Nat) /\ Len(w) = HeaderLen(first)
           /\ decode_header(f, first, w) = Ok(len)
<1> DEFINE d == Aligned3(base94_decimal_encode((len + f.kf_mod) % f.mod))
           h == <<SeedByte(k, d[1] = Zero), IF d[1] = Zero THEN fill ELSE d[1], d[3], d[2]>>
           chk == xor32(inet_chksum(h), len)
           c == Aligned3(base94_decimal_encode((chk + f.kf_mod) % f.mod))
           key == Word(f.kf)
           g == shuffle(c, key)
<1>0. IsFramer(f, kf)
  BY FramerTyped
<1>1. f.mod \in Nat /\ f.mod >= MOD_MIN /\ f.kf = kf
  BY <1>0 DEF IsFramer
<1>b. /\ BASE94_MAX_FRAME \in Nat /\ BASE94_MAX_FRAME < MOD_MIN /\ MOD_MIN \in Nat
  BY Base94Assumption, ModBounds
<1>2. len \in Nat /\ len > 0 /\ len <= BASE94_MAX_FRAME /\ len < MOD_MIN /\ len < f.mod
  BY <1>1, <1>b
<1>w. w = IF first THEN h \o g ELSE h
  BY DEF encode_header
<1>d. d = Aligned3(base94_decimal_encode((len + f.kf_mod) % f.mod))
  OBVIOUS
<1> HIDE DEF d
<1>3. PICK y : IsAligned(d, y) /\ decode_length(f, d) = Ok(len)
  BY <1>0, <1>2, <1>d, LengthDecoded
<1>4. IsSimple(h, d, k, fill)
  BY <1>3, SimpleHeader
<1> HIDE DEF h
<1>5. ASSUME NEW v, v[1] = h[1], v[2] = h[2], v[3] = h[3], v[4] = h[4]
      PROVE  decode_length(f, restore_header(v)) = Ok(len)
  <2>1. /\ v[1] = SeedByte(k, d[1] = Zero) /\ v[2] = (IF d[1] = Zero THEN fill ELSE d[1])
        /\ v[3] = d[3] /\ v[4] = d[2]
    BY <1>4, <1>5 DEF IsSimple
  <2>2. restore_header(v) = d
    BY <2>1, <1>3, Restored
  <2> QED BY <2>2, <1>3
<1>6. h \in Seq(Nat) /\ Len(h) >= 4 /\ Len(h) <= 4
  BY <1>4 DEF IsSimple
<1>l. Len(h) \in Nat /\ Len(h) = 4
  BY <1>6, LenProperties, Squeeze
<1>7. check_bound(len) = Ok(len)
  BY DEF check_bound
<1>8. CASE first = FALSE
  <2>1. w = h
    BY <1>8, <1>w
  <2> DEFINE L == decode_length(f, restore_header(w))
             C == decode_length(f, unshuffle(SubSeq(w, 5, 7), Word(f.kf)))
             X == Ok(xor32(inet_chksum(SubSeq(w, 1, 4)), L.value))
  <2>2. L = Ok(len)
    BY <2>1, <1>5
  <2>4. L # Error /\ L.value = len
    BY <2>2 DEF Ok, Error
  <2>5. decode_header(f, first, w) = IF L = Error THEN Error
                                     ELSE IF first /\ C # X THEN Error ELSE check_bound(L.value)
    BY DEF decode_header
  <2> HIDE DEF L, C, X
  <2>3. decode_header(f, first, w) = check_bound(len)
    BY <2>4, <2>5, <1>8
  <2> QED BY <2>1, <2>3, <1>6, <1>l, <1>7, <1>8 DEF HeaderLen, HEADER_SIMPLE
<1>9. CASE first = TRUE
  <2>0. w = h \o g
    BY <1>9, <1>w
  <2> DEFINE s == inet_chksum(h)
  <2>1. s \in Nat /\ s < 65536
    <3>1. 1 \in 1..Len(h) /\ 2 \in 1..Len(h) /\ 3 \in 1..Len(h) /\ 4 \in 1..Len(h)
      BY <1>l
    <3>2. h[1] \in Nat /\ h[2] \in Nat /\ h[3] \in Nat /\ h[4] \in Nat
      BY <3>1, <1>6, ElementOfSeq
    <3>3. h[1] < 256 /\ h[2] < 256 /\ h[3] < 256 /\ h[4] < 256
      BY <1>4 DEF IsSimple
    <3> QED BY <3>2, <3>3, ChecksumRange
  <2>c. chk = xor32(s, len)
    OBVIOUS
  <2> HIDE DEF s
  <2>2. chk \in Nat /\ chk < f.mod
    <3>1. len < 262144
      BY <1>2, ModBounds
    <3>2. xor32(s, len) \in Nat /\ xor32(s, len) < 262144
      BY <3>1, <2>1, <1>2, Xor32Small
    <3> HIDE DEF chk
    <3>3. chk \in Nat /\ chk < 262144
      BY <3>2, <2>c
    <3> QED BY <3>3, <1>1, ModBounds
  <2>d. c = Aligned3(base94_decimal_encode((chk + f.kf_mod) % f.mod))
    OBVIOUS
  <2> HIDE DEF chk, c
  <2>3. PICK z : IsAligned(c, z) /\ decode_length(f, c) = Ok(chk)
    BY <1>0, <2>2, <2>d, LengthDecoded
  <2>4. c \in Seq(Nat) /\ Len(c) >= 3 /\ Len(c) <= 3
    BY <2>3 DEF IsAligned
  <2> DEFINE n == Len(c)
  <2>5. n \in Nat /\ c \in [1..n -> Nat] /\ n >= 3 /\ n <= 3
    BY <2>4, LenProperties
  <2>k. key \in Words
    BY <1>1, WordTyped
  <2> HIDE DEF n, key
  <2>6. g \in [1..n -> Nat]
    BY <2>5, <2>k, ShuffleLossless
  <2>7. unshuffle(g, key) = c
    BY <2>5, <2>k, ShuffleLossless
  <2> HIDE DEF g
  <2>8. g \in Seq(Nat) /\ Len(g) >= 3 /\ Len(g) <= 3
    BY <2>5, <2>6, FunSeq
  <2>9. /\ w \in Seq(Nat) /\ Len(w) = 7
        /\ SubSeq(w, 1, 4) = h /\ SubSeq(w, 5, 7) = g
    <3>1. h \o g \in Seq(Nat) /\ Len(h \o g) = 7
      BY <1>6, <2>8, SevenBytes
    <3>2. SubSeq(h \o g, 1, 4) = h /\ SubSeq(h \o g, 5, 7) = g
      BY <1>6, <2>8, SevenBytes, SMTT(30)
    <3> QED BY <3>1, <3>2, <2>0
  <2>10. w[1] = h[1] /\ w[2] = h[2] /\ w[3] = h[3] /\ w[4] = h[4]
    <3>1. \A i \in 1..4 : (h \o g)[i] = h[i]
      BY <1>6, <2>8, SevenBytes
    <3>2. \A i \in 1..4 : w[i] = h[i]
      BY <3>1, <2>0
    <3> QED BY <3>2
  <2>11. decode_length(f, restore_header(w)) = Ok(len)
    BY <2>10, <1>5
  <2>12. decode_header(f, first, w) = Ok(len)
    <3> DEFINE L == decode_length(f, restore_header(w))
               C == decode_length(f, unshuffle(SubSeq(w, 5, 7), Word(f.kf)))
               X == Ok(xor32(inet_chksum(SubSeq(w, 1, 4)), L.value))
    <3>1. decode_header(f, first, w) = IF L = Error THEN Error
                                       ELSE IF first /\ C # X THEN Error ELSE check_bound(L.value)
      BY DEF decode_header
    <3>2. C = Ok(chk)
      <4>1. unshuffle(SubSeq(w, 5, 7), Word(f.kf)) = c
        BY <2>7, <2>9 DEF key
      <4> QED BY <4>1, <2>3
    <3>3. L # Error /\ L.value = len
      <4>1. L = Ok(len)
        BY <2>11
      <4> QED BY <4>1 DEF Ok, Error
    <3>4. X = Ok(chk)
      BY <3>3, <2>9, <2>c DEF s
    <3> HIDE DEF L, C, X
    <3> QED BY <3>1, <3>2, <3>3, <3>4, <1>7
  <2> QED BY <2>9, <2>12, <1>9 DEF HeaderLen, HEADER_EXTENDED
<1> QED BY <1>8, <1>9

\* Its bytes are numbers.
LEMMA Base94Typed ==
    ASSUME NEW j \in Base94Job, NEW w, w = encode_header(Framer(j.kf), j.value, j.first, j.k, j.fill)
    PROVE  w \in Seq(Nat) /\ Len(w) > 0
<1> DEFINE kf == j.kf  len == j.value  first == j.first  f == Framer(j.kf)  k == j.k  fill == j.fill
<1>1. /\ kf \in Int /\ len \in 1..BASE94_MAX_FRAME /\ first \in BOOLEAN
      /\ k \in Printable /\ fill \in Printable
  BY DEF Base94Job
<1>w. f = Framer(kf) /\ w = encode_header(f, len, first, k, fill)
  OBVIOUS
<1> HIDE DEF kf, len, first, f, k, fill
<1>2. w \in Seq(Nat)
  BY <1>1, <1>w, Base94Header
<1>3. Len(w) = HeaderLen(first)
  BY <1>1, <1>w, Base94Header
<1>4. HeaderLen(first) > 0
  BY <1>1 DEF HeaderLen, HEADER_EXTENDED, HEADER_SIMPLE
<1> QED BY <1>2, <1>3, <1>4

\* A base94 frame is announced with its length, and waited for until its
\* header is there.
LEMMA Base94Carried ==
    ASSUME NEW j \in Base94Job, NEW w, w = encode_header(Framer(j.kf), j.value, j.first, j.k, j.fill),
           NEW s \in Seq(Nat), FrontOf(s, w)
    PROVE  /\ w \in Seq(Nat) /\ Len(w) > 0
           /\ s = w => peek_frame_len(Framer(j.kf), j.first, s) = Ok(Len(w) + j.value)
           /\ Len(s) < Len(w) => peek_frame_len(Framer(j.kf), j.first, s) = More
<1> DEFINE kf == j.kf  len == j.value  first == j.first  f == Framer(j.kf)
           header == IF first THEN HEADER_EXTENDED ELSE HEADER_SIMPLE
<1>1. /\ kf \in Int /\ len \in 1..BASE94_MAX_FRAME /\ first \in BOOLEAN
      /\ j.k \in Printable /\ j.fill \in Printable
  BY DEF Base94Job
<1>f. f = Framer(kf)
  OBVIOUS
<1>w. w = encode_header(f, len, first, j.k, j.fill)
  OBVIOUS
<1>v. j.value = len /\ j.first = first /\ Framer(j.kf) = f
  OBVIOUS
<1> HIDE DEF kf, len, first, f
<1> DEFINE k == j.k  fill == j.fill
<1>k. k \in Printable /\ fill \in Printable /\ w = encode_header(f, len, first, k, fill)
  BY <1>1, <1>w
<1> HIDE DEF k, fill
<1>2. w \in Seq(Nat)
  BY <1>1, <1>k, <1>f, Base94Header
<1>22. Len(w) = HeaderLen(first)
  BY <1>1, <1>k, <1>f, Base94Header
<1>3. decode_header(f, first, w) = Ok(len)
  BY <1>1, <1>k, <1>f, Base94Header
<1>4. header \in Nat /\ header > 0 /\ Len(w) = header
  BY <1>22, <1>1 DEF HeaderLen, HEADER_EXTENDED, HEADER_SIMPLE
<1>p. ASSUME NEW b
      PROVE  peek_frame_len(f, first, b) =
                 LET l == decode_header(f, first, b)
                 IN IF Len(b) < header THEN More
                    ELSE IF l = Error THEN Error ELSE Ok(header + l.value)
  BY DEF peek_frame_len
<1> HIDE DEF header
<1>5. ASSUME s = w PROVE peek_frame_len(f, first, s) = Ok(Len(w) + len)
  <2> DEFINE l == decode_header(f, first, s)
  <2>1. l # Error /\ l.value = len
    BY <1>3, <1>5 DEF Ok, Error
  <2>2. peek_frame_len(f, first, s) = IF Len(s) < header THEN More
                                      ELSE IF l = Error THEN Error ELSE Ok(header + l.value)
    BY <1>p
  <2> HIDE DEF l
  <2>3. ~(Len(s) < header)
    BY <1>4, <1>5
  <2> QED BY <2>1, <2>2, <2>3, <1>4
<1>6. ASSUME Len(s) < Len(w) PROVE peek_frame_len(f, first, s) = More
  BY <1>4, <1>6, <1>p
<1> QED BY <1>2, <1>4, <1>5, <1>6, <1>v

----------------------------------------------------------------------------
(* Session ids *)

\* A key applied again after three others takes itself off.
LEMMA XorCancels ==
    ASSUME NEW x \in Byte, NEW k \in Byte, NEW p \in Byte, NEW q \in Byte, NEW r \in Byte
    PROVE  xor8(xor8(xor8(xor8(xor8(x, k), p), q), r), k) = xor8(xor8(xor8(x, p), q), r)
<1> DEFINE a == xor8(x, k)  b == xor8(a, p)  c == xor8(b, q)
           s == xor8(x, p)  t == xor8(s, q)
<1>1. a \in Byte /\ xor8(a, k) = x
  BY XorByte
<1> HIDE DEF a
<1>2. b \in Byte /\ xor8(b, k) = xor8(xor8(a, k), p)
  BY <1>1, XorByte
<1>22. xor8(b, k) = s
  BY <1>1, <1>2
<1>s. s \in Byte
  BY XorByte
<1> HIDE DEF b, s
<1>3. c \in Byte /\ xor8(c, k) = xor8(xor8(b, k), q)
  BY <1>2, XorByte
<1>33. xor8(c, k) = t
  BY <1>3, <1>22
<1> HIDE DEF c, t
<1>4. xor8(xor8(c, r), k) = xor8(xor8(c, k), r)
  BY <1>3, XorByte
<1>5. xor8(xor8(c, r), k) = xor8(t, r)
  BY <1>4, <1>33
<1> QED BY <1>5 DEF a, b, c, s, t

\* The four rounds undo themselves, in the order they were applied.
LEMMA FourKeys ==
    ASSUME NEW x \in Byte, NEW k1 \in Byte, NEW k2 \in Byte, NEW k3 \in Byte, NEW k4 \in Byte,
           NEW y, y = xor8(xor8(xor8(xor8(x, k1), k2), k3), k4)
    PROVE  y \in Byte /\ xor8(xor8(xor8(xor8(y, k1), k2), k3), k4) = x
<1> DEFINE a == xor8(x, k1)  b == xor8(a, k2)  c == xor8(b, k3)
<1>1. a \in Byte
  BY XorByte
<1> HIDE DEF a
<1>2. b \in Byte
  BY <1>1, XorByte
<1> HIDE DEF b
<1>3. c \in Byte
  BY <1>2, XorByte
<1> HIDE DEF c
<1>4. xor8(c, k4) \in Byte /\ y = xor8(c, k4)
  BY <1>3, XorByte DEF a, b, c
<1>5. xor8(y, k1) = xor8(xor8(xor8(x, k2), k3), k4)
  BY XorCancels
<1> DEFINE d == xor8(x, k3)  e == xor8(x, k4)
<1>6. d \in Byte /\ e \in Byte /\ xor8(e, k4) = x
  BY XorByte
<1>7. xor8(xor8(xor8(x, k2), k3), k2) = d
  <2>1. xor8(x, k2) \in Byte /\ xor8(xor8(x, k2), k2) = x
    BY XorByte
  <2> DEFINE g == xor8(x, k2)
  <2>2. g \in Byte /\ xor8(g, k2) = x
    BY <2>1
  <2> HIDE DEF g
  <2>3. xor8(xor8(g, k3), k2) = xor8(xor8(g, k2), k3)
    BY <2>2, XorByte
  <2>4. xor8(xor8(g, k3), k2) = d
    BY <2>3, <2>2
  <2> QED BY <2>4 DEF g
<1>8. xor8(xor8(y, k1), k2) = xor8(d, k4)
  <2> DEFINE g == xor8(xor8(x, k2), k3)
  <2>1. xor8(x, k2) \in Byte
    BY XorByte
  <2>2. g \in Byte
    BY <2>1, XorByte
  <2>3. xor8(y, k1) = xor8(g, k4) /\ xor8(g, k2) = d
    BY <1>5, <1>7
  <2> HIDE DEF g, d
  <2>4. xor8(xor8(g, k4), k2) = xor8(xor8(g, k2), k4)
    BY <2>2, XorByte
  <2> QED BY <2>3, <2>4
<1>9. xor8(xor8(d, k4), k3) = e
  <2>1. xor8(d, k3) = x
    BY XorByte
  <2> HIDE DEF d
  <2>2. xor8(xor8(d, k4), k3) = xor8(xor8(d, k3), k4)
    BY <1>6, XorByte
  <2> QED BY <2>1, <2>2
<1>10. xor8(xor8(xor8(y, k1), k2), k3) = e
  BY <1>8, <1>9
<1> HIDE DEF e
<1> QED BY <1>4, <1>6, <1>10

\* Packing and unpacking a session id apply the same rounds.
LEMMA RoundsTwice ==
    ASSUME NEW kf \in Int, NEW kfs, kfs[1] \in Byte, kfs[2] \in Byte, kfs[3] \in Byte, kfs[4] \in Byte,
           NEW n \in Nat, NEW b \in [1..n -> Byte], NEW r, r = Rounds(b, kf, kfs)
    PROVE  r \in [1..n -> Byte] /\ Rounds(r, kf, kfs) = b
<1> DEFINE k1 == xor8(LowByte(Word(kf)), kfs[1])
           k2 == xor8(k1, kfs[2])
           k3 == xor8(k2, kfs[3])
           k4 == xor8(k3, kfs[4])
           R(x) == xor8(xor8(xor8(xor8(x, k1), k2), k3), k4)
<1>0. LowByte(Word(kf)) \in Byte
  BY WordTyped, LowByteTyped
<1>1. ASSUME NEW c PROVE Rounds(c, kf, kfs) = [i \in DOMAIN c |-> R(c[i])]
  BY DEF Rounds
<1>2. k1 \in Byte
  BY <1>0, XorByte
<1> HIDE DEF k1
<1>3. k2 \in Byte
  BY <1>2, XorByte
<1> HIDE DEF k2
<1>4. k3 \in Byte
  BY <1>3, XorByte
<1> HIDE DEF k3
<1>5. k4 \in Byte
  BY <1>4, XorByte
<1> HIDE DEF k4
<1>6. ASSUME NEW x \in Byte PROVE R(x) \in Byte /\ R(R(x)) = x
  BY <1>2, <1>3, <1>4, <1>5, FourKeys
<1> HIDE DEF R
<1>7. r = [i \in 1..n |-> R(b[i])]
  BY <1>1
<1>8. r \in [1..n -> Byte]
  BY <1>6, <1>7
<1>9. Rounds(r, kf, kfs) = [i \in 1..n |-> R(r[i])]
  BY <1>1, <1>8
<1>10. ASSUME NEW i \in 1..n PROVE R(r[i]) = b[i]
  BY <1>6, <1>7
<1>11. Rounds(r, kf, kfs) = [i \in 1..n |-> b[i]]
  BY <1>9, <1>10
<1> QED BY <1>8, <1>11

\* The characters of a number.
IsDecimal(e, m, v) ==
    /\ e \in [1..m -> 48..57]
    /\ FromDigits([i \in 1..m |-> e[i] - 48], 10) = v

\* append_decimal writes every session id within its buffer.
LEMMA DecimalWritten ==
    ASSUME NEW v \in Nat, v <= MaxId
    PROVE  \E m \in 1..DecimalLen : IsDecimal(append_decimal(v), m, v)
<1> DEFINE d == ToDigits(v, 10, DecimalLen)  e == append_decimal(v)
           q == Quotients(v, 10, DecimalLen)  z == Quotients(MaxId, 10, DecimalLen)
<1>1. /\ MaxId \in Nat /\ DecimalLen \in Nat /\ DecimalLen > 0 /\ z[DecimalLen] = 0
  BY DecimalAssumption
<1>2. DecimalLen \in 0..DecimalLen
  BY <1>1
<1>3. q[DecimalLen] <= z[DecimalLen]
  BY <1>1, <1>2, QuotientsMonotone
<1>4. q \in [0..DecimalLen -> Nat]
  <2> DEFINE ten == 10
  <2>1. ten \in Nat /\ ten > 0 /\ q = Quotients(v, ten, DecimalLen)
    OBVIOUS
  <2> HIDE DEF ten, q
  <2>2. Quotients(v, ten, DecimalLen) \in [0..DecimalLen -> Nat]
    BY <1>1, <2>1, QuotientsDef
  <2> QED BY <2>1, <2>2
<1>5. q[DecimalLen] = 0
  BY <1>1, <1>2, <1>3, <1>4
<1>6. PICK m \in 1..DecimalLen : AreDigits(d, m, v, 10, DecimalLen)
  BY <1>1, <1>5, ToDigitsFacts
<1>7. FromDigits(d, 10) = v
  <2>1. m \in Nat /\ m <= DecimalLen
    BY <1>1
  <2> QED BY <2>1, <1>1, <1>6, FromDigitsOf
<1>8. d \in [1..m -> 0..9]
  <2>1. d \in [1..m -> 0..(10 - 1)]
    BY <1>6 DEF AreDigits
  <2> QED BY <2>1
<1>9. e = [i \in 1..m |-> d[i] + 48]
  BY <1>8 DEF append_decimal
<1> HIDE DEF d, e
<1>10. ASSUME NEW i \in 1..m PROVE e[i] \in 48..57 /\ e[i] - 48 = d[i]
  <2>1. d[i] \in 0..9
    BY <1>8
  <2>2. e[i] = d[i] + 48
    BY <1>9
  <2> QED BY <2>1, <2>2
<1>11. e \in [1..m -> 48..57]
  BY <1>9, <1>10
<1>12. [i \in 1..m |-> e[i] - 48] = d
  BY <1>8, <1>10
<1>13. IsDecimal(e, m, v)
  BY <1>7, <1>11, <1>12 DEF IsDecimal
<1> QED BY <1>13 DEF e

\* The run of digits ends at the first character that is none.
LEMMA DigitRunOf ==
    ASSUME NEW S, NEW body \in Seq(S), NEW m \in Nat, m < Len(body),
           \A i \in 1..m : body[i] \in 48..57, body[m + 1] \notin 48..57
    PROVE  DigitRun(body) = m
<1> DEFINE D == 48..57
           stop == {i \in DOMAIN body : body[i] \notin D} \cup {Len(body) + 1}
           First(i) == \A j \in stop : i <= j
<1>0. DigitRun(body) = (CHOOSE i \in stop : First(i)) - 1
  BY DEF DigitRun
<1>d. (\A i \in 1..m : body[i] \in D) /\ body[m + 1] \notin D
  OBVIOUS
<1> HIDE DEF D
<1>1. DOMAIN body = 1..Len(body) /\ Len(body) \in Nat
  BY LenProperties
<1>2. m + 1 \in stop
  BY <1>1, <1>d
<1>3. ASSUME NEW i \in stop PROVE i \in Nat /\ m + 1 <= i
  BY <1>1, <1>d
<1>4. First(m + 1)
  BY <1>3
<1>5. ASSUME NEW i \in stop, First(i) PROVE i = m + 1
  <2>1. i <= m + 1
    BY <1>2, <1>5
  <2>2. i \in Nat /\ m + 1 <= i
    BY <1>3
  <2> QED BY <2>1, <2>2
<1> HIDE DEF stop, First
<1> DEFINE c == CHOOSE i \in stop : First(i)
<1>6. c = m + 1
  BY <1>2, <1>4, <1>5
<1>7. DigitRun(body) = c - 1
  BY <1>0
<1> HIDE DEF c
<1> QED BY <1>6, <1>7

\* A concatenation comes apart where it was joined.
LEMMA ConcatSplit ==
    ASSUME NEW S, NEW s \in Seq(S), NEW t \in Seq(S), NEW m \in Nat, m > 0, NEW n \in Nat, n > 0,
           Len(s) = m, Len(t) = n
    PROVE  SubSeq(s \o t, 1, m) = s /\ SubSeq(s \o t, m + 1, m + n) = t
<1>1. SubSeq(s \o t, 1, Len(s)) = SubSeq(s, 1, Len(s))
  <2>1. 1 \in 1..Len(s) /\ Len(s) \in 1..Len(s)
    OBVIOUS
  <2> QED BY <2>1, SubSeqOfConcat1
<1>2. SubSeq(s, 1, Len(s)) = s /\ SubSeq(t, 1, Len(t)) = t
  BY SubSeqFull
<1>3. SubSeq(s \o t, m + 1, m + n) = SubSeq(t, (m + 1) - Len(s), (m + n) - Len(s))
  <2>1. m + 1 \in (Len(s) + 1)..(Len(s) + Len(t)) /\ m + n \in (Len(s) + 1)..(Len(s) + Len(t))
    OBVIOUS
  <2> QED BY <2>1, SubSeqOfConcat2, SMTT(30)
<1>4. (m + 1) - Len(s) = 1 /\ (m + n) - Len(s) = Len(t)
  OBVIOUS
<1> QED BY <1>1, <1>2, <1>3, <1>4

\* w is s, of length m, followed by t, of length n.
IsJoin(w, S, s, m, t, n) ==
    /\ w \in Seq(S) /\ Len(w) = m + n
    /\ \A i \in 1..m : w[i] = s[i]
    /\ \A i \in 1..n : w[m + i] = t[i]

\* A concatenation is that.
LEMMA Joined ==
    ASSUME NEW S, NEW s \in Seq(S), NEW t \in Seq(S), NEW m \in Nat, NEW n \in Nat,
           Len(s) = m, Len(t) = n, NEW w, w = s \o t
    PROVE  IsJoin(w, S, s, m, t, n)
<1>1. s \o t \in Seq(S) /\ Len(s \o t) = m + n
  BY ConcatParts
<1>2. \A i \in 1..m : (s \o t)[i] = s[i]
  BY ConcatParts
<1>3. ASSUME NEW i \in 1..n PROVE (s \o t)[m + i] = t[i]
  <2>1. \A k \in 1..(Len(s) + Len(t)) : (s \o t)[k] = IF k <= Len(s) THEN s[k] ELSE t[k - Len(s)]
    BY ConcatProperties
  <2>2. m + i \in 1..(Len(s) + Len(t)) /\ ~(m + i <= Len(s)) /\ (m + i) - Len(s) = i
    OBVIOUS
  <2> QED BY <2>1, <2>2
<1> QED BY <1>1, <1>2, <1>3 DEF IsJoin

\* The body of a session packet: a number, the separator, the padding.
IsIdBody(b, n, m, v) ==
    /\ n \in Nat /\ m \in Nat /\ m > 0 /\ m < n
    /\ b \in [1..n -> Byte]
    /\ DigitRun(b) = m
    /\ FromDigits([i \in 1..m |-> b[i] - 48], 10) = v

\* What the decoder finds in the body is the number written there, whatever
\* digits the padding holds.
LEMMA IdBody ==
    ASSUME NEW v \in Nat, v <= MaxId, NEW sep \in 32..47, NEW pad \in Seq(Byte),
           NEW b, b = append_decimal(v) \o <<sep>> \o pad
    PROVE  \E n, m : IsIdBody(b, n, m, v)
<1> DEFINE e == append_decimal(v)  x == e \o <<sep>>  l == Len(pad)  D == 48..57
<1>1. PICK m \in 1..DecimalLen : IsDecimal(e, m, v)
  BY DecimalWritten
<1>m. m \in Nat /\ m > 0 /\ m + 1 \in Nat
  BY DecimalAssumption
<1>2. e \in [1..m -> D] /\ FromDigits([i \in 1..m |-> e[i] - 48], 10) = v
  BY <1>1 DEF IsDecimal
<1>d1. sep \in Byte
  BY ByteRange
<1>d2. sep \notin D
  OBVIOUS
<1>d3. ASSUME NEW c \in D PROVE c \in Byte
  <2>1. c \in Nat /\ c < 256
    OBVIOUS
  <2> QED BY <2>1, ByteRange
<1>d. sep \in Byte /\ sep \notin D /\ \A c \in D : c \in Byte
  BY <1>d1, <1>d2, <1>d3
<1>l. l \in Nat /\ Len(pad) = l
  BY LenProperties
<1>b. b = x \o pad
  OBVIOUS
<1> DEFINE o == <<sep>>
<1>o. o \in Seq(Byte) /\ Len(o) = 1 /\ o[1] = sep /\ x = e \o o
  BY <1>d
<1> HIDE DEF D, e, l, x, o
<1>3. e \in Seq(Byte) /\ Len(e) = m
  <2>1. e \in [1..m -> Byte]
    BY <1>2, <1>d
  <2> QED BY <2>1, <1>m, FunSeq
<1>j. IsJoin(x, Byte, e, m, o, 1)
  <2> DEFINE one == 1
  <2>1. one \in Nat /\ Len(o) = one
    BY <1>o
  <2> HIDE DEF one
  <2>2. IsJoin(x, Byte, e, m, o, one)
    BY <2>1, <1>3, <1>m, <1>o, Joined
  <2> QED BY <2>2 DEF one
<1>4. x \in Seq(Byte) /\ Len(x) = m + 1 /\ \A i \in 1..m : x[i] = e[i]
  BY <1>j DEF IsJoin
<1>6. x[m + 1] = sep
  BY <1>j, <1>o DEF IsJoin
<1> DEFINE n == (m + 1) + l
<1>k. IsJoin(b, Byte, x, m + 1, pad, l)
  BY <1>4, <1>m, <1>l, <1>b, Joined
<1>7. b \in Seq(Byte) /\ Len(b) = n
  BY <1>k DEF IsJoin
<1>8. \A i \in 1..(m + 1) : b[i] = x[i]
  BY <1>k DEF IsJoin
<1>9. n \in Nat /\ m < n /\ m + 1 \in 1..(m + 1)
  BY <1>m, <1>l
<1> HIDE DEF n
<1>10. b \in [1..n -> Byte]
  BY <1>7, <1>9, LenProperties
<1>11. \A i \in 1..m : b[i] = e[i] /\ b[i] \in D
  <2> TAKE i \in 1..m
  <2>1. i \in 1..(m + 1)
    BY <1>m
  <2>2. b[i] = e[i]
    BY <2>1, <1>4, <1>8
  <2> QED BY <2>2, <1>2
<1>12. b[m + 1] \notin D
  BY <1>6, <1>8, <1>9, <1>d
<1>13. DigitRun(b) = m
  <2>1. m < Len(b)
    BY <1>7, <1>9
  <2>2. (\A i \in 1..m : b[i] \in 48..57) /\ b[m + 1] \notin 48..57
    BY <1>11, <1>12 DEF D
  <2> QED BY <2>1, <2>2, <1>7, <1>m, DigitRunOf
<1>14. [i \in 1..m |-> b[i] - 48] = [i \in 1..m |-> e[i] - 48]
  BY <1>11
<1>15. IsIdBody(b, n, m, v)
  BY <1>2, <1>9, <1>10, <1>13, <1>14, <1>m DEF IsIdBody
<1> QED BY <1>15

\* What a packet that announces id is to its reader.
PacketFor(id) == IF id = 0 THEN Dummy ELSE Session(id)

\* A session id comes out of its packet, and a dummy as a dummy.
LEMMA IdCarried ==
    ASSUME NEW j \in IdJob, NEW w, w = pack_session_id(j.kf, j.kfs, j.value, j.noise, j.sep, j.pad)
    PROVE  w \in Seq(Byte) /\ Len(w) > 0 /\ unpack_session_id(j.kf, w) = Ok(PacketFor(j.value))
<1> DEFINE kf == j.kf  kfs == j.kfs  id == j.value  noise == j.noise  sep == j.sep  pad == j.pad
           v == IF id = 0 THEN noise ELSE id
           b == append_decimal(v) \o <<sep>> \o pad
           r == Rounds(b, kf, kfs)
<1>1. /\ kf \in Int /\ kfs \in [1..4 -> Byte] /\ id \in 0..MaxId /\ noise \in 1..MaxId
      /\ sep \in 32..47 /\ pad \in Seq(Byte)
  BY DEF IdJob
<1>2. id = 0 <=> kfs[1] >= 128
  BY DEF IdJob
<1>v. v \in Nat /\ v <= MaxId /\ (id # 0 => v = id)
  BY <1>1, DecimalAssumption
<1>w. w = kfs \o r
  BY DEF pack_session_id
<1>j. j.kf = kf /\ j.value = id
  OBVIOUS
<1>b. b = append_decimal(v) \o <<sep>> \o pad
  OBVIOUS
<1> HIDE DEF kf, kfs, id, noise, sep, pad, v, b
<1>3. PICK n, m : IsIdBody(b, n, m, v)
  BY <1>1, <1>v, <1>b, IdBody
<1>4. /\ n \in Nat /\ m \in Nat /\ m > 0 /\ m < n /\ b \in [1..n -> Byte] /\ DigitRun(b) = m
      /\ FromDigits([i \in 1..m |-> b[i] - 48], 10) = v
  BY <1>3 DEF IsIdBody
<1>5. kfs[1] \in Byte /\ kfs[2] \in Byte /\ kfs[3] \in Byte /\ kfs[4] \in Byte
  BY <1>1
<1>r. r = Rounds(b, kf, kfs)
  OBVIOUS
<1> HIDE DEF r
<1>6. r \in [1..n -> Byte] /\ Rounds(r, kf, kfs) = b
  <2>k. kf \in Int /\ n \in Nat /\ b \in [1..n -> Byte]
    BY <1>1, <1>4
  <2>1. r \in [1..n -> Byte]
    BY <2>k, <1>5, <1>r, RoundsTwice
  <2>2. Rounds(r, kf, kfs) = b
    BY <2>k, <1>5, <1>r, RoundsTwice
  <2> QED BY <2>1, <2>2
<1>7. r \in Seq(Byte) /\ Len(r) = n
  BY <1>4, <1>6, FunSeq
<1>8. kfs \in Seq(Byte) /\ Len(kfs) = 4
  BY <1>1, FunSeq
<1> DEFINE four == 4
<1>f. four \in Nat /\ four > 0 /\ Len(kfs) = four /\ n > 0
  BY <1>4, <1>8
<1>k. IsJoin(w, Byte, kfs, four, r, n)
  <2> HIDE DEF four
  <2> QED BY <1>4, <1>7, <1>8, <1>f, <1>w, Joined
<1>9. w \in Seq(Byte) /\ Len(w) = four + n
  BY <1>k DEF IsJoin
<1>10. \A i \in 1..four : w[i] = kfs[i]
  BY <1>k DEF IsJoin
<1>11. SubSeq(w, 1, four) = kfs /\ SubSeq(w, four + 1, four + n) = r
  <2> HIDE DEF four
  <2>1. SubSeq(kfs \o r, 1, four) = kfs /\ SubSeq(kfs \o r, four + 1, four + n) = r
    BY <1>4, <1>7, <1>8, <1>f, ConcatSplit, SMTT(30)
  <2> QED BY <2>1, <1>w
<1>12. SubSeq(w, 1, 4) = kfs /\ SubSeq(w, 5, Len(w)) = r /\ w[1] = kfs[1]
  <2>1. four = 4 /\ four + 1 = 5 /\ 1 \in 1..four
    OBVIOUS
  <2> HIDE DEF four
  <2> QED BY <2>1, <1>9, <1>10, <1>11
<1> DEFINE body == Rounds(SubSeq(w, 5, Len(w)), kf, SubSeq(w, 1, 4))
           got == FromDigits([i \in 1..DigitRun(body) |-> body[i] - 48], 10)
<1>13. unpack_session_id(kf, w) = IF Len(w) < 4 THEN Error
                                  ELSE IF w[1] >= 128 THEN Ok(Dummy)
                                  ELSE IF DigitRun(body) = 0 \/ got > MaxId THEN Error
                                  ELSE Ok(Session(got))
  BY DEF unpack_session_id
<1>14. body = b
  BY <1>6, <1>12
<1>15. DigitRun(body) = m /\ got = v
  BY <1>4, <1>14
<1> HIDE DEF body, got
<1>16. Len(w) > 0 /\ ~(Len(w) < 4)
  BY <1>4, <1>9
<1>17. MaxId \in Nat /\ ~(m = 0) /\ ~(v > MaxId)
  BY <1>4, <1>v, DecimalAssumption
<1>18. unpack_session_id(kf, w) = IF w[1] >= 128 THEN Ok(Dummy) ELSE Ok(Session(v))
  BY <1>13, <1>15, <1>16, <1>17
<1>19. unpack_session_id(kf, w) = Ok(PacketFor(id))
  BY <1>2, <1>12, <1>18, <1>v DEF PacketFor
<1> QED BY <1>9, <1>16, <1>19, <1>j

----------------------------------------------------------------------------
(* Every format *)

\* A varint is a string of numbers.
LEMMA VarintTyped ==
    ASSUME NEW v \in Nat, v <= MaxWord, NEW w, w = encode_varint(v)
    PROVE  w \in Seq(Nat) /\ Len(w) > 0
<1>1. PICK n \in 1..MaxVarint : IsVarint(w, n, v)
  BY VarintEncoded
<1>2. n \in Nat /\ n > 0
  BY VarintAssumption
<1>3. w \in [1..n -> Nat]
  BY <1>1 DEF IsVarint
<1> QED BY <1>2, <1>3, FunSeq

\* So is an OPEN frame.
LEMMA OpenTyped ==
    ASSUME NEW v \in Nat, v <= MaxWord, NEW a \in Addresses,
           NEW w, w = FrameHeader(OPEN, v) \o EncodeInto(a)
    PROVE  w \in Seq(Nat) /\ Len(w) > 0
<1> DEFINE e == encode_varint(v)  m == EncodeInto(a)
<1>1. PICK n \in 1..MaxVarint : IsVarint(e, n, v)
  BY VarintEncoded
<1>n. n \in Nat /\ n > 0
  BY VarintAssumption
<1>2. HoldsAddress(m, a)
  BY EncodeIntoShape
<1>3. m \in Seq(Byte) /\ e \in [1..n -> Nat]
  BY <1>1, <1>2 DEF HoldsAddress, IsVarint
<1>w. w = (<<OPEN>> \o e) \o m
  BY DEF FrameHeader
<1> HIDE DEF e, m
<1>4. OPEN \in Nat
  BY DEF OPEN
<1>5. IsFrame(w, OPEN, e, n, m)
  BY <1>3, <1>4, <1>w, <1>n, FrameParts
<1>6. w \in Seq(Nat) /\ Len(w) = 1 + n + Len(m) /\ Len(m) \in Nat
  BY <1>5, <1>3 DEF IsFrame
<1> QED BY <1>6, <1>n

\* A packet is a string of bytes.
LEMMA PacketTyped ==
    ASSUME NEW j \in PacketJob
    PROVE  PacketOf(j) \in Seq(Byte) /\ Len(PacketOf(j)) > 0
<1> DEFINE P == ProtocolOf(j)  T == TransportOf(j)  d == j.value  n == Len(j.value)
           kf == j.kf  seed == j.seed  flags == j.flags
           hkf == header_kf(kf, seed)
           h == header_encrypt(kf, seed, P, n)
           c == Encrypt(T, d)
           b == payload_obfuscate(c, flags, hkf, kf)
<1>1. /\ kf \in Int /\ seed \in Byte /\ d \in Seq(Byte) /\ n \in 1..PPP_BUFFER_SIZE
      /\ j.method \in {"cfb", "ctr", "chacha20"} /\ j.iv \in Nat /\ j.seq \in Nat
  BY DEF PacketJob
<1>2. P \in Ciphers /\ T \in Ciphers
  <2>1. j.iv + 1 \in Nat
    BY <1>1
  <2> QED BY <2>1, <1>1 DEF Ciphers, ProtocolOf, TransportOf
<1>3. n \in Nat /\ n > 0 /\ IsLength(n, (n - 1) \div 256, (n - 1) % 256)
  BY <1>1, FrameLength
<1>4. d \in [1..n -> Byte]
  BY <1>1, LenProperties
<1>w. PacketOf(j) = h \o b
  BY DEF PacketOf
<1> HIDE DEF P, T, d, n, kf, seed, flags
<1>5. hkf \in Words
  BY <1>1, HeaderKfTyped
<1> HIDE DEF hkf
<1>6. h \in Seq(Byte) /\ Len(h) = 3
  BY <1>1, <1>2, <1>3, HeaderLossless DEF hkf
<1> HIDE DEF h
<1>7. c \in [1..n -> Byte]
  BY <1>2, <1>3, <1>4, CipherLossless
<1> HIDE DEF c
<1>8. b \in [1..n -> Byte]
  BY <1>1, <1>3, <1>5, <1>7, PayloadLossless
<1> HIDE DEF b
<1>9. b \in Seq(Byte) /\ Len(b) = n
  BY <1>3, <1>8, FunSeq
<1>10. h \o b \in Seq(Byte)
  BY <1>6, <1>9, ConcatProperties
<1>11. Len(h \o b) = Len(h) + Len(b)
  BY <1>6, <1>9, ConcatProperties
<1> QED BY <1>3, <1>6, <1>9, <1>10, <1>11, <1>w

\* What the bytes of an encoding are.
Alphabet(j) == IF j.kind \in {"varint", "open", "base94"} THEN Nat ELSE Byte

\* r is what a decoder must make of the whole encoding w of job j.
ReadsWhole(j, w, r) ==
    /\ j.kind = "varint" => r = PrefixRead(j.value, Len(w))
    /\ j.kind = "open"   => r = Ok(<<j.stream, j.value>>)
    /\ j.kind = "base94" => r = Ok(Len(w) + j.value)
    /\ j.kind = "header" => r = Ok(j.value)
    /\ j.kind = "id"     => r = Ok(PacketFor(j.value))
    /\ j.kind = "packet" => r = Ok(j.value)

\* An encoding that is read back whole, of which no front is.
Carried(j) ==
    LET w == Encoded(j)
    IN /\ w \in Seq(Alphabet(j)) /\ Len(w) > 0
       /\ ReadsWhole(j, w, Decoded(j, w))
       /\ \A s \in Seq(Alphabet(j)) :
              (FrontOf(s, w) /\ Len(s) < Len(w) /\ j.kind # "id") => Decoded(j, s) \in {More, Error}

\* An encoding is a front of itself.
LEMMA FrontOfItself ==
    ASSUME NEW S, NEW w \in Seq(S)
    PROVE  FrontOf(w, w)
BY LenProperties DEF FrontOf

\* The length prefix of a bonded carrier.
LEMMA VarintJobCarried == ASSUME NEW j \in VarintJob PROVE Carried(j)
<1> DEFINE v == j.value  w == encode_varint(v)
<1>1. j.kind = "varint" /\ v \in 0..MaxWord
  BY DEF VarintJob
<1>2. v \in Nat /\ v <= MaxWord
  BY <1>1, VarintAssumption
<1>3. Encoded(j) = w /\ (\A s : Decoded(j, s) = peek_prefix(s)) /\ Alphabet(j) = Nat
  BY <1>1 DEF Encoded, Decoded, Alphabet
<1>v. j.value = v /\ w = encode_varint(v)
  OBVIOUS
<1> HIDE DEF v, w
<1>4. w \in Seq(Nat) /\ Len(w) > 0
  BY <1>2, <1>v, VarintTyped
<1>5. ReadsWhole(j, w, Decoded(j, w))
  <2>1. FrontOf(w, w)
    BY <1>4, FrontOfItself
  <2>2. peek_prefix(w) = PrefixRead(v, Len(w))
    BY <2>1, <1>2, <1>4, <1>v, VarintLossless
  <2> QED BY <2>2, <1>1, <1>3, <1>v DEF ReadsWhole
<1>6. ASSUME NEW s \in Seq(Nat), FrontOf(s, w), Len(s) < Len(w) PROVE Decoded(j, s) = More
  BY <1>2, <1>3, <1>6, <1>v, VarintLossless
<1> QED BY <1>3, <1>4, <1>5, <1>6 DEF Carried

\* The OPEN frame of a stream.
LEMMA OpenJobCarried == ASSUME NEW j \in OpenJob PROVE Carried(j)
<1> DEFINE v == j.stream  a == j.value  w == FrameHeader(OPEN, v) \o EncodeInto(a)
<1>1. j.kind = "open" /\ v \in 0..MaxWord /\ a \in Addresses
  BY DEF OpenJob
<1>2. v \in Nat /\ v <= MaxWord
  BY <1>1, VarintAssumption
<1>3. Encoded(j) = w /\ (\A s : Decoded(j, s) = OpenIn(s)) /\ Alphabet(j) = Nat
  BY <1>1 DEF Encoded, Decoded, Alphabet, OpenOf
<1>v. j.stream = v /\ j.value = a /\ w = FrameHeader(OPEN, v) \o EncodeInto(a)
  OBVIOUS
<1> HIDE DEF v, a, w
<1>4. w \in Seq(Nat) /\ Len(w) > 0
  BY <1>1, <1>2, <1>v, OpenTyped
<1>5. ReadsWhole(j, w, Decoded(j, w))
  <2>1. FrontOf(w, w)
    BY <1>4, FrontOfItself
  <2>2. OpenIn(w) = Ok(<<v, a>>)
    BY <2>1, <1>1, <1>2, <1>4, <1>v, OpenLossless, ZenonT(60)
  <2> QED BY <2>2, <1>1, <1>3, <1>v DEF ReadsWhole
<1>6. ASSUME NEW s \in Seq(Nat), FrontOf(s, w), Len(s) < Len(w) PROVE Decoded(j, s) = Error
  <2>1. OpenIn(s) = Error
    BY <1>1, <1>2, <1>6, <1>v, OpenLossless, ZenonT(60)
  <2> QED BY <2>1, <1>3
<1> QED BY <1>3, <1>4, <1>5, <1>6 DEF Carried

\* The header of a base94 frame.
LEMMA Base94JobCarried == ASSUME NEW j \in Base94Job PROVE Carried(j)
<1> DEFINE w == encode_header(Framer(j.kf), j.value, j.first, j.k, j.fill)
<1>1. j.kind = "base94"
  BY DEF Base94Job
<1>3. /\ Encoded(j) = w /\ Alphabet(j) = Nat
      /\ \A s : Decoded(j, s) = peek_frame_len(Framer(j.kf), j.first, s)
  BY <1>1 DEF Encoded, Decoded, Alphabet
<1>v. w = encode_header(Framer(j.kf), j.value, j.first, j.k, j.fill)
  OBVIOUS
<1> HIDE DEF w
<1>4. w \in Seq(Nat) /\ Len(w) > 0
  BY <1>v, Base94Typed
<1>5. ReadsWhole(j, w, Decoded(j, w))
  <2>1. FrontOf(w, w)
    BY <1>4, FrontOfItself
  <2>2. peek_frame_len(Framer(j.kf), j.first, w) = Ok(Len(w) + j.value)
    BY <2>1, <1>4, <1>v, Base94Carried
  <2> QED BY <2>2, <1>1, <1>3 DEF ReadsWhole
<1>6. ASSUME NEW s \in Seq(Nat), FrontOf(s, w), Len(s) < Len(w) PROVE Decoded(j, s) = More
  BY <1>3, <1>6, <1>v, Base94Carried
<1> QED BY <1>3, <1>4, <1>5, <1>6 DEF Carried

\* The header of a binary frame.
LEMMA HeaderJobCarried == ASSUME NEW j \in HeaderJob PROVE Carried(j)
<1> DEFINE w == header_encrypt(j.kf, j.seed, NoCipher, j.value)
<1>1. j.kind = "header"
  BY DEF HeaderJob
<1>2. Alphabet(j) = Byte
  BY <1>1 DEF Alphabet
<1>e. Encoded(j) = w
  BY <1>1 DEF Encoded
<1>3. ASSUME NEW s
      PROVE  Decoded(j, s) = IF Len(s) < 3 THEN More ELSE Ok(header_decrypt(j.kf, NoCipher, s).len)
  BY <1>1 DEF Decoded
<1>v. w = header_encrypt(j.kf, j.seed, NoCipher, j.value)
  OBVIOUS
<1> HIDE DEF w
<1>4. w \in Seq(Byte) /\ Len(w) = 3 /\ header_decrypt(j.kf, NoCipher, w).len = j.value
  BY <1>v, HeaderCarried
<1>5. ReadsWhole(j, w, Decoded(j, w))
  <2>0. Decoded(j, w) = IF Len(w) < 3 THEN More ELSE Ok(header_decrypt(j.kf, NoCipher, w).len)
    BY <1>3
  <2>1. Decoded(j, w) = Ok(j.value)
    BY <2>0, <1>4
  <2> QED BY <2>1, <1>1 DEF ReadsWhole
<1>6. ASSUME NEW s \in Seq(Byte), Len(s) < Len(w) PROVE Decoded(j, s) = More
  BY <1>3, <1>4, <1>6
<1> QED BY <1>2, <1>e, <1>4, <1>5, <1>6 DEF Carried

\* A whole binary frame.
LEMMA PacketJobCarried == ASSUME NEW j \in PacketJob PROVE Carried(j)
<1> DEFINE w == PacketOf(j)
<1>1. j.kind = "packet"
  BY DEF PacketJob
<1>3. Encoded(j) = w /\ (\A s : Decoded(j, s) = PacketIn(j, s)) /\ Alphabet(j) = Byte
  BY <1>1 DEF Encoded, Decoded, Alphabet
<1>v. w = PacketOf(j)
  OBVIOUS
<1>4. w \in Seq(Byte) /\ Len(w) > 0
  BY PacketTyped
<1> HIDE DEF w
<1>5. ReadsWhole(j, w, Decoded(j, w))
  <2>1. FrontOf(w, w)
    BY <1>4, FrontOfItself
  <2>2. PacketIn(j, w) = Ok(j.value)
    BY <2>1, <1>4, <1>v, PacketCarried
  <2> QED BY <2>2, <1>1, <1>3 DEF ReadsWhole
<1>6. ASSUME NEW s \in Seq(Byte), FrontOf(s, w), Len(s) < Len(w) PROVE Decoded(j, s) = More
  BY <1>3, <1>6, <1>v, PacketCarried
<1> QED BY <1>3, <1>4, <1>5, <1>6 DEF Carried

\* A session-id packet.
LEMMA IdJobCarried == ASSUME NEW j \in IdJob PROVE Carried(j)
<1> DEFINE w == pack_session_id(j.kf, j.kfs, j.value, j.noise, j.sep, j.pad)
<1>1. j.kind = "id"
  BY DEF IdJob
<1>3. Encoded(j) = w /\ (\A s : Decoded(j, s) = unpack_session_id(j.kf, s)) /\ Alphabet(j) = Byte
  BY <1>1 DEF Encoded, Decoded, Alphabet
<1>v. w = pack_session_id(j.kf, j.kfs, j.value, j.noise, j.sep, j.pad)
  OBVIOUS
<1> HIDE DEF w
<1>4. w \in Seq(Byte) /\ Len(w) > 0 /\ unpack_session_id(j.kf, w) = Ok(PacketFor(j.value))
  BY <1>v, IdCarried
<1>5. ReadsWhole(j, w, Decoded(j, w))
  BY <1>1, <1>3, <1>4 DEF ReadsWhole
<1> QED BY <1>1, <1>3, <1>4, <1>5 DEF Carried

\* Every job the model is given is carried.
LEMMA JobCarried == ASSUME NEW j \in Jobs PROVE Carried(j)
BY JobsAssumption, VarintJobCarried, OpenJobCarried, Base94JobCarried, HeaderJobCarried,
   PacketJobCarried, IdJobCarried DEF AllJobs

----------------------------------------------------------------------------
(* The specification *)

\* The wire holds nothing yet, the encoding of the job, or once cut a proper
\* front of it; a result is what the decoder makes of that wire.
CodecInv ==
    /\ job \in Jobs
    /\ ~cut => wire = <<>> \/ wire = Encoded(job)
    /\ cut => /\ wire \in Seq(Alphabet(job))
              /\ FrontOf(wire, Encoded(job)) /\ Len(wire) < Len(Encoded(job))
    /\ out # Pending => (wire # <<>> \/ cut) /\ out = Decoded(job, wire)

\* A cut leaves a front of the encoding.
LEMMA CutFront ==
    ASSUME NEW S, NEW w \in Seq(S), NEW n \in 0..(Len(w) - 1), NEW s, s = SubSeq(w, 1, n)
    PROVE  s \in Seq(S) /\ FrontOf(s, w) /\ Len(s) < Len(w)
<1>1. Len(w) \in Nat /\ n \in Nat /\ n < Len(w)
  BY LenProperties
<1>2. ASSUME NEW i \in 1..n PROVE w[i] \in S
  <2>1. i \in 1..Len(w)
    BY <1>1
  <2> QED BY <2>1, ElementOfSeq
<1>3. s \in Seq(S)
  BY <1>1, <1>2, SubSeqProperties
<1>4. Len(SubSeq(w, 1, n)) = IF 1 <= n THEN n - 1 + 1 ELSE 0
  BY <1>1, <1>2, SubSeqProperties
<1>5. \A i \in 1..(n - 1 + 1) : SubSeq(w, 1, n)[i] = w[1 + i - 1]
  BY <1>1, <1>2, SubSeqProperties
<1>6. Len(s) = n
  BY <1>1, <1>4
<1>7. ASSUME NEW i \in 1..n PROVE s[i] = w[i]
  <2>1. i \in 1..(n - 1 + 1) /\ 1 + i - 1 = i
    BY <1>1
  <2> QED BY <2>1, <1>5
<1> QED BY <1>1, <1>3, <1>6, <1>7 DEF FrontOf

\* Nothing is on the wire at first.
LEMMA CodecInitially == Init => CodecInv
BY DEF Init, CodecInv

\* Encoding, cutting and decoding keep the invariant.
LEMMA CodecStep == CodecInv /\ [Next]_vars => CodecInv'
<1> SUFFICES ASSUME CodecInv, [Next]_vars PROVE CodecInv'
  OBVIOUS
<1>0. Carried(job)
  BY JobCarried DEF CodecInv
<1> DEFINE w == Encoded(job)
<1>w. w \in Seq(Alphabet(job)) /\ Len(w) > 0
  BY <1>0 DEF Carried
<1>1. CASE EncodeJob
  BY <1>1 DEF EncodeJob, CodecInv
<1>2. CASE Cut
  <2>1. wire = w /\ ~cut /\ out = Pending
    BY <1>2 DEF Cut, CodecInv
  <2>2. PICK n \in 0..(Len(wire) - 1) : wire' = SubSeq(wire, 1, n)
    BY <1>2 DEF Cut
  <2>3. job' = job /\ cut' = TRUE /\ out' = out
    BY <1>2 DEF Cut
  <2> HIDE DEF w
  <2>4. wire' \in Seq(Alphabet(job)) /\ FrontOf(wire', w) /\ Len(wire') < Len(w)
    BY <2>1, <2>2, <1>w, CutFront
  <2>5. /\ wire' \in Seq(Alphabet(job'))
        /\ FrontOf(wire', Encoded(job')) /\ Len(wire') < Len(Encoded(job'))
    BY <2>3, <2>4 DEF w
  <2>6. job' \in Jobs /\ out' = Pending
    BY <2>1, <2>3 DEF CodecInv
  <2> QED BY <2>3, <2>5, <2>6 DEF CodecInv, Pending
<1>3. CASE DecodeJob
  BY <1>3 DEF DecodeJob, CodecInv
<1>4. CASE UNCHANGED vars
  BY <1>4 DEF vars, CodecInv
<1> QED BY <1>1, <1>2, <1>3, <1>4 DEF Next

\* The results of decoding, by the job's kind, follow from what is carried.
LEMMA CodecReads == CodecInv => FieldsLossless /\ PacketLossless /\ PrefixWaits
<1> SUFFICES ASSUME CodecInv PROVE FieldsLossless /\ PacketLossless /\ PrefixWaits
  OBVIOUS
<1>0. Carried(job)
  BY JobCarried DEF CodecInv
<1>1. ASSUME Whole PROVE ReadsWhole(job, wire, out)
  <2>1. wire = Encoded(job) /\ out = Decoded(job, wire)
    BY <1>1 DEF Whole, CodecInv
  <2> QED BY <2>1, <1>0 DEF Carried
<1>2. FieldsLossless
  BY <1>1 DEF FieldsLossless, ReadsWhole, PrefixRead, PacketFor
<1>3. PacketLossless
  BY <1>1 DEF PacketLossless, ReadsWhole
<1>4. ASSUME cut, out # Pending, job.kind # "id" PROVE out \in {More, Error}
  <2>1. /\ wire \in Seq(Alphabet(job)) /\ FrontOf(wire, Encoded(job))
        /\ Len(wire) < Len(Encoded(job)) /\ out = Decoded(job, wire)
    BY <1>4 DEF CodecInv
  <2> QED BY <2>1, <1>4, <1>0 DEF Carried
<1> QED BY <1>2, <1>3, <1>4 DEF PrefixWaits

\* The wire and the result are always those of the job.
THEOREM CodecInvariant == Spec => []CodecInv
BY CodecInitially, CodecStep, PTL DEF Spec

\* What goes through a field or a header comes out of it: every stream id,
\* length, target and session id, for every kf and every random choice of
\* encode_varint, FrameHeader, EncodeInto, encode_header, header_encrypt and
\* pack_session_id.
THEOREM CodecFieldsLossless == Spec => []FieldsLossless
BY CodecInvariant, CodecReads, PTL

\* A frame's body survives Encrypt and payload_obfuscate, at every length up
\* to PPP_BUFFER_SIZE, under every block cipher, method, nonce and set of
\* transforms.
THEOREM CodecPacketLossless == Spec => []PacketLossless
BY CodecInvariant, CodecReads, PTL

\* No decoder makes a value out of the front of an encoding: peek_prefix,
\* peek_frame_len and the packet reader wait, parse_frame and Decode refuse.
THEOREM CodecPrefixWaits == Spec => []PrefixWaits
BY CodecInvariant, CodecReads, PTL
=============================================================================
