-------------------------- MODULE WireCodecProofs ---------------------------
(***************************************************************************)
(* Proofs about the wire codec, for every base, prefix length, cap and     *)
(* envelope encoding, every stream a peer may write and every way to cut   *)
(* it into reads and writes.                                               *)
(***************************************************************************)
EXTENDS WireCodec, SequenceFacts

-----------------------------------------------------------------------------
(***************************************************************************)
(* Division.                                                               *)
(***************************************************************************)
LEMMA LessByFactor ==
  ASSUME NEW b \in Nat \ {0}, NEW p \in Int, NEW q \in Int, b * p < b * (q + 1)
  PROVE  p <= q
<1> SUFFICES ASSUME q + 1 <= p PROVE FALSE
  OBVIOUS
<1>1. b * (q + 1) <= b * p
  OBVIOUS
<1> QED BY <1>1

LEMMA DivMod ==
  ASSUME NEW n \in Nat, NEW b \in Nat \ {0}
  PROVE  /\ n \div b \in Nat
         /\ n % b \in 0 .. (b - 1)
         /\ n = b * (n \div b) + (n % b)
OBVIOUS

LEMMA DivBounds ==
  ASSUME NEW n \in Nat, NEW b \in Nat \ {0}
  PROVE  /\ n \div b \in Nat
         /\ b * (n \div b) <= n
         /\ n < b * ((n \div b) + 1)
<1> DEFINE p == n \div b
<1>1. p \in Nat /\ n = b * p + (n % b) /\ n % b \in 0 .. (b - 1)
  BY DivMod
<1> HIDE DEF p
<1>2. b * (p + 1) = b * p + b
  BY <1>1
<1>3. p \in Nat /\ b * p <= n /\ n < b * (p + 1)
  BY <1>1, <1>2
<1> QED BY <1>3 DEF p

LEMMA DivUnique ==
  ASSUME NEW n \in Nat, NEW b \in Nat \ {0}, NEW q \in Nat,
         b * q <= n, n < b * (q + 1)
  PROVE  n \div b = q
<1> DEFINE p == n \div b
<1>1. p \in Nat /\ b * p <= n /\ n < b * (p + 1)
  BY DivBounds
<1> HIDE DEF p
<1>2. p <= q
  <2>1. b * p < b * (q + 1)
    BY <1>1
  <2> QED BY <1>1, <2>1, LessByFactor
<1>3. q <= p
  <2>1. b * q < b * (p + 1)
    BY <1>1
  <2> QED BY <1>1, <2>1, LessByFactor
<1> QED BY <1>1, <1>2, <1>3 DEF p

LEMMA DivDiv ==
  ASSUME NEW n \in Nat, NEW b \in Nat \ {0}, NEW m \in Nat \ {0}
  PROVE  (n \div b) \div m = n \div (b * m)
<1> DEFINE q == n \div b
           r == q \div m
<1>1. q \in Nat /\ b * q <= n /\ n < b * (q + 1)
  BY DivBounds
<1> HIDE DEF q
<1>2. r \in Nat /\ m * r <= q /\ q < m * (r + 1)
  BY <1>1, DivBounds
<1> HIDE DEF r
<1>3. b * m \in Nat \ {0}
  OBVIOUS
<1>4. (b * m) * r <= n
  <2>1. b * (m * r) <= b * q
    BY <1>1, <1>2
  <2> QED BY <1>1, <1>2, <2>1
<1>5. n < (b * m) * (r + 1)
  <2>1. q + 1 <= m * (r + 1) /\ m * (r + 1) \in Nat
    BY <1>1, <1>2
  <2>2. b * (q + 1) <= b * (m * (r + 1))
    BY <1>1, <2>1
  <2> QED BY <1>1, <1>2, <2>2
<1>6. n \div (b * m) = r
  BY <1>2, <1>3, <1>4, <1>5, DivUnique
<1> QED BY <1>6 DEF q, r

-----------------------------------------------------------------------------
(***************************************************************************)
(* The length prefix: Header is one-to-one and onto.                       *)
(***************************************************************************)
(* f holds the first powers of the base. *)
Powers(f, n) == f = [k \in 0 .. n |-> IF k = 0 THEN 1 ELSE Base * f[k - 1]]

LEMMA PowersStep ==
  ASSUME NEW f, NEW n \in Nat, Powers(f, n), NEW k \in 0 .. n
  PROVE  f[k] = IF k = 0 THEN 1 ELSE Base * f[k - 1]
<1> DEFINE h == [j \in 0 .. n |-> IF j = 0 THEN 1 ELSE Base * f[j - 1]]
<1>1. h[k] = IF k = 0 THEN 1 ELSE Base * f[k - 1]
  OBVIOUS
<1>2. f = h
  BY DEF Powers
<1> HIDE DEF h
<1>3. f[k] = h[k]
  BY <1>2
<1> QED BY <1>1, <1>3

LEMMA PowersExist == \A n \in Nat : \E f : Powers(f, n)
<1> DEFINE T == {n \in Nat : \E f : Powers(f, n)}
<1>1. 0 \in T
  <2> DEFINE f == [k \in 0 .. 0 |-> 1]
  <2>1. f = [k \in 0 .. 0 |-> IF k = 0 THEN 1 ELSE Base * f[k - 1]]
    OBVIOUS
  <2> HIDE DEF f
  <2>2. Powers(f, 0)
    BY <2>1 DEF Powers
  <2> QED BY <2>2
<1>2. ASSUME NEW n \in Nat, n \in T
      PROVE  n + 1 \in T
  <2>1. PICK f : Powers(f, n)
    BY <1>2
  <2> DEFINE g == [k \in 0 .. n + 1 |-> IF k <= n THEN f[k] ELSE Base * f[k - 1]]
             h == [k \in 0 .. n + 1 |-> IF k = 0 THEN 1 ELSE Base * g[k - 1]]
  <2>2. ASSUME NEW k \in 0 .. n + 1
        PROVE  g[k] = h[k]
    <3>1. CASE k = n + 1
      BY <3>1
    <3>2. CASE k <= n
      <4>1. f[k] = IF k = 0 THEN 1 ELSE Base * f[k - 1]
        BY <2>1, <3>2, PowersStep
      <4> QED BY <3>2, <4>1
    <3> QED BY <3>1, <3>2
  <2>3. g = h
    BY <2>2
  <2>4. Powers(g, n + 1)
    BY <2>3 DEF Powers
  <2> QED BY <2>4
<1> HIDE DEF T
<1>3. \A n \in Nat : n \in T
  BY <1>1, <1>2, NatSetInduction
<1> QED BY <1>3 DEF T

LEMMA PowFacts ==
  /\ Pow[0] = 1
  /\ \A k \in 0 .. (HeaderLen - 1) : Pow[k + 1] = Base * Pow[k]
  /\ \A k \in 0 .. HeaderLen : Pow[k] \in Nat \ {0}
<1> USE HeaderAssumption
<1>1. Powers(Pow, HeaderLen)
  <2>1. \E f : Powers(f, HeaderLen)
    BY PowersExist
  <2>2. Pow = CHOOSE f : Powers(f, HeaderLen)
    BY DEF Pow, Powers
  <2> QED BY <2>1, <2>2
<1>2. Pow[0] = 1
  BY <1>1, PowersStep
<1>3. \A k \in 0 .. (HeaderLen - 1) : Pow[k + 1] = Base * Pow[k]
  <2> TAKE k \in 0 .. (HeaderLen - 1)
  <2>1. k + 1 \in 0 .. HeaderLen /\ (k + 1) - 1 = k /\ k + 1 # 0
    OBVIOUS
  <2>2. Pow[k + 1] = IF k + 1 = 0 THEN 1 ELSE Base * Pow[(k + 1) - 1]
    BY <1>1, <2>1, PowersStep
  <2> QED BY <2>1, <2>2
<1> DEFINE T == {k \in Nat : k <= HeaderLen => Pow[k] \in Nat \ {0}}
<1>4. 0 \in T
  BY <1>2
<1>5. ASSUME NEW k \in Nat, k \in T
      PROVE  k + 1 \in T
  <2> SUFFICES ASSUME k + 1 <= HeaderLen PROVE Pow[k + 1] \in Nat \ {0}
    OBVIOUS
  <2>1. Pow[k + 1] = Base * Pow[k] /\ Pow[k] \in Nat \ {0}
    BY <1>3, <1>5
  <2> QED BY <2>1
<1> HIDE DEF T
<1>6. \A k \in Nat : k \in T
  BY <1>4, <1>5, NatSetInduction
<1> QED BY <1>2, <1>3, <1>6 DEF T

(* The last k digits of n. *)
Digits(k, n) == [i \in 1 .. k |-> (n \div Pow[k - i]) % Base]

LEMMA DigitsType ==
  ASSUME NEW k \in 0 .. HeaderLen, NEW n \in Nat
  PROVE  Digits(k, n) \in Seq(Bytes) /\ Len(Digits(k, n)) = k
<1> USE HeaderAssumption
<1>1. ASSUME NEW i \in 1 .. k
      PROVE  (n \div Pow[k - i]) % Base \in Bytes
  <2>1. Pow[k - i] \in Nat \ {0}
    BY PowFacts
  <2>2. n \div Pow[k - i] \in Nat
    BY <2>1, DivMod
  <2> QED BY <2>2, DivMod DEF Bytes
<1>2. Digits(k, n) \in [1 .. k -> Bytes]
  BY <1>1 DEF Digits
<1> QED BY <1>2

(* The digits of n are those of n \div Base, and n % Base. *)
LEMMA DigitsStep ==
  ASSUME NEW k \in 0 .. (HeaderLen - 1), NEW n \in Nat
  PROVE  /\ \A i \in 1 .. k : Digits(k + 1, n)[i] = Digits(k, n \div Base)[i]
         /\ Digits(k + 1, n)[k + 1] = n % Base
<1> USE HeaderAssumption
<1>1. ASSUME NEW i \in 1 .. k
      PROVE  n \div Pow[(k + 1) - i] = (n \div Base) \div Pow[k - i]
  <2>1. k - i \in 0 .. (HeaderLen - 1) /\ (k - i) + 1 = (k + 1) - i
    OBVIOUS
  <2>2. Pow[(k + 1) - i] = Base * Pow[k - i] /\ Pow[k - i] \in Nat \ {0}
    BY <2>1, PowFacts
  <2> QED BY <2>2, DivDiv
<1>2. n \div Pow[(k + 1) - (k + 1)] = n
  <2>1. Pow[(k + 1) - (k + 1)] = 1
    BY PowFacts
  <2> QED BY <2>1, DivUnique
<1>3. ASSUME NEW i \in 1 .. k
      PROVE  Digits(k + 1, n)[i] = Digits(k, n \div Base)[i]
  <2>1. Digits(k + 1, n)[i] = (n \div Pow[(k + 1) - i]) % Base
    BY DEF Digits
  <2>2. Digits(k, n \div Base)[i] = ((n \div Base) \div Pow[k - i]) % Base
    BY DEF Digits
  <2> QED BY <1>1, <2>1, <2>2
<1>4. Digits(k + 1, n)[k + 1] = (n \div Pow[(k + 1) - (k + 1)]) % Base
  BY DEF Digits
<1> QED BY <1>2, <1>3, <1>4

LEMMA DigitsOneToOne ==
  \A k \in 0 .. HeaderLen :
    \A m, n \in 0 .. (Pow[k] - 1) : Digits(k, m) = Digits(k, n) => m = n
<1> USE HeaderAssumption
<1> DEFINE T == {k \in Nat : k <= HeaderLen =>
                   \A m, n \in 0 .. (Pow[k] - 1) : Digits(k, m) = Digits(k, n) => m = n}
<1>1. 0 \in T
  BY PowFacts
<1>2. ASSUME NEW k \in Nat, k \in T
      PROVE  k + 1 \in T
  <2> SUFFICES ASSUME k + 1 <= HeaderLen,
                      NEW m \in 0 .. (Pow[k + 1] - 1), NEW n \in 0 .. (Pow[k + 1] - 1),
                      Digits(k + 1, m) = Digits(k + 1, n)
               PROVE  m = n
    OBVIOUS
  <2>1. k \in 0 .. (HeaderLen - 1) /\ m \in Nat /\ n \in Nat
    BY PowFacts
  <2>8. ASSUME NEW x \in Nat
        PROVE  /\ \A i \in 1 .. k : Digits(k + 1, x)[i] = Digits(k, x \div Base)[i]
               /\ Digits(k + 1, x)[k + 1] = x % Base
    BY <2>1, DigitsStep
  <2>2. \A i \in 1 .. k : Digits(k, m \div Base)[i] = Digits(k, n \div Base)[i]
    <3> TAKE i \in 1 .. k
    <3>1. Digits(k + 1, m)[i] = Digits(k, m \div Base)[i]
      BY <2>1, <2>8
    <3>2. Digits(k + 1, n)[i] = Digits(k, n \div Base)[i]
      BY <2>1, <2>8
    <3> QED BY <3>1, <3>2
  <2>3. m % Base = n % Base
    BY <2>1, <2>8
  <2>4. m \div Base \in 0 .. (Pow[k] - 1) /\ n \div Base \in 0 .. (Pow[k] - 1)
    <3>1. ASSUME NEW x \in Nat, x < Pow[k + 1]
          PROVE  x \div Base \in 0 .. (Pow[k] - 1)
      <4>1. Pow[k + 1] = Base * Pow[k] /\ Pow[k] \in Nat \ {0}
        BY <2>1, PowFacts
      <4>2. x \div Base \in Nat /\ Base * (x \div Base) <= x
        BY DivBounds
      <4>3. Base * (x \div Base) < Base * ((Pow[k] - 1) + 1)
        BY <3>1, <4>1, <4>2
      <4>4. x \div Base <= Pow[k] - 1
        BY <4>1, <4>2, <4>3, LessByFactor
      <4> QED BY <4>1, <4>2, <4>4
    <3>2. Pow[k + 1] \in Nat
      BY <2>1, PowFacts
    <3> QED BY <2>1, <3>1, <3>2
  <2>5. Digits(k, m \div Base) = Digits(k, n \div Base)
    BY <2>2 DEF Digits
  <2>6. m \div Base = n \div Base
    BY <1>2, <2>1, <2>4, <2>5
  <2>7. m = Base * (m \div Base) + (m % Base) /\ n = Base * (n \div Base) + (n % Base)
    BY <2>1, DivMod
  <2> QED BY <2>3, <2>6, <2>7
<1> HIDE DEF T
<1>3. \A k \in Nat : k \in T
  BY <1>1, <1>2, NatSetInduction
<1> QED BY <1>3 DEF T

LEMMA DigitsOnto ==
  \A k \in 0 .. HeaderLen : \A h \in [1 .. k -> Bytes] :
    \E n \in 0 .. (Pow[k] - 1) : Digits(k, n) = h
<1> USE HeaderAssumption
<1> DEFINE T == {k \in Nat : k <= HeaderLen => \A h \in [1 .. k -> Bytes] :
                   \E n \in 0 .. (Pow[k] - 1) : Digits(k, n) = h}
<1>1. 0 \in T
  <2> SUFFICES ASSUME NEW h \in [1 .. 0 -> Bytes] PROVE Digits(0, 0) = h
    BY PowFacts
  <2> QED BY DEF Digits
<1>2. ASSUME NEW k \in Nat, k \in T
      PROVE  k + 1 \in T
  <2> SUFFICES ASSUME k + 1 <= HeaderLen, NEW h \in [1 .. (k + 1) -> Bytes]
               PROVE  \E n \in 0 .. (Pow[k + 1] - 1) : Digits(k + 1, n) = h
    OBVIOUS
  <2> DEFINE g == [i \in 1 .. k |-> h[i]]
             d == h[k + 1]
  <2>1. g \in [1 .. k -> Bytes] /\ d \in 0 .. (Base - 1)
    BY DEF Bytes
  <2> HIDE DEF g, d
  <2>2. PICK m \in 0 .. (Pow[k] - 1) : Digits(k, m) = g
    <3>1. k <= HeaderLen
      OBVIOUS
    <3> QED BY <1>2, <2>1, <3>1
  <2> DEFINE n == Base * m + d
  <2>3. k \in 0 .. (HeaderLen - 1) /\ Pow[k + 1] = Base * Pow[k] /\ Pow[k] \in Nat \ {0}
    BY PowFacts
  <2>4. m \in Nat /\ m + 1 <= Pow[k]
    BY <2>2, <2>3
  <2>5. n \in Nat /\ Base * m <= n /\ n < Base * (m + 1)
    <3>1. Base * m \in Nat /\ Base * (m + 1) = Base * m + Base
      BY <2>4
    <3> QED BY <2>1, <3>1
  <2>6. n < Pow[k + 1]
    <3>1. Base * (m + 1) <= Base * Pow[k]
      BY <2>3, <2>4
    <3> HIDE DEF n
    <3> QED BY <2>3, <2>4, <2>5, <3>1
  <2>7. n \div Base = m
    BY <2>4, <2>5, DivUnique
  <2>8. n % Base = d
    <3>1. n = Base * m + (n % Base) /\ n % Base \in Int
      <4> HIDE DEF n
      <4>1. n = Base * (n \div Base) + (n % Base) /\ n % Base \in 0 .. (Base - 1)
        BY <2>5, DivMod
      <4> QED BY <2>7, <4>1
    <3>2. Base * m \in Int /\ d \in Int
      BY <2>1, <2>4
    <3> QED BY <3>1, <3>2
  <2> HIDE DEF n
  <2>9. \A i \in 1 .. (k + 1) : Digits(k + 1, n)[i] = h[i]
    <3>1. \A i \in 1 .. k : Digits(k + 1, n)[i] = g[i]
      BY <2>2, <2>3, <2>5, <2>7, DigitsStep
    <3>2. Digits(k + 1, n)[k + 1] = d
      BY <2>3, <2>5, <2>8, DigitsStep
    <3> QED BY <3>1, <3>2 DEF g, d
  <2>10. Digits(k + 1, n) = h
    BY <2>9 DEF Digits
  <2>11. n \in 0 .. (Pow[k + 1] - 1)
    BY <2>3, <2>5, <2>6
  <2> QED BY <2>10, <2>11
<1> HIDE DEF T
<1>3. \A k \in Nat : k \in T
  BY <1>1, <1>2, NatSetInduction
<1> QED BY <1>3 DEF T

LEMMA HeaderType ==
  ASSUME NEW n \in Nat
  PROVE  Header(n) \in Seq(Bytes) /\ Len(Header(n)) = HeaderLen
<1>1. Header(n) = Digits(HeaderLen, n)
  BY DEF Header, Digits
<1> QED BY <1>1, DigitsType, HeaderAssumption

(* Reading a prefix back, and writing one again that was read. *)
LEMMA LengthOfHeader ==
  ASSUME NEW n \in 0 .. (AtHead - 1)
  PROVE  Length(Header(n)) = n
<1>1. \A k \in Nat : Header(k) = Digits(HeaderLen, k)
  BY DEF Header, Digits
<1>2. AtHead = Pow[HeaderLen] /\ AtHead \in Nat /\ HeaderLen \in 0 .. HeaderLen
  BY PowFacts, HeaderAssumption DEF AtHead
<1>3. \A m, k \in 0 .. (AtHead - 1) : Digits(HeaderLen, m) = Digits(HeaderLen, k) => m = k
  BY <1>2, DigitsOneToOne
<1>4. \A m \in 0 .. (AtHead - 1) : Header(m) = Header(n) => m = n
  BY <1>1, <1>2, <1>3
<1> QED BY <1>4 DEF Length

LEMMA HeaderOfLength ==
  ASSUME NEW h \in Seq(Bytes), Len(h) = HeaderLen
  PROVE  Length(h) \in 0 .. (AtHead - 1) /\ Header(Length(h)) = h
<1>1. \A k \in Nat : Header(k) = Digits(HeaderLen, k)
  BY DEF Header, Digits
<1>2. AtHead = Pow[HeaderLen] /\ AtHead \in Nat /\ HeaderLen \in 0 .. HeaderLen
  BY PowFacts, HeaderAssumption DEF AtHead
<1>3. h \in [1 .. HeaderLen -> Bytes]
  BY LenProperties
<1>4. \E n \in 0 .. (AtHead - 1) : Digits(HeaderLen, n) = h
  BY <1>2, <1>3, DigitsOnto
<1>5. \E n \in 0 .. (AtHead - 1) : Header(n) = h
  BY <1>1, <1>2, <1>4
<1> QED BY <1>5 DEF Length

-----------------------------------------------------------------------------
(***************************************************************************)
(* Frames.                                                                 *)
(***************************************************************************)
LEMMA FramedType ==
  ASSUME NEW b \in Seq(Bytes)
  PROVE  Framed(b) \in Seq(Bytes) /\ Len(Framed(b)) = HeaderLen + Len(b)
<1>1. Len(b) \in Nat
  OBVIOUS
<1>2. Header(Len(b)) \in Seq(Bytes) /\ Len(Header(Len(b))) = HeaderLen
  BY <1>1, HeaderType
<1> QED BY <1>2, ConcatProperties DEF Framed

(* The frames of a sequence of bodies, before they are flattened. *)
Separate(bs) == [i \in DOMAIN bs |-> Framed(bs[i])]

LEMMA SeparateType ==
  ASSUME NEW bs \in Seq(Seq(Bytes))
  PROVE  Separate(bs) \in Seq(Seq(Bytes)) /\ Len(Separate(bs)) = Len(bs)
<1>1. DOMAIN bs = 1 .. Len(bs) /\ Len(bs) \in Nat
  BY LenProperties
<1>2. \A i \in 1 .. Len(bs) : Framed(bs[i]) \in Seq(Bytes)
  BY ElementOfSeq, FramedType
<1>3. Separate(bs) \in [1 .. Len(bs) -> Seq(Bytes)]
  BY <1>1, <1>2 DEF Separate
<1> QED BY <1>1, <1>3

LEMMA FramesType ==
  ASSUME NEW bs \in Seq(Seq(Bytes))
  PROVE  FramesOf(bs) \in Seq(Bytes)
<1>1. FramesOf(bs) = FlattenSeq(Separate(bs))
  BY DEF FramesOf, Separate
<1> QED BY <1>1, SeparateType, FlattenType

LEMMA FramesEmpty == FramesOf(<<>>) = <<>>
<1>1. Separate(<<>>) = <<>>
  BY DEF Separate
<1> QED BY <1>1, FlattenEmpty DEF FramesOf, Separate

LEMMA FramesConcat ==
  ASSUME NEW bs \in Seq(Seq(Bytes)), NEW cs \in Seq(Seq(Bytes))
  PROVE  FramesOf(bs \o cs) = FramesOf(bs) \o FramesOf(cs)
<1>1. \A s : FramesOf(s) = FlattenSeq(Separate(s))
  BY DEF FramesOf, Separate
<1>2. Separate(bs \o cs) = Separate(bs) \o Separate(cs)
  <2> DEFINE s == Separate(bs \o cs)
             t == Separate(bs) \o Separate(cs)
  <2>1. /\ bs \o cs \in Seq(Seq(Bytes))
        /\ Len(bs \o cs) = Len(bs) + Len(cs)
        /\ \A i \in 1 .. Len(bs) + Len(cs) :
             (bs \o cs)[i] = IF i <= Len(bs) THEN bs[i] ELSE cs[i - Len(bs)]
    BY ConcatProperties
  <2>2. /\ Separate(bs) \in Seq(Seq(Bytes)) /\ Len(Separate(bs)) = Len(bs)
        /\ Separate(cs) \in Seq(Seq(Bytes)) /\ Len(Separate(cs)) = Len(cs)
        /\ s \in Seq(Seq(Bytes)) /\ Len(s) = Len(bs) + Len(cs)
    BY <2>1, SeparateType
  <2>3. /\ t \in Seq(Seq(Bytes)) /\ Len(t) = Len(bs) + Len(cs)
        /\ \A i \in 1 .. Len(bs) + Len(cs) :
             t[i] = IF i <= Len(bs) THEN Separate(bs)[i] ELSE Separate(cs)[i - Len(bs)]
    <3> DEFINE a == Separate(bs)
               c == Separate(cs)
    <3> HIDE DEF a, c
    <3>1. /\ a \in Seq(Seq(Bytes)) /\ c \in Seq(Seq(Bytes))
          /\ Len(a) = Len(bs) /\ Len(c) = Len(cs)
      BY <2>2 DEF a, c
    <3>2. /\ a \o c \in Seq(Seq(Bytes)) /\ Len(a \o c) = Len(a) + Len(c)
          /\ \A i \in 1 .. Len(a) + Len(c) :
               (a \o c)[i] = IF i <= Len(a) THEN a[i] ELSE c[i - Len(a)]
      BY <3>1, ConcatProperties
    <3> QED BY <3>1, <3>2 DEF a, c
  <2>4. ASSUME NEW i \in 1 .. Len(bs) + Len(cs)
        PROVE  s[i] = t[i]
    <3>1. s[i] = Framed((bs \o cs)[i])
      BY <2>1 DEF Separate
    <3>2. CASE i <= Len(bs)
      <4>1. Separate(bs)[i] = Framed(bs[i])
        BY <3>2 DEF Separate
      <4> QED BY <2>1, <2>3, <3>1, <3>2, <4>1
    <3>3. CASE ~(i <= Len(bs))
      <4>1. Separate(cs)[i - Len(bs)] = Framed(cs[i - Len(bs)])
        BY <3>3 DEF Separate
      <4> QED BY <2>1, <2>3, <3>1, <3>3, <4>1
    <3> QED BY <3>2, <3>3
  <2> HIDE DEF s, t
  <2>5. s = t
    BY <2>2, <2>3, <2>4, SeqEqual
  <2> QED BY <2>5 DEF s, t
<1> QED BY <1>1, <1>2, SeparateType, FlattenConcat

LEMMA FramesOne ==
  ASSUME NEW b \in Seq(Bytes)
  PROVE  FramesOf(<<b>>) = Framed(b)
<1>1. Separate(<<b>>) = <<Framed(b)>>
  BY DEF Separate
<1> QED BY <1>1, FramedType, FlattenOne DEF FramesOf, Separate

LEMMA BytesConcat ==
  /\ \A a, b \in Seq(Bytes) : a \o b \in Seq(Bytes)
  /\ \A a, b, c \in Seq(Bytes) : (a \o b) \o c = a \o (b \o c)
  /\ \A a \in Seq(Bytes) : a \o <<>> = a /\ <<>> \o a = a
<1>1. \A a, b \in Seq(Bytes) : a \o b \in Seq(Bytes)
  BY ConcatProperties
<1>2. \A a, b, c \in Seq(Bytes) : (a \o b) \o c = a \o (b \o c)
  BY ConcatAssociative
<1>3. \A a \in Seq(Bytes) : a \o <<>> = a /\ <<>> \o a = a
  BY ConcatEmptySeq
<1> QED BY <1>1, <1>2, <1>3

(* Two ways to write a sequence whose first parts are equally long are one. *)
LEMMA SameSplit ==
  ASSUME NEW S, NEW a \in Seq(S), NEW b \in Seq(S), NEW c \in Seq(S), NEW d \in Seq(S),
         a \o b = c \o d, Len(a) = Len(c)
  PROVE  a = c /\ b = d
<1>1. \A i \in 1 .. Len(a) : a[i] = c[i]
  BY ConcatProperties
<1>2. a = c
  BY <1>1, SeqEqual
<1> QED BY <1>2, ConcatSimplifications

(* A sequence cut in two. *)
LEMMA CutInTwo ==
  ASSUME NEW S, NEW s \in Seq(S), NEW k \in 0 .. Len(s)
  PROVE  /\ SubSeq(s, 1, k) \in Seq(S) /\ Len(SubSeq(s, 1, k)) = k
         /\ SubSeq(s, k + 1, Len(s)) \in Seq(S)
         /\ Len(SubSeq(s, k + 1, Len(s))) = Len(s) - k
         /\ SubSeq(s, 1, k) \o SubSeq(s, k + 1, Len(s)) = s
<1>1. \A i \in 1 .. Len(s) : s[i] \in S
  BY ElementOfSeq
<1>2. SubSeq(s, 1, k) \in Seq(S) /\ Len(SubSeq(s, 1, k)) = k
  BY <1>1, SubSeqProperties
<1>3. SubSeq(s, k + 1, Len(s)) \in Seq(S) /\ Len(SubSeq(s, k + 1, Len(s))) = Len(s) - k
  BY <1>1, SubSeqProperties
<1>4. SubSeq(s, 1, k) \o SubSeq(s, k + 1, Len(s)) = SubSeq(s, 1, Len(s))
  <2>1. /\ 1 \in 1 .. Len(s) + 1 /\ k \in (1 - 1) .. Len(s)
        /\ Len(s) \in k .. Len(s)
    OBVIOUS
  <2> QED BY <2>1, ConcatAdjacentSubSeq
<1> QED BY <1>2, <1>3, <1>4, SubSeqFull

-----------------------------------------------------------------------------
(***************************************************************************)
(* What a state that satisfies the invariant has in its buffers.           *)
(***************************************************************************)
(* The bodies of a sequence of envelopes. *)
Coded(es) == [i \in DOMAIN es |-> Encoding[es[i]]]

LEMMA EncodingFacts ==
  \A e \in Messages : Encoding[e] \in Seq(Bytes) /\ Len(Encoding[e]) \in 0 .. (AtHead - 1)
BY EncodingAssumption, PowFacts, HeaderAssumption DEF AtHead

LEMMA CodedType ==
  ASSUME NEW es \in Seq(Messages)
  PROVE  /\ Coded(es) \in Seq(Seq(Bytes)) /\ Len(Coded(es)) = Len(es)
         /\ \A i \in 1 .. Len(es) : es[i] \in Messages /\ Coded(es)[i] = Encoding[es[i]]
<1>1. DOMAIN es = 1 .. Len(es) /\ Len(es) \in Nat
  BY LenProperties
<1>2. \A i \in 1 .. Len(es) : es[i] \in Messages /\ Encoding[es[i]] \in Seq(Bytes)
  BY ElementOfSeq, EncodingFacts
<1>3. Coded(es) \in [1 .. Len(es) -> Seq(Bytes)]
  BY <1>1, <1>2 DEF Coded
<1> QED BY <1>1, <1>2, <1>3 DEF Coded

LEMMA CapFacts ==
  ASSUME TypeOK
  PROVE  /\ AtHead \in Nat \ {0}
         /\ cap.send \in 0 .. (AtHead - 1)
         /\ cap.recv \in 0 .. (AtHead - 1)
         /\ body \in Nat
         /\ body # AtHead => body \in 0 .. (AtHead - 1) /\ body <= cap.recv
<1>1. AtHead \in Nat \ {0}
  BY PowFacts, HeaderAssumption DEF AtHead
<1>2. cap.send \in Caps /\ cap.recv \in Caps
  BY DEF TypeOK
<1>3. cap.send \in 0 .. (AtHead - 1) /\ cap.recv \in 0 .. (AtHead - 1)
  BY <1>2, CapsAssumption
<1>4. body \in 0 .. cap.recv \cup {AtHead}
  BY DEF TypeOK
<1> QED BY <1>1, <1>3, <1>4

LEMMA BufferTypes ==
  ASSUME TypeOK
  PROVE  /\ stream \in Seq(Bytes) /\ wbuf \in Seq(Bytes)
         /\ wire \in Seq(Bytes) /\ rbuf \in Seq(Bytes)
         /\ Hand \in Seq(Bytes)
         /\ Len(Hand) = IF body = AtHead THEN 0 ELSE HeaderLen
         /\ wire \o wbuf \in Seq(Bytes)
         /\ rbuf \o (wire \o wbuf) \in Seq(Bytes)
         /\ InFlight \in Seq(Bytes)
         /\ Len(InFlight) = Len(Hand) + Len(rbuf) + Len(wire) + Len(wbuf)
<1>1. /\ stream \in Seq(Bytes) /\ wbuf \in Seq(Bytes)
      /\ wire \in Seq(Bytes) /\ rbuf \in Seq(Bytes)
  BY DEF TypeOK
<1>2. Hand \in Seq(Bytes) /\ Len(Hand) = IF body = AtHead THEN 0 ELSE HeaderLen
  <2>1. body \in Nat
    BY CapFacts
  <2>2. Header(body) \in Seq(Bytes) /\ Len(Header(body)) = HeaderLen
    BY <2>1, HeaderType
  <2> QED BY <2>2 DEF Hand
<1>3. wire \o wbuf \in Seq(Bytes) /\ Len(wire \o wbuf) = Len(wire) + Len(wbuf)
  BY <1>1, ConcatProperties
<1>4. /\ rbuf \o (wire \o wbuf) \in Seq(Bytes)
      /\ Len(rbuf \o (wire \o wbuf)) = Len(rbuf) + Len(wire \o wbuf)
  BY <1>1, <1>3, ConcatProperties
<1>5. InFlight \in Seq(Bytes) /\ Len(InFlight) = Len(Hand) + Len(rbuf \o (wire \o wbuf))
  <2> DEFINE r == rbuf \o (wire \o wbuf)
  <2>1. r \in Seq(Bytes) /\ InFlight = Hand \o r
    BY <1>4 DEF InFlight
  <2> HIDE DEF r
  <2>2. Hand \o r \in Seq(Bytes) /\ Len(Hand \o r) = Len(Hand) + Len(r)
    BY <1>2, <2>1, ConcatProperties
  <2> QED BY <2>1, <2>2 DEF r
<1> QED BY <1>1, <1>2, <1>3, <1>4, <1>5

(* The part of the invariant the next lemmas use. *)
Aligned == TypeOK /\ FramesExact /\ StreamIsSent /\ BodiesAreSent

(* What is on its way from a Patina peer is the frames not decoded yet. *)
LEMMA FramesLeft ==
  ASSUME Aligned, Patina
  PROVE  InFlight = FramesOf(SubSeq(Coded(sent), Len(bodies) + 1, Len(sent)))
<1> DEFINE all  == Coded(sent)
           n    == Len(bodies)
           left == SubSeq(all, n + 1, Len(all))
<1>1. /\ sent \in Seq(Messages) /\ bodies \in Seq(Seq(Bytes)) /\ n \in Nat
      /\ n <= Len(sent) /\ \A i \in 1 .. n : bodies[i] = Encoding[sent[i]]
  BY DEF Aligned, TypeOK, BodiesAreSent
<1>2. /\ all \in Seq(Seq(Bytes)) /\ Len(all) = Len(sent)
      /\ \A i \in 1 .. Len(sent) : all[i] = Encoding[sent[i]]
  BY <1>1, CodedType
<1>3. stream = FramesOf(all)
  <2>1. CASE sent # <<>>
    BY <2>1 DEF Aligned, StreamIsSent, SentBodies, Coded
  <2>2. CASE sent = <<>>
    <3>1. stream = <<>>
      BY <2>2 DEF Patina
    <3>2. all = <<>>
      BY <2>2 DEF Coded
    <3> QED BY <3>1, <3>2, FramesEmpty
  <2> QED BY <2>1, <2>2
<1> HIDE DEF all, n
<1>4. n \in 0 .. Len(all)
  BY <1>1, <1>2
<1>5. /\ SubSeq(all, 1, n) \in Seq(Seq(Bytes)) /\ Len(SubSeq(all, 1, n)) = n
      /\ left \in Seq(Seq(Bytes)) /\ all = SubSeq(all, 1, n) \o left
  BY <1>2, <1>4, CutInTwo
<1>6. SubSeq(all, 1, n) = bodies
  <2>1. \A i \in 1 .. n : SubSeq(all, 1, n)[i] = bodies[i]
    <3> TAKE i \in 1 .. n
    <3>1. SubSeq(all, 1, n)[i] = all[i]
      BY <1>1, <1>2
    <3> QED BY <1>1, <1>2, <3>1
  <2> QED BY <1>1, <1>5, <2>1, SeqEqual DEF n
<1> HIDE DEF left
<1>7. FramesOf(all) = FramesOf(bodies) \o FramesOf(left)
  BY <1>1, <1>5, <1>6, FramesConcat
<1>8. FramesOf(bodies) \o FramesOf(left) = FramesOf(bodies) \o InFlight
  BY <1>3, <1>7 DEF Aligned, FramesExact
<1>9. FramesOf(bodies) \in Seq(Bytes) /\ FramesOf(left) \in Seq(Bytes) /\ InFlight \in Seq(Bytes)
  BY <1>1, <1>5, FramesType, BufferTypes DEF Aligned
<1>10. InFlight = FramesOf(left)
  BY <1>8, <1>9, SameSplit
<1> QED BY <1>2, <1>10 DEF left, all, n

(* The envelope after the last one decoded. *)
Following == Encoding[sent[Len(bodies) + 1]]

(* Its frame comes first, and other frames behind it only if there are more. *)
LEMMA FollowingFrame ==
  ASSUME Aligned, Patina, Len(bodies) # Len(sent)
  PROVE  /\ Following \in Seq(Bytes) /\ Len(Following) \in 0 .. (AtHead - 1)
         /\ Len(Following) <= cap.send
         /\ \E more \in Seq(Bytes) :
              /\ InFlight = Framed(Following) \o more
              /\ Len(bodies) + 1 = Len(sent) => more = <<>>
              /\ Len(bodies) + 1 # Len(sent) =>
                   Len(more) >= HeaderLen + Len(Encoding[Last(sent)])
<1> DEFINE all == Coded(sent)
           n   == Len(bodies)
           m   == Len(sent)
<1>1. sent \in Seq(Messages) /\ bodies \in Seq(Seq(Bytes)) /\ n \in Nat /\ m \in Nat /\ n < m
  BY DEF Aligned, TypeOK, BodiesAreSent
<1>2. /\ all \in Seq(Seq(Bytes)) /\ Len(all) = m
      /\ \A i \in 1 .. m : sent[i] \in Messages /\ all[i] = Encoding[sent[i]]
  BY <1>1, CodedType
<1>3. InFlight = FramesOf(SubSeq(all, n + 1, m))
  BY FramesLeft
<1>4. \A i \in 1 .. m : /\ all[i] \in Seq(Bytes) /\ Len(all[i]) \in 0 .. (AtHead - 1)
                        /\ Len(all[i]) <= cap.send
  <2>1. \A i \in 1 .. m : Len(Encoding[sent[i]]) <= cap.send
    BY <1>1 DEF Aligned, StreamIsSent
  <2>2. \A i \in 1 .. m : /\ Encoding[sent[i]] \in Seq(Bytes)
                           /\ Len(Encoding[sent[i]]) \in 0 .. (AtHead - 1)
    BY <1>2, EncodingFacts
  <2> HIDE DEF all, m
  <2> QED BY <1>2, <2>1, <2>2
<1>5. all[n + 1] = Following /\ all[m] = Encoding[Last(sent)]
  BY <1>1, <1>2 DEF Following, Last
<1> HIDE DEF all, n, m
<1>6. SubSeq(all, n + 1, m) = <<all[n + 1]>> \o SubSeq(all, n + 2, m)
  <2>1. n + 1 \in 1 .. Len(all) /\ m \in (n + 1) .. Len(all) /\ (n + 1) + 1 = n + 2
    BY <1>1, <1>2
  <2> QED BY <1>2, <2>1, SubSeqRecursiveFirst
<1> DEFINE rest == SubSeq(all, n + 2, m)
<1>7. rest \in Seq(Seq(Bytes)) /\ <<all[n + 1]>> \in Seq(Seq(Bytes))
  <2>1. \A i \in (n + 2) .. m : all[i] \in Seq(Bytes)
    BY <1>1, <1>4
  <2>2. rest \in Seq(Seq(Bytes))
    BY <1>1, <2>1, SubSeqProperties
  <2>3. all[n + 1] \in Seq(Bytes)
    BY <1>1, <1>4
  <2> QED BY <2>2, <2>3
<1>8. InFlight = Framed(all[n + 1]) \o FramesOf(rest)
  <2>1. FramesOf(SubSeq(all, n + 1, m)) = FramesOf(<<all[n + 1]>>) \o FramesOf(rest)
    BY <1>6, <1>7, FramesConcat
  <2>2. FramesOf(<<all[n + 1]>>) = Framed(all[n + 1])
    BY <1>1, <1>4, FramesOne
  <2> QED BY <1>3, <2>1, <2>2
<1>9. n + 1 = m => FramesOf(rest) = <<>>
  <2>1. n + 1 = m => rest = <<>>
    BY <1>1, SubSeqEmpty
  <2> QED BY <2>1, FramesEmpty
<1>10. n + 1 # m => Len(FramesOf(rest)) >= HeaderLen + Len(all[m])
  <2> HAVE n + 1 # m
  <2>1. rest = SubSeq(all, n + 2, m - 1) \o <<all[m]>>
    <3>1. n + 2 \in 1 .. Len(all) /\ m \in (n + 2) .. Len(all)
      BY <1>1, <1>2
    <3> QED BY <1>2, <3>1, SubSeqRecursiveSecond
  <2> DEFINE init == SubSeq(all, n + 2, m - 1)
  <2>2. init \in Seq(Seq(Bytes)) /\ <<all[m]>> \in Seq(Seq(Bytes)) /\ all[m] \in Seq(Bytes)
    <3>1. \A i \in (n + 2) .. (m - 1) : all[i] \in Seq(Bytes)
      BY <1>1, <1>4
    <3>2. init \in Seq(Seq(Bytes))
      BY <1>1, <3>1, SubSeqProperties
    <3>3. all[m] \in Seq(Bytes)
      BY <1>1, <1>4
    <3> QED BY <3>2, <3>3
  <2> HIDE DEF rest, init
  <2>3. FramesOf(rest) = FramesOf(init) \o Framed(all[m])
    BY <2>1, <2>2, FramesConcat, FramesOne DEF init
  <2>4. /\ FramesOf(init) \in Seq(Bytes)
        /\ Framed(all[m]) \in Seq(Bytes) /\ Len(Framed(all[m])) = HeaderLen + Len(all[m])
    BY <2>2, FramesType, FramedType
  <2>5. Len(FramesOf(rest)) = Len(FramesOf(init)) + (HeaderLen + Len(all[m]))
    BY <2>3, <2>4, ConcatProperties, SMTT(40)
  <2> QED BY <2>2, <2>4, <2>5, HeaderAssumption
<1>11. FramesOf(rest) \in Seq(Bytes)
  BY <1>7, FramesType
<1>12. /\ Following \in Seq(Bytes) /\ Len(Following) \in 0 .. (AtHead - 1)
       /\ Len(Following) <= cap.send
  BY <1>1, <1>4, <1>5
<1> HIDE DEF rest
<1> QED BY <1>5, <1>8, <1>9, <1>10, <1>11, <1>12 DEF n, m

LEMMA NoneLeft ==
  ASSUME Aligned, Patina, Len(bodies) = Len(sent)
  PROVE  InFlight = <<>>
<1>1. Len(sent) \in Nat
  BY DEF Aligned, TypeOK
<1>2. SubSeq(Coded(sent), Len(bodies) + 1, Len(sent)) = <<>>
  BY <1>1, SubSeqEmpty
<1> QED BY <1>2, FramesLeft, FramesEmpty

(* The bytes behind the hand start with the header of the following frame. *)
LEMMA FollowingSplit ==
  ASSUME Aligned, Patina, Len(bodies) # Len(sent)
  PROVE  \E more \in Seq(Bytes) :
           /\ Header(Len(Following)) \o (Following \o more) = InFlight
           /\ Following \o more \in Seq(Bytes)
<1>1. Following \in Seq(Bytes) /\ Len(Following) \in Nat
  BY FollowingFrame
<1>2. PICK more \in Seq(Bytes) : InFlight = Framed(Following) \o more
  BY FollowingFrame
<1>3. Header(Len(Following)) \in Seq(Bytes)
  BY <1>1, HeaderType
<1>4. (Header(Len(Following)) \o Following) \o more
        = Header(Len(Following)) \o (Following \o more)
  BY <1>1, <1>2, <1>3, ConcatAssociative
<1>5. Following \o more \in Seq(Bytes)
  BY <1>1, <1>2, ConcatProperties
<1> QED BY <1>2, <1>4, <1>5 DEF Framed

(* A prefix read from a Patina peer is the length of the next envelope. *)
LEMMA KnownHead ==
  ASSUME Aligned, Patina, body = AtHead, Len(rbuf) >= HeaderLen
  PROVE  Len(bodies) # Len(sent) /\ Prefix = Len(Following)
<1> DEFINE h == SubSeq(rbuf, 1, HeaderLen)
           r == SubSeq(rbuf, HeaderLen + 1, Len(rbuf))
           w == wire \o wbuf
<1>1. /\ rbuf \in Seq(Bytes) /\ w \in Seq(Bytes) /\ rbuf \o w \in Seq(Bytes)
      /\ Len(InFlight) >= HeaderLen /\ Hand = <<>>
  BY BufferTypes, HeaderAssumption DEF Aligned, Hand
<1>2. Len(bodies) # Len(sent)
  BY <1>1, NoneLeft, HeaderAssumption
<1>3. h \in Seq(Bytes) /\ Len(h) = HeaderLen /\ r \in Seq(Bytes) /\ h \o r = rbuf
  <2>1. HeaderLen \in 0 .. Len(rbuf)
    BY <1>1, HeaderAssumption
  <2> QED BY <1>1, <2>1, CutInTwo
<1> HIDE DEF h, r, w
<1>4. InFlight = h \o (r \o w) /\ r \o w \in Seq(Bytes)
  <2>1. InFlight = rbuf \o w
    <3>1. InFlight = <<>> \o (rbuf \o w)
      BY <1>1 DEF InFlight, w
    <3> QED BY <1>1, <3>1, ConcatEmptySeq
  <2>2. (h \o r) \o w = h \o (r \o w)
    <3>1. h \in Seq(Bytes) /\ r \in Seq(Bytes)
      BY <1>3
    <3> QED BY <1>1, <3>1, ConcatAssociative
  <2> QED BY <1>1, <1>3, <2>1, <2>2, ConcatProperties
<1>5. PICK more \in Seq(Bytes) :
        /\ Header(Len(Following)) \o (Following \o more) = InFlight
        /\ Following \o more \in Seq(Bytes)
  BY <1>2, FollowingSplit
<1>6. Len(Following) \in 0 .. (AtHead - 1) /\ Len(Following) \in Nat
  BY <1>2, FollowingFrame
<1>7. Header(Len(Following)) \in Seq(Bytes) /\ Len(Header(Len(Following))) = HeaderLen
  BY <1>6, HeaderType
<1>8. h = Header(Len(Following))
  BY <1>3, <1>4, <1>5, <1>7, SameSplit
<1>9. Length(h) = Len(Following)
  BY <1>6, <1>8, LengthOfHeader
<1> QED BY <1>2, <1>9 DEF Prefix, h

(* The body waited for is the next envelope. *)
LEMMA KnownBody ==
  ASSUME Aligned, Patina, body # AtHead
  PROVE  /\ Len(bodies) # Len(sent) /\ body = Len(Following)
         /\ Len(rbuf) >= body => SubSeq(rbuf, 1, body) = Following
<1> DEFINE w == wire \o wbuf
           x == rbuf \o w
<1>1. /\ rbuf \in Seq(Bytes) /\ w \in Seq(Bytes) /\ x \in Seq(Bytes)
      /\ Len(InFlight) >= HeaderLen /\ Hand = Header(body) /\ InFlight = Hand \o x
  BY BufferTypes, HeaderAssumption DEF Aligned, Hand, InFlight
<1>2. Len(bodies) # Len(sent)
  BY <1>1, NoneLeft, HeaderAssumption
<1> HIDE DEF w, x
<1>3. PICK more \in Seq(Bytes) :
        /\ Header(Len(Following)) \o (Following \o more) = InFlight
        /\ Following \o more \in Seq(Bytes)
  BY <1>2, FollowingSplit
<1>4. /\ Len(Following) \in 0 .. (AtHead - 1) /\ Len(Following) \in Nat
      /\ Following \in Seq(Bytes)
  BY <1>2, FollowingFrame
<1>5. body \in 0 .. (AtHead - 1) /\ body \in Nat
  BY CapFacts DEF Aligned
<1>6. /\ Header(Len(Following)) \in Seq(Bytes) /\ Len(Header(Len(Following))) = HeaderLen
      /\ Header(body) \in Seq(Bytes) /\ Len(Header(body)) = HeaderLen
  BY <1>4, <1>5, HeaderType
<1>7. Header(body) = Header(Len(Following)) /\ x = Following \o more
  BY <1>1, <1>3, <1>6, SameSplit
<1>8. body = Len(Following)
  <2>1. Length(Header(body)) = body /\ Length(Header(Len(Following))) = Len(Following)
    BY <1>4, <1>5, LengthOfHeader
  <2> QED BY <1>7, <2>1
<1>9. Len(rbuf) >= body => SubSeq(rbuf, 1, body) = Following
  <2> HAVE Len(rbuf) >= body
  <2> DEFINE b == SubSeq(rbuf, 1, body)
             r == SubSeq(rbuf, body + 1, Len(rbuf))
  <2>1. b \in Seq(Bytes) /\ Len(b) = body /\ r \in Seq(Bytes) /\ b \o r = rbuf
    <3>1. body \in 0 .. Len(rbuf)
      BY <1>1, <1>5
    <3> QED BY <1>1, <3>1, CutInTwo
  <2> HIDE DEF b, r
  <2>2. x = b \o (r \o w) /\ r \o w \in Seq(Bytes)
    <3>1. (b \o r) \o w = b \o (r \o w)
      <4>1. b \in Seq(Bytes) /\ r \in Seq(Bytes)
        BY <2>1
      <4> QED BY <1>1, <4>1, ConcatAssociative, SMTT(40)
    <3> QED BY <1>1, <2>1, <3>1, ConcatProperties DEF x
  <2>3. b = Following
    BY <1>3, <1>4, <1>7, <1>8, <2>1, <2>2, SameSplit
  <2> QED BY <2>3 DEF b
<1> QED BY <1>2, <1>8, <1>9

-----------------------------------------------------------------------------
(***************************************************************************)
(* The invariant is inductive: the sink.                                   *)
(***************************************************************************)
LEMMA InitInv ==
  ASSUME Init
  PROVE  CodecInv
<1>1. <<>> \in Seq(Seq(Bytes)) /\ <<>> \in Seq(Bytes) /\ stream \in Seq(Bytes)
  <2>1. stream = <<>> \/ stream \in Raw
    BY DEF Init
  <2>2. stream \in Raw => stream \in Seq(Bytes)
    BY RawAssumption
  <2>3. <<>> \in Seq(Seq(Bytes)) /\ <<>> \in Seq(Bytes)
    BY EmptySeq
  <2> QED BY <2>1, <2>2, <2>3
<1>2. TypeOK
  BY <1>1, BoundsAssumption DEF Init, TypeOK
<1>3. FramesExact
  <2>1. InFlight = <<>> \o (<<>> \o (<<>> \o stream))
    BY DEF Init, InFlight, Hand
  <2>2. <<>> \o stream = stream
    BY <1>1, ConcatEmptySeq
  <2>3. InFlight = stream /\ FramesOf(bodies) = <<>>
    BY <2>1, <2>2, FramesEmpty DEF Init
  <2> QED BY <2>2, <2>3 DEF FramesExact
<1>4. StreamIsSent
  <2>1. sent = <<>> /\ (sender = "patina" => stream = <<>>)
    BY DEF Init
  <2>2. SentBodies = <<>>
    BY <2>1 DEF SentBodies
  <2> QED BY <2>1, <2>2, FramesEmpty DEF StreamIsSent
<1>5. BodiesAreSent /\ SinkHolds /\ ReadsWhenStarved
  BY DEF Init, BodiesAreSent, SinkHolds, ReadsWhenStarved
<1>6. NoFalseRejection /\ CleanEndIsComplete
  BY DEF Init, NoFalseRejection, CleanEndIsComplete
<1> QED BY <1>2, <1>3, <1>4, <1>5, <1>6 DEF CodecInv

LEMMA QuietInv ==
  ASSUME CodecInv, UNCHANGED vars
  PROVE  CodecInv'
BY DEF CodecInv, TypeOK, FramesExact, InFlight, Hand, StreamIsSent, SentBodies, BodiesAreSent,
  Patina, SinkHolds, ReadsWhenStarved, Starved, NoFalseRejection, CleanEndIsComplete, vars

LEMMA EncodeInv ==
  ASSUME CodecInv, NEW e \in Messages, Encode(e)
  PROVE  CodecInv'
<1> DEFINE F == Framed(Encoding[e])
<1>0. /\ Encoding[e] \in Seq(Bytes) /\ F \in Seq(Bytes)
      /\ Len(F) = HeaderLen + Len(Encoding[e])
  BY EncodingFacts, FramedType
<1>1. /\ sender = "patina" /\ sender' = "patina" /\ wbuf = <<>> /\ Len(sent) < MaxSent
      /\ Len(Encoding[e]) <= cap.send /\ sent' = Append(sent, e)
      /\ stream' = stream \o F /\ wbuf' = F
      /\ UNCHANGED <<cap, wire, rbuf, body, bodies, recv>>
  BY DEF Encode
<1> HIDE DEF F
<1>2. TypeOK
  BY DEF CodecInv
<1>3. /\ sent \in Seq(Messages) /\ sent' \in Seq(Messages) /\ Len(sent') = Len(sent) + 1
      /\ sent'[Len(sent')] = e /\ \A i \in 1 .. Len(sent) : sent'[i] = sent[i]
  BY <1>1, <1>2, AppendProperties DEF TypeOK
<1>4. TypeOK'
  <2>1. stream' \in Seq(Bytes) /\ wbuf' \in Seq(Bytes)
    BY <1>0, <1>1, <1>2, BufferTypes, ConcatProperties
  <2>2. Len(sent') <= MaxSent
    BY <1>1, <1>3, BoundsAssumption
  <2> QED BY <1>1, <1>2, <1>3, <2>1, <2>2 DEF TypeOK
<1>5. Patina
  <2>1. CASE sent = <<>>
    <3>1. SentBodies = <<>>
      BY <2>1 DEF SentBodies
    <3>2. stream = <<>>
      BY <1>1, <3>1, FramesEmpty DEF CodecInv, StreamIsSent
    <3> QED BY <3>2 DEF Patina
  <2> QED BY <2>1 DEF Patina
<1>6. FramesExact'
  <2>1. /\ Hand \in Seq(Bytes) /\ rbuf \in Seq(Bytes) /\ wire \in Seq(Bytes)
        /\ InFlight \in Seq(Bytes)
    BY <1>2, BufferTypes
  <2>2. InFlight = Hand \o (rbuf \o wire)
    <3>1. wire \o wbuf = wire
      BY <1>1, <2>1, ConcatEmptySeq
    <3> QED BY <3>1 DEF InFlight
  <2>3. InFlight' = Hand \o (rbuf \o (wire \o F))
    BY <1>1 DEF InFlight, Hand
  <2>4. rbuf \o wire \in Seq(Bytes) /\ (rbuf \o wire) \o F = rbuf \o (wire \o F)
    BY <1>0, <2>1, BytesConcat, SMTT(40)
  <2>5. (Hand \o (rbuf \o wire)) \o F = Hand \o ((rbuf \o wire) \o F)
    BY <1>0, <2>1, <2>4, BytesConcat, Zenon
  <2>6. InFlight' = InFlight \o F
    BY <2>2, <2>3, <2>4, <2>5
  <2>7. FramesOf(bodies) \in Seq(Bytes)
    BY <1>2, FramesType DEF TypeOK
  <2>8. (FramesOf(bodies) \o InFlight) \o F = FramesOf(bodies) \o (InFlight \o F)
    <3>1. FramesOf(bodies) \in Seq(Bytes) /\ InFlight \in Seq(Bytes) /\ F \in Seq(Bytes)
      BY <1>0, <2>1, <2>7
    <3> QED BY <3>1, BytesConcat
  <2> QED BY <1>1, <2>6, <2>8 DEF CodecInv, FramesExact
<1>7. StreamIsSent'
  <2>1. stream = FramesOf(SentBodies) /\ \A i \in 1 .. Len(sent) : Len(Encoding[sent[i]]) <= cap.send
    BY <1>1, <1>3 DEF CodecInv, StreamIsSent
  <2>2. SentBodies' = SentBodies \o <<Encoding[e]>>
    <3>1. SentBodies = Coded(sent) /\ SentBodies' = Coded(sent')
      BY DEF SentBodies, Coded
    <3>2. /\ Coded(sent) \in Seq(Seq(Bytes)) /\ Len(Coded(sent)) = Len(sent)
          /\ Coded(sent') \in Seq(Seq(Bytes)) /\ Len(Coded(sent')) = Len(sent) + 1
          /\ \A i \in 1 .. Len(sent) : Coded(sent)[i] = Encoding[sent[i]]
          /\ \A i \in 1 .. Len(sent) + 1 : Coded(sent')[i] = Encoding[sent'[i]]
      BY <1>3, CodedType
    <3> DEFINE c == Coded(sent)
               d == Coded(sent')
    <3> HIDE DEF c, d
    <3>3. /\ Append(c, Encoding[e]) \in Seq(Seq(Bytes)) /\ Len(Append(c, Encoding[e])) = Len(c) + 1
          /\ \A i \in 1 .. Len(c) : Append(c, Encoding[e])[i] = c[i]
          /\ Append(c, Encoding[e])[Len(c) + 1] = Encoding[e]
          /\ Append(c, Encoding[e]) = c \o <<Encoding[e]>>
      BY <1>0, <3>2, AppendProperties, AppendIsConcat DEF c
    <3>4. \A i \in 1 .. Len(d) : d[i] = Append(c, Encoding[e])[i]
      <4> TAKE i \in 1 .. Len(d)
      <4>1. Len(sent) \in Nat /\ Len(c) = Len(sent) /\ Len(d) = Len(sent) + 1
        BY <1>3, <3>2 DEF c, d
      <4>2. CASE i = Len(sent) + 1
        BY <1>3, <3>2, <3>3, <4>1, <4>2 DEF d
      <4>3. CASE i \in 1 .. Len(sent)
        <5>1. d[i] = Encoding[sent'[i]] /\ sent'[i] = sent[i] /\ c[i] = Encoding[sent[i]]
          BY <1>3, <3>2, <4>1, <4>3 DEF c, d
        <5> QED BY <3>3, <4>1, <4>3, <5>1
      <4> QED BY <4>1, <4>2, <4>3
    <3>5. d = Append(c, Encoding[e])
      BY <3>2, <3>3, <3>4, SeqEqual DEF c, d
    <3> QED BY <3>1, <3>3, <3>5 DEF c, d
  <2>3. FramesOf(SentBodies \o <<Encoding[e]>>) = FramesOf(SentBodies) \o F
    <3>1. SentBodies \in Seq(Seq(Bytes)) /\ <<Encoding[e]>> \in Seq(Seq(Bytes))
      BY <1>0, <1>3, CodedType DEF SentBodies, Coded
    <3> QED BY <1>0, <3>1, FramesConcat, FramesOne DEF F
  <2>4. stream' = FramesOf(SentBodies')
    BY <1>1, <2>1, <2>2, <2>3
  <2>5. \A i \in 1 .. Len(sent') : Len(Encoding[sent'[i]]) <= cap.send
    BY <1>1, <1>3, <2>1
  <2> QED BY <1>1, <1>3, <2>4, <2>5 DEF StreamIsSent
<1>8. BodiesAreSent'
  <2>1. bodies \in Seq(Seq(Bytes))
    BY <1>2 DEF TypeOK
  <2>2. Len(bodies) <= Len(sent) /\ \A i \in 1 .. Len(bodies) : bodies[i] = Encoding[sent[i]]
    BY <1>5, <2>1 DEF CodecInv, BodiesAreSent
  <2> QED BY <1>1, <1>3, <2>1, <2>2 DEF BodiesAreSent
<1>9. SinkHolds'
  <2>1. Last(sent') = e
    BY <1>3 DEF Last
  <2>2. Len(wbuf') <= HeaderLen + Len(Encoding[e])
    BY <1>0, <1>1, HeaderAssumption
  <2> QED BY <1>1, <2>1, <2>2 DEF SinkHolds
<1>10. recv # "ended"
  BY <1>1 DEF CodecInv, ReadsWhenStarved, Ended
<1>11. ReadsWhenStarved' /\ CleanEndIsComplete'
  BY <1>1, <1>10 DEF CodecInv, ReadsWhenStarved, Starved, CleanEndIsComplete
<1>12. NoFalseRejection'
  BY <1>1, <1>5 DEF CodecInv, NoFalseRejection
<1> QED BY <1>4, <1>6, <1>7, <1>8, <1>9, <1>11, <1>12 DEF CodecInv

LEMMA EncodeRefusedInv ==
  ASSUME CodecInv, NEW e \in Messages, EncodeRefused(e)
  PROVE  CodecInv'
<1>1. /\ sender = "patina" /\ sender' = "refused" /\ wbuf = <<>>
      /\ UNCHANGED <<cap, sent, stream, wbuf, wire, rbuf, body, bodies, recv>>
  BY DEF EncodeRefused
<1>2. TypeOK' /\ FramesExact' /\ StreamIsSent' /\ BodiesAreSent'
  BY <1>1 DEF CodecInv, TypeOK, Ended, FramesExact, InFlight, Hand, StreamIsSent, SentBodies,
              BodiesAreSent, Patina
<1>3. SinkHolds' /\ ReadsWhenStarved' /\ NoFalseRejection' /\ CleanEndIsComplete'
  BY <1>1 DEF CodecInv, SinkHolds, ReadsWhenStarved, Starved, Ended, NoFalseRejection, Patina,
              CleanEndIsComplete
<1> QED BY <1>2, <1>3 DEF CodecInv

LEMMA DropSinkInv ==
  ASSUME CodecInv, DropSink
  PROVE  CodecInv'
<1>1. /\ sender \in {"patina", "foreign"}
      /\ (sender' = "closed" /\ wbuf = <<>>) \/ sender' = "dropped"
      /\ UNCHANGED <<cap, sent, stream, wbuf, wire, rbuf, body, bodies, recv>>
  BY DEF DropSink
<1>2. TypeOK' /\ FramesExact' /\ StreamIsSent' /\ BodiesAreSent'
  BY <1>1 DEF CodecInv, TypeOK, Ended, FramesExact, InFlight, Hand, StreamIsSent, SentBodies,
              BodiesAreSent, Patina
<1>3. SinkHolds' /\ ReadsWhenStarved' /\ NoFalseRejection' /\ CleanEndIsComplete'
  BY <1>1 DEF CodecInv, SinkHolds, ReadsWhenStarved, Starved, Ended, NoFalseRejection, Patina,
              CleanEndIsComplete
<1> QED BY <1>2, <1>3 DEF CodecInv

LEMMA FlushInv ==
  ASSUME CodecInv, Flush
  PROVE  CodecInv'
<1>1. PICK k \in 1 .. Len(wbuf) : /\ wire' = wire \o SubSeq(wbuf, 1, k)
                                  /\ wbuf' = SubSeq(wbuf, k + 1, Len(wbuf))
  BY DEF Flush
<1>2. /\ sender \in {"patina", "foreign"}
      /\ UNCHANGED <<cap, sender, sent, stream, rbuf, body, bodies, recv>>
  BY DEF Flush
<1>3. TypeOK /\ wire \in Seq(Bytes) /\ wbuf \in Seq(Bytes)
  BY DEF CodecInv, TypeOK
<1> DEFINE p == SubSeq(wbuf, 1, k)
           r == SubSeq(wbuf, k + 1, Len(wbuf))
<1>4. p \in Seq(Bytes) /\ r \in Seq(Bytes) /\ Len(r) <= Len(wbuf) /\ p \o r = wbuf
  <2>1. k \in 0 .. Len(wbuf) /\ Len(wbuf) - k <= Len(wbuf)
    BY <1>1, <1>3
  <2> QED BY <1>3, <2>1, CutInTwo
<1> HIDE DEF p, r
<1>5. wire' = wire \o p /\ wbuf' = r
  BY <1>1 DEF p, r
<1>6. wire' \o wbuf' = wire \o wbuf
  <2>1. (wire \o p) \o r = wire \o (p \o r)
    <3>1. p \in Seq(Bytes) /\ r \in Seq(Bytes)
      BY <1>4
    <3> QED BY <1>3, <3>1, BytesConcat, Zenon
  <2> QED BY <1>4, <1>5, <2>1
<1>7. TypeOK'
  <2>1. wire' \in Seq(Bytes) /\ wbuf' \in Seq(Bytes)
    BY <1>3, <1>4, <1>5, BytesConcat
  <2> QED BY <1>2, <1>3, <2>1 DEF TypeOK
<1>8. FramesExact'
  BY <1>2, <1>6 DEF CodecInv, FramesExact, InFlight, Hand
<1>9. StreamIsSent' /\ BodiesAreSent'
  BY <1>2 DEF CodecInv, StreamIsSent, SentBodies, BodiesAreSent, Patina
<1>10. SinkHolds'
  <2>1. sent # <<>> => Len(wbuf') <= HeaderLen + Len(Encoding[Last(sent)])
    <3> HAVE sent # <<>>
    <3>1. Len(wbuf) <= HeaderLen + Len(Encoding[Last(sent)])
      BY DEF CodecInv, SinkHolds
    <3>2. Len(Encoding[Last(sent)]) \in Nat
      <4>1. Last(sent) \in Messages
        BY <1>3 DEF TypeOK, Last
      <4> QED BY <4>1, EncodingFacts
    <3>3. Len(r) \in Nat /\ Len(wbuf) \in Nat
      BY <1>3, <1>4
    <3> QED BY <1>4, <1>5, <3>1, <3>2, <3>3, HeaderAssumption
  <2> QED BY <1>2, <2>1 DEF SinkHolds
<1>11. ReadsWhenStarved' /\ NoFalseRejection' /\ CleanEndIsComplete'
  BY <1>2 DEF CodecInv, ReadsWhenStarved, Starved, Ended, NoFalseRejection, Patina,
              CleanEndIsComplete
<1> QED BY <1>7, <1>8, <1>9, <1>10, <1>11 DEF CodecInv

-----------------------------------------------------------------------------
(***************************************************************************)
(* The invariant is inductive: the stream.                                 *)
(***************************************************************************)
LEMMA DecodeHeadInv ==
  ASSUME CodecInv, DecodeHead
  PROVE  CodecInv'
<1>1. Aligned /\ TypeOK /\ SinkHolds /\ rbuf \in Seq(Bytes)
  BY DEF CodecInv, Aligned, TypeOK
<1>2. recv = "decode" /\ body = AtHead /\ Len(rbuf) >= HeaderLen /\ Len(rbuf) \in Nat
  BY <1>1, HeaderAssumption DEF DecodeHead, HeadReady, Starved
<1> DEFINE h == SubSeq(rbuf, 1, HeaderLen)
           r == SubSeq(rbuf, HeaderLen + 1, Len(rbuf))
           w == wire \o wbuf
<1>3. h \in Seq(Bytes) /\ Len(h) = HeaderLen /\ r \in Seq(Bytes) /\ h \o r = rbuf
  <2>1. HeaderLen \in 0 .. Len(rbuf)
    BY <1>2, HeaderAssumption
  <2> QED BY <1>1, <2>1, CutInTwo
<1>4. Prefix \in 0 .. (AtHead - 1) /\ Header(Prefix) = h
  BY <1>3, HeaderOfLength DEF Prefix
<1>5. AtHead \in Nat /\ cap.recv \in Nat /\ cap.send \in Nat
  BY <1>1, CapFacts
<1>6. CASE Prefix <= cap.recv
  <2>1. /\ body' = Prefix /\ rbuf' = r
        /\ UNCHANGED <<cap, sender, sent, stream, wbuf, wire, bodies, recv>>
    BY <1>6 DEF DecodeHead, TakeHead, sendVars
  <2>2. body' # AtHead /\ body' \in 0 .. cap.recv
    BY <1>4, <1>5, <1>6, <2>1
  <2>3. TypeOK'
    BY <1>1, <1>3, <2>1, <2>2 DEF TypeOK
  <2>4. InFlight' = InFlight
    <3>1. InFlight' = h \o (r \o w)
      BY <1>4, <2>1, <2>2 DEF InFlight, Hand
    <3>2. InFlight = <<>> \o (rbuf \o w)
      BY <1>2 DEF InFlight, Hand
    <3>3. w \in Seq(Bytes) /\ rbuf \o w \in Seq(Bytes)
      BY <1>1, BufferTypes
    <3> HIDE DEF h, r, w
    <3>4. h \in Seq(Bytes) /\ r \in Seq(Bytes)
      BY <1>3
    <3>5. (h \o r) \o w = h \o (r \o w)
      BY <3>3, <3>4, BytesConcat
    <3>6. <<>> \o (rbuf \o w) = rbuf \o w
      BY <3>3, BytesConcat
    <3> QED BY <1>3, <3>1, <3>2, <3>5, <3>6
  <2>5. FramesExact'
    BY <2>1, <2>4 DEF CodecInv, FramesExact
  <2>6. StreamIsSent' /\ BodiesAreSent' /\ SinkHolds'
    BY <2>1 DEF CodecInv, StreamIsSent, SentBodies, BodiesAreSent, Patina, SinkHolds
  <2>7. ReadsWhenStarved' /\ NoFalseRejection' /\ CleanEndIsComplete'
    BY <1>2, <2>1 DEF ReadsWhenStarved, NoFalseRejection, CleanEndIsComplete
  <2> QED BY <2>3, <2>5, <2>6, <2>7 DEF CodecInv
<1>7. CASE ~(Prefix <= cap.recv)
  <2>1. /\ recv' = "error"
        /\ UNCHANGED <<cap, sender, sent, stream, wbuf, wire, rbuf, body, bodies>>
    BY <1>7 DEF DecodeHead, Fail, sendVars
  <2>2. Patina => cap.send > cap.recv
    <3> HAVE Patina
    <3>1. Len(bodies) # Len(sent) /\ Prefix = Len(Following)
      BY <1>1, <1>2, KnownHead
    <3>2. Len(Following) <= cap.send
      BY <1>1, <3>1, FollowingFrame
    <3> QED BY <1>4, <1>5, <1>7, <3>1, <3>2
  <2>3. TypeOK' /\ FramesExact' /\ StreamIsSent' /\ BodiesAreSent' /\ SinkHolds'
    BY <2>1 DEF CodecInv, TypeOK, FramesExact, InFlight, Hand, StreamIsSent, SentBodies,
                BodiesAreSent, Patina, SinkHolds
  <2>4. NoFalseRejection'
    BY <2>1, <2>2 DEF NoFalseRejection, Patina
  <2>5. ReadsWhenStarved' /\ CleanEndIsComplete'
    BY <2>1 DEF ReadsWhenStarved, CleanEndIsComplete
  <2> QED BY <2>3, <2>4, <2>5 DEF CodecInv
<1> QED BY <1>6, <1>7

LEMMA DecodeNoneInv ==
  ASSUME CodecInv, DecodeNone
  PROVE  CodecInv'
<1>1. /\ recv' = "read" /\ Starved
      /\ UNCHANGED <<cap, sender, sent, stream, wbuf, wire, rbuf, body, bodies>>
  BY DEF DecodeNone, sendVars
<1>2. TypeOK' /\ FramesExact' /\ StreamIsSent' /\ BodiesAreSent' /\ SinkHolds'
  BY <1>1 DEF CodecInv, TypeOK, FramesExact, InFlight, Hand, StreamIsSent, SentBodies,
              BodiesAreSent, Patina, SinkHolds
<1>3. ReadsWhenStarved' /\ NoFalseRejection' /\ CleanEndIsComplete'
  BY <1>1 DEF ReadsWhenStarved, Starved, NoFalseRejection, CleanEndIsComplete
<1> QED BY <1>2, <1>3 DEF CodecInv

LEMMA ReadInv ==
  ASSUME CodecInv, Read
  PROVE  CodecInv'
<1>1. PICK k \in 1 .. Len(wire) : /\ rbuf' = rbuf \o SubSeq(wire, 1, k)
                                  /\ wire' = SubSeq(wire, k + 1, Len(wire))
  BY DEF Read
<1>2. /\ recv' = "decode" /\ UNCHANGED <<cap, sender, sent, stream, wbuf, body, bodies>>
  BY DEF Read, sendVars
<1>3. TypeOK /\ wire \in Seq(Bytes) /\ wbuf \in Seq(Bytes) /\ rbuf \in Seq(Bytes)
  BY DEF CodecInv, TypeOK
<1> DEFINE p == SubSeq(wire, 1, k)
           r == SubSeq(wire, k + 1, Len(wire))
<1>4. p \in Seq(Bytes) /\ r \in Seq(Bytes) /\ p \o r = wire
  <2>1. k \in 0 .. Len(wire)
    BY <1>1, <1>3
  <2> QED BY <1>3, <2>1, CutInTwo
<1> HIDE DEF p, r
<1>5. rbuf' = rbuf \o p /\ wire' = r
  BY <1>1 DEF p, r
<1>6. rbuf' \o (wire' \o wbuf') = rbuf \o (wire \o wbuf)
  <2>1. p \in Seq(Bytes) /\ r \in Seq(Bytes) /\ r \o wbuf \in Seq(Bytes)
    BY <1>3, <1>4, BytesConcat
  <2>2. (rbuf \o p) \o (r \o wbuf) = rbuf \o (p \o (r \o wbuf))
    <3> DEFINE q == r \o wbuf
    <3>1. q \in Seq(Bytes) /\ p \in Seq(Bytes) /\ rbuf \in Seq(Bytes)
      BY <1>3, <2>1
    <3> HIDE DEF q
    <3>2. (rbuf \o p) \o q = rbuf \o (p \o q)
      BY <3>1, BytesConcat
    <3> QED BY <3>2 DEF q
  <2>3. (p \o r) \o wbuf = p \o (r \o wbuf)
    BY <1>3, <2>1, BytesConcat, Zenon
  <2> QED BY <1>2, <1>4, <1>5, <2>2, <2>3
<1>7. TypeOK'
  <2>1. rbuf' \in Seq(Bytes) /\ wire' \in Seq(Bytes)
    BY <1>3, <1>4, <1>5, BytesConcat
  <2> QED BY <1>2, <1>3, <2>1 DEF TypeOK
<1>8. FramesExact'
  BY <1>2, <1>6 DEF CodecInv, FramesExact, InFlight, Hand
<1>9. StreamIsSent' /\ BodiesAreSent' /\ SinkHolds'
  BY <1>2 DEF CodecInv, StreamIsSent, SentBodies, BodiesAreSent, Patina, SinkHolds
<1>10. ReadsWhenStarved' /\ NoFalseRejection' /\ CleanEndIsComplete'
  BY <1>2 DEF ReadsWhenStarved, NoFalseRejection, CleanEndIsComplete
<1> QED BY <1>7, <1>8, <1>9, <1>10 DEF CodecInv

LEMMA DecodeBodyInv ==
  ASSUME CodecInv, DecodeBody
  PROVE  CodecInv'
<1>1. /\ Aligned /\ TypeOK /\ SinkHolds /\ rbuf \in Seq(Bytes)
      /\ bodies \in Seq(Seq(Bytes)) /\ sent \in Seq(Messages)
  BY DEF CodecInv, Aligned, TypeOK
<1>2. body # AtHead /\ body \in Nat /\ Len(rbuf) >= body /\ Len(rbuf) \in Nat
  <2>1. body # AtHead /\ ~Starved
    BY DEF DecodeBody, BodyReady
  <2>2. body \in Nat /\ Len(rbuf) \in Nat
    BY <1>1, CapFacts
  <2> QED BY <2>1, <2>2 DEF Starved
<1> DEFINE b == SubSeq(rbuf, 1, body)
           r == SubSeq(rbuf, body + 1, Len(rbuf))
           w == wire \o wbuf
<1>3. b \in Seq(Bytes) /\ Len(b) = body /\ r \in Seq(Bytes) /\ b \o r = rbuf
  <2>1. body \in 0 .. Len(rbuf)
    BY <1>2
  <2> QED BY <1>1, <2>1, CutInTwo
<1>4. /\ bodies' = Append(bodies, b) /\ rbuf' = r /\ body' = AtHead
      /\ recv' \in {"decode", "error"}
      /\ recv' = "error" => ~\E e \in Messages : Decodes(b, e)
      /\ UNCHANGED <<cap, sender, sent, stream, wbuf, wire>>
  BY DEF DecodeBody, Cut, sendVars
<1>5. w \in Seq(Bytes) /\ Hand = Header(body) /\ Hand \in Seq(Bytes) /\ InFlight = Hand \o (rbuf \o w)
  BY <1>1, <1>2, BufferTypes DEF InFlight, Hand
<1>6. InFlight' = <<>> \o (r \o w)
  BY <1>4 DEF InFlight, Hand
<1>7. Patina => Len(bodies) < Len(sent) /\ b = Following
  <2> HAVE Patina
  <2>1. Len(bodies) # Len(sent) /\ b = Following
    BY <1>1, <1>2, KnownBody
  <2>2. Len(bodies) <= Len(sent) /\ Len(bodies) \in Nat /\ Len(sent) \in Nat
    BY <1>1 DEF Aligned, BodiesAreSent
  <2> QED BY <2>1, <2>2
<1> HIDE DEF b, r, w
<1>8. /\ bodies' \in Seq(Seq(Bytes)) /\ Len(bodies') = Len(bodies) + 1
      /\ bodies'[Len(bodies) + 1] = b /\ \A i \in 1 .. Len(bodies) : bodies'[i] = bodies[i]
      /\ bodies' = bodies \o <<b>>
  BY <1>1, <1>3, <1>4, AppendProperties, AppendIsConcat
<1>9. TypeOK'
  BY <1>1, <1>3, <1>4, <1>8 DEF TypeOK
<1>10. FramesExact'
  <2> DEFINE fb == FramesOf(bodies)
             fh == Header(body)
             rw == r \o w
  <2>1. FramesOf(bodies') = fb \o (fh \o b)
    <3>1. <<b>> \in Seq(Seq(Bytes))
      BY <1>3
    <3>2. FramesOf(bodies \o <<b>>) = FramesOf(bodies) \o Framed(b)
      BY <1>1, <1>3, <3>1, FramesConcat, FramesOne
    <3> QED BY <1>3, <1>8, <3>2 DEF Framed
  <2>2. fb \in Seq(Bytes) /\ fh \in Seq(Bytes) /\ b \in Seq(Bytes) /\ r \in Seq(Bytes)
    BY <1>1, <1>3, <1>5, FramesType
  <2>3. stream = fb \o (fh \o (rbuf \o w))
    BY <1>5 DEF CodecInv, FramesExact
  <2> HIDE DEF fb, fh
  <2>4. (b \o r) \o w = b \o (r \o w) /\ r \o w \in Seq(Bytes)
    BY <1>5, <2>2, BytesConcat, SMTT(40)
  <2>5. rbuf \o w = b \o rw /\ rw \in Seq(Bytes) /\ InFlight' = rw
    BY <1>3, <1>6, <2>4, BytesConcat
  <2> HIDE DEF rw
  <2>6. fh \o (b \o rw) = (fh \o b) \o rw /\ fh \o b \in Seq(Bytes)
    BY <2>2, <2>5, BytesConcat
  <2>7. (fb \o (fh \o b)) \o rw = fb \o ((fh \o b) \o rw)
    <3> DEFINE hb == fh \o b
    <3>1. hb \in Seq(Bytes)
      BY <2>6
    <3> HIDE DEF hb
    <3>2. (fb \o hb) \o rw = fb \o (hb \o rw)
      BY <2>2, <2>5, <3>1, BytesConcat
    <3> QED BY <3>2 DEF hb
  <2>8. stream = FramesOf(bodies') \o InFlight'
    BY <2>1, <2>3, <2>5, <2>6, <2>7
  <2> QED BY <1>4, <2>8 DEF FramesExact
<1>11. StreamIsSent' /\ SinkHolds'
  BY <1>4 DEF CodecInv, StreamIsSent, SentBodies, SinkHolds
<1>12. BodiesAreSent'
  <2> SUFFICES ASSUME Patina
               PROVE  /\ Len(bodies') <= Len(sent')
                      /\ \A i \in 1 .. Len(bodies') : bodies'[i] = Encoding[sent'[i]]
    BY <1>4, <1>8 DEF BodiesAreSent, Patina
  <2>1. \A i \in 1 .. Len(bodies) : bodies[i] = Encoding[sent[i]]
    BY <1>1 DEF Aligned, BodiesAreSent
  <2>2. Len(bodies) \in Nat /\ Len(sent) \in Nat /\ Len(bodies) < Len(sent)
    BY <1>1, <1>7
  <2>3. b = Encoding[sent[Len(bodies) + 1]]
    BY <1>7 DEF Following
  <2>4. ASSUME NEW i \in 1 .. Len(bodies')
        PROVE  bodies'[i] = Encoding[sent[i]]
    <3>1. CASE i = Len(bodies) + 1
      BY <1>8, <2>3, <3>1
    <3>2. CASE i \in 1 .. Len(bodies)
      BY <1>8, <2>1, <3>2
    <3> QED BY <1>8, <2>2, <3>1, <3>2
  <2> QED BY <1>4, <1>8, <2>2, <2>4
<1>13. NoFalseRejection'
  <2> SUFFICES ASSUME Patina
               PROVE  recv' # "error"
    BY <1>4 DEF NoFalseRejection, Patina
  <2>1. Len(bodies) + 1 \in 1 .. Len(sent)
    BY <1>1, <1>7
  <2>2. sent[Len(bodies) + 1] \in Messages
    BY <1>1, <2>1, ElementOfSeq
  <2>3. Decodes(b, sent[Len(bodies) + 1])
    BY <1>3, <1>7, <2>2 DEF Decodes, IsPrefix, Following
  <2> QED BY <1>4, <2>2, <2>3
<1>14. ReadsWhenStarved' /\ CleanEndIsComplete'
  BY <1>4 DEF ReadsWhenStarved, CleanEndIsComplete
<1> QED BY <1>9, <1>10, <1>11, <1>12, <1>13, <1>14 DEF CodecInv

(* At the end of the socket, with a Patina peer: either all was decoded, or  *)
(* the sink was dropped with part of the last frame, or some of that frame's *)
(* bytes are left over.                                                      *)
LEMMA EofFacts ==
  ASSUME CodecInv, AtEof, Patina
  PROVE  /\ rbuf # <<>> => sender = "dropped"
         /\ \/ Len(bodies) = Len(sent)
            \/ /\ sender = "dropped"
               /\ rbuf = <<>> =>
                    /\ Len(bodies) = Len(sent) - 1
                    /\ Len(wbuf) \in {Len(Encoding[Last(sent)]),
                                      Len(Framed(Encoding[Last(sent)]))}
<1>1. /\ Aligned /\ TypeOK /\ wire = <<>> /\ sender \in Ended /\ Starved
      /\ sender # "dropped" => wbuf = <<>>
  BY DEF CodecInv, AtEof, Aligned, ReadsWhenStarved, SinkHolds, Ended
<1>2. /\ Len(rbuf) \in Nat /\ Len(wbuf) \in Nat /\ HeaderLen \in Nat \ {0}
      /\ InFlight \in Seq(Bytes)
      /\ Len(Hand) = IF body = AtHead THEN 0 ELSE HeaderLen
      /\ Len(InFlight) = Len(Hand) + Len(rbuf) + Len(wbuf)
  BY <1>1, BufferTypes, HeaderAssumption
<1>3. body = AtHead => Len(rbuf) < HeaderLen
  BY <1>1 DEF Starved
<1>4. body # AtHead => Len(rbuf) < body
  BY <1>1 DEF Starved
<1>5. rbuf # <<>> => Len(rbuf) > 0
  BY <1>1, BufferTypes
<1>6. CASE Len(bodies) = Len(sent)
  <2>1. Len(InFlight) = 0
    BY <1>1, <1>6, NoneLeft
  <2>2. Len(rbuf) = 0
    BY <1>2, <2>1
  <2> QED BY <1>5, <1>6, <2>2
<1>7. CASE Len(bodies) # Len(sent)
  <2>1. PICK more \in Seq(Bytes) :
          /\ InFlight = Framed(Following) \o more
          /\ Len(bodies) + 1 = Len(sent) => more = <<>>
          /\ Len(bodies) + 1 # Len(sent) =>
               Len(more) >= HeaderLen + Len(Encoding[Last(sent)])
    BY <1>1, <1>7, FollowingFrame
  <2>2. Following \in Seq(Bytes) /\ Len(Following) \in Nat
    BY <1>1, <1>7, FollowingFrame
  <2>3. Len(InFlight) = HeaderLen + Len(Following) + Len(more) /\ Len(more) \in Nat
    <3>1. Framed(Following) \in Seq(Bytes) /\ Len(Framed(Following)) = HeaderLen + Len(Following)
      BY <2>2, FramedType
    <3> DEFINE f == Framed(Following)
    <3> HIDE DEF f
    <3>2. Len(f \o more) = Len(f) + Len(more)
      <4>1. f \in Seq(Bytes) /\ more \in Seq(Bytes)
        BY <2>1, <3>1 DEF f
      <4> QED BY <4>1, ConcatProperties
    <3> QED BY <2>1, <3>1, <3>2 DEF f
  <2>4. body # AtHead => body = Len(Following)
    BY <1>1, KnownBody
  <2>5. Len(wbuf) > Len(more)
    BY <1>2, <1>3, <1>4, <2>2, <2>3, <2>4
  <2>6. sender = "dropped"
    <3>1. Len(wbuf) # 0
      BY <1>2, <2>3, <2>5
    <3> QED BY <1>1, <3>1
  <2>7. /\ sent \in Seq(Messages) /\ Len(sent) \in Nat /\ Len(bodies) \in Nat
        /\ Len(bodies) < Len(sent)
    BY <1>1, <1>7 DEF Aligned, TypeOK, BodiesAreSent
  <2>8. /\ Last(sent) \in Messages /\ Encoding[Last(sent)] \in Seq(Bytes)
        /\ Len(Encoding[Last(sent)]) \in Nat
    <3>1. Last(sent) \in Messages
      BY <2>7 DEF Last
    <3> QED BY <3>1, EncodingFacts
  <2>9. Len(bodies) + 1 = Len(sent)
    <3>1. Len(wbuf) <= HeaderLen + Len(Encoding[Last(sent)])
      BY <2>7 DEF CodecInv, SinkHolds
    <3> QED BY <1>2, <2>1, <2>3, <2>5, <2>8, <3>1
  <2>10. Following = Encoding[Last(sent)] /\ Len(more) = 0
    BY <2>1, <2>7, <2>9 DEF Following, Last
  <2>11. Len(Framed(Encoding[Last(sent)])) = HeaderLen + Len(Encoding[Last(sent)])
    BY <2>8, FramedType
  <2>12. rbuf = <<>> => Len(wbuf) \in {Len(Encoding[Last(sent)]), Len(Framed(Encoding[Last(sent)]))}
    <3> HAVE rbuf = <<>>
    <3>1. Len(rbuf) = 0
      OBVIOUS
    <3>2. Len(Hand) + Len(wbuf) = HeaderLen + Len(Encoding[Last(sent)])
      BY <1>2, <2>3, <2>8, <2>10, <3>1
    <3> QED BY <1>2, <2>8, <2>11, <3>2
  <2>13. Len(bodies) = Len(sent) - 1
    BY <2>7, <2>9
  <2> QED BY <2>6, <2>12, <2>13
<1> QED BY <1>6, <1>7

LEMMA DecodeEofInv ==
  ASSUME CodecInv, DecodeEof
  PROVE  CodecInv'
<1>1. /\ AtEof /\ sender \in Ended
      /\ recv' = IF rbuf = <<>> THEN "ended" ELSE "error"
      /\ UNCHANGED <<cap, sender, sent, stream, wbuf, wire, rbuf, body, bodies>>
  BY DEF DecodeEof, AtEof, sendVars
<1>2. TypeOK' /\ FramesExact' /\ StreamIsSent' /\ BodiesAreSent' /\ SinkHolds'
  BY <1>1 DEF CodecInv, TypeOK, FramesExact, InFlight, Hand, StreamIsSent, SentBodies,
              BodiesAreSent, Patina, SinkHolds
<1>3. ReadsWhenStarved'
  BY <1>1 DEF ReadsWhenStarved
<1>4. NoFalseRejection'
  BY <1>1, EofFacts DEF NoFalseRejection, Patina
<1>5. CleanEndIsComplete'
  <2>1. Patina' <=> Patina
    BY <1>1 DEF Patina
  <2>2. recv' = "ended" /\ Patina =>
          \/ Len(bodies) = Len(sent)
          \/ /\ sender = "dropped" /\ Len(bodies) = Len(sent) - 1
             /\ Len(wbuf) \in {Len(Encoding[Last(sent)]), Len(Framed(Encoding[Last(sent)]))}
    BY <1>1, EofFacts
  <2> QED BY <1>1, <2>1, <2>2 DEF CleanEndIsComplete
<1> QED BY <1>2, <1>3, <1>4, <1>5 DEF CodecInv

LEMMA NextInv ==
  ASSUME CodecInv, [Next]_vars
  PROVE  CodecInv'
<1>1. CASE UNCHANGED vars
  BY <1>1, QuietInv
<1>2. CASE Flush \/ DropSink
  BY <1>2, FlushInv, DropSinkInv
<1>3. CASE \E e \in Messages : Encode(e) \/ EncodeRefused(e)
  BY <1>3, EncodeInv, EncodeRefusedInv
<1>4. CASE DecodeHead \/ DecodeBody
  BY <1>4, DecodeHeadInv, DecodeBodyInv
<1>5. CASE DecodeNone \/ Read \/ DecodeEof
  BY <1>5, DecodeNoneInv, ReadInv, DecodeEofInv
<1> QED BY <1>1, <1>2, <1>3, <1>4, <1>5 DEF Next, Sink, Decoder

-----------------------------------------------------------------------------
(***************************************************************************)
(* The theorems.                                                           *)
(***************************************************************************)
(* The inductive invariant of the codec holds in every reachable state,    *)
(* whatever is sent and however the bytes are cut (codec.rs).              *)
THEOREM CodecInvariant == Spec => []CodecInv
<1>1. Init => CodecInv
  BY InitInv
<1>2. CodecInv /\ [Next]_vars => CodecInv'
  BY NextInv
<1> QED BY <1>1, <1>2, PTL DEF Spec

(* Type correctness: no body longer than the cap is ever waited for.       *)
THEOREM TypeCorrect == Spec => []TypeOK
<1>1. CodecInv => TypeOK
  BY DEF CodecInv
<1> QED BY <1>1, CodecInvariant, PTL

(* The frames cut out, the header in hand and the bytes on their way are   *)
(* the stream as it was written, for any peer (WireCodec::decode).         *)
THEOREM FramesAreExact == Spec => []FramesExact
<1>1. CodecInv => FramesExact
  BY DEF CodecInv
<1> QED BY <1>1, CodecInvariant, PTL

(* What is decoded is what was encoded, in order, none lost or merged      *)
(* (WireCodec::encode and decode).                                         *)
THEOREM DecodesInOrder == Spec => []InOrder
<1>1. CodecInv => InOrder
  <2> SUFFICES ASSUME CodecInv, Patina
               PROVE  /\ Len(bodies) <= Len(sent)
                      /\ \A i \in DOMAIN bodies : Decodes(bodies[i], sent[i])
    BY DEF InOrder
  <2>1. /\ bodies \in Seq(Seq(Bytes)) /\ Len(bodies) <= Len(sent)
        /\ \A i \in DOMAIN bodies : bodies[i] = Encoding[sent[i]]
    BY DEF CodecInv, TypeOK, BodiesAreSent
  <2>2. ASSUME NEW i \in DOMAIN bodies
        PROVE  Decodes(bodies[i], sent[i])
    <3>1. bodies[i] \in Seq(Bytes) /\ bodies[i] = Encoding[sent[i]]
      BY <2>1
    <3>2. Len(bodies[i]) \in Nat
      BY <3>1
    <3> QED BY <3>1, <3>2 DEF Decodes, IsPrefix
  <2> QED BY <2>1, <2>2
<1> QED BY <1>1, CodecInvariant, PTL

(* The decoder reads on only while it lacks part of a header or of a body  *)
(* no longer than the cap, whatever the peer's prefix says.                *)
THEOREM BufferIsBounded == Spec => []BufferBounded
<1>1. CodecInv => BufferBounded
  <2> SUFFICES ASSUME CodecInv, recv = "read"
               PROVE  Len(rbuf) < HeaderLen \/ Len(rbuf) < cap.recv
    BY DEF BufferBounded
  <2>1. TypeOK /\ Starved
    BY DEF CodecInv, ReadsWhenStarved
  <2>2. Len(rbuf) \in Nat /\ cap.recv \in Nat /\ body \in Nat
    BY <2>1, BufferTypes, CapFacts
  <2>3. body # AtHead => body <= cap.recv
    BY <2>1, CapFacts
  <2> QED BY <2>1, <2>2, <2>3 DEF Starved
<1> QED BY <1>1, CodecInvariant, PTL

(* A Patina peer whose cap is not larger is never rejected, unless its     *)
(* sink was dropped in the middle of a send.                               *)
THEOREM NeverFalselyRejected == Spec => []NoFalseRejection
<1>1. CodecInv => NoFalseRejection
  BY DEF CodecInv
<1> QED BY <1>1, CodecInvariant, PTL

(* A stream that ends cleanly has delivered every envelope, except one of  *)
(* which no byte of the body was written (decode_eof).                     *)
THEOREM CleanEndsAreComplete == Spec => []CleanEndIsComplete
<1>1. CodecInv => CleanEndIsComplete
  BY DEF CodecInv
<1> QED BY <1>1, CodecInvariant, PTL
=============================================================================
