---------------------------- MODULE ServiceProofs ---------------------------
(***************************************************************************)
(* Proofs about Service: the payload helpers (what decode makes of what    *)
(* encode wrote), the handler table, and the inductive invariant with the  *)
(* properties that follow from it.                                         *)
(***************************************************************************)
EXTENDS Service, ServiceMacroProofs

-----------------------------------------------------------------------------
(***************************************************************************)
(* decode_from_slice, field by field.                                      *)
(***************************************************************************)
(* One way to read: the tuple v, with the bytes p left. *)
Only(v, p) == {[value |-> v, rest |-> p]}

(* f holds the ways to read the first fields. *)
Reads(f, ts, p, n) ==
  f = [k \in 0 .. n |-> IF k = 0 THEN Only(<<>>, p) ELSE ReadField(f[k - 1], ts[k])]

LEMMA ReadsStep ==
  ASSUME NEW f, NEW ts, NEW p, NEW n \in Nat, Reads(f, ts, p, n), NEW k \in 0 .. n
  PROVE  f[k] = IF k = 0 THEN Only(<<>>, p) ELSE ReadField(f[k - 1], ts[k])
<1> DEFINE h == [j \in 0 .. n |-> IF j = 0 THEN Only(<<>>, p) ELSE ReadField(f[j - 1], ts[j])]
<1>1. h[k] = IF k = 0 THEN Only(<<>>, p) ELSE ReadField(f[k - 1], ts[k])
  OBVIOUS
<1>2. f = h
  BY DEF Reads
<1> HIDE DEF h
<1>3. f[k] = h[k]
  BY <1>2
<1> QED BY <1>1, <1>3

LEMMA ReadsExist ==
  ASSUME NEW ts, NEW p
  PROVE  \A n \in Nat : \E f : Reads(f, ts, p, n)
<1> DEFINE T == {n \in Nat : \E f : Reads(f, ts, p, n)}
<1>1. 0 \in T
  <2> DEFINE f == [k \in 0 .. 0 |-> Only(<<>>, p)]
  <2>1. f = [k \in 0 .. 0 |-> IF k = 0 THEN Only(<<>>, p) ELSE ReadField(f[k - 1], ts[k])]
    OBVIOUS
  <2> HIDE DEF f
  <2>2. Reads(f, ts, p, 0)
    BY <2>1 DEF Reads
  <2> QED BY <2>2
<1>2. ASSUME NEW n \in Nat, n \in T
      PROVE  n + 1 \in T
  <2>1. PICK f : Reads(f, ts, p, n)
    BY <1>2
  <2> DEFINE g == [k \in 0 .. n + 1 |-> IF k <= n THEN f[k] ELSE ReadField(f[k - 1], ts[k])]
             h == [k \in 0 .. n + 1 |-> IF k = 0 THEN Only(<<>>, p) ELSE ReadField(g[k - 1], ts[k])]
  <2>2. ASSUME NEW k \in 0 .. n + 1
        PROVE  g[k] = h[k]
    <3>1. CASE k = n + 1
      BY <3>1
    <3>2. CASE k <= n
      <4>1. f[k] = IF k = 0 THEN Only(<<>>, p) ELSE ReadField(f[k - 1], ts[k])
        BY <2>1, <3>2, ReadsStep
      <4> QED BY <3>2, <4>1
    <3> QED BY <3>1, <3>2
  <2>3. g = h
    BY <2>2
  <2>4. Reads(g, ts, p, n + 1)
    BY <2>3 DEF Reads
  <2> QED BY <2>4
<1> HIDE DEF T
<1>3. \A n \in Nat : n \in T
  BY <1>1, <1>2, NatSetInduction
<1> QED BY <1>3 DEF T

LEMMA ReadsAgree ==
  ASSUME NEW ts, NEW us, NEW p, NEW n \in Nat, \A i \in 1 .. n : ts[i] = us[i],
         NEW f, Reads(f, ts, p, n), NEW g, NEW m \in Nat, n <= m, Reads(g, us, p, m)
  PROVE  \A k \in 0 .. n : f[k] = g[k]
<1> DEFINE T == {k \in Nat : k <= n => f[k] = g[k]}
<1>1. 0 \in T
  BY ReadsStep
<1>2. ASSUME NEW k \in Nat, k \in T
      PROVE  k + 1 \in T
  <2> SUFFICES ASSUME k + 1 <= n
               PROVE  f[k + 1] = g[k + 1]
    OBVIOUS
  <2>1. (k + 1) - 1 = k /\ k + 1 # 0 /\ k + 1 \in 0 .. n /\ k + 1 \in 0 .. m /\ k + 1 \in 1 .. n
    OBVIOUS
  <2>2. f[k + 1] = ReadField(f[k], ts[k + 1])
    BY <2>1, ReadsStep
  <2>3. g[k + 1] = ReadField(g[k], us[k + 1])
    BY <2>1, ReadsStep
  <2>4. f[k] = g[k] /\ ts[k + 1] = us[k + 1]
    BY <1>2, <2>1
  <2> QED BY <2>2, <2>3, <2>4
<1> HIDE DEF T
<1>3. \A k \in Nat : k \in T
  BY <1>1, <1>2, NatSetInduction
<1> QED BY <1>3 DEF T

LEMMA ReadIs ==
  ASSUME NEW ts, NEW p, Len(ts) \in Nat
  PROVE  \E f : Reads(f, ts, p, Len(ts)) /\ Read(ts, p) = f[Len(ts)]
<1> DEFINE f == CHOOSE g : Reads(g, ts, p, Len(ts))
<1>1. Reads(f, ts, p, Len(ts))
  BY ReadsExist
<1>2. Read(ts, p) = f[Len(ts)]
  BY DEF Read, Reads, Only
<1> QED BY <1>1, <1>2

(* No fields leave the bytes as they are. *)
LEMMA ReadEmpty ==
  ASSUME NEW p
  PROVE  Read(<<>>, p) = Only(<<>>, p)
<1>1. Len(<<>>) = 0
  OBVIOUS
<1>2. PICK f : Reads(f, <<>>, p, 0) /\ Read(<<>>, p) = f[0]
  BY <1>1, ReadIs
<1> QED BY <1>2, ReadsStep

(* The last field is read from what the fields before it leave. *)
LEMMA ReadAppend ==
  ASSUME NEW S, NEW ts \in Seq(S), NEW t \in S, NEW p
  PROVE  Read(Append(ts, t), p) = ReadField(Read(ts, p), t)
<1> DEFINE n == Len(ts)
           us == Append(ts, t)
<1>1. /\ n \in Nat /\ Len(us) = n + 1 /\ us[n + 1] = t
      /\ \A i \in 1 .. n : ts[i] = us[i]
  BY AppendProperties
<1>2. PICK f : Reads(f, ts, p, n) /\ Read(ts, p) = f[n]
  BY <1>1, ReadIs
<1> HIDE DEF n, us
<1>3. PICK g : Reads(g, us, p, n + 1) /\ Read(us, p) = g[n + 1]
  <2>1. Len(us) \in Nat
    BY <1>1
  <2>2. \E g : Reads(g, us, p, Len(us)) /\ Read(us, p) = g[Len(us)]
    BY <2>1, ReadIs
  <2> QED BY <1>1, <2>2
<1>4. f[n] = g[n]
  <2> DEFINE m == n + 1
  <2>1. m \in Nat /\ n <= m /\ n \in 0 .. n /\ n \in Nat
    BY <1>1
  <2>2. Reads(g, us, p, m) /\ Reads(f, ts, p, n)
    BY <1>2, <1>3
  <2>3. \A i \in 1 .. n : ts[i] = us[i]
    BY <1>1
  <2> HIDE DEF m
  <2>4. \A k \in 0 .. n : f[k] = g[k]
    BY <2>1, <2>2, <2>3, ReadsAgree
  <2> QED BY <2>1, <2>4
<1>5. g[n + 1] = ReadField(g[n], t)
  <2>1. (n + 1) - 1 = n /\ n + 1 # 0 /\ n + 1 \in Nat /\ n + 1 \in 0 .. n + 1
    BY <1>1
  <2> QED BY <1>1, <1>3, <2>1, ReadsStep
<1> QED BY <1>2, <1>3, <1>4, <1>5 DEF us

-----------------------------------------------------------------------------
(***************************************************************************)
(* Tuples and what encode makes of them, field by field.                   *)
(***************************************************************************)
AnyValue == UNION {Values[t] : t \in Types}

LEMMA TupleIsSeq ==
  ASSUME NEW ts \in Seq(Types), NEW v \in Tuples(ts)
  PROVE  /\ v \in Seq(AnyValue) /\ Len(v) = Len(ts) /\ Len(ts) \in Nat
         /\ \A k \in 1 .. Len(ts) : v[k] \in Values[ts[k]] /\ ts[k] \in Types
<1>1. Len(ts) \in Nat /\ \A k \in 1 .. Len(ts) : ts[k] \in Types
  BY ElementOfSeq
<1>2. v \in [1 .. Len(ts) -> AnyValue] /\ \A k \in 1 .. Len(ts) : v[k] \in Values[ts[k]]
  BY DEF Tuples, AnyValue
<1>3. v \in Seq(AnyValue) /\ Len(v) = Len(ts)
  BY <1>1, <1>2, SeqDef
<1> QED BY <1>1, <1>2, <1>3

LEMMA TupleOfSeq ==
  ASSUME NEW ts \in Seq(Types), NEW v \in Seq(AnyValue), Len(v) = Len(ts),
         \A k \in 1 .. Len(ts) : v[k] \in Values[ts[k]]
  PROVE  v \in Tuples(ts)
<1>1. v \in [1 .. Len(ts) -> AnyValue]
  BY LenProperties
<1> QED BY <1>1 DEF Tuples, AnyValue

LEMMA TupleAppend ==
  ASSUME NEW ts \in Seq(Types), NEW t \in Types
  PROVE  /\ \A v \in Tuples(ts), x \in Values[t] : Append(v, x) \in Tuples(Append(ts, t))
         /\ \A w \in Tuples(Append(ts, t)) :
              \E v \in Tuples(ts), x \in Values[t] : w = Append(v, x)
<1>1. /\ Append(ts, t) \in Seq(Types) /\ Len(Append(ts, t)) = Len(ts) + 1 /\ Len(ts) \in Nat
      /\ \A k \in 1 .. Len(ts) : Append(ts, t)[k] = ts[k]
      /\ Append(ts, t)[Len(ts) + 1] = t
  BY AppendProperties
<1> DEFINE us == Append(ts, t)
<1> HIDE DEF us
<1>2. ASSUME NEW v \in Tuples(ts), NEW x \in Values[t]
      PROVE  Append(v, x) \in Tuples(us)
  <2>1. /\ v \in Seq(AnyValue) /\ Len(v) = Len(ts)
        /\ \A k \in 1 .. Len(ts) : v[k] \in Values[ts[k]]
    BY TupleIsSeq
  <2>2. x \in AnyValue
    BY DEF AnyValue
  <2> DEFINE w == Append(v, x)
  <2>3. /\ w \in Seq(AnyValue) /\ Len(w) = Len(ts) + 1
        /\ \A k \in 1 .. Len(ts) : w[k] = v[k]
        /\ w[Len(ts) + 1] = x
    BY <2>1, <2>2, AppendProperties
  <2> HIDE DEF w
  <2>4. us \in Seq(Types) /\ Len(us) = Len(ts) + 1
    BY <1>1 DEF us
  <2>5. \A k \in 1 .. Len(ts) + 1 : w[k] \in Values[us[k]]
    <3> TAKE k \in 1 .. Len(ts) + 1
    <3>1. CASE k = Len(ts) + 1
      BY <3>1, <1>1, <2>3 DEF us
    <3>2. CASE k \in 1 .. Len(ts)
      BY <3>2, <1>1, <2>1, <2>3 DEF us
    <3> QED BY <3>1, <3>2, <1>1
  <2> QED BY <2>3, <2>4, <2>5, TupleOfSeq DEF w
<1>3. ASSUME NEW w \in Tuples(us)
      PROVE  \E v \in Tuples(ts), x \in Values[t] : w = Append(v, x)
  <2>1. us \in Seq(Types) /\ Len(us) = Len(ts) + 1
    BY <1>1 DEF us
  <2>2. /\ w \in Seq(AnyValue) /\ Len(w) = Len(ts) + 1
        /\ \A k \in 1 .. Len(ts) + 1 : w[k] \in Values[us[k]]
    BY <2>1, TupleIsSeq
  <2>3. w # <<>>
    BY <1>1, <2>2
  <2>4. PICK v \in Seq(AnyValue), x \in AnyValue : w = Append(v, x)
    BY <2>2, <2>3, SequenceEmptyOrAppend
  <2>5. /\ Len(v) = Len(ts) /\ w[Len(ts) + 1] = x
        /\ \A k \in 1 .. Len(ts) : w[k] = v[k]
    BY <1>1, <2>2, <2>4, AppendProperties
  <2>6. x \in Values[t]
    BY <1>1, <2>2, <2>5 DEF us
  <2>7. \A k \in 1 .. Len(ts) : v[k] \in Values[ts[k]]
    BY <1>1, <2>2, <2>5 DEF us
  <2>8. v \in Tuples(ts)
    BY <2>4, <2>5, <2>7, TupleOfSeq
  <2> QED BY <2>4, <2>6, <2>8
<1> QED BY <1>2, <1>3 DEF us

(* The encoded fields, which encode concatenates. *)
Fields(ts, v) == [k \in 1 .. Len(ts) |-> Wire[ts[k]][v[k]]]

LEMMA WireType ==
  ASSUME NEW t \in Types, NEW x \in DOMAIN Wire[t]
  PROVE  Wire[t][x] \in Seq(Nat) /\ x \in Values[t]
BY WireAssumption

LEMMA FieldsType ==
  ASSUME NEW ts \in Seq(Types), NEW v, Encodable(ts, v)
  PROVE  Fields(ts, v) \in Seq(Seq(Nat)) /\ Len(Fields(ts, v)) = Len(ts)
<1>1. Len(ts) \in Nat /\ \A k \in 1 .. Len(ts) : ts[k] \in Types
  BY ElementOfSeq
<1>2. \A k \in 1 .. Len(ts) : Wire[ts[k]][v[k]] \in Seq(Nat)
  BY <1>1, WireType, Zenon DEF Encodable
<1>3. Fields(ts, v) \in [1 .. Len(ts) -> Seq(Nat)]
  BY <1>2, SMTT(40) DEF Fields
<1> QED BY <1>1, <1>3, SeqDef

LEMMA EncodeAppend ==
  ASSUME NEW ts \in Seq(Types), NEW t \in Types, NEW v \in Tuples(ts), NEW x \in Values[t],
         Encodable(Append(ts, t), Append(v, x))
  PROVE  /\ Encodable(ts, v) /\ x \in DOMAIN Wire[t]
         /\ Encode(ts, v) \in Seq(Nat)
         /\ Encode(Append(ts, t), Append(v, x)) = Encode(ts, v) \o Wire[t][x]
<1> DEFINE us == Append(ts, t)
           w == Append(v, x)
<1>1. /\ us \in Seq(Types) /\ Len(us) = Len(ts) + 1 /\ Len(ts) \in Nat
      /\ \A k \in 1 .. Len(ts) : us[k] = ts[k]
      /\ us[Len(ts) + 1] = t
  BY AppendProperties
<1>2. v \in Seq(AnyValue) /\ Len(v) = Len(ts) /\ x \in AnyValue
  BY TupleIsSeq DEF AnyValue
<1>3. (\A k \in 1 .. Len(ts) : w[k] = v[k]) /\ w[Len(ts) + 1] = x
  BY <1>2, AppendProperties
<1>4. Encodable(us, w)
  OBVIOUS
<1> HIDE DEF us, w
<1>5. \A k \in 1 .. Len(ts) + 1 : w[k] \in DOMAIN Wire[us[k]]
  BY <1>1, <1>4 DEF Encodable
<1>6. x \in DOMAIN Wire[t]
  BY <1>1, <1>3, <1>5
<1>7. Encodable(ts, v)
  BY <1>1, <1>3, <1>5 DEF Encodable
<1>8. /\ Fields(ts, v) \in Seq(Seq(Nat)) /\ Len(Fields(ts, v)) = Len(ts)
      /\ Fields(us, w) \in Seq(Seq(Nat)) /\ Len(Fields(us, w)) = Len(ts) + 1
      /\ Wire[t][x] \in Seq(Nat)
  BY <1>1, <1>4, <1>6, <1>7, FieldsType, WireType
<1>9. Fields(us, w) = Append(Fields(ts, v), Wire[t][x])
  <2> DEFINE a == Append(Fields(ts, v), Wire[t][x])
  <2>1. /\ a \in Seq(Seq(Nat)) /\ Len(a) = Len(ts) + 1
        /\ \A k \in 1 .. Len(ts) : a[k] = Fields(ts, v)[k]
        /\ a[Len(ts) + 1] = Wire[t][x]
    BY <1>8, AppendProperties
  <2> HIDE DEF a
  <2>2. \A k \in 1 .. Len(ts) + 1 : Fields(us, w)[k] = Wire[us[k]][w[k]]
    BY <1>1 DEF Fields
  <2>3. \A k \in 1 .. Len(ts) : Fields(ts, v)[k] = Wire[ts[k]][v[k]]
    BY <1>1 DEF Fields
  <2>4. \A k \in 1 .. Len(ts) + 1 : Fields(us, w)[k] = a[k]
    <3> TAKE k \in 1 .. Len(ts) + 1
    <3>1. CASE k = Len(ts) + 1
      BY <3>1, <1>1, <1>3, <2>1, <2>2
    <3>2. CASE k \in 1 .. Len(ts)
      BY <3>2, <1>1, <1>3, <2>1, <2>2, <2>3, ZenonT(40)
    <3> QED BY <3>1, <3>2, <1>1
  <2>5. Fields(us, w) = a
    BY <1>8, <2>1, <2>4, SeqEqual
  <2> QED BY <2>5 DEF a
<1>10. FlattenSeq(Fields(us, w)) = FlattenSeq(Fields(ts, v)) \o Wire[t][x]
  BY <1>8, <1>9, FlattenAppend
<1>11. FlattenSeq(Fields(ts, v)) \in Seq(Nat)
  BY <1>8, FlattenType
<1> QED BY <1>6, <1>7, <1>10, <1>11 DEF Encode, Fields, us, w

-----------------------------------------------------------------------------
(***************************************************************************)
(* decode inverts encode.                                                  *)
(***************************************************************************)
(* The only tuple of no fields is the empty one. *)
LEMMA NoFields ==
  ASSUME NEW ts \in Seq(Types), Len(ts) = 0
  PROVE  ts = <<>> /\ <<>> \in Tuples(ts) /\ \A v \in Tuples(ts) : v = <<>>
<1>1. ts = <<>>
  BY EmptySeq
<1>2. <<>> \in Seq(AnyValue) /\ Len(<<>>) = 0
  BY EmptySeq
<1>3. <<>> \in Tuples(ts)
  <2>1. Len(<<>>) = Len(ts) /\ \A k \in 1 .. Len(ts) : <<>>[k] \in Values[ts[k]]
    BY <1>2
  <2> QED BY <1>2, <2>1, TupleOfSeq
<1>4. \A v \in Tuples(ts) : v = <<>>
  <2> TAKE v \in Tuples(ts)
  <2>1. v \in Seq(AnyValue) /\ Len(v) = 0
    BY TupleIsSeq
  <2> QED BY <2>1, EmptySeq
<1> QED BY <1>1, <1>3, <1>4

(* Whatever the bytes, what decode returns are tuples of the types asked for. *)
LEMMA ReadSound ==
  \A ts \in Seq(Types) : \A p : \A d \in Read(ts, p) : d.value \in Tuples(ts)
<1> DEFINE T == {n \in Nat : \A ts \in Seq(Types) : Len(ts) = n =>
                    \A p : \A d \in Read(ts, p) : d.value \in Tuples(ts)}
<1>1. 0 \in T
  <2> SUFFICES ASSUME NEW ts \in Seq(Types), Len(ts) = 0, NEW p, NEW d \in Read(ts, p)
               PROVE  d.value \in Tuples(ts)
    OBVIOUS
  <2>1. ts = <<>> /\ <<>> \in Tuples(ts)
    BY NoFields
  <2>2. d = [value |-> <<>>, rest |-> p]
    BY <2>1, ReadEmpty DEF Only
  <2> QED BY <2>1, <2>2
<1>2. ASSUME NEW n \in Nat, n \in T
      PROVE  n + 1 \in T
  <2> SUFFICES ASSUME NEW ts \in Seq(Types), Len(ts) = n + 1, NEW p, NEW d \in Read(ts, p)
               PROVE  d.value \in Tuples(ts)
    OBVIOUS
  <2>0. ts # <<>>
    OBVIOUS
  <2>1. PICK r \in Seq(Types), t \in Types : ts = Append(r, t)
    BY <2>0, SequenceEmptyOrAppend
  <2>2. Len(r) = n
    BY <2>1, AppendProperties
  <2>3. Read(ts, p) = ReadField(Read(r, p), t)
    BY <2>1, ReadAppend
  <2>4. PICK e \in Read(r, p), x \in DOMAIN Wire[t] : d.value = Append(e.value, x)
    <3>1. PICK e \in Read(r, p) :
            d \in {[value |-> Append(e.value, x),
                    rest  |-> SubSeq(e.rest, Len(Wire[t][x]) + 1, Len(e.rest))] :
                      x \in {y \in DOMAIN Wire[t] : IsPrefix(Wire[t][y], e.rest)}}
      BY <2>3 DEF ReadField
    <3>2. PICK x \in DOMAIN Wire[t] :
            d = [value |-> Append(e.value, x),
                 rest  |-> SubSeq(e.rest, Len(Wire[t][x]) + 1, Len(e.rest))]
      BY <3>1
    <3>3. d.value = Append(e.value, x)
      BY <3>2
    <3> QED BY <3>1, <3>2, <3>3
  <2>5. e.value \in Tuples(r)
    BY <1>2, <2>1, <2>2, <2>4
  <2>6. x \in Values[t]
    BY <2>1, <2>4, WireType
  <2> QED BY <2>1, <2>4, <2>5, <2>6, TupleAppend
<1> HIDE DEF T
<1>3. \A n \in Nat : n \in T
  BY <1>1, <1>2, NatSetInduction
<1>4. \A ts \in Seq(Types) : Len(ts) \in Nat
  OBVIOUS
<1> QED BY <1>3, <1>4 DEF T

LEMMA DecodeSound ==
  ASSUME NEW ts \in Seq(Types), NEW p, NEW v \in Decode(ts, p)
  PROVE  v \in Tuples(ts)
BY ReadSound DEF Decode

(* Sequences that agree up to a length have the same beginning. *)
LEMMA SameBeginning ==
  ASSUME NEW a \in Seq(Nat), NEW b \in Seq(Nat), NEW n \in Nat,
         n <= Len(a), n <= Len(b), \A i \in 1 .. n : a[i] = b[i]
  PROVE  SubSeq(a, 1, n) = SubSeq(b, 1, n)
<1> DEFINE u == SubSeq(a, 1, n)
           v == SubSeq(b, 1, n)
<1>1. \A i \in 1 .. n : a[i] \in Nat /\ b[i] \in Nat
  BY ElementOfSeq
<1>2. u \in Seq(Nat) /\ Len(u) = n /\ \A i \in 1 .. n : u[i] = a[i]
  BY <1>1, SubSeqProperties
<1>3. v \in Seq(Nat) /\ Len(v) = n /\ \A i \in 1 .. n : v[i] = b[i]
  BY <1>1, SubSeqProperties
<1> HIDE DEF u, v
<1>4. u = v
  BY <1>2, <1>3, SeqEqual
<1> QED BY <1>4 DEF u, v

(* Of two sequences that both start a third, one starts the other. *)
LEMMA PrefixesNest ==
  ASSUME NEW a \in Seq(Nat), NEW b \in Seq(Nat), NEW c \in Seq(Nat), IsPrefix(b, a \o c)
  PROVE  IsPrefix(a, b) \/ IsPrefix(b, a)
<1>1. /\ Len(a) \in Nat /\ Len(b) \in Nat /\ Len(c) \in Nat
      /\ a \o c \in Seq(Nat) /\ Len(a \o c) = Len(a) + Len(c)
      /\ \A i \in 1 .. Len(a) : (a \o c)[i] = a[i]
  BY ConcatProperties
<1>2. \A i \in 1 .. Len(b) : b[i] = (a \o c)[i]
  <2> TAKE i \in 1 .. Len(b)
  <2>1. SubSeq(b, 1, Len(b)) = SubSeq(a \o c, 1, Len(b)) /\ Len(b) <= Len(a \o c)
    BY DEF IsPrefix
  <2>2. SubSeq(b, 1, Len(b))[i] = b[i] /\ SubSeq(a \o c, 1, Len(b))[i] = (a \o c)[i]
    BY <1>1, <2>1
  <2> QED BY <2>1, <2>2
<1>0. /\ Len(a) \in Nat /\ Len(a) <= Len(a)
      /\ Len(b) \in Nat /\ Len(b) <= Len(b)
  OBVIOUS
<1>3. CASE Len(a) <= Len(b)
  <2>1. \A i \in 1 .. Len(a) : a[i] = b[i]
    <3> TAKE i \in 1 .. Len(a)
    <3>1. i \in 1 .. Len(b)
      BY <1>1, <1>3
    <3>2. b[i] = (a \o c)[i] /\ (a \o c)[i] = a[i]
      BY <1>1, <1>2, <3>1
    <3> QED BY <3>2
  <2>2. SubSeq(a, 1, Len(a)) = SubSeq(b, 1, Len(a))
    BY <1>0, <1>3, <2>1, SameBeginning, Zenon
  <2> QED BY <1>3, <2>2 DEF IsPrefix
<1>4. CASE Len(b) <= Len(a)
  <2>1. \A i \in 1 .. Len(b) : b[i] = a[i]
    BY <1>1, <1>2, <1>4
  <2>2. SubSeq(b, 1, Len(b)) = SubSeq(a, 1, Len(b))
    BY <1>0, <1>4, <2>1, SameBeginning, Zenon
  <2> QED BY <1>4, <2>2 DEF IsPrefix
<1> QED BY <1>1, <1>3, <1>4

LEMMA PrefixOfConcat ==
  ASSUME NEW a \in Seq(Nat), NEW c \in Seq(Nat)
  PROVE  IsPrefix(a, a \o c) /\ SubSeq(a \o c, Len(a) + 1, Len(a \o c)) = c
<1>1. /\ Len(a) \in Nat /\ Len(c) \in Nat
      /\ a \o c \in Seq(Nat) /\ Len(a \o c) = Len(a) + Len(c)
      /\ \A i \in 1 .. Len(a) + Len(c) :
           (a \o c)[i] = IF i <= Len(a) THEN a[i] ELSE c[i - Len(a)]
  BY ConcatProperties
<1> DEFINE s == a \o c
           u == SubSeq(s, Len(a) + 1, Len(a) + Len(c))
<1>2. IsPrefix(a, s)
  BY <1>1 DEF IsPrefix
<1> HIDE DEF s
<1>3. \A i \in Len(a) + 1 .. Len(a) + Len(c) : s[i] \in Nat
  BY <1>1, ElementOfSeq DEF s
<1>4. /\ u \in Seq(Nat) /\ Len(u) = Len(c)
      /\ \A i \in 1 .. Len(c) : u[i] = s[Len(a) + i]
  BY <1>1, <1>3, SubSeqProperties
<1>5. \A i \in 1 .. Len(c) : s[Len(a) + i] = c[i]
  BY <1>1 DEF s
<1> HIDE DEF u
<1>6. u = c
  BY <1>4, <1>5, SeqEqual
<1> QED BY <1>1, <1>2, <1>6 DEF s, u

(* A field is read back, and only so, because no encoding starts another. *)
LEMMA ReadFieldExact ==
  \A t \in Types : \A x \in DOMAIN Wire[t] : \A r \in Seq(Nat) : \A v :
    ReadField(Only(v, Wire[t][x] \o r), t) = Only(Append(v, x), r)
<1> TAKE t \in Types
<1> TAKE x \in DOMAIN Wire[t]
<1> TAKE r \in Seq(Nat)
<1> TAKE v
<1>1. \A y \in DOMAIN Wire[t] : Wire[t][y] \in Seq(Nat)
  BY WireType
<1>2. ASSUME NEW y \in DOMAIN Wire[t], IsPrefix(Wire[t][y], Wire[t][x] \o r)
      PROVE  y = x
  <2>1. IsPrefix(Wire[t][x], Wire[t][y]) \/ IsPrefix(Wire[t][y], Wire[t][x])
    BY <1>1, <1>2, PrefixesNest
  <2> QED BY <2>1, WireAssumption
<1>3. /\ IsPrefix(Wire[t][x], Wire[t][x] \o r)
      /\ SubSeq(Wire[t][x] \o r, Len(Wire[t][x]) + 1, Len(Wire[t][x] \o r)) = r
  BY <1>1, PrefixOfConcat
<1>4. {y \in DOMAIN Wire[t] : IsPrefix(Wire[t][y], Wire[t][x] \o r)} = {x}
  BY <1>2, <1>3
<1> DEFINE W == Wire[t][x] \o r
           d == [value |-> v, rest |-> W]
           Field(y) == [value |-> Append(v, y), rest |-> SubSeq(W, Len(Wire[t][y]) + 1, Len(W))]
<1>5. d.value = v /\ d.rest = W
  OBVIOUS
<1>6. Field(x) = [value |-> Append(v, x), rest |-> r]
  BY <1>3
<1>7. {y \in DOMAIN Wire[t] : IsPrefix(Wire[t][y], W)} = {x}
  BY <1>4
<1> HIDE DEF W, d
<1>8. ReadField({d}, t) = {Field(y) : y \in {y \in DOMAIN Wire[t] : IsPrefix(Wire[t][y], W)}}
  BY <1>5 DEF ReadField
<1>9. ReadField({d}, t) = {Field(x)}
  BY <1>7, <1>8
<1> QED BY <1>6, <1>9 DEF d, W, Only

(* Encoded bytes come back as the tuple they were made from, and as no other, *)
(* with everything that follows them left over.                               *)
LEMMA ReadExact ==
  \A ts \in Seq(Types) : \A v \in Tuples(ts) : \A r \in Seq(Nat) :
    Encodable(ts, v) => Read(ts, Encode(ts, v) \o r) = Only(v, r)
<1> DEFINE T == {n \in Nat : \A ts \in Seq(Types) : Len(ts) = n =>
                    \A v \in Tuples(ts) : \A r \in Seq(Nat) : Encodable(ts, v) =>
                      Read(ts, Encode(ts, v) \o r) = Only(v, r)}
<1>1. 0 \in T
  <2> SUFFICES ASSUME NEW ts \in Seq(Types), Len(ts) = 0, NEW v \in Tuples(ts), NEW r \in Seq(Nat)
               PROVE  Read(ts, Encode(ts, v) \o r) = Only(v, r)
    OBVIOUS
  <2>1. ts = <<>> /\ v = <<>>
    BY NoFields
  <2>2. Encode(ts, v) = <<>>
    <3>1. Fields(ts, v) = <<>>
      BY <2>1 DEF Fields
    <3> QED BY <3>1, FlattenEmpty DEF Encode, Fields
  <2>3. Encode(ts, v) \o r = r
    BY <2>2, ConcatEmptySeq
  <2> QED BY <2>1, <2>3, ReadEmpty
<1>2. ASSUME NEW n \in Nat, n \in T
      PROVE  n + 1 \in T
  <2> SUFFICES ASSUME NEW us \in Seq(Types), Len(us) = n + 1, NEW w \in Tuples(us),
                      NEW r \in Seq(Nat), Encodable(us, w)
               PROVE  Read(us, Encode(us, w) \o r) = Only(w, r)
    OBVIOUS
  <2>0. us # <<>>
    OBVIOUS
  <2>1. PICK ts \in Seq(Types), t \in Types : us = Append(ts, t)
    BY <2>0, SequenceEmptyOrAppend
  <2>2. Len(ts) = n
    BY <2>1, AppendProperties
  <2>3. PICK v \in Tuples(ts), x \in Values[t] : w = Append(v, x)
    BY <2>1, TupleAppend
  <2>4. /\ Encodable(ts, v) /\ x \in DOMAIN Wire[t] /\ Encode(ts, v) \in Seq(Nat)
        /\ Encode(us, w) = Encode(ts, v) \o Wire[t][x]
    BY <2>1, <2>3, EncodeAppend
  <2>5. Wire[t][x] \in Seq(Nat) /\ Wire[t][x] \o r \in Seq(Nat)
    <3>1. Wire[t][x] \in Seq(Nat)
      BY <2>1, <2>4, WireType
    <3> QED BY <3>1, ConcatProperties
  <2>6. Encode(us, w) \o r = Encode(ts, v) \o (Wire[t][x] \o r)
    <3> DEFINE E == Encode(ts, v)
               W == Wire[t][x]
    <3>1. E \in Seq(Nat) /\ W \in Seq(Nat) /\ Encode(us, w) = E \o W
      BY <2>4, <2>5
    <3> HIDE DEF E, W
    <3>2. (E \o W) \o r = E \o (W \o r)
      BY <3>1, ConcatAssociative, SMTT(40)
    <3> QED BY <3>1, <3>2 DEF E, W
  <2>7. Read(ts, Encode(ts, v) \o (Wire[t][x] \o r))
          = Only(v, Wire[t][x] \o r)
    <3> DEFINE q == Wire[t][x] \o r
    <3>1. q \in Seq(Nat) /\ v \in Tuples(ts) /\ Encodable(ts, v) /\ ts \in Seq(Types)
      BY <2>1, <2>3, <2>4, <2>5
    <3> HIDE DEF q
    <3>2. Read(ts, Encode(ts, v) \o q) = Only(v, q)
      BY <1>2, <2>2, <3>1
    <3> QED BY <3>2 DEF q
  <2>8. Read(us, Encode(us, w) \o r) = ReadField(Read(ts, Encode(us, w) \o r), t)
    BY <2>1, ReadAppend
  <2>9. ReadField(Only(v, Wire[t][x] \o r), t) = Only(Append(v, x), r)
    <3>1. t \in Types /\ x \in DOMAIN Wire[t] /\ r \in Seq(Nat)
      BY <2>1, <2>4
    <3> QED BY <3>1, ReadFieldExact
  <2> QED BY <2>3, <2>6, <2>7, <2>8, <2>9
<1> HIDE DEF T
<1>3. \A n \in Nat : n \in T
  BY <1>1, <1>2, NatSetInduction
<1>4. \A ts \in Seq(Types) : Len(ts) \in Nat
  OBVIOUS
<1> QED BY <1>3, <1>4 DEF T

LEMMA EncodeType ==
  ASSUME NEW ts \in Seq(Types), NEW v, Encodable(ts, v)
  PROVE  Encode(ts, v) \in Seq(Nat)
<1>1. FlattenSeq(Fields(ts, v)) \in Seq(Nat)
  BY FieldsType, FlattenType
<1> QED BY <1>1 DEF Encode, Fields

(* decode inverts encode: of the bytes a tuple is encoded to, exactly that    *)
(* tuple is decoded, whatever bytes follow (__private::encode and decode; the *)
(* encodings of the single types need only be self-delimiting).               *)
THEOREM DecodeInverts ==
  ASSUME NEW ts \in Seq(Types), NEW v \in Tuples(ts), Encodable(ts, v), NEW r \in Seq(Nat)
  PROVE  Decode(ts, Encode(ts, v) \o r) = {v}
<1>1. Read(ts, Encode(ts, v) \o r) = Only(v, r)
  BY ReadExact
<1> DEFINE d == [value |-> v, rest |-> r]
<1>2. d.value = v
  OBVIOUS
<1> HIDE DEF d
<1>3. Read(ts, Encode(ts, v) \o r) = {d}
  BY <1>1 DEF d, Only
<1> QED BY <1>2, <1>3 DEF Decode

LEMMA DecodeEncode ==
  ASSUME NEW ts \in Seq(Types), NEW v \in Tuples(ts), Encodable(ts, v)
  PROVE  Decode(ts, Encode(ts, v)) = {v}
<1>1. Encode(ts, v) \in Seq(Nat) /\ <<>> \in Seq(Nat)
  BY EncodeType
<1>2. Encode(ts, v) \o <<>> = Encode(ts, v)
  BY <1>1, ConcatEmptySeq
<1>3. Decode(ts, Encode(ts, v) \o <<>>) = {v}
  BY <1>1, DecodeInverts
<1> QED BY <1>2, <1>3

-----------------------------------------------------------------------------
(***************************************************************************)
(* The handler table.                                                      *)
(***************************************************************************)
(* A nonempty set of numbers with an upper bound has a greatest element. *)
LEMMA GreatestElement ==
  ASSUME NEW n \in Nat, NEW S \in SUBSET (1 .. n), S # {}
  PROVE  Max(S) \in S /\ \A k \in S : Max(S) >= k
<1> DEFINE T == {n - k : k \in S}
<1>1. T \in SUBSET Nat /\ T # {}
  OBVIOUS
<1>2. PICK x \in T : \A y \in T : x <= y
  BY <1>1, LeastElement
<1>3. PICK m \in S : x = n - m
  BY <1>2
<1>4. \A k \in S : m >= k
  <2> TAKE k \in S
  <2>1. n - k \in T
    OBVIOUS
  <2>2. n - m <= n - k
    BY <1>2, <1>3, <2>1
  <2> QED BY <2>2, <1>3
<1>5. \E z \in S : \A k \in S : z >= k
  BY <1>3, <1>4
<1> QED BY <1>5 DEF Max

(* Where the newest registration of a name is. *)
LEMMA NewestIs ==
  ASSUME log \in Seq(Registrations), NEW k \in DOMAIN log, NEW n \in DOMAIN log[k],
         \A j \in DOMAIN log : j > k => n \notin DOMAIN log[j]
  PROVE  Newest(n) = log[k][n]
<1> DEFINE S == {j \in DOMAIN log : n \in DOMAIN log[j]}
<1>1. S \in SUBSET (1 .. Len(log)) /\ Len(log) \in Nat /\ k \in S
  OBVIOUS
<1>2. Max(S) \in S /\ \A j \in S : Max(S) >= j
  BY <1>1, GreatestElement
<1>3. Max(S) = k
  <2> DEFINE m == Max(S)
  <2>1. m \in 1 .. Len(log) /\ m \in S /\ m >= k /\ k \in 1 .. Len(log)
    BY <1>1, <1>2
  <2> HIDE DEF m
  <2>2. ~(m > k)
    BY <2>1
  <2>3. m = k
    BY <2>1, <2>2, <1>1
  <2> QED BY <2>3 DEF m
<1> QED BY <1>3 DEF Newest

-----------------------------------------------------------------------------
(***************************************************************************)
(* Signatures, and the types of what a call was run with and returned.     *)
(***************************************************************************)
(* Both passes of expand_server go through the same methods, and both halves *)
(* of the expansion give them the same signatures.                           *)
LEMMA PassesAgree ==
  \A t : MethodNames(t) = DOMAIN DispatchArms(t) /\ DispatchArms(t) = ClientOf(t)
BY DEF MethodNames, DispatchArms, ClientOf, WireNames, ToSet

LEMMA EveryNameHasAnArm == \A s \in Services : s.names = DOMAIN s.arms
BY PassesAgree DEF Services

LEMMA ServiceTyped == \A s \in Services : Typed(s.arms)
BY TypesAssumption

LEMMA StubTyped ==
  source \in Sources /\ ClientIsExpanded /\ client.tag = "Expanded" => Typed(Stub)
BY TypesAssumption DEF Typed, ClientIsExpanded, Stub

CallTyped(c) ==
  /\ ran[c] # Nothing => ran[c].args \in Tuples(Served(c).args)
  /\ result[c].tag = "Ok" => result[c].value \in Tuples(Stub[name[c]].ok)

LEMMA CallsTyped ==
  source \in Sources /\ ClientIsExpanded /\ (\A c \in Calls : CallInv(c))
    => \A c \in Calls : CallTyped(c)
<1> SUFFICES ASSUME source \in Sources, ClientIsExpanded, NEW c \in Calls, CallInv(c)
             PROVE  CallTyped(c)
  OBVIOUS
<1>1. ASSUME ran[c] # Nothing
      PROVE  ran[c].args \in Tuples(Served(c).args)
  <2>1. /\ ran[c].svc \in Services /\ ran[c].method \in DOMAIN ran[c].svc.arms
        /\ ran[c].args \in Decode(Served(c).args, payload[c])
    BY <1>1 DEF CallInv, RunsFromTable
  <2>2. Served(c).args \in Seq(Types)
    BY <2>1, ServiceTyped DEF Typed, Served
  <2> QED BY <2>1, <2>2, DecodeSound
<1>2. ASSUME result[c].tag = "Ok"
      PROVE  result[c].value \in Tuples(Stub[name[c]].ok)
  <2> DEFINE ts == Stub[name[c]].ok
  <2>1. work[c] = "replied" /\ result[c] = StubResult(ts, reply[c])
    BY <1>2 DEF CallInv, ResultExplained, Nothing, Closed, Remote
  <2>2. ts \in Seq(Types)
    BY <2>1, StubTyped DEF CallInv, RequestCarries, Typed
  <2> HIDE DEF ts
  <2>3. /\ Decode(ts, reply[c].payload) # {}
        /\ result[c] = Ok(CHOOSE v \in Decode(ts, reply[c].payload) : TRUE)
    BY <1>2, <2>1 DEF StubResult, Remote
  <2>4. result[c].value \in Decode(ts, reply[c].payload)
    BY <2>3 DEF Ok
  <2>5. result[c].value \in Tuples(ts)
    BY <2>2, <2>4, DecodeSound
  <2> QED BY <2>5 DEF ts
<1> QED BY <1>1, <1>2 DEF CallTyped

(* A call that a step leaves alone stays explained. *)
LEMMA CallFrame ==
  ASSUME NEW d, CallInv(d), UNCHANGED <<source, client, tableVars>>,
         stub'[d] = stub[d], work'[d] = work[d], name'[d] = name[d], args'[d] = args[d],
         payload'[d] = payload[d], ran'[d] = ran[d], returned'[d] = returned[d],
         reply'[d] = reply[d], result'[d] = result[d]
  PROVE  CallInv(d)'
<1>1. Stub' = Stub /\ handlers' = handlers /\ built' = built /\ client' = client
  BY DEF Stub, tableVars
<1>2. Served(d)' = Served(d)
  BY DEF Served
<1>3. RequestCarries(d)'
  BY <1>1 DEF CallInv, RequestCarries
<1>4. RunsFromTable(d)'
  BY <1>1, <1>2 DEF CallInv, RunsFromTable
<1>5. ReplyExplained(d)'
  <2>1. /\ Missed(d)' = Missed(d) /\ ByClosure(d)' = ByClosure(d)
        /\ Refused(d)' = Refused(d) /\ ByMethod(d)' = ByMethod(d)
    BY <1>1, <1>2 DEF Missed, ByClosure, Refused, ByMethod
  <2> QED BY <2>1 DEF CallInv, ReplyExplained
<1>6. ResultExplained(d)'
  BY <1>1 DEF CallInv, ResultExplained
<1> QED BY <1>3, <1>4, <1>5, <1>6 DEF CallInv

-----------------------------------------------------------------------------
(***************************************************************************)
(* The inductive invariant, with the types of the calls left to CallsTyped. *)
(***************************************************************************)
TableTyped ==
  /\ DOMAIN handlers \subseteq Names
  /\ \A n \in DOMAIN handlers :
       handlers[n] \in {Raw} \cup {MethodOf(s, m) : s \in Services, m \in Names}
  /\ built \in BOOLEAN
  /\ Len(log) <= MaxRegistrations

CallVariables ==
  /\ stub \in [Calls -> {"idle", "waiting", "done"}]
  /\ work \in [Calls -> {"none", "sent", "running", "replied"}]
  /\ DOMAIN name = Calls /\ DOMAIN args = Calls /\ DOMAIN payload = Calls
  /\ DOMAIN ran = Calls /\ DOMAIN returned = Calls /\ DOMAIN reply = Calls /\ DOMAIN result = Calls

Explained ==
  /\ source \in Sources
  /\ TableTyped
  /\ CallVariables
  /\ TableIsLog
  /\ ClientIsExpanded
  /\ \A c \in Calls : CallInv(c)

LEMMA ExplainedIsInv == Explained => ServiceInv
<1> SUFFICES ASSUME Explained PROVE ServiceInv
  OBVIOUS
<1>1. \A c \in Calls : CallTyped(c)
  BY CallsTyped DEF Explained
<1>2. TypeOK
  BY <1>1 DEF TypeOK, CallTyped, Explained, TableTyped, CallVariables
<1> QED BY <1>2 DEF Explained, ServiceInv, CallVariables

(* What the table can hold for a name. *)
LEMMA TableEntry ==
  ASSUME TableIsLog, NEW n \in DOMAIN handlers
  PROVE  \/ handlers[n] = Raw
         \/ \E s \in Services : n \in s.names /\ handlers[n] = MethodOf(s, n)
<1> DEFINE S == {k \in DOMAIN log : n \in DOMAIN log[k]}
<1>1. log \in Seq(Registrations) /\ Len(log) \in Nat /\ DOMAIN log = 1 .. Len(log)
  BY DEF TableIsLog
<1>2. \E k \in DOMAIN log : n \in DOMAIN log[k]
  BY DEF TableIsLog
<1>3. S \in SUBSET (1 .. Len(log)) /\ S # {}
  BY <1>1, <1>2
<1>4. Max(S) \in S
  BY <1>1, <1>3, GreatestElement
<1>5. PICK k \in DOMAIN log : n \in DOMAIN log[k] /\ handlers[n] = log[k][n]
  <2>1. handlers[n] = log[Max(S)][n]
    BY DEF TableIsLog, Newest
  <2> QED BY <1>4, <2>1
<1>6. log[k] \in Registrations
  BY <1>1, <1>5, ElementOfSeq
<1>7. CASE \E m \in Names : log[k] = [x \in {m} |-> Raw]
  BY <1>5, <1>7
<1>8. CASE \E s \in Services : log[k] = [x \in s.names |-> MethodOf(s, x)]
  BY <1>5, <1>8
<1> QED BY <1>6, <1>7, <1>8 DEF Registrations

(* A step of one call on a table that stands. *)
SameCall(d) ==
  /\ stub'[d] = stub[d] /\ work'[d] = work[d] /\ name'[d] = name[d] /\ args'[d] = args[d]
  /\ payload'[d] = payload[d] /\ ran'[d] = ran[d] /\ returned'[d] = returned[d]
  /\ reply'[d] = reply[d] /\ result'[d] = result[d]

LEMMA OneCall ==
  ASSUME Explained, UNCHANGED <<source, client, tableVars>>, NEW c \in Calls, CallVariables',
         \A d \in Calls \ {c} : SameCall(d), CallInv(c)'
  PROVE  Explained'
<1>1. TableTyped' /\ TableIsLog'
  BY DEF Explained, TableTyped, TableIsLog, Newest, tableVars
<1>2. ClientIsExpanded' /\ source' \in Sources
  BY DEF Explained, ClientIsExpanded
<1>3. \A d \in Calls : CallInv(d)'
  <2> TAKE d \in Calls
  <2>1. CASE d # c
    <3>1. SameCall(d) /\ CallInv(d)
      BY <2>1 DEF Explained
    <3> QED BY <3>1, CallFrame DEF SameCall
  <2> QED BY <2>1
<1> QED BY <1>1, <1>2, <1>3 DEF Explained

-----------------------------------------------------------------------------
(***************************************************************************)
(* The client's build and the table.                                       *)
(***************************************************************************)
(* A call that has sent nothing, and was told nothing but Closed or of its *)
(* own failure to encode, is explained by any client and any table.        *)
Quiet(c) ==
  /\ work[c] = "none" /\ ran[c] = Nothing /\ stub[c] # "waiting"
  /\ stub[c] # "done" => result[c] = Nothing
  /\ stub[c] = "done" => result[c] = Closed \/ result[c] = Remote(EncodeFailed)

LEMMA QuietIsExplained == ASSUME NEW c, Quiet(c) PROVE CallInv(c)
BY DEF Quiet, CallInv, RequestCarries, RunsFromTable, ReplyExplained, ResultExplained

LEMMA UnsentIsQuiet == ASSUME NEW c, CallInv(c), work[c] = "none" PROVE Quiet(c)
BY DEF Quiet, CallInv, RequestCarries, RunsFromTable, ReplyExplained, ResultExplained

LEMMA QuietStays ==
  ASSUME Explained, \A c \in Calls : work[c] = "none",
         UNCHANGED <<stub, work, callVars, ran, returned, reply, result>>
  PROVE  CallVariables' /\ \A c \in Calls : CallInv(c)'
<1>1. CallVariables'
  BY DEF Explained, CallVariables, callVars
<1>2. \A c \in Calls : Quiet(c)'
  <2> TAKE c \in Calls
  <2>1. Quiet(c)
    BY UnsentIsQuiet DEF Explained
  <2> QED BY <2>1 DEF Quiet
<1>3. \A c \in Calls : Quiet(c)' => CallInv(c)'
  BY DEF Quiet, CallInv, RequestCarries, RunsFromTable, ReplyExplained, ResultExplained
<1> QED BY <1>1, <1>2, <1>3

LEMMA InitExplained == Init => Explained
<1> SUFFICES ASSUME Init PROVE Explained
  OBVIOUS
<1>1. TableTyped
  <2>1. DOMAIN handlers = {} /\ built = FALSE /\ Len(log) = 0
    BY DEF Init
  <2>2. Len(log) <= MaxRegistrations
    BY <2>1, RegistrationsAssumption
  <2>3. \A n \in DOMAIN handlers :
          handlers[n] \in {Raw} \cup {MethodOf(s, m) : s \in Services, m \in Names}
    BY <2>1
  <2>4. DOMAIN handlers \subseteq Names /\ built \in BOOLEAN
    BY <2>1
  <2> QED BY <2>2, <2>3, <2>4 DEF TableTyped
<1>2. CallVariables
  BY DEF Init, CallVariables
<1>3. TableIsLog
  <2>1. log \in Seq(Registrations) /\ DOMAIN log = {} /\ DOMAIN handlers = {}
    BY DEF Init
  <2> QED BY <2>1 DEF TableIsLog
<1>4. ClientIsExpanded
  BY DEF Init, ClientIsExpanded, Nothing
<1>5. \A c \in Calls : CallInv(c)
  <2> TAKE c \in Calls
  <2>1. Quiet(c)
    BY DEF Init, Quiet
  <2> QED BY <2>1, QuietIsExplained
<1> QED BY <1>1, <1>2, <1>3, <1>4, <1>5 DEF Init, Explained

LEMMA CompileExplained == Explained /\ Compile => Explained'
<1> SUFFICES ASSUME Explained, Compile PROVE Explained'
  OBVIOUS
<1>1. \A c \in Calls : work[c] = "none"
  <2> TAKE c \in Calls
  <2>1. client.tag # "Expanded"
    BY DEF Compile, Nothing
  <2> QED BY <2>1 DEF Explained, CallInv, RequestCarries
<1>2. CallVariables' /\ \A c \in Calls : CallInv(c)'
  BY <1>1, QuietStays DEF Compile
<1>3. TableTyped' /\ TableIsLog'
  BY DEF Explained, Compile, TableTyped, TableIsLog, Newest, tableVars
<1>4. ClientIsExpanded' /\ source' \in Sources
  BY DEF Explained, Compile, ClientIsExpanded, Nothing
<1> QED BY <1>2, <1>3, <1>4 DEF Explained

LEMMA EnterExplained ==
  ASSUME Explained, UNCHANGED <<source, client>>, NEW new \in Registrations, Enter(new),
         DOMAIN new \subseteq Names,
         \A n \in DOMAIN new : new[n] \in {Raw} \cup {MethodOf(s, m) : s \in Services, m \in Names}
  PROVE  Explained'
<1>1. \A c \in Calls : work[c] = "none"
  BY DEF Enter, Explained, CallInv, RequestCarries
<1>2. CallVariables' /\ \A c \in Calls : CallInv(c)'
  BY <1>1, QuietStays DEF Enter
<1>3. ClientIsExpanded' /\ source' \in Sources
  BY DEF Explained, ClientIsExpanded
<1>4. log \in Seq(Registrations) /\ Len(log) \in Nat /\ DOMAIN log = 1 .. Len(log)
  BY DEF Explained, TableIsLog
<1>5. /\ log' \in Seq(Registrations) /\ Len(log') = Len(log) + 1
      /\ DOMAIN log' = 1 .. Len(log) + 1 /\ log'[Len(log) + 1] = new
      /\ \A k \in 1 .. Len(log) : log'[k] = log[k]
  <2>1. log' = Append(log, new)
    BY DEF Enter
  <2> QED BY <1>4, <2>1, AppendProperties
<1>6. /\ DOMAIN handlers' = DOMAIN handlers \cup DOMAIN new
      /\ \A n \in DOMAIN handlers' : handlers'[n] = IF n \in DOMAIN new THEN new[n] ELSE handlers[n]
  BY DEF Enter
<1>7. TableTyped'
  <2>1. Len(log') <= MaxRegistrations
    BY <1>4, <1>5, RegistrationsAssumption DEF Enter
  <2> QED BY <1>6, <2>1 DEF Explained, TableTyped, Enter
<1>8. DOMAIN handlers' = UNION {DOMAIN log'[k] : k \in DOMAIN log'}
  <2>1. DOMAIN handlers = UNION {DOMAIN log[k] : k \in DOMAIN log}
    BY DEF Explained, TableIsLog
  <2> QED BY <1>4, <1>5, <1>6, <2>1
<1>9. ASSUME NEW n \in DOMAIN handlers'
      PROVE  handlers'[n] = Newest(n)'
  <2>1. CASE n \in DOMAIN new
    <3> DEFINE S == {k \in DOMAIN log' : n \in DOMAIN log'[k]}
    <3>1. Len(log) + 1 \in S /\ \A k \in S : Len(log) + 1 >= k /\ k \in Nat
      BY <1>4, <1>5, <2>1
    <3>2. Max(S) = Len(log) + 1
      <4>1. \A m \in S : (\A k \in S : m >= k) => m = Len(log) + 1
        BY <1>4, <3>1
      <4> QED BY <3>1, <4>1 DEF Max
    <3>3. Newest(n)' = new[n]
      BY <3>2, <1>5 DEF Newest
    <3> QED BY <1>6, <2>1, <3>3
  <2>2. CASE n \notin DOMAIN new
    <3> DEFINE S == {k \in DOMAIN log : n \in DOMAIN log[k]}
    <3>1. {k \in DOMAIN log' : n \in DOMAIN log'[k]} = S
      BY <1>4, <1>5, <2>2
    <3>2. n \in DOMAIN handlers /\ S # {}
      BY <1>6, <2>2 DEF Explained, TableIsLog
    <3>3. Max(S) \in 1 .. Len(log)
      <4>1. S \in SUBSET (1 .. Len(log))
        BY <1>4
      <4> QED BY <1>4, <3>2, <4>1, GreatestElement
    <3>4. Newest(n)' = log'[Max(S)][n]
      BY <3>1 DEF Newest
    <3>5. handlers[n] = log[Max(S)][n]
      BY <3>2 DEF Explained, TableIsLog, Newest
    <3> QED BY <1>5, <1>6, <2>2, <3>3, <3>4, <3>5
  <2> QED BY <2>1, <2>2
<1>10. TableIsLog'
  BY <1>5, <1>8, <1>9 DEF TableIsLog
<1> QED BY <1>2, <1>3, <1>7, <1>10 DEF Explained

LEMMA RegisterExplained ==
  ASSUME Explained, UNCHANGED <<source, client>>, NEW n \in Names, Register(n)
  PROVE  Explained'
<1> DEFINE new == [m \in {n} |-> Raw]
<1>1. new \in Registrations /\ DOMAIN new \subseteq Names /\ \A m \in DOMAIN new : new[m] = Raw
  BY DEF Registrations
<1>2. Enter(new)
  BY DEF Register
<1> HIDE DEF new
<1> QED BY <1>1, <1>2, EnterExplained

LEMMA AddServiceExplained ==
  ASSUME Explained, UNCHANGED <<source, client>>, NEW s \in Services, AddService(s)
  PROVE  Explained'
<1> DEFINE new == [n \in s.names |-> MethodOf(s, n)]
<1>1. /\ new \in Registrations /\ DOMAIN new \subseteq Names
      /\ \A m \in DOMAIN new : m \in Names /\ new[m] = MethodOf(s, m)
  BY DeployedAssumption DEF Registrations
<1>2. Enter(new)
  BY DEF AddService
<1> HIDE DEF new
<1>3. \A m \in DOMAIN new : new[m] \in {MethodOf(t, x) : t \in Services, x \in Names}
  BY <1>1
<1> QED BY <1>1, <1>2, <1>3, EnterExplained

LEMMA BuildExplained == Explained /\ UNCHANGED <<source, client>> /\ Build => Explained'
<1> SUFFICES ASSUME Explained, UNCHANGED <<source, client>>, Build PROVE Explained'
  OBVIOUS
<1>1. \A c \in Calls : work[c] = "none"
  BY DEF Build, Explained, CallInv, RequestCarries
<1>2. CallVariables' /\ \A c \in Calls : CallInv(c)'
  BY <1>1, QuietStays DEF Build
<1>3. TableTyped' /\ TableIsLog'
  BY DEF Explained, Build, TableTyped, TableIsLog, Newest
<1>4. ClientIsExpanded' /\ source' \in Sources
  BY DEF Explained, ClientIsExpanded
<1> QED BY <1>2, <1>3, <1>4 DEF Explained

-----------------------------------------------------------------------------
(***************************************************************************)
(* The steps of a call.                                                    *)
(***************************************************************************)
LEMMA StubSendExplained ==
  ASSUME Explained, client.tag = "Expanded", UNCHANGED <<source, client>>, NEW c \in Calls,
         NEW n \in DOMAIN Stub, NEW v \in Tuples(Stub[n].args), StubSend(c, n, v)
  PROVE  Explained'
<1>1. CallVariables' /\ \A d \in Calls \ {c} : SameCall(d)
  BY DEF Explained, CallVariables, StubSend, Invoke, SameCall
<1>2. /\ name'[c] = n /\ args'[c] = v /\ payload'[c] = Encode(Stub[n].args, v)
      /\ stub'[c] = "waiting" /\ work'[c] = "sent"
  BY DEF Explained, CallVariables, StubSend, Invoke
<1>3. Quiet(c) /\ stub[c] = "idle" /\ built /\ Encodable(Stub[n].args, v)
  BY UnsentIsQuiet DEF Explained, CallInv, RequestCarries, StubSend, Invoke
<1>4. UNCHANGED <<source, client, tableVars>> /\ ran' = ran /\ result' = result
  BY DEF StubSend, Invoke
<1>5. Stub' = Stub /\ built' = built
  BY <1>4 DEF Stub, tableVars
<1>6. CallInv(c)'
  BY <1>2, <1>3, <1>4, <1>5
     DEF CallInv, RequestCarries, RunsFromTable, ReplyExplained, ResultExplained, Quiet
<1> QED BY <1>1, <1>4, <1>6, OneCall

LEMMA StubEncodeFailedExplained ==
  ASSUME Explained, UNCHANGED <<source, client>>, NEW c \in Calls, NEW n, NEW v,
         StubEncodeFailed(c, n, v)
  PROVE  Explained'
<1>1. CallVariables' /\ \A d \in Calls \ {c} : SameCall(d)
  BY DEF Explained, CallVariables, StubEncodeFailed, Invoke, Resolve, SameCall
<1>2. stub'[c] = "done" /\ result'[c] = Remote(EncodeFailed) /\ work' = work /\ ran' = ran
  BY DEF Explained, CallVariables, StubEncodeFailed, Invoke, Resolve
<1>3. Quiet(c)
  BY UnsentIsQuiet DEF Explained, CallInv, RequestCarries, StubEncodeFailed, Invoke
<1>4. UNCHANGED <<source, client, tableVars>>
  BY DEF StubEncodeFailed, Invoke
<1>5. CallInv(c)'
  BY <1>2, <1>3
     DEF CallInv, RequestCarries, RunsFromTable, ReplyExplained, ResultExplained, Quiet
<1> QED BY <1>1, <1>4, <1>5, OneCall

(* The stub resolves: nothing else about the call changes. *)
LEMMA ResolveExplained ==
  ASSUME Explained, NEW c \in Calls, NEW r, stub[c] = "waiting", Resolve(c, r),
         UNCHANGED <<source, client, tableVars, work, callVars, ran, returned, reply>>,
         r = Closed \/ (work[c] = "replied" /\ r = StubResult(Stub[name[c]].ok, reply[c]))
  PROVE  Explained'
<1>1. CallVariables' /\ \A d \in Calls \ {c} : SameCall(d)
  BY DEF Explained, CallVariables, callVars, Resolve, SameCall
<1>2. stub'[c] = "done" /\ result'[c] = r
  BY DEF Explained, CallVariables, Resolve
<1>3. /\ Stub' = Stub /\ built' = built /\ handlers' = handlers /\ Served(c)' = Served(c)
      /\ UNCHANGED <<client, name, args, payload, work, ran, returned, reply>>
  BY DEF Stub, tableVars, callVars, Served
<1>4. CallInv(c)
  BY DEF Explained
<1>5. RequestCarries(c)'
  BY <1>2, <1>3, <1>4 DEF CallInv, RequestCarries
<1>6. RunsFromTable(c)'
  BY <1>3, <1>4 DEF CallInv, RunsFromTable
<1>7. ReplyExplained(c)'
  <2>1. /\ Missed(c)' = Missed(c) /\ ByClosure(c)' = ByClosure(c)
        /\ Refused(c)' = Refused(c) /\ ByMethod(c)' = ByMethod(c)
    BY <1>3 DEF Missed, ByClosure, Refused, ByMethod
  <2> QED BY <1>3, <1>4, <2>1 DEF CallInv, ReplyExplained
<1>8. ResultExplained(c)'
  BY <1>2, <1>3 DEF ResultExplained
<1> QED BY <1>1, <1>5, <1>6, <1>7, <1>8, OneCall DEF CallInv

LEMMA StubReturnExplained ==
  ASSUME Explained, UNCHANGED <<source, client>>, NEW c \in Calls, StubReturn(c)
  PROVE  Explained'
BY ResolveExplained DEF StubReturn

LEMMA StubClosedExplained ==
  ASSUME Explained, UNCHANGED <<source, client>>, NEW c \in Calls, StubClosed(c)
  PROVE  Explained'
BY ResolveExplained DEF StubClosed

(* The server replies: the origin of the reply is all that is left to show. *)
LEMMA AnswerExplained ==
  ASSUME Explained, UNCHANGED <<source, client>>, NEW c \in Calls, NEW r,
         work[c] # "none", work[c] # "replied", Answer(c, r), ran' = ran, DOMAIN returned' = Calls,
         \A d \in Calls \ {c} : returned'[d] = returned[d],
         IF ran[c] = Nothing THEN Missed(c)' \/ ByClosure(c)' \/ Refused(c)' ELSE ByMethod(c)'
  PROVE  Explained'
<1>1. CallVariables' /\ \A d \in Calls \ {c} : SameCall(d)
  BY DEF Explained, CallVariables, callVars, Answer, SameCall
<1>2. work'[c] = "replied"
  BY DEF Explained, CallVariables, Answer
<1>3. UNCHANGED <<source, client, tableVars>> /\ Stub' = Stub /\ Served(c)' = Served(c)
  BY DEF Answer, Stub, Served
<1>4. /\ built' = built /\ handlers' = handlers
      /\ UNCHANGED <<client, name, args, payload, stub, ran, result>>
  BY DEF Answer, tableVars, callVars
<1>5. CallInv(c)
  BY DEF Explained
<1>6. RequestCarries(c)'
  BY <1>2, <1>3, <1>4, <1>5 DEF CallInv, RequestCarries
<1>7. RunsFromTable(c)'
  BY <1>2, <1>3, <1>4, <1>5 DEF CallInv, RunsFromTable
<1>8. ReplyExplained(c)'
  BY DEF ReplyExplained
<1>9. ResultExplained(c)'
  BY <1>4, <1>5 DEF CallInv, ResultExplained
<1> QED BY <1>1, <1>3, <1>6, <1>7, <1>8, <1>9, OneCall DEF CallInv

LEMMA DispatchMissingExplained ==
  ASSUME Explained, UNCHANGED <<source, client>>, NEW c \in Calls, DispatchMissing(c)
  PROVE  Explained'
<1>1. work[c] = "sent" /\ Answer(c, ErrorReply(UnknownMethod)) /\ UNCHANGED <<ran, returned>>
  BY DEF DispatchMissing
<1>2. ran[c] = Nothing /\ DOMAIN returned' = Calls
  BY <1>1 DEF Explained, CallVariables, CallInv, RunsFromTable
<1>3. Missed(c)'
  <2>1. reply'[c] = ErrorReply(UnknownMethod) /\ name' = name /\ handlers' = handlers
    BY <1>1 DEF Answer, Explained, CallVariables, callVars, tableVars
  <2> QED BY <2>1 DEF Missed, DispatchMissing
<1> QED BY <1>1, <1>2, <1>3, AnswerExplained

LEMMA DispatchClosureExplained ==
  ASSUME Explained, UNCHANGED <<source, client>>, NEW c \in Calls, DispatchClosure(c)
  PROVE  Explained'
<1>1. PICK r \in {Response(p) : p \in RawReplies} \cup {ErrorReply(e) : e \in AppCodes} : Answer(c, r)
  BY DEF DispatchClosure
<1>2. work[c] = "sent" /\ UNCHANGED <<ran, returned>>
  BY DEF DispatchClosure, Finds
<1>3. ran[c] = Nothing /\ DOMAIN returned' = Calls
  BY <1>2 DEF Explained, CallVariables, CallInv, RunsFromTable
<1>4. name[c] \in DOMAIN handlers /\ handlers[name[c]] = Raw
  <2>1. name[c] \in DOMAIN handlers /\ handlers[name[c]].kind = "closure"
    BY DEF DispatchClosure, Finds
  <2>2. TableIsLog
    BY DEF Explained
  <2> QED BY <2>1, <2>2, TableEntry DEF MethodOf
<1>5. ByClosure(c)'
  <2>1. reply'[c] = r /\ name' = name /\ handlers' = handlers
    BY <1>1 DEF Answer, Explained, CallVariables, callVars, tableVars
  <2> QED BY <1>1, <1>4, <2>1 DEF ByClosure
<1> QED BY <1>1, <1>2, <1>3, <1>5, AnswerExplained

(* The service a request finds, and the arm of its generated match. *)
LEMMA FindsMethod ==
  ASSUME Explained, NEW c \in Calls, Finds(c, "method")
  PROVE  \E s \in Services :
           /\ name[c] \in DOMAIN handlers /\ name[c] \in DOMAIN s.arms
           /\ handlers[name[c]] = MethodOf(s, name[c])
           /\ handlers[name[c]].svc = s /\ handlers[name[c]].method = name[c]
           /\ Arm(handlers[name[c]], payload[c]) = Decode(s.arms[name[c]].args, payload[c])
           /\ ArmError(handlers[name[c]]) = DecodeFailed
<1>1. name[c] \in DOMAIN handlers /\ handlers[name[c]].kind = "method"
  BY DEF Finds
<1>2. TableIsLog
  BY DEF Explained
<1>3. PICK s \in Services : name[c] \in DOMAIN s.arms /\ handlers[name[c]] = MethodOf(s, name[c])
  BY <1>1, <1>2, TableEntry, EveryNameHasAnArm DEF Raw
<1>4. handlers[name[c]].svc = s /\ handlers[name[c]].method = name[c]
  BY <1>3 DEF MethodOf
<1>5. Arm(handlers[name[c]], payload[c]) = Decode(s.arms[name[c]].args, payload[c])
  BY <1>3, <1>4 DEF Arm
<1>6. ArmError(handlers[name[c]]) = DecodeFailed
  BY <1>3, <1>4 DEF ArmError
<1> QED BY <1>1, <1>3, <1>4, <1>5, <1>6

LEMMA DispatchRefuseExplained ==
  ASSUME Explained, UNCHANGED <<source, client>>, NEW c \in Calls, DispatchRefuse(c)
  PROVE  Explained'
<1>1. Finds(c, "method") /\ work[c] = "sent" /\ UNCHANGED <<ran, returned>>
  BY DEF DispatchRefuse, Finds
<1>2. PICK s \in Services :
        /\ name[c] \in DOMAIN handlers /\ handlers[name[c]] = MethodOf(s, name[c])
        /\ handlers[name[c]].svc = s
        /\ Arm(handlers[name[c]], payload[c]) = Decode(s.arms[name[c]].args, payload[c])
        /\ ArmError(handlers[name[c]]) = DecodeFailed
  BY <1>1, FindsMethod
<1>3. ran[c] = Nothing /\ DOMAIN returned' = Calls
  BY <1>1 DEF Explained, CallVariables, CallInv, RunsFromTable
<1>4. Answer(c, ErrorReply(DecodeFailed)) /\ Decode(s.arms[name[c]].args, payload[c]) = {}
  BY <1>2 DEF DispatchRefuse
<1>5. Refused(c)'
  <2>1. /\ reply'[c] = ErrorReply(DecodeFailed)
        /\ name' = name /\ handlers' = handlers /\ payload' = payload
    BY <1>4 DEF Answer, Explained, CallVariables, callVars, tableVars
  <2>2. handlers[name[c]] # Raw
    BY <1>2 DEF MethodOf, Raw
  <2> QED BY <1>2, <1>4, <2>1, <2>2 DEF Refused
<1> QED BY <1>1, <1>3, <1>4, <1>5, AnswerExplained

LEMMA DispatchRunExplained ==
  ASSUME Explained, UNCHANGED <<source, client>>, NEW c \in Calls, DispatchRun(c)
  PROVE  Explained'
<1>1. Finds(c, "method") /\ work[c] = "sent"
  BY DEF DispatchRun, Finds
<1>2. PICK s \in Services :
        /\ name[c] \in DOMAIN handlers /\ name[c] \in DOMAIN s.arms
        /\ handlers[name[c]] = MethodOf(s, name[c])
        /\ handlers[name[c]].svc = s /\ handlers[name[c]].method = name[c]
        /\ Arm(handlers[name[c]], payload[c]) = Decode(s.arms[name[c]].args, payload[c])
  BY <1>1, FindsMethod
<1>3. PICK v \in Decode(s.arms[name[c]].args, payload[c]) :
        ran' = [ran EXCEPT ![c] = [svc |-> s, method |-> name[c], args |-> v]]
  BY <1>2 DEF DispatchRun
<1>4. CallVariables' /\ \A d \in Calls \ {c} : SameCall(d)
  BY <1>3 DEF Explained, CallVariables, callVars, DispatchRun, SameCall
<1>5. work'[c] = "running" /\ ran'[c] = [svc |-> s, method |-> name[c], args |-> v]
  BY <1>3 DEF Explained, CallVariables, DispatchRun
<1>6. UNCHANGED <<source, client, tableVars>> /\ Stub' = Stub
  BY DEF DispatchRun, Stub
<1>7. /\ built' = built /\ handlers' = handlers
      /\ UNCHANGED <<client, name, args, payload, stub, result>>
  BY DEF DispatchRun, tableVars, callVars
<1>8. CallInv(c)
  BY DEF Explained
<1>9. RequestCarries(c)'
  BY <1>1, <1>5, <1>6, <1>7, <1>8 DEF CallInv, RequestCarries
<1>10. RunsFromTable(c)'
  <2>1. Served(c)' = s.arms[name[c]] /\ ran'[c].args = v /\ ran'[c].svc = s
        /\ ran'[c].method = name[c]
    BY <1>5 DEF Served
  <2>2. ran'[c] # Nothing
    BY <1>5 DEF Nothing
  <2> QED BY <1>2, <1>3, <1>5, <1>7, <2>1, <2>2 DEF RunsFromTable
<1>11. ReplyExplained(c)'
  BY <1>5 DEF ReplyExplained
<1>12. ResultExplained(c)'
  BY <1>1, <1>7, <1>8 DEF CallInv, ResultExplained
<1> QED BY <1>4, <1>6, <1>9, <1>10, <1>11, <1>12, OneCall DEF CallInv

LEMMA MethodReturnExplained ==
  ASSUME Explained, UNCHANGED <<source, client>>, NEW c \in Calls, MethodReturn(c)
  PROVE  Explained'
<1> DEFINE ts == Served(c).ok
<1>1. PICK v \in Tuples(ts) :
        /\ returned' = [returned EXCEPT ![c] = Ok(v)]
        /\ Answer(c, IF Encodable(ts, v) THEN Response(Encode(ts, v))
                     ELSE ErrorReply(FromPatinaError(Remote(EncodeFailed))))
  BY DEF MethodReturn, Served
<1>2. FromPatinaError(Remote(EncodeFailed)) = EncodeFailed
  BY DEF FromPatinaError, Remote
<1> DEFINE r == IF Encodable(ts, v) THEN Response(Encode(ts, v)) ELSE ErrorReply(EncodeFailed)
<1>3. work[c] = "running" /\ ran' = ran /\ ran[c] # Nothing /\ Answer(c, r)
  BY <1>1, <1>2 DEF MethodReturn, Explained, CallInv, RunsFromTable
<1>4. /\ DOMAIN returned' = Calls /\ returned'[c] = Ok(v)
      /\ \A d \in Calls \ {c} : returned'[d] = returned[d]
  BY <1>1 DEF Explained, CallVariables
<1>5. reply'[c] = r
  BY <1>3 DEF Answer, Explained, CallVariables
<1>6. Served(c)' = Served(c)
  BY <1>3 DEF Served
<1>7. ByMethod(c)'
  BY <1>1, <1>4, <1>5, <1>6, Zenon DEF ByMethod
<1> HIDE DEF r
<1> QED BY <1>3, <1>4, <1>7, AnswerExplained, SMTT(40)

LEMMA MethodFailExplained ==
  ASSUME Explained, UNCHANGED <<source, client>>, NEW c \in Calls, MethodFail(c)
  PROVE  Explained'
<1>1. PICK e \in PatinaErrors :
        /\ returned' = [returned EXCEPT ![c] = e]
        /\ Answer(c, ErrorReply(FromPatinaError(e)))
  BY DEF MethodFail
<1>2. work[c] = "running" /\ ran' = ran /\ ran[c] # Nothing
  BY DEF MethodFail, Explained, CallInv, RunsFromTable
<1>3. /\ DOMAIN returned' = Calls /\ returned'[c] = e
      /\ \A d \in Calls \ {c} : returned'[d] = returned[d]
  BY <1>1 DEF Explained, CallVariables
<1>4. reply'[c] = ErrorReply(FromPatinaError(e))
  BY <1>1 DEF Answer, Explained, CallVariables
<1>5. ByMethod(c)'
  BY <1>1, <1>3, <1>4 DEF ByMethod
<1> QED BY <1>1, <1>2, <1>3, <1>5, AnswerExplained

-----------------------------------------------------------------------------
(***************************************************************************)
(* The theorems.                                                           *)
(***************************************************************************)
LEMMA NextExplained == Explained /\ [Next]_vars => Explained'
<1> SUFFICES ASSUME Explained, [Next]_vars PROVE Explained'
  OBVIOUS
<1>1. CASE Compile
  BY <1>1, CompileExplained
<1>2. CASE client.tag = "Expanded" /\ Run /\ UNCHANGED <<source, client>>
  <2>0. client.tag = "Expanded" /\ UNCHANGED <<source, client>>
    BY <1>2
  <2>1. CASE \E n \in Names : Register(n)
    BY <2>0, <2>1, RegisterExplained
  <2>2. CASE \E s \in Services : AddService(s)
    BY <2>0, <2>2, AddServiceExplained
  <2>3. CASE Build
    BY <2>0, <2>3, BuildExplained
  <2>4. ASSUME NEW c \in Calls,
               \/ \E n \in DOMAIN Stub : \E v \in Tuples(Stub[n].args) :
                    StubSend(c, n, v) \/ StubEncodeFailed(c, n, v)
               \/ StubReturn(c) \/ StubClosed(c)
               \/ DispatchMissing(c) \/ DispatchClosure(c)
               \/ DispatchRefuse(c) \/ DispatchRun(c)
               \/ MethodReturn(c) \/ MethodFail(c)
        PROVE  Explained'
    <3>1. CASE \E n \in DOMAIN Stub : \E v \in Tuples(Stub[n].args) : StubSend(c, n, v)
      BY <2>0, <3>1, StubSendExplained
    <3>2. CASE \E n \in DOMAIN Stub : \E v \in Tuples(Stub[n].args) : StubEncodeFailed(c, n, v)
      BY <2>0, <3>2, StubEncodeFailedExplained
    <3>3. CASE StubReturn(c)
      BY <2>0, <3>3, StubReturnExplained
    <3>4. CASE StubClosed(c)
      BY <2>0, <3>4, StubClosedExplained
    <3>5. CASE DispatchMissing(c)
      BY <2>0, <3>5, DispatchMissingExplained
    <3>6. CASE DispatchClosure(c)
      BY <2>0, <3>6, DispatchClosureExplained
    <3>7. CASE DispatchRefuse(c)
      BY <2>0, <3>7, DispatchRefuseExplained
    <3>8. CASE DispatchRun(c)
      BY <2>0, <3>8, DispatchRunExplained
    <3>9. CASE MethodReturn(c)
      BY <2>0, <3>9, MethodReturnExplained
    <3>10. CASE MethodFail(c)
      BY <2>0, <3>10, MethodFailExplained
    <3> QED BY <2>4, <3>1, <3>2, <3>3, <3>4, <3>5, <3>6, <3>7, <3>8, <3>9, <3>10
  <2> QED BY <1>2, <2>1, <2>2, <2>3, <2>4 DEF Run
<1>3. CASE UNCHANGED vars
  <2>1. UNCHANGED <<source, client, tableVars>> /\ CallVariables'
    BY <1>3 DEF vars, callVars, CallVariables, Explained
  <2>2. \A d \in Calls : SameCall(d)
    BY <1>3 DEF vars, callVars, SameCall
  <2>3. \A d \in Calls : CallInv(d)'
    <3> TAKE d \in Calls
    <3>1. SameCall(d) /\ CallInv(d)
      BY <2>2 DEF Explained
    <3> QED BY <2>1, <3>1, CallFrame DEF SameCall
  <2>4. TableTyped' /\ TableIsLog' /\ ClientIsExpanded' /\ source' \in Sources
    BY <2>1 DEF Explained, TableTyped, TableIsLog, Newest, tableVars, ClientIsExpanded
  <2> QED BY <2>1, <2>3, <2>4 DEF Explained
<1> QED BY <1>1, <1>2, <1>3 DEF Next

LEMMA AlwaysExplained == Spec => []Explained
BY InitExplained, NextExplained, PTL DEF Spec

(* The inductive invariant: in every reachable state the table is the log's,  *)
(* the client its trait's, and every request, run, reply and result can be    *)
(* traced to where it came from, for any traits, types and self-delimiting    *)
(* encodings, any number of calls and any order of registrations.             *)
THEOREM ServiceInvariant == Spec => []ServiceInv
BY AlwaysExplained, ExplainedIsInv, PTL

(* Whatever revision the client was built from, a service method runs only   *)
(* with values of its own argument types, and a caller is handed only values *)
(* of its own result type.                                                   *)
THEOREM TypeCorrect == Spec => []TypeOK
<1>1. ServiceInv => TypeOK
  BY DEF ServiceInv
<1> QED BY <1>1, ServiceInvariant, PTL

(* The server runs the method the caller named, and, if both sides agree on  *)
(* its argument types, with exactly the caller's arguments, in order.        *)
THEOREM RunsWhatWasCalled == Spec => []RunsAsCalled
<1>1. Explained => RunsAsCalled
  <2> SUFFICES ASSUME Explained, NEW c \in Calls, ran[c] # Nothing
               PROVE  /\ ran[c].method = name[c]
                      /\ Served(c).args = Stub[name[c]].args => ran[c].args = args[c]
    BY DEF RunsAsCalled
  <2> DEFINE ts == Stub[name[c]].args
  <2>1. CallInv(c)
    BY DEF Explained
  <2>2. ran[c].method = name[c] /\ ran[c].args \in Decode(Served(c).args, payload[c])
    BY <2>1 DEF CallInv, RunsFromTable
  <2>3. /\ client.tag = "Expanded" /\ name[c] \in DOMAIN Stub
        /\ args[c] \in Tuples(ts) /\ Encodable(ts, args[c]) /\ payload[c] = Encode(ts, args[c])
    BY <2>1 DEF CallInv, RunsFromTable, RequestCarries
  <2>4. ts \in Seq(Types)
    BY <2>3, StubTyped DEF Explained, Typed
  <2> HIDE DEF ts
  <2>5. Decode(ts, payload[c]) = {args[c]}
    BY <2>3, <2>4, DecodeEncode
  <2>6. Served(c).args = ts => ran[c].args = args[c]
    BY <2>2, <2>5
  <2> QED BY <2>2, <2>6 DEF ts
<1> QED BY <1>1, AlwaysExplained, PTL

(* A request is served by the last handler registered for its method, however *)
(* registrations of services and closures overlapped (ServerBuilder).         *)
THEOREM ServesNewest == Spec => []ServedByNewest
<1>1. Explained => ServedByNewest
  <2> SUFFICES ASSUME Explained, NEW c \in Calls, ran[c] # Nothing
               PROVE  MethodOf(ran[c].svc, name[c]) = Newest(name[c])
    BY DEF ServedByNewest
  <2>1. name[c] \in DOMAIN handlers /\ handlers[name[c]] = MethodOf(ran[c].svc, name[c])
    BY DEF Explained, CallInv, RunsFromTable
  <2>2. handlers[name[c]] = Newest(name[c])
    BY <2>1 DEF Explained, TableIsLog
  <2> QED BY <2>1, <2>2
<1> QED BY <1>1, AlwaysExplained, PTL

(* If the service of the client's own trait was registered last, it serves   *)
(* every request, and refuses none.                                          *)
THEOREM OwnServiceAlwaysServes == Spec => []OwnServiceServes
<1>1. Explained => OwnServiceServes
  <2> SUFFICES ASSUME Explained, NEW c \in Calls, work[c] = "replied", log # <<>>,
                      NEW n \in DOMAIN Last(log), Last(log)[n] # Raw,
                      Last(log)[n].svc.trait = source
               PROVE  ran[c] # Nothing /\ ran[c].svc.trait = source
    BY DEF OwnServiceServes
  <2> DEFINE k == Len(log)
             ts == Stub[name[c]].args
  <2>1. log \in Seq(Registrations) /\ k \in Nat /\ DOMAIN log = 1 .. k
    BY DEF Explained, TableIsLog
  <2>2. k \in DOMAIN log /\ log[k] \in Registrations /\ Last(log) = log[k]
    <3>1. k # 0
      BY <2>1, EmptySeq
    <3> QED BY <2>1, <3>1, ElementOfSeq DEF Last
  <2> HIDE DEF k
  <2>3. PICK s \in Services : log[k] = [m \in s.names |-> MethodOf(s, m)]
    <3>1. ~ \E m \in Names : log[k] = [x \in {m} |-> Raw]
      BY <2>2
    <3> QED BY <2>2, <3>1 DEF Registrations
  <2>4. s.trait = source
    <3>1. n \in s.names /\ log[k][n] = MethodOf(s, n)
      BY <2>2, <2>3
    <3> QED BY <2>2, <3>1 DEF MethodOf
  <2>5. CallInv(c)
    BY DEF Explained
  <2>6. /\ client.tag = "Expanded" /\ name[c] \in DOMAIN Stub
        /\ args[c] \in Tuples(ts) /\ Encodable(ts, args[c]) /\ payload[c] = Encode(ts, args[c])
    BY <2>5 DEF CallInv, RequestCarries
  <2>7. s.arms = Stub /\ s.names = DOMAIN Stub
    <3>1. PICK d \in Deployed : s = [trait |-> d, names |-> MethodNames(ServiceTrait(d)),
                                     arms |-> DispatchArms(ServiceTrait(d))]
      BY <2>3 DEF Services
    <3>2. s.arms = DispatchArms(ServiceTrait(source))
      BY <2>4, <3>1
    <3>3. Stub = ClientOf(ServiceTrait(source))
      BY <2>6 DEF Explained, ClientIsExpanded, Stub
    <3> QED BY <2>3, <3>2, <3>3, PassesAgree, EveryNameHasAnArm
  <2>8. name[c] \in DOMAIN handlers /\ handlers[name[c]] = MethodOf(s, name[c])
    <3>1. name[c] \in DOMAIN log[k] /\ log[k][name[c]] = MethodOf(s, name[c])
      BY <2>3, <2>6, <2>7
    <3>2. \A j \in DOMAIN log : ~(j > k)
      BY <2>1
    <3>3. Newest(name[c]) = log[k][name[c]]
      BY <2>1, <2>2, <3>1, <3>2, NewestIs
    <3>4. name[c] \in DOMAIN handlers
      BY <2>2, <3>1 DEF Explained, TableIsLog
    <3> QED BY <3>1, <3>3, <3>4 DEF Explained, TableIsLog
  <2>9. ran[c] # Nothing
    <3> SUFFICES ASSUME ran[c] = Nothing PROVE FALSE
      OBVIOUS
    <3>1. Missed(c) \/ ByClosure(c) \/ Refused(c)
      BY <2>5 DEF CallInv, ReplyExplained
    <3>2. handlers[name[c]] # Raw /\ handlers[name[c]].svc = s
      BY <2>8 DEF MethodOf, Raw
    <3>3. Refused(c)
      BY <2>8, <3>1, <3>2 DEF Missed, ByClosure
    <3>4. Decode(ts, payload[c]) = {}
      BY <3>2, <3>3, <2>7 DEF Refused
    <3>5. ts \in Seq(Types)
      BY <2>6, StubTyped DEF Explained, Typed
    <3> HIDE DEF ts
    <3>6. Decode(ts, payload[c]) = {args[c]}
      BY <2>6, <3>5, DecodeEncode
    <3> QED BY <3>4, <3>6
  <2>10. handlers[name[c]] = MethodOf(ran[c].svc, name[c])
    BY <2>5, <2>9 DEF CallInv, RunsFromTable
  <2>11. ran[c].svc = s
    BY <2>8, <2>10 DEF MethodOf
  <2> QED BY <2>4, <2>9, <2>11
<1> QED BY <1>1, AlwaysExplained, PTL

(* What a call that did not end in Closed returns is what the method returned: *)
(* the value, or what the client's own result type makes of its bytes, the     *)
(* application's error, or a 500.                                              *)
THEOREM ReturnsTheResult == Spec => []ResultIsTheReturn
<1>1. Explained => ResultIsTheReturn
  <2> SUFFICES ASSUME Explained, NEW c \in Calls, ran[c] # Nothing,
                      result[c] \notin {Nothing, Closed}
               PROVE  \/ /\ returned[c].tag = "Ok"
                         /\ ToldOfValue(Served(c).ok, Stub[name[c]].ok, returned[c].value, result[c])
                      \/ returned[c].tag = "Remote" /\ result[c] = returned[c]
                      \/ returned[c] \in {Closed, Unknown} /\ result[c] = Remote(500)
    BY DEF ResultIsTheReturn
  <2> DEFINE ts == Served(c).ok
             us == Stub[name[c]].ok
  <2>1. CallInv(c)
    BY DEF Explained
  <2>2. work[c] = "replied" /\ result[c] = StubResult(us, reply[c])
    BY <2>1 DEF CallInv, ResultExplained, RunsFromTable
  <2>3. ByMethod(c)
    BY <2>1, <2>2 DEF CallInv, ReplyExplained
  <2>4. ts \in Seq(Types)
    <3>1. ran[c].svc \in Services /\ ran[c].method \in DOMAIN ran[c].svc.arms
      BY <2>1 DEF CallInv, RunsFromTable
    <3> QED BY <3>1, ServiceTyped DEF Typed, Served
  <2>5. ASSUME NEW code, reply[c] = ErrorReply(code)
        PROVE  result[c] = Remote(code)
    BY <2>2, <2>5 DEF StubResult, ErrorReply
  <2> HIDE DEF us
  <2>6. CASE \E v \in Tuples(ts) :
               /\ returned[c] = Ok(v)
               /\ reply[c] = IF Encodable(ts, v) THEN Response(Encode(ts, v)) ELSE ErrorReply(EncodeFailed)
    <3>1. PICK v \in Tuples(ts) :
            /\ returned[c] = Ok(v)
            /\ reply[c] = IF Encodable(ts, v) THEN Response(Encode(ts, v)) ELSE ErrorReply(EncodeFailed)
      BY <2>6
    <3> HIDE DEF ts
    <3>2. returned[c].tag = "Ok" /\ returned[c].value = v
      BY <3>1 DEF Ok
    <3>3. ToldOfValue(ts, us, v, result[c])
      <4>1. CASE ~Encodable(ts, v)
        BY <2>5, <3>1, <4>1 DEF ToldOfValue
      <4>2. CASE Encodable(ts, v)
        <5> DEFINE values == Decode(us, Encode(ts, v))
        <5>1. reply[c].tag = "Response" /\ reply[c].payload = Encode(ts, v)
          BY <3>1, <4>2 DEF Response
        <5>2. result[c] = IF values = {} THEN Remote(DecodeFailed) ELSE Ok(CHOOSE w \in values : TRUE)
          BY <2>2, <5>1 DEF StubResult
        <5>3. ts = us => values = {v}
          BY <2>4, <3>1, <4>2, DecodeEncode
        <5> HIDE DEF values
        <5>4. ts = us => result[c] = Ok(v)
          BY <5>2, <5>3
        <5>5. result[c] = Remote(DecodeFailed) => values = {}
          <6>1. \A w : Ok(w) # Remote(DecodeFailed)
            BY DEF Ok, Remote
          <6> QED BY <5>2, <6>1
        <5>6. result[c] \in {Ok(w) : w \in values} \cup {Remote(DecodeFailed)}
          BY <5>2
        <5> QED BY <4>2, <5>4, <5>5, <5>6 DEF ToldOfValue, values
      <4> QED BY <4>1, <4>2
    <3> QED BY <3>2, <3>3 DEF ts, us
  <2>7. CASE \E e \in PatinaErrors : returned[c] = e /\ reply[c] = ErrorReply(FromPatinaError(e))
    <3>1. PICK e \in PatinaErrors : returned[c] = e /\ reply[c] = ErrorReply(FromPatinaError(e))
      BY <2>7
    <3>2. result[c] = Remote(FromPatinaError(e))
      BY <2>5, <3>1
    <3>3. CASE e \in {Closed, Unknown}
      <4>1. FromPatinaError(e) = 500
        BY <3>3 DEF FromPatinaError, Closed, Unknown
      <4> QED BY <3>1, <3>2, <3>3, <4>1
    <3>4. CASE \E code \in AppCodes : e = Remote(code)
      <4>1. Remote(FromPatinaError(e)) = e /\ e.tag = "Remote"
        BY <3>4 DEF FromPatinaError, Remote
      <4> QED BY <3>1, <3>2, <4>1
    <3> QED BY <3>1, <3>3, <3>4 DEF PatinaErrors
  <2> QED BY <2>3, <2>6, <2>7 DEF ByMethod
<1> QED BY <1>1, AlwaysExplained, PTL

(* If no handler uses 404 itself, a caller sees 404 only for a method nobody *)
(* registered, and nothing ran: the __unknown arm is never taken.            *)
THEOREM NotFoundMeansMissing == Spec => []NotFoundIsAMiss
<1>1. Explained => NotFoundIsAMiss
  <2> SUFFICES ASSUME Explained, UnknownMethod \notin AppCodes, NEW c \in Calls,
                      result[c] = Remote(UnknownMethod)
               PROVE  name[c] \notin DOMAIN handlers /\ ran[c] = Nothing
    BY DEF NotFoundIsAMiss
  <2>1. CallInv(c)
    BY DEF Explained
  <2>2. result[c].tag = "Remote" /\ result[c].code = 404
    BY DEF Remote, UnknownMethod
  <2>3. result[c] # Nothing /\ result[c] # Closed /\ result[c] # Remote(EncodeFailed)
    BY <2>2 DEF Nothing, Closed, Remote, EncodeFailed
  <2>4. work[c] = "replied" /\ result[c] = StubResult(Stub[name[c]].ok, reply[c])
    BY <2>1, <2>3 DEF CallInv, ResultExplained
  <2>5. reply[c].tag = "Error" /\ reply[c].code = 404
    BY <2>2, <2>4 DEF StubResult, Remote, Ok, DecodeFailed
  <2>6. ~ByClosure(c)
    BY <2>5 DEF ByClosure, Response, ErrorReply, UnknownMethod
  <2>7. ~Refused(c)
    BY <2>5 DEF Refused, ErrorReply, DecodeFailed
  <2>8. ~ByMethod(c)
    <3>1. \A e \in PatinaErrors : FromPatinaError(e) # 404
      BY DEF PatinaErrors, FromPatinaError, Remote, Closed, Unknown, UnknownMethod
    <3>2. \A code : reply[c] = ErrorReply(code) => code = 404
      BY <2>5 DEF ErrorReply
    <3>3. \A p : reply[c] # Response(p)
      BY <2>5 DEF Response
    <3>4. EncodeFailed # 404
      BY DEF EncodeFailed
    <3> QED BY <3>1, <3>2, <3>3, <3>4 DEF ByMethod
  <2> QED BY <2>1, <2>4, <2>6, <2>7, <2>8 DEF CallInv, ReplyExplained, Missed
<1> QED BY <1>1, AlwaysExplained, PTL

(* #[service] rejects a trait only for a rule it breaks, and expands none that *)
(* breaks a rule, lifetimes and consts beside the types of a Result apart.     *)
THEOREM MacroSpeaksTruth == Spec => []MacroIsTruthful
<1>1. Explained => MacroIsTruthful
  <2> SUFFICES ASSUME Explained PROVE MacroIsTruthful
    OBVIOUS
  <2>1. Declaration(source)
    BY SourcesAssumption DEF Explained
  <2>2. /\ TraitFault(source) # NoFault => TraitFault(source) \in Broken(source)
        /\ TraitFault(source) = NoFault => KeepsTheRules(source)
    BY <2>1, FaultsAreTruthful
  <2> QED BY <2>2 DEF MacroIsTruthful, Explained, ClientIsExpanded
<1> QED BY <1>1, AlwaysExplained, PTL
=============================================================================
