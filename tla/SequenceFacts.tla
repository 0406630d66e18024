--------------------------- MODULE SequenceFacts ----------------------------
(***************************************************************************)
(* Induction over the natural numbers, and what it says of FlattenSeq.     *)
(*                                                                         *)
(* The induction rule is stated for a set of numbers rather than for a     *)
(* predicate: a proof by induction defines the set of the numbers that     *)
(* have the property and cites NatSetInduction.                            *)
(***************************************************************************)
EXTENDS Integers, SequencesExt, SequenceTheorems, WellFoundedInduction, TLAPS

(* A nonempty set of natural numbers has a least element. *)
LEMMA LeastElement ==
  ASSUME NEW T \in SUBSET Nat, T # {}
  PROVE  \E x \in T : \A y \in T : x <= y
<1> DEFINE R == OpToRel(<, Nat)
<1>1. IsWellFoundedOn(R, Nat)
  BY NatLessThanWellFounded
<1>2. \E x \in T : \A y \in T : <<y, x>> \notin R
  <2> HIDE DEF R
  <2> QED BY <1>1, WFMin
<1>3. \A x, y \in T : <<y, x>> \notin R => x <= y
  BY DEF OpToRel
<1> HIDE DEF R
<1> QED BY <1>2, <1>3

(* A set that holds 0, and with a number the next one, holds every number. *)
LEMMA NatSetInduction ==
  ASSUME NEW T, 0 \in T, \A n \in Nat : n \in T => n + 1 \in T
  PROVE  \A n \in Nat : n \in T
<1> SUFFICES ASSUME Nat \ T # {} PROVE FALSE
  OBVIOUS
<1>1. PICK x \in Nat \ T : \A y \in Nat \ T : x <= y
  BY LeastElement
<1>2. x - 1 \in Nat /\ x - 1 \in T
  BY <1>1
<1>3. (x - 1) + 1 \in T
  BY <1>2
<1> QED BY <1>3, <1>1

-----------------------------------------------------------------------------
(***************************************************************************)
(* FlattenSeq concatenates the members of a sequence of sequences.         *)
(***************************************************************************)
(* f is the function FlattenSeq computes its result with, up to n. *)
Unrolled(s, f, n) ==
  f = [i \in 1 .. n |-> IF i = 1 THEN s[i] ELSE f[i - 1] \o s[i]]

LEMMA UnrolledStep ==
  ASSUME NEW s, NEW f, NEW n \in Nat, Unrolled(s, f, n), NEW i \in 1 .. n
  PROVE  f[i] = IF i = 1 THEN s[i] ELSE f[i - 1] \o s[i]
<1> DEFINE h == [j \in 1 .. n |-> IF j = 1 THEN s[j] ELSE f[j - 1] \o s[j]]
<1>1. h[i] = IF i = 1 THEN s[i] ELSE f[i - 1] \o s[i]
  OBVIOUS
<1>2. f = h
  BY DEF Unrolled
<1> HIDE DEF h
<1>3. f[i] = h[i]
  BY <1>2
<1> QED BY <1>1, <1>3

LEMMA UnrolledExists ==
  ASSUME NEW s
  PROVE  \A n \in Nat : \E f : Unrolled(s, f, n)
<1> DEFINE T == {n \in Nat : \E f : Unrolled(s, f, n)}
<1>1. 0 \in T
  <2>1. Unrolled(s, [i \in 1 .. 0 |-> 0], 0)
    BY DEF Unrolled
  <2> QED BY <2>1
<1>2. ASSUME NEW n \in Nat, n \in T
      PROVE  n + 1 \in T
  <2>1. PICK f : Unrolled(s, f, n)
    BY <1>2
  <2> DEFINE g == [i \in 1 .. n + 1 |->
                     IF i <= n THEN f[i] ELSE IF i = 1 THEN s[i] ELSE f[i - 1] \o s[i]]
  <2>2. \A i \in 1 .. n + 1 : g[i] = IF i = 1 THEN s[i] ELSE g[i - 1] \o s[i]
    <3> TAKE i \in 1 .. n + 1
    <3>1. CASE i = n + 1
      BY <3>1
    <3>2. CASE i <= n
      <4>1. f[i] = IF i = 1 THEN s[i] ELSE f[i - 1] \o s[i]
        BY <2>1, <3>2, UnrolledStep
      <4> QED BY <3>2, <4>1
    <3> QED BY <3>1, <3>2
  <2>3. Unrolled(s, g, n + 1)
    <3> DEFINE h == [i \in 1 .. n + 1 |-> IF i = 1 THEN s[i] ELSE g[i - 1] \o s[i]]
    <3> SUFFICES g = h
      BY DEF Unrolled
    <3>1. DOMAIN g = 1 .. n + 1 /\ \A i \in 1 .. n + 1 : g[i] = h[i]
      BY <2>2
    <3> QED BY <3>1
  <2> QED BY <2>3
<1> HIDE DEF T
<1>3. \A n \in Nat : n \in T
  BY <1>1, <1>2, NatSetInduction
<1> QED BY <1>3 DEF T

LEMMA UnrolledAgree ==
  ASSUME NEW s, NEW f, NEW m \in Nat, Unrolled(s, f, m),
         NEW t, NEW g, NEW n \in Nat, Unrolled(t, g, n),
         NEW k \in Nat, k <= m, k <= n, \A i \in 1 .. k : s[i] = t[i]
  PROVE  \A i \in 1 .. k : f[i] = g[i]
<1> DEFINE T == {i \in Nat : i \in 1 .. k => f[i] = g[i]}
<1>1. 0 \in T
  OBVIOUS
<1>2. ASSUME NEW i \in Nat, i \in T
      PROVE  i + 1 \in T
  <2> SUFFICES ASSUME i + 1 \in 1 .. k
               PROVE  f[i + 1] = g[i + 1]
    OBVIOUS
  <2>1. f[i + 1] = IF i + 1 = 1 THEN s[i + 1] ELSE f[i] \o s[i + 1]
    <3>1. (i + 1) - 1 = i
      OBVIOUS
    <3> QED BY <3>1, UnrolledStep
  <2>2. g[i + 1] = IF i + 1 = 1 THEN t[i + 1] ELSE g[i] \o t[i + 1]
    <3>1. (i + 1) - 1 = i
      OBVIOUS
    <3> QED BY <3>1, UnrolledStep
  <2>3. s[i + 1] = t[i + 1]
    OBVIOUS
  <2>4. i # 0 => f[i] = g[i]
    BY <1>2
  <2> QED BY <2>1, <2>2, <2>3, <2>4
<1> HIDE DEF T
<1>3. \A i \in Nat : i \in T
  BY <1>1, <1>2, NatSetInduction
<1> QED BY <1>3 DEF T

(* What FlattenSeq returns, for a sequence that is not empty. *)
LEMMA FlattenUnrolled ==
  ASSUME NEW s, Len(s) \in Nat \ {0}
  PROVE  \E f : Unrolled(s, f, Len(s)) /\ FlattenSeq(s) = f[Len(s)]
<1> DEFINE f == CHOOSE g : Unrolled(s, g, Len(s))
<1>1. Unrolled(s, f, Len(s))
  BY UnrolledExists
<1>2. FlattenSeq(s) = f[Len(s)]
  BY DEF FlattenSeq, Unrolled
<1> QED BY <1>1, <1>2

(* The first k members determine the first k partial results, so appending *)
(* a member appends its elements.                                          *)
LEMMA FlattenAppend ==
  ASSUME NEW S, NEW s \in Seq(Seq(S)), NEW x \in Seq(S)
  PROVE  FlattenSeq(Append(s, x)) = FlattenSeq(s) \o x
<1> DEFINE n == Len(s)
           t == Append(s, x)
<1>1. /\ n \in Nat /\ Len(t) = n + 1 /\ t[n + 1] = x
      /\ \A i \in 1 .. n : t[i] = s[i]
  BY AppendProperties
<1> HIDE DEF n, t
<1>2. PICK g : Unrolled(t, g, n + 1) /\ FlattenSeq(t) = g[n + 1]
  BY <1>1, FlattenUnrolled
<1>3. g[n + 1] = IF n = 0 THEN x ELSE g[n] \o x
  <2>1. (n + 1) - 1 = n /\ n + 1 \in Nat /\ n + 1 \in 1 .. n + 1
    BY <1>1
  <2>2. g[n + 1] = IF n + 1 = 1 THEN t[n + 1] ELSE g[(n + 1) - 1] \o t[n + 1]
    BY <1>2, <2>1, UnrolledStep
  <2> QED BY <2>1, <2>2, <1>1
<1>4. CASE n = 0
  <2>1. s = <<>>
    BY <1>4 DEF n
  <2>2. FlattenSeq(s) = <<>>
    BY <2>1 DEF FlattenSeq
  <2>3. <<>> \o x = x
    BY ConcatEmptySeq
  <2> QED BY <1>2, <1>3, <1>4, <2>2, <2>3 DEF t
<1>5. CASE n # 0
  <2>1. PICK f : Unrolled(s, f, n) /\ FlattenSeq(s) = f[n]
    BY <1>1, <1>5, FlattenUnrolled DEF n
  <2>2. \A i \in 1 .. n : f[i] = g[i]
    BY <1>1, <1>2, <2>1, UnrolledAgree
  <2>3. f[n] = g[n]
    BY <2>2, <1>1, <1>5
  <2> QED BY <1>2, <1>3, <1>5, <2>1, <2>3 DEF t
<1> QED BY <1>4, <1>5

LEMMA FlattenEmpty == FlattenSeq(<<>>) = <<>>
BY DEF FlattenSeq

LEMMA FlattenOne ==
  ASSUME NEW S, NEW x \in Seq(S)
  PROVE  FlattenSeq(<<x>>) = x
<1>1. <<>> \in Seq(Seq(S)) /\ Append(<<>>, x) = <<x>>
  OBVIOUS
<1>2. FlattenSeq(Append(<<>>, x)) = FlattenSeq(<<>>) \o x
  BY <1>1, FlattenAppend
<1> QED BY <1>1, <1>2, FlattenEmpty, ConcatEmptySeq

LEMMA FlattenType ==
  ASSUME NEW S
  PROVE  \A s \in Seq(Seq(S)) : FlattenSeq(s) \in Seq(S)
<1> DEFINE T == {n \in Nat : \A s \in Seq(Seq(S)) : Len(s) = n => FlattenSeq(s) \in Seq(S)}
<1>1. 0 \in T
  <2>1. \A s \in Seq(Seq(S)) : Len(s) = 0 => s = <<>>
    BY EmptySeq
  <2> QED BY <2>1, FlattenEmpty, EmptySeq
<1>2. ASSUME NEW n \in Nat, n \in T
      PROVE  n + 1 \in T
  <2> SUFFICES ASSUME NEW s \in Seq(Seq(S)), Len(s) = n + 1
               PROVE  FlattenSeq(s) \in Seq(S)
    OBVIOUS
  <2>0. s # <<>>
    OBVIOUS
  <2>1. PICK r \in Seq(Seq(S)), x \in Seq(S) : s = Append(r, x)
    BY <2>0, SequenceEmptyOrAppend
  <2>2. Len(r) = n
    BY <2>1, AppendProperties
  <2>3. FlattenSeq(r) \in Seq(S)
    BY <1>2, <2>2
  <2>4. FlattenSeq(r) \o x \in Seq(S)
    BY <2>3, ConcatProperties
  <2> QED BY <2>1, <2>4, FlattenAppend
<1> HIDE DEF T
<1>3. \A n \in Nat : n \in T
  BY <1>1, <1>2, NatSetInduction
<1> QED BY <1>3 DEF T

(* Flattening distributes over concatenation. *)
LEMMA FlattenConcat ==
  ASSUME NEW S, NEW s \in Seq(Seq(S))
  PROVE  \A t \in Seq(Seq(S)) : FlattenSeq(s \o t) = FlattenSeq(s) \o FlattenSeq(t)
<1> DEFINE T == {n \in Nat : \A t \in Seq(Seq(S)) :
                    Len(t) = n => FlattenSeq(s \o t) = FlattenSeq(s) \o FlattenSeq(t)}
<1>0. FlattenSeq(s) \in Seq(S)
  BY FlattenType
<1>1. 0 \in T
  <2>1. \A t \in Seq(Seq(S)) : Len(t) = 0 => t = <<>>
    BY EmptySeq
  <2>2. s \o <<>> = s /\ FlattenSeq(s) \o <<>> = FlattenSeq(s)
    BY <1>0, ConcatEmptySeq
  <2> QED BY <2>1, <2>2, FlattenEmpty
<1>2. ASSUME NEW n \in Nat, n \in T
      PROVE  n + 1 \in T
  <2> SUFFICES ASSUME NEW t \in Seq(Seq(S)), Len(t) = n + 1
               PROVE  FlattenSeq(s \o t) = FlattenSeq(s) \o FlattenSeq(t)
    OBVIOUS
  <2>0. t # <<>>
    OBVIOUS
  <2>1. PICK r \in Seq(Seq(S)), x \in Seq(S) : t = Append(r, x)
    BY <2>0, SequenceEmptyOrAppend
  <2>2. Len(r) = n
    BY <2>1, AppendProperties
  <2>3. FlattenSeq(s \o r) = FlattenSeq(s) \o FlattenSeq(r)
    BY <1>2, <2>2
  <2>4. s \o t = Append(s \o r, x)
    <3>1. <<x>> \in Seq(Seq(S)) /\ s \o r \in Seq(Seq(S))
      BY ConcatProperties
    <3>2. s \o (r \o <<x>>) = (s \o r) \o <<x>>
      BY <3>1, ConcatAssociative
    <3> QED BY <2>1, <3>1, <3>2, AppendIsConcat
  <2>5. FlattenSeq(s \o t) = FlattenSeq(s \o r) \o x
    <3>1. s \o r \in Seq(Seq(S))
      BY ConcatProperties
    <3> QED BY <2>4, <3>1, FlattenAppend
  <2>6. FlattenSeq(t) = FlattenSeq(r) \o x
    BY <2>1, FlattenAppend
  <2>7. FlattenSeq(r) \in Seq(S)
    BY FlattenType
  <2>8. (FlattenSeq(s) \o FlattenSeq(r)) \o x = FlattenSeq(s) \o (FlattenSeq(r) \o x)
    BY <1>0, <2>1, <2>7, ConcatAssociative
  <2> QED BY <2>3, <2>5, <2>6, <2>8
<1> HIDE DEF T
<1>3. \A n \in Nat : n \in T
  BY <1>1, <1>2, NatSetInduction
<1>4. \A t \in Seq(Seq(S)) : Len(t) \in Nat
  OBVIOUS
<1> QED BY <1>3, <1>4 DEF T
=============================================================================
