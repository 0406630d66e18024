------------------------- MODULE ServiceMacroProofs -------------------------
(***************************************************************************)
(* Proofs about ServiceMacro: the chain of early returns in model.rs finds *)
(* a fault exactly in the declarations that break one of the macro's       *)
(* rules, and names a rule that is broken.                                 *)
(***************************************************************************)
EXTENDS ServiceMacro, SequenceFacts, FiniteSetTheorems

-----------------------------------------------------------------------------
(* FirstFault finds no fault if no check fails, and one of the failing ones *)
(* otherwise.                                                               *)
LEMMA FirstFaultIs ==
  ASSUME NEW checks, DOMAIN checks \subseteq Nat
  PROVE  /\ FirstFault(checks) = NoFault => \A k \in DOMAIN checks : checks[k] = NoFault
         /\ FirstFault(checks) # NoFault =>
              \E k \in DOMAIN checks : checks[k] # NoFault /\ FirstFault(checks) = checks[k]
<1> DEFINE failed == {k \in DOMAIN checks : checks[k] # NoFault}
<1>1. CASE failed = {}
  BY <1>1 DEF FirstFault
<1>2. CASE failed # {}
  <2>1. \E x \in failed : \A y \in failed : x <= y
    BY <1>2, LeastElement
  <2>2. Min(failed) \in failed
    BY <2>1 DEF Min
  <2>3. FirstFault(checks) = checks[Min(failed)]
    BY <1>2 DEF FirstFault
  <2> QED BY <2>2, <2>3
<1> QED BY <1>1, <1>2

(* A set with two elements, and the other way round. *)
LEMMA TwoElements ==
  ASSUME NEW S \in SUBSET Nat, IsFiniteSet(S)
  PROVE  Cardinality(S) = 2 <=> \E i, j \in S : i < j /\ S = {i, j}
<1>1. ASSUME NEW i \in S, NEW j \in S, i < j, S = {i, j}
      PROVE  Cardinality(S) = 2
  <2>1. IsFiniteSet({i}) /\ Cardinality({i}) = 1
    BY FS_Singleton
  <2>2. j \notin {i} /\ {i} \cup {j} = S
    BY <1>1
  <2>3. Cardinality({i} \cup {j}) = Cardinality({i}) + 1
    BY <2>1, <2>2, FS_AddElement
  <2> QED BY <2>1, <2>2, <2>3
<1>2. ASSUME Cardinality(S) = 2
      PROVE  \E i, j \in S : i < j /\ S = {i, j}
  <2>1. S # {}
    BY <1>2, FS_EmptySet
  <2>2. PICK x \in S : TRUE
    BY <2>1
  <2>3. Cardinality(S \ {x}) = 1 /\ IsFiniteSet(S \ {x})
    BY <1>2, <2>2, FS_RemoveElement
  <2>4. PICK y : S \ {x} = {y}
    BY <2>3, FS_Singleton
  <2>5. y \in S /\ x # y /\ S = {x, y}
    BY <2>2, <2>4
  <2>6. x < y \/ y < x
    BY <2>2, <2>5
  <2> QED BY <2>2, <2>5, <2>6
<1> QED BY <1>1, <1>2

-----------------------------------------------------------------------------
(***************************************************************************)
(* The return type.                                                        *)
(***************************************************************************)
(* The documented shape is among those the macro accepts. *)
LEMMA ExactIsResult ==
  ASSUME NEW o, NEW S, o.args \in Seq(S), ExactResult(o)
  PROVE  ReturnsResult(o)
<1>1. DOMAIN o.args = {1, 2}
  BY DEF ExactResult
<1>2. /\ 1 \in DOMAIN o.args /\ 2 \in DOMAIN o.args /\ 1 < 2
      /\ \A k \in DOMAIN o.args : o.args[k].kind = "type" <=> k \in {1, 2}
  BY <1>1 DEF ExactResult
<1> QED BY <1>2 DEF ExactResult, ReturnsResult

(* parse_result_ok accepts what is of the form once lifetimes and consts are *)
(* crossed out.                                                              *)
LEMMA ResultRule ==
  ASSUME NEW o, NEW S, o.args \in Seq(S)
  PROVE  ResultFault(o) = IF ReturnsResult(o) THEN NoFault ELSE "return type"
<1> DEFINE T == TypeArgs(o)
<1>1. DOMAIN o.args = 1 .. Len(o.args) /\ Len(o.args) \in Nat
  OBVIOUS
<1>2. T \in SUBSET Nat /\ T \subseteq 1 .. Len(o.args)
  BY <1>1 DEF TypeArgs
<1>3. IsFiniteSet(T)
  <2>1. \A k \in T : k <= Len(o.args)
    BY <1>1, <1>2
  <2> HIDE DEF T
  <2> QED BY <1>1, <1>2, <2>1, FS_BoundedSetOfNaturals
<1>4. Cardinality(T) = 2 <=> \E i, j \in T : i < j /\ T = {i, j}
  BY <1>2, <1>3, TwoElements
<1>5. \A i, j \in DOMAIN o.args :
        (\A k \in DOMAIN o.args : o.args[k].kind = "type" <=> k \in {i, j}) <=> T = {i, j}
  BY DEF TypeArgs
<1>6. ASSUME NEW i \in T, NEW j \in T, i < j, T = {i, j}
      PROVE  Max(T) = j
  <2>1. \A x \in T : (\A y \in T : x >= y) => x = j
    BY <1>2, <1>6
  <2>2. \A y \in T : j >= y
    BY <1>2, <1>6
  <2> QED BY <2>1, <2>2 DEF Max
<1>7. T \subseteq DOMAIN o.args
  BY DEF TypeArgs
<1> DEFINE Two == Cardinality(T) = 2 /\ o.args[Max(T)].ty = <<"PatinaError">>
<1>8. Two <=> \E i, j \in DOMAIN o.args : i < j /\ o.args[j].ty = <<"PatinaError">> /\ T = {i, j}
  <2> HIDE DEF T
  <2>1. ASSUME Two
        PROVE  \E i, j \in DOMAIN o.args : i < j /\ o.args[j].ty = <<"PatinaError">> /\ T = {i, j}
    <3>1. PICK i, j \in T : i < j /\ T = {i, j}
      BY <1>4, <2>1
    <3>2. Max(T) = j
      BY <1>6, <3>1
    <3> QED BY <1>7, <2>1, <3>1, <3>2
  <2>2. ASSUME NEW i \in DOMAIN o.args, NEW j \in DOMAIN o.args,
               i < j, o.args[j].ty = <<"PatinaError">>, T = {i, j}
        PROVE  Two
    <3>1. i \in T /\ j \in T
      BY <2>2
    <3>2. Max(T) = j /\ Cardinality(T) = 2
      BY <1>4, <1>6, <2>2, <3>1
    <3> QED BY <2>2, <3>2
  <2> QED BY <2>1, <2>2
<1>9. ResultFault(o) = IF o.kind = "path" /\ o.last = "Result" /\ Two THEN NoFault ELSE "return type"
  BY DEF ResultFault, Unless
<1>10. ReturnsResult(o) <=> o.kind = "path" /\ o.last = "Result" /\ Two
  <2> HIDE DEF T, Two
  <2> QED BY <1>5, <1>8 DEF ReturnsResult
<1> QED BY <1>9, <1>10

-----------------------------------------------------------------------------
(***************************************************************************)
(* Methods.                                                                *)
(***************************************************************************)
(* The rules that are about one method. *)
BrokenBy(f, rule) ==
  \/ rule = "not async" /\ ~f.async
  \/ rule = "default body" /\ f.default
  \/ rule = "generic method" /\ f.generic
  \/ rule = "no receiver" /\ \A i \in ToSet(f.inputs) : i.kind # "receiver"
  \/ rule = "not &self" /\ \E i \in ToSet(f.inputs) : i.kind = "receiver" /\ ~(i.ref /\ ~i.mut)
  \/ rule = "pattern" /\ \E i \in ToSet(f.inputs) : i.kind = "typed" /\ i.pat # "ident"
  \/ rule = "return type" /\ ~ExactResult(f.output)

(* A method as syn parses it. *)
IsMethod(f) ==
  /\ f.inputs \in Seq(ToSet(f.inputs))
  /\ \A k \in DOMAIN f.inputs :
       f.inputs[k].kind = "typed" \/ (k = 1 /\ f.inputs[k].kind = "receiver")
  /\ f.output.args \in Seq(ToSet(f.output.args))

LEMMA ArgumentsAre ==
  ASSUME NEW f, IsMethod(f)
  PROVE  /\ DOMAIN Arguments(f) \subseteq Nat
         /\ \A k \in DOMAIN Arguments(f) : k + 1 \in DOMAIN f.inputs /\ Arguments(f)[k] = f.inputs[k + 1]
         /\ \A k \in DOMAIN f.inputs : k = 1 \/ (k - 1 \in DOMAIN Arguments(f)
                                                  /\ Arguments(f)[k - 1] = f.inputs[k])
<1> DEFINE s == f.inputs
           n == Len(s)
           a == SubSeq(s, 2, n)
<1>1. n \in Nat /\ DOMAIN s = 1 .. n /\ \A i \in 1 .. n : s[i] \in ToSet(s)
  BY DEF IsMethod, ToSet
<1>2. /\ a \in Seq(ToSet(s)) /\ Len(a) = IF 2 <= n THEN n - 1 ELSE 0
      /\ \A i \in 1 .. n - 1 : a[i] = s[i + 1]
  <2> HIDE DEF s, n
  <2>1. \A i \in 2 .. n : s[i] \in ToSet(s)
    BY <1>1
  <2>2. /\ a \in Seq(ToSet(s)) /\ Len(a) = IF 2 <= n THEN n - 2 + 1 ELSE 0
        /\ \A i \in 1 .. n - 2 + 1 : a[i] = s[2 + i - 1]
    BY <1>1, <2>1, SubSeqProperties
  <2>3. n - 2 + 1 = n - 1 /\ \A i \in 1 .. n - 1 : 2 + i - 1 = i + 1
    BY <1>1
  <2> QED BY <2>2, <2>3
<1>3. DOMAIN a = 1 .. Len(a)
  BY <1>2
<1> HIDE DEF n, a
<1>4. DOMAIN a = 1 .. n - 1
  BY <1>1, <1>2, <1>3
<1>5. \A k \in DOMAIN a : k + 1 \in DOMAIN s /\ a[k] = s[k + 1]
  BY <1>1, <1>2, <1>4
<1>6. \A k \in DOMAIN s : k = 1 \/ (k - 1 \in DOMAIN a /\ a[k - 1] = s[k])
  <2> TAKE k \in DOMAIN s
  <2>1. k # 1 => k - 1 \in 1 .. n - 1 /\ (k - 1) + 1 = k
    BY <1>1
  <2> QED BY <2>1, <1>2, <1>4
<1>7. DOMAIN a \subseteq Nat
  BY <1>1, <1>4
<1> QED BY <1>5, <1>6, <1>7 DEF a, n, Arguments

ArgumentsFault(f) ==
  FirstFault([k \in DOMAIN Arguments(f) |-> ArgumentFault(Arguments(f)[k])])

LEMMA ArgumentRule ==
  ASSUME NEW f, IsMethod(f)
  PROVE  /\ ArgumentsFault(f) # NoFault => ArgumentsFault(f) = "pattern" /\ BrokenBy(f, "pattern")
         /\ ArgumentsFault(f) = NoFault /\ f.inputs[1].kind = "receiver" => ~BrokenBy(f, "pattern")
<1> DEFINE checks == [k \in DOMAIN Arguments(f) |-> ArgumentFault(Arguments(f)[k])]
<1>1. DOMAIN checks = DOMAIN Arguments(f) /\ DOMAIN checks \subseteq Nat
  BY ArgumentsAre
<1>2. \A k \in DOMAIN checks :
        /\ Arguments(f)[k] \in ToSet(f.inputs) /\ Arguments(f)[k].kind = "typed"
        /\ checks[k] = IF Arguments(f)[k].pat = "ident" THEN NoFault ELSE "pattern"
  <2> TAKE k \in DOMAIN checks
  <2>1. k \in Nat /\ k + 1 \in DOMAIN f.inputs /\ Arguments(f)[k] = f.inputs[k + 1]
    BY <1>1, ArgumentsAre
  <2>2. Arguments(f)[k].kind = "typed" \/ k + 1 = 1
    BY <2>1 DEF IsMethod
  <2>3. k # 0
    <3>1. DOMAIN Arguments(f) = 1 .. Len(Arguments(f))
      BY DEF Arguments, IsMethod
    <3> QED BY <1>1, <3>1
  <2>4. Arguments(f)[k].kind = "typed"
    BY <2>1, <2>2, <2>3
  <2>5. checks[k] = ArgumentFault(Arguments(f)[k])
    OBVIOUS
  <2> QED BY <2>1, <2>4, <2>5 DEF ToSet, ArgumentFault, Unless
<1> HIDE DEF checks
<1>3. FirstFault(checks) # NoFault =>
        /\ FirstFault(checks) = "pattern"
        /\ \E i \in ToSet(f.inputs) : i.kind = "typed" /\ i.pat # "ident"
  BY <1>1, <1>2, FirstFaultIs
<1>4. FirstFault(checks) = NoFault /\ f.inputs[1].kind = "receiver" =>
        \A i \in ToSet(f.inputs) : i.kind = "typed" => i.pat = "ident"
  <2> SUFFICES ASSUME FirstFault(checks) = NoFault, f.inputs[1].kind = "receiver",
                      NEW k \in DOMAIN f.inputs, f.inputs[k].kind = "typed"
               PROVE  f.inputs[k].pat = "ident"
    BY DEF ToSet
  <2>1. k - 1 \in DOMAIN checks /\ Arguments(f)[k - 1] = f.inputs[k]
    BY <1>1, ArgumentsAre
  <2>2. checks[k - 1] = NoFault
    BY <1>1, <2>1, FirstFaultIs
  <2> QED BY <1>2, <2>1, <2>2 DEF NoFault
<1>5. ArgumentsFault(f) = FirstFault(checks)
  BY DEF ArgumentsFault, checks
<1> QED BY <1>3, <1>4, <1>5 DEF BrokenBy

LEMMA ReceiverRule ==
  ASSUME NEW f, IsMethod(f)
  PROVE  /\ ReceiverFault(f) # NoFault => BrokenBy(f, ReceiverFault(f))
         /\ ReceiverFault(f) = NoFault =>
              /\ f.inputs[1].kind = "receiver"
              /\ ~BrokenBy(f, "no receiver") /\ ~BrokenBy(f, "not &self")
<1>1. f.inputs # <<>> => 1 \in DOMAIN f.inputs
  BY DEF IsMethod
<1>2. \A k \in DOMAIN f.inputs : f.inputs[k].kind = "receiver" => k = 1
  BY DEF IsMethod
<1>3. CASE f.inputs = <<>> \/ f.inputs[1].kind # "receiver"
  <2>1. ReceiverFault(f) = "no receiver"
    BY <1>3 DEF ReceiverFault
  <2>2. \A i \in ToSet(f.inputs) : i.kind # "receiver"
    BY <1>2, <1>3 DEF ToSet
  <2> QED BY <2>1, <2>2 DEF BrokenBy, NoFault
<1>4. CASE f.inputs # <<>> /\ f.inputs[1].kind = "receiver"
  <2>1. f.inputs[1] \in ToSet(f.inputs) /\ \A i \in ToSet(f.inputs) : i.kind = "receiver" => i = f.inputs[1]
    BY <1>1, <1>2, <1>4 DEF ToSet
  <2>2. ReceiverFault(f) = IF f.inputs[1].ref /\ ~f.inputs[1].mut THEN NoFault ELSE "not &self"
    BY <1>4 DEF ReceiverFault, Unless
  <2> QED BY <1>4, <2>1, <2>2 DEF BrokenBy, NoFault
<1> QED BY <1>3, <1>4

MethodRules ==
  {"not async", "default body", "generic method", "no receiver", "not &self", "pattern", "return type"}

(* A method is found at fault for a rule it breaks, and if it is not then it *)
(* breaks at most the last rule, by what stands beside the two types.        *)
LEMMA MethodRule ==
  ASSUME NEW f, IsMethod(f)
  PROVE  /\ MethodFault(f) # NoFault => BrokenBy(f, MethodFault(f))
         /\ MethodFault(f) = NoFault =>
              /\ \A rule : BrokenBy(f, rule) => rule = "return type"
              /\ ReturnsResult(f.output)
<1> DEFINE c1 == Unless(f.async, "not async")
           c2 == Unless(~f.default, "default body")
           c3 == Unless(~f.generic, "generic method")
           c4 == ReceiverFault(f)
           c5 == ArgumentsFault(f)
           c6 == ResultFault(f.output)
           checks == <<c1, c2, c3, c4, c5, c6>>
<1>1. MethodFault(f) = FirstFault(checks)
  BY DEF MethodFault, ArgumentsFault
<1>2. c6 = IF ReturnsResult(f.output) THEN NoFault ELSE "return type"
  BY ResultRule DEF IsMethod
<1>3. /\ c4 # NoFault => BrokenBy(f, c4)
      /\ c4 = NoFault => /\ f.inputs[1].kind = "receiver"
                         /\ ~BrokenBy(f, "no receiver") /\ ~BrokenBy(f, "not &self")
  BY ReceiverRule
<1>4. /\ c5 # NoFault => BrokenBy(f, c5)
      /\ c5 = NoFault /\ f.inputs[1].kind = "receiver" => ~BrokenBy(f, "pattern")
  BY ArgumentRule
<1>5. /\ c1 # NoFault => BrokenBy(f, c1)
      /\ c2 # NoFault => BrokenBy(f, c2)
      /\ c3 # NoFault => BrokenBy(f, c3)
      /\ c6 # NoFault => BrokenBy(f, c6)
  <2>1. ExactResult(f.output) => ReturnsResult(f.output)
    BY ExactIsResult DEF IsMethod
  <2> QED BY <1>2, <2>1 DEF Unless, BrokenBy
<1>6. /\ c1 = NoFault => ~BrokenBy(f, "not async")
      /\ c2 = NoFault => ~BrokenBy(f, "default body")
      /\ c3 = NoFault => ~BrokenBy(f, "generic method")
      /\ c6 = NoFault => ReturnsResult(f.output)
  BY <1>2 DEF Unless, BrokenBy, NoFault
<1>7. \A rule : BrokenBy(f, rule) => rule \in MethodRules
  BY DEF BrokenBy, MethodRules
<1> HIDE DEF c1, c2, c3, c4, c5, c6
<1>8. /\ DOMAIN checks = 1 .. 6 /\ DOMAIN checks \subseteq Nat
      /\ checks[1] = c1 /\ checks[2] = c2 /\ checks[3] = c3
      /\ checks[4] = c4 /\ checks[5] = c5 /\ checks[6] = c6
  OBVIOUS
<1> HIDE DEF checks
<1>9. \A k \in DOMAIN checks : checks[k] \in {c1, c2, c3, c4, c5, c6}
  BY <1>8
<1>10. ASSUME MethodFault(f) # NoFault
       PROVE  BrokenBy(f, MethodFault(f))
  <2>1. PICK k \in DOMAIN checks : checks[k] # NoFault /\ FirstFault(checks) = checks[k]
    BY <1>1, <1>8, <1>10, FirstFaultIs
  <2> QED BY <1>1, <1>3, <1>4, <1>5, <1>9, <2>1
<1>11. ASSUME MethodFault(f) = NoFault
       PROVE  /\ \A rule : BrokenBy(f, rule) => rule = "return type"
              /\ ReturnsResult(f.output)
  <2>1. \A k \in 1 .. 6 : checks[k] = NoFault
    BY <1>1, <1>8, <1>11, FirstFaultIs
  <2>2. /\ c1 = NoFault /\ c2 = NoFault /\ c3 = NoFault
        /\ c4 = NoFault /\ c5 = NoFault /\ c6 = NoFault
    BY <1>8, <2>1
  <2> QED BY <1>3, <1>4, <1>6, <1>7, <2>2 DEF MethodRules
<1> QED BY <1>10, <1>11

-----------------------------------------------------------------------------
(***************************************************************************)
(* Traits.                                                                 *)
(***************************************************************************)
ItemBreaks(i, rule) ==
  \/ rule = "not a method" /\ i.kind # "fn"
  \/ i.kind = "fn" /\ BrokenBy(i, rule)

(* An item in which the macro finds no fault. *)
ItemKeeps(i) ==
  i.kind = "fn" /\ ReturnsResult(i.output) /\ \A rule : ItemBreaks(i, rule) => rule = "return type"

(* The rules, item by item. *)
LEMMA BrokenIs ==
  ASSUME NEW d, NEW rule
  PROVE  rule \in Broken(d) <=>
           \/ rule = "not a trait" /\ d.item # "trait"
           \/ rule = "generic trait" /\ d.generic
           \/ d.item = "trait" /\ \E i \in ToSet(d.items) : ItemBreaks(i, rule)
<1> DEFINE items == IF d.item = "trait" THEN ToSet(d.items) ELSE {}
           fns == {f \in items : f.kind = "fn"}
           inputs == UNION {ToSet(f.inputs) : f \in fns}
<1>1. (\E i \in items : ItemBreaks(i, rule)) <=>
        (d.item = "trait" /\ \E i \in ToSet(d.items) : ItemBreaks(i, rule))
  OBVIOUS
<1> HIDE DEF items
<1>2. (\E i \in items : ItemBreaks(i, rule)) <=>
        (rule = "not a method" /\ items # fns) \/ \E f \in fns : BrokenBy(f, rule)
  <2>1. rule = "not a method" => \A f : ~BrokenBy(f, rule)
    BY DEF BrokenBy
  <2> QED BY <2>1 DEF ItemBreaks
<1>3. rule \in Broken(d) <=>
        \/ rule = "not a trait" /\ d.item # "trait"
        \/ rule = "generic trait" /\ d.generic
        \/ rule = "not a method" /\ items # fns
        \/ \E f \in fns : BrokenBy(f, rule)
  <2>1. rule = "not a trait" => (rule \in Broken(d) <=> d.item # "trait")
    BY DEF Broken, items
  <2>2. rule = "generic trait" => (rule \in Broken(d) <=> d.generic)
    BY DEF Broken, items
  <2>3. rule = "not a method" => (rule \in Broken(d) <=> items # fns)
    BY DEF Broken, items
  <2>4. rule = "not async" => (rule \in Broken(d) <=> \E f \in fns : ~f.async)
    BY DEF Broken, items
  <2>5. rule = "default body" => (rule \in Broken(d) <=> \E f \in fns : f.default)
    BY DEF Broken, items
  <2>6. rule = "generic method" => (rule \in Broken(d) <=> \E f \in fns : f.generic)
    BY DEF Broken, items
  <2>7. rule = "no receiver" => (rule \in Broken(d) <=> \E f \in fns : \A i \in ToSet(f.inputs) : i.kind # "receiver")
    BY DEF Broken, items
  <2>8. rule = "not &self" => (rule \in Broken(d) <=> \E i \in inputs : i.kind = "receiver" /\ ~(i.ref /\ ~i.mut))
    BY DEF Broken, items
  <2>9. rule = "pattern" => (rule \in Broken(d) <=> \E i \in inputs : i.kind = "typed" /\ i.pat # "ident")
    BY DEF Broken, items
  <2>10. rule = "return type" => (rule \in Broken(d) <=> \E f \in fns : ~ExactResult(f.output))
    BY DEF Broken, items
  <2>11. rule \in Broken(d) \/ (\E f \in fns : BrokenBy(f, rule)) =>
           rule \in {"not a trait", "generic trait", "not a method"} \cup MethodRules
    BY DEF Broken, BrokenBy, MethodRules
  <2> HIDE DEF fns
  <2>12. CASE rule \notin MethodRules
    BY <2>1, <2>2, <2>3, <2>11, <2>12 DEF BrokenBy, MethodRules
  <2>13. CASE rule \in MethodRules
    <3>1. rule \notin {"not a trait", "generic trait", "not a method"}
      BY <2>13 DEF MethodRules
    <3>2. rule \in Broken(d) <=> \E f \in fns : BrokenBy(f, rule)
      BY <2>4, <2>5, <2>6, <2>7, <2>8, <2>9, <2>10, <2>13, ZenonT(60)
        DEF BrokenBy, MethodRules
    <3> QED BY <3>1, <3>2
  <2> QED BY <2>12, <2>13
<1> QED BY <1>1, <1>2, <1>3

(* service() rejects a declaration only for a rule it breaks, and accepts   *)
(* one only if it breaks none, lifetimes and consts beside the two types of *)
(* a Result apart: no early return of model.rs hides another fault, and     *)
(* none finds one that is not there.                                        *)
THEOREM FaultsAreTruthful ==
  ASSUME NEW d, Declaration(d)
  PROVE  /\ TraitFault(d) # NoFault => TraitFault(d) \in Broken(d)
         /\ TraitFault(d) = NoFault => KeepsTheRules(d)
<1> DEFINE faults == [k \in DOMAIN d.items |-> ItemFault(d.items[k])]
           c1 == Unless(d.item = "trait", "not a trait")
           c2 == Unless(~d.generic, "generic trait")
           c3 == FirstFault(faults)
           checks == <<c1, c2, c3>>
<1>1. TraitFault(d) = FirstFault(checks)
  BY DEF TraitFault
<1>2. /\ c1 # NoFault => c1 \in Broken(d)
      /\ c2 # NoFault => c2 \in Broken(d)
      /\ c1 = NoFault => d.item = "trait"
      /\ c2 = NoFault => ~d.generic
  BY BrokenIs DEF Unless, NoFault
<1>3. ASSUME d.item = "trait", NEW i \in ToSet(d.items)
      PROVE  /\ ItemFault(i) # NoFault => ItemBreaks(i, ItemFault(i))
             /\ ItemFault(i) = NoFault => ItemKeeps(i)
  <2>1. CASE i.kind = "fn"
    <3>1. IsMethod(i)
      BY <1>3, <2>1 DEF Declaration, IsMethod
    <3> QED BY <2>1, <3>1, MethodRule DEF ItemFault, ItemBreaks, ItemKeeps
  <2>2. CASE i.kind # "fn"
    BY <2>2 DEF ItemFault, ItemBreaks, NoFault
  <2> QED BY <2>1, <2>2
<1>4. ASSUME d.item = "trait"
      PROVE  /\ c3 # NoFault => c3 \in Broken(d)
             /\ c3 = NoFault => \A i \in ToSet(d.items) : ItemKeeps(i)
  <2>1. DOMAIN faults = DOMAIN d.items /\ DOMAIN faults \subseteq Nat
    BY <1>4 DEF Declaration
  <2>2. \A k \in DOMAIN d.items : faults[k] = ItemFault(d.items[k]) /\ d.items[k] \in ToSet(d.items)
    BY DEF ToSet
  <2> HIDE DEF faults
  <2>3. ASSUME c3 # NoFault
        PROVE  c3 \in Broken(d)
    <3>1. PICK k \in DOMAIN d.items : faults[k] # NoFault /\ c3 = faults[k]
      BY <2>1, <2>3, FirstFaultIs
    <3>2. ItemBreaks(d.items[k], c3) /\ d.items[k] \in ToSet(d.items)
      BY <1>3, <1>4, <2>2, <3>1
    <3> HIDE DEF c3
    <3> QED BY <1>4, <3>2, BrokenIs
  <2>4. ASSUME c3 = NoFault
        PROVE  \A i \in ToSet(d.items) : ItemKeeps(i)
    <3>1. \A k \in DOMAIN d.items : faults[k] = NoFault
      BY <2>1, <2>4, FirstFaultIs
    <3>2. \A i \in ToSet(d.items) : ItemFault(i) = NoFault
      BY <2>2, <3>1 DEF ToSet
    <3> QED BY <1>3, <1>4, <3>2
  <2> QED BY <2>3, <2>4
<1> HIDE DEF c1, c2, c3
<1>5. /\ DOMAIN checks = 1 .. 3 /\ DOMAIN checks \subseteq Nat
      /\ checks[1] = c1 /\ checks[2] = c2 /\ checks[3] = c3
  OBVIOUS
<1> HIDE DEF checks
<1>6. ASSUME TraitFault(d) # NoFault
      PROVE  TraitFault(d) \in Broken(d)
  <2>1. CASE d.item # "trait"
    <3>1. c1 # NoFault
      BY <2>1 DEF c1, Unless, NoFault
    <3> DEFINE failed == {k \in DOMAIN checks : checks[k] # NoFault}
    <3>2. 1 \in failed /\ \A k \in failed : 1 <= k /\ k \in Nat
      <4>1. 1 \in DOMAIN checks /\ checks[1] # NoFault
        <5>1. 1 \in DOMAIN checks /\ checks[1] = c1
          BY <1>5
        <5> QED BY <3>1, <5>1
      <4>2. \A k \in failed : k \in 1 .. 3
        BY <1>5
      <4> HIDE DEF failed
      <4>3. 1 \in failed
        BY <4>1 DEF failed
      <4> QED BY <4>2, <4>3
    <3>3. Min(failed) = 1
      <4>1. \A x \in failed : (\A y \in failed : x <= y) => x = 1
        BY <3>2
      <4> QED BY <3>2, <4>1 DEF Min
    <3>4. FirstFault(checks) = checks[1]
      BY <3>2, <3>3 DEF FirstFault
    <3> QED BY <1>1, <1>2, <1>5, <3>1, <3>4
  <2>2. CASE d.item = "trait"
    <3>1. PICK k \in DOMAIN checks : checks[k] # NoFault /\ FirstFault(checks) = checks[k]
      BY <1>1, <1>5, <1>6, FirstFaultIs
    <3>2. checks[k] \in {c1, c2, c3}
      BY <1>5, <3>1
    <3> QED BY <1>1, <1>2, <1>4, <2>2, <3>1, <3>2
  <2> QED BY <2>1, <2>2
<1>7. ASSUME TraitFault(d) = NoFault
      PROVE  KeepsTheRules(d)
  <2>1. \A k \in 1 .. 3 : checks[k] = NoFault
    BY <1>1, <1>5, <1>7, FirstFaultIs
  <2>2. c1 = NoFault /\ c2 = NoFault /\ c3 = NoFault
    BY <1>5, <2>1
  <2>3. d.item = "trait" /\ ~d.generic /\ \A i \in ToSet(d.items) : ItemKeeps(i)
    BY <1>2, <1>4, <2>2
  <2>4. \A rule : rule \in Broken(d) => rule = "return type"
    BY <2>3, BrokenIs DEF ItemKeeps
  <2> QED BY <2>3, <2>4 DEF KeepsTheRules, ItemKeeps
<1> QED BY <1>6, <1>7
=============================================================================
