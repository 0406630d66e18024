---------------------------- MODULE ServiceMacro ----------------------------
(***************************************************************************)
(* The compile-time half of #[service] (patina-macros): which traits       *)
(* model.rs accepts, and what expand.rs generates from one it accepts.     *)
(*                                                                         *)
(* A declaration is the syntax tree as far as the macro looks at it.  An   *)
(* input of a method is [kind |-> "receiver", ref, mut] or [kind |->       *)
(* "typed", pat, ty]; a return type is [kind |-> "path", last, args] with  *)
(* the last segment of a path and its generic arguments, or of another     *)
(* kind.  A type is written as the sequence of the types it consists of.   *)
(***************************************************************************)
EXTENDS Naturals, SequencesExt

(* A syntax tree syn can build: it parses a receiver only as the first input. *)
Declaration(d) ==
  d.item = "trait" =>
    /\ d.items \in Seq(ToSet(d.items))
    /\ \A f \in ToSet(d.items) : f.kind = "fn" =>
         /\ f.inputs \in Seq(ToSet(f.inputs))
         /\ \A k \in DOMAIN f.inputs :
              f.inputs[k].kind = "typed" \/ (k = 1 /\ f.inputs[k].kind = "receiver")
         /\ f.output.args \in Seq(ToSet(f.output.args))

NoFault == "none"

Unless(ok, fault) == IF ok THEN NoFault ELSE fault

(* The early returns: of a sequence of checks, the first that fails counts. *)
FirstFault(checks) ==
  LET failed == {k \in DOMAIN checks : checks[k] # NoFault}
  IN  IF failed = {} THEN NoFault ELSE checks[Min(failed)]

-----------------------------------------------------------------------------
(***************************************************************************)
(* Method::parse and parse_result_ok.                                      *)
(***************************************************************************)
Arguments(f) == SubSeq(f.inputs, 2, Len(f.inputs))

(* Mutant: a receiver is a receiver. *)
ReceiverFaultAny(f) ==
  Unless(f.inputs # <<>> /\ f.inputs[1].kind = "receiver", "no receiver")

ReceiverFault(f) ==
  IF f.inputs = <<>> \/ f.inputs[1].kind # "receiver" THEN "no receiver"
  ELSE Unless(f.inputs[1].ref /\ ~f.inputs[1].mut, "not &self")

ArgumentFault(i) ==
  IF i.kind = "receiver" THEN "late self" ELSE Unless(i.pat = "ident", "pattern")

(* The positions of the types between the angle brackets; lifetimes and     *)
(* consts are passed over.                                                  *)
TypeArgs(output) == {k \in DOMAIN output.args : output.args[k].kind = "type"}

ResultFault(output) ==
  Unless(/\ output.kind = "path"
         /\ output.last = "Result"
         /\ Cardinality(TypeArgs(output)) = 2
         /\ output.args[Max(TypeArgs(output))].ty = <<"PatinaError">>, "return type")

MethodFault(f) ==
  FirstFault(<<Unless(f.async, "not async"),
               Unless(~f.default, "default body"),
               Unless(~f.generic, "generic method"),
               ReceiverFault(f),
               FirstFault([k \in DOMAIN Arguments(f) |-> ArgumentFault(Arguments(f)[k])]),
               ResultFault(f.output)>>)

Method(f) ==
  [ident |-> f.ident,
   args  |-> FlattenSeq([k \in DOMAIN Arguments(f) |-> Arguments(f)[k].ty]),
   ok    |-> f.output.args[Min(TypeArgs(f.output))].ty]

(***************************************************************************)
(* ServiceTrait::parse.                                                    *)
(***************************************************************************)
ItemFault(i) == IF i.kind = "fn" THEN MethodFault(i) ELSE "not a method"

TraitFault(d) ==
  FirstFault(<<Unless(d.item = "trait", "not a trait"),
               Unless(~d.generic, "generic trait"),
               FirstFault([k \in DOMAIN d.items |-> ItemFault(d.items[k])])>>)

ServiceTrait(d) ==
  [ident |-> d.ident, methods |-> [k \in DOMAIN d.items |-> Method(d.items[k])]]

-----------------------------------------------------------------------------
(***************************************************************************)
(* expand: for each method the signature of the client's method, under the *)
(* wire name it calls, and the server's arm for that name.                 *)
(***************************************************************************)
(* "Trait::method", without the path of the module. *)
WireName(s, m) == <<s.ident, m.ident>>

WireNames(s) == {WireName(s, s.methods[k]) : k \in DOMAIN s.methods}

MethodOn(s, n) == s.methods[CHOOSE k \in DOMAIN s.methods : WireName(s, s.methods[k]) = n]

Signature(m) == [args |-> m.args, ok |-> m.ok]

(* expand_client. *)
ClientOf(s) == [n \in WireNames(s) |-> Signature(MethodOn(s, n))]

(* expand_server goes through the methods twice: for what method_names says *)
(* to add_service, and for the arms of the match in dispatch.               *)
MethodNames(s) == {WireName(s, m) : m \in ToSet(s.methods)}

(* Mutant: a method without arguments gets no arm. *)
DispatchArmsArgs(s) ==
  [n \in {w \in WireNames(s) : MethodOn(s, w).args # <<>>} |-> Signature(MethodOn(s, n))]

DispatchArms(s) == [n \in WireNames(s) |-> Signature(MethodOn(s, n))]

-----------------------------------------------------------------------------
(* Result<T, PatinaError> and nothing else between the brackets. *)
ExactResult(o) ==
  /\ o.kind = "path" /\ o.last = "Result" /\ Len(o.args) = 2
  /\ o.args[1].kind = "type" /\ o.args[2].kind = "type" /\ o.args[2].ty = <<"PatinaError">>

(* Result<T, PatinaError> if the lifetimes and consts are crossed out. *)
ReturnsResult(o) ==
  /\ o.kind = "path" /\ o.last = "Result"
  /\ \E i, j \in DOMAIN o.args :
       /\ i < j /\ o.args[j].ty = <<"PatinaError">>
       /\ \A k \in DOMAIN o.args : o.args[k].kind = "type" <=> k \in {i, j}

(* The rules the documentation of the macro gives (model.rs; DESIGN.md, Phase *)
(* 3, 2.1): those that a declaration breaks.                                  *)
Broken(d) ==
  LET items   == IF d.item = "trait" THEN ToSet(d.items) ELSE {}
      fns     == {f \in items : f.kind = "fn"}
      inputs  == UNION {ToSet(f.inputs) : f \in fns}
  IN  {rule \in {"not a trait", "generic trait", "not a method", "not async",
                 "default body", "generic method", "no receiver", "not &self",
                 "pattern", "return type"} :
        CASE rule = "not a trait"    -> d.item # "trait"
          [] rule = "generic trait"  -> d.generic
          [] rule = "not a method"   -> items # fns
          [] rule = "not async"      -> \E f \in fns : ~f.async
          [] rule = "default body"   -> \E f \in fns : f.default
          [] rule = "generic method" -> \E f \in fns : f.generic
          [] rule = "no receiver"    -> \E f \in fns : \A i \in ToSet(f.inputs) :
                                          i.kind # "receiver"
          [] rule = "not &self"      -> \E i \in inputs : i.kind = "receiver" /\ ~(i.ref /\ ~i.mut)
          [] rule = "pattern"        -> \E i \in inputs : i.kind = "typed" /\ i.pat # "ident"
          [] rule = "return type"    -> \E f \in fns : ~ExactResult(f.output)}

(* A trait that breaks no rule, except by what stands in the return type of a *)
(* method beside the two types.                                               *)
KeepsTheRules(d) ==
  /\ Broken(d) \subseteq {"return type"}
  /\ \A f \in ToSet(d.items) : f.kind = "fn" => ReturnsResult(f.output)
=============================================================================
