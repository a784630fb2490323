------------------------------ MODULE Grammar ------------------------------
(***************************************************************************)
(* internal/provider/llamacpp/gbnf.go: schemaToGBNF, which turns a JSON    *)
(* Schema into a grammar whose root derives the JSON values of the schema. *)
(*                                                                         *)
(* A schema node is a record [unsupported, alts, enum, type, items, props] *)
(* in which an absent keyword is <<>> and a present one a sequence of one: *)
(* alts and enum hold a list, items a node, props the properties sorted by *)
(* key as pairs [key, schema].  A grammar expression refers to a rule, is  *)
(* a literal, or an alternation.  Letters stand for strings that need no   *)
(* escape, and the space between tokens is part of the rules.              *)
(***************************************************************************)
EXTENDS Integers, SequencesExt

Ref(name)   == [op |-> "ref", name |-> name]
Literal(s)  == [op |-> "lit", string |-> s]
AnyOf(list) == [op |-> "alt", list |-> list]

Prim(name) == <<name, 0>>
PrimTypes  == {"string", "integer", "number", "boolean"}

primDeps(name) ==
  CASE name = "string"  -> {"char"}
    [] name = "number"  -> {"integral-part", "decimal-part"}
    [] name = "integer" -> {"integral-part"}
    [] OTHER            -> {}

(* The dependencies have none of their own. *)
usePrim(b, name) == [b EXCEPT !.prims = @ \cup {name} \cup primDeps(name)]

gbnfBuilder == [rules |-> <<>>, prims |-> {}, objCount |-> 0, arrCount |-> 0, failed |-> FALSE]

Result(expr, b) == [expr |-> expr, b |-> b]
Refuse(b) == Result(Ref(Prim("none")), [b EXCEPT !.failed = TRUE])

RECURSIVE value(_, _)

(* Every node of the list in turn; it ends at the first one refused. *)
valueAll(nodes, b0) ==
  FoldLeft(LAMBDA acc, node :
             IF acc.b.failed THEN acc
             ELSE LET r == value(node, acc.b) IN [exprs |-> Append(acc.exprs, r.expr), b |-> r.b],
           [exprs |-> <<>>, b |-> b0], nodes)

enum(list, b) == IF list = <<>> THEN Refuse(b)
                 ELSE Result(AnyOf([i \in DOMAIN list |-> Literal(list[i])]), b)

union(list, b) ==
  LET all == valueAll(list, b)
  IN IF list = <<>> THEN Refuse(b) ELSE Result(AnyOf(all.exprs), all.b)

(* Slip: the name is counted only when the rule is written. *)
arrayLate(node, b) ==
  LET name == <<"arr", b.arrCount>>
      item == value(node.items[1], b)
      done == usePrim([item.b EXCEPT !.arrCount = @ + 1], "space")
  IN IF node.items = <<>> THEN Refuse(b)
     ELSE Result(Ref(name),
                 [done EXCEPT !.rules = Append(@, [name |-> name, item |-> item.expr])])

(* The name is taken before the items are converted, the rule follows     *)
(* theirs.                                                                *)
array(node, b) ==
  LET name == <<"arr", b.arrCount>>
      item == value(node.items[1], [b EXCEPT !.arrCount = @ + 1])
      done == usePrim(item.b, "space")
  IN IF node.items = <<>> THEN Refuse(b)
     ELSE Result(Ref(name),
                 [done EXCEPT !.rules = Append(@, [name |-> name, item |-> item.expr])])

object(node, b) ==
  LET name  == <<"obj", b.objCount>>
      props == node.props[1]
      parts == valueAll([i \in DOMAIN props |-> props[i].schema],
                      usePrim([b EXCEPT !.objCount = @ + 1], "space"))
      rule  == [name |-> name,
                pairs |-> [i \in DOMAIN parts.exprs |->
                             [key |-> props[i].key, expr |-> parts.exprs[i]]]]
  IN IF node.props = <<>> THEN Refuse(b)
     ELSE Result(Ref(name), [parts.b EXCEPT !.rules = Append(@, rule)])

value(node, b) ==
  IF node.unsupported THEN Refuse(b)
  ELSE IF node.alts # <<>> THEN union(node.alts[1], b)
  ELSE IF node.enum # <<>> THEN enum(node.enum[1], b)
  ELSE CASE node.type \in PrimTypes -> Result(Ref(Prim(node.type)), usePrim(b, node.type))
         [] node.type = "object"    -> object(node, b)
         [] node.type = "array"     -> array(node, b)
         [] OTHER                   -> Refuse(b)

(* Root, the rules in the order they were finished, the building blocks. *)
schemaToGBNF(schema) ==
  LET r == value(schema, gbnfBuilder)
  IN [ok |-> ~r.b.failed, root |-> r.expr, rules |-> r.b.rules, prims |-> r.b.prims]

-----------------------------------------------------------------------------
(* What a grammar means, and what the schema means.                        *)
(* A value is [t, s] with a string s, [t] with a number or a boolean,      *)
(* [t, items], or [t, pairs] with pairs [key, val] in the order written.   *)

RECURSIVE Derives(_, _, _)
Derives(g, e, v) ==
  CASE e.op = "alt" -> \E i \in DOMAIN e.list : Derives(g, e.list[i], v)
    [] e.op = "lit" -> v.t = "string" /\ v.s = e.string
    [] e.op = "ref" /\ e.name[1] \in PrimTypes ->
         /\ {e.name[1]} \cup primDeps(e.name[1]) \subseteq g.prims
         /\ v.t = e.name[1] \/ <<v.t, e.name[1]>> = <<"integer", "number">>
    [] e.op = "ref" /\ e.name[1] = "arr" ->
         \E i \in DOMAIN g.rules :
           /\ g.rules[i].name = e.name /\ "space" \in g.prims /\ v.t = "array"
           /\ \A k \in DOMAIN v.items : Derives(g, g.rules[i].item, v.items[k])
    [] e.op = "ref" /\ e.name[1] = "obj" ->
         \E i \in DOMAIN g.rules :
           /\ g.rules[i].name = e.name /\ "space" \in g.prims /\ v.t = "object"
           /\ Len(v.pairs) = Len(g.rules[i].pairs)
           /\ \A k \in DOMAIN v.pairs :
                /\ v.pairs[k].key = g.rules[i].pairs[k].key
                /\ Derives(g, g.rules[i].pairs[k].expr, v.pairs[k].val)

(* The values of the schema that have every property it declares, in the   *)
(* order of the keys, and no other: all properties are taken as required.  *)
RECURSIVE Valid(_, _)
Valid(node, v) ==
  IF node.alts # <<>> THEN \E i \in DOMAIN node.alts[1] : Valid(node.alts[1][i], v)
  ELSE IF node.enum # <<>> THEN v.t = "string" /\ Contains(node.enum[1], v.s)
  ELSE CASE node.type = "array" ->
              v.t = "array" /\ \A k \in DOMAIN v.items : Valid(node.items[1], v.items[k])
         [] node.type = "object" ->
              /\ v.t = "object" /\ Len(v.pairs) = Len(node.props[1])
              /\ \A k \in DOMAIN v.pairs : /\ v.pairs[k].key = node.props[1][k].key
                                           /\ Valid(node.props[1][k].schema, v.pairs[k].val)
         [] node.type = "number" -> v.t \in {"number", "integer"}
         [] OTHER -> v.t = node.type

(* The nodes the grammar depends on: a keyword hides the ones it overrides.*)
RECURSIVE Convertible(_)
Convertible(node) ==
  /\ ~node.unsupported
  /\ IF node.alts # <<>>
     THEN node.alts[1] # <<>> /\ \A i \in DOMAIN node.alts[1] : Convertible(node.alts[1][i])
     ELSE IF node.enum # <<>> THEN node.enum[1] # <<>>
     ELSE \/ node.type \in PrimTypes
          \/ node.type = "array" /\ node.items # <<>> /\ Convertible(node.items[1])
          \/ /\ node.type = "object" /\ node.props # <<>>
             /\ \A i \in DOMAIN node.props[1] : Convertible(node.props[1][i].schema)
=============================================================================
