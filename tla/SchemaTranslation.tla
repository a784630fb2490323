-------------------------- MODULE SchemaTranslation --------------------------
(***************************************************************************)
(* Translation with the grammars that llama.cpp is given: what             *)
(* schemaToGBNF makes of the schemas among the inputs, compared with the   *)
(* JSON values they mean.                                                  *)
(***************************************************************************)
EXTENDS Translation, Grammar

CONSTANT Values  \* the JSON values a grammar is tried on

(* A schema is refused exactly when the grammar cannot express it; the     *)
(* grammar of any other one defines no rule twice, and derives, by rules   *)
(* and building blocks it holds, the values of the schema and nothing else *)
(* (gbnf.go:52-53 and 191-192, gap-developer-guide.md:321-326).            *)
GrammarExact ==
  side = "schema" =>
    LET g == schemaToGBNF(input)
    IN /\ g.ok <=> Convertible(input)
       /\ g.ok =>
            /\ \A i, k \in DOMAIN g.rules : g.rules[i].name = g.rules[k].name => i = k
            /\ \A v \in Values : Derives(g, g.root, v) <=> Valid(input, v)
=============================================================================
