---------------------------- MODULE MCTranslation ----------------------------
(* Instances of Translation for TLC. *)
EXTENDS SchemaTranslation

(* Single symbols, and a tag next to one other symbol. *)
MCTags == {Open, Close}
MCPlain == Letters \cup {Break}
MCDeltas == {<<x>> : x \in MCPlain \cup MCTags}
              \cup {<<x, t>> : x \in MCPlain, t \in MCTags}
              \cup {<<t, x>> : x \in MCPlain, t \in MCTags}

-----------------------------------------------------------------------------
(* Schemas of three levels with one or two children each, unsupported      *)
(* keywords at the leaves and at the root, and what is malformed.          *)
Node == [unsupported |-> FALSE, alts |-> <<>>, enum |-> <<>>, type |-> "", items |-> <<>>,
         props |-> <<>>]
Leaf(type) == [Node EXCEPT !.type = type]
Bad == [Leaf("string") EXCEPT !.unsupported = TRUE]
Enum(list) == [Node EXCEPT !.enum = <<list>>]
Alts(list) == [Node EXCEPT !.alts = <<list>>]
Arr(n) == [Leaf("array") EXCEPT !.items = <<n>>]
Prop(key, n) == [key |-> key, schema |-> n]
Obj(props) == [Leaf("object") EXCEPT !.props = <<props>>]

Leaves == {Leaf("string"), Leaf("number"), Enum(<<"a">>), Bad}
Over(S) == {Arr(n) : n \in S} \cup {Obj(<<Prop("k", n)>>) : n \in S}
             \cup {Obj(<<Prop("k", n[1]), Prop("l", n[2])>>) : n \in S \X S}
             \cup {Alts(<<n[1], n[2]>>) : n \in S \X S}
Small == Leaves \cup Over(Leaves \ {Enum(<<"a">>)})
MCSchemas == Small \cup Over(Small)
  \cup {Node, Leaf("array"), Leaf("object"), Leaf("integer"), Leaf("boolean"), Obj(<<>>),
         Enum(<<>>), Alts(<<>>), Enum(<<"a", "b">>), Arr(Arr(Arr(Leaf("integer")))),
         [Enum(<<"a">>) EXCEPT !.type = "array"], [Arr(Leaf("string")) EXCEPT !.unsupported = TRUE]}

Str(s) == [t |-> "string", s |-> s]
Plain(t) == [t |-> t]
List(vs) == [t |-> "array", items |-> vs]
Pairs(ps) == [t |-> "object", pairs |-> ps]
Pair(key, v) == [key |-> key, val |-> v]
Simple == {Str("a"), Str("b"), Plain("integer")}
Deep == Simple \cup {List(<<>>), List(<<Str("a")>>), List(<<Plain("integer")>>),
                     Pairs(<<Pair("k", Str("b"))>>), Pairs(<<Pair("k", Plain("number"))>>)}
MCValues == Deep \cup {Plain("boolean"), Pairs(<<>>), List(<<Str("a"), Plain("integer")>>),
                       List(<<List(<<List(<<Plain("integer")>>)>>)>>)}
  \cup {List(<<v>>) : v \in Deep} \cup {Pairs(<<Pair("k", v)>>) : v \in Deep}
  \cup {Pairs(<<Pair(ks[1], v), Pair(ks[2], w)>>) :
           v \in Deep, w \in Deep, ks \in {<<"k", "l">>, <<"l", "k">>}}

-----------------------------------------------------------------------------
Format(type, schema) == [type |-> type, schema |-> schema]
ClientGrammar == [root |-> Ref(Prim("string"))]

MCChatRequests ==
  [messages : {<<[role |-> "user", content |-> c, calls |-> 0],
                 [role |-> "assistant", content |-> d, calls |-> 1]>> :
                 c \in {"text", "parts", "empty"}, d \in {"text", "null", "absent"}},
   effort   : {Absent, "", "none", "minimal", "high"},
   nested   : {Absent, "none", "high"},
   format   : {Format("text", <<>>), Format("json_object", <<>>)}
                \cup {Format("json_schema", <<n>>) : n \in {Leaf("string"), Bad, Arr(Leaf("number"))}},
   grammar  : {<<>>, <<ClientGrammar>>}]

Vector(k) == <<[high |-> k, low |-> k], [high |-> 0, low |-> 1]>>
MCEmbedCalls ==
  [kind : {"string"}, texts : {<<"t">>}, wants : {"", "float", "base64"},
   vectors : {<<Vector(1)>>}, gives : {"", "base64"}, order : {<<1>>}]
  \cup
  [kind : {"array"}, texts : {<<"t", "u", "t">>}, wants : {"", "float", "base64"},
   vectors : {<<Vector(1), Vector(2), Vector(3)>>}, gives : {"", "base64"},
   order : {<<1, 2, 3>>, <<3, 1, 2>>, <<2, 1, 3>>}]
=============================================================================
