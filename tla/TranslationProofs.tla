-------------------------- MODULE TranslationProofs --------------------------
(***************************************************************************)
(* What TLAPS proves of the translations for any answer, conversation,     *)
(* request and call of the embeddings, whatever their length.              *)
(***************************************************************************)
EXTENDS Translation, SequenceTheorems, WellFoundedInduction, TLAPS

-----------------------------------------------------------------------------
(* Induction and folds.  A fold over a sequence is defined by recursion; a *)
(* lemma cannot have an operator as its parameter here, so Step names the  *)
(* operators the model folds with, and F is the fold with one of them.     *)

(* What holds of 0, and of n + 1 when it holds of n, holds of every        *)
(* number.                                                                 *)
LEMMA Induction ==
  ASSUME NEW S, 0 \in S, \A n \in Nat : n \in S => n + 1 \in S
  PROVE  \A n \in Nat : n \in S
<1> DEFINE U == {n \in Nat : n \notin S}
<1>1. SUFFICES ASSUME U # {} PROVE FALSE
  OBVIOUS
<1>2. U \subseteq Nat
  OBVIOUS
<1>3. PICK m \in U : \A y \in U : ~ (<<y, m>> \in OpToRel(<, Nat))
  <2> HIDE DEF U
  <2> QED
    BY <1>1, <1>2, WFMin, NatLessThanWellFounded, Zenon
<1>4. \A y \in U : ~ (y < m)
  BY <1>2, <1>3, Zenon DEF OpToRel
<1>5. m # 0 /\ m - 1 \in Nat /\ m - 1 \notin U
  BY <1>4
<1> QED
  BY <1>5

(* Induction up to a bound. *)
LEMMA UpTo ==
  ASSUME NEW n \in Nat, NEW S, 0 \in S, \A k \in 1 .. n : k - 1 \in S => k \in S
  PROVE  \A k \in 0 .. n : k \in S
<1> DEFINE T == {k \in Nat : k <= n => k \in S}
<1>1. 0 \in T /\ \A k \in Nat : k \in T => k + 1 \in T
  OBVIOUS
<1> HIDE DEF T
<1>2. \A k \in Nat : k \in T
  BY <1>1, Induction
<1> QED
  BY <1>2 DEF T

(* The greatest element of a set of numbers up to n that n belongs to is   *)
(* n.                                                                      *)
LEMMA MaxOf ==
  ASSUME NEW n \in Nat, NEW S \in SUBSET (1 .. n), n \in S
  PROVE  Max(S) = n
<1>1. \E x \in S : \A y \in S : x >= y
  OBVIOUS
<1>2. Max(S) \in S /\ \A y \in S : Max(S) >= y
  BY <1>1 DEF Max
<1>3. Max(S) \in 1 .. n /\ Max(S) >= n
  BY <1>2
<1> QED
  BY <1>3

(* What a fold does with its accumulator u and the next element x. *)
Step(op, u, x) ==
  CASE op = "see"       -> See(u, x)
    [] op = "extract"   -> Extract(u, x)
    [] op = "add"       -> Add(u, x)
    [] op = "take"      -> Take(u, x)
    [] op = "translate" -> Translate(u, x)
    [] op = "separate"  -> Separate(u, x)

(* The fold of the community modules with that operator. *)
F(op, base, s) == FoldLeft(LAMBDA u, x : Step(op, u, x), base, s)

(* The function whose existence the definition of the fold is about. *)
IsFold(op, base, s, n, g) ==
  g = [S \in SUBSET (1 .. n) |->
         IF S = {} THEN base ELSE Step(op, g[S \ {Max(S)}], s[Max(S)])]

(* Every sequence has such a function. *)
LEMMA FoldExists ==
  ASSUME NEW op, NEW base, NEW s
  PROVE  \A n \in Nat : \E g : IsFold(op, base, s, n, g)
<1> DEFINE P(n) == \E g : IsFold(op, base, s, n, g)
<1>1. P(0)
  <2>1. IsFold(op, base, s, 0, [S \in SUBSET (1 .. 0) |-> base])
    BY DEF IsFold
  <2> QED
    BY <2>1
<1>2. ASSUME NEW n \in Nat, P(n) PROVE P(n + 1)
  <2>1. PICK g : IsFold(op, base, s, n, g)
    BY <1>2
  <2> DEFINE h == [S \in SUBSET (1 .. n + 1) |->
                     IF n + 1 \in S THEN Step(op, g[S \ {n + 1}], s[n + 1]) ELSE g[S]]
  <2>2. ASSUME NEW S \in SUBSET (1 .. n + 1)
        PROVE  h[S] = IF S = {} THEN base ELSE Step(op, h[S \ {Max(S)}], s[Max(S)])
    <3>1. CASE n + 1 \in S
      <4>1. Max(S) = n + 1
        BY <3>1, MaxOf
      <4>2. S \ {n + 1} \in SUBSET (1 .. n) /\ S \ {n + 1} \in SUBSET (1 .. n + 1)
            /\ n + 1 \notin S \ {n + 1}
        BY SMT
      <4>3. h[S] = Step(op, g[S \ {n + 1}], s[n + 1]) /\ h[S \ {n + 1}] = g[S \ {n + 1}]
        BY <3>1, <4>2
      <4> QED
        BY <3>1, <4>1, <4>3
    <3>2. CASE n + 1 \notin S
      <4>1. S \in SUBSET (1 .. n)
        BY <3>2
      <4>2. h[S] = g[S]
        BY <3>2
      <4>3. CASE S = {}
        BY <2>1, <4>1, <4>2, <4>3 DEF IsFold
      <4>4. CASE S # {}
        <5>1. S \ {Max(S)} \in SUBSET (1 .. n) /\ S \ {Max(S)} \in SUBSET (1 .. n + 1)
              /\ n + 1 \notin S \ {Max(S)}
          BY <3>2, <4>1
        <5>2. h[S \ {Max(S)}] = g[S \ {Max(S)}]
          BY <5>1
        <5> QED
          BY <2>1, <4>1, <4>2, <4>4, <5>2 DEF IsFold
      <4> QED
        BY <4>3, <4>4
    <3> QED
      BY <3>1, <3>2
  <2>3. IsFold(op, base, s, n + 1, h)
    BY <2>2 DEF IsFold
  <2> QED
    BY <2>3
<1>3. \A n \in Nat : P(n)
  <2> DEFINE T == {n \in Nat : P(n)}
  <2> HIDE DEF P
  <2>1. 0 \in T /\ \A n \in Nat : n \in T => n + 1 \in T
    BY <1>1, <1>2
  <2>2. \A n \in Nat : n \in T
    BY <2>1, Induction
  <2> QED
    BY <2>2
<1> QED
  BY <1>3

(* h[k] is what the fold has after k elements of the n. *)
Run(op, base, s, n, h) ==
  /\ h[0] = base
  /\ \A k \in 1 .. n : h[k] = Step(op, h[k - 1], s[k])
  /\ F(op, base, s) = h[n]

(* A fold has its intermediate results. *)
LEMMA FoldSteps ==
  ASSUME NEW op, NEW base, NEW s, NEW n \in Nat, DOMAIN s = 1 .. n
  PROVE  \E h : Run(op, base, s, n, h)
<1> DEFINE g == CHOOSE g : IsFold(op, base, s, n, g)
<1>1. IsFold(op, base, s, n, g)
  BY FoldExists
<1>2. F(op, base, s) = g[1 .. n]
  BY DEF F, FoldLeft, MapThenFoldSet, IsFold
<1> HIDE DEF g
<1> DEFINE h == [k \in 0 .. n |-> g[1 .. k]]
<1>3. h[0] = base
  BY <1>1 DEF IsFold
<1>4. ASSUME NEW k \in 1 .. n PROVE h[k] = Step(op, h[k - 1], s[k])
  <2>1. 1 .. k \in SUBSET (1 .. n) /\ Max(1 .. k) = k /\ (1 .. k) \ {k} = 1 .. (k - 1)
        /\ 1 .. k # {}
    <3>1. 1 .. k \in SUBSET (1 .. n) /\ (1 .. k) \ {k} = 1 .. (k - 1) /\ k \in 1 .. k /\ k \in Nat
      OBVIOUS
    <3>2. Max(1 .. k) = k
      BY <3>1, MaxOf
    <3> QED
      BY <3>1, <3>2
  <2>2. g[1 .. k] = Step(op, g[1 .. (k - 1)], s[k])
    BY <1>1, <2>1 DEF IsFold
  <2> QED
    BY <2>2
<1>5. h[n] = g[1 .. n]
  OBVIOUS
<1> HIDE DEF h
<1> QED
  BY <1>2, <1>3, <1>4, <1>5 DEF Run

(* The folds of the model. *)
Nothing == [in |-> FALSE, thinking |-> <<>>, remaining |-> <<>>]
Unsorted == [system |-> <<>>, rawMsgs |-> <<>>]

LEMMA FoldsAre ==
  /\ \A t : Visible(t) = F("see", <<>>, t)
  /\ \A t : extractThinkTags(t) = F("extract", Nothing, t)
  /\ \A s : FoldLeft(Add, NoAnswer, s) = F("add", NoAnswer, s)
  /\ \A s : FoldLeft(Take, NoAnswer, s) = F("take", NoAnswer, s)
  /\ \A s : toAnthropicMessages(s) = F("translate", NoTurns, s).turns
  /\ \A s : FoldLeft(Separate, Unsorted, s) = F("separate", Unsorted, s)
<1>1. \A t : Visible(t) = F("see", <<>>, t)
  BY DEF Visible, F, Step, FoldLeft, MapThenFoldSet
<1>2. \A t : extractThinkTags(t) = F("extract", Nothing, t)
  BY DEF extractThinkTags, Nothing, F, Step, FoldLeft, MapThenFoldSet
<1>3. \A s : FoldLeft(Add, NoAnswer, s) = F("add", NoAnswer, s)
  BY DEF F, Step, FoldLeft, MapThenFoldSet
<1>4. \A s : FoldLeft(Take, NoAnswer, s) = F("take", NoAnswer, s)
  BY DEF F, Step, FoldLeft, MapThenFoldSet
<1>5. \A s : toAnthropicMessages(s) = F("translate", NoTurns, s).turns
  BY DEF toAnthropicMessages, F, Step, FoldLeft, MapThenFoldSet
<1>6. \A s : FoldLeft(Separate, Unsorted, s) = F("separate", Unsorted, s)
  BY DEF F, Step, FoldLeft, MapThenFoldSet
<1> QED
  BY <1>1, <1>2, <1>3, <1>4, <1>5, <1>6

(* What holds of the empty sequence, and of one more element when it holds *)
(* without it, holds of every sequence.                                    *)
LEMMA SeqInduction ==
  ASSUME NEW X, NEW T, <<>> \in T,
         \A s \in Seq(X), x \in X : s \in T => Append(s, x) \in T
  PROVE  \A s \in Seq(X) : s \in T
<1> DEFINE N == {n \in Nat : \A s \in Seq(X) : Len(s) = n => s \in T}
<1>1. 0 \in N
  OBVIOUS
<1>2. ASSUME NEW n \in Nat, n \in N PROVE n + 1 \in N
  <2> SUFFICES ASSUME NEW s \in Seq(X), Len(s) = n + 1 PROVE s \in T
    OBVIOUS
  <2>1. s # <<>>
    OBVIOUS
  <2>2. PICK r \in Seq(X), x \in X : s = Append(r, x)
    BY <2>1, SequenceEmptyOrAppend
  <2>3. Len(r) = n /\ Len(r) \in Nat
    BY <2>2, AppendProperties
  <2> QED
    BY <1>2, <2>2, <2>3
<1> HIDE DEF N
<1>3. \A n \in Nat : n \in N
  BY <1>1, <1>2, Induction
<1> QED
  BY <1>3 DEF N

(* The fold of nothing, and of one more element. *)
LEMMA FoldEmpty ==
  ASSUME NEW op, NEW base
  PROVE  F(op, base, <<>>) = base
<1>1. PICK h : Run(op, base, <<>>, 0, h)
  <2>1. DOMAIN <<>> = 1 .. 0 /\ 0 \in Nat
    OBVIOUS
  <2> QED
    BY <2>1, FoldSteps
<1> QED
  BY <1>1 DEF Run

LEMMA FoldOne ==
  ASSUME NEW op, NEW base, NEW x
  PROVE  F(op, base, <<x>>) = Step(op, base, x)
<1>1. PICK h : Run(op, base, <<x>>, 1, h)
  <2>1. DOMAIN <<x>> = 1 .. 1 /\ 1 \in Nat
    OBVIOUS
  <2> QED
    BY <2>1, FoldSteps
<1>2. h[0] = base /\ h[1] = Step(op, h[1 - 1], <<x>>[1]) /\ F(op, base, <<x>>) = h[1]
  BY <1>1 DEF Run
<1> QED
  BY <1>2

LEMMA FoldAppend ==
  ASSUME NEW op, NEW base, NEW X, NEW s \in Seq(X), NEW x \in X
  PROVE  F(op, base, Append(s, x)) = Step(op, F(op, base, s), x)
<1> DEFINE n == Len(s)
           t == Append(s, x)
<1>1. /\ n \in Nat /\ DOMAIN s = 1 .. n /\ DOMAIN t = 1 .. n + 1 /\ n + 1 \in Nat
      /\ \A i \in 1 .. n : t[i] = s[i]
      /\ t[n + 1] = x
  BY AppendProperties
<1> HIDE DEF n, t
<1>2. PICK g : Run(op, base, s, n, g)
  BY <1>1, FoldSteps
<1>3. PICK h : Run(op, base, t, n + 1, h)
  BY <1>1, FoldSteps
<1> DEFINE T == {k \in 0 .. n : h[k] = g[k]}
<1>4. 0 \in T
  BY <1>1, <1>2, <1>3 DEF Run
<1>5. ASSUME NEW k \in 1 .. n, k - 1 \in T PROVE k \in T
  <2>1. h[k] = Step(op, h[k - 1], t[k]) /\ g[k] = Step(op, g[k - 1], s[k])
    <3>1. k \in 1 .. n + 1
      BY <1>1
    <3> QED
      BY <1>2, <1>3, <3>1 DEF Run
  <2>2. h[k - 1] = g[k - 1] /\ t[k] = s[k]
    BY <1>1, <1>5
  <2> QED
    BY <2>1, <2>2
<1> HIDE DEF T
<1>6. n \in T
  <2>1. \A k \in 0 .. n : k \in T
    BY <1>1, <1>4, <1>5, UpTo
  <2> QED
    BY <1>1, <2>1
<1>7. h[n + 1] = Step(op, h[(n + 1) - 1], t[n + 1]) /\ (n + 1) - 1 = n
  <2>1. n + 1 \in 1 .. n + 1 /\ (n + 1) - 1 = n
    BY <1>1
  <2> QED
    BY <1>3, <2>1 DEF Run
<1> QED
  BY <1>1, <1>2, <1>3, <1>6, <1>7 DEF Run, T, t

(* One more element of the second part is one more of the whole. *)
LEMMA AppendConcat ==
  ASSUME NEW X, NEW s \in Seq(X), NEW u \in Seq(X), NEW x \in X
  PROVE  s \o u \in Seq(X) /\ s \o Append(u, x) = Append(s \o u, x)
<1>1. s \o u \in Seq(X) /\ <<x>> \in Seq(X)
  BY ConcatProperties
<1>2. Append(u, x) = u \o <<x>> /\ Append(s \o u, x) = (s \o u) \o <<x>>
  BY <1>1, AppendIsConcat
<1> QED
  BY <1>1, <1>2, ConcatAssociative

(* A concatenation is folded one part after the other. *)
LEMMA FoldConcat ==
  ASSUME NEW op, NEW base, NEW X, NEW s \in Seq(X), NEW t \in Seq(X)
  PROVE  F(op, base, s \o t) = F(op, F(op, base, s), t)
<1> DEFINE T == {u \in Seq(X) : F(op, base, s \o u) = F(op, F(op, base, s), u)}
<1>1. <<>> \in T
  BY FoldEmpty, ConcatEmptySeq, EmptySeq
<1>2. ASSUME NEW u \in Seq(X), NEW x \in X, u \in T PROVE Append(u, x) \in T
  <2>1. Append(u, x) \in Seq(X) /\ s \o u \in Seq(X)
    BY AppendProperties, ConcatProperties
  <2>2. s \o Append(u, x) = Append(s \o u, x)
    BY AppendConcat
  <2>3. F(op, base, Append(s \o u, x)) = Step(op, F(op, base, s \o u), x)
    <3> DEFINE v == s \o u
    <3>1. v \in Seq(X)
      BY <2>1
    <3> HIDE DEF v
    <3>2. F(op, base, Append(v, x)) = Step(op, F(op, base, v), x)
      BY <3>1, FoldAppend
    <3> QED
      BY <3>2 DEF v
  <2>4. F(op, F(op, base, s), Append(u, x)) = Step(op, F(op, F(op, base, s), u), x)
    BY FoldAppend
  <2> QED
    BY <1>2, <2>1, <2>2, <2>3, <2>4
<1> HIDE DEF T
<1>3. t \in T
  BY <1>1, <1>2, SeqInduction
<1> QED
  BY <1>3 DEF T

-----------------------------------------------------------------------------
(* Texts: what a client sees of them, and where the tags are.              *)

Symbols == Letters \cup {Break} \cup Tags

(* Nothing is seen of nothing, and of one more symbol what it shows. *)
LEMMA VisibleAppend ==
  /\ Visible(<<>>) = <<>>
  /\ \A X : \A t \in Seq(X), x \in X : Visible(Append(t, x)) = See(Visible(t), x)
<1>1. Visible(<<>>) = <<>>
  BY FoldsAre, FoldEmpty
<1>2. ASSUME NEW X, NEW t \in Seq(X), NEW x \in X
      PROVE  Visible(Append(t, x)) = See(Visible(t), x)
  <2>1. F("see", <<>>, Append(t, x)) = Step("see", F("see", <<>>, t), x)
    BY FoldAppend
  <2> QED
    BY <2>1, FoldsAre DEF Step
<1> QED
  BY <1>1, <1>2

(* What is seen of a text is a text. *)
LEMMA VisibleTyped ==
  ASSUME NEW X, NEW t \in Seq(X)
  PROVE  Visible(t) \in Seq(X)
<1> DEFINE T == {u \in Seq(X) : Visible(u) \in Seq(X)}
<1>1. <<>> \in T
  BY VisibleAppend, EmptySeq
<1>2. ASSUME NEW u \in Seq(X), NEW x \in X, u \in T PROVE Append(u, x) \in T
  <2>1. Visible(Append(u, x)) = See(Visible(u), x)
    BY VisibleAppend
  <2> QED
    BY <1>2, <2>1, AppendProperties, SMTT(30) DEF See
<1> HIDE DEF T
<1>3. t \in T
  BY <1>1, <1>2, SeqInduction
<1> QED
  BY <1>3 DEF T

(* A client sees the parts of a text one after the other. *)
LEMMA VisibleConcat ==
  ASSUME NEW X, NEW s \in Seq(X), NEW t \in Seq(X)
  PROVE  Visible(s \o t) = Visible(s) \o Visible(t)
<1> DEFINE T == {u \in Seq(X) : Visible(s \o u) = Visible(s) \o Visible(u)}
<1>1. <<>> \in T
  <2>1. s \o <<>> = s /\ Visible(s) \o <<>> = Visible(s) /\ <<>> \in Seq(X)
    BY VisibleTyped, ConcatEmptySeq
  <2> QED
    BY <2>1, VisibleAppend
<1>2. ASSUME NEW u \in Seq(X), NEW x \in X, u \in T PROVE Append(u, x) \in T
  <2> DEFINE v == s \o u
             a == Visible(s)
             b == Visible(u)
  <2>1. v \in Seq(X) /\ a \in Seq(X) /\ b \in Seq(X) /\ Append(u, x) \in Seq(X) /\ <<x>> \in Seq(X)
    BY ConcatProperties, AppendProperties, VisibleTyped
  <2>2. s \o Append(u, x) = Append(v, x)
    BY AppendConcat
  <2>3. Visible(v) = a \o b
    BY <1>2
  <2> HIDE DEF v
  <2>4. Visible(Append(v, x)) = See(Visible(v), x) /\ Visible(Append(u, x)) = See(b, x)
    BY <2>1, VisibleAppend
  <2>5. See(a \o b, x) = a \o See(b, x)
    <3> HIDE DEF a, b
    <3>1. a \o Append(b, x) = Append(a \o b, x)
      BY <2>1, AppendConcat
    <3> QED
      BY <3>1 DEF See
  <2> QED
    BY <2>1, <2>2, <2>3, <2>4, <2>5
<1> HIDE DEF T
<1>3. t \in T
  BY <1>1, <1>2, SeqInduction
<1> QED
  BY <1>3 DEF T

(* A line break trimmed is not missed. *)
LEMMA VisibleTrim ==
  ASSUME NEW X, NEW t \in Seq(X)
  PROVE  TrimPrefix(t) \in Seq(X) /\ Visible(TrimPrefix(t)) = Visible(t)
<1>1. CASE t # <<>> /\ Head(t) = Break
  <2>1. Tail(t) \in Seq(X) /\ TrimPrefix(t) = Tail(t)
    BY <1>1 DEF TrimPrefix
  <2>2. <<Break>> \in Seq(X) /\ t = <<Break>> \o Tail(t)
    BY <1>1
  <2>3. Visible(<<Break>>) = <<>>
    <3>1. Break \in X /\ <<>> \in Seq(X) /\ Append(<<>>, Break) = <<Break>>
      BY <1>1
    <3>2. Visible(Append(<<>>, Break)) = See(Visible(<<>>), Break)
      BY <3>1, VisibleAppend
    <3> QED
      BY <3>1, <3>2, VisibleAppend DEF See
  <2>4. Visible(<<Break>> \o Tail(t)) = <<>> \o Visible(Tail(t))
    BY <2>1, <2>2, <2>3, VisibleConcat
  <2>5. <<>> \o Visible(Tail(t)) = Visible(Tail(t))
    BY <2>1, VisibleTyped, ConcatEmptySeq
  <2> QED
    BY <2>1, <2>2, <2>4, <2>5
<1>2. CASE ~(t # <<>> /\ Head(t) = Break)
  BY <1>2 DEF TrimPrefix
<1> QED
  BY <1>1, <1>2

(* The texts of a frame: one tag at most. *)
OneTag(t) == /\ t \in Seq(Symbols)
             /\ \A i, k \in DOMAIN t : {t[i], t[k]} \subseteq Tags => i = k
Untagged(t) == t \in Seq(Symbols) /\ ToSet(t) \cap Tags = {}

(* Position finds a tag of a frame, and the parts around it have none. *)
LEMMA PositionIs ==
  ASSUME NEW t, OneTag(t), NEW tag \in Tags
  PROVE  LET p == Position(t, tag)
             before == SubSeq(t, 1, p - 1)
             after == SubSeq(t, p + 1, Len(t))
         IN /\ p = 0 <=> tag \notin ToSet(t)
            /\ p # 0 => /\ t = (before \o <<tag>>) \o after
                        /\ Untagged(before) /\ Untagged(after)
<1> DEFINE I == {i \in 1 .. Len(t) : t[i] = tag}
           p == Position(t, tag)
           before == SubSeq(t, 1, p - 1)
           after == SubSeq(t, p + 1, Len(t))
<1>1. p = IF I # {} THEN Min(I) ELSE 0
  BY DEF Position, SelectInSeq
<1>2. t \in Seq(Symbols) /\ DOMAIN t = 1 .. Len(t) /\ Len(t) \in Nat
  BY DEF OneTag
<1>3. I = {} <=> tag \notin ToSet(t)
  BY <1>2 DEF ToSet
<1>4. ASSUME I # {} PROVE p \in 1 .. Len(t) /\ t[p] = tag
  <2>1. PICK i \in I : TRUE
    BY <1>4
  <2>2. \A k \in I : k = i
    BY <1>2 DEF OneTag
  <2>3. \E x \in I : \A y \in I : x <= y
    BY <1>2, <2>1, <2>2
  <2>4. Min(I) \in I
    BY <2>3 DEF Min
  <2> QED
    BY <1>1, <1>4, <2>4
<1>5. p = 0 <=> tag \notin ToSet(t)
  BY <1>1, <1>3, <1>4
<1>6. ASSUME p # 0
      PROVE  t = (before \o <<tag>>) \o after /\ Untagged(before) /\ Untagged(after)
  <2>1. p \in 1 .. Len(t) /\ t[p] = tag
    BY <1>1, <1>4, <1>6
  <2> HIDE DEF p
  <2>2. before \o <<t[p]>> = SubSeq(t, 1, p)
    <3>1. 1 \in 1 .. Len(t) /\ p \in 1 .. Len(t)
      BY <1>2, <2>1
    <3> QED
      BY <1>2, <3>1, SubSeqRecursiveSecond
  <2>3. SubSeq(t, 1, p) \o after = SubSeq(t, 1, Len(t))
    <3>1. 1 \in 1 .. Len(t) + 1 /\ p \in 1 - 1 .. Len(t) /\ Len(t) \in p .. Len(t)
      BY <1>2, <2>1
    <3> QED
      BY <1>2, <3>1, ConcatAdjacentSubSeq
  <2>4. SubSeq(t, 1, Len(t)) = t
    BY <1>2, SubSeqFull
  <2>5. \A i \in DOMAIN t : i # p => t[i] \notin Tags
    BY <1>2, <2>1 DEF OneTag
  <2>6. /\ before \in Seq(Symbols) /\ Len(before) = p - 1
        /\ \A i \in 1 .. p - 1 : before[i] = t[i]
    <3>1. \A i \in 1 .. p - 1 : t[i] \in Symbols
      BY <1>2, <2>1
    <3>2. /\ SubSeq(t, 1, p - 1) \in Seq(Symbols)
          /\ Len(SubSeq(t, 1, p - 1)) = IF 1 <= p - 1 THEN (p - 1) - 1 + 1 ELSE 0
          /\ \A i \in 1 .. (p - 1) - 1 + 1 : SubSeq(t, 1, p - 1)[i] = t[1 + i - 1]
      <4>1. 1 \in Int /\ p - 1 \in Int
        BY <2>1
      <4> QED
        BY <3>1, <4>1, SubSeqProperties
    <3> HIDE DEF before
    <3> QED
      BY <1>2, <2>1, <3>2 DEF before
  <2>7. /\ after \in Seq(Symbols) /\ Len(after) = Len(t) - p
        /\ \A i \in 1 .. Len(t) - p : after[i] = t[p + i]
    <3>1. \A i \in p + 1 .. Len(t) : t[i] \in Symbols
      BY <1>2, <2>1
    <3>2. /\ SubSeq(t, p + 1, Len(t)) \in Seq(Symbols)
          /\ Len(SubSeq(t, p + 1, Len(t))) = IF p + 1 <= Len(t) THEN Len(t) - (p + 1) + 1 ELSE 0
          /\ \A i \in 1 .. Len(t) - (p + 1) + 1 :
               SubSeq(t, p + 1, Len(t))[i] = t[(p + 1) + i - 1]
      <4>1. p + 1 \in Int /\ Len(t) \in Int
        BY <1>2, <2>1
      <4> QED
        BY <3>1, <4>1, SubSeqProperties
    <3>3. p \in 1 .. Len(t) /\ Len(t) \in Nat
      BY <1>2, <2>1
    <3> QED
      BY <3>2, <3>3
  <2> HIDE DEF before, after
  <2>8. ToSet(before) \cap Tags = {}
    <3>1. ASSUME NEW i \in 1 .. p - 1 PROVE before[i] \notin Tags
      BY <1>2, <2>1, <2>5, <2>6
    <3> QED
      BY <1>2, <2>1, <2>6, <3>1 DEF ToSet
  <2>9. ToSet(after) \cap Tags = {}
    <3>1. ASSUME NEW i \in 1 .. Len(t) - p PROVE after[i] \notin Tags
      <4>1. p + i \in DOMAIN t /\ p + i # p
        BY <1>2, <2>1
      <4> QED
        BY <2>5, <2>7, <4>1
    <3> QED
      BY <1>2, <2>1, <2>7, <3>1 DEF ToSet
  <2> QED
    BY <2>1, <2>2, <2>3, <2>4, <2>6, <2>7, <2>8, <2>9 DEF Untagged
<1> QED
  BY <1>5, <1>6

-----------------------------------------------------------------------------
(* The parser of tags of one frame, and the one of a whole answer.         *)

Parts == [in : BOOLEAN, thinking : Seq(Symbols), remaining : Seq(Symbols)]
Chunks == [delta : Seq(Symbols), thinking : Seq(Symbols), index : Nat, id : Nat,
           args : Seq(Symbols), done : BOOLEAN]

(* Extracting goes on from parts to parts. *)
LEMMA ExtractTyped ==
  ASSUME NEW acc \in Parts, NEW t \in Seq(Symbols)
  PROVE  F("extract", acc, t) \in Parts
<1> DEFINE T == {u \in Seq(Symbols) : F("extract", acc, u) \in Parts}
<1>1. <<>> \in T
  BY FoldEmpty, EmptySeq
<1>2. ASSUME NEW u \in Seq(Symbols), NEW x \in Symbols, u \in T PROVE Append(u, x) \in T
  <2> DEFINE v == F("extract", acc, u)
  <2>1. F("extract", acc, Append(u, x)) = Step("extract", v, x)
    BY FoldAppend
  <2>2. v \in Parts
    BY <1>2
  <2> HIDE DEF v
  <2>3. Extract(v, x) \in Parts
    <3>1. v.in \in BOOLEAN /\ v.thinking \in Seq(Symbols) /\ v.remaining \in Seq(Symbols)
      BY <2>2 DEF Parts
    <3>2. Append(v.thinking, x) \in Seq(Symbols) /\ Append(v.remaining, x) \in Seq(Symbols)
      BY <3>1, AppendProperties
    <3>3. /\ [v EXCEPT !.in = FALSE] \in Parts /\ [v EXCEPT !.in = TRUE] \in Parts
          /\ [v EXCEPT !.thinking = Append(@, x)] \in Parts
          /\ [v EXCEPT !.remaining = Append(@, x)] \in Parts
      BY <2>2, <3>2 DEF Parts
    <3> QED
      BY <3>3 DEF Extract
  <2> QED
    BY <2>1, <2>3, AppendProperties DEF Step
<1> HIDE DEF T
<1>3. t \in T
  BY <1>1, <1>2, SeqInduction
<1> QED
  BY <1>3 DEF T

(* A text without tags goes to where the last tag left the parser. *)
LEMMA ExtractPlain ==
  ASSUME NEW acc \in Parts, NEW t \in Seq(Symbols)
  PROVE  /\ acc.in /\ Close \notin ToSet(t) =>
              F("extract", acc, t) = [acc EXCEPT !.thinking = @ \o t]
         /\ ~acc.in /\ Open \notin ToSet(t) =>
              F("extract", acc, t) = [acc EXCEPT !.remaining = @ \o t]
<1> DEFINE P(u) == /\ acc.in /\ Close \notin ToSet(u) =>
                        F("extract", acc, u) = [acc EXCEPT !.thinking = @ \o u]
                   /\ ~acc.in /\ Open \notin ToSet(u) =>
                        F("extract", acc, u) = [acc EXCEPT !.remaining = @ \o u]
           T == {u \in Seq(Symbols) : P(u)}
<1>1. <<>> \in T
  <2>1. acc.thinking \o <<>> = acc.thinking /\ acc.remaining \o <<>> = acc.remaining
    BY ConcatEmptySeq DEF Parts
  <2>2. acc = [acc EXCEPT !.thinking = acc.thinking] /\ acc = [acc EXCEPT !.remaining = acc.remaining]
    BY DEF Parts
  <2>3. F("extract", acc, <<>>) = acc
    BY FoldEmpty
  <2> QED
    BY <2>1, <2>2, <2>3, EmptySeq
<1>2. ASSUME NEW u \in Seq(Symbols), NEW x \in Symbols, u \in T PROVE Append(u, x) \in T
  <2> DEFINE v == F("extract", acc, u)
             w == Append(u, x)
  <2>1. F("extract", acc, w) = Extract(v, x)
    BY FoldAppend DEF Step
  <2>2. w \in Seq(Symbols) /\ ToSet(w) = ToSet(u) \cup {x}
    <3>1. /\ DOMAIN u = 1 .. Len(u) /\ DOMAIN w = 1 .. Len(u) + 1 /\ Len(u) \in Nat
          /\ \A i \in 1 .. Len(u) : w[i] = u[i]
          /\ w[Len(u) + 1] = x
      BY AppendProperties
    <3> HIDE DEF w
    <3>2. ToSet(w) = ToSet(u) \cup {x}
      BY <3>1, SMTT(30) DEF ToSet
    <3> QED
      BY <3>2, AppendProperties DEF w
  <2>3. /\ acc.thinking \o w = Append(acc.thinking \o u, x)
        /\ acc.remaining \o w = Append(acc.remaining \o u, x)
    <3> DEFINE y == acc.thinking
               z == acc.remaining
    <3>1. y \in Seq(Symbols) /\ z \in Seq(Symbols)
      BY DEF Parts
    <3> HIDE DEF y, z
    <3>2. y \o w = Append(y \o u, x) /\ z \o w = Append(z \o u, x)
      BY <3>1, AppendConcat
    <3> QED
      BY <3>2 DEF y, z
  <2>4. P(u)
    BY <1>2
  <2> HIDE DEF w
  <2>5. ASSUME acc.in, Close \notin ToSet(w)
        PROVE  F("extract", acc, w) = [acc EXCEPT !.thinking = @ \o w]
    <3>1. v = [acc EXCEPT !.thinking = @ \o u] /\ x # Close
      BY <2>2, <2>4, <2>5
    <3> HIDE DEF v
    <3>2. v.in /\ v.thinking = acc.thinking \o u
      BY <2>5, <3>1 DEF Parts
    <3>3. Extract(v, x) = [v EXCEPT !.thinking = Append(@, x)]
      BY <3>1, <3>2 DEF Extract
    <3>4. Extract(v, x) = [acc EXCEPT !.thinking = Append(acc.thinking \o u, x)]
      BY <3>1, <3>2, <3>3 DEF Parts
    <3> QED
      BY <2>1, <2>3, <3>4
  <2>6. ASSUME ~acc.in, Open \notin ToSet(w)
        PROVE  F("extract", acc, w) = [acc EXCEPT !.remaining = @ \o w]
    <3>1. v = [acc EXCEPT !.remaining = @ \o u] /\ x # Open
      BY <2>2, <2>4, <2>6
    <3> HIDE DEF v
    <3>2. ~v.in /\ v.remaining = acc.remaining \o u
      BY <2>6, <3>1 DEF Parts
    <3>3. Extract(v, x) = [v EXCEPT !.remaining = Append(@, x)]
      BY <3>1, <3>2 DEF Extract
    <3>4. Extract(v, x) = [acc EXCEPT !.remaining = Append(acc.remaining \o u, x)]
      BY <3>1, <3>2, <3>3 DEF Parts
    <3> QED
      BY <2>1, <2>3, <3>4
  <2>7. P(w)
    BY <2>5, <2>6
  <2> HIDE DEF P
  <2> QED
    BY <2>2, <2>7 DEF w
<1> HIDE DEF T
<1>3. t \in T
  BY <1>1, <1>2, SeqInduction
<1> QED
  BY <1>3 DEF T

(* Around a tag that matters the parser changes sides. *)
LEMMA ExtractTag ==
  ASSUME NEW acc \in Parts, NEW before, Untagged(before), NEW after, Untagged(after),
         NEW tag, (acc.in /\ tag = Close) \/ (~acc.in /\ tag = Open)
  PROVE  F("extract", acc, (before \o <<tag>>) \o after) =
           [in |-> ~acc.in,
            thinking |-> acc.thinking \o (IF acc.in THEN before ELSE after),
            remaining |-> acc.remaining \o (IF acc.in THEN after ELSE before)]
<1> DEFINE a == F("extract", acc, before)
           b == F("extract", a, <<tag>>)
           c == F("extract", b, after)
<1>1. /\ before \in Seq(Symbols) /\ after \in Seq(Symbols) /\ tag \in Symbols
      /\ <<tag>> \in Seq(Symbols) /\ before \o <<tag>> \in Seq(Symbols)
      /\ Open # Close
      /\ \A t \in {before, after} : Open \notin ToSet(t) /\ Close \notin ToSet(t)
  <2>1. tag \in Symbols /\ before \in Seq(Symbols) /\ after \in Seq(Symbols)
    BY DEF Symbols, Untagged, Tags
  <2>2. <<tag>> \in Seq(Symbols) /\ before \o <<tag>> \in Seq(Symbols)
    BY <2>1, ConcatProperties
  <2>3. Open # Close
    BY DEF Open, Close
  <2> QED
    BY <2>1, <2>2, <2>3 DEF Untagged, Tags
<1>2. F("extract", acc, (before \o <<tag>>) \o after) = c
  <2>1. F("extract", acc, before \o <<tag>>) = F("extract", F("extract", acc, before), <<tag>>)
    <3> DEFINE one == <<tag>>
    <3>1. one \in Seq(Symbols)
      BY <1>1
    <3> HIDE DEF one
    <3>2. F("extract", acc, before \o one) = F("extract", F("extract", acc, before), one)
      BY <1>1, <3>1, FoldConcat
    <3> QED
      BY <3>2 DEF one
  <2> DEFINE bt == before \o <<tag>>
  <2>2. bt \in Seq(Symbols)
    BY <1>1
  <2> HIDE DEF bt
  <2>3. F("extract", acc, bt \o after) = F("extract", F("extract", acc, bt), after)
    BY <1>1, <2>2, FoldConcat
  <2> QED
    BY <2>1, <2>3 DEF bt
<1>3. a = IF acc.in THEN [acc EXCEPT !.thinking = @ \o before]
          ELSE [acc EXCEPT !.remaining = @ \o before]
  BY <1>1, ExtractPlain
<1>4. b = Extract(a, tag)
  BY FoldOne DEF Step
<1>5. a \in Parts /\ a.in = acc.in
  <2>1. a \in Parts
    BY <1>1, ExtractTyped
  <2> HIDE DEF a
  <2> QED
    BY <1>3, <2>1 DEF Parts
<1> HIDE DEF a
<1>6. b = [a EXCEPT !.in = ~acc.in]
  <2>1. a.in = acc.in /\ acc.in \in BOOLEAN
    BY <1>5 DEF Parts
  <2> QED
    BY <1>1, <1>4, <2>1 DEF Extract
<1> HIDE DEF b
<1>7. b \in Parts /\ b.in = ~acc.in
  BY <1>5, <1>6 DEF Parts
<1>8. c = IF acc.in THEN [b EXCEPT !.remaining = @ \o after]
          ELSE [b EXCEPT !.thinking = @ \o after]
  BY <1>1, <1>7, ExtractPlain
<1> HIDE DEF c
<1>9. c \in Parts
  BY <1>1, <1>7, ExtractTyped DEF c
<1>10. CASE acc.in
  <2>1. /\ a.thinking = acc.thinking \o before /\ a.remaining = acc.remaining
        /\ b.thinking = a.thinking /\ b.remaining = a.remaining
        /\ c.thinking = b.thinking /\ c.remaining = b.remaining \o after /\ c.in = b.in
    BY <1>3, <1>5, <1>6, <1>7, <1>8, <1>10 DEF Parts
  <2> QED
    BY <1>2, <1>7, <1>9, <1>10, <2>1 DEF Parts
<1>11. CASE ~acc.in
  <2>1. /\ a.remaining = acc.remaining \o before /\ a.thinking = acc.thinking
        /\ b.thinking = a.thinking /\ b.remaining = a.remaining
        /\ c.remaining = b.remaining /\ c.thinking = b.thinking \o after /\ c.in = b.in
    BY <1>3, <1>5, <1>6, <1>7, <1>8, <1>11 DEF Parts
  <2> QED
    BY <1>2, <1>7, <1>9, <1>11, <2>1 DEF Parts
<1> QED
  BY <1>10, <1>11

(* What a frame's chunk shows is what the parser of the whole answer makes *)
(* of its text, line breaks aside, and the two parsers stay together.      *)
LEMMA ProcessIs ==
  ASSUME NEW acc \in Parts, acc.in = inThink, NEW c \in Chunks, OneTag(c.delta),
         c.index = NoCall, ~c.done, c.thinking = <<>>
  PROVE  LET r == process(c)
             e == F("extract", acc, c.delta)
         IN /\ r.chunk \in Chunks /\ r.chunk.index = NoCall /\ ~r.chunk.done
            /\ e \in Parts /\ e.in = r.inThink
            /\ Visible(acc.thinking) \o Visible(r.chunk.thinking) = Visible(e.thinking)
            /\ Visible(acc.remaining) \o Visible(r.chunk.delta) = Visible(e.remaining)
<1> DEFINE t == c.delta
           tag == IF inThink THEN Close ELSE Open
           p == Position(t, tag)
           before == SubSeq(t, 1, p - 1)
           rest == SubSeq(t, p + 1, Len(t))
           after == TrimPrefix(rest)
           r == process(c)
           e == F("extract", acc, t)
<1>1. t \in Seq(Symbols) /\ tag \in Tags /\ OneTag(t)
  BY DEF OneTag, Tags
<1>2. e \in Parts
  BY <1>1, ExtractTyped
<1>3. /\ p = 0 <=> tag \notin ToSet(t)
      /\ p # 0 => t = (before \o <<tag>>) \o rest /\ Untagged(before) /\ Untagged(rest)
  BY <1>1, PositionIs
<1>4. ~Passed(c)
  BY DEF Passed, NoCall
<1>5. r = IF p = 0 /\ ~inThink THEN [chunk |-> c, inThink |-> inThink]
          ELSE IF p = 0
          THEN [chunk |-> [c EXCEPT !.delta = <<>>, !.thinking = t], inThink |-> TRUE]
          ELSE IF inThink
          THEN [chunk |-> [c EXCEPT !.delta = after, !.thinking = before], inThink |-> FALSE]
          ELSE [chunk |-> [c EXCEPT !.delta = before, !.thinking = after], inThink |-> TRUE]
  BY <1>4 DEF process
<1>6. /\ acc.thinking \in Seq(Symbols) /\ acc.remaining \in Seq(Symbols) /\ inThink \in BOOLEAN
      /\ <<>> \in Seq(Symbols)
  BY DEF Parts
<1> HIDE DEF p, before, rest, after, r, e, tag, t
<1>7. CASE p = 0
  <2>1. IF inThink THEN e = [acc EXCEPT !.thinking = @ \o t] ELSE e = [acc EXCEPT !.remaining = @ \o t]
    BY <1>1, <1>3, <1>6, <1>7, ExtractPlain DEF e, tag
  <2>2. CASE inThink
    <3>1. /\ e.in = TRUE /\ e.thinking = acc.thinking \o t /\ e.remaining = acc.remaining
          /\ r = [chunk |-> [c EXCEPT !.delta = <<>>, !.thinking = t], inThink |-> TRUE]
      BY <1>5, <1>7, <2>1, <2>2 DEF Parts
    <3>2. /\ r.chunk \in Chunks /\ r.chunk.index = NoCall /\ ~r.chunk.done
          /\ r.chunk.thinking = t /\ r.chunk.delta = <<>> /\ r.inThink
      BY <1>1, <1>6, <3>1 DEF Chunks
    <3>3. Visible(e.thinking) = Visible(acc.thinking) \o Visible(t)
      BY <1>1, <1>6, <3>1, VisibleConcat
    <3>4. Visible(acc.remaining) \o <<>> = Visible(acc.remaining)
      BY <1>6, VisibleTyped, ConcatEmptySeq
    <3> QED
      BY <1>2, <3>1, <3>2, <3>3, <3>4, VisibleAppend DEF r, e, t
  <2>3. CASE ~inThink
    <3>1. /\ e.in = FALSE /\ e.remaining = acc.remaining \o t /\ e.thinking = acc.thinking
          /\ r = [chunk |-> c, inThink |-> FALSE]
      BY <1>5, <1>6, <1>7, <2>1, <2>3 DEF Parts
    <3>2. /\ r.chunk \in Chunks /\ r.chunk.index = NoCall /\ ~r.chunk.done
          /\ r.chunk.thinking = <<>> /\ r.chunk.delta = t /\ r.inThink = FALSE
      BY <3>1 DEF t
    <3>3. Visible(e.remaining) = Visible(acc.remaining) \o Visible(t)
      BY <1>1, <1>6, <3>1, VisibleConcat
    <3>4. Visible(acc.thinking) \o <<>> = Visible(acc.thinking)
      BY <1>6, VisibleTyped, ConcatEmptySeq
    <3> QED
      BY <1>2, <3>1, <3>2, <3>3, <3>4, VisibleAppend DEF r, e, t
  <2> QED
    BY <2>2, <2>3
<1>8. CASE p # 0
  <2>1. /\ e.in = ~inThink
        /\ inThink => e.thinking = acc.thinking \o before /\ e.remaining = acc.remaining \o rest
        /\ ~inThink => e.remaining = acc.remaining \o before /\ e.thinking = acc.thinking \o rest
    <3>1. t = (before \o <<tag>>) \o rest /\ Untagged(before) /\ Untagged(rest)
      BY <1>3, <1>8
    <3>2. (acc.in /\ tag = Close) \/ (~acc.in /\ tag = Open)
      BY DEF tag
    <3> DEFINE d == F("extract", acc, (before \o <<tag>>) \o rest)
               y == acc.thinking \o (IF acc.in THEN before ELSE rest)
               z == acc.remaining \o (IF acc.in THEN rest ELSE before)
    <3>3. d = [in |-> ~acc.in, thinking |-> y, remaining |-> z]
      BY <3>1, <3>2, ExtractTag
    <3>4. e = d
      BY <3>1 DEF e
    <3> HIDE DEF d, y, z
    <3>5. e.in = ~acc.in /\ e.thinking = y /\ e.remaining = z
      BY <3>3, <3>4
    <3> QED
      BY <1>6, <3>5 DEF y, z
  <2>2. /\ before \in Seq(Symbols) /\ rest \in Seq(Symbols)
        /\ after \in Seq(Symbols) /\ Visible(after) = Visible(rest)
    <3>1. before \in Seq(Symbols) /\ rest \in Seq(Symbols)
      BY <1>3, <1>8 DEF Untagged
    <3> QED
      BY <3>1, VisibleTrim DEF after
  <2>3. /\ Visible(acc.thinking \o before) = Visible(acc.thinking) \o Visible(before)
        /\ Visible(acc.thinking \o rest) = Visible(acc.thinking) \o Visible(after)
        /\ Visible(acc.remaining \o before) = Visible(acc.remaining) \o Visible(before)
        /\ Visible(acc.remaining \o rest) = Visible(acc.remaining) \o Visible(after)
    <3> DEFINE y == acc.thinking
               z == acc.remaining
    <3>1. y \in Seq(Symbols) /\ z \in Seq(Symbols)
      BY <1>6
    <3> HIDE DEF y, z
    <3>2. /\ Visible(y \o before) = Visible(y) \o Visible(before)
          /\ Visible(y \o rest) = Visible(y) \o Visible(rest)
          /\ Visible(z \o before) = Visible(z) \o Visible(before)
          /\ Visible(z \o rest) = Visible(z) \o Visible(rest)
      BY <2>2, <3>1, VisibleConcat
    <3> QED
      BY <2>2, <3>2 DEF y, z
  <2>4. CASE inThink
    <3>1. r = [chunk |-> [c EXCEPT !.delta = after, !.thinking = before], inThink |-> FALSE]
      BY <1>5, <1>8, <2>4
    <3>2. /\ r.chunk \in Chunks /\ r.chunk.index = NoCall /\ ~r.chunk.done
          /\ r.chunk.thinking = before /\ r.chunk.delta = after /\ r.inThink = FALSE
      BY <2>2, <3>1 DEF Chunks
    <3> QED
      BY <1>2, <2>1, <2>3, <2>4, <3>2 DEF r, e, t
  <2>5. CASE ~inThink
    <3>1. r = [chunk |-> [c EXCEPT !.delta = before, !.thinking = after], inThink |-> TRUE]
      BY <1>5, <1>8, <2>5
    <3>2. /\ r.chunk \in Chunks /\ r.chunk.index = NoCall /\ ~r.chunk.done
          /\ r.chunk.thinking = after /\ r.chunk.delta = before /\ r.inThink = TRUE
      BY <2>2, <3>1 DEF Chunks
    <3> QED
      BY <1>2, <2>1, <2>3, <2>5, <3>2 DEF r, e, t
  <2> QED
    BY <2>4, <2>5
<1> QED
  BY <1>7, <1>8

-----------------------------------------------------------------------------
(* The inductive invariant.                                                *)

Calls    == Seq([id : Nat, args : Seq(Symbols)])
Contents == Seq([type : {"text", "thinking", "tool_use"}, id : Nat, body : Seq(Symbols)])
Untaggeds == {t \in Seq(Symbols) : Untagged(t)}
Answers  == [thinking : Seq(Symbols), content : Seq(Symbols), calls : Calls]

StreamTypes ==
  /\ answer \in [content : Seq(Symbols), reasoning : Seq(Symbols), calls : Calls, blocks : Contents, last : Untaggeds]
  /\ inThink \in BOOLEAN
  /\ toolCallIdx \in Seq(Nat) /\ nextToolCall \in Nat
  /\ sent \in Seq(Chunks)
  /\ Received.thinking \in Seq(Symbols) /\ Received.content \in Seq(Symbols)

(* With tags the two parsers are at the same place of the same answer. *)
TagsInv ==
  side \notin {"field", "anthropic"} =>
    LET e == extractThinkTags(answer.content)
    IN /\ answer.reasoning = <<>>
       /\ e.in = inThink
       /\ Visible(Received.thinking) = Visible(e.thinking)
       /\ Visible(Received.content) = Visible(e.remaining)

(* With a field there is nothing to parse. *)
FieldInv ==
  side = "field" =>
    /\ ~inThink /\ Untagged(answer.content)
    /\ Received.thinking = answer.reasoning
    /\ Received.content = answer.content

(* The numbers of the calls are those of the unary answer's calls. *)
AnthropicInv ==
  side = "anthropic" =>
    /\ Received = fromMessage /\ answer.last = <<>>
    /\ Len(toolCallIdx) = Len(Blocks)
    /\ nextToolCall = Len(fromMessage.calls)
    /\ Blocks # <<>> /\ Blocks[Len(Blocks)].type = "tool_use" =>
         toolCallIdx[Len(Blocks)] = nextToolCall

StreamInv == StreamTypes /\ TagsInv /\ FieldInv /\ AnthropicInv

(* The conversation: what each role's messages hold. *)
Messages == {m \in [role : {"user", "assistant", "tool", "system"}, text : BOOLEAN,
                    calls : Seq(Nat), result : Nat] :
               /\ m.role = "user" => m.text
               /\ m.role = "tool" => ~m.text
               /\ m.role # "assistant" => m.calls = <<>>}
ABlock == [kind : {"text", "use", "result"}, of : Nat]
Turns == [role : {"user", "assistant"}, blocks : Seq(ABlock)]
Translations == [n : Nat, turns : Seq(Turns), joins : BOOLEAN]

Raw == Separated.rawMsgs
Translated == F("translate", NoTurns, Raw)

ConversationTypes ==
  /\ messages \in Seq(Messages)
  /\ Separated \in [system : Seq(Messages), rawMsgs : Seq(Messages)]
  /\ Translated \in Translations
  /\ Translated.n = Len(Raw)

(* The texts of the turns are those of the messages, in their order. *)
TextsKept(raw, turns) ==
  /\ \A n \in DOMAIN raw :
       raw[n].text <=> \E i \in DOMAIN turns : n \in Of(turns[i], "text")
  /\ \A i \in DOMAIN turns : \A n \in Of(turns[i], "text") :
       n \in DOMAIN raw /\ raw[n].role = turns[i].role
  /\ \A i, j \in DOMAIN turns :
       \A k \in DOMAIN turns[i].blocks, l \in DOMAIN turns[j].blocks :
         LET b == turns[i].blocks[k]
             c == turns[j].blocks[l]
         IN b.kind = "text" /\ c.kind = "text" /\ (i < j \/ (i = j /\ k < l)) => b.of < c.of

Turned(turns, i, kind) == IF i \in DOMAIN turns THEN Of(turns[i], kind) ELSE {}

(* Every turn but the last is answered by the one after it.  The last one  *)
(* holds results that answer the one before it in part, or it waits itself.*)
CallsKept(turns, joins, pending) ==
  LET l == Len(turns)
      Use(i) == Turned(turns, i, "use")
      Answer(i) == Turned(turns, i, "result")
  IN /\ \A i \in 0 .. l - 2 : Use(i) = Answer(i + 1)
     /\ joins => /\ l > 0 /\ Use(l) = {}
                 /\ Answer(l) \subseteq Use(l - 1) /\ pending = Use(l - 1) \ Answer(l)
     /\ ~joins => Use(l - 1) = Answer(l) /\ pending = Use(l)

ConversationInv ==
  /\ ConversationTypes
  /\ NoCall \notin Made
  /\ \A c \in Made \cup Answered : c <= Len(messages) * MaxCalls
  /\ TextsKept(Raw, Translated.turns)
  /\ CallsKept(Translated.turns, Translated.joins, Pending)

Inputs ==
  /\ side = "chat" => input \in ChatRequests
  /\ side = "embed" => input \in EmbedCalls

TranslationInv == StreamInv /\ ConversationInv /\ Inputs

-----------------------------------------------------------------------------
(* What the client takes.                                                  *)

(* A payload holds a fragment of a call or text. *)
LEMMA PayloadIs ==
  ASSUME NEW c \in Chunks
  PROVE  /\ ChunkToOpenAI(c) \in Chunks
         /\ ChunkToOpenAI(c).index = c.index
         /\ c.index # NoCall => /\ ChunkToOpenAI(c).delta = <<>> /\ ChunkToOpenAI(c).thinking = <<>>
                                /\ ChunkToOpenAI(c).id = c.id /\ ChunkToOpenAI(c).args = c.args
         /\ c.index = NoCall => /\ ChunkToOpenAI(c).delta = c.delta
                                /\ ChunkToOpenAI(c).thinking = c.thinking
<1>1. <<>> \in Seq(Symbols) /\ NoCall \in Nat
  BY DEF NoCall
<1>2. CASE c.index # NoCall
  <2>1. ChunkToOpenAI(c) = [c EXCEPT !.delta = <<>>, !.thinking = <<>>]
    BY <1>2 DEF ChunkToOpenAI
  <2> QED
    BY <1>1, <1>2, <2>1 DEF Chunks
<1>3. CASE c.index = NoCall
  <2>1. ChunkToOpenAI(c) = [c EXCEPT !.id = NoCall, !.args = <<>>]
    BY <1>3 DEF ChunkToOpenAI
  <2> QED
    BY <1>1, <1>3, <2>1 DEF Chunks
<1> QED
  BY <1>2, <1>3

(* What is sent is taken. *)
LEMMA SendTakes ==
  ASSUME StreamTypes, NEW c \in Chunks, Send(c)
  PROVE  /\ sent' \in Seq(Chunks)
         /\ c.done => Received' = Received
         /\ ~c.done => Received' = Take(Received, ChunkToOpenAI(c))
<1>1. Received = F("take", NoAnswer, sent)
  BY FoldsAre DEF Received
<1>2. Received' = F("take", NoAnswer, sent')
  BY FoldsAre DEF Received
<1>3. sent \in Seq(Chunks)
  BY DEF StreamTypes
<1>4. CASE c.done
  BY <1>1, <1>2, <1>3, <1>4 DEF Send
<1>5. CASE ~c.done
  <2> DEFINE d == ChunkToOpenAI(c)
  <2>1. sent' = Append(sent, d) /\ d \in Chunks
    BY <1>5, PayloadIs DEF Send
  <2> HIDE DEF d
  <2>2. F("take", NoAnswer, Append(sent, d)) = Step("take", F("take", NoAnswer, sent), d)
    BY <1>3, <2>1, FoldAppend
  <2>3. Append(sent, d) \in Seq(Chunks)
    BY <1>3, <2>1, AppendProperties
  <2>4. Step("take", Received, d) = Take(Received, d)
    BY DEF Step
  <2> QED
    BY <1>1, <1>2, <1>5, <2>1, <2>2, <2>3, <2>4 DEF d
<1> QED
  BY <1>4, <1>5

(* A chunk of text is taken at the end of the texts. *)
LEMMA TextTaken ==
  ASSUME StreamTypes, NEW c \in Chunks, Send(c), ~c.done, c.index = NoCall
  PROVE  /\ Received' = [thinking |-> Received.thinking \o c.thinking,
                         content |-> Received.content \o c.delta, calls |-> Received.calls]
         /\ Received'.thinking = Received.thinking \o c.thinking
         /\ Received'.content = Received.content \o c.delta
         /\ Received'.thinking \in Seq(Symbols) /\ Received'.content \in Seq(Symbols)
<1> DEFINE d == ChunkToOpenAI(c)
<1>1. d.index = NoCall /\ d.delta = c.delta /\ d.thinking = c.thinking
  BY PayloadIs
<1>2. Received' = Take(Received, d)
  BY SendTakes
<1> HIDE DEF d
<1>3. Received' = [thinking |-> Received.thinking \o c.thinking,
                   content |-> Received.content \o c.delta, calls |-> Received.calls]
  BY <1>1, <1>2 DEF Take
<1> DEFINE y == Received.thinking
           z == Received.content
           yc == y \o c.thinking
           zc == z \o c.delta
<1>4. y \in Seq(Symbols) /\ z \in Seq(Symbols) /\ c.thinking \in Seq(Symbols) /\ c.delta \in Seq(Symbols)
  BY DEF StreamTypes, Chunks
<1>5. yc \in Seq(Symbols) /\ zc \in Seq(Symbols)
  <2> HIDE DEF y, z
  <2> QED
    BY <1>4, ConcatProperties
<1>6. Received' = [thinking |-> yc, content |-> zc, calls |-> Received.calls]
  BY <1>3
<1> HIDE DEF yc, zc
<1>7. Received'.thinking = yc /\ Received'.content = zc
  BY <1>6
<1> QED
  BY <1>3, <1>5, <1>7 DEF yc, zc

-----------------------------------------------------------------------------
(* The frames of an OpenAI-compatible upstream.                            *)

Frames == [content : Seq(Symbols), reasoning : Seq(Symbols),
           finish : {"", "stop", "length", "tool_calls"}]

(* The chunk of a frame. *)
LEMMA ChunkIs ==
  ASSUME NEW f \in Frames
  PROVE  LET c == ChunkFromOpenAI(f)
         IN /\ c \in Chunks /\ c.index = NoCall
            /\ c.delta = f.content /\ c.thinking = f.reasoning
            /\ c.done = (f.finish = "stop")
<1>1. <<>> \in Seq(Symbols) /\ NoCall \in Nat
  BY DEF NoCall
<1> QED
  BY <1>1 DEF ChunkFromOpenAI, Chunk, Chunks, Frames

(* What has passed the parser, or has no tag outside of a thought, is as   *)
(* it was.                                                                 *)
LEMMA ProcessPlain ==
  ASSUME NEW c, Passed(c) \/ (~inThink /\ Untagged(c.delta))
  PROVE  process(c) = [chunk |-> c, inThink |-> inThink]
<1>1. CASE Passed(c)
  BY <1>1 DEF process
<1>2. CASE ~inThink /\ Untagged(c.delta)
  <2>1. OneTag(c.delta) /\ Open \in Tags /\ Open \notin ToSet(c.delta)
    <3>1. c.delta \in Seq(Symbols) /\ Open \in Tags /\ Open \notin ToSet(c.delta)
      BY <1>2 DEF Untagged, Tags
    <3>2. \A i \in DOMAIN c.delta : c.delta[i] \notin Tags
      BY <1>2 DEF Untagged, ToSet
    <3> QED
      BY <3>1, <3>2 DEF OneTag
  <2>2. Position(c.delta, Open) = 0
    BY <2>1, PositionIs
  <2> QED
    BY <1>2, <2>2 DEF process
<1> QED
  BY <1>1, <1>2

(* A frame with the stop is passed on as the end, and changes nothing.     *)
LEMMA FrameStops ==
  ASSUME StreamTypes, NEW f \in Frames, f.finish = "stop", Receive(f)
  PROVE  sent' \in Seq(Chunks) /\ Received' = Received /\ inThink' = inThink
<1> DEFINE c == ChunkFromOpenAI(f)
<1>1. c \in Chunks /\ c.done
  BY ChunkIs
<1>2. process(c) = [chunk |-> c, inThink |-> inThink]
  <2>1. Passed(c)
    BY <1>1 DEF Passed
  <2> HIDE DEF c
  <2> QED
    BY <2>1, ProcessPlain
<1> HIDE DEF c
<1>3. Send(c) /\ inThink' = inThink
  BY <1>2 DEF Receive, c
<1> QED
  BY <1>1, <1>3, SendTakes

(* The other side of the answer stays as it is. *)
LEMMA TypesKept ==
  ASSUME StreamTypes, NEW f, Receive(f), sent' \in Seq(Chunks), inThink' \in BOOLEAN,
         Received'.thinking \in Seq(Symbols), Received'.content \in Seq(Symbols),
         answer' \in [content : Seq(Symbols), reasoning : Seq(Symbols), calls : Calls,
                      blocks : Contents, last : Untaggeds]
  PROVE  StreamTypes' /\ side' = side
BY DEF StreamTypes, Receive

(* Another text in the content, in tags or out of them. *)
LEMMA TagsText ==
  ASSUME StreamInv, side = "tags", NEW text, OneTag(text), NEW f \in Frames,
         f.content = text, f.reasoning = <<>>, f.finish # "stop",
         Receive(f), answer' = [answer EXCEPT !.content = @ \o text]
  PROVE  StreamInv'
<1> DEFINE c == ChunkFromOpenAI(f)
           r == process(c)
           acc == extractThinkTags(answer.content)
           e == F("extract", acc, text)
           d == r.chunk
<1>1. c \in Chunks /\ c.index = NoCall /\ c.delta = text /\ c.thinking = <<>> /\ ~c.done
  BY ChunkIs
<1>2. /\ answer.content \in Seq(Symbols) /\ text \in Seq(Symbols)
      /\ answer.reasoning = <<>> /\ inThink \in BOOLEAN /\ StreamTypes
      /\ Received.thinking \in Seq(Symbols) /\ Received.content \in Seq(Symbols)
  BY DEF StreamInv, StreamTypes, TagsInv, OneTag
<1>3. acc \in Parts /\ acc.in = inThink
      /\ Visible(Received.thinking) = Visible(acc.thinking)
      /\ Visible(Received.content) = Visible(acc.remaining)
  <2>1. Nothing \in Parts
    BY EmptySeq DEF Nothing, Parts
  <2>2. acc \in Parts
    BY <1>2, <2>1, ExtractTyped, FoldsAre
  <2> QED
    BY <2>2 DEF StreamInv, TagsInv
<1>4. extractThinkTags(answer.content \o text) = e
  <2>1. F("extract", Nothing, answer.content \o text) = F("extract", F("extract", Nothing, answer.content), text)
    <3> DEFINE y == answer.content
    <3>1. y \in Seq(Symbols)
      BY <1>2
    <3> HIDE DEF y
    <3>2. F("extract", Nothing, y \o text) = F("extract", F("extract", Nothing, y), text)
      BY <1>2, <3>1, FoldConcat
    <3> QED
      BY <3>2 DEF y
  <2> QED
    BY <2>1, FoldsAre
<1> HIDE DEF acc
<1>5. /\ d \in Chunks /\ d.index = NoCall /\ ~d.done
      /\ e \in Parts /\ e.in = r.inThink
      /\ Visible(acc.thinking) \o Visible(d.thinking) = Visible(e.thinking)
      /\ Visible(acc.remaining) \o Visible(d.delta) = Visible(e.remaining)
  <2> HIDE DEF c
  <2>1. OneTag(c.delta)
    BY <1>1
  <2> QED
    BY <1>1, <1>3, <2>1, ProcessIs
<1>6. Send(d) /\ inThink' = r.inThink
  BY DEF Receive
<1> HIDE DEF c, r, d, e
<1>7. /\ sent' \in Seq(Chunks)
      /\ Received'.thinking = Received.thinking \o d.thinking
      /\ Received'.content = Received.content \o d.delta
      /\ Received'.thinking \in Seq(Symbols) /\ Received'.content \in Seq(Symbols)
  BY <1>2, <1>5, <1>6, SendTakes, TextTaken
<1>8. /\ Visible(Received'.thinking) = Visible(e.thinking)
      /\ Visible(Received'.content) = Visible(e.remaining)
  <2> DEFINE y == Received.thinking
             z == Received.content
  <2>1. y \in Seq(Symbols) /\ z \in Seq(Symbols) /\ d.thinking \in Seq(Symbols) /\ d.delta \in Seq(Symbols)
    BY <1>2, <1>5 DEF Chunks
  <2>2. /\ Received'.thinking = y \o d.thinking /\ Received'.content = z \o d.delta
        /\ Visible(y) = Visible(acc.thinking) /\ Visible(z) = Visible(acc.remaining)
    BY <1>3, <1>7
  <2> HIDE DEF y, z
  <2>3. /\ Visible(y \o d.thinking) = Visible(y) \o Visible(d.thinking)
        /\ Visible(z \o d.delta) = Visible(z) \o Visible(d.delta)
    BY <2>1, VisibleConcat
  <2> QED
    BY <1>5, <2>2, <2>3
<1>9. /\ answer' \in [content : Seq(Symbols), reasoning : Seq(Symbols), calls : Calls,
                      blocks : Contents, last : Untaggeds]
      /\ answer'.content = answer.content \o text /\ answer'.reasoning = <<>>
  <2> DEFINE y == answer.content
             z == y \o text
  <2>1. z \in Seq(Symbols)
    <3>1. y \in Seq(Symbols)
      BY <1>2
    <3> HIDE DEF y
    <3> QED
      BY <1>2, <3>1, ConcatProperties
  <2>2. answer' = [answer EXCEPT !.content = z]
    OBVIOUS
  <2> HIDE DEF z
  <2>3. answer'.content = z /\ answer'.reasoning = answer.reasoning
        /\ answer' \in [content : Seq(Symbols), reasoning : Seq(Symbols), calls : Calls,
                       blocks : Contents, last : Untaggeds]
    BY <2>1, <2>2 DEF StreamInv, StreamTypes
  <2> QED
    BY <1>2, <2>3 DEF z
<1>10. inThink' = e.in /\ inThink' \in BOOLEAN
  BY <1>5, <1>6 DEF Parts
<1>11. StreamTypes' /\ side' = side
  BY <1>2, <1>7, <1>9, <1>10, TypesKept
<1>12. TagsInv'
  BY <1>4, <1>8, <1>9, <1>10, <1>11 DEF TagsInv, e
<1> QED
  BY <1>11, <1>12 DEF StreamInv, FieldInv, AnthropicInv

(* Another text in the content or in the reasoning field, or more of a     *)
(* call.                                                                   *)
LEMMA FieldText ==
  ASSUME StreamInv, side = "field", NEW f \in Frames, Untagged(f.content), f.finish # "stop",
         Receive(f), NEW list \in Calls, NEW yc, NEW yr,
         yc = answer.content \o f.content, yr = answer.reasoning \o f.reasoning, Untagged(yc),
         answer' = [answer EXCEPT !.content = yc, !.reasoning = yr, !.calls = list]
  PROVE  StreamInv'
<1> DEFINE c == ChunkFromOpenAI(f)
<1>1. c \in Chunks /\ c.index = NoCall /\ c.delta = f.content /\ c.thinking = f.reasoning /\ ~c.done
  BY ChunkIs
<1>2. /\ StreamTypes /\ ~inThink
      /\ Received.thinking = answer.reasoning /\ Received.content = answer.content
  BY DEF StreamInv, FieldInv
<1> HIDE DEF c
<1>3. process(c) = [chunk |-> c, inThink |-> inThink]
  BY <1>1, <1>2, ProcessPlain
<1>4. Send(c) /\ inThink' = inThink
  BY <1>3 DEF Receive, c
<1>5. /\ sent' \in Seq(Chunks)
      /\ Received'.thinking = yr /\ Received'.content = yc
      /\ yr \in Seq(Symbols) /\ yc \in Seq(Symbols)
  BY <1>1, <1>2, <1>4, SendTakes, TextTaken
<1>6. /\ answer' \in [content : Seq(Symbols), reasoning : Seq(Symbols), calls : Calls,
                      blocks : Contents, last : Untaggeds]
      /\ answer'.content = yc /\ answer'.reasoning = yr
  BY <1>2, <1>5 DEF StreamTypes
<1>8. inThink' \in BOOLEAN /\ ~inThink'
  BY <1>2, <1>4 DEF StreamTypes
<1>9. StreamTypes' /\ side' = side
  BY <1>2, <1>5, <1>6, <1>8, TypesKept
<1>10. FieldInv'
  BY <1>5, <1>6, <1>8, <1>9 DEF FieldInv
<1> QED
  BY <1>9, <1>10 DEF StreamInv, TagsInv, AnthropicInv

(* The end of the stream. *)
LEMMA FrameStopKept ==
  ASSUME StreamInv, side \in {"tags", "field"}, NEW f \in Frames, f.finish = "stop", Receive(f),
         NEW text, Untagged(text), answer' = [answer EXCEPT !.last = text]
  PROVE  StreamInv'
<1>1. sent' \in Seq(Chunks) /\ Received' = Received /\ inThink' = inThink /\ StreamTypes
  BY FrameStops DEF StreamInv
<1>2. StreamTypes' /\ side' = side
  <2>1. /\ inThink' \in BOOLEAN /\ Received'.thinking \in Seq(Symbols)
        /\ Received'.content \in Seq(Symbols)
        /\ answer' \in [content : Seq(Symbols), reasoning : Seq(Symbols), calls : Calls,
                        blocks : Contents, last : Untaggeds]
    BY <1>1 DEF StreamTypes, Untaggeds, Untagged
  <2> QED
    BY <1>1, <2>1, TypesKept
<1>3. answer'.content = answer.content /\ answer'.reasoning = answer.reasoning
  BY <1>1 DEF StreamTypes
<1> QED
  BY <1>1, <1>2, <1>3 DEF StreamInv, TagsInv, FieldInv, AnthropicInv

(* Texts without tags put together have none. *)
LEMMA UntaggedConcat ==
  ASSUME NEW t, NEW v, Untagged(t), Untagged(v)
  PROVE  Untagged(t \o v)
<1> DEFINE Plain == Symbols \ Tags
<1>1. ASSUME NEW u PROVE Untagged(u) <=> u \in Seq(Plain)
  <2>1. ASSUME Untagged(u) PROVE u \in Seq(Plain)
    <3>1. u \in Seq(Symbols) /\ \A i \in DOMAIN u : u[i] \notin Tags
      BY <2>1 DEF Untagged, ToSet
    <3>2. Len(u) \in Nat /\ DOMAIN u = 1 .. Len(u) /\ u = [k \in 1 .. Len(u) |-> u[k]]
          /\ \A k \in 1 .. Len(u) : u[k] \in Symbols
      BY <3>1
    <3> HIDE DEF Plain
    <3>3. \A k \in 1 .. Len(u) : u[k] \in Plain
      BY <3>1, <3>2 DEF Plain
    <3> QED
      BY <3>2, <3>3, IsASeq
  <2>2. ASSUME u \in Seq(Plain) PROVE Untagged(u)
    <3>1. \A i \in DOMAIN u : u[i] \in Plain
      BY <2>2
    <3>2. \A s \in Seq(Plain), x \in Plain : s \in Seq(Symbols) => Append(s, x) \in Seq(Symbols)
      BY AppendProperties DEF Plain
    <3>3. \A s \in Seq(Plain) : s \in Seq(Symbols)
      BY <3>2, EmptySeq, SeqInduction
    <3> QED
      BY <2>2, <3>1, <3>3 DEF Untagged, ToSet, Plain
  <2> QED
    BY <2>1, <2>2
<1> HIDE DEF Plain
<1>2. t \o v \in Seq(Plain)
  BY <1>1, ConcatProperties
<1> QED
  BY <1>1, <1>2
(* The texts of the frames have one tag at most. *)
LEMMA TextsAre ==
  /\ \A text \in Deltas : OneTag(text) /\ (ToSet(text) \cap Tags = {} => Untagged(text))
  /\ \A text \in {<<>>} \cup {<<x>> : x \in Letters} : Untagged(text) /\ OneTag(text)
  /\ \A text : ToSet(text) \cap Tags = {} <=> \A i \in DOMAIN text : text[i] \notin Tags
<1>1. \A text : ToSet(text) \cap Tags = {} <=> \A i \in DOMAIN text : text[i] \notin Tags
  BY DEF ToSet
<1>2. ASSUME NEW text \in Deltas
      PROVE  OneTag(text) /\ (ToSet(text) \cap Tags = {} => Untagged(text))
  BY <1>2, TranslationAssumption DEF OneTag, Untagged, Symbols
<1>3. ASSUME NEW text \in {<<>>} \cup {<<x>> : x \in Letters}
      PROVE  Untagged(text) /\ OneTag(text)
  <2>1. text \in Seq(Symbols)
    <3>1. \A x \in Letters : x \in Symbols
      BY DEF Symbols
    <3>2. <<>> \in Seq(Symbols) /\ \A x \in Symbols : <<x>> \in Seq(Symbols)
      BY EmptySeq
    <3> QED
      BY <3>1, <3>2
  <2>2. \A i \in DOMAIN text : text[i] \notin Tags
    BY TranslationAssumption
  <2> QED
    BY <1>1, <2>1, <2>2 DEF OneTag, Untagged
<1> QED
  BY <1>1, <1>2, <1>3

(* A frame is a frame. *)
LEMMA FramesAre ==
  ASSUME NEW text \in Seq(Symbols), NEW reason \in {"stop", "length", "tool_calls"}
  PROVE  /\ Frame \in Frames
         /\ [Frame EXCEPT !.content = text] \in Frames
         /\ [Frame EXCEPT !.reasoning = text] \in Frames
         /\ [Frame EXCEPT !.content = text, !.finish = reason] \in Frames
<1>1. <<>> \in Seq(Symbols) /\ Frame = [content |-> <<>>, reasoning |-> <<>>, finish |-> ""]
  BY EmptySeq DEF Frame
<1>2. Frame \in Frames
  BY <1>1 DEF Frames
<1> QED
  BY <1>2 DEF Frames

(* A frame with text, and one that ends the stream. *)
LEMMA TextKeepsStream ==
  ASSUME StreamInv, side \in {"tags", "field"}, NEW f \in Frames, NEW text, OneTag(text),
         f.content = text, f.reasoning = <<>>, f.finish # "stop",
         side = "field" => Untagged(text),
         Receive(f), answer' = [answer EXCEPT !.content = @ \o text]
  PROVE  StreamInv'
<1>1. CASE side = "tags"
  BY <1>1, TagsText
<1>2. CASE side = "field"
  <2> DEFINE y == answer.content
             yc == y \o text
             yr == answer.reasoning
  <2>1. Untagged(text) /\ Untagged(y) /\ answer.reasoning \in Seq(Symbols) /\ answer.calls \in Calls
    BY <1>2 DEF StreamInv, StreamTypes, FieldInv
  <2>2. answer' = [answer EXCEPT !.content = yc, !.reasoning = yr, !.calls = answer.calls]
    <3>1. answer' = [answer EXCEPT !.content = yc]
      OBVIOUS
    <3> HIDE DEF yc
    <3> QED
      BY <3>1 DEF StreamInv, StreamTypes
  <2>3. Untagged(yc)
    <3> HIDE DEF y
    <3> QED
      BY <2>1, UntaggedConcat
  <2>4. yc = answer.content \o f.content /\ yr = answer.reasoning \o f.reasoning
    BY <2>1, ConcatEmptySeq
  <2> HIDE DEF yc, yr, y
  <2> QED
    BY <1>2, <2>1, <2>2, <2>3, <2>4, FieldText
<1> QED
  BY <1>1, <1>2
(* The frames keep the readings together. *)
LEMMA FramesKeepStream ==
  ASSUME StreamInv
  PROVE  /\ \A text \in Deltas : Content(text) \/ Reasoning(text) => StreamInv'
         /\ \A text \in {<<>>} \cup {<<x>> : x \in Letters} :
              ToolCall(text) \/ Finish(text) => StreamInv'
<1>1. ASSUME NEW text \in Deltas, Content(text) PROVE StreamInv'
  <2> DEFINE f == [Frame EXCEPT !.content = text]
  <2>1. OneTag(text) /\ (side = "field" => Untagged(text)) /\ side \in {"tags", "field"}
    BY <1>1, TextsAre DEF Content
  <2>2. f \in Frames /\ f.content = text /\ f.reasoning = <<>> /\ f.finish # "stop"
    BY <2>1, FramesAre DEF Frame, OneTag
  <2>3. Receive(f) /\ answer' = [answer EXCEPT !.content = @ \o text]
    BY <1>1 DEF Content
  <2> HIDE DEF f
  <2> QED
    BY <2>1, <2>2, <2>3, TextKeepsStream
<1>2. ASSUME NEW text \in Deltas, Reasoning(text) PROVE StreamInv'
  <2> DEFINE f == [Frame EXCEPT !.reasoning = text]
             y == answer.reasoning
             yr == y \o text
             yc == answer.content
  <2>1. Untagged(text) /\ side = "field" /\ text \in Seq(Symbols)
    BY <1>2, TextsAre DEF Reasoning, Untagged
  <2>2. f \in Frames /\ f.content = <<>> /\ f.reasoning = text /\ f.finish # "stop"
    BY <2>1, FramesAre DEF Frame
  <2>3. Receive(f)
    BY <1>2 DEF Reasoning
  <2>4. answer' = [answer EXCEPT !.content = yc, !.reasoning = yr, !.calls = answer.calls]
        /\ answer.calls \in Calls
    <3>1. answer' = [answer EXCEPT !.reasoning = yr]
      BY <1>2 DEF Reasoning
    <3> HIDE DEF yr
    <3> QED
      BY <3>1 DEF StreamInv, StreamTypes
  <2>5. Untagged(yc) /\ yc \in Seq(Symbols)
    BY <2>1 DEF StreamInv, StreamTypes, FieldInv
  <2>6. Untagged(f.content)
    BY <2>2, TextsAre
  <2> HIDE DEF f
  <2>7. yc = answer.content \o f.content /\ yr = answer.reasoning \o f.reasoning
    BY <2>2, <2>5, ConcatEmptySeq
  <2> HIDE DEF yc, yr
  <2> QED
    BY <2>1, <2>2, <2>3, <2>4, <2>5, <2>6, <2>7, FieldText
<1>3. ASSUME NEW text \in {<<>>} \cup {<<x>> : x \in Letters}, ToolCall(text) PROVE StreamInv'
  <2> DEFINE yr == answer.reasoning
             yc == answer.content
             z == answer.calls
             list == IF text = <<>> THEN Append(z, [id |-> Len(z) + 1, args |-> <<>>])
                     ELSE [z EXCEPT ![Len(z)].args = @ \o text]
  <2>1. /\ side = "field" /\ Receive(Frame) /\ (text = <<>> \/ z # <<>>)
        /\ answer' = [answer EXCEPT !.calls = list]
    <3>1. side = "field" /\ Receive(Frame) /\ (text = <<>> \/ z # <<>>)
      BY <1>3 DEF ToolCall
    <3>2. answer' = [answer EXCEPT !.calls = list]
      BY <1>3 DEF ToolCall, Grown
    <3> QED
      BY <3>1, <3>2
  <2>2. Frame \in Frames /\ Frame.content = <<>> /\ Frame.reasoning = <<>> /\ Frame.finish # "stop"
    BY FramesAre, EmptySeq DEF Frame
  <2>3. z \in Calls /\ yc \in Seq(Symbols) /\ yr \in Seq(Symbols) /\ Untagged(yc)
    BY <2>1 DEF StreamInv, StreamTypes, FieldInv
  <2>4. list \in Calls
    <3>1. text \in Seq(Symbols)
      BY TextsAre DEF OneTag
    <3> HIDE DEF z
    <3>2. CASE text = <<>>
      <4>1. [id |-> Len(z) + 1, args |-> <<>>] \in [id : Nat, args : Seq(Symbols)]
        BY <2>3, EmptySeq, LenProperties DEF Calls
      <4> QED
        BY <2>3, <3>2, <4>1, AppendProperties DEF Calls
    <3>3. CASE text # <<>>
      <4> DEFINE l == Len(z)
                 a == z[l].args
                 b == a \o text
      <4>1. l \in 1 .. l /\ l = Len(z) /\ z[l] \in [id : Nat, args : Seq(Symbols)]
        <5>1. z \in Seq([id : Nat, args : Seq(Symbols)]) /\ z # <<>>
          BY <2>1, <2>3, <3>3 DEF Calls
        <5>2. Len(z) \in Nat /\ Len(z) # 0 /\ DOMAIN z = 1 .. Len(z)
          BY <5>1, LenProperties, EmptySeq
        <5>3. l \in 1 .. l /\ l \in DOMAIN z
          BY <5>2
        <5> QED
          BY <5>1, <5>3, ElementOfSeq
      <4>2. a \in Seq(Symbols)
        BY <4>1
      <4>3. b \in Seq(Symbols)
        <5> HIDE DEF a
        <5> QED
          BY <3>1, <4>2, ConcatProperties
      <4>4. list = [z EXCEPT ![l].args = b]
        BY <3>3
      <4> HIDE DEF b, list, l, a
      <4>5. list = [z EXCEPT ![l] = [z[l] EXCEPT !.args = b]]
        BY <4>4
      <4>6. [z[l] EXCEPT !.args = b] \in [id : Nat, args : Seq(Symbols)]
        BY <4>1, <4>3
      <4> QED
        BY <2>3, <4>1, <4>5, <4>6, ExceptSeq DEF Calls
    <3> QED
      BY <3>2, <3>3
  <2> HIDE DEF list
  <2>5. answer' = [answer EXCEPT !.content = yc, !.reasoning = yr, !.calls = list]
    BY <2>1 DEF StreamInv, StreamTypes
  <2>6. yc = answer.content \o Frame.content /\ yr = answer.reasoning \o Frame.reasoning
    BY <2>2, <2>3, ConcatEmptySeq
  <2>7. Untagged(Frame.content)
    BY <2>2, TextsAre
  <2> HIDE DEF yc, yr, z
  <2> QED
    BY <2>1, <2>2, <2>3, <2>4, <2>5, <2>6, <2>7, FieldText
<1>4. ASSUME NEW text \in {<<>>} \cup {<<x>> : x \in Letters}, Finish(text) PROVE StreamInv'
  <2>1. PICK reason \in {"stop", "length", "tool_calls"} :
          /\ Receive([Frame EXCEPT !.content = text, !.finish = reason])
          /\ answer' = IF reason = "stop" THEN [answer EXCEPT !.last = text]
                       ELSE [answer EXCEPT !.content = @ \o text]
    BY <1>4 DEF Finish
  <2> DEFINE f == [Frame EXCEPT !.content = text, !.finish = reason]
  <2>2. side \in {"tags", "field"} /\ OneTag(text) /\ Untagged(text)
    BY <1>4, TextsAre DEF Finish
  <2>3. f \in Frames /\ f.content = text /\ f.reasoning = <<>> /\ f.finish = reason
    BY <2>2, FramesAre DEF Frame, OneTag
  <2>4. Receive(f)
    BY <2>1
  <2> HIDE DEF f
  <2>5. CASE reason = "stop"
    BY <2>1, <2>2, <2>3, <2>4, <2>5, FrameStopKept
  <2>6. CASE reason # "stop"
    BY <2>1, <2>2, <2>3, <2>4, <2>6, TextKeepsStream
  <2> QED
    BY <2>5, <2>6
<1> QED
  BY <1>1, <1>2, <1>3, <1>4
-----------------------------------------------------------------------------
(* The events of an Anthropic stream.                                      *)

ContentBlocks == [type : {"text", "thinking", "tool_use"}, id : Nat, body : Seq(Symbols)]
OneCall == [id : Nat, args : Seq(Symbols)]

(* One more block gives an answer again: the text at the end of the text,  *)
(* the call behind the others.                                             *)
LEMMA AddIs ==
  ASSUME NEW u \in Answers, NEW b \in ContentBlocks
  PROVE  /\ Add(u, b) \in Answers
         /\ b.type = "text" => Add(u, b) = [u EXCEPT !.content = u.content \o b.body]
         /\ b.type = "thinking" => Add(u, b) = [u EXCEPT !.thinking = u.thinking \o b.body]
         /\ b.type = "tool_use" =>
              Add(u, b) = [u EXCEPT !.calls = Append(u.calls, [id |-> b.id, args |-> b.body])]
<1> DEFINE y == u.content
           z == u.thinking
           l == u.calls
           t == b.body
           call == [id |-> b.id, args |-> t]
           yt == y \o t
           zt == z \o t
           lc == Append(l, call)
<1>1. y \in Seq(Symbols) /\ z \in Seq(Symbols) /\ l \in Seq(OneCall) /\ t \in Seq(Symbols)
      /\ call \in OneCall
  BY DEF Answers, Calls, ContentBlocks, OneCall
<1>2. yt \in Seq(Symbols) /\ zt \in Seq(Symbols) /\ lc \in Seq(OneCall)
  <2> HIDE DEF y, z, l, t, call
  <2> QED
    BY <1>1, ConcatProperties, AppendProperties
<1>3. /\ b.type = "text" => Add(u, b) = [u EXCEPT !.content = yt]
      /\ b.type = "thinking" => Add(u, b) = [u EXCEPT !.thinking = zt]
      /\ b.type = "tool_use" => Add(u, b) = [u EXCEPT !.calls = lc]
      /\ b.type \in {"text", "thinking", "tool_use"}
  BY DEF Add, ContentBlocks
<1>4. Add(u, b) \in Answers
  <2> HIDE DEF yt, zt, lc
  <2>1. /\ [u EXCEPT !.content = yt] \in Answers
        /\ [u EXCEPT !.thinking = zt] \in Answers
        /\ [u EXCEPT !.calls = lc] \in Answers
    BY <1>2 DEF Answers, Calls, OneCall
  <2> QED
    BY <1>3, <2>1
<1> QED
  BY <1>3, <1>4

(* The translation of a whole message. *)
LEMMA MessageTyped ==
  ASSUME NEW blocks \in Contents
  PROVE  /\ FoldLeft(Add, NoAnswer, blocks) \in Answers
         /\ \A b \in ContentBlocks :
              FoldLeft(Add, NoAnswer, Append(blocks, b)) = Add(FoldLeft(Add, NoAnswer, blocks), b)
<1> DEFINE T == {s \in Contents : F("add", NoAnswer, s) \in Answers}
<1>1. Contents = Seq(ContentBlocks)
  BY DEF Contents, ContentBlocks
<1>2. <<>> \in T
  <2>1. NoAnswer \in Answers
    BY EmptySeq DEF NoAnswer, Answers, Calls
  <2> QED
    BY <1>1, <2>1, FoldEmpty, EmptySeq
<1>3. ASSUME NEW s \in Seq(ContentBlocks), NEW b \in ContentBlocks
      PROVE  F("add", NoAnswer, Append(s, b)) = Add(F("add", NoAnswer, s), b)
  <2>1. F("add", NoAnswer, Append(s, b)) = Step("add", F("add", NoAnswer, s), b)
    BY FoldAppend
  <2> QED
    BY <2>1 DEF Step
<1>4. ASSUME NEW s \in Seq(ContentBlocks), NEW b \in ContentBlocks, s \in T
      PROVE  Append(s, b) \in T
  <2> DEFINE v == F("add", NoAnswer, s)
  <2>1. v \in Answers /\ F("add", NoAnswer, Append(s, b)) = Add(v, b)
    BY <1>3, <1>4
  <2> HIDE DEF v
  <2>2. F("add", NoAnswer, Append(s, b)) \in Answers
    BY <2>1, AddIs, ZenonT(60)
  <2> QED
    BY <1>1, <2>2, AppendProperties
<1> HIDE DEF T
<1>5. blocks \in T
  BY <1>1, <1>2, <1>4, SeqInduction
<1> QED
  BY <1>1, <1>3, <1>5, FoldsAre DEF T

(* A fragment of a call that is new is taken behind the others, one of a   *)
(* known call is put to its arguments.                                     *)
LEMMA CallTaken ==
  ASSUME StreamTypes, Received \in Answers, NEW c \in Chunks, Send(c), ~c.done, c.index # NoCall
  PROVE  /\ sent' \in Seq(Chunks)
         /\ c.index = Len(Received.calls) + 1 =>
              Received' = [Received EXCEPT !.calls = Append(Received.calls,
                                                           [id |-> c.id, args |-> c.args])]
         /\ c.index \in DOMAIN Received.calls =>
              Received' = [Received EXCEPT !.calls =
                [Received.calls EXCEPT ![c.index] =
                   [Received.calls[c.index] EXCEPT !.args = Received.calls[c.index].args \o c.args]]]
<1> DEFINE d == ChunkToOpenAI(c)
           u == Received
           l == u.calls
           one == [id |-> c.id, args |-> c.args]
<1>1. d.index = c.index /\ d.delta = <<>> /\ d.thinking = <<>> /\ d.id = c.id /\ d.args = c.args
  BY PayloadIs
<1>2. Received' = Take(u, d) /\ sent' \in Seq(Chunks)
  BY SendTakes
<1>3. u \in Answers
  OBVIOUS
<1> HIDE DEF d, u
<1> DEFINE list == [k \in DOMAIN l \cup {c.index} |->
                      IF k # c.index THEN l[k]
                      ELSE IF k \in DOMAIN l THEN [l[k] EXCEPT !.args = @ \o c.args] ELSE one]
<1>4. Take(u, d) = [u EXCEPT !.calls = list]
  <2> DEFINE y == u.thinking
             z == u.content
  <2>1. y \in Seq(Symbols) /\ z \in Seq(Symbols)
    BY <1>3 DEF Answers
  <2>2. y \o d.thinking = y /\ z \o d.delta = z
    <3> HIDE DEF y, z
    <3> QED
      BY <1>1, <2>1, ConcatEmptySeq
  <2>3. Take(u, d) = [thinking |-> y \o d.thinking, content |-> z \o d.delta, calls |-> list]
    BY <1>1 DEF Take
  <2> HIDE DEF list
  <2>4. Take(u, d) = [thinking |-> y, content |-> z, calls |-> list]
    BY <2>2, <2>3
  <2> QED
    BY <1>3, <2>4 DEF Answers
<1>5. l \in Seq(OneCall) /\ Len(l) \in Nat /\ DOMAIN l = 1 .. Len(l)
  BY <1>3 DEF Answers, Calls, OneCall
<1>6. one \in OneCall
  BY DEF Chunks, OneCall
<1>7. ASSUME c.index = Len(l) + 1 PROVE list = Append(l, one)
  <2> HIDE DEF one, l
  <2> DEFINE n == Len(l)
             a == Append(l, one)
  <2>1. a \in Seq(OneCall) /\ Len(a) = n + 1 /\ (\A i \in 1 .. n : a[i] = l[i]) /\ a[n + 1] = one
    BY <1>5, <1>6, AppendProperties
  <2>3. DOMAIN l \cup {c.index} = 1 .. n + 1
    BY <1>5, <1>7
  <2> HIDE DEF a
  <2>2. DOMAIN a = 1 .. n + 1 /\ a = [k \in 1 .. n + 1 |-> a[k]]
    BY <2>1
  <2> DEFINE G(k) == IF k # c.index THEN l[k]
                     ELSE IF k \in DOMAIN l THEN [l[k] EXCEPT !.args = @ \o c.args] ELSE one
  <2>4. ASSUME NEW k \in 1 .. n + 1 PROVE G(k) = a[k]
    <3>1. CASE k = n + 1
      <4>1. k = c.index /\ k \notin DOMAIN l
        BY <1>5, <1>7, <3>1
      <4>2. G(k) = one
        BY <4>1
      <4> QED
        BY <2>1, <3>1, <4>2
    <3>2. CASE k # n + 1
      <4>1. k # c.index /\ k \in 1 .. n
        BY <1>5, <1>7, <3>2
      <4> QED
        BY <2>1, <4>1
    <3> QED
      BY <3>1, <3>2
  <2>5. list = [k \in 1 .. n + 1 |-> G(k)]
    BY <2>3
  <2> HIDE DEF G, list, n
  <2> QED
    BY <2>2, <2>4, <2>5 DEF a
<1>8. ASSUME c.index \in DOMAIN l
      PROVE  list = [l EXCEPT ![c.index] = [l[c.index] EXCEPT !.args = l[c.index].args \o c.args]]
  <2> DEFINE i == c.index
             f == [l[i] EXCEPT !.args = l[i].args \o c.args]
  <2> HIDE DEF one, l
  <2>1. DOMAIN l \cup {i} = DOMAIN l
    BY <1>8
  <2>2. list = [k \in DOMAIN l |-> IF k # i THEN l[k] ELSE f]
    <3>1. \A k \in DOMAIN l : (IF k # i THEN l[k]
                               ELSE IF k \in DOMAIN l THEN [l[k] EXCEPT !.args = @ \o c.args] ELSE one)
                              = (IF k # i THEN l[k] ELSE f)
      OBVIOUS
    <3> QED
      BY <2>1, <3>1
  <2> HIDE DEF list, f
  <2> QED
    BY <1>5, <1>8, <2>2 DEF f
<1> QED
  BY <1>2, <1>4, <1>7, <1>8 DEF u
(* What an anthropic stream is left with. *)
LEMMA AnthropicHas ==
  ASSUME StreamInv, side = "anthropic"
  PROVE  /\ StreamTypes /\ Blocks \in Seq(ContentBlocks)
         /\ Received = fromMessage /\ Received \in Answers
         /\ Len(toolCallIdx) = Len(Blocks) /\ toolCallIdx \in Seq(Nat) /\ nextToolCall \in Nat
         /\ nextToolCall = Len(Received.calls)
         /\ Blocks # <<>> /\ Blocks[Len(Blocks)].type = "tool_use" =>
              toolCallIdx[Len(Blocks)] = nextToolCall
<1>1. StreamTypes /\ Blocks \in Contents
  BY DEF StreamInv, StreamTypes, Blocks
<1>2. fromMessage \in Answers
  BY <1>1, MessageTyped DEF fromMessage
<1>3. Blocks \in Seq(ContentBlocks)
  BY <1>1 DEF Contents, ContentBlocks
<1>4. toolCallIdx \in Seq(Nat) /\ nextToolCall \in Nat
  BY <1>1 DEF StreamTypes
<1> QED
  BY <1>1, <1>2, <1>3, <1>4 DEF StreamInv, AnthropicInv

(* A chunk with nothing in it. *)
LEMMA ChunkTyped ==
  /\ Chunk \in Chunks
  /\ Chunk.delta = <<>> /\ Chunk.thinking = <<>> /\ Chunk.args = <<>>
  /\ Chunk.index = NoCall /\ Chunk.done = FALSE
<1>1. <<>> \in Seq(Symbols) /\ NoCall \in Nat
  BY DEF NoCall
<1> QED
  BY <1>1 DEF Chunk, Chunks

(* What the invariant asks of an event. *)
LEMMA EventKeeps ==
  ASSUME StreamInv, side = "anthropic", Event, sent' \in Seq(Chunks),
         answer' \in [content : Seq(Symbols), reasoning : Seq(Symbols), calls : Calls,
                      blocks : Contents, last : Untaggeds],
         answer'.last = answer.last, toolCallIdx' \in Seq(Nat), nextToolCall' \in Nat,
         Received' = fromMessage', Len(toolCallIdx') = Len(Blocks'),
         nextToolCall' = Len(fromMessage'.calls),
         Blocks' # <<>> /\ Blocks'[Len(Blocks')].type = "tool_use" =>
           toolCallIdx'[Len(Blocks')] = nextToolCall'
  PROVE  StreamInv'
<1>1. fromMessage' \in Answers
  <2>1. fromMessage' = FoldLeft(Add, NoAnswer, answer'.blocks)
    BY DEF fromMessage, Blocks
  <2>2. answer'.blocks \in Contents
    OBVIOUS
  <2> QED
    BY <2>1, <2>2, MessageTyped
<1>2. Received'.thinking \in Seq(Symbols) /\ Received'.content \in Seq(Symbols)
  BY <1>1 DEF Answers
<1>3. inThink' = inThink /\ side' = side
  BY DEF Event
<1>4. StreamTypes'
  BY <1>2, <1>3 DEF StreamInv, StreamTypes
<1>5. AnthropicInv'
  BY <1>3 DEF StreamInv, AnthropicInv
<1> QED
  BY <1>3, <1>4, <1>5 DEF StreamInv, TagsInv, FieldInv

(* A block starts: a tool call takes the next number. *)
LEMMA StartKeepsStream ==
  ASSUME StreamInv, NEW type \in {"text", "thinking", "tool_use"}, ContentBlockStart(type)
  PROVE  StreamInv'
<1> DEFINE u == Received
           bs == Blocks
           n == Len(bs)
           b == [type |-> type, id |-> n + 1, body |-> <<>>]
           new == Append(bs, b)
           call == [id |-> n + 1, args |-> <<>>]
<1>1. Event /\ side = "anthropic"
  BY DEF ContentBlockStart, Event
<1>2. /\ StreamTypes /\ bs \in Seq(ContentBlocks) /\ u = fromMessage /\ u \in Answers
      /\ Len(toolCallIdx) = n /\ toolCallIdx \in Seq(Nat) /\ nextToolCall \in Nat
      /\ nextToolCall = Len(u.calls) /\ n \in Nat
  BY <1>1, AnthropicHas, LenProperties
<1>3. b \in ContentBlocks
  BY <1>2, EmptySeq DEF ContentBlocks
<1>4. answer' = [answer EXCEPT !.blocks = new]
  BY DEF ContentBlockStart, Blocks
<1> HIDE DEF bs, b
<1>5. new \in Seq(ContentBlocks) /\ Len(new) = n + 1 /\ new[n + 1] = b /\ new # <<>>
  BY <1>2, <1>3, AppendProperties
<1> HIDE DEF new
<1>6. /\ Blocks' = new
      /\ answer' \in [content : Seq(Symbols), reasoning : Seq(Symbols), calls : Calls,
                      blocks : Contents, last : Untaggeds]
      /\ answer'.last = answer.last
  BY <1>2, <1>4, <1>5 DEF StreamTypes, Blocks, Contents, ContentBlocks
<1>7. fromMessage' = Add(u, b)
  <2>1. fromMessage' = FoldLeft(Add, NoAnswer, new) /\ fromMessage = FoldLeft(Add, NoAnswer, bs)
    BY <1>6 DEF fromMessage, bs
  <2> HIDE DEF u
  <2> QED
    BY <1>2, <1>3, <2>1, MessageTyped DEF new, Contents, ContentBlocks
<1>8. b.body = <<>> /\ b.id = n + 1 /\ b.type = type
  BY DEF b
<1> HIDE DEF u, n
<1>9. CASE type = "tool_use"
  <2> DEFINE c == [Chunk EXCEPT !.index = nextToolCall + 1, !.id = n + 1]
  <2>1. /\ toolCallIdx' = Append(toolCallIdx, nextToolCall + 1)
        /\ nextToolCall' = nextToolCall + 1
        /\ Send(c)
    BY <1>9 DEF ContentBlockStart, n, bs
  <2>2. c \in Chunks /\ c.index = nextToolCall + 1 /\ ~c.done /\ c.id = n + 1 /\ c.args = <<>>
    <3>1. Chunk \in Chunks /\ Chunk.done = FALSE /\ Chunk.args = <<>>
      BY ChunkTyped
    <3>2. nextToolCall + 1 \in Nat /\ n + 1 \in Nat
      BY <1>2
    <3> DEFINE i == nextToolCall + 1
               j == n + 1
    <3> HIDE DEF i, j
    <3>3. c = [Chunk EXCEPT !.index = i, !.id = j]
      BY DEF i, j
    <3>4. i \in Nat /\ j \in Nat
      BY <3>2 DEF i, j
    <3> HIDE DEF c
    <3>5. c \in Chunks /\ c.index = i /\ c.done = FALSE /\ c.id = j /\ c.args = <<>>
      BY <3>1, <3>3, <3>4 DEF Chunks
    <3> QED
      BY <3>5 DEF i, j
  <2> HIDE DEF c
  <2>3. sent' \in Seq(Chunks) /\ Received' = [u EXCEPT !.calls = Append(u.calls, call)]
    <3>1. c.index # NoCall /\ c.index = Len(u.calls) + 1
      BY <1>2, <2>2 DEF NoCall
    <3> QED
      BY <1>2, <2>1, <2>2, <3>1, CallTaken DEF u
  <2>4. fromMessage' = [u EXCEPT !.calls = Append(u.calls, call)]
    <3>1. Add(u, b) = [u EXCEPT !.calls = Append(u.calls, [id |-> b.id, args |-> b.body])]
      <4>1. u \in Answers /\ b \in ContentBlocks /\ b.type = "tool_use"
        BY <1>2, <1>3, <1>8, <1>9
      <4> QED
        BY <4>1, AddIs, Zenon
    <3>2. [id |-> b.id, args |-> b.body] = call
      BY <1>8
    <3> HIDE DEF call
    <3> QED
      BY <1>7, <3>1, <3>2
  <2>5. nextToolCall' = Len(fromMessage'.calls)
    <3> DEFINE l == u.calls
               a == Append(l, call)
    <3>1. l \in Seq(OneCall) /\ call \in OneCall
      BY <1>2, EmptySeq DEF Answers, Calls, OneCall
    <3> HIDE DEF l, call
    <3>2. Len(a) = Len(l) + 1
      BY <3>1, AppendProperties
    <3> HIDE DEF a
    <3>3. fromMessage' = [u EXCEPT !.calls = a]
      BY <2>4 DEF a, l
    <3>4. fromMessage'.calls = a
      BY <1>2, <3>3 DEF Answers
    <3> QED
      BY <1>2, <2>1, <3>2, <3>4 DEF l
  <2>6. toolCallIdx' \in Seq(Nat) /\ Len(toolCallIdx') = n + 1
        /\ toolCallIdx'[n + 1] = nextToolCall' /\ nextToolCall' \in Nat
    BY <1>2, <2>1, AppendProperties
  <2> QED
    BY <1>1, <1>5, <1>6, <2>3, <2>4, <2>5, <2>6, EventKeeps
<1>10. CASE type # "tool_use"
  <2>1. toolCallIdx' = Append(toolCallIdx, NoCall) /\ nextToolCall' = nextToolCall /\ sent' = sent
    BY <1>10 DEF ContentBlockStart
  <2>2. Received' = u /\ sent' \in Seq(Chunks)
    BY <1>2, <2>1 DEF Received, StreamTypes, u
  <2>3. fromMessage' = u
    <3> DEFINE y == u.content
               z == u.thinking
    <3>1. y \in Seq(Symbols) /\ z \in Seq(Symbols)
      BY <1>2 DEF Answers
    <3>2. y \o b.body = y /\ z \o b.body = z
      <4> HIDE DEF y, z
      <4> QED
        BY <1>8, <3>1, ConcatEmptySeq
    <3>3. fromMessage' = [u EXCEPT !.content = y \o b.body] \/ fromMessage' = [u EXCEPT !.thinking = z \o b.body]
      BY <1>2, <1>3, <1>7, <1>8, <1>10, AddIs
    <3>4. fromMessage' = [u EXCEPT !.content = y] \/ fromMessage' = [u EXCEPT !.thinking = z]
      BY <3>2, <3>3
    <3> QED
      BY <1>2, <3>4 DEF Answers
  <2>4. toolCallIdx' \in Seq(Nat) /\ Len(toolCallIdx') = n + 1
    BY <1>2, <2>1, AppendProperties DEF NoCall
  <2>5. new[n + 1].type # "tool_use"
    BY <1>5, <1>8, <1>10
  <2> QED
    BY <1>1, <1>2, <1>5, <1>6, <2>1, <2>2, <2>3, <2>4, <2>5, EventKeeps
<1> QED
  BY <1>9, <1>10
(* More of the last block: of the text, of the thoughts or of the          *)
(* arguments of the last call.                                             *)
LEMMA DeltaKeepsStream ==
  ASSUME StreamInv, NEW text \in Seq(Symbols), ContentBlockDelta(text)
  PROVE  StreamInv'
<1> DEFINE u == Received
           bs == Blocks
           n == Len(bs)
<1>1. Event /\ side = "anthropic" /\ n > 0
  BY DEF ContentBlockDelta, Event
<1>2. /\ StreamTypes /\ bs \in Seq(ContentBlocks) /\ u = fromMessage /\ u \in Answers
      /\ Len(toolCallIdx) = n /\ toolCallIdx \in Seq(Nat) /\ nextToolCall \in Nat
      /\ nextToolCall = Len(u.calls) /\ n \in Nat
      /\ bs[n].type = "tool_use" => toolCallIdx[n] = nextToolCall
  <2>1. Blocks # <<>>
    BY <1>1, EmptySeq
  <2> QED
    BY <1>1, <2>1, AnthropicHas, LenProperties
<1>3. /\ answer' = [answer EXCEPT !.blocks[n].body = @ \o text]
      /\ toolCallIdx' = toolCallIdx /\ nextToolCall' = nextToolCall
  BY DEF ContentBlockDelta, Blocks
<1> HIDE DEF bs
<1>4. PICK front \in Seq(ContentBlocks), b \in ContentBlocks : bs = Append(front, b)
  <2>1. bs # <<>>
    BY <1>1
  <2> QED
    BY <1>2, <2>1, SequenceEmptyOrAppend
<1>5. Len(front) = n - 1 /\ bs[n] = b /\ (\A k \in 1 .. n - 1 : bs[k] = front[k]) /\ Len(front) \in Nat
  BY <1>4, AppendProperties, LenProperties
<1> DEFINE t == b.body
           tt == t \o text
           b2 == [b EXCEPT !.body = tt]
           new == Append(front, b2)
           v == FoldLeft(Add, NoAnswer, front)
<1>6. t \in Seq(Symbols) /\ b.type \in {"text", "thinking", "tool_use"} /\ b.id \in Nat
  BY DEF ContentBlocks
<1>7. tt \in Seq(Symbols)
  <2> HIDE DEF t
  <2> QED
    BY <1>6, ConcatProperties
<1> HIDE DEF tt
<1>8. b2 \in ContentBlocks /\ b2.type = b.type /\ b2.body = tt /\ b2.id = b.id
  BY <1>7 DEF ContentBlocks
<1>9. bs[n].body \o text = tt
  BY <1>5 DEF tt
<1> HIDE DEF b2
<1>10. /\ new \in Seq(ContentBlocks) /\ Len(new) = n /\ new[n] = b2
       /\ \A k \in 1 .. n - 1 : new[k] = front[k]
  BY <1>5, <1>8, AppendProperties
<1>11. [bs EXCEPT ![n] = b2] = new
  <2> HIDE DEF new, n
  <2>1. n \in 1 .. n /\ n \in Nat
    BY <1>1, <1>2
  <2>2. DOMAIN bs = 1 .. n /\ DOMAIN new = 1 .. n /\ new = [k \in 1 .. n |-> new[k]]
    BY <1>2, <1>10 DEF n
  <2>3. \A k \in 1 .. n : new[k] = IF k = n THEN b2 ELSE bs[k]
    BY <1>5, <1>10, <2>1
  <2> QED
    BY <2>2, <2>3
<1>12. answer' = [answer EXCEPT !.blocks = new]
  <2>1. answer.blocks = bs
    BY DEF bs, Blocks
  <2>2. [answer EXCEPT !.blocks[n].body = tt] = [answer EXCEPT !.blocks = [bs EXCEPT ![n] = [bs[n] EXCEPT !.body = tt]]]
    <3> HIDE DEF n
    <3> QED
      BY <2>1
  <2>3. answer' = [answer EXCEPT !.blocks[n].body = tt]
    <3> HIDE DEF n
    <3> QED
      BY <1>3, <1>9, <2>1
  <2>4. [bs[n] EXCEPT !.body = tt] = b2
    BY <1>5 DEF b2
  <2> HIDE DEF new, n
  <2> QED
    BY <1>11, <2>2, <2>3, <2>4
<1>13. /\ Blocks' = new
       /\ answer' \in [content : Seq(Symbols), reasoning : Seq(Symbols), calls : Calls,
                       blocks : Contents, last : Untaggeds]
  <2> HIDE DEF new
  <2> QED
    BY <1>2, <1>10, <1>12 DEF StreamTypes, Blocks, Contents, ContentBlocks
<1>14. v \in Answers /\ u = Add(v, b) /\ fromMessage' = Add(v, b2)
  <2>1. fromMessage' = FoldLeft(Add, NoAnswer, new) /\ fromMessage = FoldLeft(Add, NoAnswer, bs)
    BY <1>13 DEF fromMessage, bs
  <2>2. front \in Contents
    BY DEF Contents, ContentBlocks
  <2>3. FoldLeft(Add, NoAnswer, new) = Add(v, b2) /\ FoldLeft(Add, NoAnswer, bs) = Add(v, b)
        /\ v \in Answers
    BY <1>4, <1>8, <2>2, MessageTyped
  <2> QED
    BY <1>2, <2>1, <2>3
<1> HIDE DEF v, u, n, new, t
<1>15. SUFFICES Received' = fromMessage' /\ sent' \in Seq(Chunks)
                /\ nextToolCall' = Len(fromMessage'.calls)
  <2>1. Len(new) = n /\ new # <<>> /\ new[n].type = bs[n].type
    BY <1>1, <1>5, <1>8, <1>10
  <2> QED
    BY <1>1, <1>2, <1>3, <1>13, <2>1, EventKeeps
<1>16. CASE b.type = "text"
  <2> DEFINE c == [Chunk EXCEPT !.delta = text]
             y == v.content
             yt == y \o t
             ytt == y \o tt
  <2>1. Send(c)
    BY <1>5, <1>16 DEF ContentBlockDelta, bs, n
  <2>2. c \in Chunks /\ c.index = NoCall /\ ~c.done /\ c.delta = text /\ c.thinking = <<>>
    BY ChunkTyped DEF Chunks
  <2> HIDE DEF c
  <2>3. y \in Seq(Symbols)
    BY <1>14 DEF Answers
  <2>4. u = [v EXCEPT !.content = yt] /\ fromMessage' = [v EXCEPT !.content = ytt]
    BY <1>8, <1>14, <1>16, AddIs DEF t
  <2>5. yt \in Seq(Symbols) /\ ytt = yt \o text
    <3> HIDE DEF y
    <3>1. yt \in Seq(Symbols)
      BY <1>6, <2>3, ConcatProperties
    <3>2. (y \o t) \o text = y \o (t \o text)
      BY <1>6, <2>3, ConcatAssociative
    <3> QED
      BY <3>1, <3>2 DEF tt
  <2> HIDE DEF yt, ytt
  <2>6. u.content = yt /\ u.thinking = v.thinking /\ u.calls = v.calls
        /\ v.thinking \in Seq(Symbols)
    BY <1>14, <2>4 DEF Answers
  <2>7. Received' = [thinking |-> u.thinking \o c.thinking, content |-> u.content \o c.delta,
                     calls |-> u.calls] /\ sent' \in Seq(Chunks)
    BY <1>2, <2>1, <2>2, TextTaken, SendTakes DEF u
  <2>8. u.thinking \o c.thinking = v.thinking /\ u.content \o c.delta = ytt
    BY <2>2, <2>5, <2>6, ConcatEmptySeq
  <2>9. Received' = [thinking |-> v.thinking, content |-> ytt, calls |-> v.calls]
    BY <2>6, <2>7, <2>8
  <2>10. Received' = fromMessage' /\ fromMessage'.calls = u.calls
    BY <1>14, <2>4, <2>6, <2>9 DEF Answers
  <2> QED
    BY <1>2, <1>3, <2>7, <2>10
<1>17. CASE b.type = "thinking"
  <2> DEFINE c == [Chunk EXCEPT !.thinking = text]
             y == v.thinking
             yt == y \o t
             ytt == y \o tt
  <2>1. Send(c)
    BY <1>5, <1>17 DEF ContentBlockDelta, bs, n
  <2>2. c \in Chunks /\ c.index = NoCall /\ ~c.done /\ c.thinking = text /\ c.delta = <<>>
    BY ChunkTyped DEF Chunks
  <2> HIDE DEF c
  <2>3. y \in Seq(Symbols)
    BY <1>14 DEF Answers
  <2>4. u = [v EXCEPT !.thinking = yt] /\ fromMessage' = [v EXCEPT !.thinking = ytt]
    BY <1>8, <1>14, <1>17, AddIs DEF t
  <2>5. yt \in Seq(Symbols) /\ ytt = yt \o text
    <3> HIDE DEF y
    <3>1. yt \in Seq(Symbols)
      BY <1>6, <2>3, ConcatProperties
    <3>2. (y \o t) \o text = y \o (t \o text)
      BY <1>6, <2>3, ConcatAssociative
    <3> QED
      BY <3>1, <3>2 DEF tt
  <2> HIDE DEF yt, ytt
  <2>6. u.thinking = yt /\ u.content = v.content /\ u.calls = v.calls
        /\ v.content \in Seq(Symbols)
    BY <1>14, <2>4 DEF Answers
  <2>7. Received' = [thinking |-> u.thinking \o c.thinking, content |-> u.content \o c.delta,
                     calls |-> u.calls] /\ sent' \in Seq(Chunks)
    BY <1>2, <2>1, <2>2, TextTaken, SendTakes DEF u
  <2>8. u.content \o c.delta = v.content /\ u.thinking \o c.thinking = ytt
    BY <2>2, <2>5, <2>6, ConcatEmptySeq
  <2>9. Received' = [thinking |-> ytt, content |-> v.content, calls |-> v.calls]
    BY <2>6, <2>7, <2>8
  <2>10. Received' = fromMessage' /\ fromMessage'.calls = u.calls
    BY <1>14, <2>4, <2>6, <2>9 DEF Answers
  <2> QED
    BY <1>2, <1>3, <2>7, <2>10
<1>18. CASE b.type = "tool_use"
  <2> DEFINE i == toolCallIdx[n]
             c == [Chunk EXCEPT !.index = i, !.args = text]
             l == v.calls
             k == Len(l) + 1
             one == [id |-> b.id, args |-> t]
             two == [id |-> b.id, args |-> tt]
             old == Append(l, one)
             grown == Append(l, two)
  <2>1. Send(c)
    BY <1>5, <1>18 DEF ContentBlockDelta, bs, n
  <2>2. l \in Seq(OneCall) /\ Len(l) \in Nat /\ one \in OneCall /\ two \in OneCall
    BY <1>6, <1>7, <1>14, LenProperties DEF Answers, Calls, OneCall
  <2>3. u = [v EXCEPT !.calls = old] /\ fromMessage' = [v EXCEPT !.calls = grown]
    <3>1. Add(v, b) = [v EXCEPT !.calls = Append(v.calls, [id |-> b.id, args |-> b.body])]
      <4>1. v \in Answers /\ b \in ContentBlocks /\ b.type = "tool_use"
        BY <1>14, <1>18
      <4> QED
        BY <4>1, AddIs, Zenon
    <3>2. Add(v, b2) = [v EXCEPT !.calls = Append(v.calls, [id |-> b2.id, args |-> b2.body])]
      <4>1. v \in Answers /\ b2 \in ContentBlocks /\ b2.type = "tool_use"
        BY <1>8, <1>14, <1>18
      <4> QED
        BY <4>1, AddIs, Zenon
    <3>3. [id |-> b.id, args |-> b.body] = one /\ [id |-> b2.id, args |-> b2.body] = two
      BY <1>8 DEF t
    <3> HIDE DEF one, two
    <3> QED
      BY <1>14, <3>1, <3>2, <3>3
  <2>4. /\ old \in Seq(OneCall) /\ Len(old) = k /\ old[k] = one
        /\ grown \in Seq(OneCall) /\ Len(grown) = k /\ grown[k] = two
        /\ \A j \in 1 .. Len(l) : old[j] = l[j] /\ grown[j] = l[j]
    <3> HIDE DEF one, two, l
    <3> QED
      BY <2>2, AppendProperties
  <2> HIDE DEF old, grown, l
  <2>5. u.calls = old /\ fromMessage'.calls = grown
    BY <1>14, <2>3 DEF Answers
  <2>6. i = k /\ i \in Nat /\ k \in DOMAIN old /\ nextToolCall = k
    BY <1>2, <1>5, <1>18, <2>2, <2>4, <2>5
  <2>7. c \in Chunks /\ c.index = k /\ c.args = text /\ ~c.done /\ c.index # NoCall
    <3> HIDE DEF i
    <3>1. Chunk \in Chunks /\ Chunk.done = FALSE
      BY ChunkTyped
    <3>2. c \in Chunks /\ c.index = i /\ c.args = text /\ c.done = FALSE
      BY <2>6, <3>1 DEF Chunks
    <3> QED
      BY <2>2, <2>6, <3>2 DEF NoCall
  <2> HIDE DEF c, i
  <2>8. /\ sent' \in Seq(Chunks)
        /\ Received' = [u EXCEPT !.calls =
             [u.calls EXCEPT ![k] = [u.calls[k] EXCEPT !.args = u.calls[k].args \o c.args]]]
    <3>1. Received \in Answers /\ c.index \in DOMAIN Received.calls
      BY <1>2, <2>5, <2>6, <2>7 DEF u
    <3>2. Received' = [Received EXCEPT !.calls =
            [Received.calls EXCEPT ![c.index] =
               [Received.calls[c.index] EXCEPT !.args = Received.calls[c.index].args \o c.args]]]
          /\ sent' \in Seq(Chunks)
      BY <1>2, <2>1, <2>7, <3>1, CallTaken
    <3> QED
      BY <2>7, <3>2 DEF u
  <2>9. u.calls[k].args \o c.args = tt /\ u.calls[k] = one
    <3>1. u.calls[k] = one
      BY <2>4, <2>5
    <3>2. one.args = t
      OBVIOUS
    <3>3. t \o text = tt
      BY DEF tt
    <3> QED
      BY <2>7, <3>1, <3>2, <3>3
  <2>10. [one EXCEPT !.args = tt] = two
    OBVIOUS
  <2>11. [old EXCEPT ![k] = two] = grown
    <3> HIDE DEF one, two, k
    <3>1. DOMAIN old = 1 .. k /\ DOMAIN grown = 1 .. k /\ grown = [j \in 1 .. k |-> grown[j]]
      BY <2>4
    <3>2. \A j \in 1 .. k : grown[j] = IF j = k THEN two ELSE old[j]
      BY <2>2, <2>4 DEF k
    <3> QED
      BY <3>1, <3>2
  <2>12. Received' = [u EXCEPT !.calls = grown]
    <3> HIDE DEF one, two, k
    <3> QED
      BY <2>5, <2>8, <2>9, <2>10, <2>11
  <2>13. Received' = fromMessage'
    BY <1>14, <2>3, <2>12 DEF Answers
  <2> QED
    BY <1>3, <2>4, <2>5, <2>6, <2>8, <2>13
<1> QED
  BY <1>6, <1>16, <1>17, <1>18

(* The end of the message. *)
LEMMA StopKeepsStream ==
  ASSUME StreamInv, MessageStop
  PROVE  StreamInv'
<1> DEFINE c == [Chunk EXCEPT !.done = TRUE]
<1>1. Event /\ side = "anthropic" /\ Send(c)
      /\ answer' = answer /\ toolCallIdx' = toolCallIdx /\ nextToolCall' = nextToolCall
  BY DEF MessageStop, Event
<1>2. c \in Chunks /\ c.done
  BY ChunkTyped DEF Chunks
<1> HIDE DEF c
<1>3. StreamTypes /\ Blocks' = Blocks /\ fromMessage' = fromMessage
  BY <1>1 DEF Blocks, fromMessage, StreamInv
<1>4. sent' \in Seq(Chunks) /\ Received' = Received
  BY <1>1, <1>2, <1>3, SendTakes
<1>5. /\ answer \in [content : Seq(Symbols), reasoning : Seq(Symbols), calls : Calls,
                     blocks : Contents, last : Untaggeds]
      /\ toolCallIdx \in Seq(Nat) /\ nextToolCall \in Nat
  BY <1>3 DEF StreamTypes
<1> QED
  BY <1>1, <1>3, <1>4, <1>5, AnthropicHas, EventKeeps
-----------------------------------------------------------------------------
(* The conversation.                                                       *)

(* A new message makes its calls and answers its call. *)
LEMMA CallsOfMessage ==
  ASSUME messages \in Seq(Messages), NEW m \in Messages, messages' = Append(messages, m)
  PROVE  /\ messages' \in Seq(Messages) /\ Len(messages') = Len(messages) + 1
         /\ Made' = Made \cup ToSet(m.calls)
         /\ Answered' = Answered \cup {m.result}
<1> DEFINE n == Len(messages)
<1>1. /\ messages' \in Seq(Messages) /\ Len(messages') = n + 1 /\ n \in Nat
      /\ DOMAIN messages = 1 .. n /\ DOMAIN messages' = 1 .. n + 1
      /\ (\A i \in 1 .. n : messages'[i] = messages[i]) /\ messages'[n + 1] = m
  BY AppendProperties, LenProperties
<1> HIDE DEF n
<1>2. (1 .. n + 1) = (1 .. n) \cup {n + 1}
  BY <1>1
<1>3. ASSUME NEW c PROVE c \in Made' <=> c \in Made \/ c \in ToSet(m.calls)
  <2>1. c \in Made' <=> \E i \in 1 .. n + 1 : c \in ToSet(messages'[i].calls)
    BY <1>1 DEF Made
  <2>2. c \in Made <=> \E i \in 1 .. n : c \in ToSet(messages[i].calls)
    BY <1>1 DEF Made
  <2> QED
    BY <1>1, <1>2, <2>1, <2>2
<1>4. ASSUME NEW c PROVE c \in Answered' <=> c \in Answered \/ c = m.result
  <2>1. c \in Answered' <=> \E i \in 1 .. n + 1 : c = messages'[i].result
    BY <1>1 DEF Answered
  <2>2. c \in Answered <=> \E i \in 1 .. n : c = messages[i].result
    BY <1>1 DEF Answered
  <2> QED
    BY <1>1, <1>2, <2>1, <2>2
<1> QED
  BY <1>1, <1>3, <1>4 DEF n

(* A system message is taken out, any other is translated behind the rest. *)
LEMMA MessageTranslated ==
  ASSUME ConversationTypes, NEW m \in Messages, messages' = Append(messages, m)
  PROVE  /\ Separated' \in [system : Seq(Messages), rawMsgs : Seq(Messages)]
         /\ m.role = "system" => Raw' = Raw /\ Translated' = Translated
         /\ m.role # "system" => /\ Raw' = Append(Raw, m)
                                 /\ Translated' = Translate(Translated, m)
<1> DEFINE s == Separated
<1>1. s \in [system : Seq(Messages), rawMsgs : Seq(Messages)] /\ messages \in Seq(Messages)
  BY DEF ConversationTypes
<1>2. Separated' = Separate(s, m)
  <2>1. F("separate", Unsorted, Append(messages, m))
          = Step("separate", F("separate", Unsorted, messages), m)
    BY <1>1, FoldAppend
  <2>2. s = F("separate", Unsorted, messages) /\ Separated' = F("separate", Unsorted, messages')
    BY FoldsAre DEF Separated, Unsorted
  <2> HIDE DEF s
  <2> QED
    BY <2>1, <2>2 DEF Step
<1>3. Raw = s.rawMsgs /\ Raw' = Separated'.rawMsgs
  BY DEF Raw
<1> HIDE DEF s
<1> DEFINE r == s.rawMsgs
           t == s.system
           rm == Append(r, m)
           tm == Append(t, m)
<1>4. r \in Seq(Messages) /\ t \in Seq(Messages)
  BY <1>1
<1>5. rm \in Seq(Messages) /\ tm \in Seq(Messages)
  <2> HIDE DEF r, t
  <2> QED
    BY <1>4, AppendProperties
<1>6. CASE m.role = "system"
  <2>1. Separated' = [s EXCEPT !.system = tm]
    BY <1>2, <1>6 DEF Separate
  <2> HIDE DEF tm
  <2>2. Separated' \in [system : Seq(Messages), rawMsgs : Seq(Messages)] /\ Raw' = Raw
    BY <1>1, <1>3, <1>5, <2>1
  <2> QED
    BY <1>6, <2>2 DEF Translated
<1>7. CASE m.role # "system"
  <2>1. Separated' = [s EXCEPT !.rawMsgs = rm]
    BY <1>2, <1>7 DEF Separate
  <2> HIDE DEF rm
  <2>2. Separated' \in [system : Seq(Messages), rawMsgs : Seq(Messages)] /\ Raw' = rm
    BY <1>1, <1>3, <1>5, <2>1
  <2>3. F("translate", NoTurns, rm) = Step("translate", F("translate", NoTurns, r), m)
    <3> HIDE DEF r
    <3> QED
      BY <1>4, FoldAppend DEF rm
  <2>4. Translated' = Translate(Translated, m)
    BY <1>3, <2>2, <2>3 DEF Translated, Step
  <2> QED
    BY <1>3, <1>7, <2>2, <2>4 DEF rm
<1> QED
  BY <1>6, <1>7
(* What the turns hold of an index, after one more turn. *)
LEMMA TurnAppended ==
  ASSUME NEW turns \in Seq(Turns), NEW t \in Turns
  PROVE  /\ Append(turns, t) \in Seq(Turns) /\ Len(Append(turns, t)) = Len(turns) + 1
         /\ DOMAIN turns = 1 .. Len(turns) /\ Len(turns) \in Nat
         /\ DOMAIN Append(turns, t) = 1 .. Len(turns) + 1
         /\ \A i \in 1 .. Len(turns) : Append(turns, t)[i] = turns[i]
         /\ Append(turns, t)[Len(turns) + 1] = t
  BY AppendProperties, LenProperties

(* What is of a kind in a turn. *)
LEMMA OfIs ==
  ASSUME NEW t \in Turns, NEW kind
  PROVE  \A x : x \in Of(t, kind) <=> \E k \in DOMAIN t.blocks : t.blocks[k].kind = kind /\ t.blocks[k].of = x
BY DEF Of, ToSet

(* A turn of its own for the next message keeps the texts. *)
LEMMA TextsOfTurn ==
  ASSUME NEW raw \in Seq(Messages), NEW m \in Messages, NEW turns \in Seq(Turns), NEW t \in Turns,
         TextsKept(raw, turns), m.text => t.role = m.role,
         Of(t, "text") = IF m.text THEN {Len(raw) + 1} ELSE {},
         \A k, l \in DOMAIN t.blocks :
           t.blocks[k].kind = "text" /\ t.blocks[l].kind = "text" => k = l
  PROVE  TextsKept(Append(raw, m), Append(turns, t))
<1> DEFINE n == Len(raw)
           r == Append(raw, m)
           l == Len(turns)
           ts == Append(turns, t)
<1>1. /\ n \in Nat /\ DOMAIN raw = 1 .. n /\ DOMAIN r = 1 .. n + 1 /\ r[n + 1] = m
      /\ \A i \in 1 .. n : r[i] = raw[i]
  BY AppendProperties, LenProperties
<1>2. /\ l \in Nat /\ DOMAIN turns = 1 .. l /\ DOMAIN ts = 1 .. l + 1 /\ ts[l + 1] = t
      /\ (\A i \in 1 .. l : ts[i] = turns[i]) /\ ts \in Seq(Turns)
  BY TurnAppended
<1>3. /\ \A i \in 1 .. n : raw[i].text <=> \E j \in 1 .. l : i \in Of(turns[j], "text")
      /\ \A j \in 1 .. l : \A i \in Of(turns[j], "text") : i \in 1 .. n /\ raw[i].role = turns[j].role
  BY <1>1, <1>2 DEF TextsKept
<1> HIDE DEF n, r, l, ts
<1>4. \A x : x \in Of(t, "text") <=> m.text /\ x = n + 1
  BY DEF n
<1>5. ASSUME NEW i \in DOMAIN r
      PROVE  r[i].text <=> \E j \in DOMAIN ts : i \in Of(ts[j], "text")
  <2>1. CASE i = n + 1
    <3>1. \A j \in 1 .. l : i \notin Of(turns[j], "text")
      <4>1. i \notin 1 .. n
        BY <1>1, <2>1
      <4> QED
        BY <1>3, <4>1
    <3>2. ASSUME m.text PROVE \E j \in DOMAIN ts : i \in Of(ts[j], "text")
      <4>1. l + 1 \in DOMAIN ts /\ i \in Of(ts[l + 1], "text")
        BY <1>2, <1>4, <2>1, <3>2
      <4> QED
        BY <4>1
    <3>3. ASSUME NEW j \in DOMAIN ts, i \in Of(ts[j], "text") PROVE m.text
      <4>1. j = l + 1
        BY <1>2, <3>1, <3>3
      <4> QED
        BY <1>2, <1>4, <3>3, <4>1
    <3> QED
      BY <1>1, <2>1, <3>2, <3>3
  <2>2. CASE i # n + 1
    <3>1. i \in 1 .. n /\ r[i] = raw[i]
      BY <1>1, <2>2
    <3>2. i \notin Of(t, "text")
      BY <1>4, <2>2
    <3>3. ASSUME NEW j \in DOMAIN ts
          PROVE  i \in Of(ts[j], "text") <=> j \in 1 .. l /\ i \in Of(turns[j], "text")
      <4>1. j = l + 1 \/ j \in 1 .. l
        BY <1>2
      <4>2. l + 1 \notin 1 .. l
        BY <1>2
      <4> QED
        BY <1>2, <3>2, <4>1, <4>2
    <3>4. 1 .. l \subseteq DOMAIN ts
      BY <1>2
    <3> QED
      BY <1>3, <3>1, <3>3, <3>4
  <2> QED
    BY <2>1, <2>2
<1>6. ASSUME NEW j \in DOMAIN ts, NEW i \in Of(ts[j], "text")
      PROVE  i \in DOMAIN r /\ r[i].role = ts[j].role
  <2>1. CASE j = l + 1
    BY <1>1, <1>2, <1>4, <2>1
  <2>2. CASE j # l + 1
    <3>1. j \in 1 .. l /\ ts[j] = turns[j]
      BY <1>2, <2>2
    <3>2. i \in 1 .. n /\ raw[i].role = turns[j].role
      BY <1>3, <3>1
    <3>3. i \in 1 .. n + 1
      BY <1>1, <3>2
    <3> QED
      BY <1>1, <3>1, <3>2, <3>3
  <2> QED
    BY <2>1, <2>2
<1>7. ASSUME NEW i \in DOMAIN ts, NEW j \in DOMAIN ts,
             NEW k \in DOMAIN ts[i].blocks, NEW p \in DOMAIN ts[j].blocks,
             ts[i].blocks[k].kind = "text", ts[j].blocks[p].kind = "text",
             i < j \/ (i = j /\ k < p)
      PROVE  ts[i].blocks[k].of < ts[j].blocks[p].of
  <2>1. ts[i] \in Turns /\ ts[j] \in Turns
    BY <1>2
  <2>2. ts[i].blocks[k].of \in Of(ts[i], "text") /\ ts[j].blocks[p].of \in Of(ts[j], "text")
    BY <1>7, <2>1, OfIs
  <2>3. k \in Nat /\ p \in Nat
    BY <2>1 DEF Turns
  <2>4. CASE j = l + 1
    <3>1. i # j
      BY <1>2, <1>7, <2>3, <2>4
    <3>2. i \in 1 .. l /\ ts[i] = turns[i] /\ ts[j] = t
      BY <1>2, <1>7, <2>4, <3>1
    <3> QED
      <4> DEFINE x == ts[i].blocks[k].of
                 y == ts[j].blocks[p].of
      <4>1. x \in Of(turns[i], "text") /\ y \in Of(t, "text")
        BY <2>2, <3>2
      <4> HIDE DEF x, y
      <4>2. x \in 1 .. n /\ y = n + 1
        BY <1>3, <1>4, <3>2, <4>1
      <4>3. x < y
        BY <1>1, <4>2
      <4> QED
        BY <4>3 DEF x, y
  <2>5. CASE j # l + 1
    <3>1. i \in 1 .. l /\ j \in 1 .. l /\ ts[i] = turns[i] /\ ts[j] = turns[j]
      BY <1>2, <1>7, <2>5
    <3> QED
      BY <1>2, <1>7, <3>1 DEF TextsKept
  <2> QED
    BY <2>4, <2>5
<1> QED
  BY <1>5, <1>6, <1>7 DEF TextsKept, r, ts
(* ts are the turns with b as a block more in the l-th of them. *)
Joined(turns, ts, l, b) ==
  /\ l \in DOMAIN turns /\ DOMAIN ts = DOMAIN turns
  /\ \A i \in DOMAIN turns \ {l} : ts[i] = turns[i]
  /\ ts[l].role = turns[l].role
  /\ DOMAIN ts[l].blocks = DOMAIN turns[l].blocks \cup {Len(turns[l].blocks) + 1}
  /\ \A k \in DOMAIN turns[l].blocks : ts[l].blocks[k] = turns[l].blocks[k]
  /\ ts[l].blocks[Len(turns[l].blocks) + 1] = b

(* A result that joins the last turn keeps the texts. *)
LEMMA TextsOfResult ==
  ASSUME NEW raw \in Seq(Messages), NEW m \in Messages, ~m.text,
         NEW turns \in Seq(Turns), NEW ts \in Seq(Turns), TextsKept(raw, turns),
         NEW l, NEW b, Joined(turns, ts, l, b), b.kind # "text"
  PROVE  TextsKept(Append(raw, m), ts)
<1> USE DEF Joined
<1> DEFINE n == Len(raw)
           r == Append(raw, m)
<1>1. /\ n \in Nat /\ DOMAIN raw = 1 .. n /\ DOMAIN r = 1 .. n + 1 /\ r[n + 1] = m
      /\ \A i \in 1 .. n : r[i] = raw[i]
  BY AppendProperties, LenProperties
<1> HIDE DEF n, r
<1>2. ASSUME NEW i \in DOMAIN turns
      PROVE  /\ ts[i].role = turns[i].role
             /\ \A k \in DOMAIN ts[i].blocks : ts[i].blocks[k].kind = "text" =>
                  k \in DOMAIN turns[i].blocks /\ ts[i].blocks[k] = turns[i].blocks[k]
             /\ \A k \in DOMAIN turns[i].blocks :
                  k \in DOMAIN ts[i].blocks /\ ts[i].blocks[k] = turns[i].blocks[k]
  <2>1. CASE i = l
    BY <2>1
  <2>2. CASE i # l
    BY <2>2
  <2> QED
    BY <2>1, <2>2
<1>3. ASSUME NEW i \in DOMAIN turns PROVE Of(ts[i], "text") = Of(turns[i], "text")
  <2>1. ts[i] \in Turns /\ turns[i] \in Turns
    OBVIOUS
  <2>2. \A x : x \in Of(ts[i], "text") <=> x \in Of(turns[i], "text")
    BY <1>2, <2>1, OfIs
  <2> QED
    BY <2>2
<1>4. \A i \in DOMAIN r : r[i].text <=> \E j \in DOMAIN ts : i \in Of(ts[j], "text")
  <2> SUFFICES ASSUME NEW i \in DOMAIN r
               PROVE  r[i].text <=> \E j \in DOMAIN turns : i \in Of(turns[j], "text")
    BY <1>3
  <2>1. CASE i = n + 1
    <3>1. i \notin DOMAIN raw
      BY <1>1, <2>1
    <3>2. \A j \in DOMAIN turns : i \notin Of(turns[j], "text")
      BY <3>1 DEF TextsKept
    <3> QED
      BY <1>1, <2>1, <3>2
  <2>2. CASE i # n + 1
    <3>1. i \in DOMAIN raw /\ r[i] = raw[i]
      BY <1>1, <2>2
    <3> QED
      BY <3>1 DEF TextsKept
  <2> QED
    BY <2>1, <2>2
<1>5. ASSUME NEW j \in DOMAIN ts, NEW i \in Of(ts[j], "text")
      PROVE  i \in DOMAIN r /\ r[i].role = ts[j].role
  <2>1. i \in DOMAIN raw /\ raw[i].role = turns[j].role
    BY <1>3 DEF TextsKept
  <2> QED
    BY <1>1, <1>2, <2>1
<1>6. ASSUME NEW i \in DOMAIN ts, NEW j \in DOMAIN ts,
             NEW k \in DOMAIN ts[i].blocks, NEW p \in DOMAIN ts[j].blocks,
             ts[i].blocks[k].kind = "text", ts[j].blocks[p].kind = "text",
             i < j \/ (i = j /\ k < p)
      PROVE  ts[i].blocks[k].of < ts[j].blocks[p].of
  <2>1. /\ k \in DOMAIN turns[i].blocks /\ p \in DOMAIN turns[j].blocks
        /\ ts[i].blocks[k] = turns[i].blocks[k] /\ ts[j].blocks[p] = turns[j].blocks[p]
    BY <1>2, <1>6
  <2> QED
    BY <1>6, <2>1 DEF TextsKept
<1> QED
  BY <1>4, <1>5, <1>6 DEF TextsKept, r

(* A turn of its own keeps calls and results together.  With nothing       *)
(* pending it may hold calls, else it holds results of the pending calls.  *)
LEMMA CallsOfTurn ==
  ASSUME NEW turns \in Seq(Turns), NEW t \in Turns, NEW joins, NEW pending,
         CallsKept(turns, joins, pending), joins \in BOOLEAN, joins => pending = {}
  PROVE  /\ pending = {} /\ Of(t, "result") = {} =>
              CallsKept(Append(turns, t), FALSE, Of(t, "use"))
         /\ ~joins /\ Of(t, "use") = {} /\ Of(t, "result") \subseteq pending =>
              CallsKept(Append(turns, t), TRUE, pending \ Of(t, "result"))
<1> DEFINE l == Len(turns)
           ts == Append(turns, t)
           Use(i) == Turned(turns, i, "use")
           Answer(i) == Turned(turns, i, "result")
           Used(i) == Turned(ts, i, "use")
           Result(i) == Turned(ts, i, "result")
<1>1. /\ l \in Nat /\ DOMAIN turns = 1 .. l /\ DOMAIN ts = 1 .. l + 1 /\ ts[l + 1] = t
      /\ (\A i \in 1 .. l : ts[i] = turns[i]) /\ Len(ts) = l + 1
  BY TurnAppended
<1>2. /\ \A i \in 0 .. l - 2 : Use(i) = Answer(i + 1)
      /\ joins => /\ l > 0 /\ Use(l) = {}
                  /\ Answer(l) \subseteq Use(l - 1) /\ pending = Use(l - 1) \ Answer(l)
      /\ ~joins => Use(l - 1) = Answer(l) /\ pending = Use(l)
  BY DEF CallsKept
<1> HIDE DEF l, ts
<1>3. /\ \A i \in 0 .. l : Used(i) = Use(i) /\ Result(i) = Answer(i)
      /\ Used(l + 1) = Of(t, "use") /\ Result(l + 1) = Of(t, "result")
      /\ (l + 1) - 2 = l - 1 /\ (l + 1) - 1 = l /\ l + 1 > 0 /\ l \in 0 .. l
  <2>1. ASSUME NEW i \in 0 .. l PROVE Used(i) = Use(i) /\ Result(i) = Answer(i)
    <3>1. i \in DOMAIN ts <=> i \in DOMAIN turns
      BY <1>1
    <3>2. i \in DOMAIN turns => ts[i] = turns[i]
      BY <1>1
    <3> QED
      BY <3>1, <3>2 DEF Turned
  <2>2. l + 1 \in DOMAIN ts /\ (l + 1) - 2 = l - 1 /\ (l + 1) - 1 = l /\ l + 1 > 0 /\ l \in 0 .. l
    BY <1>1
  <2> QED
    BY <1>1, <2>1, <2>2 DEF Turned
<1>4. /\ Use(l - 1) = Answer(l)
      /\ joins => Use(l) = {}
  BY <1>2
<1> HIDE DEF Use, Answer, Used, Result
<1>5. ASSUME NEW i \in 0 .. l - 1 PROVE Used(i) = Result(i + 1)
  <2>1. i \in 0 .. l /\ i + 1 \in 0 .. l /\ (i \in 0 .. l - 2 \/ i = l - 1)
    BY <1>1
  <2>2. Use(i) = Answer(i + 1)
    <3>1. CASE i \in 0 .. l - 2
      BY <1>2, <3>1
    <3>2. CASE i = l - 1
      <4>1. i + 1 = l
        BY <1>1, <3>2
      <4> QED
        BY <1>4, <3>2, <4>1
    <3> QED
      BY <2>1, <3>1, <3>2
  <2> QED
    BY <1>3, <2>1, <2>2
<1>6. ASSUME pending = {}, Of(t, "result") = {} PROVE CallsKept(ts, FALSE, Of(t, "use"))
  <2>1. Used(l) = {} /\ Result(l + 1) = {}
    BY <1>2, <1>3, <1>4, <1>6
  <2> QED
    BY <1>1, <1>3, <1>5, <2>1 DEF CallsKept, Used, Result
<1>7. ASSUME ~joins, Of(t, "use") = {}, Of(t, "result") \subseteq pending
      PROVE  CallsKept(ts, TRUE, pending \ Of(t, "result"))
  <2>1. pending = Used(l) /\ Used(l + 1) = {}
    BY <1>2, <1>3, <1>7
  <2> QED
    BY <1>1, <1>3, <1>5, <1>7, <2>1 DEF CallsKept, Used, Result
<1> QED
  BY <1>6, <1>7 DEF ts
(* A block more in the last turn. *)
LEMMA TurnGrown ==
  ASSUME NEW turns \in Seq(Turns), turns # <<>>, NEW b \in ABlock
  PROVE  LET l  == Len(turns)
             ts == [turns EXCEPT ![l].blocks = Append(@, b)]
             bs == turns[l].blocks
         IN /\ l \in DOMAIN turns /\ l \in Nat /\ l > 0
            /\ ts \in Seq(Turns) /\ Len(ts) = l /\ DOMAIN ts = DOMAIN turns
            /\ (\A i \in DOMAIN turns \ {l} : ts[i] = turns[i])
            /\ ts[l].role = turns[l].role
            /\ DOMAIN ts[l].blocks = DOMAIN bs \cup {Len(bs) + 1}
            /\ (\A k \in DOMAIN bs : ts[l].blocks[k] = bs[k])
            /\ ts[l].blocks[Len(bs) + 1] = b
            /\ \A kind : Of(ts[l], kind) = Of(turns[l], kind) \cup (IF b.kind = kind THEN {b.of} ELSE {})
<1> DEFINE l == Len(turns)
           ts == [turns EXCEPT ![l].blocks = Append(@, b)]
           t == turns[l]
           bs == t.blocks
           n == Len(bs)
           bb == Append(bs, b)
           tt == [t EXCEPT !.blocks = bb]
<1>1. l \in Nat /\ l # 0 /\ DOMAIN turns = 1 .. l
  BY LenProperties, EmptySeq
<1>2. l \in 1 .. l /\ l > 0
  BY <1>1
<1>3. t \in Turns
  BY <1>1, <1>2, ElementOfSeq
<1>4. bs \in Seq(ABlock)
  BY <1>3 DEF Turns
<1> HIDE DEF bs
<1>5. /\ bb \in Seq(ABlock) /\ DOMAIN bb = 1 .. n + 1 /\ DOMAIN bs = 1 .. n /\ n \in Nat
      /\ (\A k \in 1 .. n : bb[k] = bs[k]) /\ bb[n + 1] = b
  BY <1>4, AppendProperties, LenProperties
<1>6. ts = [turns EXCEPT ![l] = tt]
  BY DEF bs
<1> HIDE DEF bb, t
<1>7. tt \in Turns /\ tt.blocks = bb /\ tt.role = t.role
  BY <1>3, <1>5 DEF Turns
<1> HIDE DEF ts, tt, l
<1>8. /\ ts \in Seq(Turns) /\ Len(ts) = l
      /\ \A j \in 1 .. l : ts[j] = IF j = l THEN tt ELSE turns[j]
  BY <1>2, <1>6, <1>7, ExceptSeq DEF l
<1>9. DOMAIN ts = 1 .. l
  BY <1>8
<1>10. ts[l] = tt /\ \A i \in DOMAIN turns \ {l} : ts[i] = turns[i]
  BY <1>1, <1>2, <1>8
<1>11. DOMAIN bb = DOMAIN bs \cup {n + 1}
  BY <1>5
<1>12. ASSUME NEW kind PROVE Of(tt, kind) = Of(t, kind) \cup (IF b.kind = kind THEN {b.of} ELSE {})
  <2>1. \A x : x \in Of(tt, kind) <=> \E k \in 1 .. n + 1 : bb[k].kind = kind /\ bb[k].of = x
    BY <1>5, <1>7, OfIs
  <2>2. \A x : x \in Of(t, kind) <=> \E k \in 1 .. n : bs[k].kind = kind /\ bs[k].of = x
    BY <1>3, <1>5, OfIs DEF bs
  <2>3. ASSUME NEW x PROVE x \in Of(tt, kind) <=> x \in Of(t, kind) \/ (b.kind = kind /\ x = b.of)
    <3>1. (1 .. n + 1) = (1 .. n) \cup {n + 1}
      BY <1>5
    <3> QED
      BY <1>5, <2>1, <2>2, <3>1
  <2> QED
    BY <2>3
<1> DEFINE G(kind) == Of(ts[l], kind) = Of(t, kind) \cup (IF b.kind = kind THEN {b.of} ELSE {})
<1>13. \A kind : G(kind)
  BY <1>10, <1>12
<1>14. ts[l].blocks = bb /\ ts[l].role = t.role
  BY <1>7, <1>10
<1> QED
  BY <1>1, <1>2, <1>5, <1>8, <1>9, <1>10, <1>11, <1>13, <1>14 DEF ts, bs, l, n, t

(* A result that joins the last turn answers one of the pending calls.     *)
LEMMA CallsOfResult ==
  ASSUME NEW turns \in Seq(Turns), turns # <<>>, NEW b \in ABlock, NEW pending, b.kind = "result",
         CallsKept(turns, TRUE, pending), b.of \in pending
  PROVE  CallsKept([turns EXCEPT ![Len(turns)].blocks = Append(@, b)], TRUE, pending \ {b.of})
<1> DEFINE l == Len(turns)
           ts == [turns EXCEPT ![l].blocks = Append(@, b)]
           Use(i) == Turned(turns, i, "use")
           Answer(i) == Turned(turns, i, "result")
           Used(i) == Turned(ts, i, "use")
           Result(i) == Turned(ts, i, "result")
<1>1. /\ l \in DOMAIN turns /\ l \in Nat /\ l > 0 /\ Len(ts) = l /\ DOMAIN ts = DOMAIN turns
      /\ \A i \in DOMAIN turns \ {l} : ts[i] = turns[i]
      /\ \A kind : Of(ts[l], kind) = Of(turns[l], kind) \cup (IF b.kind = kind THEN {b.of} ELSE {})
  BY TurnGrown, ZenonT(60)
<1>2. /\ \A i \in 0 .. l - 2 : Use(i) = Answer(i + 1)
      /\ Use(l) = {} /\ Answer(l) \subseteq Use(l - 1) /\ pending = Use(l - 1) \ Answer(l)
  BY DEF CallsKept
<1> HIDE DEF l, ts
<1>3. ASSUME NEW i, i # l PROVE Used(i) = Use(i) /\ Result(i) = Answer(i)
  BY <1>1, <1>3 DEF Turned
<1>4. Used(l) = Use(l) /\ Result(l) = Answer(l) \cup {b.of}
  <2>1. Of(ts[l], "use") = Of(turns[l], "use") /\ Of(ts[l], "result") = Of(turns[l], "result") \cup {b.of}
    BY <1>1, ZenonT(60)
  <2> QED
    BY <1>1, <2>1 DEF Turned
<1> HIDE DEF Use, Answer, Used, Result
<1>5. ASSUME NEW i \in 0 .. l - 2 PROVE Used(i) = Result(i + 1)
  <2>1. i # l /\ i + 1 # l
    BY <1>1
  <2> QED
    BY <1>2, <1>3, <2>1
<1>6. l - 1 # l
  BY <1>1
<1>7. Used(l) = {} /\ Result(l) \subseteq Used(l - 1) /\ pending \ {b.of} = Used(l - 1) \ Result(l)
  BY <1>2, <1>3, <1>4, <1>6
<1> QED
  <2>1. CallsKept(ts, TRUE, pending \ {b.of})
    BY <1>1, <1>5, <1>7 DEF CallsKept, Used, Result
  <2> QED
    BY <2>1 DEF ts, l
(* How a message is translated. *)
LEMMA TranslateIs ==
  ASSUME NEW acc \in Translations, NEW m \in Messages
  PROVE  LET n == acc.n + 1
             turn(role, blocks, joins) ==
               [n |-> n, turns |-> Append(acc.turns, Turn(role, blocks)), joins |-> joins]
         IN /\ m.role = "user" => Translate(acc, m) = turn("user", <<Block("text", n)>>, FALSE)
            /\ m.role = "assistant" =>
                 Translate(acc, m) = turn("assistant", assistantContentBlocks(m, n), FALSE)
            /\ m.role = "tool" /\ ~acc.joins =>
                 Translate(acc, m) = turn("user", <<Block("result", m.result)>>, TRUE)
            /\ m.role = "tool" /\ acc.joins =>
                 Translate(acc, m) = [n |-> n, turns |->
                   [acc.turns EXCEPT ![Len(acc.turns)].blocks = Append(@, Block("result", m.result))],
                   joins |-> TRUE]
<1> DEFINE turns == [acc.turns EXCEPT ![Len(acc.turns)].blocks = Append(@, Block("result", m.result))]
<1>1. m.role = "tool" /\ acc.joins =>
        Translate(acc, m) = [acc EXCEPT !.n = acc.n + 1, !.turns = turns]
  BY DEF Translate, Groups
<1> HIDE DEF turns
<1>2. [acc EXCEPT !.n = acc.n + 1, !.turns = turns]
        = [n |-> acc.n + 1, turns |-> turns, joins |-> acc.joins]
  <2> DEFINE n == acc.n + 1
  <2> HIDE DEF n
  <2> DEFINE e == [acc EXCEPT !.n = n, !.turns = turns]
  <2>1. e \in [n : {n}, turns : {turns}, joins : {acc.joins}]
    BY DEF Translations
  <2> HIDE DEF e
  <2>2. e = [n |-> n, turns |-> turns, joins |-> acc.joins]
    BY <2>1
  <2> QED
    BY <2>2 DEF e, n
<1>3. acc.joins \in BOOLEAN
  BY DEF Translations
<1>4. m.role = "tool" /\ acc.joins =>
        Translate(acc, m) = [n |-> acc.n + 1, turns |-> turns, joins |-> TRUE]
  BY <1>1, <1>2, <1>3
<1> QED
  BY <1>4 DEF Translate, Groups, turns

(* A turn of one block holds what the block is. *)
LEMMA OneBlock ==
  ASSUME NEW b \in ABlock, NEW role \in {"user", "assistant"}
  PROVE  /\ Turn(role, <<b>>) \in Turns /\ Turn(role, <<b>>).role = role
         /\ \A kind : Of(Turn(role, <<b>>), kind) = IF b.kind = kind THEN {b.of} ELSE {}
         /\ \A k, l \in DOMAIN Turn(role, <<b>>).blocks : k = l
<1> DEFINE t == Turn(role, <<b>>)
           bs == <<b>>
<1>1. bs \in Seq(ABlock) /\ DOMAIN bs = {1} /\ bs[1] = b
  OBVIOUS
<1> HIDE DEF bs
<1>2. t = [role |-> role, blocks |-> bs]
  BY DEF Turn, bs
<1> HIDE DEF t
<1>3. t \in Turns /\ t.role = role /\ t.blocks = bs
  BY <1>1, <1>2 DEF Turns
<1>4. ASSUME NEW kind PROVE Of(t, kind) = IF b.kind = kind THEN {b.of} ELSE {}
  <2>1. \A x : x \in Of(t, kind) <=> b.kind = kind /\ x = b.of
    BY <1>1, <1>3, OfIs
  <2> QED
    BY <2>1
<1>5. \A k, l \in DOMAIN t.blocks : k = l
  BY <1>1, <1>3
<1> QED
  BY <1>3, <1>4, <1>5 DEF t

(* The turn of an assistant's message holds its text and its calls.        *)
LEMMA AssistantTurn ==
  ASSUME NEW m \in Messages, NEW n \in Nat
  PROVE  LET t == Turn("assistant", assistantContentBlocks(m, n))
         IN /\ t \in Turns /\ t.role = "assistant"
            /\ Of(t, "text") = IF m.text THEN {n} ELSE {}
            /\ Of(t, "use") = ToSet(m.calls) /\ Of(t, "result") = {}
            /\ \A k, l \in DOMAIN t.blocks :
                 t.blocks[k].kind = "text" /\ t.blocks[l].kind = "text" => k = l
<1> DEFINE texts == IF m.text THEN <<Block("text", n)>> ELSE <<>>
           uses == [i \in DOMAIN m.calls |-> Block("use", m.calls[i])]
           bs == texts \o uses
           t == Turn("assistant", assistantContentBlocks(m, n))
           p == Len(texts)
           q == Len(m.calls)
<1>1. m.calls \in Seq(Nat) /\ q \in Nat /\ DOMAIN m.calls = 1 .. q
      /\ \A i \in 1 .. q : m.calls[i] \in Nat
  <2>1. m.calls \in Seq(Nat)
    BY DEF Messages
  <2> QED
    BY <2>1, LenProperties, ElementOfSeq
<1>2. \A kind \in {"text", "use", "result"}, x \in Nat : Block(kind, x) \in ABlock
      /\ Block(kind, x).kind = kind /\ Block(kind, x).of = x
  BY DEF Block, ABlock
<1>3. texts \in Seq(ABlock) /\ p = (IF m.text THEN 1 ELSE 0)
      /\ (m.text => texts[1] = Block("text", n))
  <2>1. CASE m.text
    <3>1. texts = <<Block("text", n)>> /\ Block("text", n) \in ABlock
      BY <1>2, <2>1
    <3> QED
      BY <2>1, <3>1
  <2>2. CASE ~m.text
    BY <2>2, EmptySeq
  <2> QED
    BY <2>1, <2>2
<1>4. uses \in Seq(ABlock) /\ Len(uses) = q /\ \A i \in 1 .. q : uses[i] = Block("use", m.calls[i])
  <2>1. \A i \in 1 .. q : uses[i] \in ABlock /\ uses[i] = Block("use", m.calls[i])
    BY <1>1, <1>2
  <2>2. uses \in [1 .. q -> ABlock]
    BY <1>1, <1>2
  <2>3. uses \in Seq(ABlock)
    BY <1>1, <2>2
  <2> HIDE DEF uses, q
  <2>4. DOMAIN uses = 1 .. q
    BY <2>2
  <2>5. Len(uses) = q
    BY <1>1, <2>3, <2>4, LenProperties
  <2> QED
    BY <2>1, <2>3, <2>5
<1> HIDE DEF texts, uses, q, p
<1>5. /\ bs \in Seq(ABlock) /\ p \in Nat /\ DOMAIN bs = 1 .. p + q
      /\ \A i \in 1 .. p : bs[i] = texts[i]
      /\ \A i \in 1 .. q : bs[p + i] = uses[i]
  <2>1. p \in Nat /\ p = Len(texts)
    BY <1>3 DEF p
  <2> QED
    <3>1. /\ bs \in Seq(ABlock) /\ Len(bs) = Len(texts) + Len(uses)
          /\ \A i \in 1 .. Len(texts) + Len(uses) :
               bs[i] = IF i <= Len(texts) THEN texts[i] ELSE uses[i - Len(texts)]
      BY <1>3, <1>4, ConcatProperties
    <3>2. DOMAIN bs = 1 .. Len(bs)
      BY <3>1, LenProperties
    <3>3. \A i \in 1 .. p + q : bs[i] = IF i <= p THEN texts[i] ELSE uses[i - p]
      BY <1>4, <2>1, <3>1
    <3> HIDE DEF bs
    <3>4. ASSUME NEW i \in 1 .. q PROVE bs[p + i] = uses[i]
      <4>1. p + i \in 1 .. p + q /\ ~(p + i <= p) /\ (p + i) - p = i
        BY <1>1, <2>1
      <4> QED
        BY <3>3, <4>1
    <3>5. ASSUME NEW i \in 1 .. p PROVE bs[i] = texts[i]
      BY <1>1, <2>1, <3>3
    <3> QED
      BY <1>4, <2>1, <3>1, <3>2, <3>4, <3>5
<1>6. t = [role |-> "assistant", blocks |-> bs]
  BY DEF Turn, assistantContentBlocks, texts, uses
<1> HIDE DEF bs, t
<1>7. t \in Turns /\ t.role = "assistant" /\ t.blocks = bs
  BY <1>5, <1>6 DEF Turns
<1>8. \A k \in 1 .. p + q : \/ k = 1 /\ m.text /\ bs[k].kind = "text" /\ bs[k].of = n
                            \/ k - p \in 1 .. q /\ bs[k].kind = "use" /\ bs[k].of = m.calls[k - p]
  <2> SUFFICES ASSUME NEW k \in 1 .. p + q
               PROVE  \/ k = 1 /\ m.text /\ bs[k].kind = "text" /\ bs[k].of = n
                      \/ k - p \in 1 .. q /\ bs[k].kind = "use" /\ bs[k].of = m.calls[k - p]
    OBVIOUS
  <2>1. CASE k \in 1 .. p
    <3>1. k = 1 /\ m.text
      BY <1>3, <2>1
    <3> QED
      BY <1>2, <1>3, <1>5, <2>1, <3>1
  <2>2. CASE k \notin 1 .. p
    <3>1. k - p \in 1 .. q /\ p + (k - p) = k
      BY <1>1, <1>5, <2>2
    <3>2. bs[k] = Block("use", m.calls[k - p]) /\ m.calls[k - p] \in Nat
      BY <1>1, <1>4, <1>5, <3>1
    <3> QED
      BY <1>2, <3>1, <3>2
  <2> QED
    BY <2>1, <2>2
<1>9. /\ \A k, l \in DOMAIN t.blocks :
           t.blocks[k].kind = "text" /\ t.blocks[l].kind = "text" => k = l
  BY <1>5, <1>7, <1>8
<1>10. \A kind, x : x \in Of(t, kind) <=> \E k \in 1 .. p + q : bs[k].kind = kind /\ bs[k].of = x
  <2>1. \A kind, x : x \in Of(t, kind) <=>
          \E k \in DOMAIN t.blocks : t.blocks[k].kind = kind /\ t.blocks[k].of = x
    BY <1>7, OfIs
  <2> QED
    BY <1>5, <1>7, <2>1
<1>11. Of(t, "result") = {}
  BY <1>8, <1>10
<1>12. Of(t, "text") = IF m.text THEN {n} ELSE {}
  <2>1. ASSUME m.text PROVE n \in Of(t, "text")
    <3>1. 1 \in 1 .. p /\ 1 \in 1 .. p + q
      BY <1>1, <1>3, <2>1
    <3>2. bs[1].kind = "text" /\ bs[1].of = n
      BY <1>2, <1>3, <1>5, <2>1, <3>1
    <3> QED
      BY <1>10, <3>1, <3>2
  <2>2. \A x : x \in Of(t, "text") => m.text /\ x = n
    BY <1>8, <1>10
  <2> QED
    BY <2>1, <2>2
<1>13. Of(t, "use") = ToSet(m.calls)
  <2>1. \A x : x \in ToSet(m.calls) <=> \E i \in 1 .. q : m.calls[i] = x
    BY <1>1 DEF ToSet
  <2>2. ASSUME NEW x \in Of(t, "use") PROVE x \in ToSet(m.calls)
    BY <1>8, <1>10, <2>1
  <2>3. ASSUME NEW i \in 1 .. q PROVE m.calls[i] \in Of(t, "use")
    <3>1. p + i \in 1 .. p + q
      BY <1>1, <1>5
    <3>2. bs[p + i].kind = "use" /\ bs[p + i].of = m.calls[i]
      BY <1>1, <1>2, <1>4, <1>5
    <3> QED
      BY <1>10, <3>1, <3>2
  <2> QED
    BY <2>1, <2>2, <2>3
<1> QED
  BY <1>7, <1>9, <1>11, <1>12, <1>13 DEF t
(* A message with a turn of its own. *)
LEMMA OwnTurn ==
  ASSUME ConversationInv, NEW m \in Messages, messages' = Append(messages, m), m.role # "system",
         NEW t \in Turns, NEW joins \in BOOLEAN,
         Translate(Translated, m) =
           [n |-> Translated.n + 1, turns |-> Append(Translated.turns, t), joins |-> joins],
         m.text => t.role = m.role,
         Of(t, "text") = IF m.text THEN {Translated.n + 1} ELSE {},
         \A k, l \in DOMAIN t.blocks :
           t.blocks[k].kind = "text" /\ t.blocks[l].kind = "text" => k = l
  PROVE  /\ ConversationTypes' /\ TextsKept(Raw', Translated'.turns)
         /\ Translated'.turns = Append(Translated.turns, t) /\ Translated'.joins = joins
<1> DEFINE T == Translated
           turns == T.turns
           ts == Append(turns, t)
           n == T.n
<1>1. /\ ConversationTypes /\ T \in Translations /\ n = Len(Raw) /\ n \in Nat
      /\ Raw \in Seq(Messages) /\ turns \in Seq(Turns) /\ TextsKept(Raw, turns)
  BY DEF ConversationInv, ConversationTypes, Translations, Raw
<1>2. /\ Separated' \in [system : Seq(Messages), rawMsgs : Seq(Messages)]
      /\ Raw' = Append(Raw, m) /\ Translated' = [n |-> n + 1, turns |-> ts, joins |-> joins]
  BY <1>1, MessageTranslated
<1> HIDE DEF n, turns, T
<1>3. ts \in Seq(Turns)
  BY <1>1, AppendProperties
<1>4. Len(Raw') = n + 1
  BY <1>1, <1>2, AppendProperties
<1>5. messages' \in Seq(Messages)
  BY <1>1, AppendProperties DEF ConversationTypes
<1>6. TextsKept(Raw', ts)
  BY <1>1, <1>2, TextsOfTurn DEF n, T
<1> HIDE DEF ts
<1>7. Translated' \in Translations /\ Translated'.turns = ts /\ Translated'.joins = joins
      /\ Translated'.n = n + 1
  BY <1>1, <1>2, <1>3 DEF Translations
<1> QED
  BY <1>2, <1>4, <1>5, <1>6, <1>7 DEF ConversationTypes, ts, turns, T

(* The ids of the calls grow with the conversation. *)
LEMMA Bounds ==
  ASSUME ConversationInv, NEW m \in Messages, messages' = Append(messages, m),
         \A c \in ToSet(m.calls) : c # NoCall /\ c <= (Len(messages) + 1) * MaxCalls,
         m.result = NoCall \/ m.result \in Made
  PROVE  /\ NoCall \notin Made' /\ Made' = Made \cup ToSet(m.calls)
         /\ Answered' = Answered \cup {m.result}
         /\ \A c \in Made' \cup Answered' : c <= Len(messages') * MaxCalls
<1>1. /\ Made' = Made \cup ToSet(m.calls) /\ Answered' = Answered \cup {m.result}
      /\ Len(messages') = Len(messages) + 1 /\ messages \in Seq(Messages)
  BY CallsOfMessage DEF ConversationInv, ConversationTypes
<1>2. Len(messages) \in Nat /\ MaxCalls \in Nat
  BY <1>1, TranslationAssumption, LenProperties
<1> DEFINE a == Len(messages) * MaxCalls
           b == (Len(messages) + 1) * MaxCalls
<1>3. a \in Nat /\ b \in Nat /\ a <= b
  <2>1. \A x, y \in Nat : x * y \in Nat /\ (x + 1) * y = x * y + y
    OBVIOUS
  <2>2. a \in Nat /\ b = a + MaxCalls
    BY <1>2, <2>1
  <2> HIDE DEF a, b
  <2> QED
    BY <1>2, <2>2
<1>4. \A c \in Made \cup Answered : c \in Nat
  <2>1. \A i \in DOMAIN messages : messages[i] \in Messages
    BY <1>1
  <2>2. \A i \in DOMAIN messages : messages[i].calls \in Seq(Nat) /\ messages[i].result \in Nat
    BY <2>1 DEF Messages
  <2>3. \A i \in DOMAIN messages : \A c \in ToSet(messages[i].calls) : c \in Nat
    BY <2>2 DEF ToSet
  <2> QED
    BY <2>2, <2>3 DEF Made, Answered
<1>5. NoCall \notin Made /\ \A c \in Made \cup Answered : c <= a
  BY DEF ConversationInv
<1> HIDE DEF a, b
<1>6. \A c \in Made' \cup Answered' : c <= b
  <2>1. \A c \in Made \cup Answered : c <= b
    BY <1>3, <1>4, <1>5
  <2>2. m.result <= b
    BY <1>3, <2>1 DEF NoCall
  <2>3. \A c \in ToSet(m.calls) : c <= b
    BY DEF b
  <2> QED
    BY <1>1, <2>1, <2>2, <2>3
<1> QED
  BY <1>1, <1>5, <1>6 DEF b

(* What a user says has a turn of its own. *)
LEMMA UserKeepsConversation ==
  ASSUME ConversationInv, UserSays
  PROVE  ConversationInv'
<1> DEFINE m == Message("user", TRUE, <<>>, NoCall)
           n == Translated.n + 1
           t == Turn("user", <<Block("text", n)>>)
<1>1. Pending = {} /\ messages' = Append(messages, m)
  BY DEF UserSays, Says
<1>2. m \in Messages /\ m.role = "user" /\ m.text = TRUE /\ m.result = NoCall /\ m.calls = <<>>
  BY EmptySeq DEF Message, Messages, NoCall
<1> HIDE DEF m
<1>3. Translated \in Translations /\ Translated.n \in Nat
  BY DEF ConversationInv, ConversationTypes, Translations
<1>4. Block("text", n) \in ABlock /\ Block("text", n).kind = "text" /\ Block("text", n).of = n
  BY <1>3 DEF Block, ABlock
<1>5. /\ t \in Turns /\ t.role = "user" /\ Of(t, "text") = {n} /\ Of(t, "use") = {}
      /\ Of(t, "result") = {} /\ \A k, l \in DOMAIN t.blocks : k = l
  BY <1>4, OneBlock
<1>6. Translate(Translated, m) = [n |-> n, turns |-> Append(Translated.turns, t), joins |-> FALSE]
  BY <1>2, <1>3, TranslateIs
<1> HIDE DEF t
<1>7. /\ ConversationTypes' /\ TextsKept(Raw', Translated'.turns)
      /\ Translated'.turns = Append(Translated.turns, t) /\ Translated'.joins = FALSE
  BY <1>1, <1>2, <1>5, <1>6, OwnTurn
<1>8. ToSet(m.calls) = {}
  BY <1>2 DEF ToSet
<1>9. /\ NoCall \notin Made' /\ Made' = Made /\ Answered' = Answered \cup {NoCall}
      /\ \A c \in Made' \cup Answered' : c <= Len(messages') * MaxCalls
  BY <1>1, <1>2, <1>8, Bounds
<1>10. Pending' = {}
  BY <1>1, <1>9 DEF Pending
<1>11. CallsKept(Translated'.turns, FALSE, {})
  <2>1. /\ Translated.turns \in Seq(Turns) /\ Translated.joins \in BOOLEAN
        /\ CallsKept(Translated.turns, Translated.joins, {})
    BY <1>1, <1>3 DEF ConversationInv, Translations
  <2> QED
    BY <1>5, <1>7, <2>1, CallsOfTurn
<1> QED
  BY <1>7, <1>9, <1>10, <1>11 DEF ConversationInv
(* A system message has no turn. *)
LEMMA SystemKeepsConversation ==
  ASSUME ConversationInv, SystemSays
  PROVE  ConversationInv'
<1> DEFINE m == Message("system", TRUE, <<>>, NoCall)
<1>1. messages' = Append(messages, m)
  BY DEF SystemSays, Says
<1>2. m \in Messages /\ m.role = "system" /\ m.result = NoCall /\ m.calls = <<>>
  BY EmptySeq DEF Message, Messages, NoCall
<1> HIDE DEF m
<1>3. ToSet(m.calls) = {}
  BY <1>2 DEF ToSet
<1>4. /\ NoCall \notin Made' /\ Made' = Made /\ Answered' = Answered \cup {NoCall}
      /\ \A c \in Made' \cup Answered' : c <= Len(messages') * MaxCalls
  BY <1>1, <1>2, <1>3, Bounds
<1>5. Pending' = Pending
  BY <1>4 DEF Pending
<1>6. /\ Separated' \in [system : Seq(Messages), rawMsgs : Seq(Messages)]
      /\ Raw' = Raw /\ Translated' = Translated
  BY <1>1, <1>2, MessageTranslated DEF ConversationInv
<1>7. messages' \in Seq(Messages)
  BY <1>1, <1>2, AppendProperties DEF ConversationInv, ConversationTypes
<1> QED
  BY <1>4, <1>5, <1>6, <1>7 DEF ConversationInv, ConversationTypes

(* What an assistant says has a turn of its own, with its calls. *)
LEMMA AssistantKeepsConversation ==
  ASSUME ConversationInv, AssistantSays
  PROVE  ConversationInv'
<1>1. PICK k \in 0 .. MaxCalls, text \in BOOLEAN :
        Says(Message("assistant", text, [i \in 1 .. k |-> Len(messages) * MaxCalls + i], NoCall))
  BY DEF AssistantSays
<1> DEFINE a == Len(messages) * MaxCalls
           calls == [i \in 1 .. k |-> a + i]
           m == Message("assistant", text, calls, NoCall)
           n == Translated.n + 1
           t == Turn("assistant", assistantContentBlocks(m, n))
<1>2. Pending = {} /\ messages' = Append(messages, m)
  BY <1>1 DEF AssistantSays, Says
<1>3. /\ a \in Nat /\ MaxCalls \in Nat /\ k \in Nat /\ k <= MaxCalls
      /\ (Len(messages) + 1) * MaxCalls = a + MaxCalls
  <2>1. Len(messages) \in Nat /\ MaxCalls \in Nat
    BY TranslationAssumption, LenProperties DEF ConversationInv, ConversationTypes
  <2>2. \A x, y \in Nat : x * y \in Nat /\ (x + 1) * y = x * y + y
    OBVIOUS
  <2> QED
    BY <2>1, <2>2
<1> HIDE DEF a
<1>4. calls \in Seq(Nat) /\ DOMAIN calls = 1 .. k /\ \A i \in 1 .. k : calls[i] = a + i
  <2>1. \A i \in 1 .. k : a + i \in Nat
    BY <1>3
  <2>2. calls \in [1 .. k -> Nat]
    BY <2>1
  <2> QED
    BY <1>3, <2>2
<1> HIDE DEF calls
<1>5. m \in Messages /\ m.role = "assistant" /\ m.text = text /\ m.result = NoCall /\ m.calls = calls
  BY <1>4 DEF Message, Messages, NoCall
<1> HIDE DEF m
<1>6. Translated \in Translations /\ Translated.n \in Nat /\ n \in Nat
  BY DEF ConversationInv, ConversationTypes, Translations
<1>7. /\ t \in Turns /\ t.role = "assistant" /\ Of(t, "text") = IF m.text THEN {n} ELSE {}
      /\ Of(t, "use") = ToSet(m.calls) /\ Of(t, "result") = {}
      /\ \A i, l \in DOMAIN t.blocks :
           t.blocks[i].kind = "text" /\ t.blocks[l].kind = "text" => i = l
  BY <1>5, <1>6, AssistantTurn
<1>8. Translate(Translated, m) = [n |-> n, turns |-> Append(Translated.turns, t), joins |-> FALSE]
  BY <1>5, <1>6, TranslateIs
<1> HIDE DEF t
<1>9. /\ ConversationTypes' /\ TextsKept(Raw', Translated'.turns)
      /\ Translated'.turns = Append(Translated.turns, t) /\ Translated'.joins = FALSE
  BY <1>2, <1>5, <1>7, <1>8, OwnTurn
<1>10. \A c \in ToSet(m.calls) : c > a /\ c <= a + MaxCalls /\ c \in Nat
  <2>1. \A c \in ToSet(m.calls) : \E i \in 1 .. k : c = a + i
    BY <1>4, <1>5 DEF ToSet
  <2>2. \A i \in 1 .. k : a + i > a /\ a + i <= a + MaxCalls /\ a + i \in Nat
    BY <1>3
  <2> QED
    BY <2>1, <2>2
<1>11. /\ NoCall \notin Made' /\ Made' = Made \cup ToSet(m.calls)
       /\ Answered' = Answered \cup {NoCall}
       /\ \A c \in Made' \cup Answered' : c <= Len(messages') * MaxCalls
  <2>1. \A c \in ToSet(m.calls) : c # NoCall /\ c <= (Len(messages) + 1) * MaxCalls
    BY <1>3, <1>10 DEF NoCall
  <2> QED
    BY <1>2, <1>5, <2>1, Bounds
<1>12. Pending' = ToSet(m.calls)
  <2>1. \A c \in ToSet(m.calls) : c \notin Answered /\ c # NoCall
    <3>1. \A c \in Answered : c <= a
      BY DEF ConversationInv, a
    <3>2. \A c \in ToSet(m.calls) : ~(c <= a) /\ c # NoCall
      BY <1>3, <1>10 DEF NoCall
    <3> QED
      BY <3>1, <3>2
  <2> QED
    BY <1>2, <1>11, <2>1 DEF Pending
<1>13. CallsKept(Translated'.turns, FALSE, ToSet(m.calls))
  <2>1. /\ Translated.turns \in Seq(Turns) /\ Translated.joins \in BOOLEAN
        /\ CallsKept(Translated.turns, Translated.joins, {})
    BY <1>2, <1>6 DEF ConversationInv, Translations
  <2> QED
    BY <1>7, <1>9, <2>1, CallsOfTurn
<1> QED
  BY <1>9, <1>11, <1>12, <1>13 DEF ConversationInv

(* The result of a call has a turn of its own, or joins the turn of the    *)
(* result before it.                                                       *)
LEMMA ToolKeepsConversation ==
  ASSUME ConversationInv, ToolAnswers
  PROVE  ConversationInv'
<1>1. PICK call \in Pending : Says(Message("tool", FALSE, <<>>, call))
  BY DEF ToolAnswers
<1> DEFINE m == Message("tool", FALSE, <<>>, call)
           T == Translated
           turns == T.turns
           b == Block("result", call)
<1>2. messages' = Append(messages, m)
  BY <1>1 DEF Says
<1>3. call \in Made /\ call \in Nat
  <2>1. \A i \in DOMAIN messages : messages[i].calls \in Seq(Nat)
    BY DEF ConversationInv, ConversationTypes, Messages
  <2>2. \A i \in DOMAIN messages : \A c \in ToSet(messages[i].calls) : c \in Nat
    BY <2>1 DEF ToSet
  <2> QED
    BY <2>2 DEF Pending, Made
<1>4. m \in Messages /\ m.role = "tool" /\ m.text = FALSE /\ m.result = call /\ m.calls = <<>>
  BY <1>3, EmptySeq DEF Message, Messages
<1> HIDE DEF m
<1>5. /\ T \in Translations /\ T.n \in Nat /\ turns \in Seq(Turns) /\ T.joins \in BOOLEAN
      /\ CallsKept(turns, T.joins, Pending) /\ T.n = Len(Raw) /\ Raw \in Seq(Messages)
      /\ TextsKept(Raw, turns) /\ ConversationTypes
  BY DEF ConversationInv, ConversationTypes, Translations, Raw
<1>6. b \in ABlock /\ b.kind = "result" /\ b.of = call
  BY <1>3 DEF Block, ABlock
<1>7. ToSet(m.calls) = {}
  BY <1>4 DEF ToSet
<1>8. /\ NoCall \notin Made' /\ Made' = Made /\ Answered' = Answered \cup {call}
      /\ \A c \in Made' \cup Answered' : c <= Len(messages') * MaxCalls
  BY <1>2, <1>3, <1>4, <1>7, Bounds
<1>9. Pending' = Pending \ {call}
  BY <1>8 DEF Pending
<1> HIDE DEF b, T
<1>10. CASE ~T.joins
  <2> DEFINE t == Turn("user", <<b>>)
  <2>1. /\ t \in Turns /\ Of(t, "text") = {} /\ Of(t, "use") = {} /\ Of(t, "result") = {call}
        /\ \A k, l \in DOMAIN t.blocks : k = l
    BY <1>6, OneBlock
  <2>2. Translate(Translated, m) = [n |-> Translated.n + 1, turns |-> Append(Translated.turns, t), joins |-> TRUE]
    BY <1>4, <1>5, <1>10, TranslateIs DEF b, T
  <2> HIDE DEF t
  <2>3. /\ ConversationTypes' /\ TextsKept(Raw', Translated'.turns)
        /\ Translated'.turns = Append(turns, t) /\ Translated'.joins = TRUE
    BY <1>2, <1>4, <2>1, <2>2, OwnTurn DEF T
  <2>4. CallsKept(Translated'.turns, TRUE, Pending \ {call})
    BY <1>1, <1>5, <1>10, <2>1, <2>3, CallsOfTurn
  <2> QED
    BY <1>8, <1>9, <2>3, <2>4 DEF ConversationInv
<1>11. CASE T.joins
  <2> DEFINE ts == [turns EXCEPT ![Len(turns)].blocks = Append(@, b)]
             n == T.n + 1
  <2>1. T.joins = TRUE /\ turns # <<>>
    <3>1. Len(turns) > 0
      BY <1>5, <1>11 DEF CallsKept
    <3> HIDE DEF turns
    <3> QED
      BY <1>5, <1>11, <3>1, EmptySeq
  <2>2. Translate(T, m) = [n |-> n, turns |-> ts, joins |-> TRUE]
    BY <1>4, <1>5, <1>11, TranslateIs DEF b
  <2>3. /\ Separated' \in [system : Seq(Messages), rawMsgs : Seq(Messages)]
        /\ Raw' = Append(Raw, m) /\ Translated' = [n |-> n, turns |-> ts, joins |-> TRUE]
    BY <1>2, <1>4, <1>5, <2>2, MessageTranslated DEF T
  <2> HIDE DEF turns
  <2>4. CallsKept(ts, TRUE, Pending \ {call})
    BY <1>1, <1>5, <1>6, <2>1, CallsOfResult
  <2>5. LET l == Len(turns)
            bs == turns[l].blocks
        IN /\ l \in DOMAIN turns
           /\ ts \in Seq(Turns) /\ DOMAIN ts = DOMAIN turns
           /\ (\A i \in DOMAIN turns \ {l} : ts[i] = turns[i])
           /\ ts[l].role = turns[l].role
           /\ DOMAIN ts[l].blocks = DOMAIN bs \cup {Len(bs) + 1}
           /\ (\A k \in DOMAIN bs : ts[l].blocks[k] = bs[k])
           /\ ts[l].blocks[Len(bs) + 1] = b
    BY <1>5, <1>6, <2>1, TurnGrown, ZenonT(60)
  <2> HIDE DEF ts, n
  <2>6. TextsKept(Raw', ts)
    <3> DEFINE l == Len(turns)
    <3>1. ts \in Seq(Turns) /\ Joined(turns, ts, l, b)
      BY <2>5 DEF Joined
    <3>2. ~m.text /\ b.kind # "text" /\ turns \in Seq(Turns) /\ Raw \in Seq(Messages)
          /\ TextsKept(Raw, turns) /\ m \in Messages
      BY <1>4, <1>5, <1>6
    <3> HIDE DEF l
    <3>3. TextsKept(Append(Raw, m), ts)
      BY <3>1, <3>2, TextsOfResult
    <3> QED
      BY <2>3, <3>3
  <2>7. Translated'.turns = ts /\ Translated'.joins = TRUE /\ Translated'.n = n
        /\ Translated' \in Translations
    BY <1>5, <2>3, <2>5 DEF Translations, n
  <2>8. Len(Raw') = n /\ messages' \in Seq(Messages)
    BY <1>2, <1>4, <1>5, <2>3, AppendProperties DEF n, ConversationTypes
  <2>9. ConversationTypes'
    BY <2>3, <2>7, <2>8 DEF ConversationTypes
  <2> QED
    BY <1>8, <1>9, <2>4, <2>6, <2>7, <2>9 DEF ConversationInv
<1> QED
  BY <1>5, <1>10, <1>11
-----------------------------------------------------------------------------
(* The invariant.                                                          *)

(* What is composed beside it leaves the other half as it is. *)
LEMMA OtherHalf ==
  /\ StreamInv /\ UNCHANGED <<side, stream>> => StreamInv'
  /\ ConversationInv /\ UNCHANGED messages => ConversationInv'
  /\ Inputs /\ UNCHANGED <<side, input>> => Inputs'
<1>1. ASSUME StreamInv, UNCHANGED <<side, stream>> PROVE StreamInv'
  <2>1. /\ side' = side /\ answer' = answer /\ inThink' = inThink /\ sent' = sent
        /\ toolCallIdx' = toolCallIdx /\ nextToolCall' = nextToolCall
    BY <1>1 DEF stream, producer
  <2>2. Received' = Received /\ Blocks' = Blocks /\ fromMessage' = fromMessage
    BY <2>1 DEF Received, Blocks, fromMessage
  <2> QED
    BY <1>1, <2>1, <2>2 DEF StreamInv, StreamTypes, TagsInv, FieldInv, AnthropicInv
<1>2. ASSUME ConversationInv, UNCHANGED messages PROVE ConversationInv'
  <2>1. /\ Separated' = Separated /\ Raw' = Raw /\ Translated' = Translated
        /\ Made' = Made /\ Answered' = Answered /\ Pending' = Pending
    BY <1>2 DEF Separated, Raw, Translated, Made, Answered, Pending
  <2> QED
    BY <1>2, <2>1 DEF ConversationInv, ConversationTypes
<1>3. ASSUME Inputs, UNCHANGED <<side, input>> PROVE Inputs'
  BY <1>3 DEF Inputs
<1> QED
  BY <1>1, <1>2, <1>3

(* Nothing has been said. *)
LEMMA InitHolds ==
  Init => TranslationInv
<1> SUFFICES ASSUME Init PROVE TranslationInv
  OBVIOUS
<1>1. Received = NoAnswer /\ fromMessage = NoAnswer /\ extractThinkTags(answer.content) = Nothing
  BY FoldsAre, FoldEmpty DEF Init, Received, fromMessage, Blocks
<1>2. <<>> \in Seq(Symbols) /\ <<>> \in Calls /\ <<>> \in Contents
      /\ <<>> \in Seq(Nat) /\ <<>> \in Seq(Chunks)
  BY EmptySeq DEF Calls, Contents
<1>3. StreamTypes
  <2>1. \A i \in DOMAIN <<>> : FALSE
    OBVIOUS
  <2>2. <<>> \in Untaggeds
    BY <1>2, <2>1, TextsAre DEF Untaggeds, Untagged
  <2> QED
    BY <1>1, <1>2, <2>2 DEF Init, StreamTypes, NoAnswer
<1>4. TagsInv /\ FieldInv
  <2>1. \A i \in DOMAIN <<>> : FALSE
    OBVIOUS
  <2>2. Untagged(<<>>)
    BY <1>2, <2>1, TextsAre DEF Untagged
  <2>3. /\ answer.content = <<>> /\ answer.reasoning = <<>> /\ inThink = FALSE
        /\ Received.thinking = <<>> /\ Received.content = <<>>
    BY <1>1 DEF Init, NoAnswer
  <2>4. Nothing.in = FALSE /\ Nothing.thinking = <<>> /\ Nothing.remaining = <<>>
    BY DEF Nothing
  <2>5. FieldInv
    BY <2>2, <2>3 DEF FieldInv
  <2>6. TagsInv
    BY <1>1, <2>3, <2>4 DEF TagsInv
  <2> QED
    BY <2>5, <2>6
<1>5. AnthropicInv
  <2>1. Len(<<>>) = 0
    BY EmptySeq
  <2> QED
    BY <1>1, <2>1 DEF Init, AnthropicInv, NoAnswer, Blocks
<1>6. Separated = Unsorted /\ Raw = <<>> /\ Translated = NoTurns
  <2>1. Separated = Unsorted
    BY FoldsAre, FoldEmpty DEF Init, Separated, Unsorted
  <2>2. Raw = <<>>
    BY <2>1 DEF Raw, Unsorted
  <2> QED
    BY <2>1, <2>2, FoldEmpty DEF Translated
<1>7. Made = {} /\ Answered = {} /\ Pending = {}
  BY DEF Init, Made, Answered, Pending
<1>8. ConversationTypes
  <2>1. messages = <<>> /\ <<>> \in Seq(Messages) /\ <<>> \in Seq(Turns) /\ Len(<<>>) = 0
    BY EmptySeq DEF Init
  <2>2. Unsorted \in [system : Seq(Messages), rawMsgs : Seq(Messages)]
    BY <2>1 DEF Unsorted
  <2>3. NoTurns \in Translations /\ NoTurns.n = 0
    BY <2>1 DEF NoTurns, Translations
  <2> QED
    BY <1>6, <2>1, <2>2, <2>3 DEF ConversationTypes
<1>9. Translated.turns = <<>> /\ Translated.joins = FALSE
  BY <1>6 DEF NoTurns
<1>10. TextsKept(<<>>, <<>>)
  BY DEF TextsKept
<1>11. CallsKept(<<>>, FALSE, {})
  <2>1. Len(<<>>) = 0 /\ \A i, kind : Turned(<<>>, i, kind) = {}
    BY EmptySeq DEF Turned
  <2> QED
    BY <2>1 DEF CallsKept
<1>12. Inputs
  BY DEF Init, Inputs
<1> QED
  BY <1>3, <1>4, <1>5, <1>6, <1>7, <1>8, <1>9, <1>10, <1>11, <1>12
  DEF TranslationInv, StreamInv, ConversationInv

(* Every step keeps the readings and the conversation together. *)
LEMMA NextKeeps ==
  TranslationInv /\ [Next]_vars => TranslationInv'
<1> SUFFICES ASSUME TranslationInv, [Next]_vars PROVE TranslationInv'
  OBVIOUS
<1>1. StreamInv /\ ConversationInv /\ Inputs
  BY DEF TranslationInv
<1>2. ASSUME NEW text \in Deltas, Content(text) \/ Reasoning(text) PROVE TranslationInv'
  <2>1. UNCHANGED <<side, input, messages>>
    BY <1>2 DEF Content, Reasoning, Receive
  <2> QED
    BY <1>1, <1>2, <2>1, FramesKeepStream, OtherHalf DEF TranslationInv
<1>3. ASSUME NEW text \in {<<>>} \cup {<<x>> : x \in Letters}, ToolCall(text) \/ Finish(text)
      PROVE  TranslationInv'
  <2>1. UNCHANGED <<side, input, messages>>
    BY <1>3 DEF ToolCall, Finish, Receive
  <2> QED
    BY <1>1, <1>3, <2>1, FramesKeepStream, OtherHalf DEF TranslationInv
<1>4. ASSUME NEW type \in {"text", "thinking", "tool_use"}, ContentBlockStart(type)
      PROVE  TranslationInv'
  <2>1. UNCHANGED <<side, input, messages>>
    BY <1>4 DEF ContentBlockStart, Event
  <2> QED
    BY <1>1, <1>4, <2>1, StartKeepsStream, OtherHalf DEF TranslationInv
<1>5. ASSUME NEW x \in Letters, ContentBlockDelta(<<x>>) PROVE TranslationInv'
  <2>1. UNCHANGED <<side, input, messages>>
    BY <1>5 DEF ContentBlockDelta, Event
  <2>2. <<x>> \in Seq(Symbols)
    BY TextsAre DEF Untagged
  <2> QED
    BY <1>1, <1>5, <2>1, <2>2, DeltaKeepsStream, OtherHalf DEF TranslationInv
<1>6. ASSUME MessageStop PROVE TranslationInv'
  <2>1. UNCHANGED <<side, input, messages>>
    BY <1>6 DEF MessageStop, Event
  <2> QED
    BY <1>1, <1>6, <2>1, StopKeepsStream, OtherHalf DEF TranslationInv
<1>7. ASSUME UserSays \/ SystemSays \/ AssistantSays \/ ToolAnswers PROVE TranslationInv'
  <2>1. UNCHANGED <<side, input, stream>>
    BY <1>7 DEF UserSays, SystemSays, AssistantSays, ToolAnswers, Says
  <2> QED
    BY <1>1, <1>7, <2>1, OtherHalf, UserKeepsConversation, SystemKeepsConversation,
       AssistantKeepsConversation, ToolKeepsConversation DEF TranslationInv
<1>8. ASSUME UNCHANGED vars PROVE TranslationInv'
  <2>1. UNCHANGED <<side, stream>> /\ UNCHANGED <<side, input>> /\ UNCHANGED messages
    BY <1>8 DEF vars
  <2> QED
    BY <1>1, <2>1, OtherHalf DEF TranslationInv
<1> QED
  BY <1>2, <1>3, <1>4, <1>5, <1>6, <1>7, <1>8 DEF Next

(* However long the answer, the two readings of it stay together; however  *)
(* long the conversation, so do the messages and the turns.                *)
THEOREM TranslationInvariant ==
  Spec => []TranslationInv
<1> QED
  BY InitHolds, NextKeeps, PTL DEF Spec
-----------------------------------------------------------------------------
(* What the invariant says of an answer and of a conversation.             *)

(* What follows a text adds no tag that it does not hold. *)
LEMMA TagOfConcat ==
  ASSUME NEW s \in Seq(Symbols), NEW t \in Seq(Symbols), NEW x, x \notin ToSet(t)
  PROVE  s \o t \in Seq(Symbols) /\ (x \in ToSet(s \o t) <=> x \in ToSet(s))
<1> DEFINE u == s \o t
<1>1. /\ u \in Seq(Symbols) /\ Len(u) = Len(s) + Len(t)
      /\ \A i \in 1 .. Len(s) : u[i] = s[i]
      /\ \A i \in 1 .. Len(t) : u[Len(s) + i] = t[i]
  BY ConcatProperties
<1>2. /\ DOMAIN u = 1 .. Len(u) /\ DOMAIN s = 1 .. Len(s) /\ DOMAIN t = 1 .. Len(t)
      /\ Len(s) \in Nat /\ Len(t) \in Nat
  BY <1>1, LenProperties
<1> HIDE DEF u
<1>3. ASSUME NEW i \in DOMAIN u, u[i] = x PROVE x \in ToSet(s)
  <2>1. CASE i <= Len(s)
    BY <1>1, <1>2, <1>3, <2>1 DEF ToSet
  <2>2. CASE i > Len(s)
    <3> DEFINE j == i - Len(s)
    <3>1. j \in 1 .. Len(t) /\ i = Len(s) + j
      BY <1>1, <1>2, <2>2
    <3> HIDE DEF j
    <3>2. t[j] = x
      BY <1>1, <1>3, <3>1
    <3> QED
      BY <1>2, <3>1, <3>2 DEF ToSet
  <2> QED
    BY <1>2, <2>1, <2>2
<1>4. ASSUME NEW i \in DOMAIN s, s[i] = x PROVE x \in ToSet(u)
  <2>1. i \in DOMAIN u /\ u[i] = x
    BY <1>1, <1>2, <1>4
  <2> QED
    BY <2>1 DEF ToSet
<1> QED
  BY <1>1, <1>3, <1>4 DEF ToSet, u

(* The thoughts and the text a client has put together are those of the    *)
(* whole answer.                                                           *)
LEMMA ReadingsAgree ==
  StreamInv => StreamAsUnary
<1> SUFFICES ASSUME StreamInv PROVE StreamAsUnary
  OBVIOUS
<1> DEFINE c == answer.content
           l == answer.last
           all == c \o l
           shown == Received.thinking
           said == Received.content
<1>1. /\ StreamTypes /\ c \in Seq(Symbols) /\ l \in Seq(Symbols) /\ Untagged(l)
      /\ shown \in Seq(Symbols) /\ said \in Seq(Symbols) /\ inThink \in BOOLEAN
      /\ answer.reasoning \in Seq(Symbols)
  BY DEF StreamInv, StreamTypes, Untaggeds
<1>2. shown \o <<>> = shown /\ said \o <<>> = said
  <2> HIDE DEF shown, said
  <2> QED
    BY <1>1, ConcatEmptySeq
<1> HIDE DEF c, l, shown, said
<1>3. all \in Seq(Symbols) /\ (Open \in ToSet(all) <=> Open \in ToSet(c))
  <2>1. Open \notin ToSet(l)
    BY <1>1 DEF Untagged, Tags
  <2> QED
    BY <1>1, <2>1, TagOfConcat
<1>4. Contains(all, Open) <=> Open \in ToSet(c)
  <2> HIDE DEF all
  <2> QED
    BY <1>3, LenProperties DEF Contains, ToSet
<1> HIDE DEF all
<1>5. CASE side = "anthropic"
  <2>1. l = <<>> /\ Received = fromMessage /\ Unary = fromMessage
    BY <1>5 DEF StreamInv, AnthropicInv, Unary, l
  <2> QED
    BY <1>2, <2>1 DEF StreamAsUnary, l, shown, said
<1>6. CASE side = "field"
  <2>1. ~inThink /\ Untagged(c) /\ shown = answer.reasoning /\ said = c
    BY <1>6 DEF StreamInv, FieldInv, c, shown, said
  <2>2. Unary.thinking = answer.reasoning /\ Unary.content = all
    BY <1>4, <1>6, <2>1 DEF Unary, ResponseFromOpenAI, all, c, l, Untagged, Tags
  <2>3. Visible(shown \o <<>>) = Visible(Unary.thinking) /\ Visible(said \o l) = Visible(Unary.content)
    BY <1>2, <2>1, <2>2 DEF all
  <2> QED
    BY <1>6, <2>1, <2>3 DEF StreamAsUnary, shown, said, l
<1>7. CASE side \notin {"field", "anthropic"}
  <2> DEFINE e == extractThinkTags(c)
             w == extractThinkTags(all)
             et == e.thinking
             er == e.remaining
  <2>1. /\ answer.reasoning = <<>> /\ e.in = inThink
        /\ Visible(shown) = Visible(et) /\ Visible(said) = Visible(er)
    BY <1>7 DEF StreamInv, TagsInv, c, shown, said
  <2>2. Nothing \in Parts /\ Nothing.in = FALSE /\ Nothing.thinking = <<>> /\ Nothing.remaining = <<>>
    BY EmptySeq DEF Nothing, Parts
  <2>3. e = F("extract", Nothing, c) /\ w = F("extract", e, l) /\ e \in Parts
    <3>1. e = F("extract", Nothing, c) /\ w = F("extract", Nothing, all)
      BY FoldsAre
    <3>2. F("extract", Nothing, c \o l) = F("extract", F("extract", Nothing, c), l)
      BY <1>1, FoldConcat
    <3> QED
      BY <1>1, <2>2, <3>1, <3>2, ExtractTyped DEF all
  <2>4. w = IF inThink THEN [e EXCEPT !.thinking = @ \o l] ELSE [e EXCEPT !.remaining = @ \o l]
    <3>1. Close \notin ToSet(l) /\ Open \notin ToSet(l)
      BY <1>1 DEF Untagged, Tags
    <3> HIDE DEF e, w
    <3> QED
      BY <1>1, <2>1, <2>3, <3>1, ExtractPlain
  <2>5. et \in Seq(Symbols) /\ er \in Seq(Symbols)
    BY <2>3 DEF Parts
  <2>6. /\ Visible(shown \o l) = Visible(et \o l)
        /\ Visible(said \o l) = Visible(er \o l)
    <3>1. \A s, t \in Seq(Symbols) : Visible(s \o t) = Visible(s) \o Visible(t)
      BY VisibleConcat
    <3> HIDE DEF et, er
    <3>2. /\ Visible(shown \o l) = Visible(shown) \o Visible(l)
          /\ Visible(said \o l) = Visible(said) \o Visible(l)
          /\ Visible(et \o l) = Visible(et) \o Visible(l)
          /\ Visible(er \o l) = Visible(er) \o Visible(l)
      BY <1>1, <2>5, <3>1, ZenonT(30)
    <3> QED
      BY <2>1, <3>2
  <2>7. IF inThink THEN w.thinking = et \o l /\ w.remaining = er
        ELSE w.thinking = et /\ w.remaining = er \o l
    <3> DEFINE tl == et \o l
               rl == er \o l
    <3>1. w = IF inThink THEN [e EXCEPT !.thinking = tl] ELSE [e EXCEPT !.remaining = rl]
      BY <2>4
    <3> HIDE DEF tl, rl, e, w
    <3> QED
      BY <2>3, <3>1 DEF Parts, tl, rl
  <2>8. /\ Visible(shown \o (IF inThink THEN l ELSE <<>>)) = Visible(w.thinking)
        /\ Visible(said \o (IF inThink THEN <<>> ELSE l)) = Visible(w.remaining)
    <3> HIDE DEF w, et, er
    <3> QED
      BY <1>2, <2>1, <2>6, <2>7
  <2>9. Unary.thinking = w.thinking /\ Unary.content = w.remaining
    <3>1. CASE Open \in ToSet(c)
      BY <1>4, <1>7, <2>1, <3>1 DEF Unary, ResponseFromOpenAI, all, c, l
    <3>2. CASE Open \notin ToSet(c)
      <4> DEFINE z == <<>> \o all
      <4>1. Unary.thinking = <<>> /\ Unary.content = all
        BY <1>4, <1>7, <2>1, <3>2 DEF Unary, ResponseFromOpenAI, all, c, l
      <4>2. w = F("extract", Nothing, all)
        BY FoldsAre
      <4>3. w = [Nothing EXCEPT !.remaining = z]
        <5> HIDE DEF w
        <5> QED
          BY <1>3, <2>2, <3>2, <4>2, ExtractPlain
      <4>4. z = all
        BY <1>3, ConcatEmptySeq
      <4> HIDE DEF w, z
      <4>5. w.thinking = <<>> /\ w.remaining = all
        BY <2>2, <4>3, <4>4 DEF Parts
      <4> QED
        BY <4>1, <4>5
    <3> QED
      BY <3>1, <3>2
  <2> HIDE DEF w
  <2> QED
    BY <1>1, <1>7, <2>8, <2>9 DEF StreamAsUnary, shown, said, l
<1> QED
  BY <1>5, <1>6, <1>7

(* When all calls are answered every turn is answered by the one after it; *)
(* the texts are kept all the time.                                        *)
LEMMA TurnsAgree ==
  ConversationInv => ResultsFollowCalls
<1> SUFFICES ASSUME ConversationInv PROVE ResultsFollowCalls
  OBVIOUS
<1> DEFINE turns == toMessageParams.turns
           raw == Separated.rawMsgs
           At(i) == IF i \in DOMAIN turns THEN turns[i] ELSE Turn("", <<>>)
           l == Len(turns)
           joins == Translated.joins
<1>1. turns = Translated.turns /\ raw = Raw
  BY FoldsAre DEF toMessageParams, Translated, Raw
<1>2. /\ TextsKept(raw, turns) /\ CallsKept(turns, joins, Pending)
      /\ turns \in Seq(Turns) /\ joins \in BOOLEAN
  BY <1>1 DEF ConversationInv, ConversationTypes, Translations
<1>3. \A i, kind : Of(At(i), kind) = Turned(turns, i, kind)
  <2>1. \A kind : Of(Turn("", <<>>), kind) = {}
    BY DEF Of, Turn, ToSet
  <2> QED
    BY <2>1 DEF Turned
<1> HIDE DEF turns, raw, joins
<1>4. l \in Nat /\ DOMAIN turns = 1 .. l
  BY <1>2, LenProperties
<1>5. ASSUME Pending = {}, NEW i \in 0 .. l PROVE Of(At(i), "use") = Of(At(i + 1), "result")
  <2> DEFINE Use(k) == Turned(turns, k, "use")
             Answer(k) == Turned(turns, k, "result")
  <2>1. /\ \A k \in 0 .. l - 2 : Use(k) = Answer(k + 1)
        /\ joins => /\ Use(l) = {}
                    /\ Answer(l) \subseteq Use(l - 1) /\ Pending = Use(l - 1) \ Answer(l)
        /\ ~joins => Use(l - 1) = Answer(l) /\ Pending = Use(l)
    BY <1>2 DEF CallsKept
  <2>2. Use(l - 1) = Answer(l) /\ Use(l) = {}
    BY <1>5, <2>1
  <2>3. Answer(l + 1) = {}
    BY <1>4 DEF Turned
  <2> HIDE DEF Use, Answer, l
  <2>4. i \in 0 .. l - 2 \/ (i = l - 1 /\ i + 1 = l) \/ (i = l /\ i + 1 = l + 1)
    BY <1>4
  <2>5. Use(i) = Answer(i + 1)
    BY <2>1, <2>2, <2>3, <2>4
  <2> QED
    BY <1>3, <2>5 DEF Use, Answer
<1> QED
  BY <1>2, <1>5 DEF ResultsFollowCalls, TextsKept, turns, raw, l
(* The messages are those of the client. *)
Same(was, now) ==
  /\ now.role = was.role /\ now.calls = was.calls
  /\ now.content = IF was.content = Absent THEN "empty" ELSE was.content

(* What the client asks for is in the record, and of that in the JSON what *)
(* the upstream takes.                                                     *)
LEMMA RequestIs ==
  ASSUME NEW body, IsChatRequest(body)
  PROVE  LET req == RequestFromOpenAI(body)
             out == RequestToOpenAI(req)
         IN /\ req.schema = IF body.format.type = "json_schema" THEN body.format.schema ELSE <<>>
            /\ req.effort = IF body.effort # Absent THEN body.effort ELSE body.nested
            /\ req.grammar = body.grammar
            /\ out = [messages |-> out.messages, schema |-> req.schema, thinking |-> Absent,
                      grammar |-> <<>>]
            /\ Len(out.messages) = Len(body.messages)
            /\ \A i \in DOMAIN body.messages : Same(body.messages[i], out.messages[i])
<1> DEFINE was == body.messages
           req == RequestFromOpenAI(body)
           mid == req.messages
           out == RequestToOpenAI(req)
           now == out.messages
           n == Len(was)
<1>1. /\ req.schema = IF body.format.type = "json_schema" THEN body.format.schema ELSE <<>>
      /\ req.effort = IF body.effort # Absent THEN body.effort ELSE body.nested
      /\ req.grammar = body.grammar
  BY DEF RequestFromOpenAI
<1>2. n \in Nat /\ DOMAIN was = 1 .. n
  BY LenProperties DEF IsChatRequest
<1> DEFINE Mid(i) == [role |-> was[i].role, calls |-> was[i].calls,
                      text |-> IF was[i].content = "text" THEN "text" ELSE "",
                      raw  |-> IF was[i].content \in {"text", Absent} THEN Absent ELSE was[i].content]
           Now(m) == [role |-> m.role, calls |-> m.calls,
                      content |-> IF m.raw # Absent THEN m.raw
                                  ELSE IF m.text = "" THEN "empty" ELSE m.text]
<1>3. mid = [i \in DOMAIN was |-> Mid(i)]
  BY DEF RequestFromOpenAI
<1> HIDE DEF req
<1>4. now = [i \in DOMAIN mid |-> Now(mid[i])]
      /\ out = [messages |-> now, schema |-> req.schema, thinking |-> Absent, grammar |-> <<>>]
  BY DEF RequestToOpenAI
<1>5. ASSUME NEW i \in DOMAIN was PROVE Same(was[i], Now(Mid(i)))
  BY DEF Same, Absent
<1> HIDE DEF was, mid, now, Mid, Now, n
<1>6. now = [i \in 1 .. n |-> Now(Mid(i))]
  BY <1>2, <1>3, <1>4
<1>7. Len(now) = n
  BY <1>2, <1>6
<1>8. ASSUME NEW i \in DOMAIN was PROVE Same(was[i], now[i])
  BY <1>2, <1>5, <1>6
<1> HIDE DEF out
<1> QED
  BY <1>1, <1>4, <1>7, <1>8 DEF was, now, out, req, n
(* A request arrives as it was, or is refused for its schema. *)
LEMMA RequestsAgree ==
  Inputs => RequestKept
<1> DEFINE req == RequestFromOpenAI(input)
           body == RequestToOpenAI(req)
           schema == IF input.format.type = "json_schema" THEN input.format.schema ELSE <<>>
           asked == IF input.effort = Absent THEN input.nested ELSE input.effort
           was == input.messages
           Arrived(now) == /\ Len(now) = Len(was)
                           /\ \A i \in DOMAIN was : Same(was[i], now[i])
           Refused == input.grammar = <<>> /\ schema # <<>> /\ ~ToGrammar(schema[1]).ok
           Constrained(b) ==
             /\ b.schema = <<>>
             /\ b.grammar = IF input.grammar # <<>> THEN input.grammar
                            ELSE [i \in DOMAIN schema |-> ToGrammar(schema[i])]
           Switched(b) == (b.thinking = "on") <=> (asked \notin {Absent, "", "none", "minimal"})
<1>1. SUFFICES ASSUME side = "chat", IsChatRequest(input), NEW kind \in {"openai", "vllm", "llama-cpp"}
               PROVE  LET out == Upstream(kind, input)
                      IN IF ~out.ok THEN kind = "llama-cpp" /\ Refused
                         ELSE /\ Arrived(out.body.messages)
                              /\ kind = "vllm" => Switched(out.body)
                              /\ IF kind # "llama-cpp" THEN out.body.schema = schema
                                 ELSE Constrained(out.body)
  <2> SUFFICES ASSUME side = "chat", Inputs, NEW kind \in {"openai", "vllm", "llama-cpp"}
               PROVE  LET out == Upstream(kind, input)
                      IN IF ~out.ok THEN kind = "llama-cpp" /\ Refused
                         ELSE /\ Arrived(out.body.messages)
                              /\ kind = "vllm" => Switched(out.body)
                              /\ IF kind # "llama-cpp" THEN out.body.schema = schema
                                 ELSE Constrained(out.body)
    BY DEF RequestKept, Same
  <2>1. IsChatRequest(input)
    BY TranslationAssumption DEF Inputs
  <2> QED
    BY <2>1, <1>1
<1>2. /\ schema = <<>> \/ schema = <<schema[1]>>
      /\ input.grammar = <<>> \/ input.grammar = <<input.grammar[1]>>
  <2>1. \A list \in {input.format.schema, input.grammar} : list = <<>> \/ list = <<list[1]>>
    BY <1>1 DEF IsChatRequest
  <2>2. /\ input.format.schema = <<>> \/ input.format.schema = <<input.format.schema[1]>>
        /\ input.grammar = <<>> \/ input.grammar = <<input.grammar[1]>>
    BY <2>1
  <2> QED
    BY <2>2
<1>3. req.schema = schema /\ req.grammar = input.grammar /\ req.effort = asked
      /\ body = [messages |-> body.messages, schema |-> schema, thinking |-> Absent, grammar |-> <<>>]
      /\ Arrived(body.messages)
  <2>1. /\ req.schema = schema /\ req.grammar = input.grammar
        /\ req.effort = IF input.effort # Absent THEN input.effort ELSE input.nested
        /\ body = [messages |-> body.messages, schema |-> req.schema, thinking |-> Absent, grammar |-> <<>>]
        /\ Arrived(body.messages)
    BY <1>1, RequestIs
  <2>2. req.effort = asked
    BY <2>1
  <2> HIDE DEF req, body, schema, asked, Arrived
  <2> QED
    BY <2>1, <2>2
<1> DEFINE out == Upstream(kind, input)
<1>4. /\ kind = "openai" => out = Sent(body)
      /\ kind = "vllm" => out = vllmMutator(body, req)
      /\ kind = "llama-cpp" => out = llamacppMutator(body, req)
  BY DEF Upstream
<1> HIDE DEF req, body, out, Arrived, schema, asked
<1>5. body.thinking = Absent /\ body.schema = schema /\ body.grammar = <<>>
  BY <1>3
<1>6. CASE kind = "openai"
  BY <1>3, <1>4, <1>5, <1>6 DEF Sent, out
<1>7. CASE kind = "vllm"
  <2>1. CASE asked = Absent
    BY <1>3, <1>4, <1>5, <1>7, <2>1 DEF Sent, vllmMutator, Absent, out
  <2>2. CASE asked # Absent
    <3> DEFINE b == [body EXCEPT !.thinking = IF req.effort \in {"", "none", "minimal"} THEN "off" ELSE "on"]
    <3>1. out.ok = TRUE /\ out.body = b
      <4>1. req.effort # Absent
        BY <1>3, <2>2
      <4>2. vllmMutator(body, req) = Sent(b)
        BY <4>1 DEF vllmMutator
      <4> HIDE DEF b
      <4>3. out = Sent(b)
        BY <1>4, <1>7, <4>2
      <4> QED
        BY <4>3 DEF Sent
    <3>2. b.messages = body.messages /\ b.schema = schema /\ Switched(b)
      BY <1>3, <1>5, <2>2
    <3> HIDE DEF b
    <3> QED
      BY <1>3, <1>7, <3>1, <3>2 DEF out
  <2> QED
    BY <2>1, <2>2
<1>8. CASE kind = "llama-cpp"
  <2>1. ASSUME NEW g
        PROVE  LET b == injectGrammar(body, g)
               IN b.messages = body.messages /\ b.schema = <<>> /\ b.grammar = <<g>>
    <3> DEFINE m == body.messages
    <3>1. body = [messages |-> m, schema |-> schema, thinking |-> Absent, grammar |-> <<>>]
      BY <1>3
    <3> HIDE DEF m
    <3> QED
      BY <3>1 DEF injectGrammar
  <2>2. CASE input.grammar # <<>>
    <3> DEFINE b == injectGrammar(body, input.grammar[1])
    <3>1. out.ok = TRUE /\ out.body = b
      BY <1>3, <1>4, <1>8, <2>2 DEF llamacppMutator, Sent
    <3>2. b.messages = body.messages /\ b.schema = <<>> /\ b.grammar = input.grammar
      BY <1>2, <2>1, <2>2
    <3> HIDE DEF b
    <3> QED
      BY <1>3, <1>8, <2>2, <3>1, <3>2 DEF out
  <2>3. CASE input.grammar = <<>> /\ schema = <<>>
    <3>1. out.ok = TRUE /\ out.body = body
      BY <1>3, <1>4, <1>8, <2>3 DEF llamacppMutator, Sent
    <3>2. [i \in DOMAIN schema |-> ToGrammar(schema[i])] = <<>>
      BY <2>3
    <3> QED
      BY <1>3, <1>5, <1>8, <2>3, <3>1, <3>2 DEF out
  <2>4. CASE input.grammar = <<>> /\ schema # <<>>
    <3> DEFINE g == ToGrammar(schema[1])
               b == injectGrammar(body, g)
    <3>1. out = IF g.ok THEN Sent(b) ELSE NotSent
      BY <1>3, <1>4, <1>8, <2>4 DEF llamacppMutator
    <3>2. b.messages = body.messages /\ b.schema = <<>> /\ b.grammar = <<g>>
      BY <2>1
    <3>3. [i \in DOMAIN schema |-> ToGrammar(schema[i])] = <<g>>
      <4>1. DOMAIN schema = {1}
        BY <1>2, <2>4
      <4> DEFINE f == [i \in DOMAIN schema |-> ToGrammar(schema[i])]
      <4>2. DOMAIN f = 1 .. 1 /\ f[1] = g /\ f = [i \in 1 .. 1 |-> f[i]]
        BY <4>1
      <4> HIDE DEF f, g
      <4>3. f = <<g>>
        BY <4>2
      <4> QED
        BY <4>3 DEF f
    <3> HIDE DEF b
    <3>4. CASE g.ok
      <4>1. out.ok = TRUE /\ out.body = b
        BY <3>1, <3>4 DEF Sent
      <4> HIDE DEF g
      <4> QED
        BY <1>3, <1>8, <2>4, <3>2, <3>3, <4>1 DEF out
    <3>5. CASE ~g.ok
      <4>1. out.ok = FALSE
        BY <3>1, <3>5 DEF NotSent
      <4> QED
        BY <1>8, <2>4, <3>5, <4>1 DEF out
    <3> QED
      BY <3>4, <3>5
  <2> QED
    BY <2>2, <2>3, <2>4
<1> QED
  BY <1>6, <1>7, <1>8
(* What a float32 holds stays when it is put into a float32 again.         *)
LEMMA Float32Is ==
  ASSUME NEW xs \in Seq(Numbers)
  PROVE  float32(float32(xs)) = float32(xs)
<1> DEFINE n == Len(xs)
           ys == float32(xs)
<1>1. DOMAIN xs = 1 .. n /\ \A i \in 1 .. n : xs[i] \in Numbers
  OBVIOUS
<1> HIDE DEF n
<1>2. ys = [i \in 1 .. n |-> [xs[i] EXCEPT !.low = 0]]
  BY <1>1 DEF float32
<1>3. \A i \in 1 .. n : ys[i] = [xs[i] EXCEPT !.low = 0]
  BY <1>2
<1>4. \A i \in 1 .. n : [ys[i] EXCEPT !.low = 0] = ys[i]
  <2> SUFFICES ASSUME NEW i \in 1 .. n PROVE [ys[i] EXCEPT !.low = 0] = ys[i]
    OBVIOUS
  <2> DEFINE x == xs[i]
             y == ys[i]
  <2>1. x \in Numbers /\ y = [x EXCEPT !.low = 0]
    BY <1>1, <1>3
  <2> HIDE DEF x, y
  <2>2. y \in Numbers /\ y.low = 0
    BY <2>1 DEF Numbers
  <2>3. [y EXCEPT !.low = 0] = y
    BY <2>2 DEF Numbers
  <2> QED
    BY <2>3 DEF y
<1>5. DOMAIN ys = 1 .. n
  BY <1>2
<1>6. float32(ys) = [i \in 1 .. n |-> [ys[i] EXCEPT !.low = 0]]
  BY <1>5 DEF float32
<1> HIDE DEF ys
<1>7. [i \in 1 .. n |-> [ys[i] EXCEPT !.low = 0]] = [i \in 1 .. n |-> ys[i]]
  BY <1>4
<1>8. ys = [i \in 1 .. n |-> ys[i]]
  BY <1>2
<1> QED
  BY <1>6, <1>7, <1>8 DEF ys

(* What the handler answers of the i-th of the upstream's vectors.         *)
LEMMA AnswerIs ==
  ASSUME NEW call, IsEmbedCall(call)
  PROVE  LET data == EmbedAnswer(call)
         IN /\ DOMAIN data = DOMAIN call.texts /\ Len(data) = Len(call.texts)
            /\ \A i \in DOMAIN call.texts :
                 LET xs == call.vectors[call.order[i]]
                     ys == IF call.gives = "base64" THEN float32(xs) ELSE xs
                 IN data[i] = [index |-> call.order[i] - 1,
                               embedding |-> Encoded(ys, IF call.wants = "" THEN "float" ELSE call.wants)]
<1> DEFINE texts == call.texts
           n == Len(texts)
           req == EmbedRequestFromOpenAI(call)
           up == EmbedRequestToOpenAI(req)
           raw == EmbedUpstream(call, up)
           mid == EmbedResponseFromOpenAI(raw)
           data == EmbedResponseToOpenAI(mid, req.format)
           format == IF call.wants = "" THEN "float" ELSE call.wants
           Vector(i) == call.vectors[call.order[i]]
           Given(i) == Encoded(Vector(i), IF call.gives = "" THEN "float" ELSE call.gives)
<1>1. n \in Nat /\ DOMAIN texts = 1 .. n
  BY LenProperties DEF IsEmbedCall
<1>2. decodeEmbedInput(call) = texts
  <2>1. texts \in Seq(STRING) /\ (call.kind = "string" => Len(texts) = 1)
    BY DEF IsEmbedCall
  <2> HIDE DEF texts
  <2>2. Len(texts) = 1 => <<texts[1]>> = texts
    BY <2>1
  <2> QED
    BY <2>1, <2>2 DEF decodeEmbedInput, texts
<1>3. req.input = texts /\ req.format = format
  BY <1>2 DEF EmbedRequestFromOpenAI
<1> HIDE DEF req
<1>4. up.input = texts /\ up.format = "float"
  BY <1>3 DEF EmbedRequestToOpenAI
<1> HIDE DEF up
<1>5. raw = [i \in DOMAIN texts |-> [index |-> call.order[i] - 1, embedding |-> Given(i)]]
  BY <1>4 DEF EmbedUpstream
<1> HIDE DEF raw, Given
<1>6. mid = [i \in DOMAIN raw |-> [index |-> raw[i].index, values |-> raw[i].embedding.values]]
  BY DEF EmbedResponseFromOpenAI
<1>7. mid = [i \in DOMAIN texts |-> [index |-> call.order[i] - 1, values |-> Given(i).values]]
  <2> HIDE DEF mid, texts
  <2> QED
    BY <1>5, <1>6
<1> HIDE DEF mid
<1>8. data = [i \in DOMAIN mid |-> [index |-> mid[i].index,
                                   embedding |-> Encoded(mid[i].values, req.format)]]
  BY DEF EmbedResponseToOpenAI
<1> HIDE DEF data, texts, format
<1>9. data = [i \in 1 .. n |-> [index |-> call.order[i] - 1,
                                embedding |-> Encoded(Given(i).values, format)]]
  BY <1>1, <1>3, <1>7, <1>8
<1>10. ASSUME NEW i
       PROVE  Given(i).values = IF call.gives = "base64" THEN float32(Vector(i)) ELSE Vector(i)
  <2> HIDE DEF Vector
  <2> QED
    BY DEF Given, Encoded
<1> HIDE DEF n
<1>11. DOMAIN data = 1 .. n /\ Len(data) = n
  BY <1>1, <1>9
<1>12. data = EmbedAnswer(call)
  BY DEF EmbedAnswer, data, mid, raw, up, req
<1>13. ASSUME NEW i \in DOMAIN texts
       PROVE  data[i] = [index |-> call.order[i] - 1, embedding |->
                Encoded(IF call.gives = "base64" THEN float32(Vector(i)) ELSE Vector(i), format)]
  BY <1>1, <1>9, <1>10
<1> HIDE DEF Given
<1> QED
  BY <1>1, <1>11, <1>12, <1>13 DEF n, texts, format

(* Every text gets its vector. *)
LEMMA EmbeddingsAgree ==
  Inputs => EmbeddingsKept
<1>1. SUFFICES ASSUME side = "embed", Inputs PROVE EmbeddingsKept
  BY DEF EmbeddingsKept
<1> DEFINE data == EmbedAnswer(input)
           texts == input.texts
           order == input.order
           format == IF input.wants = "" THEN "float" ELSE input.wants
<1>2. IsEmbedCall(input)
  BY <1>1, TranslationAssumption DEF Inputs
<1>3. /\ texts \in Seq(STRING) /\ DOMAIN texts = 1 .. Len(texts) /\ Len(texts) \in Nat
      /\ input.vectors \in Seq(Seq(Numbers)) /\ Len(input.vectors) = Len(texts)
      /\ order \in [DOMAIN texts -> DOMAIN texts]
      /\ \A i, j \in DOMAIN texts : order[i] = order[j] => i = j
      /\ \A k \in DOMAIN texts : \E i \in DOMAIN texts : order[i] = k
  BY <1>2, LenProperties DEF IsEmbedCall, Bijection, Injection, Surjection, IsInjective
<1>4. /\ DOMAIN data = DOMAIN texts /\ Len(data) = Len(texts)
      /\ \A i \in DOMAIN texts :
           LET xs == input.vectors[order[i]]
               ys == IF input.gives = "base64" THEN float32(xs) ELSE xs
           IN data[i] = [index |-> order[i] - 1, embedding |-> Encoded(ys, format)]
  BY <1>2, AnswerIs
<1> HIDE DEF data, order, texts
<1>5. ASSUME NEW k \in DOMAIN texts
      PROVE  \E i \in DOMAIN data :
            /\ \A j \in DOMAIN data : data[j].index = k - 1 <=> j = i
            /\ data[i].embedding.base64 = (input.wants = "base64")
            /\ data[i].embedding.values =
                 IF "base64" \in {input.wants, input.gives} THEN float32(input.vectors[k])
                 ELSE input.vectors[k]
  <2>1. PICK i \in DOMAIN texts : order[i] = k
    BY <1>3
  <2>2. \A j \in DOMAIN data : data[j].index = k - 1 <=> j = i
    <3>1. ASSUME NEW j \in DOMAIN texts PROVE data[j].index = k - 1 <=> j = i
      <4> DEFINE p == order[j]
                 e == Encoded(IF input.gives = "base64" THEN float32(input.vectors[p])
                              ELSE input.vectors[p], format)
      <4>1. data[j] = [index |-> p - 1, embedding |-> e]
        BY <1>4
      <4> HIDE DEF e
      <4>2. data[j].index = p - 1
        BY <4>1
      <4>3. p \in DOMAIN texts /\ (p = k <=> j = i)
        BY <1>3, <2>1
      <4> HIDE DEF p
      <4>4. p \in Nat /\ k \in Nat
        <5>1. \A x \in DOMAIN texts : x \in Nat
          BY <1>3
        <5> QED
          BY <4>3, <5>1
      <4> QED
        BY <4>2, <4>3, <4>4
    <3> QED
      BY <1>4, <3>1
  <2> DEFINE xs == input.vectors[k]
             ys == IF input.gives = "base64" THEN float32(xs) ELSE xs
  <2>3. xs \in Seq(Numbers)
    BY <1>3, ElementOfSeq
  <2> HIDE DEF xs, format
  <2>4. data[i].embedding = Encoded(ys, format)
    BY <1>4, <2>1 DEF xs
  <2>5. float32(float32(xs)) = float32(xs)
    BY <2>3, Float32Is
  <2>6. (format = "base64") = (input.wants = "base64")
    BY DEF format
  <2>7. data[i].embedding.base64 = (input.wants = "base64")
    <3>1. CASE format = "base64"
      <4>1. data[i].embedding.base64 = TRUE
        BY <2>4, <3>1 DEF Encoded
      <4>2. (input.wants = "base64") = TRUE
        BY <2>6, <3>1
      <4> QED
        BY <4>1, <4>2, Zenon
    <3>2. CASE format # "base64"
      <4>1. data[i].embedding.base64 = FALSE
        BY <2>4, <3>2 DEF Encoded
      <4>2. (input.wants = "base64") = FALSE
        BY <2>6, <3>2
      <4> QED
        BY <4>1, <4>2, Zenon
    <3> QED
      BY <3>1, <3>2
  <2>8. data[i].embedding.values =
          IF "base64" \in {input.wants, input.gives} THEN float32(xs) ELSE xs
    BY <2>4, <2>5, <2>6 DEF Encoded
  <2> QED
    BY <1>4, <2>1, <2>2, <2>7, <2>8 DEF xs
<1> QED
  BY <1>4, <1>5 DEF EmbeddingsKept, data, texts

-----------------------------------------------------------------------------
(* The properties.                                                         *)

(* Streamed or not, a client reads the same thoughts and text, and an      *)
(* anthropic stream has the calls of the whole answer.                     *)
THEOREM StreamsAsUnary ==
  Spec => []StreamAsUnary
<1>1. TranslationInv => StreamAsUnary
  BY ReadingsAgree DEF TranslationInv
<1> QED
  BY <1>1, TranslationInvariant, PTL

(* Anthropic is sent the results of a turn's calls in the turn after it,   *)
(* and every text in a turn of its role and in its order.                  *)
THEOREM ResultsAlwaysFollow ==
  Spec => []ResultsFollowCalls
<1>1. TranslationInv => ResultsFollowCalls
  BY TurnsAgree DEF TranslationInv
<1> QED
  BY <1>1, TranslationInvariant, PTL

(* A chat request arrives with its messages, its schema or grammar and its *)
(* thinking switch, or is refused because its schema has no grammar.       *)
THEOREM RequestsKept ==
  Spec => []RequestKept
<1>1. TranslationInv => RequestKept
  BY RequestsAgree DEF TranslationInv
<1> QED
  BY <1>1, TranslationInvariant, PTL

(* Every text of a call of the embeddings gets its own vector.             *)
THEOREM EmbeddingsAlwaysKept ==
  Spec => []EmbeddingsKept
<1>1. TranslationInv => EmbeddingsKept
  BY EmbeddingsAgree DEF TranslationInv
<1> QED
  BY <1>1, TranslationInvariant, PTL
=============================================================================
