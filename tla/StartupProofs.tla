---------------------------- MODULE StartupProofs ----------------------------
(***************************************************************************)
(* What TLAPS proves of Startup for every deployment: any number of        *)
(* providers, models, requests and signals, any load and any answer of an  *)
(* upstream.  The first part is about the routing table, its lookups and   *)
(* the discovery of models: RoutingInv says that the table is the one of   *)
(* the last reports, and what the lookups promise follows from it.  The    *)
(* second part is about the process.                                       *)
(***************************************************************************)
EXTENDS Startup, FiniteSetTheorems, SequenceTheorems, WellFoundedInduction, TLAPS

-----------------------------------------------------------------------------
(* Induction and folds.  A fold over a sequence is defined by recursion;   *)
(* FoldSteps gives its intermediate results, about which lemmas argue by   *)
(* Induction.  No lemma can have an operator as a parameter here: Step     *)
(* names the operators the model folds with, and F is the fold with one.   *)

(* What holds of 0, and of n + 1 when it holds of n, holds of every        *)
(* number.                                                                 *)
LEMMA Induction ==
  ASSUME NEW S, 0 \in S, \A n \in Nat : n \in S => n + 1 \in S
  PROVE  \A n \in Nat : n \in S
<1> DEFINE U == {n \in Nat : n \notin S}
<1>1. SUFFICES ASSUME U # {} PROVE FALSE
  OBVIOUS
<1>2. U \subseteq Nat
  OBVIOUS
<1>3. PICK m \in U : \A y \in U : ~ (<<y, m>> \in OpToRel(<, Nat))
  <2> HIDE DEF U
  <2> QED
    BY <1>1, <1>2, WFMin, NatLessThanWellFounded, Zenon
<1>4. \A y \in U : ~ (y < m)
  BY <1>2, <1>3, Zenon DEF OpToRel
<1>5. m # 0 /\ m - 1 \in Nat /\ m - 1 \notin U
  BY <1>4
<1> QED
  BY <1>5

(* Induction up to a bound. *)
LEMMA UpTo ==
  ASSUME NEW n \in Nat, NEW S, 0 \in S, \A k \in 1 .. n : k - 1 \in S => k \in S
  PROVE  \A k \in 0 .. n : k \in S
<1> DEFINE T == {k \in Nat : k <= n => k \in S}
<1>1. 0 \in T /\ \A k \in Nat : k \in T => k + 1 \in T
  OBVIOUS
<1> HIDE DEF T
<1>2. \A k \in Nat : k \in T
  BY <1>1, Induction
<1> QED
  BY <1>2 DEF T

(* A bounded set of numbers has a least and a greatest element. *)
LEMMA Least ==
  ASSUME NEW S \in SUBSET Nat, S # {}
  PROVE  \E m \in S : \A k \in S : m <= k
<1> SUFFICES ASSUME \A m \in S : \E k \in S : k < m PROVE FALSE
  OBVIOUS
<1> DEFINE T == {n \in Nat : \A k \in S : n <= k}
<1>1. 0 \in T /\ \A n \in Nat : n \in T => n + 1 \in T
  OBVIOUS
<1> HIDE DEF T
<1>2. \A n \in Nat : n \in T
  BY <1>1, Induction
<1>3. PICK k \in S : TRUE
  OBVIOUS
<1>4. k + 1 \in T
  BY <1>2
<1> QED
  BY <1>4 DEF T

(* A set of numbers up to n that is not empty has a greatest element. *)
LEMMA Greatest ==
  ASSUME NEW n \in Nat, NEW S \in SUBSET (1 .. n), S # {}
  PROVE  \E m \in S : \A k \in S : k <= m
<1> DEFINE T == {u \in Nat : \A k \in S : k <= u}
<1>1. n \in T
  OBVIOUS
<1>2. PICK m \in T : \A u \in T : m <= u
  <2>1. T \in SUBSET Nat /\ T # {}
    BY <1>1
  <2> HIDE DEF T
  <2> QED
    BY <2>1, Least
<1>3. m # 0
  <2>1. PICK k \in S : TRUE
    OBVIOUS
  <2> QED
    BY <2>1
<1>4. m - 1 \in Nat /\ m - 1 \notin T
  BY <1>2, <1>3
<1> QED
  BY <1>4

(* The greatest element of a set of numbers up to n that n belongs to is   *)
(* n.                                                                      *)
LEMMA MaxOf ==
  ASSUME NEW n \in Nat, NEW S \in SUBSET (1 .. n), n \in S
  PROVE  Max(S) = n
<1>1. \E x \in S : \A y \in S : x >= y
  OBVIOUS
<1>2. Max(S) \in S /\ \A y \in S : Max(S) >= y
  BY <1>1 DEF Max
<1>3. Max(S) \in 1 .. n /\ Max(S) >= n
  BY <1>2
<1> QED
  BY <1>3

(* What a fold does with its accumulator u and the next element x. *)
Step(op, u, x) ==
  CASE op[1] = "among"    -> IF x \in op[2] THEN Append(u, x) ELSE u
    [] op[1] = "new"      -> IF Contains(u, x) THEN u ELSE Append(u, x)
    [] op[1] = "place"    -> LET before == {i \in DOMAIN u : op[2][u[i]] <= op[2][x]}
                             IN InsertAt(u, Cardinality(before) + 1, x)
    [] op[1] = "globs"    -> IF Matches(x, op[3]) THEN AppendNew(u, op[2].fallbacks[x]) ELSE u
    [] op[1] = "expand"   -> LET ps == op[2].fallbacks[x.id]
                             IN AppendNew(u, [i \in DOMAIN ps |-> Candidate(x.id, ps[i])])
    [] op[1] = "model"    -> AddModel(op[2], u, Overridden(op[2], x))
    [] op[1] = "provider" -> AddProvider(u, x, op[2][x])

(* The fold of the community modules with that operator. *)
F(op, base, s) == FoldLeft(LAMBDA u, x : Step(op, u, x), base, s)

(* The function whose existence the definition of the fold is about. *)
IsFold(op, base, s, n, g) ==
  g = [S \in SUBSET (1 .. n) |->
         IF S = {} THEN base ELSE Step(op, g[S \ {Max(S)}], s[Max(S)])]

(* Every sequence has such a function. *)
LEMMA FoldExists ==
  ASSUME NEW op, NEW base, NEW s
  PROVE  \A n \in Nat : \E g : IsFold(op, base, s, n, g)
<1> DEFINE P(n) == \E g : IsFold(op, base, s, n, g)
<1>1. P(0)
  <2>1. IsFold(op, base, s, 0, [S \in SUBSET (1 .. 0) |-> base])
    BY DEF IsFold
  <2> QED
    BY <2>1
<1>2. ASSUME NEW n \in Nat, P(n) PROVE P(n + 1)
  <2>1. PICK g : IsFold(op, base, s, n, g)
    BY <1>2
  <2> DEFINE h == [S \in SUBSET (1 .. n + 1) |->
                     IF n + 1 \in S THEN Step(op, g[S \ {n + 1}], s[n + 1]) ELSE g[S]]
  <2>2. ASSUME NEW S \in SUBSET (1 .. n + 1)
        PROVE  h[S] = IF S = {} THEN base ELSE Step(op, h[S \ {Max(S)}], s[Max(S)])
    <3>1. CASE n + 1 \in S
      <4>1. Max(S) = n + 1
        BY <3>1, MaxOf
      <4>2. S \ {n + 1} \in SUBSET (1 .. n) /\ S \ {n + 1} \in SUBSET (1 .. n + 1)
            /\ n + 1 \notin S \ {n + 1}
        BY SMT
      <4>3. h[S] = Step(op, g[S \ {n + 1}], s[n + 1]) /\ h[S \ {n + 1}] = g[S \ {n + 1}]
        BY <3>1, <4>2
      <4> QED
        BY <3>1, <4>1, <4>3
    <3>2. CASE n + 1 \notin S
      <4>1. S \in SUBSET (1 .. n)
        BY <3>2
      <4>2. h[S] = g[S]
        BY <3>2
      <4>3. CASE S = {}
        BY <2>1, <4>1, <4>2, <4>3 DEF IsFold
      <4>4. CASE S # {}
        <5>1. S \ {Max(S)} \in SUBSET (1 .. n) /\ S \ {Max(S)} \in SUBSET (1 .. n + 1)
              /\ n + 1 \notin S \ {Max(S)}
          BY <3>2, <4>1
        <5>2. h[S \ {Max(S)}] = g[S \ {Max(S)}]
          BY <5>1
        <5> QED
          BY <2>1, <4>1, <4>2, <4>4, <5>2 DEF IsFold
      <4> QED
        BY <4>3, <4>4
    <3> QED
      BY <3>1, <3>2
  <2>3. IsFold(op, base, s, n + 1, h)
    BY <2>2 DEF IsFold
  <2> QED
    BY <2>3
<1>3. \A n \in Nat : P(n)
  <2> DEFINE T == {n \in Nat : P(n)}
  <2> HIDE DEF P
  <2>1. 0 \in T /\ \A n \in Nat : n \in T => n + 1 \in T
    BY <1>1, <1>2
  <2>2. \A n \in Nat : n \in T
    BY <2>1, Induction
  <2> QED
    BY <2>2
<1> QED
  BY <1>3

(* h[k] is what the fold has after k elements of the n. *)
Run(op, base, s, n, h) ==
  /\ h[0] = base
  /\ \A k \in 1 .. n : h[k] = Step(op, h[k - 1], s[k])
  /\ F(op, base, s) = h[n]

(* A fold has its intermediate results. *)
LEMMA FoldSteps ==
  ASSUME NEW op, NEW base, NEW s, NEW n \in Nat, DOMAIN s = 1 .. n
  PROVE  \E h : Run(op, base, s, n, h)
<1> DEFINE g == CHOOSE g : IsFold(op, base, s, n, g)
<1>1. IsFold(op, base, s, n, g)
  BY FoldExists
<1>2. F(op, base, s) = g[1 .. n]
  BY DEF F, FoldLeft, MapThenFoldSet, IsFold
<1> HIDE DEF g
<1> DEFINE h == [k \in 0 .. n |-> g[1 .. k]]
<1>3. h[0] = base
  BY <1>1 DEF IsFold
<1>4. ASSUME NEW k \in 1 .. n PROVE h[k] = Step(op, h[k - 1], s[k])
  <2>1. 1 .. k \in SUBSET (1 .. n) /\ Max(1 .. k) = k /\ (1 .. k) \ {k} = 1 .. (k - 1)
        /\ 1 .. k # {}
    <3>1. 1 .. k \in SUBSET (1 .. n) /\ (1 .. k) \ {k} = 1 .. (k - 1) /\ k \in 1 .. k /\ k \in Nat
      OBVIOUS
    <3>2. Max(1 .. k) = k
      BY <3>1, MaxOf
    <3> QED
      BY <3>1, <3>2
  <2>2. g[1 .. k] = Step(op, g[1 .. (k - 1)], s[k])
    BY <1>1, <2>1 DEF IsFold
  <2> QED
    BY <2>2
<1>5. h[n] = g[1 .. n]
  OBVIOUS
<1> HIDE DEF h
<1> QED
  BY <1>2, <1>3, <1>4, <1>5 DEF Run

(* The folds of the model. *)
LEMMA FoldsAre ==
  /\ \A s, S : Among(s, S) = F(<<"among", S>>, <<>>, s)
  /\ \A out, s : AppendNew(out, s) = F(<<"new">>, out, s)
  /\ \A s, busy : StableSort(s, busy) = F(<<"place", busy>>, <<>>, s)
  /\ \A t, id : GlobProviders(t, id) = F(<<"globs", t, id>>, <<>>, t.globs)
  /\ \A r : BuildTable(r) = F(<<"provider", r>>, EmptyTable, Registered)
  /\ \A t, p, report : AddProvider(t, p, report) =
       IF ~report.ok THEN t ELSE F(<<"model", p>>, t, report.models)
<1>1. \A s, S : Among(s, S) = F(<<"among", S>>, <<>>, s)
  BY DEF Among, F, Step, FoldLeft, MapThenFoldSet
<1>2. \A out, s : AppendNew(out, s) = F(<<"new">>, out, s)
  BY DEF AppendNew, F, Step, FoldLeft, MapThenFoldSet
<1>3. \A s, busy : StableSort(s, busy) = F(<<"place", busy>>, <<>>, s)
  BY DEF StableSort, F, Step, FoldLeft, MapThenFoldSet
<1>4. \A t, id : GlobProviders(t, id) = F(<<"globs", t, id>>, <<>>, t.globs)
  BY DEF GlobProviders, F, Step, FoldLeft, MapThenFoldSet
<1>5. \A r : BuildTable(r) = F(<<"provider", r>>, EmptyTable, Registered)
  BY DEF BuildTable, F, Step, FoldLeft, MapThenFoldSet
<1>6. \A t, p, report : AddProvider(t, p, report) =
       IF ~report.ok THEN t ELSE F(<<"model", p>>, t, report.models)
  BY DEF AddProvider, F, Step, FoldLeft, MapThenFoldSet
<1> QED
  BY <1>1, <1>2, <1>3, <1>4, <1>5, <1>6

-----------------------------------------------------------------------------
(* Sequences: what the helpers of the model return.                        *)

(* Append keeps what there is and puts x behind it. *)
LEMMA Appended ==
  ASSUME NEW X, NEW u \in Seq(X), NEW x \in X
  PROVE  /\ Append(u, x) \in Seq(X) /\ Len(Append(u, x)) = Len(u) + 1
         /\ \A i \in 1 .. Len(u) : Append(u, x)[i] = u[i]
         /\ Append(u, x)[Len(u) + 1] = x
         /\ ToSet(Append(u, x)) = ToSet(u) \cup {x}
<1>1. /\ Append(u, x) \in Seq(X) /\ Len(Append(u, x)) = Len(u) + 1
      /\ \A i \in 1 .. Len(u) : Append(u, x)[i] = u[i]
      /\ Append(u, x)[Len(u) + 1] = x
  BY AppendProperties
<1>2. DOMAIN u = 1 .. Len(u) /\ DOMAIN Append(u, x) = 1 .. Len(u) + 1 /\ Len(u) \in Nat
  BY <1>1
<1>3. ASSUME NEW y PROVE y \in ToSet(Append(u, x)) <=> y \in ToSet(u) \cup {x}
  <2>1. y \in ToSet(Append(u, x)) => y \in ToSet(u) \cup {x}
    <3> SUFFICES ASSUME NEW i \in 1 .. Len(u) + 1, y = Append(u, x)[i] PROVE y \in ToSet(u) \cup {x}
      BY <1>2 DEF ToSet
    <3> QED
      BY <1>1, <1>2 DEF ToSet
  <2>2. y \in ToSet(u) => y \in ToSet(Append(u, x))
    <3> SUFFICES ASSUME NEW i \in 1 .. Len(u), y = u[i] PROVE y \in ToSet(Append(u, x))
      BY <1>2 DEF ToSet
    <3>1. i \in 1 .. Len(u) + 1 /\ Append(u, x)[i] = y
      BY <1>1, <1>2
    <3> QED
      BY <1>2, <3>1 DEF ToSet
  <2>3. x \in ToSet(Append(u, x))
    <3>1. Len(u) + 1 \in 1 .. Len(u) + 1
      BY <1>2
    <3> QED
      BY <1>1, <1>2, <3>1 DEF ToSet
  <2> QED
    BY <2>1, <2>2, <2>3
<1> QED
  BY <1>1, <1>3

(* The members of a sequence, and when there are none. *)
LEMMA SetOf ==
  ASSUME NEW X, NEW s \in Seq(X)
  PROVE  /\ DOMAIN s = 1 .. Len(s) /\ Len(s) \in Nat /\ ToSet(s) \subseteq X
         /\ \A x : Contains(s, x) <=> x \in ToSet(s)
         /\ s = <<>> <=> Len(s) = 0
         /\ s = <<>> <=> ToSet(s) = {}
<1>1. DOMAIN s = 1 .. Len(s) /\ Len(s) \in Nat /\ \A i \in 1 .. Len(s) : s[i] \in X
  OBVIOUS
<1>2. s = <<>> <=> Len(s) = 0
  OBVIOUS
<1>3. s # <<>> => s[1] \in ToSet(s)
  BY <1>1, <1>2 DEF ToSet
<1>4. s = <<>> => ToSet(s) = {}
  BY <1>1, <1>2 DEF ToSet
<1> QED
  BY <1>1, <1>2, <1>3, <1>4 DEF ToSet, Contains

(* Among keeps the elements of S and the first of them is the first of s.  *)
LEMMA AmongIs ==
  ASSUME NEW X, NEW s \in Seq(X), NEW S
  PROVE  /\ Among(s, S) \in Seq(X)
         /\ ToSet(Among(s, S)) = ToSet(s) \cap S
         /\ Among(s, S) # <<>> =>
              \E k \in DOMAIN s : /\ s[k] \in S /\ Among(s, S)[1] = s[k]
                                  /\ \A j \in 1 .. (k - 1) : s[j] \notin S
<1> DEFINE n == Len(s)
           op == <<"among", S>>
<1>1. n \in Nat /\ DOMAIN s = 1 .. n /\ \A k \in 1 .. n : s[k] \in X
  OBVIOUS
<1> HIDE DEF n, op
<1>2. PICK h : Run(op, <<>>, s, n, h)
  BY <1>1, FoldSteps
<1> DEFINE First(r, k) == \E i \in 1 .. k : /\ s[i] \in S /\ r[1] = s[i]
                                            /\ \A j \in 1 .. (i - 1) : s[j] \notin S
           P(k) == /\ h[k] \in Seq(X)
                   /\ ToSet(h[k]) = {s[i] : i \in 1 .. k} \cap S
                   /\ h[k] # <<>> => First(h[k], k)
           T == {k \in 0 .. n : P(k)}
<1>3. 0 \in T
  <2>1. <<>> \in Seq(X) /\ ToSet(<<>>) = {}
    BY DEF ToSet
  <2>2. {s[i] : i \in 1 .. 0} = {} /\ 0 \in 0 .. n
    BY <1>1
  <2>3. h[0] = <<>>
    BY <1>2 DEF Run
  <2> QED
    BY <2>1, <2>2, <2>3
<1>4. ASSUME NEW k \in 1 .. n, k - 1 \in T PROVE k \in T
  <2>1. h[k] = IF s[k] \in S THEN Append(h[k - 1], s[k]) ELSE h[k - 1]
    BY <1>2 DEF Run, Step, op
  <2>2. {s[i] : i \in 1 .. k} = {s[i] : i \in 1 .. (k - 1)} \cup {s[k]}
    BY <1>1
  <2>3. k - 1 \in 0 .. n /\ P(k - 1) /\ s[k] \in X
    BY <1>1, <1>4
  <2>4. CASE s[k] \notin S
    <3>1. h[k] # <<>> => First(h[k], k)
      BY <1>1, <2>1, <2>3, <2>4
    <3> QED
      BY <2>1, <2>2, <2>3, <2>4, <3>1
  <2>5. CASE s[k] \in S
    <3>1. h[k] = Append(h[k - 1], s[k]) /\ h[k] \in Seq(X) /\ ToSet(h[k]) = ToSet(h[k - 1]) \cup {s[k]}
      BY <2>1, <2>3, <2>5, Appended
    <3>2. First(h[k], k)
      <4>1. CASE h[k - 1] = <<>>
        <5>1. h[k][1] = s[k]
          BY <2>3, <3>1, <4>1, Appended
        <5>2. \A j \in 1 .. (k - 1) : s[j] \notin S
          <6>1. {s[i] : i \in 1 .. (k - 1)} \cap S = {}
            BY <2>3, <4>1 DEF ToSet
          <6> QED
            BY <6>1
        <5> QED
          BY <1>1, <2>5, <5>1, <5>2
      <4>2. CASE h[k - 1] # <<>>
        <5>1. h[k][1] = h[k - 1][1]
          BY <2>3, <3>1, <4>2, Appended
        <5>2. First(h[k - 1], k - 1)
          BY <2>3, <4>2
        <5> QED
          BY <5>1, <5>2
      <4> QED
        BY <4>1, <4>2
    <3>3. ToSet(h[k]) = {s[i] : i \in 1 .. k} \cap S
      <4>1. ToSet(h[k - 1]) = {s[i] : i \in 1 .. (k - 1)} \cap S
        BY <2>3
      <4> QED
        BY <2>2, <2>5, <3>1, <4>1, Zenon
    <3>4. P(k) /\ k \in 0 .. n
      BY <3>1, <3>2, <3>3
    <3> QED
      BY <3>4
  <2> QED
    BY <2>4, <2>5
<1> HIDE DEF T
<1>5. n \in T
  BY <1>1, <1>3, <1>4, UpTo
<1>6. P(n)
  BY <1>5 DEF T
<1>7. {s[i] : i \in 1 .. n} = ToSet(s)
  BY <1>1 DEF ToSet
<1>8. Among(s, S) = h[n]
  BY <1>2, FoldsAre DEF Run, op
<1> QED
  BY <1>1, <1>6, <1>7, <1>8

(* A sequence without repetitions keeps none when something new is         *)
(* appended.                                                               *)
LEMMA AppendedInjective ==
  ASSUME NEW X, NEW u \in Seq(X), NEW x \in X, IsInjective(u), x \notin ToSet(u)
  PROVE  IsInjective(Append(u, x))
<1>1. Append(u, x) \in Seq(X) /\ Len(Append(u, x)) = Len(u) + 1 /\ Append(u, x)[Len(u) + 1] = x
      /\ \A i \in 1 .. Len(u) : Append(u, x)[i] = u[i]
  BY Appended
<1>2. DOMAIN u = 1 .. Len(u) /\ DOMAIN Append(u, x) = 1 .. Len(u) + 1 /\ Len(u) \in Nat
  BY <1>1
<1>3. \A i \in 1 .. Len(u) : u[i] # x
  BY <1>2 DEF ToSet
<1> QED
  BY <1>1, <1>2, <1>3 DEF IsInjective

(* AppendNew adds what is missing, once, behind what there is. *)
LEMMA AppendNewIs ==
  ASSUME NEW X, NEW out \in Seq(X), NEW s \in Seq(X), IsInjective(out)
  PROVE  /\ AppendNew(out, s) \in Seq(X)
         /\ IsInjective(AppendNew(out, s))
         /\ ToSet(AppendNew(out, s)) = ToSet(out) \cup ToSet(s)
         /\ Len(out) <= Len(AppendNew(out, s))
         /\ \A i \in 1 .. Len(out) : AppendNew(out, s)[i] = out[i]
         /\ out = <<>> /\ s # <<>> => AppendNew(out, s)[1] = s[1]
<1> DEFINE n == Len(s)
           op == <<"new">>
<1>1. n \in Nat /\ DOMAIN s = 1 .. n /\ \A k \in 1 .. n : s[k] \in X
  OBVIOUS
<1> HIDE DEF n, op
<1>2. PICK h : Run(op, out, s, n, h)
  BY <1>1, FoldSteps
<1> DEFINE P(k) == /\ h[k] \in Seq(X)
                   /\ IsInjective(h[k])
                   /\ ToSet(h[k]) = ToSet(out) \cup {s[i] : i \in 1 .. k}
                   /\ Len(out) <= Len(h[k]) /\ \A i \in 1 .. Len(out) : h[k][i] = out[i]
                   /\ k >= 1 /\ out = <<>> => h[k] # <<>> /\ h[k][1] = s[1]
           T == {k \in 0 .. n : P(k)}
<1>3. 0 \in T
  <2>1. h[0] = out /\ {s[i] : i \in 1 .. 0} = {} /\ 0 \in 0 .. n
    BY <1>1, <1>2 DEF Run
  <2> QED
    BY <2>1
<1>4. ASSUME NEW k \in 1 .. n, k - 1 \in T PROVE k \in T
  <2>1. h[k] = IF Contains(h[k - 1], s[k]) THEN h[k - 1] ELSE Append(h[k - 1], s[k])
    BY <1>2 DEF Run, Step, op
  <2>2. {s[i] : i \in 1 .. k} = {s[i] : i \in 1 .. (k - 1)} \cup {s[k]}
    BY <1>1
  <2>3. k - 1 \in 0 .. n /\ P(k - 1) /\ s[k] \in X /\ k \in 0 .. n
    BY <1>1, <1>4
  <2>4. Contains(h[k - 1], s[k]) <=> s[k] \in ToSet(h[k - 1])
    BY <2>3, SetOf
  <2>5. k = 1 /\ out = <<>> => h[k - 1] = <<>>
    BY <1>2 DEF Run
  <2>6. CASE s[k] \in ToSet(h[k - 1])
    <3>1. h[k] = h[k - 1] /\ ToSet(h[k]) = ToSet(out) \cup {s[i] : i \in 1 .. k}
      BY <2>1, <2>2, <2>3, <2>4, <2>6
    <3>2. k = 1 => out # <<>>
      BY <2>5, <2>6 DEF ToSet
    <3>3. k >= 1 /\ out = <<>> => h[k] # <<>> /\ h[k][1] = s[1]
      BY <2>3, <3>1, <3>2
    <3>4. P(k)
      BY <2>3, <3>1, <3>3
    <3> QED
      BY <2>3, <3>4
  <2>7. CASE s[k] \notin ToSet(h[k - 1])
    <3>1. h[k] = Append(h[k - 1], s[k])
      BY <2>1, <2>4, <2>7
    <3>2. /\ h[k] \in Seq(X) /\ ToSet(h[k]) = ToSet(h[k - 1]) \cup {s[k]} /\ IsInjective(h[k])
          /\ Len(h[k]) = Len(h[k - 1]) + 1 /\ \A i \in 1 .. Len(h[k - 1]) : h[k][i] = h[k - 1][i]
          /\ h[k][Len(h[k - 1]) + 1] = s[k]
      BY <2>3, <2>7, <3>1, Appended, AppendedInjective
    <3>3. ToSet(h[k]) = ToSet(out) \cup {s[i] : i \in 1 .. k}
      <4>1. ToSet(h[k - 1]) = ToSet(out) \cup {s[i] : i \in 1 .. (k - 1)}
        BY <2>3
      <4> QED
        BY <2>2, <3>2, <4>1, Zenon
    <3>4. k >= 1 /\ out = <<>> => h[k] # <<>> /\ h[k][1] = s[1]
      <4>1. CASE k = 1
        BY <2>5, <3>2, <4>1
      <4>2. CASE k # 1
        BY <2>3, <3>2, <4>2
      <4> QED
        BY <4>1, <4>2
    <3>5. Len(out) <= Len(h[k]) /\ \A i \in 1 .. Len(out) : h[k][i] = out[i]
      BY <2>3, <3>2
    <3>6. P(k)
      BY <3>2, <3>3, <3>4, <3>5
    <3> QED
      BY <2>3, <3>6
  <2> QED
    BY <2>6, <2>7
<1> HIDE DEF T
<1>5. \A k \in 0 .. n : k \in T
  BY <1>1, <1>3, <1>4, UpTo
<1>6. P(n)
  <2>1. n \in T
    BY <1>1, <1>5
  <2> HIDE DEF P
  <2> QED
    BY <2>1 DEF T
<1>7. {s[i] : i \in 1 .. n} = ToSet(s)
  BY <1>1 DEF ToSet
<1>8. AppendNew(out, s) = h[n]
  BY <1>2, FoldsAre DEF Run, op
<1>9. s # <<>> => n >= 1
  BY DEF n
<1> QED
  BY <1>1, <1>6, <1>7, <1>8, <1>9

(* InsertAt moves what follows by one place. *)
Inserted(u, c, x) == [i \in 1 .. Len(u) + 1 |->
                        IF i < c THEN u[i] ELSE IF i = c THEN x ELSE u[i - 1]]

(* InsertAt of the community modules is Inserted. *)
LEMMA InsertAtIs ==
  ASSUME NEW X, NEW u \in Seq(X), NEW x \in X, NEW c \in 1 .. Len(u) + 1
  PROVE  InsertAt(u, c, x) = Inserted(u, c, x)
<1> DEFINE a == SubSeq(u, 1, c - 1)
           b == SubSeq(u, c, Len(u))
           v == [i \in 1 .. Len(u) + 1 |-> IF i < c THEN u[i] ELSE IF i = c THEN x ELSE u[i - 1]]
<1>1. Len(u) \in Nat /\ c \in Nat
  OBVIOUS
<1>2. a \in Seq(X) /\ Len(a) = c - 1 /\ \A i \in 1 .. c - 1 : a[i] = u[i]
  BY <1>1, SubSeqProperties
<1>3. b \in Seq(X) /\ Len(b) = Len(u) - c + 1 /\ \A i \in 1 .. Len(u) - c + 1 : b[i] = u[c + i - 1]
  BY <1>1, SubSeqProperties
<1> HIDE DEF a, b
<1>4. <<x>> \in Seq(X) /\ Len(<<x>>) = 1 /\ <<x>>[1] = x
  OBVIOUS
<1>5. a \o <<x>> \in Seq(X) /\ Len(a \o <<x>>) = c
      /\ \A i \in 1 .. c : (a \o <<x>>)[i] = IF i <= c - 1 THEN a[i] ELSE <<x>>[i - (c - 1)]
  BY <1>1, <1>2, <1>4, ConcatProperties
<1> DEFINE d == a \o <<x>>
<1>6. \A i \in 1 .. c : d[i] = IF i < c THEN u[i] ELSE x
  BY <1>1, <1>2, <1>4, <1>5
<1> HIDE DEF d
<1>7. d \in Seq(X) /\ Len(d) = c
  BY <1>5 DEF d
<1>8. d \o b \in Seq(X) /\ Len(d \o b) = Len(u) + 1
      /\ \A i \in 1 .. Len(u) + 1 : (d \o b)[i] = IF i <= c THEN d[i] ELSE b[i - c]
  <2>1. d \o b \in Seq(X) /\ Len(d \o b) = Len(d) + Len(b)
        /\ \A i \in 1 .. Len(d) + Len(b) : (d \o b)[i] = IF i <= Len(d) THEN d[i] ELSE b[i - Len(d)]
    BY <1>3, <1>7, ConcatProperties
  <2>2. Len(d) + Len(b) = Len(u) + 1
    BY <1>1, <1>3, <1>7
  <2> QED
    BY <1>7, <2>1, <2>2
<1>9. v \in Seq(X) /\ Len(v) = Len(u) + 1
  BY <1>1
<1>10. ASSUME NEW i \in 1 .. Len(u) + 1 PROVE (d \o b)[i] = v[i]
  <2>1. (d \o b)[i] = IF i <= c THEN d[i] ELSE b[i - c]
    BY <1>8
  <2>2. v[i] = IF i < c THEN u[i] ELSE IF i = c THEN x ELSE u[i - 1]
    OBVIOUS
  <2> HIDE DEF v
  <2>3. CASE i <= c
    <3>1. d[i] = IF i < c THEN u[i] ELSE x
      BY <1>1, <1>6, <2>3
    <3> QED
      BY <1>1, <2>1, <2>2, <2>3, <3>1
  <2>4. CASE i > c
    <3>1. i - c \in 1 .. Len(u) - c + 1 /\ c + (i - c) - 1 = i - 1
      BY <1>1, <2>4
    <3>2. b[i - c] = u[i - 1]
      BY <1>3, <3>1
    <3> QED
      <4>1. ~(i <= c) /\ ~(i < c) /\ i # c
        BY <1>1, <2>4
      <4>2. (d \o b)[i] = b[i - c] /\ v[i] = u[i - 1]
        BY <2>1, <2>2, <4>1, Zenon
      <4> QED
        BY <3>2, <4>2, Zenon
  <2>5. i <= c \/ i > c
    BY <1>1
  <2> QED
    BY <2>3, <2>4, <2>5, Zenon
<1> HIDE DEF v
<1>11. d \o b = v
  BY <1>8, <1>9, <1>10, SeqEqual
<1> QED
  BY <1>11 DEF InsertAt, Inserted, a, b, d, v

(* A set of numbers up to n that is closed downwards is 1 .. its size. *)
LEMMA Initial ==
  ASSUME NEW n \in Nat, NEW S \in SUBSET (1 .. n), \A i \in S : \A j \in 1 .. i : j \in S
  PROVE  Cardinality(S) \in 0 .. n /\ S = 1 .. Cardinality(S)
<1>1. CASE S = {}
  <2>1. Cardinality(S) = 0 /\ 1 .. 0 = {}
    BY <1>1, FS_EmptySet
  <2> QED
    BY <1>1, <2>1
<1>2. CASE S # {}
  <2>1. PICK m \in S : \A i \in S : i <= m
    BY <1>2, Greatest
  <2>2. m \in 1 .. n /\ \A i \in 1 .. n : i \in S <=> i \in 1 .. m
    BY <2>1
  <2>5. S = 1 .. m
    BY <2>2
  <2>3. Cardinality(1 .. m) = m
    <3>1. 1 \in Int /\ m \in Int /\ ~ (1 > m) /\ m - 1 + 1 = m
      BY <2>2
    <3>2. Cardinality(1 .. m) = IF 1 > m THEN 0 ELSE m - 1 + 1
      BY <3>1, FS_Interval, Zenon
    <3> QED
      BY <3>1, <3>2
  <2> QED
    BY <2>2, <2>3, <2>5
<1> QED
  BY <1>1, <1>2

(* r is the first n elements of s sorted by busy: f says where in s each   *)
(* of them stood.                                                          *)
Sorts(r, s, busy, n, f) ==
  /\ f \in [1 .. n -> 1 .. n]
  /\ \A k \in 1 .. n : \E i \in 1 .. n : f[i] = k
  /\ \A i, j \in 1 .. n : f[i] = f[j] => i = j
  /\ r = [i \in 1 .. n |-> s[f[i]]]
  /\ \A i, j \in 1 .. n : i < j => \/ busy[r[i]] < busy[r[j]]
                                   \/ busy[r[i]] = busy[r[j]] /\ f[i] < f[j]

(* Placing the next element into the sorted beginning sorts one element    *)
(* more.                                                                   *)
LEMMA PlaceSorts ==
  ASSUME NEW X, NEW s \in Seq(X), NEW busy, \A x \in X : busy[x] \in Int,
         NEW n \in Nat, n < Len(s), NEW r, NEW f, Sorts(r, s, busy, n, f)
  PROVE  \E g : Sorts(Step(<<"place", busy>>, r, s[n + 1]), s, busy, n + 1, g)
<1> DEFINE x == s[n + 1]
<1>1. /\ f \in [1 .. n -> 1 .. n]
      /\ \A k \in 1 .. n : \E i \in 1 .. n : f[i] = k
      /\ \A i, j \in 1 .. n : f[i] = f[j] => i = j
      /\ r = [i \in 1 .. n |-> s[f[i]]]
      /\ \A i, j \in 1 .. n : i < j => \/ busy[r[i]] < busy[r[j]]
                                       \/ busy[r[i]] = busy[r[j]] /\ f[i] < f[j]
  BY DEF Sorts
<1>2. x \in X /\ busy[x] \in Int /\ \A k \in 1 .. n : s[k] \in X
  OBVIOUS
<1>3. /\ \A i \in 1 .. n : f[i] \in 1 .. n
      /\ \A i \in 1 .. n : r[i] = s[f[i]] /\ r[i] \in X /\ busy[r[i]] \in Int
      /\ r \in Seq(X) /\ Len(r) = n /\ DOMAIN r = 1 .. n
  <2>1. \A i \in 1 .. n : f[i] \in 1 .. n
    BY <1>1
  <2>2. \A i \in 1 .. n : r[i] = s[f[i]] /\ DOMAIN r = 1 .. n
    BY <1>1
  <2>3. \A i \in 1 .. n : r[i] \in X
    BY <1>2, <2>1, <2>2
  <2>4. r \in [1 .. n -> X]
    BY <1>1, <2>3
  <2>5. r \in Seq(X) /\ Len(r) = n
    BY <2>4
  <2>6. DOMAIN r = 1 .. n
    BY <2>4
  <2> QED
    BY <2>1, <2>2, <2>3, <2>5, <2>6
<1> HIDE DEF x
<1> DEFINE before == {i \in 1 .. n : busy[r[i]] <= busy[x]}
           c == Cardinality(before) + 1
<1>4. c \in 1 .. n + 1 /\ before = 1 .. (c - 1)
  <2>1. ASSUME NEW i \in before, NEW j \in 1 .. i PROVE j \in before
    <3>1. i \in 1 .. n /\ j \in 1 .. n /\ (j = i \/ j < i) /\ busy[r[i]] <= busy[x]
      OBVIOUS
    <3>2. busy[r[i]] \in Int /\ busy[r[j]] \in Int
      BY <1>3, <3>1
    <3>3. j < i => busy[r[j]] < busy[r[i]] \/ busy[r[j]] = busy[r[i]]
      BY <1>1, <3>1
    <3>4. busy[r[j]] <= busy[r[i]]
      BY <3>1, <3>2, <3>3
    <3> QED
      BY <1>2, <3>1, <3>2, <3>4
  <2>2. before \in SUBSET (1 .. n)
    OBVIOUS
  <2> HIDE DEF before
  <2>3. Cardinality(before) \in 0 .. n /\ before = 1 .. Cardinality(before)
    BY <2>1, <2>2, Initial
  <2> QED
    BY <2>3
<1>5. Step(<<"place", busy>>, r, x) = InsertAt(r, c, x)
  BY <1>3 DEF Step
<1>6. \A i \in 1 .. n : busy[r[i]] <= busy[x] <=> i < c
  <2>1. \A i \in 1 .. n : i \in before <=> i \in 1 .. (c - 1)
    BY <1>4
  <2> QED
    BY <1>4, <2>1
<1> HIDE DEF before, c
<1> DEFINE q == [i \in 1 .. n + 1 |-> IF i < c THEN r[i] ELSE IF i = c THEN x ELSE r[i - 1]]
           g == [i \in 1 .. n + 1 |-> IF i < c THEN f[i] ELSE IF i = c THEN n + 1 ELSE f[i - 1]]
<1>7. InsertAt(r, c, x) = q
  <2>1. c \in 1 .. Len(r) + 1 /\ Len(r) = n /\ r \in Seq(X)
    BY <1>3, <1>4
  <2> HIDE DEF q
  <2>2. InsertAt(r, c, x) = Inserted(r, c, x)
    BY <1>2, <2>1, InsertAtIs
  <2> QED
    BY <2>1, <2>2 DEF q, Inserted
<1>8. c \in Int /\ \A i \in 1 .. n + 1 :
        /\ i < c => i \in 1 .. n /\ q[i] = r[i] /\ g[i] = f[i]
        /\ i = c => q[i] = x /\ g[i] = n + 1
        /\ i > c => i - 1 \in 1 .. n /\ ~ (i - 1 < c) /\ q[i] = r[i - 1] /\ g[i] = f[i - 1]
  BY <1>4
<1>9. \A i \in 1 .. n + 1 : i < c \/ i = c \/ i > c
  BY <1>4
<1>10. g = [i \in 1 .. n + 1 |-> g[i]] /\ q = [i \in 1 .. n + 1 |-> q[i]]
  OBVIOUS
<1> HIDE DEF g, q
<1>11. ASSUME NEW i \in 1 .. n + 1 PROVE g[i] \in 1 .. n + 1 /\ q[i] = s[g[i]]
  <2>1. CASE i < c
    <3>1. i \in 1 .. n /\ q[i] = r[i] /\ g[i] = f[i]
      BY <1>8, <2>1
    <3>2. f[i] \in 1 .. n /\ r[i] = s[f[i]]
      BY <1>3, <3>1
    <3> QED
      BY <3>1, <3>2
  <2>2. CASE i = c
    BY <1>8, <2>2 DEF x
  <2>3. CASE i > c
    BY <1>3, <1>8, <2>3
  <2> QED
    BY <1>9, <2>1, <2>2, <2>3
<1>12. ASSUME NEW k \in 1 .. n + 1 PROVE \E i \in 1 .. n + 1 : g[i] = k
  <2>1. CASE k = n + 1
    BY <1>4, <1>8, <2>1
  <2>2. CASE k # n + 1
    <3>1. PICK i \in 1 .. n : f[i] = k
      BY <1>1, <2>2
    <3>2. CASE i < c
      BY <1>8, <3>1, <3>2
    <3>3. CASE ~ (i < c)
      <4>1. i + 1 \in 1 .. n + 1 /\ i + 1 > c /\ (i + 1) - 1 = i
        BY <1>4, <3>3
      <4>2. g[i + 1] = f[i]
        BY <1>8, <4>1
      <4> QED
        BY <3>1, <4>1, <4>2
    <3> QED
      BY <3>2, <3>3
  <2> QED
    BY <2>1, <2>2
<1>13. \A i \in 1 .. n + 1 : i # c => g[i] \in 1 .. n /\ g[i] < n + 1
  <2> SUFFICES ASSUME NEW i \in 1 .. n + 1, i # c PROVE g[i] \in 1 .. n
    OBVIOUS
  <2>1. CASE i < c
    BY <1>3, <1>8, <2>1
  <2>2. CASE i > c
    BY <1>3, <1>8, <2>2
  <2> QED
    BY <1>9, <2>1, <2>2
<1> DEFINE at == [k \in 1 .. n + 1 |-> IF k < c THEN k ELSE k - 1]
<1>20. \A k \in 1 .. n + 1 : /\ k < c => at[k] = k
                             /\ k > c => at[k] = k - 1
  BY <1>8
<1>21. \A i, j \in 1 .. n + 1 :
         i # c /\ j # c => (i < j <=> at[i] < at[j]) /\ (at[i] = at[j] => i = j)
  BY <1>4
<1> HIDE DEF at
<1>14. ASSUME NEW k \in 1 .. n + 1, k # c
       PROVE  at[k] \in 1 .. n /\ q[k] = r[at[k]] /\ g[k] = f[at[k]]
  <2>1. CASE k < c
    BY <1>8, <1>20, <2>1
  <2>2. CASE k > c
    BY <1>8, <1>20, <2>2
  <2> QED
    BY <1>9, <1>14, <2>1, <2>2
<1>15. ASSUME NEW i \in 1 .. n + 1, NEW j \in 1 .. n + 1, g[i] = g[j] PROVE i = j
  <2>1. CASE i = c \/ j = c
    BY <1>8, <1>13, <1>15, <2>1
  <2>2. CASE i # c /\ j # c
    <3>1. f[at[i]] = f[at[j]] /\ at[i] \in 1 .. n /\ at[j] \in 1 .. n
      BY <1>14, <1>15, <2>2
    <3>2. \A u, v \in 1 .. n : f[u] = f[v] => u = v
      BY <1>1
    <3>3. at[i] = at[j]
      BY <3>1, <3>2
    <3> QED
      BY <1>21, <2>2, <3>3
  <2> QED
    BY <2>1, <2>2
<1>16. ASSUME NEW i \in 1 .. n + 1, NEW j \in 1 .. n + 1, i < j
       PROVE  \/ busy[q[i]] < busy[q[j]]
              \/ busy[q[i]] = busy[q[j]] /\ g[i] < g[j]
  <2>1. CASE i = c
    <3>1. j > c /\ q[i] = x
      BY <1>8, <1>16, <2>1
    <3>2. j - 1 \in 1 .. n /\ ~ (j - 1 < c) /\ q[j] = r[j - 1]
      BY <1>8, <3>1
    <3>3. ~ (busy[r[j - 1]] <= busy[x]) /\ busy[r[j - 1]] \in Int
      BY <1>3, <1>6, <3>2
    <3> QED
      BY <1>2, <3>1, <3>2, <3>3
  <2>2. CASE j = c
    <3>1. i < c /\ q[j] = x /\ g[j] = n + 1
      BY <1>8, <1>16, <2>2
    <3>2. i \in 1 .. n /\ q[i] = r[i]
      BY <1>8, <3>1
    <3>3. busy[r[i]] <= busy[x] /\ busy[r[i]] \in Int
      BY <1>3, <1>6, <3>1, <3>2
    <3>4. g[i] < n + 1
      BY <1>13, <1>8, <3>1
    <3> QED
      BY <1>2, <3>1, <3>2, <3>3, <3>4
  <2>3. CASE i # c /\ j # c
    <3>1. /\ at[i] \in 1 .. n /\ q[i] = r[at[i]] /\ g[i] = f[at[i]]
          /\ at[j] \in 1 .. n /\ q[j] = r[at[j]] /\ g[j] = f[at[j]]
      BY <1>14, <2>3
    <3>2. at[i] < at[j]
      BY <1>16, <1>21, <2>3
    <3>3. \A u, v \in 1 .. n : u < v => \/ busy[r[u]] < busy[r[v]]
                                        \/ busy[r[u]] = busy[r[v]] /\ f[u] < f[v]
      BY <1>1
    <3>4. \/ busy[r[at[i]]] < busy[r[at[j]]]
          \/ busy[r[at[i]]] = busy[r[at[j]]] /\ f[at[i]] < f[at[j]]
      BY <3>1, <3>2, <3>3
    <3> QED
      BY <3>1, <3>4
  <2> QED
    BY <2>1, <2>2, <2>3
<1>17. g \in [1 .. n + 1 -> 1 .. n + 1] /\ q = [i \in 1 .. n + 1 |-> s[g[i]]]
  BY <1>10, <1>11
<1>18. Sorts(q, s, busy, n + 1, g)
  BY <1>12, <1>15, <1>16, <1>17 DEF Sorts
<1> QED
  BY <1>5, <1>7, <1>18 DEF x

(* StableSort sorts, and equally busy elements keep their order. *)
LEMMA StableSortIs ==
  ASSUME NEW X, NEW s \in Seq(X), NEW busy, \A x \in X : busy[x] \in Int
  PROVE  \E f : Sorts(StableSort(s, busy), s, busy, Len(s), f)
<1> DEFINE n == Len(s)
           op == <<"place", busy>>
<1>1. n \in Nat /\ DOMAIN s = 1 .. n
  OBVIOUS
<1> HIDE DEF n, op
<1>2. PICK h : Run(op, <<>>, s, n, h)
  BY <1>1, FoldSteps
<1> DEFINE P(k) == \E f : Sorts(h[k], s, busy, k, f)
           T == {k \in 0 .. n : P(k)}
<1>3. 0 \in T
  <2>1. h[0] = <<>> /\ 0 \in 0 .. n
    BY <1>1, <1>2 DEF Run
  <2>2. Sorts(<<>>, s, busy, 0, <<>>)
    BY DEF Sorts
  <2> QED
    BY <2>1, <2>2
<1>4. ASSUME NEW k \in 1 .. n, k - 1 \in T PROVE k \in T
  <2>1. PICK f : Sorts(h[k - 1], s, busy, k - 1, f)
    BY <1>4
  <2>2. k - 1 \in Nat /\ k - 1 < Len(s) /\ (k - 1) + 1 = k /\ k \in 0 .. n
    BY <1>1 DEF n
  <2>3. \E g : Sorts(Step(op, h[k - 1], s[(k - 1) + 1]), s, busy, (k - 1) + 1, g)
    BY <2>1, <2>2, PlaceSorts DEF op
  <2>4. h[k] = Step(op, h[k - 1], s[k])
    BY <1>2 DEF Run
  <2> QED
    BY <2>2, <2>3, <2>4
<1> HIDE DEF T
<1>5. \A k \in 0 .. n : k \in T
  BY <1>1, <1>3, <1>4, UpTo
<1>6. P(n)
  BY <1>1, <1>5 DEF T
<1>7. StableSort(s, busy) = h[n]
  BY <1>2, FoldsAre DEF Run, op
<1> QED
  BY <1>6, <1>7 DEF n

(* What the lookups need of a sorted sequence. *)
LEMMA SortedIs ==
  ASSUME NEW X, NEW s \in Seq(X), NEW busy, \A x \in X : busy[x] \in Int
  PROVE  LET r == StableSort(s, busy)
         IN /\ r \in Seq(X) /\ ToSet(r) = ToSet(s) /\ Len(r) = Len(s)
            /\ IsInjective(s) => IsInjective(r)
            /\ s # <<>> => r # <<>> /\ \A y \in ToSet(s) : busy[r[1]] <= busy[y]
            /\ s # <<>> /\ (\A x, y \in X : busy[x] = busy[y]) => r[1] = s[1]
<1> DEFINE r == StableSort(s, busy)
           n == Len(s)
<1>1. n \in Nat /\ DOMAIN s = 1 .. n /\ (\A k \in 1 .. n : s[k] \in X) /\ (s = <<>> <=> n = 0)
  OBVIOUS
<1>2. PICK f : Sorts(r, s, busy, n, f)
  BY StableSortIs
<1> HIDE DEF r, n
<1>3. /\ f \in [1 .. n -> 1 .. n] /\ r = [i \in 1 .. n |-> s[f[i]]]
      /\ \A k \in 1 .. n : \E i \in 1 .. n : f[i] = k
  BY <1>2 DEF Sorts
<1>4. \A i, j \in 1 .. n : f[i] = f[j] => i = j
  BY <1>2 DEF Sorts
<1>5. \A i, j \in 1 .. n : i < j => \/ busy[r[i]] < busy[r[j]]
                                    \/ busy[r[i]] = busy[r[j]] /\ f[i] < f[j]
  BY <1>2 DEF Sorts
<1>6. \A i \in 1 .. n : f[i] \in 1 .. n /\ r[i] = s[f[i]]
  BY <1>3
<1>7. \A i \in 1 .. n : r[i] \in X /\ busy[r[i]] \in Int
  BY <1>1, <1>6
<1>8. r \in Seq(X) /\ Len(r) = n /\ DOMAIN r = 1 .. n
  <2>1. r \in [1 .. n -> X]
    BY <1>3, <1>7
  <2> QED
    BY <1>1, <2>1
<1>9. ToSet(r) = ToSet(s)
  <2>1. ASSUME NEW y PROVE y \in ToSet(r) <=> y \in ToSet(s)
    <3>1. ASSUME NEW i \in 1 .. n PROVE r[i] \in ToSet(s)
      BY <1>1, <1>6 DEF ToSet
    <3>2. ASSUME NEW k \in 1 .. n PROVE s[k] \in ToSet(r)
      <4>1. PICK i \in 1 .. n : f[i] = k
        BY <1>3
      <4> QED
        BY <1>6, <1>8, <4>1 DEF ToSet
    <3> QED
      BY <1>1, <1>8, <3>1, <3>2 DEF ToSet
  <2> QED
    BY <2>1
<1>10. IsInjective(s) => IsInjective(r)
  <2> SUFFICES ASSUME IsInjective(s), NEW i \in 1 .. n, NEW j \in 1 .. n, r[i] = r[j] PROVE i = j
    BY <1>8 DEF IsInjective
  <2>1. s[f[i]] = s[f[j]] /\ f[i] \in 1 .. n /\ f[j] \in 1 .. n
    BY <1>6
  <2>2. f[i] = f[j]
    BY <1>1, <2>1 DEF IsInjective
  <2> QED
    BY <1>4, <2>2
<1>11. ASSUME s # <<>> PROVE /\ r # <<>> /\ \A y \in ToSet(s) : busy[r[1]] <= busy[y]
                             /\ (\A x, y \in X : busy[x] = busy[y]) => r[1] = s[1]
  <2>1. 1 \in 1 .. n
    BY <1>1, <1>11
  <2>2. r # <<>>
    BY <1>8, <2>1
  <2>3. ASSUME NEW y \in ToSet(s) PROVE busy[r[1]] <= busy[y]
    <3>1. PICK i \in 1 .. n : y = r[i]
      BY <1>8, <1>9 DEF ToSet
    <3>2. i = 1 \/ 1 < i
      OBVIOUS
    <3>3. busy[r[1]] \in Int /\ busy[r[i]] \in Int
      BY <1>7, <2>1
    <3>4. 1 < i => busy[r[1]] < busy[r[i]] \/ busy[r[1]] = busy[r[i]]
      BY <1>5, <2>1
    <3> QED
      BY <3>1, <3>2, <3>3, <3>4
  <2>4. ASSUME \A x, y \in X : busy[x] = busy[y] PROVE r[1] = s[1]
    <3>1. PICK i \in 1 .. n : f[i] = 1
      BY <1>3, <2>1
    <3>2. busy[r[1]] = busy[r[i]] /\ busy[r[1]] \in Int /\ busy[r[i]] \in Int
      BY <1>7, <2>1, <2>4
    <3>3. 1 < i => f[1] < f[i]
      <4>1. 1 < i => \/ busy[r[1]] < busy[r[i]]
                     \/ busy[r[1]] = busy[r[i]] /\ f[1] < f[i]
        BY <1>5, <2>1
      <4> QED
        BY <3>2, <4>1
    <3>4. f[1] \in 1 .. n
      BY <1>6, <2>1
    <3>5. i = 1
      BY <3>1, <3>3, <3>4
    <3> QED
      BY <1>6, <2>1, <3>1, <3>5
  <2> QED
    BY <2>2, <2>3, <2>4
<1> QED
  BY <1>8, <1>9, <1>10, <1>11 DEF r, n

-----------------------------------------------------------------------------
(* Gathering: one AppendNew after another.                                 *)

(* An empty sequence adds nothing. *)
LEMMA NothingNew ==
  ASSUME NEW out PROVE AppendNew(out, <<>>) = out
<1>1. DOMAIN <<>> = 1 .. 0 /\ 0 \in Nat
  OBVIOUS
<1>2. PICK h : Run(<<"new">>, out, <<>>, 0, h)
  BY <1>1, FoldSteps
<1> QED
  BY <1>2, FoldsAre DEF Run

(* h is what has been gathered after each of n pieces. *)
Gathering(X, n, piece, h) ==
  /\ h[0] = <<>>
  /\ \A k \in 1 .. n : piece[k] \in Seq(X) /\ h[k] = AppendNew(h[k - 1], piece[k])

(* All that is in a piece, once; the first piece that is not empty leads.  *)
IsGathered(X, n, piece, h) ==
  /\ h[n] \in Seq(X) /\ IsInjective(h[n])
  /\ \A y : y \in ToSet(h[n]) <=> \E k \in 1 .. n : y \in ToSet(piece[k])
  /\ \A k \in 1 .. n : piece[k] # <<>> /\ (\A j \in 1 .. (k - 1) : piece[j] = <<>>)
                         => h[n] # <<>> /\ h[n][1] = piece[k][1]

(* One AppendNew after another gathers the pieces. *)
LEMMA Gathered ==
  ASSUME NEW X, NEW n \in Nat, NEW piece, NEW h, Gathering(X, n, piece, h)
  PROVE  IsGathered(X, n, piece, h)
<1>0. /\ h[0] = <<>>
      /\ \A k \in 1 .. n : piece[k] \in Seq(X)
      /\ \A k \in 1 .. n : h[k] = AppendNew(h[k - 1], piece[k])
  BY DEF Gathering
<1> DEFINE P(m) == /\ h[m] \in Seq(X) /\ IsInjective(h[m])
                   /\ \A y : y \in ToSet(h[m]) <=> \E k \in 1 .. m : y \in ToSet(piece[k])
                   /\ \A k \in 1 .. m : piece[k] # <<>> /\ (\A j \in 1 .. (k - 1) : piece[j] = <<>>)
                                          => h[m] # <<>> /\ h[m][1] = piece[k][1]
           T == {m \in 0 .. n : P(m)}
<1>1. 0 \in T
  <2>1. <<>> \in Seq(X) /\ ToSet(<<>>) = {} /\ IsInjective(<<>>)
    BY DEF ToSet, IsInjective
  <2>2. 1 .. 0 = {} /\ 0 \in 0 .. n
    OBVIOUS
  <2> QED
    BY <1>0, <2>1, <2>2
<1>2. ASSUME NEW m \in 1 .. n, m - 1 \in T PROVE m \in T
  <2>1. P(m - 1) /\ m \in 0 .. n /\ piece[m] \in Seq(X) /\ h[m] = AppendNew(h[m - 1], piece[m])
    <3>1. P(m - 1) /\ m \in 0 .. n
      BY <1>2
    <3>2. piece[m] \in Seq(X) /\ h[m] = AppendNew(h[m - 1], piece[m])
      BY <1>0
    <3> QED
      BY <3>1, <3>2
  <2>2. /\ h[m] \in Seq(X) /\ IsInjective(h[m])
        /\ ToSet(h[m]) = ToSet(h[m - 1]) \cup ToSet(piece[m])
        /\ Len(h[m - 1]) <= Len(h[m]) /\ \A i \in 1 .. Len(h[m - 1]) : h[m][i] = h[m - 1][i]
        /\ h[m - 1] = <<>> /\ piece[m] # <<>> => h[m][1] = piece[m][1]
    BY <2>1, AppendNewIs
  <2>4. ASSUME NEW y PROVE y \in ToSet(h[m]) <=> \E k \in 1 .. m : y \in ToSet(piece[k])
    <3>1. y \in ToSet(h[m - 1]) <=> \E k \in 1 .. (m - 1) : y \in ToSet(piece[k])
      BY <2>1
    <3>2. y \in ToSet(h[m]) <=> y \in ToSet(h[m - 1]) \/ y \in ToSet(piece[m])
      BY <2>2
    <3> QED
      BY <3>1, <3>2
  <2>5. ASSUME NEW k \in 1 .. m, piece[k] # <<>>, \A j \in 1 .. (k - 1) : piece[j] = <<>>
        PROVE  h[m] # <<>> /\ h[m][1] = piece[k][1]
    <3>1. CASE k = m
      <4>1. \A j \in 1 .. (m - 1) : ToSet(piece[j]) = {}
        BY <2>5, <3>1 DEF ToSet
      <4>2. ToSet(h[m - 1]) = {}
        BY <2>1, <4>1
      <4>3. h[m - 1] = <<>> /\ ToSet(piece[m]) # {} /\ ToSet(h[m]) # {}
        BY <2>1, <2>2, <2>5, <3>1, <4>2, SetOf
      <4> QED
        BY <2>2, <2>5, <3>1, <4>3 DEF ToSet
    <3>2. CASE k # m
      <4>1. k \in 1 .. (m - 1)
        BY <3>2
      <4>2. h[m - 1] # <<>> /\ h[m - 1][1] = piece[k][1]
        BY <2>1, <2>5, <4>1
      <4>3. 1 \in 1 .. Len(h[m - 1])
        BY <2>1, <4>2
      <4> QED
        BY <2>2, <4>2, <4>3
    <3> QED
      BY <3>1, <3>2
  <2> QED
    BY <2>1, <2>2, <2>4, <2>5
<1> HIDE DEF T
<1>3. \A m \in 0 .. n : m \in T
  BY <1>1, <1>2, UpTo
<1>4. n \in 0 .. n
  OBVIOUS
<1> QED
  BY <1>3, <1>4 DEF T, IsGathered

(* The patterns' providers, gathered in the order of the patterns. *)
LEMMA GlobProvidersAre ==
  ASSUME NEW t, NEW id, NEW D, NEW X, t.globs \in Seq(D),
         \A g \in ToSet(t.globs) : t.fallbacks[g] \in Seq(X) /\ t.fallbacks[g] # <<>>
  PROVE  LET r == GlobProviders(t, id)
         IN /\ r \in Seq(X) /\ IsInjective(r)
            /\ \A y : y \in ToSet(r) <=> \E g \in ToSet(t.globs) : Matches(g, id) /\ y \in ToSet(t.fallbacks[g])
            /\ \A k \in DOMAIN t.globs :
                 Matches(t.globs[k], id) /\ (\A j \in 1 .. (k - 1) : ~Matches(t.globs[j], id))
                   => r # <<>> /\ r[1] = t.fallbacks[t.globs[k]][1]
<1> DEFINE s == t.globs
           n == Len(s)
           op == <<"globs", t, id>>
           piece == [k \in 1 .. n |-> IF Matches(s[k], id) THEN t.fallbacks[s[k]] ELSE <<>>]
<1>1. n \in Nat /\ DOMAIN s = 1 .. n /\ ToSet(s) = {s[k] : k \in 1 .. n}
  BY DEF ToSet
<1>2. PICK h : Run(op, <<>>, s, n, h)
  <2> HIDE DEF op, n
  <2> QED
    BY <1>1, FoldSteps
<1>3. GlobProviders(t, id) = h[n] /\ h[0] = <<>>
  BY <1>2, FoldsAre DEF Run
<1>4. ASSUME NEW k \in 1 .. n PROVE h[k] = AppendNew(h[k - 1], piece[k])
  <2>1. h[k] = IF Matches(s[k], id) THEN AppendNew(h[k - 1], t.fallbacks[s[k]]) ELSE h[k - 1]
    BY <1>2 DEF Run, Step
  <2>2. piece[k] = IF Matches(s[k], id) THEN t.fallbacks[s[k]] ELSE <<>>
    OBVIOUS
  <2>3. AppendNew(h[k - 1], <<>>) = h[k - 1]
    BY NothingNew
  <2> QED
    BY <2>1, <2>2, <2>3
<1>5. \A k \in 1 .. n : /\ s[k] \in ToSet(s)
                        /\ Matches(s[k], id) => piece[k] = t.fallbacks[s[k]]
                        /\ ~Matches(s[k], id) => piece[k] = <<>>
  BY <1>1
<1> HIDE DEF piece, n, op
<1>6. ASSUME NEW k \in 1 .. n PROVE piece[k] \in Seq(X) /\ (piece[k] # <<>> <=> Matches(s[k], id))
  <2>1. t.fallbacks[s[k]] \in Seq(X) /\ t.fallbacks[s[k]] # <<>>
    BY <1>5
  <2>2. <<>> \in Seq(X)
    OBVIOUS
  <2>3. CASE Matches(s[k], id)
    BY <1>5, <2>1, <2>3
  <2>4. CASE ~Matches(s[k], id)
    BY <1>5, <2>2, <2>4
  <2> QED
    BY <2>3, <2>4
<1>7. /\ h[n] \in Seq(X) /\ IsInjective(h[n])
      /\ \A y : y \in ToSet(h[n]) <=> \E k \in 1 .. n : y \in ToSet(piece[k])
      /\ \A k \in 1 .. n : piece[k] # <<>> /\ (\A j \in 1 .. (k - 1) : piece[j] = <<>>)
                             => h[n] # <<>> /\ h[n][1] = piece[k][1]
  <2>1. Gathering(X, n, piece, h)
    BY <1>3, <1>4, <1>6 DEF Gathering
  <2>2. IsGathered(X, n, piece, h)
    BY <1>1, <2>1, Gathered
  <2> QED
    BY <2>2 DEF IsGathered
<1>8. ASSUME NEW y
      PROVE  y \in ToSet(h[n]) <=> \E g \in ToSet(s) : Matches(g, id) /\ y \in ToSet(t.fallbacks[g])
  <2>1. ASSUME NEW k \in 1 .. n
        PROVE  y \in ToSet(piece[k]) <=> Matches(s[k], id) /\ y \in ToSet(t.fallbacks[s[k]])
    <3>1. ToSet(<<>>) = {}
      BY DEF ToSet
    <3> QED
      BY <1>5, <3>1
  <2> QED
    BY <1>1, <1>7, <2>1
<1>9. ASSUME NEW k \in 1 .. n, Matches(s[k], id), \A j \in 1 .. (k - 1) : ~Matches(s[j], id)
      PROVE  h[n] # <<>> /\ h[n][1] = t.fallbacks[s[k]][1]
  <2>1. piece[k] # <<>> /\ piece[k] = t.fallbacks[s[k]] /\ \A j \in 1 .. (k - 1) : piece[j] = <<>>
    <3>1. \A j \in 1 .. (k - 1) : j \in 1 .. n
      BY <1>1
    <3> QED
      BY <1>5, <1>6, <1>9, <3>1
  <2> QED
    BY <1>7, <2>1
<1> QED
  BY <1>1, <1>3, <1>7, <1>8, <1>9

(* The candidates of a selector before they are sorted. *)
Pairs(t, required) == F(<<"expand", t>>, <<>>, Able(t, required))

(* The candidates of a selector are those pairs, the idle providers first. *)
LEMMA AutoIs ==
  \A t, l, required :
    required # {} =>
      candidatesForAuto(t, l, required)
        = StableSort(Pairs(t, required), [c \in ToSet(Pairs(t, required)) |-> l[c.provider]])
BY SMTT(30) DEF candidatesForAuto, Pairs, F, Step, FoldLeft, MapThenFoldSet

(* Each capable model with each provider of its own, every pair once. *)
ArePairs(t, required, M, X) ==
  LET r == Pairs(t, required)
  IN /\ r \in Seq([model : M, provider : X])
     /\ IsInjective(r)
     /\ \A y : y \in ToSet(r) <=> \E m \in ToSet(Able(t, required)) : \E p \in ToSet(t.fallbacks[m.id]) :
                                    y = Candidate(m.id, p)
     /\ r = <<>> <=> Able(t, required) = <<>>

(* The fold of candidatesForAuto gives those pairs. *)
LEMMA PairsAre ==
  ASSUME NEW t, NEW required, NEW D, NEW M, NEW X, Able(t, required) \in Seq(D),
         \A m \in ToSet(Able(t, required)) :
           m.id \in M /\ t.fallbacks[m.id] \in Seq(X) /\ t.fallbacks[m.id] # <<>>
  PROVE  ArePairs(t, required, M, X)
<1> DEFINE s == Able(t, required)
           n == Len(s)
           op == <<"expand", t>>
           Y == [model : M, provider : X]
           ps(k) == t.fallbacks[s[k].id]
           piece == [k \in 1 .. n |-> [i \in DOMAIN ps(k) |-> Candidate(s[k].id, ps(k)[i])]]
<1>1. n \in Nat /\ DOMAIN s = 1 .. n /\ ToSet(s) = {s[k] : k \in 1 .. n} /\ (s = <<>> <=> n = 0)
  BY DEF ToSet
<1> HIDE DEF s
<1>2. PICK h : Run(op, <<>>, s, n, h)
  <2> HIDE DEF op, n
  <2> QED
    BY <1>1, FoldSteps
<1>3. Pairs(t, required) = h[n] /\ h[0] = <<>>
  BY <1>2 DEF Run, Pairs, s
<1>4. ASSUME NEW k \in 1 .. n PROVE h[k] = AppendNew(h[k - 1], piece[k])
  <2>1. h[k] = AppendNew(h[k - 1], [i \in DOMAIN ps(k) |-> Candidate(s[k].id, ps(k)[i])])
    BY <1>2 DEF Run, Step
  <2> QED
    BY <2>1
<1>5. ASSUME NEW k \in 1 .. n
      PROVE  /\ piece[k] \in Seq(Y) /\ piece[k] # <<>>
             /\ \A y : y \in ToSet(piece[k]) <=> \E p \in ToSet(ps(k)) : y = Candidate(s[k].id, p)
  <2>1. s[k] \in ToSet(s)
    BY <1>1
  <2>2. ps(k) \in Seq(X) /\ ps(k) # <<>>
    BY <2>1 DEF s
  <2>3. piece[k] = [i \in DOMAIN ps(k) |-> Candidate(s[k].id, ps(k)[i])]
    OBVIOUS
  <2> DEFINE q == ps(k)
             id == s[k].id
  <2>4. id \in M
    BY <2>1 DEF s
  <2> HIDE DEF q, id, piece
  <2>5. q \in Seq(X) /\ q # <<>> /\ piece[k] = [i \in DOMAIN q |-> Candidate(id, q[i])]
    BY <2>2, <2>3 DEF q, id
  <2>6. DOMAIN q = 1 .. Len(q) /\ Len(q) \in Nat /\ 1 \in 1 .. Len(q)
        /\ \A i \in 1 .. Len(q) : q[i] \in X
    BY <2>5
  <2>7. \A i \in 1 .. Len(q) : Candidate(id, q[i]) \in Y
    BY <2>4, <2>6 DEF Candidate
  <2> HIDE DEF Y
  <2>8. piece[k] \in [1 .. Len(q) -> Y]
    BY <2>5, <2>6, <2>7
  <2>9. piece[k] \in Seq(Y) /\ piece[k] # <<>>
    BY <2>6, <2>8
  <2>10. \A y : y \in ToSet(piece[k]) <=> \E p \in ToSet(q) : y = Candidate(id, p)
    BY <2>5, <2>6 DEF ToSet
  <2> QED
    BY <2>9, <2>10 DEF q, id
<1> HIDE DEF piece, n, Y, op, ps
<1>6. /\ h[n] \in Seq(Y) /\ IsInjective(h[n])
      /\ \A y : y \in ToSet(h[n]) <=> \E k \in 1 .. n : y \in ToSet(piece[k])
      /\ \A k \in 1 .. n : piece[k] # <<>> /\ (\A j \in 1 .. (k - 1) : piece[j] = <<>>)
                             => h[n] # <<>> /\ h[n][1] = piece[k][1]
  <2>1. Gathering(Y, n, piece, h)
    BY <1>3, <1>4, <1>5 DEF Gathering
  <2>2. IsGathered(Y, n, piece, h)
    BY <1>1, <2>1, Gathered
  <2> QED
    BY <2>2 DEF IsGathered
<1>7. ASSUME NEW y
      PROVE  y \in ToSet(h[n]) <=> \E m \in ToSet(s) : \E p \in ToSet(t.fallbacks[m.id]) : y = Candidate(m.id, p)
  <2>1. ASSUME NEW k \in 1 .. n
        PROVE  y \in ToSet(piece[k]) <=> \E p \in ToSet(t.fallbacks[s[k].id]) : y = Candidate(s[k].id, p)
    BY <1>5 DEF ps
  <2>2. y \in ToSet(h[n]) <=>
          \E k \in 1 .. n : \E p \in ToSet(t.fallbacks[s[k].id]) : y = Candidate(s[k].id, p)
    BY <1>6, <2>1
  <2>3. \A m : m \in ToSet(s) <=> \E k \in 1 .. n : m = s[k]
    BY <1>1
  <2>4. ASSUME NEW k \in 1 .. n, NEW p \in ToSet(t.fallbacks[s[k].id]), y = Candidate(s[k].id, p)
        PROVE  \E m \in ToSet(s) : \E p1 \in ToSet(t.fallbacks[m.id]) : y = Candidate(m.id, p1)
    <3>1. s[k] \in ToSet(s)
      BY <2>3
    <3> QED
      BY <2>4, <3>1
  <2>5. ASSUME NEW m \in ToSet(s), NEW p \in ToSet(t.fallbacks[m.id]), y = Candidate(m.id, p)
        PROVE  \E k \in 1 .. n : \E p1 \in ToSet(t.fallbacks[s[k].id]) : y = Candidate(s[k].id, p1)
    <3>1. PICK k \in 1 .. n : m = s[k]
      BY <2>3
    <3> QED
      BY <2>5, <3>1
  <2> QED
    BY <2>2, <2>4, <2>5
<1>8. h[n] = <<>> <=> s = <<>>
  <2>1. s # <<>> => h[n] # <<>>
    BY <1>1, <1>5, <1>6, SMTT(30)
  <2>2. s = <<>> => h[n] = <<>>
    BY <1>1, <1>3
  <2> QED
    BY <2>1, <2>2
<1> QED
  BY <1>3, <1>6, <1>7, <1>8 DEF s, Y, ArePairs

-----------------------------------------------------------------------------
(* refresh: the table after the entries H of the reports r.                *)

(* What Models returns. *)
TypedReport(a) ==
  /\ a.models \in Seq(ToSet(a.models))
  /\ \A m \in ToSet(a.models) : m.id \in Ids /\ m = [id |-> m.id, caps |-> m.caps]
  /\ ~a.ok => a.models = <<>>

(* Every provider has such a report. *)
TypedReports(r) == \A p \in Providers : TypedReport(r[p])

(* The place of an entry: the provider's, and the one in its list. *)
Entries(r) ==
  {e \in (1 .. Len(Registered)) \X Nat : e[2] \in DOMAIN r[Registered[e[1]]].models}

(* The model an entry is. *)
ModelAt(r, e) == r[Registered[e[1]]].models[e[2]]

(* fb names, in the order of registration, the providers that list id in H. *)
Routes(r, H, id, fb) ==
  /\ fb \in Seq(Providers)
  /\ \A q : q \in ToSet(fb) <=> \E d \in H : ModelAt(r, d).id = id /\ q = Registered[d[1]]
  /\ \A a, b \in 1 .. Len(fb) : a < b => Position(fb[a]) <= Position(fb[b])

(* m is what the table holds of the first entry of q for that ID. *)
FirstEntry(r, q, m) ==
  \E k \in DOMAIN r[q].models :
    /\ m = Overridden(q, r[q].models[k])
    /\ m.id = r[q].models[k].id
    /\ \A j \in 1 .. (k - 1) : r[q].models[j].id # m.id

(* The index and the fallbacks are those of the entries in H; the first of *)
(* the fallbacks is the one of the index.                                  *)
IndexGood(r, t, H) ==
  /\ DOMAIN t.index = {ModelAt(r, d).id : d \in H}
  /\ DOMAIN t.fallbacks = DOMAIN t.index
  /\ \A id \in DOMAIN t.index : /\ Routes(r, H, id, t.fallbacks[id])
                                /\ t.fallbacks[id] # <<>>
                                /\ t.index[id] = t.fallbacks[id][1]

(* The patterns are the names of the index that are patterns. *)
GlobsGood(t) ==
  /\ t.globs \in Seq(Ids)
  /\ \A id : id \in ToSet(t.globs) <=> id \in DOMAIN t.index /\ isGlob(id)

(* Each name of the index has one model, the first its first provider      *)
(* lists.                                                                  *)
ModelsGood(r, t) ==
  /\ t.models \in Seq(ToSet(t.models))
  /\ \A a, b \in 1 .. Len(t.models) : t.models[a].id = t.models[b].id => a = b
  /\ \A id : id \in DOMAIN t.index <=> \E m \in ToSet(t.models) : m.id = id
  /\ \A m \in ToSet(t.models) : FirstEntry(r, t.index[m.id], m)

(* The table is the one that the entries in H make. *)
Good(r, t, H) == IndexGood(r, t, H) /\ GlobsGood(t) /\ ModelsGood(r, t)

(* Registered lists each provider once, at its position. *)
LEMMA Positions ==
  /\ Len(Registered) \in Nat /\ DOMAIN Registered = 1 .. Len(Registered)
  /\ \A i \in 1 .. Len(Registered) : Registered[i] \in Providers /\ Position(Registered[i]) = i
  /\ \A p \in Providers : Position(p) \in 1 .. Len(Registered) /\ Registered[Position(p)] = p
<1>1. Len(Registered) \in Nat /\ DOMAIN Registered = 1 .. Len(Registered) /\ IsInjective(Registered)
  BY RoutingAssumption
<1>2. \A i \in 1 .. Len(Registered) : Registered[i] \in Providers
  BY <1>1 DEF Providers, ToSet
<1>3. ASSUME NEW p \in Providers
      PROVE  Position(p) \in 1 .. Len(Registered) /\ Registered[Position(p)] = p
  <2>1. \E i \in DOMAIN Registered : Registered[i] = p
    BY DEF Providers, ToSet
  <2> QED
    BY <1>1, <2>1 DEF Position
<1>4. ASSUME NEW i \in 1 .. Len(Registered) PROVE Position(Registered[i]) = i
  <2>1. Position(Registered[i]) \in 1 .. Len(Registered)
        /\ Registered[Position(Registered[i])] = Registered[i]
    BY <1>2, <1>3
  <2> QED
    BY <1>1, <2>1 DEF IsInjective
<1> QED
  BY <1>1, <1>2, <1>3, <1>4

(* The entry that is added now comes from a provider no earlier than the rest. *)
LEMMA RoutesKept ==
  ASSUME NEW r, NEW H, NEW e, H \subseteq Entries(r), e \in Entries(r),
         \A d \in H : d[1] <= e[1], NEW id, NEW fb, Routes(r, H, id, fb)
  PROVE  /\ ModelAt(r, e).id = id => Routes(r, H \cup {e}, id, Append(fb, Registered[e[1]]))
         /\ ModelAt(r, e).id # id => Routes(r, H \cup {e}, id, fb)
<1>1. fb \in Seq(Providers) /\ Len(fb) \in Nat /\ DOMAIN fb = 1 .. Len(fb)
  BY DEF Routes
<1>2. \A d \in Entries(r) : d[1] \in 1 .. Len(Registered)
  BY DEF Entries
<1>3. e[1] \in 1 .. Len(Registered)
  BY <1>2
<1> DEFINE p == Registered[e[1]]
           g == Append(fb, p)
<1>4. p \in Providers /\ Position(p) = e[1]
  BY <1>3, Positions
<1>5. g \in Seq(Providers) /\ Len(g) = Len(fb) + 1 /\ g[Len(fb) + 1] = p
      /\ (\A i \in 1 .. Len(fb) : g[i] = fb[i]) /\ ToSet(g) = ToSet(fb) \cup {p}
  BY <1>1, <1>4, Appended
<1>6. ASSUME ModelAt(r, e).id = id PROVE Routes(r, H \cup {e}, id, g)
  <2>1. ASSUME NEW q
        PROVE  q \in ToSet(g) <=> \E d \in H \cup {e} : ModelAt(r, d).id = id /\ q = Registered[d[1]]
    <3>1. q \in ToSet(fb) <=> \E d \in H : ModelAt(r, d).id = id /\ q = Registered[d[1]]
      BY DEF Routes
    <3>2. q \in ToSet(g) <=> q \in ToSet(fb) \/ q = p
      BY <1>5
    <3> HIDE DEF g
    <3> QED
      BY <1>6, <3>1, <3>2
  <2>2. ASSUME NEW a \in 1 .. Len(g), NEW b \in 1 .. Len(g), a < b
        PROVE  Position(g[a]) <= Position(g[b])
    <3>1. a \in 1 .. Len(fb) /\ g[a] = fb[a] /\ Len(g) = Len(fb) + 1
      BY <1>1, <1>5, <2>2
    <3> HIDE DEF g, p
    <3>2. CASE b \in 1 .. Len(fb)
      <4>1. g[b] = fb[b]
        BY <1>5, <3>2
      <4> QED
        BY <2>2, <3>1, <3>2, <4>1 DEF Routes
    <3>3. CASE b = Len(fb) + 1
      <4>1. fb[a] \in ToSet(fb)
        BY <1>1, <3>1 DEF ToSet
      <4>2. PICK d \in H : fb[a] = Registered[d[1]]
        BY <4>1 DEF Routes
      <4>3. Position(fb[a]) = d[1] /\ d[1] <= e[1]
        BY <1>2, <4>2, Positions
      <4> QED
        BY <1>4, <1>5, <3>1, <3>3, <4>3
    <3> QED
      BY <1>1, <3>1, <3>2, <3>3
  <2> HIDE DEF g
  <2> QED
    BY <1>5, <2>1, <2>2 DEF Routes
<1>7. ASSUME ModelAt(r, e).id # id PROVE Routes(r, H \cup {e}, id, fb)
  BY <1>7 DEF Routes
<1> QED
  BY <1>6, <1>7

(* An override changes the capabilities and nothing else. *)
LEMMA OverriddenIs ==
  ASSUME NEW p, NEW m, m = [id |-> m.id, caps |-> m.caps]
  PROVE  Overridden(p, m).id = m.id /\ Overridden(p, m) = [id |-> m.id, caps |-> Overridden(p, m).caps]
BY DEF Overridden

(* One more entry leaves a good table good. *)
LEMMA AddModelGood ==
  ASSUME NEW r, TypedReports(r), NEW t, NEW H, H \subseteq Entries(r), NEW e \in Entries(r),
         \A d \in H : d[1] <= e[1], \A k \in 1 .. (e[2] - 1) : <<e[1], k>> \in H,
         Good(r, t, H)
  PROVE  Good(r, AddModel(Registered[e[1]], t, Overridden(Registered[e[1]], ModelAt(r, e))), H \cup {e})
<1> DEFINE p == Registered[e[1]]
           m == Overridden(p, ModelAt(r, e))
           id == m.id
           u == AddModel(p, t, m)
           new == id \notin DOMAIN t.index
           old == IF new THEN <<>> ELSE t.fallbacks[id]
           G == H \cup {e}
<1>1. e[1] \in 1 .. Len(Registered) /\ e[2] \in Nat /\ e[2] \in DOMAIN r[p].models
  BY DEF Entries
<1>2. p \in Providers
  BY <1>1, Positions
<1>3. ModelAt(r, e) = r[p].models[e[2]] /\ ModelAt(r, e) \in ToSet(r[p].models)
  BY <1>1 DEF ModelAt, ToSet
<1>4. /\ ModelAt(r, e).id \in Ids
      /\ ModelAt(r, e) = [id |-> ModelAt(r, e).id, caps |-> ModelAt(r, e).caps]
  BY <1>2, <1>3 DEF TypedReports, TypedReport
<1>5. id = ModelAt(r, e).id /\ id \in Ids
  BY <1>4, OverriddenIs
<1> HIDE DEF p, m
<1>6. /\ u.index = IF new THEN With(t.index, id, p) ELSE t.index
      /\ u.fallbacks = With(t.fallbacks, id, old \o <<p>>)
      /\ u.globs = IF new /\ isGlob(id) THEN Append(t.globs, id) ELSE t.globs
      /\ u.models = IF new THEN Append(t.models, m) ELSE t.models
  BY DEF AddModel
<1> HIDE DEF u
<1>7. /\ DOMAIN t.index = {ModelAt(r, d).id : d \in H}
      /\ DOMAIN t.fallbacks = DOMAIN t.index
      /\ \A x \in DOMAIN t.index : /\ Routes(r, H, x, t.fallbacks[x])
                                   /\ t.fallbacks[x] # <<>>
                                   /\ t.index[x] = t.fallbacks[x][1]
  BY DEF Good, IndexGood
<1>8. Routes(r, H, id, old) /\ (old = <<>> <=> new) /\ (~new => t.index[id] = old[1])
  <2>1. CASE new
    <3>1. \A d \in H : ModelAt(r, d).id # id
      BY <1>7, <2>1
    <3>2. <<>> \in Seq(Providers) /\ ToSet(<<>>) = {} /\ Len(<<>>) = 0
      BY DEF ToSet
    <3>3. Routes(r, H, id, <<>>)
      BY <3>1, <3>2 DEF Routes
    <3> QED
      BY <2>1, <3>3
  <2>2. CASE ~new
    BY <1>7, <2>2
  <2> QED
    BY <2>1, <2>2
<1> HIDE DEF old
<1> DEFINE fb == Append(old, p)
<1>9. /\ old \in Seq(Providers) /\ Len(old) \in Nat
      /\ old \o <<p>> = fb /\ fb \in Seq(Providers) /\ Len(fb) = Len(old) + 1 /\ fb # <<>>
      /\ fb[1] = IF new THEN p ELSE t.index[id]
  <2>1. old \in Seq(Providers)
    BY <1>8 DEF Routes
  <2>2. old \o <<p>> = fb
    BY <1>2, <2>1, AppendIsConcat
  <2>3. /\ fb \in Seq(Providers) /\ Len(fb) = Len(old) + 1 /\ fb[Len(old) + 1] = p /\ fb # <<>>
        /\ \A i \in 1 .. Len(old) : fb[i] = old[i]
    BY <1>2, <2>1, AppendProperties
  <2> HIDE DEF fb
  <2>4. fb[1] = IF new THEN p ELSE t.index[id]
    <3>1. CASE new
      <4>1. Len(old) = 0
        BY <1>8, <3>1
      <4> QED
        BY <2>3, <3>1, <4>1
    <3>2. CASE ~new
      <4>1. 1 \in 1 .. Len(old)
        BY <1>8, <2>1, <3>2
      <4> QED
        BY <1>8, <2>3, <3>2, <4>1
    <3> QED
      BY <3>1, <3>2
  <2> QED
    BY <2>1, <2>2, <2>3, <2>4
<1>10. Routes(r, G, id, fb)
  BY <1>5, <1>8, RoutesKept DEF p
<1>11. \A x : x # id /\ Routes(r, H, x, t.fallbacks[x]) => Routes(r, G, x, t.fallbacks[x])
  BY <1>5, RoutesKept
<1> HIDE DEF fb, new
<1>12. /\ DOMAIN u.index = DOMAIN t.index \cup {id}
       /\ u.index[id] = IF new THEN p ELSE t.index[id]
       /\ \A x \in DOMAIN t.index : x # id => u.index[x] = t.index[x]
  <2>1. CASE new
    BY <1>6, <2>1 DEF With
  <2>2. CASE ~new
    BY <1>6, <2>2 DEF new
  <2> QED
    BY <2>1, <2>2
<1>13. /\ DOMAIN u.fallbacks = DOMAIN t.fallbacks \cup {id}
       /\ u.fallbacks[id] = fb
       /\ \A x \in DOMAIN t.fallbacks : x # id => u.fallbacks[x] = t.fallbacks[x]
  BY <1>6, <1>9 DEF With
<1>14. IndexGood(r, u, G)
  <2>1. DOMAIN u.index = {ModelAt(r, d).id : d \in G}
    BY <1>5, <1>7, <1>12
  <2>2. DOMAIN u.fallbacks = DOMAIN u.index
    BY <1>7, <1>12, <1>13
  <2>3. ASSUME NEW x \in DOMAIN u.index
        PROVE  /\ Routes(r, G, x, u.fallbacks[x])
               /\ u.fallbacks[x] # <<>>
               /\ u.index[x] = u.fallbacks[x][1]
    <3>1. CASE x = id
      BY <1>9, <1>10, <1>12, <1>13, <3>1
    <3>2. CASE x # id
      <4>1. x \in DOMAIN t.index /\ x \in DOMAIN t.fallbacks
        BY <1>7, <1>12, <3>2
      <4>2. u.fallbacks[x] = t.fallbacks[x] /\ u.index[x] = t.index[x]
        BY <1>12, <1>13, <3>2, <4>1
      <4> QED
        BY <1>7, <1>11, <3>2, <4>1, <4>2
    <3> QED
      BY <3>1, <3>2
  <2> QED
    BY <2>1, <2>2, <2>3 DEF IndexGood
<1>15. GlobsGood(u)
  <2>1. t.globs \in Seq(Ids) /\ \A x : x \in ToSet(t.globs) <=> x \in DOMAIN t.index /\ isGlob(x)
    BY DEF Good, GlobsGood
  <2>2. CASE new /\ isGlob(id)
    <3>1. u.globs = Append(t.globs, id)
      BY <1>6, <2>2
    <3>2. u.globs \in Seq(Ids) /\ ToSet(u.globs) = ToSet(t.globs) \cup {id}
      BY <1>5, <2>1, <3>1, Appended
    <3> QED
      BY <1>12, <2>1, <2>2, <3>2 DEF GlobsGood
  <2>3. CASE ~ (new /\ isGlob(id))
    <3>1. u.globs = t.globs
      BY <1>6, <2>3
    <3> QED
      BY <1>12, <2>1, <2>3, <3>1 DEF GlobsGood, new
  <2> QED
    BY <2>2, <2>3
<1>16. ModelsGood(r, u)
  <2>1. /\ t.models \in Seq(ToSet(t.models))
        /\ \A a, b \in 1 .. Len(t.models) : t.models[a].id = t.models[b].id => a = b
        /\ \A x : x \in DOMAIN t.index <=> \E y \in ToSet(t.models) : y.id = x
        /\ \A y \in ToSet(t.models) : FirstEntry(r, t.index[y.id], y)
    BY DEF Good, ModelsGood
  <2>2. CASE ~new
    <3>1. u.models = t.models /\ u.index = t.index
      BY <1>6, <2>2
    <3> QED
      BY <2>1, <3>1 DEF ModelsGood
  <2>3. CASE new
    <3> DEFINE ms == t.models
               X == ToSet(ms) \cup {m}
    <3>1. u.models = Append(ms, m) /\ Len(ms) \in Nat /\ DOMAIN ms = 1 .. Len(ms)
      BY <1>6, <2>1, <2>3
    <3>2. ms \in Seq(X)
      <4>1. ms \in [1 .. Len(ms) -> ToSet(ms)] /\ ToSet(ms) \subseteq X
        BY <2>1
      <4>2. ms \in [1 .. Len(ms) -> X]
        BY <4>1
      <4> QED
        BY <3>1, <4>2
    <3>3. /\ u.models \in Seq(X) /\ Len(u.models) = Len(ms) + 1 /\ u.models[Len(ms) + 1] = m
          /\ (\A i \in 1 .. Len(ms) : u.models[i] = ms[i]) /\ ToSet(u.models) = X
      BY <3>1, <3>2, Appended
    <3>4. \A i \in 1 .. Len(ms) : ms[i].id # id
      <4>1. \A y \in ToSet(ms) : y.id # id
        BY <2>1, <2>3 DEF new
      <4> QED
        BY <3>1, <4>1 DEF ToSet
    <3>5. ASSUME NEW a \in 1 .. Len(u.models), NEW b \in 1 .. Len(u.models),
                 u.models[a].id = u.models[b].id
          PROVE  a = b
      <4>1. \A c \in 1 .. Len(u.models) : c \in 1 .. Len(ms) \/ c = Len(ms) + 1
        BY <3>1, <3>3
      <4> HIDE DEF X, ms
      <4>2. CASE a \in 1 .. Len(ms) /\ b \in 1 .. Len(ms)
        BY <2>1, <3>3, <3>5, <4>2 DEF ms
      <4>3. CASE a = Len(ms) + 1 /\ b \in 1 .. Len(ms)
        BY <3>3, <3>4, <3>5, <4>3
      <4>4. CASE a \in 1 .. Len(ms) /\ b = Len(ms) + 1
        BY <3>3, <3>4, <3>5, <4>4
      <4> QED
        BY <4>1, <4>2, <4>3, <4>4
    <3>6. ASSUME NEW x PROVE x \in DOMAIN u.index <=> \E y \in ToSet(u.models) : y.id = x
      BY <1>12, <2>1, <3>3
    <3>7. FirstEntry(r, p, m)
      <4>1. ASSUME NEW j \in 1 .. (e[2] - 1) PROVE r[p].models[j].id # id
        <5>1. <<e[1], j>> \in H
          OBVIOUS
        <5>2. ModelAt(r, <<e[1], j>>) = r[p].models[j]
          BY DEF ModelAt, p
        <5>3. ModelAt(r, <<e[1], j>>).id \in DOMAIN t.index
          BY <1>7, <5>1
        <5> QED
          BY <2>3, <5>2, <5>3 DEF new
      <4> QED
        BY <1>1, <1>3, <1>5, <4>1 DEF FirstEntry, m
    <3>8. ASSUME NEW y \in ToSet(u.models) PROVE FirstEntry(r, u.index[y.id], y)
      <4>1. CASE y = m
        BY <1>12, <2>3, <3>7, <4>1
      <4>2. CASE y \in ToSet(ms)
        <5>1. y.id \in DOMAIN t.index /\ y.id # id
          BY <2>1, <2>3, <4>2 DEF new
        <5> QED
          BY <1>12, <2>1, <4>2, <5>1
      <4> QED
        BY <3>3, <4>1, <4>2
    <3>9. u.models \in Seq(ToSet(u.models))
      BY <3>3
    <3> QED
      BY <3>5, <3>6, <3>8, <3>9 DEF ModelsGood
  <2> QED
    BY <2>2, <2>3
<1> QED
  BY <1>14, <1>15, <1>16 DEF Good, u, m, p

(* The entries of the first n providers and j of the next one. *)
Done(r, n, j) == {e \in Entries(r) : e[1] <= n \/ (e[1] = n + 1 /\ e[2] <= j)}

(* The report of the next provider leaves a good table good, also a failed *)
(* one.                                                                    *)
LEMMA AddProviderGood ==
  ASSUME NEW r, TypedReports(r), NEW t, NEW n \in Nat, n < Len(Registered), Good(r, t, Done(r, n, 0))
  PROVE  Good(r, AddProvider(t, Registered[n + 1], r[Registered[n + 1]]), Done(r, n + 1, 0))
<1> DEFINE p == Registered[n + 1]
           s == r[p].models
           c == Len(s)
           op == <<"model", p>>
<1>1. n + 1 \in 1 .. Len(Registered) /\ p \in Providers
  BY Positions
<1>2. s \in Seq(ToSet(s)) /\ (~r[p].ok => s = <<>>)
  BY <1>1 DEF TypedReports, TypedReport
<1>3. c \in Nat /\ DOMAIN s = 1 .. c
  BY <1>2
<1>4. \A e \in Entries(r) : e = <<e[1], e[2]>> /\ e[1] \in 1 .. Len(Registered) /\ e[2] \in Nat
                            /\ e[2] \in DOMAIN r[Registered[e[1]]].models
  BY DEF Entries
<1>5. \A k \in 1 .. c : <<n + 1, k>> \in Entries(r)
  BY <1>1, <1>3 DEF Entries
<1>6. Done(r, n + 1, 0) = Done(r, n, c)
  <2>1. \A e \in Entries(r) : e[1] = n + 1 => e[2] \in 1 .. c
    BY <1>3, <1>4
  <2>2. ASSUME NEW e \in Entries(r)
        PROVE  e[1] <= n + 1 \/ (e[1] = n + 1 + 1 /\ e[2] <= 0) <=> e[1] <= n \/ (e[1] = n + 1 /\ e[2] <= c)
    <3>1. e[1] \in 1 .. Len(Registered) /\ e[2] \in Nat /\ (e[1] = n + 1 => e[2] <= c)
      BY <1>3, <1>4, <2>1
    <3>2. e[1] = n + 1 + 1 => e[2] # 0
      <4>1. SUFFICES ASSUME e[1] = n + 1 + 1 PROVE e[2] # 0
        OBVIOUS
      <4>2. Registered[e[1]] \in Providers
        BY <1>4, Positions
      <4>3. r[Registered[e[1]]].models \in Seq(ToSet(r[Registered[e[1]]].models))
        BY <4>2 DEF TypedReports, TypedReport
      <4>4. DOMAIN r[Registered[e[1]]].models = 1 .. Len(r[Registered[e[1]]].models)
        BY <4>3
      <4> QED
        BY <1>4, <4>4
    <3> QED
      BY <3>1, <3>2
  <2> QED
    BY <2>2 DEF Done
<1> HIDE DEF c, s, op
<1>7. PICK h : Run(op, t, s, c, h)
  BY <1>3, FoldSteps
<1> DEFINE T == {j \in 0 .. c : Good(r, h[j], Done(r, n, j))}
<1>8. 0 \in T
  BY <1>3, <1>7 DEF Run
<1>9. ASSUME NEW j \in 1 .. c, j - 1 \in T PROVE j \in T
  <2> DEFINE e == <<n + 1, j>>
  <2>1. e \in Entries(r) /\ e[1] = n + 1 /\ e[2] = j
    BY <1>5
  <2>2. Done(r, n, j) = Done(r, n, j - 1) \cup {e}
    <3>1. ASSUME NEW d \in Entries(r)
          PROVE  d[1] <= n \/ (d[1] = n + 1 /\ d[2] <= j)
                   <=> (d[1] <= n \/ (d[1] = n + 1 /\ d[2] <= j - 1)) \/ d = e
      BY <1>4
    <3> QED
      BY <2>1, <3>1 DEF Done
  <2>3. Done(r, n, j - 1) \subseteq Entries(r) /\ \A d \in Done(r, n, j - 1) : d[1] <= n + 1
    BY <1>4 DEF Done
  <2>4. \A k \in 1 .. (j - 1) : <<n + 1, k>> \in Done(r, n, j - 1)
    BY <1>3, <1>5 DEF Done
  <2>5. h[j] = AddModel(p, h[j - 1], Overridden(p, s[j]))
    BY <1>7 DEF Run, Step, op
  <2>6. ModelAt(r, e) = s[j] /\ Registered[e[1]] = p
    BY DEF ModelAt, s
  <2>7. Good(r, h[j - 1], Done(r, n, j - 1))
    BY <1>9
  <2> HIDE DEF e, p
  <2>8. Good(r, AddModel(Registered[e[1]], h[j - 1], Overridden(Registered[e[1]], ModelAt(r, e))),
             Done(r, n, j - 1) \cup {e})
    <3> DEFINE H == Done(r, n, j - 1)
    <3>1. /\ H \subseteq Entries(r) /\ e \in Entries(r) /\ Good(r, h[j - 1], H)
          /\ \A d \in H : d[1] <= e[1]
          /\ \A k \in 1 .. (e[2] - 1) : <<e[1], k>> \in H
      BY <2>1, <2>3, <2>4, <2>7
    <3> HIDE DEF H
    <3>2. Good(r, AddModel(Registered[e[1]], h[j - 1], Overridden(Registered[e[1]], ModelAt(r, e))), H \cup {e})
      BY <3>1, AddModelGood
    <3> QED
      BY <3>2 DEF H
  <2>9. Good(r, h[j], Done(r, n, j))
    BY <2>2, <2>5, <2>6, <2>8
  <2> QED
    BY <2>9
<1> HIDE DEF T
<1>10. \A j \in 0 .. c : j \in T
  BY <1>3, <1>8, <1>9, UpTo
<1>11. Good(r, h[c], Done(r, n, c)) /\ F(op, t, s) = h[c]
  <2>1. c \in 0 .. c
    BY <1>3
  <2> QED
    BY <1>7, <1>10, <2>1 DEF T, Run
<1>12. AddProvider(t, p, r[p]) = h[c]
  <2>1. AddProvider(t, p, r[p]) = IF ~r[p].ok THEN t ELSE F(op, t, s)
    BY FoldsAre DEF op, s
  <2>2. s = <<>> => c = 0
    BY <1>2 DEF c
  <2>3. h[0] = t
    BY <1>7 DEF Run
  <2> QED
    BY <1>2, <1>11, <2>1, <2>2, <2>3
<1> QED
  BY <1>6, <1>11, <1>12

(* The table of a refresh is good for all that was reported. *)
LEMMA BuildTableGood ==
  ASSUME NEW r, TypedReports(r)
  PROVE  Good(r, BuildTable(r), Entries(r))
<1> DEFINE n == Len(Registered)
           op == <<"provider", r>>
<1>1. n \in Nat /\ DOMAIN Registered = 1 .. n
  BY Positions
<1>2. \A e \in Entries(r) : e[1] \in 1 .. n /\ e[2] \in Nat /\ e[2] \in DOMAIN r[Registered[e[1]]].models
  BY DEF Entries
<1> HIDE DEF op, n
<1>3. PICK h : Run(op, EmptyTable, Registered, n, h)
  BY <1>1, FoldSteps
<1> DEFINE T == {k \in 0 .. n : Good(r, h[k], Done(r, k, 0))}
<1>4. 0 \in T
  <2>1. Done(r, 0, 0) = {}
    <3>1. ASSUME NEW e \in Entries(r), e[1] <= 0 \/ (e[1] = 0 + 1 /\ e[2] <= 0) PROVE FALSE
      <4>1. e[2] = 0 /\ e[1] \in 1 .. n
        BY <1>2, <3>1
      <4>2. Registered[e[1]] \in Providers
        BY <4>1, Positions DEF n
      <4>3. r[Registered[e[1]]].models \in Seq(ToSet(r[Registered[e[1]]].models))
        BY <4>2 DEF TypedReports, TypedReport
      <4>4. DOMAIN r[Registered[e[1]]].models = 1 .. Len(r[Registered[e[1]]].models)
        BY <4>3
      <4> QED
        BY <1>2, <4>1, <4>4
    <3> QED
      BY <3>1 DEF Done
  <2>2. h[0] = EmptyTable
    BY <1>3 DEF Run
  <2>3. DOMAIN <<>> = {} /\ ToSet(<<>>) = {} /\ Len(<<>>) = 0 /\ <<>> \in Seq({}) /\ <<>> \in Seq(Ids)
    BY DEF ToSet
  <2>4. IndexGood(r, EmptyTable, {}) /\ GlobsGood(EmptyTable) /\ ModelsGood(r, EmptyTable)
    BY <2>3 DEF IndexGood, GlobsGood, ModelsGood, EmptyTable
  <2> QED
    BY <1>1, <2>1, <2>2, <2>4 DEF Good
<1>5. ASSUME NEW k \in 1 .. n, k - 1 \in T PROVE k \in T
  <2>1. k - 1 \in Nat /\ k - 1 < Len(Registered) /\ (k - 1) + 1 = k /\ k \in 0 .. n
    BY <1>1 DEF n
  <2>2. h[k] = AddProvider(h[k - 1], Registered[k], r[Registered[k]])
    BY <1>3 DEF Run, Step, op
  <2>3. Good(r, h[k - 1], Done(r, k - 1, 0))
    BY <1>5
  <2>4. Good(r, AddProvider(h[k - 1], Registered[(k - 1) + 1], r[Registered[(k - 1) + 1]]),
             Done(r, (k - 1) + 1, 0))
    BY <2>1, <2>3, AddProviderGood
  <2> QED
    BY <2>1, <2>2, <2>4
<1> HIDE DEF T
<1>6. \A k \in 0 .. n : k \in T
  BY <1>1, <1>4, <1>5, UpTo
<1>7. Good(r, h[n], Done(r, n, 0))
  <2>1. n \in 0 .. n
    BY <1>1
  <2> QED
    BY <1>6, <2>1 DEF T
<1>8. Done(r, n, 0) = Entries(r)
  <2>1. \A e \in Entries(r) : e[1] <= n
    BY <1>1, <1>2
  <2> QED
    BY <2>1 DEF Done
<1>9. BuildTable(r) = h[n]
  BY <1>3, FoldsAre DEF Run, op
<1> QED
  BY <1>7, <1>8, <1>9

-----------------------------------------------------------------------------
(* The lookups on the table of a refresh.                                  *)

(* The table is the one of the reports that are remembered in listed. *)
RoutingInv == TypedReports(listed) /\ Good(listed, table, Entries(listed))

(* What the table says of the last reports: which names there are, and     *)
(* their providers in the order of registration.                           *)
LEMMA TableIs ==
  ASSUME RoutingInv
  PROVE  /\ \A id : id \in DOMAIN table.index <=> \E p \in Providers : Lists(p, id)
         /\ DOMAIN table.fallbacks = DOMAIN table.index /\ DOMAIN table.index \subseteq Ids
         /\ \A id \in DOMAIN table.index :
              /\ table.fallbacks[id] \in Seq(Providers) /\ table.fallbacks[id] # <<>>
              /\ table.index[id] = table.fallbacks[id][1]
              /\ \A p : p \in ToSet(table.fallbacks[id]) <=> p \in Providers /\ Lists(p, id)
              /\ \A a, b \in 1 .. Len(table.fallbacks[id]) :
                   a < b => Position(table.fallbacks[id][a]) <= Position(table.fallbacks[id][b])
<1> USE DEF RoutingInv
<1>1. IndexGood(listed, table, Entries(listed))
  BY DEF Good
<1>2. \A e \in Entries(listed) :
        /\ e[1] \in 1 .. Len(Registered) /\ Registered[e[1]] \in Providers
        /\ ModelAt(listed, e) \in ToSet(listed[Registered[e[1]]].models)
  BY Positions DEF Entries, ModelAt, ToSet
<1>3. ASSUME NEW p \in Providers, NEW id, Lists(p, id)
      PROVE  \E e \in Entries(listed) : ModelAt(listed, e).id = id /\ p = Registered[e[1]]
  <2>1. PICK k \in DOMAIN listed[p].models : listed[p].models[k].id = id
    BY <1>3 DEF Lists, ToSet
  <2>2. k \in Nat
    BY <2>1 DEF TypedReports, TypedReport
  <2> DEFINE e == <<Position(p), k>>
  <2>3. e \in Entries(listed) /\ Registered[e[1]] = p /\ ModelAt(listed, e).id = id
    BY <2>1, <2>2, Positions DEF Entries, ModelAt
  <2> QED
    BY <2>3
<1>4. ASSUME NEW p, NEW id, NEW e \in Entries(listed), ModelAt(listed, e).id = id, p = Registered[e[1]]
      PROVE  p \in Providers /\ Lists(p, id)
  BY <1>2, <1>4 DEF Lists
<1>5. \A p, id : p \in Providers /\ Lists(p, id)
                   <=> \E e \in Entries(listed) : ModelAt(listed, e).id = id /\ p = Registered[e[1]]
  BY <1>3, <1>4
<1>6. \A id : id \in DOMAIN table.index <=> \E e \in Entries(listed) : ModelAt(listed, e).id = id
  BY <1>1 DEF IndexGood
<1>7. \A id : id \in DOMAIN table.index <=> \E p \in Providers : Lists(p, id)
  BY <1>3, <1>4, <1>6
<1>8. \A p \in Providers : \A id : Lists(p, id) => id \in Ids
  BY DEF TypedReports, TypedReport, Lists
<1>9. \A id \in DOMAIN table.index :
        /\ Routes(listed, Entries(listed), id, table.fallbacks[id])
        /\ table.fallbacks[id] # <<>> /\ table.index[id] = table.fallbacks[id][1]
  BY <1>1 DEF IndexGood
<1>10. DOMAIN table.fallbacks = DOMAIN table.index
  BY <1>1 DEF IndexGood
<1>11. ASSUME NEW id \in DOMAIN table.index
       PROVE  /\ table.fallbacks[id] \in Seq(Providers)
              /\ \A p : p \in ToSet(table.fallbacks[id]) <=> p \in Providers /\ Lists(p, id)
              /\ \A a, b \in 1 .. Len(table.fallbacks[id]) :
                   a < b => Position(table.fallbacks[id][a]) <= Position(table.fallbacks[id][b])
  <2> DEFINE fb == table.fallbacks[id]
  <2>1. Routes(listed, Entries(listed), id, fb)
    BY <1>9
  <2>2. \A p : p \in ToSet(fb) <=> \E e \in Entries(listed) : ModelAt(listed, e).id = id /\ p = Registered[e[1]]
    BY <2>1 DEF Routes
  <2>3. \A p : p \in ToSet(fb) <=> p \in Providers /\ Lists(p, id)
    BY <1>5, <2>2
  <2> QED
    BY <2>1, <2>3 DEF Routes
<1> QED
  BY <1>7, <1>8, <1>9, <1>10, <1>11

(* The providers of a name before they are sorted. *)
Found(id) ==
  IF id \in DOMAIN table.fallbacks THEN table.fallbacks[id] ELSE GlobProviders(table, id)

(* The patterns of the table are the listed names that are patterns, each  *)
(* with its providers.                                                     *)
LEMMA PatternsAre ==
  ASSUME RoutingInv
  PROVE  /\ table.globs \in Seq(Ids)
         /\ \A g : g \in ToSet(table.globs) <=> g \in Globs /\ g \in DOMAIN table.index
         /\ \A g \in ToSet(table.globs) :
              table.fallbacks[g] \in Seq(Providers) /\ table.fallbacks[g] # <<>>
<1>1. GlobsGood(table)
  BY DEF RoutingInv, Good
<1> QED
  BY <1>1, TableIs DEF GlobsGood, isGlob

(* They are the servers of the name. *)
LEMMA FoundIs ==
  ASSUME RoutingInv, NEW id
  PROVE  Found(id) \in Seq(Providers) /\ ToSet(Found(id)) = Servers(id)
<1>1. CASE id \in DOMAIN table.fallbacks
  <2>1. Found(id) = table.fallbacks[id]
    BY <1>1 DEF Found
  <2>2. Servers(id) = {p \in Providers : Lists(p, id)}
    BY <1>1, TableIs DEF Servers
  <2> QED
    BY <1>1, <2>1, <2>2, TableIs
<1>2. CASE id \notin DOMAIN table.fallbacks
  <2>1. Found(id) = GlobProviders(table, id)
    BY <1>2 DEF Found
  <2>2. Servers(id) = {p \in Providers : \E g \in Globs : Matches(g, id) /\ Lists(p, g)}
    BY <1>2, TableIs DEF Servers
  <2>3. /\ GlobProviders(table, id) \in Seq(Providers)
        /\ \A y : y \in ToSet(GlobProviders(table, id))
                    <=> \E g \in ToSet(table.globs) : Matches(g, id) /\ y \in ToSet(table.fallbacks[g])
    BY PatternsAre, GlobProvidersAre
  <2>4. \A g \in Globs : \A y : g \in ToSet(table.globs) /\ y \in ToSet(table.fallbacks[g])
                                  <=> y \in Providers /\ Lists(y, g)
    BY PatternsAre, TableIs
  <2>5. ASSUME NEW y PROVE y \in ToSet(GlobProviders(table, id)) <=> y \in Servers(id)
    <3>1. y \in ToSet(GlobProviders(table, id))
            <=> \E g \in Globs : Matches(g, id) /\ g \in ToSet(table.globs) /\ y \in ToSet(table.fallbacks[g])
      BY <2>3, PatternsAre
    <3> QED
      BY <2>2, <2>4, <3>1
  <2> QED
    BY <2>1, <2>3, <2>5
<1> QED
  BY <1>1, <1>2

(* A load is a number for each provider. *)
LEMMA LoadsAre ==
  ASSUME NEW load \in Loads PROVE \A p \in Providers : load[p] \in Int
BY RoutingAssumption DEF Loads

(* A name goes to all its servers and to no other provider. *)
LEMMA Routed == RoutingInv => RoutedToItsServers
<1> SUFFICES ASSUME RoutingInv, NEW id \in Wanted, NEW load \in Loads
             PROVE  ToSet(ProvidersFor(table, load, id)) = Servers(id)
  BY DEF RoutedToItsServers
<1>1. ProvidersFor(table, load, id) = StableSort(Found(id), load)
  BY DEF ProvidersFor, Found
<1>2. Found(id) \in Seq(Providers) /\ ToSet(Found(id)) = Servers(id)
  BY FoundIs
<1>3. ToSet(StableSort(Found(id), load)) = ToSet(Found(id))
  BY <1>2, LoadsAre, SortedIs
<1> QED
  BY <1>1, <1>2, <1>3

(* The least loaded come first, equals in the order of registration. *)
LEMMA Balanced == RoutingInv => LeastLoadedFirst
<1> SUFFICES ASSUME RoutingInv, NEW id \in Wanted, NEW load \in Loads, \E p \in Providers : Lists(p, id)
             PROVE  LET r == ProvidersFor(table, load, id)
                    IN \A i, j \in DOMAIN r :
                         i < j => ~ (\/ load[r[j]] < load[r[i]]
                                     \/ load[r[j]] = load[r[i]] /\ Position(r[j]) < Position(r[i]))
  BY DEF LeastLoadedFirst, SortedBy
<1> DEFINE s == table.fallbacks[id]
           r == ProvidersFor(table, load, id)
           n == Len(s)
<1>1. /\ id \in DOMAIN table.fallbacks /\ s \in Seq(Providers)
      /\ \A a, b \in 1 .. n : a < b => Position(s[a]) <= Position(s[b])
  BY TableIs
<1>2. n \in Nat /\ \A i \in 1 .. n : s[i] \in Providers
  BY <1>1
<1>3. r = StableSort(s, load)
  BY <1>1 DEF ProvidersFor
<1> HIDE DEF s, r
<1>4. PICK f : Sorts(r, s, load, n, f)
  BY <1>1, <1>3, LoadsAre, StableSortIs
<1> HIDE DEF n
<1>5. /\ f \in [1 .. n -> 1 .. n] /\ r = [i \in 1 .. n |-> s[f[i]]]
      /\ \A i, j \in 1 .. n : i < j => \/ load[r[i]] < load[r[j]]
                                       \/ load[r[i]] = load[r[j]] /\ f[i] < f[j]
  BY <1>4 DEF Sorts
<1>6. DOMAIN r = 1 .. n /\ \A i \in 1 .. n : f[i] \in 1 .. n /\ r[i] = s[f[i]]
  BY <1>5
<1>7. ASSUME NEW i \in 1 .. n, NEW j \in 1 .. n, i < j
      PROVE  ~ (\/ load[r[j]] < load[r[i]]
                \/ load[r[j]] = load[r[i]] /\ Position(r[j]) < Position(r[i]))
  <2>1. r[i] \in Providers /\ r[j] \in Providers
    BY <1>2, <1>6
  <2>2. load[r[i]] \in Int /\ load[r[j]] \in Int /\ Position(r[i]) \in Int /\ Position(r[j]) \in Int
    BY <2>1, LoadsAre, Positions
  <2>3. \/ load[r[i]] < load[r[j]]
        \/ load[r[i]] = load[r[j]] /\ f[i] < f[j]
    BY <1>5, <1>7
  <2>4. f[i] < f[j] => Position(r[i]) <= Position(r[j])
    <3>1. f[i] \in 1 .. n /\ f[j] \in 1 .. n /\ r[i] = s[f[i]] /\ r[j] = s[f[j]]
      BY <1>6
    <3> QED
      BY <1>1, <3>1
  <2> QED
    BY <2>2, <2>3, <2>4
<1> QED
  BY <1>6, <1>7 DEF r

(* The models that have all the capabilities of a selector. *)
LEMMA AbleIs ==
  ASSUME RoutingInv, NEW sel
  PROVE  /\ Able(table, sel) \in Seq(ToSet(table.models))
         /\ ToSet(Able(table, sel)) = {m \in ToSet(table.models) : sel \subseteq m.caps}
         /\ \A m \in ToSet(table.models) :
              /\ m.id \in DOMAIN table.index /\ m.id \in Ids
              /\ table.fallbacks[m.id] \in Seq(Providers) /\ table.fallbacks[m.id] # <<>>
         /\ \A id \in DOMAIN table.index : \E m \in ToSet(table.models) : m.id = id
<1>1. ModelsGood(listed, table)
  BY DEF RoutingInv, Good
<1>2. table.models \in Seq(ToSet(table.models))
      /\ \A id : id \in DOMAIN table.index <=> \E m \in ToSet(table.models) : m.id = id
  BY <1>1 DEF ModelsGood
<1>3. /\ Able(table, sel) \in Seq(ToSet(table.models))
      /\ ToSet(Able(table, sel)) = ToSet(table.models) \cap {m \in ToSet(table.models) : sel \subseteq m.caps}
  BY <1>2, AmongIs DEF Able, hasAllCaps
<1> QED
  BY <1>2, <1>3, TableIs

(* The capabilities of a model are those that one of its providers reports. *)
LEMMA CapsReported ==
  ASSUME RoutingInv, NEW m \in ToSet(table.models)
  PROVE  \E q \in Providers : m.caps \in Reports(q, m.id)
<1> DEFINE q == table.index[m.id]
           fb == table.fallbacks[m.id]
<1>1. FirstEntry(listed, q, m) /\ m.id \in DOMAIN table.index
  BY AbleIs DEF RoutingInv, Good, ModelsGood
<1>2. fb \in Seq(Providers) /\ fb # <<>> /\ q = fb[1]
  BY <1>1, TableIs
<1> HIDE DEF fb
<1>3. q \in Providers
  BY <1>2
<1> HIDE DEF q
<1>4. PICK k \in DOMAIN listed[q].models :
        m = Overridden(q, listed[q].models[k]) /\ m.id = listed[q].models[k].id
  BY <1>1 DEF FirstEntry
<1>5. listed[q].models[k] \in ToSet(listed[q].models)
  BY <1>4 DEF ToSet
<1>6. m.caps \in Reports(q, m.id)
  BY <1>4, <1>5 DEF Reports
<1> QED
  BY <1>3, <1>6

(* A selector's candidates before they are sorted. *)
LEMMA AutoPairs ==
  ASSUME RoutingInv, NEW sel
  PROVE  /\ Pairs(table, sel) \in Seq(ToSet(Pairs(table, sel)))
         /\ IsInjective(Pairs(table, sel))
         /\ \A c \in ToSet(Pairs(table, sel)) : c.provider \in Providers
         /\ \A y : y \in ToSet(Pairs(table, sel))
                     <=> \E m \in ToSet(Able(table, sel)) :
                           \E p \in Providers : Lists(p, m.id) /\ y = Candidate(m.id, p)
         /\ Pairs(table, sel) = <<>> <=> Able(table, sel) = <<>>
<1> DEFINE r == Pairs(table, sel)
           s == Able(table, sel)
           Y == [model : Ids, provider : Providers]
<1>1. /\ s \in Seq(ToSet(table.models))
      /\ \A m \in ToSet(s) : /\ table.fallbacks[m.id] \in Seq(Providers) /\ table.fallbacks[m.id] # <<>>
                             /\ m.id \in DOMAIN table.index /\ m.id \in Ids
  BY AbleIs
<1>2. /\ r \in Seq(Y) /\ IsInjective(r)
      /\ \A y : y \in ToSet(r) <=> \E m \in ToSet(s) : \E p \in ToSet(table.fallbacks[m.id]) : y = Candidate(m.id, p)
      /\ r = <<>> <=> s = <<>>
  <2>1. ArePairs(table, sel, Ids, Providers)
    BY <1>1, PairsAre
  <2> QED
    BY <2>1 DEF ArePairs
<1> HIDE DEF s, r
<1>3. \A m \in ToSet(s) : \A p : p \in ToSet(table.fallbacks[m.id]) <=> p \in Providers /\ Lists(p, m.id)
  BY <1>1, TableIs
<1>4. \A y : y \in ToSet(r) <=> \E m \in ToSet(s) : \E p \in Providers : Lists(p, m.id) /\ y = Candidate(m.id, p)
  BY <1>2, <1>3
<1>5. \A c \in ToSet(r) : c.provider \in Providers
  <2>1. ToSet(r) \subseteq Y
    BY <1>2, SetOf
  <2> QED
    BY <2>1
<1>6. r \in Seq(ToSet(r))
  <2> HIDE DEF Y
  <2>1. DOMAIN r = 1 .. Len(r) /\ Len(r) \in Nat /\ r = [i \in 1 .. Len(r) |-> r[i]]
    BY <1>2
  <2>2. \A i \in 1 .. Len(r) : r[i] \in ToSet(r)
    BY <2>1 DEF ToSet
  <2>3. r \in [1 .. Len(r) -> ToSet(r)]
    BY <2>1, <2>2
  <2> QED
    BY <2>1, <2>3
<1> QED
  BY <1>2, <1>4, <1>5, <1>6 DEF r, s

(* Sorting loses no candidate of a selector and repeats none. *)
LEMMA AutoSorted ==
  ASSUME RoutingInv, NEW sel \in Selectors, NEW load \in Loads
  PROVE  LET cs == candidatesForAuto(table, load, sel)
         IN /\ IsInjective(cs) /\ ToSet(cs) = ToSet(Pairs(table, sel))
            /\ cs = <<>> <=> Able(table, sel) = <<>>
            /\ \A a, b \in DOMAIN cs : a < b => ~ load[cs[b].provider] < load[cs[a].provider]
<1> DEFINE s == Pairs(table, sel)
           X == ToSet(s)
           busy == [c \in X |-> load[c.provider]]
           cs == candidatesForAuto(table, load, sel)
<1>1. sel # {}
  BY DEF Selectors
<1>2. cs = StableSort(s, busy)
  BY <1>1, AutoIs
<1>3. s \in Seq(X) /\ IsInjective(s) /\ (\A c \in X : c.provider \in Providers)
      /\ (s = <<>> <=> Able(table, sel) = <<>>)
  BY AutoPairs
<1> HIDE DEF cs, s, X
<1>4. \A c \in X : busy[c] \in Int
  BY <1>3, LoadsAre
<1>8. \A c \in X : busy[c] = load[c.provider]
  OBVIOUS
<1> HIDE DEF busy
<1>7. ASSUME NEW a \in DOMAIN cs, NEW b \in DOMAIN cs, a < b
      PROVE  ~ load[cs[b].provider] < load[cs[a].provider]
  <2> DEFINE n == Len(s)
  <2>1. n \in Nat /\ \A x \in 1 .. n : s[x] \in X
    BY <1>3
  <2>2. PICK f : Sorts(cs, s, busy, n, f)
    BY <1>2, <1>3, <1>4, StableSortIs
  <2> HIDE DEF n
  <2>3. /\ f \in [1 .. n -> 1 .. n] /\ cs = [x \in 1 .. n |-> s[f[x]]]
        /\ \A x, y \in 1 .. n : x < y => busy[cs[x]] <= busy[cs[y]]
    <3>1. /\ f \in [1 .. n -> 1 .. n] /\ cs = [x \in 1 .. n |-> s[f[x]]]
          /\ \A x, y \in 1 .. n : x < y => \/ busy[cs[x]] < busy[cs[y]]
                                           \/ busy[cs[x]] = busy[cs[y]] /\ f[x] < f[y]
      BY <2>2 DEF Sorts
    <3>2. \A x \in 1 .. n : busy[cs[x]] \in Int
      BY <2>1, <3>1, <1>4
    <3> QED
      BY <3>1, <3>2
  <2>4. a \in 1 .. n /\ b \in 1 .. n /\ cs[a] \in X /\ cs[b] \in X
    BY <2>1, <2>3
  <2>5. busy[cs[a]] <= busy[cs[b]] /\ busy[cs[a]] \in Int /\ busy[cs[b]] \in Int
    BY <1>4, <1>7, <2>3, <2>4
  <2> QED
    BY <1>8, <2>4, <2>5
<1>5. /\ StableSort(s, busy) \in Seq(X) /\ ToSet(StableSort(s, busy)) = ToSet(s)
      /\ Len(StableSort(s, busy)) = Len(s) /\ IsInjective(StableSort(s, busy))
  BY <1>3, <1>4, SortedIs
<1>6. cs = <<>> <=> s = <<>>
  BY <1>2, <1>3, <1>5
<1> QED
  BY <1>2, <1>3, <1>5, <1>6, <1>7 DEF s, cs

(* A model that its providers do not disagree about is tried at exactly    *)
(* those that have it with the capabilities of the selector.               *)
LEMMA AutoServed == RoutingInv => AutoRouted
<1> SUFFICES ASSUME RoutingInv, NEW sel \in Selectors, NEW load \in Loads
             PROVE  LET settled == {id \in Ids \ Globs : Undisputed(id, sel)}
                        offers  == {ip \in settled \X Providers :
                                      \E c \in Reports(ip[2], ip[1]) : sel \subseteq c}
                        cs == candidatesForAuto(table, load, sel)
                    IN /\ IsInjective(cs)
                       /\ \A a, b \in DOMAIN cs : a < b => ~ load[cs[b].provider] < load[cs[a].provider]
                       /\ \A id \in settled, p \in Providers :
                            Candidate(id, p) \in ToSet(cs) <=> <<id, p>> \in offers
  BY DEF AutoRouted, SortedBy
<1> DEFINE cs == candidatesForAuto(table, load, sel)
<1>1. /\ IsInjective(cs)
      /\ \A a, b \in DOMAIN cs : a < b => ~ load[cs[b].provider] < load[cs[a].provider]
      /\ ToSet(cs) = ToSet(Pairs(table, sel))
  BY AutoSorted
<1>2. \A y : y \in ToSet(cs) <=> \E m \in ToSet(Able(table, sel)) :
                                  \E p \in Providers : Lists(p, m.id) /\ y = Candidate(m.id, p)
  BY <1>1, AutoPairs
<1> HIDE DEF cs
<1>3. \A id : \A p \in Providers : Reports(p, id) # {} <=> Lists(p, id)
  BY DEF Reports, Lists
<1>4. ASSUME NEW id \in Ids \ Globs, NEW p \in Providers, Undisputed(id, sel),
             Candidate(id, p) \in ToSet(cs)
      PROVE  \E c \in Reports(p, id) : sel \subseteq c
  <2>1. PICK m \in ToSet(Able(table, sel)), o \in Providers :
          Lists(o, m.id) /\ Candidate(id, p) = Candidate(m.id, o)
    BY <1>2, <1>4
  <2>2. m.id = id /\ o = p
    BY <2>1 DEF Candidate
  <2>3. m \in ToSet(table.models) /\ sel \subseteq m.caps
    BY AbleIs
  <2>4. PICK q \in Providers : m.caps \in Reports(q, id)
    BY <2>2, <2>3, CapsReported
  <2>5. PICK c : c \in Reports(p, id)
    BY <1>3, <2>1, <2>2
  <2>6. sel \subseteq m.caps <=> sel \subseteq c
    BY <1>4, <2>4, <2>5 DEF Undisputed
  <2> QED
    BY <2>3, <2>5, <2>6
<1>5. ASSUME NEW id \in Ids \ Globs, NEW p \in Providers, Undisputed(id, sel),
             NEW c \in Reports(p, id), sel \subseteq c
      PROVE  Candidate(id, p) \in ToSet(cs)
  <2>1. Lists(p, id)
    BY <1>3, <1>5
  <2>2. PICK m \in ToSet(table.models) : m.id = id
    BY <2>1, TableIs, AbleIs
  <2>3. PICK q \in Providers : m.caps \in Reports(q, id)
    BY <2>2, CapsReported
  <2>4. sel \subseteq m.caps <=> sel \subseteq c
    BY <1>5, <2>3 DEF Undisputed
  <2>5. m \in ToSet(Able(table, sel))
    BY <1>5, <2>2, <2>4, AbleIs
  <2> QED
    BY <1>2, <2>1, <2>2, <2>5
<1>6. ASSUME NEW id \in Ids \ Globs, NEW p \in Providers, Undisputed(id, sel)
      PROVE  Candidate(id, p) \in ToSet(cs) <=> \E c \in Reports(p, id) : sel \subseteq c
  BY <1>4, <1>5, <1>6
<1> QED
  BY <1>1, <1>6 DEF cs

(* With no load the order is the one of the table, and ProviderFor's is its first. *)
LEMMA IdleFirst ==
  ASSUME RoutingInv, NEW id
  PROVE  LET ps == ProvidersFor(table, [p \in Providers |-> 0], id)
         IN ProviderFor(table, id) = IF ps = <<>> THEN NoProvider ELSE ps[1]
<1> DEFINE zero == [p \in Providers |-> 0]
           ps == ProvidersFor(table, zero, id)
           s == Found(id)
           M == {g \in Globs : Matches(g, id)}
           hits == Among(table.globs, M)
<1>1. ps = StableSort(s, zero)
  BY DEF ProvidersFor, Found
<1>2. s \in Seq(Providers) /\ ToSet(s) = Servers(id)
  BY FoundIs
<1>3. (\A p \in Providers : zero[p] \in Int) /\ (\A p, q \in Providers : zero[p] = zero[q])
  OBVIOUS
<1> HIDE DEF zero, s, ps
<1>4. /\ ps \in Seq(Providers) /\ Len(ps) = Len(s)
      /\ s # <<>> => ps # <<>> /\ ps[1] = s[1]
  BY <1>1, <1>2, <1>3, SortedIs
<1>5. s = <<>> => ps = <<>>
  BY <1>2, <1>4
<1>6. ProviderFor(table, id) = IF s = <<>> THEN NoProvider ELSE s[1]
  <2>1. CASE id \in DOMAIN table.index
    <3>1. s = table.fallbacks[id] /\ s # <<>> /\ table.index[id] = s[1]
      BY <2>1, TableIs DEF s, Found
    <3> QED
      BY <2>1, <3>1 DEF ProviderFor
  <2>2. CASE id \notin DOMAIN table.index
    <3>1. s = GlobProviders(table, id)
      BY <2>2, TableIs DEF s, Found
    <3>2. ProviderFor(table, id) = IF hits # <<>> THEN table.index[Head(hits)] ELSE NoProvider
      BY <2>2 DEF ProviderFor
    <3>3. /\ table.globs \in Seq(Ids) /\ DOMAIN table.globs = 1 .. Len(table.globs)
          /\ \A g \in ToSet(table.globs) :
               /\ g \in Globs /\ g \in DOMAIN table.index
               /\ table.fallbacks[g] \in Seq(Providers) /\ table.fallbacks[g] # <<>>
      BY PatternsAre
    <3>4. /\ hits \in Seq(Ids)
          /\ ToSet(hits) = ToSet(table.globs) \cap M
          /\ hits # <<>> =>
               \E k \in DOMAIN table.globs :
                 /\ table.globs[k] \in M /\ hits[1] = table.globs[k]
                 /\ \A j \in 1 .. (k - 1) : table.globs[j] \notin M
      <4> HIDE DEF M
      <4> QED
        BY <3>3, AmongIs
    <3>5. /\ \A y : y \in ToSet(s) <=> \E g \in ToSet(table.globs) : Matches(g, id) /\ y \in ToSet(table.fallbacks[g])
          /\ \A k \in DOMAIN table.globs :
               Matches(table.globs[k], id) /\ (\A j \in 1 .. (k - 1) : ~Matches(table.globs[j], id))
                 => s # <<>> /\ s[1] = table.fallbacks[table.globs[k]][1]
      BY <3>1, <3>3, GlobProvidersAre
    <3> HIDE DEF hits
    <3>6. CASE hits = <<>>
      <4>1. ToSet(hits) = {}
        BY <3>6 DEF ToSet
      <4>2. \A g \in ToSet(table.globs) : ~Matches(g, id)
        BY <3>3, <3>4, <4>1
      <4>3. ToSet(s) = {}
        BY <3>5, <4>2
      <4>4. s = <<>>
        BY <1>2, <4>3, SetOf
      <4> QED
        BY <3>2, <3>6, <4>4
    <3>7. CASE hits # <<>>
      <4>1. PICK k \in DOMAIN table.globs :
              /\ table.globs[k] \in M /\ hits[1] = table.globs[k]
              /\ \A j \in 1 .. (k - 1) : table.globs[j] \notin M
        BY <3>4, <3>7
      <4>2. \A j \in DOMAIN table.globs : table.globs[j] \in ToSet(table.globs)
        BY DEF ToSet
      <4>3. Matches(table.globs[k], id) /\ \A j \in 1 .. (k - 1) : ~Matches(table.globs[j], id)
        <5>1. \A j \in 1 .. (k - 1) : j \in DOMAIN table.globs
          BY <3>3
        <5> QED
          BY <3>3, <4>1, <4>2, <5>1
      <4>4. s # <<>> /\ s[1] = table.fallbacks[table.globs[k]][1]
        BY <3>5, <4>3
      <4>5. table.index[table.globs[k]] = table.fallbacks[table.globs[k]][1]
        BY <3>3, <4>2, TableIs
      <4>6. Head(hits) = hits[1]
        BY <3>4, <3>7
      <4> QED
        BY <3>2, <3>7, <4>1, <4>4, <4>5, <4>6
    <3> QED
      BY <3>6, <3>7
  <2> QED
    BY <2>1, <2>2
<1> QED
  BY <1>4, <1>5, <1>6 DEF ps, zero

(* What a selector resolves to. *)
LEMMA Resolved ==
  ASSUME RoutingInv, NEW sel \in Selectors, NEW load \in Loads, Able(table, sel) # <<>>
  PROVE  \E w \in ToSet(Able(table, sel)) :
           /\ ResolveModel(table, load, sel) = w.id
           /\ \A m \in ToSet(Able(table, sel)) : load[table.index[w.id]] <= load[table.index[m.id]]
<1> DEFINE s == Able(table, sel)
           X == ToSet(s)
           busy == [m \in X |-> load[table.index[m.id]]]
           w == StableSort(s, busy)[1]
<1>1. ResolveModel(table, load, sel) = w.id
  BY DEF ResolveModel, Selectors
<1>2. s \in Seq(ToSet(table.models)) /\ X \subseteq ToSet(table.models)
  BY AbleIs
<1>3. ASSUME NEW m \in X PROVE load[table.index[m.id]] \in Int
  <2>1. m.id \in DOMAIN table.index
    BY <1>2, AbleIs
  <2>2. table.index[m.id] \in Providers
    <3>1. table.fallbacks[m.id] \in Seq(Providers) /\ table.fallbacks[m.id] # <<>>
          /\ table.index[m.id] = table.fallbacks[m.id][1]
      BY <2>1, TableIs
    <3> QED
      BY <3>1
  <2> QED
    BY <2>2, LoadsAre
<1>4. s # <<>>
  OBVIOUS
<1> HIDE DEF s
<1>5. s \in Seq(X)
  <2>1. DOMAIN s = 1 .. Len(s) /\ Len(s) \in Nat /\ s = [i \in 1 .. Len(s) |-> s[i]]
    BY <1>2
  <2>2. \A i \in 1 .. Len(s) : s[i] \in X
    BY <2>1 DEF ToSet
  <2>3. s \in [1 .. Len(s) -> X]
    BY <2>1, <2>2
  <2> QED
    BY <2>1, <2>3
<1> HIDE DEF X
<1>6. \A m \in X : busy[m] = load[table.index[m.id]] /\ busy[m] \in Int
  BY <1>3
<1> HIDE DEF busy
<1>7. /\ StableSort(s, busy) \in Seq(X) /\ ToSet(StableSort(s, busy)) = X
      /\ StableSort(s, busy) # <<>> /\ \A y \in X : busy[w] <= busy[y]
  BY <1>4, <1>5, <1>6, SortedIs DEF X
<1>8. w \in X
  BY <1>7
<1> HIDE DEF w
<1> QED
  BY <1>1, <1>6, <1>7, <1>8 DEF X, s

(* The lookups say the same of the same table. *)
LEMMA Agreed == RoutingInv => LookupsAgree
<1> SUFFICES ASSUME RoutingInv, NEW sel \in Selectors, NEW load \in Loads
             PROVE  LET cs == candidatesForAuto(table, load, sel)
                        id == ResolveModel(table, load, sel)
                    IN /\ id = Unchanged <=> cs = <<>>
                       /\ id # Unchanged =>
                            /\ \E c \in ToSet(cs) : c.model = id
                            /\ \A m \in {c.model : c \in ToSet(cs)} :
                                 load[table.index[id]] <= load[table.index[m]]
  BY IdleFirst DEF LookupsAgree
<1> DEFINE cs == candidatesForAuto(table, load, sel)
           id == ResolveModel(table, load, sel)
<1>1. (cs = <<>> <=> Able(table, sel) = <<>>) /\ ToSet(cs) = ToSet(Pairs(table, sel))
  BY AutoSorted
<1> HIDE DEF cs
<1>2. CASE Able(table, sel) = <<>>
  <2>1. id = Unchanged
    BY <1>2 DEF ResolveModel
  <2> QED
    BY <1>1, <1>2, <2>1 DEF cs
<1>3. CASE Able(table, sel) # <<>>
  <2>1. PICK w \in ToSet(Able(table, sel)) :
          /\ id = w.id
          /\ \A m \in ToSet(Able(table, sel)) : load[table.index[w.id]] <= load[table.index[m.id]]
    BY <1>3, Resolved
  <2>2. id \in Ids /\ id # Unchanged /\ id \in DOMAIN table.index
    BY <2>1, AbleIs, RoutingAssumption
  <2>3. \E c \in ToSet(cs) : c.model = id
    <3>1. PICK p \in Providers : Lists(p, id)
      BY <2>2, TableIs
    <3>2. Candidate(w.id, p) \in ToSet(cs)
      BY <1>1, <2>1, <3>1, AutoPairs
    <3> QED
      BY <2>1, <3>2 DEF Candidate
  <2>4. ASSUME NEW c \in ToSet(cs) PROVE load[table.index[id]] <= load[table.index[c.model]]
    <3>1. PICK m \in ToSet(Able(table, sel)), p \in Providers : c = Candidate(m.id, p)
      BY <1>1, AutoPairs
    <3> QED
      BY <2>1, <3>1 DEF Candidate
  <2> HIDE DEF id
  <2> QED
    BY <1>1, <1>3, <2>2, <2>3, <2>4 DEF cs, id
<1> QED
  BY <1>2, <1>3

-----------------------------------------------------------------------------
(* Discovery: what Models makes of an answer.                              *)

(* A list of models with known names is a typed report. *)
LEMMA ListingTyped ==
  ASSUME NEW s, NEW n \in Nat, s = [i \in 1 .. n |-> s[i]],
         \A i \in 1 .. n : s[i].id \in Ids /\ s[i] = [id |-> s[i].id, caps |-> s[i].caps]
  PROVE  TypedReport(Listing(s))
<1>1. DOMAIN s = 1 .. n /\ \A i \in 1 .. n : s[i] \in ToSet(s)
  BY DEF ToSet
<1>2. s \in [1 .. n -> ToSet(s)]
  BY <1>1
<1>3. s \in Seq(ToSet(s))
  BY <1>2
<1>4. \A m \in ToSet(s) : m.id \in Ids /\ m = [id |-> m.id, caps |-> m.caps]
  BY <1>1 DEF ToSet
<1> QED
  BY <1>3, <1>4 DEF TypedReport, Listing

(* So is a failure, which lists nothing. *)
LEMMA FailedTyped == TypedReport(Failed)
<1>1. ToSet(<<>>) = {} /\ <<>> \in Seq({})
  BY DEF ToSet
<1> QED
  BY <1>1 DEF TypedReport, Failed

(* What an answer of an upstream is. *)
LEMMA AnsweredIs ==
  ASSUME NEW a, NEW E, Answered(a, E)
  PROVE  /\ a.ok \in BOOLEAN /\ a.models \in Seq(E) /\ (~a.ok => a = Failed)
         /\ Len(a.models) \in Nat /\ DOMAIN a.models = 1 .. Len(a.models)
         /\ \A i \in 1 .. Len(a.models) : a.models[i] \in E
<1>1. a.ok \in BOOLEAN /\ a.models \in Seq(E) /\ (~a.ok => a = Failed)
  <2>1. CASE a = Failed
    BY <2>1 DEF Failed
  <2>2. CASE a = Listing(a.models) /\ a.models \in Seq(E)
    <3>1. Listing(a.models).ok = TRUE
      BY DEF Listing
    <3>2. a.ok = TRUE
      BY <2>2, <3>1, Zenon
    <3> QED
      BY <2>2, <3>2
  <2> QED
    BY <2>1, <2>2 DEF Answered
<1> QED
  BY <1>1

(* The list of /v1/models: as it is, or a failure. *)
LEMMA OpenAITyped ==
  ASSUME NEW u, Answered(u.plain, PlainEntry)
  PROVE  /\ TypedReport(OpenAIModels(u)) /\ OpenAIModels(u).ok = u.plain.ok
         /\ DOMAIN OpenAIModels(u).models = 1 .. Len(u.plain.models) /\ Len(u.plain.models) \in Nat
         /\ \A i \in 1 .. Len(u.plain.models) :
              /\ OpenAIModels(u).models[i].id = u.plain.models[i].id /\ u.plain.models[i].id \in Ids
              /\ OpenAIModels(u).models[i]
                   = [id |-> u.plain.models[i].id, caps |-> OpenAIModels(u).models[i].caps]
<1> DEFINE ms == u.plain.models
           n == Len(ms)
           s == ModelsFromOpenAI(ms)
<1>1. /\ u.plain.ok \in BOOLEAN /\ (~u.plain.ok => u.plain = Failed) /\ n \in Nat /\ DOMAIN ms = 1 .. n
      /\ \A i \in 1 .. n : ms[i].id \in Ids
  <2>1. /\ u.plain.ok \in BOOLEAN /\ (~u.plain.ok => u.plain = Failed) /\ n \in Nat /\ DOMAIN ms = 1 .. n
        /\ \A i \in 1 .. n : ms[i] \in PlainEntry
    BY AnsweredIs
  <2>2. \A m \in PlainEntry : m.id \in Ids
    BY DEF PlainEntry
  <2> QED
    BY <2>1, <2>2
<1>2. /\ s = [i \in 1 .. n |-> [id |-> ms[i].id, caps |-> modelCapabilities(ms[i])]]
  BY <1>1 DEF ModelsFromOpenAI
<1> HIDE DEF s
<1>3. /\ s = [i \in 1 .. n |-> s[i]] /\ DOMAIN s = 1 .. n
      /\ \A i \in 1 .. n : /\ s[i].id = ms[i].id /\ s[i].id \in Ids
                           /\ s[i] = [id |-> s[i].id, caps |-> s[i].caps]
  BY <1>1, <1>2
<1>4. TypedReport(Listing(s))
  BY <1>1, <1>3, ListingTyped
<1>5. CASE u.plain.ok
  <2>1. OpenAIModels(u) = Listing(s)
    BY <1>5 DEF OpenAIModels, s
  <2>2. Listing(s).ok = TRUE /\ Listing(s).models = s
    BY DEF Listing
  <2> QED
    BY <1>1, <1>3, <1>4, <1>5, <2>1, <2>2, ZenonT(60)
<1>6. CASE ~u.plain.ok
  <2>1. OpenAIModels(u) = Failed
    BY <1>6 DEF OpenAIModels
  <2>2. u.plain = Failed /\ Failed.ok = FALSE /\ Failed.models = <<>>
    BY <1>1, <1>6 DEF Failed
  <2> QED
    BY <2>1, <2>2, FailedTyped
<1> QED
  BY <1>1, <1>5, <1>6

(* The configured list has the configured names, in their order. *)
LEMMA StaticTyped ==
  ASSUME NEW c, c.static \in Seq(Ids)
  PROVE  /\ TypedReport(Static(c)) /\ Static(c).ok = TRUE
         /\ DOMAIN Static(c).models = 1 .. Len(c.static) /\ Len(c.static) \in Nat
         /\ \A i \in 1 .. Len(c.static) : Static(c).models[i].id = c.static[i]
<1> DEFINE s == [i \in DOMAIN c.static |-> [id |-> c.static[i], caps |-> {}]]
           n == Len(c.static)
<1>1. n \in Nat /\ DOMAIN c.static = 1 .. n /\ \A i \in 1 .. n : c.static[i] \in Ids
  OBVIOUS
<1>2. /\ s = [i \in 1 .. n |-> s[i]] /\ DOMAIN s = 1 .. n
      /\ \A i \in 1 .. n : /\ s[i].id = c.static[i] /\ s[i].id \in Ids
                           /\ s[i] = [id |-> s[i].id, caps |-> s[i].caps]
  BY <1>1
<1>3. Static(c).models = s /\ Static(c).ok = TRUE /\ Static(c) = Listing(s)
  BY DEF Static, Listing
<1> HIDE DEF s
<1>4. TypedReport(Listing(s))
  BY <1>1, <1>2, ListingTyped
<1> QED
  BY <1>1, <1>2, <1>3, <1>4

(* The capabilities may be replaced entry by entry. *)
LEMMA RecappedTyped ==
  ASSUME NEW a, TypedReport(a), NEW s, s = [i \in DOMAIN a.models |-> [a.models[i] EXCEPT !.caps = s[i].caps]]
  PROVE  /\ TypedReport(Listing(s)) /\ DOMAIN s = DOMAIN a.models
         /\ \A i \in DOMAIN s : s[i].id = a.models[i].id
<1> DEFINE ms == a.models
           n == Len(ms)
<1>1. /\ n \in Nat /\ DOMAIN ms = 1 .. n
      /\ \A i \in 1 .. n : ms[i].id \in Ids /\ ms[i] = [id |-> ms[i].id, caps |-> ms[i].caps]
  <2>1. ms \in Seq(ToSet(ms)) /\ \A m \in ToSet(ms) : m.id \in Ids /\ m = [id |-> m.id, caps |-> m.caps]
    BY DEF TypedReport
  <2>2. n \in Nat /\ DOMAIN ms = 1 .. n
    BY <2>1
  <2> QED
    BY <2>1, <2>2 DEF ToSet
<1> HIDE DEF n
<1>2. \A i \in 1 .. n : s[i] = [id |-> ms[i].id, caps |-> s[i].caps]
  <2>1. \A i \in 1 .. n : s[i] = [ms[i] EXCEPT !.caps = s[i].caps]
    BY <1>1
  <2> QED
    BY <1>1, <2>1
<1>3. DOMAIN s = 1 .. n /\ s = [i \in 1 .. n |-> s[i]]
  BY <1>1
<1>4. ASSUME NEW i \in 1 .. n PROVE s[i].id = ms[i].id
  <2> DEFINE caps == s[i].caps
  <2>1. s[i] = [id |-> ms[i].id, caps |-> caps]
    BY <1>2
  <2> HIDE DEF caps
  <2>2. [id |-> ms[i].id, caps |-> caps].id = ms[i].id
    OBVIOUS
  <2> QED
    BY <2>1, <2>2, Zenon
<1>5. TypedReport(Listing(s))
  BY <1>1, <1>2, <1>3, <1>4, ListingTyped, ZenonT(60)
<1> QED
  BY <1>1, <1>3, <1>4, <1>5

(* The models of an Anthropic answer, which have no capabilities. *)
AnthropicListed(u) == [i \in DOMAIN u.plain.models |-> [id |-> u.plain.models[i].id, caps |-> {}]]

(* The Anthropic provider reports a typed list, or a failure. *)
LEMMA AnthropicTyped ==
  ASSUME NEW u, Answered(u.plain, PlainEntry)
  PROVE  TypedReport(AnthropicModels(u))
<1> DEFINE n == Len(u.plain.models)
           s == AnthropicListed(u)
<1>1. /\ n \in Nat /\ DOMAIN u.plain.models = 1 .. n /\ \A i \in 1 .. n : u.plain.models[i].id \in Ids
  BY OpenAITyped, AnsweredIs
<1>2. s = [i \in 1 .. n |-> [id |-> u.plain.models[i].id, caps |-> {}]]
  BY <1>1 DEF AnthropicListed
<1> HIDE DEF s
<1>3. s = [i \in 1 .. n |-> s[i]]
      /\ \A i \in 1 .. n : s[i].id \in Ids /\ s[i] = [id |-> s[i].id, caps |-> s[i].caps]
  BY <1>1, <1>2
<1>4. TypedReport(Listing(s))
  BY <1>1, <1>3, ListingTyped
<1>5. AnthropicModels(u) = IF u.plain.ok THEN Listing(s) ELSE Failed
  BY DEF AnthropicModels, AnthropicListed, s
<1> QED
  BY <1>4, <1>5, FailedTyped

(* LiteLLM reports the models of /v1/models, whatever /model/info says. *)
LEMMA LiteLLMTyped ==
  ASSUME NEW u, Answered(u.plain, PlainEntry)
  PROVE  /\ TypedReport(LiteLLMModels(u))
         /\ DOMAIN LiteLLMModels(u).models = 1 .. Len(u.plain.models)
         /\ \A i \in 1 .. Len(u.plain.models) : LiteLLMModels(u).models[i].id = u.plain.models[i].id
<1> DEFINE a == OpenAIModels(u)
           meta == fetchModelInfo(u.detail)
           n == Len(u.plain.models)
           s == [i \in DOMAIN a.models |-> Enriched(a.models[i], meta)]
<1>1. /\ TypedReport(a) /\ DOMAIN a.models = 1 .. n /\ n \in Nat
      /\ \A i \in 1 .. n : a.models[i].id = u.plain.models[i].id
  BY OpenAITyped
<1>2. LiteLLMModels(u) = IF ~a.ok \/ ~u.detail.ok THEN a ELSE Listing(s)
  BY DEF LiteLLMModels
<1> HIDE DEF a, meta
<1>3. \A i \in 1 .. n : a.models[i] = [id |-> a.models[i].id, caps |-> a.models[i].caps]
  BY <1>1 DEF TypedReport, ToSet
<1>4. ASSUME NEW i \in 1 .. n PROVE s[i] = [a.models[i] EXCEPT !.caps = s[i].caps]
  <2>1. s[i] = Enriched(a.models[i], meta)
    BY <1>1
  <2> DEFINE m == a.models[i]
  <2>2. m = [id |-> m.id, caps |-> m.caps]
    BY <1>3
  <2> HIDE DEF m
  <2>3. Enriched(m, meta) = [m EXCEPT !.caps = Enriched(m, meta).caps]
    BY <2>2 DEF Enriched
  <2> QED
    BY <2>1, <2>3 DEF m
<1>5. s = [i \in DOMAIN a.models |-> [a.models[i] EXCEPT !.caps = s[i].caps]]
  <2>1. s = [i \in DOMAIN a.models |-> s[i]]
    OBVIOUS
  <2> HIDE DEF s
  <2> QED
    BY <1>1, <1>4, <2>1
<1> HIDE DEF s
<1>6. /\ TypedReport(Listing(s)) /\ DOMAIN s = 1 .. n
      /\ \A i \in 1 .. n : s[i].id = u.plain.models[i].id
  BY <1>1, <1>5, RecappedTyped
<1>7. Listing(s).models = s
  BY DEF Listing
<1> QED
  BY <1>1, <1>2, <1>6, <1>7

(* The native list of LM Studio is typed, whatever it leaves out. *)
LEMMA NativeTyped ==
  ASSUME NEW d, d.models \in Seq(DetailEntry)
  PROVE  TypedReport(Listing(fetchNativeModels(d)))
<1> DEFINE S == {e \in ToSet(d.models) : e.type \in {"llm", "embedding"}}
           known == Among(d.models, S)
           caps(i) == IF known[i].type = "llm" THEN mapCapabilities(known[i].flags) ELSE {"embeddings"}
           n == Len(known)
           s == fetchNativeModels(d)
<1>1. known \in Seq(DetailEntry)
  <2> HIDE DEF S
  <2> QED
    BY AmongIs
<1>2. s = [i \in DOMAIN known |-> [id |-> known[i].id, caps |-> caps(i)]]
  BY DEF fetchNativeModels
<1> HIDE DEF known, s, caps
<1>3. n \in Nat /\ DOMAIN known = 1 .. n /\ \A i \in 1 .. n : known[i].id \in Ids
  <2>1. n \in Nat /\ DOMAIN known = 1 .. n /\ \A i \in 1 .. n : known[i] \in DetailEntry
    BY <1>1
  <2>2. \A e \in DetailEntry : e.id \in Ids
    BY DEF DetailEntry
  <2> QED
    BY <2>1, <2>2
<1> HIDE DEF n
<1>4. s = [i \in 1 .. n |-> s[i]]
      /\ \A i \in 1 .. n : s[i].id \in Ids /\ s[i] = [id |-> s[i].id, caps |-> s[i].caps]
  BY <1>2, <1>3
<1> QED
  BY <1>3, <1>4, ListingTyped DEF s

(* LM Studio reports one of its two lists. *)
LEMMA LMStudioTyped ==
  ASSUME NEW u, Answered(u.plain, PlainEntry), Answered(u.detail, DetailEntry)
  PROVE  TypedReport(LMStudioModels(u))
<1>1. u.detail.models \in Seq(DetailEntry)
  BY AnsweredIs
<1> QED
  BY <1>1, NativeTyped, OpenAITyped DEF LMStudioModels

(* llama.cpp reports its list with the configured capabilities. *)
LEMMA LlamaCppTyped ==
  ASSUME NEW p, NEW u, Answered(u.plain, PlainEntry)
  PROVE  TypedReport(LlamaCppModels(p, u))
<1> DEFINE a == OpenAIModels(u)
           s == [i \in DOMAIN a.models |-> [a.models[i] EXCEPT !.caps = Configured(p, a.models[i].id)]]
<1>1. TypedReport(a)
  BY OpenAITyped
<1>2. LlamaCppModels(p, u) = IF ~a.ok THEN Failed ELSE Listing(s)
  BY DEF LlamaCppModels
<1> HIDE DEF a
<1>3. s = [i \in DOMAIN a.models |-> [a.models[i] EXCEPT !.caps = s[i].caps]]
  <2>1. ASSUME NEW i \in DOMAIN a.models PROVE s[i].caps = Configured(p, a.models[i].id)
    <3>1. a.models[i] = [id |-> a.models[i].id, caps |-> a.models[i].caps]
      BY <1>1 DEF TypedReport, ToSet
    <3> QED
      BY <3>1
  <2>2. \A i \in DOMAIN a.models : s[i] = [a.models[i] EXCEPT !.caps = s[i].caps]
    BY <2>1
  <2>3. s = [i \in DOMAIN a.models |-> s[i]]
    OBVIOUS
  <2> HIDE DEF s
  <2> QED
    BY <2>2, <2>3
<1> HIDE DEF s
<1> QED
  BY <1>1, <1>2, <1>3, RecappedTyped, FailedTyped

(* vLLM, once it is primed, leaves out what has no configured capability. *)
LEMMA VLLMTyped ==
  ASSUME NEW p, NEW c, NEW u, NEW primes \in BOOLEAN, Answered(u.plain, PlainEntry), c.static \in Seq(Ids)
  PROVE  LET seen == IF c.discover /\ u.plain.ok /\ u.plain.models # <<>> THEN IdsOf(u.plain) ELSE ToSet(c.static)
         IN /\ TypedReport(VLLMModels(p, c, u, primes))
            /\ primes => IdsOf(VLLMModels(p, c, u, primes)) = {id \in seen : Configured(p, id) # {}}
<1> DEFINE has      == discoverModels(c, u)
           unusable == ~has.ok \/ has.models = <<>>
           d        == IF unusable /\ c.static # <<>> THEN Static(c) ELSE has
           bare(m)  == Configured(p, m.id) = {}
           K        == {m \in ToSet(d.models) : ~bare(m)}
           kept     == Among(d.models, K)
           failed   == \/ unusable /\ c.static = <<>>
                       \/ ~primes /\ \E i \in DOMAIN d.models : bare(d.models[i])
           s        == [i \in DOMAIN kept |-> [kept[i] EXCEPT !.caps = Configured(p, kept[i].id)]]
           r        == VLLMModels(p, c, u, primes)
           seen     == IF c.discover /\ u.plain.ok /\ u.plain.models # <<>> THEN IdsOf(u.plain) ELSE ToSet(c.static)
<1>1. r = IF failed THEN Failed ELSE Listing(s)
  BY DEF VLLMModels
<1>2. /\ TypedReport(OpenAIModels(u)) /\ OpenAIModels(u).ok = u.plain.ok
      /\ DOMAIN OpenAIModels(u).models = 1 .. Len(u.plain.models) /\ Len(u.plain.models) \in Nat
      /\ \A i \in 1 .. Len(u.plain.models) : OpenAIModels(u).models[i].id = u.plain.models[i].id
  BY OpenAITyped
<1>3. /\ TypedReport(Static(c)) /\ Static(c).ok = TRUE
      /\ DOMAIN Static(c).models = 1 .. Len(c.static) /\ Len(c.static) \in Nat
      /\ \A i \in 1 .. Len(c.static) : Static(c).models[i].id = c.static[i]
  BY StaticTyped
<1>4. /\ u.plain.models \in Seq(PlainEntry) /\ DOMAIN u.plain.models = 1 .. Len(u.plain.models)
      /\ (~u.plain.ok => u.plain = Failed)
  BY AnsweredIs
<1>5. IdsOf(OpenAIModels(u)) = IdsOf(u.plain) /\ (OpenAIModels(u).models = <<>> <=> u.plain.models = <<>>)
  <2>1. ASSUME NEW id PROVE id \in IdsOf(OpenAIModels(u)) <=> id \in IdsOf(u.plain)
    <3>1. id \in IdsOf(OpenAIModels(u)) <=> \E i \in 1 .. Len(u.plain.models) : OpenAIModels(u).models[i].id = id
      BY <1>2 DEF IdsOf, ToSet
    <3>2. id \in IdsOf(u.plain) <=> \E i \in 1 .. Len(u.plain.models) : u.plain.models[i].id = id
      BY <1>4 DEF IdsOf, ToSet
    <3> QED
      BY <1>2, <3>1, <3>2
  <2>2. OpenAIModels(u).models \in Seq(ToSet(OpenAIModels(u).models))
    BY <1>2 DEF TypedReport
  <2>3. Len(OpenAIModels(u).models) = Len(u.plain.models)
    BY <1>2, <2>2
  <2>4. OpenAIModels(u).models = <<>> <=> u.plain.models = <<>>
    BY <1>4, <2>2, <2>3, SetOf
  <2>5. IdsOf(OpenAIModels(u)) = IdsOf(u.plain)
    BY <2>1
  <2> QED
    BY <2>4, <2>5
<1>6. IdsOf(Static(c)) = ToSet(c.static) /\ (Static(c).models = <<>> <=> c.static = <<>>)
  <2>0. DOMAIN c.static = 1 .. Len(c.static)
    OBVIOUS
  <2>1. ASSUME NEW id PROVE id \in IdsOf(Static(c)) <=> id \in ToSet(c.static)
    <3>1. id \in IdsOf(Static(c)) <=> \E i \in 1 .. Len(c.static) : Static(c).models[i].id = id
      BY <1>3 DEF IdsOf, ToSet
    <3> QED
      BY <1>3, <2>0, <3>1 DEF ToSet
  <2>2. Static(c).models \in Seq(ToSet(Static(c).models))
    BY <1>3 DEF TypedReport
  <2>3. Len(Static(c).models) = Len(c.static)
    BY <1>3, <2>2
  <2>4. Static(c).models = <<>> <=> c.static = <<>>
    BY <2>2, <2>3, SetOf
  <2>5. IdsOf(Static(c)) = ToSet(c.static)
    BY <2>1
  <2> QED
    BY <2>4, <2>5
<1>7. has = IF c.discover THEN OpenAIModels(u) ELSE Static(c)
  BY DEF discoverModels
<1> HIDE DEF has
<1>8. TypedReport(d) /\ (failed \/ IdsOf(d) = seen)
      /\ (unusable /\ c.static = <<>> => seen = {})
  <2>1. TypedReport(d)
    BY <1>2, <1>3, <1>7
  <2>2. c.static = <<>> => ToSet(c.static) = {}
    BY DEF ToSet
  <2>3. CASE c.discover
    <3>1. has = OpenAIModels(u) /\ (unusable <=> ~ (u.plain.ok /\ u.plain.models # <<>>))
      BY <1>2, <1>5, <1>7, <2>3
    <3>2. CASE unusable
      <4>1. seen = ToSet(c.static)
        BY <3>1, <3>2
      <4> QED
        BY <1>6, <2>1, <2>2, <3>2, <4>1
    <3>3. CASE ~unusable
      BY <1>5, <2>1, <2>3, <3>1, <3>3
    <3> QED
      BY <3>2, <3>3
  <2>4. CASE ~c.discover
    <3>1. has = Static(c) /\ seen = ToSet(c.static) /\ d = Static(c)
      BY <1>7, <2>4
    <3> QED
      BY <1>6, <2>1, <2>2, <3>1
  <2> QED
    BY <2>3, <2>4
<1>9. /\ kept \in Seq(ToSet(d.models)) /\ ToSet(kept) = ToSet(d.models) \cap K
  <2>1. d.models \in Seq(ToSet(d.models))
    BY <1>8 DEF TypedReport
  <2> HIDE DEF K, d
  <2> QED
    BY <2>1, AmongIs
<1> HIDE DEF kept, d
<1> DEFINE a == [ok |-> TRUE, models |-> kept]
<1>10. TypedReport(a) /\ a.models = kept
  <2>1. ToSet(kept) \subseteq ToSet(d.models)
    BY <1>9
  <2>2. \A m \in ToSet(d.models) : m.id \in Ids /\ m = [id |-> m.id, caps |-> m.caps]
    BY <1>8 DEF TypedReport
  <2>3. kept \in Seq(ToSet(kept))
    <3>1. DOMAIN kept = 1 .. Len(kept) /\ Len(kept) \in Nat /\ kept = [i \in 1 .. Len(kept) |-> kept[i]]
      BY <1>9
    <3>2. \A i \in 1 .. Len(kept) : kept[i] \in ToSet(kept)
      BY <3>1 DEF ToSet
    <3>3. kept \in [1 .. Len(kept) -> ToSet(kept)]
      BY <3>1, <3>2
    <3> QED
      BY <3>1, <3>3
  <2> QED
    BY <2>1, <2>2, <2>3 DEF TypedReport
<1>11. s = [i \in DOMAIN a.models |-> [a.models[i] EXCEPT !.caps = s[i].caps]]
  <2>1. ASSUME NEW i \in DOMAIN kept PROVE s[i].caps = Configured(p, kept[i].id)
    <3>1. kept[i] = [id |-> kept[i].id, caps |-> kept[i].caps]
      BY <1>10 DEF TypedReport, ToSet
    <3> QED
      BY <3>1
  <2>2. \A i \in DOMAIN kept : s[i] = [kept[i] EXCEPT !.caps = s[i].caps]
    BY <2>1
  <2>3. s = [i \in DOMAIN kept |-> s[i]]
    OBVIOUS
  <2> HIDE DEF s
  <2> QED
    BY <1>10, <2>2, <2>3
<1> HIDE DEF s, a
<1>12. /\ TypedReport(Listing(s)) /\ DOMAIN s = DOMAIN kept
       /\ \A i \in DOMAIN s : s[i].id = kept[i].id
  BY <1>10, <1>11, RecappedTyped
<1>13. TypedReport(r)
  BY <1>1, <1>12, FailedTyped
<1>14. ASSUME primes PROVE IdsOf(r) = {id \in seen : Configured(p, id) # {}}
  <2>1. CASE failed
    <3>1. seen = {}
      BY <1>8, <1>14, <2>1
    <3>2. r = Failed
      BY <1>1, <2>1
    <3>3. IdsOf(Failed) = {}
      BY DEF IdsOf, Failed, ToSet
    <3> QED
      BY <3>1, <3>2, <3>3
  <2>2. CASE ~failed
    <3>1. r = Listing(s) /\ IdsOf(d) = seen
      BY <1>1, <1>8, <2>2
    <3> HIDE DEF r, seen, failed
    <3>2. ASSUME NEW id PROVE id \in IdsOf(Listing(s)) <=> id \in IdsOf(d) /\ Configured(p, id) # {}
      <4>1. id \in IdsOf(Listing(s)) <=> \E i \in DOMAIN s : s[i].id = id
        BY DEF IdsOf, Listing, ToSet
      <4>2. (\E i \in DOMAIN s : s[i].id = id) <=> \E m \in ToSet(kept) : m.id = id
        BY <1>12 DEF ToSet
      <4>3. (\E m \in ToSet(kept) : m.id = id) <=> \E m \in ToSet(d.models) : m.id = id /\ Configured(p, id) # {}
        BY <1>9
      <4> QED
        BY <4>1, <4>2, <4>3 DEF IdsOf
    <3> QED
      BY <3>1, <3>2
  <2> QED
    BY <2>1, <2>2
<1> QED
  BY <1>13, <1>14

-----------------------------------------------------------------------------
(* The process.                                                            *)

(* What may have become of a request. *)
RequestStates == {"none", "active", "done", "cut"}

(* The server is shut down, a signal is in the channel and the process has *)
(* ended well only after a signal; requests begin when the server serves,  *)
(* so an exit that comes before it finds none to cut.                      *)
ServiceInv ==
  /\ sent \in Nat /\ stop \in Nat
  /\ requests \in [Reqs -> RequestStates]
  /\ stop > 0 => sent > 0
  /\ ServerClosed => sent > 0
  /\ outcome = "ok" => sent > 0 /\ ServerClosed
  /\ phase \notin {"serve", "exited"} => \A r \in Reqs : requests[r] = "none"
  /\ outcome = "killed" => \A r \in Reqs : requests[r] = "none"
  /\ phase # "exited" => outcome = "none"
  /\ \A r \in Reqs : requests[r] = "cut" => outcome \in {"ok", "error"}

(* An exit with an error may happen anywhere, one without an error after   *)
(* the server was shut down, and a kill while the server does not serve.   *)
LEMMA ExitStep ==
  ASSUME ServiceInv, NEW how, Exit(how), phase # "exited", sent' \in Nat, stop' \in Nat,
         sent' >= sent, stop' > 0 => sent' > 0, drainer' = drainer,
         \/ how = "error"
         \/ how = "ok" /\ ServerClosed
         \/ how = "killed" /\ phase # "serve"
  PROVE  ServiceInv'
<1> USE DEF ServiceInv, Exit, RequestStates
<1>1. /\ requests' \in [Reqs -> RequestStates]
      /\ \A r \in Reqs : requests[r] = "none" => requests'[r] = "none"
  OBVIOUS
<1>2. /\ phase' = "exited" /\ outcome' = how
      /\ \A r \in Reqs : requests'[r] = "cut" => how \in {"ok", "error"}
  <2>1. CASE how = "killed"
    BY <1>1, <2>1
  <2> QED
    BY <2>1
<1>3. ServerClosed' => sent' > 0
  BY DEF ServerClosed
<1>4. how = "killed" => \A r \in Reqs : requests'[r] = "none"
  BY <1>1
<1> QED
  BY <1>1, <1>2, <1>3, <1>4 DEF ServerClosed

(* Exits are cut down to ExitStep; every other step changes one of the parts. *)
LEMMA ServiceStep ==
  ASSUME ServiceInv, [Next]_vars
  PROVE  ServiceInv'
<1> USE DEF serverVars
<1>1. ASSUME UNCHANGED <<outcome, stop, sent, drainer, requests>>, phase' # "exited",
             phase' \notin {"serve"} => phase # "serve", phase # "exited"
      PROVE  ServiceInv'
  BY <1>1 DEF ServiceInv, ServerClosed
<1>2. CASE loadConfig
  <2>1. CASE Exit("error")
    BY <1>2, <2>1, ExitStep DEF loadConfig, ServiceInv
  <2>2. CASE UNCHANGED <<outcome, requests>> /\ phase' = "build"
    BY <1>1, <1>2, <2>2 DEF loadConfig
  <2> QED
    BY <1>2, <2>1, <2>2 DEF loadConfig
<1>3. CASE Build
  <2>1. CASE Exit("error")
    BY <1>3, <2>1, ExitStep DEF Build, ServiceInv
  <2>2. CASE UNCHANGED <<phase, outcome, requests>>
    BY <1>1, <1>3, <2>2 DEF Build
  <2> QED
    BY <1>3, <2>1, <2>2 DEF Build
<1>4. CASE Start \/ Refresh \/ ReadModels \/ LookUp \/ NewServer \/ Notify
             \/ \E p \in Providers : Change(p)
  BY <1>1, <1>4 DEF Start, Refresh, ReadModels, LookUp, NewServer, Notify, Change
<1>5. CASE Spawn
  BY <1>5 DEF Spawn, ServiceInv, ServerClosed
<1>6. CASE Listen
  <2>1. CASE ServerClosed /\ Exit("ok")
    BY <1>6, <2>1, ExitStep DEF Listen, ServiceInv
  <2>2. CASE Exit("error")
    BY <1>6, <2>2, ExitStep DEF Listen, ServiceInv
  <2>3. CASE UNCHANGED <<outcome, requests>> /\ phase' = "serve"
    BY <1>1, <1>6, <2>3 DEF Listen
  <2> QED
    BY <1>6, <2>1, <2>2, <2>3 DEF Listen
<1>7. CASE ServeReturns \/ AcceptFails
  BY <1>7, ExitStep DEF ServeReturns, AcceptFails, ServiceInv
<1>8. CASE Shutdown
  BY <1>8 DEF Shutdown, ServiceInv, ServerClosed
<1>9. CASE Drained
  BY <1>9 DEF Drained, ServiceInv, ServerClosed
<1>10. CASE Signal
  <2>0. sent \in Nat /\ sent' = sent + 1
    BY <1>10 DEF Signal, ServiceInv
  <2>1. CASE Notified
    BY <1>10, <2>0, <2>1 DEF Signal, ServiceInv, ServerClosed
  <2>2. CASE ~Notified
    BY <1>10, <2>0, <2>2, ExitStep DEF Signal, ServiceInv, Notified
  <2> QED
    BY <2>1, <2>2
<1>11. ASSUME NEW r \in Reqs, Arrive(r) \/ Answer(r) PROVE ServiceInv'
  BY <1>11 DEF Arrive, Answer, ServiceInv, ServerClosed, RequestStates
<1>12. CASE UNCHANGED vars
  BY <1>12 DEF vars, ServiceInv, ServerClosed
<1> QED
  BY <1>2, <1>3, <1>4, <1>5, <1>6, <1>7, <1>8, <1>9, <1>10, <1>11, <1>12 DEF Next

(* Without a signal the service ends only with an error, only a shutdown   *)
(* or a failing listener cuts a request, and a killing signal finds none:  *)
(* for every configuration and every number of requests and signals,       *)
(* whatever the order in which run, its goroutine and the signals move.    *)
THEOREM ServiceKept == Spec => []ServesUntilStopped
<1>1. Init => ServiceInv
  BY DEF Init, ServiceInv, ServerClosed, RequestStates
<1>2. ServiceInv /\ [Next]_vars => ServiceInv'
  BY ServiceStep
<1>3. ServiceInv => ServesUntilStopped
  BY DEF ServiceInv, ServesUntilStopped
<1> QED
  BY <1>1, <1>2, <1>3, PTL DEF Spec
(* Whatever the type of the provider, its report is typed. *)
LEMMA ModelsTyped ==
  ASSUME NEW p, NEW c, NEW u, NEW primes \in BOOLEAN, c.kind \in Kinds, c.static \in Seq(Ids),
         Answered(u.plain, PlainEntry), Answered(u.detail, DetailEntry)
  PROVE  TypedReport(Models(p, c, u, primes))
<1>1. CASE c.kind = "openai"
  BY <1>1, OpenAITyped DEF Models
<1>2. CASE c.kind = "anthropic"
  BY <1>2, AnthropicTyped DEF Models
<1>3. CASE c.kind = "litellm"
  BY <1>3, LiteLLMTyped DEF Models
<1>4. CASE c.kind = "lmstudio"
  BY <1>4, LMStudioTyped DEF Models
<1>5. CASE c.kind = "llama-cpp"
  BY <1>5, LlamaCppTyped DEF Models
<1>6. CASE c.kind = "vllm"
  BY <1>6, VLLMTyped DEF Models
<1> QED
  BY <1>1, <1>2, <1>3, <1>4, <1>5, <1>6 DEF Kinds

-----------------------------------------------------------------------------
(* The run of the process.                                                 *)

(* The upstreams are those of the deployment, before and after they        *)
(* change.                                                                 *)
UpstreamInv ==
  /\ deployment \in DOMAIN Deployments
  /\ DOMAIN upstream = Providers
  /\ \A p \in Providers : upstream[p] \in Deployments[deployment].upstreams[p]

(* What is built was not refused, and a vLLM provider that is built is primed. *)
BuiltInv ==
  /\ built \in 0 .. Len(Registered)
  /\ \A i \in 1 .. built : /\ ~entryRejected(Registered[i])
                           /\ conf[Registered[i]].kind = "vllm" => Registered[i] \in primed
  /\ Asked => built = Len(Registered)

(* The last refresh asked the providers as they are configured. *)
AskedInv ==
  Asked => \A p \in Providers :
    /\ asked[p] \in Deployments[deployment].upstreams[p]
    /\ listed[p] = Models(p, conf[p], asked[p], p \in primed)

(* The limit that the section of p sets for a model, 0 for none. *)
LimitOf(p, id) ==
  IF ~Budget[p].set THEN 0
  ELSE IF id \in DOMAIN Budget[p].models THEN Budget[p].models[id] ELSE Budget[p].default

(* The phases after the limits have been collected. *)
Serving == {"notify", "spawn", "listen", "serve"}

(* A model the loop has not come to has no limit yet, one it has passed    *)
(* has its first provider's, unless that has changed in between.           *)
LimitsInv ==
  /\ todo \in Seq(Ids) /\ IsInjective(todo)
  /\ steady \subseteq DOMAIN table.index
  /\ \A id \in steady : IF id \in ToSet(todo) THEN id \notin DOMAIN budget
                        ELSE limitFor(id) = LimitOf(table.index[id], id)

(* The limits are collected between the first refresh and the server. *)
BudgetInv ==
  /\ phase \in {"load", "build", "started"} => budget = <<>> /\ steady = {}
  /\ phase \in Serving \cup {"budget"} => LimitsInv
  /\ phase \in Serving => todo = <<>>

(* The inductive invariant: the table belongs to the last answers, and the *)
(* limits to the table.                                                    *)
StartupInv == UpstreamInv /\ BuiltInv /\ RoutingInv /\ AskedInv /\ BudgetInv

(* It holds before anything is configured, when all lists are empty. *)
LEMMA FirstStartup == Init => StartupInv
<1> SUFFICES ASSUME Init PROVE StartupInv
  OBVIOUS
<1> USE DEF Init
<1>1. UpstreamInv
  BY DEF UpstreamInv
<1>2. BuiltInv
  BY Positions DEF BuiltInv, Asked
<1>3. AskedInv /\ BudgetInv
  BY DEF AskedInv, Asked, BudgetInv, Serving
<1>4. RoutingInv
  <2>1. TypedReports(listed)
    BY FailedTyped DEF TypedReports, NewRegistry
  <2>2. \A p \in Providers : DOMAIN listed[p].models = {}
    BY DEF NewRegistry, Failed
  <2>3. Entries(listed) = {}
    BY <2>2, Positions DEF Entries
  <2>4. DOMAIN <<>> = {} /\ ToSet(<<>>) = {} /\ Len(<<>>) = 0 /\ <<>> \in Seq({}) /\ <<>> \in Seq(Ids)
    BY DEF ToSet
  <2>5. IndexGood(listed, EmptyTable, {}) /\ GlobsGood(EmptyTable) /\ ModelsGood(listed, EmptyTable)
    BY <2>4 DEF IndexGood, GlobsGood, ModelsGood, EmptyTable
  <2>6. table = EmptyTable
    BY DEF NewRegistry
  <2> QED
    BY <2>1, <2>3, <2>5, <2>6 DEF RoutingInv, Good
<1> QED
  BY <1>1, <1>2, <1>3, <1>4 DEF StartupInv

(* The steps that only move run along, or end it. *)
LEMMA MovedOn ==
  ASSUME StartupInv,
         UNCHANGED <<deployment, upstream, built, primed, registryVars, todo, budget, steady>>,
         \/ phase' = phase \/ phase' = "exited" \/ (phase = "load" /\ phase' = "build")
         \/ (phase = "budget" /\ todo = <<>> /\ phase' = "notify")
         \/ (phase \in Serving /\ phase' \in Serving)
  PROVE  StartupInv'
<1> USE DEF StartupInv, registryVars
<1>1. UpstreamInv' /\ RoutingInv'
  BY DEF UpstreamInv, RoutingInv
<1>2. Asked' => Asked
  BY DEF Asked, Serving
<1>3. BuiltInv'
  BY <1>2 DEF BuiltInv, conf, entryRejected, buildAuthenticatorFails
<1>4. AskedInv'
  BY <1>2 DEF AskedInv, conf
<1>5. BudgetInv'
  <2>1. LimitsInv => LimitsInv'
    BY DEF LimitsInv, limitFor
  <2>2. phase' \in Serving \cup {"budget"} => phase \in Serving \cup {"budget"}
    BY DEF Serving
  <2>3. phase' \in {"load", "build", "started"} => phase \in {"load", "build", "started"}
    BY DEF Serving
  <2>4. phase' \in Serving => todo = <<>>
    BY DEF Serving, BudgetInv
  <2> QED
    BY <2>1, <2>2, <2>3, <2>4 DEF BudgetInv
<1> QED
  BY <1>1, <1>3, <1>4, <1>5

(* A refresh by the complete registry. *)
LEMMA Asks ==
  ASSUME StartupInv, AskAll, built = Len(Registered), UNCHANGED <<deployment, primed>>
  PROVE  /\ RoutingInv'
         /\ \A p \in Providers :
              /\ asked'[p] \in Deployments[deployment].upstreams[p]
              /\ listed'[p] = Models(p, conf[p], asked'[p], p \in primed)
         /\ \A id \in steady' : id \in steady /\ id \in DOMAIN table'.index /\ table'.index[id] = table.index[id]
<1> DEFINE r == [p \in Providers |-> Models(p, conf[p], upstream[p], p \in primed)]
<1>1. listed' = r /\ table' = BuildTable(r) /\ asked' = upstream
      /\ steady' = {id \in steady : id \in DOMAIN table'.index /\ table'.index[id] = table.index[id]}
  BY DEF AskAll, refresh
<1>2. ASSUME NEW p \in Providers PROVE TypedReport(r[p])
  <2>1. Position(p) \in 1 .. built /\ Registered[Position(p)] = p
    BY Positions
  <2>2. ~entryRejected(p)
    BY <2>1 DEF StartupInv, BuiltInv
  <2>3. conf[p].kind \in Kinds
    BY <2>2 DEF entryRejected
  <2>4. /\ deployment \in DOMAIN Deployments /\ upstream[p] \in Deployments[deployment].upstreams[p]
    BY DEF StartupInv, UpstreamInv
  <2>5. /\ conf[p].static \in Seq(Ids)
        /\ Answered(upstream[p].plain, PlainEntry) /\ Answered(upstream[p].detail, DetailEntry)
    BY <2>4, StartupAssumption DEF conf
  <2>6. r[p] = Models(p, conf[p], upstream[p], p \in primed)
    OBVIOUS
  <2>7. (p \in primed) \in BOOLEAN
    OBVIOUS
  <2> HIDE DEF r
  <2> QED
    BY <2>3, <2>5, <2>6, <2>7, ModelsTyped
<1>3. TypedReports(r)
  BY <1>2 DEF TypedReports
<1>4. \A p \in Providers : r[p] = Models(p, conf[p], upstream[p], p \in primed)
  OBVIOUS
<1> HIDE DEF r
<1>5. RoutingInv'
  BY <1>1, <1>3, BuildTableGood DEF RoutingInv
<1> QED
  BY <1>1, <1>4, <1>5 DEF StartupInv, UpstreamInv

(* The first refresh, which starts the service, keeps it. *)
LEMMA StartKeeps ==
  ASSUME StartupInv, Start
  PROVE  StartupInv'
<1> USE DEF Start
<1>1. AskAll /\ built = Len(Registered) /\ UNCHANGED <<deployment, primed>>
  OBVIOUS
<1>2. /\ RoutingInv'
      /\ \A p \in Providers :
           /\ asked'[p] \in Deployments[deployment].upstreams[p]
           /\ listed'[p] = Models(p, conf[p], asked'[p], p \in primed)
      /\ \A id \in steady' : id \in steady
  BY <1>1, Asks
<1>3. UpstreamInv'
  BY DEF StartupInv, UpstreamInv
<1>4. BuiltInv'
  BY DEF StartupInv, BuiltInv, conf, entryRejected, buildAuthenticatorFails
<1>5. AskedInv'
  BY <1>2 DEF AskedInv, conf
<1>6. BudgetInv'
  <2>1. budget' = <<>> /\ steady' = {} /\ phase' = "started"
    BY <1>2 DEF StartupInv, BudgetInv
  <2> QED
    BY <2>1 DEF BudgetInv, Serving
<1> QED
  BY <1>2, <1>3, <1>4, <1>5, <1>6 DEF StartupInv

(* A refresh while the service runs keeps it: names that move lose their   *)
(* claim to a steady limit.                                                *)
LEMMA RefreshKeeps ==
  ASSUME StartupInv, Refresh
  PROVE  StartupInv'
<1> USE DEF Refresh
<1>1. AskAll /\ built = Len(Registered) /\ UNCHANGED <<deployment, primed>>
  BY DEF StartupInv, BuiltInv, Asked
<1>2. /\ RoutingInv'
      /\ \A p \in Providers :
           /\ asked'[p] \in Deployments[deployment].upstreams[p]
           /\ listed'[p] = Models(p, conf[p], asked'[p], p \in primed)
      /\ \A id \in steady' : id \in steady /\ id \in DOMAIN table'.index /\ table'.index[id] = table.index[id]
  BY <1>1, Asks
<1>3. UpstreamInv'
  BY DEF StartupInv, UpstreamInv
<1>4. BuiltInv'
  BY DEF StartupInv, BuiltInv, Asked, conf, entryRejected, buildAuthenticatorFails
<1>5. AskedInv'
  BY <1>2 DEF AskedInv, conf
<1>6. BudgetInv'
  <2>1. LimitsInv => LimitsInv'
    <3> SUFFICES ASSUME LimitsInv PROVE LimitsInv'
      OBVIOUS
    <3>1. steady' \subseteq DOMAIN table'.index
      BY <1>2
    <3>2. ASSUME NEW id \in steady'
          PROVE  IF id \in ToSet(todo) THEN id \notin DOMAIN budget
                 ELSE limitFor(id) = LimitOf(table'.index[id], id)
      BY <1>2 DEF LimitsInv
    <3> QED
      BY <3>1, <3>2 DEF LimitsInv, limitFor
  <2>2. steady = {} => steady' = {}
    BY <1>2
  <2> QED
    BY <2>1, <2>2 DEF StartupInv, BudgetInv
<1> QED
  BY <1>2, <1>3, <1>4, <1>5, <1>6 DEF StartupInv

(* Building the next provider keeps it: vLLM is primed here, before the    *)
(* first refresh asks it.                                                  *)
LEMMA BuildKeeps ==
  ASSUME StartupInv, Build
  PROVE  StartupInv'
<1> DEFINE p == Registered[built + 1]
<1>1. CASE buildProviderFails(p)
  BY <1>1, MovedOn DEF Build, Exit, registryVars
<1>2. CASE ~buildProviderFails(p)
  <2>1. /\ built' = built + 1 /\ built < Len(Registered) /\ phase = "build" /\ phase' = phase
        /\ primed' = IF conf[p].kind = "vllm" THEN primed \cup {p} ELSE primed
        /\ UNCHANGED <<deployment, upstream, todo, budget, steady, table, listed, asked>>
    BY <1>2 DEF Build, registryVars
  <2>2. ~entryRejected(p)
    BY <1>2 DEF buildProviderFails
  <2>3. UpstreamInv' /\ RoutingInv' /\ AskedInv'
    BY <2>1 DEF StartupInv, UpstreamInv, RoutingInv, AskedInv, Asked
  <2>4. BuiltInv'
    <3>1. built \in 0 .. Len(Registered) /\ built' \in 0 .. Len(Registered) /\ Len(Registered) \in Nat
      <4>1. Len(Registered) \in Nat
        BY Positions
      <4>2. built \in 0 .. Len(Registered)
        BY DEF StartupInv, BuiltInv
      <4> QED
        BY <2>1, <4>1, <4>2
    <3>2. ASSUME NEW i \in 1 .. built'
          PROVE  ~entryRejected(Registered[i]) /\ (conf[Registered[i]].kind = "vllm" => Registered[i] \in primed')
      <4>1. CASE i = built + 1
        BY <2>1, <2>2, <4>1
      <4>2. CASE i # built + 1
        <5>1. i \in 1 .. built
          BY <2>1, <3>1, <4>2
        <5> HIDE DEF p
        <5> QED
          BY <2>1, <5>1 DEF StartupInv, BuiltInv
      <4> QED
        BY <4>1, <4>2
    <3>3. \A q : entryRejected(q)' <=> entryRejected(q)
      BY <2>1 DEF entryRejected, conf
    <3>4. ~Asked' /\ conf' = conf
      BY <2>1 DEF Asked, conf
    <3> QED
      BY <3>1, <3>2, <3>3, <3>4 DEF BuiltInv
  <2>5. BudgetInv'
    BY <2>1 DEF StartupInv, BudgetInv, Serving
  <2> QED
    BY <2>3, <2>4, <2>5 DEF StartupInv
<1> QED
  BY <1>1, <1>2

(* The loop over the limits starts with every model of the table, once. *)
LEMMA ReadModelsKeeps ==
  ASSUME StartupInv, ReadModels
  PROVE  StartupInv'
<1> USE DEF ReadModels, registryVars
<1>1. UpstreamInv' /\ RoutingInv' /\ AskedInv'
  BY DEF StartupInv, UpstreamInv, RoutingInv, AskedInv, Asked, conf
<1>2. BuiltInv'
  BY DEF StartupInv, BuiltInv, Asked, conf, entryRejected, buildAuthenticatorFails
<1>3. budget' = <<>> /\ phase' = "budget" /\ steady' = DOMAIN table'.index /\ table' = table
  BY DEF StartupInv, BudgetInv
<1> DEFINE ms == table.models
           n == Len(ms)
           ids == [i \in 1 .. n |-> ms[i].id]
<1>4. /\ ms \in Seq(ToSet(ms))
      /\ \A a, b \in 1 .. n : ms[a].id = ms[b].id => a = b
      /\ \A id : id \in DOMAIN table.index <=> \E m \in ToSet(ms) : m.id = id
  BY DEF StartupInv, RoutingInv, Good, ModelsGood
<1>5. n \in Nat /\ DOMAIN ms = 1 .. n
  BY <1>4
<1>6. todo' = ids
  BY <1>5
<1>7. \A i \in 1 .. n : ms[i].id \in Ids
  BY <1>5, AbleIs DEF StartupInv, ToSet
<1> HIDE DEF ms, n
<1>8. ids \in Seq(Ids) /\ DOMAIN ids = 1 .. n /\ \A i \in 1 .. n : ids[i] = ms[i].id
  <2>1. ids \in [1 .. n -> Ids]
    BY <1>7
  <2> QED
    BY <1>5, <2>1
<1> HIDE DEF ids
<1>9. IsInjective(ids)
  BY <1>4, <1>8 DEF IsInjective, ms, n
<1>10. ToSet(ids) = DOMAIN table.index
  <2>1. ASSUME NEW id PROVE id \in ToSet(ids) <=> id \in DOMAIN table.index
    <3>1. id \in ToSet(ids) <=> \E i \in 1 .. n : ms[i].id = id
      BY <1>8 DEF ToSet
    <3>2. (\E m \in ToSet(ms) : m.id = id) <=> \E i \in 1 .. n : ms[i].id = id
      BY <1>5 DEF ToSet
    <3> QED
      BY <1>4, <3>1, <3>2
  <2> QED
    BY <2>1
<1>11. LimitsInv'
  <2>1. \A id \in steady' : id \in ToSet(todo') /\ id \notin DOMAIN budget'
    BY <1>3, <1>6, <1>10
  <2>2. todo' \in Seq(Ids) /\ IsInjective(todo') /\ steady' \subseteq DOMAIN table'.index
    BY <1>3, <1>6, <1>8, <1>9
  <2> QED
    BY <2>1, <2>2 DEF LimitsInv
<1>12. BudgetInv'
  BY <1>3, <1>11 DEF BudgetInv, Serving
<1> QED
  BY <1>1, <1>2, <1>12 DEF StartupInv

(* The loop takes the next model. *)
LEMMA LookUpKeeps ==
  ASSUME StartupInv, LookUp
  PROVE  StartupInv'
<1> USE DEF LookUp, registryVars
<1>1. UpstreamInv' /\ RoutingInv' /\ AskedInv'
  BY DEF StartupInv, UpstreamInv, RoutingInv, AskedInv, Asked, conf
<1>2. BuiltInv'
  BY DEF StartupInv, BuiltInv, Asked, conf, entryRejected, buildAuthenticatorFails
<1> DEFINE h == Head(todo)
           p == ProviderFor(table, h)
           limits == IF p = NoProvider THEN {} ELSE Limits(p, h)
           n == CHOOSE m \in limits : TRUE
<1>3. /\ todo \in Seq(Ids) /\ IsInjective(todo) /\ steady \subseteq DOMAIN table.index
      /\ \A id \in steady : IF id \in ToSet(todo) THEN id \notin DOMAIN budget
                            ELSE limitFor(id) = LimitOf(table.index[id], id)
  BY DEF StartupInv, BudgetInv, LimitsInv
<1>4. /\ todo # <<>> /\ todo' = Tail(todo) /\ phase' = "budget" /\ table' = table /\ steady' = steady
      /\ budget' = IF limits = {} THEN budget ELSE With(budget, h, n)
  OBVIOUS
<1>5. /\ Tail(todo) \in Seq(Ids) /\ IsInjective(Tail(todo))
      /\ h \in ToSet(todo) /\ \A id : id \in ToSet(Tail(todo)) <=> id \in ToSet(todo) /\ id # h
  <2> DEFINE c == Len(todo)
             t == Tail(todo)
  <2>1. c \in Nat /\ c >= 1 /\ DOMAIN todo = 1 .. c /\ h = todo[1]
    BY <1>3, <1>4
  <2>2. t \in Seq(Ids) /\ Len(t) = c - 1 /\ \A i \in 1 .. (c - 1) : t[i] = todo[i + 1]
    BY <1>3, <1>4, HeadTailProperties
  <2> HIDE DEF c, t, h
  <2>3. DOMAIN t = 1 .. (c - 1)
    BY <2>1, <2>2
  <2>4. \A i, j \in 1 .. c : todo[i] = todo[j] => i = j
    BY <1>3, <2>1 DEF IsInjective
  <2>5. IsInjective(t)
    <3>1. ASSUME NEW i \in 1 .. (c - 1), NEW j \in 1 .. (c - 1), t[i] = t[j] PROVE i = j
      <4>1. i + 1 \in 1 .. c /\ j + 1 \in 1 .. c /\ todo[i + 1] = todo[j + 1]
        BY <2>1, <2>2, <3>1
      <4> QED
        BY <2>4, <4>1
    <3> QED
      BY <2>3, <3>1 DEF IsInjective
  <2>6. ASSUME NEW id PROVE id \in ToSet(t) <=> id \in ToSet(todo) /\ id # h
    <3>1. ASSUME NEW i \in 1 .. (c - 1), id = t[i] PROVE id \in ToSet(todo) /\ id # h
      <4>1. i + 1 \in 1 .. c /\ id = todo[i + 1] /\ i + 1 # 1 /\ 1 \in 1 .. c
        BY <2>1, <2>2, <3>1
      <4> QED
        BY <2>1, <2>4, <4>1 DEF ToSet
    <3>2. ASSUME NEW k \in 1 .. c, id = todo[k], id # h PROVE id \in ToSet(t)
      <4>1. k - 1 \in 1 .. (c - 1) /\ (k - 1) + 1 = k
        BY <2>1, <3>2
      <4>2. t[k - 1] = id
        BY <2>2, <3>2, <4>1
      <4> QED
        BY <2>3, <4>1, <4>2 DEF ToSet
    <3> QED
      BY <2>1, <2>3, <3>1, <3>2 DEF ToSet
  <2>7. h \in ToSet(todo)
    BY <2>1 DEF ToSet
  <2> QED
    BY <2>2, <2>5, <2>6, <2>7 DEF t
<1>6. ASSUME NEW id \in steady
      PROVE  IF id \in ToSet(todo') THEN id \notin DOMAIN budget'
             ELSE limitFor(id)' = LimitOf(table.index[id], id)
  <2>1. CASE id = h
    <3>1. h \notin DOMAIN budget /\ h \notin ToSet(todo') /\ h \in DOMAIN table.index
      BY <1>3, <1>4, <1>5, <2>1
    <3>2. p = table.index[h] /\ p # NoProvider /\ p \in Providers
      <4>1. p = table.index[h]
        BY <3>1 DEF ProviderFor
      <4>2. table.fallbacks[h] \in Seq(Providers) /\ table.fallbacks[h] # <<>>
            /\ table.index[h] = table.fallbacks[h][1]
        BY <3>1, TableIs DEF StartupInv
      <4> HIDE DEF h, p
      <4>3. table.index[h] \in Providers
        BY <4>2
      <4> QED
        BY <4>1, <4>3, RoutingAssumption
    <3>3. limits = Limits(p, h)
      BY <3>2
    <3> HIDE DEF h, p, limits
    <3>4. /\ limits = {} => LimitOf(p, h) = 0
          /\ limits # {} => limits = {LimitOf(p, h)}
      <4>1. Budget[p].default \in Nat
        BY <3>2, StartupAssumption
      <4>2. CASE ~Budget[p].set
        BY <3>3, <4>2 DEF Limits, LimitOf
      <4>3. CASE Budget[p].set /\ h \in DOMAIN Budget[p].models
        BY <3>3, <4>3 DEF Limits, LimitOf
      <4>4. CASE Budget[p].set /\ h \notin DOMAIN Budget[p].models
        <5>1. limits = IF Budget[p].default > 0 THEN {Budget[p].default} ELSE {}
          BY <3>3, <4>4 DEF Limits
        <5>2. LimitOf(p, h) = Budget[p].default
          BY <4>4 DEF LimitOf
        <5>3. CASE Budget[p].default > 0
          <6>1. limits = {Budget[p].default}
            BY <5>1, <5>3
          <6> QED
            BY <5>2, <6>1
        <5>4. CASE ~ (Budget[p].default > 0)
          <6>1. limits = {} /\ Budget[p].default = 0
            BY <4>1, <5>1, <5>4
          <6> QED
            BY <5>2, <6>1
        <5> QED
          BY <5>3, <5>4
      <4> QED
        BY <4>2, <4>3, <4>4
    <3>5. CASE limits = {}
      <4>1. budget' = budget /\ id \notin DOMAIN budget
        BY <1>4, <2>1, <3>1, <3>5
      <4>2. limitFor(id)' = 0
        BY <4>1 DEF limitFor
      <4> QED
        BY <2>1, <3>1, <3>2, <3>4, <3>5, <4>2
    <3>6. CASE limits # {}
      <4>1. n = LimitOf(p, h)
        BY <3>4, <3>6
      <4> HIDE DEF n
      <4>2. budget' = With(budget, id, n)
        BY <1>4, <2>1, <3>6
      <4>3. id \in DOMAIN budget' /\ budget'[id] = n
        BY <4>2 DEF With
      <4>4. limitFor(id)' = n
        BY <4>3 DEF limitFor
      <4> QED
        BY <2>1, <3>1, <3>2, <4>1, <4>4
    <3> QED
      BY <3>5, <3>6
  <2>2. CASE id # h
    <3> HIDE DEF h, limits, n
    <3>1. (id \in DOMAIN budget' <=> id \in DOMAIN budget) /\ (id \in DOMAIN budget => budget'[id] = budget[id])
      <4>1. CASE limits = {}
        BY <1>4, <4>1
      <4>2. CASE limits # {}
        <5>1. budget' = With(budget, h, n)
          BY <1>4, <4>2
        <5> QED
          BY <2>2, <5>1 DEF With
      <4> QED
        BY <4>1, <4>2
    <3>2. id \in ToSet(todo') <=> id \in ToSet(todo)
      BY <1>4, <1>5, <2>2
    <3> QED
      BY <1>3, <3>1, <3>2 DEF limitFor
  <2> QED
    BY <2>1, <2>2
<1>7. LimitsInv'
  BY <1>3, <1>4, <1>5, <1>6 DEF LimitsInv, limitFor
<1>8. BudgetInv'
  BY <1>4, <1>7 DEF BudgetInv, Serving
<1> QED
  BY <1>1, <1>2, <1>8 DEF StartupInv

(* A change upstream changes nothing the registry has. *)
LEMMA ChangeKeeps ==
  ASSUME StartupInv, NEW p \in Providers, Change(p)
  PROVE  StartupInv'
<1> USE DEF Change, registryVars
<1>1. RoutingInv' /\ AskedInv'
  BY DEF StartupInv, RoutingInv, AskedInv, Asked, conf
<1>2. BuiltInv'
  BY DEF StartupInv, BuiltInv, Asked, conf, entryRejected, buildAuthenticatorFails
<1>3. BudgetInv'
  <2>1. LimitsInv => LimitsInv'
    BY DEF LimitsInv, limitFor
  <2> QED
    BY <2>1 DEF StartupInv, BudgetInv
<1>4. UpstreamInv'
  BY DEF StartupInv, UpstreamInv
<1> QED
  BY <1>1, <1>2, <1>3, <1>4 DEF StartupInv

(* Every step keeps it. *)
LEMMA StartupKept == StartupInv /\ [Next]_vars => StartupInv'
<1> SUFFICES ASSUME StartupInv, [Next]_vars PROVE StartupInv'
  OBVIOUS
<1> USE DEF registryVars, serverVars
<1>1. CASE loadConfig
  BY <1>1, MovedOn DEF loadConfig, Exit
<1>2. CASE NewServer \/ Notify \/ Spawn
  BY <1>2, MovedOn DEF NewServer, Notify, Spawn, Serving
<1>3. CASE Listen \/ ServeReturns \/ AcceptFails
  BY <1>3, MovedOn DEF Listen, ServeReturns, AcceptFails, Exit, Serving
<1>4. CASE Shutdown \/ Drained
  BY <1>4, MovedOn DEF Shutdown, Drained
<1>5. CASE Signal
  BY <1>5, MovedOn DEF Signal, Exit
<1>6. ASSUME NEW q \in Reqs, Arrive(q) \/ Answer(q) PROVE StartupInv'
  BY <1>6, MovedOn DEF Arrive, Answer
<1>7. CASE UNCHANGED vars
  BY <1>7, MovedOn DEF vars
<1> QED
  BY <1>1, <1>2, <1>3, <1>4, <1>5, <1>6, <1>7,
     BuildKeeps, StartKeeps, RefreshKeeps, ReadModelsKeeps, LookUpKeeps, ChangeKeeps DEF Next

(* So it holds always. *)
LEMMA StartupHolds == Spec => []StartupInv
BY FirstStartup, StartupKept, PTL DEF Spec

-----------------------------------------------------------------------------
(* What follows.                                                           *)

(* Whatever the providers answered to the last refresh, a name goes to     *)
(* exactly the providers that list it, or else a pattern for it.           *)
THEOREM RoutedExactly == Spec => []RoutedToItsServers
<1>1. StartupInv => RoutedToItsServers
  BY Routed DEF StartupInv
<1> QED
  BY <1>1, StartupHolds, PTL

(* The providers of a listed name come in the order of their load, equals  *)
(* in the order of registration.                                           *)
THEOREM OrderedByLoad == Spec => []LeastLoadedFirst
<1>1. StartupInv => LeastLoadedFirst
  BY Balanced DEF StartupInv
<1> QED
  BY <1>1, StartupHolds, PTL

(* A selector's candidates come the idle providers first, none twice, and  *)
(* a model that its providers do not disagree about is tried at exactly    *)
(* those that have it with all the capabilities.                           *)
THEOREM SelectorsExact == Spec => []AutoRouted
<1>1. StartupInv => AutoRouted
  BY AutoServed DEF StartupInv
<1> QED
  BY <1>1, StartupHolds, PTL

(* ProviderFor, ProvidersFor, CandidatesFor and ResolveModel agree.        *)
THEOREM LookupsAgreeAlways == Spec => []LookupsAgree
<1>1. StartupInv => LookupsAgree
  BY Agreed DEF StartupInv
<1> QED
  BY <1>1, StartupHolds, PTL

(* A request is checked against its model's first provider's limit, also   *)
(* when refreshes ran while the limits were collected.                     *)
THEOREM LimitsOfPrimary == Spec => []BudgetOfPrimary
<1>1. StartupInv => BudgetOfPrimary
  <2> SUFFICES ASSUME StartupInv, phase \in Serving, NEW id \in steady
               PROVE  limitFor(id) = LimitOf(table.index[id], id)
    BY DEF BudgetOfPrimary, Serving, LimitOf
  <2>1. LimitsInv /\ todo = <<>>
    BY DEF StartupInv, BudgetInv, Serving
  <2>2. id \notin ToSet(todo)
    BY <2>1 DEF ToSet
  <2> QED
    BY <2>1, <2>2 DEF LimitsInv
<1> QED
  BY <1>1, StartupHolds, PTL

(* No order of registration, answer or refresh hides a provider from a     *)
(* name it lists.                                                          *)
LEMMA ListedFound ==
  ASSUME RoutingInv, NEW p \in Providers, NEW id, Lists(p, id)
  PROVE  p \in ToSet(ProvidersFor(table, [q \in Providers |-> 0], id))
<1> DEFINE zero == [q \in Providers |-> 0]
<1>1. ProvidersFor(table, zero, id) = StableSort(Found(id), zero)
  BY DEF ProvidersFor, Found
<1>2. Found(id) \in Seq(Providers) /\ ToSet(Found(id)) = Servers(id) /\ p \in Servers(id)
  BY FoundIs DEF Servers
<1>3. \A q \in Providers : zero[q] \in Int
  OBVIOUS
<1> HIDE DEF zero
<1>4. ToSet(StableSort(Found(id), zero)) = ToSet(Found(id))
  BY <1>2, <1>3, SortedIs
<1> QED
  BY <1>1, <1>2, <1>4 DEF zero

(* What the invariant says of a provider when it was last asked. *)
LEMMA AskedIs ==
  ASSUME StartupInv, Asked, NEW p \in Providers
  PROVE  /\ Answered(asked[p].plain, PlainEntry) /\ Answered(asked[p].detail, DetailEntry)
         /\ conf[p].static \in Seq(Ids) /\ (conf[p].kind = "vllm" => p \in primed)
         /\ listed[p] = Models(p, conf[p], asked[p], p \in primed)
<1>1. deployment \in DOMAIN Deployments /\ asked[p] \in Deployments[deployment].upstreams[p]
      /\ listed[p] = Models(p, conf[p], asked[p], p \in primed)
  BY DEF StartupInv, UpstreamInv, AskedInv
<1>2. Position(p) \in 1 .. built /\ Registered[Position(p)] = p
  BY Positions DEF StartupInv, BuiltInv
<1>3. conf[p].kind = "vllm" => p \in primed
  BY <1>2 DEF StartupInv, BuiltInv
<1> QED
  BY <1>1, <1>3, StartupAssumption DEF conf

(* The endpoint that LiteLLM and LM Studio have besides never costs a model. *)
THEOREM DetailsAreABonus == Spec => []DetailsOptional
<1>1. StartupInv => DetailsOptional
  <2> SUFFICES ASSUME StartupInv, Asked, NEW p \in Providers,
                      \/ conf[p].kind = "litellm"
                      \/ conf[p].kind = "lmstudio" /\ ~asked[p].detail.ok,
                      NEW id \in IdsOf(asked[p].plain)
               PROVE  p \in ToSet(ProvidersFor(table, [q \in Providers |-> 0], id))
    BY DEF DetailsOptional
  <2> DEFINE u == asked[p]
             ms == u.plain.models
             n == Len(ms)
             a == listed[p].models
  <2>1. Answered(u.plain, PlainEntry) /\ listed[p] = Models(p, conf[p], u, p \in primed)
    BY AskedIs
  <2>2. n \in Nat /\ DOMAIN ms = 1 .. n
    BY <2>1, AnsweredIs
  <2>3. PICK i \in 1 .. n : ms[i].id = id
    BY <2>2 DEF IdsOf, ToSet
  <2>4. CASE conf[p].kind = "litellm"
    <3>1. listed[p] = LiteLLMModels(u)
      BY <2>1, <2>4 DEF Models
    <3>2. DOMAIN a = 1 .. n /\ a[i].id = id
      BY <2>1, <2>3, <3>1, LiteLLMTyped
    <3>3. Lists(p, id)
      BY <3>2 DEF Lists, ToSet
    <3> QED
      BY <3>3, ListedFound DEF StartupInv
  <2>5. CASE conf[p].kind = "lmstudio" /\ ~u.detail.ok
    <3>1. listed[p] = OpenAIModels(u)
      BY <2>1, <2>5 DEF Models, LMStudioModels
    <3>2. DOMAIN a = 1 .. n /\ a[i].id = id
      BY <2>1, <2>3, <3>1, OpenAITyped, ZenonT(60)
    <3>3. Lists(p, id)
      BY <3>2 DEF Lists, ToSet
    <3> QED
      BY <3>3, ListedFound DEF StartupInv
  <2> QED
    BY <2>4, <2>5
<1> QED
  BY <1>1, StartupHolds, PTL

(* What a running vLLM provider lists, said of the models it has seen. *)
Seen(c, u) ==
  IF c.discover /\ u.plain.ok /\ u.plain.models # <<>> THEN IdsOf(u.plain) ELSE ToSet(c.static)

(* A primed vLLM provider lists the models it has seen that are configured. *)
LEMMA VLLMLists ==
  ASSUME NEW p, NEW c, NEW u, Answered(u.plain, PlainEntry), c.static \in Seq(Ids)
  PROVE  IdsOf(VLLMModels(p, c, u, TRUE)) = {id \in Seen(c, u) : Configured(p, id) # {}}
<1>1. TRUE \in BOOLEAN
  OBVIOUS
<1>2. LET seen == IF c.discover /\ u.plain.ok /\ u.plain.models # <<>> THEN IdsOf(u.plain) ELSE ToSet(c.static)
      IN  TRUE => IdsOf(VLLMModels(p, c, u, TRUE)) = {id \in seen : Configured(p, id) # {}}
  BY <1>1, VLLMTyped
<1> QED
  BY <1>2 DEF Seen

(* A running vLLM provider serves what it last listed or falls back to,    *)
(* less the models nobody configured, and nothing else.                    *)
THEOREM SurprisesCostThemselves == Spec => []SurpriseCostsItself
<1>1. StartupInv => SurpriseCostsItself
  <2> SUFFICES ASSUME StartupInv, Asked, NEW p \in Providers, conf[p].kind = "vllm"
               PROVE  LET c == conf[p]
                          seen == IF c.discover /\ asked[p].plain.ok /\ asked[p].plain.models # <<>>
                                  THEN IdsOf(asked[p].plain) ELSE ToSet(c.static)
                      IN {id \in DOMAIN table.fallbacks : Contains(table.fallbacks[id], p)}
                           = {id \in seen : Configured(p, id) # {}}
    BY DEF SurpriseCostsItself
  <2> DEFINE c == conf[p]
             u == asked[p]
             seen == IF c.discover /\ u.plain.ok /\ u.plain.models # <<>> THEN IdsOf(u.plain) ELSE ToSet(c.static)
  <2>1. /\ Answered(u.plain, PlainEntry) /\ c.static \in Seq(Ids) /\ p \in primed
        /\ listed[p] = VLLMModels(p, c, u, TRUE)
    <3>1. /\ Answered(u.plain, PlainEntry) /\ c.static \in Seq(Ids) /\ p \in primed
          /\ listed[p] = Models(p, c, u, p \in primed)
      BY AskedIs
    <3>2. (p \in primed) = TRUE
      BY <3>1
    <3> QED
      BY <3>1, <3>2 DEF Models
  <2>2. IdsOf(listed[p]) = {id \in seen : Configured(p, id) # {}}
    <3>1. seen = Seen(c, u)
      BY DEF Seen
    <3> HIDE DEF seen, c, u
    <3>2. IdsOf(VLLMModels(p, c, u, TRUE)) = {id \in Seen(c, u) : Configured(p, id) # {}}
      BY <2>1, VLLMLists
    <3> QED
      BY <2>1, <3>1, <3>2
  <2> HIDE DEF seen, c, u
  <2>3. \A id : Lists(p, id) <=> id \in IdsOf(listed[p])
    BY DEF Lists, IdsOf
  <2>4. ASSUME NEW id
        PROVE  id \in DOMAIN table.fallbacks /\ Contains(table.fallbacks[id], p) <=> Lists(p, id)
    <3>1. id \in DOMAIN table.fallbacks =>
            /\ Contains(table.fallbacks[id], p) <=> p \in ToSet(table.fallbacks[id])
            /\ p \in ToSet(table.fallbacks[id]) <=> Lists(p, id)
      BY TableIs, SetOf DEF StartupInv
    <3>2. Lists(p, id) => id \in DOMAIN table.fallbacks
      BY TableIs DEF StartupInv
    <3> QED
      BY <3>1, <3>2
  <2>5. {id \in DOMAIN table.fallbacks : Contains(table.fallbacks[id], p)} = {id \in seen : Configured(p, id) # {}}
    <3>1. ASSUME NEW id
          PROVE  id \in {i \in DOMAIN table.fallbacks : Contains(table.fallbacks[i], p)}
                   <=> id \in {i \in seen : Configured(p, i) # {}}
      BY <2>2, <2>3, <2>4
    <3> QED
      BY <3>1
  <2> QED
    BY <2>5 DEF seen, c, u
<1> QED
  BY <1>1, StartupHolds, PTL

=============================================================================
