---------------------------- MODULE RoutingTable ----------------------------
(***************************************************************************)
(* internal/provider/registry.go as an algorithm: how refresh turns the    *)
(* model lists of the providers into the routing table, and how the        *)
(* lookups turn the table and the providers' loads into candidates.        *)
(*                                                                         *)
(* A refresh is one step here; its interleavings are the subject of the    *)
(* module Registry, what the providers answer that of Discovery, and when  *)
(* a refresh happens that of Startup.  Prices and context lengths are left *)
(* out (no lookup reads them); a capability selector "auto:c1,c2" is the   *)
(* set of its capabilities, and path.Match is a relation.                  *)
(***************************************************************************)
EXTENDS Integers, FiniteSets, SequencesExt

CONSTANTS
  Registered,   \* the providers, in the order of Register
  Ids,          \* the model IDs providers may list, patterns included
  Globs,        \* the IDs that contain glob metacharacters
  Wanted,       \* the concrete model names clients may ask for
  Match,        \* the pairs <<pattern, name>> that path.Match accepts
  Caps,         \* the capabilities
  Overrides,    \* Overrides[p]: model_capabilities, a function on some IDs
  MaxLoad       \* bound on Active()

Providers == ToSet(Registered)

NoProvider == "none"       \* ProviderFor's second result is false
Unchanged == "unchanged"   \* ResolveModel returned the selector as it was

(* What Models(ctx) returns: an error or a list. *)
Failed == [ok |-> FALSE, models |-> <<>>]
Listing(ms) == [ok |-> TRUE, models |-> ms]

(* Every provider is built and registered once.                            *)
ASSUME RoutingAssumption ==
  /\ Registered \in Seq(Providers) /\ IsInjective(Registered)
  /\ NoProvider \notin Providers /\ Unchanged \notin Ids
  /\ Globs \subseteq Ids
  /\ Match \subseteq Globs \X Wanted
  /\ \A p \in Providers : DOMAIN Overrides[p] \subseteq Ids
  /\ MaxLoad \in Nat

VARIABLES
  table,    \* the four fields under Registry.mu
  listed    \* history: what the providers answered to the last refresh

-----------------------------------------------------------------------------
(* refresh                                                                 *)

isGlob(id) == id \in Globs

EmptyTable == [index |-> <<>>, fallbacks |-> <<>>, globs |-> <<>>, models |-> <<>>]

Overridden(p, m) ==
  IF m.id \in DOMAIN Overrides[p] THEN [m EXCEPT !.caps = Overrides[p][m.id]] ELSE m

(* The map update f[k] = v. *)
With(f, k, v) == [x \in DOMAIN f \cup {k} |-> IF x = k THEN v ELSE f[x]]

AddModel(p, t, m) ==
  LET new == m.id \notin DOMAIN t.index
  IN [index     |-> IF new THEN With(t.index, m.id, p) ELSE t.index,
      fallbacks |-> With(t.fallbacks, m.id,
                         (IF new THEN <<>> ELSE t.fallbacks[m.id]) \o <<p>>),
      globs     |-> IF new /\ isGlob(m.id) THEN Append(t.globs, m.id) ELSE t.globs,
      models    |-> IF new THEN Append(t.models, m) ELSE t.models]

AddProvider(t, p, report) ==
  IF ~report.ok THEN t
  ELSE FoldLeft(LAMBDA u, m : AddModel(p, u, Overridden(p, m)), t, report.models)

BuildTable(r) == FoldLeft(LAMBDA t, p : AddProvider(t, p, r[p]), EmptyTable, Registered)

-----------------------------------------------------------------------------
(* Lookups                                                                 *)

Matches(pattern, id) == <<pattern, id>> \in Match

(* Slip: equally busy elements change places. *)
StableSortUnstable(s, busy) ==
  LET Place(sorted, x) ==
        LET before == {i \in DOMAIN sorted : busy[sorted[i]] < busy[x]}
        IN InsertAt(sorted, Cardinality(before) + 1, x)
  IN FoldLeft(Place, <<>>, s)

(* sort.SliceStable by activeCount: each element goes behind the ones that *)
(* are no busier.                                                          *)
StableSort(s, busy) ==
  LET Place(sorted, x) ==
        LET before == {i \in DOMAIN sorted : busy[sorted[i]] <= busy[x]}
        IN InsertAt(sorted, Cardinality(before) + 1, x)
  IN FoldLeft(Place, <<>>, s)

(* The elements of s that are in S, in the order of s. *)
Among(s, S) == FoldLeft(LAMBDA out, x : IF x \in S THEN Append(out, x) ELSE out, <<>>, s)

(* Append every element of s that out does not hold yet. *)
AppendNew(out, s) ==
  FoldLeft(LAMBDA acc, x : IF Contains(acc, x) THEN acc ELSE Append(acc, x), out, s)

GlobProviders(t, id) ==
  FoldLeft(LAMBDA out, g : IF Matches(g, id) THEN AppendNew(out, t.fallbacks[g]) ELSE out,
           <<>>, t.globs)

ProviderFor(t, id) ==
  LET hits == Among(t.globs, {g \in Globs : Matches(g, id)})
  IN IF id \in DOMAIN t.index THEN t.index[id]
     ELSE IF hits # <<>> THEN t.index[Head(hits)]
     ELSE NoProvider

(* Slip: patterns are consulted for every name. *)
ProvidersForAll(t, l, id) ==
  LET found == IF id \in DOMAIN t.fallbacks THEN t.fallbacks[id] ELSE <<>>
  IN StableSort(AppendNew(found, GlobProviders(t, id)), l)

ProvidersFor(t, l, id) ==
  LET found == IF id \in DOMAIN t.fallbacks THEN t.fallbacks[id] ELSE GlobProviders(t, id)
  IN StableSort(found, l)

Candidate(id, p) == [model |-> id, provider |-> p]

(* Slip: one capability of the selector is enough. *)
hasSomeCap(have, want) == want \cap have # {}

hasAllCaps(have, want) == want \subseteq have

(* The models with all the capabilities. *)
Able(t, required) == Among(t.models, {m \in ToSet(t.models) : hasAllCaps(m.caps, required)})

candidatesForAuto(t, l, required) ==
  LET Expand(out, m) ==
        LET ps == t.fallbacks[m.id]
        IN AppendNew(out, [i \in DOMAIN ps |-> Candidate(m.id, ps[i])])
  IN IF required = {} THEN <<>>
     ELSE LET cs == FoldLeft(Expand, <<>>, Able(t, required))
          IN StableSort(cs, [c \in ToSet(cs) |-> l[c.provider]])

(* CandidatesFor of a concrete name. *)
candidatesForName(t, l, id) ==
  LET ps == ProvidersFor(t, l, id)
  IN [i \in DOMAIN ps |-> Candidate(id, ps[i])]

(* Slip: the first model wins whatever its load. *)
ResolveModelFirst(t, l, required) ==
  LET able == Able(t, required)
  IN IF required = {} \/ able = <<>> THEN Unchanged ELSE able[1].id

ResolveModel(t, l, required) ==
  LET able == Able(t, required)
  IN IF required = {} \/ able = <<>> THEN Unchanged
     ELSE StableSort(able, [m \in ToSet(able) |-> l[t.index[m.id]]])[1].id

NewRegistry ==
  /\ table = EmptyTable
  /\ listed = [p \in Providers |-> Failed]

refresh(reports) ==
  /\ table' = BuildTable(reports)
  /\ listed' = reports

-----------------------------------------------------------------------------
(* Properties                                                              *)

(* Active() of each provider may be anything when a lookup reads it. *)
Loads == [Providers -> 0 .. MaxLoad]

Lists(p, id) == \E m \in ToSet(listed[p].models) : m.id = id

(* The reference: who may serve a name, without an index. *)
Servers(id) ==
  IF \E p \in Providers : Lists(p, id) THEN {p \in Providers : Lists(p, id)}
  ELSE {p \in Providers : \E g \in Globs : Matches(g, id) /\ Lists(p, g)}

(* The index, the fallback lists and the glob list together route a name   *)
(* to exactly the providers that list it, or, when none does, to those     *)
(* that list a pattern for it (registry.go:321-354).                       *)
RoutedToItsServers ==
  \A id \in Wanted, load \in Loads : ToSet(ProvidersFor(table, load, id)) = Servers(id)

Position(p) == CHOOSE i \in DOMAIN Registered : Registered[i] = p

(* The capabilities that p reports, or is configured with, for a model:    *)
(* one set for each entry of it.                                           *)
Reports(p, id) ==
  {Overridden(p, m).caps : m \in {e \in ToSet(listed[p].models) : e.id = id}}

(* All the entries of a model have the capabilities of the selector, or    *)
(* all lack some.                                                          *)
Undisputed(id, sel) ==
  \A p, q \in Providers : \A c \in Reports(p, id), d \in Reports(q, id) :
    sel \subseteq c <=> sel \subseteq d

SortedBy(ps, Before(_, _)) ==
  \A i, j \in DOMAIN ps : i < j => ~Before(ps[j], ps[i])

(* The least-connections rule for a name some provider lists itself: a     *)
(* busier provider never comes before a less busy one, and equally busy    *)
(* ones keep the order of registration (registry.go:321-323).              *)
LeastLoadedFirst ==
  \A id \in Wanted, load \in Loads :
    (\E p \in Providers : Lists(p, id))
      => SortedBy(ProvidersFor(table, load, id),
                  LAMBDA p, q : \/ load[p] < load[q]
                                \/ load[p] = load[q] /\ Position(p) < Position(q))

Selectors == (SUBSET Caps) \ {{}}

(* What a selector stands for (registry.go:247-253): the idle providers    *)
(* come first and no pair is tried twice; and a model, as opposed to a     *)
(* pattern, that its providers do not disagree about is tried at exactly   *)
(* the providers that have it with all the capabilities.  Of a model they  *)
(* disagree about, and of patterns, the code follows the first entry,      *)
(* which is not what the comments say.                                     *)
AutoRouted ==
  \A sel \in Selectors :
    LET settled == {id \in Ids \ Globs : Undisputed(id, sel)}
        offers  == {ip \in settled \X Providers : \E c \in Reports(ip[2], ip[1]) : sel \subseteq c}
    IN \A load \in Loads :
         LET cs == candidatesForAuto(table, load, sel)
         IN /\ IsInjective(cs)
            /\ SortedBy(cs, LAMBDA c, d : load[c.provider] < load[d.provider])
            /\ \A id \in settled, p \in Providers :
                 Candidate(id, p) \in ToSet(cs) <=> <<id, p>> \in offers

(* The three lookups agree.  When all providers are idle the first one for *)
(* a name is the one ProviderFor names, whose configuration main.go:211    *)
(* takes for the token budget; and a selector resolves exactly when it has *)
(* candidates, to a model whose primary provider is one of the least busy  *)
(* of theirs (registry.go:176-178).                                        *)
LookupsAgree ==
  /\ \A id \in Wanted :
       LET ps == ProvidersFor(table, [p \in Providers |-> 0], id)
       IN ProviderFor(table, id) = IF ps = <<>> THEN NoProvider ELSE ps[1]
  /\ \A sel \in Selectors, load \in Loads :
       LET cs == candidatesForAuto(table, load, sel)
           id == ResolveModel(table, load, sel)
       IN /\ id = Unchanged <=> cs = <<>>
          /\ id # Unchanged =>
               /\ \E c \in ToSet(cs) : c.model = id
               /\ \A m \in {c.model : c \in ToSet(cs)} :
                    load[table.index[id]] <= load[table.index[m]]
=============================================================================
