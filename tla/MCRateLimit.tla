----------------------------- MODULE MCRateLimit -----------------------------
(* Instances of RateLimit for TLC. *)
EXTENDS RateLimit, TLC

RequestSymmetry == Permutations(Requests)

From(a, f, r) == [auth |-> a, forwarded |-> f, real |-> r, host |-> "host"]

(* With a key, or naming an address in one of the proxies' two headers. *)
MCHeaders ==
  {From("key", None, None), From(None, "first", "second"), From(None, None, "second")}

(* An untrusted proxy leaves two callers, too few to fill the map: four    *)
(* requests are enough.                                                    *)
FourWithoutProxy ==
  cfg.trustProxy \/ Cardinality({r \in Requests : pc[r] # "idle"}) <= 4
=============================================================================
