----------------------------- MODULE MCRegistry -----------------------------
(* Model-checking instances of Registry: a few requests, the ticker as a    *)
(* model value of its own.                                                 *)
EXTENDS Registry

CONSTANTS r1, r2, m1, m2, ticker
=============================================================================
