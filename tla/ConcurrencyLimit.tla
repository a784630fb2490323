-------------------------- MODULE ConcurrencyLimit --------------------------
(***************************************************************************)
(* What a bounded provider promises: of the calls that reach the upstream, *)
(* at most Capacity run at once (0 = no limit), a call runs at most once,  *)
(* and the cooldown the upstream asked for is only ever extended and only  *)
(* by a call that has reached the upstream.  No queue, no counters.        *)
(***************************************************************************)
EXTENDS Integers, FiniteSets

CONSTANTS Calls, Capacity

VARIABLES phase,     \* each call: new, waiting, running, ended or refused
          coolUntil  \* the end of the cooldown

limitVars == <<phase, coolUntil>>

Running == {c \in Calls : phase[c] = "running"}
Move(c, from, to) == phase[c] = from /\ phase' = [phase EXCEPT ![c] = to]

Init == phase = [c \in Calls |-> "new"] /\ coolUntil = 0

Wait(c) == Move(c, "new", "waiting") /\ UNCHANGED coolUntil

(* A call may be refused on arrival or while it waits. *)
Refuse(c) ==
  /\ Move(c, "new", "refused") \/ Move(c, "waiting", "refused")
  /\ UNCHANGED coolUntil

Run(c) ==
  /\ Capacity > 0 => Cardinality(Running) < Capacity
  /\ Move(c, "waiting", "running")
  /\ UNCHANGED coolUntil

End(c) == Move(c, "running", "ended") /\ UNCHANGED coolUntil

CoolDown(c) ==
  /\ phase[c] = "ended"
  /\ coolUntil' \in Nat /\ coolUntil' > coolUntil
  /\ UNCHANGED phase

Next ==
  \E c \in Calls : Wait(c) \/ Refuse(c) \/ Run(c) \/ End(c) \/ CoolDown(c)

Spec == Init /\ [][Next]_limitVars
=============================================================================
