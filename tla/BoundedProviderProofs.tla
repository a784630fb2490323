----------------------- MODULE BoundedProviderProofs -----------------------
(***************************************************************************)
(* What TLAPS proves of BoundedProvider for every number of calls, every   *)
(* limit, every queue depth and every set of Retry-After values.           *)
(***************************************************************************)
EXTENDS BoundedProvider, FiniteSetTheorems, SequenceTheorems, TLAPS

-----------------------------------------------------------------------------
(* Typing.                                                                 *)

(* Every step keeps the types. *)
LEMMA TypeStep == TypeOK /\ [Next]_vars => TypeOK'
<1> SUFFICES ASSUME TypeOK, [Next]_vars PROVE TypeOK'
  OBVIOUS
<1> USE BoundedAssumption
        DEF TypeOK, Locations, Results, counters, cooldown, stream, Goto, Finish
<1>1. ASSUME NEW r \in Reqs, Unsupported(r) PROVE TypeOK'
  BY <1>1 DEF Unsupported
<1>2. ASSUME NEW r \in Reqs, ShortCircuit(r) PROVE TypeOK'
  BY <1>2 DEF ShortCircuit, Callable
<1>3. ASSUME NEW r \in Reqs, Enter(r) PROVE TypeOK'
  BY <1>3 DEF Enter, Callable
<1>4. ASSUME NEW r \in Reqs, AcquireUnlimited(r) PROVE TypeOK'
  BY <1>4 DEF AcquireUnlimited
<1>5. ASSUME NEW r \in Reqs, JoinQueue(r) PROVE TypeOK'
  BY <1>5 DEF JoinQueue
<1>6. ASSUME NEW r \in Reqs, QueueFull(r) PROVE TypeOK'
  BY <1>6 DEF QueueFull
<1>7. ASSUME NEW r \in Reqs, TakeSlot(r) PROVE TypeOK'
  BY <1>7 DEF TakeSlot
<1>8. ASSUME NEW r \in Reqs, Activate(r) PROVE TypeOK'
  <2>1. activeCount' \in Int
    BY <1>8 DEF Activate
  <2>2. pc' \in [Reqs -> Locations]
    <3>1. Goto(r, "unwait") \/ Goto(r, "call")
      BY <1>8 DEF Activate, CallInner
    <3> QED
      BY <3>1
  <2>3. upstream' \in [Reqs -> {"none", "live", "cancelled", "ended"}]
    BY <1>8 DEF Activate, CallInner
  <2> QED
    BY <1>8, <2>1, <2>2, <2>3 DEF Activate
<1>9. ASSUME NEW r \in Reqs, LeaveQueue(r) PROVE TypeOK'
  BY <1>9 DEF LeaveQueue, CallInner
<1>10. ASSUME NEW r \in Reqs, GiveUp(r) PROVE TypeOK'
  BY <1>10 DEF GiveUp
<1>11. ASSUME NEW r \in Reqs, AbortQueue(r) PROVE TypeOK'
  BY <1>11 DEF AbortQueue
<1>12. ASSUME NEW r \in Reqs, InnerOk(r) PROVE TypeOK'
  BY <1>12 DEF InnerOk
<1>13. ASSUME NEW r \in Reqs, InnerError(r) PROVE TypeOK'
  BY <1>13 DEF InnerError, Unwind
<1>14. ASSUME NEW r \in Reqs, InnerRateLimited(r) PROVE TypeOK'
  BY <1>14 DEF InnerRateLimited
<1>15. ASSUME NEW r \in Reqs, StreamOpened(r) PROVE TypeOK'
  BY <1>15 DEF StreamOpened
<1>16. ASSUME NEW r \in Reqs, LoadCooldown(r) PROVE TypeOK'
  BY <1>16 DEF LoadCooldown, Unwind
<1>17. ASSUME NEW r \in Reqs, CompareAndSwap(r) PROVE TypeOK'
  <2>1. CASE coolUntil' = deadline[r] /\ Goto(r, Unwind(r))
    BY <1>17, <2>1 DEF CompareAndSwap, Unwind
  <2>2. CASE UNCHANGED coolUntil /\ Goto(r, "load")
    BY <1>17, <2>2 DEF CompareAndSwap
  <2> QED
    BY <1>17, <2>1, <2>2 DEF CompareAndSwap
<1>18. ASSUME NEW r \in Reqs, FirstToken(r) PROVE TypeOK'
  BY <1>18 DEF FirstToken, NextChunk
<1>19. ASSUME NEW r \in Reqs, ClosedBeforeFirstToken(r) PROVE TypeOK'
  BY <1>19 DEF ClosedBeforeFirstToken
<1>20. ASSUME NEW r \in Reqs, FirstTokenTimeout(r) PROVE TypeOK'
  BY <1>20 DEF FirstTokenTimeout
<1>21. ASSUME NEW r \in Reqs, GoneBeforeFirstToken(r) PROVE TypeOK'
  BY <1>21 DEF GoneBeforeFirstToken
<1>22. ASSUME NEW r \in Reqs, ReceiveChunk(r) PROVE TypeOK'
  BY <1>22 DEF ReceiveChunk, NextChunk
<1>23. ASSUME NEW r \in Reqs, InnerClosed(r) PROVE TypeOK'
  BY <1>23 DEF InnerClosed
<1>24. ASSUME NEW r \in Reqs, SendChunk(r) PROVE TypeOK'
  BY <1>24 DEF SendChunk
<1>25. ASSUME NEW r \in Reqs, ForwarderCancelled(r) PROVE TypeOK'
  BY <1>25 DEF ForwarderCancelled
<1>26. ASSUME NEW r \in Reqs, CancelInner(r) PROVE TypeOK'
  BY <1>26 DEF CancelInner
<1>27. ASSUME NEW r \in Reqs, Deactivate(r) PROVE TypeOK'
  BY <1>27 DEF Deactivate, AfterRelease
<1>28. ASSUME NEW r \in Reqs, FreeSlot(r) PROVE TypeOK'
  BY <1>28 DEF FreeSlot, AfterRelease
<1>29. ASSUME NEW r \in Reqs, CloseOut(r) PROVE TypeOK'
  BY <1>29 DEF CloseOut
<1>30. ASSUME NEW r \in Reqs, Receive(r) PROVE TypeOK'
  BY <1>30 DEF Receive
<1>31. ASSUME NEW r \in Reqs, CancelCtx(r) PROVE TypeOK'
  BY <1>31 DEF CancelCtx
<1>32. CASE Tick
  BY <1>32 DEF Tick
<1>33. CASE UNCHANGED vars
  BY <1>33 DEF vars
<1> QED
  BY <1>1, <1>2, <1>3, <1>4, <1>5, <1>6, <1>7, <1>8, <1>9, <1>10, <1>11, <1>12, <1>13, <1>14, <1>15, <1>16, <1>17, <1>18, <1>19, <1>20, <1>21, <1>22, <1>23, <1>24, <1>25, <1>26, <1>27, <1>28, <1>29, <1>30, <1>31, <1>32, <1>33
     DEF Next, Acquire, Inner, SetCooldown, Stream, Release, Terminated

(* The state is well typed in every reachable state. *)
THEOREM TypeCorrect == Spec => []TypeOK
<1>1. Init => TypeOK
  BY BoundedAssumption DEF Init, TypeOK, Locations, Results
<1> QED
  BY <1>1, TypeStep, PTL DEF Spec

-----------------------------------------------------------------------------
(* Counting calls by location.                                             *)

Unit(l, L) == IF l \in L THEN 1 ELSE 0
Members(f, L) == {q \in Reqs : f[q] \in L}

(* Moving one call to location l changes the number of calls that stand in *)
(* L by at most one.                                                       *)
LEMMA CountMove ==
  ASSUME NEW f \in [Reqs -> Locations], NEW r \in Reqs, NEW l \in Locations,
         NEW g \in [Reqs -> Locations], NEW L,
         g[r] = l, \A q \in Reqs \ {r} : g[q] = f[q]
  PROVE  /\ Cardinality(Members(f, L)) \in Nat
         /\ Cardinality(Members(g, L)) \in Nat
         /\ Cardinality(Members(g, L))
              = Cardinality(Members(f, L)) + Unit(l, L) - Unit(f[r], L)
<1> DEFINE Pre  == Members(f, L)
           Post == Members(g, L)
<1> USE DEF Members
<1>1. IsFiniteSet(Pre) /\ IsFiniteSet(Post)
  BY FS_Subset, BoundedAssumption
<1>2. Cardinality(Pre) \in Nat /\ Cardinality(Post) \in Nat
  BY <1>1, FS_CardinalityType
<1> SUFFICES Cardinality(Post) = Cardinality(Pre) + Unit(l, L) - Unit(f[r], L)
  BY <1>2
<1>3. CASE l \in L /\ f[r] \notin L
  <2>1. Post = Pre \cup {r} /\ r \notin Pre
    BY <1>3
  <2>2. Cardinality(Post) = Cardinality(Pre) + 1
    <3> HIDE DEF Pre, Post, Members
    <3> QED  BY <1>1, <2>1, FS_AddElement
  <2>3. Unit(l, L) = 1 /\ Unit(f[r], L) = 0
    BY <1>3 DEF Unit
  <2> QED
    BY <1>2, <2>2, <2>3
<1>4. CASE l \notin L /\ f[r] \in L
  <2>1. Post = Pre \ {r} /\ r \in Pre
    BY <1>4
  <2>2. Cardinality(Post) = Cardinality(Pre) - 1
    <3> HIDE DEF Pre, Post, Members
    <3> QED  BY <1>1, <2>1, FS_RemoveElement
  <2>3. Unit(l, L) = 0 /\ Unit(f[r], L) = 1
    BY <1>4 DEF Unit
  <2> QED
    BY <1>2, <2>2, <2>3
<1>5. CASE (l \in L /\ f[r] \in L) \/ (l \notin L /\ f[r] \notin L)
  <2>1. Post = Pre
    BY <1>5
  <2>2. Unit(l, L) = Unit(f[r], L) /\ Unit(l, L) \in Nat
    BY <1>5 DEF Unit
  <2> HIDE DEF Members
  <2> QED
    BY <1>2, <2>1, <2>2
<1> QED
  BY <1>3, <1>4, <1>5

(* What a step that moves call r does to the four numbers the invariants   *)
(* relate.                                                                 *)
Shift(S, L, r) ==
  /\ Cardinality(S) \in Nat /\ Cardinality(S)' \in Nat
  /\ Cardinality(S)' = Cardinality(S) + Unit(pc'[r], L) - Unit(pc[r], L)

Counted(r) ==
  /\ Shift(Holders, SlotLocations, r)
  /\ Shift(Executing, ActiveLocations, r)
  /\ Shift(Waiting, WaitLocations, r)
  /\ Shift(Selecting, {"select"}, r)

(* A call that moves changes each count by what it leaves and what it      *)
(* enters.                                                                 *)
LEMMA MoveCounts ==
  ASSUME TypeOK, TypeOK', NEW r \in Reqs, \E l : Goto(r, l)
  PROVE  Counted(r)
<1>1. /\ pc \in [Reqs -> Locations] /\ pc' \in [Reqs -> Locations]
      /\ pc'[r] \in Locations /\ \A q \in Reqs \ {r} : pc'[q] = pc[q]
  BY DEF TypeOK, Goto
<1>2. ASSUME NEW L
      PROVE  /\ Cardinality(Members(pc, L)) \in Nat
             /\ Cardinality(Members(pc', L)) \in Nat
             /\ Cardinality(Members(pc', L))
                  = Cardinality(Members(pc, L)) + Unit(pc'[r], L) - Unit(pc[r], L)
  BY <1>1, CountMove
<1>3. Shift(Holders, SlotLocations, r)
  BY <1>2 DEF Shift, Holders, At, Members
<1>4. Shift(Executing, ActiveLocations, r)
  BY <1>2 DEF Shift, Executing, At, Members
<1>5. Shift(Waiting, WaitLocations, r)
  BY <1>2 DEF Shift, Waiting, At, Members
<1>6. Shift(Selecting, {"select"}, r)
  BY <1>2 DEF Shift, Selecting, At, Members
<1> QED
  BY <1>3, <1>4, <1>5, <1>6 DEF Counted

-----------------------------------------------------------------------------
(* Slots.  Every step of a call moves it from one location to another and  *)
(* changes the counters by exactly the slots, units of load and places in  *)
(* the queue that the two locations differ by.                             *)

LocationsOK == \A r \in Reqs : LocationOK(r)

(* Every step keeps what a call holds at its place. *)
LEMMA LocationStep ==
  ASSUME TypeOK, LocationsOK, [Next]_vars
  PROVE  LocationsOK'
<1> USE DEF TypeOK, LocationsOK, LocationOK, Goto, Finish, Queued, Limited
<1>1. ASSUME NEW r \in Reqs, Unsupported(r) PROVE LocationsOK'
  BY <1>1 DEF Unsupported
<1>2. ASSUME NEW r \in Reqs, ShortCircuit(r) PROVE LocationsOK'
  BY <1>2 DEF ShortCircuit, Callable
<1>3. ASSUME NEW r \in Reqs, Enter(r) PROVE LocationsOK'
  BY <1>3 DEF Enter, Callable
<1>4. ASSUME NEW r \in Reqs, AcquireUnlimited(r) PROVE LocationsOK'
  BY <1>4 DEF AcquireUnlimited
<1>5. ASSUME NEW r \in Reqs, JoinQueue(r) PROVE LocationsOK'
  BY <1>5 DEF JoinQueue
<1>6. ASSUME NEW r \in Reqs, QueueFull(r) PROVE LocationsOK'
  BY <1>6 DEF QueueFull
<1>7. ASSUME NEW r \in Reqs, TakeSlot(r) PROVE LocationsOK'
  BY <1>7 DEF TakeSlot
<1>8. ASSUME NEW r \in Reqs, Activate(r) PROVE LocationsOK'
  BY <1>8 DEF Activate, CallInner
<1>9. ASSUME NEW r \in Reqs, LeaveQueue(r) PROVE LocationsOK'
  BY <1>9 DEF LeaveQueue, CallInner
<1>10. ASSUME NEW r \in Reqs, GiveUp(r) PROVE LocationsOK'
  BY <1>10 DEF GiveUp
<1>11. ASSUME NEW r \in Reqs, AbortQueue(r) PROVE LocationsOK'
  BY <1>11 DEF AbortQueue
<1>12. ASSUME NEW r \in Reqs, InnerOk(r) PROVE LocationsOK'
  BY <1>12 DEF InnerOk
<1>13. ASSUME NEW r \in Reqs, InnerError(r) PROVE LocationsOK'
  BY <1>13 DEF InnerError, Unwind
<1>14. ASSUME NEW r \in Reqs, InnerRateLimited(r) PROVE LocationsOK'
  BY <1>14 DEF InnerRateLimited
<1>15. ASSUME NEW r \in Reqs, StreamOpened(r) PROVE LocationsOK'
  BY <1>15 DEF StreamOpened
<1>16. ASSUME NEW r \in Reqs, LoadCooldown(r) PROVE LocationsOK'
  BY <1>16 DEF LoadCooldown, Unwind
<1>17. ASSUME NEW r \in Reqs, CompareAndSwap(r) PROVE LocationsOK'
  BY <1>17 DEF CompareAndSwap, Unwind
<1>18. ASSUME NEW r \in Reqs, FirstToken(r) PROVE LocationsOK'
  BY <1>18 DEF FirstToken, NextChunk
<1>19. ASSUME NEW r \in Reqs, ClosedBeforeFirstToken(r) PROVE LocationsOK'
  BY <1>19 DEF ClosedBeforeFirstToken
<1>20. ASSUME NEW r \in Reqs, FirstTokenTimeout(r) PROVE LocationsOK'
  BY <1>20 DEF FirstTokenTimeout
<1>21. ASSUME NEW r \in Reqs, GoneBeforeFirstToken(r) PROVE LocationsOK'
  BY <1>21 DEF GoneBeforeFirstToken
<1>22. ASSUME NEW r \in Reqs, ReceiveChunk(r) PROVE LocationsOK'
  BY <1>22 DEF ReceiveChunk, NextChunk
<1>23. ASSUME NEW r \in Reqs, InnerClosed(r) PROVE LocationsOK'
  BY <1>23 DEF InnerClosed
<1>24. ASSUME NEW r \in Reqs, SendChunk(r) PROVE LocationsOK'
  BY <1>24 DEF SendChunk
<1>25. ASSUME NEW r \in Reqs, ForwarderCancelled(r) PROVE LocationsOK'
  BY <1>25 DEF ForwarderCancelled
<1>26. ASSUME NEW r \in Reqs, CancelInner(r) PROVE LocationsOK'
  BY <1>26 DEF CancelInner
<1>27. ASSUME NEW r \in Reqs, Deactivate(r) PROVE LocationsOK'
  BY <1>27 DEF Deactivate, AfterRelease
<1>28. ASSUME NEW r \in Reqs, FreeSlot(r) PROVE LocationsOK'
  BY <1>28 DEF FreeSlot, AfterRelease
<1>29. ASSUME NEW r \in Reqs, CloseOut(r) PROVE LocationsOK'
  BY <1>29 DEF CloseOut
<1>30. ASSUME NEW r \in Reqs, Receive(r) \/ CancelCtx(r) PROVE LocationsOK'
  BY <1>30 DEF Receive, CancelCtx
<1>31. CASE Tick \/ UNCHANGED vars
  BY <1>31 DEF Tick, vars
<1> QED
  BY <1>1, <1>2, <1>3, <1>4, <1>5, <1>6, <1>7, <1>8, <1>9, <1>10, <1>11, <1>12, <1>13, <1>14, <1>15, <1>16, <1>17, <1>18, <1>19, <1>20, <1>21, <1>22, <1>23, <1>24, <1>25, <1>26, <1>27, <1>28, <1>29, <1>30, <1>31
     DEF Next, Acquire, Inner, SetCooldown, Stream, Release, Terminated

Bounds ==
  /\ SlotAccounting
  /\ Limited => sem <= MaxConcurrent
  /\ Queued => Cardinality(Selecting) <= MaxWaiting

(* Every call blocked in the select is counted as waiting, in both states  *)
(* of a step.                                                              *)
LEMMA SelectingWait ==
  /\ Cardinality(Selecting) <= Cardinality(Waiting)
  /\ Cardinality(Selecting)' <= Cardinality(Waiting)'
<1>1. /\ Selecting \subseteq Waiting /\ Waiting \subseteq Reqs
      /\ Selecting' \subseteq Waiting' /\ Waiting' \subseteq Reqs
  BY DEF Selecting, Waiting, At, WaitLocations
<1> QED
  BY <1>1, FS_Subset, BoundedAssumption

(* Every step keeps the counters within their bounds. *)
LEMMA BoundsStep ==
  ASSUME SlotInv, TypeOK', [Next]_vars
  PROVE  Bounds'
<1>a. ASSUME NEW r \in Reqs, \E l : Goto(r, l) PROVE Counted(r)
  BY <1>a, MoveCounts DEF SlotInv
<1>b. ASSUME NEW r \in Reqs
      PROVE  /\ LocationOK(r) /\ r \in DOMAIN pc
             /\ \A l : Goto(r, l) => pc'[r] = l
  BY DEF SlotInv, TypeOK, Goto
<1>c. Bounds /\ sem \in Int /\ waitingCount \in Int /\ activeCount \in Int
  BY DEF SlotInv, Bounds, TypeOK
<1> USE BoundedAssumption
        DEF Counted, Shift, Unit, Bounds, SlotAccounting, LocationOK, Queued, Limited,
            SlotLocations, ActiveLocations, WaitLocations, Finish, counters
<1>1. ASSUME NEW r \in Reqs, Unsupported(r) PROVE Bounds'
  BY <1>a, <1>b, <1>c, <1>1 DEF Unsupported
<1>2. ASSUME NEW r \in Reqs, ShortCircuit(r) PROVE Bounds'
  BY <1>a, <1>b, <1>c, <1>2 DEF ShortCircuit, Callable
<1>3. ASSUME NEW r \in Reqs, Enter(r) PROVE Bounds'
  BY <1>a, <1>b, <1>c, <1>3 DEF Enter, Callable
<1>4. ASSUME NEW r \in Reqs, AcquireUnlimited(r) PROVE Bounds'
  BY <1>a, <1>b, <1>c, <1>4 DEF AcquireUnlimited
<1>5. ASSUME NEW r \in Reqs, JoinQueue(r) PROVE Bounds'
  <2>1. /\ Counted(r) /\ pc[r] = "acquire" /\ Limited
        /\ UNCHANGED <<sem, activeCount>>
    BY <1>a, <1>5 DEF JoinQueue
  <2>2. CASE ~Queued
    <3>1. pc'[r] = "select" /\ waitingCount' = waitingCount
      BY <1>b, <1>5, <2>2 DEF JoinQueue
    <3> QED
      BY <1>b, <1>c, <2>1, <2>2, <3>1
  <2>3. CASE Queued
    <3>1. /\ waitingCount' = waitingCount + 1
          /\ pc'[r] = IF waitingCount' > MaxWaiting THEN "reject" ELSE "select"
      BY <1>b, <1>5, <2>3 DEF JoinQueue
    <3>2. SlotAccounting'
      BY <1>b, <1>c, <2>1, <2>3, <3>1
    <3>3. Cardinality(Selecting)' <= Cardinality(Waiting)'
      BY SelectingWait
    <3> QED
      BY <1>b, <1>c, <2>1, <2>3, <3>1, <3>2, <3>3
  <2> QED
    BY <2>2, <2>3
<1>6. ASSUME NEW r \in Reqs, QueueFull(r) PROVE Bounds'
  BY <1>a, <1>b, <1>c, <1>6 DEF QueueFull
<1>7. ASSUME NEW r \in Reqs, TakeSlot(r) PROVE Bounds'
  BY <1>a, <1>b, <1>c, <1>7 DEF TakeSlot
<1>8. ASSUME NEW r \in Reqs, Activate(r) PROVE Bounds'
  BY <1>a, <1>b, <1>c, <1>8 DEF Activate, CallInner
<1>9. ASSUME NEW r \in Reqs, LeaveQueue(r) PROVE Bounds'
  BY <1>a, <1>b, <1>c, <1>9 DEF LeaveQueue, CallInner
<1>10. ASSUME NEW r \in Reqs, GiveUp(r) PROVE Bounds'
  BY <1>a, <1>b, <1>c, <1>10 DEF GiveUp
<1>11. ASSUME NEW r \in Reqs, AbortQueue(r) PROVE Bounds'
  BY <1>a, <1>b, <1>c, <1>11 DEF AbortQueue
<1>12. ASSUME NEW r \in Reqs, InnerOk(r) PROVE Bounds'
  BY <1>a, <1>b, <1>c, <1>12 DEF InnerOk
<1>13. ASSUME NEW r \in Reqs, InnerError(r) PROVE Bounds'
  BY <1>a, <1>b, <1>c, <1>13 DEF InnerError, Unwind
<1>14. ASSUME NEW r \in Reqs, InnerRateLimited(r) PROVE Bounds'
  BY <1>a, <1>b, <1>c, <1>14 DEF InnerRateLimited
<1>15. ASSUME NEW r \in Reqs, StreamOpened(r) PROVE Bounds'
  BY <1>a, <1>b, <1>c, <1>15 DEF StreamOpened
<1>16. ASSUME NEW r \in Reqs, LoadCooldown(r) PROVE Bounds'
  BY <1>a, <1>b, <1>c, <1>16 DEF LoadCooldown, Unwind
<1>17. ASSUME NEW r \in Reqs, CompareAndSwap(r) PROVE Bounds'
  BY <1>a, <1>b, <1>c, <1>17 DEF CompareAndSwap, Unwind
<1>18. ASSUME NEW r \in Reqs, FirstToken(r) PROVE Bounds'
  BY <1>a, <1>b, <1>c, <1>18 DEF FirstToken, NextChunk
<1>19. ASSUME NEW r \in Reqs, ClosedBeforeFirstToken(r) PROVE Bounds'
  BY <1>a, <1>b, <1>c, <1>19 DEF ClosedBeforeFirstToken
<1>20. ASSUME NEW r \in Reqs, FirstTokenTimeout(r) PROVE Bounds'
  BY <1>a, <1>b, <1>c, <1>20 DEF FirstTokenTimeout
<1>21. ASSUME NEW r \in Reqs, GoneBeforeFirstToken(r) PROVE Bounds'
  BY <1>a, <1>b, <1>c, <1>21 DEF GoneBeforeFirstToken
<1>22. ASSUME NEW r \in Reqs, ReceiveChunk(r) PROVE Bounds'
  BY <1>a, <1>b, <1>c, <1>22 DEF ReceiveChunk, NextChunk
<1>23. ASSUME NEW r \in Reqs, InnerClosed(r) PROVE Bounds'
  BY <1>a, <1>b, <1>c, <1>23 DEF InnerClosed
<1>24. ASSUME NEW r \in Reqs, SendChunk(r) PROVE Bounds'
  <2>1. Counted(r) /\ pc[r] = "send" /\ pc'[r] = "forward" /\ UNCHANGED counters
    BY <1>a, <1>b, <1>24 DEF SendChunk
  <2> QED
    BY <1>b, <1>c, <2>1
<1>25. ASSUME NEW r \in Reqs, ForwarderCancelled(r) PROVE Bounds'
  BY <1>a, <1>b, <1>c, <1>25 DEF ForwarderCancelled
<1>26. ASSUME NEW r \in Reqs, CancelInner(r) PROVE Bounds'
  BY <1>a, <1>b, <1>c, <1>26 DEF CancelInner
<1>27. ASSUME NEW r \in Reqs, Deactivate(r) PROVE Bounds'
  BY <1>a, <1>b, <1>c, <1>27 DEF Deactivate, AfterRelease
<1>28. ASSUME NEW r \in Reqs, FreeSlot(r) PROVE Bounds'
  BY <1>a, <1>b, <1>c, <1>28 DEF FreeSlot, AfterRelease
<1>29. ASSUME NEW r \in Reqs, CloseOut(r) PROVE Bounds'
  BY <1>a, <1>b, <1>c, <1>29 DEF CloseOut
<1>30. CASE UNCHANGED <<pc, counters>>
  BY <1>c, <1>30 DEF Holders, Executing, Waiting, Selecting, At
<1>31. ASSUME (\E r \in Reqs : Receive(r) \/ CancelCtx(r)) \/ Tick \/ UNCHANGED vars
     PROVE  UNCHANGED <<pc, counters>>
  BY <1>31 DEF Receive, CancelCtx, Tick, vars
<1> QED
  BY <1>1, <1>2, <1>3, <1>4, <1>5, <1>6, <1>7, <1>8, <1>9, <1>10, <1>11, <1>12, <1>13, <1>14, <1>15, <1>16, <1>17, <1>18, <1>19, <1>20, <1>21, <1>22, <1>23, <1>24, <1>25, <1>26, <1>27, <1>28, <1>29, <1>30, <1>31
     DEF Next, Acquire, Inner, SetCooldown, Stream, Release, Terminated

(* It holds before the first call. *)
LEMMA SlotInit == Init => SlotInv
<1> SUFFICES ASSUME Init PROVE SlotInv
  OBVIOUS
<1>1. TypeOK
  BY BoundedAssumption DEF Init, TypeOK, Locations, Results
<1>2. LocationsOK
  BY DEF Init, LocationsOK, LocationOK
<1>3. Holders = {} /\ Executing = {} /\ Waiting = {} /\ Selecting = {}
  BY DEF Init, Holders, Executing, Waiting, Selecting, At, SlotLocations,
         ActiveLocations, WaitLocations
<1>4. Bounds
  BY <1>3, FS_EmptySet, BoundedAssumption
     DEF Init, Bounds, SlotAccounting, Limited, Queued
<1> QED
  BY <1>1, <1>2, <1>4 DEF SlotInv, LocationsOK, Bounds

(* The counters of the wrapper tell the truth in every reachable state and *)
(* the semaphore is never over-full: SlotInv is inductive.                 *)
THEOREM SlotsCorrect == Spec => []SlotInv
<1>1. SlotInv /\ [Next]_vars => SlotInv'
  <2> SUFFICES ASSUME SlotInv, [Next]_vars PROVE SlotInv'
    OBVIOUS
  <2>1. TypeOK'
    BY TypeStep DEF SlotInv
  <2>2. LocationsOK'
    BY LocationStep DEF SlotInv, LocationsOK
  <2>3. Bounds'
    BY <2>1, BoundsStep
  <2> QED
    BY <2>1, <2>2, <2>3 DEF SlotInv, LocationsOK, Bounds
<1> QED
  BY <1>1, SlotInit, PTL DEF Spec

(* A live call upstream holds a slot. *)
LEMMA LiveHold ==
  ASSUME SlotInv PROVE UpstreamBound /\ LoadInRange
<1>1. Live \subseteq Holders
  BY DEF SlotInv, TypeOK, LocationOK, Live, Holders, At, SlotLocations, Locations
<1>2. Executing \subseteq Holders
  BY DEF Holders, Executing, At, ActiveLocations
<1>3. IsFiniteSet(Holders) /\ IsFiniteSet(Executing)
  BY FS_Subset, BoundedAssumption DEF Holders, Executing, At
<1>4. /\ Cardinality(Live) <= Cardinality(Holders)
      /\ Cardinality(Executing) <= Cardinality(Holders)
      /\ Cardinality(Executing) \in Nat /\ Cardinality(Holders) \in Nat
      /\ Cardinality(Live) \in Nat
  BY <1>1, <1>2, <1>3, FS_Subset, FS_CardinalityType
<1> QED
  BY <1>4, BoundedAssumption
     DEF SlotInv, SlotAccounting, UpstreamBound, LoadInRange, Limited

(* At most max_concurrent upstream calls are alive at once, for any number *)
(* of callers and on every path, the cancelled and timed-out ones included.*)
THEOREM UpstreamBounded == Spec => []UpstreamBound
<1>1. SlotInv => UpstreamBound
  BY LiveHold
<1> QED
  BY <1>1, SlotsCorrect, PTL

(* The load the registry sorts by stays between zero and max_concurrent,   *)
(* and the queue never holds more blocked calls than it may.               *)
THEOREM LoadBounded == Spec => []LoadInRange
<1>1. SlotInv => LoadInRange
  BY LiveHold
<1> QED
  BY <1>1, SlotsCorrect, PTL

-----------------------------------------------------------------------------
(* The cooldown.                                                           *)

(* Every step but those of setCooldown leaves the cooldown alone and moves  *)
(* a call between locations outside setCooldown.                           *)
Quiet(r) ==
  /\ pc[r] \notin {"load", "cas"}
  /\ \E l \in Locations \ {"load", "cas"} : Goto(r, l)
  /\ UNCHANGED cooldown

(* Every step keeps the latest deadline, and what was loaded below it. *)
LEMMA CooldownStep ==
  ASSUME TypeOK, CooldownInv, [Next]_vars
  PROVE  CooldownInv' /\ coolUntil' >= coolUntil
<1> DEFINE Goal == CooldownInv' /\ coolUntil' >= coolUntil
<1>1. ASSUME NEW r \in Reqs, Quiet(r) PROVE Goal
  BY <1>1 DEF Quiet, TypeOK, CooldownInv, CooldownRecorded, Goto, cooldown
<1>2. ASSUME NEW r \in Reqs, Unsupported(r) \/ ShortCircuit(r) \/ Enter(r)
      PROVE  Quiet(r)
  BY <1>2 DEF Quiet, Unsupported, ShortCircuit, Enter, Callable, Finish, Locations
<1>3. ASSUME NEW r \in Reqs, Acquire(r) PROVE Quiet(r)
  BY <1>3 DEF Quiet, Locations, Finish, Acquire, AcquireUnlimited, JoinQueue, QueueFull, TakeSlot, Activate, LeaveQueue, GiveUp, AbortQueue, CallInner
<1>4. ASSUME NEW r \in Reqs, Stream(r) PROVE Quiet(r)
  BY <1>4 DEF Quiet, Locations, Finish, Stream, FirstToken, ClosedBeforeFirstToken, FirstTokenTimeout, GoneBeforeFirstToken, ReceiveChunk, InnerClosed, SendChunk, ForwarderCancelled, NextChunk
<1>5. ASSUME NEW r \in Reqs, Release(r) PROVE Quiet(r)
  BY <1>5 DEF Quiet, Locations, Finish, Release, CancelInner, Deactivate, FreeSlot, CloseOut, AfterRelease
<1>6. ASSUME NEW r \in Reqs, InnerOk(r) \/ InnerError(r) \/ StreamOpened(r)
      PROVE  Quiet(r)
  BY <1>6 DEF Quiet, Locations, Finish, InnerOk, InnerError, StreamOpened, Unwind
<1> USE BoundedAssumption
        DEF TypeOK, CooldownInv, CooldownRecorded, Goto, Finish, counters, cooldown
<1>7. ASSUME NEW r \in Reqs, InnerRateLimited(r) PROVE Goal
  BY <1>7 DEF InnerRateLimited
<1>8. ASSUME NEW r \in Reqs, LoadCooldown(r) PROVE Goal
  BY <1>8 DEF LoadCooldown, Unwind
<1>9. ASSUME NEW r \in Reqs, CompareAndSwap(r) PROVE Goal
  <2>1. Unwind(r) \in {"cancel", "release"}
    BY DEF Unwind
  <2>2. CASE coolUntil = seen[r] /\ coolUntil' = deadline[r] /\ Goto(r, Unwind(r))
    BY <1>9, <2>1, <2>2 DEF CompareAndSwap
  <2>3. CASE Goto(r, "load") /\ UNCHANGED coolUntil
    BY <1>9, <2>3 DEF CompareAndSwap
  <2> QED
    BY <1>9, <2>2, <2>3 DEF CompareAndSwap
<1>10. ASSUME NEW r \in Reqs, Receive(r) \/ CancelCtx(r) PROVE Goal
  BY <1>10 DEF Receive, CancelCtx
<1>11. CASE Tick \/ UNCHANGED vars
  BY <1>11 DEF Tick, vars
<1> HIDE DEF Goal
<1> QED
  BY <1>1, <1>2, <1>3, <1>4, <1>5, <1>6, <1>7, <1>8, <1>9, <1>10, <1>11
     DEF Next, Inner, SetCooldown, Terminated, Goal

(* No rate limit is lost to a race of setCooldown with itself.             *)
THEOREM CooldownKept == Spec => []CooldownInv
<1>1. Init => CooldownInv
  BY DEF Init, CooldownInv, CooldownRecorded
<1>2. TypeOK /\ CooldownInv /\ [Next]_vars => CooldownInv'
  BY CooldownStep
<1> QED
  BY <1>1, <1>2, TypeCorrect, PTL DEF Spec

(* No step shortens a cooldown.                                            *)
THEOREM CooldownOnlyExtended == Spec => CooldownMonotone
<1>1. TypeOK /\ CooldownInv /\ [Next]_vars => [coolUntil' >= coolUntil]_coolUntil
  BY CooldownStep
<1> QED
  BY <1>1, TypeCorrect, CooldownKept, PTL DEF Spec, CooldownMonotone

-----------------------------------------------------------------------------
(* Refinement.                                                             *)

(* A step that moves call r changes the abstract phase of r alone. *)
LEMMA PhaseMove ==
  ASSUME TypeOK, NEW r \in Reqs, NEW l, Goto(r, l),
         \A q \in Reqs \ {r} : upstream'[q] = upstream[q]
  PROVE  phase' = [phase EXCEPT ![r] = PhaseOf(upstream'[r], l)]
<1>1. pc'[r] = l /\ \A q \in Reqs \ {r} : pc'[q] = pc[q]
  BY DEF TypeOK, Goto
<1> QED
  BY <1>1 DEF phase

(* The instance carries its own copy of the library's Cardinality. *)
LEMMA SameCardinality == \A S : Limit!Cardinality(S) = Cardinality(S)
  BY DEF Limit!Cardinality, Limit!IsFiniteSet, Cardinality, IsFiniteSet

(* There is room for one more running call whenever a slot holder that is  *)
(* not running yet calls the upstream.                                     *)
LEMMA RoomToRun ==
  ASSUME SlotInv, NEW r \in Reqs, r \in Holders, upstream[r] = "none"
  PROVE  MaxConcurrent > 0 => Cardinality(Limit!Running) < MaxConcurrent
<1> SUFFICES ASSUME Limited PROVE Cardinality(Limit!Running) < MaxConcurrent
  BY DEF Limited
<1>1. Limit!Running \subseteq Holders \ {r}
  BY DEF SlotInv, TypeOK, LocationOK, Limit!Running, phase, PhaseOf, Holders, At,
         SlotLocations, Locations
<1>2. IsFiniteSet(Holders)
  BY FS_Subset, BoundedAssumption DEF Holders, At
<1>3. Cardinality(Holders \ {r}) = Cardinality(Holders) - 1 /\ IsFiniteSet(Holders \ {r})
  BY <1>2, FS_RemoveElement
<1>4. Cardinality(Limit!Running) <= Cardinality(Holders) - 1
  BY <1>1, <1>3, FS_Subset
<1>5. Cardinality(Limit!Running) \in Nat /\ Cardinality(Holders) \in Nat
  BY <1>1, <1>2, <1>3, FS_Subset, FS_CardinalityType
<1> QED
  BY <1>4, <1>5, BoundedAssumption DEF SlotInv, SlotAccounting

(* Each kind of step of a call is a step of the abstract specification or  *)
(* leaves its variables alone.                                             *)
LEMMA RefinementStep ==
  ASSUME SlotInv, TypeOK', CooldownInv, CooldownInv', [Next]_vars
  PROVE  [Limit!Next]_(Limit!limitVars)
<1> DEFINE Goal == [Limit!Next]_(Limit!limitVars)
<1>0. TypeOK
  BY DEF SlotInv
<1>a. ASSUME NEW r \in Reqs
      PROVE  /\ LocationOK(r) /\ r \in DOMAIN phase
             /\ phase[r] = PhaseOf(upstream[r], pc[r])
  BY DEF SlotInv, phase
<1>b. ASSUME NEW r \in Reqs, NEW l, Goto(r, l), UNCHANGED <<upstream, coolUntil>>,
             phase[r] = PhaseOf(upstream[r], l)
      PROVE  Goal
  <2>1. phase' = [phase EXCEPT ![r] = phase[r]]
    BY <1>0, <1>b, PhaseMove
  <2>2. phase' = phase
    BY <2>1 DEF phase
  <2> QED
    BY <1>b, <2>2 DEF Limit!limitVars
<1>c. ASSUME NEW r \in Reqs, NEW l, Goto(r, l), UNCHANGED coolUntil, NEW u,
             upstream' = [upstream EXCEPT ![r] = u]
      PROVE  phase' = [phase EXCEPT ![r] = PhaseOf(u, l)] /\ UNCHANGED coolUntil
  <2>1. upstream'[r] = u /\ \A q \in Reqs \ {r} : upstream'[q] = upstream[q]
    BY <1>0, <1>c DEF TypeOK
  <2> QED
    BY <1>0, <1>c, <2>1, PhaseMove
<1>d. ASSUME NEW r \in Reqs, NEW l, Goto(r, l), UNCHANGED <<upstream, coolUntil>>
      PROVE  phase' = [phase EXCEPT ![r] = PhaseOf(upstream[r], l)] /\ UNCHANGED coolUntil
  BY <1>0, <1>d, PhaseMove
<1> USE DEF PhaseOf, LocationOK, Finish, cooldown
<1>1. ASSUME NEW r \in Reqs, Unsupported(r) \/ ShortCircuit(r) \/ GiveUp(r)
      PROVE  Goal
  <2>1. \E l \in {"done", "abort"} : Goto(r, l)
    BY <1>1 DEF Unsupported, ShortCircuit, GiveUp
  <2>2. /\ phase' = [phase EXCEPT ![r] = "refused"] /\ UNCHANGED coolUntil
        /\ phase[r] \in {"new", "waiting"}
    BY <1>1, <1>a, <1>d, <2>1 DEF Unsupported, ShortCircuit, GiveUp, Callable
  <2> QED
    BY <2>2 DEF Limit!Next, Limit!Refuse, Limit!Move
<1>2. ASSUME NEW r \in Reqs, Enter(r) PROVE Goal
  <2>1. /\ phase' = [phase EXCEPT ![r] = "waiting"] /\ UNCHANGED coolUntil
        /\ phase[r] = "new"
    BY <1>2, <1>a, <1>d DEF Enter, Callable
  <2> QED
    BY <2>1 DEF Limit!Next, Limit!Wait, Limit!Move
<1>3. ASSUME NEW r \in Reqs, AcquireUnlimited(r) \/ Activate(r) \/ LeaveQueue(r),
             CallInner(r)
      PROVE  Goal
  <2>1. /\ phase' = [phase EXCEPT ![r] = "running"] /\ UNCHANGED coolUntil
        /\ phase[r] = "waiting" /\ upstream[r] = "none"
    BY <1>3, <1>a, <1>c DEF AcquireUnlimited, Activate, LeaveQueue, CallInner
  <2>2. MaxConcurrent > 0 => r \in Holders
    BY <1>3 DEF AcquireUnlimited, Activate, LeaveQueue, Limited, Holders, At, SlotLocations
  <2>3. MaxConcurrent > 0 => Cardinality(Limit!Running) < MaxConcurrent
    BY <2>1, <2>2, RoomToRun
  <2> QED
    <3>1. Limit!Run(r)
      BY <2>1, <2>3, SameCardinality DEF Limit!Run, Limit!Move
    <3> QED
      BY <3>1 DEF Limit!Next
<1>4. ASSUME NEW r \in Reqs, Activate(r), ~CallInner(r) PROVE Goal
  BY <1>4, <1>a, <1>b DEF Activate
<1>5. ASSUME NEW r \in Reqs, JoinQueue(r) PROVE Goal
  <2>1. CASE Goto(r, "select")
    BY <1>5, <1>a, <1>b, <2>1 DEF JoinQueue
  <2>2. CASE Goto(r, "reject")
    <3>1. /\ phase' = [phase EXCEPT ![r] = "refused"] /\ UNCHANGED coolUntil
          /\ phase[r] = "waiting"
      BY <1>5, <1>a, <1>d, <2>2 DEF JoinQueue
    <3> QED
      BY <3>1 DEF Limit!Next, Limit!Refuse, Limit!Move
  <2> QED
    BY <1>5, <2>1, <2>2 DEF JoinQueue
<1>6. ASSUME NEW r \in Reqs, QueueFull(r) \/ TakeSlot(r) \/ AbortQueue(r)
      PROVE  Goal
  BY <1>6, <1>a, <1>b DEF QueueFull, TakeSlot, AbortQueue
<1>7. ASSUME NEW r \in Reqs, NEW l, Goto(r, l), phase[r] = "running",
             upstream' = [upstream EXCEPT ![r] = "ended"]
               \/ upstream' = [upstream EXCEPT ![r] = "cancelled"],
             UNCHANGED coolUntil
      PROVE  Goal
  <2>1. phase' = [phase EXCEPT ![r] = "ended"] /\ UNCHANGED coolUntil
    BY <1>7, <1>c
  <2> QED
    BY <1>7, <2>1 DEF Limit!Next, Limit!End, Limit!Move
<1>8. ASSUME NEW r \in Reqs,
             InnerOk(r) \/ InnerError(r) \/ InnerRateLimited(r)
               \/ ClosedBeforeFirstToken(r) \/ InnerClosed(r)
      PROVE  Goal
  BY <1>8, <1>a, <1>7
     DEF InnerOk, InnerError, InnerRateLimited, ClosedBeforeFirstToken, InnerClosed
<1>9. ASSUME NEW r \in Reqs, CancelInner(r) PROVE Goal
  <2>1. CASE upstream[r] = "live"
    BY <1>9, <1>a, <1>7, <2>1 DEF CancelInner
  <2>2. CASE upstream[r] # "live"
    <3>1. upstream' = upstream
      BY <1>0, <1>9, <2>2 DEF CancelInner, TypeOK
    <3> QED
      BY <1>9, <1>a, <1>b, <2>2, <3>1 DEF CancelInner
  <2> QED
    BY <2>1, <2>2
<1>10. ASSUME NEW r \in Reqs, CompareAndSwap(r) PROVE Goal
  <2>1. \E l \in {"load", "cancel", "release"} : Goto(r, l)
    BY <1>10 DEF CompareAndSwap, Unwind
  <2>2. phase' = phase /\ phase[r] = "ended"
    <3>1. \A q \in Reqs \ {r} : upstream'[q] = upstream[q]
      BY <1>10 DEF CompareAndSwap
    <3>2. phase' = [phase EXCEPT ![r] = "ended"] /\ phase[r] = "ended"
      BY <1>10, <1>0, <1>a, <2>1, <3>1, PhaseMove DEF CompareAndSwap
    <3> QED
      BY <3>2 DEF phase
  <2>3. coolUntil' = coolUntil \/ (coolUntil' \in Nat /\ coolUntil' > coolUntil)
    BY <1>0, <1>10 DEF CompareAndSwap, CooldownInv, TypeOK
  <2> QED
    BY <2>2, <2>3 DEF Limit!Next, Limit!CoolDown, Limit!limitVars
<1>11. ASSUME NEW r \in Reqs, StreamOpened(r) \/ LoadCooldown(r) \/ FirstToken(r)
              \/ FirstTokenTimeout(r) \/ GoneBeforeFirstToken(r)
              \/ ReceiveChunk(r) \/ SendChunk(r) \/ ForwarderCancelled(r)
      PROVE  Goal
  <2>1. \E l \in {"first", "forward", "send", "cancel", "release", "cas"} : Goto(r, l)
    BY <1>11 DEF StreamOpened, LoadCooldown, FirstToken, FirstTokenTimeout,
                 GoneBeforeFirstToken, ReceiveChunk, SendChunk, ForwarderCancelled, Unwind
  <2>2. UNCHANGED <<upstream, coolUntil>> /\ upstream[r] \in {"live", "ended"}
    BY <1>11, <1>a DEF StreamOpened, LoadCooldown, FirstToken, FirstTokenTimeout,
                       GoneBeforeFirstToken, ReceiveChunk, SendChunk, ForwarderCancelled
  <2> QED
    BY <1>a, <1>b, <2>1, <2>2
<1>12. ASSUME NEW r \in Reqs, Deactivate(r) \/ FreeSlot(r) \/ CloseOut(r)
      PROVE  Goal
  <2>1. \E l \in {"free", "close", "done"} : Goto(r, l)
    BY <1>12 DEF Deactivate, FreeSlot, CloseOut, AfterRelease
  <2>2. /\ UNCHANGED <<upstream, coolUntil>>
        /\ upstream[r] \in {"ended", "cancelled"}
    BY <1>12, <1>a DEF Deactivate, FreeSlot, CloseOut
  <2> QED
    BY <1>a, <1>b, <2>1, <2>2
<1>13. ASSUME NEW r \in Reqs, Receive(r) \/ CancelCtx(r) PROVE Goal
  BY <1>13 DEF Receive, CancelCtx, phase, Limit!limitVars
<1>14. CASE Tick \/ UNCHANGED vars
  BY <1>14 DEF Tick, vars, phase, Limit!limitVars
<1> HIDE DEF Goal
<1> QED
  <2>1. ASSUME NEW r \in Reqs, AcquireUnlimited(r) \/ LeaveQueue(r) PROVE Goal
    BY <1>3, <2>1 DEF AcquireUnlimited, LeaveQueue, CallInner
  <2>2. ASSUME NEW r \in Reqs, Activate(r) PROVE Goal
    BY <1>3, <1>4, <2>2
  <2>3. ASSUME NEW r \in Reqs, Acquire(r) PROVE Goal
    BY <1>1, <1>5, <1>6, <2>1, <2>2, <2>3 DEF Acquire
  <2>4. ASSUME NEW r \in Reqs, Inner(r) \/ SetCooldown(r) PROVE Goal
    BY <1>8, <1>10, <1>11, <2>4 DEF Inner, SetCooldown
  <2>5. ASSUME NEW r \in Reqs, Stream(r) PROVE Goal
    BY <1>8, <1>11, <2>5 DEF Stream
  <2>6. ASSUME NEW r \in Reqs, Release(r) PROVE Goal
    BY <1>9, <1>12, <2>6 DEF Release
  <2> QED
    BY <1>1, <1>2, <2>3, <2>4, <2>5, <2>6, <1>13, <1>14 DEF Next, Terminated, Goal

(* The wrapper implements the abstract limit: whatever the queue, the      *)
(* timeouts and the cancellations do, a call runs upstream at most once,   *)
(* at most max_concurrent run together, and only a call that has run       *)
(* extends the cooldown.                                                   *)
THEOREM LimitRefined == Spec => ImplementsLimit
<1>1. Init => Limit!Init
  BY DEF Init, Limit!Init, phase, PhaseOf
<1>2. SlotInv /\ TypeOK' /\ CooldownInv /\ CooldownInv' /\ [Next]_vars
        => [Limit!Next]_(Limit!limitVars)
  BY RefinementStep
<1> QED
  BY <1>1, <1>2, SlotsCorrect, TypeCorrect, CooldownKept, PTL
     DEF Spec, ImplementsLimit, Limit!Spec

-----------------------------------------------------------------------------
(* The forwarder goroutine, for streams of every length: no chunk is lost, *)
(* repeated or reordered.                                                  *)

(* Where nothing has been read yet, and where nothing is read any more.    *)
Early == {"idle", "acquire", "reject", "select", "activate", "unwait", "abort",
          "call", "load", "cas", "first"}
Late == {"cancel", "release", "free", "close", "done"}

InHand(r) == IF hand[r] = 0 THEN <<>> ELSE <<hand[r]>>

(* The chunks handed over by the upstream are with the reader, in the      *)
(* buffer or in hand; only a cancelled forwarder leaves with one in hand.  *)
ChunkOK(r) ==
  /\ (got[r] \o out[r]) \o InHand(r) = Chunks(produced[r])
  /\ pc[r] = "send" => hand[r] # 0
  /\ hand[r] # 0 => pc[r] = "send" \/ (pc[r] \in Late /\ ctxDone[r])
  /\ pc[r] \in Early => /\ produced[r] = 0 /\ hand[r] = 0
                        /\ out[r] = <<>> /\ got[r] = <<>>

ChunkInv == \A r \in Reqs : ChunkOK(r)

-----------------------------------------------------------------------------
(* Sequences.                                                              *)

(* One chunk more. *)
LEMMA ChunksNext ==
  \A n \in Nat : /\ Chunks(n) \in Seq(Nat)
                 /\ Chunks(n + 1) = Chunks(n) \o <<n + 1>>
BY DEF Chunks

(* No chunk. *)
LEMMA ChunksZero == Chunks(0) = <<>>
BY DEF Chunks

(* An empty hand adds nothing. *)
LEMMA NothingAdded == ASSUME NEW s \in Seq(Nat) PROVE s \o <<>> = s
OBVIOUS

(* The reader takes the first chunk of the buffer. *)
LEMMA HeadMoves ==
  ASSUME NEW g \in Seq(Nat), NEW o \in Seq(Nat), NEW h \in Seq(Nat), o # <<>>
  PROVE  (Append(g, Head(o)) \o Tail(o)) \o h = (g \o o) \o h
<1>1. Append(g, Head(o)) \o Tail(o) = g \o o
  OBVIOUS
<1> QED
  BY <1>1

(* The chunk in hand goes to the end of the buffer. *)
LEMMA TailMoves ==
  ASSUME NEW g \in Seq(Nat), NEW o \in Seq(Nat), NEW x \in Nat
  PROVE  (g \o Append(o, x)) \o <<>> = (g \o o) \o <<x>>
OBVIOUS

-----------------------------------------------------------------------------

(* A call that has not moved is as it was.                                 *)
LEMMA ChunkFrame ==
  ASSUME NEW q \in Reqs, ChunkOK(q),
         pc'[q] = pc[q], ctxDone'[q] = ctxDone[q], produced'[q] = produced[q],
         hand'[q] = hand[q], out'[q] = out[q], got'[q] = got[q]
  PROVE  ChunkOK(q)'
BY DEF ChunkOK, InHand

(* Neither is one that only changes its place, forwards.                   *)
LEMMA ChunkMove ==
  ASSUME TypeOK, ChunkInv, NEW r \in Reqs, NEW l, Goto(r, l), UNCHANGED <<ctxDone, stream>>,
         l \in Late \/ (pc[r] \in Early /\ l \in Early \cup {"forward"}),
         pc[r] # "send" \/ ctxDone[r]
  PROVE  ChunkInv'
<1> SUFFICES ASSUME NEW q \in Reqs PROVE ChunkOK(q)'
  BY DEF ChunkInv
<1> USE DEF stream
<1>1. ChunkOK(q)
  BY DEF ChunkInv
<1>2. CASE q # r
  <2>1. pc'[q] = pc[q]
    BY <1>2 DEF Goto, TypeOK
  <2> QED
    BY <1>1, <2>1, ChunkFrame
<1>3. CASE q = r
  <2>1. pc'[q] = l
    BY <1>3 DEF Goto, TypeOK
  <2>2. InHand(q)' = InHand(q)
    BY DEF InHand
  <2>5. l # "send"
    BY DEF Early, Late
  <2>3. l \in Early => pc[q] \in Early
    BY <1>3 DEF Early, Late
  <2>4. hand[q] # 0 => l \in Late /\ ctxDone[q]
    BY <1>1, <1>3 DEF ChunkOK, Early, Late
  <2> QED
    BY <1>1, <2>1, <2>2, <2>3, <2>4, <2>5 DEF ChunkOK
<1> QED
  BY <1>2, <1>3

(* Every step keeps every chunk: one case for each that moves one, the others
   by ChunkFrame and ChunkMove. *)
LEMMA ChunkStep ==
  ASSUME TypeOK, ChunkInv, [Next]_vars
  PROVE  ChunkInv'
<1> USE DEF counters, cooldown
<1>0. /\ pc \in [Reqs -> Locations] /\ hand \in [Reqs -> Nat] /\ produced \in [Reqs -> Nat]
      /\ out \in [Reqs -> Seq(Nat)] /\ got \in [Reqs -> Seq(Nat)]
  BY DEF TypeOK
<1>1. ASSUME NEW r \in Reqs,
             Unsupported(r) \/ ShortCircuit(r) \/ Enter(r) \/ Acquire(r) \/ Inner(r)
               \/ SetCooldown(r)
      PROVE  ChunkInv'
  <2>1. pc[r] \in Early /\ UNCHANGED <<ctxDone, stream>>
    BY <1>1 DEF Unsupported, ShortCircuit, Enter, Callable, Acquire, AcquireUnlimited,
         JoinQueue, QueueFull, TakeSlot, Activate, LeaveQueue, GiveUp, AbortQueue, Inner,
         InnerOk, InnerError, InnerRateLimited, StreamOpened, SetCooldown, LoadCooldown,
         CompareAndSwap, Early
  <2>2. \E l \in Late \cup Early \cup {"forward"} : Goto(r, l)
    <3>1. CASE Unsupported(r) \/ ShortCircuit(r) \/ Enter(r)
      BY <3>1 DEF Unsupported, ShortCircuit, Enter, Finish, Early, Late
    <3>2. CASE Acquire(r)
      BY <3>2 DEF Acquire, AcquireUnlimited, JoinQueue, QueueFull, TakeSlot, Activate,
           LeaveQueue, CallInner, GiveUp, AbortQueue, Finish, Early, Late
    <3>3. CASE Inner(r) \/ SetCooldown(r)
      BY <3>3 DEF Inner, InnerOk, InnerError, InnerRateLimited, StreamOpened, SetCooldown,
           LoadCooldown, CompareAndSwap, Unwind, Finish, Early, Late
    <3> QED
      BY <1>1, <3>1, <3>2, <3>3
  <2>3. pc[r] # "send"
    BY <2>1 DEF Early
  <2> QED
    BY <2>1, <2>2, <2>3, ChunkMove
<1>2. ASSUME NEW r \in Reqs,
             ClosedBeforeFirstToken(r) \/ FirstTokenTimeout(r) \/ GoneBeforeFirstToken(r)
               \/ InnerClosed(r) \/ ForwarderCancelled(r) \/ Release(r)
      PROVE  ChunkInv'
  <2>1. (pc[r] # "send" \/ ctxDone[r]) /\ UNCHANGED <<ctxDone, stream>>
    BY <1>2 DEF ClosedBeforeFirstToken, FirstTokenTimeout, GoneBeforeFirstToken, InnerClosed,
         ForwarderCancelled, Release, CancelInner, Deactivate, FreeSlot, CloseOut
  <2>2. \E l \in Late : Goto(r, l)
    BY <1>2 DEF ClosedBeforeFirstToken, FirstTokenTimeout, GoneBeforeFirstToken, InnerClosed,
         ForwarderCancelled, Release, CancelInner, Deactivate, FreeSlot, CloseOut,
         AfterRelease, Finish, Late
  <2> QED
    BY <2>1, <2>2, ChunkMove
<1>3. ASSUME NEW r \in Reqs, FirstToken(r), NEW q \in Reqs PROVE ChunkOK(q)'
  <2>1. ChunkOK(q)
    BY DEF ChunkInv
  <2>2. CASE q # r
    BY <1>0, <1>3, <2>1, <2>2, ChunkFrame DEF FirstToken, NextChunk, Finish, Goto
  <2>3. CASE q = r
    <3>1. produced[q] = 0 /\ hand[q] = 0 /\ out[q] = <<>> /\ got[q] = <<>>
      BY <1>3, <2>1, <2>3 DEF FirstToken, ChunkOK, Early
    <3>2. /\ produced'[q] = 1 /\ hand'[q] = 0 /\ out'[q] = <<1>> /\ got'[q] = <<>>
          /\ pc'[q] = "forward"
      BY <1>0, <1>3, <2>3, <3>1 DEF FirstToken, NextChunk, Finish, Goto
    <3>3. Chunks(1) = <<1>>
      BY DEF Chunks
    <3>4. (got'[q] \o out'[q]) \o <<>> = <<1>>
      BY <3>2
    <3> QED
      BY <3>2, <3>3, <3>4 DEF ChunkOK, InHand, Early
  <2> QED
    BY <2>2, <2>3
<1>4. ASSUME NEW r \in Reqs, ReceiveChunk(r), NEW q \in Reqs PROVE ChunkOK(q)'
  <2>1. ChunkOK(q)
    BY DEF ChunkInv
  <2>2. CASE q # r
    BY <1>0, <1>4, <2>1, <2>2, ChunkFrame DEF ReceiveChunk, NextChunk, Goto
  <2>3. CASE q = r
    <3>1. pc[q] = "forward" /\ hand[q] = 0
      BY <1>4, <2>1, <2>3 DEF ReceiveChunk, ChunkOK, Late
    <3>2. /\ produced'[q] = produced[q] + 1 /\ hand'[q] = produced[q] + 1
          /\ out'[q] = out[q] /\ got'[q] = got[q] /\ pc'[q] = "send"
      BY <1>0, <1>4, <2>3 DEF ReceiveChunk, NextChunk, Goto
    <3>3. produced[q] \in Nat /\ got[q] \o out[q] \in Seq(Nat)
      BY <1>0
    <3>4. (got[q] \o out[q]) \o <<>> = Chunks(produced[q])
      BY <2>1, <3>1 DEF ChunkOK, InHand
    <3>5. got[q] \o out[q] = Chunks(produced[q])
      BY <3>3, <3>4, NothingAdded
    <3>6. (got[q] \o out[q]) \o <<produced[q] + 1>> = Chunks(produced[q] + 1)
      BY <3>3, <3>5, ChunksNext
    <3>7. produced[q] + 1 # 0
      BY <3>3
    <3> QED
      BY <3>2, <3>6, <3>7 DEF ChunkOK, InHand, Early
  <2> QED
    BY <2>2, <2>3
<1>5. ASSUME NEW r \in Reqs, SendChunk(r), NEW q \in Reqs PROVE ChunkOK(q)'
  <2>1. ChunkOK(q)
    BY DEF ChunkInv
  <2>2. CASE q # r
    BY <1>0, <1>5, <2>1, <2>2, ChunkFrame DEF SendChunk, Goto
  <2>3. CASE q = r /\ hand[q] # 0
    <3>1. /\ hand'[q] = 0 /\ out'[q] = Append(out[q], hand[q]) /\ got'[q] = got[q]
          /\ produced'[q] = produced[q] /\ pc'[q] = "forward"
      BY <1>0, <1>5, <2>3 DEF SendChunk, Goto
    <3>2. (got[q] \o out[q]) \o <<hand[q]>> = Chunks(produced[q])
      BY <2>1, <2>3 DEF ChunkOK, InHand
    <3>3. (got'[q] \o out'[q]) \o <<>> = Chunks(produced'[q])
      <4>1. got[q] \in Seq(Nat) /\ out[q] \in Seq(Nat) /\ hand[q] \in Nat
        BY <1>0
      <4>2. (got[q] \o Append(out[q], hand[q])) \o <<>> = (got[q] \o out[q]) \o <<hand[q]>>
        BY <4>1, TailMoves
      <4> QED
        BY <3>1, <3>2, <4>2
    <3> QED
      BY <3>1, <3>3 DEF ChunkOK, InHand, Early
  <2>4. CASE q = r /\ hand[q] = 0
    BY <1>5, <2>1, <2>4 DEF SendChunk, ChunkOK
  <2> QED
    BY <2>2, <2>3, <2>4
<1>6. ASSUME NEW r \in Reqs, Receive(r), NEW q \in Reqs PROVE ChunkOK(q)'
  <2>1. ChunkOK(q)
    BY DEF ChunkInv
  <2>2. CASE q # r
    BY <1>0, <1>6, <2>1, <2>2, ChunkFrame DEF Receive
  <2>3. CASE q = r
    <3>1. /\ out[q] # <<>> /\ got'[q] = Append(got[q], Head(out[q])) /\ out'[q] = Tail(out[q])
          /\ UNCHANGED <<pc, ctxDone, produced, hand>>
      BY <1>0, <1>6, <2>3 DEF Receive
    <3>2. pc[q] \notin Early
      BY <2>1, <3>1 DEF ChunkOK
    <3>3. InHand(q)' = InHand(q) /\ InHand(q) \in Seq(Nat)
      BY <1>0, <3>1 DEF InHand
    <3>4. (got'[q] \o out'[q]) \o InHand(q) = (got[q] \o out[q]) \o InHand(q)
      <4>1. got[q] \in Seq(Nat) /\ out[q] \in Seq(Nat)
        BY <1>0
      <4>2. (Append(got[q], Head(out[q])) \o Tail(out[q])) \o InHand(q)
              = (got[q] \o out[q]) \o InHand(q)
        BY <3>1, <3>3, <4>1, HeadMoves
      <4> QED
        BY <3>1, <4>2
    <3> QED
      BY <2>1, <3>1, <3>2, <3>3, <3>4 DEF ChunkOK
  <2> QED
    BY <2>2, <2>3
<1>7. ASSUME NEW r \in Reqs, CancelCtx(r), NEW q \in Reqs PROVE ChunkOK(q)'
  <2>1. ChunkOK(q) /\ (ctxDone[q] => ctxDone'[q])
    BY <1>7 DEF ChunkInv, CancelCtx, TypeOK
  <2>2. UNCHANGED <<pc, produced, hand, out, got>>
    BY <1>7 DEF CancelCtx, stream
  <2> QED
    BY <2>1, <2>2 DEF ChunkOK, InHand
<1>8. ASSUME Tick \/ UNCHANGED vars, NEW q \in Reqs PROVE ChunkOK(q)'
  <2>1. ChunkOK(q) /\ UNCHANGED <<pc, ctxDone, produced, hand, out, got>>
    BY <1>8 DEF ChunkInv, Tick, vars, stream
  <2> QED
    BY <2>1, ChunkFrame
<1> QED
  <2>1. ASSUME NEW r \in Reqs,
               FirstToken(r) \/ ReceiveChunk(r) \/ SendChunk(r) \/ Receive(r) \/ CancelCtx(r)
        PROVE  ChunkInv'
    BY <1>3, <1>4, <1>5, <1>6, <1>7, <2>1 DEF ChunkInv
  <2>2. CASE Tick \/ UNCHANGED vars
    BY <1>8, <2>2 DEF ChunkInv
  <2> QED
    BY <1>1, <1>2, <2>1, <2>2 DEF Next, Stream, Terminated

(* Every chunk is with the reader, in the buffer or in the forwarder's     *)
(* hand, at every step of every call.                                      *)
THEOREM ChunksKept == Spec => []ChunkInv
<1>1. Init => ChunkInv
  <2>1. (<<>> \o <<>>) \o <<>> = <<>>
    OBVIOUS
  <2> QED
    BY <2>1, ChunksZero DEF Init, ChunkInv, ChunkOK, InHand
<1>2. TypeOK /\ ChunkInv /\ [Next]_vars => ChunkInv'
  BY ChunkStep
<1> QED
  BY <1>1, <1>2, TypeCorrect, PTL DEF Spec

(* The forwarder of ChatStream hands on every chunk of a stream of any     *)
(* length once and in order, wherever the caller's context is cancelled    *)
(* and however late the reader reads.                                      *)
THEOREM NoChunkLostEver == Spec => []NoChunkLost
<1>1. TypeOK /\ ChunkInv => NoChunkLost
  <2> SUFFICES ASSUME TypeOK, ChunkInv, NEW r \in Reqs
               PROVE  /\ (got[r] \o out[r]) \o InHand(r) = Chunks(produced[r])
                      /\ pc[r] = "done" /\ result[r] = "stream" /\ ~ctxDone[r]
                           => got[r] \o out[r] = Chunks(produced[r])
    BY DEF NoChunkLost, InHand
  <2>1. ChunkOK(r) /\ got[r] \o out[r] \in Seq(Nat)
    BY DEF ChunkInv, TypeOK
  <2>2. hand[r] = 0 => got[r] \o out[r] = Chunks(produced[r])
    <3>1. hand[r] = 0 => (got[r] \o out[r]) \o <<>> = Chunks(produced[r])
      BY <2>1 DEF ChunkOK, InHand
    <3> QED
      BY <2>1, <3>1, NothingAdded
  <2> QED
    BY <2>1, <2>2 DEF ChunkOK
<1> QED
  BY <1>1, TypeCorrect, ChunksKept, PTL

(* The three counters of the wrapper agree with the calls they count, for  *)
(* any number of calls, any limit and any queue.                           *)
THEOREM SlotsAccounted == Spec => []SlotAccounting
BY SlotsCorrect, PTL DEF SlotInv

(* No compare-and-swap loses a rate limit.                                 *)
THEOREM CooldownsRecorded == Spec => []CooldownRecorded
BY CooldownKept, PTL DEF CooldownInv
=============================================================================
