------------------------------ MODULE ObjectPool ------------------------------
(***************************************************************************)
(* What the profiler expects of its pools, without vectors and locks: New  *)
(* on thread t hands out an object of t's pool that nobody uses, and may   *)
(* add objects to the pool first; any thread gives an object back once.    *)
(***************************************************************************)
EXTENDS Integers, Sequences

CONSTANTS Thread, ndatas

VARIABLES owner,    \* per object its pool
          inUse,    \* objects handed out and not given back
          calling   \* threads that wait for an object

vars == <<owner, inUse, calling>>

Init == owner = <<>> /\ inUse = {} /\ calling = {}

Call(t) ==
  /\ t \notin calling
  /\ calling' = calling \cup {t}
  /\ UNCHANGED <<owner, inUse>>

Grow(t) ==
  /\ t \in calling
  /\ owner' = owner \o [i \in 1..ndatas |-> t]
  /\ UNCHANGED <<inUse, calling>>

HandOut(t, x) ==
  /\ t \in calling
  /\ owner[x] = t /\ x \notin inUse
  /\ inUse' = inUse \cup {x}
  /\ calling' = calling \ {t}
  /\ UNCHANGED owner

GiveBack(x) ==
  /\ inUse' = inUse \ {x}
  /\ UNCHANGED <<owner, calling>>

Next ==
  \/ \E t \in Thread :
       Call(t) \/ Grow(t) \/ \E x \in 1..Len(owner) : HandOut(t, x)
  \/ \E x \in inUse : GiveBack(x)

Spec == Init /\ [][Next]_vars
=============================================================================
