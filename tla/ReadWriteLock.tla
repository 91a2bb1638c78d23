---------------------------- MODULE ReadWriteLock ----------------------------
(***************************************************************************)
(* What a recursive shared mutex promises: a thread that holds the lock    *)
(* exclusively is alone.  A lock is counted as often as it is taken.       *)
(***************************************************************************)
EXTENDS Naturals

CONSTANT Thread

VARIABLES
  exclusive,     \* how often a thread holds the lock exclusively
  sharing        \* how often a thread shares it

vars == <<exclusive, sharing>>

Init ==
  /\ exclusive = [t \in Thread |-> 0]
  /\ sharing = [t \in Thread |-> 0]

Lock(t) ==
  /\ \A u \in Thread \ {t} : exclusive[u] = 0 /\ sharing[u] = 0
  /\ exclusive' = [exclusive EXCEPT ![t] = @ + 1]
  /\ UNCHANGED sharing

LockShared(t) ==
  /\ \A u \in Thread \ {t} : exclusive[u] = 0
  /\ sharing' = [sharing EXCEPT ![t] = @ + 1]
  /\ UNCHANGED exclusive

Unlock(t) ==
  /\ exclusive[t] > 0
  /\ exclusive' = [exclusive EXCEPT ![t] = @ - 1]
  /\ UNCHANGED sharing

UnlockShared(t) ==
  /\ sharing[t] > 0
  /\ sharing' = [sharing EXCEPT ![t] = @ - 1]
  /\ UNCHANGED exclusive

Next ==
  \E t \in Thread : Lock(t) \/ LockShared(t) \/ Unlock(t) \/ UnlockShared(t)

Spec == Init /\ [][Next]_vars
=============================================================================
