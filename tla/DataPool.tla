------------------------------- MODULE DataPool -------------------------------
(***************************************************************************)
(* The thread-local pools of reusable objects (struct DataPool) from which *)
(* the profiler takes its TaskData and ParallelData.  Thread t takes       *)
(* objects from pool t only, but an object goes back to the pool that      *)
(* allocated it from whichever thread ends the task: through the mutex and *)
(* RemoteDataPointer when that is another thread's pool.  The owner looks  *)
(* at the atomic counter remote before it takes the mutex.                 *)
(*                                                                         *)
(* An action is the code between two accesses to shared data.              *)
(***************************************************************************)
EXTENDS Integers, Sequences, FiniteSets

CONSTANTS Thread,  \* every thread has one pool
          None,    \* no thread
          ndatas,  \* objects in a page
          MaxLive  \* bound: objects in use or on their way at a time

(* An object does not fill a page (pagesize / paddedSize > 0).             *)
ASSUME DataPoolAssumption ==
  /\ None \notin Thread /\ IsFiniteSet(Thread)
  /\ ndatas \in Nat \ {0}
  /\ MaxLive \in Nat

VARIABLES
  DataPointer,        \* per pool: objects the owner may take at once
  RemoteDataPointer,  \* per pool: objects returned by other threads
  remote,             \* per pool: the atomic count of the latter
  total,              \* per pool: objects allocated
  DPMutex,            \* per pool: the thread that holds the mutex, or None
  owner,              \* per object the pool that allocated it: objects are
                      \* numbered in the order of their allocation
  inUse,              \* objects handed out and not given back
  pc,                 \* per thread: where it is in getData or Delete
  arg                 \* per thread: the object it gives back, or 0

vars == <<DataPointer, RemoteDataPointer, remote, total, DPMutex, owner, inUse, pc, arg>>

Init ==
  /\ DataPointer = [t \in Thread |-> <<>>]
  /\ RemoteDataPointer = [t \in Thread |-> <<>>]
  /\ remote = [t \in Thread |-> 0]
  /\ total = [t \in Thread |-> 0]
  /\ DPMutex = [t \in Thread |-> None]
  /\ owner = <<>>
  /\ inUse = {}
  /\ pc = [t \in Thread |-> "idle"]
  /\ arg = [t \in Thread |-> 0]

Obj == 1..Len(owner)

GoTo(t, label) == pc' = [pc EXCEPT ![t] = label]

(* std::lock_guard on the mutex of pool p.                                 *)
Lock(t, p) == DPMutex[p] = None /\ DPMutex' = [DPMutex EXCEPT ![p] = t]

Unlock(p) == DPMutex' = [DPMutex EXCEPT ![p] = None]

-----------------------------------------------------------------------------
(* getData *)

(* Nothing of the pool is shared yet: only the owner uses DataPointer.      *)
GetData(t) ==
  /\ pc[t] = "idle"
  /\ Cardinality(inUse) + Cardinality({u \in Thread : pc[u] # "idle"}) < MaxLive
  /\ GoTo(t, IF DataPointer[t] = <<>> THEN "newDatas" ELSE "pop")
  /\ UNCHANGED <<DataPointer, RemoteDataPointer, remote, total, DPMutex, owner, inUse, arg>>

(* Mutants: the comparison is off by one; the owner waits for returns.      *)
NewDatasOffByOne(t) ==
  /\ pc[t] = "newDatas"
  /\ GoTo(t, IF remote[t] >= 0 THEN "lockSwap" ELSE "allocate")
  /\ UNCHANGED <<DataPointer, RemoteDataPointer, remote, total, DPMutex, owner, inUse, arg>>

NewDatasWaiting(t) ==
  /\ pc[t] = "newDatas"
  /\ remote[t] > 0 \/ total[t] = 0
  /\ GoTo(t, IF remote[t] > 0 THEN "lockSwap" ELSE "allocate")
  /\ UNCHANGED <<DataPointer, RemoteDataPointer, remote, total, DPMutex, owner, inUse, arg>>

(* The counter is read without the mutex.                                  *)
NewDatas(t) ==
  /\ pc[t] = "newDatas"
  /\ GoTo(t, IF remote[t] > 0 THEN "lockSwap" ELSE "allocate")
  /\ UNCHANGED <<DataPointer, RemoteDataPointer, remote, total, DPMutex, owner, inUse, arg>>

LockSwap(t) ==
  /\ pc[t] = "lockSwap"
  /\ Lock(t, t)
  /\ GoTo(t, "swap")
  /\ UNCHANGED <<DataPointer, RemoteDataPointer, remote, total, owner, inUse, arg>>

(* Mutant: the vector is copied, not swapped.                              *)
SwapCopy(t) ==
  /\ pc[t] = "swap"
  /\ DataPointer' = [DataPointer EXCEPT ![t] = RemoteDataPointer[t]]
  /\ GoTo(t, "clear")
  /\ UNCHANGED <<RemoteDataPointer, remote, total, DPMutex, owner, inUse, arg>>

Swap(t) ==
  /\ pc[t] = "swap"
  /\ DataPointer' = [DataPointer EXCEPT ![t] = RemoteDataPointer[t]]
  /\ RemoteDataPointer' = [RemoteDataPointer EXCEPT ![t] = DataPointer[t]]
  /\ GoTo(t, "clear")
  /\ UNCHANGED <<remote, total, DPMutex, owner, inUse, arg>>

(* Mutant: remote keeps its value.                                         *)
ClearForgotten(t) ==
  /\ pc[t] = "clear"
  /\ GoTo(t, "unlockSwap")
  /\ UNCHANGED <<DataPointer, RemoteDataPointer, remote, total, DPMutex, owner, inUse, arg>>

Clear(t) ==
  /\ pc[t] = "clear"
  /\ remote' = [remote EXCEPT ![t] = 0]
  /\ GoTo(t, "unlockSwap")
  /\ UNCHANGED <<DataPointer, RemoteDataPointer, total, DPMutex, owner, inUse, arg>>

UnlockSwap(t) ==
  /\ pc[t] = "unlockSwap"
  /\ Unlock(t)
  /\ GoTo(t, "pop")
  /\ UNCHANGED <<DataPointer, RemoteDataPointer, remote, total, owner, inUse, arg>>

(* Mutant: the page is not added to total.                                 *)
AllocateUncounted(t) ==
  /\ pc[t] = "allocate"
  /\ DataPointer' = [DataPointer EXCEPT ![t] =
                       @ \o [i \in 1..ndatas |-> Len(owner) + i]]
  /\ owner' = owner \o [i \in 1..ndatas |-> t]
  /\ GoTo(t, "pop")
  /\ UNCHANGED <<RemoteDataPointer, remote, total, DPMutex, inUse, arg>>

(* A page of new objects, which know the pool as their owner.              *)
Allocate(t) ==
  /\ pc[t] = "allocate"
  /\ DataPointer' = [DataPointer EXCEPT ![t] =
                       @ \o [i \in 1..ndatas |-> Len(owner) + i]]
  /\ owner' = owner \o [i \in 1..ndatas |-> t]
  /\ total' = [total EXCEPT ![t] = @ + ndatas]
  /\ GoTo(t, "pop")
  /\ UNCHANGED <<RemoteDataPointer, remote, DPMutex, inUse, arg>>

(* back and pop_back: undefined on an empty vector.                        *)
Pop(t) ==
  LET s == DataPointer[t] IN
  /\ pc[t] = "pop"
  /\ s # <<>>
  /\ DataPointer' = [DataPointer EXCEPT ![t] = SubSeq(s, 1, Len(s) - 1)]
  /\ inUse' = inUse \cup {s[Len(s)]}
  /\ GoTo(t, "idle")
  /\ UNCHANGED <<RemoteDataPointer, remote, total, DPMutex, owner, arg>>

-----------------------------------------------------------------------------
(* PoolData::Delete of an object x that is in use *)

(* returnOwnData: the pool is the calling thread's own.                    *)
ReturnOwn(t, x) ==
  /\ pc[t] = "idle" /\ x \in inUse /\ owner[x] = t
  /\ DataPointer' = [DataPointer EXCEPT ![t] = Append(@, x)]
  /\ inUse' = inUse \ {x}
  /\ UNCHANGED <<RemoteDataPointer, remote, total, DPMutex, owner, pc, arg>>

(* returnData *)
ReturnRemote(t, x) ==
  /\ pc[t] = "idle" /\ x \in inUse /\ owner[x] # t
  /\ arg' = [arg EXCEPT ![t] = x]
  /\ inUse' = inUse \ {x}
  /\ GoTo(t, "lockReturn")
  /\ UNCHANGED <<DataPointer, RemoteDataPointer, remote, total, DPMutex, owner>>

LockReturn(t) ==
  /\ pc[t] = "lockReturn"
  /\ Lock(t, owner[arg[t]])
  /\ GoTo(t, "emplace")
  /\ UNCHANGED <<DataPointer, RemoteDataPointer, remote, total, owner, inUse, arg>>

Emplace(t) ==
  LET p == owner[arg[t]] IN
  /\ pc[t] = "emplace"
  /\ RemoteDataPointer' = [RemoteDataPointer EXCEPT ![p] = Append(@, arg[t])]
  /\ GoTo(t, "count")
  /\ UNCHANGED <<DataPointer, remote, total, DPMutex, owner, inUse, arg>>

(* Mutants: the count goes down, or is forgotten.                          *)
CountRemoteDown(t) ==
  LET p == owner[arg[t]] IN
  /\ pc[t] = "count"
  /\ remote' = [remote EXCEPT ![p] = @ - 1]
  /\ GoTo(t, "unlockReturn")
  /\ UNCHANGED <<DataPointer, RemoteDataPointer, total, DPMutex, owner, inUse, arg>>

CountRemoteForgotten(t) ==
  /\ pc[t] = "count"
  /\ GoTo(t, "unlockReturn")
  /\ UNCHANGED <<DataPointer, RemoteDataPointer, remote, total, DPMutex, owner, inUse, arg>>

CountRemote(t) ==
  LET p == owner[arg[t]] IN
  /\ pc[t] = "count"
  /\ remote' = [remote EXCEPT ![p] = @ + 1]
  /\ GoTo(t, "unlockReturn")
  /\ UNCHANGED <<DataPointer, RemoteDataPointer, total, DPMutex, owner, inUse, arg>>

UnlockReturn(t) ==
  /\ pc[t] = "unlockReturn"
  /\ Unlock(owner[arg[t]])
  /\ arg' = [arg EXCEPT ![t] = 0]
  /\ GoTo(t, "idle")
  /\ UNCHANGED <<DataPointer, RemoteDataPointer, remote, total, owner, inUse>>

-----------------------------------------------------------------------------
(* The rest of a call that has begun.                                      *)
Step(t) ==
  \/ NewDatas(t)
  \/ LockSwap(t)
  \/ Swap(t)
  \/ Clear(t)
  \/ UnlockSwap(t)
  \/ Allocate(t)
  \/ Pop(t)
  \/ LockReturn(t)
  \/ Emplace(t)
  \/ CountRemote(t)
  \/ UnlockReturn(t)

Next ==
  \E t \in Thread :
    \/ GetData(t)
    \/ Step(t)
    \/ \E x \in Obj : ReturnOwn(t, x) \/ ReturnRemote(t, x)

(* A callback in progress continues; nobody must call the next one.        *)
Spec == Init /\ [][Next]_vars /\ \A t \in Thread : WF_vars(Step(t))
-----------------------------------------------------------------------------
(* Properties *)

Label == {"idle", "newDatas", "lockSwap", "swap", "clear", "unlockSwap",
          "allocate", "pop", "lockReturn", "emplace", "count", "unlockReturn"}

(* The variables of the pools keep their types.                            *)
TypeOK ==
  /\ DataPointer \in [Thread -> Seq(Nat)]
  /\ RemoteDataPointer \in [Thread -> Seq(Nat)]
  /\ remote \in [Thread -> Nat]
  /\ total \in [Thread -> Nat]
  /\ DPMutex \in [Thread -> Thread \cup {None}]
  /\ owner \in Seq(Thread)
  /\ inUse \subseteq Obj
  /\ pc \in [Thread -> Label]
  /\ arg \in [Thread -> Obj \cup {0}]

(* Thread u has an object it is about to put into RemoteDataPointer.       *)
Carrying(u) == pc[u] \in {"lockReturn", "emplace"}

(* Vector s of pool p holds objects of p that nobody uses, each once.       *)
VectorOf(s, p) ==
  \A i \in 1..Len(s) :
    /\ s[i] \in Obj /\ owner[s[i]] = p /\ s[i] \notin inUse
    /\ \A j \in 1..Len(s) : s[i] = s[j] => i = j

NotIn(x, s) == \A i \in 1..Len(s) : s[i] # x

(* An object is in one place only: no vector holds it twice, nor do two    *)
(* vectors, and an object that is handed out is in neither vector of its   *)
(* pool.  So getData never hands out an object that is in use, whichever    *)
(* threads return objects while the owner swaps the vectors.               *)
OnePlace ==
  /\ \A p \in Thread :
       /\ VectorOf(DataPointer[p], p)
       /\ VectorOf(RemoteDataPointer[p], p)
       /\ \A i \in 1..Len(DataPointer[p]) : NotIn(DataPointer[p][i], RemoteDataPointer[p])
  /\ \A u \in Thread : Carrying(u) =>
       /\ arg[u] \in Obj /\ arg[u] \notin inUse
       /\ \A p \in Thread : NotIn(arg[u], DataPointer[p]) /\ NotIn(arg[u], RemoteDataPointer[p])
       /\ \A v \in Thread : Carrying(v) /\ arg[v] = arg[u] => v = u

(* back and pop_back find an object: a positive count read without the     *)
(* mutex still means a non-empty vector when the mutex is held.            *)
PopHasData == \A t \in Thread : pc[t] = "pop" => DataPointer[t] # <<>>

(* Whoever may read remote next reads the size of RemoteDataPointer unless  *)
(* a return or the swap is in progress.                                    *)
RemoteCounts ==
  \A p \in Thread : DPMutex[p] = None => remote[p] = Len(RemoteDataPointer[p])

Carried(x) == \E u \in Thread : Carrying(u) /\ arg[u] = x

(* The objects of pool p that are in neither vector.                       *)
Missing(p) == {x \in Obj : owner[x] = p /\ (x \in inUse \/ Carried(x))}

(* Nothing is lost: what getMissing() computes, the allocated objects that *)
(* are in neither vector, are those in use and those on their way back.    *)
MissingAreInUse ==
  \A p \in Thread :
    total[p] - Len(DataPointer[p]) - Len(RemoteDataPointer[p]) = Cardinality(Missing(p))

(* Returned objects are used again: a pool allocates a page only when all   *)
(* of its objects were out, so it never grows beyond the demand and a page. *)
PoolBounded == \A p \in Thread : total[p] < MaxLive + ndatas

(* getData returns, under weak fairness only: while it waits for the mutex  *)
(* its pool hands out nothing, so the other threads run out of objects to   *)
(* return to it.                                                           *)
GetDataReturns == \A t \in Thread : pc[t] = "newDatas" ~> pc[t] = "idle"

(* The inductive invariant.  Thread u is inside the critical section of p.  *)
Inside(u, p) ==
  \/ pc[u] \in {"emplace", "count", "unlockReturn"} /\ owner[arg[u]] = p
  \/ pc[u] \in {"swap", "clear", "unlockSwap"} /\ u = p

MutexHeld == \A u, p \in Thread : Inside(u, p) => DPMutex[p] = u

ArgIsObj ==
  \A u \in Thread :
    pc[u] \in {"lockReturn", "emplace", "count", "unlockReturn"} => arg[u] \in Obj

(* The object that is in RemoteDataPointer and not counted yet.            *)
Uncounted(p) == \E u \in Thread : pc[u] = "count" /\ owner[arg[u]] = p

CountOK ==
  \A p \in Thread :
    /\ pc[p] = "clear" => RemoteDataPointer[p] = <<>>
    /\ Uncounted(p) => Len(RemoteDataPointer[p]) = remote[p] + 1
    /\ pc[p] # "clear" /\ ~Uncounted(p) => Len(RemoteDataPointer[p]) = remote[p]

(* What getData knows at each point.                                       *)
GetDataKnows ==
  \A t \in Thread :
    /\ pc[t] \in {"newDatas", "lockSwap", "swap", "allocate"} => DataPointer[t] = <<>>
    /\ pc[t] \in {"lockSwap", "swap"} => remote[t] > 0
    /\ pc[t] \in {"clear", "unlockSwap", "pop"} => DataPointer[t] # <<>>

(* What every step of getData and Delete preserves: where the objects are  *)
PlaceInv == TypeOK /\ MutexHeld /\ ArgIsObj /\ CountOK /\ GetDataKnows /\ OnePlace

(* ... and how many there are.  A call that has begun counts as an object,  *)
Busy == {u \in Thread : pc[u] # "idle"}

Demand == Cardinality(inUse) + Cardinality(Busy) <= MaxLive

(* and a page is allocated only when the demand exceeds the pool.          *)
AllocateBelow == \A t \in Thread : pc[t] = "allocate" => total[t] < MaxLive

IInv == PlaceInv /\ MissingAreInUse /\ Demand /\ AllocateBelow /\ PoolBounded

(* A thread between the entry of getData and its return.                   *)
Getting == {"newDatas", "lockSwap", "swap", "clear", "unlockSwap", "allocate", "pop"}

Abstract == INSTANCE ObjectPool WITH calling <- {t \in Thread : pc[t] \in Getting}

(* The pools with their unlocked read, vectors and mutex do what ObjectPool *)
(* says: every object handed out belongs to the calling thread's pool and   *)
(* was not in use.                                                         *)
ImplementsObjectPool == Abstract!Spec
=============================================================================
