----------------------------- MODULE SharedMutex -----------------------------
(***************************************************************************)
(* contention_free_shared_mutex of safe_ptr.h, the lock of the global      *)
(* region maps, at the level of its atomic accesses.  A reader announces   *)
(* itself in a slot of its own and looks at want_x_lock; a writer sets     *)
(* want_x_lock and waits for every slot.  A reader without a slot shares   *)
(* the lock as the one that set want_x_lock.  All accesses are taken as    *)
(* sequentially consistent.                                                *)
(***************************************************************************)
EXTENDS Integers

CONSTANTS
  Thread,
  NoThread,
  Size,          \* contention_free_count, the number of slots
  Nesting,       \* which nested locks the program takes besides X->X and S->S
                 \* in a slot: "XS" and "SS", see MayLockShared
  MaxDepth       \* bound: locks a thread holds at once

ASSUME SharedMutexAssumption ==
  /\ NoThread \notin Thread
  /\ Size \in Nat \ {0}
  /\ Nesting \subseteq {"XS", "SS"}
  /\ MaxDepth \in Nat

VARIABLES
  want_x_lock,
  owner,         \* owner_thread_id
  xcount,        \* recursive_xlock_count
  value,         \* shared_locks_array: 0 free, 1 registered, more: held
  useCount,      \* use_count of the array: the mutex and the registered threads
  index,         \* thread_local_index_hashmap: the slot of a thread, 0 if none
  pc,            \* where in a call a thread is
  scan,          \* its loop index over the slots
  excl,          \* the program's locks: taken by lock,
  shared,        \* by lock_shared in a slot,
  fallback       \* by lock_shared without a slot

vars == <<want_x_lock, owner, xcount, value, useCount, index, pc, scan,
          excl, shared, fallback>>

Slot == 1..Size

Init ==
  /\ want_x_lock = FALSE
  /\ owner = NoThread
  /\ xcount = 0
  /\ value = [s \in Slot |-> 0]
  /\ useCount = 1
  /\ index = [t \in Thread |-> 0]
  /\ pc = [t \in Thread |-> "idle"]
  /\ scan = [t \in Thread |-> 1]
  /\ excl = [t \in Thread |-> 0]
  /\ shared = [t \in Thread |-> 0]
  /\ fallback = [t \in Thread |-> 0]

Goto(t, from, to) == pc[t] = from /\ pc' = [pc EXCEPT ![t] = to]

Sharing(t) == shared[t] > 0 \/ fallback[t] > 0

-----------------------------------------------------------------------------
(* The program.  It never asks for the lock exclusively while it shares it. *)

MayLock(t) ==
  /\ excl[t] + shared[t] + fallback[t] < MaxDepth
  /\ ~Sharing(t)

(* "XS": it shares a lock it holds exclusively; "SS": it shares again one   *)
(* that it got without a slot.                                             *)
MayLockShared(t) ==
  /\ excl[t] + shared[t] + fallback[t] < MaxDepth
  /\ excl[t] > 0 => "XS" \in Nesting
  /\ fallback[t] > 0 => "SS" \in Nesting

-----------------------------------------------------------------------------
(* lock_shared *)

(* register_thread: a thread without a slot tries to get one if fewer       *)
(* threads than slots are registered.                                      *)
LockShared(t) ==
  /\ MayLockShared(t)
  /\ Goto(t, "idle", IF index[t] # 0 THEN "announce"
                     ELSE IF useCount <= Size THEN "register" ELSE "claimShared")
  /\ scan' = [scan EXCEPT ![t] = 1]
  /\ UNCHANGED <<want_x_lock, owner, xcount, value, useCount, index, excl, shared, fallback>>

(* The loop over the slots: the load and the compare_exchange of one slot.  *)
RegisterThread(t) ==
  /\ UNCHANGED <<want_x_lock, owner, xcount, useCount, index, excl, shared, fallback>>
  /\ \/ /\ scan[t] \in Slot /\ value[scan[t]] = 0
        /\ Goto(t, "register", "remember")
        /\ value' = [value EXCEPT ![scan[t]] = 1]
        /\ UNCHANGED scan
     \/ /\ scan[t] \in Slot /\ value[scan[t]] # 0
        /\ Goto(t, "register", "register")
        /\ scan' = [scan EXCEPT ![t] = @ + 1]
        /\ UNCHANGED value
     \/ /\ scan[t] \notin Slot
        /\ Goto(t, "register", "claimShared")
        /\ UNCHANGED <<value, scan>>

(* get_or_set_index(register_thread_op): the entry holds the array.         *)
RememberIndex(t) ==
  /\ Goto(t, "remember", "announce")
  /\ index' = [index EXCEPT ![t] = scan[t]]
  /\ useCount' = useCount + 1
  /\ UNCHANGED <<want_x_lock, owner, xcount, value, scan, excl, shared, fallback>>

(* A recursive lock only counts; a first one is announced, also after the   *)
(* spin.  Only the thread itself writes its slot.                          *)
Announce(t) ==
  /\ Goto(t, "announce", IF value[index[t]] > 1 THEN "idle" ELSE "check")
  /\ value' = [value EXCEPT ![index[t]] = @ + 1]
  /\ shared' = [shared EXCEPT ![t] = IF value[index[t]] > 1 THEN @ + 1 ELSE @]
  /\ UNCHANGED <<want_x_lock, owner, xcount, useCount, index, scan, excl, fallback>>

CheckWant(t) ==
  /\ Goto(t, "check", IF want_x_lock THEN "retreat" ELSE "idle")
  /\ shared' = [shared EXCEPT ![t] = IF want_x_lock THEN @ ELSE @ + 1]
  /\ UNCHANGED <<want_x_lock, owner, xcount, value, useCount, index, scan, excl, fallback>>

Retreat(t) ==
  /\ Goto(t, "retreat", "spin")
  /\ value' = [value EXCEPT ![index[t]] = @ - 1]
  /\ UNCHANGED <<want_x_lock, owner, xcount, useCount, index, scan, excl, shared, fallback>>

(* Mutant: it announces itself again without waiting.                      *)
SpinNotWaiting(t) ==
  /\ Goto(t, "spin", "announce")
  /\ UNCHANGED <<want_x_lock, owner, xcount, value, useCount, index, scan, excl, shared, fallback>>

(* Mutant: it enters when the writer has left, without announcing itself.   *)
SpinEntering(t) ==
  /\ ~want_x_lock
  /\ Goto(t, "spin", "idle")
  /\ shared' = [shared EXCEPT ![t] = @ + 1]
  /\ UNCHANGED <<want_x_lock, owner, xcount, value, useCount, index, scan, excl, fallback>>

Spin(t) ==
  /\ ~want_x_lock
  /\ Goto(t, "spin", "announce")
  /\ UNCHANGED <<want_x_lock, owner, xcount, value, useCount, index, scan, excl, shared, fallback>>

(* Without a slot: the thread must be the owner, but need not wait for      *)
(* the readers in the slots.                                               *)
ClaimShared(t) ==
  /\ UNCHANGED <<owner, value, useCount, index, scan, excl, shared>>
  /\ \/ /\ owner = t
        /\ Goto(t, "claimShared", "idle")
        /\ xcount' = xcount + 1
        /\ fallback' = [fallback EXCEPT ![t] = @ + 1]
        /\ UNCHANGED want_x_lock
     \/ /\ owner # t
        /\ ~want_x_lock
        /\ Goto(t, "claimShared", "ownShared")
        /\ want_x_lock' = TRUE
        /\ UNCHANGED <<xcount, fallback>>

OwnShared(t) ==
  /\ Goto(t, "ownShared", "idle")
  /\ owner' = t
  /\ xcount' = xcount + 1
  /\ fallback' = [fallback EXCEPT ![t] = @ + 1]
  /\ UNCHANGED <<want_x_lock, value, useCount, index, scan, excl, shared>>

-----------------------------------------------------------------------------
(* unlock and unlock_shared *)

(* --recursive_xlock_count; at 0 the owner leaves, and then want_x_lock.    *)
ReleaseExclusive(t) ==
  /\ xcount' = xcount - 1
  /\ IF xcount = 1
       THEN Goto(t, "idle", "drop") /\ owner' = NoThread
       ELSE Goto(t, "idle", "idle") /\ UNCHANGED owner

DropWant(t) ==
  /\ Goto(t, "drop", "idle")
  /\ want_x_lock' = FALSE
  /\ UNCHANGED <<owner, xcount, value, useCount, index, scan, excl, shared, fallback>>

UnlockShared(t) ==
  /\ Sharing(t)
  /\ IF index[t] # 0
       THEN /\ Goto(t, "idle", "idle")
            /\ value' = [value EXCEPT ![index[t]] = @ - 1]
            /\ shared' = [shared EXCEPT ![t] = @ - 1]
            /\ UNCHANGED <<owner, xcount, fallback>>
       ELSE /\ ReleaseExclusive(t)
            /\ fallback' = [fallback EXCEPT ![t] = @ - 1]
            /\ UNCHANGED <<value, shared>>
  /\ UNCHANGED <<want_x_lock, useCount, index, scan, excl>>

Unlock(t) ==
  /\ excl[t] > 0
  /\ ReleaseExclusive(t)
  /\ excl' = [excl EXCEPT ![t] = @ - 1]
  /\ UNCHANGED <<want_x_lock, value, useCount, index, scan, shared, fallback>>

-----------------------------------------------------------------------------
(* lock *)

(* The owner only counts.                                                  *)
Lock(t) ==
  /\ MayLock(t)
  /\ IF owner = t
       THEN /\ Goto(t, "idle", "idle")
            /\ xcount' = xcount + 1
            /\ excl' = [excl EXCEPT ![t] = @ + 1]
       ELSE Goto(t, "idle", "claim") /\ UNCHANGED <<xcount, excl>>
  /\ UNCHANGED <<want_x_lock, owner, value, useCount, index, scan, shared, fallback>>

Claim(t) ==
  /\ ~want_x_lock
  /\ Goto(t, "claim", "own")
  /\ want_x_lock' = TRUE
  /\ UNCHANGED <<owner, xcount, value, useCount, index, scan, excl, shared, fallback>>

Own(t) ==
  /\ Goto(t, "own", "scan")
  /\ owner' = t
  /\ scan' = [scan EXCEPT ![t] = 1]
  /\ UNCHANGED <<want_x_lock, xcount, value, useCount, index, excl, shared, fallback>>

(* Mutant: a slot that is held once passes for a free one.                 *)
ScanSlotHeld(t) ==
  /\ scan[t] \in Slot
  /\ value[scan[t]] <= 2
  /\ Goto(t, "scan", "scan")
  /\ scan' = [scan EXCEPT ![t] = @ + 1]
  /\ UNCHANGED <<want_x_lock, owner, xcount, value, useCount, index, excl, shared, fallback>>

(* The writer waits for the readers slot by slot.                          *)
ScanSlot(t) ==
  /\ scan[t] \in Slot
  /\ value[scan[t]] <= 1
  /\ Goto(t, "scan", "scan")
  /\ scan' = [scan EXCEPT ![t] = @ + 1]
  /\ UNCHANGED <<want_x_lock, owner, xcount, value, useCount, index, excl, shared, fallback>>

Enter(t) ==
  /\ scan[t] \notin Slot
  /\ Goto(t, "scan", "idle")
  /\ xcount' = xcount + 1
  /\ excl' = [excl EXCEPT ![t] = @ + 1]
  /\ UNCHANGED <<want_x_lock, owner, value, useCount, index, scan, shared, fallback>>

-----------------------------------------------------------------------------
(* Mutant: the slot is given back although the thread holds the lock in it. *)
UnregisterHolding(t) ==
  /\ index[t] # 0
  /\ Goto(t, "idle", "forget")
  /\ value' = [value EXCEPT ![index[t]] = @ - 1]
  /\ index' = [index EXCEPT ![t] = 0]
  /\ UNCHANGED <<want_x_lock, owner, xcount, useCount, scan, excl, shared, fallback>>

(* unregister_thread, and the end of a thread: ~unregister_t gives the slot *)
(* back, and then releases the array.                                      *)
Unregister(t) ==
  /\ index[t] # 0
  /\ value[index[t]] = 1
  /\ Goto(t, "idle", "forget")
  /\ value' = [value EXCEPT ![index[t]] = @ - 1]
  /\ index' = [index EXCEPT ![t] = 0]
  /\ UNCHANGED <<want_x_lock, owner, xcount, useCount, scan, excl, shared, fallback>>

Forget(t) ==
  /\ Goto(t, "forget", "idle")
  /\ useCount' = useCount - 1
  /\ UNCHANGED <<want_x_lock, owner, xcount, value, index, scan, excl, shared, fallback>>

-----------------------------------------------------------------------------
Step(t) ==
  \/ RegisterThread(t) \/ RememberIndex(t) \/ Announce(t) \/ CheckWant(t)
  \/ Retreat(t) \/ Spin(t) \/ ClaimShared(t) \/ OwnShared(t) \/ DropWant(t)
  \/ Claim(t) \/ Own(t) \/ ScanSlot(t) \/ Enter(t) \/ Forget(t)

Next ==
  \E t \in Thread :
    \/ Step(t)
    \/ LockShared(t) \/ UnlockShared(t) \/ Lock(t) \/ Unlock(t) \/ Unregister(t)

(* A guard ends; and the guard of the only lock that a thread holds ends.   *)
Release(t) == UnlockShared(t) \/ Unlock(t)
ReleaseLast(t) == excl[t] + shared[t] + fallback[t] = 1 /\ Release(t)

(* A call in progress continues.  Locks are taken by scoped guards, so a    *)
(* thread leaves every critical section, the outermost one too, however     *)
(* often it nests in between.                                              *)
Spec ==
  /\ Init /\ [][Next]_vars
  /\ \A t \in Thread :
       WF_vars(Step(t)) /\ WF_vars(Release(t)) /\ SF_vars(ReleaseLast(t))
-----------------------------------------------------------------------------
(* Properties *)

Label == {"idle", "register", "remember", "announce", "check", "retreat", "spin",
          "claimShared", "ownShared", "drop", "claim", "own", "scan", "forget"}

(* The variables of the mutex and the locks of the program keep their types. *)
TypeOK ==
  /\ want_x_lock \in BOOLEAN
  /\ owner \in Thread \cup {NoThread}
  /\ xcount \in Nat
  /\ value \in [Slot -> Nat]
  /\ useCount \in Int
  /\ index \in [Thread -> {0} \cup Slot]
  /\ pc \in [Thread -> Label]
  /\ scan \in [Thread -> 1..(Size + 1)]
  /\ excl \in [Thread -> Nat]
  /\ shared \in [Thread -> Nat]
  /\ fallback \in [Thread -> Nat]

(* A thread that holds the lock exclusively is alone, and of the readers    *)
(* without a slot there is one at most: whatever a reader that announces    *)
(* itself, one that registers and a writer that scans do in between.        *)
MutualExclusion ==
  \A t, u \in Thread : t # u =>
    /\ excl[t] > 0 => excl[u] = 0 /\ ~Sharing(u)
    /\ fallback[t] > 0 => fallback[u] = 0

(* Thread t has set want_x_lock and not yet cleared it.                    *)
Owns(t) ==
  \/ excl[t] > 0 \/ fallback[t] > 0
  \/ pc[t] \in {"own", "scan", "ownShared", "drop"}

(* want_x_lock, owner and count belong to one thread, and to a thread they  *)
(* belong as long as the flag is set.                                      *)
OneOwner ==
  /\ \A t, u \in Thread : Owns(t) /\ Owns(u) => t = u
  /\ \A t \in Thread : Owns(t) => want_x_lock /\ xcount = excl[t] + fallback[t]
  /\ \A t \in Thread : owner = t <=> Owns(t) /\ pc[t] \notin {"own", "ownShared", "drop"}
  /\ want_x_lock => \E t \in Thread : Owns(t)
  /\ ~want_x_lock => xcount = 0

(* What a thread holds and has at each point of a call.  The last conjunct: *)
(* a thread that got the lock without a slot and registers later never gets *)
(* the lock in the slot, so unlock_shared releases what lock_shared took.   *)
AtPoint(t) ==
  /\ pc[t] \in {"claim", "own", "scan"} => ~Sharing(t) /\ excl[t] = 0
  /\ pc[t] \in {"ownShared", "drop"} => excl[t] = 0 /\ fallback[t] = 0
  /\ pc[t] \in {"register", "remember", "claimShared", "ownShared"} => index[t] = 0
  /\ pc[t] = "remember" => scan[t] \in Slot
  /\ pc[t] \in {"announce", "check", "retreat", "spin"} => index[t] # 0
  /\ pc[t] \in {"check", "retreat", "spin"} => shared[t] = 0
  /\ index[t] = 0 => shared[t] = 0
  /\ fallback[t] > 0 /\ index[t] # 0 =>
       pc[t] \in {"announce", "check", "retreat", "spin"} /\ shared[t] = 0

(* The slot a thread has or is about to remember, and what it counts.       *)
MySlot(t) == IF pc[t] = "remember" THEN scan[t] ELSE index[t]
Announced(t) == IF pc[t] \in {"check", "retreat"} THEN 2 ELSE 1 + shared[t]

(* Every slot in use has one thread, and counts its shared locks.           *)
SlotsCount ==
  /\ \A t, u \in Thread : MySlot(t) = MySlot(u) /\ MySlot(t) # 0 => t = u
  /\ \A s \in Slot : value[s] # 0 => \E t \in Thread : MySlot(t) = s
  /\ \A t \in Thread : MySlot(t) # 0 => value[MySlot(t)] = Announced(t)

(* The writer t has seen slot s empty.                                     *)
Passed(t, s) == excl[t] > 0 \/ (pc[t] = "scan" /\ s < scan[t])

(* No reader is in a slot that the writer has seen empty.                   *)
NobodyBehind ==
  \A t, u \in Thread :
    t # u /\ index[u] # 0 /\ Passed(t, index[u]) => shared[u] = 0

(* What every step of the mutex preserves.                                 *)
IInv ==
  /\ TypeOK /\ (\A t \in Thread : AtPoint(t)) /\ OneOwner /\ SlotsCount
  /\ NobodyBehind

(* Whoever sets want_x_lock gets the lock and clears it again: readers and  *)
(* writers never wait for each other in a circle.                          *)
ExclusiveEnds == want_x_lock ~> ~want_x_lock

Abstract == INSTANCE ReadWriteLock WITH
  exclusive <- excl, sharing <- [t \in Thread |-> shared[t] + fallback[t]]

(* Slots, flag and spin loops grant what the lock of ReadWriteLock grants:   *)
(* at the moment a call returns nobody else is in the way.                  *)
ImplementsReadWriteLock == Abstract!Spec
=============================================================================
