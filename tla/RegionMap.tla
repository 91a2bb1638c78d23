------------------------------- MODULE RegionMap -------------------------------
(***************************************************************************)
(* Where the regions come from and where the measurements go: every thread *)
(* has a map of its own regions, and getThreadRegionData asks the global   *)
(* map, under its lock, for the region that all threads share.  When a     *)
(* thread ends it adds what it measured to the shared regions, without a   *)
(* lock, by compare and exchange; the profiler prints RegionList when all  *)
(* threads have ended.                                                     *)
(***************************************************************************)
EXTENDS Integers, Sequences, FiniteSets

CONSTANTS Thread,
          None,       \* no thread
          Code,       \* code pointers of tasks and parallel regions
          UserCode,   \* code pointers of user regions
          NField,     \* how many counters addRegion adds up, one by one
          MaxRegion   \* bound: shared regions

ASSUME RegionMapAssumption ==
  /\ None \notin Thread /\ IsFiniteSet(Thread)
  /\ Code \cap UserCode = {}
  /\ NField \in Nat \ {0}
  /\ MaxRegion \in Nat

VARIABLES
  flatProfile,  \* profiler_flags->flatProfile
  region,       \* the shared regions, in the order of their creation
  map,          \* the global map, from keys to positions in region
  RegionList,   \* positions, in the order of output
  regionIds,    \* the atomic counter the callPathIDs come from
  children,     \* per shared region its atomic counter of that name
  total,        \* per shared region its atomic counters
  holder,       \* the thread that holds the lock of the map, or None
  local,        \* per thread its own map
  todo,         \* per thread the keys thread_end still has to merge
  pc,           \* per thread: where it is in a callback
  ask,          \* per thread the region it asks for: code and parent
  add,          \* per thread the addition it is at: region, field, old value
  merged        \* per thread the additions it has made

vars == <<flatProfile, region, map, RegionList, regionIds, children, total, holder, local, todo,
          pc, ask, add, merged>>

NoAsk == [codeptr |-> None, parent |-> 0]
NoAdd == [region |-> 0, field |-> 0, old |-> 0]

Init ==
  /\ flatProfile \in BOOLEAN
  /\ region = <<>> /\ map = <<>> /\ RegionList = <<>> /\ regionIds = 0
  /\ children = <<>> /\ total = <<>>
  /\ holder = None
  /\ local = [t \in Thread |-> <<>>]
  /\ todo = [t \in Thread |-> {}]
  /\ pc = [t \in Thread |-> "run"]
  /\ ask = [t \in Thread |-> NoAsk]
  /\ add = [t \in Thread |-> NoAdd]
  /\ merged = [t \in Thread |-> {}]

Field == 1..NField

GoTo(t, label) == pc' = [pc EXCEPT ![t] = label]

(* A map with one more entry.                                              *)
With(f, k, v) == [x \in DOMAIN f \cup {k} |-> IF x = k THEN v ELSE f[x]]

CallPathID(r) == IF r = 0 THEN 0 ELSE region[r].callPathID

(* Mutant: the parent is left out.                                         *)
KeyWithoutParent(codeptr, parent) == <<codeptr, 0>>

(* The key of the region with a code pointer below region parent (or 0).   *)
Key(codeptr, parent) == <<codeptr, IF flatProfile THEN 0 ELSE CallPathID(parent)>>

Asked(t) == Key(ask[t].codeptr, ask[t].parent)

-----------------------------------------------------------------------------
(* getThreadRegionData *)

(* Thread t has no region of its own for this code and parent yet: the     *)
(* parent is one of its own regions.                                       *)
GetThreadRegionData(t, codeptr, parent) ==
  /\ pc[t] = "run"
  /\ Len(region) + Cardinality({u \in Thread : pc[u] \in {"lock", "find", "create"}}) < MaxRegion
  /\ parent = 0 \/ \E k \in DOMAIN local[t] : local[t][k] = parent
  /\ Key(codeptr, parent) \notin DOMAIN local[t]
  /\ ask' = [ask EXCEPT ![t] = [codeptr |-> codeptr, parent |-> parent]]
  /\ GoTo(t, "lock")
  /\ UNCHANGED <<flatProfile, region, map, RegionList, regionIds, children, total, holder, local, todo, add, merged>>

(* Mutant: nobody waits for the lock.                                      *)
LockNotWaiting(t) ==
  /\ pc[t] = "lock"
  /\ holder' = t
  /\ GoTo(t, "find")
  /\ UNCHANGED <<flatProfile, region, map, RegionList, regionIds, children, total, local, todo, ask, add, merged>>

Lock(t) ==
  /\ pc[t] = "lock"
  /\ holder = None
  /\ holder' = t
  /\ GoTo(t, "find")
  /\ UNCHANGED <<flatProfile, region, map, RegionList, regionIds, children, total, local, todo, ask, add, merged>>

Find(t) ==
  /\ pc[t] = "find"
  /\ GoTo(t, IF Asked(t) \in DOMAIN map THEN "unlock" ELSE "create")
  /\ UNCHANGED <<flatProfile, region, map, RegionList, regionIds, children, total, holder, local, todo, ask, add, merged>>

(* The region above the one that is asked for; a flat profile knows none.  *)
Above(t) == IF flatProfile THEN 0 ELSE ask[t].parent

(* A new shared region: user regions all have the callPathID 0, and the    *)
(* last part of the callPathString is the number the parent has counted up *)
(* to (setCallpath); there is none without a parent.                       *)
NewRegion(t) ==
  [codeptr |-> ask[t].codeptr, parent |-> Above(t),
   callPathID |-> IF ask[t].codeptr \in UserCode THEN 0 ELSE regionIds + 1,
   child |-> IF Above(t) = 0 THEN 0 ELSE children[Above(t)] + 1]

(* ++(gParentPtr->children)                                                *)
Numbered(p) == IF p = 0 THEN children ELSE [children EXCEPT ![p] = @ + 1]

(* Mutant: the counters of the new region are forgotten.                   *)
CreateUncounted(t) ==
  /\ pc[t] = "create"
  /\ regionIds' = IF ask[t].codeptr \in UserCode THEN regionIds ELSE regionIds + 1
  /\ region' = Append(region, NewRegion(t))
  /\ children' = Append(Numbered(Above(t)), 0)
  /\ map' = With(map, Asked(t), Len(region) + 1)
  /\ GoTo(t, "push")
  /\ UNCHANGED <<flatProfile, RegionList, total, holder, local, todo, ask, add, merged>>

(* emplace refuses a key that is in the map already: the redundant region  *)
(* is deleted, that is, nothing leads to it any more, but its callPathID   *)
(* and its number are used up.                                             *)
Create(t) ==
  /\ pc[t] = "create"
  /\ regionIds' = IF ask[t].codeptr \in UserCode THEN regionIds ELSE regionIds + 1
  /\ region' = Append(region, NewRegion(t))
  /\ children' = Append(Numbered(Above(t)), 0)
  /\ total' = Append(total, [f \in Field |-> 0])
  /\ IF Asked(t) \in DOMAIN map THEN map' = map /\ GoTo(t, "unlock")
     ELSE map' = With(map, Asked(t), Len(region) + 1) /\ GoTo(t, "push")
  /\ UNCHANGED <<flatProfile, RegionList, holder, local, todo, ask, add, merged>>

(* RegionList has a lock of its own, which is taken under the lock of the  *)
(* map only.                                                               *)
Push(t) ==
  /\ pc[t] = "push"
  /\ RegionList' = Append(RegionList, map[Asked(t)])
  /\ GoTo(t, "unlock")
  /\ UNCHANGED <<flatProfile, region, map, regionIds, children, total, holder, local, todo, ask, add, merged>>

Unlock(t) ==
  /\ pc[t] = "unlock"
  /\ holder' = None
  /\ GoTo(t, "remember")
  /\ UNCHANGED <<flatProfile, region, map, RegionList, regionIds, children, total, local, todo, ask, add, merged>>

(* Mutant: the thread's own map knows code pointers only.                  *)
RememberWithoutParent(t) ==
  /\ pc[t] = "remember"
  /\ local' = [local EXCEPT ![t] = With(@, <<ask[t].codeptr, 0>>, map[Asked(t)])]
  /\ ask' = [ask EXCEPT ![t] = NoAsk]
  /\ GoTo(t, "run")
  /\ UNCHANGED <<flatProfile, region, map, RegionList, regionIds, children, total, holder, todo, add, merged>>

Remember(t) ==
  /\ pc[t] = "remember"
  /\ local' = [local EXCEPT ![t] = With(@, Asked(t), map[Asked(t)])]
  /\ ask' = [ask EXCEPT ![t] = NoAsk]
  /\ GoTo(t, "run")
  /\ UNCHANGED <<flatProfile, region, map, RegionList, regionIds, children, total, holder, todo, add, merged>>

-----------------------------------------------------------------------------
(* thread_end *)

ThreadEnd(t) ==
  /\ pc[t] = "run"
  /\ todo' = [todo EXCEPT ![t] = DOMAIN local[t]]
  /\ GoTo(t, "merge")
  /\ UNCHANGED <<flatProfile, region, map, RegionList, regionIds, children, total, holder, local, ask, add, merged>>

(* The lock is held for the lookup only.                                   *)
FindGlobal(t, k) ==
  /\ pc[t] = "merge" /\ k \in todo[t]
  /\ holder = None
  /\ k \in DOMAIN map
  /\ add' = [add EXCEPT ![t] = [region |-> map[k], field |-> 1, old |-> 0]]
  /\ todo' = [todo EXCEPT ![t] = @ \ {k}]
  /\ GoTo(t, "load")
  /\ UNCHANGED <<flatProfile, region, map, RegionList, regionIds, children, total, holder, local, ask, merged>>

(* atomic_add of one counter: load ...                                     *)
Load(t) ==
  /\ pc[t] = "load"
  /\ add' = [add EXCEPT ![t].old = total[add[t].region][add[t].field]]
  /\ GoTo(t, "exchange")
  /\ UNCHANGED <<flatProfile, region, map, RegionList, regionIds, children, total, holder, local, todo, ask, merged>>

(* What follows the addition to field f of region r.                        *)
Added(t, r, f) ==
  IF f < NField THEN add' = [add EXCEPT ![t] = [@ EXCEPT !.field = f + 1, !.old = 0]] /\ GoTo(t, "load")
  ELSE add' = [add EXCEPT ![t] = NoAdd] /\ GoTo(t, "merge")

(* Mutants: a store; one attempt only; the old value is not loaded again.  *)
ExchangeStore(t) ==
  LET r == add[t].region
      f == add[t].field
  IN
  /\ pc[t] = "exchange"
  /\ total' = [total EXCEPT ![r][f] = add[t].old + 1]
  /\ merged' = [merged EXCEPT ![t] = @ \cup {<<r, f>>}]
  /\ Added(t, r, f)
  /\ UNCHANGED <<flatProfile, region, map, RegionList, regionIds, children, holder, local, todo, ask>>

ExchangeOnce(t) ==
  LET r == add[t].region
      f == add[t].field
      ok == total[r][f] = add[t].old
  IN
  /\ pc[t] = "exchange"
  /\ total' = IF ok THEN [total EXCEPT ![r][f] = add[t].old + 1] ELSE total
  /\ merged' = IF ok THEN [merged EXCEPT ![t] = @ \cup {<<r, f>>}] ELSE merged
  /\ Added(t, r, f)
  /\ UNCHANGED <<flatProfile, region, map, RegionList, regionIds, children, holder, local, todo, ask>>

ExchangeStale(t) ==
  LET r == add[t].region
      f == add[t].field
  IN
  /\ pc[t] = "exchange" /\ total[r][f] = add[t].old
  /\ total' = [total EXCEPT ![r][f] = add[t].old + 1]
  /\ merged' = [merged EXCEPT ![t] = @ \cup {<<r, f>>}]
  /\ Added(t, r, f)
  /\ UNCHANGED <<flatProfile, region, map, RegionList, regionIds, children, holder, local, todo, ask>>

(* ... and compare and exchange, which loads again when it fails.  What a  *)
(* thread measured in a region is 1.                                       *)
Exchange(t) ==
  LET r == add[t].region
      f == add[t].field
  IN
  /\ pc[t] = "exchange"
  /\ IF total[r][f] = add[t].old
     THEN /\ total' = [total EXCEPT ![r][f] = add[t].old + 1]
          /\ merged' = [merged EXCEPT ![t] = @ \cup {<<r, f>>}]
          /\ Added(t, r, f)
     ELSE /\ add' = [add EXCEPT ![t].old = total[r][f]]
          /\ UNCHANGED <<total, merged, pc>>
  /\ UNCHANGED <<flatProfile, region, map, RegionList, regionIds, children, holder, local, todo, ask>>

ThreadEnded(t) ==
  /\ pc[t] = "merge" /\ todo[t] = {}
  /\ GoTo(t, "ended")
  /\ UNCHANGED <<flatProfile, region, map, RegionList, regionIds, children, total, holder, local, todo, ask, add, merged>>

-----------------------------------------------------------------------------
(* The rest of a callback that has begun.                                  *)
Step(t) ==
  \/ Lock(t)
  \/ Find(t)
  \/ Create(t)
  \/ Push(t)
  \/ Unlock(t)
  \/ Remember(t)
  \/ \E k \in todo[t] : FindGlobal(t, k)
  \/ Load(t)
  \/ Exchange(t)
  \/ ThreadEnded(t)

(* All threads have ended: the profiler prints RegionList and the process  *)
(* ends.                                                                   *)
Done == (\A t \in Thread : pc[t] = "ended") /\ UNCHANGED vars

Next ==
  \/ \E t \in Thread :
       \/ \E codeptr \in Code \cup UserCode, parent \in 0..Len(region) :
            GetThreadRegionData(t, codeptr, parent)
       \/ ThreadEnd(t)
       \/ Step(t)
  \/ Done

(* A callback in progress continues; nobody must call the next one.        *)
Spec == Init /\ [][Next]_vars /\ \A t \in Thread : WF_vars(Step(t))
-----------------------------------------------------------------------------
(* Properties *)

Label == {"run", "lock", "find", "create", "push", "unlock", "remember", "merge", "load",
          "exchange", "ended"}

Index == 1..Len(region)

(* The variables of the maps and of the callbacks keep their types.        *)
TypeOK ==
  /\ flatProfile \in BOOLEAN
  /\ region \in Seq([codeptr : Code \cup UserCode, parent : Nat, callPathID : Nat, child : Nat])
  /\ total \in Seq([Field -> Nat]) /\ Len(total) = Len(region)
  /\ children \in Seq(Nat) /\ Len(children) = Len(region)
  /\ DOMAIN map \subseteq (Code \cup UserCode) \X Nat
  /\ \A k \in DOMAIN map : map[k] \in Index
  /\ RegionList \in Seq(Nat)
  /\ regionIds \in Nat
  /\ holder \in Thread \cup {None}
  /\ pc \in [Thread -> Label]
  /\ ask \in [Thread -> [codeptr : Code \cup UserCode \cup {None}, parent : Nat]]
  /\ add \in [Thread -> [region : Nat, field : Nat, old : Nat]]
  /\ DOMAIN local = Thread /\ DOMAIN todo = Thread /\ DOMAIN merged = Thread

(* Two regions never share a callPathID, which stands for the region in    *)
(* the keys of all regions below it.                                       *)
IdsUnique ==
  \A r, s \in Index :
    region[r].codeptr \in Code /\ region[r].callPathID = region[s].callPathID => r = s

(* Each region that the threads measure is printed once: RegionList holds  *)
(* exactly the regions of the map, whoever created them, as soon as no     *)
(* thread holds the lock.                                                  *)
ListIsMap ==
  holder = None =>
    /\ \A i, j \in 1..Len(RegionList) : RegionList[i] = RegionList[j] => i = j
    /\ {RegionList[i] : i \in 1..Len(RegionList)} = {map[k] : k \in DOMAIN map}

(* thread_end never uses find()'s end(): every region a thread knows is in *)
(* the global map, and is the same region there.                           *)
LocalIsGlobal ==
  \A t \in Thread : \A k \in DOMAIN local[t] : k \in DOMAIN map /\ map[k] = local[t][k]

(* The shared region a thread gets is below the parent it asked for: the   *)
(* callPathID in the key stands for the parent.  Only the user regions,    *)
(* whose callPathID is 0, are confused with each other and with the root.  *)
ParentIsAsked ==
  ~flatProfile => \A t \in Thread : pc[t] = "remember" =>
    LET parent == region[map[Asked(t)]].parent IN
    \/ parent = ask[t].parent
    \/ \A r \in {parent, ask[t].parent} : r = 0 \/ region[r].codeptr \in UserCode

(* The printed regions below a parent are numbered from 1 to the children  *)
(* it has counted, each number once, whoever asked for them at the same    *)
(* time: the callPathStrings differ and have no gaps.  A region that is    *)
(* created and then found redundant would leave one.                       *)
SiblingsNumbered ==
  holder = None => \A p \in Index :
    LET below == {r \in {RegionList[i] : i \in 1..Len(RegionList)} : region[r].parent = p} IN
    /\ {region[r].child : r \in below} = 1..children[p]
    /\ \A r, s \in below : region[r].child = region[s].child => r = s

(* No addition is lost when threads end at the same time: a counter is the  *)
(* sum of what the threads have added to it.                               *)
NothingLost ==
  \A r \in Index, f \in Field :
    total[r][f] = Cardinality({t \in Thread : <<r, f>> \in merged[t]})

(* ... and when all threads have ended, of all that they have measured.    *)
AllMerged ==
  \A t \in Thread : pc[t] = "ended" =>
    merged[t] = {local[t][k] : k \in DOMAIN local[t]} \X Field

(* thread_end ends: a compare and exchange fails only because another      *)
(* thread made one of its finitely many additions.                         *)
ThreadEnds == \A t \in Thread : pc[t] = "merge" ~> pc[t] = "ended"
-----------------------------------------------------------------------------
(* The inductive invariant.  First the lookup: the lock ...                *)
MutexHeld ==
  \A t \in Thread : pc[t] \in {"find", "create", "push", "unlock"} => holder = t

(* ... what a thread asks for, and adds to, exists ...                      *)
AskOK ==
  \A t \in Thread : pc[t] \in {"lock", "find", "create", "push", "unlock", "remember"} =>
    ask[t].codeptr \in Code \cup UserCode /\ ask[t].parent \in 0..Len(region)

AddOK ==
  \A t \in Thread : pc[t] \in {"load", "exchange"} =>
    add[t].region \in Index /\ add[t].field \in Field

(* ... only the regions that are no user regions have a callPathID, and     *)
(* regionIds is ahead of all of them ...                                   *)
RegionOK ==
  \A r \in Index :
    /\ region[r].parent \in 0..Len(region)
    /\ region[r].callPathID <= regionIds
    /\ region[r].callPathID = 0 <=> region[r].codeptr \in UserCode

(* ... a region is in the map under its own key ...                        *)
MapKey ==
  \A k \in DOMAIN map : k = Key(region[map[k]].codeptr, region[map[k]].parent)

(* ... what find said stays true while the lock is held ...                 *)
Found ==
  \A t \in Thread :
    /\ pc[t] \in {"push", "unlock", "remember"} => Asked(t) \in DOMAIN map
    /\ pc[t] = "create" => Asked(t) \notin DOMAIN map

(* ... and only a region that is being created is not in the list.          *)
Listed ==
  /\ \A i, j \in 1..Len(RegionList) : RegionList[i] = RegionList[j] => i = j
  /\ \A i \in 1..Len(RegionList) : \E k \in DOMAIN map : RegionList[i] = map[k]
  /\ \A k \in DOMAIN map :
       \/ \E i \in 1..Len(RegionList) : RegionList[i] = map[k]
       \/ \E t \in Thread : pc[t] = "push" /\ k = Asked(t)
  /\ \A t \in Thread : pc[t] = "push" =>
       \A i \in 1..Len(RegionList) : RegionList[i] # map[Asked(t)]

(* What getThreadRegionData and getGlobalRegionData preserve.              *)
LookupInv ==
  /\ TypeOK /\ MutexHeld /\ AskOK /\ AddOK /\ RegionOK /\ IdsUnique /\ MapKey /\ Found
  /\ Listed /\ LocalIsGlobal

(* Then the merge: the regions thread t has added, as far as field f of the *)
(* one it is at.                                                           *)
Merged(t) == {local[t][k] : k \in DOMAIN local[t] \ todo[t]}

MergeOf(t) ==
  /\ todo[t] \subseteq DOMAIN local[t]
  /\ pc[t] \notin {"merge", "load", "exchange", "ended"} => merged[t] = {}
  /\ pc[t] = "ended" => todo[t] = {}
  /\ pc[t] \in {"merge", "ended"} => merged[t] = Merged(t) \X Field
  /\ pc[t] \in {"load", "exchange"} =>
       /\ add[t].region \in Merged(t)
       /\ merged[t] = ((Merged(t) \ {add[t].region}) \X Field)
                        \cup ({add[t].region} \X (1..(add[t].field - 1)))

MergeOK == \A t \in Thread : MergeOf(t)

(* Last the numbers of the regions: every region is in the map, and those  *)
(* below a parent have the numbers it has counted, one each.               *)
AllMapped == \A r \in Index : \E k \in DOMAIN map : map[k] = r

ChildInRange ==
  \A r \in Index : region[r].parent # 0 => region[r].child \in 1..children[region[r].parent]

ChildUnique ==
  \A r, s \in Index :
    region[r].parent # 0 /\ region[r].parent = region[s].parent
      /\ region[r].child = region[s].child => r = s

ChildFound ==
  \A p \in Index : \A n \in 1..children[p] :
    \E r \in Index : region[r].parent = p /\ region[r].child = n

ChildOK == AllMapped /\ ChildInRange /\ ChildUnique /\ ChildFound

(* What lookups and thread ends preserve together.                         *)
IInv == LookupInv /\ MergeOK /\ NothingLost /\ ChildOK
=============================================================================
