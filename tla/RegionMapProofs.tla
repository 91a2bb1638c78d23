---------------------------- MODULE RegionMapProofs ----------------------------
(***************************************************************************)
(* Proofs about RegionMap for any finite set of threads, any code pointers *)
(* and any number of regions and counters.  LookupInv is inductive on its  *)
(* own; MergeOK and NothingLost are inductive relative to it.              *)
(***************************************************************************)
EXTENDS RegionMap, SequenceFacts, FiniteSetTheorems

USE DEF GoTo

-----------------------------------------------------------------------------
(* Initially there is no region and nobody asks for one.                   *)
LEMMA InitLookup == Init => LookupInv
<1> SUFFICES ASSUME Init PROVE LookupInv
  OBVIOUS
<1>1. TypeOK
  BY DEF Init, TypeOK, Label, Index, NoAsk, NoAdd
<1>2. MutexHeld /\ AskOK /\ AddOK /\ RegionOK /\ IdsUnique /\ MapKey /\ Found
  BY DEF Init, MutexHeld, AskOK, AddOK, RegionOK, IdsUnique, MapKey, Found, Index
<1>3. Listed /\ LocalIsGlobal
  BY DEF Init, Listed, LocalIsGlobal
<1>4. QED
  BY <1>1, <1>2, <1>3 DEF LookupInv

(* A step that creates no region leaves all that is known about regions.   *)
LEMMA RegionFrame ==
  ASSUME LookupInv, UNCHANGED <<flatProfile, region, map, regionIds>>
  PROVE  /\ RegionOK' /\ IdsUnique' /\ MapKey'
         /\ Index' = Index
         /\ \A c, p : Key(c, p)' = Key(c, p)
BY DEF LookupInv, RegionOK, IdsUnique, MapKey, Index, Key, CallPathID

(* ... and, if the thread is about to create nothing and to remember what   *)
(* it asked for, what the threads have found.                              *)
LEMMA FoundFrame ==
  ASSUME LookupInv, UNCHANGED <<flatProfile, region, map, regionIds>>,
         \A u \in Thread :
           /\ pc'[u] \in {"push", "unlock", "remember"} =>
                pc[u] \in {"push", "unlock", "remember"} /\ ask'[u] = ask[u]
           /\ pc'[u] = "create" => pc[u] = "create" /\ ask'[u] = ask[u]
  PROVE  Found'
BY RegionFrame DEF LookupInv, Found, Asked

(* The list is left alone by steps that do not touch map or RegionList.    *)
LEMMA ListedFrame ==
  ASSUME LookupInv, UNCHANGED <<flatProfile, region, map, regionIds, RegionList>>,
         \A u \in Thread :
           /\ pc'[u] = "push" <=> pc[u] = "push"
           /\ pc[u] = "push" => ask'[u] = ask[u]
  PROVE  Listed'
BY SMTT(30), RegionFrame DEF LookupInv, Listed, Asked

-----------------------------------------------------------------------------
(* A lookup in the thread's own map asks for an existing parent.           *)
LEMMA GetThreadRegionDataStep ==
  ASSUME LookupInv, NEW t \in Thread, NEW c \in Code \cup UserCode, NEW p \in 0..Len(region),
         GetThreadRegionData(t, c, p)
  PROVE  LookupInv'
<1> USE DEF GetThreadRegionData
<1>1. TypeOK'
  BY DEF LookupInv, TypeOK, Label, Index
<1>2. MutexHeld' /\ AskOK' /\ AddOK'
  BY DEF LookupInv, TypeOK, MutexHeld, AskOK, AddOK, Index
<1>3. RegionOK' /\ IdsUnique' /\ MapKey' /\ Found'
  BY RegionFrame, FoundFrame DEF LookupInv, TypeOK
<1>4. Listed'
  BY ListedFrame DEF LookupInv, TypeOK
<1>5. LocalIsGlobal'
  BY DEF LookupInv, LocalIsGlobal
<1>6. QED
  BY <1>1, <1>2, <1>3, <1>4, <1>5 DEF LookupInv

(* The lock of the global map.                                             *)
LEMMA LockStep ==
  ASSUME LookupInv, NEW t \in Thread, Lock(t)
  PROVE  LookupInv'
<1> USE DEF Lock
<1>1. TypeOK'
  BY DEF LookupInv, TypeOK, Label, Index
<1>2. MutexHeld' /\ AskOK' /\ AddOK'
  BY RegionMapAssumption DEF LookupInv, TypeOK, MutexHeld, AskOK, AddOK, Index
<1>3. RegionOK' /\ IdsUnique' /\ MapKey' /\ Found'
  BY RegionFrame, FoundFrame DEF LookupInv, TypeOK
<1>4. Listed'
  BY ListedFrame DEF LookupInv, TypeOK
<1>5. LocalIsGlobal'
  BY DEF LookupInv, LocalIsGlobal
<1>6. QED
  BY <1>1, <1>2, <1>3, <1>4, <1>5 DEF LookupInv

(* find() in the global map: what it says stays true under the lock.       *)
LEMMA FindStep ==
  ASSUME LookupInv, NEW t \in Thread, Find(t)
  PROVE  LookupInv'
<1> USE DEF Find
<1>1. TypeOK'
  BY DEF LookupInv, TypeOK, Label, Index
<1>2. MutexHeld' /\ AskOK' /\ AddOK'
  BY DEF LookupInv, TypeOK, MutexHeld, AskOK, AddOK, Index
<1>3. RegionOK' /\ IdsUnique' /\ MapKey' /\ Found'
  <2>1. RegionOK' /\ IdsUnique' /\ MapKey' /\ \A u \in Thread : Asked(u)' = Asked(u)
    BY RegionFrame DEF Asked
  <2>2. /\ \A u \in Thread \ {t} : pc'[u] = pc[u]
        /\ pc'[t] = IF Asked(t) \in DOMAIN map THEN "unlock" ELSE "create"
    BY DEF LookupInv, TypeOK
  <2>3. Found'
    BY <2>1, <2>2 DEF LookupInv, Found
  <2>4. QED
    BY <2>1, <2>3
<1>4. Listed'
  BY ListedFrame DEF LookupInv, TypeOK
<1>5. LocalIsGlobal'
  BY DEF LookupInv, LocalIsGlobal
<1>6. QED
  BY <1>1, <1>2, <1>3, <1>4, <1>5 DEF LookupInv

(* The lock is released; the region stays in the map.                      *)
LEMMA UnlockStep ==
  ASSUME LookupInv, NEW t \in Thread, Unlock(t)
  PROVE  LookupInv'
<1> USE DEF Unlock
<1>1. TypeOK'
  BY DEF LookupInv, TypeOK, Label, Index
<1>2. MutexHeld' /\ AskOK' /\ AddOK'
  BY DEF LookupInv, TypeOK, MutexHeld, AskOK, AddOK, Index
<1>3. RegionOK' /\ IdsUnique' /\ MapKey' /\ Found'
  BY RegionFrame, FoundFrame DEF LookupInv, TypeOK
<1>4. Listed'
  BY ListedFrame DEF LookupInv, TypeOK
<1>5. LocalIsGlobal'
  BY DEF LookupInv, LocalIsGlobal
<1>6. QED
  BY <1>1, <1>2, <1>3, <1>4, <1>5 DEF LookupInv

(* The parent of a new region counts one more, the region itself none.     *)
LEMMA ChildrenStep ==
  ASSUME TypeOK, AskOK, NEW t \in Thread, Create(t)
  PROVE  /\ Above(t) \in 0..Len(region) /\ Len(children) = Len(region) /\ Len(region) \in Nat
         /\ children' \in Seq(Nat) /\ Len(children') = Len(region) + 1
         /\ \A r \in 1..Len(region) :
              /\ children[r] \in Nat
              /\ children'[r] = IF r = Above(t) THEN children[r] + 1 ELSE children[r]
         /\ children'[Len(region) + 1] = 0
<1> DEFINE n == Len(region)
<1>1. /\ children \in Seq(Nat) /\ Len(children) = n /\ n \in Nat
      /\ Above(t) \in 0..n
  BY LenProperties DEF TypeOK, AskOK, Create, Above
<1>2. \A r \in 1..n : children[r] \in Nat
  BY <1>1, ElementOfSeq
<1>3. /\ Numbered(Above(t)) \in Seq(Nat) /\ Len(Numbered(Above(t))) = n
      /\ \A r \in 1..n :
           Numbered(Above(t))[r] = IF r = Above(t) THEN children[r] + 1 ELSE children[r]
  <2>1. CASE Above(t) = 0
    BY <1>1, <2>1 DEF Numbered
  <2>2. CASE Above(t) # 0
    <3>1. Above(t) \in 1..n /\ children[Above(t)] + 1 \in Nat
      BY <1>1, <1>2, <2>2
    <3>2. Numbered(Above(t)) = [children EXCEPT ![Above(t)] = children[Above(t)] + 1]
      BY <2>2 DEF Numbered
    <3>3. QED
      BY <1>1, <3>1, <3>2, ExceptSeq
  <2>3. QED
    BY <2>1, <2>2
<1>4. /\ children' \in Seq(Nat) /\ Len(children') = n + 1
      /\ \A r \in 1..n : children'[r] = Numbered(Above(t))[r]
      /\ children'[n + 1] = 0
  <2>1. children' = Append(Numbered(Above(t)), 0)
    BY DEF Create
  <2>2. QED
    BY <1>3, <2>1, AppendProperties
<1>5. QED
  BY <1>1, <1>2, <1>3, <1>4

(* A region is created under the lock: its key is new, so is its callPathID *)
(* unless it is a user region, and it is not in the list.                  *)
LEMMA CreateStep ==
  ASSUME LookupInv, NEW t \in Thread, Create(t)
  PROVE  LookupInv'
<1> DEFINE n == Len(region)
           Rec == [codeptr : Code \cup UserCode, parent : Nat, callPathID : Nat, child : Nat]
<1>1. /\ TypeOK /\ pc[t] = "create" /\ holder = t
      /\ ask[t].codeptr \in Code \cup UserCode /\ ask[t].parent \in 0..n
      /\ Asked(t) \notin DOMAIN map
  BY DEF LookupInv, Create, MutexHeld, AskOK, Found
<1>2. /\ NewRegion(t) \in Rec
      /\ NewRegion(t).codeptr = ask[t].codeptr
      /\ NewRegion(t).parent = IF flatProfile THEN 0 ELSE ask[t].parent
      /\ NewRegion(t).callPathID = IF ask[t].codeptr \in UserCode THEN 0 ELSE regionIds + 1
      /\ NewRegion(t).parent \in 0..n
  <2> DEFINE id == IF ask[t].codeptr \in UserCode THEN 0 ELSE regionIds + 1
             number == IF Above(t) = 0 THEN 0 ELSE children[Above(t)] + 1
  <2>1. Above(t) \in 0..n /\ Above(t) \in Nat /\ n \in Nat /\ id \in Nat
    BY <1>1, LenProperties DEF TypeOK, Above
  <2>2. number \in Nat
    BY <1>1, <2>1, ElementOfSeq DEF TypeOK
  <2>3. NewRegion(t) = [codeptr |-> ask[t].codeptr, parent |-> Above(t), callPathID |-> id,
                        child |-> number]
    BY DEF NewRegion
  <2>4. Above(t) = IF flatProfile THEN 0 ELSE ask[t].parent
    BY DEF Above
  <2> HIDE DEF number, id
  <2>5. QED
    BY <1>1, <2>1, <2>2, <2>3, <2>4 DEF id
<1>3. /\ n \in Nat
      /\ region' \in Seq(Rec) /\ Len(region') = n + 1
      /\ \A i \in 1..n : region'[i] = region[i]
      /\ region'[n + 1] = NewRegion(t)
      /\ \A i \in 1..n : region[i] \in Rec
      /\ \A i \in 1..(n + 1) : i \in 1..n \/ i = n + 1
  <2>1. region \in Seq(Rec) /\ region' = Append(region, NewRegion(t))
    BY <1>1 DEF TypeOK, Create
  <2>2. QED
    <3>1. n \in Nat /\ \A i \in 1..n : region[i] \in Rec
      BY <2>1, LenProperties, ElementOfSeq
    <3>2. /\ region' \in Seq(Rec) /\ Len(region') = n + 1
          /\ (\A i \in 1..n : region'[i] = region[i]) /\ region'[n + 1] = NewRegion(t)
      BY <1>2, <2>1, AppendProperties
    <3>3. \A i \in 1..(n + 1) : i \in 1..n \/ i = n + 1
      BY <3>1
    <3>4. QED
      BY <3>1, <3>2, <3>3
<1>4. /\ total' \in Seq([Field -> Nat]) /\ Len(total') = n + 1
  <2>1. total \in Seq([Field -> Nat]) /\ Len(total) = n
        /\ total' = Append(total, [f \in Field |-> 0])
    BY <1>1 DEF TypeOK, Create
  <2>2. [f \in Field |-> 0] \in [Field -> Nat]
    OBVIOUS
  <2>3. QED
    BY <2>1, <2>2, AppendProperties
<1>5. /\ regionIds' = IF ask[t].codeptr \in UserCode THEN regionIds ELSE regionIds + 1
      /\ regionIds \in Nat /\ regionIds' \in Nat /\ regionIds <= regionIds'
      /\ DOMAIN map' = DOMAIN map \cup {Asked(t)}
      /\ map'[Asked(t)] = n + 1
      /\ \A k \in DOMAIN map : map'[k] = map[k] /\ map[k] \in 1..n
  BY <1>1 DEF Create, With, TypeOK, Index
<1>6. /\ \A u \in Thread : pc'[u] = IF u = t THEN "push" ELSE pc[u]
      /\ UNCHANGED <<flatProfile, RegionList, holder, local, todo, ask, add, merged>>
  BY <1>1 DEF Create, TypeOK
<1>7. \A c : \A p \in 0..n : Key(c, p)' = Key(c, p)
  <2>1. \A p \in 0..n : p = 0 \/ p \in 1..n
    BY <1>3
  <2>2. \A p \in 0..n : CallPathID(p)' = CallPathID(p)
    BY <1>3, <2>1 DEF CallPathID
  <2>3. QED
    BY <1>6, <2>2 DEF Key
<1>8. Index' = 1..(n + 1) /\ Index = 1..n
  BY <1>3 DEF Index
<1>9. TypeOK'
  <2>1. \A k \in DOMAIN map' : map'[k] \in Index'
    BY <1>3, <1>5, <1>8
  <2>2. Asked(t) \in (Code \cup UserCode) \X Nat
    <3>1. CallPathID(ask[t].parent) \in Nat
      <4>1. ask[t].parent = 0 \/ ask[t].parent \in 1..n
        <5>1. ASSUME NEW m \in Nat, NEW q \in 0..m
              PROVE  q = 0 \/ q \in 1..m
          OBVIOUS
        <5>2. n \in Nat /\ ask[t].parent \in 0..n
          BY <1>1, <1>3
        <5> HIDE DEF n
        <5>3. QED
          BY <5>1, <5>2
      <4>2. ASSUME NEW i \in 1..n
            PROVE  region[i].callPathID \in Nat
        <5>1. region[i] \in Rec
          BY <1>3
        <5>2. QED
          BY <5>1
      <4>3. QED
        BY <4>1, <4>2 DEF CallPathID
    <3>2. QED
      BY <1>1, <3>1 DEF Asked, Key
  <2>3. DOMAIN map' \subseteq (Code \cup UserCode) \X Nat
    BY <1>1, <1>5, <2>2 DEF TypeOK
  <2>4. pc' \in [Thread -> Label]
    BY <1>1 DEF TypeOK, Create, Label
  <2>5. QED
    <3>1. children' \in Seq(Nat) /\ Len(children') = Len(region')
      BY <1>1, <1>3, ChildrenStep DEF LookupInv
    <3>2. QED
      BY <1>1, <1>3, <1>4, <1>5, <1>6, <2>1, <2>3, <2>4, <3>1 DEF TypeOK
<1>10. MutexHeld' /\ AskOK' /\ AddOK'
  <2>1. MutexHeld'
    BY <1>1, <1>6 DEF LookupInv, MutexHeld
  <2>2. 0..n \subseteq 0..(n + 1) /\ 1..n \subseteq 1..(n + 1)
    BY <1>3
  <2>3. AskOK'
    BY <1>1, <1>3, <1>6, <2>2 DEF LookupInv, AskOK
  <2>4. AddOK'
    BY <1>1, <1>6, <1>8, <2>2 DEF LookupInv, AddOK
  <2>5. QED
    BY <2>1, <2>3, <2>4
<1>11. RegionOK' /\ IdsUnique'
  <2>1. \A r \in 1..n :
          /\ region[r].parent \in 0..n /\ region[r].callPathID \in Nat
          /\ region[r].callPathID <= regionIds
          /\ region[r].callPathID = 0 <=> region[r].codeptr \in UserCode
    BY <1>3, <1>8 DEF LookupInv, RegionOK
  <2>2. /\ region'[n + 1].codeptr = ask[t].codeptr
        /\ region'[n + 1].parent \in 0..(n + 1)
        /\ region'[n + 1].callPathID = IF ask[t].codeptr \in UserCode THEN 0 ELSE regionIds + 1
    BY <1>2, <1>3
  <2>3. RegionOK'
    <3>1. ASSUME NEW r \in 1..n
          PROVE  /\ region'[r].parent \in 0..(n + 1)
                 /\ region'[r].callPathID <= regionIds'
                 /\ region'[r].callPathID = 0 <=> region'[r].codeptr \in UserCode
      <4>1. region'[r] = region[r]
        BY <1>3
      <4>2. region[r].parent \in 0..(n + 1)
        <5>1. 0..n \subseteq 0..(n + 1)
          BY <1>3
        <5>2. QED
          BY <2>1, <5>1
      <4>3. region[r].callPathID <= regionIds'
        BY <1>5, <2>1
      <4>4. QED
        BY <2>1, <4>1, <4>2, <4>3
    <3>2. /\ region'[n + 1].callPathID <= regionIds'
          /\ region'[n + 1].callPathID = 0 <=> region'[n + 1].codeptr \in UserCode
      BY <1>5, <2>2
    <3>3. QED
      BY <1>3, <1>8, <2>2, <3>1, <3>2 DEF RegionOK
  <2>4. ASSUME NEW r \in 1..(n + 1), NEW s \in 1..(n + 1),
               region'[r].codeptr \in Code, region'[r].callPathID = region'[s].callPathID
        PROVE  r = s
    <3>1. CASE r \in 1..n /\ s \in 1..n
      BY <1>3, <1>8, <2>4, <3>1 DEF LookupInv, IdsUnique
    <3>2. CASE r = n + 1 /\ s \in 1..n
      <4>1. region'[r].callPathID = regionIds + 1
        BY <2>2, <2>4, <3>2, RegionMapAssumption
      <4>2. region'[s].callPathID <= regionIds /\ region'[s].callPathID \in Nat
        BY <1>3, <2>1, <3>2
      <4>3. QED
        BY <1>5, <2>4, <4>1, <4>2
    <3>3. CASE r \in 1..n /\ s = n + 1
      <4>1. region'[r] = region[r] /\ region'[r].codeptr \notin UserCode
        BY <1>3, <2>4, <3>3, RegionMapAssumption
      <4>2. /\ region'[r].callPathID # 0 /\ region'[r].callPathID <= regionIds
            /\ region'[r].callPathID \in Nat
        BY <2>1, <3>3, <4>1
      <4>3. region'[s].callPathID = 0 \/ region'[s].callPathID = regionIds + 1
        BY <2>2, <3>3
      <4>4. QED
        BY <1>5, <2>4, <4>2, <4>3
    <3>4. QED
      BY <1>3, <3>1, <3>2, <3>3
  <2>5. QED
    BY <1>8, <2>3, <2>4 DEF IdsUnique
<1>12. MapKey'
  <2>1. ASSUME NEW k \in DOMAIN map
        PROVE  k = Key(region[map[k]].codeptr, region[map[k]].parent)'
    <3>1. k = Key(region[map[k]].codeptr, region[map[k]].parent)
      BY DEF LookupInv, MapKey
    <3>2. map[k] \in 1..n /\ region[map[k]].parent \in 0..n
      BY <1>5, <1>8 DEF LookupInv, RegionOK
    <3>3. region'[map'[k]] = region[map[k]]
      BY <1>3, <1>5, <3>2
    <3>4. QED
      BY <1>7, <3>1, <3>2, <3>3
  <2>2. Asked(t) = Key(NewRegion(t).codeptr, NewRegion(t).parent)
    BY DEF Asked, Key, NewRegion, CallPathID, Above
  <2>3. ASSUME NEW k, k = Asked(t)
        PROVE  k = Key(region[map[k]].codeptr, region[map[k]].parent)'
    <3>1. region'[map'[k]] = NewRegion(t)
      BY <1>3, <1>5, <2>3
    <3>2. ASSUME NEW c, NEW p \in 0..n, c = NewRegion(t).codeptr, p = NewRegion(t).parent
          PROVE  k = Key(region[map[k]].codeptr, region[map[k]].parent)'
      <4>1. k = Key(c, p)'
        BY <1>7, <2>2, <2>3, <3>2
      <4>2. QED
        BY <3>1, <3>2, <4>1
    <3>3. QED
      BY <1>2, <3>2
  <2>4. QED
    BY <1>5, <2>1, <2>3 DEF MapKey
<1>13. ASSUME NEW u \in Thread,
              pc[u] \in {"lock", "find", "create", "push", "unlock", "remember"}
       PROVE  Asked(u)' = Asked(u)
  BY <1>6, <1>7, <1>13 DEF Asked, LookupInv, AskOK
<1>14. Found'
  <2>1. ASSUME NEW u \in Thread, pc'[u] = "create"
        PROVE  FALSE
    BY <1>1, <1>6, <2>1, RegionMapAssumption DEF LookupInv, MutexHeld
  <2>2. QED
    BY <1>1, <1>5, <1>6, <1>13, <2>1 DEF Found, LookupInv
<1>15. Listed'
  <2>1. \A i \in 1..Len(RegionList) : RegionList[i] \in 1..n
    BY <1>5 DEF LookupInv, Listed
  <2>2. \A u \in Thread : pc[u] # "push"
    BY <1>1 DEF LookupInv, MutexHeld
  <2>3. \A i \in 1..Len(RegionList) : \E k \in DOMAIN map' : RegionList[i] = map'[k]
    BY <1>5 DEF LookupInv, Listed
  <2>4. ASSUME NEW k \in DOMAIN map'
        PROVE  \/ \E i \in 1..Len(RegionList) : RegionList[i] = map'[k]
               \/ \E u \in Thread : pc'[u] = "push" /\ k = Asked(u)'
    <3>1. CASE k = Asked(t)
      BY <1>1, <1>6, <1>13, <3>1
    <3>2. CASE k \in DOMAIN map
      BY <1>5, <2>2, <3>2 DEF LookupInv, Listed
    <3>3. QED
      BY <1>5, <3>1, <3>2
  <2>5. ASSUME NEW u \in Thread, pc'[u] = "push"
        PROVE  \A i \in 1..Len(RegionList) : RegionList[i] # map'[Asked(u)']
    <3>1. u = t
      BY <1>6, <2>2, <2>5
    <3>2. Asked(u)' = Asked(t)
      BY <1>1, <1>13, <3>1
    <3>3. map'[Asked(u)'] = n + 1
      BY <1>5, <3>2
    <3>4. QED
      BY <1>3, <2>1, <3>3
  <2>6. QED
    BY <1>6, <2>3, <2>4, <2>5 DEF LookupInv, Listed
<1>16. LocalIsGlobal'
  BY <1>5, <1>6 DEF LookupInv, LocalIsGlobal
<1>17. QED
  BY <1>9, <1>10, <1>11, <1>12, <1>14, <1>15, <1>16 DEF LookupInv

(* ... and is pushed to the list before the lock is given back.            *)
LEMMA PushStep ==
  ASSUME LookupInv, NEW t \in Thread, Push(t)
  PROVE  LookupInv'
<1> USE DEF Push
<1> DEFINE m == Len(RegionList)
           new == map[Asked(t)]
<1>1. /\ TypeOK /\ pc[t] = "push" /\ holder = t
      /\ Asked(t) \in DOMAIN map /\ new \in Nat
      /\ \A i \in 1..m : RegionList[i] # new
  <2>1. new \in Index => new \in Nat
    BY DEF Index
  <2>2. QED
    BY <2>1 DEF LookupInv, MutexHeld, Found, TypeOK, Listed
<1>2. /\ RegionList' \in Seq(Nat) /\ Len(RegionList') = m + 1
      /\ \A i \in 1..m + 1 : \/ i \in 1..m /\ RegionList'[i] = RegionList[i]
                             \/ i = m + 1 /\ RegionList'[i] = new
  <2>1. RegionList \in Seq(Nat) /\ RegionList' = Append(RegionList, new)
    BY <1>1 DEF TypeOK
  <2>2. QED
    BY <1>1, <2>1, AppendFacts
<1>3. TypeOK'
  BY <1>1, <1>2 DEF TypeOK, Label, Index
<1>4. MutexHeld' /\ AskOK' /\ AddOK'
  BY DEF LookupInv, TypeOK, MutexHeld, AskOK, AddOK, Index
<1>5. RegionOK' /\ IdsUnique' /\ MapKey' /\ Found'
  BY RegionFrame, FoundFrame DEF LookupInv, TypeOK
<1>6. LocalIsGlobal'
  BY DEF LookupInv, LocalIsGlobal
<1>7. Listed'
  <2>1. \A u \in Thread : pc[u] = "push" => u = t
    BY <1>1, RegionMapAssumption DEF LookupInv, MutexHeld
  <2>2. \A u \in Thread : pc'[u] # "push"
    BY <1>1, <2>1 DEF TypeOK
  <2>3. m \in Nat /\ 1..m \subseteq 1..m + 1 /\ m + 1 \in 1..m + 1 /\ m + 1 \notin 1..m
    BY <1>1, LenProperties DEF TypeOK
  <2>4. RegionList'[m + 1] = new /\ \A i \in 1..m : RegionList'[i] = RegionList[i]
    BY <1>2, <2>3
  <2>5. ASSUME NEW i \in 1..m + 1, NEW j \in 1..m + 1, RegionList'[i] = RegionList'[j]
        PROVE  i = j
    BY <1>1, <1>2, <2>5 DEF LookupInv, Listed
  <2>6. ASSUME NEW i \in 1..m + 1
        PROVE  \E k \in DOMAIN map : RegionList'[i] = map[k]
    BY <1>1, <1>2, <2>6 DEF LookupInv, Listed
  <2>7. ASSUME NEW k \in DOMAIN map
        PROVE  \E i \in 1..m + 1 : RegionList'[i] = map[k]
    <3>1. CASE k = Asked(t)
      BY <2>3, <2>4, <3>1
    <3>2. CASE \E i \in 1..m : RegionList[i] = map[k]
      BY <2>3, <2>4, <3>2
    <3>3. QED
      BY <2>1, <3>1, <3>2 DEF LookupInv, Listed
  <2>8. map' = map
    OBVIOUS
  <2> HIDE DEF Push
  <2>9. QED
    BY <1>2, <2>2, <2>5, <2>6, <2>7, <2>8 DEF Listed
<1>8. QED
  BY <1>3, <1>4, <1>5, <1>6, <1>7 DEF LookupInv

(* The thread enters the shared region in its own map.                     *)
LEMMA RememberStep ==
  ASSUME LookupInv, NEW t \in Thread, Remember(t)
  PROVE  LookupInv'
<1> USE DEF Remember
<1>1. TypeOK'
  BY DEF LookupInv, TypeOK, Label, Index, NoAsk
<1>2. MutexHeld' /\ AskOK' /\ AddOK'
  BY DEF LookupInv, TypeOK, MutexHeld, AskOK, AddOK, Index
<1>3. RegionOK' /\ IdsUnique' /\ MapKey' /\ Found'
  BY RegionFrame, FoundFrame DEF LookupInv, TypeOK
<1>4. Listed'
  BY ListedFrame DEF LookupInv, TypeOK
<1>5. LocalIsGlobal'
  BY SMTT(30) DEF LookupInv, TypeOK, Found, LocalIsGlobal, With
<1>6. QED
  BY <1>1, <1>2, <1>3, <1>4, <1>5 DEF LookupInv

-----------------------------------------------------------------------------
(* The merge changes nothing the lookup relies on.                         *)
LEMMA MergeFrame ==
  ASSUME LookupInv, NEW t \in Thread,
         pc[t] \notin {"lock", "find", "create", "push", "unlock", "remember"},
         \E l \in Label \ {"lock", "find", "create", "push", "unlock", "remember"} :
           pc' = [pc EXCEPT ![t] = l],
         UNCHANGED <<flatProfile, region, map, RegionList, regionIds, children, holder, local, ask>>,
         total' \in Seq([Field -> Nat]), Len(total') = Len(total),
         add' \in [Thread -> [region : Nat, field : Nat, old : Nat]],
         DOMAIN todo' = Thread, DOMAIN merged' = Thread,
         AddOK'
  PROVE  LookupInv'
<1>1. TypeOK'
  <2>1. pc' \in [Thread -> Label]
    BY DEF LookupInv, TypeOK
  <2>2. QED
    BY <2>1 DEF LookupInv, TypeOK, Index
<1>2. MutexHeld' /\ AskOK'
  BY DEF LookupInv, TypeOK, MutexHeld, AskOK
<1>3. RegionOK' /\ IdsUnique' /\ MapKey' /\ Found'
  BY RegionFrame, FoundFrame DEF LookupInv, TypeOK
<1>4. Listed'
  BY ListedFrame DEF LookupInv, TypeOK
<1>5. LocalIsGlobal'
  BY DEF LookupInv, LocalIsGlobal
<1>6. QED
  BY <1>1, <1>2, <1>3, <1>4, <1>5 DEF LookupInv

(* Thread end begins with every region of the thread to be added.          *)
LEMMA ThreadEndStep ==
  ASSUME LookupInv, NEW t \in Thread, ThreadEnd(t)
  PROVE  LookupInv'
<1>1. AddOK'
  BY DEF ThreadEnd, LookupInv, TypeOK, AddOK, Index
<1>2. QED
  BY <1>1, MergeFrame DEF ThreadEnd, LookupInv, TypeOK, Label

(* It adds to regions that are in the global map.                          *)
LEMMA FindGlobalStep ==
  ASSUME LookupInv, NEW t \in Thread, NEW k, FindGlobal(t, k)
  PROVE  LookupInv'
<1>1. map[k] \in Index /\ map[k] \in Nat /\ 1 \in Field
  BY RegionMapAssumption DEF FindGlobal, LookupInv, TypeOK, Index, Field
<1>2. AddOK'
  BY <1>1 DEF FindGlobal, LookupInv, TypeOK, AddOK, Index
<1>3. add' \in [Thread -> [region : Nat, field : Nat, old : Nat]]
  BY <1>1 DEF FindGlobal, LookupInv, TypeOK
<1>4. QED
  BY <1>2, <1>3, MergeFrame DEF FindGlobal, LookupInv, TypeOK, Label

(* The load of a counter touches no region.                                *)
LEMMA LoadStep ==
  ASSUME LookupInv, NEW t \in Thread, Load(t)
  PROVE  LookupInv'
<1>1. total[add[t].region][add[t].field] \in Nat
  BY SMTT(30), ElementOfSeq DEF Load, LookupInv, TypeOK, AddOK, Index
<1>2. AddOK'
  BY DEF Load, LookupInv, TypeOK, AddOK, Index
<1>3. add' \in [Thread -> [region : Nat, field : Nat, old : Nat]]
  BY <1>1 DEF Load, LookupInv, TypeOK
<1>4. QED
  BY <1>2, <1>3, MergeFrame DEF Load, LookupInv, TypeOK, Label

(* Nor does the end.                                                       *)
LEMMA ThreadEndedStep ==
  ASSUME LookupInv, NEW t \in Thread, ThreadEnded(t)
  PROVE  LookupInv'
<1>1. AddOK'
  BY DEF ThreadEnded, LookupInv, TypeOK, AddOK, Index
<1>2. QED
  BY <1>1, MergeFrame DEF ThreadEnded, LookupInv, TypeOK, Label

(* One counter of one region changes.                                      *)
LEMMA TotalExcept ==
  ASSUME NEW s \in Seq([Field -> Nat]), NEW r \in 1..Len(s), NEW f \in Field, NEW v \in Nat
  PROVE  /\ [s EXCEPT ![r][f] = v] \in Seq([Field -> Nat])
         /\ Len([s EXCEPT ![r][f] = v]) = Len(s)
         /\ \A q \in 1..Len(s), g \in Field :
              [s EXCEPT ![r][f] = v][q][g] = IF q = r /\ g = f THEN v ELSE s[q][g]
<1> DEFINE e == [s[r] EXCEPT ![f] = v]
<1>1. s[r] \in [Field -> Nat]
  BY ElementOfSeq
<1>2. e \in [Field -> Nat] /\ \A g \in Field : e[g] = IF g = f THEN v ELSE s[r][g]
  BY <1>1
<1>3. [s EXCEPT ![r][f] = v] = [s EXCEPT ![r] = e]
  OBVIOUS
<1> HIDE DEF e
<1>4. /\ [s EXCEPT ![r] = e] \in Seq([Field -> Nat])
      /\ Len([s EXCEPT ![r] = e]) = Len(s)
      /\ \A q \in 1..Len(s) : [s EXCEPT ![r] = e][q] = IF q = r THEN e ELSE s[q]
  BY <1>2, ExceptSeq
<1>5. QED
  BY <1>2, <1>3, <1>4

(* What the exchange of thread t does when it succeeds, and when it fails.  *)
LEMMA ExchangeCases ==
  ASSUME LookupInv, NEW t \in Thread, Exchange(t),
         NEW r, NEW f, r = add[t].region, f = add[t].field
  PROVE  /\ pc[t] = "exchange" /\ r \in Index /\ f \in Field /\ f \in Nat
         /\ UNCHANGED <<flatProfile, region, map, RegionList, regionIds, children, holder, local, todo, ask>>
         /\ \/ /\ \A q \in Index, g \in Field :
                    total'[q][g] = IF q = r /\ g = f THEN total[q][g] + 1 ELSE total[q][g]
               /\ total' \in Seq([Field -> Nat]) /\ Len(total') = Len(total)
               /\ merged' = [merged EXCEPT ![t] = @ \cup {<<r, f>>}]
               /\ Added(t, r, f)
            \/ /\ add' = [add EXCEPT ![t].old = total[r][f]]
               /\ total[r][f] \in Nat
               /\ UNCHANGED <<total, merged, pc>>
<1>1. /\ pc[t] = "exchange" /\ r \in Index /\ f \in Field /\ f \in Nat
      /\ total \in Seq([Field -> Nat]) /\ Index = 1..Len(total) /\ add[t].old \in Nat
  BY DEF Exchange, LookupInv, TypeOK, AddOK, Index, Field
<1>2. \A q \in Index : total[q] \in [Field -> Nat]
  BY <1>1, ElementOfSeq
<1>3. CASE total[r][f] = add[t].old
  <2>1. /\ total' = [total EXCEPT ![r][f] = add[t].old + 1]
        /\ merged' = [merged EXCEPT ![t] = @ \cup {<<r, f>>}]
        /\ Added(t, r, f)
        /\ UNCHANGED <<flatProfile, region, map, RegionList, regionIds, children, holder, local, todo, ask>>
    BY <1>3 DEF Exchange
  <2>2. add[t].old + 1 \in Nat /\ r \in 1..Len(total)
    BY <1>1
  <2>3. /\ total' \in Seq([Field -> Nat]) /\ Len(total') = Len(total)
        /\ \A q \in 1..Len(total), g \in Field :
             total'[q][g] = IF q = r /\ g = f THEN add[t].old + 1 ELSE total[q][g]
    BY SMTT(30), <1>1, <2>1, <2>2, TotalExcept
  <2>4. QED
    BY SMTT(30), <1>1, <1>3, <2>1, <2>3
<1>4. CASE total[r][f] # add[t].old
  <2>1. /\ add' = [add EXCEPT ![t].old = total[r][f]]
        /\ UNCHANGED <<total, merged, pc>>
        /\ UNCHANGED <<flatProfile, region, map, RegionList, regionIds, children, holder, local, todo, ask>>
    BY <1>4 DEF Exchange
  <2>2. QED
    BY <1>1, <1>2, <2>1
<1>5. QED
  BY <1>3, <1>4

(* The exchange changes a counter, and neither maps nor regions.           *)
LEMMA ExchangeStep ==
  ASSUME LookupInv, NEW t \in Thread, Exchange(t)
  PROVE  LookupInv'
<1> DEFINE r == add[t].region
           f == add[t].field
           AddType == [Thread -> [region : Nat, field : Nat, old : Nat]]
<1>1. /\ pc[t] = "exchange" /\ r \in Index /\ f \in Field /\ f \in Nat
      /\ UNCHANGED <<flatProfile, region, map, RegionList, regionIds, children, holder, local, todo, ask>>
  BY ExchangeCases
<1>2. CASE /\ total' \in Seq([Field -> Nat]) /\ Len(total') = Len(total)
           /\ merged' = [merged EXCEPT ![t] = @ \cup {<<r, f>>}]
           /\ Added(t, r, f)
  <2>1. CASE f < NField
    <3>1. /\ add' = [add EXCEPT ![t] = [@ EXCEPT !.field = f + 1, !.old = 0]]
          /\ pc' = [pc EXCEPT ![t] = "load"]
      BY <1>2, <2>1 DEF Added
    <3>2. f + 1 \in Field /\ f + 1 \in Nat
      BY <1>1, <2>1, RegionMapAssumption DEF Field
    <3>3. AddOK'
      <4>1. /\ pc'[t] = "load" /\ add'[t].region = r /\ add'[t].field = f + 1
            /\ \A u \in Thread \ {t} : pc'[u] = pc[u] /\ add'[u] = add[u]
        BY <3>1 DEF LookupInv, TypeOK
      <4>2. Index' = Index
        BY <1>1 DEF Index
      <4>3. \A u \in Thread \ {t} : pc'[u] \in {"load", "exchange"} =>
              add'[u].region \in Index /\ add'[u].field \in Field
        BY <4>1 DEF LookupInv, AddOK
      <4>4. QED
        BY <1>1, <3>2, <4>1, <4>2, <4>3 DEF AddOK
    <3>4. add' \in AddType
      BY <3>1, <3>2 DEF LookupInv, TypeOK
    <3>5. QED
      BY <1>1, <1>2, <3>1, <3>3, <3>4, MergeFrame DEF LookupInv, TypeOK, Label
  <2>2. CASE ~(f < NField)
    <3>1. /\ add' = [add EXCEPT ![t] = NoAdd]
          /\ pc' = [pc EXCEPT ![t] = "merge"]
      BY <1>2, <2>2 DEF Added
    <3>2. AddOK'
      BY <1>1, <3>1 DEF LookupInv, TypeOK, AddOK, Index
    <3>3. add' \in AddType
      BY <3>1 DEF LookupInv, TypeOK, NoAdd
    <3>4. QED
      BY <1>1, <1>2, <3>1, <3>2, <3>3, MergeFrame DEF LookupInv, TypeOK, Label
  <2>3. QED
    BY <2>1, <2>2
<1>3. CASE /\ add' = [add EXCEPT ![t].old = total[r][f]]
           /\ total[r][f] \in Nat
           /\ UNCHANGED <<total, merged, pc>>
  <2>1. AddOK'
    BY <1>1, <1>3 DEF LookupInv, TypeOK, AddOK, Index
  <2>2. add' \in AddType
    BY <1>3 DEF LookupInv, TypeOK
  <2>3. pc' = [pc EXCEPT ![t] = "exchange"]
    BY <1>1, <1>3 DEF LookupInv, TypeOK
  <2>4. QED
    BY <1>1, <1>3, <2>1, <2>2, <2>3, MergeFrame DEF LookupInv, TypeOK, Label
<1>4. QED
  BY <1>2, <1>3, ExchangeCases

-----------------------------------------------------------------------------
(* Every step keeps the invariant of the lookup.                           *)
LEMMA NextLookup == LookupInv /\ [Next]_vars => LookupInv'
<1> SUFFICES ASSUME LookupInv, [Next]_vars PROVE LookupInv'
  OBVIOUS
<1>1. CASE UNCHANGED vars
  BY <1>1, RegionFrame, FoundFrame, ListedFrame
  DEF vars, LookupInv, TypeOK, Index, MutexHeld, AskOK, AddOK, LocalIsGlobal
<1>2. ASSUME NEW t \in Thread, Step(t)
      PROVE  LookupInv'
  BY <1>2, LockStep, FindStep, CreateStep, PushStep, UnlockStep, RememberStep, FindGlobalStep,
     LoadStep, ExchangeStep, ThreadEndedStep DEF Step
<1>3. QED
  BY <1>1, <1>2, GetThreadRegionDataStep, ThreadEndStep DEF Next, Done

(* The invariant of the lookup holds, however many threads look regions up *)
(* and end at the same time.                                               *)
THEOREM LookupInvariance == Spec => []LookupInv
<1>1. QED
  BY InitLookup, NextLookup, PTL DEF Spec

(* The variables of the region maps keep their types.                      *)
THEOREM TypeCorrect == Spec => []TypeOK
BY LookupInvariance, PTL DEF LookupInv

(* Two regions never share a callPathID, whoever creates them.             *)
THEOREM IdsAreUnique == Spec => []IdsUnique
BY LookupInvariance, PTL DEF LookupInv

(* The threads' own maps agree with the global map: thread_end finds every *)
(* region it looks for.                                                    *)
THEOREM LocalAgreesWithGlobal == Spec => []LocalIsGlobal
BY LookupInvariance, PTL DEF LookupInv

(* RegionList holds every region of the map once.                          *)
THEOREM EveryRegionListedOnce == Spec => []ListIsMap
<1>1. ASSUME LookupInv, holder = None
      PROVE  /\ \A i, j \in 1..Len(RegionList) : RegionList[i] = RegionList[j] => i = j
             /\ {RegionList[i] : i \in 1..Len(RegionList)} = {map[k] : k \in DOMAIN map}
  <2>1. \A t \in Thread : pc[t] # "push"
    BY <1>1, RegionMapAssumption DEF LookupInv, MutexHeld
  <2>2. QED
    BY <1>1, <2>1 DEF LookupInv, Listed
<1>2. LookupInv => ListIsMap
  BY <1>1 DEF ListIsMap
<1>3. QED
  BY <1>2, LookupInvariance, PTL

(* The region a thread gets is below the parent it asked for, or both are   *)
(* user regions or the root: the keys of two regions are equal only then.  *)
THEOREM ParentsAreAsked == Spec => []ParentIsAsked
<1>1. ASSUME LookupInv, ~flatProfile, NEW t \in Thread, pc[t] = "remember",
             NEW a, NEW b, a = region[map[Asked(t)]].parent, b = ask[t].parent, a # b
      PROVE  \A r \in {a, b} : r = 0 \/ region[r].codeptr \in UserCode
  <2>1. Asked(t) \in DOMAIN map /\ a \in 0..Len(region) /\ b \in 0..Len(region)
    BY <1>1 DEF LookupInv, Found, AskOK, RegionOK, TypeOK
  <2>2. CallPathID(a) = CallPathID(b)
    <3>1. Key(ask[t].codeptr, b) = Key(region[map[Asked(t)]].codeptr, a)
      BY <1>1, <2>1 DEF LookupInv, MapKey, Asked
    <3>2. QED
      BY <1>1, <3>1 DEF Key
  <2>3. \A r \in 0..Len(region) : r = 0 \/ r \in Index
    BY <1>1 DEF LookupInv, TypeOK, Index
  <2>4. \A r \in Index : region[r].codeptr \in Code \cup UserCode
    <3> DEFINE Rec == [codeptr : Code \cup UserCode, parent : Nat, callPathID : Nat, child : Nat]
    <3>1. region \in Seq(Rec)
      BY <1>1 DEF LookupInv, TypeOK
    <3>2. \A r \in Index : region[r] \in Rec
      BY <3>1, ElementOfSeq DEF Index
    <3>3. QED
      BY <3>2
  <2>5. ASSUME NEW r \in {a, b}, r # 0, region[r].codeptr \notin UserCode
        PROVE  FALSE
    <3>1. r \in Index /\ region[r].codeptr \in Code /\ region[r].callPathID # 0
      BY <1>1, <2>1, <2>3, <2>4, <2>5 DEF LookupInv, RegionOK
    <3>2. PICK q \in {a, b} : q # r
      BY <1>1
    <3>3. q # 0 /\ q \in Index /\ region[q].callPathID = region[r].callPathID
      BY <2>1, <2>2, <2>3, <2>5, <3>1, <3>2 DEF CallPathID
    <3>4. QED
      BY <1>1, <3>1, <3>2, <3>3 DEF LookupInv, IdsUnique
  <2>6. QED
    BY <2>5
<1>2. LookupInv => ParentIsAsked
  BY <1>1 DEF ParentIsAsked
<1>3. QED
  BY <1>2, LookupInvariance, PTL

-----------------------------------------------------------------------------
(* A thread finds different regions under different keys.                  *)
LEMMA LocalInjective ==
  ASSUME LookupInv, NEW t \in Thread, NEW k \in DOMAIN local[t], NEW l \in DOMAIN local[t],
         local[t][k] = local[t][l]
  PROVE  k = l
<1>1. k \in DOMAIN map /\ l \in DOMAIN map /\ map[k] = map[l]
  BY DEF LookupInv, LocalIsGlobal
<1>2. QED
  BY <1>1 DEF LookupInv, MapKey

(* The threads add to regions that exist.                                  *)
LEMMA MergedExist ==
  ASSUME LookupInv, MergeOK, NEW t \in Thread
  PROVE  merged[t] \subseteq Index \X Field /\ Merged(t) \subseteq Index
<1>1. Merged(t) \subseteq Index
  BY DEF LookupInv, LocalIsGlobal, TypeOK, Merged
<1>2. CASE pc[t] \in {"merge", "ended"}
  BY <1>1, <1>2 DEF MergeOK, MergeOf, MergeOf
<1>3. CASE pc[t] \in {"load", "exchange"}
  <2>1. /\ add[t].region \in Merged(t) /\ add[t].field \in Field
        /\ merged[t] = ((Merged(t) \ {add[t].region}) \X Field)
                         \cup ({add[t].region} \X (1..(add[t].field - 1)))
    BY <1>3 DEF MergeOK, MergeOf, LookupInv, AddOK
  <2>2. 1..(add[t].field - 1) \subseteq Field
    BY <2>1, RegionMapAssumption DEF Field
  <2>3. QED
    BY <1>1, <2>1, <2>2
<1>4. CASE pc[t] \notin {"merge", "load", "exchange", "ended"}
  BY <1>1, <1>4 DEF MergeOK, MergeOf, MergeOf
<1>5. QED
  BY <1>2, <1>3, <1>4

(* A step that is not part of the merge, nor changes a map that is merged.  *)
LEMMA MergeOKFrame ==
  ASSUME LookupInv, MergeOK, UNCHANGED <<todo, merged>>,
         \A u \in Thread :
           \/ pc'[u] = pc[u] /\ local'[u] = local[u] /\ add'[u] = add[u]
           \/ /\ {pc[u], pc'[u]} \cap {"merge", "load", "exchange", "ended"} = {}
              /\ DOMAIN local[u] \subseteq DOMAIN local'[u]
  PROVE  MergeOK'
<1> SUFFICES ASSUME NEW u \in Thread PROVE MergeOf(u)'
  BY DEF MergeOK
<1>1. CASE pc'[u] = pc[u] /\ local'[u] = local[u] /\ add'[u] = add[u]
  <2>1. Merged(u)' = Merged(u) /\ todo'[u] = todo[u] /\ merged'[u] = merged[u]
    BY <1>1 DEF Merged
  <2>2. QED
    BY <1>1, <2>1 DEF MergeOK, MergeOf, MergeOf
<1>2. CASE /\ {pc[u], pc'[u]} \cap {"merge", "load", "exchange", "ended"} = {}
           /\ DOMAIN local[u] \subseteq DOMAIN local'[u]
  <2>1. /\ pc[u] \notin {"merge", "load", "exchange", "ended"}
        /\ pc'[u] \notin {"merge", "load", "exchange", "ended"}
    BY <1>2
  <2>2. todo'[u] = todo[u] /\ merged'[u] = merged[u] /\ todo[u] \subseteq DOMAIN local[u]
    BY DEF MergeOK, MergeOf, MergeOf
  <2>3. merged[u] = {}
    BY <2>1 DEF MergeOK, MergeOf, MergeOf
  <2>4. QED
    BY <1>2, <2>1, <2>2, <2>3 DEF MergeOf
<1>3. QED
  BY <1>1, <1>2

(* The sums stay when neither counters nor additions change.               *)
LEMMA NothingLostFrame ==
  ASSUME NothingLost, UNCHANGED <<region, total, merged>>
  PROVE  NothingLost'
BY DEF NothingLost, Index

(* The lookup does not disturb the merge of other threads.                 *)
LEMMA MergeLookupStep ==
  ASSUME IInv, NEW t \in Thread,
         \/ \E c \in Code \cup UserCode, p \in 0..Len(region) : GetThreadRegionData(t, c, p)
         \/ Lock(t) \/ Find(t) \/ Push(t) \/ Unlock(t) \/ Remember(t)
  PROVE  MergeOK' /\ NothingLost'
<1>1. /\ UNCHANGED <<region, total, todo, merged, add>>
      /\ \A u \in Thread \ {t} : pc'[u] = pc[u] /\ local'[u] = local[u]
      /\ {pc[t], pc'[t]} \cap {"merge", "load", "exchange", "ended"} = {}
      /\ DOMAIN local[t] \subseteq DOMAIN local'[t]
  <2>1. TypeOK
    BY DEF IInv, LookupInv
  <2>2. CASE \E c \in Code \cup UserCode, p \in 0..Len(region) : GetThreadRegionData(t, c, p)
    BY <2>1, <2>2 DEF GetThreadRegionData, TypeOK
  <2>3. CASE Lock(t) \/ Find(t) \/ Push(t) \/ Unlock(t)
    BY <2>1, <2>3 DEF Lock, Find, Push, Unlock, TypeOK
  <2>4. CASE Remember(t)
    BY <2>1, <2>4 DEF Remember, TypeOK, With
  <2>5. QED
    BY <2>2, <2>3, <2>4
<1>2. NothingLost'
  BY <1>1, NothingLostFrame DEF IInv
<1>3. MergeOK'
  BY <1>1, MergeOKFrame DEF IInv
<1>4. QED
  BY <1>2, <1>3

(* A new region starts with nothing measured, and nobody has added to it.   *)
LEMMA MergeCreateStep ==
  ASSUME IInv, NEW t \in Thread, Create(t)
  PROVE  MergeOK' /\ NothingLost'
<1>1. TypeOK /\ LookupInv /\ MergeOK /\ NothingLost
  BY DEF IInv, LookupInv
<1>2. MergeOK'
  BY <1>1, MergeOKFrame DEF Create, TypeOK
<1> DEFINE n == Len(region)
<1>3. /\ n \in Nat /\ Index = 1..n /\ Index' = 1..(n + 1) /\ merged' = merged
      /\ \A r \in 1..(n + 1) : r \in 1..n \/ r = n + 1
  <2>1. n \in Nat /\ Len(region') = n + 1
    BY <1>1, LenProperties, AppendProperties DEF Create, TypeOK
  <2>2. QED
    BY <2>1 DEF Index, Create
<1>4. /\ \A r \in 1..n : total'[r] = total[r]
      /\ total'[n + 1] = [f \in Field |-> 0]
  <2>1. total \in Seq([Field -> Nat]) /\ Len(total) = n
        /\ total' = Append(total, [f \in Field |-> 0])
    BY <1>1 DEF TypeOK, Create
  <2>2. QED
    BY <2>1, AppendProperties
<1>5. ASSUME NEW r \in 1..(n + 1), NEW f \in Field
      PROVE  total'[r][f] = Cardinality({u \in Thread : <<r, f>> \in merged[u]})
  <2>1. CASE r \in 1..n
    BY <1>1, <1>3, <1>4, <2>1 DEF NothingLost
  <2>2. CASE r = n + 1
    <3>1. \A u \in Thread : <<r, f>> \notin merged[u]
      BY <1>1, <1>3, <2>2, MergedExist
    <3>2. {u \in Thread : <<r, f>> \in merged[u]} = {}
      BY <3>1
    <3>3. QED
      BY <1>4, <2>2, <3>2, FS_EmptySet
  <2>3. QED
    BY <1>3, <2>1, <2>2
<1>6. QED
  BY <1>2, <1>3, <1>5 DEF NothingLost

(* A step of the merge of thread t leaves the others alone.                *)
LEMMA MergeOthers ==
  ASSUME LookupInv, MergeOK, NEW t \in Thread, local' = local,
         \A u \in Thread \ {t} :
           pc'[u] = pc[u] /\ add'[u] = add[u] /\ todo'[u] = todo[u] /\ merged'[u] = merged[u],
         MergeOf(t)'
  PROVE  MergeOK'
<1> SUFFICES ASSUME NEW u \in Thread \ {t} PROVE MergeOf(u)'
  BY DEF MergeOK
<1>1. Merged(u)' = Merged(u)
  BY DEF Merged
<1>2. MergeOf(u)
  BY DEF MergeOK
<1>3. QED
  BY <1>1, <1>2 DEF MergeOf

(* When a thread ends it has added nothing.                                *)
LEMMA MergeThreadEndStep ==
  ASSUME IInv, NEW t \in Thread, ThreadEnd(t)
  PROVE  MergeOK' /\ NothingLost'
<1>1. /\ pc[t] = "run" /\ pc'[t] = "merge" /\ todo'[t] = DOMAIN local[t] /\ merged[t] = {}
      /\ UNCHANGED <<region, total, local, merged, add>>
      /\ \A u \in Thread \ {t} : pc'[u] = pc[u] /\ todo'[u] = todo[u]
  BY DEF ThreadEnd, IInv, LookupInv, TypeOK, MergeOK, MergeOf
<1>2. Merged(t)' = {}
  BY <1>1 DEF Merged
<1>3. MergeOf(t)'
  BY <1>1, <1>2 DEF MergeOf
<1>4. QED
  BY <1>1, <1>3, MergeOthers, NothingLostFrame DEF IInv

(* The next region of the thread is one it has not added yet.              *)
LEMMA MergeFindGlobalStep ==
  ASSUME IInv, NEW t \in Thread, NEW k, FindGlobal(t, k)
  PROVE  MergeOK' /\ NothingLost'
<1> DEFINE r == local[t][k]
<1>1. /\ pc[t] = "merge" /\ pc'[t] = "load" /\ k \in todo[t] /\ todo'[t] = todo[t] \ {k}
      /\ add'[t].region = map[k] /\ add'[t].field = 1
      /\ UNCHANGED <<region, total, local, merged>>
      /\ \A u \in Thread \ {t} : pc'[u] = pc[u] /\ todo'[u] = todo[u] /\ add'[u] = add[u]
      /\ todo[t] \subseteq DOMAIN local[t] /\ merged[t] = Merged(t) \X Field
  BY DEF FindGlobal, IInv, LookupInv, TypeOK, MergeOK, MergeOf
<1>2. map[k] = r /\ k \in DOMAIN local[t]
  BY <1>1 DEF IInv, LookupInv, LocalIsGlobal
<1>3. r \notin Merged(t)
  BY <1>1, <1>2, LocalInjective DEF Merged, IInv
<1>4. Merged(t)' = Merged(t) \cup {r}
  BY <1>1, <1>2 DEF Merged
<1>5. 1..(1 - 1) = {}
  OBVIOUS
<1>6. MergeOf(t)'
  <2> HIDE DEF r
  <2>1. merged'[t] = ((Merged(t)' \ {r}) \X Field) \cup ({r} \X (1..(1 - 1)))
    BY <1>1, <1>3, <1>4, <1>5
  <2>2. QED
    BY <1>1, <1>2, <1>4, <2>1 DEF MergeOf
<1>7. QED
  BY <1>1, <1>6, MergeOthers, NothingLostFrame DEF IInv

(* A load adds nothing.                                                    *)
LEMMA MergeLoadStep ==
  ASSUME IInv, NEW t \in Thread, Load(t)
  PROVE  MergeOK' /\ NothingLost'
<1>1. /\ pc[t] = "load" /\ pc'[t] = "exchange"
      /\ add'[t].region = add[t].region /\ add'[t].field = add[t].field
      /\ UNCHANGED <<region, total, local, todo, merged>>
      /\ \A u \in Thread \ {t} : pc'[u] = pc[u] /\ add'[u] = add[u]
  BY DEF Load, IInv, LookupInv, TypeOK
<1>2. Merged(t)' = Merged(t)
  BY <1>1 DEF Merged
<1>3. MergeOf(t)'
  BY <1>1, <1>2 DEF IInv, MergeOK, MergeOf
<1>4. QED
  BY <1>1, <1>3, MergeOthers, NothingLostFrame DEF IInv

(* A thread that has ended has added everything.                           *)
LEMMA MergeThreadEndedStep ==
  ASSUME IInv, NEW t \in Thread, ThreadEnded(t)
  PROVE  MergeOK' /\ NothingLost'
<1>1. /\ pc[t] = "merge" /\ pc'[t] = "ended" /\ todo[t] = {}
      /\ UNCHANGED <<region, total, local, todo, merged, add>>
      /\ \A u \in Thread \ {t} : pc'[u] = pc[u]
  BY DEF ThreadEnded, IInv, LookupInv, TypeOK
<1>2. Merged(t)' = Merged(t)
  BY <1>1 DEF Merged
<1>3. MergeOf(t)'
  BY <1>1, <1>2 DEF IInv, MergeOK, MergeOf
<1>4. QED
  BY <1>1, <1>3, MergeOthers, NothingLostFrame DEF IInv

(* A successful exchange adds to a counter the thread has not added to yet; *)
(* a failed one adds nothing.                                              *)
LEMMA MergeExchangeStep ==
  ASSUME IInv, NEW t \in Thread, Exchange(t)
  PROVE  MergeOK' /\ NothingLost'
<1> DEFINE r == add[t].region
           f == add[t].field
           M == Merged(t)
<1>1. /\ pc[t] = "exchange" /\ r \in Index /\ f \in Field /\ f \in Nat
      /\ UNCHANGED <<flatProfile, region, map, RegionList, regionIds, children, holder, local, todo, ask>>
  BY ExchangeCases DEF IInv
<1>2. /\ MergeOf(t) /\ r \in M
      /\ merged[t] = ((M \ {r}) \X Field) \cup ({r} \X (1..(f - 1)))
  BY <1>1 DEF IInv, MergeOK, MergeOf
<1>3. M' = M
  BY <1>1 DEF Merged
<1>4. TypeOK
  BY DEF IInv, LookupInv
<1>5. CASE /\ add' = [add EXCEPT ![t].old = total[r][f]]
           /\ UNCHANGED <<total, merged, pc>>
  <2>1. add'[t].region = r /\ add'[t].field = f
    BY <1>4, <1>5 DEF TypeOK
  <2>2. MergeOf(t)'
    BY <1>1, <1>2, <1>3, <1>5, <2>1 DEF MergeOf
  <2>3. \A u \in Thread \ {t} : add'[u] = add[u]
    BY <1>4, <1>5 DEF TypeOK
  <2>4. QED
    BY <1>1, <1>5, <2>2, <2>3, MergeOthers, NothingLostFrame DEF IInv
<1>6. CASE /\ \A q \in Index, g \in Field :
                total'[q][g] = IF q = r /\ g = f THEN total[q][g] + 1 ELSE total[q][g]
           /\ merged' = [merged EXCEPT ![t] = @ \cup {<<r, f>>}]
           /\ Added(t, r, f)
  <2>1. /\ merged'[t] = ((M \ {r}) \X Field) \cup ({r} \X (1..f))
        /\ <<r, f>> \notin merged[t]
        /\ \A u \in Thread \ {t} : merged'[u] = merged[u]
    <3>1. 1..f = (1..(f - 1)) \cup {f} /\ f \notin 1..(f - 1)
      <4> HIDE DEF f
      <4>1. f \in Nat /\ 1 <= f
        BY <1>1 DEF Field
      <4>2. QED
        BY <4>1
    <3>2. merged'[t] = merged[t] \cup {<<r, f>>} /\ \A u \in Thread \ {t} : merged'[u] = merged[u]
      BY <1>4, <1>6 DEF TypeOK
    <3> HIDE DEF r, f, M
    <3>3. QED
      BY <1>2, <3>1, <3>2
  <2>2. MergeOK'
    <3>1. CASE f < NField
      <4>1. /\ add'[t].region = r /\ add'[t].field = f + 1 /\ pc'[t] = "load"
            /\ \A u \in Thread \ {t} : pc'[u] = pc[u] /\ add'[u] = add[u]
        <5>1. /\ add' = [add EXCEPT ![t] = [@ EXCEPT !.field = f + 1, !.old = 0]]
              /\ pc' = [pc EXCEPT ![t] = "load"]
          BY <1>6, <3>1 DEF Added
        <5>2. QED
          BY <1>4, <5>1 DEF TypeOK
      <4>2. f + 1 - 1 = f
        BY <1>1
      <4>3. MergeOf(t)'
        BY <1>1, <1>2, <1>3, <2>1, <4>1, <4>2 DEF MergeOf
      <4>4. QED
        BY <1>1, <2>1, <4>1, <4>3, MergeOthers DEF IInv
    <3>2. CASE ~(f < NField)
      <4>1. /\ pc'[t] = "merge"
            /\ \A u \in Thread \ {t} : pc'[u] = pc[u] /\ add'[u] = add[u]
        BY <1>4, <1>6, <3>2 DEF TypeOK, Added
      <4>2. 1..f = Field
        BY <1>1, <3>2, RegionMapAssumption DEF Field
      <4>3. merged'[t] = M \X Field
        BY <1>2, <2>1, <4>2
      <4>4. MergeOf(t)'
        BY <1>1, <1>2, <1>3, <4>1, <4>3 DEF MergeOf
      <4>5. QED
        BY <1>1, <2>1, <4>1, <4>4, MergeOthers DEF IInv
    <3>3. QED
      BY <3>1, <3>2
  <2>3. ASSUME NEW q \in Index, NEW g \in Field
        PROVE  total'[q][g] = Cardinality({u \in Thread : <<q, g>> \in merged'[u]})
    <3> DEFINE T == {u \in Thread : <<q, g>> \in merged[u]}
    <3>1. total[q][g] = Cardinality(T)
      BY DEF IInv, NothingLost
    <3>2. CASE q = r /\ g = f
      <4>1. {u \in Thread : <<q, g>> \in merged'[u]} = T \cup {t} /\ t \notin T
        BY <1>4, <1>6, <2>1, <3>2 DEF TypeOK
      <4>2. IsFiniteSet(T)
        BY RegionMapAssumption, FS_Subset
      <4>3. Cardinality(T \cup {t}) = Cardinality(T) + 1
        BY <4>1, <4>2, FS_AddElement
      <4>4. total'[q][g] = total[q][g] + 1
        BY <1>6, <3>2
      <4>5. QED
        BY <3>1, <4>1, <4>3, <4>4
    <3>3. CASE ~(q = r /\ g = f)
      <4>1. {u \in Thread : <<q, g>> \in merged'[u]} = T
        BY <1>4, <1>6, <2>1, <3>3 DEF TypeOK
      <4>2. QED
        BY <1>6, <3>1, <3>3, <4>1
    <3>4. QED
      BY <3>2, <3>3
  <2>4. NothingLost'
    BY <1>1, <2>3 DEF NothingLost, Index
  <2>5. QED
    BY <2>2, <2>4
<1>7. QED
  BY <1>5, <1>6, ExchangeCases DEF IInv

-----------------------------------------------------------------------------
(* A new region is in the map and has the next number below its parent;     *)
(* all others keep theirs.                                                 *)
LEMMA ChildCreateStep ==
  ASSUME LookupInv, ChildOK, NEW t \in Thread, Create(t)
  PROVE  ChildOK'
<1> DEFINE n == Len(region)
           above == Above(t)
<1>1. /\ n \in Nat /\ Index = 1..n /\ Index' = 1..(n + 1)
      /\ \A r \in 1..n : region'[r] = region[r]
      /\ region'[n + 1] = NewRegion(t)
      /\ \A r \in Index' : r \in 1..n \/ r = n + 1
      /\ 1..n \subseteq 1..(n + 1)
  <2>1. /\ n \in Nat /\ Len(region') = n + 1
        /\ \A r \in 1..n : region'[r] = region[r]
        /\ region'[n + 1] = NewRegion(t)
    BY LenProperties, AppendProperties DEF Create, LookupInv, TypeOK
  <2>2. QED
    BY <2>1 DEF Index
<1>2. /\ above \in 0..n
      /\ \A r \in 1..n : /\ children[r] \in Nat
                         /\ children'[r] = IF r = above THEN children[r] + 1 ELSE children[r]
      /\ children'[n + 1] = 0
  BY ChildrenStep DEF LookupInv
<1>3. /\ NewRegion(t).parent = above
      /\ above # 0 => NewRegion(t).child = children[above] + 1 /\ above \in 1..n
  BY <1>1, <1>2 DEF NewRegion
<1>4. \A r \in 1..n : region[r].parent \in 0..n /\ (region[r].parent # 0 => region[r].parent \in 1..n)
  <2>1. \A r \in 1..n : region[r].parent \in 0..n
    BY <1>1 DEF LookupInv, RegionOK
  <2>2. \A p \in 0..n : p # 0 => p \in 1..n
    BY <1>1
  <2>3. QED
    BY <2>1, <2>2
<1> HIDE DEF above, n
<1>5. AllMapped'
  <2>1. /\ DOMAIN map' = DOMAIN map \cup {Asked(t)} /\ map'[Asked(t)] = n + 1
        /\ \A k \in DOMAIN map : map'[k] = map[k]
    BY DEF LookupInv, Found, Create, With, n
  <2>2. \A r \in 1..n : \E k \in DOMAIN map : map[k] = r
    BY <1>1 DEF ChildOK, AllMapped
  <2>3. \A r \in 1..n : \E k \in DOMAIN map' : map'[k] = r
    BY <2>1, <2>2
  <2>4. QED
    BY <1>1, <2>1, <2>3 DEF AllMapped
<1>6. ChildInRange'
  <2>1. ASSUME NEW r \in 1..n, region[r].parent # 0
        PROVE  region'[r].child \in 1..children'[region'[r].parent]
    <3>1. region[r].child \in 1..children[region[r].parent] /\ region[r].parent \in 1..n
      BY <1>1, <1>4, <2>1 DEF ChildOK, ChildInRange
    <3>2. /\ children[region[r].parent] \in Nat
          /\ children'[region[r].parent] \in {children[region[r].parent], children[region[r].parent] + 1}
      BY <1>2, <3>1
    <3>3. region[r].child \in 1..children'[region[r].parent]
      BY <3>1, <3>2
    <3>4. QED
      BY <1>1, <3>3
  <2>2. ASSUME above # 0
        PROVE  NewRegion(t).child \in 1..children'[above]
    BY <1>2, <1>3, <2>2
  <2>3. QED
    BY <1>1, <1>3, <2>1, <2>2 DEF ChildInRange
<1>7. ChildUnique'
  <2>1. ASSUME NEW r \in 1..n, region[r].parent = above, above # 0
        PROVE  region[r].child # NewRegion(t).child
    <3>1. region[r].child \in 1..children[above] /\ children[above] \in Nat
      BY <1>1, <1>2, <1>3, <2>1 DEF ChildOK, ChildInRange
    <3>2. QED
      BY <1>3, <2>1, <3>1
  <2>2. ASSUME NEW r \in 1..n, NEW s \in 1..n, region[r].parent # 0,
               region[r].parent = region[s].parent, region[r].child = region[s].child
        PROVE  r = s
    BY <1>1, <2>2 DEF ChildOK, ChildUnique
  <2>3. QED
    BY <1>1, <1>3, <2>1, <2>2 DEF ChildUnique
<1>8. ChildFound'
  <2>1. ASSUME NEW p \in 1..n, NEW i \in 1..children'[p]
        PROVE  \E r \in Index' : region'[r].parent = p /\ region'[r].child = i
    <3>1. CASE i \in 1..children[p]
      <4>1. \E r \in 1..n : region[r].parent = p /\ region[r].child = i
        BY <1>1, <3>1 DEF ChildOK, ChildFound
      <4>2. QED
        BY <1>1, <4>1
    <3>2. CASE i \notin 1..children[p]
      <4>1. p = above /\ i = children[p] + 1
        BY <1>2, <2>1, <3>2
      <4>2. above # 0 /\ n + 1 \in Index'
        BY <1>1, <4>1
      <4>3. QED
        BY <1>1, <1>3, <4>1, <4>2
    <3>3. QED
      BY <3>1, <3>2
  <2>2. \A i \in 1..children'[n + 1] : FALSE
    BY <1>2
  <2>3. QED
    BY <1>1, <2>1, <2>2 DEF ChildFound
<1>9. QED
  BY <1>5, <1>6, <1>7, <1>8 DEF ChildOK

(* Every step but the creation of a region leaves the numbers alone.       *)
LEMMA ChildStep ==
  ASSUME LookupInv, ChildOK, [Next]_vars
  PROVE  ChildOK'
<1>1. CASE UNCHANGED <<region, children, map>>
  BY <1>1 DEF ChildOK, AllMapped, ChildInRange, ChildUnique, ChildFound, Index
<1>2. ASSUME NEW t \in Thread, Step(t)
      PROVE  UNCHANGED <<region, children, map>> \/ Create(t)
  BY <1>2 DEF Step, Lock, Find, Push, Unlock, Remember, FindGlobal, Load, Exchange, ThreadEnded
<1>3. UNCHANGED <<region, children, map>> \/ \E t \in Thread : Create(t)
  BY <1>2 DEF Next, Done, vars, GetThreadRegionData, ThreadEnd
<1>4. QED
  BY <1>1, <1>3, ChildCreateStep

-----------------------------------------------------------------------------
(* No addition is lost: the invariant of the whole module.                 *)
THEOREM Invariance == Spec => []IInv
<1>1. Init => IInv
  <2>1. Init => MergeOK /\ NothingLost /\ ChildOK
    BY DEF Init, MergeOK, MergeOf, NothingLost, ChildOK, AllMapped, ChildInRange,
           ChildUnique, ChildFound, Index
  <2>2. QED
    BY <2>1, InitLookup DEF IInv
<1>2. IInv /\ [Next]_vars => IInv'
  <2> SUFFICES ASSUME IInv, [Next]_vars PROVE MergeOK' /\ NothingLost'
    BY NextLookup, ChildStep DEF IInv
  <2>1. CASE UNCHANGED vars
    BY <2>1, MergeOKFrame, NothingLostFrame DEF vars, IInv
  <2>2. ASSUME NEW t \in Thread, Step(t)
        PROVE  MergeOK' /\ NothingLost'
    BY <2>2, MergeLookupStep, MergeCreateStep, MergeFindGlobalStep, MergeLoadStep,
       MergeExchangeStep, MergeThreadEndedStep DEF Step
  <2>3. QED
    BY <2>1, <2>2, MergeLookupStep, MergeThreadEndStep DEF Next, Done
<1>3. QED
  BY <1>1, <1>2, PTL DEF Spec

(* A counter is the sum of what the threads have added to it, however many  *)
(* threads end at the same time.                                           *)
THEOREM NoAdditionLost == Spec => []NothingLost
BY Invariance, PTL DEF IInv

(* A thread that has ended has added all that it measured.                 *)
THEOREM EverythingIsMerged == Spec => []AllMerged
<1>1. ASSUME IInv, NEW t \in Thread, pc[t] = "ended"
      PROVE  merged[t] = {local[t][k] : k \in DOMAIN local[t]} \X Field
  <2>1. todo[t] = {} /\ merged[t] = Merged(t) \X Field
    BY <1>1 DEF IInv, MergeOK, MergeOf
  <2>2. QED
    BY <2>1 DEF Merged
<1>2. IInv => AllMerged
  BY <1>1 DEF AllMerged
<1>3. QED
  BY <1>2, Invariance, PTL

(* The printed regions below a parent are numbered from 1 to the children  *)
(* it has counted, each number once: no region was created in vain.        *)
THEOREM SiblingsAreNumbered == Spec => []SiblingsNumbered
<1> DEFINE Printed == {RegionList[i] : i \in 1..Len(RegionList)}
<1>1. ASSUME IInv, holder = None
      PROVE  Printed = Index
  <2>1. \A u \in Thread : pc[u] # "push"
    BY <1>1, RegionMapAssumption DEF IInv, LookupInv, MutexHeld
  <2>2. Printed = {map[k] : k \in DOMAIN map}
    BY <1>1, <2>1 DEF IInv, LookupInv, Listed
  <2>3. {map[k] : k \in DOMAIN map} = Index
    BY <1>1 DEF IInv, LookupInv, TypeOK, ChildOK, AllMapped
  <2>4. QED
    BY <2>2, <2>3
<1>2. ASSUME IInv, holder = None, NEW p \in Index
      PROVE  LET below == {r \in Printed : region[r].parent = p} IN
             /\ {region[r].child : r \in below} = 1..children[p]
             /\ \A r, s \in below : region[r].child = region[s].child => r = s
  <2> DEFINE below == {r \in Printed : region[r].parent = p}
  <2>1. below = {r \in Index : region[r].parent = p} /\ p # 0
    BY <1>1, <1>2 DEF Index
  <2> HIDE DEF below
  <2>2. ASSUME NEW r \in below
        PROVE  region[r].child \in 1..children[p]
    BY <1>2, <2>1 DEF IInv, ChildOK, ChildInRange
  <2>3. ASSUME NEW i \in 1..children[p]
        PROVE  \E r \in below : region[r].child = i
    BY <1>2, <2>1 DEF IInv, ChildOK, ChildFound
  <2>4. \A r, s \in below : region[r].child = region[s].child => r = s
    BY <1>2, <2>1 DEF IInv, ChildOK, ChildUnique
  <2>5. {region[r].child : r \in below} = 1..children[p]
    BY <2>2, <2>3
  <2>6. QED
    BY <2>4, <2>5 DEF below
<1>3. IInv => SiblingsNumbered
  BY <1>2 DEF SiblingsNumbered
<1>4. QED
  BY <1>3, Invariance, PTL
=============================================================================
