---------------------------- MODULE DataPoolProofs ----------------------------
(***************************************************************************)
(* Proofs about DataPool for any set of threads, any page size and any     *)
(* demand.  PlaceInv is inductive: the safety properties about where the   *)
(* objects are follow from it.                                             *)
(***************************************************************************)
EXTENDS DataPool, SequenceFacts, FiniteSetTheorems

-----------------------------------------------------------------------------
(* The inductive invariant holds when the program starts.                  *)
LEMMA InitInv == Init => PlaceInv
<1> SUFFICES ASSUME Init PROVE PlaceInv
  OBVIOUS
<1>1. TypeOK
  BY EmptySeq DEF Init, TypeOK, Label, Obj
<1>2. MutexHeld /\ ArgIsObj /\ CountOK /\ GetDataKnows
  BY DEF Init, MutexHeld, Inside, ArgIsObj, CountOK, Uncounted, GetDataKnows
<1>3. OnePlace
  BY DEF Init, OnePlace, VectorOf, NotIn, Carrying
<1>4. QED
  BY <1>1, <1>2, <1>3 DEF PlaceInv

-----------------------------------------------------------------------------
(* A step that leaves the vectors alone and starts to carry nothing.       *)
LEMMA OnePlaceFrame ==
  ASSUME OnePlace,
         UNCHANGED <<DataPointer, RemoteDataPointer, owner, inUse>>,
         \A u \in Thread : Carrying(u)' => Carrying(u) /\ arg'[u] = arg[u]
  PROVE  OnePlace'
BY DEF OnePlace, VectorOf, NotIn, Obj

(* getData preserves it: an empty vector is what newDatas starts from.     *)
LEMMA GetDataStep ==
  ASSUME PlaceInv, NEW t \in Thread, GetData(t)
  PROVE  PlaceInv'
<1> USE DEF GetData, GoTo
<1>1. TypeOK'
  BY DEF PlaceInv, TypeOK, Label, Obj
<1>2. MutexHeld' /\ ArgIsObj'
  BY DEF PlaceInv, TypeOK, MutexHeld, ArgIsObj, Inside, Obj
<1>3. CountOK' /\ GetDataKnows'
  BY DEF PlaceInv, TypeOK, CountOK, Uncounted, GetDataKnows
<1>4. OnePlace'
  BY OnePlaceFrame DEF PlaceInv, TypeOK, Carrying
<1>5. QED
  BY <1>1, <1>2, <1>3, <1>4 DEF PlaceInv

(* The unlocked read of remote preserves it: remote only grows until the   *)
(* swap.                                                                   *)
LEMMA NewDatasStep ==
  ASSUME PlaceInv, NEW t \in Thread, NewDatas(t)
  PROVE  PlaceInv'
<1> USE DEF NewDatas, GoTo
<1>1. TypeOK'
  BY DEF PlaceInv, TypeOK, Label, Obj
<1>2. MutexHeld' /\ ArgIsObj'
  BY DEF PlaceInv, TypeOK, MutexHeld, ArgIsObj, Inside, Obj
<1>3. CountOK' /\ GetDataKnows'
  BY DEF PlaceInv, TypeOK, CountOK, Uncounted, GetDataKnows
<1>4. OnePlace'
  BY OnePlaceFrame DEF PlaceInv, TypeOK, Carrying
<1>5. QED
  BY <1>1, <1>2, <1>3, <1>4 DEF PlaceInv

(* The owner takes the mutex of its pool before the swap.                  *)
LEMMA LockSwapStep ==
  ASSUME PlaceInv, NEW t \in Thread, LockSwap(t)
  PROVE  PlaceInv'
<1> USE DEF LockSwap, Lock, GoTo
<1>1. TypeOK'
  BY DEF PlaceInv, TypeOK, Label, Obj
<1>2. MutexHeld' /\ ArgIsObj'
  BY DataPoolAssumption DEF PlaceInv, TypeOK, MutexHeld, ArgIsObj, Inside, Obj
<1>3. CountOK' /\ GetDataKnows'
  BY DEF PlaceInv, TypeOK, CountOK, Uncounted, GetDataKnows
<1>4. OnePlace'
  BY OnePlaceFrame DEF PlaceInv, TypeOK, Carrying
<1>5. QED
  BY <1>1, <1>2, <1>3, <1>4 DEF PlaceInv

(* The swap finds a vector that is not empty and leaves one that is.       *)
LEMMA SwapStep ==
  ASSUME PlaceInv, NEW t \in Thread, Swap(t)
  PROVE  PlaceInv'
<1> USE DEF Swap, GoTo
<1>1. TypeOK'
  BY DEF PlaceInv, TypeOK, Label, Obj
<1>2. MutexHeld' /\ ArgIsObj'
  BY DEF PlaceInv, TypeOK, MutexHeld, ArgIsObj, Inside, Obj
<1>3. DataPointer[t] = <<>> /\ ~Uncounted(t) /\ pc[t] # "clear" /\ remote[t] > 0
  BY DEF PlaceInv, TypeOK, GetDataKnows, MutexHeld, Inside, Uncounted
<1>4. RemoteDataPointer[t] # <<>>
  BY <1>3, EmptySeq DEF PlaceInv, TypeOK, CountOK
<1>5. CountOK' /\ GetDataKnows'
  BY <1>3, <1>4 DEF PlaceInv, TypeOK, CountOK, Uncounted, GetDataKnows
<1>6. OnePlace'
  <2>1. /\ DataPointer'[t] = RemoteDataPointer[t]
        /\ RemoteDataPointer'[t] = <<>>
        /\ \A p \in Thread \ {t} : /\ DataPointer'[p] = DataPointer[p]
                                   /\ RemoteDataPointer'[p] = RemoteDataPointer[p]
    BY <1>3 DEF PlaceInv, TypeOK
  <2>2. UNCHANGED <<owner, inUse, arg>> /\ \A u \in Thread : Carrying(u)' <=> Carrying(u)
    BY DEF PlaceInv, TypeOK, Carrying
  <2>3. ASSUME NEW p \in Thread
        PROVE  /\ VectorOf(DataPointer[p], p)'
               /\ VectorOf(RemoteDataPointer[p], p)'
               /\ \A i \in 1..Len(DataPointer'[p]) :
                    NotIn(DataPointer[p][i], RemoteDataPointer[p])'
    <3>1. CASE p = t
      BY <2>1, <2>2, <3>1, EmptySeq DEF PlaceInv, OnePlace, VectorOf, NotIn, Obj
    <3>2. CASE p # t
      BY <2>1, <2>2, <3>2 DEF PlaceInv, OnePlace, VectorOf, NotIn, Obj
    <3>3. QED
      BY <3>1, <3>2
  <2>4. ASSUME NEW u \in Thread, Carrying(u)'
        PROVE  /\ arg'[u] \in Obj' /\ arg'[u] \notin inUse'
               /\ \A p \in Thread :
                    NotIn(arg[u], DataPointer[p])' /\ NotIn(arg[u], RemoteDataPointer[p])'
               /\ \A v \in Thread : Carrying(v)' /\ arg'[v] = arg'[u] => v = u
    BY <2>1, <2>2, <2>4, EmptySeq DEF PlaceInv, OnePlace, NotIn, Obj
  <2>5. QED
    BY <2>3, <2>4 DEF OnePlace
<1>7. QED
  BY <1>1, <1>2, <1>5, <1>6 DEF PlaceInv

(* The reset of remote: nothing is in RemoteDataPointer, nobody appends.   *)
LEMMA ClearStep ==
  ASSUME PlaceInv, NEW t \in Thread, Clear(t)
  PROVE  PlaceInv'
<1> USE DEF Clear, GoTo
<1>1. TypeOK'
  BY DEF PlaceInv, TypeOK, Label, Obj
<1>2. MutexHeld' /\ ArgIsObj'
  BY SMTT(30) DEF PlaceInv, TypeOK, MutexHeld, ArgIsObj, Inside, Obj
<1>3. ~Uncounted(t) /\ RemoteDataPointer[t] = <<>>
  BY DEF PlaceInv, TypeOK, MutexHeld, Inside, Uncounted, CountOK
<1>4. CountOK' /\ GetDataKnows'
  BY <1>3, EmptySeq DEF PlaceInv, TypeOK, CountOK, Uncounted, GetDataKnows
<1>5. OnePlace'
  BY OnePlaceFrame DEF PlaceInv, TypeOK, Carrying
<1>6. QED
  BY <1>1, <1>2, <1>4, <1>5 DEF PlaceInv

(* The owner releases the mutex and goes on to take an object.             *)
LEMMA UnlockSwapStep ==
  ASSUME PlaceInv, NEW t \in Thread, UnlockSwap(t)
  PROVE  PlaceInv'
<1> USE DEF UnlockSwap, Unlock, GoTo
<1>1. TypeOK'
  BY DEF PlaceInv, TypeOK, Label, Obj
<1>2. MutexHeld' /\ ArgIsObj'
  BY DEF PlaceInv, TypeOK, MutexHeld, ArgIsObj, Inside, Obj
<1>3. CountOK' /\ GetDataKnows'
  BY DEF PlaceInv, TypeOK, CountOK, Uncounted, GetDataKnows
<1>4. OnePlace'
  BY OnePlaceFrame DEF PlaceInv, TypeOK, Carrying
<1>5. QED
  BY <1>1, <1>2, <1>3, <1>4 DEF PlaceInv

(* The objects of a new page have numbers no vector and no thread knows.   *)
LEMMA AllocateStep ==
  ASSUME PlaceInv, NEW t \in Thread, Allocate(t)
  PROVE  PlaceInv'
<1> USE DEF Allocate, GoTo
<1> DEFINE page == [i \in 1..ndatas |-> Len(owner) + i]
           mine == [i \in 1..ndatas |-> t]
<1>1. /\ owner \in Seq(Thread) /\ Len(owner) \in Nat /\ ndatas \in Nat \ {0}
      /\ page \in [1..ndatas -> Nat] /\ mine \in [1..ndatas -> Thread]
  BY DataPoolAssumption, LenProperties DEF PlaceInv, TypeOK
<1>2. /\ owner' \in Seq(Thread) /\ Len(owner') = Len(owner) + ndatas
      /\ \A i \in 1..Len(owner) : owner'[i] = owner[i]
      /\ \A i \in 1..ndatas : owner'[Len(owner) + i] = t
  <2> HIDE DEF mine
  <2>1. owner' = owner \o mine
    BY DEF mine
  <2>2. /\ owner \o mine \in Seq(Thread)
        /\ Len(owner \o mine) = Len(owner) + ndatas
        /\ \A i \in 1..Len(owner) + ndatas :
             (owner \o mine)[i] = IF i <= Len(owner) THEN owner[i] ELSE mine[i - Len(owner)]
    BY <1>1, ExtendFacts
  <2>3. \A i \in 1..ndatas : mine[i] = t
    BY DEF mine
  <2>4. ASSUME NEW i \in 1..ndatas
        PROVE  (owner \o mine)[Len(owner) + i] = t
    <3>1. /\ Len(owner) + i \in 1..Len(owner) + ndatas
          /\ ~(Len(owner) + i <= Len(owner)) /\ Len(owner) + i - Len(owner) = i
      BY <1>1
    <3>2. QED
      BY <2>2, <2>3, <3>1
  <2>5. \A i \in 1..Len(owner) : (owner \o mine)[i] = owner[i]
    BY <1>1, <2>2
  <2>6. QED
    BY <2>1, <2>2, <2>4, <2>5
<1>3. /\ DataPointer'[t] \in Seq(Nat) /\ Len(DataPointer'[t]) = ndatas
      /\ \A i \in 1..ndatas : DataPointer'[t][i] = Len(owner) + i
      /\ \A p \in Thread \ {t} : DataPointer'[p] = DataPointer[p]
  <2> HIDE DEF page
  <2>1. DataPointer[t] = <<>> /\ DataPointer'[t] = <<>> \o page
    BY DEF PlaceInv, TypeOK, GetDataKnows, page
  <2>2. page \in Seq(Nat) /\ Len(page) = ndatas
    BY <1>1
  <2>3. DataPointer'[t] = page
    BY <2>1, <2>2, ConcatEmptySeq
  <2>4. \A p \in Thread \ {t} : DataPointer'[p] = DataPointer[p]
    BY DEF PlaceInv, TypeOK
  <2>5. QED
    BY <2>2, <2>3, <2>4 DEF page
<1> HIDE DEF page, mine, Allocate
<1>4. Obj \subseteq Obj'
  BY <1>1, <1>2 DEF Obj
<1>5. TypeOK'
  <2>1. DataPointer' \in [Thread -> Seq(Nat)]
    BY <1>3 DEF PlaceInv, TypeOK, Allocate
  <2>2. total' \in [Thread -> Nat]
    <3>1. total \in [Thread -> Nat] /\ total' = [total EXCEPT ![t] = @ + ndatas]
      BY DEF PlaceInv, TypeOK, Allocate
    <3>2. QED
      BY <1>1, <3>1
  <2>3. QED
    BY <1>2, <1>4, <2>1, <2>2 DEF PlaceInv, TypeOK, Allocate, Label
<1>6. /\ pc[t] = "allocate" /\ pc' = [pc EXCEPT ![t] = "pop"]
      /\ UNCHANGED <<RemoteDataPointer, remote, DPMutex, inUse, arg>>
  BY DEF Allocate
<1>7. \A u \in Thread :
        /\ pc'[u] = IF u = t THEN "pop" ELSE pc[u]
        /\ pc[u] \in {"emplace", "count", "unlockReturn"}
             => arg[u] \in Obj /\ owner'[arg'[u]] = owner[arg[u]]
  BY <1>2, <1>6 DEF PlaceInv, TypeOK, ArgIsObj, Obj
<1>8. MutexHeld' /\ ArgIsObj' /\ CountOK'
  <2>1. \A u, p \in Thread : Inside(u, p)' => Inside(u, p)
    BY <1>6, <1>7 DEF Inside
  <2>2. MutexHeld'
    BY <1>6, <2>1 DEF PlaceInv, MutexHeld
  <2>3. ArgIsObj'
    BY <1>4, <1>6, <1>7 DEF PlaceInv, ArgIsObj
  <2>4. \A p \in Thread : Uncounted(p)' <=> Uncounted(p)
    BY <1>6, <1>7 DEF Uncounted
  <2>5. CountOK'
    BY <1>6, <1>7, <2>4 DEF PlaceInv, CountOK
  <2>6. QED
    BY <2>2, <2>3, <2>5
<1>9. GetDataKnows'
  BY <1>1, <1>3, EmptySeq DEF PlaceInv, TypeOK, GetDataKnows, Allocate
<1>10. OnePlace'
  <2>1. /\ UNCHANGED <<RemoteDataPointer, inUse, arg>>
        /\ \A u \in Thread : Carrying(u)' <=> Carrying(u)
    BY DEF PlaceInv, TypeOK, Carrying, Allocate
  <2>2. inUse \subseteq 1..Len(owner)
    BY DEF PlaceInv, TypeOK, Obj
  <2>3. ASSUME NEW p \in Thread
        PROVE  /\ VectorOf(DataPointer[p], p)'
               /\ VectorOf(RemoteDataPointer[p], p)'
               /\ \A i \in 1..Len(DataPointer'[p]) :
                    NotIn(DataPointer[p][i], RemoteDataPointer[p])'
    <3>1. VectorOf(RemoteDataPointer[p], p)'
      BY <1>1, <1>2, <1>4, <2>1 DEF PlaceInv, OnePlace, VectorOf, Obj
    <3>2. CASE p = t
      <4>1. VectorOf(DataPointer[p], p)'
        <5>1. /\ Len(DataPointer'[p]) = ndatas
              /\ \A i \in 1..ndatas : DataPointer'[p][i] = Len(owner) + i
          BY <1>3, <3>2
        <5>2. ASSUME NEW i \in 1..ndatas
              PROVE  /\ Len(owner) + i \in Obj'
                     /\ owner'[Len(owner) + i] = p
                     /\ Len(owner) + i \notin inUse'
                     /\ \A j \in 1..ndatas : Len(owner) + i = Len(owner) + j => i = j
          <6>1. Len(owner) + i \in 1..Len(owner) + ndatas /\ Len(owner) + i \notin 1..Len(owner)
            BY <1>1
          <6>2. owner'[Len(owner) + i] = p
            BY <1>2, <3>2
          <6>3. \A j \in 1..ndatas : Len(owner) + i = Len(owner) + j => i = j
            BY <1>1
          <6>4. QED
            BY <1>2, <2>1, <2>2, <6>1, <6>2, <6>3 DEF Obj
        <5>3. QED
          BY <5>1, <5>2 DEF VectorOf
      <4>2. \A j \in 1..Len(RemoteDataPointer'[p]) : RemoteDataPointer'[p][j] \in 1..Len(owner)
        BY <2>1 DEF PlaceInv, OnePlace, VectorOf, Obj
      <4>3. \A i \in 1..Len(DataPointer'[p]) : DataPointer'[p][i] \notin 1..Len(owner)
        BY <1>1, <1>3, <3>2
      <4>4. QED
        BY <3>1, <4>1, <4>2, <4>3 DEF NotIn
    <3>3. CASE p # t
      <4>1. DataPointer'[p] = DataPointer[p]
        BY <1>3, <3>3
      <4>2. VectorOf(DataPointer[p], p)'
        <5>1. VectorOf(DataPointer[p], p)
          BY DEF PlaceInv, OnePlace
        <5>2. \A x \in Obj : x \in Obj' /\ owner'[x] = owner[x]
          BY <1>2, <1>4 DEF Obj
        <5>3. QED
          BY <2>1, <4>1, <5>1, <5>2 DEF VectorOf
      <4>3. QED
        BY <2>1, <3>1, <4>1, <4>2 DEF PlaceInv, OnePlace, NotIn
    <3>4. QED
      BY <3>2, <3>3
  <2>4. ASSUME NEW u \in Thread, Carrying(u)'
        PROVE  /\ arg'[u] \in Obj' /\ arg'[u] \notin inUse'
               /\ \A p \in Thread :
                    NotIn(arg[u], DataPointer[p])' /\ NotIn(arg[u], RemoteDataPointer[p])'
               /\ \A v \in Thread : Carrying(v)' /\ arg'[v] = arg'[u] => v = u
    <3>1. /\ arg[u] \in Obj /\ arg[u] \notin inUse
          /\ \A p \in Thread : NotIn(arg[u], DataPointer[p]) /\ NotIn(arg[u], RemoteDataPointer[p])
          /\ \A v \in Thread : Carrying(v) /\ arg[v] = arg[u] => v = u
      BY <2>1, <2>4 DEF PlaceInv, OnePlace
    <3>2. \A i \in 1..Len(DataPointer'[t]) : DataPointer'[t][i] \notin Obj
      BY <1>1, <1>3 DEF Obj
    <3>3. QED
      BY <1>3, <1>4, <2>1, <3>1, <3>2 DEF NotIn
  <2>5. QED
    BY <2>3, <2>4 DEF OnePlace
<1>11. QED
  BY <1>5, <1>8, <1>9, <1>10 DEF PlaceInv

(* The object handed out leaves the only place it was in.                  *)
LEMMA PopStep ==
  ASSUME PlaceInv, NEW t \in Thread, Pop(t)
  PROVE  PlaceInv'
<1> DEFINE s == DataPointer[t]
           f == SubSeq(s, 1, Len(s) - 1)
           x == s[Len(s)]
<1>1. /\ s \in Seq(Nat) /\ s # <<>> /\ DataPointer' = [DataPointer EXCEPT ![t] = f]
      /\ inUse' = inUse \cup {x}
      /\ UNCHANGED <<RemoteDataPointer, remote, total, DPMutex, owner, arg>>
      /\ pc' = [pc EXCEPT ![t] = "idle"] /\ pc[t] = "pop"
  BY DEF Pop, GoTo, PlaceInv, TypeOK
<1>2. /\ Len(s) \in Nat \ {0} /\ f \in Seq(Nat) /\ Len(f) = Len(s) - 1
      /\ \A i \in 1..Len(s) - 1 : f[i] = s[i]
  BY <1>1, PopFacts
<1> HIDE DEF f
<1>3. x \in Obj /\ owner[x] = t /\ x \notin inUse
  BY <1>2 DEF PlaceInv, OnePlace, VectorOf
<1>4. /\ DataPointer'[t] = f
      /\ \A p \in Thread \ {t} : DataPointer'[p] = DataPointer[p]
  BY <1>1 DEF PlaceInv, TypeOK
<1>5. TypeOK'
  BY <1>1, <1>2, <1>3 DEF PlaceInv, TypeOK, Label, Obj
<1>6. MutexHeld' /\ ArgIsObj' /\ CountOK' /\ GetDataKnows'
  <2>1. \A u \in Thread : pc'[u] = IF u = t THEN "idle" ELSE pc[u]
    BY <1>1 DEF PlaceInv, TypeOK
  <2>2. MutexHeld' /\ ArgIsObj'
    BY <1>1, <2>1 DEF PlaceInv, MutexHeld, ArgIsObj, Inside, Obj
  <2>3. CountOK'
    BY <1>1, <2>1 DEF PlaceInv, CountOK, Uncounted
  <2>4. GetDataKnows'
    BY <1>1, <1>4, <2>1 DEF PlaceInv, GetDataKnows
  <2>5. QED
    BY <2>2, <2>3, <2>4
<1>7. OnePlace'
  <2>1. \A u \in Thread : Carrying(u)' <=> Carrying(u)
    BY <1>1 DEF PlaceInv, TypeOK, Carrying
  <2>2. \A p \in Thread \ {t} : NotIn(x, DataPointer[p])
    BY <1>3 DEF PlaceInv, OnePlace, VectorOf, NotIn
  <2>3. \A p \in Thread : NotIn(x, RemoteDataPointer[p])
    BY <1>2, <1>3 DEF PlaceInv, OnePlace, VectorOf, NotIn
  <2>4. NotIn(x, f)
    BY <1>2 DEF PlaceInv, OnePlace, VectorOf, NotIn
  <2>5. ASSUME NEW p \in Thread
        PROVE  /\ VectorOf(DataPointer[p], p)'
               /\ VectorOf(RemoteDataPointer[p], p)'
               /\ \A i \in 1..Len(DataPointer'[p]) :
                    NotIn(DataPointer[p][i], RemoteDataPointer[p])'
    <3>1. VectorOf(RemoteDataPointer[p], p)'
      BY <1>1, <2>3 DEF PlaceInv, OnePlace, VectorOf, NotIn, Obj
    <3>2. CASE p = t
      <4>1. \A i \in 1..Len(f) : i \in 1..Len(s) /\ f[i] = s[i] /\ f[i] # x
        <5>1. \A i \in 1..Len(f) : f[i] # x
          BY <2>4 DEF NotIn
        <5>2. \A i \in 1..Len(f) : i \in 1..Len(s) - 1 /\ i \in 1..Len(s)
          BY <1>2
        <5>3. QED
          BY <1>2, <5>1, <5>2
      <4>2. VectorOf(s, t) /\ \A i \in 1..Len(s) : NotIn(s[i], RemoteDataPointer[t])
        BY DEF PlaceInv, OnePlace
      <4>3. \A i \in 1..Len(f) : f[i] \in Obj /\ owner[f[i]] = t /\ f[i] \notin inUse \cup {x}
        BY <4>1, <4>2 DEF VectorOf
      <4>4. \A i, j \in 1..Len(f) : f[i] = f[j] => i = j
        BY <4>1, <4>2 DEF VectorOf
      <4>5. \A i \in 1..Len(f) : NotIn(f[i], RemoteDataPointer[t])
        BY <4>1, <4>2
      <4>6. QED
        BY <1>1, <1>4, <3>1, <3>2, <4>3, <4>4, <4>5 DEF VectorOf, NotIn, Obj
    <3>3. CASE p # t
      BY <1>1, <1>4, <2>2, <3>1, <3>3 DEF PlaceInv, OnePlace, VectorOf, NotIn, Obj
    <3>4. QED
      BY <3>2, <3>3
  <2>6. ASSUME NEW u \in Thread, Carrying(u)'
        PROVE  /\ arg'[u] \in Obj' /\ arg'[u] \notin inUse'
               /\ \A p \in Thread :
                    NotIn(arg[u], DataPointer[p])' /\ NotIn(arg[u], RemoteDataPointer[p])'
               /\ \A v \in Thread : Carrying(v)' /\ arg'[v] = arg'[u] => v = u
    BY SMTT(30), <1>1, <1>2, <1>4, <2>1, <2>6 DEF PlaceInv, OnePlace, NotIn, Obj
  <2>7. QED
    BY <2>5, <2>6 DEF OnePlace
<1>8. QED
  BY <1>5, <1>6, <1>7 DEF PlaceInv

-----------------------------------------------------------------------------
(* The pool of an object is the pool of a thread.                          *)
LEMMA OwnerIsThread ==
  ASSUME TypeOK, NEW x \in Obj
  PROVE  owner[x] \in Thread
BY ElementOfSeq DEF TypeOK, Obj

(* Two threads are never inside the critical section of a pool.            *)
LEMMA Exclusion ==
  ASSUME MutexHeld, NEW u \in Thread, NEW v \in Thread, NEW p \in Thread,
         Inside(u, p), Inside(v, p)
  PROVE  u = v
BY DEF MutexHeld

(* An object in use is in no vector, so it can be appended to one.         *)
LEMMA ReturnOwnStep ==
  ASSUME PlaceInv, NEW t \in Thread, NEW x \in Obj, ReturnOwn(t, x)
  PROVE  PlaceInv'
<1> DEFINE s == DataPointer[t]
           e == Append(s, x)
<1>1. /\ s \in Seq(Nat) /\ Len(s) \in Nat /\ x \in Nat
      /\ pc[t] = "idle" /\ x \in inUse /\ owner[x] = t
      /\ DataPointer' = [DataPointer EXCEPT ![t] = e]
      /\ inUse' = inUse \ {x}
      /\ UNCHANGED <<RemoteDataPointer, remote, total, DPMutex, owner, pc, arg>>
  BY LenProperties DEF ReturnOwn, PlaceInv, TypeOK, Obj
<1>2. /\ e \in Seq(Nat) /\ Len(e) = Len(s) + 1
      /\ \A i \in 1..Len(s) + 1 :
           (i \in 1..Len(s) /\ e[i] = s[i]) \/ (i = Len(s) + 1 /\ e[i] = x)
  BY <1>1, AppendFacts
<1> HIDE DEF e
<1>3. DataPointer'[t] = e /\ \A p \in Thread \ {t} : DataPointer'[p] = DataPointer[p]
  BY <1>1 DEF PlaceInv, TypeOK
<1>4. TypeOK'
  BY <1>1, <1>2 DEF PlaceInv, TypeOK, Obj
<1>5. MutexHeld' /\ ArgIsObj' /\ CountOK'
  BY <1>1 DEF PlaceInv, MutexHeld, ArgIsObj, Inside, Obj, CountOK, Uncounted
<1>6. GetDataKnows'
  BY <1>1, <1>3 DEF PlaceInv, GetDataKnows
<1>7. OnePlace'
  <2>1. \A p \in Thread : NotIn(x, DataPointer[p]) /\ NotIn(x, RemoteDataPointer[p])
    BY <1>1 DEF PlaceInv, OnePlace, VectorOf, NotIn
  <2>2. \A i \in 1..Len(e) : (i \in 1..Len(s) /\ e[i] = s[i]) \/ (i = Len(s) + 1 /\ e[i] = x)
    BY <1>2
  <2>3. ASSUME NEW p \in Thread
        PROVE  /\ VectorOf(DataPointer[p], p)'
               /\ VectorOf(RemoteDataPointer[p], p)'
               /\ \A i \in 1..Len(DataPointer'[p]) :
                    NotIn(DataPointer[p][i], RemoteDataPointer[p])'
    <3>1. VectorOf(RemoteDataPointer[p], p)'
      BY <1>1 DEF PlaceInv, OnePlace, VectorOf, Obj
    <3>2. CASE p = t
      <4>1. VectorOf(s, t) /\ NotIn(x, s)
        BY <2>1 DEF PlaceInv, OnePlace
      <4>2. \A i \in 1..Len(e) : e[i] \in Obj /\ owner[e[i]] = t /\ e[i] \notin inUse \ {x}
        BY <1>1, <2>2, <4>1 DEF VectorOf
      <4>3. \A i, j \in 1..Len(e) : e[i] = e[j] => i = j
        BY <2>2, <4>1 DEF VectorOf, NotIn
      <4>4. \A i \in 1..Len(e) : NotIn(e[i], RemoteDataPointer[t])
        BY <2>1, <2>2 DEF PlaceInv, OnePlace
      <4>5. QED
        BY <1>1, <1>3, <3>1, <3>2, <4>2, <4>3, <4>4 DEF VectorOf, NotIn, Obj
    <3>3. CASE p # t
      BY <1>1, <1>3, <3>1, <3>3 DEF PlaceInv, OnePlace, VectorOf, NotIn, Obj
    <3>4. QED
      BY <3>2, <3>3
  <2>4. ASSUME NEW u \in Thread, Carrying(u)'
        PROVE  /\ arg'[u] \in Obj' /\ arg'[u] \notin inUse'
               /\ \A p \in Thread :
                    NotIn(arg[u], DataPointer[p])' /\ NotIn(arg[u], RemoteDataPointer[p])'
               /\ \A v \in Thread : Carrying(v)' /\ arg'[v] = arg'[u] => v = u
    <3>1. /\ arg[u] \in Obj /\ arg[u] \notin inUse
          /\ \A p \in Thread : NotIn(arg[u], DataPointer[p]) /\ NotIn(arg[u], RemoteDataPointer[p])
          /\ \A v \in Thread : Carrying(v) /\ arg[v] = arg[u] => v = u
      BY <1>1, <2>4 DEF PlaceInv, OnePlace, Carrying
    <3>2. NotIn(arg[u], e)
      BY <1>1, <2>2, <3>1 DEF NotIn
    <3>3. QED
      BY <1>1, <1>3, <3>1, <3>2 DEF NotIn, Obj, Carrying
  <2>5. QED
    BY <2>3, <2>4 DEF OnePlace
<1>8. QED
  BY <1>4, <1>5, <1>6, <1>7 DEF PlaceInv

(* Delete on another thread takes the object out of use.                   *)
LEMMA ReturnRemoteStep ==
  ASSUME PlaceInv, NEW t \in Thread, NEW x \in Obj, ReturnRemote(t, x)
  PROVE  PlaceInv'
<1>1. /\ pc[t] = "idle" /\ x \in inUse
      /\ arg' = [arg EXCEPT ![t] = x] /\ inUse' = inUse \ {x}
      /\ pc' = [pc EXCEPT ![t] = "lockReturn"]
      /\ UNCHANGED <<DataPointer, RemoteDataPointer, remote, total, DPMutex, owner>>
  BY DEF ReturnRemote, GoTo
<1>2. TypeOK'
  BY <1>1 DEF PlaceInv, TypeOK, Label, Obj
<1>3. \A u \in Thread : /\ pc'[u] = IF u = t THEN "lockReturn" ELSE pc[u]
                        /\ arg'[u] = IF u = t THEN x ELSE arg[u]
  BY <1>1 DEF PlaceInv, TypeOK
<1>4. MutexHeld' /\ ArgIsObj'
  BY <1>1, <1>3 DEF PlaceInv, MutexHeld, ArgIsObj, Inside, Obj
<1>5. CountOK'
  BY <1>1, <1>3 DEF PlaceInv, CountOK, Uncounted
<1>6. GetDataKnows'
  BY <1>1, <1>3 DEF PlaceInv, GetDataKnows
<1>7. OnePlace'
  <2>1. \A p \in Thread : NotIn(x, DataPointer[p]) /\ NotIn(x, RemoteDataPointer[p])
    BY <1>1 DEF PlaceInv, OnePlace, VectorOf, NotIn
  <2>2. \A u \in Thread : Carrying(u) => arg[u] # x
    BY <1>1 DEF PlaceInv, OnePlace
  <2>3. \A u \in Thread : Carrying(u)' <=> Carrying(u) \/ u = t
    BY <1>3 DEF Carrying
  <2>4. ASSUME NEW p \in Thread
        PROVE  /\ VectorOf(DataPointer[p], p)'
               /\ VectorOf(RemoteDataPointer[p], p)'
               /\ \A i \in 1..Len(DataPointer'[p]) :
                    NotIn(DataPointer[p][i], RemoteDataPointer[p])'
    BY <1>1 DEF PlaceInv, OnePlace, VectorOf, NotIn, Obj
  <2>5. ASSUME NEW u \in Thread, Carrying(u)'
        PROVE  /\ arg'[u] \in Obj' /\ arg'[u] \notin inUse'
               /\ \A p \in Thread :
                    NotIn(arg[u], DataPointer[p])' /\ NotIn(arg[u], RemoteDataPointer[p])'
               /\ \A v \in Thread : Carrying(v)' /\ arg'[v] = arg'[u] => v = u
    <3>1. CASE u = t
      BY <1>1, <1>3, <2>1, <2>2, <2>3, <3>1 DEF NotIn, Obj
    <3>2. CASE u # t
      <4>1. Carrying(u) /\ arg'[u] = arg[u]
        BY <1>3, <2>3, <2>5, <3>2
      <4>2. /\ arg[u] \in Obj /\ arg[u] \notin inUse
            /\ \A p \in Thread : NotIn(arg[u], DataPointer[p]) /\ NotIn(arg[u], RemoteDataPointer[p])
            /\ \A v \in Thread : Carrying(v) /\ arg[v] = arg[u] => v = u
        BY <4>1 DEF PlaceInv, OnePlace
      <4>3. QED
        BY <1>1, <1>3, <2>2, <2>3, <4>1, <4>2 DEF NotIn, Obj
    <3>3. QED
      BY <3>1, <3>2
  <2>6. QED
    BY <2>4, <2>5 DEF OnePlace
<1>8. QED
  BY <1>2, <1>4, <1>5, <1>6, <1>7 DEF PlaceInv

(* The returning thread takes the mutex of the pool of its object.         *)
LEMMA LockReturnStep ==
  ASSUME PlaceInv, NEW t \in Thread, LockReturn(t)
  PROVE  PlaceInv'
<1> DEFINE p == owner[arg[t]]
<1>1. /\ pc[t] = "lockReturn" /\ DPMutex[p] = None
      /\ DPMutex' = [DPMutex EXCEPT ![p] = t] /\ pc' = [pc EXCEPT ![t] = "emplace"]
      /\ UNCHANGED <<DataPointer, RemoteDataPointer, remote, total, owner, inUse, arg>>
  BY DEF LockReturn, Lock, GoTo
<1>2. p \in Thread
  BY <1>1, OwnerIsThread DEF PlaceInv, ArgIsObj
<1> HIDE DEF p
<1>3. TypeOK'
  BY <1>1, <1>2 DEF PlaceInv, TypeOK, Label, Obj
<1>4. /\ \A u \in Thread : pc'[u] = IF u = t THEN "emplace" ELSE pc[u]
      /\ \A q \in Thread : DPMutex'[q] = IF q = p THEN t ELSE DPMutex[q]
  BY <1>1, <1>2 DEF PlaceInv, TypeOK
<1>5. MutexHeld'
  BY <1>1, <1>4, DataPoolAssumption DEF PlaceInv, MutexHeld, Inside, p
<1>6. ArgIsObj' /\ CountOK' /\ GetDataKnows'
  BY <1>1, <1>4 DEF PlaceInv, ArgIsObj, Obj, CountOK, Uncounted, GetDataKnows
<1>7. OnePlace'
  BY <1>1, <1>4, OnePlaceFrame DEF PlaceInv, Carrying
<1>8. QED
  BY <1>3, <1>5, <1>6, <1>7 DEF PlaceInv

(* From the moment an object is in RemoteDataPointer nobody carries it.    *)
LEMMA EmplaceStep ==
  ASSUME PlaceInv, NEW t \in Thread, Emplace(t)
  PROVE  PlaceInv'
<1>0. pc[t] = "emplace" /\ arg[t] \in Obj /\ owner[arg[t]] \in Thread
  BY OwnerIsThread DEF Emplace, PlaceInv, ArgIsObj
<1> PICK x \in Obj : x = arg[t]
  BY <1>0
<1> PICK p \in Thread : p = owner[x]
  BY <1>0
<1> DEFINE s == RemoteDataPointer[p]
           e == Append(s, x)
<1>1. /\ pc[t] = "emplace" /\ pc' = [pc EXCEPT ![t] = "count"]
      /\ RemoteDataPointer' = [RemoteDataPointer EXCEPT ![p] = e]
      /\ UNCHANGED <<DataPointer, remote, total, DPMutex, owner, inUse, arg>>
  BY DEF Emplace, GoTo
<1>2. x \in Obj /\ p \in Thread /\ owner[x] = p /\ arg[t] = x
  OBVIOUS
<1>3. s \in Seq(Nat) /\ Len(s) \in Nat /\ x \in Nat
  BY SMTT(30), <1>2, LenProperties DEF PlaceInv, TypeOK, Obj
<1>4. /\ e \in Seq(Nat) /\ Len(e) = Len(s) + 1
      /\ \A i \in 1..Len(s) + 1 :
           (i \in 1..Len(s) /\ e[i] = s[i]) \/ (i = Len(s) + 1 /\ e[i] = x)
  BY <1>3, AppendFacts
<1> HIDE DEF e
<1>5. /\ \A u \in Thread : pc'[u] = IF u = t THEN "count" ELSE pc[u]
      /\ RemoteDataPointer'[p] = e
      /\ \A q \in Thread \ {p} : RemoteDataPointer'[q] = RemoteDataPointer[q]
  BY <1>1, <1>2 DEF PlaceInv, TypeOK
<1>6. TypeOK'
  BY <1>1, <1>4 DEF PlaceInv, TypeOK, Label, Obj
<1>7. MutexHeld' /\ ArgIsObj' /\ GetDataKnows'
  BY <1>1, <1>5 DEF PlaceInv, MutexHeld, ArgIsObj, Inside, Obj, GetDataKnows
<1>8. CountOK'
  <2>1. Inside(t, p)
    BY <1>1 DEF Inside
  <2>2. pc[p] # "clear" /\ ~Uncounted(p)
    BY <1>1, <1>2, <2>1, Exclusion DEF PlaceInv, Inside, Uncounted
  <2>3. Len(e) = remote[p] + 1
    BY <1>2, <1>4, <2>2 DEF PlaceInv, CountOK
  <2>4. \A q \in Thread \ {p} : Uncounted(q)' <=> Uncounted(q)
    BY <1>1, <1>5 DEF Uncounted
  <2>5. Uncounted(p)'
    BY <1>1, <1>5 DEF Uncounted
  <2>6. pc'[p] # "clear"
    BY <1>2, <1>5, <2>2
  <2>7. ASSUME NEW q \in Thread \ {p}
        PROVE  /\ pc'[q] = "clear" => RemoteDataPointer'[q] = <<>>
               /\ Uncounted(q)' => Len(RemoteDataPointer'[q]) = remote'[q] + 1
               /\ pc'[q] # "clear" /\ ~Uncounted(q)' => Len(RemoteDataPointer'[q]) = remote'[q]
    BY <1>1, <1>5, <2>4 DEF PlaceInv, CountOK
  <2>8. QED
    BY <1>1, <1>5, <2>3, <2>5, <2>6, <2>7 DEF CountOK
<1>9. OnePlace'
  <2>1. /\ Carrying(t) /\ x \notin inUse
        /\ \A q \in Thread : NotIn(x, DataPointer[q]) /\ NotIn(x, RemoteDataPointer[q])
        /\ \A v \in Thread : Carrying(v) /\ arg[v] = x => v = t
    BY <1>1 DEF PlaceInv, OnePlace, Carrying
  <2>2. \A u \in Thread : Carrying(u)' <=> Carrying(u) /\ u # t
    BY <1>5 DEF Carrying
  <2>3. \A i \in 1..Len(e) : (i \in 1..Len(s) /\ e[i] = s[i]) \/ (i = Len(s) + 1 /\ e[i] = x)
    BY <1>4
  <2>4. ASSUME NEW q \in Thread
        PROVE  /\ VectorOf(DataPointer[q], q)'
               /\ VectorOf(RemoteDataPointer[q], q)'
               /\ \A i \in 1..Len(DataPointer'[q]) :
                    NotIn(DataPointer[q][i], RemoteDataPointer[q])'
    <3>1. VectorOf(DataPointer[q], q)'
      BY <1>1 DEF PlaceInv, OnePlace, VectorOf, Obj
    <3>2. CASE q = p
      <4>1. VectorOf(s, p) /\ NotIn(x, s) /\ NotIn(x, DataPointer[p]) /\ owner[x] = p
        BY <1>2, <2>1 DEF PlaceInv, OnePlace
      <4>2. \A i \in 1..Len(e) : e[i] \in Obj /\ owner[e[i]] = p /\ e[i] \notin inUse
        BY <1>2, <2>1, <2>3, <4>1 DEF VectorOf
      <4>3. \A i, j \in 1..Len(e) : e[i] = e[j] => i = j
        BY <2>3, <4>1 DEF VectorOf, NotIn
      <4>4. \A i \in 1..Len(DataPointer[p]) : NotIn(DataPointer[p][i], s)
        BY <1>2 DEF PlaceInv, OnePlace
      <4>5. \A i \in 1..Len(DataPointer[p]) : NotIn(DataPointer[p][i], e)
        BY <2>3, <4>1, <4>4 DEF NotIn
      <4>6. QED
        BY <1>1, <1>5, <3>1, <3>2, <4>2, <4>3, <4>5 DEF VectorOf, NotIn, Obj
    <3>3. CASE q # p
      BY <1>1, <1>5, <3>1, <3>3 DEF PlaceInv, OnePlace, VectorOf, NotIn, Obj
    <3>4. QED
      BY <3>2, <3>3
  <2>5. ASSUME NEW u \in Thread, Carrying(u)'
        PROVE  /\ arg'[u] \in Obj' /\ arg'[u] \notin inUse'
               /\ \A q \in Thread :
                    NotIn(arg[u], DataPointer[q])' /\ NotIn(arg[u], RemoteDataPointer[q])'
               /\ \A v \in Thread : Carrying(v)' /\ arg'[v] = arg'[u] => v = u
    <3>1. Carrying(u) /\ u # t /\ arg[u] # x
      BY <2>1, <2>2, <2>5
    <3>2. /\ arg[u] \in Obj /\ arg[u] \notin inUse
          /\ \A q \in Thread : NotIn(arg[u], DataPointer[q]) /\ NotIn(arg[u], RemoteDataPointer[q])
          /\ \A v \in Thread : Carrying(v) /\ arg[v] = arg[u] => v = u
      BY <3>1 DEF PlaceInv, OnePlace
    <3>3. NotIn(arg[u], e)
      BY <1>2, <2>3, <3>1, <3>2 DEF NotIn
    <3>4. QED
      BY <1>1, <1>5, <2>2, <3>2, <3>3 DEF NotIn, Obj
  <2>6. QED
    BY <2>4, <2>5 DEF OnePlace
<1>10. QED
  BY <1>6, <1>7, <1>8, <1>9 DEF PlaceInv

(* The object that was appended is counted.                                *)
LEMMA CountRemoteStep ==
  ASSUME PlaceInv, NEW t \in Thread, CountRemote(t)
  PROVE  PlaceInv'
<1>0. pc[t] = "count" /\ owner[arg[t]] \in Thread
  BY OwnerIsThread DEF CountRemote, PlaceInv, ArgIsObj
<1> PICK p \in Thread : p = owner[arg[t]]
  BY <1>0
<1>1. /\ pc[t] = "count" /\ pc' = [pc EXCEPT ![t] = "unlockReturn"]
      /\ remote' = [remote EXCEPT ![p] = @ + 1]
      /\ UNCHANGED <<DataPointer, RemoteDataPointer, total, DPMutex, owner, inUse, arg>>
  BY DEF CountRemote, GoTo
<1>2. Inside(t, p) /\ Uncounted(p)
  BY <1>1 DEF Inside, Uncounted
<1>3. TypeOK'
  <2>1. remote \in [Thread -> Nat]
    BY DEF PlaceInv, TypeOK
  <2>2. remote' \in [Thread -> Nat]
    BY <1>1, <2>1
  <2>3. pc' \in [Thread -> Label]
    BY <1>1 DEF PlaceInv, TypeOK, Label
  <2>4. QED
    BY <1>1, <2>2, <2>3 DEF PlaceInv, TypeOK, Obj
<1>4. /\ \A u \in Thread : pc'[u] = IF u = t THEN "unlockReturn" ELSE pc[u]
      /\ remote'[p] = remote[p] + 1 /\ \A q \in Thread \ {p} : remote'[q] = remote[q]
      /\ remote \in [Thread -> Nat]
  BY <1>1, <1>2 DEF PlaceInv, TypeOK
<1>5. MutexHeld' /\ ArgIsObj' /\ GetDataKnows'
  BY <1>1, <1>4 DEF PlaceInv, MutexHeld, ArgIsObj, Inside, Obj, GetDataKnows
<1>6. CountOK'
  <2>1. ~Uncounted(p)'
    <3>1. SUFFICES ASSUME NEW u \in Thread, pc'[u] = "count", owner'[arg'[u]] = p
                   PROVE  FALSE
      BY DEF Uncounted
    <3>2. u # t /\ Inside(u, p)
      BY <1>1, <1>4, <3>1 DEF Inside
    <3>3. QED
      BY <1>2, <3>2, Exclusion DEF PlaceInv
  <2>2. \A q \in Thread \ {p} : Uncounted(q)' <=> Uncounted(q)
    BY <1>1, <1>4 DEF Uncounted
  <2>3. pc[p] # "clear"
    BY <1>1, <1>2, Exclusion DEF PlaceInv, Inside
  <2>4. Len(RemoteDataPointer[p]) = remote'[p]
    BY <1>2, <1>4 DEF PlaceInv, CountOK
  <2>5. ASSUME NEW q \in Thread \ {p}
        PROVE  /\ pc'[q] = "clear" => RemoteDataPointer'[q] = <<>>
               /\ Uncounted(q)' => Len(RemoteDataPointer'[q]) = remote'[q] + 1
               /\ pc'[q] # "clear" /\ ~Uncounted(q)' => Len(RemoteDataPointer'[q]) = remote'[q]
    BY <1>1, <1>4, <2>2 DEF PlaceInv, CountOK
  <2>6. pc'[p] # "clear"
    BY <1>2, <1>4, <2>3
  <2>7. QED
    BY <1>1, <2>1, <2>4, <2>5, <2>6 DEF CountOK
<1>7. OnePlace'
  BY <1>1, <1>4, OnePlaceFrame DEF PlaceInv, Carrying
<1>8. QED
  BY <1>3, <1>5, <1>6, <1>7 DEF PlaceInv

(* The returning thread releases the mutex.                                *)
LEMMA UnlockReturnStep ==
  ASSUME PlaceInv, NEW t \in Thread, UnlockReturn(t)
  PROVE  PlaceInv'
<1> DEFINE p == owner[arg[t]]
<1>1. /\ pc[t] = "unlockReturn" /\ pc' = [pc EXCEPT ![t] = "idle"]
      /\ DPMutex' = [DPMutex EXCEPT ![p] = None] /\ arg' = [arg EXCEPT ![t] = 0]
      /\ UNCHANGED <<DataPointer, RemoteDataPointer, remote, total, owner, inUse>>
  BY DEF UnlockReturn, Unlock, GoTo
<1>2. p \in Thread /\ Inside(t, p)
  BY <1>1, OwnerIsThread DEF PlaceInv, ArgIsObj, Inside
<1>3. TypeOK'
  BY <1>1, <1>2 DEF PlaceInv, TypeOK, Label, Obj
<1>4. /\ \A u \in Thread : /\ pc'[u] = IF u = t THEN "idle" ELSE pc[u]
                           /\ u # t => arg'[u] = arg[u]
      /\ \A q \in Thread \ {p} : DPMutex'[q] = DPMutex[q]
  BY <1>1, <1>2 DEF PlaceInv, TypeOK
<1>5. MutexHeld'
  <2>1. ASSUME NEW u \in Thread, NEW q \in Thread, Inside(u, q)'
        PROVE  Inside(u, q) /\ u # t
    BY <1>1, <1>4, <2>1 DEF Inside
  <2>2. ASSUME NEW u \in Thread, NEW q \in Thread, Inside(u, q)'
        PROVE  q # p
    BY <1>2, <2>1, <2>2, Exclusion DEF PlaceInv
  <2>3. QED
    BY <1>4, <2>1, <2>2 DEF PlaceInv, MutexHeld
<1>6. ArgIsObj' /\ CountOK' /\ GetDataKnows'
  BY <1>1, <1>4 DEF PlaceInv, ArgIsObj, Obj, CountOK, Uncounted, GetDataKnows
<1>7. OnePlace'
  BY <1>1, <1>4, OnePlaceFrame DEF PlaceInv, Carrying
<1>8. QED
  BY <1>3, <1>5, <1>6, <1>7 DEF PlaceInv

-----------------------------------------------------------------------------
(* Every step preserves the inductive invariant.                           *)
LEMMA NextInv == PlaceInv /\ [Next]_vars => PlaceInv'
<1> SUFFICES ASSUME PlaceInv, [Next]_vars PROVE PlaceInv'
  OBVIOUS
<1>1. CASE UNCHANGED vars
  BY SMTT(30), <1>1 DEF vars, PlaceInv, TypeOK, Obj, MutexHeld, Inside, ArgIsObj, CountOK, Uncounted,
              GetDataKnows, OnePlace, VectorOf, NotIn, Carrying
<1>2. ASSUME NEW t \in Thread, Step(t)
      PROVE  PlaceInv'
  BY <1>2, NewDatasStep, LockSwapStep, SwapStep, ClearStep, UnlockSwapStep, AllocateStep,
     PopStep, LockReturnStep, EmplaceStep, CountRemoteStep, UnlockReturnStep DEF Step
<1>3. QED
  BY <1>1, <1>2, GetDataStep, ReturnOwnStep, ReturnRemoteStep DEF Next

(* The inductive invariant of getData and Delete holds in every state.     *)
THEOREM PlaceInvariance == Spec => []PlaceInv
<1>1. Init => PlaceInv
  BY InitInv
<1>2. PlaceInv /\ [Next]_vars => PlaceInv'
  BY NextInv
<1>3. QED
  BY <1>1, <1>2, PTL DEF Spec

(* The variables of the pools keep their types.                            *)
THEOREM TypeCorrect == Spec => []TypeOK
BY PlaceInvariance, PTL DEF PlaceInv

(* The pools hand out no object twice: every object is in one place only,   *)
(* for any number of threads and any interleaving of getData and Delete.   *)
THEOREM NoObjectTwice == Spec => []OnePlace
BY PlaceInvariance, PTL DEF PlaceInv

(* back and pop_back are never called on an empty vector.                  *)
THEOREM PopFindsObject == Spec => []PopHasData
<1>1. PlaceInv => PopHasData
  BY DEF PlaceInv, GetDataKnows, PopHasData
<1>2. QED
  BY <1>1, PlaceInvariance, PTL

(* Outside of the critical sections remote is the size of                  *)
(* RemoteDataPointer.                                                      *)
THEOREM RemoteIsCounted == Spec => []RemoteCounts
<1>1. ASSUME PlaceInv, NEW p \in Thread, DPMutex[p] = None
      PROVE  remote[p] = Len(RemoteDataPointer[p])
  <2>1. \A u \in Thread : ~Inside(u, p)
    BY <1>1, DataPoolAssumption DEF PlaceInv, MutexHeld
  <2>2. pc[p] # "clear" /\ ~Uncounted(p)
    BY <2>1 DEF Inside, Uncounted
  <2>3. QED
    BY <1>1, <2>2 DEF PlaceInv, CountOK
<1>2. PlaceInv => RemoteCounts
  BY <1>1 DEF RemoteCounts
<1>3. QED
  BY <1>2, PlaceInvariance, PTL

-----------------------------------------------------------------------------
(* Every step of the pools is a step of ObjectPool or leaves it unchanged.  *)
LEMMA AbstractInit == Init => Abstract!Init
BY DEF Init, Abstract!Init, Getting

(* ... and every step of the pools is a step of ObjectPool, or none.       *)
LEMMA AbstractStep ==
  ASSUME PlaceInv, Next
  PROVE  [Abstract!Next]_(Abstract!vars)
<1> DEFINE calling == {t \in Thread : pc[t] \in Getting}
           Same == UNCHANGED <<owner, inUse>> /\ calling' = calling
<1>1. ASSUME NEW t \in Thread, GetData(t)
      PROVE  Abstract!Call(t)
  BY <1>1 DEF GetData, GoTo, Abstract!Call, Getting, PlaceInv, TypeOK
<1>2. ASSUME NEW t \in Thread, Allocate(t)
      PROVE  Abstract!Grow(t)
  BY <1>2 DEF Allocate, GoTo, Abstract!Grow, Getting, PlaceInv, TypeOK
<1>3. ASSUME NEW t \in Thread, Pop(t)
      PROVE  \E x \in 1..Len(owner) : Abstract!HandOut(t, x)
  <2>1. Len(DataPointer[t]) \in 1..Len(DataPointer[t])
    BY <1>3, EmptySeq DEF Pop, PlaceInv, TypeOK
  <2> DEFINE x == DataPointer[t][Len(DataPointer[t])]
  <2>2. x \in 1..Len(owner) /\ owner[x] = t /\ x \notin inUse
    BY <2>1 DEF PlaceInv, OnePlace, VectorOf, Obj
  <2>3. inUse' = inUse \cup {x} /\ owner' = owner
    BY <1>3 DEF Pop
  <2>4. t \in calling /\ calling' = calling \ {t}
    BY <1>3 DEF Pop, GoTo, Getting, PlaceInv, TypeOK
  <2>5. QED
    BY <2>2, <2>3, <2>4 DEF Abstract!HandOut
<1>4. ASSUME NEW t \in Thread, NEW x \in Obj, ReturnOwn(t, x) \/ ReturnRemote(t, x)
      PROVE  x \in inUse /\ Abstract!GiveBack(x)
  BY <1>4 DEF ReturnOwn, ReturnRemote, GoTo, Abstract!GiveBack, Getting, PlaceInv, TypeOK
<1>5. ASSUME NEW t \in Thread,
             \/ NewDatas(t) \/ LockSwap(t) \/ Swap(t) \/ Clear(t) \/ UnlockSwap(t)
             \/ LockReturn(t) \/ Emplace(t) \/ CountRemote(t) \/ UnlockReturn(t)
      PROVE  Same
  BY <1>5 DEF NewDatas, LockSwap, Swap, Clear, UnlockSwap, LockReturn, Emplace, CountRemote,
              UnlockReturn, GoTo, Getting, PlaceInv, TypeOK
<1>6. QED
  BY <1>1, <1>2, <1>3, <1>4, <1>5 DEF Next, Step, Abstract!Next, Abstract!vars

(* DataPool implements ObjectPool: an object handed out belongs to the      *)
(* calling thread's pool and was not in use.                               *)
THEOREM Implements == Spec => ImplementsObjectPool
<1>1. PlaceInv /\ [Next]_vars => [Abstract!Next]_(Abstract!vars)
  <2>1. UNCHANGED vars => UNCHANGED Abstract!vars
    BY DEF vars, Abstract!vars
  <2>2. QED
    BY <2>1, AbstractStep
<1>2. QED
  BY <1>1, AbstractInit, PlaceInvariance, PTL DEF Spec, ImplementsObjectPool, Abstract!Spec

-----------------------------------------------------------------------------
(* How many objects there are: the pools lose none, and do not grow beyond *)
(* the demand.  Both compare the size of a vector with that of a set, one  *)
(* element of which a step adds or removes.                                *)

(* The sets that are counted are finite.                                   *)
LEMMA MissingFinite ==
  ASSUME TypeOK, NEW p \in Thread
  PROVE  IsFiniteSet(Missing(p)) /\ Cardinality(Missing(p)) \in Nat
<1>1. Len(owner) \in Nat
  BY LenProperties DEF TypeOK
<1>2. IsFiniteSet(1..Len(owner))
  BY <1>1, FS_Interval
<1>3. Missing(p) \in SUBSET (1..Len(owner))
  BY DEF Missing, Obj
<1>4. QED
  BY <1>2, <1>3, FS_Subset, FS_CardinalityType

LEMMA DemandFinite ==
  ASSUME TypeOK
  PROVE  /\ IsFiniteSet(inUse) /\ Cardinality(inUse) \in Nat
         /\ IsFiniteSet(Busy) /\ Cardinality(Busy) \in Nat
<1>1. Len(owner) \in Nat
  BY LenProperties DEF TypeOK
<1>2. IsFiniteSet(1..Len(owner)) /\ inUse \in SUBSET (1..Len(owner))
  BY <1>1, FS_Interval DEF TypeOK, Obj
<1>3. IsFiniteSet(Thread) /\ Busy \in SUBSET Thread
  BY DataPoolAssumption DEF Busy
<1>4. QED
  BY <1>2, <1>3, FS_Subset, FS_CardinalityType

-----------------------------------------------------------------------------
(* Nothing is lost.  Most steps leave the objects where they are ...       *)
LEMMA MissingFrame ==
  ASSUME MissingAreInUse, UNCHANGED <<owner, inUse, total>>,
         \A u \in Thread : (Carrying(u)' <=> Carrying(u)) /\ (Carrying(u) => arg'[u] = arg[u]),
         \A p \in Thread : total[p] - Len(DataPointer'[p]) - Len(RemoteDataPointer'[p]) =
                           total[p] - Len(DataPointer[p]) - Len(RemoteDataPointer[p])
  PROVE  MissingAreInUse'
<1>1. \A x : Carried(x)' <=> Carried(x)
  BY DEF Carried
<1>2. \A p \in Thread : Missing(p)' = Missing(p)
  BY <1>1 DEF Missing, Obj
<1>3. QED
  BY <1>2 DEF MissingAreInUse

(* ... or move what is outside of the vectors from hand to hand.           *)
LEMMA QuietStep ==
  ASSUME PlaceInv, MissingAreInUse, NEW t \in Thread,
         \/ GetData(t) \/ NewDatas(t) \/ LockSwap(t) \/ Clear(t) \/ UnlockSwap(t)
         \/ LockReturn(t) \/ CountRemote(t) \/ UnlockReturn(t)
  PROVE  MissingAreInUse'
<1>1. UNCHANGED <<DataPointer, RemoteDataPointer, owner, inUse, total>>
  BY DEF GetData, NewDatas, LockSwap, Clear, UnlockSwap, LockReturn, CountRemote, UnlockReturn
<1>2. ASSUME NEW u \in Thread
      PROVE  (Carrying(u)' <=> Carrying(u)) /\ (Carrying(u) => arg'[u] = arg[u])
  <2>1. PlaceInv => pc \in [Thread -> Label] /\ arg \in [Thread -> Obj \cup {0}]
    BY DEF PlaceInv, TypeOK
  <2>2. CASE u # t
    BY <2>1, <2>2 DEF GetData, NewDatas, LockSwap, Clear, UnlockSwap, LockReturn, CountRemote,
                      UnlockReturn, GoTo, Carrying
  <2>3. CASE u = t
    BY <2>1, <2>3 DEF GetData, NewDatas, LockSwap, Clear, UnlockSwap, LockReturn, CountRemote,
                      UnlockReturn, GoTo, Carrying
  <2>4. QED
    BY <2>2, <2>3
<1>3. QED
  BY <1>1, <1>2, MissingFrame

(* The swap leaves the sum of the two sizes alone.                         *)
LEMMA SwapMissing ==
  ASSUME PlaceInv, MissingAreInUse, NEW t \in Thread, Swap(t)
  PROVE  MissingAreInUse'
<1>1. /\ UNCHANGED <<owner, inUse, total, arg>>
      /\ \A u \in Thread : Carrying(u)' <=> Carrying(u)
  BY DEF Swap, GoTo, Carrying, PlaceInv, TypeOK
<1>2. /\ DataPointer'[t] = RemoteDataPointer[t] /\ RemoteDataPointer'[t] = DataPointer[t]
      /\ \A p \in Thread \ {t} : /\ DataPointer'[p] = DataPointer[p]
                                 /\ RemoteDataPointer'[p] = RemoteDataPointer[p]
  BY DEF Swap, PlaceInv, TypeOK
<1>3. Len(DataPointer[t]) \in Nat /\ Len(RemoteDataPointer[t]) \in Nat /\ total[t] \in Nat
  BY LenProperties DEF PlaceInv, TypeOK
<1>4. ASSUME NEW p \in Thread
      PROVE  total[p] - Len(DataPointer'[p]) - Len(RemoteDataPointer'[p]) =
             total[p] - Len(DataPointer[p]) - Len(RemoteDataPointer[p])
  <2>1. CASE p # t
    BY <1>2, <2>1
  <2>2. CASE p = t
    <3>1. PICK n \in Nat, d \in Nat, r \in Nat :
            n = total[t] /\ d = Len(DataPointer[t]) /\ r = Len(RemoteDataPointer[t])
      BY <1>3
    <3>2. r = Len(DataPointer'[t]) /\ d = Len(RemoteDataPointer'[t])
      BY <1>2, <3>1
    <3>3. n - r - d = n - d - r
      OBVIOUS
    <3>4. QED
      BY <2>2, <3>1, <3>2, <3>3
  <2>3. QED
    BY <2>1, <2>2
<1>5. QED
  BY <1>1, <1>4, MissingFrame

(* A step that changes pool t only, by as many missing objects as there are *)
(* more or less outside of its vectors.                                    *)
LEMMA PoolChanges ==
  ASSUME MissingAreInUse, NEW t \in Thread,
         \A p \in Thread \ {t} : /\ Missing(p)' = Missing(p) /\ total'[p] = total[p]
                                 /\ DataPointer'[p] = DataPointer[p]
                                 /\ RemoteDataPointer'[p] = RemoteDataPointer[p],
         total'[t] - Len(DataPointer'[t]) - Len(RemoteDataPointer'[t]) = Cardinality(Missing(t)')
  PROVE  MissingAreInUse'
<1>1. \A p \in Thread \ {t} :
        total'[p] - Len(DataPointer'[p]) - Len(RemoteDataPointer'[p]) =
          Cardinality(Missing(p)')
  BY DEF MissingAreInUse
<1>2. QED
  BY <1>1 DEF MissingAreInUse

(* A page: its objects are in DataPointer, and nobody has them yet.        *)
LEMMA AllocateMissing ==
  ASSUME PlaceInv, MissingAreInUse, NEW t \in Thread, Allocate(t)
  PROVE  MissingAreInUse'
<1> DEFINE page == [i \in 1..ndatas |-> Len(owner) + i]
           mine == [i \in 1..ndatas |-> t]
<1>1. /\ owner \in Seq(Thread) /\ Len(owner) \in Nat /\ ndatas \in Nat
      /\ page \in [1..ndatas -> Nat] /\ mine \in [1..ndatas -> Thread]
      /\ DataPointer[t] \in Seq(Nat) /\ Len(DataPointer[t]) \in Nat
      /\ Len(RemoteDataPointer[t]) \in Nat
  BY DataPoolAssumption, LenProperties DEF PlaceInv, TypeOK
<1>2. /\ DataPointer' = [DataPointer EXCEPT ![t] = DataPointer[t] \o page]
      /\ owner' = owner \o mine
      /\ total' = [total EXCEPT ![t] = @ + ndatas]
      /\ UNCHANGED <<RemoteDataPointer, inUse, arg>>
      /\ pc[t] = "allocate" /\ pc' = [pc EXCEPT ![t] = "pop"]
  BY DEF Allocate, GoTo
<1> HIDE DEF page, mine
<1>3. /\ Len(owner') = Len(owner) + ndatas
      /\ \A i \in 1..Len(owner) : owner'[i] = owner[i]
  <2>1. /\ Len(owner \o mine) = Len(owner) + ndatas
        /\ \A i \in 1..Len(owner) + ndatas :
             (owner \o mine)[i] = IF i <= Len(owner) THEN owner[i] ELSE mine[i - Len(owner)]
    BY <1>1, ExtendFacts
  <2>2. QED
    BY <1>1, <1>2, <2>1
<1>4. /\ DataPointer'[t] = DataPointer[t] \o page
      /\ Len(DataPointer[t] \o page) = Len(DataPointer[t]) + ndatas
      /\ total'[t] = total[t] + ndatas
      /\ \A p \in Thread \ {t} : total'[p] = total[p] /\ DataPointer'[p] = DataPointer[p]
  <2>1. Len(DataPointer[t] \o page) = Len(DataPointer[t]) + ndatas
    BY <1>1, ExtendFacts
  <2>2. DataPointer \in [Thread -> Seq(Nat)] /\ total \in [Thread -> Nat]
    BY DEF PlaceInv, TypeOK
  <2>3. QED
    BY <1>2, <2>1, <2>2
<1>5. \A u \in Thread : Carrying(u)' <=> Carrying(u)
  BY <1>2 DEF Carrying, PlaceInv, TypeOK
<1>6. \A x : x \in inUse \/ Carried(x) => x \in Obj
  BY DEF Carried, Carrying, PlaceInv, TypeOK, ArgIsObj
<1>7. \A x : (x \in inUse \/ Carried(x))' <=> x \in inUse \/ Carried(x)
  BY <1>2, <1>5 DEF Carried
<1>8. \A x \in Obj : x \in Obj' /\ owner'[x] = owner[x]
  BY <1>1, <1>3 DEF Obj
<1>9. ASSUME NEW p \in Thread
      PROVE  Missing(p)' = Missing(p)
  BY <1>6, <1>7, <1>8 DEF Missing
<1>11. PICK n \in Nat, d \in Nat, r \in Nat :
         n = total[t] /\ d = Len(DataPointer[t]) /\ r = Len(RemoteDataPointer[t])
  BY <1>1 DEF PlaceInv, TypeOK
<1>12. PICK n1 \in Int, d1 \in Int : n1 = n + ndatas /\ d1 = d + ndatas
  BY <1>1
<1>13. n1 = total'[t] /\ d1 = Len(DataPointer'[t]) /\ r = Len(RemoteDataPointer'[t])
  BY <1>2, <1>4, <1>11, <1>12
<1>14. n1 - d1 - r = n - d - r
  BY <1>1, <1>12
<1>15. total'[t] - Len(DataPointer'[t]) - Len(RemoteDataPointer'[t]) = Cardinality(Missing(t)')
  BY <1>9, <1>11, <1>13, <1>14 DEF MissingAreInUse
<1>16. QED
  BY <1>2, <1>4, <1>9, <1>15, PoolChanges

(* pop_back: the last object of DataPointer is in use from now on.          *)
LEMMA PopMissing ==
  ASSUME PlaceInv, MissingAreInUse, NEW t \in Thread, Pop(t)
  PROVE  MissingAreInUse'
<1> DEFINE s == DataPointer[t]
           x == s[Len(s)]
<1>1. /\ s \in Seq(Nat) /\ s # <<>>
      /\ DataPointer' = [DataPointer EXCEPT ![t] = SubSeq(s, 1, Len(s) - 1)]
      /\ inUse' = inUse \cup {x}
      /\ UNCHANGED <<RemoteDataPointer, total, owner, arg>>
      /\ pc[t] = "pop" /\ pc' = [pc EXCEPT ![t] = "idle"]
  BY DEF Pop, GoTo, PlaceInv, TypeOK
<1>2. /\ Len(s) \in Nat \ {0} /\ Len(SubSeq(s, 1, Len(s) - 1)) = Len(s) - 1
      /\ Len(RemoteDataPointer[t]) \in Nat /\ total[t] \in Nat
  BY <1>1, PopFacts, LenProperties DEF PlaceInv, TypeOK
<1>3. /\ DataPointer'[t] = SubSeq(s, 1, Len(s) - 1)
      /\ \A p \in Thread \ {t} : DataPointer'[p] = DataPointer[p]
  BY <1>1 DEF PlaceInv, TypeOK
<1>4. Len(s) \in 1..Len(s)
  BY <1>2
<1>5. x \in Obj /\ owner[x] = t /\ x \notin inUse /\ ~Carried(x)
  BY <1>4 DEF PlaceInv, OnePlace, VectorOf, NotIn, Carried
<1>6. \A u \in Thread : Carrying(u)' <=> Carrying(u)
  BY <1>1 DEF Carrying, PlaceInv, TypeOK
<1>7. \A y : Carried(y)' <=> Carried(y)
  BY <1>1, <1>6 DEF Carried
<1> HIDE DEF x
<1>8. Missing(t)' = Missing(t) \cup {x} /\ x \notin Missing(t)
  BY <1>1, <1>5, <1>7 DEF Missing, Obj
<1>9. ASSUME NEW p \in Thread \ {t}
      PROVE  Missing(p)' = Missing(p)
  BY <1>1, <1>5, <1>7 DEF Missing, Obj
<1>10. Cardinality(Missing(t)') = Cardinality(Missing(t)) + 1
  BY <1>8, MissingFinite, FS_AddElement DEF PlaceInv
<1>11. PICK n \in Nat, d \in Nat, r \in Nat :
         n = total[t] /\ d = Len(DataPointer[t]) /\ r = Len(RemoteDataPointer[t])
  BY <1>2
<1>12. PICK d1 \in Int : d1 = d - 1
  OBVIOUS
<1>13. n = total'[t] /\ d1 = Len(DataPointer'[t]) /\ r = Len(RemoteDataPointer'[t])
  BY <1>1, <1>2, <1>3, <1>11, <1>12
<1>14. n - d1 - r = n - d - r + 1
  BY <1>12
<1>15. total'[t] - Len(DataPointer'[t]) - Len(RemoteDataPointer'[t]) = Cardinality(Missing(t)')
  BY <1>10, <1>11, <1>13, <1>14 DEF MissingAreInUse
<1>16. QED
  BY <1>1, <1>3, <1>9, <1>15, PoolChanges

(* Delete on the thread of the pool: the object is back in DataPointer.     *)
LEMMA ReturnOwnMissing ==
  ASSUME PlaceInv, MissingAreInUse, NEW t \in Thread, NEW x \in Obj, ReturnOwn(t, x)
  PROVE  MissingAreInUse'
<1> DEFINE s == DataPointer[t]
<1>1. /\ s \in Seq(Nat) /\ x \in Nat
      /\ DataPointer' = [DataPointer EXCEPT ![t] = Append(s, x)]
      /\ inUse' = inUse \ {x} /\ x \in inUse /\ owner[x] = t
      /\ UNCHANGED <<RemoteDataPointer, total, owner, arg, pc>>
  BY DEF ReturnOwn, PlaceInv, TypeOK, Obj
<1>2. /\ Len(s) \in Nat /\ Len(Append(s, x)) = Len(s) + 1
      /\ Len(RemoteDataPointer[t]) \in Nat /\ total[t] \in Nat
  BY <1>1, AppendFacts, LenProperties DEF PlaceInv, TypeOK
<1>3. /\ DataPointer'[t] = Append(s, x)
      /\ \A p \in Thread \ {t} : DataPointer'[p] = DataPointer[p]
  BY <1>1 DEF PlaceInv, TypeOK
<1>4. ~Carried(x)
  BY <1>1 DEF PlaceInv, OnePlace, Carried
<1>5. \A y : Carried(y)' <=> Carried(y)
  BY <1>1 DEF Carried, Carrying
<1>6. Missing(t)' = Missing(t) \ {x} /\ x \in Missing(t)
  BY <1>1, <1>4, <1>5 DEF Missing, Obj
<1>7. ASSUME NEW p \in Thread \ {t}
      PROVE  Missing(p)' = Missing(p)
  BY <1>1, <1>5 DEF Missing, Obj
<1>8. Cardinality(Missing(t)') = Cardinality(Missing(t)) - 1
  BY <1>6, MissingFinite, FS_RemoveElement DEF PlaceInv
<1>9. PICK n \in Nat, d \in Nat, r \in Nat :
        n = total[t] /\ d = Len(DataPointer[t]) /\ r = Len(RemoteDataPointer[t])
  BY <1>2
<1>10. PICK d1 \in Int : d1 = d + 1
  OBVIOUS
<1>11. n = total'[t] /\ d1 = Len(DataPointer'[t]) /\ r = Len(RemoteDataPointer'[t])
  BY <1>1, <1>2, <1>3, <1>9, <1>10
<1>12. n - d1 - r = n - d - r - 1
  BY <1>10
<1>13. total'[t] - Len(DataPointer'[t]) - Len(RemoteDataPointer'[t]) = Cardinality(Missing(t)')
  BY <1>8, <1>9, <1>11, <1>12 DEF MissingAreInUse
<1>14. QED
  BY <1>1, <1>3, <1>7, <1>13, PoolChanges

(* Delete on another thread: the object is on its way, and stays missing.   *)
LEMMA ReturnRemoteMissing ==
  ASSUME PlaceInv, MissingAreInUse, NEW t \in Thread, NEW x \in Obj, ReturnRemote(t, x)
  PROVE  MissingAreInUse'
<1>1. /\ inUse' = inUse \ {x} /\ x \in inUse
      /\ arg' = [arg EXCEPT ![t] = x]
      /\ pc[t] = "idle" /\ pc' = [pc EXCEPT ![t] = "lockReturn"]
      /\ UNCHANGED <<DataPointer, RemoteDataPointer, total, owner>>
  BY DEF ReturnRemote, GoTo
<1>2. /\ ~Carrying(t) /\ Carrying(t)' /\ arg'[t] = x
      /\ \A u \in Thread \ {t} : (Carrying(u)' <=> Carrying(u)) /\ arg'[u] = arg[u]
  BY <1>1 DEF Carrying, PlaceInv, TypeOK
<1>3. \A y : Carried(y)' <=> Carried(y) \/ y = x
  BY <1>2 DEF Carried
<1>4. \A p \in Thread : Missing(p)' = Missing(p)
  BY <1>1, <1>3 DEF Missing, Obj
<1>5. QED
  BY <1>1, <1>4 DEF MissingAreInUse

(* emplace_back: the object has arrived.                                   *)
LEMMA EmplaceMissing ==
  ASSUME PlaceInv, MissingAreInUse, NEW t \in Thread, Emplace(t)
  PROVE  MissingAreInUse'
<1>1. pc[t] = "emplace" /\ arg[t] \in Obj /\ owner[arg[t]] \in Thread
  BY OwnerIsThread DEF Emplace, PlaceInv, ArgIsObj
<1>2. PICK x \in Obj, q \in Thread : x = arg[t] /\ q = owner[x]
  BY <1>1
<1> DEFINE s == RemoteDataPointer[q]
<1>3. /\ s \in Seq(Nat) /\ x \in Nat
      /\ RemoteDataPointer' = [RemoteDataPointer EXCEPT ![q] = Append(s, x)]
      /\ pc' = [pc EXCEPT ![t] = "count"]
      /\ UNCHANGED <<DataPointer, total, owner, arg, inUse>>
  <2>1. RemoteDataPointer \in [Thread -> Seq(Nat)] /\ x \in Nat
    BY DEF PlaceInv, TypeOK, Obj
  <2>2. /\ RemoteDataPointer' = [RemoteDataPointer EXCEPT ![q] = Append(s, x)]
        /\ pc' = [pc EXCEPT ![t] = "count"]
        /\ UNCHANGED <<DataPointer, total, owner, arg, inUse>>
    BY <1>2 DEF Emplace, GoTo
  <2>3. QED
    BY <2>1, <2>2
<1>4. /\ Len(s) \in Nat /\ Len(Append(s, x)) = Len(s) + 1
      /\ Len(DataPointer[q]) \in Nat /\ total[q] \in Nat
  BY <1>3, AppendFacts, LenProperties DEF PlaceInv, TypeOK
<1>5. /\ RemoteDataPointer'[q] = Append(s, x)
      /\ \A p \in Thread \ {q} : RemoteDataPointer'[p] = RemoteDataPointer[p]
  BY <1>3 DEF PlaceInv, TypeOK
<1>6. /\ Carrying(t) /\ ~Carrying(t)'
      /\ \A u \in Thread \ {t} : Carrying(u)' <=> Carrying(u)
  BY <1>1, <1>3 DEF Carrying, PlaceInv, TypeOK
<1>7. x \notin inUse /\ \A u \in Thread : Carrying(u) /\ arg[u] = x => u = t
  BY <1>2, <1>6 DEF PlaceInv, OnePlace
<1>8. \A y : Carried(y)' <=> Carried(y) /\ y # x
  BY <1>2, <1>3, <1>6, <1>7 DEF Carried
<1>9. Missing(q)' = Missing(q) \ {x} /\ x \in Missing(q)
  BY <1>2, <1>3, <1>6, <1>7, <1>8 DEF Missing, Obj, Carried
<1>10. ASSUME NEW p \in Thread \ {q}
       PROVE  Missing(p)' = Missing(p)
  BY <1>2, <1>3, <1>8 DEF Missing, Obj
<1>11. Cardinality(Missing(q)') = Cardinality(Missing(q)) - 1
  BY <1>9, MissingFinite, FS_RemoveElement DEF PlaceInv
<1>12. PICK n \in Nat, d \in Nat, r \in Nat :
         n = total[q] /\ d = Len(DataPointer[q]) /\ r = Len(RemoteDataPointer[q])
  BY <1>4
<1>13. PICK r1 \in Int : r1 = r + 1
  OBVIOUS
<1>14. n = total'[q] /\ d = Len(DataPointer'[q]) /\ r1 = Len(RemoteDataPointer'[q])
  BY <1>3, <1>4, <1>5, <1>12, <1>13
<1>15. n - d - r1 = n - d - r - 1
  BY <1>13
<1>16. total'[q] - Len(DataPointer'[q]) - Len(RemoteDataPointer'[q]) = Cardinality(Missing(q)')
  BY <1>11, <1>12, <1>14, <1>15 DEF MissingAreInUse
<1>17. QED
  BY <1>3, <1>5, <1>10, <1>16, PoolChanges

(* No step loses an object.                                                *)
LEMMA MissingStep ==
  ASSUME PlaceInv, MissingAreInUse, [Next]_vars
  PROVE  MissingAreInUse'
<1>1. CASE UNCHANGED vars
  BY <1>1 DEF vars, MissingAreInUse, Missing, Carried, Carrying, Obj
<1>2. ASSUME NEW t \in Thread, Step(t)
      PROVE  MissingAreInUse'
  BY <1>2, QuietStep, SwapMissing, AllocateMissing, PopMissing, EmplaceMissing DEF Step
<1>3. QED
  BY <1>1, <1>2, QuietStep, ReturnOwnMissing, ReturnRemoteMissing DEF Next

-----------------------------------------------------------------------------
(* The demand.  A call that begins or ends changes it by one.              *)
LEMMA DemandStep ==
  ASSUME PlaceInv, Demand, [Next]_vars
  PROVE  Demand'
<1>1. /\ IsFiniteSet(inUse) /\ Cardinality(inUse) \in Nat
      /\ IsFiniteSet(Busy) /\ Cardinality(Busy) \in Nat /\ MaxLive \in Nat
  BY DemandFinite, DataPoolAssumption DEF PlaceInv
<1>2. ASSUME UNCHANGED inUse, Busy' = Busy
      PROVE  Demand'
  BY <1>2 DEF Demand
<1>3. ASSUME NEW t \in Thread, GetData(t)
      PROVE  Demand'
  <2>1. Busy' = Busy \cup {t} /\ t \notin Busy
    BY <1>3 DEF GetData, GoTo, Busy, PlaceInv, TypeOK
  <2>2. Cardinality(Busy') = Cardinality(Busy) + 1
    BY <1>1, <2>1, FS_AddElement
  <2>3. inUse' = inUse /\ Cardinality(inUse) + Cardinality(Busy) < MaxLive
    BY <1>3 DEF GetData, Busy
  <2>4. QED
    BY <1>1, <2>2, <2>3 DEF Demand
<1>4. ASSUME NEW t \in Thread, Pop(t)
      PROVE  Demand'
  <2>1. Busy' = Busy \ {t} /\ t \in Busy
    BY <1>4 DEF Pop, GoTo, Busy, PlaceInv, TypeOK
  <2>2. Cardinality(Busy') = Cardinality(Busy) - 1
    BY <1>1, <2>1, FS_RemoveElement
  <2>3. PICK x : inUse' = inUse \cup {x}
    BY <1>4 DEF Pop
  <2>4. /\ Cardinality(inUse') \in Nat
        /\ Cardinality(inUse') <= Cardinality(inUse) + 1
    <3>1. CASE x \in inUse
      <4>1. inUse' = inUse
        BY <2>3, <3>1
      <4>2. QED
        BY <1>1, <4>1
    <3>2. CASE x \notin inUse
      <4>1. Cardinality(inUse') = Cardinality(inUse) + 1
        BY <1>1, <2>3, <3>2, FS_AddElement
      <4>2. QED
        BY <1>1, <4>1
    <3>3. QED
      BY <3>1, <3>2
  <2>5. QED
    BY <1>1, <2>2, <2>4 DEF Demand
<1>5. ASSUME NEW t \in Thread, NEW x \in Obj, ReturnOwn(t, x)
      PROVE  Demand'
  <2>1. Busy' = Busy
    BY <1>5 DEF ReturnOwn, Busy
  <2>2. Cardinality(inUse') = Cardinality(inUse) - 1
    BY <1>1, <1>5, FS_RemoveElement DEF ReturnOwn
  <2>3. QED
    BY <1>1, <2>1, <2>2 DEF Demand
<1>6. ASSUME NEW t \in Thread, NEW x \in Obj, ReturnRemote(t, x)
      PROVE  Demand'
  <2>1. Busy' = Busy \cup {t} /\ t \notin Busy
    BY <1>6 DEF ReturnRemote, GoTo, Busy, PlaceInv, TypeOK
  <2>2. Cardinality(Busy') = Cardinality(Busy) + 1
    BY <1>1, <2>1, FS_AddElement
  <2>3. Cardinality(inUse') = Cardinality(inUse) - 1
    BY <1>1, <1>6, FS_RemoveElement DEF ReturnRemote
  <2>4. QED
    BY <1>1, <2>2, <2>3 DEF Demand
<1>7. ASSUME NEW t \in Thread, UnlockReturn(t)
      PROVE  Demand'
  <2>1. inUse' = inUse /\ Busy' = Busy \ {t} /\ t \in Busy
    BY <1>7 DEF UnlockReturn, GoTo, Busy, PlaceInv, TypeOK
  <2>2. Cardinality(Busy') = Cardinality(Busy) - 1
    BY <1>1, <2>1, FS_RemoveElement
  <2>3. QED
    BY <1>1, <2>1, <2>2 DEF Demand
<1>8. ASSUME NEW t \in Thread,
             \/ NewDatas(t) \/ LockSwap(t) \/ Swap(t) \/ Clear(t) \/ UnlockSwap(t)
             \/ Allocate(t) \/ LockReturn(t) \/ Emplace(t) \/ CountRemote(t)
      PROVE  Demand'
  <2>1. /\ inUse' = inUse
        /\ \E l \in Label \ {"idle"} : pc[t] # "idle" /\ pc' = [pc EXCEPT ![t] = l]
    BY <1>8 DEF NewDatas, LockSwap, Swap, Clear, UnlockSwap, Allocate, LockReturn, Emplace,
                CountRemote, GoTo, Label
  <2>2. Busy' = Busy
    BY <2>1 DEF Busy, PlaceInv, TypeOK
  <2>3. QED
    BY <1>2, <2>1, <2>2
<1>9. CASE UNCHANGED vars
  BY <1>2, <1>9 DEF vars, Busy
<1>10. QED
  BY <1>3, <1>4, <1>5, <1>6, <1>7, <1>8, <1>9 DEF Next, Step

-----------------------------------------------------------------------------
(* The threads that carry an object of pool t are as many as the objects   *)
(* they carry at least: the missing objects are in use or carried.         *)
LEMMA MissingBelow ==
  ASSUME PlaceInv, NEW t \in Thread, NEW C,
         C = {u \in Thread : Carrying(u) /\ owner[arg[u]] = t}
  PROVE  /\ IsFiniteSet(C) /\ Cardinality(C) \in Nat
         /\ Cardinality(Missing(t)) \in Nat
         /\ Cardinality(Missing(t)) <= Cardinality(inUse) + Cardinality(C)
<1>1. /\ IsFiniteSet(inUse) /\ Cardinality(inUse) \in Nat
      /\ IsFiniteSet(Missing(t)) /\ Cardinality(Missing(t)) \in Nat
  BY DemandFinite, MissingFinite, FS_CardinalityType DEF PlaceInv
<1>2. IsFiniteSet(C) /\ Cardinality(C) \in Nat
  BY DataPoolAssumption, FS_Subset, FS_CardinalityType
<1> DEFINE A == {arg[u] : u \in C}
           f == [u \in C |-> arg[u]]
<1>3. f \in Surjection(C, A)
  BY DEF Surjection
<1> HIDE DEF f, A
<1>4. IsFiniteSet(A) /\ Cardinality(A) \in Nat /\ Cardinality(A) <= Cardinality(C)
  BY <1>2, <1>3, FS_Surjection, FS_CardinalityType
<1>5. Missing(t) \subseteq inUse \cup A
  BY DEF Missing, Carried, A
<1>6. /\ IsFiniteSet(inUse \cup A) /\ Cardinality(inUse \cup A) \in Nat
      /\ Cardinality(inUse \cup A) <= Cardinality(inUse) + Cardinality(A)
  <2>1. /\ IsFiniteSet(inUse \cup A) /\ IsFiniteSet(inUse \cap A)
        /\ Cardinality(inUse \cup A) =
             Cardinality(inUse) + Cardinality(A) - Cardinality(inUse \cap A)
    BY <1>1, <1>4, FS_Union, FS_Intersection
  <2>2. Cardinality(inUse \cap A) \in Nat /\ Cardinality(inUse \cup A) \in Nat
    BY <2>1, FS_CardinalityType
  <2>3. QED
    BY <1>1, <1>4, <2>1, <2>2
<1>7. Cardinality(Missing(t)) <= Cardinality(inUse \cup A)
  BY <1>5, <1>6, FS_Subset
<1>8. QED
  BY <1>1, <1>2, <1>4, <1>6, <1>7

(* The unlocked read that finds no returned object: at most one is on the  *)
(* way between the vector and the count, and its thread is still busy.     *)
LEMMA NewDatasBelow ==
  ASSUME PlaceInv, MissingAreInUse, Demand, NEW t \in Thread, pc[t] = "newDatas",
         ~(remote[t] > 0)
  PROVE  total[t] < MaxLive
<1>1. PICK C : C = {u \in Thread : Carrying(u) /\ owner[arg[u]] = t}
  OBVIOUS
<1>2. /\ IsFiniteSet(C) /\ Cardinality(C) \in Nat
      /\ Cardinality(Missing(t)) \in Nat
      /\ Cardinality(Missing(t)) <= Cardinality(inUse) + Cardinality(C)
  BY <1>1, MissingBelow
<1>3. /\ IsFiniteSet(inUse) /\ Cardinality(inUse) \in Nat
      /\ IsFiniteSet(Busy) /\ Cardinality(Busy) \in Nat /\ MaxLive \in Nat
  BY DemandFinite, DataPoolAssumption DEF PlaceInv
<1>4. Cardinality(inUse) + Cardinality(Busy) <= MaxLive
  BY DEF Demand
<1>5. remote[t] = 0 /\ total[t] \in Nat
  BY DEF PlaceInv, TypeOK
<1>6. Len(DataPointer[t]) = 0
  BY EmptySeq DEF PlaceInv, GetDataKnows
<1>7. t \notin C /\ t \in Busy /\ C \subseteq Busy
  BY <1>1 DEF Carrying, Busy
<1>8. CASE Uncounted(t)
  <2>1. Len(RemoteDataPointer[t]) = 1
    <3>1. Len(RemoteDataPointer[t]) = remote[t] + 1
      BY <1>8 DEF PlaceInv, CountOK
    <3>2. QED
      BY <1>5, <3>1
  <2>2. PICK w \in Thread : pc[w] = "count"
    BY <1>8 DEF Uncounted
  <2>3. w \notin C \cup {t} /\ C \cup {t} \cup {w} \subseteq Busy
    BY <1>1, <1>7, <2>2 DEF Carrying, Busy
  <2>4. /\ IsFiniteSet(C \cup {t}) /\ Cardinality(C \cup {t}) = Cardinality(C) + 1
    BY <1>2, <1>7, FS_AddElement
  <2>5. Cardinality(C \cup {t} \cup {w}) = Cardinality(C) + 2
    <3>1. Cardinality((C \cup {t}) \cup {w}) = Cardinality(C \cup {t}) + 1
      BY <2>3, <2>4, FS_AddElement
    <3>2. QED
      BY <1>2, <2>4, <3>1
  <2>6. Cardinality(C) + 2 <= Cardinality(Busy)
    BY <1>3, <2>3, <2>5, FS_Subset
  <2>7. total[t] - 0 - 1 = Cardinality(Missing(t))
    BY <1>6, <2>1 DEF MissingAreInUse
  <2>8. QED
    BY <1>2, <1>3, <1>4, <1>5, <2>6, <2>7
<1>9. CASE ~Uncounted(t)
  <2>1. Len(RemoteDataPointer[t]) = 0
    BY <1>5, <1>9 DEF PlaceInv, CountOK
  <2>2. Cardinality(C \cup {t}) = Cardinality(C) + 1
    BY <1>2, <1>7, FS_AddElement
  <2>3. Cardinality(C) + 1 <= Cardinality(Busy)
    BY <1>3, <1>7, <2>2, FS_Subset
  <2>4. total[t] - 0 - 0 = Cardinality(Missing(t))
    BY <1>6, <2>1 DEF MissingAreInUse
  <2>5. QED
    BY <1>2, <1>3, <1>4, <1>5, <2>3, <2>4
<1>10. QED
  BY <1>8, <1>9

(* A page is allocated only below the demand.                              *)
LEMMA AllocateBelowStep ==
  ASSUME PlaceInv, MissingAreInUse, Demand, AllocateBelow, [Next]_vars
  PROVE  AllocateBelow'
<1>1. ASSUME NEW t \in Thread, NewDatas(t)
      PROVE  AllocateBelow'
  <2>1. /\ total' = total
        /\ \A u \in Thread : pc'[u] = "allocate" =>
             pc[u] = "allocate" \/ (u = t /\ ~(remote[t] > 0))
    BY <1>1 DEF NewDatas, GoTo, PlaceInv, TypeOK
  <2>2. ~(remote[t] > 0) => total[t] < MaxLive
    BY <1>1, NewDatasBelow DEF NewDatas
  <2>3. QED
    BY <2>1, <2>2 DEF AllocateBelow
<1>2. ASSUME total' = total, \A u \in Thread : pc'[u] = "allocate" => pc[u] = "allocate"
      PROVE  AllocateBelow'
  BY <1>2 DEF AllocateBelow
<1>3. ASSUME NEW t \in Thread, Allocate(t)
      PROVE  AllocateBelow'
  <2>1. \A u \in Thread : pc'[u] = "allocate" => total'[u] = total[u] /\ pc[u] = "allocate"
    BY <1>3 DEF Allocate, GoTo, PlaceInv, TypeOK
  <2>2. QED
    BY <2>1 DEF AllocateBelow
<1>4. ASSUME NEW t \in Thread,
             \/ GetData(t) \/ LockSwap(t) \/ Swap(t) \/ Clear(t) \/ UnlockSwap(t) \/ Pop(t)
             \/ LockReturn(t) \/ Emplace(t) \/ CountRemote(t) \/ UnlockReturn(t)
      PROVE  AllocateBelow'
  <2>1. total' = total /\ \E l \in Label \ {"allocate"} : pc' = [pc EXCEPT ![t] = l]
    BY <1>4 DEF GetData, LockSwap, Swap, Clear, UnlockSwap, Pop, LockReturn, Emplace,
                CountRemote, UnlockReturn, GoTo, Label
  <2>2. QED
    BY <1>2, <2>1 DEF PlaceInv, TypeOK
<1>5. ASSUME NEW t \in Thread, NEW x \in Obj, ReturnOwn(t, x) \/ ReturnRemote(t, x)
      PROVE  AllocateBelow'
  BY <1>2, <1>5 DEF ReturnOwn, ReturnRemote, GoTo, PlaceInv, TypeOK
<1>6. CASE UNCHANGED vars
  BY <1>2, <1>6 DEF vars
<1>7. QED
  BY <1>1, <1>3, <1>4, <1>5, <1>6 DEF Next, Step

(* A page on top of less than the demand stays below demand and a page.    *)
LEMMA PoolBoundedStep ==
  ASSUME PlaceInv, AllocateBelow, PoolBounded, [Next]_vars
  PROVE  PoolBounded'
<1>1. ASSUME NEW t \in Thread, Allocate(t)
      PROVE  PoolBounded'
  <2>1. /\ total[t] < MaxLive
        /\ total' = [total EXCEPT ![t] = @ + ndatas]
    BY <1>1 DEF Allocate, AllocateBelow
  <2>2. /\ total \in [Thread -> Nat]
        /\ ndatas \in Nat /\ MaxLive \in Nat
    BY DataPoolAssumption DEF PlaceInv, TypeOK
  <2>3. QED
    BY <2>1, <2>2 DEF PoolBounded
<1>2. CASE total' = total
  BY <1>2 DEF PoolBounded
<1>3. ASSUME NEW t \in Thread, Step(t), ~Allocate(t)
      PROVE  total' = total
  BY <1>3 DEF Step, NewDatas, LockSwap, Swap, Clear, UnlockSwap, Pop, LockReturn, Emplace,
              CountRemote, UnlockReturn
<1>4. QED
  BY <1>1, <1>2, <1>3 DEF Next, GetData, ReturnOwn, ReturnRemote, vars

-----------------------------------------------------------------------------
(* The counts hold when the program starts: there is no object yet.        *)
LEMMA InitCounts == Init => MissingAreInUse /\ Demand /\ AllocateBelow /\ PoolBounded
<1> SUFFICES ASSUME Init PROVE MissingAreInUse /\ Demand /\ AllocateBelow /\ PoolBounded
  OBVIOUS
<1>1. MissingAreInUse
  <2>1. \A p \in Thread : Missing(p) = {}
    BY EmptySeq DEF Init, Missing, Obj
  <2>2. \A p \in Thread : total[p] = 0 /\ Len(DataPointer[p]) = 0 /\ Len(RemoteDataPointer[p]) = 0
    BY EmptySeq DEF Init
  <2>3. Cardinality({}) = 0
    BY FS_EmptySet
  <2>4. ASSUME NEW p \in Thread
        PROVE  total[p] - Len(DataPointer[p]) - Len(RemoteDataPointer[p]) =
                 Cardinality(Missing(p))
    <3>1. Cardinality(Missing(p)) = 0
      BY <2>1, <2>3
    <3>2. total[p] - Len(DataPointer[p]) - Len(RemoteDataPointer[p]) = 0 - 0 - 0
      BY <2>2
    <3>3. QED
      BY <3>1, <3>2
  <2>5. QED
    BY <2>4 DEF MissingAreInUse
<1>2. Demand
  <2>1. Busy = {} /\ inUse = {}
    BY DEF Init, Busy
  <2>2. QED
    BY <2>1, FS_EmptySet, DataPoolAssumption DEF Demand
<1>3. AllocateBelow /\ PoolBounded
  BY DataPoolAssumption DEF Init, AllocateBelow, PoolBounded
<1>4. QED
  BY <1>1, <1>2, <1>3

(* Every state of getData and Delete satisfies the inductive invariant.    *)
THEOREM Invariance == Spec => []IInv
<1>1. Init => IInv
  BY InitInv, InitCounts DEF IInv
<1>2. IInv /\ [Next]_vars => IInv'
  <2> SUFFICES ASSUME IInv, [Next]_vars PROVE IInv'
    OBVIOUS
  <2>1. PlaceInv /\ MissingAreInUse /\ Demand /\ AllocateBelow /\ PoolBounded
    BY DEF IInv
  <2>2. PlaceInv'
    BY <2>1, NextInv
  <2>3. MissingAreInUse' /\ Demand' /\ AllocateBelow' /\ PoolBounded'
    BY <2>1, MissingStep, DemandStep, AllocateBelowStep, PoolBoundedStep
  <2>4. QED
    BY <2>2, <2>3 DEF IInv
<1>3. QED
  BY <1>1, <1>2, PTL DEF Spec

(* No object is lost: total minus both vectors, what getMissing() computes, *)
(* is the number of objects in use or on their way back, at every step.    *)
THEOREM NothingIsLost == Spec => []MissingAreInUse
BY Invariance, PTL DEF IInv

(* A pool never grows beyond the demand and a page, although newDatas reads *)
(* remote without the mutex and may miss a return.                         *)
THEOREM PoolStaysBounded == Spec => []PoolBounded
BY Invariance, PTL DEF IInv
=============================================================================
