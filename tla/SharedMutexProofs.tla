-------------------------- MODULE SharedMutexProofs --------------------------
(***************************************************************************)
(* The inductive invariant of SharedMutex, mutual exclusion, and the       *)
(* refinement of ReadWriteLock.                                            *)
(***************************************************************************)
EXTENDS SharedMutex, TLAPS

(* Only thread t moves.                                                    *)
OthersStay(t) ==
  \A u \in Thread \ {t} :
    /\ pc'[u] = pc[u] /\ index'[u] = index[u] /\ scan'[u] = scan[u]
    /\ excl'[u] = excl[u] /\ shared'[u] = shared[u] /\ fallback'[u] = fallback[u]

LEMMA OthersSame ==
  ASSUME NEW t \in Thread, OthersStay(t), NEW u \in Thread \ {t}
  PROVE  /\ Owns(u)' <=> Owns(u)
         /\ AtPoint(u)' <=> AtPoint(u)
         /\ MySlot(u)' = MySlot(u)
         /\ Announced(u)' = Announced(u)
  BY DEF OthersStay, Owns, AtPoint, MySlot, Announced, Sharing

LEMMA AtPointKept ==
  ASSUME \A u \in Thread : AtPoint(u), NEW t \in Thread, OthersStay(t), AtPoint(t)'
  PROVE  (\A u \in Thread : AtPoint(u))'
<1>1. ASSUME NEW u \in Thread PROVE AtPoint(u)'
  <2>1. CASE u = t BY <2>1
  <2>2. CASE u # t BY <2>2, OthersSame
  <2> QED BY <2>1, <2>2
<1> QED BY <1>1

(* The thread takes or gives up nothing that goes with want_x_lock.         *)
LEMMA OwnerKept ==
  ASSUME OneOwner, NEW t \in Thread, OthersStay(t), 
         UNCHANGED <<want_x_lock, owner, xcount>>,
         Owns(t)' <=> Owns(t),
         pc'[t] \in {"own", "ownShared", "drop"} <=> pc[t] \in {"own", "ownShared", "drop"},
         excl'[t] = excl[t], fallback'[t] = fallback[t]
  PROVE  OneOwner'
<1>1. \A u \in Thread : Owns(u)' <=> Owns(u)
  BY OthersSame
<1>2. \A u \in Thread : excl'[u] = excl[u] /\ fallback'[u] = fallback[u]
  BY DEF OthersStay
<1>3. \A u \in Thread :
        pc'[u] \in {"own", "ownShared", "drop"} <=> pc[u] \in {"own", "ownShared", "drop"}
  BY DEF OthersStay
<1> QED BY <1>1, <1>2, <1>3 DEF OneOwner

LEMMA InSlot ==
  ASSUME TypeOK, NEW t \in Thread, AtPoint(t), MySlot(t) # 0
  PROVE  MySlot(t) \in Slot
BY DEF TypeOK, AtPoint, MySlot

LEMMA AnnouncedPositive ==
  ASSUME TypeOK, NEW t \in Thread
  PROVE  Announced(t) # 0
<1>1. shared[t] \in Nat
  BY DEF TypeOK
<1>2. 1 + shared[t] # 0
  BY <1>1
<1> QED BY <1>2 DEF Announced

(* The slots stay as they are.                                             *)
LEMMA SlotsKept ==
  ASSUME SlotsCount, NEW t \in Thread, OthersStay(t), UNCHANGED value,
         MySlot(t)' = MySlot(t), Announced(t)' = Announced(t)
  PROVE  SlotsCount'
<1>1. \A u \in Thread : MySlot(u)' = MySlot(u) /\ Announced(u)' = Announced(u)
  BY OthersSame
<1> QED BY <1>1 DEF SlotsCount, Slot

(* The slot of the thread counts what the thread announces.                 *)
LEMMA SlotWritten ==
  ASSUME TypeOK, \A u \in Thread : AtPoint(u), SlotsCount,
         NEW t \in Thread, OthersStay(t),
         MySlot(t) \in Slot, MySlot(t)' = MySlot(t),
         value' = [value EXCEPT ![MySlot(t)] = Announced(t)']
  PROVE  SlotsCount'
<1>1. \A u \in Thread : MySlot(u)' = MySlot(u)
  BY OthersSame
<1>2. \A u \in Thread \ {t} : Announced(u)' = Announced(u)
  BY OthersSame
<1>3. \A s \in Slot : s # MySlot(t) => value'[s] = value[s]
  BY DEF TypeOK
<1>4. value'[MySlot(t)] = Announced(t)'
  BY DEF TypeOK
<1>5. \A u \in Thread : MySlot(u) # 0 => MySlot(u) \in Slot
  BY InSlot
<1> QED BY <1>1, <1>2, <1>3, <1>4 DEF SlotsCount, Slot

(* No thread passes a slot and none gets the lock in one.                   *)
LEMMA BehindKept ==
  ASSUME TypeOK, NobodyBehind, NEW t \in Thread, OthersStay(t),
         \A s \in Slot : Passed(t, s)' => Passed(t, s),
         index'[t] \in {0} \cup Slot,
         index'[t] # 0 => shared'[t] = 0 \/ (index'[t] = index[t] /\ shared[t] # 0)
  PROVE  NobodyBehind'
<1> SUFFICES ASSUME NEW w \in Thread, NEW u \in Thread, w # u,
                    index'[u] # 0, Passed(w, index[u])'
             PROVE  shared'[u] = 0
  BY DEF NobodyBehind
<1>1. index'[u] \in Slot
  BY DEF OthersStay, TypeOK
<1>2. Passed(w, index'[u])
  <2>1. CASE w = t
    BY <1>1, <2>1 DEF Passed
  <2>2. CASE w # t
    BY <2>2 DEF OthersStay, Passed
  <2> QED BY <2>1, <2>2
<1>3. CASE u = t
  BY <1>2, <1>3 DEF NobodyBehind
<1>4. CASE u # t
  BY <1>2, <1>4 DEF NobodyBehind, OthersStay
<1> QED BY <1>3, <1>4

(* A reader that has announced itself finds want_x_lock clear: no writer    *)
(* has begun to look at the slots.                                         *)
LEMMA NobodyWaits ==
  ASSUME TypeOK, OneOwner, ~want_x_lock, NEW w \in Thread, NEW s PROVE ~Passed(w, s)
BY DEF OneOwner, Owns, Passed

LEMMA InitIInv ==
  ASSUME Init
  PROVE  IInv
<1>1. TypeOK
  <2>1. 1 \in 1..(Size + 1)
    BY SharedMutexAssumption
  <2>2. scan \in [Thread -> 1..(Size + 1)] /\ value \in [Slot -> Nat]
    BY <2>1 DEF Init, Slot
  <2>3. pc \in [Thread -> Label] /\ index \in [Thread -> {0} \cup Slot]
    BY DEF Init, Label
  <2>4. /\ excl \in [Thread -> Nat] /\ shared \in [Thread -> Nat]
        /\ fallback \in [Thread -> Nat]
        /\ useCount \in Int /\ xcount \in Nat
    BY DEF Init
  <2>5. want_x_lock \in BOOLEAN /\ owner \in Thread \cup {NoThread}
    BY DEF Init
  <2> QED BY <2>2, <2>3, <2>4, <2>5 DEF TypeOK
<1>2. /\ \A t \in Thread : AtPoint(t) /\ ~Owns(t) /\ MySlot(t) = 0 /\ index[t] = 0
      /\ \A s \in Slot : value[s] = 0
  BY DEF Init, AtPoint, Sharing, Owns, MySlot, Slot
<1>3. OneOwner
  BY <1>2, SharedMutexAssumption DEF Init, OneOwner
<1>4. SlotsCount /\ NobodyBehind
  BY <1>2 DEF SlotsCount, NobodyBehind
<1> QED BY <1>1, <1>2, <1>3, <1>4 DEF IInv

LEMMA RegisterThreadIInv ==
  ASSUME IInv, NEW t \in Thread, RegisterThread(t)
  PROVE  IInv'
<1>1. TypeOK /\ (\A u \in Thread : AtPoint(u)) /\ OneOwner /\ SlotsCount /\ NobodyBehind
  BY DEF IInv
<1>2. /\ OthersStay(t)
      /\ pc[t] = "register" /\ pc'[t] \in {"register", "remember", "claimShared"}
      /\ index[t] = 0 /\ index'[t] = 0 /\ shared[t] = 0 /\ shared'[t] = 0
      /\ excl'[t] = excl[t] /\ fallback'[t] = fallback[t]
      /\ UNCHANGED <<want_x_lock, owner, xcount>>
      /\ pc'[t] = "remember" =>
           /\ scan[t] \in Slot /\ scan'[t] = scan[t]
           /\ value[scan[t]] = 0 /\ value' = [value EXCEPT ![scan[t]] = 1]
      /\ pc'[t] # "remember" => UNCHANGED value
  <2>1. CASE scan[t] \in Slot /\ value[scan[t]] = 0
    BY <1>1, <2>1 DEF RegisterThread, Goto, OthersStay, TypeOK, AtPoint
  <2>2. CASE scan[t] \in Slot /\ value[scan[t]] # 0
    <3>1. OthersStay(t)
      BY <1>1, <2>2 DEF RegisterThread, Goto, OthersStay, TypeOK
    <3>2. pc'[t] \in {"register", "claimShared"} /\ UNCHANGED value
      BY <1>1, <2>2 DEF RegisterThread, Goto, TypeOK
    <3>3. index[t] = 0 /\ shared[t] = 0
      BY <1>1 DEF RegisterThread, Goto, AtPoint
    <3> QED BY <1>1, <2>2, <3>1, <3>2, <3>3 DEF RegisterThread, Goto, TypeOK
  <2>3. CASE scan[t] \notin Slot
    <3>1. OthersStay(t)
      BY <1>1, <2>3 DEF RegisterThread, Goto, OthersStay, TypeOK
    <3>2. pc'[t] \in {"register", "claimShared"} /\ UNCHANGED value
      BY <1>1, <2>3 DEF RegisterThread, Goto, TypeOK
    <3>3. index[t] = 0 /\ shared[t] = 0
      BY <1>1 DEF RegisterThread, Goto, AtPoint
    <3> QED BY <1>1, <2>3, <3>1, <3>2, <3>3 DEF RegisterThread, Goto, TypeOK
  <2> QED BY <2>1, <2>2, <2>3
<1>3. TypeOK'
  <2>1. pc' \in [Thread -> Label]
    BY <1>1, <1>2 DEF RegisterThread, Goto, TypeOK, Label
  <2>2. value' \in [Slot -> Nat]
    BY <1>1, <1>2 DEF TypeOK
  <2>3. scan' \in [Thread -> 1..(Size + 1)]
    <3>1. CASE scan[t] \in Slot /\ value[scan[t]] # 0
      <4>1. scan[t] + 1 \in 1..(Size + 1)
        BY SharedMutexAssumption, <3>1 DEF Slot
      <4>2. scan' = [scan EXCEPT ![t] = scan[t] + 1]
        BY <1>1, <3>1 DEF RegisterThread, TypeOK
      <4> QED BY <1>1, <4>1, <4>2 DEF TypeOK
    <3>2. CASE ~(scan[t] \in Slot /\ value[scan[t]] # 0)
      BY <1>1, <3>2 DEF RegisterThread, TypeOK
    <3> QED BY <3>1, <3>2
  <2> QED BY <1>1, <2>1, <2>2, <2>3 DEF RegisterThread, TypeOK, Slot
<1>4. AtPoint(t)'
  BY <1>1, <1>2, <1>3 DEF AtPoint, Sharing, TypeOK
<1>5. OneOwner'
  BY <1>1, <1>2, OwnerKept DEF Owns
<1>6. SlotsCount'
  <2>1. CASE pc'[t] = "remember"
    <3>1. \A u \in Thread \ {t} : MySlot(u)' = MySlot(u) /\ Announced(u)' = Announced(u)
      BY <1>2, OthersSame
    <3>2. MySlot(t)' = scan[t] /\ Announced(t)' = 1 /\ MySlot(t) = 0
      BY <1>2, <2>1 DEF MySlot, Announced
    <3>3. \A u \in Thread : MySlot(u) # scan[t]
      <4>1. \A u \in Thread : Announced(u) # 0
        BY <1>1, AnnouncedPositive
      <4> QED BY <1>1, <1>2, <2>1, <4>1 DEF SlotsCount, Slot
    <3>4. /\ value'[scan[t]] = 1
          /\ \A s \in Slot : s # scan[t] => value'[s] = value[s]
      BY <1>1, <1>2, <2>1 DEF TypeOK
    <3>5. \A u \in Thread : MySlot(u) # 0 => MySlot(u) \in Slot
      BY <1>1, InSlot
    <3> QED BY <1>1, <1>2, <2>1, <3>1, <3>2, <3>3, <3>4, <3>5 DEF SlotsCount, Slot
  <2>2. CASE pc'[t] # "remember"
    BY <1>1, <1>2, <2>2, SlotsKept DEF MySlot, Announced
  <2> QED BY <2>1, <2>2
<1>7. NobodyBehind'
  BY <1>1, <1>2, <1>3, BehindKept DEF Passed, TypeOK, AtPoint
<1> QED BY <1>1, <1>2, <1>3, <1>4, <1>5, <1>6, <1>7, AtPointKept DEF IInv

LEMMA RememberIndexIInv ==
  ASSUME IInv, NEW t \in Thread, RememberIndex(t)
  PROVE  IInv'
<1>1. TypeOK /\ (\A u \in Thread : AtPoint(u)) /\ OneOwner /\ SlotsCount /\ NobodyBehind
  BY DEF IInv
<1>2. /\ OthersStay(t)
      /\ pc[t] = "remember" /\ pc'[t] = "announce" /\ index[t] = 0 /\ index'[t] = scan[t]
      /\ shared[t] = 0 /\ shared'[t] = 0 /\ scan[t] \in Slot
      /\ excl'[t] = excl[t] /\ fallback'[t] = fallback[t]
      /\ UNCHANGED <<want_x_lock, owner, xcount, value>>
  BY <1>1 DEF RememberIndex, Goto, OthersStay, TypeOK, AtPoint
<1>3. TypeOK'
  BY <1>1, <1>2 DEF RememberIndex, Goto, TypeOK, Slot, Label, AtPoint
<1>4. AtPoint(t)'
  BY <1>1, <1>2, <1>3 DEF AtPoint, Sharing, TypeOK
<1>5. OneOwner'
  BY <1>1, <1>2, OwnerKept DEF Owns
<1>6. SlotsCount'
  BY <1>1, <1>2, SlotsKept DEF MySlot, Announced, AtPoint
<1>7. NobodyBehind'
  BY <1>1, <1>2, <1>3, BehindKept DEF Passed, TypeOK, AtPoint
<1> QED BY <1>1, <1>2, <1>3, <1>4, <1>5, <1>6, <1>7, AtPointKept DEF IInv

LEMMA AnnounceIInv ==
  ASSUME IInv, NEW t \in Thread, Announce(t)
  PROVE  IInv'
<1>1. TypeOK /\ (\A u \in Thread : AtPoint(u)) /\ OneOwner /\ SlotsCount /\ NobodyBehind
  BY DEF IInv
<1>a. index[t] \in Slot /\ MySlot(t) = index[t] /\ value[index[t]] = Announced(t)
  BY <1>1 DEF Announce, Goto, AtPoint, TypeOK, SlotsCount, MySlot, Announced
<1>b. value[index[t]] = 1 + shared[t] /\ shared[t] \in Nat
  BY <1>1, <1>a DEF Announce, Goto, Announced, TypeOK
<1>2. /\ OthersStay(t)
      /\ pc[t] = "announce" /\ index[t] # 0 /\ index'[t] = index[t]
      /\ shared[t] = 0 => pc'[t] = "check" /\ shared'[t] = 0
      /\ shared[t] # 0 => pc'[t] = "idle" /\ shared'[t] = shared[t] + 1
      /\ excl'[t] = excl[t] /\ fallback'[t] = fallback[t]
      /\ UNCHANGED <<want_x_lock, owner, xcount>>
      /\ value' = [value EXCEPT ![index[t]] = shared[t] + 2]
  <2>1. CASE shared[t] = 0
    BY <1>1, <1>a, <1>b, <2>1 DEF Announce, Goto, OthersStay, TypeOK, AtPoint
  <2>2. CASE shared[t] # 0
    <3>1. value[index[t]] > 1
      BY <1>b, <2>2
    <3>2. OthersStay(t)
      BY <1>1, <1>a, <3>1 DEF Announce, Goto, OthersStay, TypeOK
    <3>3. pc'[t] = "idle" /\ shared'[t] = shared[t] + 1
      BY <1>1, <3>1 DEF Announce, Goto, TypeOK
    <3>4. /\ UNCHANGED <<want_x_lock, owner, xcount, index, excl, fallback>>
          /\ value' = [value EXCEPT ![index[t]] = shared[t] + 2]
      <4>1. value[index[t]] + 1 = shared[t] + 2
        BY <1>b
      <4>2. value' = [value EXCEPT ![index[t]] = value[index[t]] + 1]
        BY <1>1, <1>a DEF Announce, TypeOK
      <4>3. UNCHANGED <<want_x_lock, owner, xcount, index, excl, fallback>>
        BY DEF Announce
      <4> QED BY <4>1, <4>2, <4>3
    <3>5. pc[t] = "announce" /\ index[t] # 0
      BY <1>a DEF Announce, Goto, Slot
    <3> QED BY <2>2, <3>2, <3>3, <3>4, <3>5
  <2> QED BY <2>1, <2>2
<1>3. TypeOK'
  BY <1>1, <1>2 DEF Announce, Goto, TypeOK, Slot, Label, AtPoint
<1>4. AtPoint(t)'
  BY <1>1, <1>2, <1>3 DEF AtPoint, Sharing, TypeOK
<1>5. OneOwner'
  BY <1>1, <1>2, OwnerKept DEF Owns
<1>6. SlotsCount'
  <2>1. MySlot(t)' = MySlot(t)
    BY <1>1, <1>2, <1>a DEF MySlot
  <2>2. Announced(t)' = shared[t] + 2
    BY <1>2, <1>b DEF Announced
  <2> QED BY <1>1, <1>2, <1>a, <2>1, <2>2, SlotWritten
<1>7. NobodyBehind'
  BY <1>1, <1>2, <1>3, BehindKept DEF Passed, TypeOK, AtPoint
<1> QED BY <1>1, <1>2, <1>3, <1>4, <1>5, <1>6, <1>7, AtPointKept DEF IInv

LEMMA CheckWantIInv ==
  ASSUME IInv, NEW t \in Thread, CheckWant(t)
  PROVE  IInv'
<1>1. TypeOK /\ (\A u \in Thread : AtPoint(u)) /\ OneOwner /\ SlotsCount /\ NobodyBehind
  BY DEF IInv
<1>2. /\ OthersStay(t)
      /\ pc[t] = "check" /\ index[t] # 0 /\ index'[t] = index[t] /\ shared[t] = 0
      /\ want_x_lock => pc'[t] = "retreat" /\ shared'[t] = 0
      /\ ~want_x_lock => pc'[t] = "idle" /\ shared'[t] = 1
      /\ excl'[t] = excl[t] /\ fallback'[t] = fallback[t]
      /\ UNCHANGED <<want_x_lock, owner, xcount, value>>
  BY <1>1 DEF CheckWant, Goto, OthersStay, TypeOK, AtPoint
<1>3. TypeOK'
  BY <1>1, <1>2 DEF CheckWant, Goto, TypeOK, Slot, Label, AtPoint
<1>4. AtPoint(t)'
  BY <1>1, <1>2, <1>3 DEF AtPoint, Sharing, TypeOK, OneOwner, Owns
<1>5. OneOwner'
  BY <1>1, <1>2, OwnerKept DEF Owns
<1>6. SlotsCount'
  BY <1>1, <1>2, SlotsKept DEF MySlot, Announced, AtPoint
<1>7. NobodyBehind'
  <2>1. CASE want_x_lock
    BY <1>1, <1>2, <1>3, <2>1, BehindKept DEF Passed, TypeOK
  <2>2. CASE ~want_x_lock
    <3>1. \A w \in Thread, s \in Slot : ~Passed(w, s)
      BY <1>1, <2>2, NobodyWaits
    <3>2. \A w \in Thread, s \in Slot : Passed(w, s)' => Passed(w, s)
      BY <1>1, <1>2, <2>2 DEF Passed, OthersStay
    <3> QED BY <1>3, <3>1, <3>2 DEF NobodyBehind, TypeOK
  <2> QED BY <2>1, <2>2
<1> QED BY <1>1, <1>2, <1>3, <1>4, <1>5, <1>6, <1>7, AtPointKept DEF IInv

LEMMA RetreatIInv ==
  ASSUME IInv, NEW t \in Thread, Retreat(t)
  PROVE  IInv'
<1>1. TypeOK /\ (\A u \in Thread : AtPoint(u)) /\ OneOwner /\ SlotsCount /\ NobodyBehind
  BY DEF IInv
<1>a. index[t] \in Slot /\ MySlot(t) = index[t] /\ value[index[t]] = Announced(t)
  BY <1>1 DEF Retreat, Goto, AtPoint, TypeOK, SlotsCount, MySlot, Announced
<1>2. /\ OthersStay(t)
      /\ pc[t] = "retreat" /\ pc'[t] = "spin" /\ index[t] # 0 /\ index'[t] = index[t]
      /\ shared[t] = 0 /\ shared'[t] = 0
      /\ excl'[t] = excl[t] /\ fallback'[t] = fallback[t]
      /\ UNCHANGED <<want_x_lock, owner, xcount>>
      /\ value' = [value EXCEPT ![index[t]] = 1]
  BY <1>1, <1>a DEF Retreat, Goto, OthersStay, TypeOK, AtPoint, Announced
<1>3. TypeOK'
  BY <1>1, <1>2 DEF Retreat, Goto, TypeOK, Slot, Label, AtPoint
<1>4. AtPoint(t)'
  BY <1>1, <1>2, <1>3 DEF AtPoint, Sharing, TypeOK
<1>5. OneOwner'
  BY <1>1, <1>2, OwnerKept DEF Owns
<1>6. SlotsCount'
  <2>1. MySlot(t)' = MySlot(t)
    BY <1>1, <1>2, <1>a DEF MySlot
  <2>2. Announced(t)' = 1
    BY <1>2 DEF Announced
  <2> QED BY <1>1, <1>2, <1>a, <2>1, <2>2, SlotWritten
<1>7. NobodyBehind'
  BY <1>1, <1>2, <1>3, BehindKept DEF Passed, TypeOK, AtPoint
<1> QED BY <1>1, <1>2, <1>3, <1>4, <1>5, <1>6, <1>7, AtPointKept DEF IInv

LEMMA SpinIInv ==
  ASSUME IInv, NEW t \in Thread, Spin(t)
  PROVE  IInv'
<1>1. TypeOK /\ (\A u \in Thread : AtPoint(u)) /\ OneOwner /\ SlotsCount /\ NobodyBehind
  BY DEF IInv
<1>2. /\ OthersStay(t)
      /\ pc[t] = "spin" /\ pc'[t] = "announce" /\ index[t] # 0 /\ index'[t] = index[t]
      /\ shared[t] = 0 /\ shared'[t] = 0
      /\ excl'[t] = excl[t] /\ fallback'[t] = fallback[t]
      /\ UNCHANGED <<want_x_lock, owner, xcount, value>>
  BY <1>1 DEF Spin, Goto, OthersStay, TypeOK, AtPoint
<1>3. TypeOK'
  BY <1>1, <1>2 DEF Spin, Goto, TypeOK, Slot, Label, AtPoint
<1>4. AtPoint(t)'
  BY <1>1, <1>2, <1>3 DEF AtPoint, Sharing, TypeOK
<1>5. OneOwner'
  BY <1>1, <1>2, OwnerKept DEF Owns
<1>6. SlotsCount'
  BY <1>1, <1>2, SlotsKept DEF MySlot, Announced, AtPoint
<1>7. NobodyBehind'
  BY <1>1, <1>2, <1>3, BehindKept DEF Passed, TypeOK, AtPoint
<1> QED BY <1>1, <1>2, <1>3, <1>4, <1>5, <1>6, <1>7, AtPointKept DEF IInv

LEMMA ClaimSharedIInv ==
  ASSUME IInv, NEW t \in Thread, ClaimShared(t)
  PROVE  IInv'
<1>1. TypeOK /\ (\A u \in Thread : AtPoint(u)) /\ OneOwner /\ SlotsCount /\ NobodyBehind
  BY DEF IInv
<1>2. /\ OthersStay(t)
      /\ pc[t] = "claimShared" /\ index[t] = 0 /\ index'[t] = 0
      /\ shared[t] = 0 /\ shared'[t] = 0 /\ excl'[t] = excl[t]
      /\ UNCHANGED <<owner, value>>
      /\ owner = t => /\ pc'[t] = "idle" /\ xcount' = xcount + 1
                      /\ want_x_lock' = want_x_lock /\ fallback'[t] = fallback[t] + 1
      /\ owner # t => /\ pc'[t] = "ownShared" /\ xcount' = xcount /\ ~want_x_lock
                      /\ want_x_lock' /\ fallback'[t] = fallback[t]
  <2>1. CASE owner = t
    <3>1. OthersStay(t)
      BY <1>1, <2>1 DEF ClaimShared, Goto, OthersStay, TypeOK
    <3>3. index[t] = 0 /\ shared[t] = 0
      BY <1>1 DEF ClaimShared, Goto, AtPoint
    <3> QED BY <1>1, <2>1, <3>1, <3>3 DEF ClaimShared, Goto, TypeOK
  <2>2. CASE owner # t
    <3>1. OthersStay(t)
      BY <1>1, <2>2 DEF ClaimShared, Goto, OthersStay, TypeOK
    <3>3. index[t] = 0 /\ shared[t] = 0
      BY <1>1 DEF ClaimShared, Goto, AtPoint
    <3> QED BY <1>1, <2>2, <3>1, <3>3 DEF ClaimShared, Goto, TypeOK
  <2> QED BY <2>1, <2>2
<1>3. TypeOK'
  <2>1. CASE owner = t
    <3>1. xcount' \in Nat /\ fallback' \in [Thread -> Nat] /\ pc' \in [Thread -> Label]
      BY <1>1, <2>1 DEF ClaimShared, Goto, TypeOK, Label
    <3> QED BY <1>1, <1>2, <2>1, <3>1 DEF ClaimShared, TypeOK, Slot
  <2>2. CASE owner # t
    <3>1. want_x_lock' \in BOOLEAN /\ pc' \in [Thread -> Label]
      BY <1>1, <2>2 DEF ClaimShared, Goto, TypeOK, Label
    <3> QED BY <1>1, <2>2, <3>1 DEF ClaimShared, TypeOK, Slot
  <2> QED BY <2>1, <2>2
<1>4. AtPoint(t)'
  BY <1>1, <1>2, <1>3 DEF AtPoint, Sharing, TypeOK, OneOwner, Owns
<1>5. OneOwner'
  <2>1. \A u \in Thread \ {t} : Owns(u)' <=> Owns(u)
    BY <1>2, OthersSame
  <2>2. CASE owner = t
    <3>1. Owns(t) /\ Owns(t)'
      BY <1>1, <1>2, <1>3, <2>2 DEF Owns, OneOwner, TypeOK
    <3> QED BY <1>1, <1>2, <1>3, <2>1, <2>2, <3>1 DEF OneOwner, OthersStay, TypeOK
  <2>3. CASE owner # t
    <3>1. \A u \in Thread : ~Owns(u)
      BY <1>1, <1>2, <2>3 DEF OneOwner
    <3>2. Owns(t)' /\ excl[t] = 0 /\ fallback[t] = 0
      BY <1>1, <1>2, <1>3, <2>3, <3>1 DEF Owns, TypeOK
    <3> QED BY <1>1, <1>2, <1>3, <2>1, <2>3, <3>1, <3>2 DEF OneOwner, OthersStay, TypeOK
  <2> QED BY <2>2, <2>3
<1>6. SlotsCount'
  BY <1>1, <1>2, SlotsKept DEF MySlot, Announced, AtPoint
<1>7. NobodyBehind'
  BY <1>1, <1>2, <1>3, BehindKept DEF Passed, TypeOK, AtPoint
<1> QED BY <1>1, <1>2, <1>3, <1>4, <1>5, <1>6, <1>7, AtPointKept DEF IInv

LEMMA OwnSharedIInv ==
  ASSUME IInv, NEW t \in Thread, OwnShared(t)
  PROVE  IInv'
<1>1. TypeOK /\ (\A u \in Thread : AtPoint(u)) /\ OneOwner /\ SlotsCount /\ NobodyBehind
  BY DEF IInv
<1>2. /\ OthersStay(t)
      /\ pc[t] = "ownShared" /\ pc'[t] = "idle" /\ index[t] = 0 /\ index'[t] = 0
      /\ shared[t] = 0 /\ shared'[t] = 0 /\ excl[t] = 0 /\ excl'[t] = 0
      /\ fallback[t] = 0 /\ fallback'[t] = 1 /\ owner' = t /\ xcount' = xcount + 1
      /\ UNCHANGED <<want_x_lock, value>>
  BY <1>1 DEF OwnShared, Goto, OthersStay, TypeOK, AtPoint
<1>3. TypeOK'
  BY <1>1, <1>2 DEF OwnShared, Goto, TypeOK, Slot, Label, AtPoint
<1>4. AtPoint(t)'
  BY <1>1, <1>2, <1>3 DEF AtPoint, Sharing, TypeOK
<1>5. OneOwner'
  <2>1. \A u \in Thread \ {t} : Owns(u)' <=> Owns(u)
    BY <1>2, OthersSame
  <2>2. Owns(t) /\ Owns(t)' /\ xcount = 0
    BY <1>1, <1>2, <1>3 DEF Owns, OneOwner, TypeOK, AtPoint, Sharing
  <2> QED BY <1>1, <1>2, <1>3, <2>1, <2>2 DEF OneOwner, OthersStay, TypeOK
<1>6. SlotsCount'
  BY <1>1, <1>2, SlotsKept DEF MySlot, Announced, AtPoint
<1>7. NobodyBehind'
  BY <1>1, <1>2, <1>3, BehindKept DEF Passed, TypeOK, AtPoint
<1> QED BY <1>1, <1>2, <1>3, <1>4, <1>5, <1>6, <1>7, AtPointKept DEF IInv

LEMMA DropWantIInv ==
  ASSUME IInv, NEW t \in Thread, DropWant(t)
  PROVE  IInv'
<1>1. TypeOK /\ (\A u \in Thread : AtPoint(u)) /\ OneOwner /\ SlotsCount /\ NobodyBehind
  BY DEF IInv
<1>2. /\ OthersStay(t)
      /\ pc[t] = "drop" /\ pc'[t] = "idle" /\ index'[t] = index[t] /\ shared'[t] = shared[t]
      /\ excl[t] = 0 /\ excl'[t] = 0 /\ fallback[t] = 0 /\ fallback'[t] = 0
      /\ ~want_x_lock'
      /\ UNCHANGED <<owner, xcount, value>>
  BY <1>1 DEF DropWant, Goto, OthersStay, TypeOK, AtPoint
<1>3. TypeOK'
  BY <1>1, <1>2 DEF DropWant, Goto, TypeOK, Slot, Label, AtPoint
<1>4. AtPoint(t)'
  BY <1>1, <1>2, <1>3 DEF AtPoint, Sharing, TypeOK
<1>5. OneOwner'
  <2>1. \A u \in Thread \ {t} : Owns(u)' <=> Owns(u)
    BY <1>2, OthersSame
  <2>2. Owns(t) /\ ~Owns(t)' /\ xcount = 0
    BY <1>1, <1>2, <1>3 DEF Owns, OneOwner, TypeOK, AtPoint, Sharing
  <2> QED BY <1>1, <1>2, <1>3, <2>1, <2>2 DEF OneOwner, OthersStay, TypeOK
<1>6. SlotsCount'
  BY <1>1, <1>2, SlotsKept DEF MySlot, Announced, AtPoint
<1>7. NobodyBehind'
  BY <1>1, <1>2, <1>3, BehindKept DEF Passed, TypeOK, AtPoint
<1> QED BY <1>1, <1>2, <1>3, <1>4, <1>5, <1>6, <1>7, AtPointKept DEF IInv

LEMMA ClaimIInv ==
  ASSUME IInv, NEW t \in Thread, Claim(t)
  PROVE  IInv'
<1>1. TypeOK /\ (\A u \in Thread : AtPoint(u)) /\ OneOwner /\ SlotsCount /\ NobodyBehind
  BY DEF IInv
<1>2. /\ OthersStay(t)
      /\ pc[t] = "claim" /\ pc'[t] = "own" /\ index'[t] = index[t] /\ shared'[t] = shared[t]
      /\ excl[t] = 0 /\ excl'[t] = 0 /\ fallback[t] = 0 /\ fallback'[t] = 0
      /\ ~want_x_lock /\ want_x_lock'
      /\ UNCHANGED <<owner, xcount, value>>
  BY <1>1 DEF Claim, Goto, OthersStay, TypeOK, AtPoint, Sharing
<1>3. TypeOK'
  BY <1>1, <1>2 DEF Claim, Goto, TypeOK, Slot, Label, AtPoint
<1>4. AtPoint(t)'
  BY <1>1, <1>2, <1>3 DEF AtPoint, Sharing, TypeOK
<1>5. OneOwner'
  <2>1. \A u \in Thread \ {t} : Owns(u)' <=> Owns(u)
    BY <1>2, OthersSame
  <2>2. Owns(t)' /\ \A u \in Thread : ~Owns(u)
    BY <1>1, <1>2, <1>3 DEF Owns, OneOwner, TypeOK, AtPoint, Sharing
  <2> QED BY <1>1, <1>2, <1>3, <2>1, <2>2 DEF OneOwner, OthersStay, TypeOK
<1>6. SlotsCount'
  BY <1>1, <1>2, SlotsKept DEF MySlot, Announced, AtPoint
<1>7. NobodyBehind'
  BY <1>1, <1>2, <1>3, BehindKept DEF Passed, TypeOK, AtPoint
<1> QED BY <1>1, <1>2, <1>3, <1>4, <1>5, <1>6, <1>7, AtPointKept DEF IInv

LEMMA OwnIInv ==
  ASSUME IInv, NEW t \in Thread, Own(t)
  PROVE  IInv'
<1>1. TypeOK /\ (\A u \in Thread : AtPoint(u)) /\ OneOwner /\ SlotsCount /\ NobodyBehind
  BY DEF IInv
<1>2. /\ OthersStay(t)
      /\ pc[t] = "own" /\ pc'[t] = "scan" /\ index'[t] = index[t] /\ shared'[t] = shared[t]
      /\ excl[t] = 0 /\ excl'[t] = 0 /\ fallback[t] = 0 /\ fallback'[t] = 0
      /\ owner' = t /\ scan'[t] = 1
      /\ UNCHANGED <<want_x_lock, xcount, value>>
  BY <1>1 DEF Own, Goto, OthersStay, TypeOK, AtPoint, Sharing
<1>3. TypeOK'
  BY SharedMutexAssumption, <1>1, <1>2 DEF Own, Goto, TypeOK, Slot, Label, AtPoint
<1>4. AtPoint(t)'
  BY <1>1, <1>2, <1>3 DEF AtPoint, Sharing, TypeOK
<1>5. OneOwner'
  <2>1. \A u \in Thread \ {t} : Owns(u)' <=> Owns(u)
    BY <1>2, OthersSame
  <2>2. Owns(t) /\ Owns(t)' /\ xcount = 0
    BY <1>1, <1>2, <1>3 DEF Owns, OneOwner, TypeOK, AtPoint, Sharing
  <2> QED BY <1>1, <1>2, <1>3, <2>1, <2>2 DEF OneOwner, OthersStay, TypeOK
<1>6. SlotsCount'
  BY <1>1, <1>2, SlotsKept DEF MySlot, Announced, AtPoint
<1>7. NobodyBehind'
  <2>1. \A s \in Slot : ~Passed(t, s)'
    BY <1>1, <1>2 DEF Passed, Slot
  <2>2. index'[t] \in {0} \cup Slot
    BY <1>3 DEF TypeOK
  <2> QED BY <1>1, <1>2, <1>3, <2>1, <2>2, BehindKept DEF AtPoint
<1> QED BY <1>1, <1>2, <1>3, <1>4, <1>5, <1>6, <1>7, AtPointKept DEF IInv

LEMMA ScanSlotIInv ==
  ASSUME IInv, NEW t \in Thread, ScanSlot(t)
  PROVE  IInv'
<1>1. TypeOK /\ (\A u \in Thread : AtPoint(u)) /\ OneOwner /\ SlotsCount /\ NobodyBehind
  BY DEF IInv
<1>2. /\ OthersStay(t)
      /\ pc[t] = "scan" /\ pc'[t] = "scan" /\ index'[t] = index[t] /\ shared'[t] = shared[t]
      /\ excl'[t] = excl[t] /\ fallback'[t] = fallback[t]
      /\ scan[t] \in Slot /\ scan'[t] = scan[t] + 1 /\ value[scan[t]] <= 1
      /\ UNCHANGED <<want_x_lock, owner, xcount, value>>
  BY <1>1 DEF ScanSlot, Goto, OthersStay, TypeOK, AtPoint
<1>3. TypeOK'
  <2>1. scan' \in [Thread -> 1..(Size + 1)]
    BY SharedMutexAssumption, <1>1, <1>2 DEF ScanSlot, TypeOK, Slot
  <2> QED BY <1>1, <2>1 DEF ScanSlot, Goto, TypeOK, Slot, Label
<1>4. AtPoint(t)'
  BY <1>1, <1>2, <1>3 DEF AtPoint, Sharing, TypeOK
<1>5. OneOwner'
  BY <1>1, <1>2, OwnerKept DEF Owns
<1>6. SlotsCount'
  BY <1>1, <1>2, SlotsKept DEF MySlot, Announced, AtPoint
<1>7. NobodyBehind'
  <2>1. ASSUME NEW w \in Thread, NEW u \in Thread, w # u,
               index'[u] # 0, Passed(w, index[u])'
        PROVE  shared'[u] = 0
    <3>1. index'[u] = index[u] /\ shared'[u] = shared[u] /\ index[u] \in Slot
      BY <1>1, <1>2, <2>1 DEF OthersStay, TypeOK
    <3>2. CASE Passed(w, index[u])
      BY <1>1, <2>1, <3>1, <3>2 DEF NobodyBehind
    <3>3. CASE ~Passed(w, index[u])
      <4>1. w = t
        BY <1>2, <2>1, <3>1, <3>3 DEF Passed, OthersStay
      <4>2. index[u] = scan[t]
        BY <1>1, <1>2, <2>1, <3>1, <3>3, <4>1 DEF Passed, Slot, TypeOK
      <4>3. MySlot(u) = scan[t]
        BY <1>1, <2>1, <3>1, <4>2 DEF MySlot, AtPoint
      <4>4. Announced(u) <= 1
        BY <1>1, <1>2, <4>3 DEF SlotsCount, Slot
      <4> QED BY <1>1, <3>1, <4>4 DEF Announced, TypeOK
    <3> QED BY <3>2, <3>3
  <2> QED BY <2>1 DEF NobodyBehind
<1> QED BY <1>1, <1>2, <1>3, <1>4, <1>5, <1>6, <1>7, AtPointKept DEF IInv

LEMMA EnterIInv ==
  ASSUME IInv, NEW t \in Thread, Enter(t)
  PROVE  IInv'
<1>1. TypeOK /\ (\A u \in Thread : AtPoint(u)) /\ OneOwner /\ SlotsCount /\ NobodyBehind
  BY DEF IInv
<1>2. /\ OthersStay(t)
      /\ pc[t] = "scan" /\ pc'[t] = "idle" /\ index'[t] = index[t] /\ shared'[t] = shared[t]
      /\ shared[t] = 0 /\ fallback[t] = 0
      /\ excl[t] = 0 /\ excl'[t] = 1 /\ fallback'[t] = 0 /\ xcount' = xcount + 1
      /\ scan[t] \notin Slot
      /\ UNCHANGED <<want_x_lock, owner, value>>
  BY <1>1 DEF Enter, Goto, OthersStay, TypeOK, AtPoint, Sharing
<1>3. TypeOK'
  BY <1>1, <1>2 DEF Enter, Goto, TypeOK, Slot, Label, AtPoint
<1>4. AtPoint(t)'
  BY <1>1, <1>2, <1>3 DEF AtPoint, Sharing, TypeOK
<1>5. OneOwner'
  <2>1. \A u \in Thread \ {t} : Owns(u)' <=> Owns(u)
    BY <1>2, OthersSame
  <2>2. Owns(t) /\ Owns(t)' /\ xcount = 0
    BY <1>1, <1>2, <1>3 DEF Owns, OneOwner, TypeOK, AtPoint, Sharing
  <2> QED BY <1>1, <1>2, <1>3, <2>1, <2>2 DEF OneOwner, OthersStay, TypeOK
<1>6. SlotsCount'
  BY <1>1, <1>2, SlotsKept DEF MySlot, Announced, AtPoint
<1>7. NobodyBehind'
  <2>1. \A s \in Slot : Passed(t, s)
    BY SharedMutexAssumption, <1>1, <1>2 DEF Passed, TypeOK, Slot
  <2>2. index'[t] \in {0} \cup Slot
    BY <1>3 DEF TypeOK
  <2> QED BY <1>1, <1>2, <2>1, <2>2, BehindKept
<1> QED BY <1>1, <1>2, <1>3, <1>4, <1>5, <1>6, <1>7, AtPointKept DEF IInv

LEMMA ForgetIInv ==
  ASSUME IInv, NEW t \in Thread, Forget(t)
  PROVE  IInv'
<1>1. TypeOK /\ (\A u \in Thread : AtPoint(u)) /\ OneOwner /\ SlotsCount /\ NobodyBehind
  BY DEF IInv
<1>2. /\ OthersStay(t)
      /\ pc[t] = "forget" /\ pc'[t] = "idle" /\ index'[t] = index[t] /\ shared'[t] = shared[t]
      /\ excl'[t] = excl[t] /\ fallback'[t] = fallback[t]
      /\ UNCHANGED <<want_x_lock, owner, xcount, value>>
  BY <1>1 DEF Forget, Goto, OthersStay, TypeOK, AtPoint
<1>3. TypeOK'
  BY <1>1, <1>2 DEF Forget, Goto, TypeOK, Slot, Label, AtPoint
<1>4. AtPoint(t)'
  BY <1>1, <1>2, <1>3 DEF AtPoint, Sharing, TypeOK
<1>5. OneOwner'
  BY <1>1, <1>2, OwnerKept DEF Owns
<1>6. SlotsCount'
  BY <1>1, <1>2, SlotsKept DEF MySlot, Announced, AtPoint
<1>7. NobodyBehind'
  BY <1>1, <1>2, <1>3, BehindKept DEF Passed, TypeOK, AtPoint
<1> QED BY <1>1, <1>2, <1>3, <1>4, <1>5, <1>6, <1>7, AtPointKept DEF IInv

LEMMA LockSharedIInv ==
  ASSUME IInv, NEW t \in Thread, LockShared(t)
  PROVE  IInv'
<1>1. TypeOK /\ (\A u \in Thread : AtPoint(u)) /\ OneOwner /\ SlotsCount /\ NobodyBehind
  BY DEF IInv
<1>2. /\ OthersStay(t)
      /\ pc[t] = "idle" /\ pc'[t] \in {"announce", "register", "claimShared"}
      /\ pc'[t] = "announce" <=> index[t] # 0
      /\ index'[t] = index[t] /\ shared'[t] = shared[t]
      /\ excl'[t] = excl[t] /\ fallback'[t] = fallback[t]
      /\ UNCHANGED <<want_x_lock, owner, xcount, value>>
  BY <1>1 DEF LockShared, Goto, OthersStay, TypeOK, AtPoint
<1>3. TypeOK'
  BY SharedMutexAssumption, <1>1, <1>2 DEF LockShared, Goto, TypeOK, Slot, Label, AtPoint
<1>4. AtPoint(t)'
  BY <1>1, <1>2, <1>3 DEF AtPoint, Sharing, TypeOK
<1>5. OneOwner'
  BY <1>1, <1>2, OwnerKept DEF Owns
<1>6. SlotsCount'
  BY <1>1, <1>2, SlotsKept DEF MySlot, Announced, AtPoint
<1>7. NobodyBehind'
  BY <1>1, <1>2, <1>3, BehindKept DEF Passed, TypeOK, AtPoint
<1> QED BY <1>1, <1>2, <1>3, <1>4, <1>5, <1>6, <1>7, AtPointKept DEF IInv

LEMMA UnlockIInv ==
  ASSUME IInv, NEW t \in Thread, Unlock(t)
  PROVE  IInv'
<1>1. TypeOK /\ (\A u \in Thread : AtPoint(u)) /\ OneOwner /\ SlotsCount /\ NobodyBehind
  BY DEF IInv
<1>2. /\ OthersStay(t)
      /\ pc[t] = "idle" /\ index'[t] = index[t] /\ shared'[t] = shared[t]
      /\ excl[t] > 0 /\ excl'[t] = excl[t] - 1 /\ fallback'[t] = fallback[t]
      /\ xcount' = xcount - 1
      /\ xcount = 1 => pc'[t] = "drop" /\ owner' = NoThread
      /\ xcount # 1 => pc'[t] = "idle" /\ owner' = owner
      /\ UNCHANGED <<want_x_lock, value>>
  BY <1>1 DEF Unlock, Goto, OthersStay, TypeOK, AtPoint, ReleaseExclusive
<1>c. xcount = excl[t] + fallback[t] /\ excl[t] \in Nat /\ fallback[t] \in Nat
  BY <1>1, <1>2 DEF OneOwner, Owns, TypeOK
<1>3. TypeOK'
  <2>1. CASE xcount = 1
    <3>1. xcount' \in Nat /\ excl' \in [Thread -> Nat]
      BY <1>1, <1>2, <1>c, <2>1 DEF Unlock, TypeOK, ReleaseExclusive
    <3>2. pc' \in [Thread -> Label] /\ owner' \in Thread \cup {NoThread}
      BY <1>1, <2>1 DEF Unlock, Goto, TypeOK, Label, ReleaseExclusive
    <3> QED BY <1>1, <3>1, <3>2 DEF Unlock, TypeOK, Slot
  <2>2. CASE xcount # 1
    <3>1. xcount' \in Nat /\ excl' \in [Thread -> Nat]
      BY <1>1, <1>2, <1>c, <2>2 DEF Unlock, TypeOK, ReleaseExclusive
    <3>2. pc' \in [Thread -> Label] /\ owner' \in Thread \cup {NoThread}
      BY <1>1, <2>2 DEF Unlock, Goto, TypeOK, Label, ReleaseExclusive
    <3> QED BY <1>1, <3>1, <3>2 DEF Unlock, TypeOK, Slot
  <2> QED BY <2>1, <2>2
<1>4. AtPoint(t)'
  BY <1>1, <1>2, <1>3, <1>c DEF AtPoint, Sharing, TypeOK
<1>5. OneOwner'
  <2>1. \A u \in Thread \ {t} : Owns(u)' <=> Owns(u)
    BY <1>2, OthersSame
  <2>2. Owns(t) /\ Owns(t)' /\ owner = t /\ xcount = excl[t] + fallback[t]
    BY <1>1, <1>2, <1>3 DEF Owns, OneOwner, TypeOK
  <2>3. xcount = 1 => excl'[t] = 0 /\ fallback'[t] = 0
    BY <1>1, <1>2, <2>2 DEF TypeOK
  <2>4. CASE xcount = 1
    <3>1. \A u \in Thread \ {t} : ~Owns(u) /\ ~Owns(u)'
      BY <1>1, <2>1, <2>2 DEF OneOwner
    <3>2. xcount' = excl'[t] + fallback'[t]
      BY <1>2, <2>3, <2>4
    <3> QED BY SharedMutexAssumption, <1>1, <1>2, <2>2, <2>4, <3>1, <3>2 DEF OneOwner
  <2>5. CASE xcount # 1
    BY SharedMutexAssumption, <1>1, <1>2, <1>3, <2>1, <2>2, <2>3, <2>5
    DEF OneOwner, OthersStay, TypeOK
  <2> QED BY <2>4, <2>5
<1>6. SlotsCount'
  BY <1>1, <1>2, SlotsKept DEF MySlot, Announced, AtPoint
<1>7. NobodyBehind'
  BY <1>1, <1>2, <1>3, BehindKept DEF Passed, TypeOK, AtPoint
<1> QED BY <1>1, <1>2, <1>3, <1>4, <1>5, <1>6, <1>7, AtPointKept DEF IInv

LEMMA LockIInv ==
  ASSUME IInv, NEW t \in Thread, Lock(t)
  PROVE  IInv'
<1>1. TypeOK /\ (\A u \in Thread : AtPoint(u)) /\ OneOwner /\ SlotsCount /\ NobodyBehind
  BY DEF IInv
<1>2. /\ OthersStay(t)
      /\ pc[t] = "idle" /\ index'[t] = index[t] /\ shared'[t] = shared[t]
      /\ fallback'[t] = fallback[t] /\ ~Sharing(t)
      /\ owner = t => pc'[t] = "idle" /\ xcount' = xcount + 1 /\ excl'[t] = excl[t] + 1
      /\ owner # t => pc'[t] = "claim" /\ xcount' = xcount /\ excl'[t] = excl[t]
      /\ UNCHANGED <<want_x_lock, owner, value>>
  BY <1>1 DEF Lock, Goto, OthersStay, TypeOK, AtPoint, MayLock
<1>c. /\ owner = t => excl[t] > 0 /\ Owns(t)
      /\ owner # t => excl[t] = 0 /\ ~Owns(t)
  BY <1>1, <1>2 DEF OneOwner, Owns, Sharing, TypeOK
<1>3. TypeOK'
  <2>1. CASE owner = t
    <3>1. xcount' \in Nat /\ excl' \in [Thread -> Nat] /\ pc' \in [Thread -> Label]
      BY <1>1, <2>1 DEF Lock, Goto, TypeOK, Label
    <3> QED BY <1>1, <3>1 DEF Lock, TypeOK, Slot
  <2>2. CASE owner # t
    BY <1>1, <2>2 DEF Lock, Goto, TypeOK, Slot, Label
  <2> QED BY <2>1, <2>2
<1>4. AtPoint(t)'
  BY <1>1, <1>2, <1>3, <1>c DEF AtPoint, Sharing, TypeOK
<1>5. OneOwner'
  <2>1. \A u \in Thread \ {t} : Owns(u)' <=> Owns(u)
    BY <1>2, OthersSame
  <2>2. CASE owner = t
    <3>1. Owns(t)'
      BY <1>1, <1>2, <1>c, <2>2 DEF Owns, TypeOK
    <3> QED BY <1>1, <1>2, <1>3, <1>c, <2>1, <2>2, <3>1 DEF OneOwner, OthersStay, TypeOK
  <2>3. CASE owner # t
    BY <1>1, <1>2, <2>3, OwnerKept DEF Owns
  <2> QED BY <2>2, <2>3
<1>6. SlotsCount'
  BY <1>1, <1>2, SlotsKept DEF MySlot, Announced, AtPoint
<1>7. NobodyBehind'
  BY <1>1, <1>2, <1>3, <1>c, BehindKept DEF Passed, TypeOK, AtPoint
<1> QED BY <1>1, <1>2, <1>3, <1>4, <1>5, <1>6, <1>7, AtPointKept DEF IInv

LEMMA UnregisterIInv ==
  ASSUME IInv, NEW t \in Thread, Unregister(t)
  PROVE  IInv'
<1>1. TypeOK /\ (\A u \in Thread : AtPoint(u)) /\ OneOwner /\ SlotsCount /\ NobodyBehind
  BY DEF IInv
<1>a. MySlot(t) = index[t] /\ index[t] \in Slot /\ value[index[t]] = Announced(t)
  BY <1>1 DEF Unregister, Goto, AtPoint, TypeOK, SlotsCount, MySlot
<1>2. /\ OthersStay(t)
      /\ pc[t] = "idle" /\ pc'[t] = "forget" /\ index[t] # 0 /\ index'[t] = 0
      /\ shared[t] = 0 /\ shared'[t] = 0 /\ fallback[t] = 0
      /\ excl'[t] = excl[t] /\ fallback'[t] = 0
      /\ value' = [value EXCEPT ![index[t]] = 0]
      /\ UNCHANGED <<want_x_lock, owner, xcount>>
  BY <1>1, <1>a DEF Unregister, Goto, OthersStay, TypeOK, AtPoint, Announced
<1>3. TypeOK'
  BY <1>1, <1>2 DEF Unregister, Goto, TypeOK, Slot, Label, AtPoint
<1>4. AtPoint(t)'
  BY <1>1, <1>2, <1>3 DEF AtPoint, Sharing, TypeOK
<1>5. OneOwner'
  BY <1>1, <1>2, OwnerKept DEF Owns
<1>6. SlotsCount'
  <2>1. \A u \in Thread \ {t} : MySlot(u)' = MySlot(u) /\ Announced(u)' = Announced(u)
    BY <1>2, OthersSame
  <2>2. MySlot(t)' = 0
    BY <1>2 DEF MySlot
  <2>3. \A u \in Thread \ {t} : MySlot(u) # index[t]
    BY <1>1, <1>2, <1>a DEF SlotsCount
  <2>4. /\ value'[index[t]] = 0
        /\ \A s \in Slot : s # index[t] => value'[s] = value[s]
    BY <1>1, <1>2 DEF TypeOK
  <2>5. \A u \in Thread : MySlot(u) # 0 => MySlot(u) \in Slot
    BY <1>1, InSlot
  <2> QED BY <1>1, <1>2, <1>a, <2>1, <2>2, <2>3, <2>4, <2>5 DEF SlotsCount, Slot
<1>7. NobodyBehind'
  BY <1>1, <1>2, <1>3, BehindKept DEF Passed, TypeOK, AtPoint
<1> QED BY <1>1, <1>2, <1>3, <1>4, <1>5, <1>6, <1>7, AtPointKept DEF IInv

LEMMA UnlockSharedIInv ==
  ASSUME IInv, NEW t \in Thread, UnlockShared(t)
  PROVE  IInv'
<1>1. TypeOK /\ (\A u \in Thread : AtPoint(u)) /\ OneOwner /\ SlotsCount /\ NobodyBehind
  BY DEF IInv
<1>2. CASE index[t] # 0
  <2>a. MySlot(t) = index[t] /\ index[t] \in Slot /\ value[index[t]] = Announced(t)
    BY <1>1, <1>2 DEF UnlockShared, Goto, AtPoint, TypeOK, SlotsCount, MySlot
  <2>1. fallback[t] = 0 /\ shared[t] > 0
    BY <1>1, <1>2 DEF UnlockShared, Goto, AtPoint, Sharing, TypeOK
  <2>b. value[index[t]] - 1 = shared[t]
    BY <1>1, <1>2, <2>a DEF UnlockShared, Goto, Announced, TypeOK
  <2>c. value' = [value EXCEPT ![index[t]] = value[index[t]] - 1]
    BY <1>1, <1>2, <2>a DEF UnlockShared, TypeOK
  <2>2. /\ OthersStay(t)
        /\ pc[t] = "idle" /\ pc'[t] = "idle" /\ index'[t] = index[t]
        /\ shared'[t] = shared[t] - 1
        /\ excl'[t] = excl[t] /\ fallback'[t] = 0
        /\ UNCHANGED <<want_x_lock, owner, xcount>>
    BY <1>1, <1>2, <2>1 DEF UnlockShared, Goto, OthersStay, TypeOK
  <2>v. value' = [value EXCEPT ![index[t]] = shared[t]]
    BY <2>b, <2>c
  <2>3. TypeOK'
    <3>1. value' \in [Slot -> Nat]
      BY <1>1, <2>v DEF TypeOK
    <3>2. shared' \in [Thread -> Nat] /\ pc' \in [Thread -> Label]
      BY <1>1, <1>2, <2>1 DEF UnlockShared, Goto, TypeOK, Label
    <3> QED BY <1>1, <1>2, <3>1, <3>2 DEF UnlockShared, TypeOK, Slot
  <2>4. AtPoint(t)'
    BY <1>1, <2>1, <2>2, <2>3 DEF AtPoint, Sharing, TypeOK
  <2>5. OneOwner'
    BY <1>1, <2>1, <2>2, OwnerKept DEF Owns
  <2>6. SlotsCount'
    <3>1. MySlot(t)' = MySlot(t)
      BY <2>2 DEF MySlot
    <3>2. Announced(t)' = shared[t]
      BY <1>1, <2>1, <2>2 DEF Announced, TypeOK
    <3> QED BY <1>1, <2>a, <2>2, <2>v, <3>1, <3>2, SlotWritten
  <2>7. NobodyBehind'
    BY <1>1, <2>1, <2>2, <2>3, BehindKept DEF Passed, TypeOK, AtPoint
  <2> QED BY <1>1, <2>2, <2>3, <2>4, <2>5, <2>6, <2>7, AtPointKept DEF IInv
<1>3. CASE index[t] = 0
  <2>1. shared[t] = 0 /\ fallback[t] > 0
    BY <1>1, <1>3 DEF UnlockShared, AtPoint, Sharing, TypeOK
  <2>2. /\ OthersStay(t)
        /\ pc[t] = "idle" /\ index'[t] = 0 /\ shared'[t] = 0
        /\ excl'[t] = excl[t] /\ fallback'[t] = fallback[t] - 1
        /\ xcount' = xcount - 1
        /\ xcount = 1 => pc'[t] = "drop" /\ owner' = NoThread
        /\ xcount # 1 => pc'[t] = "idle" /\ owner' = owner
        /\ UNCHANGED <<want_x_lock, value>>
    BY <1>1, <1>3, <2>1 DEF UnlockShared, Goto, OthersStay, TypeOK, ReleaseExclusive
  <2>c. xcount = excl[t] + fallback[t] /\ excl[t] \in Nat /\ fallback[t] \in Nat
    BY <1>1, <2>1 DEF OneOwner, Owns, TypeOK
  <2>3. TypeOK'
    <3>1. xcount' \in Nat /\ fallback' \in [Thread -> Nat]
      BY <1>1, <1>3, <2>1, <2>2, <2>c DEF UnlockShared, TypeOK
    <3>2. pc' \in [Thread -> Label]
      BY <1>1, <1>3 DEF UnlockShared, Goto, TypeOK, Label, ReleaseExclusive
    <3>3. owner' \in Thread \cup {NoThread}
      BY <1>1, <2>2 DEF TypeOK
    <3> QED BY <1>1, <1>3, <3>1, <3>2, <3>3 DEF UnlockShared, TypeOK, Slot
  <2>4. AtPoint(t)'
    BY <1>1, <1>3, <2>1, <2>2, <2>3, <2>c DEF AtPoint, Sharing, TypeOK
  <2>5. OneOwner'
    <3>1. \A u \in Thread \ {t} : Owns(u)' <=> Owns(u)
      BY <2>2, OthersSame
    <3>2. Owns(t) /\ Owns(t)' /\ owner = t
      BY <1>1, <2>1, <2>2, <2>3, <2>c DEF Owns, OneOwner, TypeOK
    <3>3. xcount = 1 => excl'[t] = 0 /\ fallback'[t] = 0
      BY <2>1, <2>2, <2>c
    <3>4. CASE xcount = 1
      <4>1. \A u \in Thread \ {t} : ~Owns(u) /\ ~Owns(u)'
        BY <1>1, <3>1, <3>2 DEF OneOwner
      <4>2. xcount' = excl'[t] + fallback'[t]
        BY <2>2, <3>3, <3>4
      <4> QED BY SharedMutexAssumption, <1>1, <2>2, <3>2, <3>4, <4>1, <4>2 DEF OneOwner
    <3>5. CASE xcount # 1
      BY SharedMutexAssumption, <1>1, <2>1, <2>2, <2>3, <2>c, <3>1, <3>2, <3>5
      DEF OneOwner, OthersStay, TypeOK
    <3> QED BY <3>4, <3>5
  <2>6. SlotsCount'
    BY <1>1, <1>3, <2>1, <2>2, SlotsKept DEF MySlot, Announced, AtPoint
  <2>7. NobodyBehind'
    BY <1>1, <1>3, <2>1, <2>2, <2>3, BehindKept DEF Passed, TypeOK, AtPoint
  <2> QED BY <1>1, <2>2, <2>3, <2>4, <2>5, <2>6, <2>7, AtPointKept DEF IInv
<1> QED BY <1>2, <1>3

(* Every step of the specification preserves the invariant.                *)
LEMMA NextIInv ==
  ASSUME IInv, [Next]_vars
  PROVE  IInv'
<1>1. CASE UNCHANGED vars
  BY <1>1 DEF vars, IInv, TypeOK, AtPoint, OneOwner, SlotsCount, NobodyBehind,
              Owns, Sharing, MySlot, Announced, Passed, Slot
<1>2. ASSUME NEW t \in Thread, Step(t) PROVE IInv'
  BY <1>2, RegisterThreadIInv, RememberIndexIInv, AnnounceIInv, CheckWantIInv, RetreatIInv,
     SpinIInv, ClaimSharedIInv, OwnSharedIInv, DropWantIInv, ClaimIInv, OwnIInv,
     ScanSlotIInv, EnterIInv, ForgetIInv DEF Step
<1>3. ASSUME NEW t \in Thread,
             LockShared(t) \/ UnlockShared(t) \/ Lock(t) \/ Unlock(t) \/ Unregister(t)
      PROVE  IInv'
  BY <1>3, LockSharedIInv, UnlockSharedIInv, LockIInv, UnlockIInv, UnregisterIInv
<1> QED BY <1>1, <1>2, <1>3 DEF Next

(* Flag, owner, count and slots agree with what every thread holds and with *)
(* where it is in lock, lock_shared, unlock and unlock_shared, after every  *)
(* step of every thread, for any number of threads and slots and also with  *)
(* the nested locks of Nesting.                                            *)
THEOREM SlotsAgree == Spec => []IInv
<1>1. Init => IInv
  BY InitIInv
<1>2. IInv /\ [Next]_vars => IInv'
  BY NextIInv
<1> QED BY <1>1, <1>2, PTL DEF Spec

LEMMA IInvExcludes ==
  IInv => MutualExclusion
<1> SUFFICES ASSUME IInv, NEW t \in Thread, NEW u \in Thread, t # u
             PROVE  /\ excl[t] > 0 => excl[u] = 0 /\ ~Sharing(u)
                    /\ fallback[t] > 0 => fallback[u] = 0
  BY DEF MutualExclusion
<1>1. TypeOK /\ AtPoint(u) /\ OneOwner /\ NobodyBehind
  BY DEF IInv
<1>2. excl[t] > 0 \/ fallback[t] > 0 => excl[u] = 0 /\ fallback[u] = 0
  BY <1>1 DEF OneOwner, Owns, TypeOK
<1>3. excl[t] > 0 => shared[u] = 0
  <2>1. CASE index[u] = 0
    BY <1>1, <2>1 DEF AtPoint
  <2>2. CASE index[u] # 0
    BY <1>1, <2>2 DEF NobodyBehind, Passed
  <2> QED BY <2>1, <2>2
<1> QED BY <1>1, <1>2, <1>3 DEF Sharing, TypeOK

(* A thread that holds the lock exclusively is alone: however lock and      *)
(* lock_shared of any number of threads interleave with each other, with    *)
(* the registration of threads and with the reuse of their slots.          *)
THEOREM WritersAreAlone == Spec => []MutualExclusion
BY SlotsAgree, IInvExcludes, PTL

-----------------------------------------------------------------------------
LEMMA AbstractInit ==
  ASSUME Init
  PROVE  Abstract!Init
BY DEF Init, Abstract!Init

(* A step that neither gets nor releases a lock.                           *)
LEMMA Stutter ==
  ASSUME UNCHANGED <<excl, shared, fallback>>
  PROVE  UNCHANGED Abstract!vars
BY DEF Abstract!vars

LEMMA SharesOneMore ==
  ASSUME IInv, NEW t \in Thread, \A u \in Thread \ {t} : excl[u] = 0, UNCHANGED excl,
         \/ shared' = [shared EXCEPT ![t] = @ + 1] /\ UNCHANGED fallback
         \/ fallback' = [fallback EXCEPT ![t] = @ + 1] /\ UNCHANGED shared
  PROVE  Abstract!LockShared(t)
<1>1. [u \in Thread |-> shared'[u] + fallback'[u]]
        = [[u \in Thread |-> shared[u] + fallback[u]] EXCEPT ![t] = @ + 1]
  <2>1. \A u \in Thread : shared[u] \in Nat /\ fallback[u] \in Nat
    BY DEF IInv, TypeOK
  <2>2. \A u \in Thread :
          shared'[u] + fallback'[u] = IF u = t THEN shared[u] + fallback[u] + 1
                                               ELSE shared[u] + fallback[u]
    <3>1. CASE shared' = [shared EXCEPT ![t] = @ + 1] /\ UNCHANGED fallback
      BY <2>1, <3>1 DEF IInv, TypeOK
    <3>2. CASE fallback' = [fallback EXCEPT ![t] = @ + 1] /\ UNCHANGED shared
      BY <2>1, <3>2 DEF IInv, TypeOK
    <3> QED BY <3>1, <3>2
  <2> QED BY <2>2
<1> QED BY <1>1 DEF Abstract!LockShared

LEMMA SharesOneLess ==
  ASSUME IInv, NEW t \in Thread, Sharing(t), UNCHANGED excl,
         \/ shared' = [shared EXCEPT ![t] = @ - 1] /\ UNCHANGED fallback
         \/ fallback' = [fallback EXCEPT ![t] = @ - 1] /\ UNCHANGED shared
  PROVE  Abstract!UnlockShared(t)
<1>1. [u \in Thread |-> shared'[u] + fallback'[u]]
        = [[u \in Thread |-> shared[u] + fallback[u]] EXCEPT ![t] = @ - 1]
  <2>1. \A u \in Thread : shared[u] \in Nat /\ fallback[u] \in Nat
    BY DEF IInv, TypeOK
  <2>2. \A u \in Thread :
          shared'[u] + fallback'[u] = IF u = t THEN (shared[u] + fallback[u]) - 1
                                               ELSE shared[u] + fallback[u]
    <3>1. CASE shared' = [shared EXCEPT ![t] = @ - 1] /\ UNCHANGED fallback
      BY <2>1, <3>1 DEF IInv, TypeOK
    <3>2. CASE fallback' = [fallback EXCEPT ![t] = @ - 1] /\ UNCHANGED shared
      BY <2>1, <3>2 DEF IInv, TypeOK
    <3> QED BY <3>1, <3>2
  <2> QED BY <2>2
<1>2. shared[t] + fallback[t] > 0
  BY DEF IInv, TypeOK, Sharing
<1> QED BY <1>1, <1>2 DEF Abstract!UnlockShared

(* Whoever is the owner, or about to be, is the only one that holds the     *)
(* lock exclusively.                                                       *)
LEMMA OnlyOwner ==
  ASSUME IInv, NEW t \in Thread, Owns(t)
  PROVE  \A u \in Thread \ {t} : excl[u] = 0 /\ fallback[u] = 0
BY DEF IInv, TypeOK, OneOwner, Owns

LEMMA AbstractStep ==
  ASSUME IInv, [Next]_vars
  PROVE  [Abstract!Next]_(Abstract!vars)
<1>0. IInv'
  BY NextIInv
<1>t. TypeOK /\ OneOwner /\ NobodyBehind /\ \A u \in Thread : AtPoint(u)
  BY DEF IInv
<1>1. CASE UNCHANGED vars
  BY <1>1, Stutter DEF vars
<1>2. ASSUME NEW t \in Thread, Step(t) PROVE [Abstract!Next]_(Abstract!vars)
  <2>1. CASE \/ RegisterThread(t) \/ RememberIndex(t) \/ Retreat(t) \/ Spin(t) \/ DropWant(t)
             \/ Claim(t) \/ Own(t) \/ ScanSlot(t) \/ Forget(t)
    <3>1. UNCHANGED <<excl, shared, fallback>>
      BY <2>1 DEF RegisterThread, RememberIndex, Retreat, Spin, DropWant, Claim, Own,
                  ScanSlot, Forget
    <3> QED BY <3>1, Stutter
  <2>2. CASE Announce(t)
    <3>1. CASE value[index[t]] > 1
      <4>1. shared' = [shared EXCEPT ![t] = @ + 1] /\ UNCHANGED <<excl, fallback>>
        BY <2>2, <3>1 DEF Announce
      <4>2. index[t] # 0 /\ shared[t] > 0
        BY <2>2, <3>1 DEF IInv, Announce, Goto, AtPoint, SlotsCount, MySlot, Announced, TypeOK
      <4>3. \A u \in Thread \ {t} : excl[u] = 0
        BY <1>t, <4>2 DEF NobodyBehind, Passed, TypeOK
      <4> QED BY <4>1, <4>3, SharesOneMore DEF Abstract!Next
    <3>2. CASE ~(value[index[t]] > 1)
      <4>1. UNCHANGED <<excl, shared, fallback>>
        BY <1>t, <2>2, <3>2 DEF Announce, TypeOK
      <4> QED BY <4>1, Stutter
    <3> QED BY <3>1, <3>2
  <2>3. CASE CheckWant(t)
    <3>1. CASE want_x_lock
      <4>1. UNCHANGED <<excl, shared, fallback>>
        BY <1>t, <2>3, <3>1 DEF CheckWant, TypeOK
      <4> QED BY <4>1, Stutter
    <3>2. CASE ~want_x_lock
      <4>1. shared' = [shared EXCEPT ![t] = @ + 1] /\ UNCHANGED <<excl, fallback>>
        BY <2>3, <3>2 DEF CheckWant
      <4>2. \A u \in Thread \ {t} : excl[u] = 0
        BY <1>t, <3>2 DEF OneOwner, Owns, TypeOK
      <4> QED BY <4>1, <4>2, SharesOneMore DEF Abstract!Next
    <3> QED BY <3>1, <3>2
  <2>4. CASE ClaimShared(t)
    <3>1. CASE owner = t
      <4>1. fallback' = [fallback EXCEPT ![t] = @ + 1] /\ UNCHANGED <<excl, shared>>
        BY <2>4, <3>1 DEF ClaimShared
      <4>2. Owns(t)
        BY <1>t, <3>1 DEF OneOwner
      <4> QED BY <4>1, <4>2, OnlyOwner, SharesOneMore DEF Abstract!Next
    <3>2. CASE owner # t
      <4>1. UNCHANGED <<excl, shared, fallback>>
        BY <2>4, <3>2 DEF ClaimShared
      <4> QED BY <4>1, Stutter
    <3> QED BY <3>1, <3>2
  <2>5. CASE OwnShared(t)
    <3>1. fallback' = [fallback EXCEPT ![t] = @ + 1] /\ UNCHANGED <<excl, shared>>
      BY <2>5 DEF OwnShared
    <3>2. Owns(t)
      BY <2>5 DEF OwnShared, Goto, Owns
    <3> QED BY <3>1, <3>2, OnlyOwner, SharesOneMore DEF Abstract!Next
  <2>6. CASE Enter(t)
    <3>1. excl' = [excl EXCEPT ![t] = @ + 1] /\ UNCHANGED <<shared, fallback>>
      BY <2>6 DEF Enter
    <3>2. excl'[t] > 0
      BY <1>t, <3>1 DEF TypeOK
    <3>3. \A u \in Thread \ {t} : excl[u] = 0 /\ shared[u] + fallback[u] = 0
      <4>1. MutualExclusion'
        BY <1>0, IInvExcludes, PTL
      <4> QED BY <1>t, <3>1, <3>2, <4>1 DEF MutualExclusion, Sharing, TypeOK
    <3>4. Abstract!Lock(t)
      BY <3>1, <3>3 DEF Abstract!Lock
    <3> QED BY <3>4 DEF Abstract!Next
  <2> QED BY <1>2, <2>1, <2>2, <2>3, <2>4, <2>5, <2>6 DEF Step
<1>3. ASSUME NEW t \in Thread, LockShared(t) \/ Unregister(t)
      PROVE  [Abstract!Next]_(Abstract!vars)
  <2>1. UNCHANGED <<excl, shared, fallback>>
    BY <1>3 DEF LockShared, Unregister
  <2> QED BY <2>1, Stutter
<1>4. ASSUME NEW t \in Thread, UnlockShared(t) PROVE [Abstract!Next]_(Abstract!vars)
  <2>1. Sharing(t) /\ UNCHANGED excl
    BY <1>4 DEF UnlockShared
  <2>2. \/ shared' = [shared EXCEPT ![t] = @ - 1] /\ UNCHANGED fallback
        \/ fallback' = [fallback EXCEPT ![t] = @ - 1] /\ UNCHANGED shared
    BY <1>4 DEF UnlockShared
  <2> QED BY <2>1, <2>2, SharesOneLess DEF Abstract!Next
<1>5. ASSUME NEW t \in Thread, Lock(t) PROVE [Abstract!Next]_(Abstract!vars)
  <2>1. CASE owner = t
    <3>1. excl' = [excl EXCEPT ![t] = @ + 1] /\ UNCHANGED <<shared, fallback>>
      BY <1>5, <2>1 DEF Lock
    <3>2. excl[t] > 0
      BY <1>t, <1>5, <2>1 DEF Lock, MayLock, Sharing, OneOwner, Owns, Goto, TypeOK
    <3>3. \A u \in Thread \ {t} : excl[u] = 0 /\ shared[u] + fallback[u] = 0
      BY <1>t, <3>2, IInvExcludes DEF MutualExclusion, Sharing, TypeOK
    <3>4. Abstract!Lock(t)
      BY <3>1, <3>3 DEF Abstract!Lock
    <3> QED BY <3>4 DEF Abstract!Next
  <2>2. CASE owner # t
    <3>1. UNCHANGED <<excl, shared, fallback>>
      BY <1>5, <2>2 DEF Lock
    <3> QED BY <3>1, Stutter
  <2> QED BY <2>1, <2>2
<1>6. ASSUME NEW t \in Thread, Unlock(t) PROVE [Abstract!Next]_(Abstract!vars)
  <2>1. Abstract!Unlock(t)
    BY <1>6 DEF Unlock, Abstract!Unlock
  <2> QED BY <2>1 DEF Abstract!Next
<1> QED BY <1>1, <1>2, <1>3, <1>4, <1>5, <1>6 DEF Next

(* The mutex of slots, flag and spin loops implements the shared mutex of   *)
(* ReadWriteLock: lock and lock_shared return only when nobody is in the    *)
(* way, and unlock and unlock_shared give back exactly what they took.      *)
THEOREM RefinesReadWriteLock == Spec => ImplementsReadWriteLock
<1>1. Init => Abstract!Init
  BY AbstractInit
<1>2. IInv /\ [Next]_vars => [Abstract!Next]_(Abstract!vars)
  BY AbstractStep
<1> QED BY <1>1, <1>2, SlotsAgree, PTL DEF Spec, Abstract!Spec, ImplementsReadWriteLock

=============================================================================
