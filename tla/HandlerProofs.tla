----------------------------- MODULE HandlerProofs -----------------------------
(***************************************************************************)
(* What the handlers of TaskData do to a profile, for any threads, tasks   *)
(* and code pointers of TaskProfile.  A handler starts and stops           *)
(* measurements one after the other; Books says what the measurements of   *)
(* one thread stand for between two of these calls, and there is a lemma   *)
(* per call that says how it moves them.                                   *)
(***************************************************************************)
EXTENDS TaskProfile, SequenceFacts, FiniteSetTheorems

Field == {"active", "flat", "regions", "failure", "task", "exc", "inc", "now", "stale"}

Code == TaskCode \cup UserCode \cup {ParCode, NoCode}

Task == [Type : {"none", "initial", "implicit", "explicit", "undeferred"},
         codePtr : TaskCode \cup {ParCode, NoCode},
         parentTask : TaskObj \cup {NoTask},
         isStarted : BOOLEAN, inBarrier : BOOLEAN,
         profilingActive : BOOLEAN,
         rData : Region \cup {NoRegion}]

(* A profile whose tasks are bound to regions that exist, or to none; a    *)
(* region is younger than the one it is called from.                       *)
ProfileOK(p) ==
  /\ DOMAIN p = Field
  /\ p.active \in BOOLEAN /\ p.flat \in BOOLEAN /\ p.stale \in BOOLEAN
  /\ p.failure \in {"none", "abort"}
  /\ p.now \subseteq Thread
  /\ p.task \in [TaskObj -> Task]
  /\ p.regions \in Seq(Code \X Nat)
  /\ \A i, j \in DOMAIN p.regions : p.regions[i] = p.regions[j] => i = j
  /\ \A i \in DOMAIN p.regions : p.regions[i][2] < i
  /\ DOMAIN p.exc = DOMAIN p.inc
  /\ \A r \in DOMAIN p.exc : /\ r \in Region /\ r.id \in DOMAIN p.regions
                             /\ p.exc[r] \in Int /\ p.inc[r] \in Int
  /\ \A o \in TaskObj : /\ p.task[o].rData \in DOMAIN p.exc \cup {NoRegion}
                        /\ p.task[o].Type = "explicit" => p.task[o].parentTask \in TaskObj

(* x and y are one task before and after it was bound to a region.         *)
OnlyRegion(x, y) ==
  /\ y.Type = x.Type /\ y.codePtr = x.codePtr /\ y.parentTask = x.parentTask
  /\ y.isStarted = x.isStarted /\ y.inBarrier = x.inBarrier
  /\ y.profilingActive = x.profilingActive

(* What a call on thread t leaves alone that is about the tasks in O: the  *)
(* other tasks, the measurements of other threads, the regions there are.  *)
Frame(p, q, t, O) ==
  /\ q.flat = p.flat /\ q.failure = p.failure
  /\ DOMAIN p.regions \subseteq DOMAIN q.regions
  /\ \A i \in DOMAIN p.regions : q.regions[i] = p.regions[i]
  /\ DOMAIN p.exc \subseteq DOMAIN q.exc
  /\ \A r \in DOMAIN q.exc : r.thread # t =>
       r \in DOMAIN p.exc /\ q.exc[r] = p.exc[r] /\ q.inc[r] = p.inc[r]
  /\ \A x \in TaskObj \ O : q.task[x] = p.task[x]

(* Task o is bound to a region of thread t.                                *)
Bound(p, t, o) ==
  p.task[o].rData \in DOMAIN p.exc /\ p.task[o].rData.thread = t

(* The region of an explicit task is the one a lookup would find now.      *)
KeyHolds(p, o) ==
  p.regions[p.task[o].rData.id] =
    Key(p, p.task[o].codePtr, p.task[p.task[o].parentTask].rData)

(* A start of the task would bind it to the region it is bound to.         *)
Settled(p, t, o) == Bound(p, t, o) /\ (p.task[o].Type = "explicit" => KeyHolds(p, o))

(* A start of the task measures a region: the task is of a kind that is    *)
(* measured, and has a region or gets one.                                 *)
Ready(p, t, o) ==
  /\ p.task[o].Type \in {"initial", "implicit", "explicit"}
  /\ p.task[o].Type = "initial" => p.active
  /\ p.task[o].Type # "explicit" => Bound(p, t, o)
  /\ p.task[o].Type = "explicit" => p.task[o].parentTask # o

(* The call binds no task but o, and binds o anew only where a lookup finds *)
(* another region than the one the task has.                               *)
Call(p, q, t, o) ==
  /\ ProfileOK(q) /\ Frame(p, q, t, {o})
  /\ q.active = p.active /\ q.now = p.now /\ q.stale = p.stale
  /\ OnlyRegion(p.task[o], q.task[o])
  /\ Settled(p, t, o) => q.task[o].rData = p.task[o].rData

(* Nothing but regions and measurements is different, whatever the program. *)
Measures(p, q) ==
  /\ ProfileOK(q) /\ q.active = p.active
  /\ \A x \in TaskObj : OnlyRegion(p.task[x], q.task[x])

(* The tasks in S that are bound to region r.                              *)
BoundTo(task, S, r) == {x \in S : task[x].rData = r}

(* The books of thread t: task e is measured exclusively (none if e is no  *)
(* task), the tasks in S inclusively, and N[r] more inclusive measurements *)
(* of region r.                                                            *)
Books(p, t, e, S, N) ==
  /\ IsFiniteSet(S) /\ S \subseteq TaskObj
  /\ \A x \in S : Bound(p, t, x)
  /\ e \in TaskObj => Bound(p, t, e)
  /\ \A r \in DOMAIN p.exc : r.thread = t =>
       /\ p.exc[r] = IF e \in TaskObj /\ p.task[e].rData = r THEN 1 ELSE 0
       /\ p.inc[r] = Cardinality(BoundTo(p.task, S, r)) + N[r]
  /\ \A r \in Region \ DOMAIN p.exc : N[r] = 0

-----------------------------------------------------------------------------
(* Profiles *)

(* Null is no region.                                                      *)
LEMMA NoRegionIsNone == NoRegion \notin Region
BY TaskProfileAssumption DEF Region, NoRegion

(* takeMeasurement reads the time of one thread.                           *)
LEMMA TakeOK ==
  ASSUME NEW p, ProfileOK(p), NEW now \in SUBSET Thread
  PROVE  LET q == [p EXCEPT !.now = now] IN
         /\ ProfileOK(q)
         /\ q.active = p.active /\ q.flat = p.flat /\ q.regions = p.regions
         /\ q.failure = p.failure /\ q.task = p.task /\ q.exc = p.exc /\ q.inc = p.inc
         /\ q.stale = p.stale /\ q.now = now
<1> DEFINE q == [p EXCEPT !.now = now]
<1>1. /\ DOMAIN q = Field
      /\ q.active = p.active /\ q.flat = p.flat /\ q.regions = p.regions
      /\ q.failure = p.failure /\ q.task = p.task /\ q.exc = p.exc /\ q.inc = p.inc
      /\ q.stale = p.stale /\ q.now = now
  BY DEF ProfileOK, Field
<1> HIDE DEF q
<1>2. ProfileOK(q)
  BY <1>1 DEF ProfileOK
<1>3. QED
  BY <1>1, <1>2 DEF q

(* Other writes to a single field.                                         *)
LEMMA ActiveOK ==
  ASSUME NEW p, ProfileOK(p), NEW on \in BOOLEAN
  PROVE  LET q == [p EXCEPT !.active = on] IN
         /\ ProfileOK(q)
         /\ q.active = on /\ q.flat = p.flat /\ q.regions = p.regions
         /\ q.failure = p.failure /\ q.task = p.task /\ q.exc = p.exc /\ q.inc = p.inc
         /\ q.stale = p.stale /\ q.now = p.now
<1> DEFINE q == [p EXCEPT !.active = on]
<1>1. /\ DOMAIN q = Field
      /\ q.active = on /\ q.flat = p.flat /\ q.regions = p.regions
      /\ q.failure = p.failure /\ q.task = p.task /\ q.exc = p.exc /\ q.inc = p.inc
      /\ q.stale = p.stale /\ q.now = p.now
  BY DEF ProfileOK, Field
<1> HIDE DEF q
<1>2. ProfileOK(q)
  BY <1>1 DEF ProfileOK
<1>3. QED
  BY <1>1, <1>2 DEF q

(* A profile stays one when a TaskData object gets other contents.          *)
LEMMA TaskOK ==
  ASSUME NEW p, ProfileOK(p), NEW o \in TaskObj, NEW x \in Task,
         x.rData \in DOMAIN p.exc \cup {NoRegion},
         x.Type = "explicit" => x.parentTask \in TaskObj
  PROVE  LET q == [p EXCEPT !.task[o] = x] IN
         /\ ProfileOK(q)
         /\ q.active = p.active /\ q.flat = p.flat /\ q.regions = p.regions
         /\ q.failure = p.failure /\ q.exc = p.exc /\ q.inc = p.inc
         /\ q.stale = p.stale /\ q.now = p.now
         /\ q.task[o] = x /\ \A y \in TaskObj \ {o} : q.task[y] = p.task[y]
<1> DEFINE q == [p EXCEPT !.task[o] = x]
<1>1. /\ DOMAIN q = Field
      /\ q.active = p.active /\ q.flat = p.flat /\ q.regions = p.regions
      /\ q.failure = p.failure /\ q.exc = p.exc /\ q.inc = p.inc
      /\ q.stale = p.stale /\ q.now = p.now
      /\ q.task = [p.task EXCEPT ![o] = x]
  BY DEF ProfileOK, Field
<1> HIDE DEF q
<1>2. p.task \in [TaskObj -> Task]
  BY DEF ProfileOK
<1>3. /\ q.task \in [TaskObj -> Task]
      /\ q.task[o] = x /\ \A y \in TaskObj \ {o} : q.task[y] = p.task[y]
  BY <1>1, <1>2
<1>4. \A y \in TaskObj : /\ q.task[y].rData \in DOMAIN p.exc \cup {NoRegion}
                         /\ q.task[y].Type = "explicit" => q.task[y].parentTask \in TaskObj
  BY <1>3 DEF ProfileOK
<1> HIDE <1>2
<1>5. ProfileOK(q)
  BY <1>1, <1>3, <1>4 DEF ProfileOK
<1>6. QED
  BY <1>1, <1>3, <1>5 DEF q

-----------------------------------------------------------------------------
(* Measurements *)

(* start* and stop* of a region.                                           *)
LEMMA CountRegionOK ==
  ASSUME NEW p, ProfileOK(p), NEW t \in Thread, NEW kind \in {"exc", "inc"}, NEW n \in {1, -1},
         NEW r \in DOMAIN p.exc
  PROVE  LET q == CountRegion(p, kind, t, r, n) IN
         /\ ProfileOK(q)
         /\ q.active = p.active /\ q.flat = p.flat /\ q.regions = p.regions
         /\ q.failure = p.failure /\ q.task = p.task /\ q.now = p.now
         /\ q.stale = (p.stale \/ t \notin p.now)
         /\ DOMAIN q.exc = DOMAIN p.exc
         /\ kind = "exc" => q.inc = p.inc /\ q.exc[r] = p.exc[r] + n
                            /\ \A s \in DOMAIN p.exc \ {r} : q.exc[s] = p.exc[s]
         /\ kind = "inc" => q.exc = p.exc /\ q.inc[r] = p.inc[r] + n
                            /\ \A s \in DOMAIN p.exc \ {r} : q.inc[s] = p.inc[s]
<1> DEFINE q == CountRegion(p, kind, t, r, n)
<1>1. r # NoRegion
  BY NoRegionIsNone DEF ProfileOK
<1>2. q = [p EXCEPT ![kind][r] = @ + n, !.stale = @ \/ t \notin p.now]
  BY <1>1 DEF CountRegion
<1>3. DOMAIN p.exc = DOMAIN p.inc
      /\ \A s \in DOMAIN p.exc : p.exc[s] \in Int /\ p.inc[s] \in Int
  BY DEF ProfileOK
<1>4. /\ DOMAIN q = Field
      /\ q.active = p.active /\ q.flat = p.flat /\ q.regions = p.regions
      /\ q.failure = p.failure /\ q.task = p.task /\ q.now = p.now
      /\ q.stale = (p.stale \/ t \notin p.now)
      /\ kind = "exc" => q.inc = p.inc /\ q.exc = [p.exc EXCEPT ![r] = @ + n]
      /\ kind = "inc" => q.exc = p.exc /\ q.inc = [p.inc EXCEPT ![r] = @ + n]
  BY <1>2 DEF ProfileOK, Field
<1> HIDE DEF q
<1>5. /\ DOMAIN q.exc = DOMAIN p.exc /\ DOMAIN q.inc = DOMAIN p.exc
      /\ kind = "exc" => q.inc = p.inc /\ q.exc[r] = p.exc[r] + n
                         /\ \A s \in DOMAIN p.exc \ {r} : q.exc[s] = p.exc[s]
      /\ kind = "inc" => q.exc = p.exc /\ q.inc[r] = p.inc[r] + n
                         /\ \A s \in DOMAIN p.exc \ {r} : q.inc[s] = p.inc[s]
  BY <1>3, <1>4
<1>6. \A s \in DOMAIN p.exc : q.exc[s] \in Int /\ q.inc[s] \in Int
  BY <1>3, <1>5
<1>7. q.stale \in BOOLEAN
  BY <1>4
<1>8. ProfileOK(q)
  BY <1>4, <1>5, <1>6, <1>7 DEF ProfileOK
<1>9. QED
  BY <1>4, <1>5, <1>8 DEF q

(* ... of any region, or of none.                                          *)
LEMMA CountRegionAny ==
  ASSUME NEW p, ProfileOK(p), NEW t \in Thread, NEW kind \in {"exc", "inc"}, NEW n \in {1, -1},
         NEW r \in DOMAIN p.exc \cup {NoRegion}
  PROVE  LET q == CountRegion(p, kind, t, r, n) IN
         ProfileOK(q) /\ q.active = p.active /\ q.flat = p.flat /\ q.task = p.task
         /\ DOMAIN q.exc = DOMAIN p.exc /\ q.regions = p.regions
<1>1. CASE r \in DOMAIN p.exc
  BY <1>1, CountRegionOK
<1>2. CASE r = NoRegion
  <2> DEFINE q == [p EXCEPT !.failure = "abort"]
  <2>1. CountRegion(p, kind, t, r, n) = q
    BY <1>2 DEF CountRegion
  <2>2. /\ DOMAIN q = Field
        /\ q.active = p.active /\ q.flat = p.flat /\ q.regions = p.regions
        /\ q.failure = "abort" /\ q.task = p.task /\ q.exc = p.exc /\ q.inc = p.inc
        /\ q.stale = p.stale /\ q.now = p.now
    BY DEF ProfileOK, Field
  <2> HIDE DEF q
  <2>3. ProfileOK(q)
    BY <2>2 DEF ProfileOK
  <2>4. QED
    BY <2>1, <2>2, <2>3
<1>3. QED
  BY <1>1, <1>2

-----------------------------------------------------------------------------
(* Regions *)

(* getGlobalRegionData: afterwards the key is known, at one position; the  *)
(* regions there were keep theirs.                                         *)
LEMMA GlobalRegionOK ==
  ASSUME NEW p, ProfileOK(p), NEW key \in Code \X Nat, key[2] <= Len(p.regions)
  PROVE  LET q == GlobalRegionData(p, key) IN
         /\ ProfileOK(q)
         /\ q.active = p.active /\ q.flat = p.flat /\ q.failure = p.failure
         /\ q.task = p.task /\ q.exc = p.exc /\ q.inc = p.inc
         /\ q.stale = p.stale /\ q.now = p.now
         /\ key \in Range(q.regions)
         /\ q.regions = IF key \in Range(p.regions) THEN p.regions ELSE Append(p.regions, key)
         /\ DOMAIN p.regions \subseteq DOMAIN q.regions
         /\ \A i \in DOMAIN p.regions : q.regions[i] = p.regions[i]
<1> DEFINE q == GlobalRegionData(p, key)
<1>1. CASE key \in Range(p.regions)
  <2>1. q = p
    BY <1>1 DEF GlobalRegionData
  <2>2. QED
    BY <1>1, <2>1
<1>2. CASE key \notin Range(p.regions)
  <2>1. q = [p EXCEPT !.regions = Append(p.regions, key)]
    BY <1>2 DEF GlobalRegionData
  <2>2. /\ DOMAIN q = Field
        /\ q.active = p.active /\ q.flat = p.flat /\ q.regions = Append(p.regions, key)
        /\ q.failure = p.failure /\ q.task = p.task /\ q.exc = p.exc /\ q.inc = p.inc
        /\ q.stale = p.stale /\ q.now = p.now
    BY <2>1 DEF ProfileOK, Field
  <2> HIDE DEF q
  <2> DEFINE n == Len(p.regions)
             s == Append(p.regions, key)
  <2>3. p.regions \in Seq(Code \X Nat)
    BY DEF ProfileOK
  <2>4. /\ n \in Nat /\ DOMAIN p.regions = 1..n
        /\ s \in Seq(Code \X Nat) /\ Len(s) = n + 1 /\ DOMAIN s = 1..n + 1
        /\ \A i \in 1..n : s[i] = p.regions[i]
        /\ s[n + 1] = key
        /\ \A i \in 1..n + 1 : i \in 1..n \/ i = n + 1
    <3>1. n \in Nat /\ DOMAIN p.regions = 1..n
      BY <2>3, LenProperties
    <3>2. /\ s \in Seq(Code \X Nat) /\ Len(s) = n + 1
          /\ (\A i \in 1..n : s[i] = p.regions[i]) /\ s[n + 1] = key
      BY <2>3, AppendProperties
    <3>3. DOMAIN s = 1..n + 1
      BY <3>1, <3>2, LenProperties
    <3>4. \A i \in 1..n + 1 : i \in 1..n \/ i = n + 1
      BY <3>1
    <3>5. QED
      BY <3>1, <3>2, <3>3, <3>4
  <2>5. \A i \in 1..n : p.regions[i] # key
    BY <1>2, <2>4 DEF Range
  <2> HIDE DEF n, s
  <2>6. \A i, j \in DOMAIN s : s[i] = s[j] => i = j
    <3>1. \A i, j \in 1..n : p.regions[i] = p.regions[j] => i = j
      BY <2>4 DEF ProfileOK
    <3>2. QED
      BY <2>4, <2>5, <3>1
  <2>7. DOMAIN p.regions \subseteq DOMAIN s
    BY <2>4
  <2>8. \A i \in DOMAIN s : s[i][2] < i
    <3>1. \A i \in 1..n : p.regions[i][2] < i
      BY <2>4 DEF ProfileOK
    <3>2. key[2] \in Nat /\ key[2] < n + 1
      BY <2>4 DEF n
    <3>3. QED
      BY <2>4, <3>1, <3>2
  <2>9. ProfileOK(q)
    BY <2>2, <2>4, <2>6, <2>7, <2>8 DEF ProfileOK, s
  <2>10. key \in Range(s)
    <3>1. n + 1 \in DOMAIN s
      BY <2>4
    <3>2. QED
      BY <2>4, <3>1 DEF Range
  <2>11. QED
    BY <1>2, <2>2, <2>4, <2>7, <2>9, <2>10 DEF q, s
<1>3. QED
  BY <1>1, <1>2

(* A key is a code pointer with a number.                                  *)
LEMMA KeyType ==
  ASSUME NEW p, ProfileOK(p), NEW code \in Code, NEW parent \in DOMAIN p.exc \cup {NoRegion}
  PROVE  /\ Key(p, code, parent) \in Code \X Nat
         /\ Key(p, code, parent)[2] <= Len(p.regions)
<1>1. Len(p.regions) \in Nat /\ DOMAIN p.regions = 1..Len(p.regions)
  <2>1. p.regions \in Seq(Code \X Nat)
    BY DEF ProfileOK
  <2>2. QED
    BY <2>1, LenProperties
<1>2. CallPathID(p, parent) \in Nat /\ CallPathID(p, parent) <= Len(p.regions)
  <2>1. CASE parent = NoRegion
    BY <1>1, <2>1 DEF CallPathID
  <2>2. CASE parent \in DOMAIN p.exc
    <3>1. parent.id \in DOMAIN p.regions
      BY <2>2 DEF ProfileOK
    <3>2. parent.id \in Nat /\ parent.id <= Len(p.regions)
      BY <1>1, <3>1
    <3>3. QED
      BY <1>1, <3>2 DEF CallPathID
  <2>3. QED
    BY <2>1, <2>2
<1>3. QED
  BY <1>1, <1>2 DEF Key

(* The key of a region does not change when there are more regions.        *)
LEMMA KeyStable ==
  ASSUME NEW p, NEW q, ProfileOK(p), q.flat = p.flat,
         \A i \in DOMAIN p.regions : q.regions[i] = p.regions[i],
         NEW code, NEW parent \in DOMAIN p.exc \cup {NoRegion}
  PROVE  Key(q, code, parent) = Key(p, code, parent)
<1>1. CallPathID(q, parent) = CallPathID(p, parent)
  <2>1. CASE parent = NoRegion
    BY <2>1 DEF CallPathID
  <2>2. CASE parent \in DOMAIN p.exc
    <3>1. parent.id \in DOMAIN p.regions
      BY <2>2 DEF ProfileOK
    <3>2. q.regions[parent.id] = p.regions[parent.id]
      BY <3>1
    <3>3. QED
      BY <3>2 DEF CallPathID
  <2>3. QED
    BY <2>1, <2>2
<1>2. QED
  BY <1>1 DEF Key

(* getThreadRegionData: a region of the thread, under the key; a region    *)
(* that is new to the thread has not been measured.                        *)
LEMMA ThreadRegionOK ==
  ASSUME NEW p, ProfileOK(p), NEW t \in Thread,
         NEW code \in Code, NEW parent \in DOMAIN p.exc \cup {NoRegion}
  PROVE  LET q == ThreadRegionData(p, t, code, parent)
             r == ThreadRegion(q, t, code, parent)
         IN
         /\ ProfileOK(q)
         /\ q.active = p.active /\ q.flat = p.flat /\ q.failure = p.failure
         /\ q.task = p.task /\ q.stale = p.stale /\ q.now = p.now
         /\ q.regions = IF Key(p, code, parent) \in Range(p.regions) THEN p.regions
                        ELSE Append(p.regions, Key(p, code, parent))
         /\ DOMAIN p.regions \subseteq DOMAIN q.regions
         /\ \A i \in DOMAIN p.regions : q.regions[i] = p.regions[i]
         /\ r \in Region /\ r.thread = t /\ r.id \in DOMAIN q.regions
         /\ q.regions[r.id] = Key(p, code, parent)
         /\ DOMAIN q.exc = DOMAIN p.exc \cup {r}
         /\ \A s \in DOMAIN p.exc : q.exc[s] = p.exc[s] /\ q.inc[s] = p.inc[s]
         /\ r \notin DOMAIN p.exc => q.exc[r] = 0 /\ q.inc[r] = 0
<1> DEFINE key == Key(p, code, parent)
           g == GlobalRegionData(p, key)
           r == ThreadRegion(g, t, code, parent)
           q == ThreadRegionData(p, t, code, parent)
           D == DOMAIN p.exc
           exc == [x \in DOMAIN p.exc \cup {r} |-> IF x \in DOMAIN p.exc THEN p.exc[x] ELSE 0]
           inc == [x \in DOMAIN p.inc \cup {r} |-> IF x \in DOMAIN p.inc THEN p.inc[x] ELSE 0]
<1>1. key \in Code \X Nat /\ key[2] <= Len(p.regions)
  BY KeyType
<1>2. /\ ProfileOK(g)
      /\ g.active = p.active /\ g.flat = p.flat /\ g.failure = p.failure
      /\ g.task = p.task /\ g.exc = p.exc /\ g.inc = p.inc
      /\ g.stale = p.stale /\ g.now = p.now
      /\ key \in Range(g.regions)
      /\ g.regions = IF key \in Range(p.regions) THEN p.regions ELSE Append(p.regions, key)
      /\ DOMAIN p.regions \subseteq DOMAIN g.regions
      /\ \A i \in DOMAIN p.regions : g.regions[i] = p.regions[i]
  <2> HIDE DEF key
  <2>1. QED
    BY <1>1, GlobalRegionOK
<1>3. Key(g, code, parent) = key
  BY <1>2, KeyStable
<1> HIDE DEF key, g
<1>4. /\ r.thread = t /\ r.id \in DOMAIN g.regions /\ g.regions[r.id] = key
      /\ r \in Region
  <2> DEFINE i == CHOOSE i \in DOMAIN g.regions : g.regions[i] = key
  <2>1. \E j \in DOMAIN g.regions : g.regions[j] = key
    BY <1>2 DEF Range
  <2>2. i \in DOMAIN g.regions /\ g.regions[i] = key
    BY <2>1
  <2>3. r = [thread |-> t, id |-> i]
    BY <1>3 DEF ThreadRegion
  <2> HIDE DEF i, r
  <2>4. i \in Nat
    <3>1. g.regions \in Seq(Code \X Nat)
      BY <1>2 DEF ProfileOK
    <3>2. DOMAIN g.regions = 1..Len(g.regions) /\ Len(g.regions) \in Nat
      BY <3>1, LenProperties
    <3>3. QED
      BY <2>2, <3>2
  <2>5. QED
    BY <2>2, <2>3, <2>4 DEF Region
<1>5. q = [g EXCEPT !.exc = exc, !.inc = inc]
  <2>1. g.exc = p.exc /\ g.inc = p.inc
    BY <1>2
  <2>2. QED
    BY <2>1 DEF ThreadRegionData, key, g
<1>6. /\ DOMAIN q = Field
      /\ q.active = p.active /\ q.flat = p.flat /\ q.failure = p.failure
      /\ q.task = p.task /\ q.stale = p.stale /\ q.now = p.now
      /\ q.regions = g.regions
      /\ q.exc = exc /\ q.inc = inc
  <2>1. DOMAIN g = Field
    BY <1>2 DEF ProfileOK
  <2> HIDE DEF q, r, exc, inc
  <2>2. QED
    BY <1>2, <1>5, <2>1 DEF Field
<1>7. r = ThreadRegion(q, t, code, parent)
  <2>1. q.flat = p.flat /\ \A i \in DOMAIN p.regions : q.regions[i] = p.regions[i]
    BY <1>2, <1>6
  <2>2. Key(q, code, parent) = Key(p, code, parent)
    <3> HIDE DEF q
    <3>1. QED
      BY <2>1, KeyStable
  <2>3. QED
    BY <1>3, <1>6, <2>2 DEF ThreadRegion, key
<1> HIDE DEF q, r
<1>8. DOMAIN p.exc = DOMAIN p.inc
      /\ \A s \in D : p.exc[s] \in Int /\ p.inc[s] \in Int /\ s \in Region /\ s.id \in DOMAIN p.regions
  BY DEF ProfileOK
<1>9. /\ DOMAIN q.exc = D \cup {r} /\ DOMAIN q.inc = D \cup {r}
      /\ \A s \in D : q.exc[s] = p.exc[s] /\ q.inc[s] = p.inc[s]
      /\ r \notin D => q.exc[r] = 0 /\ q.inc[r] = 0
  <2>1. q.exc = exc /\ q.inc = inc
    BY <1>6
  <2> HIDE <1>6
  <2>2. QED
    BY <1>8, <2>1
<1>10. \A s \in DOMAIN q.exc : /\ s \in Region /\ s.id \in DOMAIN q.regions
                               /\ q.exc[s] \in Int /\ q.inc[s] \in Int
  BY <1>2, <1>4, <1>6, <1>8, <1>9
<1>11. /\ q.regions \in Seq(Code \X Nat)
       /\ \A i, j \in DOMAIN q.regions : q.regions[i] = q.regions[j] => i = j
       /\ \A i \in DOMAIN q.regions : q.regions[i][2] < i
  <2>1. /\ g.regions \in Seq(Code \X Nat)
        /\ \A i, j \in DOMAIN g.regions : g.regions[i] = g.regions[j] => i = j
        /\ \A i \in DOMAIN g.regions : g.regions[i][2] < i
    BY <1>2 DEF ProfileOK
  <2>2. QED
    BY <1>6, <2>1
<1>12. ProfileOK(q)
  BY <1>6, <1>9, <1>10, <1>11 DEF ProfileOK
<1>13. QED
  BY <1>2, <1>4, <1>6, <1>7, <1>9, <1>12 DEF key, q

(* The only region of a thread with some key is the one the lookup finds.  *)
LEMMA ThreadRegionUnique ==
  ASSUME NEW p, ProfileOK(p), NEW t, NEW code, NEW parent,
         NEW r \in Region, r.thread = t, r.id \in DOMAIN p.regions,
         p.regions[r.id] = Key(p, code, parent)
  PROVE  ThreadRegion(p, t, code, parent) = r
<1> DEFINE i == CHOOSE i \in DOMAIN p.regions : p.regions[i] = Key(p, code, parent)
<1>1. i \in DOMAIN p.regions /\ p.regions[i] = Key(p, code, parent)
  OBVIOUS
<1>2. ThreadRegion(p, t, code, parent) = [thread |-> t, id |-> i]
  BY DEF ThreadRegion
<1> HIDE DEF i
<1>3. i = r.id
  BY <1>1 DEF ProfileOK
<1>4. QED
  BY <1>2, <1>3 DEF Region

-----------------------------------------------------------------------------
(* Books *)

(* Calls add up.                                                           *)
LEMMA FrameChain ==
  ASSUME NEW p, NEW q, NEW r, NEW t, NEW O, NEW P, O \subseteq P,
         Frame(p, q, t, O), Frame(q, r, t, P)
  PROVE  Frame(p, r, t, P)
<1>1. /\ r.flat = p.flat /\ r.failure = p.failure
      /\ DOMAIN p.regions \subseteq DOMAIN r.regions
      /\ DOMAIN p.exc \subseteq DOMAIN r.exc
      /\ \A x \in TaskObj \ P : r.task[x] = p.task[x]
  BY DEF Frame
<1>2. \A i \in DOMAIN p.regions : r.regions[i] = p.regions[i]
  BY DEF Frame
<1>3. ASSUME NEW s \in DOMAIN r.exc, s.thread # t
      PROVE  s \in DOMAIN p.exc /\ r.exc[s] = p.exc[s] /\ r.inc[s] = p.inc[s]
  BY <1>3 DEF Frame
<1>4. QED
  BY <1>1, <1>2, <1>3 DEF Frame

(* What a call says of the regions and of the other tasks of its thread.   *)
LEMMA KeyHoldsStable ==
  ASSUME NEW p, NEW q, ProfileOK(p), ProfileOK(q), NEW t, NEW O, Frame(p, q, t, O),
         NEW o \in TaskObj, p.task[o].rData \in DOMAIN p.exc, KeyHolds(p, o),
         q.task[o].codePtr = p.task[o].codePtr, q.task[o].rData = p.task[o].rData,
         q.task[o].parentTask = p.task[o].parentTask, p.task[o].parentTask \in TaskObj,
         q.task[p.task[o].parentTask].rData = p.task[p.task[o].parentTask].rData
  PROVE  KeyHolds(q, o)
<1> DEFINE x == p.task[o].parentTask
           c == p.task[o].codePtr
           i == p.task[o].rData.id
<1>1. i \in DOMAIN p.regions
  BY DEF ProfileOK
<1>2. q.regions[i] = p.regions[i] /\ q.flat = p.flat
      /\ \A j \in DOMAIN p.regions : q.regions[j] = p.regions[j]
  BY <1>1 DEF Frame
<1>3. p.task[x].rData \in DOMAIN p.exc \cup {NoRegion}
  BY DEF ProfileOK
<1>4. Key(q, c, p.task[x].rData) = Key(p, c, p.task[x].rData)
  <2> HIDE DEF x, c
  <2>1. QED
    BY <1>2, <1>3, KeyStable
<1>5. q.task[o].codePtr = c /\ q.task[o].parentTask = x /\ q.task[o].rData.id = i
  OBVIOUS
<1>6. QED
  BY <1>2, <1>4, <1>5 DEF KeyHolds

(* Two lookups for the same task are one.                                   *)
LEMMA CallChain ==
  ASSUME NEW p, NEW q, NEW r, NEW t, NEW o \in TaskObj, ProfileOK(p),
         p.task[o].Type = "explicit" => p.task[o].parentTask # o,
         Call(p, q, t, o), Call(q, r, t, o)
  PROVE  Call(p, r, t, o)
<1>1. ProfileOK(r) /\ Frame(p, r, t, {o})
  BY FrameChain DEF Call
<1>2. r.active = p.active /\ r.now = p.now /\ r.stale = p.stale
      /\ OnlyRegion(p.task[o], r.task[o])
  BY DEF Call, OnlyRegion
<1>3. ASSUME Settled(p, t, o)
      PROVE  r.task[o].rData = p.task[o].rData
  <2>1. q.task[o].rData = p.task[o].rData /\ q.task[o].Type = p.task[o].Type
    BY <1>3 DEF Call, OnlyRegion
  <2>2. Bound(q, t, o)
    BY <1>3, <2>1 DEF Settled, Bound, Call, Frame
  <2>3. ASSUME q.task[o].Type = "explicit" PROVE KeyHolds(q, o)
    <3>1. p.task[o].Type = "explicit" /\ KeyHolds(p, o) /\ p.task[o].parentTask # o
      BY <1>3, <2>1, <2>3 DEF Settled
    <3>2. p.task[o].parentTask \in TaskObj
      BY <3>1 DEF ProfileOK
    <3>3. q.task[p.task[o].parentTask] = p.task[p.task[o].parentTask]
      BY <3>1, <3>2 DEF Call, Frame
    <3>4. /\ ProfileOK(q) /\ Frame(p, q, t, {o}) /\ p.task[o].rData \in DOMAIN p.exc
          /\ q.task[o].codePtr = p.task[o].codePtr /\ q.task[o].parentTask = p.task[o].parentTask
      BY <1>3 DEF Settled, Call, Bound, OnlyRegion
    <3>5. QED
      BY <2>1, <3>1, <3>2, <3>3, <3>4, KeyHoldsStable
  <2>4. QED
    BY <2>1, <2>2, <2>3 DEF Call, Settled
<1>4. QED
  BY <1>1, <1>2, <1>3 DEF Call

(* The books of one thread are not touched by calls on another one.        *)
LEMMA BooksFrame ==
  ASSUME NEW p, NEW q, NEW t, NEW u, NEW O, ProfileOK(p), ProfileOK(q), Frame(p, q, t, O),
         NEW e, NEW S, NEW N, Books(p, u, e, S, N), u # t, e \notin O, S \cap O = {}
  PROVE  Books(q, u, e, S, N)
<1>1. \A x \in S : x \in TaskObj /\ q.task[x] = p.task[x] /\ p.task[x].rData \in DOMAIN q.exc
  BY DEF Books, Frame, Bound
<1>2. e \in TaskObj => q.task[e] = p.task[e] /\ p.task[e].rData \in DOMAIN q.exc
  BY DEF Books, Frame, Bound
<1>3. (\A x \in S : Bound(q, u, x)) /\ (e \in TaskObj => Bound(q, u, e))
  BY <1>1, <1>2 DEF Books, Bound
<1>4. ASSUME NEW r \in DOMAIN q.exc, r.thread = u
      PROVE  /\ q.exc[r] = IF e \in TaskObj /\ q.task[e].rData = r THEN 1 ELSE 0
             /\ q.inc[r] = Cardinality(BoundTo(q.task, S, r)) + N[r]
  <2>1. r \in DOMAIN p.exc /\ q.exc[r] = p.exc[r] /\ q.inc[r] = p.inc[r]
    BY <1>4 DEF Frame
  <2>2. BoundTo(q.task, S, r) = BoundTo(p.task, S, r)
    BY <1>1 DEF BoundTo
  <2>3. QED
    BY <1>2, <1>4, <2>1, <2>2 DEF Books
<1>5. \A r \in Region \ DOMAIN q.exc : N[r] = 0
  BY DEF Books, Frame
<1>6. QED
  BY <1>3, <1>4, <1>5 DEF Books

(* Nor by anything that leaves tasks and measurements alone.               *)
LEMMA BooksSame ==
  ASSUME NEW p, NEW q, q.task = p.task, q.exc = p.exc, q.inc = p.inc,
         NEW t, NEW e, NEW S, NEW N, Books(p, t, e, S, N)
  PROVE  Books(q, t, e, S, N)
BY DEF Books, Bound

(* One more task, one less.                                                *)
LEMMA CountedAdd ==
  ASSUME NEW S, IsFiniteSet(S), NEW o, o \notin S, NEW f, NEW r
  PROVE  /\ f[o].rData = r =>
              Cardinality(BoundTo(f, S \cup {o}, r)) = Cardinality(BoundTo(f, S, r)) + 1
         /\ f[o].rData # r => BoundTo(f, S \cup {o}, r) = BoundTo(f, S, r)
         /\ Cardinality(BoundTo(f, S, r)) \in Nat
<1> DEFINE A == BoundTo(f, S, r)
<1> USE DEF BoundTo
<1>1. IsFiniteSet(A) /\ o \notin A
  BY FS_Subset
<1>2. Cardinality(A \cup {o}) = Cardinality(A) + 1 /\ Cardinality(A) \in Nat
  BY <1>1, FS_AddElement, FS_CardinalityType
<1>3. CASE f[o].rData = r
  <2>1. BoundTo(f, S \cup {o}, r) = A \cup {o}
    BY <1>3
  <2>2. QED
    BY <1>2, <1>3, <2>1
<1>4. CASE f[o].rData # r
  BY <1>2, <1>4
<1>5. QED
  BY <1>3, <1>4

(* A start or stop on the books of its thread: what is measured before and *)
(* after differs by the task.                                              *)
LEMMA CountCall ==
  ASSUME NEW p, ProfileOK(p), NEW t \in Thread, t \in p.now, NEW o \in TaskObj, Bound(p, t, o),
         NEW kind \in {"exc", "inc"}, NEW n \in {1, -1}
  PROVE  LET q == CountRegion(p, kind, t, p.task[o].rData, n) IN
         Call(p, q, t, o) /\ q.task = p.task /\ DOMAIN q.exc = DOMAIN p.exc
<1> DEFINE q == CountRegion(p, kind, t, p.task[o].rData, n)
           r == p.task[o].rData
<1>1. r \in DOMAIN p.exc /\ r.thread = t
  BY DEF Bound
<1>2. /\ ProfileOK(q)
      /\ q.active = p.active /\ q.flat = p.flat /\ q.regions = p.regions
      /\ q.failure = p.failure /\ q.task = p.task /\ q.now = p.now
      /\ q.stale = (p.stale \/ t \notin p.now)
      /\ DOMAIN q.exc = DOMAIN p.exc
      /\ kind = "exc" => q.inc = p.inc /\ q.exc[r] = p.exc[r] + n
                         /\ \A s \in DOMAIN p.exc \ {r} : q.exc[s] = p.exc[s]
      /\ kind = "inc" => q.exc = p.exc /\ q.inc[r] = p.inc[r] + n
                         /\ \A s \in DOMAIN p.exc \ {r} : q.inc[s] = p.inc[s]
  BY <1>1, CountRegionOK
<1> HIDE DEF q
<1>3. q.stale = p.stale
  <2>1. p.stale \in BOOLEAN
    BY DEF ProfileOK
  <2>2. q.stale = (p.stale \/ FALSE)
    BY <1>2
  <2>3. QED
    BY <2>1, <2>2
<1>4. Frame(p, q, t, {o})
  <2>1. \A s \in DOMAIN p.exc : s.thread # t => s # r
    BY <1>1
  <2>2. \A s \in DOMAIN q.exc : s.thread # t =>
          s \in DOMAIN p.exc /\ q.exc[s] = p.exc[s] /\ q.inc[s] = p.inc[s]
    BY <1>2, <2>1
  <2>3. QED
    BY <1>2, <2>2 DEF Frame
<1>5. OnlyRegion(p.task[o], q.task[o])
  BY <1>2 DEF OnlyRegion
<1>6. QED
  BY <1>2, <1>3, <1>4, <1>5 DEF Call, q

(* Counting a start of exclusive time enters the task in the books.         *)
LEMMA ExcStart ==
  ASSUME NEW p, ProfileOK(p), NEW t \in Thread, NEW o \in TaskObj, Bound(p, t, o),
         NEW S, NEW N, Books(p, t, NoTask, S, N)
  PROVE  Books(CountRegion(p, "exc", t, p.task[o].rData, 1), t, o, S, N)
<1> DEFINE q == CountRegion(p, "exc", t, p.task[o].rData, 1)
           r == p.task[o].rData
<1>1. r \in DOMAIN p.exc /\ r.thread = t
  BY DEF Bound
<1>2. /\ q.task = p.task /\ DOMAIN q.exc = DOMAIN p.exc
      /\ q.inc = p.inc /\ q.exc[r] = p.exc[r] + 1
      /\ \A s \in DOMAIN p.exc \ {r} : q.exc[s] = p.exc[s]
  BY <1>1, CountRegionOK
<1> HIDE DEF q
<1>3. NoTask \notin TaskObj
  BY TaskProfileAssumption
<1>4. ASSUME NEW s \in DOMAIN q.exc, s.thread = t
      PROVE  q.exc[s] = IF o \in TaskObj /\ q.task[o].rData = s THEN 1 ELSE 0
  <2>1. p.exc[s] = 0
    BY <1>2, <1>3, <1>4 DEF Books
  <2>2. QED
    BY <1>2, <2>1
<1>5. Books(q, t, o, S, N)
  BY <1>2, <1>4 DEF Books, Bound
<1>6. QED
  BY <1>5 DEF q

(* Counting a stop of exclusive time takes the task out of the books.       *)
LEMMA ExcStop ==
  ASSUME NEW p, ProfileOK(p), NEW t \in Thread, NEW o \in TaskObj, Bound(p, t, o),
         NEW S, NEW N, Books(p, t, o, S, N)
  PROVE  Books(CountRegion(p, "exc", t, p.task[o].rData, -1), t, NoTask, S, N)
<1> DEFINE q == CountRegion(p, "exc", t, p.task[o].rData, -1)
           r == p.task[o].rData
<1>1. r \in DOMAIN p.exc /\ r.thread = t
  BY DEF Bound
<1>2. /\ q.task = p.task /\ DOMAIN q.exc = DOMAIN p.exc
      /\ q.inc = p.inc /\ q.exc[r] = p.exc[r] + (-1)
      /\ \A s \in DOMAIN p.exc \ {r} : q.exc[s] = p.exc[s]
  BY <1>1, CountRegionOK
<1> HIDE DEF q
<1>3. NoTask \notin TaskObj
  BY TaskProfileAssumption
<1>4. ASSUME NEW s \in DOMAIN q.exc, s.thread = t
      PROVE  q.exc[s] = 0
  <2>1. p.exc[s] = IF r = s THEN 1 ELSE 0
    BY <1>2, <1>4 DEF Books
  <2>2. QED
    BY <1>2, <2>1
<1>5. Books(q, t, NoTask, S, N)
  BY <1>2, <1>3, <1>4 DEF Books, Bound
<1>6. QED
  BY <1>5 DEF q

(* Counting a start of inclusive time adds the task to those measured.      *)
LEMMA IncStart ==
  ASSUME NEW p, ProfileOK(p), NEW t \in Thread, NEW o \in TaskObj, Bound(p, t, o),
         NEW e, NEW S, NEW N \in [Region -> Nat], o \notin S, Books(p, t, e, S, N)
  PROVE  Books(CountRegion(p, "inc", t, p.task[o].rData, 1), t, e, S \cup {o}, N)
<1> DEFINE q == CountRegion(p, "inc", t, p.task[o].rData, 1)
           r == p.task[o].rData
<1>1. r \in DOMAIN p.exc /\ r.thread = t
  BY DEF Bound
<1>2. /\ q.task = p.task /\ DOMAIN q.exc = DOMAIN p.exc
      /\ q.exc = p.exc /\ q.inc[r] = p.inc[r] + 1
      /\ \A s \in DOMAIN p.exc \ {r} : q.inc[s] = p.inc[s]
  BY <1>1, CountRegionOK
<1> HIDE DEF q
<1>3. IsFiniteSet(S) /\ IsFiniteSet(S \cup {o})
  BY FS_AddElement DEF Books
<1>4. ASSUME NEW s \in DOMAIN q.exc, s.thread = t
      PROVE  q.inc[s] = Cardinality(BoundTo(q.task, S \cup {o}, s)) + N[s]
  <2> DEFINE f == p.task
             c == Cardinality(BoundTo(f, S, s))
             d == Cardinality(BoundTo(f, S \cup {o}, s))
  <2> HIDE DEF f
  <2>1. c \in Nat
    BY <1>3, CountedAdd
  <2>2. (r = s => d = c + 1) /\ (r # s => d = c)
    <3>1. CASE f[o].rData = s
      <4>1. d = c + 1
        BY <1>3, <3>1, CountedAdd
      <4>2. QED
        BY <3>1, <4>1 DEF f
    <3>2. CASE f[o].rData # s
      <4>1. d = c
        BY <1>3, <3>2, CountedAdd
      <4>2. QED
        BY <3>2, <4>1 DEF f
    <3>3. QED
      BY <3>1, <3>2
  <2>3. p.inc[s] = c + N[s]
    BY <1>2, <1>4 DEF Books, f
  <2>4. N[s] \in Nat
    BY <1>2 DEF ProfileOK
  <2> HIDE DEF c, d
  <2>5. q.inc[s] = d + N[s]
    BY <1>2, <2>1, <2>2, <2>3, <2>4
  <2>6. QED
    BY <1>2, <2>5 DEF d, f
<1>5. Books(q, t, e, S \cup {o}, N)
  BY <1>2, <1>3, <1>4 DEF Books, Bound
<1>6. QED
  BY <1>5 DEF q

(* Counting a stop of inclusive time takes the task from those measured.    *)
LEMMA IncStop ==
  ASSUME NEW p, ProfileOK(p), NEW t \in Thread, NEW o \in TaskObj, Bound(p, t, o),
         NEW e, NEW S, NEW N \in [Region -> Nat], o \in S, Books(p, t, e, S, N)
  PROVE  Books(CountRegion(p, "inc", t, p.task[o].rData, -1), t, e, S \ {o}, N)
<1> DEFINE q == CountRegion(p, "inc", t, p.task[o].rData, -1)
           r == p.task[o].rData
           T == S \ {o}
<1>1. r \in DOMAIN p.exc /\ r.thread = t
  BY DEF Bound
<1>2. /\ q.task = p.task /\ DOMAIN q.exc = DOMAIN p.exc
      /\ q.exc = p.exc /\ q.inc[r] = p.inc[r] + (-1)
      /\ \A s \in DOMAIN p.exc \ {r} : q.inc[s] = p.inc[s]
  BY <1>1, CountRegionOK
<1> HIDE DEF q
<1>3. IsFiniteSet(T) /\ o \notin T /\ T \cup {o} = S /\ T \subseteq TaskObj
  BY FS_Subset DEF Books
<1> HIDE DEF T
<1>4. ASSUME NEW s \in DOMAIN q.exc, s.thread = t
      PROVE  q.inc[s] = Cardinality(BoundTo(q.task, T, s)) + N[s]
  <2> DEFINE f == p.task
             c == Cardinality(BoundTo(f, T, s))
             d == Cardinality(BoundTo(f, T \cup {o}, s))
  <2> HIDE DEF f
  <2>1. c \in Nat
    BY <1>3, CountedAdd
  <2>2. (r = s => d = c + 1) /\ (r # s => d = c)
    <3>1. CASE f[o].rData = s
      <4>1. d = c + 1
        BY <1>3, <3>1, CountedAdd
      <4>2. QED
        BY <3>1, <4>1 DEF f
    <3>2. CASE f[o].rData # s
      <4>1. d = c
        BY <1>3, <3>2, CountedAdd
      <4>2. QED
        BY <3>2, <4>1 DEF f
    <3>3. QED
      BY <3>1, <3>2
  <2>3. p.inc[s] = d + N[s]
    BY <1>2, <1>3, <1>4 DEF Books, f
  <2>4. N[s] \in Nat
    BY <1>2 DEF ProfileOK
  <2> HIDE DEF c, d
  <2>5. q.inc[s] = c + N[s]
    BY <1>2, <2>1, <2>2, <2>3, <2>4
  <2>6. QED
    BY <1>2, <2>5 DEF c, f
<1>5. Books(q, t, e, T, N)
  BY <1>2, <1>3, <1>4 DEF Books, Bound
<1>6. QED
  BY <1>5 DEF q, T

-----------------------------------------------------------------------------
(* Starts and stops of tasks *)

(* A task is bound to the region that the thread's lookup finds.           *)
LEMMA BindOK ==
  ASSUME NEW p, ProfileOK(p), NEW t \in Thread, NEW o \in TaskObj,
         NEW code \in Code, NEW parent \in DOMAIN p.exc \cup {NoRegion}
  PROVE  LET q == BindRegion(p, t, o, code, parent)
             r == q.task[o].rData
         IN
         /\ ProfileOK(q)
         /\ q.active = p.active /\ q.flat = p.flat /\ q.failure = p.failure
         /\ q.stale = p.stale /\ q.now = p.now
         /\ q.regions = IF Key(p, code, parent) \in Range(p.regions) THEN p.regions
                        ELSE Append(p.regions, Key(p, code, parent))
         /\ DOMAIN p.regions \subseteq DOMAIN q.regions
         /\ \A i \in DOMAIN p.regions : q.regions[i] = p.regions[i]
         /\ \A x \in TaskObj \ {o} : q.task[x] = p.task[x]
         /\ OnlyRegion(p.task[o], q.task[o])
         /\ r \in Region /\ r.thread = t /\ r.id \in DOMAIN q.regions
         /\ q.regions[r.id] = Key(p, code, parent)
         /\ DOMAIN q.exc = DOMAIN p.exc \cup {r}
         /\ \A s \in DOMAIN p.exc : q.exc[s] = p.exc[s] /\ q.inc[s] = p.inc[s]
         /\ r \notin DOMAIN p.exc => q.exc[r] = 0 /\ q.inc[r] = 0
<1> DEFINE g == ThreadRegionData(p, t, code, parent)
           r == ThreadRegion(g, t, code, parent)
           x == [p.task[o] EXCEPT !.rData = r]
           q == [g EXCEPT !.task[o] = x]
<1>1. /\ ProfileOK(g)
      /\ g.active = p.active /\ g.flat = p.flat /\ g.failure = p.failure
      /\ g.task = p.task /\ g.stale = p.stale /\ g.now = p.now
      /\ g.regions = IF Key(p, code, parent) \in Range(p.regions) THEN p.regions
                     ELSE Append(p.regions, Key(p, code, parent))
      /\ DOMAIN p.regions \subseteq DOMAIN g.regions
      /\ \A i \in DOMAIN p.regions : g.regions[i] = p.regions[i]
      /\ r \in Region /\ r.thread = t /\ r.id \in DOMAIN g.regions
      /\ g.regions[r.id] = Key(p, code, parent)
      /\ DOMAIN g.exc = DOMAIN p.exc \cup {r}
      /\ \A s \in DOMAIN p.exc : g.exc[s] = p.exc[s] /\ g.inc[s] = p.inc[s]
      /\ r \notin DOMAIN p.exc => g.exc[r] = 0 /\ g.inc[r] = 0
  BY ThreadRegionOK
<1> HIDE DEF g, r
<1>2. BindRegion(p, t, o, code, parent) = q
  <2>1. g.task[o] = p.task[o]
    BY <1>1
  <2>2. [g EXCEPT !.task[o].rData = r] = [g EXCEPT !.task[o] = [g.task[o] EXCEPT !.rData = r]]
    OBVIOUS
  <2>3. BindRegion(p, t, o, code, parent) = [g EXCEPT !.task[o].rData = r]
    BY DEF BindRegion, g, r
  <2>4. QED
    BY <2>1, <2>2, <2>3
<1>3. /\ x \in Task /\ x.rData = r /\ OnlyRegion(p.task[o], x)
      /\ x.Type = "explicit" => x.parentTask \in TaskObj
  <2>1. p.task[o] \in Task
    BY DEF ProfileOK
  <2>2. x \in Task /\ x.rData = r /\ OnlyRegion(p.task[o], x)
    BY <1>1, <2>1 DEF Task, OnlyRegion
  <2>3. p.task[o].Type = "explicit" => p.task[o].parentTask \in TaskObj
    BY DEF ProfileOK
  <2>4. QED
    BY <2>2, <2>3 DEF OnlyRegion
<1> HIDE DEF x
<1>4. /\ ProfileOK(q)
      /\ q.active = g.active /\ q.flat = g.flat /\ q.regions = g.regions
      /\ q.failure = g.failure /\ q.exc = g.exc /\ q.inc = g.inc
      /\ q.stale = g.stale /\ q.now = g.now
      /\ q.task[o] = x /\ \A y \in TaskObj \ {o} : q.task[y] = g.task[y]
  <2>1. x.rData \in DOMAIN g.exc \cup {NoRegion}
    BY <1>1, <1>3
  <2>2. QED
    BY <1>1, <1>3, <2>1, TaskOK
<1> HIDE DEF q
<1>5. OnlyRegion(p.task[o], q.task[o]) /\ q.task[o].rData = r
  BY <1>3, <1>4
<1>6. QED
  BY <1>1, <1>2, <1>4, <1>5

(* A lookup that finds the task's region changes no task, and a lookup for *)
(* a task that is not measured changes no books.                           *)
LEMMA BindBooks ==
  ASSUME NEW p, ProfileOK(p), NEW t \in Thread, NEW o \in TaskObj,
         NEW code \in Code, NEW parent \in DOMAIN p.exc \cup {NoRegion},
         NEW e, NEW S, NEW N \in [Region -> Nat], Books(p, t, e, S, N),
         (o \notin S /\ o # e) \/
           BindRegion(p, t, o, code, parent).task[o].rData = p.task[o].rData
  PROVE  Books(BindRegion(p, t, o, code, parent), t, e, S, N)
<1> DEFINE q == BindRegion(p, t, o, code, parent)
           r == q.task[o].rData
<1>1. /\ \A x \in TaskObj \ {o} : q.task[x] = p.task[x]
      /\ DOMAIN q.exc = DOMAIN p.exc \cup {r} /\ r \in Region
      /\ \A s \in DOMAIN p.exc : q.exc[s] = p.exc[s] /\ q.inc[s] = p.inc[s]
      /\ r \notin DOMAIN p.exc => q.exc[r] = 0 /\ q.inc[r] = 0
  BY BindOK
<1> HIDE DEF q
<1>2. /\ S \subseteq TaskObj /\ \A x \in S : q.task[x].rData = p.task[x].rData
      /\ e \in TaskObj => q.task[e].rData = p.task[e].rData
  BY <1>1 DEF Books, q
<1>3. (\A x \in S : Bound(q, t, x)) /\ (e \in TaskObj => Bound(q, t, e))
  BY <1>1, <1>2 DEF Books, Bound
<1>4. \A s : BoundTo(q.task, S, s) = BoundTo(p.task, S, s)
  BY <1>2 DEF BoundTo
<1>5. ASSUME NEW s \in DOMAIN q.exc, s.thread = t
      PROVE  /\ q.exc[s] = IF e \in TaskObj /\ q.task[e].rData = s THEN 1 ELSE 0
             /\ q.inc[s] = Cardinality(BoundTo(q.task, S, s)) + N[s]
  <2>1. CASE s \in DOMAIN p.exc
    BY <1>1, <1>2, <1>4, <1>5, <2>1 DEF Books
  <2>2. CASE s \notin DOMAIN p.exc
    <3>1. q.exc[s] = 0 /\ q.inc[s] = 0 /\ s \in Region
      BY <1>1, <2>2
    <3>2. N[s] = 0
      BY <2>2, <3>1 DEF Books
    <3>3. (\A x \in S : p.task[x].rData # s) /\ (e \in TaskObj => p.task[e].rData # s)
      BY <2>2 DEF Books, Bound
    <3>4. BoundTo(p.task, S, s) = {}
      BY <3>3 DEF BoundTo
    <3>5. Cardinality(BoundTo(q.task, S, s)) = 0
      BY <1>4, <3>4, FS_EmptySet
    <3>6. QED
      BY <1>2, <3>1, <3>2, <3>3, <3>5
  <2>3. QED
    BY <2>1, <2>2
<1>6. \A s \in Region \ DOMAIN q.exc : N[s] = 0
  BY <1>1 DEF Books
<1>7. Books(q, t, e, S, N)
  BY <1>3, <1>5, <1>6 DEF Books
<1>8. QED
  BY <1>7 DEF q

(* What start looks up for an explicit task.                               *)
Bind(p, t, o) ==
  IF p.task[o].Type = "explicit"
  THEN BindRegion(p, t, o, p.task[o].codePtr, p.task[p.task[o].parentTask].rData)
  ELSE p

(* What a lookup of the region of a task reads.                             *)
LEMMA BindTypes ==
  ASSUME NEW p, ProfileOK(p), NEW o \in TaskObj
  PROVE  /\ p.task[o].codePtr \in Code
         /\ p.task[o].Type = "explicit" =>
              /\ p.task[o].parentTask \in TaskObj
              /\ p.task[p.task[o].parentTask].rData \in DOMAIN p.exc \cup {NoRegion}
<1>1. p.task[o].codePtr \in Code
  BY DEF ProfileOK, Task, Code
<1>2. QED
  BY <1>1 DEF ProfileOK

(* In any program a lookup binds a task to a region that exists.           *)
LEMMA BindMeasures ==
  ASSUME NEW p, ProfileOK(p), NEW t \in Thread, NEW o \in TaskObj
  PROVE  Measures(p, Bind(p, t, o))
<1> DEFINE q == Bind(p, t, o)
<1>1. CASE p.task[o].Type # "explicit"
  BY <1>1 DEF Bind, Measures, OnlyRegion
<1>2. CASE p.task[o].Type = "explicit"
  <2> DEFINE c == p.task[o].codePtr
             r == p.task[p.task[o].parentTask].rData
  <2>1. c \in Code /\ r \in DOMAIN p.exc \cup {NoRegion}
    BY <1>2, BindTypes
  <2>2. q = BindRegion(p, t, o, c, r)
    BY <1>2 DEF Bind
  <2> HIDE DEF q, c, r
  <2>3. /\ ProfileOK(q) /\ q.active = p.active /\ OnlyRegion(p.task[o], q.task[o])
        /\ \A x \in TaskObj \ {o} : q.task[x] = p.task[x]
    BY <2>1, <2>2, BindOK
  <2>4. Measures(p, q)
    BY <2>3 DEF Measures, OnlyRegion
  <2>5. QED
    BY <2>4 DEF q
<1>3. QED
  BY <1>1, <1>2

(* In a well-structured one it settles the task, and changes nothing if the *)
(* task is settled.                                                        *)
LEMMA BindCall ==
  ASSUME NEW p, ProfileOK(p), NEW t \in Thread, NEW o \in TaskObj, Ready(p, t, o)
  PROVE  Call(p, Bind(p, t, o), t, o) /\ Settled(Bind(p, t, o), t, o)
<1> DEFINE q == Bind(p, t, o)
<1>1. CASE p.task[o].Type # "explicit"
  BY <1>1 DEF Bind, Call, Frame, OnlyRegion, Settled, Ready
<1>2. CASE p.task[o].Type = "explicit"
  <2> DEFINE c == p.task[o].codePtr
             x == p.task[o].parentTask
             r == p.task[x].rData
  <2>1. c \in Code /\ r \in DOMAIN p.exc \cup {NoRegion} /\ x \in TaskObj /\ x # o
    BY <1>2, BindTypes DEF Ready
  <2>2. q = BindRegion(p, t, o, c, r)
    BY <1>2 DEF Bind
  <2> HIDE DEF q, c, r
  <2>3. /\ ProfileOK(q)
        /\ q.active = p.active /\ q.flat = p.flat /\ q.failure = p.failure
        /\ q.stale = p.stale /\ q.now = p.now
        /\ DOMAIN p.regions \subseteq DOMAIN q.regions
        /\ \A i \in DOMAIN p.regions : q.regions[i] = p.regions[i]
        /\ \A y \in TaskObj \ {o} : q.task[y] = p.task[y]
        /\ OnlyRegion(p.task[o], q.task[o])
        /\ q.task[o].rData \in Region /\ q.task[o].rData.thread = t
        /\ q.task[o].rData.id \in DOMAIN q.regions
        /\ q.regions[q.task[o].rData.id] = Key(p, c, r)
        /\ DOMAIN q.exc = DOMAIN p.exc \cup {q.task[o].rData}
        /\ \A s \in DOMAIN p.exc : q.exc[s] = p.exc[s] /\ q.inc[s] = p.inc[s]
    BY <2>1, <2>2, BindOK
  <2>4. Frame(p, q, t, {o})
    BY <2>3 DEF Frame
  <2>5. Key(q, c, r) = Key(p, c, r)
    BY <2>1, <2>3, KeyStable
  <2>6. /\ q.task[o].codePtr = c /\ q.task[o].parentTask = x /\ q.task[x].rData = r
        /\ q.task[o].Type = "explicit"
    BY <1>2, <2>1, <2>3 DEF OnlyRegion, c, r
  <2>7. Settled(q, t, o)
    BY <2>3, <2>5, <2>6 DEF Settled, KeyHolds, Bound
  <2>8. ASSUME Settled(p, t, o) PROVE q.task[o].rData = p.task[o].rData
    <3>1. /\ p.task[o].rData \in DOMAIN p.exc /\ p.task[o].rData.thread = t
          /\ p.regions[p.task[o].rData.id] = Key(p, c, r)
      BY <1>2, <2>8 DEF Settled, Bound, KeyHolds, c, r
    <3>2. p.task[o].rData \in Region /\ p.task[o].rData.id \in DOMAIN p.regions
      BY <3>1 DEF ProfileOK
    <3>3. q.regions[p.task[o].rData.id] = Key(p, c, r)
          /\ p.task[o].rData.id \in DOMAIN q.regions
      BY <2>3, <3>1, <3>2
    <3>4. p.task[o].rData.id = q.task[o].rData.id
      BY <2>3, <3>3 DEF ProfileOK
    <3>5. QED
      BY <2>3, <3>1, <3>2, <3>4 DEF Region
  <2>9. Call(p, q, t, o)
    BY <2>3, <2>4, <2>8 DEF Call
  <2>10. QED
    BY <2>7, <2>9 DEF q
<1>3. QED
  BY <1>1, <1>2

(* In any program, starts and stops are measurements.                      *)
LEMMA MeasuresChain ==
  ASSUME NEW p, NEW q, NEW r, Measures(p, q), Measures(q, r)
  PROVE  Measures(p, r)
BY DEF Measures, OnlyRegion

(* Counting changes measurements only.                                      *)
LEMMA CountMeasures ==
  ASSUME NEW p, ProfileOK(p), NEW t \in Thread, NEW o \in TaskObj,
         NEW kind \in {"exc", "inc"}, NEW n \in {1, -1}
  PROVE  Measures(p, Count(p, kind, t, o, n))
<1> DEFINE r == IF p.task[o].Type = "undeferred" THEN NoRegion ELSE p.task[o].rData
<1>1. r \in DOMAIN p.exc \cup {NoRegion}
  BY DEF ProfileOK
<1>2. Count(p, kind, t, o, n) \in {p, CountRegion(p, kind, t, r, n)}
  BY DEF Count
<1> HIDE DEF r
<1>3. Measures(p, CountRegion(p, kind, t, r, n))
  BY <1>1, CountRegionAny DEF Measures, OnlyRegion
<1>4. Measures(p, p)
  BY DEF Measures, OnlyRegion
<1>5. QED
  BY <1>2, <1>3, <1>4

(* A start changes measurements and regions only.                           *)
LEMMA StartMeasures ==
  ASSUME NEW p, ProfileOK(p), NEW t \in Thread, NEW o \in TaskObj, NEW kind \in {"exc", "inc"}
  PROVE  Measures(p, Start(p, kind, t, o))
<1> DEFINE b == Bind(p, t, o)
<1>1. Start(p, kind, t, o) = Count(b, kind, t, o, 1)
  BY DEF Start, Bind
<1>2. Measures(p, b)
  BY BindMeasures
<1> HIDE DEF b
<1>3. Measures(b, Count(b, kind, t, o, 1))
  BY <1>2, CountMeasures DEF Measures
<1>4. QED
  BY <1>1, <1>2, <1>3, MeasuresChain

(* A stop changes measurements and regions only.                            *)
LEMMA StopMeasures ==
  ASSUME NEW p, ProfileOK(p), NEW t \in Thread, NEW o \in TaskObj, NEW kind \in {"exc", "inc"}
  PROVE  Measures(p, Stop(p, kind, t, o))
BY CountMeasures DEF Stop

(* A task that is ready is counted under its region.                       *)
LEMMA CountReady ==
  ASSUME NEW p, NEW t, NEW o, Ready(p, t, o), NEW kind, NEW n
  PROVE  Count(p, kind, t, o, n) = CountRegion(p, kind, t, p.task[o].rData, n)
BY DEF Count, Ready

(* Ready after a call of the same task.                                    *)
LEMMA ReadyCall ==
  ASSUME NEW p, NEW q, NEW t, NEW o \in TaskObj, Ready(p, t, o), Call(p, q, t, o),
         Settled(q, t, o)
  PROVE  Ready(q, t, o)
BY DEF Ready, Call, OnlyRegion, Settled

(* startExclusive, startInclusive                                          *)
LEMMA StartCall ==
  ASSUME NEW p, ProfileOK(p), NEW t \in Thread, t \in p.now, NEW o \in TaskObj, Ready(p, t, o),
         NEW kind \in {"exc", "inc"}
  PROVE  LET q == Start(p, kind, t, o) IN
         Call(p, q, t, o) /\ Settled(q, t, o) /\ Ready(q, t, o)
<1> DEFINE b == Bind(p, t, o)
           q == CountRegion(b, kind, t, b.task[o].rData, 1)
<1>1. Call(p, b, t, o) /\ Settled(b, t, o)
  BY BindCall
<1>2. Ready(b, t, o)
  <2> HIDE DEF b
  <2>1. QED
    BY <1>1, ReadyCall
<1>3. Start(p, kind, t, o) = q
  <2>1. Start(p, kind, t, o) = Count(b, kind, t, o, 1)
    BY DEF Start, Bind
  <2> HIDE DEF b
  <2>2. QED
    BY <1>2, <2>1, CountReady
<1> HIDE DEF b
<1>4. Call(b, q, t, o) /\ q.task = b.task /\ DOMAIN q.exc = DOMAIN b.exc
  <2>1. ProfileOK(b) /\ t \in b.now /\ Bound(b, t, o)
    BY <1>1 DEF Call, Settled
  <2>2. QED
    BY <2>1, CountCall
<1> HIDE DEF q
<1>5. Call(p, q, t, o)
  <2>1. p.task[o].Type = "explicit" => p.task[o].parentTask # o
    BY DEF Ready
  <2>2. QED
    BY <1>1, <1>4, <2>1, CallChain
<1>6. Settled(q, t, o)
  <2>1. Bound(q, t, o)
    BY <1>1, <1>4 DEF Settled, Bound
  <2>2. ASSUME q.task[o].Type = "explicit" PROVE KeyHolds(q, o)
    <3>1. b.task[o].Type = "explicit" /\ KeyHolds(b, o) /\ ProfileOK(b) /\ ProfileOK(q)
          /\ b.task[o].rData \in DOMAIN b.exc
      BY <1>1, <1>4, <2>2 DEF Settled, Bound, Call
    <3>2. b.task[o].parentTask \in TaskObj
      BY <3>1 DEF ProfileOK
    <3>3. /\ Frame(b, q, t, {o}) /\ q.task[o].codePtr = b.task[o].codePtr
          /\ q.task[o].parentTask = b.task[o].parentTask
      BY <1>4 DEF Call, OnlyRegion
    <3>4. QED
      BY <1>4, <3>1, <3>2, <3>3, KeyHoldsStable
  <2>3. QED
    BY <2>1, <2>2 DEF Settled
<1>7. Ready(q, t, o)
  BY <1>5, <1>6, ReadyCall
<1>8. QED
  BY <1>3, <1>5, <1>6, <1>7

(* The books after the lookup of a start.                                  *)
LEMMA StartBindBooks ==
  ASSUME NEW p, ProfileOK(p), NEW t \in Thread, NEW o \in TaskObj, Ready(p, t, o),
         NEW e, NEW S, NEW N \in [Region -> Nat], Books(p, t, e, S, N),
         Settled(p, t, o) \/ (o \notin S /\ o # e)
  PROVE  Books(Bind(p, t, o), t, e, S, N)
<1>1. CASE p.task[o].Type # "explicit"
  BY <1>1 DEF Bind
<1>2. CASE p.task[o].Type = "explicit"
  <2> DEFINE c == p.task[o].codePtr
             r == p.task[p.task[o].parentTask].rData
  <2>1. c \in Code /\ r \in DOMAIN p.exc \cup {NoRegion}
    BY <1>2, BindTypes
  <2>2. Bind(p, t, o) = BindRegion(p, t, o, c, r)
    BY <1>2 DEF Bind
  <2>3. Settled(p, t, o) => Bind(p, t, o).task[o].rData = p.task[o].rData
    BY BindCall DEF Call
  <2> HIDE DEF c, r
  <2>4. Books(BindRegion(p, t, o, c, r), t, e, S, N)
    BY <2>1, <2>2, <2>3, BindBooks
  <2>5. QED
    BY <2>2, <2>4
<1>3. QED
  BY <1>1, <1>2

(* startExclusive of a task while no other is measured exclusively.         *)
LEMMA StartExc ==
  ASSUME NEW p, ProfileOK(p), NEW t \in Thread, NEW o \in TaskObj, Ready(p, t, o),
         NEW S, NEW N \in [Region -> Nat], Books(p, t, NoTask, S, N),
         Settled(p, t, o) \/ o \notin S
  PROVE  Books(Start(p, "exc", t, o), t, o, S, N)
<1> DEFINE b == Bind(p, t, o)
<1>1. Call(p, b, t, o) /\ Settled(b, t, o)
  BY BindCall
<1>2. Books(b, t, NoTask, S, N)
  <2>1. o # NoTask
    BY TaskProfileAssumption
  <2>2. QED
    BY <2>1, StartBindBooks
<1>3. Start(p, "exc", t, o) = Count(b, "exc", t, o, 1)
  BY DEF Start, Bind
<1> HIDE DEF b
<1>4. Ready(b, t, o)
  BY <1>1, ReadyCall
<1>5. Start(p, "exc", t, o) = CountRegion(b, "exc", t, b.task[o].rData, 1)
  BY <1>3, <1>4, CountReady
<1>6. ProfileOK(b) /\ Bound(b, t, o)
  BY <1>1 DEF Call, Settled
<1>7. QED
  BY <1>2, <1>5, <1>6, ExcStart

(* startInclusive of a task that is not measured inclusively yet.           *)
LEMMA StartInc ==
  ASSUME NEW p, ProfileOK(p), NEW t \in Thread, NEW o \in TaskObj, Ready(p, t, o),
         NEW e, NEW S, NEW N \in [Region -> Nat], Books(p, t, e, S, N), o \notin S,
         Settled(p, t, o) \/ o # e
  PROVE  Books(Start(p, "inc", t, o), t, e, S \cup {o}, N)
<1> DEFINE b == Bind(p, t, o)
<1>1. Call(p, b, t, o) /\ Settled(b, t, o)
  BY BindCall
<1>2. Books(b, t, e, S, N)
  BY StartBindBooks
<1>3. Start(p, "inc", t, o) = Count(b, "inc", t, o, 1)
  BY DEF Start, Bind
<1> HIDE DEF b
<1>4. Ready(b, t, o)
  BY <1>1, ReadyCall
<1>5. Start(p, "inc", t, o) = CountRegion(b, "inc", t, b.task[o].rData, 1)
  BY <1>3, <1>4, CountReady
<1>6. ProfileOK(b) /\ Bound(b, t, o)
  BY <1>1 DEF Call, Settled
<1>7. QED
  BY <1>2, <1>5, <1>6, IncStart

(* stopExclusive, stopInclusive                                            *)
LEMMA StopCall ==
  ASSUME NEW p, ProfileOK(p), NEW t \in Thread, t \in p.now, NEW o \in TaskObj, Ready(p, t, o),
         Bound(p, t, o), NEW kind \in {"exc", "inc"}
  PROVE  LET q == Stop(p, kind, t, o) IN
         Call(p, q, t, o) /\ q.task = p.task /\ DOMAIN q.exc = DOMAIN p.exc /\ Ready(q, t, o)
<1> DEFINE q == CountRegion(p, kind, t, p.task[o].rData, -1)
<1>1. Stop(p, kind, t, o) = q
  BY CountReady DEF Stop
<1>2. Call(p, q, t, o) /\ q.task = p.task /\ DOMAIN q.exc = DOMAIN p.exc
  BY CountCall
<1> HIDE DEF q
<1>3. Ready(q, t, o)
  BY <1>2 DEF Ready, Bound, Call
<1>4. QED
  BY <1>1, <1>2, <1>3

(* stopExclusive of the task that is measured exclusively.                  *)
LEMMA StopExc ==
  ASSUME NEW p, ProfileOK(p), NEW t \in Thread, NEW o \in TaskObj, Ready(p, t, o),
         NEW S, NEW N \in [Region -> Nat], Books(p, t, o, S, N)
  PROVE  Books(Stop(p, "exc", t, o), t, NoTask, S, N)
<1>1. Bound(p, t, o)
  BY DEF Books
<1>2. Stop(p, "exc", t, o) = CountRegion(p, "exc", t, p.task[o].rData, -1)
  BY CountReady DEF Stop
<1>3. QED
  BY <1>1, <1>2, ExcStop

(* stopInclusive of a task that is measured inclusively.                    *)
LEMMA StopInc ==
  ASSUME NEW p, ProfileOK(p), NEW t \in Thread, NEW o \in TaskObj, Ready(p, t, o),
         NEW e, NEW S, NEW N \in [Region -> Nat], Books(p, t, e, S, N), o \in S
  PROVE  Books(Stop(p, "inc", t, o), t, e, S \ {o}, N)
<1>1. Bound(p, t, o)
  BY DEF Books
<1>2. Stop(p, "inc", t, o) = CountRegion(p, "inc", t, p.task[o].rData, -1)
  BY CountReady DEF Stop
<1>3. QED
  BY <1>1, <1>2, IncStop

-----------------------------------------------------------------------------
(* Handlers in any program *)

(* Task objects outside of O keep their kind.                              *)
Kinds(p, q, O) ==
  /\ ProfileOK(q)
  /\ \A x \in TaskObj \ O : q.task[x].Type = p.task[x].Type

(* What changes measurements only changes no kind of task.                  *)
LEMMA MeasuresKinds ==
  ASSUME NEW p, NEW q, Measures(p, q)
  PROVE  Kinds(p, q, {}) /\ \A x \in TaskObj : q.task[x].Type = p.task[x].Type
BY DEF Measures, Kinds, OnlyRegion

(* Taking a measurement changes no task.                                    *)
LEMMA TakeMeasures ==
  ASSUME NEW p, ProfileOK(p), NEW t \in Thread
  PROVE  Measures(p, Take(p, t)) /\ Take(p, t).now = p.now \cup {t}
<1> DEFINE now == p.now \cup {t}
<1>1. now \in SUBSET Thread
  BY DEF ProfileOK
<1>2. Take(p, t) = [p EXCEPT !.now = now]
  BY DEF Take
<1> HIDE DEF now
<1>3. Measures(p, Take(p, t)) /\ Take(p, t).now = now
  BY <1>1, <1>2, TakeOK DEF Measures, OnlyRegion
<1>4. QED
  BY <1>3 DEF now

(* Starting both times changes measurements and regions only.               *)
LEMMA StartBothMeasures ==
  ASSUME NEW p, ProfileOK(p), NEW t \in Thread, NEW o \in TaskObj
  PROVE  Measures(p, StartBoth(p, t, o))
<1> DEFINE q == Start(p, "exc", t, o)
<1>1. Measures(p, q)
  BY StartMeasures
<1> HIDE DEF q
<1>2. Measures(q, Start(q, "inc", t, o))
  BY <1>1, StartMeasures DEF Measures
<1>3. QED
  BY <1>1, <1>2, MeasuresChain DEF StartBoth, q

(* Stopping both times changes measurements and regions only.               *)
LEMMA StopBothMeasures ==
  ASSUME NEW p, ProfileOK(p), NEW t \in Thread, NEW o \in TaskObj
  PROVE  Measures(p, StopBoth(p, t, o))
<1> DEFINE q == Stop(p, "exc", t, o)
<1>1. Measures(p, q)
  BY StopMeasures
<1> HIDE DEF q
<1>2. Measures(q, Stop(q, "inc", t, o))
  BY <1>1, StopMeasures DEF Measures
<1>3. QED
  BY <1>1, <1>2, MeasuresChain DEF StopBoth, q

(* Writes to the flags of one task.                                        *)
LEMMA FlagOK ==
  ASSUME NEW p, ProfileOK(p), NEW o \in TaskObj, NEW b \in BOOLEAN
  PROVE  /\ LET q == [p EXCEPT !.task[o].isStarted = b] IN
            /\ q = [p EXCEPT !.task[o] = [p.task[o] EXCEPT !.isStarted = b]]
            /\ [p.task[o] EXCEPT !.isStarted = b] \in Task
         /\ LET q == [p EXCEPT !.task[o].inBarrier = b] IN
            /\ q = [p EXCEPT !.task[o] = [p.task[o] EXCEPT !.inBarrier = b]]
            /\ [p.task[o] EXCEPT !.inBarrier = b] \in Task
         /\ p.task[o] \in Task
         /\ p.task[o].rData \in DOMAIN p.exc \cup {NoRegion}
         /\ p.task[o].Type = "explicit" => p.task[o].parentTask \in TaskObj
<1>1. p.task[o] \in Task
  BY DEF ProfileOK
<1>2. /\ [p.task[o] EXCEPT !.isStarted = b] \in Task
      /\ [p.task[o] EXCEPT !.inBarrier = b] \in Task
  BY <1>1 DEF Task
<1>3. /\ p.task[o].rData \in DOMAIN p.exc \cup {NoRegion}
      /\ p.task[o].Type = "explicit" => p.task[o].parentTask \in TaskObj
  BY DEF ProfileOK
<1>4. QED
  BY <1>1, <1>2, <1>3

(* The flags of a task are no part of what a region is measured for.       *)
SameButFlags(x, y) ==
  /\ y.Type = x.Type /\ y.codePtr = x.codePtr /\ y.parentTask = x.parentTask
  /\ y.profilingActive = x.profilingActive /\ y.rData = x.rData

(* Nothing of the profile is different but task o, and o but in its flags. *)
FlagsOnly(p, q, o) ==
  /\ ProfileOK(q)
  /\ q.active = p.active /\ q.flat = p.flat /\ q.regions = p.regions
  /\ q.failure = p.failure /\ q.exc = p.exc /\ q.inc = p.inc
  /\ q.stale = p.stale /\ q.now = p.now
  /\ SameButFlags(p.task[o], q.task[o])
  /\ \A y \in TaskObj \ {o} : q.task[y] = p.task[y]

(* Setting isStarted changes one flag of one task.                          *)
LEMMA StartedFlag ==
  ASSUME NEW p, ProfileOK(p), NEW o \in TaskObj
  PROVE  LET q == [p EXCEPT !.task[o].isStarted = TRUE] IN
         /\ FlagsOnly(p, q, o)
         /\ q.task[o].isStarted /\ q.task[o].inBarrier = p.task[o].inBarrier
<1> DEFINE x == [p.task[o] EXCEPT !.isStarted = TRUE]
           q == [p EXCEPT !.task[o] = x]
<1>1. /\ p.task[o] \in Task /\ x \in Task /\ [p EXCEPT !.task[o].isStarted = TRUE] = q
      /\ p.task[o].rData \in DOMAIN p.exc \cup {NoRegion}
      /\ p.task[o].Type = "explicit" => p.task[o].parentTask \in TaskObj
  BY FlagOK
<1>2. /\ SameButFlags(p.task[o], x) /\ x.isStarted /\ x.inBarrier = p.task[o].inBarrier
  BY <1>1 DEF Task, SameButFlags
<1> HIDE DEF x
<1>3. x.rData \in DOMAIN p.exc \cup {NoRegion} /\ (x.Type = "explicit" => x.parentTask \in TaskObj)
  BY <1>1, <1>2 DEF SameButFlags
<1>4. /\ ProfileOK(q)
      /\ q.active = p.active /\ q.flat = p.flat /\ q.regions = p.regions
      /\ q.failure = p.failure /\ q.exc = p.exc /\ q.inc = p.inc
      /\ q.stale = p.stale /\ q.now = p.now
      /\ q.task[o] = x /\ \A y \in TaskObj \ {o} : q.task[y] = p.task[y]
  BY <1>1, <1>3, TaskOK
<1> HIDE DEF q
<1>5. QED
  BY <1>1, <1>2, <1>4 DEF FlagsOnly

(* Setting inBarrier changes one flag of one task.                          *)
LEMMA BarrierFlag ==
  ASSUME NEW p, ProfileOK(p), NEW o \in TaskObj, NEW b \in BOOLEAN
  PROVE  LET q == [p EXCEPT !.task[o].inBarrier = b] IN
         /\ FlagsOnly(p, q, o)
         /\ q.task[o].inBarrier = b /\ q.task[o].isStarted = p.task[o].isStarted
<1> DEFINE x == [p.task[o] EXCEPT !.inBarrier = b]
           q == [p EXCEPT !.task[o] = x]
<1>1. /\ p.task[o] \in Task /\ x \in Task /\ [p EXCEPT !.task[o].inBarrier = b] = q
      /\ p.task[o].rData \in DOMAIN p.exc \cup {NoRegion}
      /\ p.task[o].Type = "explicit" => p.task[o].parentTask \in TaskObj
  BY FlagOK
<1>2. /\ SameButFlags(p.task[o], x) /\ x.inBarrier = b /\ x.isStarted = p.task[o].isStarted
  BY <1>1 DEF Task, SameButFlags
<1> HIDE DEF x
<1>3. x.rData \in DOMAIN p.exc \cup {NoRegion} /\ (x.Type = "explicit" => x.parentTask \in TaskObj)
  BY <1>1, <1>2 DEF SameButFlags
<1>4. /\ ProfileOK(q)
      /\ q.active = p.active /\ q.flat = p.flat /\ q.regions = p.regions
      /\ q.failure = p.failure /\ q.exc = p.exc /\ q.inc = p.inc
      /\ q.stale = p.stale /\ q.now = p.now
      /\ q.task[o] = x /\ \A y \in TaskObj \ {o} : q.task[y] = p.task[y]
  BY <1>1, <1>3, TaskOK
<1> HIDE DEF q
<1>5. QED
  BY <1>1, <1>2, <1>4 DEF FlagsOnly

(* TaskData::Reset                                                         *)
LEMMA ResetOK ==
  ASSUME NEW p, ProfileOK(p), NEW o \in TaskObj
  PROVE  LET q == Reset(p, o) IN
         /\ ProfileOK(q)
         /\ q.active = p.active /\ q.flat = p.flat /\ q.regions = p.regions
         /\ q.failure = p.failure /\ q.exc = p.exc /\ q.inc = p.inc
         /\ q.stale = p.stale /\ q.now = p.now
         /\ q.task[o].Type = "none" /\ ~q.task[o].isStarted
         /\ q.task[o].inBarrier = p.task[o].inBarrier
         /\ \A y \in TaskObj \ {o} : q.task[y] = p.task[y]
<1> DEFINE x == [Blank EXCEPT !.inBarrier = p.task[o].inBarrier]
<1>1. p.task[o].inBarrier \in BOOLEAN
  BY DEF ProfileOK, Task
<1>2. /\ x \in Task /\ x.rData = NoRegion /\ x.Type = "none" /\ ~x.isStarted
      /\ x.inBarrier = p.task[o].inBarrier
  BY <1>1 DEF Blank, Task
<1>3. Reset(p, o) = [p EXCEPT !.task[o] = x]
  BY DEF Reset
<1> HIDE DEF x
<1>4. QED
  BY <1>2, <1>3, TaskOK

-----------------------------------------------------------------------------
(* The tasks that begin with implicit_task.                               *)
ImplicitType == {"initial", "implicit"}

(* The key of the region a task is bound to.                               *)
RegionKey(p, o) == p.regions[p.task[o].rData.id]

(* The beginning of an implicit task: the object as it is set up, before    *)
(* it is bound and measured.                                               *)
SetUp(p, o, type, data) ==
  [p EXCEPT !.task[o] = [@ EXCEPT !.Type = type, !.codePtr = data.codePtr,
                                  !.parentTask = data.parentTask,
                                  !.profilingActive = p.active]]

ParallelData == [codePtr : {ParCode}, parentTask : TaskObj] \cup {NoTeam}

ParentRegion(p, data) ==
  IF data.parentTask = NoTask THEN NoRegion ELSE p.task[data.parentTask].rData

BoundTask(p, t, o, type, data) ==
  BindRegion(SetUp(p, o, type, data), t, o, data.codePtr, ParentRegion(p, data))

(* q is p after object o was set up and bound to a region of thread t.     *)
SetsUp(p, q, t, o, type, data) ==
  LET x == q.task[o] IN
  /\ ProfileOK(q) /\ Frame(p, q, t, {o})
  /\ q.active = p.active /\ q.stale = p.stale /\ q.now = p.now
  /\ x.Type = type /\ x.codePtr = data.codePtr /\ x.parentTask = data.parentTask
  /\ x.profilingActive = p.active /\ x.isStarted = p.task[o].isStarted
  /\ x.inBarrier = p.task[o].inBarrier
  /\ Bound(q, t, o)
  /\ RegionKey(q, o) = Key(p, data.codePtr, ParentRegion(p, data))

(* What the data of a parallel region is.                                   *)
LEMMA ParallelDataType ==
  ASSUME NEW p, ProfileOK(p), NEW data \in ParallelData
  PROVE  /\ data.codePtr \in {ParCode, NoCode} /\ data.codePtr \in Code
         /\ data.parentTask \in TaskObj \cup {NoTask}
         /\ ParentRegion(p, data) \in DOMAIN p.exc \cup {NoRegion}
<1>1. data.codePtr \in {ParCode, NoCode} /\ data.parentTask \in TaskObj \cup {NoTask}
  BY DEF ParallelData, NoTeam
<1>2. ParentRegion(p, data) \in DOMAIN p.exc \cup {NoRegion}
  BY <1>1 DEF ParentRegion, ProfileOK
<1>3. QED
  BY <1>1, <1>2 DEF Code

(* A TaskData object that is set up for an implicit or initial task.        *)
LEMMA SetUpOK ==
  ASSUME NEW p, ProfileOK(p), NEW o \in TaskObj, NEW type \in ImplicitType,
         NEW data \in ParallelData
  PROVE  LET q == SetUp(p, o, type, data)
             x == q.task[o]
         IN
         /\ ProfileOK(q)
         /\ q.active = p.active /\ q.flat = p.flat /\ q.regions = p.regions
         /\ q.failure = p.failure /\ q.exc = p.exc /\ q.inc = p.inc
         /\ q.stale = p.stale /\ q.now = p.now
         /\ x.Type = type /\ x.codePtr = data.codePtr /\ x.parentTask = data.parentTask
         /\ x.profilingActive = p.active /\ x.isStarted = p.task[o].isStarted
         /\ x.inBarrier = p.task[o].inBarrier
         /\ \A y \in TaskObj \ {o} : q.task[y] = p.task[y]
<1> DEFINE x == [p.task[o] EXCEPT !.Type = type, !.codePtr = data.codePtr,
                                  !.parentTask = data.parentTask, !.profilingActive = p.active]
<1>1. /\ p.task[o] \in Task /\ p.active \in BOOLEAN
      /\ p.task[o].rData \in DOMAIN p.exc \cup {NoRegion}
  BY DEF ProfileOK
<1>2. data.codePtr \in {ParCode, NoCode} /\ data.parentTask \in TaskObj \cup {NoTask}
  BY ParallelDataType
<1>3. /\ x.Type = type /\ x.codePtr = data.codePtr /\ x.parentTask = data.parentTask
      /\ x.profilingActive = p.active /\ x.isStarted = p.task[o].isStarted
      /\ x.inBarrier = p.task[o].inBarrier /\ x.rData = p.task[o].rData
  BY <1>1 DEF Task
<1>4. x \in Task
  BY <1>1, <1>2 DEF Task, ImplicitType
<1>5. SetUp(p, o, type, data) = [p EXCEPT !.task[o] = x]
  BY DEF SetUp
<1> HIDE DEF x
<1>6. x.rData \in DOMAIN p.exc \cup {NoRegion} /\ (x.Type = "explicit" => x.parentTask \in TaskObj)
  BY <1>1, <1>3 DEF ImplicitType
<1>7. QED
  BY <1>3, <1>4, <1>5, <1>6, TaskOK

(* An implicit task has a region of its thread as soon as it is set up.     *)
LEMMA BoundTaskOK ==
  ASSUME NEW p, ProfileOK(p), NEW t \in Thread, NEW o \in TaskObj,
         NEW type \in ImplicitType, NEW data \in ParallelData
  PROVE  SetsUp(p, BoundTask(p, t, o, type, data), t, o, type, data)
<1> DEFINE s == SetUp(p, o, type, data)
           parent == ParentRegion(p, data)
           q == BoundTask(p, t, o, type, data)
<1>1. /\ ProfileOK(s)
      /\ s.active = p.active /\ s.flat = p.flat /\ s.regions = p.regions
      /\ s.failure = p.failure /\ s.exc = p.exc /\ s.inc = p.inc
      /\ s.stale = p.stale /\ s.now = p.now
      /\ s.task[o].Type = type /\ s.task[o].codePtr = data.codePtr
      /\ s.task[o].parentTask = data.parentTask
      /\ s.task[o].profilingActive = p.active /\ s.task[o].isStarted = p.task[o].isStarted
      /\ s.task[o].inBarrier = p.task[o].inBarrier
      /\ \A y \in TaskObj \ {o} : s.task[y] = p.task[y]
  BY SetUpOK
<1> HIDE DEF s
<1>2. data.codePtr \in Code /\ parent \in DOMAIN s.exc \cup {NoRegion}
  BY <1>1, ParallelDataType
<1>3. q = BindRegion(s, t, o, data.codePtr, parent)
  BY DEF BoundTask, s
<1>4. Key(s, data.codePtr, parent) = Key(p, data.codePtr, parent)
  <2> DEFINE c == data.codePtr
  <2>1. parent \in DOMAIN p.exc \cup {NoRegion}
    BY <1>1, <1>2
  <2> HIDE DEF parent, c
  <2>2. Key(s, c, parent) = Key(p, c, parent)
    BY <1>1, <2>1, KeyStable
  <2>3. QED
    BY <2>2 DEF c
<1> HIDE DEF parent, q
<1>5. /\ ProfileOK(q)
      /\ q.active = s.active /\ q.flat = s.flat /\ q.failure = s.failure
      /\ q.stale = s.stale /\ q.now = s.now
      /\ q.regions = IF Key(s, data.codePtr, parent) \in Range(s.regions) THEN s.regions
                     ELSE Append(s.regions, Key(s, data.codePtr, parent))
      /\ DOMAIN s.regions \subseteq DOMAIN q.regions
      /\ \A i \in DOMAIN s.regions : q.regions[i] = s.regions[i]
      /\ \A x \in TaskObj \ {o} : q.task[x] = s.task[x]
      /\ OnlyRegion(s.task[o], q.task[o])
      /\ q.task[o].rData \in Region /\ q.task[o].rData.thread = t
      /\ q.task[o].rData.id \in DOMAIN q.regions
      /\ q.regions[q.task[o].rData.id] = Key(s, data.codePtr, parent)
      /\ DOMAIN q.exc = DOMAIN s.exc \cup {q.task[o].rData}
      /\ \A r \in DOMAIN s.exc : q.exc[r] = s.exc[r] /\ q.inc[r] = s.inc[r]
  BY <1>1, <1>2, <1>3, BindOK
<1>6. Frame(p, q, t, {o})
  BY <1>1, <1>5 DEF Frame
<1>7. Bound(q, t, o)
  BY <1>5 DEF Bound
<1>8. QED
  BY <1>1, <1>4, <1>5, <1>6, <1>7 DEF SetsUp, OnlyRegion, RegionKey, q, parent

(* The begin of an implicit or initial task, part by part.                  *)
LEMMA ImplicitTaskBeginParts ==
  ASSUME NEW p, NEW t, NEW num, NEW o, NEW type, NEW data
  PROVE  LET bound == BoundTask(p, t, o, type, data)
             taken == IF num # 0 \/ type = "initial" THEN Take(bound, t) ELSE bound
         IN ImplicitTaskBegin(p, t, num, o, type, data) =
              IF ~p.active THEN bound
              ELSE [StartBoth(taken, t, o) EXCEPT !.task[o].isStarted = TRUE]
BY DEF ImplicitTaskBegin, BoundTask, SetUp, ParentRegion

(* The begin of an implicit or initial task makes one task of that kind.    *)
LEMMA ImplicitTaskBeginKinds ==
  ASSUME NEW p, ProfileOK(p), NEW t \in Thread, NEW num, NEW o \in TaskObj,
         NEW type \in ImplicitType, NEW data \in ParallelData
  PROVE  LET q == ImplicitTaskBegin(p, t, num, o, type, data) IN
         Kinds(p, q, {o}) /\ q.task[o].Type = type
<1> DEFINE b == BoundTask(p, t, o, type, data)
           k == IF num # 0 \/ type = "initial" THEN Take(b, t) ELSE b
           s == StartBoth(k, t, o)
           f == [s EXCEPT !.task[o].isStarted = TRUE]
           q == ImplicitTaskBegin(p, t, num, o, type, data)
<1>1. ProfileOK(b) /\ Kinds(p, b, {o}) /\ b.task[o].Type = type
  <2>1. SetsUp(p, b, t, o, type, data)
    BY BoundTaskOK
  <2> HIDE DEF b
  <2>2. QED
    BY <2>1 DEF SetsUp, Kinds, Frame
<1>2. q = IF ~p.active THEN b ELSE f
  BY ImplicitTaskBeginParts
<1> HIDE DEF b, q
<1>3. Measures(b, k)
  <2>1. Measures(b, Take(b, t)) /\ Measures(b, b)
    BY <1>1, TakeMeasures DEF Measures, OnlyRegion
  <2>2. QED
    BY <2>1
<1> HIDE DEF k
<1>4. Measures(b, s)
  <2>1. Measures(k, s)
    BY <1>3, StartBothMeasures DEF Measures
  <2>2. QED
    BY <1>3, <2>1, MeasuresChain
<1> HIDE DEF s
<1>5. FlagsOnly(s, f, o)
  BY <1>4, StartedFlag DEF Measures
<1> HIDE DEF f
<1>6. Kinds(p, f, {o}) /\ f.task[o].Type = type
  BY <1>1, <1>4, <1>5 DEF Kinds, Measures, OnlyRegion, FlagsOnly, SameButFlags
<1>7. QED
  BY <1>1, <1>2, <1>6 DEF q

(* The end of an implicit or initial task gives one object back.            *)
LEMMA ImplicitTaskEndKinds ==
  ASSUME NEW p, ProfileOK(p), NEW t \in Thread, NEW o \in TaskObj
  PROVE  LET q == ImplicitTaskEnd(p, t, o) IN
         Kinds(p, q, {o}) /\ q.task[o].Type = "none"
<1> DEFINE k == Take(p, t)
           s == IF p.task[o].profilingActive THEN StopBoth(k, t, o) ELSE p
<1>1. Measures(p, s)
  <2>1. Measures(p, k) /\ Measures(p, p)
    BY TakeMeasures DEF Measures, OnlyRegion
  <2> HIDE DEF k
  <2>2. Measures(k, StopBoth(k, t, o))
    BY <2>1, StopBothMeasures DEF Measures
  <2>3. Measures(p, StopBoth(k, t, o))
    BY <2>1, <2>2, MeasuresChain
  <2>4. QED
    BY <2>1, <2>3
<1>2. ImplicitTaskEnd(p, t, o) = Reset(s, o)
  BY DEF ImplicitTaskEnd
<1> HIDE DEF s
<1>3. QED
  BY <1>1, <1>2, ResetOK DEF Kinds, Measures, OnlyRegion

(* The begin of a parallel region makes and ends no task.                   *)
LEMMA ParallelBeginKinds ==
  ASSUME NEW p, ProfileOK(p), NEW t \in Thread, NEW o \in TaskObj
  PROVE  Kinds(p, ParallelBegin(p, t, o), {})
<1> DEFINE k == Take(p, t)
<1>1. Measures(p, k) /\ Measures(p, p)
  BY TakeMeasures DEF Measures, OnlyRegion
<1>2. ParallelBegin(p, t, o) \in {p, Stop(k, "exc", t, o)}
  BY DEF ParallelBegin
<1> HIDE DEF k
<1>3. Measures(k, Stop(k, "exc", t, o))
  BY <1>1, StopMeasures DEF Measures
<1>4. Measures(p, Stop(k, "exc", t, o))
  BY <1>1, <1>3, MeasuresChain
<1>5. QED
  BY <1>1, <1>2, <1>4, MeasuresKinds

(* The end of a parallel region makes and ends no task.                     *)
LEMMA ParallelEndKinds ==
  ASSUME NEW p, ProfileOK(p), NEW t \in Thread, NEW o \in TaskObj
  PROVE  Kinds(p, ParallelEnd(p, t, o), {})
<1>1. Measures(p, p)
  BY DEF Measures, OnlyRegion
<1>2. Measures(p, Start(p, "exc", t, o))
  BY StartMeasures
<1>3. QED
  BY <1>1, <1>2, MeasuresKinds DEF ParallelEnd

(* The begin and the end of a wait make and end no task.                    *)
LEMMA SyncRegionKinds ==
  ASSUME NEW p, ProfileOK(p), NEW t \in Thread, NEW o \in TaskObj
  PROVE  Kinds(p, SyncRegionBegin(p, t, o), {}) /\ Kinds(p, SyncRegionEnd(p, t, o), {})
<1> DEFINE k == Take(p, t)
           b == StopBoth(k, t, o)
           e == StartBoth(k, t, o)
<1>1. Measures(p, k) /\ Measures(p, p)
  BY TakeMeasures DEF Measures, OnlyRegion
<1> HIDE DEF k
<1>2. Measures(k, b) /\ Measures(k, e)
  BY <1>1, StopBothMeasures, StartBothMeasures DEF Measures
<1>3. Measures(p, b) /\ Measures(p, e)
  BY <1>1, <1>2, MeasuresChain
<1> HIDE DEF b, e
<1>4. /\ FlagsOnly(b, [b EXCEPT !.task[o].inBarrier = TRUE], o)
      /\ FlagsOnly(e, [e EXCEPT !.task[o].inBarrier = FALSE], o)
  BY <1>3, BarrierFlag DEF Measures
<1>5. /\ Kinds(p, [b EXCEPT !.task[o].inBarrier = TRUE], {})
      /\ Kinds(p, [e EXCEPT !.task[o].inBarrier = FALSE], {})
  BY <1>3, <1>4 DEF Kinds, Measures, OnlyRegion, FlagsOnly, SameButFlags
<1>6. Kinds(p, p, {})
  BY <1>1, MeasuresKinds
<1>7. /\ SyncRegionBegin(p, t, o) \in {p, [b EXCEPT !.task[o].inBarrier = TRUE]}
      /\ SyncRegionEnd(p, t, o) \in {p, [e EXCEPT !.task[o].inBarrier = FALSE]}
  BY DEF SyncRegionBegin, SyncRegionEnd, b, e, k
<1>8. QED
  BY <1>5, <1>6, <1>7

(* The kinds of tasks that task_create is for.                             *)
TaskType == {"explicit", "undeferred"}

(* The creation of a task makes one task of that kind.                      *)
LEMMA TaskCreateKinds ==
  ASSUME NEW p, ProfileOK(p), NEW o \in TaskObj, NEW type \in TaskType,
         NEW code \in TaskCode, NEW parent \in TaskObj
  PROVE  LET q == TaskCreate(p, o, type, code, parent) IN
         Kinds(p, q, {o}) /\ q.task[o].Type = type
<1> DEFINE u == [p.task[o] EXCEPT !.Type = "undeferred", !.profilingActive = FALSE]
           x == [p.task[o] EXCEPT !.Type = "explicit", !.codePtr = code, !.parentTask = parent,
                                  !.profilingActive = p.active]
<1>1. /\ p.task[o] \in Task /\ p.active \in BOOLEAN
      /\ p.task[o].rData \in DOMAIN p.exc \cup {NoRegion}
  BY DEF ProfileOK
<1>2. CASE type = "undeferred"
  <2>1. TaskCreate(p, o, type, code, parent) = [p EXCEPT !.task[o] = u]
    BY <1>2 DEF TaskCreate
  <2>2. u \in Task /\ u.Type = "undeferred" /\ u.rData \in DOMAIN p.exc \cup {NoRegion}
    BY <1>1 DEF Task
  <2> HIDE DEF u
  <2> DEFINE q == [p EXCEPT !.task[o] = u]
  <2>3. /\ ProfileOK(q) /\ q.task[o] = u
        /\ \A y \in TaskObj \ {o} : q.task[y] = p.task[y]
    BY <2>2, TaskOK
  <2>4. QED
    BY <1>2, <2>1, <2>2, <2>3 DEF Kinds
<1>3. CASE type = "explicit"
  <2>1. TaskCreate(p, o, type, code, parent) = [p EXCEPT !.task[o] = x]
    BY <1>3 DEF TaskCreate
  <2>2. /\ x \in Task /\ x.Type = "explicit" /\ x.parentTask = parent
        /\ x.rData \in DOMAIN p.exc \cup {NoRegion}
    BY <1>1 DEF Task
  <2> HIDE DEF x
  <2> DEFINE q == [p EXCEPT !.task[o] = x]
  <2>3. /\ ProfileOK(q) /\ q.task[o] = x
        /\ \A y \in TaskObj \ {o} : q.task[y] = p.task[y]
    BY <2>2, TaskOK
  <2>4. QED
    BY <1>3, <2>1, <2>2, <2>3 DEF Kinds
<1>4. QED
  BY <1>2, <1>3 DEF TaskType

(* Leaving and entering a task change measurements only.                    *)
LEMMA LeaveMeasures ==
  ASSUME NEW p, ProfileOK(p), NEW t \in Thread, NEW o \in TaskObj
  PROVE  Measures(p, Leave(p, t, o)) /\ Measures(p, Enter(p, t, o))
<1>1. Measures(p, p)
  BY DEF Measures, OnlyRegion
<1>2. /\ Measures(p, Start(p, "inc", t, o)) /\ Measures(p, Stop(p, "exc", t, o))
      /\ Measures(p, Stop(p, "inc", t, o)) /\ Measures(p, Start(p, "exc", t, o))
  BY StartMeasures, StopMeasures
<1>3. QED
  BY <1>1, <1>2 DEF Leave, Enter

(* Entering a task for the first time makes and ends no task.               *)
LEMMA FirstEnterKinds ==
  ASSUME NEW p, ProfileOK(p), NEW t \in Thread, NEW o \in TaskObj
  PROVE  Kinds(p, FirstEnter(p, t, o), {})
<1> DEFINE s == Start(p, "inc", t, o)
           q == [s EXCEPT !.task[o].isStarted = TRUE]
<1>1. Measures(p, s)
  BY StartMeasures
<1> HIDE DEF s
<1>2. FlagsOnly(s, q, o)
  BY <1>1, StartedFlag DEF Measures
<1>3. FirstEnter(p, t, o) \in {p, q}
  BY DEF FirstEnter, s
<1> HIDE DEF q
<1>4. Kinds(p, q, {})
  BY <1>1, <1>2 DEF Kinds, Measures, OnlyRegion, FlagsOnly, SameButFlags
<1>5. Kinds(p, p, {})
  BY DEF Kinds
<1>6. QED
  BY <1>3, <1>4, <1>5

(* Finishing a task gives its object back.                                  *)
LEMMA FinishKinds ==
  ASSUME NEW p, ProfileOK(p), NEW t \in Thread, NEW o \in TaskObj
  PROVE  Kinds(p, Finish(p, t, o), {o}) /\ Finish(p, t, o).task[o].Type = "none"
<1> DEFINE s == IF p.task[o].profilingActive THEN Stop(p, "inc", t, o) ELSE p
<1>1. Measures(p, s)
  <2>1. Measures(p, p)
    BY DEF Measures, OnlyRegion
  <2>2. QED
    BY <2>1, StopMeasures
<1>2. Finish(p, t, o) = Reset(s, o)
  BY DEF Finish
<1> HIDE DEF s
<1>3. QED
  BY <1>1, <1>2, ResetOK DEF Kinds, Measures, OnlyRegion

(* A scheduling event ends the task it completes and no other.              *)
LEMMA TaskScheduleKinds ==
  ASSUME NEW p, ProfileOK(p), NEW t \in Thread, NEW from \in TaskObj, NEW to \in TaskObj,
         NEW done \in BOOLEAN
  PROVE  LET q == TaskSchedule(p, t, from, to, done) IN
         /\ Kinds(p, q, {from})
         /\ q.task[from].Type \in {p.task[from].Type, "none"}
         /\ ~done => q.task[from].Type = p.task[from].Type
         /\ done /\ ~(Included(p, to) /\ ~Included(p, from)) => q.task[from].Type = "none"
<1> DEFINE measured == p.task[to].profilingActive \/ p.task[from].profilingActive
           k == IF measured THEN Take(p, t) ELSE p
           l == Leave(k, t, from)
           e == Enter(l, t, to)
           f == FirstEnter(e, t, to)
           n == Finish(f, t, from)
           q == TaskSchedule(p, t, from, to, done)
<1>1. Measures(p, k)
  BY TakeMeasures DEF Measures, OnlyRegion
<1>2. Measures(p, e)
  <2> HIDE DEF k
  <2>1. Measures(k, l)
    BY <1>1, LeaveMeasures DEF Measures
  <2> HIDE DEF l
  <2>2. Measures(l, e)
    BY <2>1, LeaveMeasures DEF Measures
  <2> HIDE DEF e
  <2>3. QED
    BY <1>1, <2>1, <2>2, MeasuresChain
<1>3. q = IF Included(p, to) \/ Included(p, from)
          THEN IF done /\ Included(p, from) THEN Reset(p, from) ELSE p
          ELSE IF done THEN n ELSE f
  BY DEF TaskSchedule
<1> HIDE DEF e, q
<1>4. Kinds(e, f, {})
  BY <1>2, FirstEnterKinds DEF Measures
<1> HIDE DEF f
<1>5. Kinds(f, n, {from}) /\ n.task[from].Type = "none"
  BY <1>4, FinishKinds DEF Kinds
<1> HIDE DEF n
<1>6. \A x \in TaskObj : f.task[x].Type = p.task[x].Type
  BY <1>2, <1>4 DEF Kinds, Measures, OnlyRegion
<1>7. Kinds(p, f, {from}) /\ Kinds(p, n, {from})
  BY <1>4, <1>5, <1>6 DEF Kinds
<1>8. Kinds(p, p, {from})
  BY DEF Kinds
<1>9. Kinds(p, Reset(p, from), {from}) /\ Reset(p, from).task[from].Type = "none"
  BY ResetOK DEF Kinds
<1>10. QED
  BY <1>3, <1>5, <1>6, <1>7, <1>8, <1>9 DEF q

(* Starting or pausing the profiler makes and ends no task.                 *)
LEMMA ControlToolKinds ==
  ASSUME NEW p, ProfileOK(p), NEW t \in Thread, NEW o \in TaskObj, NEW on \in BOOLEAN
  PROVE  Kinds(p, ControlTool(p, t, o, on), {})
<1> DEFINE n == IF on THEN 1 ELSE -1
           r == p.task[o].rData
           a == [p EXCEPT !.active = on]
           k == Take(a, t)
           x == CountRegion(k, "exc", t, r, n)
           q == CountRegion(x, "inc", t, r, n)
<1>1. ProfileOK(a) /\ a.task = p.task /\ a.exc = p.exc
  BY ActiveOK
<1>2. r \in DOMAIN p.exc \cup {NoRegion} /\ n \in {1, -1}
  BY DEF ProfileOK
<1> HIDE DEF a
<1>3. ProfileOK(k) /\ k.task = p.task /\ k.exc = p.exc
  <2>1. a.now \cup {t} \in SUBSET Thread
    BY <1>1 DEF ProfileOK
  <2>2. QED
    BY <1>1, <2>1, TakeOK DEF Take
<1> HIDE DEF k, n, r
<1>4. ProfileOK(x) /\ x.task = p.task /\ DOMAIN x.exc = DOMAIN p.exc
  BY <1>2, <1>3, CountRegionAny
<1> HIDE DEF x
<1>5. ProfileOK(q) /\ q.task = p.task
  BY <1>2, <1>4, CountRegionAny
<1>6. ControlTool(p, t, o, on) \in {p, q}
  BY DEF ControlTool, q, x, k, a, n, r
<1> HIDE DEF q
<1>7. QED
  BY <1>5, <1>6 DEF Kinds

-----------------------------------------------------------------------------
(* Handlers in a well-structured program *)

(* A handler on thread t leaves everything alone but the tasks in O and the *)
(* measurements of its own thread, and uses no measurement of the past.    *)
Handler(p, q, t, O) ==
  /\ ProfileOK(q) /\ Frame(p, q, t, O)
  /\ q.active = p.active /\ q.stale = p.stale
  /\ p.now \subseteq q.now /\ q.now \subseteq p.now \cup {t}

(* A handler that does nothing touches nothing.                             *)
LEMMA HandlerNone ==
  ASSUME NEW p, ProfileOK(p), NEW t, NEW O
  PROVE  Handler(p, p, t, O)
BY DEF Handler, Frame

(* Two handlers in a row touch what the second may touch.                   *)
LEMMA HandlerChain ==
  ASSUME NEW p, NEW q, NEW r, NEW t, NEW O, NEW P, O \subseteq P,
         Handler(p, q, t, O), Handler(q, r, t, P)
  PROVE  Handler(p, r, t, P)
<1>1. Frame(p, r, t, P)
  BY FrameChain DEF Handler
<1>2. QED
  BY <1>1 DEF Handler

(* A handler may be allowed to touch more.                                  *)
LEMMA HandlerMore ==
  ASSUME NEW p, NEW q, NEW t, NEW O, NEW P, O \subseteq P, Handler(p, q, t, O)
  PROVE  Handler(p, q, t, P)
BY DEF Handler, Frame

(* A lookup for a task touches that task only.                              *)
LEMMA CallHandler ==
  ASSUME NEW p, NEW q, NEW t, NEW o, Call(p, q, t, o)
  PROVE  Handler(p, q, t, {o})
BY DEF Handler, Call

(* A call that changes no task.                                            *)
LEMMA CallNoTask ==
  ASSUME NEW p, NEW q, NEW t, NEW o, Call(p, q, t, o), q.task = p.task
  PROVE  Handler(p, q, t, {})
BY DEF Handler, Call, Frame

(* Taking a measurement touches no task and no measurement of a region.     *)
LEMMA TakeHandler ==
  ASSUME NEW p, ProfileOK(p), NEW t \in Thread
  PROVE  LET q == Take(p, t) IN
         /\ Handler(p, q, t, {}) /\ t \in q.now
         /\ q.active = p.active /\ q.flat = p.flat /\ q.regions = p.regions
         /\ q.task = p.task /\ q.exc = p.exc /\ q.inc = p.inc
<1> DEFINE now == p.now \cup {t}
           q == [p EXCEPT !.now = now]
<1>1. now \in SUBSET Thread
  BY DEF ProfileOK
<1>2. Take(p, t) = q
  BY DEF Take
<1> HIDE DEF now
<1>3. /\ ProfileOK(q)
      /\ q.active = p.active /\ q.flat = p.flat /\ q.regions = p.regions
      /\ q.failure = p.failure /\ q.task = p.task /\ q.exc = p.exc /\ q.inc = p.inc
      /\ q.stale = p.stale /\ q.now = now
  BY <1>1, TakeOK
<1> HIDE DEF q
<1>4. p.now \subseteq q.now /\ q.now \subseteq p.now \cup {t} /\ t \in q.now
  BY <1>3 DEF now
<1>5. Frame(p, q, t, {})
  BY <1>3 DEF Frame
<1>6. QED
  BY <1>2, <1>3, <1>4, <1>5 DEF Handler

(* Profiles with the same regions, tasks and measured regions agree on     *)
(* which tasks are ready and settled.                                      *)
LEMMA SameTasks ==
  ASSUME NEW p, NEW q, q.active = p.active, q.flat = p.flat, q.regions = p.regions,
         q.task = p.task, DOMAIN q.exc = DOMAIN p.exc, NEW t, NEW o
  PROVE  /\ Ready(q, t, o) <=> Ready(p, t, o)
         /\ Settled(q, t, o) <=> Settled(p, t, o)
BY DEF Ready, Settled, Bound, KeyHolds, Key, CallPathID

(* A call about other tasks leaves a task ready and settled.               *)
LEMMA OtherTask ==
  ASSUME NEW p, NEW q, ProfileOK(p), NEW t, NEW O, Handler(p, q, t, O), NEW o \in TaskObj \ O
  PROVE  /\ q.task[o] = p.task[o]
         /\ Ready(p, t, o) => Ready(q, t, o)
         /\ /\ Settled(p, t, o)
            /\ p.task[o].Type = "explicit" =>
                 q.task[p.task[o].parentTask].rData = p.task[p.task[o].parentTask].rData
            => Settled(q, t, o)
<1>1. q.task[o] = p.task[o] /\ DOMAIN p.exc \subseteq DOMAIN q.exc /\ q.active = p.active
  BY DEF Handler, Frame
<1>2. Bound(p, t, o) => Bound(q, t, o)
  BY <1>1 DEF Bound
<1>3. Ready(p, t, o) => Ready(q, t, o)
  BY <1>1, <1>2 DEF Ready
<1>4. ASSUME Settled(p, t, o), p.task[o].Type = "explicit",
             q.task[p.task[o].parentTask].rData = p.task[p.task[o].parentTask].rData
      PROVE  KeyHolds(q, o)
  <2>1. /\ ProfileOK(q) /\ Frame(p, q, t, O) /\ p.task[o].rData \in DOMAIN p.exc /\ KeyHolds(p, o)
        /\ q.task[o] = p.task[o]
    BY <1>1, <1>4 DEF Settled, Bound, Handler
  <2>2. p.task[o].parentTask \in TaskObj
    BY <1>4 DEF ProfileOK
  <2>3. QED
    BY <1>4, <2>1, <2>2, KeyHoldsStable
<1>5. QED
  BY <1>1, <1>2, <1>3, <1>4 DEF Settled

(* Books only look at regions of tasks.                                    *)
LEMMA BooksTasks ==
  ASSUME NEW p, NEW q, q.exc = p.exc, q.inc = p.inc,
         NEW t, NEW e, NEW S, NEW N, Books(p, t, e, S, N),
         \A x \in S \cup {e} : x \in TaskObj => q.task[x].rData = p.task[x].rData
  PROVE  Books(q, t, e, S, N)
<1>1. S \subseteq TaskObj
  BY DEF Books
<1>2. \A r : BoundTo(q.task, S, r) = BoundTo(p.task, S, r)
  BY <1>1 DEF BoundTo
<1>3. QED
  BY <1>1, <1>2 DEF Books, Bound

(* Setting flags of a task leaves the books as they are.                    *)
LEMMA FlagsHandler ==
  ASSUME NEW p, NEW q, NEW o \in TaskObj, FlagsOnly(p, q, o), NEW t
  PROVE  /\ Handler(p, q, t, {o})
         /\ \A e, S, N : Books(p, t, e, S, N) => Books(q, t, e, S, N)
<1>1. Handler(p, q, t, {o})
  BY DEF FlagsOnly, Handler, Frame
<1>2. ASSUME NEW e, NEW S, NEW N, Books(p, t, e, S, N) PROVE Books(q, t, e, S, N)
  <2>1. q.exc = p.exc /\ q.inc = p.inc /\ \A x \in TaskObj : q.task[x].rData = p.task[x].rData
    BY DEF FlagsOnly, SameButFlags
  <2>2. QED
    BY <1>2, <2>1, BooksTasks
<1>3. QED
  BY <1>1, <1>2

(* Both measurements of a task start, or stop.                             *)
LEMMA StartBothBooks ==
  ASSUME NEW p, ProfileOK(p), NEW t \in Thread, t \in p.now, NEW o \in TaskObj, Ready(p, t, o),
         NEW S, NEW N \in [Region -> Nat], Books(p, t, NoTask, S, N), o \notin S
  PROVE  LET q == StartBoth(p, t, o) IN
         Call(p, q, t, o) /\ Settled(q, t, o) /\ Books(q, t, o, S \cup {o}, N)
<1> DEFINE s == Start(p, "exc", t, o)
           q == Start(s, "inc", t, o)
<1>1. Call(p, s, t, o) /\ Settled(s, t, o) /\ Ready(s, t, o)
  BY StartCall
<1>2. Books(s, t, o, S, N)
  BY StartExc
<1> HIDE DEF s
<1>3. ProfileOK(s) /\ t \in s.now
  BY <1>1 DEF Call
<1>4. Call(s, q, t, o) /\ Settled(q, t, o)
  BY <1>1, <1>3, StartCall
<1>5. Books(q, t, o, S \cup {o}, N)
  BY <1>1, <1>2, <1>3, StartInc
<1>6. Call(p, q, t, o)
  <2>1. p.task[o].Type = "explicit" => p.task[o].parentTask # o
    BY DEF Ready
  <2> HIDE DEF q
  <2>2. QED
    BY <1>1, <1>4, <2>1, CallChain
<1>7. QED
  BY <1>4, <1>5, <1>6 DEF StartBoth, q, s

(* Stopping both times of the task that executes.                           *)
LEMMA StopBothBooks ==
  ASSUME NEW p, ProfileOK(p), NEW t \in Thread, t \in p.now, NEW o \in TaskObj, Ready(p, t, o),
         NEW S, NEW N \in [Region -> Nat], Books(p, t, o, S, N), o \in S
  PROVE  LET q == StopBoth(p, t, o) IN
         /\ Handler(p, q, t, {}) /\ q.task = p.task /\ q.now = p.now
         /\ Books(q, t, NoTask, S \ {o}, N)
<1> DEFINE s == Stop(p, "exc", t, o)
           q == Stop(s, "inc", t, o)
<1>1. Bound(p, t, o)
  BY DEF Books
<1>2. Call(p, s, t, o) /\ s.task = p.task /\ DOMAIN s.exc = DOMAIN p.exc /\ Ready(s, t, o)
  BY <1>1, StopCall
<1>3. Books(s, t, NoTask, S, N)
  BY StopExc
<1> HIDE DEF s
<1>4. ProfileOK(s) /\ t \in s.now /\ Bound(s, t, o) /\ s.now = p.now
  BY <1>1, <1>2 DEF Call, Bound
<1>5. Call(s, q, t, o) /\ q.task = s.task
  BY <1>2, <1>4, StopCall
<1>6. Books(q, t, NoTask, S \ {o}, N)
  BY <1>2, <1>3, <1>4, StopInc
<1> HIDE DEF q
<1>7. Handler(p, s, t, {}) /\ Handler(s, q, t, {})
  BY <1>2, <1>5, CallNoTask
<1>8. Handler(p, q, t, {})
  BY <1>7, HandlerChain
<1>9. q.now = p.now
  BY <1>4, <1>5 DEF Call
<1>10. QED
  BY <1>2, <1>5, <1>6, <1>8, <1>9 DEF StopBoth, q, s

(* Giving a TaskData object back that is not measured.                      *)
LEMMA ResetHandler ==
  ASSUME NEW p, ProfileOK(p), NEW t, NEW o \in TaskObj
  PROVE  LET q == Reset(p, o) IN
         /\ Handler(p, q, t, {o}) /\ q.now = p.now
         /\ q.task[o].Type = "none" /\ ~q.task[o].isStarted
         /\ q.task[o].inBarrier = p.task[o].inBarrier
         /\ \A e, S, N : Books(p, t, e, S, N) /\ o \notin S /\ o # e => Books(q, t, e, S, N)
<1> DEFINE q == Reset(p, o)
<1>1. /\ ProfileOK(q)
      /\ q.active = p.active /\ q.flat = p.flat /\ q.regions = p.regions
      /\ q.failure = p.failure /\ q.exc = p.exc /\ q.inc = p.inc
      /\ q.stale = p.stale /\ q.now = p.now
      /\ q.task[o].Type = "none" /\ ~q.task[o].isStarted
      /\ q.task[o].inBarrier = p.task[o].inBarrier
      /\ \A y \in TaskObj \ {o} : q.task[y] = p.task[y]
  BY ResetOK
<1> HIDE DEF q
<1>2. Handler(p, q, t, {o})
  BY <1>1 DEF Handler, Frame
<1>3. ASSUME NEW e, NEW S, NEW N, Books(p, t, e, S, N), o \notin S, o # e
      PROVE  Books(q, t, e, S, N)
  BY <1>1, <1>3, BooksTasks
<1>4. QED
  BY <1>1, <1>2, <1>3 DEF q

(* implicit_task, begin: an object that is in no books is entered in both, *)
(* unless the profiler is paused.                                          *)
LEMMA ImplicitTaskBeginBooks ==
  ASSUME NEW p, ProfileOK(p), NEW t \in Thread, NEW num, NEW o \in TaskObj,
         NEW type \in ImplicitType, NEW data \in ParallelData,
         p.active => num # 0 \/ type = "initial" \/ t \in p.now,
         ~p.task[o].isStarted, ~p.task[o].inBarrier,
         NEW S, NEW N \in [Region -> Nat], Books(p, t, NoTask, S, N), o \notin S
  PROVE  LET q == ImplicitTaskBegin(p, t, num, o, type, data)
             x == q.task[o]
         IN
         /\ Handler(p, q, t, {o})
         /\ x.Type = type /\ x.codePtr = data.codePtr /\ x.parentTask = data.parentTask
         /\ x.profilingActive = p.active /\ x.isStarted = p.active /\ ~x.inBarrier
         /\ Bound(q, t, o)
         /\ RegionKey(q, o) = Key(p, data.codePtr, ParentRegion(p, data))
         /\ p.active => Books(q, t, o, S \cup {o}, N)
         /\ ~p.active => Books(q, t, NoTask, S, N)
<1> DEFINE b == BoundTask(p, t, o, type, data)
           key == Key(p, data.codePtr, ParentRegion(p, data))
<1>1. /\ ProfileOK(b) /\ Frame(p, b, t, {o})
      /\ b.active = p.active /\ b.stale = p.stale /\ b.now = p.now
      /\ b.task[o].Type = type /\ b.task[o].codePtr = data.codePtr
      /\ b.task[o].parentTask = data.parentTask
      /\ b.task[o].profilingActive = p.active /\ b.task[o].isStarted = p.task[o].isStarted
      /\ b.task[o].inBarrier = p.task[o].inBarrier
      /\ Bound(b, t, o) /\ RegionKey(b, o) = key
  <2>1. SetsUp(p, b, t, o, type, data)
    BY BoundTaskOK
  <2> HIDE DEF b
  <2>2. QED
    BY <2>1 DEF SetsUp
<1> DEFINE k == IF num # 0 \/ type = "initial" THEN Take(b, t) ELSE b
           s == StartBoth(k, t, o)
           f == [s EXCEPT !.task[o].isStarted = TRUE]
           q == ImplicitTaskBegin(p, t, num, o, type, data)
<1>2. Handler(p, b, t, {o})
  BY <1>1 DEF Handler
<1>3. Books(b, t, NoTask, S, N)
  <2> DEFINE u == SetUp(p, o, type, data)
             c == data.codePtr
             r == ParentRegion(p, data)
  <2>1. /\ ProfileOK(u) /\ u.exc = p.exc /\ u.inc = p.inc
        /\ \A y \in TaskObj \ {o} : u.task[y] = p.task[y]
    BY SetUpOK
  <2>2. c \in Code /\ r \in DOMAIN p.exc \cup {NoRegion}
    BY ParallelDataType
  <2>3. b = BindRegion(u, t, o, c, r)
    BY DEF BoundTask
  <2> HIDE DEF u, b, c, r
  <2>4. NoTask \notin TaskObj /\ S \subseteq TaskObj
    BY TaskProfileAssumption DEF Books
  <2>5. Books(u, t, NoTask, S, N)
    BY <2>1, <2>4, BooksTasks
  <2>6. Books(BindRegion(u, t, o, c, r), t, NoTask, S, N)
    <3>1. o # NoTask
      BY <2>4
    <3>2. QED
      BY <2>1, <2>2, <2>5, <3>1, BindBooks
  <2>7. QED
    BY <2>3, <2>6
<1>4. q = IF ~p.active THEN b ELSE f
  BY ImplicitTaskBeginParts
<1> HIDE DEF b, q, key
<1>5. CASE ~p.active
  <2>1. q = b
    BY <1>4, <1>5
  <2>2. b.task[o] \in Task /\ p.task[o] \in Task /\ p.active \in BOOLEAN
    BY <1>1 DEF ProfileOK
  <2>3. b.task[o].isStarted = p.active /\ ~b.task[o].inBarrier
    BY <1>1, <1>5, <2>2 DEF Task
  <2>4. QED
    BY <1>1, <1>2, <1>3, <1>5, <2>1, <2>3 DEF q, key
<1>6. CASE p.active
  <2>1. /\ Handler(b, k, t, {}) /\ t \in k.now /\ ProfileOK(k)
        /\ k.active = b.active /\ k.flat = b.flat /\ k.regions = b.regions
        /\ k.task = b.task /\ k.exc = b.exc /\ k.inc = b.inc
    <3>1. CASE num # 0 \/ type = "initial"
      BY <1>1, <3>1, TakeHandler DEF Handler
    <3>2. CASE ~(num # 0 \/ type = "initial")
      BY <1>1, <1>6, <3>2, HandlerNone
    <3>3. QED
      BY <3>1, <3>2
  <2> HIDE DEF k
  <2>2. Ready(k, t, o) /\ Bound(k, t, o)
    BY <1>1, <1>6, <2>1 DEF Ready, Bound, ImplicitType
  <2>3. Books(k, t, NoTask, S, N)
    BY <1>3, <2>1, BooksSame
  <2>4. Call(k, s, t, o) /\ Settled(s, t, o) /\ Books(s, t, o, S \cup {o}, N)
    BY <2>1, <2>2, <2>3, StartBothBooks
  <2>5. s.task[o].rData = k.task[o].rData
    <3>1. k.task[o].Type = type
      BY <1>1, <2>1
    <3>2. Settled(k, t, o)
      BY <2>2, <3>1 DEF Settled, ImplicitType
    <3>3. QED
      BY <2>4, <3>2 DEF Call
  <2>6. s.regions[k.task[o].rData.id] = k.regions[k.task[o].rData.id]
    <3>1. k.task[o].rData.id \in DOMAIN k.regions
      BY <2>1, <2>2 DEF Bound, ProfileOK
    <3>2. QED
      BY <2>4, <3>1 DEF Call, Frame
  <2> HIDE DEF s
  <2>7. FlagsOnly(s, f, o) /\ f.task[o].isStarted /\ f.task[o].inBarrier = s.task[o].inBarrier
    BY <2>4, StartedFlag DEF Call
  <2> HIDE DEF f
  <2>8. Books(f, t, o, S \cup {o}, N) /\ Handler(s, f, t, {o})
    BY <2>4, <2>7, FlagsHandler
  <2>9. Handler(p, f, t, {o})
    <3>1. Handler(k, s, t, {o})
      BY <2>4, CallHandler
    <3>2. Handler(b, s, t, {o})
      BY <2>1, <3>1, HandlerChain
    <3>3. Handler(b, f, t, {o})
      BY <2>8, <3>2, HandlerChain
    <3>4. QED
      BY <1>2, <3>3, HandlerChain
  <2>10. /\ f.task[o].Type = type /\ f.task[o].codePtr = data.codePtr
         /\ f.task[o].parentTask = data.parentTask
         /\ f.task[o].profilingActive = p.active /\ ~f.task[o].inBarrier
         /\ f.task[o].rData = b.task[o].rData
    BY <1>1, <2>1, <2>4, <2>5, <2>7 DEF Call, OnlyRegion, FlagsOnly, SameButFlags
  <2>11. RegionKey(f, o) = key
    BY <1>1, <2>1, <2>6, <2>7, <2>10 DEF FlagsOnly, RegionKey
  <2>12. Bound(f, t, o)
    BY <2>4, <2>7 DEF Settled, Bound, FlagsOnly, SameButFlags
  <2>13. f.task[o].isStarted = p.active
    <3>1. f.task[o] \in Task /\ p.active \in BOOLEAN
      BY <2>7 DEF FlagsOnly, ProfileOK
    <3>2. f.task[o].isStarted \in BOOLEAN
      BY <3>1 DEF Task
    <3>3. QED
      BY <1>6, <2>7, <3>1, <3>2
  <2>14. QED
    BY <1>4, <1>6, <2>8, <2>9, <2>10, <2>11, <2>12, <2>13 DEF q, key
<1>7. QED
  BY <1>5, <1>6

(* implicit_task, end: the task leaves both books.                         *)
LEMMA ImplicitTaskEndBooks ==
  ASSUME NEW p, ProfileOK(p), NEW t \in Thread, NEW o \in TaskObj,
         p.task[o].profilingActive, Ready(p, t, o),
         NEW S, NEW N \in [Region -> Nat], Books(p, t, o, S, N), o \in S
  PROVE  LET q == ImplicitTaskEnd(p, t, o) IN
         /\ Handler(p, q, t, {o}) /\ t \in q.now
         /\ q.task[o].Type = "none" /\ ~q.task[o].isStarted
         /\ q.task[o].inBarrier = p.task[o].inBarrier
         /\ Books(q, t, NoTask, S \ {o}, N)
<1> DEFINE k == Take(p, t)
           s == StopBoth(k, t, o)
           q == Reset(s, o)
<1>1. ImplicitTaskEnd(p, t, o) = q
  BY DEF ImplicitTaskEnd
<1>2. /\ Handler(p, k, t, {}) /\ t \in k.now /\ ProfileOK(k)
      /\ k.active = p.active /\ k.flat = p.flat /\ k.regions = p.regions
      /\ k.task = p.task /\ k.exc = p.exc /\ k.inc = p.inc
  BY TakeHandler DEF Handler
<1> HIDE DEF k
<1>3. Ready(k, t, o)
  BY <1>2, SameTasks
<1>4. Books(k, t, o, S, N)
  BY <1>2, BooksSame
<1>5. /\ Handler(k, s, t, {}) /\ s.task = k.task /\ s.now = k.now
      /\ Books(s, t, NoTask, S \ {o}, N)
  BY <1>2, <1>3, <1>4, StopBothBooks
<1> HIDE DEF s
<1>6. /\ Handler(s, q, t, {o}) /\ q.now = s.now
      /\ q.task[o].Type = "none" /\ ~q.task[o].isStarted
      /\ q.task[o].inBarrier = s.task[o].inBarrier
      /\ Books(q, t, NoTask, S \ {o}, N)
  <2>1. ProfileOK(s) /\ o # NoTask
    BY <1>5, TaskProfileAssumption DEF Handler
  <2>2. QED
    BY <1>5, <2>1, ResetHandler
<1> HIDE DEF q
<1>7. Handler(p, q, t, {o})
  <2>1. Handler(k, q, t, {o})
    BY <1>5, <1>6, HandlerChain
  <2>2. QED
    BY <1>2, <2>1, HandlerChain
<1>8. QED
  BY <1>1, <1>2, <1>5, <1>6, <1>7

(* ... or was never in them: the profiler is paused.                       *)
LEMMA ImplicitTaskEndPaused ==
  ASSUME NEW p, ProfileOK(p), NEW t \in Thread, NEW o \in TaskObj, ~p.active,
         p.task[o].profilingActive => p.task[o].Type = "initial",
         NEW S, NEW N, Books(p, t, NoTask, S, N), o \notin S
  PROVE  LET q == ImplicitTaskEnd(p, t, o) IN
         /\ Handler(p, q, t, {o})
         /\ q.task[o].Type = "none" /\ ~q.task[o].isStarted
         /\ q.task[o].inBarrier = p.task[o].inBarrier
         /\ Books(q, t, NoTask, S, N)
<1> DEFINE k == Take(p, t)
           s == IF p.task[o].profilingActive THEN StopBoth(k, t, o) ELSE p
           q == Reset(s, o)
<1>1. ImplicitTaskEnd(p, t, o) = q
  BY DEF ImplicitTaskEnd
<1>2. Handler(p, s, t, {}) /\ s.task = p.task /\ s.exc = p.exc /\ s.inc = p.inc
  <2>1. CASE ~p.task[o].profilingActive
    BY <2>1, HandlerNone
  <2>2. CASE p.task[o].profilingActive
    <3>1. /\ Handler(p, k, t, {}) /\ k.active = p.active
          /\ k.task = p.task /\ k.exc = p.exc /\ k.inc = p.inc
      BY TakeHandler
    <3> HIDE DEF k
    <3>2. StopBoth(k, t, o) = k
      BY <2>2, <3>1 DEF StopBoth, Stop, Count
    <3>3. QED
      BY <2>2, <3>1, <3>2
  <2>3. QED
    BY <2>1, <2>2
<1> HIDE DEF s
<1>3. Books(s, t, NoTask, S, N)
  BY <1>2, BooksSame
<1>4. /\ Handler(s, q, t, {o})
      /\ q.task[o].Type = "none" /\ ~q.task[o].isStarted
      /\ q.task[o].inBarrier = s.task[o].inBarrier
      /\ Books(q, t, NoTask, S, N)
  <2>1. ProfileOK(s) /\ o # NoTask
    BY <1>2, TaskProfileAssumption DEF Handler
  <2>2. QED
    BY <1>3, <2>1, ResetHandler
<1> HIDE DEF q
<1>5. Handler(p, q, t, {o})
  BY <1>2, <1>4, HandlerChain
<1>6. QED
  BY <1>1, <1>2, <1>4, <1>5

(* parallel_begin: the initial task rests ...                              *)
LEMMA ParallelBeginBooks ==
  ASSUME NEW p, ProfileOK(p), NEW t \in Thread, NEW o \in TaskObj, p.active, Ready(p, t, o),
         NEW S, NEW N \in [Region -> Nat], Books(p, t, o, S, N)
  PROVE  LET q == ParallelBegin(p, t, o) IN
         Handler(p, q, t, {}) /\ q.task = p.task /\ t \in q.now /\ Books(q, t, NoTask, S, N)
<1> DEFINE k == Take(p, t)
           q == Stop(k, "exc", t, o)
<1>1. ParallelBegin(p, t, o) = q
  BY DEF ParallelBegin
<1>2. /\ Handler(p, k, t, {}) /\ t \in k.now /\ ProfileOK(k)
      /\ k.active = p.active /\ k.flat = p.flat /\ k.regions = p.regions
      /\ k.task = p.task /\ k.exc = p.exc /\ k.inc = p.inc
  BY TakeHandler DEF Handler
<1> HIDE DEF k
<1>3. Ready(k, t, o) /\ Books(k, t, o, S, N)
  BY <1>2, SameTasks, BooksSame
<1>4. Bound(k, t, o)
  BY <1>3 DEF Books
<1>5. Call(k, q, t, o) /\ q.task = k.task /\ Books(q, t, NoTask, S, N)
  BY <1>2, <1>3, <1>4, StopCall, StopExc
<1> HIDE DEF q
<1>6. Handler(k, q, t, {})
  BY <1>5, CallNoTask
<1>7. Handler(p, q, t, {})
  BY <1>2, <1>6, HandlerChain
<1>8. t \in q.now
  BY <1>2, <1>6 DEF Handler
<1>9. QED
  BY <1>1, <1>2, <1>5, <1>7, <1>8

(* ... until parallel_end.                                                 *)
LEMMA ParallelEndBooks ==
  ASSUME NEW p, ProfileOK(p), NEW t \in Thread, t \in p.now, NEW o \in TaskObj, p.active,
         p.task[o].Type = "initial", Bound(p, t, o),
         NEW S, NEW N \in [Region -> Nat], Books(p, t, NoTask, S, N)
  PROVE  LET q == ParallelEnd(p, t, o) IN
         /\ Handler(p, q, t, {o}) /\ Books(q, t, o, S, N)
         /\ OnlyRegion(p.task[o], q.task[o]) /\ q.task[o].rData = p.task[o].rData
<1> DEFINE q == Start(p, "exc", t, o)
<1>1. ParallelEnd(p, t, o) = q
  BY DEF ParallelEnd
<1>2. Ready(p, t, o) /\ Settled(p, t, o)
  BY DEF Ready, Settled
<1>3. Call(p, q, t, o) /\ Books(q, t, o, S, N)
  BY <1>2, StartCall, StartExc
<1> HIDE DEF q
<1>4. QED
  BY <1>1, <1>2, <1>3, CallHandler DEF Call

(* sync_region, begin and end: a task that waits is in no books.           *)
LEMMA SyncRegionBeginBooks ==
  ASSUME NEW p, ProfileOK(p), NEW t \in Thread, NEW o \in TaskObj, p.active, Ready(p, t, o),
         NEW S, NEW N \in [Region -> Nat], Books(p, t, o, S, N), o \in S
  PROVE  LET q == SyncRegionBegin(p, t, o) IN
         /\ Handler(p, q, t, {o}) /\ Books(q, t, NoTask, S \ {o}, N)
         /\ SameButFlags(p.task[o], q.task[o])
         /\ q.task[o].isStarted = p.task[o].isStarted /\ q.task[o].inBarrier
<1> DEFINE k == Take(p, t)
           s == StopBoth(k, t, o)
           q == [s EXCEPT !.task[o].inBarrier = TRUE]
<1>1. SyncRegionBegin(p, t, o) = q
  BY DEF SyncRegionBegin
<1>2. /\ Handler(p, k, t, {}) /\ t \in k.now /\ ProfileOK(k)
      /\ k.active = p.active /\ k.flat = p.flat /\ k.regions = p.regions
      /\ k.task = p.task /\ k.exc = p.exc /\ k.inc = p.inc
  BY TakeHandler DEF Handler
<1> HIDE DEF k
<1>3. Ready(k, t, o) /\ Books(k, t, o, S, N)
  BY <1>2, SameTasks, BooksSame
<1>4. /\ Handler(k, s, t, {}) /\ s.task = k.task /\ s.now = k.now
      /\ Books(s, t, NoTask, S \ {o}, N)
  BY <1>2, <1>3, StopBothBooks
<1> HIDE DEF s
<1>5. /\ FlagsOnly(s, q, o) /\ q.task[o].inBarrier = TRUE
      /\ q.task[o].isStarted = s.task[o].isStarted
  BY <1>4, BarrierFlag DEF Handler
<1> HIDE DEF q
<1>6. Handler(s, q, t, {o}) /\ Books(q, t, NoTask, S \ {o}, N)
  BY <1>4, <1>5, FlagsHandler
<1>7. Handler(p, q, t, {o})
  <2>1. Handler(p, s, t, {})
    BY <1>2, <1>4, HandlerChain
  <2>2. QED
    BY <1>6, <2>1, HandlerChain
<1>8. QED
  BY <1>1, <1>2, <1>4, <1>5, <1>6, <1>7 DEF FlagsOnly

(* The end of a wait starts both times of the task again.                   *)
LEMMA SyncRegionEndBooks ==
  ASSUME NEW p, ProfileOK(p), NEW t \in Thread, NEW o \in TaskObj, p.active, Ready(p, t, o),
         Settled(p, t, o),
         NEW S, NEW N \in [Region -> Nat], Books(p, t, NoTask, S, N), o \notin S
  PROVE  LET q == SyncRegionEnd(p, t, o) IN
         /\ Handler(p, q, t, {o}) /\ Books(q, t, o, S \cup {o}, N)
         /\ SameButFlags(p.task[o], q.task[o])
         /\ q.task[o].isStarted = p.task[o].isStarted /\ ~q.task[o].inBarrier
<1> DEFINE k == Take(p, t)
           s == StartBoth(k, t, o)
           q == [s EXCEPT !.task[o].inBarrier = FALSE]
<1>1. SyncRegionEnd(p, t, o) = q
  BY DEF SyncRegionEnd
<1>2. /\ Handler(p, k, t, {}) /\ t \in k.now /\ ProfileOK(k)
      /\ k.active = p.active /\ k.flat = p.flat /\ k.regions = p.regions
      /\ k.task = p.task /\ k.exc = p.exc /\ k.inc = p.inc
  BY TakeHandler DEF Handler
<1> HIDE DEF k
<1>3. Ready(k, t, o) /\ Settled(k, t, o) /\ Books(k, t, NoTask, S, N)
  BY <1>2, SameTasks, BooksSame
<1>4. Call(k, s, t, o) /\ Books(s, t, o, S \cup {o}, N)
  BY <1>2, <1>3, StartBothBooks
<1>5. OnlyRegion(p.task[o], s.task[o]) /\ s.task[o].rData = p.task[o].rData
  BY <1>2, <1>3, <1>4 DEF Call
<1> HIDE DEF s
<1>6. /\ FlagsOnly(s, q, o) /\ q.task[o].inBarrier = FALSE
      /\ q.task[o].isStarted = s.task[o].isStarted
  BY <1>4, BarrierFlag DEF Call
<1> HIDE DEF q
<1>7. Handler(s, q, t, {o}) /\ Books(q, t, o, S \cup {o}, N)
  BY <1>4, <1>6, FlagsHandler
<1>8. Handler(p, q, t, {o})
  <2>1. Handler(k, s, t, {o})
    BY <1>4, CallHandler
  <2>2. Handler(k, q, t, {o})
    BY <1>7, <2>1, HandlerChain
  <2>3. QED
    BY <1>2, <2>2, HandlerChain
<1>9. SameButFlags(p.task[o], q.task[o]) /\ q.task[o].isStarted = p.task[o].isStarted
  BY <1>5, <1>6 DEF FlagsOnly, SameButFlags, OnlyRegion
<1>10. QED
  BY <1>1, <1>6, <1>7, <1>8, <1>9

-----------------------------------------------------------------------------
(* task_create and task_schedule *)

(* The creation of a task measures nothing.                                 *)
LEMMA TaskCreateBooks ==
  ASSUME NEW p, ProfileOK(p), NEW t, NEW o \in TaskObj, NEW type \in TaskType,
         NEW code \in TaskCode, NEW parent \in TaskObj
  PROVE  LET q == TaskCreate(p, o, type, code, parent)
             x == q.task[o]
         IN
         /\ Handler(p, q, t, {o}) /\ q.now = p.now
         /\ x.Type = type /\ (type = "explicit" => x.codePtr = code /\ x.parentTask = parent)
         /\ x.profilingActive = (type = "explicit" /\ p.active)
         /\ x.isStarted = p.task[o].isStarted /\ x.inBarrier = p.task[o].inBarrier
         /\ \A u, e, S, N : Books(p, u, e, S, N) => Books(q, u, e, S, N)
<1> DEFINE u == [p.task[o] EXCEPT !.Type = "undeferred", !.profilingActive = FALSE]
           x == [p.task[o] EXCEPT !.Type = "explicit", !.codePtr = code, !.parentTask = parent,
                                  !.profilingActive = p.active]
           y == IF type = "undeferred" THEN u ELSE x
           q == [p EXCEPT !.task[o] = y]
<1>1. /\ p.task[o] \in Task /\ p.active \in BOOLEAN
      /\ p.task[o].rData \in DOMAIN p.exc \cup {NoRegion}
      /\ type = "undeferred" \/ type = "explicit"
  BY DEF ProfileOK, TaskType
<1>2. TaskCreate(p, o, type, code, parent) = q
  <2>1. CASE type = "undeferred"
    BY <2>1 DEF TaskCreate
  <2>2. CASE type = "explicit"
    BY <2>2 DEF TaskCreate
  <2>3. QED
    BY <1>1, <2>1, <2>2
<1>3. /\ y \in Task /\ y.rData = p.task[o].rData
      /\ y.Type = type /\ (type = "explicit" => y.codePtr = code /\ y.parentTask = parent)
      /\ y.profilingActive = (type = "explicit" /\ p.active)
      /\ y.isStarted = p.task[o].isStarted /\ y.inBarrier = p.task[o].inBarrier
  <2>1. CASE type = "undeferred"
    BY <1>1, <2>1 DEF Task
  <2>2. CASE type = "explicit"
    BY <1>1, <2>2 DEF Task
  <2>3. QED
    BY <1>1, <2>1, <2>2
<1> HIDE DEF y
<1>4. /\ ProfileOK(q)
      /\ q.active = p.active /\ q.flat = p.flat /\ q.regions = p.regions
      /\ q.failure = p.failure /\ q.exc = p.exc /\ q.inc = p.inc
      /\ q.stale = p.stale /\ q.now = p.now
      /\ q.task[o] = y /\ \A z \in TaskObj \ {o} : q.task[z] = p.task[z]
  BY <1>1, <1>3, TaskOK
<1> HIDE DEF q
<1>5. Handler(p, q, t, {o})
  BY <1>4 DEF Handler, Frame
<1>6. ASSUME NEW v, NEW e, NEW S, NEW N, Books(p, v, e, S, N) PROVE Books(q, v, e, S, N)
  <2>1. \A z \in TaskObj : q.task[z].rData = p.task[z].rData
    BY <1>3, <1>4
  <2>2. S \subseteq TaskObj
    BY <1>6 DEF Books
  <2>3. QED
    BY <1>4, <1>6, <2>1, <2>2, BooksTasks
<1>7. QED
  BY <1>2, <1>3, <1>4, <1>5, <1>6

(* A task object that only its measurements changed about.                 *)
SameTask(x, y) == OnlyRegion(x, y) /\ y.rData = x.rData

(* A thread leaves a task: nothing is measured exclusively any more, and   *)
(* the task inclusively, also when it waits.                               *)
LEMMA LeaveBooks ==
  ASSUME NEW p, ProfileOK(p), NEW t \in Thread, t \in p.now, NEW o \in TaskObj,
         p.task[o].profilingActive, Ready(p, t, o), Settled(p, t, o),
         NEW S, NEW N \in [Region -> Nat],
         Books(p, t, IF p.task[o].inBarrier THEN NoTask ELSE o, S, N),
         p.task[o].inBarrier <=> o \notin S
  PROVE  LET q == Leave(p, t, o) IN
         /\ Handler(p, q, t, {o}) /\ SameTask(p.task[o], q.task[o])
         /\ Books(q, t, NoTask, S \cup {o}, N)
<1>1. CASE p.task[o].inBarrier
  <2> DEFINE q == Start(p, "inc", t, o)
  <2>1. Leave(p, t, o) = q
    BY <1>1 DEF Leave
  <2>2. Call(p, q, t, o)
    BY StartCall
  <2>3. Books(q, t, NoTask, S \cup {o}, N)
    BY <1>1, StartInc
  <2> HIDE DEF q
  <2>4. QED
    BY <2>1, <2>2, <2>3, CallHandler DEF Call, SameTask
<1>2. CASE ~p.task[o].inBarrier
  <2> DEFINE q == Stop(p, "exc", t, o)
  <2>1. Leave(p, t, o) = q
    BY <1>2 DEF Leave
  <2>2. Bound(p, t, o)
    BY DEF Settled
  <2>3. Call(p, q, t, o) /\ q.task = p.task
    BY <2>2, StopCall
  <2>4. Books(q, t, NoTask, S, N) /\ S \cup {o} = S
    BY <1>2, StopExc
  <2> HIDE DEF q
  <2>5. QED
    BY <2>1, <2>3, <2>4, CallHandler DEF Call, SameTask, OnlyRegion
<1>3. QED
  BY <1>1, <1>2

(* ... and enters another one, which it may have left before.              *)
LEMMA EnterBooks ==
  ASSUME NEW p, ProfileOK(p), NEW t \in Thread, t \in p.now, NEW o \in TaskObj,
         p.task[o].profilingActive, Ready(p, t, o),
         NEW S, NEW N \in [Region -> Nat], Books(p, t, NoTask, S, N),
         p.task[o].inBarrier => o \in S, Settled(p, t, o) \/ o \notin S
  PROVE  LET q == Enter(p, t, o) IN
         /\ Handler(p, q, t, {o}) /\ Ready(q, t, o) /\ OnlyRegion(p.task[o], q.task[o])
         /\ Settled(p, t, o) => q.task[o].rData = p.task[o].rData
         /\ ~p.task[o].inBarrier => Settled(q, t, o)
         /\ Books(q, t, IF p.task[o].inBarrier THEN NoTask ELSE o,
                  IF p.task[o].inBarrier THEN S \ {o} ELSE S, N)
<1>1. CASE p.task[o].inBarrier
  <2> DEFINE q == Stop(p, "inc", t, o)
  <2>1. Enter(p, t, o) = q
    BY <1>1 DEF Enter
  <2>2. Bound(p, t, o)
    BY <1>1 DEF Settled
  <2>3. Call(p, q, t, o) /\ q.task = p.task /\ Ready(q, t, o)
    BY <2>2, StopCall
  <2>4. Books(q, t, NoTask, S \ {o}, N)
    BY <1>1, StopInc
  <2> HIDE DEF q
  <2>5. QED
    BY <1>1, <2>1, <2>3, <2>4, CallHandler DEF Call
<1>2. CASE ~p.task[o].inBarrier
  <2> DEFINE q == Start(p, "exc", t, o)
  <2>1. Enter(p, t, o) = q
    BY <1>2 DEF Enter
  <2>2. Call(p, q, t, o) /\ Settled(q, t, o) /\ Ready(q, t, o)
    BY StartCall
  <2>3. Books(q, t, o, S, N)
    BY StartExc
  <2> HIDE DEF q
  <2>4. QED
    BY <1>2, <2>1, <2>2, <2>3, CallHandler DEF Call
<1>3. QED
  BY <1>1, <1>2

(* A task as it was, but for its region and that it has started.           *)
NowStarted(x, y) ==
  /\ y.Type = x.Type /\ y.codePtr = x.codePtr /\ y.parentTask = x.parentTask
  /\ y.isStarted /\ y.inBarrier = x.inBarrier /\ y.profilingActive = x.profilingActive

(* Entering a task for the first time adds its inclusive time.              *)
LEMMA FirstEnterBooks ==
  ASSUME NEW p, ProfileOK(p), NEW t \in Thread, t \in p.now, NEW o \in TaskObj,
         p.task[o].profilingActive, ~p.task[o].isStarted, Ready(p, t, o), Settled(p, t, o),
         NEW S, NEW N \in [Region -> Nat], Books(p, t, o, S, N), o \notin S
  PROVE  LET q == FirstEnter(p, t, o) IN
         /\ Handler(p, q, t, {o}) /\ NowStarted(p.task[o], q.task[o])
         /\ q.task[o].rData = p.task[o].rData
         /\ Settled(q, t, o) /\ Books(q, t, o, S \cup {o}, N)
<1> DEFINE s == Start(p, "inc", t, o)
           q == [s EXCEPT !.task[o].isStarted = TRUE]
<1>1. FirstEnter(p, t, o) = q
  BY DEF FirstEnter
<1>2. Call(p, s, t, o) /\ Settled(s, t, o)
  BY StartCall
<1>3. Books(s, t, o, S \cup {o}, N)
  BY StartInc
<1> HIDE DEF s
<1>4. ProfileOK(s)
  BY <1>2 DEF Call
<1>5. FlagsOnly(s, q, o) /\ q.task[o].isStarted /\ q.task[o].inBarrier = s.task[o].inBarrier
  BY <1>4, StartedFlag
<1> HIDE DEF q
<1>6. Handler(s, q, t, {o}) /\ Books(q, t, o, S \cup {o}, N)
  BY <1>3, <1>5, FlagsHandler
<1>7. Handler(p, q, t, {o})
  BY <1>2, <1>6, CallHandler, HandlerChain
<1>8. NowStarted(p.task[o], q.task[o]) /\ q.task[o].rData = p.task[o].rData
  BY <1>2, <1>5 DEF Call, OnlyRegion, FlagsOnly, SameButFlags, NowStarted
<1>9. Settled(q, t, o)
  <2>1. s.task[o].Type = "explicit" =>
          q.task[s.task[o].parentTask].rData = s.task[s.task[o].parentTask].rData
    <3>1. s.task[o].Type = "explicit" => s.task[o].parentTask \in TaskObj
      BY <1>4 DEF ProfileOK
    <3>2. \A x \in TaskObj : q.task[x].rData = s.task[x].rData
      BY <1>5 DEF FlagsOnly, SameButFlags
    <3>3. QED
      BY <3>1, <3>2
  <2>2. /\ q.task[o].Type = s.task[o].Type /\ q.task[o].rData = s.task[o].rData
        /\ q.task[o].parentTask = s.task[o].parentTask /\ q.task[o].codePtr = s.task[o].codePtr
        /\ q.regions = s.regions /\ q.flat = s.flat /\ q.exc = s.exc
    BY <1>5 DEF FlagsOnly, SameButFlags
  <2>3. Bound(q, t, o)
    BY <1>2, <2>2 DEF Settled, Bound
  <2>4. ASSUME q.task[o].Type = "explicit" PROVE KeyHolds(q, o)
    <3>1. KeyHolds(s, o)
      BY <1>2, <2>2, <2>4 DEF Settled
    <3>2. q.task[q.task[o].parentTask].rData = s.task[s.task[o].parentTask].rData
      BY <2>1, <2>2, <2>4
    <3>3. QED
      BY <2>2, <3>1, <3>2 DEF KeyHolds, Key, CallPathID
  <2>5. QED
    BY <2>3, <2>4 DEF Settled
<1>10. QED
  BY <1>1, <1>6, <1>7, <1>8, <1>9

(* task_schedule for a task that has not begun: both tasks are measured    *)
(* inclusively from now on, the new one exclusively.                       *)
LEMMA SwitchBooks ==
  ASSUME NEW p, ProfileOK(p), NEW t \in Thread, NEW from \in TaskObj, NEW to \in TaskObj,
         from # to, ~Included(p, from), ~Included(p, to),
         p.task[from].profilingActive, Ready(p, t, from), Settled(p, t, from),
         p.task[to].profilingActive, Ready(p, t, to),
         ~p.task[to].isStarted, ~p.task[to].inBarrier,
         NEW S, NEW N \in [Region -> Nat],
         Books(p, t, IF p.task[from].inBarrier THEN NoTask ELSE from, S, N),
         p.task[from].inBarrier <=> from \notin S, to \notin S
  PROVE  LET q == TaskSchedule(p, t, from, to, FALSE) IN
         /\ Handler(p, q, t, {from, to})
         /\ SameTask(p.task[from], q.task[from]) /\ NowStarted(p.task[to], q.task[to])
         /\ Settled(q, t, to) /\ Books(q, t, to, S \cup {from, to}, N)
<1> DEFINE k == Take(p, t)
           l == Leave(k, t, from)
           m == Enter(l, t, to)
           q == FirstEnter(m, t, to)
<1>1. TaskSchedule(p, t, from, to, FALSE) = q
  BY DEF TaskSchedule
<1>2. /\ Handler(p, k, t, {}) /\ t \in k.now /\ ProfileOK(k)
      /\ k.active = p.active /\ k.flat = p.flat /\ k.regions = p.regions
      /\ k.task = p.task /\ k.exc = p.exc /\ k.inc = p.inc
  BY TakeHandler DEF Handler
<1> HIDE DEF k
<1>3. /\ Ready(k, t, from) /\ Settled(k, t, from) /\ Ready(k, t, to)
      /\ Books(k, t, IF k.task[from].inBarrier THEN NoTask ELSE from, S, N)
  BY <1>2, SameTasks, BooksSame
<1>4. /\ Handler(k, l, t, {from}) /\ SameTask(k.task[from], l.task[from])
      /\ Books(l, t, NoTask, S \cup {from}, N)
  BY <1>2, <1>3, LeaveBooks
<1> HIDE DEF l
<1>5. ProfileOK(l) /\ t \in l.now /\ l.task[to] = k.task[to] /\ Ready(l, t, to)
  BY <1>2, <1>3, <1>4, OtherTask DEF Handler
<1>6. /\ Handler(l, m, t, {to}) /\ Ready(m, t, to) /\ OnlyRegion(l.task[to], m.task[to])
      /\ Settled(m, t, to) /\ Books(m, t, to, S \cup {from}, N)
  <2>1. l.task[to].profilingActive /\ ~l.task[to].inBarrier /\ to \notin S \cup {from}
    BY <1>2, <1>5
  <2>2. QED
    BY <1>4, <1>5, <2>1, EnterBooks
<1> HIDE DEF m
<1>7. ProfileOK(m) /\ t \in m.now /\ m.task[to].profilingActive /\ ~m.task[to].isStarted
  BY <1>2, <1>5, <1>6 DEF Handler, OnlyRegion
<1>8. /\ Handler(m, q, t, {to}) /\ NowStarted(m.task[to], q.task[to])
      /\ Settled(q, t, to) /\ Books(q, t, to, (S \cup {from}) \cup {to}, N)
  <2>1. to \notin S \cup {from}
    OBVIOUS
  <2>2. QED
    BY <1>6, <1>7, <2>1, FirstEnterBooks
<1> HIDE DEF q
<1>9. NowStarted(p.task[to], q.task[to])
  BY <1>2, <1>5, <1>6, <1>8 DEF NowStarted, OnlyRegion
<1>10. q.task[from] = l.task[from]
  BY <1>6, <1>8 DEF Handler, Frame
<1>11. Handler(p, q, t, {from, to})
  <2>1. Handler(k, l, t, {from, to}) /\ Handler(l, m, t, {from, to}) /\ Handler(m, q, t, {from, to})
    BY <1>4, <1>6, <1>8, HandlerMore
  <2>2. Handler(p, l, t, {from, to})
    BY <1>2, <2>1, HandlerChain
  <2>3. Handler(p, m, t, {from, to})
    BY <2>1, <2>2, HandlerChain
  <2>4. QED
    BY <2>1, <2>3, HandlerChain
<1>12. (S \cup {from}) \cup {to} = S \cup {from, to}
  OBVIOUS
<1>13. QED
  BY <1>1, <1>2, <1>4, <1>8, <1>9, <1>10, <1>11, <1>12

(* task_schedule at the end of a task: the thread returns to the one it    *)
(* had left, whose inclusive time stops again if it waits.                 *)
LEMMA CompleteBooks ==
  ASSUME NEW p, ProfileOK(p), NEW t \in Thread, NEW from \in TaskObj, NEW to \in TaskObj,
         from # to, ~Included(p, from), ~Included(p, to),
         p.task[from].profilingActive, ~p.task[from].inBarrier,
         Ready(p, t, from), Settled(p, t, from),
         p.task[to].profilingActive, p.task[to].isStarted, Ready(p, t, to), Settled(p, t, to),
         p.task[to].Type = "explicit" => p.task[to].parentTask # from,
         NEW S, NEW N \in [Region -> Nat], Books(p, t, from, S, N), from \in S, to \in S
  PROVE  LET q == TaskSchedule(p, t, from, to, TRUE) IN
         /\ Handler(p, q, t, {from, to}) /\ SameTask(p.task[to], q.task[to])
         /\ q.task[from].Type = "none" /\ ~q.task[from].isStarted /\ ~q.task[from].inBarrier
         /\ Books(q, t, IF p.task[to].inBarrier THEN NoTask ELSE to,
                  (IF p.task[to].inBarrier THEN S \ {to} ELSE S) \ {from}, N)
<1> DEFINE k == Take(p, t)
           l == Leave(k, t, from)
           m == Enter(l, t, to)
           n == Stop(m, "inc", t, from)
           q == Reset(n, from)
           e == IF p.task[to].inBarrier THEN NoTask ELSE to
           R == IF p.task[to].inBarrier THEN S \ {to} ELSE S
<1>1. /\ Handler(p, k, t, {}) /\ t \in k.now /\ ProfileOK(k)
      /\ k.active = p.active /\ k.flat = p.flat /\ k.regions = p.regions
      /\ k.task = p.task /\ k.exc = p.exc /\ k.inc = p.inc
  BY TakeHandler DEF Handler
<1>2. /\ Ready(k, t, from) /\ Settled(k, t, from) /\ Ready(k, t, to) /\ Settled(k, t, to)
      /\ Books(k, t, from, S, N)
  <2> HIDE DEF k
  <2>1. QED
    BY <1>1, SameTasks, BooksSame
<1>3. /\ Handler(k, l, t, {from}) /\ SameTask(k.task[from], l.task[from])
      /\ Books(l, t, NoTask, S, N)
  <2> HIDE DEF k
  <2>1. S \cup {from} = S
    OBVIOUS
  <2>2. QED
    BY <1>1, <1>2, <2>1, LeaveBooks
<1>4. ProfileOK(l) /\ t \in l.now /\ l.task[to] = k.task[to] /\ Ready(l, t, to) /\ Settled(l, t, to)
  <2> HIDE DEF k, l
  <2>1. p.task[to].Type = "explicit" =>
          l.task[p.task[to].parentTask].rData = k.task[p.task[to].parentTask].rData
    <3>1. p.task[to].Type = "explicit" => p.task[to].parentTask \in TaskObj \ {from}
      BY DEF ProfileOK
    <3>2. QED
      BY <1>3, <3>1 DEF Handler, Frame
  <2>2. QED
    BY <1>1, <1>2, <1>3, <2>1, OtherTask DEF Handler
<1>5. /\ Handler(l, m, t, {to}) /\ SameTask(l.task[to], m.task[to])
      /\ Books(m, t, e, R, N)
  <2> HIDE DEF k, l
  <2>1. l.task[to].profilingActive /\ l.task[to].inBarrier = p.task[to].inBarrier
    BY <1>1, <1>4
  <2>2. /\ Handler(l, m, t, {to}) /\ OnlyRegion(l.task[to], m.task[to])
        /\ m.task[to].rData = l.task[to].rData
        /\ Books(m, t, IF l.task[to].inBarrier THEN NoTask ELSE to,
                  IF l.task[to].inBarrier THEN S \ {to} ELSE S, N)
    BY <1>3, <1>4, <2>1, EnterBooks
  <2>3. QED
    BY <2>1, <2>2 DEF SameTask
<1>6. TaskSchedule(p, t, from, to, TRUE) = q
  <2>1. FirstEnter(m, t, to) = m
    <3> HIDE DEF k, l, m
    <3>1. m.task[to].isStarted
      BY <1>1, <1>4, <1>5 DEF SameTask, OnlyRegion
    <3>2. QED
      BY <3>1 DEF FirstEnter
  <2>2. TaskSchedule(p, t, from, to, TRUE) = Finish(m, t, from)
    BY <2>1 DEF TaskSchedule
  <2>3. m.task[from].profilingActive
    <3> HIDE DEF k, l, m
    <3>1. m.task[from] = l.task[from]
      BY <1>5 DEF Handler, Frame
    <3>2. QED
      BY <1>1, <1>3, <3>1 DEF SameTask, OnlyRegion
  <2>4. QED
    BY <2>2, <2>3 DEF Finish
<1> HIDE DEF k, l, m
<1>7. ProfileOK(m) /\ t \in m.now /\ m.task[from] = l.task[from] /\ Ready(m, t, from)
  <2>1. l.active = k.active
    BY <1>3 DEF Handler
  <2>2. DOMAIN k.exc \subseteq DOMAIN l.exc
    BY <1>3 DEF Handler, Frame
  <2>3. Ready(l, t, from)
    BY <1>2, <1>3, <2>1, <2>2 DEF Ready, Bound, SameTask, OnlyRegion
  <2>4. QED
    BY <1>4, <1>5, <2>3, OtherTask DEF Handler
<1> HIDE DEF e, R
<1>8. /\ Bound(m, t, from) /\ from \in R /\ e # from
  <2>1. from \in R /\ e # from
    BY TaskProfileAssumption DEF e, R
  <2>2. QED
    BY <1>5, <2>1 DEF Books
<1>9. Call(m, n, t, from) /\ n.task = m.task /\ Books(n, t, e, R \ {from}, N)
  BY <1>5, <1>7, <1>8, StopCall, StopInc
<1> HIDE DEF n
<1>10. /\ Handler(n, q, t, {from})
       /\ q.task[from].Type = "none" /\ ~q.task[from].isStarted
       /\ q.task[from].inBarrier = n.task[from].inBarrier
       /\ Books(q, t, e, R \ {from}, N)
  <2>1. ProfileOK(n) /\ from \notin R \ {from} /\ from # e
    BY <1>8, <1>9 DEF Call
  <2>2. QED
    BY <1>9, <2>1, ResetHandler
<1> HIDE DEF q
<1>11. ~q.task[from].inBarrier
  BY <1>1, <1>3, <1>7, <1>9, <1>10 DEF SameTask, OnlyRegion
<1>12. SameTask(p.task[to], q.task[to])
  <2>1. q.task[to] = n.task[to]
    BY <1>10 DEF Handler, Frame
  <2>2. QED
    BY <1>1, <1>4, <1>5, <1>9, <2>1 DEF SameTask, OnlyRegion
<1>13. Handler(p, q, t, {from, to})
  <2>1. /\ Handler(k, l, t, {from, to}) /\ Handler(l, m, t, {from, to})
        /\ Handler(m, n, t, {from, to}) /\ Handler(n, q, t, {from, to})
    BY <1>3, <1>5, <1>9, <1>10, HandlerMore, CallHandler
  <2>2. Handler(p, l, t, {from, to})
    BY <1>1, <2>1, HandlerChain
  <2>3. Handler(p, m, t, {from, to})
    BY <2>1, <2>2, HandlerChain
  <2>4. Handler(p, n, t, {from, to})
    BY <2>1, <2>3, HandlerChain
  <2>5. QED
    BY <2>1, <2>4, HandlerChain
<1>14. QED
  BY <1>6, <1>10, <1>11, <1>12, <1>13 DEF e, R

(* task_schedule with tasks that are not measured: nothing happens but that *)
(* a task that has completed is given back.                                *)
LEMMA ScheduleUnmeasured ==
  ASSUME NEW p, NEW t, NEW from, NEW to, NEW done \in BOOLEAN,
         \/ Included(p, from) \/ (Included(p, to) /\ ~done)
         \/ /\ ~Included(p, from) /\ ~Included(p, to)
            /\ ~p.task[from].profilingActive /\ ~p.task[to].profilingActive
  PROVE  TaskSchedule(p, t, from, to, done) = IF done THEN Reset(p, from) ELSE p
<1>1. CASE Included(p, from) \/ (Included(p, to) /\ ~done)
  BY <1>1 DEF TaskSchedule
<1>2. CASE /\ ~Included(p, from) /\ ~Included(p, to)
           /\ ~p.task[from].profilingActive /\ ~p.task[to].profilingActive
  <2>1. Leave(p, t, from) = p /\ Enter(p, t, to) = p /\ FirstEnter(p, t, to) = p
    BY <1>2 DEF Leave, Enter, FirstEnter
  <2>2. Finish(p, t, from) = Reset(p, from)
    BY <1>2 DEF Finish
  <2>3. QED
    BY <1>2, <2>1, <2>2 DEF TaskSchedule
<1>3. QED
  BY <1>1, <1>2

-----------------------------------------------------------------------------
(* control_tool *)

(* Task o is the only one of its thread, and measured or not.              *)
OnlyBooks(p, t, o, on, N) ==
  IF on THEN Books(p, t, o, {o}, N) ELSE Books(p, t, NoTask, {}, N)

(* start and pause: the initial task enters the books or leaves them.      *)
LEMMA ControlToolBooks ==
  ASSUME NEW p, ProfileOK(p), NEW t \in Thread, NEW o \in TaskObj, Bound(p, t, o),
         NEW on \in BOOLEAN, p.active # on, NEW N \in [Region -> Nat],
         OnlyBooks(p, t, o, ~on, N)
  PROVE  LET q == ControlTool(p, t, o, on) IN
         /\ ProfileOK(q) /\ Frame(p, q, t, {}) /\ q.active = on
         /\ q.task = p.task /\ q.stale = p.stale /\ q.regions = p.regions
         /\ OnlyBooks(q, t, o, on, N)
<1>1. PICK S : S = IF on THEN {} ELSE {o}
  OBVIOUS
<1>2. /\ on => Books(p, t, NoTask, S, N) /\ o \notin S
      /\ ~on => Books(p, t, o, S, N) /\ o \in S
  BY <1>1 DEF OnlyBooks
<1>3. S \cup {o} = {o} /\ S \ {o} = {}
  BY <1>1
<1> DEFINE n == IF on THEN 1 ELSE -1
           r == p.task[o].rData
           a == [p EXCEPT !.active = on]
           k == Take(a, t)
           x == CountRegion(k, "exc", t, r, n)
           q == CountRegion(x, "inc", t, r, n)
<1>4. ControlTool(p, t, o, on) = q
  BY DEF ControlTool
<1>5. /\ ProfileOK(a)
      /\ a.active = on /\ a.flat = p.flat /\ a.regions = p.regions
      /\ a.failure = p.failure /\ a.task = p.task /\ a.exc = p.exc /\ a.inc = p.inc
      /\ a.stale = p.stale /\ a.now = p.now
  BY ActiveOK
<1> HIDE DEF a
<1>6. /\ Handler(a, k, t, {}) /\ t \in k.now
      /\ k.active = a.active /\ k.flat = a.flat /\ k.regions = a.regions
      /\ k.task = a.task /\ k.exc = a.exc /\ k.inc = a.inc
  BY <1>5, TakeHandler
<1> HIDE DEF k
<1>7. /\ ProfileOK(k) /\ Bound(k, t, o) /\ r = k.task[o].rData /\ k.regions = p.regions
      /\ k.failure = p.failure
      /\ on => Books(k, t, NoTask, S, N)
      /\ ~on => Books(k, t, o, S, N)
  BY <1>5, <1>6, <1>2, BooksSame DEF Handler, Frame, Bound
<1>8. n = IF on THEN 1 ELSE -1
  OBVIOUS
<1> HIDE DEF r, n
<1>9. /\ Call(k, x, t, o) /\ x.task = k.task /\ DOMAIN x.exc = DOMAIN k.exc
      /\ on => Books(x, t, o, S, N)
      /\ ~on => Books(x, t, NoTask, S, N)
  <2>1. n \in {1, -1}
    BY <1>8
  <2>2. Call(k, x, t, o) /\ x.task = k.task /\ DOMAIN x.exc = DOMAIN k.exc
    BY <1>6, <1>7, <2>1, CountCall
  <2>3. on => Books(x, t, o, S, N)
    BY <1>7, <1>8, <1>2, ExcStart
  <2>4. ~on => Books(x, t, NoTask, S, N)
    BY <1>7, <1>8, <1>2, ExcStop
  <2>5. QED
    BY <2>2, <2>3, <2>4
<1>10. x.regions = k.regions
  BY <1>7, <1>8, CountRegionOK DEF Bound
<1> HIDE DEF x
<1>11. /\ ProfileOK(x) /\ t \in x.now /\ Bound(x, t, o) /\ r = x.task[o].rData
  BY <1>6, <1>7, <1>9 DEF Call, Bound
<1>12. /\ Call(x, q, t, o) /\ q.task = x.task
       /\ on => Books(q, t, o, S \cup {o}, N)
       /\ ~on => Books(q, t, NoTask, S \ {o}, N)
  <2>1. n \in {1, -1}
    BY <1>8
  <2>2. Call(x, q, t, o) /\ q.task = x.task
    BY <1>11, <2>1, CountCall
  <2>3. on => Books(q, t, o, S \cup {o}, N)
    BY <1>8, <1>9, <1>11, <1>2, IncStart
  <2>4. ~on => Books(q, t, NoTask, S \ {o}, N)
    BY <1>8, <1>9, <1>11, <1>2, IncStop
  <2>5. QED
    BY <2>2, <2>3, <2>4
<1>13. q.regions = x.regions
  BY <1>8, <1>11, CountRegionOK DEF Bound
<1> HIDE DEF q
<1>14. Frame(k, x, t, {}) /\ Frame(x, q, t, {})
  BY <1>9, <1>12, CallNoTask DEF Handler
<1>15. Frame(k, q, t, {})
  BY <1>14, FrameChain
<1>16. Frame(p, q, t, {})
  <2>1. /\ k.flat = p.flat /\ k.regions = p.regions /\ k.failure = p.failure
        /\ k.task = p.task /\ k.exc = p.exc /\ k.inc = p.inc
    BY <1>5, <1>6, <1>7
  <2>2. QED
    BY <1>15, <2>1 DEF Frame
<1>17. OnlyBooks(q, t, o, on, N)
  BY <1>12, <1>3 DEF OnlyBooks
<1>18. QED
  BY <1>4, <1>5, <1>6, <1>7, <1>9, <1>10, <1>12, <1>13, <1>16, <1>17 DEF Call, Handler
=============================================================================
