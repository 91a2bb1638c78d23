--------------------------- MODULE UserRegionsProofs ---------------------------
(***************************************************************************)
(* The theorems about UserRegions, for any number of threads, tasks and    *)
(* user regions, in programs that begin and end regions by name (UserWell).*)
(* The invariant UserSound takes Good from TaskProfileProofs with its two  *)
(* parameters: the tasks that are in a user region, and how often each     *)
(* region was left for one (Accounts).  It adds that the regions of a      *)
(* task, from the one it is bound to down to the one it started with, are  *)
(* the chain that sParentPtr leads along (Links), that no region is on two *)
(* such chains (Distinct), and that a name leads to a region of the        *)
(* thread with that name (Mapped).  A begin appends to the chain of the    *)
(* current task and an end takes from it; the steps of the rest of the     *)
(* program (Quiet) keep it.                                                *)
(***************************************************************************)
EXTENDS TaskProfileProofs, UserRegions

-----------------------------------------------------------------------------
(* What the handlers of user regions do to the books *)

(* Task o left region a for region b, and the inclusive measurements of    *)
(* the two moved with it, or M counts what they did not.                   *)
LEMMA MovedBooks ==
  ASSUME NEW p, NEW q, ProfileOK(p), ProfileOK(q), DOMAIN q.exc = DOMAIN p.exc,
         NEW t \in Thread, NEW o \in TaskObj, NEW S, o \in S,
         NEW N \in [Region -> Nat], NEW M \in [Region -> Nat], Books(p, t, o, S, N),
         NEW a \in DOMAIN p.exc, NEW b \in DOMAIN p.exc, a # b, b.thread = t,
         p.task[o].rData = a, q.task[o].rData = b,
         \A x \in TaskObj \ {o} : q.task[x].rData = p.task[x].rData,
         q.exc[a] = p.exc[a] - 1, q.exc[b] = p.exc[b] + 1,
         \A r \in DOMAIN p.exc \ {a, b} : q.exc[r] = p.exc[r],
         q.inc[a] - p.inc[a] = M[a] - N[a] - 1, q.inc[b] - p.inc[b] = M[b] - N[b] + 1,
         \A r \in DOMAIN p.exc \ {a, b} : q.inc[r] = p.inc[r] /\ M[r] = N[r],
         \A r \in Region \ DOMAIN p.exc : M[r] = 0
  PROVE  Books(q, t, o, S, M)
<1>1. /\ IsFiniteSet(S) /\ S \subseteq TaskObj /\ \A x \in S : Bound(p, t, x)
      /\ \A r \in DOMAIN p.exc : r.thread = t =>
           /\ p.exc[r] = IF p.task[o].rData = r THEN 1 ELSE 0
           /\ p.inc[r] = Cardinality(BoundTo(p.task, S, r)) + N[r]
  BY DEF Books
<1>2. \A x \in S : Bound(q, t, x)
  BY <1>1 DEF Bound
<1>3. \A r \in DOMAIN p.exc : /\ r \in Region /\ p.exc[r] \in Int /\ p.inc[r] \in Int
                              /\ q.exc[r] \in Int /\ q.inc[r] \in Int
                              /\ M[r] \in Nat /\ N[r] \in Nat
  BY DEF ProfileOK
<1>4. PICK T : T = S \ {o}
  OBVIOUS
<1>5. S = T \cup {o}
  BY <1>4
<1>6. IsFiniteSet(T) /\ o \notin T
  BY <1>1, <1>4, FS_Subset
<1>7. PICK f, g : f = p.task /\ g = q.task
  OBVIOUS
<1>8. \A r : BoundTo(g, T, r) = BoundTo(f, T, r)
  BY <1>1, <1>4, <1>7 DEF BoundTo
<1>9. ASSUME NEW r \in DOMAIN p.exc, r.thread = t
      PROVE  q.inc[r] = Cardinality(BoundTo(g, S, r)) + M[r]
  <2>1. PICK n : n = Cardinality(BoundTo(f, T, r))
    OBVIOUS
  <2>2. n \in Nat /\ n = Cardinality(BoundTo(g, T, r))
    BY <1>6, <1>8, <2>1, CountedAdd
  <2>3. /\ r = a => Cardinality(BoundTo(f, S, r)) = n + 1
        /\ r # a => Cardinality(BoundTo(f, S, r)) = n
    <3>1. f[o].rData = r =>
            Cardinality(BoundTo(f, T \cup {o}, r)) = Cardinality(BoundTo(f, T, r)) + 1
      BY <1>6, CountedAdd
    <3>2. f[o].rData # r => BoundTo(f, T \cup {o}, r) = BoundTo(f, T, r)
      BY DEF BoundTo
    <3>3. QED
      BY <1>5, <1>7, <2>1, <3>1, <3>2
  <2>4. /\ r = b => Cardinality(BoundTo(g, S, r)) = n + 1
        /\ r # b => Cardinality(BoundTo(g, S, r)) = n
    <3>1. g[o].rData = r =>
            Cardinality(BoundTo(g, T \cup {o}, r)) = Cardinality(BoundTo(g, T, r)) + 1
      BY <1>6, CountedAdd
    <3>2. g[o].rData # r => BoundTo(g, T \cup {o}, r) = BoundTo(g, T, r)
      BY DEF BoundTo
    <3>3. QED
      BY <1>5, <1>7, <2>2, <3>1, <3>2
  <2>5. p.inc[r] = Cardinality(BoundTo(f, S, r)) + N[r]
    BY <1>1, <1>7, <1>9
  <2>6. CASE r = a
    BY <1>3, <2>2, <2>3, <2>4, <2>5, <2>6
  <2>7. CASE r = b
    BY <1>3, <2>2, <2>3, <2>4, <2>5, <2>7
  <2>8. CASE r # a /\ r # b
    BY <1>3, <1>9, <2>2, <2>3, <2>4, <2>5, <2>8
  <2>9. QED
    BY <2>6, <2>7, <2>8
<1>10. ASSUME NEW r \in DOMAIN p.exc, r.thread = t
       PROVE  q.exc[r] = IF q.task[o].rData = r THEN 1 ELSE 0
  <2>1. p.exc[r] = IF a = r THEN 1 ELSE 0
    BY <1>1, <1>10
  <2>2. QED
    BY <1>10, <2>1
<1>11. Bound(q, t, o)
  BY DEF Bound
<1>12. QED
  BY <1>1, <1>2, <1>7, <1>9, <1>10, <1>11 DEF Books

(* Books that count other measurements beyond the tasks of other threads.  *)
LEMMA OtherBooks ==
  ASSUME NEW p, NEW t, NEW e, NEW S, NEW N, NEW M, Books(p, t, e, S, N),
         \A r \in DOMAIN p.exc : r.thread = t => M[r] = N[r],
         \A r \in Region \ DOMAIN p.exc : M[r] = 0
  PROVE  Books(p, t, e, S, M)
BY DEF Books

(* A lookup measures nothing.                                              *)
LEMMA LookupBooks ==
  ASSUME NEW p, ProfileOK(p), NEW t \in Thread,
         NEW code \in Code, NEW parent \in DOMAIN p.exc \cup {NoRegion}
  PROVE  LET q == ThreadRegionData(p, t, code, parent) IN
         /\ Handler(p, q, t, {}) /\ q.task = p.task /\ q.now = p.now
         /\ \A e, S, N : Books(p, t, e, S, N) => Books(q, t, e, S, N)
<1> DEFINE q == ThreadRegionData(p, t, code, parent)
           r == ThreadRegion(q, t, code, parent)
<1>1. /\ ProfileOK(q)
      /\ q.active = p.active /\ q.flat = p.flat /\ q.failure = p.failure
      /\ q.task = p.task /\ q.stale = p.stale /\ q.now = p.now
      /\ DOMAIN p.regions \subseteq DOMAIN q.regions
      /\ \A i \in DOMAIN p.regions : q.regions[i] = p.regions[i]
      /\ r \in Region /\ r.thread = t
      /\ DOMAIN q.exc = DOMAIN p.exc \cup {r}
      /\ \A s \in DOMAIN p.exc : q.exc[s] = p.exc[s] /\ q.inc[s] = p.inc[s]
      /\ r \notin DOMAIN p.exc => q.exc[r] = 0 /\ q.inc[r] = 0
  BY ThreadRegionOK
<1> HIDE DEF q, r
<1>2. Handler(p, q, t, {})
  BY <1>1 DEF Handler, Frame
<1>3. ASSUME NEW e, NEW S, NEW N, Books(p, t, e, S, N)
      PROVE  Books(q, t, e, S, N)
  <2>1. (\A x \in S : Bound(q, t, x)) /\ (e \in TaskObj => Bound(q, t, e))
    BY <1>1, <1>3 DEF Books, Bound
  <2>2. ASSUME NEW s \in DOMAIN q.exc, s.thread = t
        PROVE  /\ q.exc[s] = IF e \in TaskObj /\ q.task[e].rData = s THEN 1 ELSE 0
               /\ q.inc[s] = Cardinality(BoundTo(q.task, S, s)) + N[s]
    <3>1. CASE s \in DOMAIN p.exc
      BY <1>1, <1>3, <2>2, <3>1 DEF Books
    <3>2. CASE s \notin DOMAIN p.exc
      <4>1. q.exc[s] = 0 /\ q.inc[s] = 0 /\ s \in Region
        BY <1>1, <3>2
      <4>2. N[s] = 0
        BY <1>3, <3>2, <4>1 DEF Books
      <4>3. (\A x \in S : p.task[x].rData # s) /\ (e \in TaskObj => p.task[e].rData # s)
        BY <1>3, <3>2 DEF Books, Bound
      <4>4. BoundTo(q.task, S, s) = {}
        BY <1>1, <4>3 DEF BoundTo
      <4>5. QED
        BY <1>1, <4>1, <4>2, <4>3, <4>4, FS_EmptySet
    <3>3. QED
      BY <3>1, <3>2
  <2>3. \A s \in Region \ DOMAIN q.exc : N[s] = 0
    BY <1>1, <1>3 DEF Books
  <2>4. QED
    BY <1>3, <2>1, <2>2, <2>3 DEF Books
<1>4. QED
  BY <1>1, <1>2, <1>3 DEF q

(* A measurement of a region that is counted right after it was taken.     *)
LEMMA CountHandler ==
  ASSUME NEW p, ProfileOK(p), NEW t \in Thread, t \in p.now, NEW kind \in {"exc", "inc"},
         NEW n \in {1, -1}, NEW r \in DOMAIN p.exc, r.thread = t
  PROVE  LET q == CountRegion(p, kind, t, r, n) IN
         /\ Handler(p, q, t, {}) /\ q.now = p.now /\ q.regions = p.regions /\ q.task = p.task
         /\ DOMAIN q.exc = DOMAIN p.exc
         /\ kind = "exc" => q.inc = p.inc /\ q.exc[r] = p.exc[r] + n
                            /\ \A s \in DOMAIN p.exc \ {r} : q.exc[s] = p.exc[s]
         /\ kind = "inc" => q.exc = p.exc /\ q.inc[r] = p.inc[r] + n
                            /\ \A s \in DOMAIN p.exc \ {r} : q.inc[s] = p.inc[s]
<1> DEFINE q == CountRegion(p, kind, t, r, n)
<1>1. /\ ProfileOK(q)
      /\ q.active = p.active /\ q.flat = p.flat /\ q.regions = p.regions
      /\ q.failure = p.failure /\ q.task = p.task /\ q.now = p.now
      /\ q.stale = (p.stale \/ t \notin p.now)
      /\ DOMAIN q.exc = DOMAIN p.exc
      /\ kind = "exc" => q.inc = p.inc /\ q.exc[r] = p.exc[r] + n
                         /\ \A s \in DOMAIN p.exc \ {r} : q.exc[s] = p.exc[s]
      /\ kind = "inc" => q.exc = p.exc /\ q.inc[r] = p.inc[r] + n
                         /\ \A s \in DOMAIN p.exc \ {r} : q.inc[s] = p.inc[s]
  BY CountRegionOK
<1> HIDE DEF q
<1>2. q.stale = p.stale
  BY <1>1 DEF ProfileOK
<1>3. \A s \in DOMAIN q.exc : s.thread # t =>
        s \in DOMAIN p.exc /\ q.exc[s] = p.exc[s] /\ q.inc[s] = p.inc[s]
  BY <1>1
<1>4. Frame(p, q, t, {})
  BY <1>1, <1>3 DEF Frame
<1>5. Handler(p, q, t, {})
  BY <1>1, <1>2, <1>4 DEF Handler
<1>6. QED
  BY <1>1, <1>5 DEF q

(* Task o is bound to region r of its thread.                              *)
LEMMA RebindHandler ==
  ASSUME NEW p, ProfileOK(p), NEW t, NEW o \in TaskObj, NEW r \in DOMAIN p.exc
  PROVE  LET q == [p EXCEPT !.task[o].rData = r] IN
         /\ Handler(p, q, t, {o}) /\ q.now = p.now /\ q.regions = p.regions
         /\ q.exc = p.exc /\ q.inc = p.inc
         /\ OnlyRegion(p.task[o], q.task[o]) /\ q.task[o].rData = r
<1>1. PICK x : x = [p.task[o] EXCEPT !.rData = r]
  OBVIOUS
<1> DEFINE q == [p EXCEPT !.task[o] = x]
<1>2. p.task[o] \in Task /\ p.task \in [TaskObj -> Task] /\ r \in Region
      /\ (p.task[o].Type = "explicit" => p.task[o].parentTask \in TaskObj)
  BY DEF ProfileOK
<1>3. x \in Task /\ x.rData = r /\ OnlyRegion(p.task[o], x)
  BY <1>1, <1>2 DEF Task, OnlyRegion
<1>4. x.Type = "explicit" => x.parentTask \in TaskObj
  BY <1>2, <1>3 DEF OnlyRegion
<1>5. /\ ProfileOK(q)
      /\ q.active = p.active /\ q.flat = p.flat /\ q.regions = p.regions
      /\ q.failure = p.failure /\ q.exc = p.exc /\ q.inc = p.inc
      /\ q.stale = p.stale /\ q.now = p.now
      /\ q.task[o] = x /\ \A y \in TaskObj \ {o} : q.task[y] = p.task[y]
  BY <1>3, <1>4, TaskOK
<1>6. [p EXCEPT !.task[o].rData = r] = q
  BY <1>1
<1> HIDE DEF q
<1>7. Handler(p, q, t, {o})
  BY <1>5 DEF Handler, Frame
<1>8. QED
  BY <1>3, <1>5, <1>6, <1>7

(* The profile q is p but that task o is in region b and measured there.   *)
Moves(p, q, t, o, b, S, M) ==
  /\ Handler(p, q, t, {o}) /\ q.regions = p.regions /\ DOMAIN q.exc = DOMAIN p.exc
  /\ OnlyRegion(p.task[o], q.task[o]) /\ q.task[o].rData = b /\ Books(q, t, o, S, M)

(* Descend leaves the region of the task for another one.                  *)
LEMMA DescendBooks ==
  ASSUME NEW p, ProfileOK(p), NEW t \in Thread, NEW o \in TaskObj,
         NEW a \in DOMAIN p.exc, a.thread = t, p.task[o].rData = a,
         NEW r \in DOMAIN p.exc, r.thread = t, r # a,
         NEW S, o \in S, NEW N \in [Region -> Nat], Books(p, t, o, S, N)
  PROVE  Moves(p, Descend(p, t, o, a, r), t, o, r, S,
               [N EXCEPT ![a] = @ + 1])
<1> DEFINE p0 == Take(p, t)
           p1 == CountRegion(p0, "exc", t, a, -1)
           p2 == CountRegion(p1, "inc", t, r, 1)
           p3 == CountRegion(p2, "exc", t, r, 1)
           q  == [p3 EXCEPT !.task[o].rData = r]
           M  == [N EXCEPT ![a] = @ + 1]
<1>1. /\ Handler(p, p0, t, {}) /\ t \in p0.now /\ ProfileOK(p0)
      /\ p0.regions = p.regions /\ p0.task = p.task /\ p0.exc = p.exc /\ p0.inc = p.inc
  BY TakeHandler DEF Handler
<1> HIDE DEF p0
<1>2. /\ Handler(p0, p1, t, {}) /\ p1.now = p0.now /\ p1.regions = p0.regions /\ p1.task = p0.task
      /\ DOMAIN p1.exc = DOMAIN p0.exc
      /\ p1.inc = p0.inc /\ p1.exc[a] = p0.exc[a] + -1
      /\ \A s \in DOMAIN p0.exc \ {a} : p1.exc[s] = p0.exc[s]
  <2>1. a \in DOMAIN p0.exc
    BY <1>1
  <2>2. QED
    BY <1>1, <2>1, CountHandler
<1>3. ProfileOK(p1)
  BY <1>2 DEF Handler
<1> HIDE DEF p1
<1>4. /\ Handler(p1, p2, t, {}) /\ p2.now = p1.now /\ p2.regions = p1.regions /\ p2.task = p1.task
      /\ DOMAIN p2.exc = DOMAIN p1.exc
      /\ p2.exc = p1.exc /\ p2.inc[r] = p1.inc[r] + 1
      /\ \A s \in DOMAIN p1.exc \ {r} : p2.inc[s] = p1.inc[s]
  <2>1. r \in DOMAIN p1.exc /\ t \in p1.now
    BY <1>1, <1>2
  <2>2. QED
    BY <1>3, <2>1, CountHandler
<1>5. ProfileOK(p2)
  BY <1>4 DEF Handler
<1> HIDE DEF p2
<1>6. /\ Handler(p2, p3, t, {}) /\ p3.now = p2.now /\ p3.regions = p2.regions /\ p3.task = p2.task
      /\ DOMAIN p3.exc = DOMAIN p2.exc
      /\ p3.inc = p2.inc /\ p3.exc[r] = p2.exc[r] + 1
      /\ \A s \in DOMAIN p2.exc \ {r} : p3.exc[s] = p2.exc[s]
  <2>1. r \in DOMAIN p2.exc /\ t \in p2.now
    BY <1>1, <1>2, <1>4
  <2>2. QED
    BY <1>5, <2>1, CountHandler
<1>7. ProfileOK(p3)
  BY <1>6 DEF Handler
<1> HIDE DEF p3
<1>8. /\ Handler(p3, q, t, {o}) /\ q.regions = p3.regions /\ q.exc = p3.exc /\ q.inc = p3.inc
      /\ OnlyRegion(p3.task[o], q.task[o]) /\ q.task[o].rData = r
  <2>1. r \in DOMAIN p3.exc
    BY <1>1, <1>2, <1>4, <1>6
  <2>2. QED
    BY <1>7, <2>1, RebindHandler, SMTT(60)
<1>9. ProfileOK(q)
  BY <1>8 DEF Handler
<1> HIDE DEF q
<1>10. Handler(p, q, t, {o})
  <2>1. Handler(p, p1, t, {}) /\ Handler(p2, p3, t, {})
    BY <1>1, <1>2, <1>6, HandlerChain
  <2>2. Handler(p, p2, t, {})
    BY <1>4, <2>1, HandlerChain
  <2>3. Handler(p, p3, t, {})
    BY <2>1, <2>2, HandlerChain
  <2>4. QED
    BY <1>8, <2>3, HandlerChain
<1>11. /\ q.regions = p.regions /\ DOMAIN q.exc = DOMAIN p.exc
       /\ OnlyRegion(p.task[o], q.task[o])
       /\ \A x \in TaskObj \ {o} : q.task[x] = p.task[x]
  BY <1>1, <1>2, <1>4, <1>6, <1>8, <1>10 DEF Handler, Frame
<1>12. p.exc[r] \in Int /\ p.inc[r] \in Int /\ p.exc[a] \in Int /\ p.inc[a] \in Int
       /\ a \in Region /\ r \in Region
  BY DEF ProfileOK
<1>13. /\ q.exc[a] = p.exc[a] - 1 /\ q.exc[r] = p.exc[r] + 1
       /\ \A s \in DOMAIN p.exc \ {a, r} : q.exc[s] = p.exc[s]
  BY <1>1, <1>2, <1>4, <1>6, <1>8, <1>12
<1>14. /\ q.inc[a] = p.inc[a] /\ q.inc[r] = p.inc[r] + 1
       /\ \A s \in DOMAIN p.exc \ {a, r} : q.inc[s] = p.inc[s]
  BY <1>1, <1>2, <1>4, <1>6, <1>8, <1>12
<1>15. /\ M \in [Region -> Nat] /\ M[a] = N[a] + 1 /\ M[r] = N[r]
       /\ N[a] \in Nat /\ N[r] \in Nat
       /\ \A s \in Region \ {a} : M[s] = N[s]
  BY <1>12
<1> HIDE DEF M
<1>16. \A s \in Region \ DOMAIN p.exc : M[s] = 0
  BY <1>15 DEF Books
<1>17. q.inc[a] - p.inc[a] = M[a] - N[a] - 1 /\ q.inc[r] - p.inc[r] = M[r] - N[r] + 1
  BY <1>12, <1>14, <1>15
<1>18. \A s \in DOMAIN p.exc \ {a, r} : q.inc[s] = p.inc[s] /\ M[s] = N[s]
  BY <1>14, <1>15 DEF ProfileOK
<1>19. \A x \in TaskObj \ {o} : q.task[x].rData = p.task[x].rData
  BY <1>11
<1>20. Books(q, t, o, S, M)
  BY <1>8, <1>9, <1>11, <1>13, <1>15, <1>16, <1>17, <1>18, <1>19, MovedBooks
<1>21. Descend(p, t, o, a, r) = q
  BY DEF Descend, p0, p1, p2, p3, q
<1>22. Moves(p, q, t, o, r, S, M)
  BY <1>8, <1>10, <1>11, <1>20 DEF Moves
<1>23. QED
  BY <1>21, <1>22 DEF M

(* Ascend returns to it.                                                   *)
LEMMA AscendBooks ==
  ASSUME NEW p, ProfileOK(p), NEW t \in Thread, NEW o \in TaskObj,
         NEW a \in DOMAIN p.exc, a.thread = t,
         NEW r \in DOMAIN p.exc, r.thread = t, r # a, p.task[o].rData = r,
         NEW S, o \in S, NEW N \in [Region -> Nat], N[a] > 0, Books(p, t, o, S, N)
  PROVE  Moves(p, [Ascend(p, t, a, r) EXCEPT !.task[o].rData = a], t, o, a, S,
               [N EXCEPT ![a] = @ - 1])
<1> DEFINE p0 == Take(p, t)
           p1 == CountRegion(p0, "exc", t, r, -1)
           p2 == CountRegion(p1, "inc", t, r, -1)
           p3 == CountRegion(p2, "exc", t, a, 1)
           q  == [p3 EXCEPT !.task[o].rData = a]
           M  == [N EXCEPT ![a] = @ - 1]
<1>1. /\ Handler(p, p0, t, {}) /\ t \in p0.now /\ ProfileOK(p0)
      /\ p0.regions = p.regions /\ p0.task = p.task /\ p0.exc = p.exc /\ p0.inc = p.inc
  BY TakeHandler DEF Handler
<1> HIDE DEF p0
<1>2. /\ Handler(p0, p1, t, {}) /\ p1.now = p0.now /\ p1.regions = p0.regions /\ p1.task = p0.task
      /\ DOMAIN p1.exc = DOMAIN p0.exc
      /\ p1.inc = p0.inc /\ p1.exc[r] = p0.exc[r] + -1
      /\ \A s \in DOMAIN p0.exc \ {r} : p1.exc[s] = p0.exc[s]
  <2>1. r \in DOMAIN p0.exc
    BY <1>1
  <2>2. QED
    BY <1>1, <2>1, CountHandler
<1>3. ProfileOK(p1)
  BY <1>2 DEF Handler
<1> HIDE DEF p1
<1>4. /\ Handler(p1, p2, t, {}) /\ p2.now = p1.now /\ p2.regions = p1.regions /\ p2.task = p1.task
      /\ DOMAIN p2.exc = DOMAIN p1.exc
      /\ p2.exc = p1.exc /\ p2.inc[r] = p1.inc[r] + -1
      /\ \A s \in DOMAIN p1.exc \ {r} : p2.inc[s] = p1.inc[s]
  <2>1. r \in DOMAIN p1.exc /\ t \in p1.now
    BY <1>1, <1>2
  <2>2. QED
    BY <1>3, <2>1, CountHandler
<1>5. ProfileOK(p2)
  BY <1>4 DEF Handler
<1> HIDE DEF p2
<1>6. /\ Handler(p2, p3, t, {}) /\ p3.now = p2.now /\ p3.regions = p2.regions /\ p3.task = p2.task
      /\ DOMAIN p3.exc = DOMAIN p2.exc
      /\ p3.inc = p2.inc /\ p3.exc[a] = p2.exc[a] + 1
      /\ \A s \in DOMAIN p2.exc \ {a} : p3.exc[s] = p2.exc[s]
  <2>1. a \in DOMAIN p2.exc /\ t \in p2.now
    BY <1>1, <1>2, <1>4
  <2>2. QED
    BY <1>5, <2>1, CountHandler
<1>7. ProfileOK(p3)
  BY <1>6 DEF Handler
<1> HIDE DEF p3
<1>8. /\ Handler(p3, q, t, {o}) /\ q.regions = p3.regions /\ q.exc = p3.exc /\ q.inc = p3.inc
      /\ OnlyRegion(p3.task[o], q.task[o]) /\ q.task[o].rData = a
  <2>1. a \in DOMAIN p3.exc
    BY <1>1, <1>2, <1>4, <1>6
  <2>2. QED
    BY <1>7, <2>1, RebindHandler, SMTT(60)
<1>9. ProfileOK(q)
  BY <1>8 DEF Handler
<1> HIDE DEF q
<1>10. Handler(p, q, t, {o})
  <2>1. Handler(p, p1, t, {}) /\ Handler(p2, p3, t, {})
    BY <1>1, <1>2, <1>6, HandlerChain
  <2>2. Handler(p, p2, t, {})
    BY <1>4, <2>1, HandlerChain
  <2>3. Handler(p, p3, t, {})
    BY <2>1, <2>2, HandlerChain
  <2>4. QED
    BY <1>8, <2>3, HandlerChain
<1>11. /\ q.regions = p.regions /\ DOMAIN q.exc = DOMAIN p.exc
       /\ OnlyRegion(p.task[o], q.task[o])
       /\ \A x \in TaskObj \ {o} : q.task[x] = p.task[x]
  BY <1>1, <1>2, <1>4, <1>6, <1>8, <1>10 DEF Handler, Frame
<1>12. p.exc[r] \in Int /\ p.inc[r] \in Int /\ p.exc[a] \in Int /\ p.inc[a] \in Int
       /\ a \in Region /\ r \in Region
  BY DEF ProfileOK
<1>13. /\ q.exc[r] = p.exc[r] - 1 /\ q.exc[a] = p.exc[a] + 1
       /\ \A s \in DOMAIN p.exc \ {r, a} : q.exc[s] = p.exc[s]
  BY <1>1, <1>2, <1>4, <1>6, <1>8, <1>12
<1>14. /\ q.inc[a] = p.inc[a] /\ q.inc[r] = p.inc[r] - 1
       /\ \A s \in DOMAIN p.exc \ {r, a} : q.inc[s] = p.inc[s]
  BY <1>1, <1>2, <1>4, <1>6, <1>8, <1>12
<1>15. /\ M \in [Region -> Nat] /\ M[a] = N[a] - 1 /\ M[r] = N[r]
       /\ N[a] \in Nat /\ N[r] \in Nat
       /\ \A s \in Region \ {a} : M[s] = N[s]
  BY <1>12
<1> HIDE DEF M
<1>16. \A s \in Region \ DOMAIN p.exc : M[s] = 0
  BY <1>15 DEF Books
<1>17. q.inc[r] - p.inc[r] = M[r] - N[r] - 1 /\ q.inc[a] - p.inc[a] = M[a] - N[a] + 1
  BY <1>12, <1>14, <1>15
<1>18. \A s \in DOMAIN p.exc \ {r, a} : q.inc[s] = p.inc[s] /\ M[s] = N[s]
  BY <1>14, <1>15 DEF ProfileOK
<1>19. \A x \in TaskObj \ {o} : q.task[x].rData = p.task[x].rData
  BY <1>11
<1>20. Books(q, t, o, S, M)
  BY <1>8, <1>9, <1>11, <1>13, <1>15, <1>16, <1>17, <1>18, <1>19, MovedBooks
<1>21. [Ascend(p, t, a, r) EXCEPT !.task[o].rData = a] = q
  BY DEF Ascend, p0, p1, p2, p3, q
<1>22. Moves(p, q, t, o, a, S, M)
  BY <1>8, <1>10, <1>11, <1>20 DEF Moves
<1>23. QED
  BY <1>21, <1>22 DEF M

-----------------------------------------------------------------------------
(* A task moves to another region *)

(* Nothing but the region of task o and the measurements of its thread     *)
(* changed.                                                                *)
Rebinds(t, o) ==
  /\ Effect(t, {o}) /\ OnlyRegion(prof.task[o], prof'.task[o]) /\ Bound(prof', t, o)
  /\ UNCHANGED env

(* Every task keeps its kind and its place.                                *)
LEMMA RebindTasks ==
  ASSUME Shape, NEW t \in Thread, NEW o \in TaskObj, Rebinds(t, o)
  PROVE  /\ \A x \in TaskObj : OnlyRegion(prof.task[x], prof'.task[x]) /\ Type(x)' = Type(x)
         /\ \A x \in TaskObj \ {o} : prof'.task[x] = prof.task[x]
         /\ \A u : Bottom(u)' = Bottom(u)
         /\ \A x : (AtBarrier(x)' <=> AtBarrier(x)) /\ (Stacked(x)' <=> Stacked(x))
         /\ \A u \in Thread : \A i \in 1..Len(running[u]) : running[u][i] \in TaskObj
<1>1. \A x \in TaskObj \ {o} : prof'.task[x] = prof.task[x]
  BY DEF Rebinds, Effect, Frame
<1>2. OnlyRegion(prof.task[o], prof'.task[o])
  BY DEF Rebinds
<1>3. ASSUME NEW x \in TaskObj PROVE OnlyRegion(prof.task[x], prof'.task[x])
  <2>1. CASE x = o
    BY <1>2, <2>1
  <2>2. CASE x # o
    <3>1. prof'.task[x] = prof.task[x]
      BY <1>1, <2>2
    <3>2. QED
      BY <3>1 DEF OnlyRegion
  <2>3. QED
    BY <2>1, <2>2
<1>4. \A x \in TaskObj : Type(x)' = Type(x)
  BY <1>3 DEF OnlyRegion, Type
<1>5. /\ \A u : Bottom(u)' = Bottom(u)
      /\ \A x : (AtBarrier(x)' <=> AtBarrier(x)) /\ (Stacked(x)' <=> Stacked(x))
  BY DEF Rebinds, env, AtBarrier, Bottom, Stacked
<1>6. \A u \in Thread : \A i \in 1..Len(running[u]) : running[u][i] \in TaskObj
  BY CurrentOK DEF Shape
<1>7. QED
  BY <1>1, <1>3, <1>4, <1>5, <1>6

(* The shape is kept by a move to another region.                          *)
LEMMA RebindShape ==
  ASSUME Shape, NEW t \in Thread, NEW o \in TaskObj, Rebinds(t, o)
  PROVE  Shape'
<1>1. \A x \in TaskObj : Type(x)' = Type(x)
  BY RebindTasks
<1>2. Kinds(prof, prof', {})
  BY <1>1 DEF Kinds, Rebinds, Effect, Type
<1>3. PICK x \in TaskObj : x = o
  OBVIOUS
<1>4. UNCHANGED <<free, running, queue, next, sync, children, forked, team, where, path, ended>>
  BY DEF Rebinds, env
<1>5. Placed' /\ ProfileOK(prof')
  BY <1>2, <1>4, SameKinds DEF Shape
<1>6. EnvTypes'
  BY <1>4 DEF Shape, EnvTypes
<1>7. Teams'
  BY <1>4 DEF Shape, Teams, Open
<1>8. Stacks'
  <2>1. \A u \in Thread : \A i \in 1..Len(running[u]) : running[u][i] \in TaskObj
    BY CurrentOK DEF Shape
  <2>2. QED
    BY <1>1, <1>4, <2>1 DEF Shape, Stacks, Level
<1>9. QED
  BY <1>5, <1>6, <1>7, <1>8 DEF Shape

(* So is what does not speak of regions.                                   *)
LEMMA RebindRest ==
  ASSUME Shape, OnlyTop, InUse, Started, Waits, Family, Fresh,
         NEW t \in Thread, NEW o \in TaskObj, Rebinds(t, o),
         t = Master => team = NoTeam \/ where[Master] # "outside"
  PROVE  OnlyTop' /\ InUse' /\ Started' /\ Waits' /\ Family' /\ Fresh'
<1>1. /\ \A x \in TaskObj : OnlyRegion(prof.task[x], prof'.task[x]) /\ Type(x)' = Type(x)
      /\ \A u : Bottom(u)' = Bottom(u)
      /\ \A x : (AtBarrier(x)' <=> AtBarrier(x)) /\ (Stacked(x)' <=> Stacked(x))
      /\ \A u \in Thread : \A i \in 1..Len(running[u]) : running[u][i] \in TaskObj
  BY RebindTasks
<1>2. \A x \in TaskObj :
        /\ prof'.task[x].parentTask = prof.task[x].parentTask
        /\ prof'.task[x].isStarted = prof.task[x].isStarted
        /\ prof'.task[x].inBarrier = prof.task[x].inBarrier
        /\ prof'.task[x].profilingActive = prof.task[x].profilingActive
  BY <1>1 DEF OnlyRegion
<1>3. /\ UNCHANGED <<running, queue, next, sync, children, team, where>>
      /\ prof'.active = prof.active /\ EnvTypes
  BY DEF Rebinds, env, Effect, Shape
<1>4. \A x \in TaskObj : Type(x) = "explicit" => prof.task[x].parentTask \in TaskObj
  BY DEF Shape, ProfileOK, Type
<1>5. OnlyTop'
  BY <1>1, <1>3 DEF OnlyTop
<1>6. InUse'
  BY <1>1, <1>3 DEF InUse
<1>7. Started'
  BY <1>1, <1>2, <1>3 DEF Started
<1>8. Waits'
  BY <1>1, <1>2, <1>3 DEF Waits
<1>9. Family'
  BY <1>1, <1>2, <1>3, <1>4 DEF Family
<1>10. Fresh'
  <2>1. prof'.failure = prof.failure /\ prof'.stale = prof.stale
    BY DEF Rebinds, Effect, Frame
  <2>2. t # Master /\ Master \in prof.now => Master \in prof'.now
    BY DEF Rebinds, Effect
  <2>3. QED
    BY <1>3, <2>1, <2>2 DEF Fresh
<1>11. QED
  BY <1>5, <1>6, <1>7, <1>8, <1>9, <1>10

(* Tasks stay bound, but the one that moves is free of its key.            *)
LEMMA RebindBounds ==
  ASSUME NEW U, NEW V, Shape, Family, Bounds(U),
         NEW t \in Thread, NEW o \in TaskObj, U \subseteq V \cup {o}, Rebinds(t, o),
         OnStack(running[t], o),
         children[o] = {}, Type(o) = "explicit" /\ o \notin V => KeyHolds(prof', o)
  PROVE  Bounds(V)'
<1>1. /\ \A x \in TaskObj : OnlyRegion(prof.task[x], prof'.task[x]) /\ Type(x)' = Type(x)
      /\ \A x \in TaskObj \ {o} : prof'.task[x] = prof.task[x]
      /\ \A u \in Thread : \A i \in 1..Len(running[u]) : running[u][i] \in TaskObj
  BY RebindTasks
<1>2. /\ ProfileOK(prof) /\ ProfileOK(prof') /\ Frame(prof, prof', t, {o})
      /\ prof'.active = prof.active /\ running' = running /\ Bound(prof', t, o)
  BY DEF Rebinds, Effect, env
<1>3. ASSUME NEW u \in Thread, NEW i \in 1..Len(running[u]), NEW x \in TaskObj, x = running[u][i]
      PROVE  /\ Type(x)' \in {"initial", "implicit"} => Bound(prof', u, x)
             /\ Type(x)' = "explicit" /\ prof'.active =>
                  Bound(prof', u, x) /\ (x \notin V => KeyHolds(prof', x))
  <2>1. CASE x = o
    <3>1. u = t
      <4>1. Apart(running)
        BY DEF Shape, Placed
      <4>2. PICK j \in 1..Len(running[t]) : running[t][j] = o
        BY DEF OnStack
      <4>3. QED
        BY <1>3, <2>1, <4>1, <4>2 DEF Apart
    <3>2. QED
      BY <1>1, <1>2, <2>1, <3>1
  <2>2. CASE x # o
    <3>1. prof'.task[x] = prof.task[x] /\ Type(x)' = Type(x) /\ (x \notin V => x \notin U)
      BY <1>1, <2>2
    <3>2. DOMAIN prof.exc \subseteq DOMAIN prof'.exc
      BY <1>2 DEF Frame
    <3>3. Bound(prof, u, x) => Bound(prof', u, x)
      BY <3>1, <3>2 DEF Bound
    <3>4. /\ Type(x) \in {"initial", "implicit"} => Bound(prof, u, x)
          /\ Type(x) = "explicit" /\ prof.active =>
               Bound(prof, u, x) /\ (x \notin U => KeyHolds(prof, x))
      BY <1>3 DEF Bounds
    <3>5. ASSUME Type(x) = "explicit", Bound(prof, u, x), KeyHolds(prof, x)
          PROVE  KeyHolds(prof', x)
      <4>1. PICK y \in TaskObj : y = prof.task[x].parentTask
        BY <1>2, <3>5 DEF ProfileOK, Type
      <4>2. x \in children[y]
        BY <3>5, <4>1 DEF Family
      <4>3. y # o
        BY <4>2
      <4>4. prof'.task[y].rData = prof.task[y].rData
        BY <1>1, <4>3
      <4>5. prof.task[x].rData \in DOMAIN prof.exc
        BY <3>5 DEF Bound
      <4>6. QED
        BY <1>2, <3>1, <3>5, <4>1, <4>4, <4>5, KeyHoldsStable
    <3>6. QED
      BY <1>2, <3>1, <3>3, <3>4, <3>5
  <2>3. QED
    BY <2>1, <2>2
<1>4. QED
  BY <1>1, <1>2, <1>3 DEF Bounds

(* A handler that moves the task on top of thread t to another region.     *)
(* Task o of thread t, which runs it, moves to another region; the tasks   *)
(* in user regions change from U to V in no more than o, and the inclusive *)
(* measurements that go on there from N to M.                              *)
Rebound(t, o, U, V, N, M) ==
  /\ U \subseteq V \cup {o} /\ V \subseteq U \cup {o} /\ Rebinds(t, o)
  /\ Len(running[t]) > 0 /\ o = Current(t) /\ Type(o) # "undeferred"
  /\ ~prof.task[o].inBarrier /\ (Type(o) = "initial" => ~Resting(t))
  /\ t = Master => team = NoTeam \/ where[Master] # "outside"
  /\ prof.active /\ children[o] = {}
  /\ Type(o) = "explicit" /\ o \notin V => KeyHolds(prof', o)
  /\ Books(prof', t, o, IncOf(prof, running[t]), M)
  /\ \A r \in Region : r.thread # t => M[r] = N[r]
  /\ \A r \in Region \ DOMAIN prof'.exc : M[r] = 0

(* The invariant is kept, and the books count what goes on.                *)
LEMMA RebindGood ==
  ASSUME NEW U, NEW N, Good(U, N), NEW V, NEW M, NEW t \in Thread, NEW o \in TaskObj,
         Rebound(t, o, U, V, N, M)
  PROVE  Good(V, M)'
<1> USE DEF Good, Rebound
<1>1. /\ Plain(prof, running[t]) /\ o = running[t][Len(running[t])]
      /\ Len(running[t]) \in 1..Len(running[t])
  BY TopPlain
<1>2. OnStack(running[t], o)
  BY <1>1 DEF OnStack
<1>3. Shape'
  BY RebindShape
<1>4. OnlyTop' /\ InUse' /\ Started' /\ Waits' /\ Family' /\ Fresh'
  BY RebindRest
<1>5. Bounds(V)'
  BY <1>2, RebindBounds
<1>6. /\ \A x \in TaskObj : OnlyRegion(prof.task[x], prof'.task[x]) /\ Type(x)' = Type(x)
      /\ \A u \in Thread : \A i \in 1..Len(running[u]) : running[u][i] \in TaskObj
  BY RebindTasks
<1>7. /\ Effect(t, {o}) /\ prof'.active = prof.active
      /\ UNCHANGED <<running, queue, team>> /\ EnvTypes
  BY DEF Rebinds, env, Effect, Shape
<1>8. Inner(V)'
  <2>1. ASSUME NEW x \in V
        PROVE  /\ Type(x)' = "explicit" => x \notin queue'
               /\ \A u \in Thread : \A i \in 1..Len(running'[u]) :
                    running'[u][i] = x /\ Type(x)' = "explicit" => i = Len(running'[u])
    <3>1. CASE x = o
      <4>1. o \notin queue
        BY <1>1, CurrentOK DEF Shape, Placed
      <4>2. ASSUME NEW u \in Thread, NEW i \in 1..Len(running[u]), running[u][i] = o
            PROVE  i = Len(running[u])
        BY <1>1, <4>2 DEF Shape, Placed, Apart
      <4>3. QED
        BY <1>7, <3>1, <4>1, <4>2
    <3>2. CASE x # o
      <4>1. x \in U
        BY <2>1, <3>2
      <4>2. CASE x \in TaskObj
        BY <1>6, <1>7, <4>1, <4>2 DEF Inner
      <4>3. CASE x \notin TaskObj
        BY <1>6, <1>7, <4>3 DEF EnvTypes
      <4>4. QED
        BY <4>2, <4>3
    <3>3. QED
      BY <3>1, <3>2
  <2>2. QED
    BY <2>1 DEF Inner
<1>9. ASSUME NEW u \in Thread, u # t PROVE Balance(u, M)'
  <2>1. running'[u] = running[u] /\ Resting(u)' = Resting(u)
    BY <1>7 DEF Resting
  <2>2. \A x \in {o} : ~OnStack(running[u], x)
    BY <1>1, <1>9 DEF Shape, Placed, Apart, OnStack
  <2>3. Balance(u, N)'
    BY <1>7, <1>9, <2>1, <2>2, OthersBalance
  <2>4. \A r \in DOMAIN prof'.exc : r.thread = u => M[r] = N[r]
    BY <1>9, <1>7 DEF Effect, ProfileOK
  <2>5. QED
    BY <2>3, <2>4, OtherBooks DEF Balance
<1>10. Balance(t, M)'
  <2>1. PICK p, q, s, rests : /\ p = prof /\ q = prof' /\ s = running[t] /\ rests = Resting(t)
    OBVIOUS
  <2>2. Resting(t)' = rests /\ running'[t] = s
    BY <1>7, <2>1 DEF Resting
  <2>3. ExcOf(p, s, rests) = o
    <3>1. Plain(p, s) /\ s[Len(s)] = o /\ p.active /\ ~p.task[o].inBarrier
          /\ ~(rests /\ p.task[o].Type = "initial")
      BY <1>1, <2>1 DEF Type
    <3>2. QED
      BY <3>1, PlainBooks
  <2>4. /\ s \in Seq(TaskObj) /\ q.active = p.active
        /\ \A i \in 1..Len(s) : /\ q.task[s[i]].Type = p.task[s[i]].Type
                               /\ q.task[s[i]].inBarrier = p.task[s[i]].inBarrier
    BY <1>6, <1>7, <2>1 DEF OnlyRegion, EnvTypes
  <2>5. Len(s) > 0 /\ p.task[s[1]].Type # "undeferred"
    BY <1>1, <2>1 DEF Plain
  <2>6. ExcOf(q, s, rests) = o /\ IncOf(q, s) = IncOf(p, s)
    BY <2>3, <2>4, <2>5, SameBooks
  <2>7. Books(q, t, o, IncOf(p, s), M)
    BY <2>1
  <2>8. QED
    BY <2>6, <2>1, <2>2, <2>7 DEF Balance
<1>11. QED
  BY <1>3, <1>4, <1>5, <1>8, <1>9, <1>10 DEF Balanced

-----------------------------------------------------------------------------
(* A task leaves its stack when it ends *)

(* A task that is not popped stays on the stacks.                          *)
LEMMA PoppedStays ==
  ASSUME EnvTypes, NEW t \in Thread, Len(running[t]) > 0, Pops(running, running', t),
         NEW x, Stacked(x), x # running[t][Len(running[t])]
  PROVE  Stacked(x)'
<1>1. PICK u \in Thread : OnStack(running[u], x)
  BY DEF Stacked
<1>2. PICK i \in 1..Len(running[u]) : running[u][i] = x
  BY <1>1 DEF OnStack
<1>3. CASE u # t
  BY <1>1, <1>3 DEF Stacked, Pops
<1>4. CASE u = t
  <2>1. PICK n \in Nat : n = Len(running[t])
    BY CurrentOK
  <2>2. i \in 1..n - 1
    BY <1>2, <1>4, <2>1
  <2>3. running'[t][i] = x /\ Len(running'[t]) = n - 1
    BY <1>2, <1>4, <2>1, <2>2 DEF Pops
  <2>4. QED
    BY <2>2, <2>3 DEF Stacked, OnStack
<1>5. QED
  BY <1>3, <1>4

(* A task on the stacks stays there when one is pushed.                    *)
LEMMA PushedStays ==
  ASSUME NEW t \in Thread, NEW o, Pushes(running, running', t, o), EnvTypes,
         NEW x, Stacked(x)
  PROVE  Stacked(x)'
<1>1. PICK u \in Thread : OnStack(running[u], x)
  BY DEF Stacked
<1>2. PICK i \in 1..Len(running[u]) : running[u][i] = x
  BY <1>1 DEF OnStack
<1>3. CASE u # t
  BY <1>1, <1>3 DEF Stacked, Pushes
<1>4. CASE u = t
  <2>1. PICK n \in Nat : n = Len(running[t])
    BY CurrentOK
  <2>2. i \in 1..n + 1
    BY <1>2, <1>4, <2>1
  <2>3. running'[t][i] = x /\ Len(running'[t]) = n + 1
    BY <1>2, <1>4, <2>1, <2>2 DEF Pushes
  <2>4. QED
    BY <2>2, <2>3 DEF Stacked, OnStack
<1>5. QED
  BY <1>3, <1>4

(* The initial task stays on its stack until it ends.                      *)
LEMMA InitialStays ==
  ASSUME Shape, Shape', [Next]_vars, NEW x \in TaskObj, Stacked(x),
         Type(x) = "initial", Type(x)' # "none"
  PROVE  Stacked(x)'
<1>1. EnvTypes
  BY DEF Shape
<1>2. CASE UNCHANGED running
  BY <1>2 DEF Stacked
<1>3. CASE InitialTaskBegin
  <2>1. /\ running[Master] = <<>> /\ Master \in Thread
        /\ \A u \in Thread : u # Master => running'[u] = running[u]
    BY <1>1, <1>3, TaskProfileAssumption DEF InitialTaskBegin, EnvTypes
  <2>2. PICK u \in Thread : OnStack(running[u], x)
    BY DEF Stacked
  <2>3. u # Master
    BY <1>1, <2>1, <2>2, CurrentOK DEF OnStack
  <2>4. QED
    BY <2>1, <2>2, <2>3 DEF Stacked
<1>4. CASE InitialTaskEnd
  <2>1. PICK o : o = Current(Master)
    OBVIOUS
  <2>2. /\ OnTop(Master) /\ Type(o) = "initial" /\ free' = free \cup {o}
        /\ running' = [running EXCEPT ![Master] = <<>>]
    BY <1>4, <2>1 DEF InitialTaskEnd, InProgram
  <2>3. /\ o \in TaskObj /\ Len(running[Master]) = 1 /\ Master \in Thread
        /\ o = running[Master][1]
    BY <2>1, <2>2, InitialOnTop, TaskProfileAssumption
  <2>4. Type(o)' = "none"
    BY <2>2, <2>3 DEF Shape, Placed
  <2>5. PICK u \in Thread : OnStack(running[u], x)
    BY DEF Stacked
  <2>6. x # o
    BY <2>4
  <2>7. u # Master
    BY <2>3, <2>5, <2>6 DEF OnStack
  <2>8. running'[u] = running[u]
    BY <1>1, <2>2, <2>7 DEF EnvTypes
  <2>9. QED
    BY <2>5, <2>8 DEF Stacked
<1>5. ASSUME NEW t \in Thread, ImplicitBegin(t) PROVE Stacked(x)'
  <2>1. PICK o \in TaskObj : running' = [running EXCEPT ![t] = Append(@, o)]
    BY <1>1, <1>5 DEF ImplicitBegin, EnvTypes
  <2>2. QED
    BY <1>1, <2>1, PushOK, PushedStays DEF EnvTypes
<1>6. ASSUME NEW t \in Thread, NEW o \in TaskObj, Switch(t, o) PROVE Stacked(x)'
  <2>1. running' = [running EXCEPT ![t] = Append(@, o)]
    BY <1>6 DEF Switch
  <2>2. QED
    BY <1>1, <2>1, PushOK, PushedStays DEF EnvTypes
<1>7. ASSUME NEW t \in Thread, ImplicitEnd(t) PROVE Stacked(x)'
  <2>1. where[t] = "leaving" /\ running' = [running EXCEPT ![t] = Front(@)]
    BY <1>7 DEF ImplicitEnd
  <2>2. Len(running[t]) > 0
    BY <2>1 DEF Shape, Stacks, Base
  <2>3. Pops(running, running', t)
    BY <1>1, <2>1, <2>2, PopOK DEF EnvTypes
  <2>4. running[t][Len(running[t])] = Bottom(t) /\ Type(Bottom(t)) = "implicit"
    BY <2>1, Bottoms DEF Shape, Stacks, Bottom
  <2>5. QED
    BY <1>1, <2>2, <2>3, <2>4, PoppedStays
<1>8. ASSUME NEW t \in Thread, Complete(t) PROVE Stacked(x)'
  <2>1. /\ OnTop(t) /\ Type(Current(t)) \in {"explicit", "undeferred"}
        /\ running' = [running EXCEPT ![t] = Front(@)]
    BY <1>8 DEF Complete, InProgram
  <2>2. Len(running[t]) > 0 /\ Current(t) = running[t][Len(running[t])]
    BY <2>1, OnTopOK
  <2>3. Pops(running, running', t)
    BY <1>1, <2>1, <2>2, PopOK DEF EnvTypes
  <2>4. QED
    BY <1>1, <2>1, <2>2, <2>3, PoppedStays
<1>9. CASE ParallelRegionBegin \/ ParallelRegionEnd \/ BarrierOpens
  BY <1>2, <1>9 DEF ParallelRegionBegin, ParallelRegionEnd, BarrierOpens
<1>10. ASSUME NEW t \in Thread, BarrierBegin(t) \/ BarrierEnd(t) PROVE Stacked(x)'
  BY <1>2, <1>10 DEF BarrierBegin, BarrierEnd
<1>11. ASSUME NEW t \in Thread, NEW kind, RegionBegin(t, kind) \/ RegionEnd(t) PROVE Stacked(x)'
  BY <1>2, <1>11 DEF RegionBegin, RegionEnd
<1>12. ASSUME NEW t, NEW type, NEW code, CreateTask(t, type, code) PROVE Stacked(x)'
  BY <1>2, <1>12 DEF CreateTask
<1>13. ASSUME NEW on, Control(on) PROVE Stacked(x)'
  BY <1>2, <1>13 DEF Control, env
<1>14. CASE Stopped \/ UNCHANGED vars
  BY <1>2, <1>14 DEF Stopped, vars, env
<1>15. QED
  BY <1>3, <1>4, <1>5, <1>6, <1>7, <1>8, <1>9, <1>10, <1>11, <1>12, <1>13, <1>14 DEF Next

-----------------------------------------------------------------------------
(* The user regions tasks are in *)

Entry == [name : UserCode, above : Region \cup {NoRegion}]

(* The regions that were left for a user region, given what tasks are in;  *)
(* those that were left for one in r; and how many these are.              *)
Openings(f) == {e \in TaskObj \X (1..MaxUser) : e[2] \in DOMAIN f[e[1]]}
Above(f, r) == {e \in Openings(f) : f[e[1]][e[2]].above = r}
More(f) == [r \in Region |-> Cardinality(Above(f, r))]

(* Task o enters one more user region.                                     *)
Enters(f, g, o, x) ==
  /\ f \in [TaskObj -> Seq(Entry)] /\ g \in [TaskObj -> Seq(Entry)]
  /\ \A y \in TaskObj \ {o} : g[y] = f[y]
  /\ Len(g[o]) = Len(f[o]) + 1 /\ Len(g[o]) <= MaxUser
  /\ \A i \in 1..Len(f[o]) : g[o][i] = f[o][i]
  /\ g[o][Len(g[o])] = x

(* A begin appends an entry to the stack of the task.                      *)
LEMMA EnterAppend ==
  ASSUME NEW f \in [TaskObj -> Seq(Entry)], NEW o \in TaskObj, NEW x \in Entry,
         Len(f[o]) < MaxUser
  PROVE  Enters(f, [f EXCEPT ![o] = Append(@, x)], o, x)
<1> DEFINE g == [f EXCEPT ![o] = Append(@, x)]
<1>1. MaxUser \in Nat
  BY UserRegionsAssumption
<1>2. PICK s \in Seq(Entry) : s = f[o]
  OBVIOUS
<1>3. /\ Append(s, x) \in Seq(Entry) /\ Len(Append(s, x)) = Len(s) + 1
      /\ \A i \in 1..Len(s) + 1 : \/ i \in 1..Len(s) /\ Append(s, x)[i] = s[i]
                                  \/ i = Len(s) + 1 /\ Append(s, x)[i] = x
  BY AppendFacts
<1>4. PICK n \in Nat : n = Len(s)
  BY LenProperties
<1>5. g \in [TaskObj -> Seq(Entry)] /\ g[o] = Append(s, x) /\ \A y \in TaskObj \ {o} : g[y] = f[y]
  BY <1>2, <1>3
<1>6. n < MaxUser /\ n + 1 <= MaxUser
  BY <1>1, <1>2, <1>4
<1>7. \A i \in 1..n : i \in 1..n + 1 /\ i # n + 1
  BY <1>4
<1>8. n + 1 \in 1..n + 1 /\ n + 1 \notin 1..n
  BY <1>4
<1>9. \A i \in 1..n : g[o][i] = f[o][i]
  BY <1>2, <1>3, <1>4, <1>5, <1>7
<1>10. g[o][n + 1] = x /\ Len(g[o]) = n + 1
  BY <1>3, <1>4, <1>5, <1>8
<1>11. QED
  BY <1>2, <1>4, <1>5, <1>6, <1>9, <1>10 DEF Enters

(* An end takes the last entry from it.                                    *)
LEMMA LeaveFront ==
  ASSUME NEW f \in [TaskObj -> Seq(Entry)], NEW o \in TaskObj, f[o] # <<>>,
         Len(f[o]) <= MaxUser
  PROVE  /\ Enters([f EXCEPT ![o] = Front(@)], f, o, f[o][Len(f[o])])
         /\ Last(f[o]) = f[o][Len(f[o])]
<1> DEFINE g == [f EXCEPT ![o] = Front(@)]
<1>1. PICK s \in Seq(Entry) : s = f[o]
  OBVIOUS
<1>2. /\ Len(s) \in Nat \ {0} /\ Front(s) \in Seq(Entry) /\ Len(Front(s)) = Len(s) - 1
      /\ \A i \in 1..Len(s) - 1 : Front(s)[i] = s[i]
  BY <1>1, PopFacts DEF Front
<1>3. PICK n \in Nat : Len(s) = n + 1
  BY <1>2
<1>4. g \in [TaskObj -> Seq(Entry)] /\ g[o] = Front(s) /\ \A y \in TaskObj \ {o} : f[y] = g[y]
  BY <1>1, <1>2
<1>5. Len(g[o]) = n /\ \A i \in 1..n : f[o][i] = g[o][i]
  BY <1>1, <1>2, <1>3, <1>4
<1>6. Last(f[o]) = f[o][Len(f[o])]
  BY DEF Last
<1>7. QED
  BY <1>1, <1>3, <1>4, <1>5, <1>6 DEF Enters

(* e is the opening it adds.                                               *)
Adds(f, g, x, e) ==
  /\ Openings(g) = Openings(f) \cup {e} /\ e \notin Openings(f)
  /\ g[e[1]][e[2]] = x
  /\ \A d \in Openings(f) : g[d[1]][d[2]] = f[d[1]][d[2]]

(* Entering a user region adds one opening.                                *)
LEMMA EnterOpenings ==
  ASSUME NEW f, NEW g, NEW o \in TaskObj, NEW x, Enters(f, g, o, x),
         NEW e, e = <<o, Len(g[o])>>
  PROVE  Adds(f, g, x, e)
<1>1. PICK n \in Nat : n = Len(f[o])
  BY LenProperties DEF Enters
<1>2. /\ Len(g[o]) = n + 1 /\ n + 1 \in 1..MaxUser
      /\ \A i \in 1..n : g[o][i] = f[o][i]
      /\ g[o][n + 1] = x
  BY <1>1, UserRegionsAssumption DEF Enters
<1>3. /\ \A y \in TaskObj : DOMAIN f[y] = 1..Len(f[y]) /\ DOMAIN g[y] = 1..Len(g[y])
      /\ \A y \in TaskObj \ {o} : g[y] = f[y]
  BY LenProperties DEF Enters
<1>4. DOMAIN f[o] = 1..n /\ DOMAIN g[o] = 1..(n + 1)
  BY <1>1, <1>2, <1>3
<1>5. \A i : i \in 1..(n + 1) <=> i \in 1..n \/ i = n + 1
  BY <1>1
<1>6. n + 1 \notin 1..n
  BY <1>1
<1>7. e = <<o, n + 1>>
  BY <1>2
<1>8. e \in TaskObj \X (1..MaxUser) /\ e[1] = o /\ e[2] = n + 1
  BY <1>2, <1>7
<1>9. \A d \in TaskObj \X (1..MaxUser) : d = e <=> d[1] = o /\ d[2] = n + 1
  BY <1>7
<1>10. \A d \in TaskObj \X (1..MaxUser) : d[1] \in TaskObj
  OBVIOUS
<1>11. ASSUME NEW d \in TaskObj \X (1..MaxUser)
       PROVE  d[2] \in DOMAIN g[d[1]] <=> d[2] \in DOMAIN f[d[1]] \/ d = e
  <2>1. CASE d[1] = o
    BY <1>4, <1>5, <1>9, <2>1
  <2>2. CASE d[1] # o
    <3>1. g[d[1]] = f[d[1]] /\ d # e
      BY <1>3, <1>8, <1>10, <2>2
    <3>2. QED
      BY <3>1
  <2>3. QED
    BY <2>1, <2>2
<1>12. Openings(g) = Openings(f) \cup {e}
  BY <1>8, <1>11 DEF Openings
<1>13. e \notin Openings(f)
  BY <1>4, <1>6, <1>8 DEF Openings
<1>14. ASSUME NEW d \in Openings(f) PROVE g[d[1]][d[2]] = f[d[1]][d[2]]
  <2>1. d \in TaskObj \X (1..MaxUser) /\ d[2] \in DOMAIN f[d[1]]
    BY <1>14 DEF Openings
  <2>2. CASE d[1] = o
    BY <1>2, <1>4, <2>1, <2>2
  <2>3. CASE d[1] # o
    BY <1>3, <1>10, <2>1, <2>3
  <2>4. QED
    BY <2>2, <2>3
<1>15. g[e[1]][e[2]] = x
  BY <1>2, <1>8
<1>16. QED
  BY <1>12, <1>13, <1>14, <1>15 DEF Adds

(* ... and one more task is measured in the region it left for it.         *)
LEMMA EnterCounts ==
  ASSUME NEW f, NEW g, NEW o \in TaskObj, NEW x, Enters(f, g, o, x),
         IsFiniteSet(Openings(f)), x.above \in Region
  PROVE  /\ IsFiniteSet(Openings(g)) /\ More(f) \in [Region -> Nat]
         /\ More(g) = [More(f) EXCEPT ![x.above] = @ + 1]
<1>1. PICK e : e = <<o, Len(g[o])>>
  OBVIOUS
<1>2. Adds(f, g, x, e)
  BY <1>1, EnterOpenings
<1>3. /\ Openings(g) = Openings(f) \cup {e} /\ e \notin Openings(f)
      /\ g[e[1]][e[2]] = x
      /\ \A d \in Openings(f) : g[d[1]][d[2]] = f[d[1]][d[2]]
  BY <1>2 DEF Adds
<1>4. IsFiniteSet(Openings(g))
  BY <1>3, FS_AddElement
<1>5. ASSUME NEW r \in Region
      PROVE  /\ Cardinality(Above(f, r)) \in Nat
             /\ r = x.above => Cardinality(Above(g, r)) = Cardinality(Above(f, r)) + 1
             /\ r # x.above => Cardinality(Above(g, r)) = Cardinality(Above(f, r))
  <2>1. PICK A, B : A = Above(f, r) /\ B = Above(g, r)
    OBVIOUS
  <2>2. A \subseteq Openings(f) /\ e \notin A
    BY <1>3, <2>1 DEF Above
  <2>3. IsFiniteSet(A)
    BY <2>2, FS_Subset
  <2>4. r = x.above => B = A \cup {e}
    BY <1>3, <2>1 DEF Above
  <2>5. r # x.above => B = A
    BY <1>3, <2>1 DEF Above
  <2>6. Cardinality(A) \in Nat /\ Cardinality(A \cup {e}) = Cardinality(A) + 1
    BY <2>2, <2>3, FS_AddElement, FS_CardinalityType
  <2>7. QED
    BY <2>1, <2>4, <2>5, <2>6
<1>6. More(f) \in [Region -> Nat]
  BY <1>5 DEF More
<1>7. \A r \in Region : [More(f) EXCEPT ![x.above] = @ + 1][r] = More(g)[r]
  BY <1>5 DEF More
<1>8. QED
  BY <1>4, <1>6, <1>7 DEF More

(* The region a task with stack s of user regions is in after i of them,   *)
(* when it is in region r after all.                                       *)
Nth(r, s, i) == IF i = Len(s) THEN r ELSE s[i + 1].above

CodeOf(p, r) == p.regions[r.id][1]

(* The regions on the stack are known, belong to the thread, and have the  *)
(* names the program gave them; sp leads from each to the one above it.    *)
Chain(p, sp, r, s) ==
  /\ \A i \in 0..Len(s) : Nth(r, s, i) \in DOMAIN p.exc /\ Nth(r, s, i).thread = r.thread
  /\ CodeOf(p, Nth(r, s, 0)) \notin UserCode
  /\ \A i \in 1..Len(s) : /\ CodeOf(p, Nth(r, s, i)) = s[i].name
                          /\ Lookup(sp, Nth(r, s, i)) = s[i].above

(* Sequence z is s with x at its end.                                      *)
Longer(s, z, x) ==
  /\ Len(s) \in Nat /\ Len(z) = Len(s) + 1
  /\ \A i \in 1..Len(s) : z[i] = s[i]
  /\ z[Len(z)] = x

(* Entering makes the stack of the task one longer.                        *)
LEMMA EnterLonger ==
  ASSUME NEW f, NEW g, NEW o \in TaskObj, NEW x, Enters(f, g, o, x)
  PROVE  Longer(f[o], g[o], x)
BY LenProperties DEF Enters, Longer

(* The regions under the new one are those there were.                     *)
LEMMA NthLonger ==
  ASSUME NEW s, NEW z, NEW x, Longer(s, z, x), NEW r
  PROVE  /\ \A i \in 0..Len(s) : Nth(r, z, i) = Nth(x.above, s, i)
         /\ Nth(r, z, Len(z)) = r
<1>1. PICK n \in Nat : n = Len(s)
  BY DEF Longer
<1>2. Len(z) = n + 1 /\ (\A i \in 1..n : z[i] = s[i]) /\ z[n + 1] = x
  BY <1>1 DEF Longer
<1>3. ASSUME NEW i \in 0..n PROVE Nth(r, z, i) = Nth(x.above, s, i)
  <2>1. CASE i = n
    BY <1>1, <1>2, <2>1 DEF Nth
  <2>2. CASE i # n
    <3>1. i + 1 \in 1..n /\ i # n + 1
      BY <1>1, <2>2
    <3>2. QED
      BY <1>1, <1>2, <2>2, <3>1 DEF Nth
  <2>3. QED
    BY <2>1, <2>2
<1>4. QED
  BY <1>1, <1>3 DEF Nth

(* What a map that has grown returns.                                      *)
LEMMA LookupPut ==
  ASSUME NEW f, NEW b, NEW c, NEW y
  PROVE  Lookup(Put(f, b, c), y) = IF y = b THEN c ELSE Lookup(f, y)
BY DEF Lookup, Put

(* More regions change no chain ...                                        *)
LEMMA ChainKept ==
  ASSUME NEW p, NEW q, ProfileOK(p), DOMAIN p.exc \subseteq DOMAIN q.exc,
         \A i \in DOMAIN p.regions : q.regions[i] = p.regions[i],
         NEW sp, NEW r, NEW s, Len(s) \in Nat, Chain(p, sp, r, s)
  PROVE  Chain(q, sp, r, s)
<1>1. \A y \in DOMAIN p.exc : y \in DOMAIN q.exc /\ CodeOf(q, y) = CodeOf(p, y)
  BY DEF ProfileOK, CodeOf
<1>2. \A i \in 1..Len(s) : i \in 0..Len(s)
  OBVIOUS
<1>3. 0 \in 0..Len(s)
  OBVIOUS
<1>4. QED
  BY <1>1, <1>2, <1>3 DEF Chain

(* ... nor does the parent of a region that is not on it.                  *)
LEMMA ChainOther ==
  ASSUME NEW p, NEW sp, NEW r, NEW s, Chain(p, sp, r, s), NEW b, NEW c,
         \A i \in 1..Len(s) : Nth(r, s, i) # b
  PROVE  Chain(p, Put(sp, b, c), r, s)
BY LookupPut DEF Chain

(* Beginning a region that is not on the chain makes it longer.            *)
LEMMA ChainPush ==
  ASSUME NEW p, NEW sp, NEW r, NEW s, Chain(p, sp, r, s), NEW z, NEW x, Longer(s, z, x),
         x.above = r, NEW u \in DOMAIN p.exc, u.thread = r.thread, CodeOf(p, u) = x.name,
         \A i \in 1..Len(s) : Nth(r, s, i) # u
  PROVE  Chain(p, Put(sp, u, r), u, z)
<1>1. PICK n \in Nat : n = Len(s)
  BY DEF Longer
<1>2. Len(z) = n + 1 /\ (\A i \in 1..n : z[i] = s[i]) /\ z[n + 1] = x
  BY <1>1 DEF Longer
<1>3. (\A i \in 0..n : Nth(u, z, i) = Nth(r, s, i)) /\ Nth(u, z, n + 1) = u
  BY <1>1, <1>2, NthLonger
<1>4. PICK sq : sq = Put(sp, u, r)
  OBVIOUS
<1>5. Chain(p, sq, r, s) /\ Lookup(sq, u) = r
  BY <1>4, ChainOther, LookupPut
<1>6. (\A i \in 0..n + 1 : i \in 0..n \/ i = n + 1) /\ (\A i \in 1..n + 1 : i \in 1..n \/ i = n + 1)
      /\ (\A i \in 1..n : i \in 0..n) /\ 0 \in 0..n
  BY <1>1
<1>7. \A i \in 0..n + 1 : Nth(u, z, i) \in DOMAIN p.exc /\ Nth(u, z, i).thread = u.thread
  BY <1>1, <1>3, <1>5, <1>6 DEF Chain
<1>8. CodeOf(p, Nth(u, z, 0)) \notin UserCode
  BY <1>3, <1>5, <1>6 DEF Chain
<1>9. \A i \in 1..n + 1 : CodeOf(p, Nth(u, z, i)) = z[i].name /\ Lookup(sq, Nth(u, z, i)) = z[i].above
  <2>1. CodeOf(p, Nth(u, z, n + 1)) = z[n + 1].name /\ Lookup(sq, Nth(u, z, n + 1)) = z[n + 1].above
    BY <1>2, <1>3, <1>5
  <2>2. \A i \in 1..n : CodeOf(p, Nth(u, z, i)) = z[i].name /\ Lookup(sq, Nth(u, z, i)) = z[i].above
    BY <1>1, <1>2, <1>3, <1>5, <1>6 DEF Chain
  <2>3. QED
    BY <1>6, <2>1, <2>2
<1>10. QED
  BY <1>2, <1>4, <1>7, <1>8, <1>9 DEF Chain

(* Ending a region leads to the one that was left for it.                  *)
LEMMA ChainPop ==
  ASSUME NEW p, NEW sp, NEW r, NEW z, Chain(p, sp, r, z), NEW s, NEW x, Longer(s, z, x),
         NEW a, a = x.above, NEW c, \A i \in 1..Len(s) : Nth(r, z, i) # r
  PROVE  /\ Chain(p, Put(sp, r, c), a, s)
         /\ a \in DOMAIN p.exc /\ a.thread = r.thread /\ Lookup(sp, r) = a
         /\ r \in DOMAIN p.exc /\ CodeOf(p, r) = x.name
<1>1. PICK n \in Nat : n = Len(s)
  BY DEF Longer
<1>2. Len(z) = n + 1 /\ (\A i \in 1..n : z[i] = s[i]) /\ z[n + 1] = x
  BY <1>1 DEF Longer
<1>3. (\A i \in 0..n : Nth(r, z, i) = Nth(a, s, i)) /\ Nth(r, z, n + 1) = r
  BY <1>1, <1>2, NthLonger
<1>4. (\A i \in 0..n : i \in 0..n + 1) /\ (\A i \in 1..n : i \in 1..n + 1 /\ i \in 0..n)
      /\ 0 \in 0..n /\ n \in 0..n /\ n + 1 \in 1..n + 1 /\ n + 1 \in 0..n + 1
  BY <1>1
<1>5. /\ \A i \in 0..n + 1 : Nth(r, z, i) \in DOMAIN p.exc /\ Nth(r, z, i).thread = r.thread
      /\ CodeOf(p, Nth(r, z, 0)) \notin UserCode
      /\ \A i \in 1..n + 1 : /\ CodeOf(p, Nth(r, z, i)) = z[i].name
                             /\ Lookup(sp, Nth(r, z, i)) = z[i].above
  BY <1>2 DEF Chain
<1>6. Nth(a, s, n) = a
  BY <1>1 DEF Nth
<1>7. /\ a \in DOMAIN p.exc /\ a.thread = r.thread /\ Lookup(sp, r) = a
      /\ r \in DOMAIN p.exc /\ CodeOf(p, r) = x.name
  BY <1>2, <1>3, <1>4, <1>5, <1>6
<1>8. /\ \A i \in 0..n : Nth(a, s, i) \in DOMAIN p.exc /\ Nth(a, s, i).thread = a.thread
      /\ CodeOf(p, Nth(a, s, 0)) \notin UserCode
  BY <1>3, <1>4, <1>5, <1>7
<1>9. \A i \in 1..n : CodeOf(p, Nth(a, s, i)) = s[i].name /\ Lookup(sp, Nth(a, s, i)) = s[i].above
  BY <1>2, <1>3, <1>4, <1>5
<1>10. \A i \in 1..n : Nth(a, s, i) # r
  BY <1>1, <1>3, <1>4
<1>11. Chain(p, sp, a, s)
  BY <1>1, <1>8, <1>9 DEF Chain
<1>12. QED
  BY <1>1, <1>7, <1>10, <1>11, ChainOther

-----------------------------------------------------------------------------
(* The inductive invariant of programs with user regions *)

(* Programs that begin and end user regions by name, and no others.        *)
UserWell == WellStructured /\ UserFeatures = {}

InUserRegion == {o \in TaskObj : open[o] # <<>>}

UserTypes ==
  /\ DOMAIN user = {"map", "sParent", "data"}
  /\ user.map = [t \in Thread |-> user.map[t]]
  /\ open \in [TaskObj -> Seq(Entry)]

Accounts == \E U, N : U = InUserRegion /\ N = More(open) /\ Good(U, N)

(* A task in a user region is begun, measured and has no children.         *)
UserKind == {"initial", "implicit", "explicit"}

Users ==
  \A o \in InUserRegion :
    prof.active /\ Stacked(o) /\ Type(o) \in UserKind /\ children[o] = {}

(* The region b is that of the construct task x comes from.                *)
KeyOf(p, x, b) ==
  p.regions[b.id] = Key(p, p.task[x].codePtr, p.task[p.task[x].parentTask].rData)

(* Below the user regions of a task is the region it was bound to first.   *)
Linked(x) ==
  Begun(x) =>
    /\ Chain(prof, user.sParent, prof.task[x].rData, open[x])
    /\ Type(x) = "explicit" => KeyOf(prof, x, Nth(prof.task[x].rData, open[x], 0))

Links == \A x \in TaskObj : Linked(x)

(* No region is on two stacks, nor twice on one.                           *)
Distinct ==
  \A x, y \in TaskObj : \A i \in 1..Len(open[x]), j \in 1..Len(open[y]) :
    Nth(prof.task[x].rData, open[x], i) = Nth(prof.task[y].rData, open[y], j) => x = y /\ i = j

(* The regions a thread knows by name.                                     *)
Mapped ==
  /\ \A t \in Thread : \A name \in DOMAIN user.map[t] :
       /\ name \in UserCode /\ user.map[t][name] \in DOMAIN prof.exc
       /\ user.map[t][name].thread = t /\ CodeOf(prof, user.map[t][name]) = name
  /\ \A r \in DOMAIN user.sParent : user.sParent[r] \in Region \cup {NoRegion}

Limits ==
  /\ begun \in 0..MaxUser /\ IsFiniteSet(Openings(open))
  /\ \A o \in TaskObj : Len(open[o]) <= begun

Coded == \A x \in TaskObj : Type(x) = "explicit" => prof.task[x].codePtr \in TaskCode

UserSound ==
  Accounts /\ UserTypes /\ Users /\ Links /\ Distinct /\ Mapped /\ Limits /\ Coded

(* How many measurements go on beside is a number.                         *)
LEMMA MoreType ==
  ASSUME NEW f, IsFiniteSet(Openings(f))
  PROVE  More(f) \in [Region -> Nat]
<1>1. ASSUME NEW r \in Region PROVE Cardinality(Above(f, r)) \in Nat
  <2>1. Above(f, r) \subseteq Openings(f)
    BY DEF Above
  <2>2. QED
    BY <2>1, FS_Subset, FS_CardinalityType
<1>2. QED
  BY <1>1 DEF More

(* The invariant holds when the program starts.                            *)
LEMMA InitUserSound == UserInit => UserSound
<1> SUFFICES ASSUME UserInit PROVE UserSound
  OBVIOUS
<1>1. Sound
  BY InitGood DEF UserInit
<1>2. /\ open = [o \in TaskObj |-> <<>>] /\ begun = 0
      /\ user = [map |-> [t \in Thread |-> <<>>], sParent |-> <<>>,
                 data |-> [name \in UserCode |-> NoRegion]]
  BY DEF UserInit
<1>3. UserTypes
  <2>1. open \in [TaskObj -> Seq(Entry)]
    BY <1>2, EmptySeq
  <2>2. DOMAIN user = {"map", "sParent", "data"} /\ user.map = [t \in Thread |-> <<>>]
    BY <1>2
  <2>3. QED
    BY <2>1, <2>2 DEF UserTypes
<1>4. \A o \in TaskObj : Len(open[o]) = 0 /\ open[o] = <<>> /\ DOMAIN open[o] = {}
  BY <1>2
<1>5. InUserRegion = {} /\ Openings(open) = {}
  BY <1>4 DEF InUserRegion, Openings
<1>6. More(open) = NoMore
  BY <1>5, FS_EmptySet DEF More, Above, NoMore
<1>7. Accounts
  BY <1>1, <1>5, <1>6 DEF Accounts, Sound
<1>8. Users
  BY <1>5 DEF Users
<1>9. \A x \in TaskObj : Type(x) = "none" /\ ~Stacked(x)
  <2>1. \A x \in TaskObj : Type(x) = "none"
    BY DEF UserInit, Init, Type, Blank
  <2>2. QED
    BY <1>1, <2>1, NotOnStack DEF Sound, Good
<1>10. Links /\ Coded
  BY <1>9 DEF Links, Linked, Begun, Coded
<1>11. Distinct
  BY <1>4 DEF Distinct
<1>12. Mapped
  BY <1>2 DEF Mapped
<1>13. Limits
  <2>1. MaxUser \in Nat /\ IsFiniteSet(Openings(open))
    BY <1>5, FS_EmptySet, UserRegionsAssumption
  <2>2. \A o \in TaskObj : Len(open[o]) <= begun
    BY <1>2, <1>4
  <2>3. begun \in 0..MaxUser
    BY <1>2, <2>1
  <2>4. QED
    BY <2>1, <2>2, <2>3 DEF Limits
<1>14. QED
  BY <1>3, <1>7, <1>8, <1>10, <1>11, <1>12, <1>13 DEF UserSound

-----------------------------------------------------------------------------
(* Steps of the program outside of user regions *)

Quiet == [Next]_vars /\ Nested /\ UNCHANGED <<user, open, begun>>

(* An explicit task in a user region neither waits nor moves.              *)
LEMMA QuietWithin ==
  ASSUME UserWell, Users, UserTypes, Quiet, NEW U, U = InUserRegion
  PROVE  Within(U)
<1>1. "tasks" \notin UserFeatures
  BY DEF UserWell
<1>2. \A o \in TaskObj : open[o] # <<>> /\ Type(o) = "explicit" => sync'[o] = sync[o]
  BY <1>1 DEF Quiet, Nested
<1>3. \A t \in Thread :
        running[t] # <<>> /\ open[Current(t)] # <<>> /\ Type(Current(t)) = "explicit" =>
          running'[t] = running[t]
  BY <1>1 DEF Quiet, Nested
<1>4. \A t : Len(running[t]) > 0 => running[t] # <<>>
  OBVIOUS
<1>5. \A o \in U : o \in TaskObj /\ open[o] # <<>>
  BY DEF InUserRegion
<1>6. \A o \in U : Type(o) \in UserKind
  BY DEF Users
<1>7. \A o \in U : Type(o) # "none"
  BY <1>6 DEF UserKind
<1>8. QED
  BY <1>2, <1>3, <1>4, <1>5, <1>7 DEF Within

(* Other steps keep the books and the bindings.                            *)
LEMMA QuietGood ==
  ASSUME UserWell, UserSound, Quiet
  PROVE  \E U, N : /\ U = InUserRegion /\ N = More(open)
                   /\ Good(U, N) /\ Good(U, N)' /\ Kept /\ Moved
<1>1. PICK U, N : U = InUserRegion /\ N = More(open) /\ Good(U, N)
  BY DEF UserSound, Accounts
<1>2. N \in [Region -> Nat]
  BY <1>1, MoreType DEF UserSound, Limits
<1>3. Within(U)
  BY <1>1, QuietWithin DEF UserSound
<1>4. Good(U, N)' /\ Kept
  BY <1>1, <1>2, <1>3, NextGood DEF UserWell, Quiet
<1>5. Moved
  BY <1>1, <1>4, NextMoved DEF Good, Kept, Quiet
<1>6. QED
  BY <1>1, <1>4, <1>5

(* A task in a user region stays there, begun and childless.               *)
LEMMA QuietUsers ==
  ASSUME UserWell, UserSound, Quiet, NEW U, NEW N, U = InUserRegion, Good(U, N), Good(U, N)'
  PROVE  Users'
<1>1. InUserRegion' = U
  BY DEF InUserRegion, Quiet
<1>2. ASSUME NEW o \in U
      PROVE  prof'.active /\ Stacked(o)' /\ Type(o)' \in UserKind /\ children'[o] = {}
  <2>1. o \in TaskObj /\ open[o] # <<>>
    BY <1>2 DEF InUserRegion
  <2>2. prof.active /\ Stacked(o) /\ Type(o) \in UserKind /\ children[o] = {}
    BY <1>2 DEF UserSound, Users
  <2>3. prof'.active = prof.active /\ prof'.task[o].Type = Type(o) /\ children'[o] = children[o]
    BY <2>1 DEF Quiet, Nested, UserWell
  <2>4. (Type(o)' = Type(o) /\ o \notin queue') \/ Type(o)' # "explicit"
    BY <1>2, <2>3 DEF Good, Inner, Type
  <2>5. Type(o)' = Type(o)
    BY <2>3 DEF Type
  <2>6. CASE Type(o) = "initial"
    <3>1. Shape /\ Shape' /\ [Next]_vars /\ Stacked(o) /\ Type(o)' # "none"
      BY <2>2, <2>5, <2>6 DEF Good, Quiet
    <3>2. Stacked(o)'
      BY <2>1, <2>6, <3>1, InitialStays
    <3>3. QED
      BY <2>2, <2>3, <2>5, <3>2
  <2>7. CASE Type(o) # "initial"
    <3>1. Type(o) = "implicit" \/ Type(o) = "explicit"
      BY <2>2, <2>7 DEF UserKind
    <3>2. Stacked(o)'
      BY <2>1, <2>4, <2>5, <3>1 DEF Good, InUse
    <3>3. QED
      BY <2>2, <2>3, <2>5, <3>2
  <2>8. QED
    BY <2>6, <2>7
<1>3. QED
  BY <1>1, <1>2 DEF Users

(* What the tasks outside of user regions are bound to.                    *)
KnownOutside ==
  \A x \in TaskObj : Begun(x) =>
    /\ prof.task[x].rData \in DOMAIN prof.exc
    /\ \A t \in Thread : OnStack(running[t], x) => prof.task[x].rData.thread = t
    /\ Type(x) = "explicit" /\ open[x] = <<>> => KeyHolds(prof, x)

(* The books know the regions of all begun tasks.                          *)
LEMMA AccountsKnown == Accounts => KnownOutside
<1> SUFFICES ASSUME Accounts, NEW x \in TaskObj, Begun(x)
             PROVE  /\ prof.task[x].rData \in DOMAIN prof.exc
                    /\ \A t \in Thread : OnStack(running[t], x) => prof.task[x].rData.thread = t
                    /\ Type(x) = "explicit" /\ open[x] = <<>> => KeyHolds(prof, x)
  BY DEF KnownOutside
<1>1. PICK U, N : U = InUserRegion /\ Good(U, N)
  BY DEF Accounts
<1>2. Bounds(U)
  BY <1>1 DEF Good
<1>3. ASSUME NEW t \in Thread, OnStack(running[t], x)
      PROVE  Bound(prof, t, x) /\ (Type(x) = "explicit" /\ x \notin U => KeyHolds(prof, x))
  <2>1. PICK i \in 1..Len(running[t]) : running[t][i] = x
    BY <1>3 DEF OnStack
  <2>2. /\ Type(x) \in {"initial", "implicit"} => Bound(prof, t, x)
        /\ Type(x) = "explicit" /\ prof.active =>
             Bound(prof, t, x) /\ (x \notin U => KeyHolds(prof, x))
    BY <1>2, <2>1 DEF Bounds
  <2>3. QED
    BY <2>2 DEF Begun
<1>4. PICK t \in Thread : OnStack(running[t], x)
  BY DEF Begun, Stacked
<1>5. open[x] = <<>> => x \notin U
  BY <1>1 DEF InUserRegion
<1>6. QED
  BY <1>3, <1>4, <1>5 DEF Bound

(* A task that was begun before is linked as it was.                       *)
LEMMA QuietLinkedOld ==
  ASSUME UserSound, Accounts', Kept, UNCHANGED <<user, open, begun>>,
         NEW x \in TaskObj, Stacked(x), Begun(x)'
  PROVE  Linked(x)'
<1>1. PICK U, N : Good(U, N)
  BY DEF UserSound, Accounts
<1>2. PICK V, M : Good(V, M)'
  BY DEF Accounts
<1>3. KeptRegions /\ KeptKeys /\ Shape /\ Shape' /\ KnownOutside
  BY <1>1, <1>2, AccountsKnown DEF Kept, Good, UserSound
<1>4. Stacked(x)' /\ Type(x)' \in {"initial", "implicit", "explicit"}
      /\ (Type(x)' = "explicit" => prof'.active)
  BY DEF Begun
<1>5. SameOrigin(prof.task[x], prof'.task[x]) /\ Type(x)' = Type(x)
  <2>1. Type(x) # "none"
    BY <1>3, NotOnStack
  <2>2. SameOrigin(prof.task[x], prof'.task[x])
    BY <1>3, <1>4, <2>1 DEF KeptKeys
  <2>3. QED
    BY <2>2 DEF SameOrigin, Type
<1>6. Begun(x)
  BY <1>3, <1>4, <1>5 DEF KeptKeys, Begun
<1>7. prof'.task[x].rData = prof.task[x].rData
  BY <1>3, <1>4 DEF KeptRegions
<1>8. PICK p, q, r, s, sp : /\ p = prof /\ q = prof' /\ r = prof.task[x].rData /\ s = open[x]
                            /\ sp = user.sParent
  OBVIOUS
<1>9. /\ Chain(p, sp, r, s)
      /\ Type(x) = "explicit" => KeyOf(p, x, Nth(r, s, 0))
  BY <1>6, <1>8 DEF UserSound, Links, Linked
<1>10. /\ ProfileOK(p) /\ ProfileOK(q) /\ q.flat = p.flat
       /\ DOMAIN p.exc \subseteq DOMAIN q.exc
       /\ \A i \in DOMAIN p.regions : q.regions[i] = p.regions[i]
  BY <1>3, <1>8 DEF Shape, KeptKeys
<1>11. Len(s) \in Nat
  BY <1>8, LenProperties DEF UserSound, UserTypes
<1>12. Chain(q, sp, r, s)
  BY <1>9, <1>10, <1>11, ChainKept
<1>13. ASSUME Type(x) = "explicit" PROVE KeyOf(q, x, Nth(r, s, 0))
  <2>1. PICK y : y = p.task[x].parentTask
    OBVIOUS
  <2>2. y \in TaskObj
    BY <1>8, <1>10, <1>13, <2>1 DEF ProfileOK, Type
  <2>3. q.task[x].codePtr = p.task[x].codePtr /\ q.task[x].parentTask = y
    BY <1>5, <1>8, <2>1 DEF SameOrigin
  <2>4. Type(y) \in {"implicit", "explicit"} /\ y \notin queue
    BY <1>1, <1>8, <1>13, <2>1 DEF Good, Family
  <2>5. Type(y)' \in {"implicit", "explicit"} /\ y \notin queue'
    BY <1>2, <1>5, <1>8, <1>13, <2>3 DEF Good, Family
  <2>6. Stacked(y) /\ Stacked(y)'
    BY <1>1, <1>2, <2>2, <2>4, <2>5 DEF Good, InUse
  <2>7. q.task[y].rData = p.task[y].rData
    BY <1>3, <1>8, <2>2, <2>6 DEF KeptRegions
  <2>8. PICK above, code, b : above = p.task[y].rData /\ code = p.task[x].codePtr /\ b = Nth(r, s, 0)
    OBVIOUS
  <2>9. above \in DOMAIN p.exc \cup {NoRegion}
    BY <1>10, <2>2, <2>8 DEF ProfileOK
  <2>10. Key(q, code, above) = Key(p, code, above)
    BY <1>10, <2>9, KeyStable
  <2>11. p.regions[b.id] = Key(p, code, above)
    BY <1>9, <1>13, <2>1, <2>8 DEF KeyOf
  <2>12. b \in DOMAIN p.exc
    BY <1>9, <1>11, <2>8 DEF Chain
  <2>13. q.regions[b.id] = p.regions[b.id]
    BY <1>10, <2>12 DEF ProfileOK
  <2>14. QED
    BY <2>3, <2>7, <2>8, <2>10, <2>11, <2>13 DEF KeyOf
<1>14. user'.sParent = sp /\ open'[x] = s
  BY <1>8
<1>15. QED
  BY <1>5, <1>7, <1>8, <1>12, <1>13, <1>14 DEF Linked

(* A task that begins is in no user region, and its own region is none.    *)
LEMMA QuietLinkedNew ==
  ASSUME UserSound, Accounts', KnownOutside', Coded', Kept, Moved,
         UNCHANGED <<user, open, begun>>, NEW x \in TaskObj, ~Stacked(x), Begun(x)'
  PROVE  Linked(x)'
<1>1. PICK U, N : Good(U, N)
  BY DEF UserSound, Accounts
<1>2. PICK V, M : Good(V, M)'
  BY DEF Accounts
<1>3. KeptKeys /\ Shape /\ EnvTypes /\ InUse
  BY <1>1 DEF Kept, Good, Shape
<1>4. open'[x] = <<>> /\ open[x] = <<>>
  BY DEF UserSound, Users, InUserRegion
<1>5. PICK q, r, sp : q = prof' /\ r = prof'.task[x].rData /\ sp = user'.sParent
  OBVIOUS
<1>6. r \in DOMAIN q.exc /\ (Type(x)' = "explicit" => KeyHolds(prof', x))
  BY <1>4, <1>5 DEF KnownOutside
<1>7. Nth(r, <<>>, 0) = r
  BY DEF Nth
<1>8. CodeOf(q, r) \notin UserCode
  <2>1. CASE Type(x)' = "explicit"
    <3>1. prof'.task[x].codePtr \in TaskCode
      BY <2>1 DEF Coded
    <3>2. CodeOf(q, r) = prof'.task[x].codePtr
      BY <1>5, <1>6, <2>1 DEF KeyHolds, CodeOf, Key
    <3>3. QED
      BY <3>1, <3>2, TaskProfileAssumption
  <2>2. CASE Type(x)' # "explicit"
    <3>1. Type(x)' \in {"initial", "implicit"} /\ Stacked(x)'
      BY <2>2 DEF Begun
    <3>2. Type(x) = "none"
      <4>1. SUFFICES ASSUME Type(x) # "none" PROVE FALSE
        OBVIOUS
      <4>2. SameOrigin(prof.task[x], prof'.task[x])
        BY <1>3, <3>1, <4>1 DEF KeptKeys
      <4>3. Type(x)' = Type(x)
        BY <4>2 DEF SameOrigin, Type
      <4>4. Type(x) \in {"explicit", "undeferred"}
        BY <3>1, <4>1 DEF Moved
      <4>5. QED
        BY <3>1, <4>3, <4>4
    <3>3. RegionKey(q, x) = Key(prof, team.codePtr, ParentRegion(prof, team))
      BY <1>3, <1>5, <3>1, <3>2 DEF KeptKeys
    <3>4. CodeOf(q, r) = team.codePtr
      BY <1>5, <3>3 DEF RegionKey, CodeOf, Key
    <3>5. team.codePtr \in {ParCode, NoCode}
      BY <1>3 DEF EnvTypes, ParallelData, NoTeam
    <3>6. QED
      BY <3>4, <3>5, TaskProfileAssumption
  <2>3. QED
    BY <2>1, <2>2
<1>9. Chain(q, sp, r, <<>>)
  <2>1. Len(<<>>) = 0
    OBVIOUS
  <2>2. \A i \in 0..0 : i = 0
    OBVIOUS
  <2>3. QED
    BY <1>6, <1>7, <1>8, <2>1, <2>2 DEF Chain
<1>10. Type(x)' = "explicit" => KeyOf(q, x, Nth(r, <<>>, 0))
  BY <1>5, <1>6, <1>7 DEF KeyOf, KeyHolds
<1>11. QED
  BY <1>4, <1>5, <1>9, <1>10 DEF Linked

(* Explicit tasks come from task constructs.                               *)
LEMMA QuietCoded ==
  ASSUME Coded, KeptKeys PROVE Coded'
<1>1. ASSUME NEW x \in TaskObj, Type(x)' = "explicit"
      PROVE  prof'.task[x].codePtr \in TaskCode
  <2>1. CASE Type(x) = "none"
    BY <1>1, <2>1 DEF KeptKeys
  <2>2. CASE Type(x) # "none"
    <3>1. SameOrigin(prof.task[x], prof'.task[x])
      BY <1>1, <2>2 DEF KeptKeys
    <3>2. Type(x) = "explicit" /\ prof'.task[x].codePtr = prof.task[x].codePtr
      BY <1>1, <3>1 DEF SameOrigin, Type
    <3>3. QED
      BY <3>2 DEF Coded
  <2>3. QED
    BY <2>1, <2>2
<1>2. QED
  BY <1>1 DEF Coded

(* The regions on the stacks stay distinct.                                *)
LEMMA QuietDistinct ==
  ASSUME UserSound, Users', KeptRegions, UNCHANGED <<user, open, begun>>
  PROVE  Distinct'
<1>1. ASSUME NEW x \in TaskObj, open[x] # <<>>
      PROVE  prof'.task[x].rData = prof.task[x].rData
  <2>1. x \in InUserRegion /\ x \in InUserRegion'
    BY <1>1 DEF InUserRegion
  <2>2. Stacked(x) /\ Stacked(x)'
    BY <2>1 DEF UserSound, Users
  <2>3. QED
    BY <2>2 DEF KeptRegions
<1>2. \A x \in TaskObj : \A i \in 1..Len(open[x]) : open[x] # <<>>
  OBVIOUS
<1>3. open' = open
  OBVIOUS
<1>4. QED
  BY <1>1, <1>2, <1>3 DEF Distinct, UserSound

(* The names stay bound to their regions.                                  *)
LEMMA QuietMapped ==
  ASSUME UserSound, ProfileOK(prof), KeptKeys, UNCHANGED <<user, open, begun>>
  PROVE  Mapped'
<1>1. \A r \in DOMAIN prof.exc : r \in DOMAIN prof'.exc /\ CodeOf(prof', r) = CodeOf(prof, r)
  BY DEF ProfileOK, KeptKeys, CodeOf
<1>2. QED
  BY <1>1 DEF Mapped, UserSound

(* Steps outside of user regions keep the invariant.                       *)
LEMMA QuietSound ==
  ASSUME UserWell, UserSound, Quiet
  PROVE  UserSound'
<1>1. PICK U, N : /\ U = InUserRegion /\ N = More(open)
                  /\ Good(U, N) /\ Good(U, N)' /\ Kept /\ Moved
  BY QuietGood
<1>2. UNCHANGED <<user, open, begun>> /\ KeptRegions /\ KeptKeys /\ ProfileOK(prof)
  BY <1>1 DEF Quiet, Kept, Good, Shape
<1>3. Users'
  BY <1>1, QuietUsers
<1>4. Accounts'
  <2>1. U = InUserRegion' /\ N = More(open')
    BY <1>1, <1>2 DEF InUserRegion
  <2>2. QED
    BY <1>1, <2>1 DEF Accounts
<1>5. KnownOutside'
  BY <1>4, AccountsKnown, PTL
<1>6. Coded'
  BY <1>2, QuietCoded DEF UserSound
<1>7. ASSUME NEW x \in TaskObj PROVE Linked(x)'
  <2>1. CASE ~Begun(x)'
    BY <2>1 DEF Linked
  <2>2. CASE Begun(x)' /\ Stacked(x)
    BY <1>1, <1>2, <1>4, <2>2, QuietLinkedOld
  <2>3. CASE Begun(x)' /\ ~Stacked(x)
    BY <1>1, <1>2, <1>4, <1>5, <1>6, <2>3, QuietLinkedNew
  <2>4. QED
    BY <2>1, <2>2, <2>3
<1>8. Links'
  BY <1>7 DEF Links
<1>9. Distinct' /\ Mapped'
  BY <1>2, <1>3, QuietDistinct, QuietMapped
<1>10. UserTypes' /\ Limits'
  BY <1>2 DEF UserSound, UserTypes, Limits
<1>11. QED
  BY <1>3, <1>4, <1>6, <1>8, <1>9, <1>10 DEF UserSound

-----------------------------------------------------------------------------
(* The begin and the end of a user region *)

(* The task a call of the program finds is the one whose time runs.        *)
LEMMA UserPlace ==
  ASSUME NEW U, NEW N, Good(U, N), prof.active, NEW t \in Thread, InProgram(t),
         NEW o, o = Current(t), Type(o) # "undeferred", sync[o] = <<>>
  PROVE  /\ o \in TaskObj /\ Len(running[t]) > 0 /\ OnStack(running[t], o)
         /\ Type(o) \in UserKind /\ Begun(o) /\ Bound(prof, t, o)
         /\ ~prof.task[o].inBarrier /\ (Type(o) = "initial" => ~Resting(t))
         /\ t = Master => team = NoTeam \/ where[Master] # "outside"
         /\ o \in IncOf(prof, running[t]) /\ Books(prof, t, o, IncOf(prof, running[t]), N)
<1> USE DEF Good
<1>1. /\ OnTop(t) /\ (Type(o) = "implicit" => where[t] = "inside") /\ EnvTypes
  BY DEF InProgram, Shape
<1>2. /\ Len(running[t]) > 0 /\ Len(running[t]) \in 1..Len(running[t])
      /\ o = running[t][Len(running[t])] /\ o \in TaskObj
      /\ Type(o) \in Level(t, Len(running[t]))
      /\ Type(o) = "initial" => team = NoTeam
  BY <1>1, OnTopOK
<1>3. OnStack(running[t], o) /\ Stacked(o)
  BY <1>2 DEF OnStack, Stacked
<1>4. Type(o) \in UserKind
  BY <1>2 DEF Level, UserKind
<1>5. Begun(o)
  BY <1>3, <1>4 DEF Begun, UserKind
<1>6. ~AtBarrier(o)
  <2>1. SUFFICES ASSUME NEW u \in Thread, where[u] \in {"barrier", "released"}, Bottom(u) = o
                 PROVE  FALSE
    BY DEF AtBarrier
  <2>2. Type(o) = "implicit"
    BY <2>1, Bottoms
  <2>3. o = Bottom(t) /\ where[t] = "inside"
    BY <1>1, <2>2, ImplicitOnTop DEF Bottom
  <2>4. where[u] # "outside" /\ where[t] # "outside"
    BY <2>1, <2>3
  <2>5. u = t
    BY <2>1, <2>3, <2>4, Bottoms
  <2>6. QED
    BY <2>1, <2>3, <2>5
<1>7. ~prof.task[o].inBarrier
  BY <1>2, <1>6 DEF Waits
<1>8. Type(o) = "initial" => ~Resting(t)
  BY <1>2 DEF Resting
<1>9. ASSUME t = Master, team # NoTeam, where[Master] = "outside" PROVE FALSE
  <2>1. Len(running[t]) = 1
    BY <1>9 DEF Shape, Teams
  <2>2. Type(o) \in {"initial", "implicit"}
    BY <1>2, <2>1, BottomKind
  <2>3. Type(o) = "implicit"
    BY <1>2, <1>9, <2>2
  <2>4. QED
    BY <1>1, <1>9, <2>3
<1>10. PICK s, rests : s = running[t] /\ rests = Resting(t)
  OBVIOUS
<1>11. Plain(prof, s) /\ s[Len(s)] = o
  BY <1>2, <1>10, TopPlain
<1>12. ExcOf(prof, s, rests) = o /\ o \in IncOf(prof, s)
  <2>1. ~(rests /\ prof.task[o].Type = "initial")
    BY <1>8, <1>10 DEF Type
  <2>2. QED
    BY <1>7, <1>11, <2>1, PlainBooks
<1>13. Balance(t, N)
  BY DEF Balanced
<1>14. Books(prof, t, o, IncOf(prof, running[t]), N)
  BY <1>10, <1>12, <1>13 DEF Balance
<1>15. Bound(prof, t, o)
  <2>1. o \in IncOf(prof, running[t])
    BY <1>10, <1>12
  <2>2. QED
    BY <1>14, <2>1 DEF Books
<1>16. QED
  BY <1>2, <1>3, <1>4, <1>5, <1>7, <1>8, <1>9, <1>10, <1>12, <1>14, <1>15

(* The other tasks stay in their regions, and the parent of region b,      *)
(* which none of them is in, changes.                                      *)
LEMMA RebindLinks ==
  ASSUME UserSound, NEW t \in Thread, NEW o \in TaskObj, Rebinds(t, o), children[o] = {},
         NEW b, NEW c, user'.sParent = Put(user.sParent, b, c),
         \A y \in TaskObj \ {o} : open'[y] = open[y],
         \A y \in TaskObj \ {o} : \A i \in 1..Len(open[y]) :
           Nth(prof.task[y].rData, open[y], i) # b,
         Chain(prof', user'.sParent, prof'.task[o].rData, open'[o]), Begun(o),
         Nth(prof'.task[o].rData, open'[o], 0) = Nth(prof.task[o].rData, open[o], 0)
  PROVE  Links'
<1>1. PICK U, N : Good(U, N)
  BY DEF UserSound, Accounts
<1>2. Shape /\ Family /\ Links /\ UserTypes
  BY <1>1 DEF Good, UserSound
<1>3. /\ \A x \in TaskObj : OnlyRegion(prof.task[x], prof'.task[x]) /\ Type(x)' = Type(x)
      /\ \A x \in TaskObj \ {o} : prof'.task[x] = prof.task[x]
      /\ \A x : Stacked(x)' <=> Stacked(x)
  BY <1>2, RebindTasks
<1>4. /\ ProfileOK(prof) /\ prof'.active = prof.active /\ prof'.flat = prof.flat
      /\ DOMAIN prof.exc \subseteq DOMAIN prof'.exc
      /\ \A i \in DOMAIN prof.regions : prof'.regions[i] = prof.regions[i]
  BY DEF Rebinds, Effect, Frame
<1>5. PICK p, q, sp, sq : p = prof /\ q = prof' /\ sp = user.sParent /\ sq = user'.sParent
  OBVIOUS
<1>6. ASSUME NEW x \in TaskObj, Begun(x), Type(x) = "explicit", NEW d \in DOMAIN p.exc, KeyOf(p, x, d)
      PROVE  KeyOf(q, x, d)
  <2>1. PICK y \in TaskObj : y = p.task[x].parentTask
    BY <1>4, <1>5, <1>6 DEF ProfileOK, Type
  <2>2. x \in children[y]
    BY <1>2, <1>5, <1>6, <2>1 DEF Family
  <2>3. q.task[y] = p.task[y]
    BY <1>3, <1>5, <2>1, <2>2
  <2>4. q.task[x].codePtr = p.task[x].codePtr /\ q.task[x].parentTask = y
    BY <1>3, <1>5, <2>1 DEF OnlyRegion
  <2>5. PICK above, code : above = p.task[y].rData /\ code = p.task[x].codePtr
    OBVIOUS
  <2>6. above \in DOMAIN p.exc \cup {NoRegion}
    BY <1>4, <1>5, <2>1, <2>5 DEF ProfileOK
  <2>7. Key(q, code, above) = Key(p, code, above)
    BY <1>4, <1>5, <2>6, KeyStable
  <2>8. q.regions[d.id] = p.regions[d.id]
    BY <1>4, <1>5, <1>6 DEF ProfileOK
  <2>9. QED
    BY <1>6, <2>1, <2>3, <2>4, <2>5, <2>7, <2>8 DEF KeyOf
<1>7. ASSUME NEW x \in TaskObj, Begun(x)'
      PROVE  /\ Chain(q, sq, prof'.task[x].rData, open'[x])
             /\ Type(x)' = "explicit" => KeyOf(q, x, Nth(prof'.task[x].rData, open'[x], 0))
  <2>1. Begun(x) /\ Type(x)' = Type(x)
    BY <1>3, <1>4, <1>7 DEF Begun
  <2>2. PICK r, s : r = prof.task[x].rData /\ s = open[x]
    OBVIOUS
  <2>3. Chain(p, sp, r, s) /\ (Type(x) = "explicit" => KeyOf(p, x, Nth(r, s, 0)))
    BY <1>2, <1>5, <2>1, <2>2 DEF Links, Linked
  <2>4. Len(s) \in Nat
    BY <1>2, <2>2, LenProperties DEF UserTypes
  <2>5. Nth(r, s, 0) \in DOMAIN p.exc
    BY <2>3, <2>4 DEF Chain
  <2>6. Type(x) = "explicit" => KeyOf(q, x, Nth(r, s, 0))
    BY <1>6, <2>1, <2>3, <2>5
  <2>7. CASE x = o
    BY <1>5, <2>1, <2>2, <2>6, <2>7
  <2>8. CASE x # o
    <3>1. prof'.task[x].rData = r /\ open'[x] = s
      BY <1>3, <2>2, <2>8
    <3>2. Chain(q, sp, r, s)
      BY <1>4, <1>5, <2>3, <2>4, ChainKept
    <3>3. \A i \in 1..Len(s) : Nth(r, s, i) # b
      BY <2>2, <2>8
    <3>4. Chain(q, Put(sp, b, c), r, s)
      BY <3>2, <3>3, ChainOther
    <3>5. QED
      BY <1>5, <2>1, <2>6, <3>1, <3>4
  <2>9. QED
    BY <2>7, <2>8
<1>8. QED
  BY <1>5, <1>7 DEF Links, Linked

(* The tasks in user regions stay begun.                                   *)
LEMMA RebindUsers ==
  ASSUME UserSound, NEW t \in Thread, NEW o \in TaskObj, Rebinds(t, o), children[o] = {},
         \A y \in TaskObj \ {o} : open'[y] = open[y],
         prof.active, Stacked(o), Type(o) \in UserKind
  PROVE  Users' /\ Coded'
<1>1. PICK U, N : Good(U, N)
  BY DEF UserSound, Accounts
<1>2. Shape /\ Users /\ Coded
  BY <1>1 DEF Good, UserSound
<1>3. /\ \A x \in TaskObj : OnlyRegion(prof.task[x], prof'.task[x]) /\ Type(x)' = Type(x)
      /\ \A x : Stacked(x)' <=> Stacked(x)
  BY <1>2, RebindTasks
<1>4. prof'.active = prof.active /\ children' = children
  BY DEF Rebinds, Effect, env
<1>5. ASSUME NEW x \in TaskObj, open'[x] # <<>>
      PROVE  prof.active /\ Stacked(x) /\ Type(x) \in UserKind /\ children[x] = {}
  <2>1. CASE x = o
    BY <2>1
  <2>2. CASE x # o
    BY <1>2, <1>5, <2>2 DEF Users, InUserRegion
  <2>3. QED
    BY <2>1, <2>2
<1>6. Users'
  BY <1>3, <1>4, <1>5 DEF Users, InUserRegion
<1>7. Coded'
  BY <1>2, <1>3 DEF Coded, OnlyRegion
<1>8. QED
  BY <1>6, <1>7

(* A region on the stack of a task is known, belongs to the task's thread, *)
(* and has the name it was begun with.                                     *)
LEMMA OnStackRegion ==
  ASSUME UserSound, NEW x \in TaskObj, NEW i \in 1..Len(open[x])
  PROVE  LET b == Nth(prof.task[x].rData, open[x], i) IN
         /\ b \in DOMAIN prof.exc /\ CodeOf(prof, b) = open[x][i].name
         /\ \A t \in Thread : OnStack(running[t], x) => b.thread = t
         /\ Stacked(x) /\ Begun(x)
<1>1. open[x] # <<>>
  OBVIOUS
<1>2. prof.active /\ Stacked(x) /\ Type(x) \in UserKind
  BY <1>1 DEF UserSound, Users, InUserRegion
<1>3. Begun(x)
  BY <1>2 DEF Begun, UserKind
<1>4. KnownOutside
  BY AccountsKnown DEF UserSound
<1>5. \A t \in Thread : OnStack(running[t], x) => prof.task[x].rData.thread = t
  BY <1>3, <1>4 DEF KnownOutside
<1>6. PICK r, s : r = prof.task[x].rData /\ s = open[x]
  OBVIOUS
<1>7. Chain(prof, user.sParent, r, s)
  BY <1>3, <1>6 DEF UserSound, Links, Linked
<1>8. i \in 1..Len(s) /\ Len(s) \in Nat
  BY <1>6, LenProperties DEF UserSound, UserTypes
<1>9. i \in 0..Len(s)
  BY <1>8
<1>10. /\ Nth(r, s, i) \in DOMAIN prof.exc /\ Nth(r, s, i).thread = r.thread
       /\ CodeOf(prof, Nth(r, s, i)) = s[i].name
  BY <1>7, <1>8, <1>9 DEF Chain
<1>11. QED
  BY <1>2, <1>3, <1>5, <1>6, <1>10

(* A region of thread t whose name is not in use on it is on no stack.     *)
LEMMA NameFree ==
  ASSUME UserSound, NEW t \in Thread, NEW name, ~OpenOn(t, name), NEW b, b.thread = t,
         b \in DOMAIN prof.exc => CodeOf(prof, b) = name,
         NEW x \in TaskObj, NEW i \in 1..Len(open[x])
  PROVE  Nth(prof.task[x].rData, open[x], i) # b
<1>1. SUFFICES ASSUME Nth(prof.task[x].rData, open[x], i) = b PROVE FALSE
  OBVIOUS
<1>2. /\ b \in DOMAIN prof.exc /\ CodeOf(prof, b) = open[x][i].name
      /\ \A u \in Thread : OnStack(running[u], x) => b.thread = u
      /\ Stacked(x)
  BY <1>1, OnStackRegion
<1>3. OnStack(running[t], x)
  BY <1>2 DEF Stacked
<1>4. PICK U, N : Good(U, N)
  BY DEF UserSound, Accounts
<1>5. EnvTypes
  BY <1>4 DEF Good, Shape
<1>6. x \in ToSet(running[t])
  BY <1>3, <1>5, StackElements
<1>7. PICK s \in Seq(Entry) : s = open[x]
  BY DEF UserSound, UserTypes
<1>8. i \in DOMAIN s
  BY <1>7, LenProperties
<1>9. s[i] \in ToSet(s) /\ s[i].name = name
  BY <1>2, <1>7, <1>8 DEF ToSet
<1>10. QED
  BY <1>6, <1>7, <1>9 DEF OpenOn

(* What the lookup of a region by its name finds.                          *)
LEMMA FoundRegion ==
  ASSUME UserWell, UserSound, ProfileOK(prof), NEW t \in Thread, NEW name \in UserCode,
         NEW a \in DOMAIN prof.exc, NEW known, known = (Seen(t, name) # NoRegion),
         NEW p, p = IF known THEN prof ELSE ThreadRegionData(prof, t, name, a),
         NEW b, b = IF known THEN Seen(t, name) ELSE ThreadRegion(p, t, name, a)
  PROVE  /\ Handler(prof, p, t, {}) /\ p.task = prof.task
         /\ \A e, S, N : Books(prof, t, e, S, N) => Books(p, t, e, S, N)
         /\ b \in DOMAIN p.exc /\ b.thread = t /\ CodeOf(p, b) = name
         /\ \A i \in DOMAIN prof.regions : p.regions[i] = prof.regions[i]
<1>1. CASE known
  <2>1. Seen(t, name) = Lookup(user.map[t], name) /\ Seen(t, name) # NoRegion
    BY <1>1 DEF Seen, Static, UserWell
  <2>2. name \in DOMAIN user.map[t] /\ Seen(t, name) = user.map[t][name]
    BY <2>1 DEF Lookup
  <2>3. p = prof /\ b = user.map[t][name]
    BY <1>1, <2>2
  <2>4. Handler(prof, p, t, {})
    BY <2>3, HandlerNone
  <2>5. b \in DOMAIN p.exc /\ b.thread = t /\ CodeOf(p, b) = name
    BY <2>2, <2>3 DEF UserSound, Mapped
  <2>6. QED
    BY <2>3, <2>4, <2>5
<1>2. CASE ~known
  <2>1. p = ThreadRegionData(prof, t, name, a) /\ b = ThreadRegion(p, t, name, a)
    BY <1>2
  <2>2. name \in Code /\ a \in DOMAIN prof.exc \cup {NoRegion}
    BY DEF Code
  <2>3. /\ \A i \in DOMAIN prof.regions : p.regions[i] = prof.regions[i]
        /\ b.thread = t /\ p.regions[b.id] = Key(prof, name, a)
        /\ DOMAIN p.exc = DOMAIN prof.exc \cup {b}
    BY <2>1, <2>2, ThreadRegionOK
  <2>4. /\ Handler(prof, p, t, {}) /\ p.task = prof.task
        /\ \A e, S, N : Books(prof, t, e, S, N) => Books(p, t, e, S, N)
    BY <2>1, <2>2, LookupBooks
  <2>5. CodeOf(p, b) = name
    BY <2>3 DEF CodeOf, Key
  <2>6. QED
    BY <2>3, <2>4, <2>5
<1>3. QED
  BY <1>1, <1>2

(* ... nor is the task's own region one of that name.                      *)
LEMMA OtherRegion ==
  ASSUME UserSound, NEW t \in Thread, NEW o \in TaskObj, Begun(o), NEW name \in UserCode,
         ~OpenOn(t, name), NEW a, a = prof.task[o].rData, NEW b, b.thread = t,
         b \in DOMAIN prof.exc => CodeOf(prof, b) = name
  PROVE  b # a /\ a \in DOMAIN prof.exc
<1>1. PICK s \in Seq(Entry) : s = open[o]
  BY DEF UserSound, UserTypes
<1>2. Chain(prof, user.sParent, a, s)
  BY <1>1 DEF UserSound, Links, Linked
<1>3. PICK n \in Nat : n = Len(s)
  BY <1>1, LenProperties
<1>4. Nth(a, s, n) = a
  BY <1>3 DEF Nth
<1>5. 0 \in 0..n /\ n \in 0..n
  BY <1>3
<1>6. a \in DOMAIN prof.exc
  BY <1>2, <1>3, <1>4, <1>5 DEF Chain
<1>7. CASE n = 0
  <2>1. CodeOf(prof, a) \notin UserCode
    BY <1>2, <1>4, <1>7 DEF Chain
  <2>2. QED
    BY <1>6, <2>1
<1>8. CASE n # 0
  <2>1. n \in 1..Len(open[o])
    BY <1>1, <1>3, <1>8
  <2>2. Nth(prof.task[o].rData, open[o], n) # b
    BY <2>1, NameFree
  <2>3. QED
    BY <1>1, <1>4, <1>6, <2>2
<1>9. QED
  BY <1>7, <1>8

(* The current task o of thread t goes from region a to region b, and the  *)
(* inclusive measurements that go on beside those of its stack are M.      *)
Goes(t, o, a, b, M) ==
  /\ t \in Thread /\ o \in TaskObj /\ o = Current(t) /\ a = prof.task[o].rData
  /\ Rebinds(t, o) /\ prof'.task[o].rData = b
  /\ a \in DOMAIN prof.exc /\ a.thread = t /\ b \in DOMAIN prof'.exc /\ b.thread = t /\ b # a
  /\ Books(prof', t, o, IncOf(prof, running[t]), M)

(* What makes the task one that calls the profiler.                        *)
Calls(t, o) ==
  /\ Len(running[t]) > 0 /\ OnStack(running[t], o)
  /\ Type(o) \in UserKind /\ Begun(o) /\ Bound(prof, t, o)
  /\ ~prof.task[o].inBarrier /\ (Type(o) = "initial" => ~Resting(t))
  /\ t = Master => team = NoTeam \/ where[Master] # "outside"
  /\ prof.active /\ children[o] = {}

(* The begin of a user region of some name in task o, which leaves a for b. *)
Begins(t, o, a, b, name) ==
  /\ name \in UserCode /\ ~OpenOn(t, name) /\ CodeOf(prof', b) = name
  /\ b \in DOMAIN prof.exc => CodeOf(prof, b) = name
  /\ user' = [user EXCEPT !.map[t] = Put(@, name, b), !.sParent = Put(@, b, a)]
  /\ Opened(o, name) /\ begun < MaxUser

(* What region_begin_name does.                                            *)
LEMMA UserBeginStep ==
  ASSUME UserWell, UserSound, NEW t \in Thread, NEW name \in UserCode, UserRegionBegin(t, name),
         NEW U, NEW N, Good(U, N), N \in [Region -> Nat]
  PROVE  \E o, a, b : Calls(t, o) /\ Begins(t, o, a, b, name)
                      /\ Goes(t, o, a, b, [N EXCEPT ![a] = @ + 1])
<1>1. PICK o : o = Current(t)
  OBVIOUS
<1>2. /\ InProgram(t) /\ prof.active /\ Type(o) # "undeferred" /\ sync[o] = <<>>
      /\ children[o] = {} /\ ~OpenOn(t, name) /\ begun < MaxUser
  BY <1>1 DEF UserRegionBegin, MayBegin, UserWell
<1>3. /\ o \in TaskObj /\ Calls(t, o)
      /\ o \in IncOf(prof, running[t]) /\ Books(prof, t, o, IncOf(prof, running[t]), N)
  BY <1>1, <1>2, UserPlace DEF Calls
<1>4. PICK a : a = prof.task[o].rData
  OBVIOUS
<1>5. a \in DOMAIN prof.exc /\ a.thread = t
  BY <1>3, <1>4 DEF Calls, Bound
<1>6. ProfileOK(prof)
  BY DEF Good, Shape
<1>7. PICK known : known = (Seen(t, name) # NoRegion)
  OBVIOUS
<1>8. PICK p : p = IF known THEN prof ELSE ThreadRegionData(prof, t, name, a)
  OBVIOUS
<1>9. PICK b : b = IF known THEN Seen(t, name) ELSE ThreadRegion(p, t, name, a)
  OBVIOUS
<1>10. /\ Handler(prof, p, t, {}) /\ p.task = prof.task
       /\ \A e, S, M : Books(prof, t, e, S, M) => Books(p, t, e, S, M)
       /\ b \in DOMAIN p.exc /\ b.thread = t /\ CodeOf(p, b) = name
       /\ \A i \in DOMAIN prof.regions : p.regions[i] = prof.regions[i]
  BY <1>5, <1>6, <1>7, <1>8, <1>9, FoundRegion
<1>11. b \in DOMAIN prof.exc => CodeOf(prof, b) = name
  BY <1>6, <1>10 DEF CodeOf, ProfileOK
<1>12. b # a
  BY <1>2, <1>3, <1>4, <1>10, <1>11, OtherRegion DEF Calls
<1>13. /\ Returns(t, Descend(p, t, o, a, b)) /\ Opened(o, name) /\ UNCHANGED env
       /\ user' = [user EXCEPT !.map[t] = Put(@, name, b), !.sParent = Put(@, b, a)]
  BY <1>1, <1>4, <1>7, <1>8, <1>9 DEF UserRegionBegin, Static, UserWell
<1>14. /\ ProfileOK(p) /\ a \in DOMAIN p.exc /\ p.task[o].rData = a
       /\ Books(p, t, o, IncOf(prof, running[t]), N)
  BY <1>3, <1>4, <1>5, <1>10 DEF Handler, Frame
<1>15. PICK q : q = Descend(p, t, o, a, b)
  OBVIOUS
<1>16. PICK S, M : S = IncOf(prof, running[t]) /\ M = [N EXCEPT ![a] = @ + 1]
  OBVIOUS
<1>17. /\ Handler(p, q, t, {o}) /\ q.regions = p.regions /\ DOMAIN q.exc = DOMAIN p.exc
       /\ OnlyRegion(p.task[o], q.task[o]) /\ q.task[o].rData = b /\ Books(q, t, o, S, M)
  <2>1. /\ ProfileOK(p) /\ t \in Thread /\ o \in TaskObj
        /\ a \in DOMAIN p.exc /\ a.thread = t /\ p.task[o].rData = a
        /\ b \in DOMAIN p.exc /\ b.thread = t /\ b # a
        /\ o \in S /\ N \in [Region -> Nat] /\ Books(p, t, o, S, N)
    BY <1>3, <1>5, <1>10, <1>12, <1>14, <1>16
  <2>2. Moves(p, q, t, o, b, S, M)
    BY <1>15, <1>16, <2>1, DescendBooks
  <2>3. QED
    BY <2>2 DEF Moves
<1>18. Handler(prof, q, t, {o})
  BY <1>10, <1>17, HandlerChain
<1>19. /\ Effect(t, {o}) /\ prof'.task = q.task /\ prof'.regions = q.regions
       /\ prof'.exc = q.exc /\ Books(prof', t, o, S, M)
  BY <1>6, <1>13, <1>15, <1>17, <1>18, ReturnsEffect
<1>20. Rebinds(t, o)
  BY <1>10, <1>13, <1>17, <1>19 DEF Rebinds, Bound
<1>21. Goes(t, o, a, b, M)
  BY <1>1, <1>3, <1>4, <1>5, <1>10, <1>12, <1>16, <1>17, <1>19, <1>20 DEF Goes
<1>22. CodeOf(prof', b) = name
  BY <1>10, <1>17, <1>19 DEF CodeOf
<1>23. Begins(t, o, a, b, name)
  BY <1>2, <1>11, <1>13, <1>22 DEF Begins
<1>24. QED
  BY <1>3, <1>16, <1>21, <1>23

(* After either call the profile accounts for the stacks there are then.   *)
LEMMA GoesAccounts ==
  ASSUME UserSound, NEW U, NEW N, U = InUserRegion, Good(U, N),
         NEW t, NEW o, NEW a, NEW b, NEW M, Calls(t, o), Goes(t, o, a, b, M),
         M = More(open'), \A y \in TaskObj \ {o} : open'[y] = open[y],
         \A r \in Region : r.thread # t => M[r] = N[r],
         Type(o) = "explicit" /\ open'[o] = <<>> => KeyHolds(prof', o)
  PROVE  Accounts' /\ Users' /\ Coded'
<1>1. PICK V : V = {x \in TaskObj : open'[x] # <<>>}
  OBVIOUS
<1>2. /\ t \in Thread /\ o \in TaskObj /\ o = Current(t) /\ Rebinds(t, o)
      /\ Books(prof', t, o, IncOf(prof, running[t]), M)
  BY DEF Goes
<1>3. U \subseteq V \cup {o} /\ V \subseteq U \cup {o}
  BY <1>1 DEF InUserRegion
<1>4. \A r \in Region \ DOMAIN prof'.exc : M[r] = 0
  BY <1>2 DEF Books
<1>5. Type(o) # "undeferred" /\ (Type(o) = "explicit" /\ o \notin V => KeyHolds(prof', o))
  BY <1>1, <1>2 DEF Calls, UserKind
<1>6. Good(V, M)'
  <2>1. Rebound(t, o, U, V, N, M)
    BY <1>2, <1>3, <1>4, <1>5 DEF Calls, Rebound
  <2>2. QED
    BY <1>2, <2>1, RebindGood
<1>7. V = InUserRegion' /\ M = More(open')
  BY <1>1 DEF InUserRegion
<1>8. Accounts'
  BY <1>6, <1>7 DEF Accounts
<1>9. Users' /\ Coded'
  <2>1. children[o] = {} /\ prof.active /\ Stacked(o) /\ Type(o) \in UserKind
    BY <1>2 DEF Calls, Stacked
  <2>2. QED
    BY <1>2, <2>1, RebindUsers
<1>10. QED
  BY <1>8, <1>9

(* What a begin does to the stack of its task.                             *)
LEMMA BeginStack ==
  ASSUME UserSound, NEW t, NEW o, NEW a, NEW b, NEW name, NEW M,
         Calls(t, o), Begins(t, o, a, b, name), Goes(t, o, a, b, M),
         NEW x, x = [name |-> name, above |-> a]
  PROVE  /\ Enters(open, open', o, x) /\ Longer(open[o], open'[o], x)
         /\ x.above = a /\ x.name = name /\ a \in Region
         /\ open' \in [TaskObj -> Seq(Entry)] /\ begun' = begun + 1
         /\ \A y \in TaskObj \ {o} : open'[y] = open[y]
<1>1. o \in TaskObj /\ a = prof.task[o].rData /\ a \in DOMAIN prof.exc
  BY DEF Goes
<1>2. ProfileOK(prof)
  BY DEF Goes, Rebinds, Effect
<1>3. a \in Region /\ name \in UserCode
  BY <1>1, <1>2 DEF ProfileOK, Begins
<1>4. x \in Entry /\ x.above = a /\ x.name = name
  BY <1>3 DEF Entry
<1>5. open \in [TaskObj -> Seq(Entry)] /\ begun \in Nat /\ MaxUser \in Nat
      /\ Len(open[o]) <= begun /\ begun < MaxUser
  BY <1>1, UserRegionsAssumption DEF UserSound, UserTypes, Limits, Begins
<1>6. Len(open[o]) \in Nat
  BY <1>1, <1>5, LenProperties
<1>7. Len(open[o]) < MaxUser
  BY <1>5, <1>6
<1>8. open' = [open EXCEPT ![o] = Append(@, x)] /\ begun' = begun + 1
  BY <1>1 DEF Begins, Opened
<1>9. Enters(open, open', o, x)
  BY <1>1, <1>4, <1>5, <1>7, <1>8, EnterAppend
<1>10. Longer(open[o], open'[o], x)
  BY <1>1, <1>9, EnterLonger
<1>11. QED
  BY <1>3, <1>4, <1>8, <1>9, <1>10 DEF Enters

(* The begin of a user region keeps the accounts.                          *)
LEMMA BeginAccounts ==
  ASSUME UserSound, NEW U, NEW N, U = InUserRegion, N = More(open), Good(U, N),
         NEW t, NEW o, NEW a, NEW b, NEW name,
         Calls(t, o), Begins(t, o, a, b, name), Goes(t, o, a, b, [N EXCEPT ![a] = @ + 1])
  PROVE  Accounts' /\ Users' /\ Coded' /\ UserTypes' /\ Limits'
<1>1. PICK x, M : x = [name |-> name, above |-> a] /\ M = [N EXCEPT ![a] = @ + 1]
  OBVIOUS
<1>2. /\ Enters(open, open', o, x) /\ Longer(open[o], open'[o], x)
      /\ x.above = a /\ x.name = name /\ a \in Region
      /\ open' \in [TaskObj -> Seq(Entry)] /\ begun' = begun + 1
      /\ \A y \in TaskObj \ {o} : open'[y] = open[y]
  BY <1>1, BeginStack
<1>3. Goes(t, o, a, b, M) /\ o \in TaskObj /\ a.thread = t
  BY <1>1 DEF Goes
<1>4. IsFiniteSet(Openings(open))
  BY DEF UserSound, Limits
<1>5. IsFiniteSet(Openings(open')) /\ N \in [Region -> Nat] /\ More(open') = [N EXCEPT ![a] = @ + 1]
  <2>1. PICK f, g : f = open /\ g = open'
    OBVIOUS
  <2>2. Enters(f, g, o, x) /\ IsFiniteSet(Openings(f)) /\ x.above \in Region /\ o \in TaskObj
    BY <1>2, <1>3, <1>4, <2>1
  <2>3. /\ IsFiniteSet(Openings(g)) /\ More(f) \in [Region -> Nat]
        /\ More(g) = [More(f) EXCEPT ![x.above] = @ + 1]
    BY <2>2, EnterCounts
  <2>4. QED
    BY <1>2, <2>1, <2>3
<1>6. \A r \in Region : r.thread # t => M[r] = N[r]
  BY <1>1, <1>3, <1>5
<1>7. open'[o] # <<>>
  <2>1. Len(open'[o]) > 0
    BY <1>2 DEF Longer
  <2>2. QED
    BY <2>1
<1>8. Accounts' /\ Users' /\ Coded'
  <2>1. /\ Goes(t, o, a, b, M) /\ M = More(open') /\ \A y \in TaskObj \ {o} : open'[y] = open[y]
        /\ \A r \in Region : r.thread # t => M[r] = N[r]
        /\ Type(o) = "explicit" /\ open'[o] = <<>> => KeyHolds(prof', o)
    BY <1>1, <1>2, <1>3, <1>5, <1>6, <1>7
  <2>2. QED
    BY <2>1, GoesAccounts
<1>9. UserTypes'
  <2>1. /\ DOMAIN user = {"map", "sParent", "data"}
        /\ user.map = [u \in Thread |-> user.map[u]]
    BY DEF UserSound, UserTypes
  <2>2. user' = [user EXCEPT !.map[t] = Put(@, name, b), !.sParent = Put(@, b, a)]
    BY DEF Begins
  <2>3. DOMAIN user' = {"map", "sParent", "data"}
        /\ user'.map = [user.map EXCEPT ![t] = Put(@, name, b)]
    BY <2>1, <2>2
  <2>4. user'.map = [u \in Thread |-> user'.map[u]]
    BY <2>1, <2>3
  <2>5. QED
    BY <1>2, <2>3, <2>4 DEF UserTypes
<1>10. Limits'
  <2>1. begun \in 0..MaxUser /\ begun < MaxUser /\ MaxUser \in Nat
        /\ \A y \in TaskObj : Len(open[y]) <= begun
    BY UserRegionsAssumption DEF UserSound, Limits, Begins
  <2>2. begun' \in 0..MaxUser
    BY <1>2, <2>1
  <2>3. ASSUME NEW y \in TaskObj PROVE Len(open'[y]) <= begun'
    <3>1. Len(open[y]) \in Nat
      BY LenProperties DEF UserSound, UserTypes
    <3>2. Len(open'[y]) = Len(open[y]) \/ Len(open'[y]) = Len(open[y]) + 1
      BY <1>2 DEF Longer
    <3>3. QED
      BY <1>2, <2>1, <3>1, <3>2
  <2>4. QED
    BY <1>5, <2>2, <2>3 DEF Limits
<1>11. QED
  BY <1>8, <1>9, <1>10

(* What every such step keeps.                                             *)
LEMMA GoesKeeps ==
  ASSUME UserSound, NEW t, NEW o, NEW a, NEW b, NEW M, Goes(t, o, a, b, M)
  PROVE  /\ \A y \in TaskObj \ {o} : prof'.task[y] = prof.task[y]
         /\ Shape /\ ProfileOK(prof) /\ DOMAIN prof.exc \subseteq DOMAIN prof'.exc
         /\ \A i \in DOMAIN prof.regions : prof'.regions[i] = prof.regions[i]
<1>1. PICK U, N : Good(U, N)
  BY DEF UserSound, Accounts
<1>2. Shape /\ ProfileOK(prof)
  BY <1>1 DEF Good, Shape
<1>3. \A y \in TaskObj \ {o} : prof'.task[y] = prof.task[y]
  BY DEF Goes, Rebinds, Effect, Frame
<1>4. /\ DOMAIN prof.exc \subseteq DOMAIN prof'.exc
      /\ \A i \in DOMAIN prof.regions : prof'.regions[i] = prof.regions[i]
  BY DEF Goes, Rebinds, Effect, Frame
<1>5. QED
  BY <1>2, <1>3, <1>4

(* The region it begins is on no stack.                                    *)
LEMMA BeginRegions ==
  ASSUME UserSound, NEW t, NEW o, NEW a, NEW b, NEW name, NEW M,
         Calls(t, o), Begins(t, o, a, b, name), Goes(t, o, a, b, M)
  PROVE  /\ user'.sParent = Put(user.sParent, b, a)
         /\ user'.map = [user.map EXCEPT ![t] = Put(@, name, b)]
         /\ \A y \in TaskObj : \A i \in 1..Len(open[y]) : Nth(prof.task[y].rData, open[y], i) # b
<1>1. DOMAIN user = {"map", "sParent", "data"} /\ user.map = [u \in Thread |-> user.map[u]]
  BY DEF UserSound, UserTypes
<1>2. user' = [user EXCEPT !.map[t] = Put(@, name, b), !.sParent = Put(@, b, a)]
  BY DEF Begins
<1>3. /\ user'.sParent = Put(user.sParent, b, a)
      /\ user'.map = [user.map EXCEPT ![t] = Put(@, name, b)]
  BY <1>1, <1>2
<1>4. /\ t \in Thread /\ b.thread = t /\ ~OpenOn(t, name)
      /\ b \in DOMAIN prof.exc => CodeOf(prof, b) = name
  BY DEF Goes, Begins
<1>5. ASSUME NEW y \in TaskObj, NEW i \in 1..Len(open[y])
      PROVE  Nth(prof.task[y].rData, open[y], i) # b
  BY <1>4, NameFree
<1>6. QED
  BY <1>3, <1>5

(* It puts the region on top of the chain of the task.                     *)
LEMMA BeginLinks ==
  ASSUME UserSound, NEW t, NEW o, NEW a, NEW b, NEW name, NEW M,
         Calls(t, o), Begins(t, o, a, b, name), Goes(t, o, a, b, M)
  PROVE  Links'
<1>1. PICK x : x = [name |-> name, above |-> a]
  OBVIOUS
<1>2. /\ Longer(open[o], open'[o], x) /\ x.above = a /\ x.name = name
      /\ \A y \in TaskObj \ {o} : open'[y] = open[y]
  BY <1>1, BeginStack
<1>3. /\ user'.sParent = Put(user.sParent, b, a)
      /\ \A y \in TaskObj : \A i \in 1..Len(open[y]) : Nth(prof.task[y].rData, open[y], i) # b
      /\ ProfileOK(prof) /\ DOMAIN prof.exc \subseteq DOMAIN prof'.exc
      /\ \A i \in DOMAIN prof.regions : prof'.regions[i] = prof.regions[i]
  <2>1. /\ ProfileOK(prof) /\ DOMAIN prof.exc \subseteq DOMAIN prof'.exc
        /\ \A i \in DOMAIN prof.regions : prof'.regions[i] = prof.regions[i]
    BY GoesKeeps
  <2>2. /\ user'.sParent = Put(user.sParent, b, a)
        /\ user'.map = [user.map EXCEPT ![t] = Put(@, name, b)]
        /\ \A y \in TaskObj : \A i \in 1..Len(open[y]) : Nth(prof.task[y].rData, open[y], i) # b
    BY BeginRegions
  <2>3. QED
    BY <2>1, <2>2
<1>4. /\ t \in Thread /\ o \in TaskObj /\ a = prof.task[o].rData /\ prof'.task[o].rData = b
      /\ Rebinds(t, o) /\ b \in DOMAIN prof'.exc /\ b.thread = a.thread /\ CodeOf(prof', b) = name
  BY DEF Goes, Begins
<1>5. children[o] = {} /\ Begun(o)
  BY DEF Calls
<1>6. PICK p, q, sp, s, z : p = prof /\ q = prof' /\ sp = user.sParent /\ s = open[o] /\ z = open'[o]
  OBVIOUS
<1>7. Chain(p, sp, a, s)
  BY <1>4, <1>5, <1>6 DEF UserSound, Links, Linked
<1>8. Longer(s, z, x) /\ \A i \in 1..Len(s) : Nth(a, s, i) # b
  BY <1>2, <1>3, <1>4, <1>6
<1>9. Chain(q, sp, a, s)
  <2>1. /\ ProfileOK(p) /\ DOMAIN p.exc \subseteq DOMAIN q.exc /\ Len(s) \in Nat
        /\ \A i \in DOMAIN p.regions : q.regions[i] = p.regions[i]
    BY <1>3, <1>6, <1>8 DEF Longer
  <2>2. QED
    BY <1>7, <2>1, ChainKept
<1>10. Chain(q, Put(sp, b, a), b, z)
  <2>1. b \in DOMAIN q.exc /\ b.thread = a.thread /\ CodeOf(q, b) = x.name /\ x.above = a
    BY <1>2, <1>4, <1>6
  <2>2. QED
    BY <1>8, <1>9, <2>1, ChainPush
<1>11. Nth(b, z, 0) = Nth(a, s, 0)
  <2>1. 0 \in 0..Len(s)
    BY <1>8 DEF Longer
  <2>2. QED
    <3>1. Nth(b, z, 0) = Nth(x.above, s, 0)
      BY <1>8, <2>1, NthLonger
    <3>2. QED
      BY <1>2, <3>1
<1>12. /\ Chain(prof', user'.sParent, prof'.task[o].rData, open'[o])
       /\ Nth(prof'.task[o].rData, open'[o], 0) = Nth(prof.task[o].rData, open[o], 0)
  BY <1>3, <1>4, <1>6, <1>10, <1>11
<1>13. QED
  BY <1>2, <1>3, <1>4, <1>5, <1>12, RebindLinks

(* The regions on the stacks stay distinct.                                *)
LEMMA BeginDistinct ==
  ASSUME UserSound, NEW t, NEW o, NEW a, NEW b, NEW name, NEW M,
         Calls(t, o), Begins(t, o, a, b, name), Goes(t, o, a, b, M)
  PROVE  Distinct'
<1> DEFINE R(y, i) == Nth(prof.task[y].rData, open[y], i)
           Q(y, i) == Nth(prof'.task[y].rData, open'[y], i)
           Old(y, i) == i \in 1..Len(open[y]) /\ Q(y, i) = R(y, i)
           New(y, i) == y = o /\ i = Len(open'[o]) /\ Q(y, i) = b
<1>1. PICK x : x = [name |-> name, above |-> a]
  OBVIOUS
<1>2. /\ Longer(open[o], open'[o], x) /\ x.above = a
      /\ \A y \in TaskObj \ {o} : open'[y] = open[y]
  BY <1>1, BeginStack
<1>3. /\ \A y \in TaskObj : \A i \in 1..Len(open[y]) : R(y, i) # b
      /\ \A y \in TaskObj \ {o} : prof'.task[y] = prof.task[y]
  BY BeginRegions, GoesKeeps
<1>4. o \in TaskObj /\ prof.task[o].rData = a /\ prof'.task[o].rData = b
  BY DEF Goes
<1>5. ASSUME NEW y \in TaskObj, NEW i \in 1..Len(open'[y]) PROVE Old(y, i) \/ New(y, i)
  <2>1. CASE y # o
    <3>1. open'[y] = open[y] /\ prof'.task[y] = prof.task[y]
      BY <1>2, <1>3, <2>1
    <3>2. QED
      BY <3>1
  <2>2. CASE y = o
    <3>1. PICK s, z : s = open[o] /\ z = open'[o]
      OBVIOUS
    <3>2. Longer(s, z, x)
      BY <1>2, <3>1
    <3>3. (\A k \in 0..Len(s) : Nth(b, z, k) = Nth(a, s, k)) /\ Nth(b, z, Len(z)) = b
      <4>1. (\A k \in 0..Len(s) : Nth(b, z, k) = Nth(x.above, s, k)) /\ Nth(b, z, Len(z)) = b
        BY <3>2, NthLonger
      <4>2. QED
        BY <1>2, <4>1
    <3>4. Len(s) \in Nat /\ Len(z) = Len(s) + 1 /\ i \in 1..Len(z)
      BY <2>2, <3>1, <3>2 DEF Longer
    <3>5. (i \in 1..Len(s) /\ i \in 0..Len(s)) \/ i = Len(z)
      BY <3>4
    <3>6. CASE i = Len(z)
      BY <1>4, <2>2, <3>1, <3>3, <3>6
    <3>7. CASE i \in 1..Len(s) /\ i \in 0..Len(s)
      <4>1. Nth(b, z, i) = Nth(a, s, i)
        BY <3>3, <3>7
      <4>2. Old(y, i)
        BY <1>4, <2>2, <3>1, <3>7, <4>1
      <4>3. QED
        BY <4>2
    <3>8. QED
      BY <3>5, <3>6, <3>7
  <2>3. QED
    BY <2>1, <2>2
<1>6. \A y, z \in TaskObj : \A i \in 1..Len(open[y]), j \in 1..Len(open[z]) :
        R(y, i) = R(z, j) => y = z /\ i = j
  BY DEF UserSound, Distinct
<1> HIDE DEF R, Q
<1>7. ASSUME NEW y \in TaskObj, NEW z \in TaskObj,
             NEW i \in 1..Len(open'[y]), NEW j \in 1..Len(open'[z]), Q(y, i) = Q(z, j)
      PROVE  y = z /\ i = j
  <2>1. (Old(y, i) \/ New(y, i)) /\ (Old(z, j) \/ New(z, j))
    BY <1>5
  <2>2. QED
    BY <1>3, <1>6, <1>7, <2>1
<1>8. QED
  BY <1>7 DEF Distinct, Q

(* The thread knows the region by its name from now on.                    *)
LEMMA BeginMapped ==
  ASSUME UserSound, NEW t, NEW o, NEW a, NEW b, NEW name, NEW M,
         Calls(t, o), Begins(t, o, a, b, name), Goes(t, o, a, b, M)
  PROVE  Mapped'
<1>1. /\ user'.sParent = Put(user.sParent, b, a)
      /\ user'.map = [user.map EXCEPT ![t] = Put(@, name, b)]
      /\ ProfileOK(prof) /\ DOMAIN prof.exc \subseteq DOMAIN prof'.exc
      /\ \A i \in DOMAIN prof.regions : prof'.regions[i] = prof.regions[i]
  <2>1. /\ ProfileOK(prof) /\ DOMAIN prof.exc \subseteq DOMAIN prof'.exc
        /\ \A i \in DOMAIN prof.regions : prof'.regions[i] = prof.regions[i]
    BY GoesKeeps
  <2>2. /\ user'.sParent = Put(user.sParent, b, a)
        /\ user'.map = [user.map EXCEPT ![t] = Put(@, name, b)]
        /\ \A y \in TaskObj : \A i \in 1..Len(open[y]) : Nth(prof.task[y].rData, open[y], i) # b
    BY BeginRegions
  <2>3. QED
    BY <2>1, <2>2
<1>2. /\ t \in Thread /\ b \in DOMAIN prof'.exc /\ b.thread = t /\ CodeOf(prof', b) = name
      /\ name \in UserCode /\ a \in DOMAIN prof.exc
  BY DEF Goes, Begins
<1>3. \A r \in DOMAIN prof.exc :
        r \in Region /\ r \in DOMAIN prof'.exc /\ CodeOf(prof', r) = CodeOf(prof, r)
  BY <1>1 DEF ProfileOK, CodeOf
<1>4. user.map = [u \in Thread |-> user.map[u]]
  BY DEF UserSound, UserTypes
<1>5. ASSUME NEW u \in Thread, NEW n \in DOMAIN user'.map[u]
      PROVE  /\ n \in UserCode /\ user'.map[u][n] \in DOMAIN prof'.exc
             /\ user'.map[u][n].thread = u /\ CodeOf(prof', user'.map[u][n]) = n
  <2>1. CASE u = t /\ n = name
    <3>1. user'.map[u][n] = b
      BY <1>1, <1>2, <1>4, <2>1 DEF Put
    <3>2. QED
      BY <1>2, <2>1, <3>1
  <2>2. CASE ~(u = t /\ n = name)
    <3>1. n \in DOMAIN user.map[u] /\ user'.map[u][n] = user.map[u][n]
      BY <1>1, <1>2, <1>4, <1>5, <2>2 DEF Put
    <3>2. /\ n \in UserCode /\ user.map[u][n] \in DOMAIN prof.exc
          /\ user.map[u][n].thread = u /\ CodeOf(prof, user.map[u][n]) = n
      BY <3>1 DEF UserSound, Mapped
    <3>3. QED
      BY <1>3, <3>1, <3>2
  <2>3. QED
    BY <2>1, <2>2
<1>6. \A r \in DOMAIN user'.sParent : user'.sParent[r] \in Region \cup {NoRegion}
  <2>1. \A r \in DOMAIN user.sParent : user.sParent[r] \in Region \cup {NoRegion}
    BY DEF UserSound, Mapped
  <2>2. a \in Region
    BY <1>2, <1>3
  <2>3. QED
    BY <1>1, <2>1, <2>2 DEF Put
<1>7. QED
  BY <1>5, <1>6 DEF Mapped

(* The begin of a user region keeps the invariant.                         *)
LEMMA UserBeginSound ==
  ASSUME UserWell, UserSound, NEW t \in Thread, NEW name \in UserCode, UserRegionBegin(t, name)
  PROVE  UserSound'
<1>1. PICK U, N : U = InUserRegion /\ N = More(open) /\ Good(U, N)
  BY DEF UserSound, Accounts
<1>2. N \in [Region -> Nat]
  BY <1>1, MoreType DEF UserSound, Limits
<1>3. PICK o, a, b : Calls(t, o) /\ Begins(t, o, a, b, name)
                     /\ Goes(t, o, a, b, [N EXCEPT ![a] = @ + 1])
  BY <1>1, <1>2, UserBeginStep
<1>4. Accounts' /\ Users' /\ Coded' /\ UserTypes' /\ Limits'
  BY <1>1, <1>3, BeginAccounts
<1>5. PICK M : M = [N EXCEPT ![a] = @ + 1]
  OBVIOUS
<1>6. Goes(t, o, a, b, M)
  BY <1>3, <1>5
<1>7. Links' /\ Distinct' /\ Mapped'
  BY <1>3, <1>6, BeginLinks, BeginDistinct, BeginMapped
<1>8. QED
  BY <1>4, <1>7 DEF UserSound

(* Task o in region b ends the innermost user region it is in, which it    *)
(* began, as entry x says, in region a.                                    *)
Leaves(o, b, a, x) ==
  /\ Enters(open', open, o, x) /\ Longer(open'[o], open[o], x)
  /\ Last(open[o]) = x /\ x.above = a /\ x.name \in UserCode
  /\ a # b /\ a \in DOMAIN prof.exc /\ b \in DOMAIN prof.exc /\ a.thread = b.thread
  /\ Lookup(user.sParent, b) = a /\ CodeOf(prof, b) = x.name
  /\ Chain(prof, Put(user.sParent, b, NoRegion), a, open'[o])
  /\ Nth(b, open[o], 0) = Nth(a, open'[o], 0)

(* A user region was begun in another region than itself.                  *)
LEMMA ChainAbove ==
  ASSUME NEW p, NEW sp, NEW b, NEW z, Chain(p, sp, b, z), NEW s, NEW x, Longer(s, z, x),
         NEW a, a = x.above, CodeOf(p, b) \in UserCode, \A i \in 1..Len(s) : Nth(b, z, i) # b
  PROVE  a # b /\ Nth(b, z, 0) = Nth(a, s, 0)
<1>1. PICK n \in Nat : n = Len(s)
  BY DEF Longer
<1>2. \A i \in 0..n : Nth(b, z, i) = Nth(a, s, i)
  BY <1>1, NthLonger
<1>3. 0 \in 0..n /\ n \in 0..n
  BY <1>1
<1>4. Nth(b, z, 0) = Nth(a, s, 0) /\ Nth(b, z, n) = a
  BY <1>1, <1>2, <1>3 DEF Nth
<1>5. CASE n = 0
  BY <1>4, <1>5 DEF Chain
<1>6. CASE n # 0
  <2>1. n \in 1..n
    BY <1>1, <1>6
  <2>2. QED
    BY <1>1, <1>4, <2>1
<1>7. QED
  BY <1>4, <1>5, <1>6

(* A task that is in a user region can leave it.                           *)
LEMMA EndLeaves ==
  ASSUME UserSound, NEW o \in TaskObj, open[o] # <<>>, Begun(o),
         open' = [open EXCEPT ![o] = Front(@)],
         NEW b, b = prof.task[o].rData, NEW x, x = open[o][Len(open[o])], NEW a, a = x.above
  PROVE  Leaves(o, b, a, x)
<1>1. PICK f, g : f = open /\ g = open'
  OBVIOUS
<1>2. f \in [TaskObj -> Seq(Entry)] /\ g = [f EXCEPT ![o] = Front(@)]
      /\ f[o] # <<>> /\ x = f[o][Len(f[o])]
  BY <1>1 DEF UserSound, UserTypes
<1>3. Len(f[o]) <= MaxUser
  <2>1. Len(f[o]) <= begun /\ begun \in 0..MaxUser /\ MaxUser \in Nat
    BY <1>1, UserRegionsAssumption DEF UserSound, Limits
  <2>2. Len(f[o]) \in Nat
    BY <1>2, LenProperties
  <2>3. QED
    BY <2>1, <2>2
<1>4. Enters(g, f, o, x) /\ Last(f[o]) = x
  BY <1>2, <1>3, LeaveFront
<1>5. PICK s, z : s = g[o] /\ z = f[o]
  OBVIOUS
<1>6. Longer(s, z, x)
  BY <1>4, <1>5, EnterLonger
<1>7. PICK n \in Nat : n = Len(s)
  BY <1>6 DEF Longer
<1>8. Len(z) = n + 1 /\ z \in Seq(Entry) /\ x = z[n + 1] /\ n + 1 \in 1..n + 1 /\ n \in 0..n
  BY <1>2, <1>5, <1>6, <1>7 DEF Longer
<1>9. x \in Entry
  BY <1>8, ElementOfSeq
<1>10. x.name \in UserCode
  BY <1>9 DEF Entry
<1>11. Chain(prof, user.sParent, b, z)
  BY <1>1, <1>5 DEF UserSound, Links, Linked
<1>12. Nth(b, z, n + 1) = b
  BY <1>8 DEF Nth
<1>13. ASSUME NEW i \in 1..n PROVE Nth(b, z, i) # b
  <2>1. i \in 1..n + 1 /\ i # n + 1
    OBVIOUS
  <2>2. \A k, l \in 1..n + 1 : Nth(b, z, k) = Nth(b, z, l) => k = l
    BY <1>1, <1>5, <1>8 DEF UserSound, Distinct
  <2>3. QED
    BY <1>8, <1>12, <2>1, <2>2
<1>14. PICK c : c = NoRegion
  OBVIOUS
<1>15. /\ Chain(prof, Put(user.sParent, b, c), a, s)
       /\ a \in DOMAIN prof.exc /\ a.thread = b.thread /\ Lookup(user.sParent, b) = a
       /\ b \in DOMAIN prof.exc /\ CodeOf(prof, b) = x.name
  <2>1. PICK p, sp : p = prof /\ sp = user.sParent
    OBVIOUS
  <2>2. /\ Chain(p, sp, b, z) /\ Longer(s, z, x) /\ a = x.above
        /\ \A i \in 1..Len(s) : Nth(b, z, i) # b
    BY <1>6, <1>7, <1>11, <1>13, <2>1
  <2>3. /\ Chain(p, Put(sp, b, c), a, s)
        /\ a \in DOMAIN p.exc /\ a.thread = b.thread /\ Lookup(sp, b) = a
        /\ b \in DOMAIN p.exc /\ CodeOf(p, b) = x.name
    BY <2>2, ChainPop
  <2>4. QED
    BY <2>1, <2>3
<1>16. a # b /\ Nth(b, z, 0) = Nth(a, s, 0)
  BY <1>6, <1>7, <1>10, <1>11, <1>13, <1>15, ChainAbove
<1>17. QED
  BY <1>1, <1>4, <1>5, <1>6, <1>10, <1>14, <1>15, <1>16 DEF Leaves

(* One measurement less goes on beside those of the stacks.                *)
LEMMA EndCounts ==
  ASSUME UserSound, NEW U, NEW N, N = More(open), Good(U, N),
         NEW o \in TaskObj, NEW b, NEW a, NEW x, Leaves(o, b, a, x)
  PROVE  /\ IsFiniteSet(Openings(open')) /\ N \in [Region -> Nat] /\ a \in Region
         /\ N[a] > 0 /\ More(open') = [N EXCEPT ![a] = @ - 1]
<1>1. PICK f, g : f = open' /\ g = open
  OBVIOUS
<1>2. Enters(f, g, o, x) /\ x.above = a /\ a \in DOMAIN prof.exc
  BY <1>1 DEF Leaves
<1>3. a \in Region
  BY <1>2 DEF Good, Shape, ProfileOK
<1>4. IsFiniteSet(Openings(g))
  BY <1>1 DEF UserSound, Limits
<1>5. PICK e : e = <<o, Len(g[o])>>
  OBVIOUS
<1>6. Adds(f, g, x, e)
  BY <1>2, <1>5, EnterOpenings
<1>7. Openings(f) \subseteq Openings(g)
  BY <1>6 DEF Adds
<1>8. IsFiniteSet(Openings(f))
  BY <1>4, <1>7, FS_Subset
<1>9. More(f) \in [Region -> Nat] /\ More(g) = [More(f) EXCEPT ![a] = @ + 1]
  BY <1>2, <1>3, <1>8, EnterCounts
<1>10. PICK M, L : M = More(f) /\ L = More(g)
  OBVIOUS
<1>11. M \in [Region -> Nat] /\ L = [M EXCEPT ![a] = @ + 1]
  BY <1>9, <1>10
<1>12. L \in [Region -> Nat] /\ L[a] > 0
  BY <1>3, <1>11
<1>13. M = [L EXCEPT ![a] = @ - 1]
  <2>1. \A r \in Region : M[r] \in Nat /\ L[r] = IF r = a THEN M[r] + 1 ELSE M[r]
    BY <1>3, <1>11
  <2>2. \A r \in Region : [L EXCEPT ![a] = @ - 1][r] = M[r]
    BY <1>3, <1>12, <2>1
  <2>3. [L EXCEPT ![a] = @ - 1] = [r \in Region |-> [L EXCEPT ![a] = @ - 1][r]]
    BY <1>12
  <2>4. M = [r \in Region |-> M[r]]
    BY <1>11
  <2>5. QED
    BY <2>2, <2>3, <2>4
<1>14. QED
  BY <1>1, <1>3, <1>8, <1>10, <1>12, <1>13

(* What the end of a user region does beside.                              *)
Ends(o, b) ==
  /\ open' = [open EXCEPT ![o] = Front(@)] /\ begun' = begun
  /\ user' = [user EXCEPT !.sParent = Put(@, b, NoRegion)]

(* What region_end_name does.                                              *)
LEMMA UserEndStep ==
  ASSUME UserWell, UserSound, NEW t \in Thread, NEW name \in UserCode, UserRegionEnd(t, name),
         NEW U, NEW N, N = More(open), Good(U, N)
  PROVE  \E o, b, a, x : Calls(t, o) /\ Leaves(o, b, a, x) /\ Ends(o, b)
                         /\ Goes(t, o, b, a, [N EXCEPT ![a] = @ - 1])
<1>1. PICK o : o = Current(t)
  OBVIOUS
<1>2. /\ InProgram(t) /\ prof.active /\ sync[o] = <<>> /\ children[o] = {}
      /\ open[o] # <<>> /\ Last(open[o]).name = name /\ open' = [open EXCEPT ![o] = Front(@)]
      /\ begun' = begun /\ UNCHANGED env
  BY <1>1 DEF UserRegionEnd, MayEnd, Closed, UserWell
<1>3. OnTop(t)
  BY <1>2 DEF InProgram
<1>4. o \in TaskObj
  BY <1>1, <1>3, OnTopOK DEF Good
<1>5. Type(o) # "undeferred"
  BY <1>2, <1>4 DEF UserSound, Users, InUserRegion, UserKind
<1>6. /\ Calls(t, o)
      /\ o \in IncOf(prof, running[t]) /\ Books(prof, t, o, IncOf(prof, running[t]), N)
  BY <1>1, <1>2, <1>5, UserPlace DEF Calls
<1>7. PICK b : b = prof.task[o].rData
  OBVIOUS
<1>8. PICK x : x = open[o][Len(open[o])]
  OBVIOUS
<1>9. PICK a : a = x.above
  OBVIOUS
<1>10. Leaves(o, b, a, x)
  BY <1>2, <1>4, <1>6, <1>7, <1>8, <1>9, EndLeaves DEF Calls
<1>11. /\ a # b /\ a \in DOMAIN prof.exc /\ b \in DOMAIN prof.exc /\ a.thread = b.thread
       /\ Lookup(user.sParent, b) = a /\ CodeOf(prof, b) = x.name
       /\ x.name = name
  BY <1>2, <1>10 DEF Leaves
<1>12. b.thread = t
  BY <1>6, <1>7 DEF Calls, Bound
<1>13. Ending(t, name) = [region |-> b, above |-> a]
  BY <1>1, <1>7, <1>11 DEF Ending, Static, UserWell
<1>14. PICK q : q = [Ascend(prof, t, a, b) EXCEPT !.task[o].rData = a]
  OBVIOUS
<1>15. prof.regions[b.id][1] \in UserCode
  BY <1>11 DEF CodeOf
<1>16. Returns(t, q) /\ user' = [user EXCEPT !.sParent = Put(@, b, NoRegion)]
  BY <1>1, <1>13, <1>14, <1>15 DEF UserRegionEnd, Static, UserWell
<1>17. PICK S, M : S = IncOf(prof, running[t]) /\ M = [N EXCEPT ![a] = @ - 1]
  OBVIOUS
<1>18. N \in [Region -> Nat] /\ N[a] > 0
  BY <1>4, <1>10, EndCounts
<1>19. ProfileOK(prof)
  BY DEF Good, Shape
<1>20. Moves(prof, q, t, o, a, S, M)
  <2>1. PICK p : p = prof
    OBVIOUS
  <2>2. /\ ProfileOK(p) /\ t \in Thread /\ o \in TaskObj
        /\ a \in DOMAIN p.exc /\ a.thread = t /\ p.task[o].rData = b
        /\ b \in DOMAIN p.exc /\ b.thread = t /\ b # a
        /\ o \in S /\ N \in [Region -> Nat] /\ N[a] > 0 /\ Books(p, t, o, S, N)
    BY <1>4, <1>6, <1>7, <1>11, <1>12, <1>17, <1>18, <1>19, <2>1
  <2>3. Moves(p, q, t, o, a, S, M)
    BY <1>14, <1>17, <2>1, <2>2, AscendBooks
  <2>4. QED
    BY <2>1, <2>3
<1>21. /\ Handler(prof, q, t, {o}) /\ q.regions = prof.regions /\ DOMAIN q.exc = DOMAIN prof.exc
       /\ OnlyRegion(prof.task[o], q.task[o]) /\ q.task[o].rData = a /\ Books(q, t, o, S, M)
  BY <1>20 DEF Moves
<1>22. /\ Effect(t, {o}) /\ prof'.task = q.task /\ prof'.regions = q.regions
       /\ prof'.exc = q.exc /\ Books(prof', t, o, S, M)
  BY <1>16, <1>19, <1>21, ReturnsEffect
<1>23. Rebinds(t, o)
  BY <1>2, <1>11, <1>12, <1>21, <1>22 DEF Rebinds, Bound
<1>24. Goes(t, o, b, a, M)
  BY <1>1, <1>4, <1>7, <1>11, <1>12, <1>17, <1>21, <1>22, <1>23 DEF Goes
<1>25. Ends(o, b)
  BY <1>2, <1>16 DEF Ends
<1>26. QED
  BY <1>6, <1>10, <1>17, <1>24, <1>25

(* No other task is in the region it ends.                                 *)
LEMMA EndRegions ==
  ASSUME UserSound, NEW t, NEW o, NEW b, NEW a, NEW x, NEW M,
         Leaves(o, b, a, x), Ends(o, b), Goes(t, o, b, a, M)
  PROVE  /\ user'.sParent = Put(user.sParent, b, NoRegion) /\ user'.map = user.map
         /\ DOMAIN user' = {"map", "sParent", "data"}
         /\ \A y \in TaskObj \ {o} : open'[y] = open[y]
         /\ open' \in [TaskObj -> Seq(Entry)]
         /\ \A y \in TaskObj \ {o} : \A i \in 1..Len(open[y]) :
              Nth(prof.task[y].rData, open[y], i) # b
<1>1. DOMAIN user = {"map", "sParent", "data"}
  BY DEF UserSound, UserTypes
<1>2. /\ user'.sParent = Put(user.sParent, b, NoRegion) /\ user'.map = user.map
      /\ DOMAIN user' = {"map", "sParent", "data"}
  BY <1>1 DEF Ends
<1>3. (\A y \in TaskObj \ {o} : open'[y] = open[y]) /\ open' \in [TaskObj -> Seq(Entry)]
  BY DEF Leaves, Enters
<1>4. Len(open[o]) \in 1..Len(open[o]) /\ Nth(prof.task[o].rData, open[o], Len(open[o])) = b
      /\ o \in TaskObj
  BY DEF Leaves, Longer, Goes, Nth
<1>5. ASSUME NEW y \in TaskObj \ {o}, NEW i \in 1..Len(open[y])
      PROVE  Nth(prof.task[y].rData, open[y], i) # b
  BY <1>4 DEF UserSound, Distinct
<1>6. QED
  BY <1>2, <1>3, <1>5

(* It leaves the chain of the task one shorter.                            *)
LEMMA EndLinks ==
  ASSUME UserSound, NEW t, NEW o, NEW b, NEW a, NEW x, NEW M,
         Calls(t, o), Leaves(o, b, a, x), Ends(o, b), Goes(t, o, b, a, M)
  PROVE  Links'
<1>1. /\ user'.sParent = Put(user.sParent, b, NoRegion)
      /\ \A y \in TaskObj \ {o} : open'[y] = open[y]
      /\ \A y \in TaskObj \ {o} : \A i \in 1..Len(open[y]) :
           Nth(prof.task[y].rData, open[y], i) # b
  BY EndRegions
<1>2. /\ ProfileOK(prof) /\ DOMAIN prof.exc \subseteq DOMAIN prof'.exc
      /\ \A i \in DOMAIN prof.regions : prof'.regions[i] = prof.regions[i]
  BY GoesKeeps
<1>3. /\ t \in Thread /\ o \in TaskObj /\ b = prof.task[o].rData /\ prof'.task[o].rData = a
      /\ Rebinds(t, o) /\ children[o] = {} /\ Begun(o)
  BY DEF Goes, Calls
<1>4. PICK p, q, sq, s : p = prof /\ q = prof' /\ sq = Put(user.sParent, b, NoRegion) /\ s = open'[o]
  OBVIOUS
<1>5. Chain(p, sq, a, s) /\ Len(s) \in Nat
  BY <1>4 DEF Leaves, Longer
<1>6. Chain(q, sq, a, s)
  <2>1. /\ ProfileOK(p) /\ DOMAIN p.exc \subseteq DOMAIN q.exc
        /\ \A i \in DOMAIN p.regions : q.regions[i] = p.regions[i]
    BY <1>2, <1>4
  <2>2. QED
    BY <1>5, <2>1, ChainKept
<1>7. /\ Chain(prof', user'.sParent, prof'.task[o].rData, open'[o])
      /\ Nth(prof'.task[o].rData, open'[o], 0) = Nth(prof.task[o].rData, open[o], 0)
  BY <1>1, <1>3, <1>4, <1>6 DEF Leaves
<1>8. PICK c : c = NoRegion
  OBVIOUS
<1>9. user'.sParent = Put(user.sParent, b, c)
  BY <1>1, <1>8
<1>10. QED
  BY <1>1, <1>3, <1>7, <1>9, RebindLinks

(* The regions under the last one of a stack.                              *)
LEMMA NthUnder ==
  ASSUME NEW s, NEW z, NEW x, Longer(s, z, x), NEW a, x.above = a, NEW r,
         NEW i, i \in 0..Len(s)
  PROVE  Nth(r, z, i) = Nth(a, s, i)
<1>1. PICK n \in Nat : n = Len(s)
  BY DEF Longer
<1>2. \A k \in 0..n : Nth(r, z, k) = Nth(a, s, k)
  BY <1>1, NthLonger
<1>3. QED
  BY <1>1, <1>2

(* The regions on the stacks stay distinct.                                *)
LEMMA EndDistinct ==
  ASSUME UserSound, NEW t, NEW o, NEW b, NEW a, NEW x, NEW M,
         Leaves(o, b, a, x), Ends(o, b), Goes(t, o, b, a, M)
  PROVE  Distinct'
<1> DEFINE R(y, i) == Nth(prof.task[y].rData, open[y], i)
           Q(y, i) == Nth(prof'.task[y].rData, open'[y], i)
<1>1. \A y \in TaskObj \ {o} : open'[y] = open[y]
  BY EndRegions
<1>2. \A y \in TaskObj \ {o} : prof'.task[y] = prof.task[y]
  BY GoesKeeps
<1>3. o \in TaskObj /\ prof.task[o].rData = b /\ prof'.task[o].rData = a
  BY DEF Goes
<1>4. ASSUME NEW y \in TaskObj, NEW i \in 1..Len(open'[y])
      PROVE  i \in 1..Len(open[y]) /\ Q(y, i) = R(y, i)
  <2>1. CASE y # o
    <3>1. open'[y] = open[y] /\ prof'.task[y] = prof.task[y]
      BY <1>1, <1>2, <2>1
    <3>2. QED
      BY <3>1
  <2>2. CASE y = o
    <3>1. PICK s, z, e : s = open'[o] /\ z = open[o] /\ e = x
      OBVIOUS
    <3>2. Longer(s, z, e) /\ e.above = a
      BY <3>1 DEF Leaves
    <3>3. Len(s) \in Nat /\ Len(z) = Len(s) + 1 /\ i \in 1..Len(s)
      BY <2>2, <3>1, <3>2 DEF Longer
    <3>4. i \in 1..Len(z) /\ i \in 0..Len(s)
      BY <3>3
    <3>5. Nth(b, z, i) = Nth(a, s, i)
      BY <3>2, <3>4, NthUnder
    <3>6. QED
      BY <1>3, <2>2, <3>1, <3>4, <3>5
  <2>3. QED
    BY <2>1, <2>2
<1>5. \A y, z \in TaskObj : \A i \in 1..Len(open[y]), j \in 1..Len(open[z]) :
        R(y, i) = R(z, j) => y = z /\ i = j
  BY DEF UserSound, Distinct
<1> HIDE DEF R, Q
<1>6. ASSUME NEW y \in TaskObj, NEW z \in TaskObj,
             NEW i \in 1..Len(open'[y]), NEW j \in 1..Len(open'[z]), Q(y, i) = Q(z, j)
      PROVE  y = z /\ i = j
  BY <1>4, <1>5, <1>6
<1>7. QED
  BY <1>6 DEF Distinct, Q

(* The names stay bound to their regions.                                  *)
LEMMA EndMapped ==
  ASSUME UserSound, NEW t, NEW o, NEW b, NEW a, NEW x, NEW M,
         Leaves(o, b, a, x), Ends(o, b), Goes(t, o, b, a, M)
  PROVE  Mapped'
<1>1. user'.sParent = Put(user.sParent, b, NoRegion) /\ user'.map = user.map
  BY EndRegions
<1>2. /\ ProfileOK(prof) /\ DOMAIN prof.exc \subseteq DOMAIN prof'.exc
      /\ \A i \in DOMAIN prof.regions : prof'.regions[i] = prof.regions[i]
  BY GoesKeeps
<1>3. \A r \in DOMAIN prof.exc : r \in DOMAIN prof'.exc /\ CodeOf(prof', r) = CodeOf(prof, r)
  BY <1>2 DEF ProfileOK, CodeOf
<1>4. \A u \in Thread : \A n \in DOMAIN user.map[u] :
        /\ n \in UserCode /\ user.map[u][n] \in DOMAIN prof'.exc
        /\ user.map[u][n].thread = u /\ CodeOf(prof', user.map[u][n]) = n
  BY <1>3 DEF UserSound, Mapped
<1>5. \A r \in DOMAIN user.sParent : user.sParent[r] \in Region \cup {NoRegion}
  BY DEF UserSound, Mapped
<1>6. \A r \in DOMAIN user'.sParent : user'.sParent[r] \in Region \cup {NoRegion}
  BY <1>1, <1>5 DEF Put
<1>7. QED
  BY <1>1, <1>4, <1>6 DEF Mapped

(* A task that leaves its last user region is bound to the region that its *)
(* construct has under the one its parent is in.                           *)
LEMMA EndKey ==
  ASSUME UserSound, Links', NEW t, NEW o, NEW b, NEW a, NEW M,
         Calls(t, o), Goes(t, o, b, a, M), Type(o) = "explicit", open'[o] = <<>>
  PROVE  KeyHolds(prof', o)
<1>1. Shape
  BY GoesKeeps
<1>2. t \in Thread /\ o \in TaskObj /\ Rebinds(t, o) /\ prof'.task[o].rData = a
  BY DEF Goes
<1>3. Type(o)' = Type(o) /\ (Stacked(o)' <=> Stacked(o))
  BY <1>1, <1>2, RebindTasks
<1>4. prof'.active = prof.active
  BY <1>2 DEF Rebinds, Effect
<1>5. Begun(o)'
  BY <1>3, <1>4 DEF Calls, Begun
<1>6. KeyOf(prof', o, Nth(prof'.task[o].rData, open'[o], 0))
  BY <1>2, <1>3, <1>5 DEF Links, Linked
<1>7. Len(open'[o]) = 0
  OBVIOUS
<1>8. Nth(prof'.task[o].rData, open'[o], 0) = prof'.task[o].rData
  BY <1>7 DEF Nth
<1>9. QED
  BY <1>6, <1>8 DEF KeyOf, KeyHolds

(* The end of a user region keeps the accounts.                            *)
LEMMA EndAccounts ==
  ASSUME UserSound, Links', NEW U, NEW N, U = InUserRegion, N = More(open), Good(U, N),
         NEW t, NEW o, NEW b, NEW a, NEW x,
         Calls(t, o), Leaves(o, b, a, x), Ends(o, b), Goes(t, o, b, a, [N EXCEPT ![a] = @ - 1])
  PROVE  Accounts' /\ Users' /\ Coded' /\ UserTypes' /\ Limits'
<1>1. PICK M : M = [N EXCEPT ![a] = @ - 1]
  OBVIOUS
<1>2. Goes(t, o, b, a, M)
  BY <1>1
<1>3. o \in TaskObj /\ b.thread = t
  BY <1>2 DEF Goes
<1>4. /\ IsFiniteSet(Openings(open')) /\ N \in [Region -> Nat] /\ a \in Region
      /\ More(open') = [N EXCEPT ![a] = @ - 1]
  BY <1>3, EndCounts
<1>5. /\ user'.map = user.map /\ DOMAIN user' = {"map", "sParent", "data"}
      /\ \A y \in TaskObj \ {o} : open'[y] = open[y]
      /\ open' \in [TaskObj -> Seq(Entry)]
  BY <1>2, EndRegions
<1>6. a.thread = t
  BY <1>2 DEF Goes
<1>7. \A r \in Region : r.thread # t => M[r] = N[r]
  BY <1>1, <1>4, <1>6
<1>8. Type(o) = "explicit" /\ open'[o] = <<>> => KeyHolds(prof', o)
  BY <1>2, EndKey
<1>9. Accounts' /\ Users' /\ Coded'
  <2>1. /\ Goes(t, o, b, a, M) /\ M = More(open') /\ \A y \in TaskObj \ {o} : open'[y] = open[y]
        /\ \A r \in Region : r.thread # t => M[r] = N[r]
        /\ Type(o) = "explicit" /\ open'[o] = <<>> => KeyHolds(prof', o)
    BY <1>1, <1>2, <1>4, <1>5, <1>7, <1>8
  <2>2. QED
    BY <2>1, GoesAccounts
<1>10. UserTypes'
  BY <1>5 DEF UserSound, UserTypes
<1>11. Limits'
  <2>1. begun' = begun /\ begun \in 0..MaxUser /\ \A y \in TaskObj : Len(open[y]) <= begun
    BY DEF UserSound, Limits, Ends
  <2>2. ASSUME NEW y \in TaskObj PROVE Len(open'[y]) <= begun
    <3>1. Len(open'[y]) \in Nat /\ Len(open[y]) \in Nat /\ begun \in Nat
      BY <1>5, <2>1, LenProperties DEF UserSound, UserTypes
    <3>2. Len(open'[y]) = Len(open[y]) \/ Len(open[y]) = Len(open'[y]) + 1
      BY <1>5 DEF Leaves, Longer
    <3>3. QED
      BY <2>1, <3>1, <3>2
  <2>3. QED
    BY <1>4, <2>1, <2>2 DEF Limits
<1>12. QED
  BY <1>9, <1>10, <1>11

(* The end of a user region keeps the invariant.                           *)
LEMMA UserEndSound ==
  ASSUME UserWell, UserSound, NEW t \in Thread, NEW name \in UserCode, UserRegionEnd(t, name)
  PROVE  UserSound'
<1>1. PICK U, N : U = InUserRegion /\ N = More(open) /\ Good(U, N)
  BY DEF UserSound, Accounts
<1>2. PICK o, b, a, x : Calls(t, o) /\ Leaves(o, b, a, x) /\ Ends(o, b)
                        /\ Goes(t, o, b, a, [N EXCEPT ![a] = @ - 1])
  BY <1>1, UserEndStep
<1>3. PICK M : M = [N EXCEPT ![a] = @ - 1]
  OBVIOUS
<1>4. Goes(t, o, b, a, M)
  BY <1>2, <1>3
<1>5. Links'
  BY <1>2, <1>4, EndLinks
<1>6. Distinct' /\ Mapped'
  BY <1>2, <1>4, EndDistinct, EndMapped
<1>7. Accounts' /\ Users' /\ Coded' /\ UserTypes' /\ Limits'
  BY <1>1, <1>2, <1>5, EndAccounts
<1>8. QED
  BY <1>5, <1>6, <1>7 DEF UserSound

-----------------------------------------------------------------------------
(* Every step *)

(* Every step keeps the invariant.                                         *)
LEMMA UserNextSound ==
  ASSUME UserWell, UserSound, [UserNext]_userVars
  PROVE  UserSound'
<1>1. CASE Quiet
  BY <1>1, QuietSound
<1>2. ASSUME NEW t \in Thread, NEW name \in UserCode, UserRegionBegin(t, name)
      PROVE  UserSound'
  BY <1>2, UserBeginSound
<1>3. ASSUME NEW t \in Thread, NEW name \in UserCode, UserRegionEnd(t, name)
      PROVE  UserSound'
  BY <1>3, UserEndSound
<1>4. CASE Next /\ Nested /\ UNCHANGED <<user, open, begun>>
  BY <1>1, <1>4 DEF Quiet
<1>5. CASE UNCHANGED userVars
  <2>1. UNCHANGED <<prof, env, user, open, begun>>
    BY <1>5 DEF userVars
  <2>2. UNCHANGED vars
    BY <2>1 DEF vars
  <2>3. /\ prof' = prof /\ children' = children /\ sync' = sync /\ where' = where
        /\ running' = running /\ UNCHANGED <<user, open, begun>>
    BY <2>1 DEF env
  <2>4. Nested
    BY <2>3 DEF Nested, Type
  <2>5. QED
    BY <1>1, <2>2, <2>3, <2>4 DEF Quiet
<1>6. QED
  BY <1>2, <1>3, <1>4, <1>5 DEF UserNext

(* With regions that are begun and ended by name, nested, on one thread not*)
(* twice at a time, and in tasks that create none meanwhile, every thread's*)
(* books balance, and the regions a task is in form a chain by sParentPtr. *)
THEOREM UserSoundInvariant ==
  ASSUME UserWell PROVE UserSpec => []UserSound
<1>1. UserInit => UserSound
  BY InitUserSound
<1>2. UserSound /\ [UserNext]_userVars => UserSound'
  BY UserNextSound
<1>3. QED
  BY <1>1, <1>2, PTL DEF UserSpec

-----------------------------------------------------------------------------
(* What the invariant says of the profile *)

(* The profile and the maps of user regions keep their types.              *)
LEMMA UserSoundTypes == UserSound => UserTypeOK
<1> SUFFICES ASSUME UserSound PROVE UserTypeOK
  OBVIOUS
<1>1. PICK U, N : Good(U, N)
  BY DEF UserSound, Accounts
<1>2. Shape /\ ProfileOK(prof)
  BY <1>1 DEF Good, Shape
<1>3. TypeOK
  BY <1>2, ShapeTypes
<1>4. DOMAIN prof.exc \subseteq Region
  BY <1>2 DEF ProfileOK
<1>5. \A t \in Thread : \A name \in DOMAIN user.map[t] :
        name \in UserCode /\ user.map[t][name] \in Region
  BY <1>4 DEF UserSound, Mapped
<1>6. \A r \in DOMAIN user.sParent : user.sParent[r] \in Region \cup {NoRegion}
  BY DEF UserSound, Mapped
<1>7. open \in [TaskObj -> Seq([name : UserCode, above : Region \cup {NoRegion}])]
  BY DEF UserSound, UserTypes, Entry
<1>8. QED
  BY <1>3, <1>5, <1>6, <1>7 DEF UserTypeOK

(* The top of the chain is the region of the last entry.                   *)
LEMMA UserSoundInnermost == UserSound => RegionIsInnermost
<1> SUFFICES ASSUME UserSound, NEW t \in Thread, NEW o \in Measured(t),
                    NEW code, code = prof.regions[prof.task[o].rData.id][1]
             PROVE  IF open[o] = <<>> THEN code \notin UserCode ELSE code = Last(open[o]).name
  BY DEF RegionIsInnermost
<1>1. PICK U, N : Good(U, N)
  BY DEF UserSound, Accounts
<1>2. Shape /\ ProfileOK(prof) /\ EnvTypes
  BY <1>1 DEF Good, Shape
<1>3. prof.active /\ OnStack(running[t], o) /\ Type(o) # "undeferred"
  BY <1>1, MeasuredTasks
<1>4. o \in TaskObj
  BY <1>2, <1>3, StackElements
<1>5. Stacked(o)
  BY <1>3 DEF Stacked
<1>6. Type(o) # "none"
  BY <1>2, <1>5, NotOnStack
<1>7. Type(o) \in {"none", "initial", "implicit", "explicit", "undeferred"}
  BY <1>2, <1>4 DEF ProfileOK, Task, Type
<1>8. Begun(o)
  BY <1>3, <1>5, <1>6, <1>7 DEF Begun
<1>9. PICK r, s : r = prof.task[o].rData /\ s = open[o]
  OBVIOUS
<1>10. Chain(prof, user.sParent, r, s)
  BY <1>4, <1>8, <1>9 DEF UserSound, Links, Linked
<1>11. s \in Seq(Entry)
  BY <1>4, <1>9 DEF UserSound, UserTypes
<1>12. PICK n \in Nat : n = Len(s)
  BY <1>11, LenProperties
<1>13. Nth(r, s, n) = r /\ code = CodeOf(prof, r)
  BY <1>9, <1>12 DEF Nth, CodeOf
<1>14. CASE s = <<>>
  <2>1. n = 0
    BY <1>12, <1>14
  <2>2. CodeOf(prof, r) \notin UserCode
    BY <1>10, <1>13, <2>1 DEF Chain
  <2>3. QED
    BY <1>9, <1>13, <1>14, <2>2
<1>15. CASE s # <<>>
  <2>1. n \in 1..n
    BY <1>11, <1>12, <1>15, EmptySeq
  <2>2. CodeOf(prof, r) = s[n].name
    BY <1>10, <1>12, <1>13, <2>1 DEF Chain
  <2>3. Last(s) = s[n]
    BY <1>12 DEF Last
  <2>4. QED
    BY <1>9, <1>13, <1>15, <2>2, <2>3
<1>16. QED
  BY <1>14, <1>15

(* The books count what was left for user regions.                         *)
LEMMA UserSoundInclusive == UserSound => InclusiveNested
<1> SUFFICES ASSUME UserSound, NEW r \in DOMAIN prof.inc,
                    NEW n, n = Cardinality({o \in Measured(r.thread) :
                                 /\ prof.task[o].rData = r
                                 /\ prof.task[o].inBarrier => o \notin Charged(r.thread)}),
                    NEW E, E = {e \in TaskObj \X (1..MaxUser) :
                                 e[2] \in DOMAIN open[e[1]] /\ open[e[1]][e[2]].above = r}
             PROVE  prof.inc[r] = n + Cardinality(E)
  BY DEF InclusiveNested
<1>1. PICK U, N : N = More(open) /\ Good(U, N)
  BY DEF UserSound, Accounts
<1>2. n \in Nat /\ prof.inc[r] = n + N[r]
  BY <1>1, GoodInclusive
<1>3. r \in Region
  BY <1>1 DEF Good, Shape, ProfileOK
<1>4. E = Above(open, r)
  BY DEF Above, Openings
<1>5. N[r] = Cardinality(E)
  BY <1>1, <1>3, <1>4 DEF More
<1>6. QED
  BY <1>2, <1>5

(* At the end no task is in a user region.                                 *)
LEMMA UserSoundStopped == UserSound => ValueIsStopMinusStart
<1> SUFFICES ASSUME UserSound PROVE ValueIsStopMinusStart
  OBVIOUS
<1>1. PICK U, N : N = More(open) /\ Good(U, N)
  BY DEF UserSound, Accounts
<1>2. ASSUME ended, NEW r \in Region PROVE N[r] = 0
  <2>1. \A t \in Thread : Len(running[t]) = 0
    BY <1>1, <1>2 DEF Good, Shape, Teams
  <2>2. \A o \in TaskObj : ~Stacked(o)
    BY <2>1 DEF Stacked, OnStack
  <2>3. \A o \in TaskObj : open[o] = <<>>
    BY <2>2 DEF UserSound, Users, InUserRegion
  <2>4. \A o \in TaskObj : DOMAIN open[o] = {}
    BY <2>3
  <2>5. Openings(open) = {}
    BY <2>4 DEF Openings
  <2>6. Above(open, r) = {}
    BY <2>5 DEF Above
  <2>7. QED
    BY <1>1, <2>6, FS_EmptySet DEF More
<1>3. QED
  BY <1>1, <1>2, GoodStopped

(* Exclusive time follows the task wherever it is bound.                   *)
LEMMA UserSoundExclusive == UserSound => ExclusiveMatches
BY GoodExclusive DEF UserSound, Accounts

(* Nothing in a user region upsets the other handlers.                     *)
LEMMA UserSoundStarts == UserSound => AssertionsHold /\ MeasurementFresh
BY DEF UserSound, Accounts, Good, Fresh, AssertionsHold, MeasurementFresh

(* The profile, the maps from names to regions and the stacks of user      *)
(* regions keep their types.                                               *)
THEOREM UserTypeCorrect == ASSUME UserWell PROVE UserSpec => []UserTypeOK
BY UserSoundTypes, UserSoundInvariant, PTL

(* region_begin_name and region_end_name keep a measured task bound to the *)
(* innermost user region it is in, and to none when it is in none: the end *)
(* finds the region that was left for the one it ends.                     *)
THEOREM InnermostInvariant == ASSUME UserWell PROVE UserSpec => []RegionIsInnermost
BY UserSoundInnermost, UserSoundInvariant, PTL

(* Inclusive time goes on in every region a task left for a user region,   *)
(* once for each time it was left, whatever happens inside.                *)
THEOREM NestedInvariant == ASSUME UserWell PROVE UserSpec => []InclusiveNested
BY UserSoundInclusive, UserSoundInvariant, PTL

(* Exclusive time goes to the region of the task that executes, and no     *)
(* other, also while it is in user regions.                                *)
THEOREM UserExclusiveInvariant == ASSUME UserWell PROVE UserSpec => []ExclusiveMatches
BY UserSoundExclusive, UserSoundInvariant, PTL

(* At the end of the program every region, those of the user among them,   *)
(* was stopped as often as it was started.                                 *)
THEOREM UserValueInvariant == ASSUME UserWell PROVE UserSpec => []ValueIsStopMinusStart
BY UserSoundStopped, UserSoundInvariant, PTL

(* User regions upset no other handler: no assertion of a start or stop    *)
(* fails, and no handler uses an old measurement.                          *)
THEOREM UserStartsInvariant ==
  ASSUME UserWell PROVE UserSpec => [](AssertionsHold /\ MeasurementFresh)
BY UserSoundStarts, UserSoundInvariant, PTL
=============================================================================
