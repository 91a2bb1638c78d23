--------------------------- MODULE TaskProfileProofs ---------------------------
(***************************************************************************)
(* The theorems about TaskProfile, for any number of threads, TaskData     *)
(* objects, tasks and regions.  Shape relates the objects to the stacks,   *)
(* the queue and the teams, and holds whatever the program does; the type  *)
(* invariant follows.  For programs with none of the features that break   *)
(* the profiler, Good adds which flags the profiler has set, to which      *)
(* regions tasks are bound, and that the books of every thread balance:    *)
(* what is started of each region is what the tasks on the thread's stack  *)
(* call for (Balanced).  Every handler first gets a lemma about what it    *)
(* leaves of the books (HandlerProofs), then one that its event keeps      *)
(* Good.  Good has two parameters for the user's regions, which borrow a   *)
(* task and measure its region once more: U, the tasks that may be bound   *)
(* to a region of the user, and N, how often the regions are measured      *)
(* beyond their tasks.  Sound is Good without user regions.  The last part *)
(* is about call paths.                                                    *)
(***************************************************************************)
EXTENDS HandlerProofs, WellFoundedInduction

-----------------------------------------------------------------------------
(* Whatever the program does *)

Place == {"outside", "inside", "barrier", "released", "leaving"}

EnvTypes ==
  /\ free \subseteq TaskObj /\ queue \subseteq TaskObj /\ forked \subseteq Thread
  /\ running \in [Thread -> Seq(TaskObj)]
  /\ next \in [Thread -> TaskObj \cup {NoTask}]
  /\ sync \in [TaskObj -> Seq({"taskwait", "taskgroup"})]
  /\ children \in [TaskObj -> SUBSET TaskObj]
  /\ team \in ParallelData
  /\ where \in [Thread -> Place]
  /\ path \in [TaskObj -> Seq(Code)]
  /\ ended \in BOOLEAN

(* The implicit task of a thread lies at this place of its stack, on the   *)
(* master above the initial task.                                          *)
Base(t) == IF t = Master THEN 2 ELSE 1

(* No task is on the stacks r twice.                                       *)
Apart(r) ==
  \A t, u \in Thread : \A i \in 1..Len(r[t]), j \in 1..Len(r[u]) :
    r[t][i] = r[u][j] => t = u /\ i = j

(* A TaskData object is in one place: a pool, the queue of deferred tasks,  *)
(* announced as undeferred, or once on one stack.                          *)
Placed ==
  /\ \A o \in TaskObj : o \in free <=> Type(o) = "none"
  /\ \A o \in queue : Type(o) = "explicit"
  /\ \A t \in Thread : next[t] # NoTask => Type(next[t]) = "undeferred"
  /\ \A t, u \in Thread : next[t] # NoTask /\ next[t] = next[u] => t = u
  /\ Apart(running)
  /\ \A t \in Thread : \A i \in 1..Len(running[t]) :
       running[t][i] \notin queue /\ \A u \in Thread : running[t][i] # next[u]

(* What tasks lie at place i of the stack of a thread.                     *)
Level(t, i) ==
  IF i < Base(t) THEN {"initial"}
  ELSE IF where[t] = "outside" THEN {"undeferred"}
  ELSE IF i = Base(t) THEN {"implicit"} ELSE {"explicit", "undeferred"}

Stacks ==
  \A t \in Thread :
    /\ \A i \in 1..Len(running[t]) : Type(running[t][i]) \in Level(t, i)
    /\ where[t] # "outside" => Len(running[t]) >= Base(t)
    /\ where[t] \in {"released", "leaving"} => Len(running[t]) = Base(t)
    /\ where[t] = "outside" /\ t # Master => Len(running[t]) = 0
    /\ next[t] # NoTask =>
         /\ Len(running[t]) > 0 /\ where[t] \notin {"released", "leaving"}
         /\ where[t] = "barrier" => Len(running[t]) > Base(t)
    /\ where[t] \in {"barrier", "released", "leaving"} => sync[running[t][Base(t)]] = <<>>

(* The master is in a parallel region, or about to begin its task there.   *)
Open == Master \in forked \/ where[Master] \in {"inside", "barrier"}

Teams ==
  /\ \A t \in forked : where[t] \in {"outside", "released", "leaving"}
  /\ Master \in forked => where[Master] = "outside"
  /\ forked # {} => Open
  /\ \A t \in Thread : where[t] \in {"inside", "barrier"} => Open
  /\ Open => team # NoTeam
  /\ team # NoTeam => Len(running[Master]) > 0 /\ team.parentTask = running[Master][1]
  /\ team # NoTeam /\ where[Master] = "outside" =>
       Len(running[Master]) = 1 /\ next[Master] = NoTask
  /\ ended => \A t \in Thread : Len(running[t]) = 0

Shape == ProfileOK(prof) /\ EnvTypes /\ Placed /\ Stacks /\ Teams

(* TypeOK leaves out what a profile is beyond its types.                   *)
LEMMA ShapeTypes == Shape => TypeOK
<1> SUFFICES ASSUME Shape PROVE TypeOK
  OBVIOUS
<1>1. ProfileOK(prof) /\ EnvTypes
  BY DEF Shape
<1>2. /\ prof.active \in BOOLEAN /\ prof.flat \in BOOLEAN
      /\ prof.failure \in {"none", "abort"}
      /\ prof.now \subseteq Thread /\ prof.stale \in BOOLEAN
      /\ DOMAIN prof.exc = DOMAIN prof.inc /\ DOMAIN prof.exc \subseteq Region
      /\ \A r \in DOMAIN prof.exc : prof.exc[r] \in Int /\ prof.inc[r] \in Int
  BY <1>1 DEF ProfileOK
<1>3. prof.task \in [TaskObj -> Task]
  BY <1>1 DEF ProfileOK
<1>4. prof.regions \in Seq(Code \X Nat)
  BY <1>1 DEF ProfileOK
<1>5. QED
  BY <1>1, <1>2, <1>3, <1>4 DEF TypeOK, EnvTypes, Task, Code, Place

-----------------------------------------------------------------------------
(* Stacks *)

Pushes(r, s, t, o) ==
  /\ s \in [Thread -> Seq(TaskObj)]
  /\ \A u \in Thread : u # t => s[u] = r[u]
  /\ Len(s[t]) = Len(r[t]) + 1
  /\ \A i \in 1..Len(r[t]) : s[t][i] = r[t][i]
  /\ s[t][Len(r[t]) + 1] = o

Pops(r, s, t) ==
  /\ s \in [Thread -> Seq(TaskObj)]
  /\ \A u \in Thread : u # t => s[u] = r[u]
  /\ Len(s[t]) = Len(r[t]) - 1
  /\ \A i \in 1..Len(r[t]) - 1 : s[t][i] = r[t][i]

(* Appending to a stack pushes.                                             *)
LEMMA PushOK ==
  ASSUME NEW r \in [Thread -> Seq(TaskObj)], NEW t \in Thread, NEW o \in TaskObj
  PROVE  Pushes(r, [r EXCEPT ![t] = Append(@, o)], t, o)
<1> DEFINE a == Append(r[t], o)
           s == [r EXCEPT ![t] = a]
<1>1. /\ a \in Seq(TaskObj) /\ Len(a) = Len(r[t]) + 1
      /\ \A i \in 1..Len(r[t]) : a[i] = r[t][i]
      /\ a[Len(r[t]) + 1] = o
  BY AppendProperties
<1> HIDE DEF a
<1>2. s \in [Thread -> Seq(TaskObj)] /\ s[t] = a /\ \A u \in Thread : u # t => s[u] = r[u]
  BY <1>1
<1> HIDE DEF s
<1>3. Pushes(r, s, t, o)
  BY <1>1, <1>2 DEF Pushes
<1>4. QED
  BY <1>3 DEF s, a

(* Taking the last task from a stack pops.                                  *)
LEMMA PopOK ==
  ASSUME NEW r \in [Thread -> Seq(TaskObj)], NEW t \in Thread, Len(r[t]) > 0
  PROVE  /\ Pops(r, [r EXCEPT ![t] = Front(@)], t)
         /\ Len(r[t]) \in Nat
<1> DEFINE a == Front(r[t])
           s == [r EXCEPT ![t] = a]
<1>1. /\ a \in Seq(TaskObj) /\ Len(a) = Len(r[t]) - 1 /\ Len(r[t]) \in Nat \ {0}
      /\ \A i \in 1..Len(r[t]) - 1 : a[i] = r[t][i]
  <2>1. r[t] \in Seq(TaskObj)
    OBVIOUS
  <2>2. r[t] # <<>>
    BY EmptySeq
  <2>3. QED
    BY <2>1, <2>2, PopFacts DEF Front
<1> HIDE DEF a
<1>2. s \in [Thread -> Seq(TaskObj)] /\ s[t] = a /\ \A u \in Thread : u # t => s[u] = r[u]
  BY <1>1
<1> HIDE DEF s
<1>3. Pops(r, s, t)
  BY <1>1, <1>2 DEF Pops
<1>4. QED
  BY <1>1, <1>3 DEF s, a

(* What lies on the stacks after a push and after a pop.                   *)
LEMMA PushElements ==
  ASSUME NEW r \in [Thread -> Seq(TaskObj)], NEW s, NEW t \in Thread, NEW o, Pushes(r, s, t, o)
  PROVE  \A u \in Thread : \A i \in 1..Len(s[u]) :
           \/ i \in 1..Len(r[u]) /\ s[u][i] = r[u][i]
           \/ u = t /\ i = Len(r[t]) + 1 /\ s[u][i] = o
<1>1. SUFFICES ASSUME NEW u \in Thread, NEW i \in 1..Len(s[u])
               PROVE  \/ i \in 1..Len(r[u]) /\ s[u][i] = r[u][i]
                      \/ u = t /\ i = Len(r[t]) + 1 /\ s[u][i] = o
  OBVIOUS
<1>2. CASE u = t
  <2> DEFINE n == Len(r[t])
  <2>1. n \in Nat
    BY LenProperties
  <2>2. /\ Len(s[t]) = n + 1 /\ \A k \in 1..n : s[t][k] = r[t][k]
        /\ s[t][n + 1] = o
    BY DEF Pushes
  <2> HIDE DEF n
  <2>3. i \in 1..n \/ i = n + 1
    BY <1>2, <2>1, <2>2
  <2>4. (i \in 1..n /\ s[u][i] = r[u][i]) \/ (u = t /\ i = n + 1 /\ s[u][i] = o)
    BY <1>2, <2>2, <2>3
  <2>5. QED
    BY <1>2, <2>4 DEF n
<1>3. CASE u # t
  <2>1. s[u] = r[u]
    BY <1>3 DEF Pushes
  <2>2. QED
    BY <2>1
<1>4. QED
  BY <1>2, <1>3

(* What is on the stacks after a pop was there before.                      *)
LEMMA PopElements ==
  ASSUME NEW r \in [Thread -> Seq(TaskObj)], NEW s, NEW t \in Thread, Len(r[t]) > 0, Pops(r, s, t)
  PROVE  \A u \in Thread : \A i \in 1..Len(s[u]) :
           /\ i \in 1..Len(r[u]) /\ s[u][i] = r[u][i]
           /\ u = t => i # Len(r[t])
<1>1. SUFFICES ASSUME NEW u \in Thread, NEW i \in 1..Len(s[u])
               PROVE  /\ i \in 1..Len(r[u]) /\ s[u][i] = r[u][i]
                      /\ u = t => i # Len(r[t])
  OBVIOUS
<1>2. CASE u = t
  <2> DEFINE n == Len(r[t])
  <2>1. n \in Nat
    BY LenProperties
  <2>2. Len(s[t]) = n - 1 /\ \A k \in 1..n - 1 : s[t][k] = r[t][k]
    BY DEF Pops
  <2> HIDE DEF n
  <2>3. i \in 1..n - 1 /\ i \in 1..n /\ i # n
    BY <1>2, <2>1, <2>2
  <2>4. i \in 1..n /\ s[u][i] = r[u][i] /\ i # n
    BY <1>2, <2>2, <2>3
  <2>5. QED
    BY <1>2, <2>4 DEF n
<1>3. CASE u # t
  <2>1. s[u] = r[u]
    BY <1>3 DEF Pops
  <2>2. QED
    BY <1>3, <2>1
<1>4. QED
  BY <1>2, <1>3

(* No task is twice on the stacks when one is pushed that is on none.       *)
LEMMA PushApart ==
  ASSUME NEW r \in [Thread -> Seq(TaskObj)], NEW s, NEW t \in Thread, NEW o, Pushes(r, s, t, o),
         Apart(r), \A u \in Thread : \A i \in 1..Len(r[u]) : r[u][i] # o
  PROVE  Apart(s)
<1> DEFINE P(w, k) == \/ k \in 1..Len(r[w]) /\ s[w][k] = r[w][k]
                      \/ w = t /\ k = Len(r[t]) + 1 /\ s[w][k] = o
<1>1. \A w \in Thread : \A k \in 1..Len(s[w]) : P(w, k)
  <2>1. \A u \in Thread : \A i \in 1..Len(s[u]) :
           \/ i \in 1..Len(r[u]) /\ s[u][i] = r[u][i]
           \/ u = t /\ i = Len(r[t]) + 1 /\ s[u][i] = o
    BY PushElements
  <2>2. QED
    BY <2>1
<1>2. SUFFICES ASSUME NEW u \in Thread, NEW v \in Thread,
                      NEW i \in 1..Len(s[u]), NEW j \in 1..Len(s[v]), s[u][i] = s[v][j]
               PROVE  u = v /\ i = j
  BY DEF Apart
<1>3. P(u, i) /\ P(v, j)
  <2> HIDE DEF P
  <2>1. QED
    BY <1>1
<1>4. CASE i \in 1..Len(r[u]) /\ s[u][i] = r[u][i]
  <2>1. j \in 1..Len(r[v]) /\ s[v][j] = r[v][j]
    BY <1>2, <1>3, <1>4
  <2>2. r[u][i] = r[v][j]
    BY <1>2, <1>4, <2>1
  <2>3. QED
    BY <1>4, <2>1, <2>2 DEF Apart
<1>5. CASE u = t /\ i = Len(r[t]) + 1 /\ s[u][i] = o
  <2>1. v = t /\ j = Len(r[t]) + 1
    BY <1>2, <1>3, <1>5
  <2>2. QED
    BY <1>5, <2>1
<1>6. QED
  BY <1>3, <1>4, <1>5

(* No task is twice on the stacks after a pop, and the last one is gone.    *)
LEMMA PopApart ==
  ASSUME NEW r \in [Thread -> Seq(TaskObj)], NEW s, NEW t \in Thread, Len(r[t]) > 0,
         Pops(r, s, t), Apart(r)
  PROVE  /\ Apart(s)
         /\ \A u \in Thread : \A i \in 1..Len(s[u]) : s[u][i] # r[t][Len(r[t])]
<1> DEFINE P(w, k) == /\ k \in 1..Len(r[w]) /\ s[w][k] = r[w][k]
                      /\ w = t => k # Len(r[t])
<1>1. \A w \in Thread : \A k \in 1..Len(s[w]) : P(w, k)
  BY PopElements
<1>2. Apart(s)
  <2>1. SUFFICES ASSUME NEW u \in Thread, NEW v \in Thread,
                        NEW i \in 1..Len(s[u]), NEW j \in 1..Len(s[v]), s[u][i] = s[v][j]
                 PROVE  u = v /\ i = j
    BY DEF Apart
  <2>2. P(u, i) /\ P(v, j)
    <3> HIDE DEF P
    <3>1. QED
      BY <1>1
  <2>3. i \in 1..Len(r[u]) /\ j \in 1..Len(r[v]) /\ r[u][i] = r[v][j]
    BY <2>1, <2>2
  <2>4. QED
    BY <2>3 DEF Apart
<1>3. ASSUME NEW u \in Thread, NEW i \in 1..Len(s[u]), s[u][i] = r[t][Len(r[t])]
      PROVE  FALSE
  <2>1. i \in 1..Len(r[u]) /\ r[u][i] = r[t][Len(r[t])] /\ (u = t => i # Len(r[t]))
    BY <1>3, PopElements
  <2>2. Len(r[t]) \in 1..Len(r[t])
    BY LenProperties
  <2>3. u = t /\ i = Len(r[t])
    BY <2>1, <2>2 DEF Apart
  <2>4. QED
    BY <2>1, <2>3
<1>4. QED
  BY <1>2, <1>3

(* The task a thread executes.                                             *)
LEMMA CurrentOK ==
  ASSUME EnvTypes, NEW t \in Thread
  PROVE  /\ Len(running[t]) \in Nat
         /\ \A i \in 1..Len(running[t]) : running[t][i] \in TaskObj
         /\ running[t] = <<>> <=> Len(running[t]) = 0
         /\ Current(t) # NoTask => Len(running[t]) > 0
         /\ Len(running[t]) > 0 => /\ Current(t) = running[t][Len(running[t])]
                                   /\ Current(t) \in TaskObj
<1>1. running[t] \in Seq(TaskObj)
  BY DEF EnvTypes
<1>2. /\ Len(running[t]) \in Nat /\ (running[t] = <<>> <=> Len(running[t]) = 0)
      /\ \A i \in 1..Len(running[t]) : running[t][i] \in TaskObj
  BY <1>1, EmptySeq, ElementOfSeq, LenProperties
<1>3. QED
  BY <1>2 DEF Current, Last

(* ... and the one it returns to.                                          *)
LEMMA BelowOK ==
  ASSUME EnvTypes, NEW t \in Thread, Len(running[t]) > 1
  PROVE  /\ Last(Front(running[t])) = running[t][Len(running[t]) - 1]
         /\ Last(Front(running[t])) \in TaskObj
<1> DEFINE s == running[t]
<1>1. s \in Seq(TaskObj) /\ Len(s) \in Nat
  BY CurrentOK DEF EnvTypes
<1>2. s # <<>>
  BY <1>1, EmptySeq
<1>3. Len(Front(s)) = Len(s) - 1 /\ \A i \in 1..Len(s) - 1 : Front(s)[i] = s[i]
  BY <1>1, <1>2, PopFacts DEF Front
<1>4. Len(s) - 1 \in 1..Len(s) - 1
  BY <1>1
<1>5. Last(Front(s)) = s[Len(s) - 1]
  BY <1>3, <1>4 DEF Last
<1>6. QED
  BY <1>1, <1>4, <1>5, ElementOfSeq

(* A thread on top has a task there that fits its level.                   *)
LEMMA OnTopOK ==
  ASSUME Shape, NEW t \in Thread, OnTop(t)
  PROVE  /\ Len(running[t]) \in Nat \ {0}
         /\ Current(t) = running[t][Len(running[t])] /\ Current(t) \in TaskObj
         /\ next[t] = NoTask
         /\ Type(Current(t)) \in Level(t, Len(running[t]))
         /\ Type(Current(t)) = "initial" => team = NoTeam
<1>1. EnvTypes
  BY DEF Shape
<1>2. Len(running[t]) \in Nat \ {0} /\ Current(t) = running[t][Len(running[t])]
      /\ Current(t) \in TaskObj
  BY <1>1, CurrentOK DEF OnTop
<1>3. QED
  BY <1>2 DEF OnTop, Shape, Stacks

(* The initial task executes on the master, with nothing above it.         *)
LEMMA InitialOnTop ==
  ASSUME Shape, NEW t \in Thread, OnTop(t), Type(Current(t)) = "initial"
  PROVE  /\ t = Master /\ Len(running[t]) = 1 /\ Current(t) = running[t][1]
         /\ Current(t) \in TaskObj /\ next[t] = NoTask /\ team = NoTeam
<1>1. /\ Len(running[t]) \in Nat \ {0} /\ Current(t) = running[t][Len(running[t])]
      /\ Current(t) \in TaskObj /\ next[t] = NoTask
      /\ "initial" \in Level(t, Len(running[t])) /\ team = NoTeam
  BY OnTopOK
<1>2. Len(running[t]) < Base(t)
  BY <1>1 DEF Level
<1>3. t = Master /\ Len(running[t]) = 1
  <2> DEFINE n == Len(running[t])
  <2>1. n \in Nat \ {0} /\ n < Base(t)
    BY <1>1, <1>2
  <2> HIDE DEF n
  <2>2. CASE t = Master
    <3>1. n \in Nat \ {0} /\ n < 2
      BY <2>1, <2>2 DEF Base
    <3>2. n = 1
      BY <3>1
    <3>3. QED
      BY <2>2, <3>2 DEF n
  <2>3. CASE t # Master
    <3>1. n \in Nat \ {0} /\ n < 1
      BY <2>1, <2>3 DEF Base
    <3>2. QED
      BY <3>1
  <2>4. QED
    BY <2>2, <2>3
<1>4. QED
  BY <1>1, <1>3

(* An implicit task executes at the bottom of its thread's stack.          *)
LEMMA ImplicitOnTop ==
  ASSUME Shape, NEW t \in Thread, OnTop(t), Type(Current(t)) = "implicit"
  PROVE  /\ Len(running[t]) = Base(t) /\ Current(t) = running[t][Base(t)]
         /\ Current(t) \in TaskObj /\ next[t] = NoTask /\ where[t] # "outside"
<1>1. /\ Len(running[t]) \in Nat \ {0} /\ Current(t) = running[t][Len(running[t])]
      /\ Current(t) \in TaskObj /\ next[t] = NoTask
      /\ "implicit" \in Level(t, Len(running[t]))
  BY OnTopOK
<1>2. Len(running[t]) = Base(t) /\ where[t] # "outside"
  BY <1>1 DEF Level
<1>3. QED
  BY <1>1, <1>2

(* A task that was switched to has another one below it.                   *)
LEMMA TaskOnTop ==
  ASSUME Shape, NEW t \in Thread, OnTop(t), Type(Current(t)) \in {"explicit", "undeferred"}
  PROVE  /\ Len(running[t]) \in Nat /\ Len(running[t]) > 1
         /\ Current(t) = running[t][Len(running[t])]
         /\ Current(t) \in TaskObj /\ next[t] = NoTask
         /\ Len(running[t]) >= Base(t) /\ (where[t] # "outside" => Len(running[t]) > Base(t))
<1>1. /\ Len(running[t]) \in Nat \ {0} /\ Current(t) = running[t][Len(running[t])]
      /\ Current(t) \in TaskObj /\ next[t] = NoTask
      /\ Type(Current(t)) \in Level(t, Len(running[t]))
  BY OnTopOK
<1>2. Base(t) \in {1, 2} /\ Len(running[t]) >= Base(t)
      /\ (where[t] # "outside" => Len(running[t]) # Base(t))
  BY <1>1 DEF Level, Base
<1>3. Len(running[t]) > 1
  <2>1. CASE where[t] # "outside"
    BY <1>1, <1>2, <2>1
  <2>2. CASE where[t] = "outside"
    <3>1. t = Master
      BY <1>1, <2>2 DEF Shape, Stacks
    <3>2. QED
      BY <1>1, <1>2, <3>1 DEF Base
  <2>3. QED
    BY <2>1, <2>2
<1>4. QED
  BY <1>1, <1>2, <1>3

(* What an event leaves in the profile, but for the time of its thread.    *)
LEMMA ReturnsOK ==
  ASSUME NEW p, ProfileOK(p), NEW t, Returns(t, p)
  PROVE  /\ ProfileOK(prof')
         /\ prof'.active = p.active /\ prof'.flat = p.flat /\ prof'.regions = p.regions
         /\ prof'.failure = p.failure /\ prof'.task = p.task
         /\ prof'.exc = p.exc /\ prof'.inc = p.inc
         /\ prof'.stale = p.stale /\ prof'.now = p.now \ {t}
<1> DEFINE now == p.now \ {t}
<1>1. prof' = [p EXCEPT !.now = now]
  BY DEF Returns
<1>2. now \in SUBSET Thread
  BY DEF ProfileOK
<1> HIDE DEF now
<1>3. QED
  <2>1. /\ ProfileOK(prof')
        /\ prof'.active = p.active /\ prof'.flat = p.flat /\ prof'.regions = p.regions
        /\ prof'.failure = p.failure /\ prof'.task = p.task
        /\ prof'.exc = p.exc /\ prof'.inc = p.inc
        /\ prof'.stale = p.stale /\ prof'.now = now
    BY <1>1, <1>2, TakeOK
  <2>2. QED
    BY <2>1 DEF now

(* Returning to the program changes no task.                                *)
LEMMA ReturnsKinds ==
  ASSUME NEW q, NEW O, Kinds(prof, q, O), NEW t, Returns(t, q)
  PROVE  Kinds(prof, prof', O) /\ prof'.task = q.task
<1>1. ProfileOK(prof') /\ prof'.task = q.task
  BY ReturnsOK DEF Kinds
<1>2. QED
  BY <1>1 DEF Kinds

-----------------------------------------------------------------------------
(* The shape is kept *)

(* The initial states have the shape.                                       *)
LEMMA InitShape == Init => Shape
<1> SUFFICES ASSUME Init PROVE Shape
  OBVIOUS
<1>1. PICK on \in BOOLEAN, flat \in BOOLEAN :
        prof = [active |-> on, flat |-> flat, regions |-> <<>>, failure |-> "none",
                task |-> [o \in TaskObj |-> Blank], exc |-> <<>>, inc |-> <<>>,
                now |-> {}, stale |-> FALSE]
  BY DEF Init
<1>2. Blank \in Task
  BY DEF Blank, Task
<1>3. \A o \in TaskObj : prof.task[o] = Blank
  BY <1>1
<1>4. prof.task \in [TaskObj -> Task]
  BY <1>1, <1>2
<1>5. DOMAIN prof = Field
  BY <1>1 DEF Field
<1>6. DOMAIN prof.exc = {} /\ DOMAIN prof.inc = {} /\ DOMAIN prof.regions = {}
      /\ prof.regions \in Seq(Code \X Nat)
  BY <1>1, EmptySeq
<1>7. ProfileOK(prof)
  BY <1>1, <1>3, <1>4, <1>5, <1>6 DEF ProfileOK, Blank
<1>8. \A o \in TaskObj : Type(o) = "none"
  BY <1>3 DEF Type, Blank
<1>9. \A t \in Thread : running[t] = <<>> /\ Len(running[t]) = 0
  BY DEF Init
<1>10. EnvTypes
  BY EmptySeq DEF Init, EnvTypes, ParallelData, Place
<1>11. Placed
  BY <1>8, <1>9 DEF Placed, Apart, Init
<1>12. Stacks
  BY <1>9 DEF Stacks, Init
<1>13. Teams
  <2>1. where[Master] = "outside" /\ forked = {} /\ team = NoTeam /\ ended = FALSE
    BY TaskProfileAssumption DEF Init
  <2>2. \A t \in Thread : where[t] = "outside"
    BY DEF Init
  <2>3. QED
    BY <2>1, <2>2 DEF Teams, Open
<1>14. QED
  BY <1>7, <1>10, <1>11, <1>12, <1>13 DEF Shape

(* The shape is kept by the begin of the initial task.                      *)
LEMMA InitialTaskBeginShape == Shape /\ InitialTaskBegin => Shape'
<1> SUFFICES ASSUME Shape, InitialTaskBegin PROVE Shape'
  OBVIOUS
<1> USE TaskProfileAssumption DEF Shape
<1>1. PICK o \in free :
        /\ Returns(Master, ImplicitTaskBegin(prof, Master, 0, o, "initial", NoTeam))
        /\ free' = free \ {o}
        /\ running' = [running EXCEPT ![Master] = <<o>>]
        /\ path' = [path EXCEPT ![o] = <<NoCode>>]
  BY DEF InitialTaskBegin
<1>2. /\ free = TaskObj /\ Len(running[Master]) = 0 /\ ~ended
      /\ UNCHANGED <<queue, next, sync, children, forked, team, where, count, ended>>
  BY DEF InitialTaskBegin, Running
<1>3. o \in TaskObj
  BY <1>1, <1>2
<1>4. ProfileOK(prof') /\ Kinds(prof, prof', {o}) /\ Type(o)' = "initial"
  <2>1. NoTeam \in ParallelData /\ "initial" \in ImplicitType
    BY DEF ParallelData, ImplicitType
  <2>2. LET q == ImplicitTaskBegin(prof, Master, 0, o, "initial", NoTeam) IN
        Kinds(prof, q, {o}) /\ q.task[o].Type = "initial"
    BY <1>3, <2>1, ImplicitTaskBeginKinds
  <2>3. QED
    BY <1>1, <2>2, ReturnsKinds DEF Kinds, Type
<1>5. \A x \in TaskObj : x # o => Type(x)' = "none"
  BY <1>2, <1>4 DEF Kinds, Type, Placed
<1>6. queue = {} /\ \A t \in Thread : next[t] = NoTask
  <2>1. \A x \in TaskObj : Type(x) = "none"
    BY <1>2 DEF Placed
  <2>2. QED
    BY <2>1 DEF Placed, EnvTypes
<1>7. \A t \in Thread : Len(running[t]) = 0
  <2>1. ASSUME NEW t \in Thread, Len(running[t]) # 0 PROVE FALSE
    <3>1. 1 \in 1..Len(running[t]) /\ running[t][1] \in TaskObj
      BY <2>1, CurrentOK
    <3>2. Type(running[t][1]) \in Level(t, 1) /\ Type(running[t][1]) = "none"
      BY <1>2, <3>1 DEF Stacks, Placed
    <3>3. QED
      BY <3>2 DEF Level
  <2>2. QED
    BY <2>1
<1>8. Pushes(running, running', Master, o)
  <2>1. <<o>> \in Seq(TaskObj) /\ Len(<<o>>) = 1 /\ <<o>>[1] = o
    BY <1>3
  <2>2. QED
    BY <1>1, <1>7, <2>1 DEF Pushes, EnvTypes
<1>9. EnvTypes'
  <2>1. NoCode \in Code
    BY DEF Code
  <2>2. path' \in [TaskObj -> Seq(Code)]
    BY <1>1, <2>1 DEF EnvTypes
  <2>3. QED
    BY <1>1, <1>2, <1>8, <2>2 DEF EnvTypes, Pushes
<1>10. \A t \in Thread : /\ t # Master => Len(running'[t]) = 0
                         /\ t = Master => Len(running'[t]) = 1 /\ running'[t][1] = o
  <2>1. Len(running[Master]) = 0 /\ 0 + 1 = 1
    BY <1>7
  <2>2. Len(running'[Master]) = 1 /\ running'[Master][1] = o
    BY <1>8, <2>1 DEF Pushes
  <2>3. QED
    BY <1>7, <1>8, <2>2 DEF Pushes
<1>11. where = [t \in Thread |-> "outside"] /\ forked = {} /\ team = NoTeam
  <2>1. team = NoTeam
    BY <1>7 DEF Teams
  <2>2. ~Open
    BY <2>1 DEF Teams
  <2>3. \A t \in Thread : where[t] = "outside"
    BY <1>7 DEF Stacks, Base
  <2>4. QED
    BY <2>1, <2>2, <2>3 DEF Teams, EnvTypes
<1>12. Placed'
  BY <1>1, <1>2, <1>3, <1>4, <1>5, <1>6, <1>10 DEF Placed, Apart
<1>13. Stacks'
  BY <1>2, <1>4, <1>6, <1>10, <1>11 DEF Stacks, Level, Base
<1>14. Teams'
  BY <1>2, <1>6, <1>10, <1>11 DEF Teams, Open
<1>15. QED
  BY <1>4, <1>9, <1>12, <1>13, <1>14

(* The shape is kept by the end of the initial task.                        *)
LEMMA InitialTaskEndShape == Shape /\ InitialTaskEnd => Shape'
<1> SUFFICES ASSUME Shape, InitialTaskEnd PROVE Shape'
  OBVIOUS
<1> USE TaskProfileAssumption DEF Shape
<1>1. PICK o : o = Current(Master)
  OBVIOUS
<1>2. /\ OnTop(Master) /\ Type(o) = "initial"
      /\ \A t \in Thread : where[t] = "outside"
      /\ Returns(Master, ImplicitTaskEnd(prof, Master, o))
      /\ free' = free \cup {o}
      /\ running' = [running EXCEPT ![Master] = <<>>]
      /\ path' = [path EXCEPT ![o] = <<>>] /\ ended' = TRUE
      /\ UNCHANGED <<queue, next, sync, children, forked, team, where, count>>
  BY <1>1 DEF InitialTaskEnd, InProgram
<1>3. /\ o \in TaskObj /\ Len(running[Master]) = 1 /\ o = running[Master][1]
      /\ next[Master] = NoTask /\ team = NoTeam
  BY <1>1, <1>2, InitialOnTop
<1>4. ProfileOK(prof') /\ Kinds(prof, prof', {o}) /\ Type(o)' = "none"
  <2>1. LET q == ImplicitTaskEnd(prof, Master, o) IN
        Kinds(prof, q, {o}) /\ q.task[o].Type = "none"
    BY <1>3, ImplicitTaskEndKinds
  <2>2. Kinds(prof, prof', {o}) /\ prof'.task = ImplicitTaskEnd(prof, Master, o).task
    BY <1>2, <2>1, ReturnsKinds
  <2>3. QED
    BY <2>1, <2>2 DEF Kinds, Type
<1>5. \A x \in TaskObj : x # o => Type(x)' = Type(x)
  BY <1>4 DEF Kinds, Type
<1>6. running' \in [Thread -> Seq(TaskObj)] /\ \A t \in Thread : Len(running'[t]) = 0
  <2>1. \A t \in Thread : t # Master => Len(running[t]) = 0
    BY <1>2 DEF Stacks
  <2>2. QED
    BY <1>2, <2>1, EmptySeq DEF EnvTypes
<1>7. forked = {} /\ where[Master] = "outside"
  BY <1>2, <1>3 DEF Teams
<1>8. EnvTypes'
  <2>1. path' \in [TaskObj -> Seq(Code)]
    BY <1>2, EmptySeq DEF EnvTypes
  <2>2. QED
    BY <1>2, <1>3, <1>6, <2>1 DEF EnvTypes
<1>9. \A t \in Thread : next[t] = NoTask
  BY <1>2, <1>3 DEF Stacks
<1>10. Placed'
  <2>1. Type(o) = "initial" /\ free' = free \cup {o} /\ queue' = queue /\ next' = next
    BY <1>2
  <2>2. \A x \in TaskObj : x \in free' <=> Type(x)' = "none"
    BY <1>4, <1>5, <2>1 DEF Placed
  <2>3. \A x \in queue : Type(x)' = "explicit"
    BY <1>5, <2>1 DEF Placed, EnvTypes
  <2>4. QED
    BY <1>6, <1>9, <2>1, <2>2, <2>3 DEF Placed, Apart
<1>11. Stacks'
  BY <1>2, <1>6, <1>9, <1>3 DEF Stacks, Level, Base
<1>12. Teams'
  BY <1>2, <1>3, <1>6, <1>7 DEF Teams, Open
<1>13. QED
  BY <1>4, <1>8, <1>10, <1>11, <1>12

(* An event that moves no task.                                            *)
LEMMA SameKinds ==
  ASSUME EnvTypes, Placed, NEW O, O \cap TaskObj = {}, Kinds(prof, prof', O),
         UNCHANGED <<free, queue, next, running>>
  PROVE  Placed' /\ ProfileOK(prof') /\ \A x \in TaskObj : Type(x)' = Type(x)
<1>1. ProfileOK(prof') /\ \A x \in TaskObj : Type(x)' = Type(x)
  BY DEF Kinds, Type
<1>2. \A t \in Thread : next[t] # NoTask => Type(next[t])' = Type(next[t])
  BY <1>1 DEF EnvTypes
<1>3. Placed'
  BY <1>1, <1>2 DEF Placed, EnvTypes
<1>4. QED
  BY <1>1, <1>3

(* The shape is kept by the begin of a parallel region.                     *)
LEMMA ParallelRegionBeginShape == Shape /\ ParallelRegionBegin => Shape'
<1> SUFFICES ASSUME Shape, ParallelRegionBegin PROVE Shape'
  OBVIOUS
<1> USE TaskProfileAssumption DEF Shape
<1>1. PICK o : o = Current(Master)
  OBVIOUS
<1>2. /\ OnTop(Master) /\ Type(o) = "initial" /\ forked = {}
      /\ prof' = ParallelBegin(prof, Master, o)
      /\ team' = [codePtr |-> ParCode, parentTask |-> o] /\ forked' = Thread
      /\ UNCHANGED <<free, running, queue, next, sync, children, where, path, ended>>
  BY <1>1 DEF ParallelRegionBegin, InProgram
<1>3. /\ o \in TaskObj /\ Len(running[Master]) = 1 /\ o = running[Master][1]
      /\ next[Master] = NoTask /\ team = NoTeam
  BY <1>1, <1>2, InitialOnTop
<1>4. Kinds(prof, prof', {})
  BY <1>2, <1>3, ParallelBeginKinds
<1>5. Placed' /\ ProfileOK(prof') /\ \A x \in TaskObj : Type(x)' = Type(x)
  BY <1>2, <1>4, SameKinds
<1>6. team' \in ParallelData /\ team' # NoTeam /\ team'.parentTask = o
  BY <1>2, <1>3 DEF ParallelData, NoTeam
<1>7. EnvTypes'
  BY <1>2, <1>6 DEF EnvTypes
<1>8. Stacks'
  <2>1. \A t \in Thread : \A i \in 1..Len(running[t]) : running[t][i] \in TaskObj
    BY CurrentOK
  <2>2. QED
    BY <1>2, <1>5, <2>1 DEF Stacks, Level
<1>9. ~Open
  BY <1>3 DEF Teams
<1>10. Teams'
  <2>1. where[Master] = "outside" /\ \A t \in Thread : where[t] \in {"outside", "released", "leaving"}
    <3>1. \A t \in Thread : where[t] \notin {"inside", "barrier"}
      BY <1>9 DEF Teams
    <3>2. where[Master] \notin {"released", "leaving"}
      BY <1>3 DEF Stacks, Base
    <3>3. QED
      BY <3>1, <3>2 DEF EnvTypes, Place
  <2>2. Open'
    BY <1>2 DEF Open
  <2>3. QED
    BY <1>2, <1>3, <1>6, <2>1, <2>2 DEF Teams
<1>11. QED
  BY <1>5, <1>7, <1>8, <1>10

(* The shape is kept by the end of a parallel region.                       *)
LEMMA ParallelRegionEndShape == Shape /\ ParallelRegionEnd => Shape'
<1> SUFFICES ASSUME Shape, ParallelRegionEnd PROVE Shape'
  OBVIOUS
<1> USE TaskProfileAssumption DEF Shape
<1>1. /\ team # NoTeam /\ Master \notin forked /\ where[Master] = "outside"
      /\ Returns(Master, ParallelEnd(prof, Master, team.parentTask)) /\ team' = NoTeam
      /\ UNCHANGED <<free, running, queue, next, sync, children, forked, where, path, ended>>
  BY DEF ParallelRegionEnd
<1>2. team.parentTask \in TaskObj
  BY <1>1 DEF EnvTypes, ParallelData
<1>3. Kinds(prof, prof', {})
  <2>1. Kinds(prof, ParallelEnd(prof, Master, team.parentTask), {})
    BY <1>2, ParallelEndKinds
  <2>2. QED
    BY <1>1, <2>1, ReturnsKinds
<1>4. Placed' /\ ProfileOK(prof') /\ \A x \in TaskObj : Type(x)' = Type(x)
  BY <1>1, <1>3, SameKinds
<1>5. EnvTypes'
  BY <1>1 DEF EnvTypes, ParallelData
<1>6. Stacks'
  <2>1. \A t \in Thread : \A i \in 1..Len(running[t]) : running[t][i] \in TaskObj
    BY CurrentOK
  <2>2. QED
    BY <1>1, <1>4, <2>1 DEF Stacks, Level
<1>7. ~Open /\ ~Open'
  BY <1>1 DEF Open
<1>8. Teams'
  BY <1>1, <1>7 DEF Teams
<1>9. QED
  BY <1>4, <1>5, <1>6, <1>8

(* The shape is kept by the opening of the barrier.                         *)
LEMMA BarrierOpensShape == Shape /\ BarrierOpens => Shape'
<1> SUFFICES ASSUME Shape, BarrierOpens PROVE Shape'
  OBVIOUS
<1> USE TaskProfileAssumption DEF Shape
<1>1. /\ \A t \in Thread : where[t] = "barrier" /\ Type(Current(t)) = "implicit"
      /\ where' = [t \in Thread |-> "released"]
      /\ UNCHANGED <<prof, free, running, queue, next, sync, children, forked, team, path, ended>>
  BY DEF BarrierOpens
<1>2. \A x : Type(x)' = Type(x)
  BY <1>1 DEF Type
<1>3. EnvTypes' /\ ProfileOK(prof')
  BY <1>1 DEF EnvTypes, Place
<1>4. Placed'
  BY <1>1, <1>2 DEF Placed
<1>5. \A t \in Thread : Len(running[t]) = Base(t)
  <2>1. ASSUME NEW t \in Thread PROVE Len(running[t]) = Base(t)
    <3>1. Len(running[t]) \in Nat /\ Len(running[t]) >= Base(t) /\ Base(t) \in {1, 2}
      BY <1>1, CurrentOK DEF Stacks, Base
    <3>2. Current(t) = running[t][Len(running[t])]
      BY <3>1, CurrentOK
    <3>3. Type(Current(t)) \in Level(t, Len(running[t]))
      BY <3>1, <3>2 DEF Stacks
    <3>4. QED
      BY <1>1, <3>1, <3>3 DEF Level
  <2>2. QED
    BY <2>1
<1>6. Stacks'
  <2>1. \A t \in Thread : next[t] = NoTask
    BY <1>1, <1>5 DEF Stacks, Base
  <2>2. \A t \in Thread : Level(t, 1) \in {Level(t, 1)'} /\ \A i : Level(t, i)' = Level(t, i)
    BY <1>1 DEF Level
  <2>3. QED
    BY <1>1, <1>2, <1>5, <2>1, <2>2 DEF Stacks
<1>7. forked = {}
  BY <1>1 DEF Teams, EnvTypes
<1>8. Teams'
  BY <1>1, <1>7 DEF Teams, Open
<1>9. QED
  BY <1>3, <1>4, <1>6, <1>8

(* The shape is kept by the begin of an implicit task.                      *)
LEMMA ImplicitBeginShape ==
  ASSUME Shape, NEW t \in Thread, ImplicitBegin(t) PROVE Shape'
<1> USE TaskProfileAssumption DEF Shape
<1>1. PICK o \in free :
        /\ Returns(t, ImplicitTaskBegin(prof, t, ThreadNum(t), o, "implicit", team))
        /\ free' = free \ {o}
        /\ running' = [running EXCEPT ![t] = Append(@, o)]
        /\ path' = [path EXCEPT ![o] = Append(path[team.parentTask], ParCode)]
  BY DEF ImplicitBegin
<1>2. /\ ~ended /\ t \in forked /\ where[t] = "outside"
      /\ forked' = forked \ {t} /\ where' = [where EXCEPT ![t] = "inside"]
      /\ UNCHANGED <<queue, next, sync, children, team, count, ended>>
  BY DEF ImplicitBegin, Running
<1>3. o \in TaskObj /\ Type(o) = "none"
  BY <1>1 DEF EnvTypes, Placed
<1>4. Open /\ team # NoTeam /\ team.parentTask \in TaskObj
  BY <1>2 DEF Teams, EnvTypes, ParallelData
<1>5. ProfileOK(prof') /\ prof'.task[o].Type = "implicit"
      /\ \A x \in TaskObj : x # o => Type(x)' = Type(x)
  <2>1. "implicit" \in ImplicitType /\ team \in ParallelData
    BY DEF ImplicitType, EnvTypes
  <2>2. LET q == ImplicitTaskBegin(prof, t, ThreadNum(t), o, "implicit", team) IN
        Kinds(prof, q, {o}) /\ q.task[o].Type = "implicit"
    BY <1>3, <2>1, ImplicitTaskBeginKinds
  <2>3. Kinds(prof, prof', {o}) /\ prof'.task[o].Type = "implicit"
    BY <1>1, <2>2, ReturnsKinds
  <2>4. QED
    BY <2>3 DEF Kinds, Type
<1>6. Pushes(running, running', t, o)
  BY <1>1, <1>3, PushOK DEF EnvTypes
<1>7. Len(running[t]) = Base(t) - 1 /\ next[t] = NoTask
  <2>1. CASE t = Master
    BY <1>2, <1>4, <2>1 DEF Teams, Base
  <2>2. CASE t # Master
    BY <1>2, <2>2 DEF Stacks, Base
  <2>3. QED
    BY <2>1, <2>2
<1>8. EnvTypes'
  <2>1. Append(path[team.parentTask], ParCode) \in Seq(Code)
    BY <1>4 DEF EnvTypes, Code
  <2>2. path' \in [TaskObj -> Seq(Code)] /\ where' \in [Thread -> Place]
    BY <1>1, <1>2, <2>1 DEF EnvTypes, Place
  <2>3. QED
    BY <1>1, <1>2, <1>6, <2>2 DEF EnvTypes, Pushes
<1>9. /\ Base(t) \in {1, 2} /\ Len(running'[t]) = Base(t) /\ running'[t][Base(t)] = o
      /\ \A i \in 1..Base(t) - 1 : running'[t][i] = running[t][i]
  <2>1. Base(t) \in {1, 2} /\ Base(t) - 1 + 1 = Base(t)
    BY DEF Base
  <2>2. QED
    BY <1>6, <1>7, <2>1 DEF Pushes
<1>10. \A u \in Thread : /\ Len(running[u]) \in Nat
                         /\ \A i \in 1..Len(running[u]) : running[u][i] \in TaskObj \ {o}
  BY <1>3, CurrentOK DEF Stacks, Level
<1>11. \A u \in Thread : \A i \in 1..Len(running'[u]) :
         \/ i \in 1..Len(running[u]) /\ running'[u][i] = running[u][i]
         \/ u = t /\ i = Base(t) /\ running'[u][i] = o
  <2>1. \A i \in 1..Base(t) : i \in 1..Base(t) - 1 \/ i = Base(t)
    BY <1>9
  <2>2. QED
    BY <1>6, <1>7, <1>9, <2>1 DEF Pushes
<1>12. Placed'
  <2>1. free' = free \ {o} /\ queue' = queue /\ next' = next /\ o \notin queue
    BY <1>1, <1>2, <1>3 DEF Placed
  <2>2. \A u \in Thread : next[u] # o /\ (next[u] # NoTask => next[u] \in TaskObj)
    BY <1>3 DEF Placed, EnvTypes
  <2>3. \A x \in TaskObj : x \in free' <=> Type(x)' = "none"
    BY <1>5, <2>1 DEF Placed, Type
  <2>4. \A x \in queue : Type(x)' = "explicit"
    BY <1>5, <2>1 DEF Placed, EnvTypes
  <2>5. \A u \in Thread : next[u] # NoTask => Type(next[u])' = "undeferred"
    BY <1>2, <1>5, <2>1, <2>2 DEF Placed, Type
  <2>6. Apart(running')
    <3>1. Apart(running)
      BY DEF Placed
    <3>2. \A u \in Thread : \A i \in 1..Len(running[u]) : running[u][i] # o
      BY <1>10
    <3>3. PICK r, s : r = running /\ s = running'
      OBVIOUS
    <3>4. /\ r \in [Thread -> Seq(TaskObj)] /\ Pushes(r, s, t, o) /\ Apart(r)
          /\ \A u \in Thread : \A i \in 1..Len(r[u]) : r[u][i] # o
      BY <1>6, <3>1, <3>2, <3>3 DEF EnvTypes
    <3>5. Apart(s)
      BY <3>4, PushApart, SMTT(30)
    <3>6. QED
      BY <3>3, <3>5
  <2>7. \A u \in Thread : \A i \in 1..Len(running'[u]) :
          running'[u][i] \notin queue /\ \A v \in Thread : running'[u][i] # next[v]
    <3>1. ASSUME NEW u \in Thread, NEW i \in 1..Len(running'[u])
          PROVE  running'[u][i] \notin queue /\ \A v \in Thread : running'[u][i] # next[v]
      <4>1. CASE i \in 1..Len(running[u]) /\ running'[u][i] = running[u][i]
        BY <4>1 DEF Placed
      <4>2. CASE running'[u][i] = o
        BY <2>1, <2>2, <4>2
      <4>3. QED
        BY <1>11, <4>1, <4>2
    <3>2. QED
      BY <3>1
  <2>8. QED
    BY <2>1, <2>3, <2>4, <2>5, <2>6, <2>7 DEF Placed, Type
<1>13. where'[t] = "inside" /\ \A u \in Thread : u # t => where'[u] = where[u]
  BY <1>2 DEF EnvTypes
<1>14. Stacks'
  <2>1. ASSUME NEW u \in Thread, NEW i \in 1..Len(running'[u])
        PROVE  prof'.task[running'[u][i]].Type \in Level(u, i)'
    <3>1. CASE i \in 1..Len(running[u]) /\ running'[u][i] = running[u][i]
      <4>1. Type(running[u][i]) \in Level(u, i)
        BY <3>1 DEF Stacks
      <4>2. prof'.task[running'[u][i]].Type = Type(running[u][i])
        BY <1>5, <1>10, <3>1 DEF Type
      <4>3. u = t => i < Base(t)
        BY <1>7, <1>9, <3>1
      <4>4. QED
        BY <1>13, <4>1, <4>2, <4>3 DEF Level
    <3>2. CASE u = t /\ i = Base(t) /\ running'[u][i] = o
      BY <1>5, <1>9, <1>13, <3>2 DEF Level
    <3>3. QED
      BY <1>11, <3>1, <3>2
  <2>2. \A u \in Thread : u # t => running'[u] = running[u]
    BY <1>6 DEF Pushes
  <2>3. QED
    BY <1>2, <1>7, <1>9, <1>13, <2>1, <2>2 DEF Stacks, Type
<1>15. Teams'
  <2>1. CASE t = Master
    <3>1. running'[Master][1] = running[Master][1] /\ Len(running'[Master]) > 0
      BY <1>9, <2>1 DEF Base
    <3>2. QED
      BY <1>2, <1>4, <1>13, <2>1, <3>1 DEF Teams, Open
  <2>2. CASE t # Master
    <3>1. running'[Master] = running[Master]
      BY <1>6, <2>2 DEF Pushes
    <3>2. QED
      BY <1>2, <1>4, <1>13, <2>2, <3>1 DEF Teams, Open
  <2>3. QED
    BY <2>1, <2>2
<1>16. QED
  BY <1>5, <1>8, <1>12, <1>14, <1>15

(* The shape is kept by the begin of a barrier.                             *)
LEMMA BarrierBeginShape ==
  ASSUME Shape, NEW t \in Thread, BarrierBegin(t) PROVE Shape'
<1> USE TaskProfileAssumption DEF Shape
<1>1. PICK o : o = Current(t)
  OBVIOUS
<1>2. /\ OnTop(t) /\ Type(o) = "implicit" /\ where[t] = "inside" /\ sync[o] = <<>>
      /\ Returns(t, SyncRegionBegin(prof, t, o))
      /\ where' = [where EXCEPT ![t] = "barrier"]
      /\ UNCHANGED <<free, running, queue, next, sync, children, forked, team, path, ended>>
  BY <1>1 DEF BarrierBegin, InProgram
<1>3. /\ Len(running[t]) = Base(t) /\ o = running[t][Base(t)] /\ o \in TaskObj
      /\ next[t] = NoTask
  BY <1>1, <1>2, ImplicitOnTop
<1>4. Kinds(prof, prof', {})
  <2>1. Kinds(prof, SyncRegionBegin(prof, t, o), {})
    BY <1>3, SyncRegionKinds
  <2>2. QED
    BY <1>2, <2>1, ReturnsKinds
<1>5. Placed' /\ ProfileOK(prof') /\ \A x \in TaskObj : Type(x)' = Type(x)
  BY <1>2, <1>4, SameKinds
<1>6. where'[t] = "barrier" /\ \A u \in Thread : u # t => where'[u] = where[u]
  BY <1>2 DEF EnvTypes
<1>7. EnvTypes'
  BY <1>2 DEF EnvTypes, Place
<1>8. Stacks'
  <2>1. \A u \in Thread : \A i : Level(u, i)' = Level(u, i)
    BY <1>2, <1>6 DEF Level
  <2>2. \A u \in Thread : \A i \in 1..Len(running[u]) : running[u][i] \in TaskObj
    BY CurrentOK
  <2>3. \A u \in Thread : \A i \in 1..Len(running[u]) : Type(running[u][i])' \in Level(u, i)'
    BY <1>2, <1>5, <2>1, <2>2 DEF Stacks
  <2>4. QED
    BY <1>2, <1>3, <1>6, <2>3 DEF Stacks, Base
<1>9. Teams'
  BY <1>2, <1>6 DEF Teams, Open
<1>10. QED
  BY <1>5, <1>7, <1>8, <1>9

(* The shape is kept by the end of a barrier.                               *)
LEMMA BarrierEndShape ==
  ASSUME Shape, NEW t \in Thread, BarrierEnd(t) PROVE Shape'
<1> USE TaskProfileAssumption DEF Shape
<1>1. PICK o : o = Current(t)
  OBVIOUS
<1>2. /\ where[t] = "released"
      /\ Returns(t, SyncRegionEnd(prof, t, o))
      /\ where' = [where EXCEPT ![t] = "leaving"]
      /\ UNCHANGED <<free, running, queue, next, sync, children, forked, team, path, ended>>
  BY <1>1 DEF BarrierEnd
<1>3. Len(running[t]) = Base(t) /\ o = running[t][Base(t)] /\ o \in TaskObj
  BY <1>1, <1>2, CurrentOK DEF Stacks, Base
<1>4. Kinds(prof, prof', {})
  <2>1. Kinds(prof, SyncRegionEnd(prof, t, o), {})
    BY <1>3, SyncRegionKinds
  <2>2. QED
    BY <1>2, <2>1, ReturnsKinds
<1>5. Placed' /\ ProfileOK(prof') /\ \A x \in TaskObj : Type(x)' = Type(x)
  BY <1>2, <1>4, SameKinds
<1>6. where'[t] = "leaving" /\ \A u \in Thread : u # t => where'[u] = where[u]
  BY <1>2 DEF EnvTypes
<1>7. EnvTypes'
  BY <1>2 DEF EnvTypes, Place
<1>8. Stacks'
  <2>1. \A u \in Thread : \A i : Level(u, i)' = Level(u, i)
    BY <1>2, <1>6 DEF Level
  <2>2. \A u \in Thread : \A i \in 1..Len(running[u]) : running[u][i] \in TaskObj
    BY CurrentOK
  <2>3. \A u \in Thread : \A i \in 1..Len(running[u]) : Type(running[u][i])' \in Level(u, i)'
    BY <1>2, <1>5, <2>1, <2>2 DEF Stacks
  <2>4. QED
    BY <1>2, <1>3, <1>6, <2>3 DEF Stacks, Base
<1>9. Teams'
  BY <1>2, <1>6 DEF Teams, Open
<1>10. QED
  BY <1>5, <1>7, <1>8, <1>9

(* The shape is kept by the end of an implicit task.                        *)
LEMMA ImplicitEndShape ==
  ASSUME Shape, NEW t \in Thread, ImplicitEnd(t) PROVE Shape'
<1> USE TaskProfileAssumption DEF Shape
<1>1. PICK o : o = Current(t)
  OBVIOUS
<1>2. /\ ~ended /\ where[t] = "leaving"
      /\ LET p == ImplicitTaskEnd(prof, t, o)
         IN  IF t = Master THEN prof' = p ELSE Returns(t, p)
      /\ free' = free \cup {o}
      /\ running' = [running EXCEPT ![t] = Front(@)]
      /\ path' = [path EXCEPT ![o] = <<>>]
      /\ where' = [where EXCEPT ![t] = "outside"]
      /\ children' = [children EXCEPT ![o] = {}]
      /\ UNCHANGED <<queue, next, sync, forked, team, ended>>
  BY <1>1 DEF ImplicitEnd, Running
<1>3. /\ Len(running[t]) = Base(t) /\ o = running[t][Base(t)] /\ o \in TaskObj
      /\ Type(o) = "implicit" /\ next[t] = NoTask
  <2>1. Len(running[t]) = Base(t) /\ o = running[t][Base(t)] /\ o \in TaskObj
    BY <1>1, <1>2, CurrentOK DEF Stacks, Base
  <2>2. Base(t) \in 1..Len(running[t])
    BY <2>1 DEF Base
  <2>3. QED
    BY <1>2, <2>1, <2>2 DEF Stacks, Level
<1>4. /\ ProfileOK(prof') /\ prof'.task[o].Type = "none"
      /\ \A x \in TaskObj : x # o => prof'.task[x].Type = Type(x)
  <2>1. LET q == ImplicitTaskEnd(prof, t, o) IN Kinds(prof, q, {o}) /\ q.task[o].Type = "none"
    BY <1>3, ImplicitTaskEndKinds
  <2>2. Kinds(prof, prof', {o}) /\ prof'.task[o].Type = "none"
    BY <1>2, <2>1, ReturnsKinds
  <2>3. QED
    BY <2>2 DEF Kinds, Type
<1> DEFINE n == Len(running[t])
<1>a. Base(t) \in {1, 2} /\ n = Base(t)
  BY <1>3 DEF Base
<1>b. n > 0 /\ running \in [Thread -> Seq(TaskObj)] /\ o = running[t][n]
  <2> HIDE DEF n
  <2>4. n > 0
    BY <1>a
  <2>5. QED
    BY <1>3, <1>a, <2>4 DEF EnvTypes
<1>5. Pops(running, running', t)
  BY <1>2, <1>b, PopOK
<1>6. EnvTypes'
  <2>1. path' \in [TaskObj -> Seq(Code)] /\ where' \in [Thread -> Place]
        /\ children' \in [TaskObj -> SUBSET TaskObj]
    BY <1>2, EmptySeq DEF EnvTypes, Place
  <2>2. QED
    BY <1>2, <1>3, <1>5, <2>1 DEF EnvTypes, Pops
<1>7. \A u \in Thread : \A i \in 1..Len(running'[u]) :
        /\ i \in 1..Len(running[u]) /\ running'[u][i] = running[u][i]
        /\ u = t => i # Base(t)
  BY <1>3, <1>5, <1>b, PopElements
<1>8. Apart(running') /\ \A u \in Thread : \A i \in 1..Len(running'[u]) : running'[u][i] # o
  BY <1>5, <1>b, PopApart DEF Placed
<1>9. \A u \in Thread : \A i \in 1..Len(running[u]) : running[u][i] \in TaskObj
  BY CurrentOK
<1>10. \A u \in Thread : \A i \in 1..Len(running'[u]) :
         prof'.task[running'[u][i]].Type = Type(running[u][i])
  BY <1>4, <1>7, <1>8, <1>9
<1>11. Placed'
  <2>1. \A x \in TaskObj : x \in free' <=> prof'.task[x].Type = "none"
    BY <1>2, <1>3, <1>4 DEF Placed
  <2>2. \A x \in queue : prof'.task[x].Type = "explicit"
    BY <1>3, <1>4 DEF Placed, EnvTypes
  <2>3. \A u \in Thread : next[u] # NoTask => prof'.task[next[u]].Type = "undeferred"
    BY <1>3, <1>4 DEF Placed, EnvTypes
  <2>4. QED
    BY <1>2, <1>7, <1>8, <2>1, <2>2, <2>3 DEF Placed, Type
<1>12. where'[t] = "outside" /\ \A u \in Thread : u # t => where'[u] = where[u]
  BY <1>2 DEF EnvTypes
<1>13. Len(running'[t]) = Base(t) - 1 /\ \A u \in Thread : u # t => running'[u] = running[u]
  BY <1>3, <1>5 DEF Pops
<1>14. Stacks'
  <2>1. ASSUME NEW u \in Thread, NEW i \in 1..Len(running'[u])
        PROVE  prof'.task[running'[u][i]].Type \in Level(u, i)'
    <3>1. Type(running[u][i]) \in Level(u, i) /\ i \in 1..Len(running[u])
      BY <1>7 DEF Stacks
    <3>2. u = t => i < Base(t)
      BY <1>13, <1>a
    <3>3. QED
      BY <1>10, <1>12, <3>1, <3>2 DEF Level
  <2>2. QED
    BY <1>2, <1>3, <1>12, <1>13, <2>1 DEF Stacks, Type, Base
<1>15. Teams'
  <2>1. CASE t = Master
    <3>1. 1 \in 1..Len(running'[Master]) /\ Len(running'[Master]) = 1
      BY <1>13, <2>1 DEF Base
    <3>2. running'[Master][1] = running[Master][1] /\ Len(running[Master]) > 0
      BY <1>3, <1>7, <2>1, <3>1 DEF Base
    <3>3. ~Open /\ forked = {}
      BY <1>2, <2>1 DEF Teams, Open
    <3>4. QED
      BY <1>2, <1>3, <1>12, <2>1, <3>1, <3>2, <3>3 DEF Teams, Open
  <2>2. CASE t # Master
    <3>1. running'[Master] = running[Master] /\ where'[Master] = where[Master]
      BY <1>12, <1>13, <2>2
    <3>2. QED
      BY <1>2, <1>12, <2>2, <3>1 DEF Teams, Open
  <2>3. QED
    BY <2>1, <2>2
<1>16. QED
  BY <1>4, <1>6, <1>11, <1>14, <1>15

(* Sync regions change nothing but sync, and that of a task that is not in  *)
(* a barrier.                                                              *)
LEMMA SyncShape ==
  ASSUME Shape, NEW o \in TaskObj, sync' \in [TaskObj -> Seq({"taskwait", "taskgroup"})],
         \A x \in TaskObj : x # o => sync'[x] = sync[x],
         \A t \in Thread : where[t] \in {"barrier", "released", "leaving"} =>
           running[t][Base(t)] # o,
         Kinds(prof, prof', {}),
         UNCHANGED <<free, running, queue, next, children, forked, team, where, path, ended>>
  PROVE  Shape'
<1> USE DEF Shape
<1>1. Placed' /\ ProfileOK(prof') /\ \A x \in TaskObj : Type(x)' = Type(x)
  BY SameKinds
<1>2. EnvTypes'
  BY DEF EnvTypes
<1>3. Teams'
  BY DEF Teams, Open
<1>4. ASSUME NEW t \in Thread, where[t] \in {"barrier", "released", "leaving"}
      PROVE  sync'[running[t][Base(t)]] = <<>>
  <2>1. Base(t) \in 1..Len(running[t])
    BY <1>4, CurrentOK DEF Stacks, Base
  <2>2. running[t][Base(t)] \in TaskObj
    BY <2>1, CurrentOK
  <2>3. QED
    BY <1>4, <2>2 DEF Stacks
<1>5. Stacks'
  <2>1. \A t \in Thread : \A i \in 1..Len(running[t]) : running[t][i] \in TaskObj
    BY CurrentOK
  <2>2. QED
    BY <1>1, <1>4, <2>1 DEF Stacks, Level
<1>6. QED
  BY <1>1, <1>2, <1>3, <1>5

(* The shape is kept by the begin of a taskwait or taskgroup.               *)
LEMMA RegionBeginShape ==
  ASSUME Shape, NEW t \in Thread, NEW kind \in {"taskwait", "taskgroup"}, RegionBegin(t, kind)
  PROVE  Shape'
<1> USE TaskProfileAssumption DEF Shape
<1>1. PICK o : o = Current(t)
  OBVIOUS
<1>2. /\ OnTop(t) /\ (Type(o) = "implicit" => where[t] = "inside")
      /\ Returns(t, SyncRegionBegin(prof, t, o))
      /\ sync' = [sync EXCEPT ![o] = Append(@, kind)]
      /\ UNCHANGED <<free, running, queue, next, children, forked, team, where, path, ended>>
  BY <1>1 DEF RegionBegin, InProgram
<1>3. /\ o \in TaskObj /\ o = running[t][Len(running[t])] /\ Len(running[t]) \in Nat \ {0}
      /\ Type(o) \in Level(t, Len(running[t]))
  BY <1>1, <1>2, OnTopOK
<1>4. Kinds(prof, prof', {})
  <2>1. Kinds(prof, SyncRegionBegin(prof, t, o), {})
    BY <1>3, SyncRegionKinds
  <2>2. QED
    BY <1>2, <2>1, ReturnsKinds
<1>5. ASSUME NEW u \in Thread, where[u] \in {"barrier", "released", "leaving"},
             running[u][Base(u)] = o
      PROVE  FALSE
  <2>1. Base(u) \in 1..Len(running[u])
    BY <1>5, CurrentOK DEF Stacks, Base
  <2>2. Len(running[t]) \in 1..Len(running[t])
    BY <1>3
  <2>3. u = t /\ Base(t) = Len(running[t])
    BY <1>3, <1>5, <2>1, <2>2 DEF Placed, Apart
  <2>4. Type(o) = "implicit"
    BY <1>3, <1>5, <2>3 DEF Level
  <2>5. QED
    BY <1>2, <1>5, <2>3, <2>4
<1>6. sync' \in [TaskObj -> Seq({"taskwait", "taskgroup"})]
  BY <1>2, <1>3 DEF EnvTypes
<1>7. \A x \in TaskObj : x # o => sync'[x] = sync[x]
  BY <1>2 DEF EnvTypes
<1>8. QED
  BY <1>2, <1>3, <1>4, <1>5, <1>6, <1>7, SyncShape

(* The shape is kept by the end of a taskwait or taskgroup.                 *)
LEMMA RegionEndShape ==
  ASSUME Shape, NEW t \in Thread, RegionEnd(t) PROVE Shape'
<1> USE TaskProfileAssumption DEF Shape
<1>1. PICK o : o = Current(t)
  OBVIOUS
<1>2. /\ OnTop(t) /\ sync[o] # <<>>
      /\ Returns(t, SyncRegionEnd(prof, t, o))
      /\ sync' = [sync EXCEPT ![o] = Front(@)]
      /\ UNCHANGED <<free, running, queue, next, children, forked, team, where, path, ended>>
  BY <1>1 DEF RegionEnd
<1>3. o \in TaskObj
  BY <1>1, <1>2, OnTopOK
<1>4. Kinds(prof, prof', {})
  <2>1. Kinds(prof, SyncRegionEnd(prof, t, o), {})
    BY <1>3, SyncRegionKinds
  <2>2. QED
    BY <1>2, <2>1, ReturnsKinds
<1>5. \A u \in Thread : where[u] \in {"barrier", "released", "leaving"} => running[u][Base(u)] # o
  BY <1>2 DEF Stacks
<1>6. sync' \in [TaskObj -> Seq({"taskwait", "taskgroup"})]
  <2>1. sync[o] \in Seq({"taskwait", "taskgroup"})
    BY <1>3 DEF EnvTypes
  <2>2. Front(sync[o]) \in Seq({"taskwait", "taskgroup"})
    BY <1>2, <2>1, PopFacts DEF Front
  <2>3. QED
    BY <1>2, <2>2 DEF EnvTypes
<1>7. \A x \in TaskObj : x # o => sync'[x] = sync[x]
  BY <1>2 DEF EnvTypes
<1>8. QED
  BY <1>2, <1>3, <1>4, <1>5, <1>6, <1>7, SyncShape

(* The shape is kept by a control_tool call.                                *)
LEMMA ControlShape ==
  ASSUME Shape, NEW on \in BOOLEAN, Control(on) PROVE Shape'
<1> USE TaskProfileAssumption DEF Shape
<1>1. PICK o : o = Current(Master)
  OBVIOUS
<1>2. OnTop(Master) /\ Returns(Master, ControlTool(prof, Master, o, on)) /\ UNCHANGED env
  BY <1>1 DEF Control, InProgram
<1>3. o \in TaskObj
  BY <1>1, <1>2, OnTopOK
<1>4. Kinds(prof, prof', {})
  <2>1. Kinds(prof, ControlTool(prof, Master, o, on), {})
    BY <1>3, ControlToolKinds
  <2>2. QED
    BY <1>2, <2>1, ReturnsKinds
<1>5. Placed' /\ ProfileOK(prof') /\ \A x \in TaskObj : Type(x)' = Type(x)
  BY <1>2, <1>4, SameKinds DEF env
<1>6. EnvTypes' /\ Teams'
  BY <1>2 DEF EnvTypes, Teams, Open, env
<1>7. Stacks'
  <2>1. \A t \in Thread : \A i \in 1..Len(running[t]) : running[t][i] \in TaskObj
    BY CurrentOK
  <2>2. QED
    BY <1>2, <1>5, <2>1 DEF Stacks, Level, env
<1>8. QED
  BY <1>5, <1>6, <1>7

(* The shape is kept by the creation of a task.                             *)
LEMMA CreateTaskShape ==
  ASSUME Shape, NEW t \in Thread, NEW type \in {"explicit", "undeferred"}, NEW code \in TaskCode,
         CreateTask(t, type, code)
  PROVE  Shape'
<1> USE TaskProfileAssumption DEF Shape
<1>type. type \in TaskType
  BY DEF TaskType
<1>1. PICK o : o = Current(t)
  OBVIOUS
<1>2. /\ OnTop(t) /\ (Type(o) = "implicit" => where[t] = "inside")
      /\ type = "explicit" => team # NoTeam
      /\ UNCHANGED <<running, sync, forked, team, where, ended>>
  BY <1>1 DEF CreateTask, InProgram
<1>3. PICK new \in free :
        /\ prof' = TaskCreate(prof, new, type, code, o)
        /\ free' = free \ {new}
        /\ queue' = IF type = "explicit" THEN queue \cup {new} ELSE queue
        /\ next' = IF type = "explicit" THEN next ELSE [next EXCEPT ![t] = new]
        /\ children' = [children EXCEPT ![o] = @ \cup {new}]
        /\ path' = [path EXCEPT ![new] = Append(path[o], code)]
  BY <1>1 DEF CreateTask
<1>4. /\ Len(running[t]) \in Nat \ {0} /\ o = running[t][Len(running[t])] /\ o \in TaskObj
      /\ next[t] = NoTask /\ Type(o) \in Level(t, Len(running[t]))
      /\ Type(o) = "initial" => team = NoTeam
  BY <1>1, <1>2, OnTopOK
<1>5. new \in TaskObj /\ Type(new) = "none"
  BY DEF EnvTypes, Placed
<1>6. /\ ProfileOK(prof') /\ prof'.task[new].Type = type
      /\ \A x \in TaskObj : x # new => prof'.task[x].Type = Type(x)
  <2>1. PICK q : q = TaskCreate(prof, new, type, code, o)
    OBVIOUS
  <2>2. Kinds(prof, q, {new}) /\ q.task[new].Type = type
    <3>1. ProfileOK(prof)
      OBVIOUS
    <3>2. o \in TaskObj /\ new \in TaskObj /\ code \in TaskCode
      BY <1>4, <1>5
    <3>3. PICK p : p = prof
      OBVIOUS
    <3>4. ProfileOK(p)
      BY <3>1, <3>3
    <3>5. LET r == TaskCreate(p, new, type, code, o) IN
          Kinds(p, r, {new}) /\ r.task[new].Type = type
      BY <1>type, <3>2, <3>4, TaskCreateKinds
    <3>6. QED
      BY <2>1, <3>3, <3>5
  <2>3. Kinds(prof, prof', {new}) /\ prof'.task[new].Type = type
    BY <1>3, <2>1, <2>2
  <2>4. QED
    BY <2>3 DEF Kinds, Type
<1>7. /\ next' \in [Thread -> TaskObj \cup {NoTask}]
      /\ \A u \in Thread : next'[u] = next[u] \/ (u = t /\ type = "undeferred" /\ next'[u] = new)
      /\ type = "explicit" => next' = next
  BY <1>3, <1>5 DEF EnvTypes
<1>8. EnvTypes'
  <2>1. Append(path[o], code) \in Seq(Code)
    BY <1>4 DEF EnvTypes, Code
  <2>2. path' \in [TaskObj -> Seq(Code)] /\ children' \in [TaskObj -> SUBSET TaskObj]
    BY <1>3, <1>5, <2>1 DEF EnvTypes
  <2>3. free' \subseteq TaskObj /\ queue' \subseteq TaskObj
    BY <1>3, <1>5 DEF EnvTypes
  <2>4. QED
    BY <1>2, <1>7, <2>2, <2>3 DEF EnvTypes
<1>9. \A u \in Thread : \A i \in 1..Len(running[u]) :
        /\ running[u][i] \in TaskObj \ {new}
        /\ prof'.task[running[u][i]].Type = Type(running[u][i])
  BY <1>5, <1>6, CurrentOK DEF Stacks, Level
<1>10. Placed'
  <2>1. \A x \in TaskObj : x \in free' <=> prof'.task[x].Type = "none"
    BY <1>3, <1>5, <1>6 DEF Placed
  <2>2. \A x \in queue' : prof'.task[x].Type = "explicit"
    BY <1>3, <1>5, <1>6 DEF Placed, EnvTypes
  <2>3. \A u \in Thread : next[u] # new /\ (next[u] # NoTask => next[u] \in TaskObj)
    BY <1>5 DEF Placed, EnvTypes
  <2>4. \A u \in Thread : next'[u] # NoTask => prof'.task[next'[u]].Type = "undeferred"
    BY <1>6, <1>7, <2>3 DEF Placed, Type
  <2>5. \A u, v \in Thread : next'[u] # NoTask /\ next'[u] = next'[v] => u = v
    BY <1>7, <2>3 DEF Placed
  <2>6. \A u \in Thread : \A i \in 1..Len(running[u]) :
          running[u][i] \notin queue' /\ \A v \in Thread : running[u][i] # next'[v]
    BY <1>3, <1>7, <1>9 DEF Placed
  <2>7. QED
    BY <1>2, <2>1, <2>2, <2>4, <2>5, <2>6 DEF Placed, Type
<1>11. type = "undeferred" =>
         /\ where[t] \notin {"released", "leaving"}
         /\ where[t] = "barrier" => Len(running[t]) > Base(t)
         /\ where[t] = "outside" /\ t = Master => team = NoTeam
  <2> DEFINE n == Len(running[t])
  <2>1. n \in Nat \ {0} /\ Type(o) \in Level(t, n) /\ Base(t) \in {1, 2}
        /\ (where[t] # "outside" => n >= Base(t))
        /\ (where[t] \in {"released", "leaving"} => n = Base(t))
        /\ (team # NoTeam /\ where[t] = "outside" /\ t = Master => n = 1)
    BY <1>4 DEF Stacks, Base, Teams
  <2> HIDE DEF n
  <2>2. where[t] # "outside" /\ n = Base(t) => Type(o) = "implicit"
    BY <2>1 DEF Level
  <2>3. where[t] \notin {"released", "leaving"}
    BY <1>2, <2>1, <2>2
  <2>4. where[t] = "barrier" => n > Base(t)
    BY <1>2, <2>1, <2>2
  <2>5. where[t] = "outside" /\ t = Master /\ n = 1 => Type(o) = "initial"
    BY <2>1 DEF Level, Base
  <2>6. where[t] = "outside" /\ t = Master => team = NoTeam
    BY <1>4, <2>1, <2>5
  <2>7. QED
    BY <2>3, <2>4, <2>6 DEF n
<1>12. Stacks'
  <2>1. \A u \in Thread : \A i \in 1..Len(running[u]) : Type(running[u][i])' \in Level(u, i)'
    BY <1>2, <1>9 DEF Stacks, Level, Type
  <2>2. Len(running[t]) > 0
    BY <1>4
  <2>3. QED
    BY <1>2, <1>7, <1>11, <2>1, <2>2 DEF Stacks
<1>13. Teams'
  BY <1>2, <1>7, <1>11 DEF Teams, Open
<1>14. QED
  BY <1>6, <1>8, <1>10, <1>12, <1>13

(* Where a thread may be that switches to a task, and what lies there.     *)
LEMMA SwitchPlace ==
  ASSUME Shape, NEW t \in Thread, NEW o \in TaskObj, Switch(t, o)
  PROVE  /\ Len(running[t]) \in Nat \ {0} /\ Len(running[t]) + 1 > Base(t) - 1
         /\ where[t] \notin {"released", "leaving"}
         /\ Current(t) = running[t][Len(running[t])] /\ Current(t) \in TaskObj
         /\ Type(o) \in Level(t, Len(running[t]) + 1) /\ (o \in queue \/ next[t] = o)
         /\ where[t] = "outside" /\ t = Master => team = NoTeam
         /\ \A u \in Thread : u # t => next[u] # o
         /\ o \in queue => OnTop(t)
<1> USE TaskProfileAssumption DEF Shape
<1> DEFINE n == Len(running[t])
<1>1. /\ \/ o \in queue /\ (Waiting(t) \/ InProgram(t))
         \/ next[t] = o /\ o # NoTask
      /\ team # NoTeam \/ next[t] = o
  BY DEF Switch
<1>2. n \in Nat \ {0}
  BY <1>1, OnTopOK, CurrentOK DEF Waiting, InProgram, Stacks
<1>3. Current(t) = running[t][n] /\ Current(t) \in TaskObj /\ Type(running[t][n]) \in Level(t, n)
  <2>1. Len(running[t]) > 0 /\ n \in 1..n
    BY <1>2
  <2>2. QED
    BY <2>1, CurrentOK DEF Stacks
<1>4. /\ Base(t) \in {1, 2}
      /\ where[t] # "outside" => n >= Base(t)
      /\ where[t] \in {"released", "leaving"} => n = Base(t)
      /\ where[t] = "outside" => t = Master
  BY <1>2 DEF Stacks, Base
<1>5. CASE o \in queue
  <2>1. o # NoTask /\ next[t] # o
    BY <1>5 DEF Placed
  <2>2. OnTop(t) /\ next[t] = NoTask /\ team # NoTeam
    BY <1>1, <2>1 DEF Waiting, InProgram, OnTop
  <2>3. where[t] # "outside"
    <3>1. where[t] = "outside" => t = Master /\ n = 1
      BY <1>4, <2>2 DEF Teams
    <3>2. where[t] = "outside" => Type(Current(t)) = "initial"
      BY <1>3, <3>1 DEF Level, Base
    <3>3. QED
      BY <2>2, <3>2 DEF OnTop
  <2>4. where[t] \notin {"released", "leaving"}
    <3>1. SUFFICES ASSUME where[t] \in {"released", "leaving"} PROVE FALSE
      OBVIOUS
    <3>2. Type(Current(t)) = "implicit" /\ sync[Current(t)] = <<>>
      BY <1>3, <1>4, <3>1 DEF Level, Stacks
    <3>3. QED
      BY <1>1, <1>5, <2>2, <3>1, <3>2 DEF Waiting, InProgram
  <2>5. Type(o) = "explicit"
    BY <1>5 DEF Placed
  <2> HIDE DEF n
  <2>6. "explicit" \in Level(t, n + 1) /\ n + 1 > Base(t) - 1
    BY <1>2, <1>4, <2>3 DEF Level
  <2>7. \A u \in Thread : next[u] # o
    BY <2>5 DEF Placed
  <2>8. QED
    BY <1>2, <1>3, <1>5, <2>2, <2>3, <2>4, <2>5, <2>6, <2>7 DEF n
<1>6. CASE next[t] = o
  <2>1. Type(o) = "undeferred" /\ o # NoTask
    BY <1>6 DEF Placed
  <2>2. where[t] \notin {"released", "leaving"} /\ (where[t] = "outside" => t = Master)
    BY <1>4, <1>6, <2>1 DEF Stacks
  <2>3. where[t] = "outside" /\ t = Master => team = NoTeam
    BY <1>6, <2>1 DEF Teams
  <2> HIDE DEF n
  <2>4. "undeferred" \in Level(t, n + 1) /\ n + 1 > Base(t) - 1
    <3>1. CASE where[t] = "outside"
      BY <1>2, <1>4, <3>1 DEF Level, Base
    <3>2. CASE where[t] # "outside"
      BY <1>2, <1>4, <3>2 DEF Level
    <3>3. QED
      BY <3>1, <3>2
  <2>5. \A u \in Thread : u # t => next[u] # o
    BY <1>6, <2>1 DEF Placed
  <2>6. o \notin queue
    BY <2>1 DEF Placed
  <2>7. QED
    BY <1>2, <1>3, <1>6, <2>1, <2>2, <2>3, <2>4, <2>5, <2>6 DEF n
<1>7. QED
  BY <1>1, <1>5, <1>6

(* The shape is kept by a switch to a task.                                 *)
LEMMA SwitchShape ==
  ASSUME Shape, NEW t \in Thread, NEW o \in TaskObj, Switch(t, o) PROVE Shape'
<1> USE TaskProfileAssumption DEF Shape
<1>1. PICK from : from = Current(t)
  OBVIOUS
<1>2. /\ Returns(t, TaskSchedule(prof, t, from, o, FALSE))
      /\ queue' = queue \ {o} /\ next' = [next EXCEPT ![t] = NoTask]
      /\ running' = [running EXCEPT ![t] = Append(@, o)]
      /\ UNCHANGED <<free, sync, children, forked, team, where, path, ended>>
  BY <1>1 DEF Switch
<1>3. /\ Len(running[t]) \in Nat \ {0} /\ Len(running[t]) + 1 > Base(t) - 1
      /\ where[t] \notin {"released", "leaving"}
      /\ from \in TaskObj
      /\ Type(o) \in Level(t, Len(running[t]) + 1) /\ (o \in queue \/ next[t] = o)
      /\ where[t] = "outside" /\ t = Master => team = NoTeam
      /\ \A u \in Thread : u # t => next[u] # o
  BY <1>1, SwitchPlace
<1>4. ~ended
  <2>1. ended => Len(running[t]) = 0
    BY DEF Teams
  <2>2. QED
    BY <1>3, <2>1
<1>5. ProfileOK(prof') /\ \A x \in TaskObj : prof'.task[x].Type = Type(x)
  <2>1. LET q == TaskSchedule(prof, t, from, o, FALSE) IN
        Kinds(prof, q, {from}) /\ q.task[from].Type = prof.task[from].Type
    <3>1. PICK done \in BOOLEAN : done = FALSE
      OBVIOUS
    <3>2. LET q == TaskSchedule(prof, t, from, o, done) IN
          /\ Kinds(prof, q, {from})
          /\ ~done => q.task[from].Type = prof.task[from].Type
      <4>1. ProfileOK(prof) /\ from \in TaskObj /\ o \in TaskObj /\ t \in Thread
        BY <1>3
      <4>2. QED
        BY ONLY <3>1, <4>1, TaskScheduleKinds
    <3>3. QED
      BY <3>1, <3>2
  <2>2. Kinds(prof, prof', {from}) /\ prof'.task[from].Type = prof.task[from].Type
    BY <1>2, <2>1, ReturnsKinds
  <2>3. QED
    BY <2>2 DEF Kinds, Type
<1>6. Pushes(running, running', t, o) /\ running \in [Thread -> Seq(TaskObj)]
  BY <1>2, PushOK DEF EnvTypes
<1>7. \A u \in Thread : \A i \in 1..Len(running'[u]) :
        \/ i \in 1..Len(running[u]) /\ running'[u][i] = running[u][i]
        \/ u = t /\ i = Len(running[t]) + 1 /\ running'[u][i] = o
  BY <1>6, PushElements
<1>8. \A u \in Thread : \A i \in 1..Len(running[u]) : running[u][i] \in TaskObj \ {o}
  BY <1>3, CurrentOK DEF Placed
<1>9. next'[t] = NoTask /\ (\A u \in Thread : u # t => next'[u] = next[u])
      /\ next' \in [Thread -> TaskObj \cup {NoTask}]
  BY <1>2 DEF EnvTypes
<1>10. EnvTypes'
  BY <1>2, <1>6, <1>9 DEF EnvTypes, Pushes
<1>11. Placed'
  <2>1. Apart(running')
    <3>1. Apart(running)
      BY DEF Placed
    <3>2. \A u \in Thread : \A i \in 1..Len(running[u]) : running[u][i] # o
      BY <1>8
    <3>3. PICK r, s : r = running /\ s = running'
      OBVIOUS
    <3>4. /\ r \in [Thread -> Seq(TaskObj)] /\ Pushes(r, s, t, o) /\ Apart(r)
          /\ \A u \in Thread : \A i \in 1..Len(r[u]) : r[u][i] # o
      BY <1>6, <3>1, <3>2, <3>3
    <3>5. Apart(s)
      BY <3>4, PushApart, SMTT(30)
    <3>6. QED
      BY <3>3, <3>5
  <2>2. \A u \in Thread : \A i \in 1..Len(running'[u]) :
          running'[u][i] \notin queue' /\ \A v \in Thread : running'[u][i] # next'[v]
    <3>1. ASSUME NEW u \in Thread, NEW i \in 1..Len(running'[u])
          PROVE  running'[u][i] \notin queue' /\ \A v \in Thread : running'[u][i] # next'[v]
      <4>1. CASE i \in 1..Len(running[u]) /\ running'[u][i] = running[u][i]
        <5>1. running[u][i] \notin queue /\ running[u][i] # NoTask
              /\ \A v \in Thread : running[u][i] # next[v]
          BY <1>8, <4>1 DEF Placed
        <5>2. QED
          BY <1>2, <1>9, <4>1, <5>1
      <4>2. CASE running'[u][i] = o
        BY <1>2, <1>3, <1>9, <4>2
      <4>3. QED
        BY <1>7, <4>1, <4>2
    <3>2. QED
      BY <3>1
  <2>3. \A x \in TaskObj : x \in free' <=> prof'.task[x].Type = "none"
    BY <1>2, <1>5 DEF Placed, Type
  <2>4. \A x \in queue' : prof'.task[x].Type = "explicit"
    BY <1>2, <1>5 DEF Placed, EnvTypes
  <2>5. \A u \in Thread : next'[u] # NoTask => prof'.task[next'[u]].Type = "undeferred"
    BY <1>5, <1>9 DEF Placed, EnvTypes
  <2>6. \A u, v \in Thread : next'[u] # NoTask /\ next'[u] = next'[v] => u = v
    BY <1>9 DEF Placed
  <2>7. QED
    BY <2>1, <2>2, <2>3, <2>4, <2>5, <2>6 DEF Placed, Type
<1>12. /\ Len(running'[t]) = Len(running[t]) + 1
       /\ \A u \in Thread : u # t => running'[u] = running[u]
       /\ \A i \in 1..Len(running[t]) : running'[t][i] = running[t][i]
  BY <1>6 DEF Pushes
<1>13. Stacks'
  <2>1. ASSUME NEW u \in Thread, NEW i \in 1..Len(running'[u])
        PROVE  prof'.task[running'[u][i]].Type \in Level(u, i)'
    <3>1. Level(u, i)' = Level(u, i)
      BY <1>2 DEF Level
    <3>2. CASE i \in 1..Len(running[u]) /\ running'[u][i] = running[u][i]
      BY <1>5, <1>8, <3>1, <3>2 DEF Stacks
    <3>3. CASE u = t /\ i = Len(running[t]) + 1 /\ running'[u][i] = o
      BY <1>3, <1>5, <3>1, <3>3
    <3>4. QED
      BY <1>7, <3>2, <3>3
  <2>2. ASSUME where[t] = "barrier"
        PROVE  Len(running'[t]) >= Base(t) /\ sync'[running'[t][Base(t)]] = <<>>
    <3>1. Base(t) \in 1..Len(running[t])
      BY <1>3, <2>2 DEF Stacks, Base
    <3>2. QED
      BY <1>2, <1>3, <1>12, <2>2, <3>1 DEF Stacks
  <2>3. /\ where[t] # "outside" => Len(running'[t]) >= Base(t)
        /\ where[t] = "outside" => t = Master
    BY <1>3, <1>12 DEF Stacks, Base
  <2>4. ASSUME NEW u \in Thread
        PROVE  /\ where[u] # "outside" => Len(running'[u]) >= Base(u)
               /\ where[u] \in {"released", "leaving"} => Len(running'[u]) = Base(u)
               /\ where[u] = "outside" /\ u # Master => Len(running'[u]) = 0
               /\ next'[u] # NoTask =>
                    /\ Len(running'[u]) > 0 /\ where[u] \notin {"released", "leaving"}
                    /\ where[u] = "barrier" => Len(running'[u]) > Base(u)
               /\ where[u] \in {"barrier", "released", "leaving"} =>
                    sync[running'[u][Base(u)]] = <<>>
    <3>1. CASE u = t
      BY <1>2, <1>3, <1>9, <2>2, <2>3, <3>1
    <3>2. CASE u # t
      BY <1>9, <1>12, <3>2 DEF Stacks
    <3>3. QED
      BY <3>1, <3>2
  <2>5. QED
    BY <1>2, <2>1, <2>4 DEF Stacks, Type, Base
<1>14. Teams'
  <2>1. Len(running[Master]) > 0 => Len(running'[Master]) > 0 /\ running'[Master][1] = running[Master][1]
    <3>1. CASE t = Master
      <4>1. 1 \in 1..Len(running[t]) /\ Len(running[t]) + 1 > 0
        BY <1>3
      <4>2. QED
        BY <1>12, <3>1, <4>1
    <3>2. CASE t # Master
      BY <1>12, <3>2
    <3>3. QED
      BY <3>1, <3>2
  <2>2. team # NoTeam /\ where[Master] = "outside" => t # Master
    BY <1>3
  <2>3. QED
    BY <1>2, <1>4, <1>9, <1>12, <2>1, <2>2 DEF Teams, Open
<1>15. QED
  BY <1>5, <1>10, <1>11, <1>13, <1>14

(* The shape is kept by the completion of a task.                           *)
LEMMA CompleteShape ==
  ASSUME Shape, NEW t \in Thread, Complete(t) PROVE Shape'
<1> USE TaskProfileAssumption DEF Shape
<1>1. PICK o, below : o = Current(t) /\ below = Last(Front(running[t]))
  OBVIOUS
<1>2. /\ OnTop(t) /\ Type(o) \in {"explicit", "undeferred"} /\ sync[o] = <<>>
      /\ Returns(t, TaskSchedule(prof, t, o, below, TRUE))
      /\ free' = IF prof'.task[o].Type = "none" THEN free \cup {o} ELSE free
      /\ running' = [running EXCEPT ![t] = Front(@)]
      /\ children' = [x \in TaskObj |-> IF x = o THEN {} ELSE children[x] \ {o}]
      /\ path' = [path EXCEPT ![o] = <<>>]
      /\ UNCHANGED <<queue, next, sync, forked, team, where, ended>>
  BY <1>1 DEF Complete, InProgram
<1> DEFINE n == Len(running[t])
<1>3. /\ n \in Nat /\ n > 1 /\ o = running[t][n] /\ o \in TaskObj /\ next[t] = NoTask
      /\ n >= Base(t) /\ (where[t] # "outside" => n > Base(t))
  BY <1>1, <1>2, TaskOnTop
<1>a. n > 0 /\ n - 1 \in Nat /\ n - 1 > 0 /\ Base(t) \in {1, 2} /\ running \in [Thread -> Seq(TaskObj)]
  BY <1>3 DEF Base, EnvTypes
<1>4. ProfileOK(prof') /\ prof'.task[o].Type \in {Type(o), "none"}
      /\ \A x \in TaskObj : x # o => prof'.task[x].Type = Type(x)
  <2>1. PICK done \in BOOLEAN : done = TRUE
    OBVIOUS
  <2>2. below \in TaskObj
    BY <1>1, <1>3, BelowOK
  <2>3. LET q == TaskSchedule(prof, t, o, below, done) IN
        Kinds(prof, q, {o}) /\ q.task[o].Type \in {prof.task[o].Type, "none"}
    BY <1>3, <2>2, TaskScheduleKinds
  <2>4. Kinds(prof, prof', {o}) /\ prof'.task[o].Type \in {prof.task[o].Type, "none"}
    BY <1>2, <2>1, <2>3, ReturnsKinds
  <2>5. QED
    BY <2>4 DEF Kinds, Type
<1>5. Pops(running, running', t)
  BY <1>2, <1>a, PopOK
<1>6. EnvTypes'
  <2>1. path' \in [TaskObj -> Seq(Code)] /\ children' \in [TaskObj -> SUBSET TaskObj]
    BY <1>2, EmptySeq DEF EnvTypes
  <2>2. QED
    BY <1>2, <1>3, <1>5, <2>1 DEF EnvTypes, Pops
<1>7. \A u \in Thread : \A i \in 1..Len(running'[u]) :
        i \in 1..Len(running[u]) /\ running'[u][i] = running[u][i]
  BY ONLY <1>5, <1>a, PopElements
<1>8. Apart(running') /\ \A u \in Thread : \A i \in 1..Len(running'[u]) : running'[u][i] # o
  BY <1>3, <1>5, <1>a, PopApart DEF Placed
<1>9. \A u \in Thread : \A i \in 1..Len(running[u]) : running[u][i] \in TaskObj
  BY CurrentOK
<1>10. \A u \in Thread : \A i \in 1..Len(running'[u]) :
         prof'.task[running'[u][i]].Type = Type(running[u][i])
  BY <1>4, <1>7, <1>8, <1>9
<1>11. Placed'
  <2>1. \A x \in TaskObj : x \in free' <=> prof'.task[x].Type = "none"
    BY <1>2, <1>3, <1>4 DEF Placed
  <2>2. n \in 1..n
    BY <1>3
  <2>3. o \notin queue /\ \A u \in Thread : o # next[u]
    BY <1>3, <2>2 DEF Placed
  <2>4. \A x \in queue : prof'.task[x].Type = "explicit"
    BY <1>4, <2>3 DEF Placed, EnvTypes
  <2>5. \A u \in Thread : next[u] # NoTask => prof'.task[next[u]].Type = "undeferred"
    BY <1>4, <2>3 DEF Placed, EnvTypes
  <2>6. QED
    BY <1>2, <1>7, <1>8, <2>1, <2>4, <2>5 DEF Placed, Type
<1>12. Len(running'[t]) = n - 1 /\ \A u \in Thread : u # t => running'[u] = running[u]
  BY <1>5 DEF Pops
<1>13. Stacks'
  <2>1. ASSUME NEW u \in Thread, NEW i \in 1..Len(running'[u])
        PROVE  prof'.task[running'[u][i]].Type \in Level(u, i)'
    <3>1. Type(running[u][i]) \in Level(u, i) /\ i \in 1..Len(running[u])
      BY <1>7 DEF Stacks
    <3>2. QED
      BY <1>2, <1>10, <3>1 DEF Level
  <2>2. ASSUME NEW u \in Thread
        PROVE  /\ where[u] # "outside" => Len(running'[u]) >= Base(u)
               /\ where[u] \in {"released", "leaving"} => Len(running'[u]) = Base(u)
               /\ where[u] = "outside" /\ u # Master => Len(running'[u]) = 0
               /\ next[u] # NoTask =>
                    /\ Len(running'[u]) > 0 /\ where[u] \notin {"released", "leaving"}
                    /\ where[u] = "barrier" => Len(running'[u]) > Base(u)
               /\ where[u] \in {"barrier", "released", "leaving"} =>
                    sync[running'[u][Base(u)]] = <<>>
    <3>1. CASE u = t
      <4>1. where[t] = "outside" => t = Master
        BY <1>3 DEF Stacks
      <4>2. where[t] \notin {"released", "leaving"}
        BY <1>3 DEF Stacks
      <4>3. where[t] # "outside" => Len(running'[t]) >= Base(t) /\ Base(t) \in 1..Len(running'[t])
        BY <1>3, <1>12, <1>a
      <4>4. where[t] = "barrier" => sync[running'[t][Base(t)]] = <<>>
        BY <1>7, <4>3 DEF Stacks
      <4>5. QED
        BY <1>3, <3>1, <4>1, <4>2, <4>3, <4>4
    <3>2. CASE u # t
      BY <1>12, <3>2 DEF Stacks
    <3>3. QED
      BY <3>1, <3>2
  <2>3. QED
    BY <1>2, <2>1, <2>2 DEF Stacks, Type, Base
<1>14. Teams'
  <2>1. ~ended
    BY <1>2 DEF OnTop, Running
  <2>2. Len(running[Master]) > 0 => Len(running'[Master]) > 0 /\ running'[Master][1] = running[Master][1]
    <3>1. CASE t = Master
      <4>1. 1 \in 1..Len(running'[t]) /\ Len(running'[t]) > 0
        BY <1>12, <1>a
      <4>2. QED
        BY <1>7, <3>1, <4>1
    <3>2. CASE t # Master
      BY <1>12, <3>2
    <3>3. QED
      BY <3>1, <3>2
  <2>3. team # NoTeam /\ where[Master] = "outside" => t # Master
    BY <1>3 DEF Teams
  <2>4. QED
    BY <1>2, <1>12, <2>1, <2>2, <2>3 DEF Teams, Open
<1>15. QED
  BY <1>4, <1>6, <1>11, <1>13, <1>14

(* Nothing changes when nothing changes.                                    *)
LEMMA StutterShape == Shape /\ UNCHANGED vars => Shape'
<1> SUFFICES ASSUME Shape, UNCHANGED vars PROVE Shape'
  OBVIOUS
<1> USE DEF vars, env
<1>1. EnvTypes' /\ ProfileOK(prof')
  BY DEF Shape, EnvTypes
<1>2. Placed'
  BY DEF Shape, Placed, Type
<1>3. Stacks'
  BY DEF Shape, Stacks, Level, Type
<1>4. Teams'
  BY DEF Shape, Teams, Open
<1>5. QED
  BY <1>1, <1>2, <1>3, <1>4 DEF Shape

(* Every step keeps the shape.                                              *)
LEMMA NextShape == Shape /\ [Next]_vars => Shape'
<1> SUFFICES ASSUME Shape, [Next]_vars PROVE Shape'
  OBVIOUS
<1>1. CASE InitialTaskBegin \/ InitialTaskEnd \/ ParallelRegionBegin \/ ParallelRegionEnd \/ BarrierOpens
  BY <1>1, InitialTaskBeginShape, InitialTaskEndShape, ParallelRegionBeginShape,
     ParallelRegionEndShape, BarrierOpensShape
<1>2. CASE \E t \in Thread : ImplicitBegin(t) \/ BarrierBegin(t) \/ BarrierEnd(t) \/ ImplicitEnd(t)
  BY <1>2, ImplicitBeginShape, BarrierBeginShape, BarrierEndShape, ImplicitEndShape
<1>3. CASE \E t \in Thread :
             \/ \E kind \in {"taskwait", "taskgroup"} : RegionBegin(t, kind)
             \/ RegionEnd(t)
  BY <1>3, RegionBeginShape, RegionEndShape
<1>4. CASE \E t \in Thread : \E code \in TaskCode, type \in {"explicit", "undeferred"} :
             CreateTask(t, type, code)
  BY <1>4, CreateTaskShape
<1>5. CASE \E t \in Thread : (\E o \in TaskObj : Switch(t, o)) \/ Complete(t)
  BY <1>5, SwitchShape, CompleteShape
<1>6. CASE \E on \in BOOLEAN : Control(on)
  BY <1>6, ControlShape
<1>7. CASE Stopped \/ UNCHANGED vars
  BY <1>7, StutterShape DEF Stopped
<1>8. QED
  BY <1>1, <1>2, <1>3, <1>4, <1>5, <1>6, <1>7 DEF Next

(* Whatever the program does, a TaskData object is in one place.           *)
THEOREM ShapeInvariant == Spec => []Shape
<1>1. Init => Shape
  BY InitShape
<1>2. Shape /\ [Next]_vars => Shape'
  BY NextShape
<1>3. QED
  BY <1>1, <1>2, PTL DEF Spec

(* The profile and the runtime's data keep their types, in every program   *)
(* the model has: also with nested waits, orphaned tasks and a control_tool *)
(* during a region.                                                        *)
THEOREM TypeCorrect == Spec => []TypeOK
BY ShapeInvariant, ShapeTypes, PTL

-----------------------------------------------------------------------------
(* Well-structured programs *)

(* Programs without the features that a run expects a violation of.        *)
WellStructured == Features \subseteq {"yield", "undeferred"}

OnStack(s, o) == \E i \in 1..Len(s) : s[i] = o

Stacked(o) == \E t \in Thread : OnStack(running[t], o)

(* The implicit task of a thread that is in a parallel region.             *)
Bottom(t) == running[t][Base(t)]

AtBarrier(o) == \E t \in Thread : where[t] \in {"barrier", "released"} /\ Bottom(t) = o

(* An undeferred task is on top of its stack, or about to be.              *)
OnlyTop ==
  \A t \in Thread : \A i \in 1..Len(running[t]) :
    Type(running[t][i]) = "undeferred" => i = Len(running[t]) /\ next[t] = NoTask

InUse ==
  \A o \in TaskObj : /\ Type(o) = "explicit" => Stacked(o) \/ o \in queue
                     /\ Type(o) = "implicit" => Stacked(o)

(* Which tasks are measured and which of them have begun.                  *)
Started ==
  \A o \in TaskObj :
    /\ Type(o) \in {"implicit", "explicit"} => prof.task[o].profilingActive = prof.active
    /\ Type(o) = "undeferred" => ~prof.task[o].profilingActive
    /\ Type(o) \in {"none", "undeferred"} => ~prof.task[o].isStarted
    /\ Type(o) = "implicit" => prof.task[o].isStarted = prof.active
    /\ Type(o) = "explicit" => prof.task[o].isStarted = (prof.active /\ o \notin queue)

(* inBarrier holds between a begin and an end of sync_region.              *)
Waits ==
  \A o \in TaskObj :
    /\ Len(sync[o]) \in {0, 1}
    /\ sync[o] # <<>> => Stacked(o) /\ Type(o) # "undeferred"
    /\ prof.task[o].inBarrier = (prof.active /\ (sync[o] # <<>> \/ AtBarrier(o)))

(* The parent of a task is there as long as the task.                      *)
Family ==
  \A o \in TaskObj : Type(o) = "explicit" =>
    LET x == prof.task[o].parentTask IN
    /\ x # o /\ x \notin queue /\ o \in children[x]
    /\ Type(x) \in {"implicit", "explicit"}
    /\ \A t \in Thread : where[t] \in {"released", "leaving"} => x # Bottom(t)

(* Begun tasks are bound to a region of their thread, an explicit task to  *)
(* the one that a lookup would find, but for the tasks in U.               *)
Bounds(U) ==
  \A t \in Thread : \A i \in 1..Len(running[t]) :
    LET o == running[t][i] IN
    /\ Type(o) \in {"initial", "implicit"} => Bound(prof, t, o)
    /\ Type(o) = "explicit" /\ prof.active => Bound(prof, t, o) /\ (o \notin U => KeyHolds(prof, o))

(* The tasks in U are begun, and an explicit one of them executes.         *)
Inner(U) ==
  \A o \in U :
    /\ Type(o) = "explicit" => o \notin queue
    /\ \A t \in Thread : \A i \in 1..Len(running[t]) :
         running[t][i] = o /\ Type(o) = "explicit" => i = Len(running[t])

(* The tasks in U are in use, and no step wakes or moves an explicit one.   *)
Within(U) ==
  /\ \A o \in U : Type(o) # "none"
  /\ \A o \in U : Type(o) = "explicit" => sync'[o] = sync[o]
  /\ \A t \in Thread : Len(running[t]) > 0 /\ Current(t) \in U /\ Type(Current(t)) = "explicit" =>
       running'[t] = running[t]

(* Measurements are of the past only where nobody uses them.               *)
Fresh ==
  /\ prof.failure = "none" /\ ~prof.stale
  /\ prof.active /\ team # NoTeam /\ where[Master] = "outside" => Master \in prof.now
  /\ team # NoTeam => sync[running[Master][1]] = <<>>
  /\ where[Master] # "outside" => team # NoTeam

(* The initial task rests while a parallel region is open.                 *)
Resting(t) == t = Master /\ team # NoTeam

(* The task of a stack whose time runs, but for an undeferred one.         *)
Top(p, s) ==
  IF p.task[s[Len(s)]].Type = "undeferred" THEN s[Len(s) - 1] ELSE s[Len(s)]

(* What should be measured of the tasks on stack s, if the initial task    *)
(* rests or not.                                                           *)
ExcOf(p, s, rests) ==
  IF /\ p.active /\ Len(s) > 0 /\ ~p.task[Top(p, s)].inBarrier
     /\ ~(rests /\ p.task[Top(p, s)].Type = "initial")
  THEN Top(p, s) ELSE NoTask

IncOf(p, s) ==
  {o \in TaskObj : /\ p.active /\ OnStack(s, o) /\ p.task[o].Type # "undeferred"
                   /\ ~(p.task[o].inBarrier /\ o = Top(p, s))}

Balance(t, N) == Books(prof, t, ExcOf(prof, running[t], Resting(t)), IncOf(prof, running[t]), N)

Balanced(N) == \A t \in Thread : Balance(t, N)

Good(U, N) ==
  /\ Shape /\ OnlyTop /\ InUse /\ Started /\ Waits /\ Family
  /\ Bounds(U) /\ Inner(U) /\ Fresh /\ Balanced(N)

(* Tasks that are begun before and after a step are bound to one region.   *)
KeptRegions ==
  \A x \in TaskObj : Stacked(x) /\ Stacked(x)' => prof'.task[x].rData = prof.task[x].rData

(* Tasks of one kind, made by the same construct.                          *)
SameOrigin(x, y) == y.Type = x.Type /\ y.codePtr = x.codePtr /\ y.parentTask = x.parentTask

(* Regions keep their keys and tasks what they look their region up with;  *)
(* a task that begins is bound to a region under that of its parent; a new *)
(* one will look it up under its parent, and no task begins with it.       *)
KeptKeys ==
  /\ prof'.flat = prof.flat /\ DOMAIN prof.regions \subseteq DOMAIN prof'.regions
  /\ \A i \in DOMAIN prof.regions : prof'.regions[i] = prof.regions[i]
  /\ DOMAIN prof.exc \subseteq DOMAIN prof'.exc
  /\ prof'.active = prof.active \/ \A x \in TaskObj : Type(x)' # "explicit"
  /\ \A x \in TaskObj :
       /\ Type(x) # "none" /\ Type(x)' # "none" => SameOrigin(prof.task[x], prof'.task[x])
       /\ Type(x) = "none" /\ Type(x)' \in {"initial", "implicit"} =>
            RegionKey(prof', x) = Key(prof, team.codePtr, ParentRegion(prof, team))
       /\ Type(x) = "none" /\ Type(x)' = "explicit" =>
            /\ prof'.task[x].codePtr \in TaskCode
            /\ path'[x] = Append(path[prof'.task[x].parentTask], prof'.task[x].codePtr)
            /\ running' = running

Kept == KeptRegions /\ KeptKeys

-----------------------------------------------------------------------------
(* Stacks and books *)

(* What a handler on thread t leaves of the profile, if it is about the    *)
(* tasks in O.                                                             *)
Effect(t, O) ==
  /\ ProfileOK(prof) /\ ProfileOK(prof') /\ Frame(prof, prof', t, O)
  /\ prof'.active = prof.active /\ prof'.stale = prof.stale
  /\ t # Master /\ Master \in prof.now => Master \in prof'.now

(* Returning to the program leaves the books as the handler left them.      *)
LEMMA ReturnsEffect ==
  ASSUME NEW q, ProfileOK(prof), NEW t, NEW O, Handler(prof, q, t, O), Returns(t, q)
  PROVE  /\ Effect(t, O) /\ prof'.task = q.task /\ prof'.regions = q.regions
         /\ prof'.exc = q.exc /\ prof'.flat = q.flat /\ prof'.active = q.active
         /\ \A u, e, S, N : Books(q, u, e, S, N) => Books(prof', u, e, S, N)
<1>1. /\ ProfileOK(prof')
      /\ prof'.active = q.active /\ prof'.flat = q.flat /\ prof'.regions = q.regions
      /\ prof'.failure = q.failure /\ prof'.task = q.task
      /\ prof'.exc = q.exc /\ prof'.inc = q.inc
      /\ prof'.stale = q.stale /\ prof'.now = q.now \ {t}
  BY ReturnsOK DEF Handler
<1>2. Frame(prof, prof', t, O)
  <2>1. Frame(prof, q, t, O)
    BY DEF Handler
  <2>2. QED
    BY <1>1, <2>1 DEF Frame
<1>3. \A u, e, S, N : Books(q, u, e, S, N) => Books(prof', u, e, S, N)
  BY <1>1, BooksSame
<1>4. t # Master /\ Master \in prof.now => Master \in prof'.now
  BY <1>1 DEF Handler
<1>5. prof'.active = prof.active /\ prof'.stale = prof.stale
  BY <1>1 DEF Handler
<1>6. QED
  BY <1>1, <1>2, <1>3, <1>4, <1>5 DEF Effect

(* ... also when the thread goes on in the same event.                     *)
LEMMA DirectEffect ==
  ASSUME NEW t, NEW O, ProfileOK(prof), Handler(prof, prof', t, O)
  PROVE  Effect(t, O)
BY DEF Handler, Effect

(* A stack without undeferred tasks, and the tasks below its top.          *)
Plain(p, s) ==
  /\ s \in Seq(TaskObj) /\ Len(s) > 0
  /\ \A i \in 1..Len(s) : p.task[s[i]].Type # "undeferred"
  /\ \A i, j \in 1..Len(s) : s[i] = s[j] => i = j

Under(s) == {o \in TaskObj : \E i \in 1..Len(s) - 1 : s[i] = o}

(* A stack without an undeferred task on top is plain.                      *)
LEMMA PlainStack ==
  ASSUME NEW p, NEW r \in [Thread -> Seq(TaskObj)], Apart(r), NEW t \in Thread, Len(r[t]) > 0,
         \A i \in 1..Len(r[t]) : p.task[r[t][i]].Type = "undeferred" => i = Len(r[t]),
         p.task[r[t][Len(r[t])]].Type # "undeferred"
  PROVE  Plain(p, r[t])
<1>1. r[t] \in Seq(TaskObj)
  OBVIOUS
<1>2. \A i, j \in 1..Len(r[t]) : r[t][i] = r[t][j] => i = j
  BY DEF Apart
<1>3. QED
  BY <1>1, <1>2 DEF Plain

(* The books of a stack without an undeferred task.                         *)
LEMMA PlainBooks ==
  ASSUME NEW p, NEW s, Plain(p, s), NEW rests
  PROVE  /\ s[Len(s)] \in TaskObj /\ s[Len(s)] \notin Under(s) /\ Top(p, s) = s[Len(s)]
         /\ p.active => ExcOf(p, s, rests) =
              IF p.task[s[Len(s)]].inBarrier \/ (rests /\ p.task[s[Len(s)]].Type = "initial")
              THEN NoTask ELSE s[Len(s)]
         /\ p.active => IncOf(p, s) =
              IF p.task[s[Len(s)]].inBarrier THEN Under(s) ELSE Under(s) \cup {s[Len(s)]}
         /\ ~p.active => ExcOf(p, s, rests) = NoTask /\ IncOf(p, s) = {}
<1> DEFINE n == Len(s)
           o == s[n]
<1>1. n \in Nat /\ n > 0 /\ n \in 1..n /\ \A i \in 1..n : s[i] \in TaskObj
  <2>1. s \in Seq(TaskObj) /\ n > 0
    BY DEF Plain
  <2>2. n \in Nat
    BY <2>1, LenProperties
  <2>3. QED
    BY <2>1, <2>2, ElementOfSeq
<1>2. \A i \in 1..n : p.task[s[i]].Type # "undeferred"
  BY DEF Plain
<1>3. \A i, j \in 1..n : s[i] = s[j] => i = j
  BY DEF Plain
<1>4. Top(p, s) = o
  BY <1>1, <1>2 DEF Top
<1>5. \A i \in 1..n - 1 : i \in 1..n /\ i # n
  BY <1>1
<1>6. \A x : OnStack(s, x) <=> x = o \/ x \in Under(s)
  <2>1. ASSUME NEW x, NEW i \in 1..n, s[i] = x, x # o PROVE x \in Under(s)
    <3>1. i \in 1..n - 1
      BY <1>1, <2>1
    <3>2. QED
      BY <1>1, <2>1, <3>1 DEF Under
  <2>2. \A x \in Under(s) : \E i \in 1..n : s[i] = x
    BY <1>5 DEF Under
  <2> HIDE DEF n
  <2>3. QED
    BY <1>1, <2>1, <2>2 DEF OnStack, n
<1>7. o \notin Under(s)
  BY <1>1, <1>3, <1>5 DEF Under
<1>8. \A x \in Under(s) : x \in TaskObj /\ p.task[x].Type # "undeferred"
  BY <1>2, <1>5 DEF Under
<1>9. o \in TaskObj /\ p.task[o].Type # "undeferred" /\ n > 0
  BY <1>1, <1>2
<1> HIDE DEF o, n
<1>10. IncOf(p, s) = {x \in TaskObj : p.active /\ (x = o \/ x \in Under(s))
                         /\ p.task[x].Type # "undeferred" /\ ~(p.task[x].inBarrier /\ x = o)}
  BY <1>4, <1>6 DEF IncOf
<1>11. p.active => IncOf(p, s) = IF p.task[o].inBarrier THEN Under(s) ELSE Under(s) \cup {o}
  BY <1>7, <1>8, <1>9, <1>10
<1>12. /\ p.active => ExcOf(p, s, rests) =
              IF p.task[o].inBarrier \/ (rests /\ p.task[o].Type = "initial") THEN NoTask ELSE o
       /\ ~p.active => ExcOf(p, s, rests) = NoTask
  BY <1>4, <1>9 DEF ExcOf, n
<1>13. ~p.active => IncOf(p, s) = {}
  BY DEF IncOf
<1>14. QED
  BY <1>4, <1>7, <1>9, <1>11, <1>12, <1>13 DEF o, n

(* No stack, no books.                                                     *)
LEMMA EmptyBooks ==
  ASSUME NEW p, NEW s, Len(s) = 0 \/ ~p.active, NEW rests
  PROVE  ExcOf(p, s, rests) = NoTask /\ IncOf(p, s) = {}
<1>1. Len(s) = 0 => \A o : ~OnStack(s, o)
  BY DEF OnStack
<1>2. QED
  BY <1>1 DEF ExcOf, IncOf

(* The books of a stack depend on its tasks only.                          *)
LEMMA SameBooks ==
  ASSUME NEW p, NEW q, NEW s \in Seq(TaskObj), NEW rests, q.active = p.active,
         \A i \in 1..Len(s) : /\ q.task[s[i]].Type = p.task[s[i]].Type
                              /\ q.task[s[i]].inBarrier = p.task[s[i]].inBarrier,
         Len(s) > 0 => p.task[s[1]].Type # "undeferred"
  PROVE  ExcOf(q, s, rests) = ExcOf(p, s, rests) /\ IncOf(q, s) = IncOf(p, s)
<1> DEFINE n == Len(s)
<1>1. n \in Nat
  BY LenProperties
<1> HIDE DEF n
<1>2. \A x : OnStack(s, x) =>
        q.task[x].Type = p.task[x].Type /\ q.task[x].inBarrier = p.task[x].inBarrier
  BY DEF OnStack
<1>3. CASE n = 0
  <2>1. Len(s) = 0
    BY <1>3 DEF n
  <2>2. \A x : ~OnStack(s, x)
    BY <2>1 DEF OnStack
  <2>3. QED
    BY <2>1, <2>2 DEF ExcOf, IncOf
<1>4. CASE n > 0
  <2>1. n \in 1..n /\ (n # 1 => n - 1 \in 1..n)
    BY <1>1, <1>4
  <2>2. /\ q.task[s[n]].Type = p.task[s[n]].Type
        /\ n = 1 => p.task[s[n]].Type # "undeferred"
    BY <1>4, <2>1 DEF n
  <2>3. Top(q, s) = Top(p, s) /\ OnStack(s, Top(p, s))
    BY <2>1, <2>2 DEF Top, n, OnStack
  <2>4. /\ q.task[Top(p, s)].Type = p.task[Top(p, s)].Type
        /\ q.task[Top(p, s)].inBarrier = p.task[Top(p, s)].inBarrier
    BY <1>2, <2>3
  <2>5. ExcOf(q, s, rests) = ExcOf(p, s, rests)
    BY <2>3, <2>4 DEF ExcOf
  <2>6. IncOf(q, s) = IncOf(p, s)
    BY <1>2, <2>3 DEF IncOf
  <2>7. QED
    BY <2>5, <2>6
<1>5. QED
  BY <1>1, <1>3, <1>4

(* The tasks in the books of a stack are on it.                            *)
LEMMA BooksOnStack ==
  ASSUME NEW p, NEW s, NEW rests, Len(s) \in Nat,
         Len(s) > 0 => p.task[s[1]].Type # "undeferred"
  PROVE  /\ ExcOf(p, s, rests) # NoTask => OnStack(s, ExcOf(p, s, rests))
         /\ \A x \in IncOf(p, s) : OnStack(s, x)
<1> DEFINE n == Len(s)
<1>1. n > 0 => OnStack(s, Top(p, s))
  <2>1. n \in Nat
    OBVIOUS
  <2>2. n = 1 => p.task[s[n]].Type # "undeferred"
    OBVIOUS
  <2> HIDE DEF n
  <2>3. n > 0 => n \in 1..n /\ (n # 1 => n - 1 \in 1..n)
    BY <2>1
  <2>4. QED
    BY <2>3, <2>2 DEF Top, n, OnStack
<1>2. QED
  BY <1>1 DEF ExcOf, IncOf

-----------------------------------------------------------------------------
(* What a step leaves of the invariant *)

(* The first task of a stack is an initial or an implicit one.              *)
LEMMA BottomKind ==
  ASSUME Shape, NEW t \in Thread, Len(running[t]) > 0
  PROVE  /\ Type(running[t][1]) \in {"initial", "implicit"}
         /\ running[t] \in Seq(TaskObj) /\ Len(running[t]) \in Nat
<1>1. EnvTypes /\ Stacks
  BY DEF Shape
<1>2. Len(running[t]) \in Nat /\ running[t] \in Seq(TaskObj)
  BY <1>1, CurrentOK DEF EnvTypes
<1>3. 1 \in 1..Len(running[t])
  BY <1>2
<1>4. Type(running[t][1]) \in Level(t, 1) /\ (where[t] = "outside" => t = Master)
  BY <1>1, <1>2, <1>3 DEF Stacks
<1>5. QED
  BY <1>2, <1>4 DEF Level, Base

(* The books of the other threads.                                         *)
LEMMA OthersBalance ==
  ASSUME NEW N, Shape, Balanced(N), NEW t \in Thread, NEW O \in SUBSET TaskObj, Effect(t, O),
         NEW u \in Thread, u # t, running'[u] = running[u], Resting(u)' = Resting(u),
         \A x \in O : ~OnStack(running[u], x)
  PROVE  Balance(u, N)'
<1> DEFINE s == running[u]
           e == ExcOf(prof, s, Resting(u))
           S == IncOf(prof, s)
<1>1. Books(prof, u, e, S, N)
  BY DEF Balanced, Balance
<1>2. s \in Seq(TaskObj) /\ Len(s) \in Nat
      /\ (Len(s) > 0 => prof.task[s[1]].Type # "undeferred")
  <2>1. EnvTypes
    BY DEF Shape
  <2>2. QED
    BY <2>1, BottomKind, CurrentOK DEF Type, EnvTypes
<1>3. \A i \in 1..Len(s) : s[i] \in TaskObj \ O /\ prof'.task[s[i]] = prof.task[s[i]]
  <2>1. \A i \in 1..Len(s) : s[i] \in TaskObj
    BY <1>2, ElementOfSeq
  <2>2. \A i \in 1..Len(s) : s[i] \notin O
    BY DEF OnStack
  <2>3. QED
    BY <2>1, <2>2 DEF Effect, Frame
<1>4. e \notin O /\ S \cap O = {}
  <2>1. (e # NoTask => OnStack(s, e)) /\ \A x \in S : OnStack(s, x)
    BY <1>2, BooksOnStack
  <2> HIDE DEF e, S
  <2>2. QED
    BY <2>1, TaskProfileAssumption
<1>5. ExcOf(prof', s, Resting(u)) = e /\ IncOf(prof', s) = S
  <2>1. prof'.active = prof.active
    BY DEF Effect
  <2>2. \A i \in 1..Len(s) : /\ prof'.task[s[i]].Type = prof.task[s[i]].Type
                             /\ prof'.task[s[i]].inBarrier = prof.task[s[i]].inBarrier
    BY <1>3
  <2>3. PICK p, q, z, rests : p = prof /\ q = prof' /\ z = s /\ rests = Resting(u)
    OBVIOUS
  <2>4. /\ z \in Seq(TaskObj) /\ q.active = p.active /\ (Len(z) > 0 => p.task[z[1]].Type # "undeferred")
        /\ \A i \in 1..Len(z) : /\ q.task[z[i]].Type = p.task[z[i]].Type
                                /\ q.task[z[i]].inBarrier = p.task[z[i]].inBarrier
    BY <1>2, <2>1, <2>2, <2>3
  <2>5. ExcOf(q, z, rests) = ExcOf(p, z, rests) /\ IncOf(q, z) = IncOf(p, z)
    BY <2>4, SameBooks
  <2>6. QED
    BY <2>3, <2>5
<1> HIDE DEF e, S
<1>6. Books(prof', u, e, S, N)
  BY <1>1, <1>4, BooksFrame DEF Effect
<1>7. QED
  BY <1>5, <1>6 DEF Balance

(* The regions tasks are bound to, but for the tasks in F.                 *)
LEMMA BoundsKept ==
  ASSUME NEW U, NEW F, Shape, Bounds(U), NEW t \in Thread, NEW O, Effect(t, O),
         \A x \in TaskObj \ F : SameButFlags(prof.task[x], prof'.task[x]),
         \A x \in TaskObj \ F : Type(x) = "explicit" => prof.task[x].parentTask \in TaskObj \ F,
         running' \in [Thread -> Seq(TaskObj)],
         \A u \in Thread : \A i \in 1..Len(running'[u]) :
           running'[u][i] \in F \/ OnStack(running[u], running'[u][i]),
         \A u \in Thread : \A i \in 1..Len(running'[u]) : running'[u][i] \in F =>
           LET o == running'[u][i] IN
           /\ prof'.task[o].Type \in {"initial", "implicit"} => Bound(prof', u, o)
           /\ prof'.task[o].Type = "explicit" /\ prof'.active =>
                Bound(prof', u, o) /\ KeyHolds(prof', o)
  PROVE  Bounds(U)'
<1>1. SUFFICES ASSUME NEW u \in Thread, NEW i \in 1..Len(running'[u])
               PROVE  LET o == running'[u][i] IN
                      /\ prof'.task[o].Type \in {"initial", "implicit"} => Bound(prof', u, o)
                      /\ prof'.task[o].Type = "explicit" /\ prof'.active =>
                           Bound(prof', u, o) /\ (o \notin U => KeyHolds(prof', o))
  BY DEF Bounds, Type
<1>2. PICK o : o = running'[u][i]
  OBVIOUS
<1>3. CASE o \in F
  BY <1>2, <1>3
<1>4. CASE o \notin F
  <2>1. OnStack(running[u], o)
    BY <1>2, <1>4
  <2>2. o \in TaskObj
    <3>1. running'[u] \in Seq(TaskObj)
      OBVIOUS
    <3>2. QED
      BY <1>2, <3>1, ElementOfSeq
  <2>3. /\ Type(o) \in {"initial", "implicit"} => Bound(prof, u, o)
        /\ Type(o) = "explicit" /\ prof.active => Bound(prof, u, o) /\ (o \notin U => KeyHolds(prof, o))
    <3>1. PICK k \in 1..Len(running[u]) : running[u][k] = o
      BY <2>1 DEF OnStack
    <3>2. QED
      BY <3>1 DEF Bounds
  <2>4. /\ prof'.task[o].Type = Type(o) /\ prof'.task[o].codePtr = prof.task[o].codePtr
        /\ prof'.task[o].parentTask = prof.task[o].parentTask
        /\ prof'.task[o].rData = prof.task[o].rData
    BY <1>4, <2>2 DEF SameButFlags, Type
  <2>5. /\ DOMAIN prof.exc \subseteq DOMAIN prof'.exc /\ Frame(prof, prof', t, O)
        /\ ProfileOK(prof) /\ ProfileOK(prof') /\ prof'.active = prof.active
    BY DEF Effect, Frame
  <2>6. Bound(prof, u, o) => Bound(prof', u, o)
    BY <2>4, <2>5 DEF Bound
  <2>7. Type(o) = "explicit" /\ Bound(prof, u, o) /\ KeyHolds(prof, o) => KeyHolds(prof', o)
    <3>1. SUFFICES ASSUME Type(o) = "explicit", Bound(prof, u, o), KeyHolds(prof, o)
                   PROVE  KeyHolds(prof', o)
      OBVIOUS
    <3>2. PICK x \in TaskObj : x = prof.task[o].parentTask /\ x \notin F
      BY <1>4, <2>2, <3>1
    <3>3. prof'.task[x].rData = prof.task[x].rData
      BY <3>2 DEF SameButFlags
    <3>4. prof.task[o].rData \in DOMAIN prof.exc
      BY <3>1 DEF Bound
    <3>5. QED
      BY <2>2, <2>4, <2>5, <3>1, <3>2, <3>3, <3>4, KeyHoldsStable
  <2>8. QED
    BY <1>2, <2>3, <2>4, <2>5, <2>6, <2>7
<1>5. QED
  BY <1>3, <1>4

(* A handler for the tasks in O, which stay the same or end.               *)
LEMMA SameKeys ==
  ASSUME NEW t, NEW O, Frame(prof, prof', t, O), prof'.active = prof.active,
         \A x \in TaskObj : x \in O =>
           SameOrigin(prof.task[x], prof'.task[x]) \/ Type(x)' = "none"
  PROVE  KeptKeys
<1>1. \A x \in TaskObj : SameOrigin(prof.task[x], prof'.task[x]) \/ Type(x)' = "none"
  BY DEF Frame, SameOrigin
<1>2. \A x \in TaskObj : Type(x) = "none" => Type(x)' = "none"
  BY <1>1 DEF SameOrigin, Type
<1>3. QED
  BY <1>1, <1>2 DEF KeptKeys, Frame

(* A begun task can be measured.                                           *)
LEMMA TaskReady ==
  ASSUME NEW U, Shape, Family, Bounds(U), prof.active, NEW t \in Thread,
         NEW i \in 1..Len(running[t]), NEW o, o = running[t][i],
         Type(o) \in {"initial", "implicit", "explicit"}
  PROVE  /\ Ready(prof, t, o) /\ Bound(prof, t, o)
         /\ o \notin U \/ Type(o) # "explicit" => Settled(prof, t, o)
<1>1. o \in TaskObj
  BY CurrentOK DEF Shape
<1>2. Bound(prof, t, o) /\ (Type(o) = "explicit" /\ o \notin U => KeyHolds(prof, o))
  BY DEF Bounds
<1>3. Type(o) = "explicit" => prof.task[o].parentTask # o
  BY <1>1 DEF Family
<1>4. QED
  BY <1>2, <1>3 DEF Ready, Settled, Type

(* The stack of a thread that executes a task of its own.                  *)
LEMMA TopPlain ==
  ASSUME Shape, OnlyTop, NEW t \in Thread, NEW o, o = Current(t), Len(running[t]) > 0,
         Type(o) # "undeferred"
  PROVE  /\ Plain(prof, running[t]) /\ o = running[t][Len(running[t])] /\ o \in TaskObj
         /\ Len(running[t]) \in 1..Len(running[t])
<1>1. EnvTypes /\ Apart(running)
  BY DEF Shape, Placed
<1>2. o = running[t][Len(running[t])] /\ o \in TaskObj /\ Len(running[t]) \in Nat
  BY <1>1, CurrentOK
<1>3. running \in [Thread -> Seq(TaskObj)]
  BY <1>1 DEF EnvTypes
<1>4. \A i \in 1..Len(running[t]) :
        prof.task[running[t][i]].Type = "undeferred" => i = Len(running[t])
  BY DEF OnlyTop, Type
<1>5. prof.task[running[t][Len(running[t])]].Type # "undeferred"
  BY <1>2 DEF Type
<1>6. Plain(prof, running[t])
  BY <1>1, <1>3, <1>4, <1>5, PlainStack
<1>7. QED
  BY <1>2, <1>6

(* Steps that change flags of the task on top.                             *)
LEMMA FlagStep ==
  ASSUME NEW U, NEW N, Good(U, N), Shape', NEW t \in Thread, NEW o \in TaskObj,
         OnStack(running[t], o), UNCHANGED <<running, queue, team>>, Effect(t, {o}),
         SameButFlags(prof.task[o], prof'.task[o]),
         prof'.task[o].isStarted = prof.task[o].isStarted, Balance(t, N)'
  PROVE  Bounds(U)' /\ Started' /\ Balanced(N)'
<1> USE DEF Good
<1>1. \A x \in TaskObj : /\ SameButFlags(prof.task[x], prof'.task[x])
                         /\ prof'.task[x].isStarted = prof.task[x].isStarted
  <2>1. \A x \in TaskObj \ {o} : prof'.task[x] = prof.task[x]
    BY DEF Effect, Frame
  <2>2. QED
    BY <2>1 DEF SameButFlags
<1>2. Bounds(U)'
  <2>1. \A x \in TaskObj \ {} : Type(x) = "explicit" => prof.task[x].parentTask \in TaskObj \ {}
    BY DEF Effect, ProfileOK, Type
  <2>2. running' \in [Thread -> Seq(TaskObj)]
    BY DEF Shape, EnvTypes
  <2>3. \A u \in Thread : \A i \in 1..Len(running'[u]) : OnStack(running[u], running'[u][i])
    BY DEF OnStack
  <2>4. PICK F : F = {}
    OBVIOUS
  <2>5. /\ \A x \in TaskObj \ F : SameButFlags(prof.task[x], prof'.task[x])
        /\ \A x \in TaskObj \ F : Type(x) = "explicit" => prof.task[x].parentTask \in TaskObj \ F
    BY <1>1, <2>1, <2>4
  <2>6. \A u \in Thread : \A i \in 1..Len(running'[u]) :
          running'[u][i] \in F \/ OnStack(running[u], running'[u][i])
    BY <2>3
  <2>7. \A u \in Thread : \A i \in 1..Len(running'[u]) : running'[u][i] \notin F
    BY <2>4
  <2>8. QED
    BY <2>2, <2>5, <2>6, <2>7, BoundsKept
<1>3. Started'
  BY <1>1 DEF Started, SameButFlags, Type, Effect
<1>4. ASSUME NEW u \in Thread, u # t PROVE Balance(u, N)'
  <2>1. running'[u] = running[u] /\ Resting(u)' = Resting(u)
    BY DEF Resting
  <2>2. \A x \in {o} : ~OnStack(running[u], x)
    BY <1>4 DEF Shape, Placed, Apart, OnStack
  <2>3. QED
    BY <1>4, <2>1, <2>2, OthersBalance
<1>5. QED
  BY <1>2, <1>3, <1>4 DEF Balanced

(* The begin of a barrier, a taskwait or a taskgroup.                      *)
LEMMA SyncBeginKept ==
  ASSUME NEW U, NEW N \in [Region -> Nat], Good(U, N), Shape', NEW t \in Thread,
         NEW o, o = Current(t), Len(running[t]) > 0,
         Type(o) \in {"initial", "implicit", "explicit"}, Type(o) = "initial" => ~Resting(t),
         ~prof.task[o].inBarrier,
         Returns(t, SyncRegionBegin(prof, t, o)), UNCHANGED <<running, queue, team>>
  PROVE  /\ Bounds(U)' /\ Started' /\ Balanced(N)'
         /\ Effect(t, {o}) /\ SameButFlags(prof.task[o], prof'.task[o])
         /\ prof'.task[o].inBarrier = prof.active
<1> USE DEF Good
<1> DEFINE q == SyncRegionBegin(prof, t, o)
           s == running[t]
<1>1. /\ Plain(prof, s) /\ o = s[Len(s)] /\ o \in TaskObj /\ Len(s) \in 1..Len(s)
  BY TopPlain
<1>2. ProfileOK(prof) /\ Books(prof, t, ExcOf(prof, s, Resting(t)), IncOf(prof, s), N)
  BY DEF Shape, Balanced, Balance
<1>3. OnStack(s, o)
  BY <1>1 DEF OnStack
<1>4. CASE prof.active
  <2>1. Ready(prof, t, o)
    BY <1>1, <1>4, TaskReady
  <2>2. ExcOf(prof, s, Resting(t)) = o /\ IncOf(prof, s) = Under(s) \cup {o}
    BY <1>1, <1>4, PlainBooks DEF Type
  <2>3. Books(prof, t, o, Under(s) \cup {o}, N)
    BY <1>2, <2>2
  <2> HIDE DEF s
  <2>4. /\ Handler(prof, q, t, {o}) /\ Books(q, t, NoTask, (Under(s) \cup {o}) \ {o}, N)
        /\ SameButFlags(prof.task[o], q.task[o])
        /\ q.task[o].isStarted = prof.task[o].isStarted /\ q.task[o].inBarrier
    <3>1. PICK p, S : p = prof /\ S = Under(s) \cup {o}
      OBVIOUS
    <3>2. /\ ProfileOK(p) /\ p.active /\ Ready(p, t, o) /\ o \in TaskObj /\ o \in S
          /\ Books(p, t, o, S, N)
      BY <1>1, <1>2, <1>4, <2>1, <2>3, <3>1
    <3>3. LET r == SyncRegionBegin(p, t, o) IN
          /\ Handler(p, r, t, {o}) /\ Books(r, t, NoTask, S \ {o}, N)
          /\ SameButFlags(p.task[o], r.task[o])
          /\ r.task[o].isStarted = p.task[o].isStarted /\ r.task[o].inBarrier
      BY <3>2, SyncRegionBeginBooks
    <3>4. QED
      BY <3>1, <3>3
  <2> HIDE DEF q
  <2>5. /\ Effect(t, {o}) /\ prof'.task = q.task
        /\ \A u, e, S, M : Books(q, u, e, S, M) => Books(prof', u, e, S, M)
    BY <1>2, <2>4, ReturnsEffect DEF q
  <2>6. Balance(t, N)'
    <3>1. prof'.active /\ prof'.task[o].inBarrier
      BY <1>4, <2>4, <2>5 DEF Effect
    <3>2. Plain(prof', s)
      <4>1. \A x \in TaskObj : prof'.task[x].Type = prof.task[x].Type
        BY <2>4, <2>5 DEF Effect, Frame, SameButFlags
      <4>2. \A i \in 1..Len(s) : s[i] \in TaskObj
        BY <1>1, ElementOfSeq DEF Plain
      <4>3. QED
        BY <1>1, <4>1, <4>2 DEF Plain
    <3>3. ExcOf(prof', s, Resting(t)') = NoTask /\ IncOf(prof', s) = Under(s)
      BY <1>1, <3>1, <3>2, PlainBooks
    <3>4. (Under(s) \cup {o}) \ {o} = Under(s)
      BY <1>1, PlainBooks
    <3>5. Books(prof', t, NoTask, Under(s), N)
      BY <2>4, <2>5, <3>4
    <3>6. running'[t] = s
      BY DEF s
    <3>7. QED
      BY <3>3, <3>5, <3>6 DEF Balance
  <2>7. SameButFlags(prof.task[o], prof'.task[o])
        /\ prof'.task[o].isStarted = prof.task[o].isStarted
    BY <2>4, <2>5
  <2>8. Bounds(U)' /\ Started' /\ Balanced(N)'
    BY <1>1, <1>3, <2>5, <2>6, <2>7, FlagStep DEF s
  <2>9. QED
    BY <1>4, <2>4, <2>5, <2>7, <2>8
<1>5. CASE ~prof.active
  <2>1. q = prof
    BY <1>5 DEF SyncRegionBegin
  <2>2. Handler(prof, q, t, {o})
    BY <1>2, <2>1, HandlerNone
  <2> HIDE DEF q
  <2>3. /\ Effect(t, {o}) /\ prof'.task = q.task
        /\ \A u, e, S, M : Books(q, u, e, S, M) => Books(prof', u, e, S, M)
    BY <1>2, <2>2, ReturnsEffect DEF q
  <2>4. SameButFlags(prof.task[o], prof'.task[o]) /\ prof'.task[o] = prof.task[o]
    BY <2>1, <2>3 DEF SameButFlags
  <2>5. Balance(t, N)'
    <3>1. ~prof'.active
      BY <1>5, <2>3 DEF Effect
    <3>2. /\ ExcOf(prof, s, Resting(t)) = NoTask /\ IncOf(prof, s) = {}
          /\ ExcOf(prof', s, Resting(t)') = NoTask /\ IncOf(prof', s) = {}
      BY <1>5, <3>1, EmptyBooks
    <3>3. Books(prof', t, NoTask, {}, N)
      BY <1>2, <2>1, <2>3, <3>2
    <3>4. QED
      BY <3>2, <3>3 DEF Balance
  <2>6. Bounds(U)' /\ Started' /\ Balanced(N)'
    BY <1>1, <1>3, <2>3, <2>4, <2>5, FlagStep
  <2>7. prof.task[o].inBarrier \in BOOLEAN /\ prof.active \in BOOLEAN
    BY <1>1, <1>2 DEF ProfileOK, Task
  <2>8. prof'.task[o].inBarrier = prof.active
    BY <1>5, <2>4, <2>7
  <2>9. QED
    BY <2>3, <2>4, <2>6, <2>8
<1>6. QED
  BY <1>4, <1>5
(* ... and their end.                                                      *)
LEMMA SyncEndKept ==
  ASSUME NEW U, NEW N \in [Region -> Nat], Good(U, N), Shape', NEW t \in Thread,
         NEW o, o = Current(t), Len(running[t]) > 0,
         Type(o) \in {"initial", "implicit", "explicit"}, Type(o) = "initial" => ~Resting(t),
         Type(o) = "explicit" => o \notin U, prof.task[o].inBarrier = prof.active,
         Returns(t, SyncRegionEnd(prof, t, o)), UNCHANGED <<running, queue, team>>
  PROVE  /\ Bounds(U)' /\ Started' /\ Balanced(N)'
         /\ Effect(t, {o}) /\ SameButFlags(prof.task[o], prof'.task[o])
         /\ ~prof'.task[o].inBarrier
<1> USE DEF Good
<1> DEFINE q == SyncRegionEnd(prof, t, o)
           s == running[t]
<1>1. /\ Plain(prof, s) /\ o = s[Len(s)] /\ o \in TaskObj /\ Len(s) \in 1..Len(s)
  BY TopPlain
<1>2. ProfileOK(prof) /\ Books(prof, t, ExcOf(prof, s, Resting(t)), IncOf(prof, s), N)
  BY DEF Shape, Balanced, Balance
<1>3. OnStack(s, o)
  BY <1>1 DEF OnStack
<1>4. CASE prof.active
  <2>1. Ready(prof, t, o) /\ Settled(prof, t, o)
    BY <1>1, <1>4, TaskReady
  <2>2. ExcOf(prof, s, Resting(t)) = NoTask /\ IncOf(prof, s) = Under(s) /\ o \notin Under(s)
    BY <1>1, <1>4, PlainBooks
  <2>3. Books(prof, t, NoTask, Under(s), N)
    BY <1>2, <2>2
  <2> HIDE DEF s
  <2>4. /\ Handler(prof, q, t, {o}) /\ Books(q, t, o, Under(s) \cup {o}, N)
        /\ SameButFlags(prof.task[o], q.task[o])
        /\ q.task[o].isStarted = prof.task[o].isStarted /\ ~q.task[o].inBarrier
    <3>1. PICK p, S : p = prof /\ S = Under(s)
      OBVIOUS
    <3>2. /\ ProfileOK(p) /\ p.active /\ Ready(p, t, o) /\ Settled(p, t, o) /\ o \in TaskObj
          /\ o \notin S /\ Books(p, t, NoTask, S, N)
      BY <1>1, <1>2, <1>4, <2>1, <2>2, <2>3, <3>1
    <3>3. LET r == SyncRegionEnd(p, t, o) IN
          /\ Handler(p, r, t, {o}) /\ Books(r, t, o, S \cup {o}, N)
          /\ SameButFlags(p.task[o], r.task[o])
          /\ r.task[o].isStarted = p.task[o].isStarted /\ ~r.task[o].inBarrier
      BY <3>2, SyncRegionEndBooks
    <3>4. QED
      BY <3>1, <3>3
  <2> HIDE DEF q
  <2>5. /\ Effect(t, {o}) /\ prof'.task = q.task
        /\ \A u, e, S, M : Books(q, u, e, S, M) => Books(prof', u, e, S, M)
    BY <1>2, <2>4, ReturnsEffect DEF q
  <2>6. Balance(t, N)'
    <3>1. prof'.active /\ ~prof'.task[o].inBarrier
      BY <1>4, <2>4, <2>5 DEF Effect
    <3>2. Plain(prof', s)
      <4>1. \A x \in TaskObj : prof'.task[x].Type = prof.task[x].Type
        BY <2>4, <2>5 DEF Effect, Frame, SameButFlags
      <4>2. \A i \in 1..Len(s) : s[i] \in TaskObj
        BY <1>1, ElementOfSeq DEF Plain
      <4>3. QED
        BY <1>1, <4>1, <4>2 DEF Plain
    <3>3. ExcOf(prof', s, Resting(t)') = o /\ IncOf(prof', s) = Under(s) \cup {o}
      <4>1. ~(Resting(t)' /\ prof'.task[o].Type = "initial")
        BY <1>1, <2>4, <2>5 DEF Resting, SameButFlags, Type
      <4>2. PICK rests : rests = Resting(t)'
        OBVIOUS
      <4>3. ExcOf(prof', s, rests) = o /\ IncOf(prof', s) = Under(s) \cup {o}
        BY <1>1, <3>1, <3>2, <4>1, <4>2, PlainBooks
      <4>4. QED
        BY <4>2, <4>3
    <3>4. Books(prof', t, o, Under(s) \cup {o}, N)
      BY <2>4, <2>5
    <3>5. running'[t] = s
      BY DEF s
    <3>6. QED
      BY <3>3, <3>4, <3>5 DEF Balance
  <2>7. SameButFlags(prof.task[o], prof'.task[o])
        /\ prof'.task[o].isStarted = prof.task[o].isStarted
    BY <2>4, <2>5
  <2>8. Bounds(U)' /\ Started' /\ Balanced(N)'
    BY <1>1, <1>3, <2>5, <2>6, <2>7, FlagStep DEF s
  <2>9. QED
    BY <1>4, <2>4, <2>5, <2>7, <2>8
<1>5. CASE ~prof.active
  <2>1. q = prof
    BY <1>5 DEF SyncRegionEnd
  <2>2. Handler(prof, q, t, {o})
    BY <1>2, <2>1, HandlerNone
  <2> HIDE DEF q
  <2>3. /\ Effect(t, {o}) /\ prof'.task = q.task
        /\ \A u, e, S, M : Books(q, u, e, S, M) => Books(prof', u, e, S, M)
    BY <1>2, <2>2, ReturnsEffect DEF q
  <2>4. SameButFlags(prof.task[o], prof'.task[o]) /\ prof'.task[o] = prof.task[o]
    BY <2>1, <2>3 DEF SameButFlags
  <2>5. Balance(t, N)'
    <3>1. ~prof'.active
      BY <1>5, <2>3 DEF Effect
    <3>2. /\ ExcOf(prof, s, Resting(t)) = NoTask /\ IncOf(prof, s) = {}
          /\ ExcOf(prof', s, Resting(t)') = NoTask /\ IncOf(prof', s) = {}
      BY <1>5, <3>1, EmptyBooks
    <3>3. Books(prof', t, NoTask, {}, N)
      BY <1>2, <2>1, <2>3, <3>2
    <3>4. QED
      BY <3>2, <3>3 DEF Balance
  <2>6. Bounds(U)' /\ Started' /\ Balanced(N)'
    BY <1>1, <1>3, <2>3, <2>4, <2>5, FlagStep
  <2>7. prof.task[o].inBarrier \in BOOLEAN /\ prof.active \in BOOLEAN
    BY <1>1, <1>2 DEF ProfileOK, Task
  <2>8. ~prof'.task[o].inBarrier
    BY <1>5, <2>4, <2>7
  <2>9. QED
    BY <2>3, <2>4, <2>6, <2>8
<1>6. QED
  BY <1>4, <1>5

-----------------------------------------------------------------------------
(* Barriers, taskwait and taskgroup *)

(* The implicit task of a thread in a parallel region is its own.          *)
LEMMA Bottoms ==
  ASSUME Shape, NEW t \in Thread, where[t] # "outside"
  PROVE  /\ Base(t) \in 1..Len(running[t]) /\ Bottom(t) \in TaskObj
         /\ Type(Bottom(t)) = "implicit" /\ Stacked(Bottom(t))
         /\ \A u \in Thread : where[u] # "outside" /\ Bottom(u) = Bottom(t) => u = t
<1>1. EnvTypes /\ Stacks /\ Apart(running)
  BY DEF Shape, Placed
<1>2. \A u \in Thread : where[u] # "outside" =>
        Base(u) \in 1..Len(running[u]) /\ Bottom(u) \in TaskObj
  <2>1. SUFFICES ASSUME NEW u \in Thread, where[u] # "outside"
                 PROVE  Base(u) \in 1..Len(running[u]) /\ Bottom(u) \in TaskObj
    OBVIOUS
  <2>2. Len(running[u]) \in Nat /\ \A i \in 1..Len(running[u]) : running[u][i] \in TaskObj
    BY <1>1, CurrentOK
  <2>3. Len(running[u]) >= Base(u) /\ Base(u) \in {1, 2}
    BY <1>1, <2>1 DEF Stacks, Base
  <2>4. Base(u) \in 1..Len(running[u])
    BY <2>2, <2>3
  <2>5. QED
    BY <2>2, <2>4 DEF Bottom
<1>3. Type(Bottom(t)) = "implicit"
  <2>1. Level(t, Base(t)) = {"implicit"}
    BY DEF Level, Base
  <2>2. QED
    BY <1>1, <1>2, <2>1 DEF Stacks, Bottom
<1>4. Stacked(Bottom(t))
  BY <1>2 DEF Stacked, OnStack, Bottom
<1>5. \A u \in Thread : where[u] # "outside" /\ Bottom(u) = Bottom(t) => u = t
  BY <1>1, <1>2 DEF Apart, Bottom
<1>6. QED
  BY <1>2, <1>3, <1>4, <1>5

(* Who waits in a barrier.                                                 *)
LEMMA BarrierTask ==
  ASSUME Shape, NEW t \in Thread, where[t] # "outside"
  PROVE  AtBarrier(Bottom(t)) <=> where[t] \in {"barrier", "released"}
BY Bottoms DEF AtBarrier

(* What an event that changes flags of one task leaves of the invariant.   *)
LEMMA SyncRest ==
  ASSUME NEW U, EnvTypes, OnlyTop, InUse, Family, Inner(U), NEW t, NEW o \in TaskObj, Effect(t, {o}),
         SameButFlags(prof.task[o], prof'.task[o]),
         UNCHANGED <<running, queue, next, children>>,
         \A u \in Thread : where'[u] \in {"released", "leaving"} => where[u] \in {"released", "leaving"}
  PROVE  OnlyTop' /\ InUse' /\ Family' /\ Inner(U)'
<1>1. \A x \in TaskObj : SameButFlags(prof.task[x], prof'.task[x])
  <2>1. \A x \in TaskObj \ {o} : prof'.task[x] = prof.task[x]
    BY DEF Effect, Frame
  <2>2. QED
    BY <2>1 DEF SameButFlags
<1>2. \A x \in TaskObj : Type(x)' = Type(x) /\ prof'.task[x].parentTask = prof.task[x].parentTask
  BY <1>1 DEF SameButFlags, Type
<1>3. \A x \in TaskObj : Type(x) = "explicit" => prof.task[x].parentTask \in TaskObj
  BY DEF Effect, ProfileOK, Type
<1>4. \A u \in Thread : \A i \in 1..Len(running[u]) : running[u][i] \in TaskObj
  BY CurrentOK
<1>5. OnlyTop'
  BY <1>2, <1>4 DEF OnlyTop
<1>6. InUse'
  BY <1>2 DEF InUse, Stacked
<1>7. Family'
  <2>1. \A u : Bottom(u)' = Bottom(u)
    BY DEF Bottom
  <2>2. QED
    BY <1>2, <1>3, <2>1 DEF Family
<1>8. Inner(U)'
  <2>1. SUFFICES ASSUME NEW x \in U
                 PROVE  /\ Type(x)' = "explicit" => x \notin queue'
                        /\ \A u \in Thread : \A i \in 1..Len(running[u]) :
                             running[u][i] = x /\ Type(x)' = "explicit" => i = Len(running[u])
    BY DEF Inner
  <2>2. CASE x \in TaskObj
    BY <1>2, <2>1, <2>2 DEF Inner
  <2>3. CASE x \notin TaskObj
    BY <1>4, <2>3 DEF EnvTypes
  <2>4. QED
    BY <2>2, <2>3
<1>9. QED
  BY <1>5, <1>6, <1>7, <1>8

(* The invariant is kept by the begin of a barrier.                         *)
LEMMA BarrierBeginGood ==
  ASSUME NEW U, NEW N \in [Region -> Nat], Good(U, N), Shape', NEW t \in Thread, BarrierBegin(t)
  PROVE  Good(U, N)' /\ Kept
<1>1. /\ Shape /\ OnlyTop /\ InUse /\ Started /\ Waits /\ Family
      /\ Bounds(U) /\ Inner(U) /\ Fresh /\ Balanced(N)
  BY DEF Good
<1>2. PICK o : o = Current(t)
  OBVIOUS
<1>3. /\ OnTop(t) /\ Type(o) = "implicit" /\ where[t] = "inside" /\ sync[o] = <<>>
      /\ Returns(t, SyncRegionBegin(prof, t, o))
      /\ where' = [where EXCEPT ![t] = "barrier"]
      /\ UNCHANGED <<running, queue, next, sync, children, team>>
  BY <1>2 DEF BarrierBegin, InProgram
<1>4. /\ o = Bottom(t) /\ o \in TaskObj /\ Len(running[t]) > 0
  BY <1>1, <1>2, <1>3, ImplicitOnTop DEF Bottom, Base
<1>5. where'[t] = "barrier" /\ \A u \in Thread : u # t => where'[u] = where[u]
  BY <1>1, <1>3 DEF Shape, EnvTypes
<1>6. ~AtBarrier(o)
  BY <1>1, <1>3, <1>4, BarrierTask
<1>7. ~prof.task[o].inBarrier
  BY <1>1, <1>3, <1>4, <1>6 DEF Waits
<1>8. /\ Bounds(U)' /\ Started' /\ Balanced(N)'
      /\ Effect(t, {o}) /\ SameButFlags(prof.task[o], prof'.task[o])
      /\ prof'.task[o].inBarrier = prof.active
  BY <1>1, <1>2, <1>3, <1>4, <1>7, SyncBeginKept
<1>9. OnlyTop' /\ InUse' /\ Family' /\ Inner(U)'
  <2>1. \A u \in Thread : where'[u] \in {"released", "leaving"} => where[u] \in {"released", "leaving"}
    BY <1>5
  <2>2. EnvTypes
    BY <1>1 DEF Shape
  <2>3. QED
    BY <1>1, <1>3, <1>4, <1>8, <2>1, <2>2, SyncRest
<1>10. Waits'
  <2>1. \A u : Bottom(u)' = Bottom(u)
    BY <1>3 DEF Bottom
  <2>2. \A x \in TaskObj \ {o} : (AtBarrier(x)' <=> AtBarrier(x)) /\ prof'.task[x] = prof.task[x]
    BY <1>4, <1>5, <1>8, <2>1 DEF AtBarrier, Effect, Frame
  <2>3. AtBarrier(o)'
    BY <1>4, <1>5, <2>1 DEF AtBarrier
  <2>4. \A x \in TaskObj : Type(x)' = Type(x) /\ Stacked(x)' = Stacked(x)
    BY <1>3, <1>8, <2>2 DEF Type, SameButFlags, Stacked
  <2>5. prof'.active = prof.active /\ sync' = sync
    BY <1>3, <1>8 DEF Effect
  <2>6. ASSUME NEW x \in TaskObj
        PROVE  prof'.task[x].inBarrier = (prof.active /\ (sync[x] # <<>> \/ AtBarrier(x)'))
    <3>1. CASE x = o
      BY <1>1, <1>4, <1>8, <2>3, <3>1 DEF Shape, ProfileOK
    <3>2. CASE x # o
      BY <1>1, <2>2, <3>2 DEF Waits
    <3>3. QED
      BY <3>1, <3>2
  <2>7. QED
    BY <1>1, <2>4, <2>5, <2>6 DEF Waits
<1>11. Fresh'
  BY <1>1, <1>3, <1>5, <1>8 DEF Fresh, Effect, Frame
<1>12. KeptRegions
  BY <1>8 DEF KeptRegions, Effect, Frame, SameButFlags
<1>13. KeptKeys
  <2>1. \A x \in TaskObj : x \in {o} =>
          SameOrigin(prof.task[x], prof'.task[x]) \/ Type(x)' = "none"
    BY <1>8 DEF SameOrigin, SameButFlags
  <2>2. QED
    BY <1>8, <2>1, SameKeys DEF Effect
<1>14. QED
  BY <1>12, <1>13, <1>8, <1>9, <1>10, <1>11 DEF Good, Kept

(* The invariant is kept by the end of a barrier.                           *)
LEMMA BarrierEndGood ==
  ASSUME NEW U, NEW N \in [Region -> Nat], Good(U, N), Shape', NEW t \in Thread, BarrierEnd(t)
  PROVE  Good(U, N)' /\ Kept
<1>1. /\ Shape /\ OnlyTop /\ InUse /\ Started /\ Waits /\ Family
      /\ Bounds(U) /\ Inner(U) /\ Fresh /\ Balanced(N)
  BY DEF Good
<1>2. PICK o : o = Current(t)
  OBVIOUS
<1>3. /\ where[t] = "released" /\ Returns(t, SyncRegionEnd(prof, t, o))
      /\ where' = [where EXCEPT ![t] = "leaving"]
      /\ UNCHANGED <<running, queue, next, sync, children, team>>
  BY <1>2 DEF BarrierEnd
<1>4. /\ o = Bottom(t) /\ o \in TaskObj /\ Len(running[t]) > 0 /\ Type(o) = "implicit"
      /\ sync[o] = <<>>
  <2>1. Bottom(t) \in TaskObj /\ Type(Bottom(t)) = "implicit" /\ Base(t) \in 1..Len(running[t])
    BY <1>1, <1>3, Bottoms
  <2>2. Len(running[t]) = Base(t) /\ sync[running[t][Base(t)]] = <<>>
    BY <1>1, <1>3 DEF Shape, Stacks
  <2>3. Len(running[t]) > 0
    BY <2>2 DEF Base
  <2>4. o = running[t][Len(running[t])]
    BY <1>1, <1>2, <2>3, CurrentOK DEF Shape
  <2>5. QED
    BY <2>1, <2>2, <2>3, <2>4 DEF Bottom
<1>5. where'[t] = "leaving" /\ \A u \in Thread : u # t => where'[u] = where[u]
  BY <1>1, <1>3 DEF Shape, EnvTypes
<1>6. AtBarrier(o)
  BY <1>1, <1>3, <1>4, BarrierTask
<1>7. prof.task[o].inBarrier = prof.active
  <2>1. prof.task[o].inBarrier = (prof.active /\ (sync[o] # <<>> \/ AtBarrier(o)))
    BY <1>1, <1>4 DEF Waits
  <2>2. prof.active \in BOOLEAN
    BY <1>1 DEF Shape, ProfileOK
  <2>3. QED
    BY <1>6, <2>1, <2>2
<1>8. /\ Bounds(U)' /\ Started' /\ Balanced(N)'
      /\ Effect(t, {o}) /\ SameButFlags(prof.task[o], prof'.task[o])
      /\ ~prof'.task[o].inBarrier
  BY <1>1, <1>2, <1>3, <1>4, <1>7, SyncEndKept DEF Good
<1>9. OnlyTop' /\ InUse' /\ Family' /\ Inner(U)'
  <2>1. \A u \in Thread : where'[u] \in {"released", "leaving"} => where[u] \in {"released", "leaving"}
    BY <1>3, <1>5
  <2>2. EnvTypes
    BY <1>1 DEF Shape
  <2>3. QED
    BY <1>1, <1>3, <1>4, <1>8, <2>1, <2>2, SyncRest
<1>10. Waits'
  <2>1. \A u : Bottom(u)' = Bottom(u)
    BY <1>3 DEF Bottom
  <2>2. \A x \in TaskObj \ {o} : (AtBarrier(x)' <=> AtBarrier(x)) /\ prof'.task[x] = prof.task[x]
    BY <1>4, <1>5, <1>8, <2>1 DEF AtBarrier, Effect, Frame
  <2>3. ~AtBarrier(o)'
    <3>1. \A u \in Thread : where[u] # "outside" /\ Bottom(u) = o => u = t
      BY <1>1, <1>3, <1>4, Bottoms
    <3>2. QED
      BY <1>5, <2>1, <3>1 DEF AtBarrier
  <2>4. \A x \in TaskObj : Type(x)' = Type(x) /\ Stacked(x)' = Stacked(x)
    BY <1>3, <1>8, <2>2 DEF Type, SameButFlags, Stacked
  <2>5. prof'.active = prof.active /\ sync' = sync
    BY <1>3, <1>8 DEF Effect
  <2>6. ASSUME NEW x \in TaskObj
        PROVE  prof'.task[x].inBarrier = (prof.active /\ (sync[x] # <<>> \/ AtBarrier(x)'))
    <3>1. CASE x = o
      <4>1. prof'.task[o].inBarrier \in BOOLEAN
        BY <1>4, <1>8 DEF Effect, ProfileOK, Task
      <4>2. QED
        BY <1>4, <1>8, <2>3, <3>1, <4>1
    <3>2. CASE x # o
      BY <1>1, <2>2, <3>2 DEF Waits
    <3>3. QED
      BY <3>1, <3>2
  <2>7. QED
    BY <1>1, <2>4, <2>5, <2>6 DEF Waits
<1>11. Fresh'
  BY <1>1, <1>3, <1>5, <1>8 DEF Fresh, Effect, Frame
<1>12. KeptRegions
  BY <1>8 DEF KeptRegions, Effect, Frame, SameButFlags
<1>13. KeptKeys
  <2>1. \A x \in TaskObj : x \in {o} =>
          SameOrigin(prof.task[x], prof'.task[x]) \/ Type(x)' = "none"
    BY <1>8 DEF SameOrigin, SameButFlags
  <2>2. QED
    BY <1>8, <2>1, SameKeys DEF Effect
<1>14. QED
  BY <1>12, <1>13, <1>8, <1>9, <1>10, <1>11 DEF Good, Kept

(* When the barrier opens there are no explicit tasks.                     *)
LEMMA BarrierOpensGood ==
  ASSUME NEW U, NEW N \in [Region -> Nat], Good(U, N), Shape', BarrierOpens
  PROVE  Good(U, N)' /\ Kept
<1>1. /\ Shape /\ OnlyTop /\ InUse /\ Started /\ Waits /\ Family
      /\ Bounds(U) /\ Inner(U) /\ Fresh /\ Balanced(N)
  BY DEF Good
<1>2. /\ queue = {}
      /\ \A t \in Thread : where[t] = "barrier" /\ Type(Current(t)) = "implicit"
      /\ where' = [t \in Thread |-> "released"]
      /\ UNCHANGED <<prof, running, queue, next, sync, children, team>>
  BY DEF BarrierOpens
<1>3. \A t \in Thread : \A i \in 1..Len(running[t]) : Type(running[t][i]) # "explicit"
  <2>1. SUFFICES ASSUME NEW t \in Thread, NEW i \in 1..Len(running[t])
                 PROVE  Type(running[t][i]) # "explicit"
    OBVIOUS
  <2>2. Type(Current(t)) = "implicit" /\ where[t] = "barrier"
    BY <1>2
  <2>3. EnvTypes /\ Stacks
    BY <1>1 DEF Shape
  <2>4. Len(running[t]) \in Nat /\ Len(running[t]) \in 1..Len(running[t])
        /\ Current(t) = running[t][Len(running[t])]
    BY <2>3, CurrentOK
  <2>5. "implicit" \in Level(t, Len(running[t])) /\ Type(running[t][i]) \in Level(t, i)
    BY <2>2, <2>3, <2>4 DEF Stacks
  <2>6. Len(running[t]) = Base(t)
    BY <2>2, <2>5 DEF Level
  <2>7. i \in 1..Base(t) /\ Base(t) \in Nat
    BY <2>6, <2>4
  <2>8. i < Base(t) \/ i = Base(t)
    BY <2>7
  <2>9. QED
    BY <2>2, <2>5, <2>8 DEF Level
<1>4. \A o \in TaskObj : Type(o) # "explicit"
  BY <1>1, <1>2, <1>3 DEF InUse, Stacked, OnStack
<1>5. Family'
  BY <1>2, <1>4 DEF Family, Type
<1>6. \A o : AtBarrier(o)' <=> AtBarrier(o)
  BY <1>2 DEF AtBarrier, Bottom
<1>7. OnlyTop' /\ InUse' /\ Started' /\ Bounds(U)' /\ Inner(U)'
  BY <1>1, <1>2 DEF OnlyTop, InUse, Started, Bounds, Inner, Type, Stacked
<1>8. Waits'
  BY <1>1, <1>2, <1>6 DEF Waits, Type, Stacked
<1>9. Fresh'
  BY <1>1, <1>2, TaskProfileAssumption DEF Fresh
<1>10. Balanced(N)'
  BY <1>1, <1>2 DEF Balanced, Balance, Resting
<1>11. KeptRegions
  BY <1>2 DEF KeptRegions
<1>12. KeptKeys
  BY <1>2 DEF KeptKeys, SameOrigin, Type
<1>13. QED
  BY <1>11, <1>12, <1>5, <1>7, <1>8, <1>9, <1>10 DEF Good, Kept

(* The invariant is kept by the begin of a taskwait or taskgroup.           *)
LEMMA RegionBeginGood ==
  ASSUME WellStructured, NEW U, NEW N \in [Region -> Nat], Good(U, N), Shape', Within(U),
         NEW t \in Thread, NEW kind, RegionBegin(t, kind)
  PROVE  Good(U, N)' /\ Kept
<1>1. /\ Shape /\ OnlyTop /\ InUse /\ Started /\ Waits /\ Family
      /\ Bounds(U) /\ Inner(U) /\ Fresh /\ Balanced(N)
  BY DEF Good
<1>2. PICK o : o = Current(t)
  OBVIOUS
<1>3. /\ OnTop(t) /\ (Type(o) = "implicit" => where[t] = "inside")
      /\ sync[o] = <<>> /\ Type(o) # "undeferred"
      /\ Returns(t, SyncRegionBegin(prof, t, o))
      /\ sync' = [sync EXCEPT ![o] = Append(@, kind)]
      /\ UNCHANGED <<running, queue, next, children, team, where>>
  BY <1>2 DEF RegionBegin, InProgram, Reporting, WellStructured
<1>4. /\ o \in TaskObj /\ Len(running[t]) \in Nat \ {0} /\ o = running[t][Len(running[t])]
      /\ Type(o) \in {"initial", "implicit", "explicit"} /\ Stacked(o)
      /\ Type(o) = "initial" => team = NoTeam
  <2>1. /\ Len(running[t]) \in Nat \ {0} /\ o = running[t][Len(running[t])] /\ o \in TaskObj
        /\ Type(o) \in Level(t, Len(running[t])) /\ (Type(o) = "initial" => team = NoTeam)
    BY <1>1, <1>2, <1>3, OnTopOK
  <2>2. Type(o) \in {"initial", "implicit", "explicit"}
    BY <1>3, <2>1 DEF Level
  <2>3. Len(running[t]) \in 1..Len(running[t])
    BY <2>1
  <2>4. Stacked(o)
    BY <2>1, <2>3 DEF Stacked, OnStack
  <2>5. QED
    BY <2>1, <2>2, <2>4
<1>5. ~AtBarrier(o)
  <2>1. SUFFICES ASSUME NEW u \in Thread, where[u] \in {"barrier", "released"}, Bottom(u) = o
                 PROVE  FALSE
    BY DEF AtBarrier
  <2>2. Type(o) = "implicit" /\ \A v \in Thread : where[v] # "outside" /\ Bottom(v) = Bottom(u) => v = u
    BY <1>1, <2>1, Bottoms
  <2>3. where[t] = "inside" /\ o = Bottom(t)
    BY <1>1, <1>2, <1>3, <2>2, ImplicitOnTop DEF Bottom
  <2>4. QED
    BY <2>1, <2>2, <2>3
<1>6. ~prof.task[o].inBarrier
  BY <1>1, <1>3, <1>4, <1>5 DEF Waits
<1>7. /\ Bounds(U)' /\ Started' /\ Balanced(N)'
      /\ Effect(t, {o}) /\ SameButFlags(prof.task[o], prof'.task[o])
      /\ prof'.task[o].inBarrier = prof.active
  <2>1. Type(o) = "initial" => ~Resting(t)
    BY <1>4 DEF Resting
  <2>2. Len(running[t]) > 0
    BY <1>4
  <2>3. QED
    BY <1>2, <1>3, <1>4, <1>6, <2>1, <2>2, SyncBeginKept
<1>8. OnlyTop' /\ InUse' /\ Family' /\ Inner(U)'
  <2>1. EnvTypes
    BY <1>1 DEF Shape
  <2>2. QED
    BY <1>1, <1>3, <1>4, <1>7, <2>1, SyncRest
<1>9. /\ Len(sync'[o]) = 1 /\ sync'[o] # <<>>
      /\ \A x \in TaskObj \ {o} : sync'[x] = sync[x]
  <2>1. sync'[o] = <<kind>> /\ \A x \in TaskObj \ {o} : sync'[x] = sync[x]
    BY <1>1, <1>3, <1>4 DEF Shape, EnvTypes
  <2>2. QED
    BY <2>1
<1>10. Waits'
  <2>1. \A x : AtBarrier(x)' <=> AtBarrier(x)
    BY <1>3 DEF AtBarrier, Bottom
  <2>2. \A x \in TaskObj \ {o} : prof'.task[x] = prof.task[x]
    BY <1>7 DEF Effect, Frame
  <2>3. \A x \in TaskObj : Type(x)' = Type(x) /\ Stacked(x)' = Stacked(x)
    BY <1>3, <1>7, <2>2 DEF Type, SameButFlags, Stacked
  <2>4. prof'.active = prof.active /\ prof.active \in BOOLEAN
    BY <1>1, <1>7 DEF Effect, Shape, ProfileOK
  <2>5. ASSUME NEW x \in TaskObj
        PROVE  /\ prof'.task[x].inBarrier = (prof.active /\ (sync'[x] # <<>> \/ AtBarrier(x)))
               /\ Len(sync'[x]) \in {0, 1}
               /\ sync'[x] # <<>> => Stacked(x) /\ Type(x) # "undeferred"
    <3>1. CASE x = o
      BY <1>3, <1>4, <1>7, <1>9, <2>4, <3>1
    <3>2. CASE x # o
      BY <1>1, <1>9, <2>2, <3>2 DEF Waits
    <3>3. QED
      BY <3>1, <3>2
  <2>6. QED
    BY <2>1, <2>3, <2>4, <2>5 DEF Waits
<1>11. Fresh'
  <2>1. team # NoTeam => Type(running[Master][1]) = "initial" /\ running[Master][1] \in TaskObj
    <3>1. SUFFICES ASSUME team # NoTeam PROVE Type(running[Master][1]) = "initial" /\ running[Master][1] \in TaskObj
      OBVIOUS
    <3>2. Len(running[Master]) \in Nat /\ Len(running[Master]) > 0 /\ Master \in Thread
      BY <1>1, <3>1, CurrentOK, TaskProfileAssumption DEF Shape, Teams
    <3>3. 1 \in 1..Len(running[Master])
      BY <3>2
    <3>4. Level(Master, 1) = {"initial"}
      BY DEF Level, Base
    <3>5. QED
      BY <1>1, <3>2, <3>3, <3>4, CurrentOK DEF Shape, Stacks
  <2>2. team # NoTeam => sync'[running[Master][1]] = sync[running[Master][1]]
    BY <1>4, <1>9, <2>1
  <2>3. team # NoTeam /\ where[Master] = "outside" => t # Master
    <3>1. SUFFICES ASSUME team # NoTeam, where[Master] = "outside", t = Master PROVE FALSE
      OBVIOUS
    <3>2. Len(running[t]) = 1
      BY <1>1, <3>1 DEF Shape, Teams
    <3>3. QED
      BY <1>4, <2>1, <3>1, <3>2
  <2>4. QED
    BY <1>1, <1>3, <1>7, <2>2, <2>3 DEF Fresh, Effect, Frame
<1>12. KeptRegions
  BY <1>7 DEF KeptRegions, Effect, Frame, SameButFlags
<1>13. KeptKeys
  <2>1. \A x \in TaskObj : x \in {o} =>
          SameOrigin(prof.task[x], prof'.task[x]) \/ Type(x)' = "none"
    BY <1>7 DEF SameOrigin, SameButFlags
  <2>2. QED
    BY <1>7, <2>1, SameKeys DEF Effect
<1>14. QED
  BY <1>12, <1>13, <1>7, <1>8, <1>10, <1>11 DEF Good, Kept

(* The invariant is kept by the end of a taskwait or taskgroup.             *)
LEMMA RegionEndGood ==
  ASSUME WellStructured, NEW U, NEW N \in [Region -> Nat], Good(U, N), Shape', Within(U),
         NEW t \in Thread, RegionEnd(t)
  PROVE  Good(U, N)' /\ Kept
<1>1. /\ Shape /\ OnlyTop /\ InUse /\ Started /\ Waits /\ Family
      /\ Bounds(U) /\ Inner(U) /\ Fresh /\ Balanced(N)
  BY DEF Good
<1>2. PICK o : o = Current(t)
  OBVIOUS
<1>3. /\ OnTop(t) /\ sync[o] # <<>>
      /\ Returns(t, SyncRegionEnd(prof, t, o))
      /\ sync' = [sync EXCEPT ![o] = Front(@)]
      /\ UNCHANGED <<running, queue, next, children, team, where>>
  BY <1>2 DEF RegionEnd
<1>4. /\ o \in TaskObj /\ Len(running[t]) \in Nat \ {0} /\ o = running[t][Len(running[t])]
      /\ Type(o) \in {"initial", "implicit", "explicit"} /\ Stacked(o)
      /\ Type(o) = "initial" => team = NoTeam
  <2>1. /\ Len(running[t]) \in Nat \ {0} /\ o = running[t][Len(running[t])] /\ o \in TaskObj
        /\ Type(o) \in Level(t, Len(running[t])) /\ (Type(o) = "initial" => team = NoTeam)
    BY <1>1, <1>2, <1>3, OnTopOK
  <2>2. Type(o) \in {"initial", "implicit", "explicit"}
    BY <1>1, <1>3, <2>1 DEF Level, Waits
  <2>3. Len(running[t]) \in 1..Len(running[t])
    BY <2>1
  <2>4. Stacked(o)
    BY <2>1, <2>3 DEF Stacked, OnStack
  <2>5. QED
    BY <2>1, <2>2, <2>4
<1>5. /\ ~AtBarrier(o) /\ Len(sync[o]) = 1
      /\ Len(sync'[o]) = 0 /\ sync'[o] = <<>> /\ \A x \in TaskObj \ {o} : sync'[x] = sync[x]
  <2>1. ~AtBarrier(o)
    BY <1>1, <1>3, Bottoms DEF AtBarrier, Shape, Stacks, Bottom
  <2>2. sync[o] \in Seq({"taskwait", "taskgroup"}) /\ sync'[o] = Front(sync[o])
        /\ \A x \in TaskObj \ {o} : sync'[x] = sync[x]
    BY <1>1, <1>3, <1>4 DEF Shape, EnvTypes
  <2>3. Len(sync[o]) \in {0, 1} /\ Len(sync[o]) # 0
    BY <1>1, <1>3, <1>4, <2>2, EmptySeq DEF Waits
  <2>4. Len(Front(sync[o])) = 0 /\ Front(sync[o]) \in Seq({"taskwait", "taskgroup"})
    BY <1>3, <2>2, <2>3, PopFacts DEF Front
  <2>5. sync'[o] = <<>>
    BY <2>2, <2>4, EmptySeq
  <2>6. QED
    BY <2>1, <2>2, <2>3, <2>4, <2>5
<1>6. prof.task[o].inBarrier = prof.active /\ (Type(o) = "explicit" => o \notin U)
  <2>1. prof.task[o].inBarrier = (prof.active /\ (sync[o] # <<>> \/ AtBarrier(o)))
    BY <1>1, <1>4 DEF Waits
  <2>2. prof.active \in BOOLEAN
    BY <1>1 DEF Shape, ProfileOK
  <2>3. sync'[o] # sync[o]
    BY <1>3, <1>5
  <2>4. QED
    BY <1>3, <2>1, <2>2, <2>3 DEF Within
<1>7. /\ Bounds(U)' /\ Started' /\ Balanced(N)'
      /\ Effect(t, {o}) /\ SameButFlags(prof.task[o], prof'.task[o])
      /\ ~prof'.task[o].inBarrier
  <2>1. Type(o) = "initial" => ~Resting(t)
    BY <1>4 DEF Resting
  <2>2. Len(running[t]) > 0
    BY <1>4
  <2>3. QED
    BY <1>2, <1>3, <1>4, <1>6, <2>1, <2>2, SyncEndKept
<1>8. OnlyTop' /\ InUse' /\ Family' /\ Inner(U)'
  <2>1. EnvTypes
    BY <1>1 DEF Shape
  <2>2. QED
    BY <1>1, <1>3, <1>4, <1>7, <2>1, SyncRest
<1>9. Waits'
  <2>1. \A x : AtBarrier(x)' <=> AtBarrier(x)
    BY <1>3 DEF AtBarrier, Bottom
  <2>2. \A x \in TaskObj \ {o} : prof'.task[x] = prof.task[x]
    BY <1>7 DEF Effect, Frame
  <2>3. \A x \in TaskObj : Type(x)' = Type(x) /\ Stacked(x)' = Stacked(x)
    BY <1>3, <1>7, <2>2 DEF Type, SameButFlags, Stacked
  <2>4. prof'.active = prof.active /\ prof.active \in BOOLEAN
    BY <1>1, <1>7 DEF Effect, Shape, ProfileOK
  <2>5. ASSUME NEW x \in TaskObj
        PROVE  /\ prof'.task[x].inBarrier = (prof.active /\ (sync'[x] # <<>> \/ AtBarrier(x)))
               /\ Len(sync'[x]) \in {0, 1}
               /\ sync'[x] # <<>> => Stacked(x) /\ Type(x) # "undeferred"
    <3>1. CASE x = o
      <4>1. prof'.task[o].inBarrier \in BOOLEAN
        BY <1>4, <1>7 DEF Effect, ProfileOK, Task
      <4>2. QED
        BY <1>5, <1>7, <3>1, <4>1
    <3>2. CASE x # o
      BY <1>1, <1>5, <2>2, <3>2 DEF Waits
    <3>3. QED
      BY <3>1, <3>2
  <2>6. QED
    BY <2>1, <2>3, <2>4, <2>5 DEF Waits
<1>10. Fresh'
  <2>1. team # NoTeam => Type(running[Master][1]) = "initial" /\ running[Master][1] \in TaskObj
    <3>1. SUFFICES ASSUME team # NoTeam PROVE Type(running[Master][1]) = "initial" /\ running[Master][1] \in TaskObj
      OBVIOUS
    <3>2. Len(running[Master]) \in Nat /\ Len(running[Master]) > 0 /\ Master \in Thread
      BY <1>1, <3>1, CurrentOK, TaskProfileAssumption DEF Shape, Teams
    <3>3. 1 \in 1..Len(running[Master])
      BY <3>2
    <3>4. Level(Master, 1) = {"initial"}
      BY DEF Level, Base
    <3>5. QED
      BY <1>1, <3>2, <3>3, <3>4, CurrentOK DEF Shape, Stacks
  <2>2. team # NoTeam => sync'[running[Master][1]] = sync[running[Master][1]]
    BY <1>4, <1>5, <2>1
  <2>3. team # NoTeam /\ where[Master] = "outside" => t # Master
    <3>1. SUFFICES ASSUME team # NoTeam, where[Master] = "outside", t = Master PROVE FALSE
      OBVIOUS
    <3>2. Len(running[t]) = 1
      BY <1>1, <3>1 DEF Shape, Teams
    <3>3. QED
      BY <1>4, <2>1, <3>1, <3>2
  <2>4. QED
    BY <1>1, <1>3, <1>7, <2>2, <2>3 DEF Fresh, Effect, Frame
<1>11. KeptRegions
  BY <1>7 DEF KeptRegions, Effect, Frame, SameButFlags
<1>12. KeptKeys
  <2>1. \A x \in TaskObj : x \in {o} =>
          SameOrigin(prof.task[x], prof'.task[x]) \/ Type(x)' = "none"
    BY <1>7 DEF SameOrigin, SameButFlags
  <2>2. QED
    BY <1>7, <2>1, SameKeys DEF Effect
<1>13. QED
  BY <1>11, <1>12, <1>7, <1>8, <1>9, <1>10 DEF Good, Kept

-----------------------------------------------------------------------------
(* Parallel regions *)

(* What an event that only measures leaves of the invariant.               *)
LEMMA MeasureRest ==
  ASSUME NEW U, Shape, OnlyTop, InUse, Started, Waits, Family, Bounds(U), Inner(U),
         NEW t \in Thread, NEW O, Effect(t, O),
         \A x \in TaskObj : SameTask(prof.task[x], prof'.task[x]),
         UNCHANGED <<running, queue, next, sync, children, where>>
  PROVE  OnlyTop' /\ InUse' /\ Started' /\ Waits' /\ Family' /\ Bounds(U)' /\ Inner(U)'
<1>1. \A x \in TaskObj :
        /\ Type(x)' = Type(x) /\ prof'.task[x].parentTask = prof.task[x].parentTask
        /\ prof'.task[x].isStarted = prof.task[x].isStarted
        /\ prof'.task[x].inBarrier = prof.task[x].inBarrier
        /\ prof'.task[x].profilingActive = prof.task[x].profilingActive
        /\ SameButFlags(prof.task[x], prof'.task[x])
  BY DEF SameTask, OnlyRegion, SameButFlags, Type
<1>2. /\ EnvTypes /\ prof'.active = prof.active
      /\ \A u : Bottom(u)' = Bottom(u)
      /\ \A x : (AtBarrier(x)' <=> AtBarrier(x)) /\ (Stacked(x)' <=> Stacked(x))
  BY DEF Shape, Effect, AtBarrier, Bottom, Stacked
<1>3. \A x \in TaskObj : Type(x) = "explicit" => prof.task[x].parentTask \in TaskObj
  BY DEF Shape, ProfileOK, Type
<1>4. \A u \in Thread : \A i \in 1..Len(running[u]) : running[u][i] \in TaskObj
  BY <1>2, CurrentOK
<1>5. OnlyTop'
  BY <1>1, <1>4 DEF OnlyTop
<1>6. InUse' /\ Started'
  BY <1>1, <1>2 DEF InUse, Started
<1>7. Waits'
  BY <1>1, <1>2 DEF Waits
<1>8. Family'
  BY <1>1, <1>2, <1>3 DEF Family
<1>9. Inner(U)'
  <2>1. SUFFICES ASSUME NEW x \in U
                 PROVE  /\ Type(x)' = "explicit" => x \notin queue'
                        /\ \A u \in Thread : \A i \in 1..Len(running[u]) :
                             running[u][i] = x /\ Type(x)' = "explicit" => i = Len(running[u])
    BY DEF Inner
  <2>2. CASE x \in TaskObj
    BY <1>1, <2>1, <2>2 DEF Inner
  <2>3. CASE x \notin TaskObj
    BY <1>2, <1>4, <2>3 DEF EnvTypes
  <2>4. QED
    BY <2>2, <2>3
<1>10. Bounds(U)'
  <2>1. PICK F : F = {}
    OBVIOUS
  <2>2. /\ \A x \in TaskObj \ F : SameButFlags(prof.task[x], prof'.task[x])
        /\ \A x \in TaskObj \ F : Type(x) = "explicit" => prof.task[x].parentTask \in TaskObj \ F
    BY <1>1, <1>3, <2>1
  <2>3. running' \in [Thread -> Seq(TaskObj)]
    BY <1>2 DEF EnvTypes
  <2>4. \A u \in Thread : \A i \in 1..Len(running'[u]) :
          running'[u][i] \in F \/ OnStack(running[u], running'[u][i])
    BY DEF OnStack
  <2>5. \A u \in Thread : \A i \in 1..Len(running'[u]) : running'[u][i] \notin F
    BY <2>1
  <2>6. QED
    BY <2>2, <2>3, <2>4, <2>5, BoundsKept
<1>11. QED
  BY <1>5, <1>6, <1>7, <1>8, <1>9, <1>10

(* A stack keeps its kind when its tasks keep theirs.                      *)
LEMMA SamePlain ==
  ASSUME NEW p, NEW q, NEW s, Plain(p, s),
         \A x \in TaskObj : q.task[x].Type = p.task[x].Type
  PROVE  Plain(q, s)
<1>1. s \in Seq(TaskObj)
  BY DEF Plain
<1>2. \A i \in 1..Len(s) : s[i] \in TaskObj
  BY <1>1, ElementOfSeq
<1>3. QED
  BY <1>2 DEF Plain

(* The invariant is kept by the begin of a parallel region.                 *)
LEMMA ParallelRegionBeginGood ==
  ASSUME WellStructured, NEW U, NEW N \in [Region -> Nat], Good(U, N), Shape', ParallelRegionBegin
  PROVE  Good(U, N)' /\ Kept
<1>1. /\ Shape /\ OnlyTop /\ InUse /\ Started /\ Waits /\ Family
      /\ Bounds(U) /\ Inner(U) /\ Fresh /\ Balanced(N)
  BY DEF Good
<1>2. PICK o : o = Current(Master)
  OBVIOUS
<1>3. /\ OnTop(Master) /\ Type(o) = "initial" /\ sync[o] = <<>>
      /\ prof' = ParallelBegin(prof, Master, o)
      /\ UNCHANGED <<running, queue, next, sync, children, where>>
  BY <1>2 DEF ParallelRegionBegin, InProgram, WellStructured
<1>4. /\ o \in TaskObj /\ Len(running[Master]) = 1 /\ o = running[Master][1] /\ team = NoTeam
      /\ Master \in Thread
  BY <1>1, <1>2, <1>3, InitialOnTop, TaskProfileAssumption
<1>5. /\ Plain(prof, running[Master]) /\ o = running[Master][Len(running[Master])]
      /\ Len(running[Master]) \in 1..Len(running[Master])
  <2>1. Len(running[Master]) > 0 /\ Type(o) # "undeferred"
    BY <1>3, <1>4
  <2>2. QED
    BY <1>1, <1>2, <1>4, <2>1, TopPlain
<1>6. ~prof.task[o].inBarrier
  <2>1. ~AtBarrier(o)
    BY <1>1, <1>3, Bottoms DEF AtBarrier
  <2>2. QED
    BY <1>1, <1>3, <1>4, <2>1 DEF Waits
<1>7. team' # NoTeam /\ Resting(Master)' /\ ~Resting(Master)
      /\ \A u \in Thread : u # Master => Resting(u)' = Resting(u)
  <2>1. team' = [codePtr |-> ParCode, parentTask |-> o]
    BY <1>2 DEF ParallelRegionBegin
  <2>2. ParCode # NoCode
    BY TaskProfileAssumption
  <2>3. team' # NoTeam
    BY <2>1, <2>2 DEF NoTeam
  <2>4. QED
    BY <1>4, <2>3 DEF Resting
<1> DEFINE s == running[Master]
<1>8. Books(prof, Master, ExcOf(prof, s, Resting(Master)), IncOf(prof, s), N) /\ ProfileOK(prof)
  BY <1>1, <1>4 DEF Balanced, Balance, Shape
<1>9. /\ Effect(Master, {}) /\ prof'.task = prof.task /\ Balance(Master, N)'
      /\ prof.active => Master \in prof'.now
  <2>1. CASE prof.active
    <3>1. ExcOf(prof, s, Resting(Master)) = o
      BY <1>5, <1>6, <1>7, <2>1, PlainBooks
    <3>2. PICK p, S : p = prof /\ S = IncOf(prof, s)
      OBVIOUS
    <3>3. Ready(p, Master, o)
      BY <1>1, <1>3, <1>4, <1>5, <2>1, <3>2, TaskReady
    <3>4. ProfileOK(p) /\ p.active /\ Books(p, Master, o, S, N)
      BY <1>8, <2>1, <3>1, <3>2
    <3>5. LET q == ParallelBegin(p, Master, o) IN
          Handler(p, q, Master, {}) /\ q.task = p.task /\ Master \in q.now
          /\ Books(q, Master, NoTask, S, N)
      BY <1>4, <3>3, <3>4, ParallelBeginBooks
    <3>6. /\ Handler(prof, prof', Master, {}) /\ prof'.task = prof.task /\ Master \in prof'.now
          /\ Books(prof', Master, NoTask, S, N)
      BY <1>3, <3>2, <3>5
    <3>7. Effect(Master, {}) /\ prof'.active
      BY <1>4, <1>8, <2>1, <3>6, DirectEffect DEF Handler
    <3>8. ExcOf(prof', s, TRUE) = NoTask /\ IncOf(prof', s) = S
      <4>1. Plain(prof', s)
        BY <1>5, <3>6, SamePlain
      <4>2. PICK rests : rests
        OBVIOUS
      <4>3. prof'.active /\ prof'.task[o].Type = "initial" /\ ~prof'.task[o].inBarrier
        BY <1>3, <1>6, <3>6, <3>7 DEF Type
      <4>4. ExcOf(prof', s, rests) = NoTask /\ IncOf(prof', s) = Under(s) \cup {o}
        BY <1>5, <4>1, <4>2, <4>3, PlainBooks
      <4>5. IncOf(prof, s) = Under(s) \cup {o}
        BY <1>5, <1>6, <2>1, PlainBooks
      <4>6. QED
        BY <3>2, <4>2, <4>4, <4>5 DEF ExcOf
    <3>9. Balance(Master, N)'
      BY <1>3, <1>7, <3>6, <3>8 DEF Balance
    <3>10. QED
      BY <3>6, <3>7, <3>9
  <2>2. CASE ~prof.active
    <3>1. prof' = prof
      BY <1>3, <2>2 DEF ParallelBegin
    <3>2. Effect(Master, {})
      BY <1>4, <1>8, <3>1, HandlerNone, DirectEffect
    <3>3. /\ ExcOf(prof, s, Resting(Master)) = NoTask /\ IncOf(prof, s) = {}
          /\ ExcOf(prof', s, Resting(Master)') = NoTask /\ IncOf(prof', s) = {}
      BY <2>2, <3>1, EmptyBooks
    <3>4. Balance(Master, N)'
      BY <1>3, <1>8, <3>1, <3>3 DEF Balance
    <3>5. QED
      BY <2>2, <3>1, <3>2, <3>4
  <2>3. QED
    BY <2>1, <2>2
<1>10. OnlyTop' /\ InUse' /\ Started' /\ Waits' /\ Family' /\ Bounds(U)' /\ Inner(U)'
  <2>1. \A x \in TaskObj : SameTask(prof.task[x], prof'.task[x])
    BY <1>9 DEF SameTask, OnlyRegion
  <2>2. QED
    BY <1>1, <1>3, <1>4, <1>9, <2>1, MeasureRest
<1>11. Fresh'
  BY <1>1, <1>3, <1>4, <1>9 DEF Fresh, Effect, Frame
<1>12. Balanced(N)'
  <2>1. ASSUME NEW u \in Thread, u # Master PROVE Balance(u, N)'
    <3>1. PICK O \in SUBSET TaskObj : O = {}
      OBVIOUS
    <3>2. QED
      BY <1>1, <1>3, <1>4, <1>7, <1>9, <2>1, <3>1, OthersBalance
  <2>2. QED
    BY <1>9, <2>1 DEF Balanced
<1>13. KeptRegions
  BY <1>9 DEF KeptRegions
<1>14. KeptKeys
  <2>1. \A x \in TaskObj : x \in {} =>
          SameOrigin(prof.task[x], prof'.task[x]) \/ Type(x)' = "none"
    BY <1>9
  <2>2. QED
    BY <1>9, <2>1, SameKeys DEF Effect
<1>15. QED
  BY <1>13, <1>14, <1>10, <1>11, <1>12 DEF Good, Kept

(* The invariant is kept by the end of a parallel region.                   *)
LEMMA ParallelRegionEndGood ==
  ASSUME NEW U, NEW N \in [Region -> Nat], Good(U, N), Shape', ParallelRegionEnd
  PROVE  Good(U, N)' /\ Kept
<1>1. /\ Shape /\ OnlyTop /\ InUse /\ Started /\ Waits /\ Family
      /\ Bounds(U) /\ Inner(U) /\ Fresh /\ Balanced(N)
  BY DEF Good
<1>2. PICK o : o = team.parentTask
  OBVIOUS
<1>3. /\ team # NoTeam /\ where[Master] = "outside" /\ Returns(Master, ParallelEnd(prof, Master, o))
      /\ team' = NoTeam
      /\ UNCHANGED <<running, queue, next, sync, children, where>>
  BY <1>2 DEF ParallelRegionEnd
<1>4. /\ Len(running[Master]) = 1 /\ o = running[Master][1] /\ Master \in Thread
  BY <1>1, <1>2, <1>3, TaskProfileAssumption DEF Shape, Teams
<1>5. /\ Type(o) = "initial" /\ o \in TaskObj /\ o = Current(Master) /\ sync[o] = <<>>
  <2>1. Len(running[Master]) > 0 /\ 1 \in 1..Len(running[Master])
    BY <1>4
  <2>2. Level(Master, 1) = {"initial"}
    BY DEF Level, Base
  <2>3. o \in TaskObj /\ o = Current(Master)
    BY <1>1, <1>4, <2>1, CurrentOK DEF Shape
  <2>4. Type(o) \in Level(Master, 1)
    BY <1>1, <1>4, <2>1 DEF Shape, Stacks
  <2>5. QED
    BY <1>1, <1>3, <1>4, <2>2, <2>3, <2>4 DEF Fresh
<1>6. /\ Plain(prof, running[Master]) /\ o = running[Master][Len(running[Master])]
      /\ Len(running[Master]) \in 1..Len(running[Master])
  <2>1. Len(running[Master]) > 0 /\ Type(o) # "undeferred"
    BY <1>4, <1>5
  <2>2. QED
    BY <1>1, <1>4, <1>5, <2>1, TopPlain
<1>7. ~prof.task[o].inBarrier
  <2>1. ~AtBarrier(o)
    BY <1>1, <1>5, Bottoms DEF AtBarrier
  <2>2. QED
    BY <1>1, <1>5, <2>1 DEF Waits
<1>8. ~Resting(Master)' /\ Resting(Master)
      /\ \A u \in Thread : u # Master => Resting(u)' = Resting(u)
  BY <1>3 DEF Resting
<1> DEFINE s == running[Master]
           q == ParallelEnd(prof, Master, o)
<1>9. Books(prof, Master, ExcOf(prof, s, Resting(Master)), IncOf(prof, s), N) /\ ProfileOK(prof)
  BY <1>1, <1>4 DEF Balanced, Balance, Shape
<1>10. /\ Effect(Master, {o}) /\ SameTask(prof.task[o], prof'.task[o]) /\ Balance(Master, N)'
  <2>1. CASE prof.active
    <3>1. Master \in prof.now
      BY <1>1, <1>3, <2>1 DEF Fresh
    <3>2. ExcOf(prof, s, Resting(Master)) = NoTask /\ IncOf(prof, s) = Under(s) \cup {o}
      <4>1. PICK rests : rests = Resting(Master)
        OBVIOUS
      <4>2. prof.task[o].Type = "initial" /\ rests
        BY <1>5, <1>8, <4>1 DEF Type
      <4>3. ExcOf(prof, s, rests) = NoTask /\ IncOf(prof, s) = Under(s) \cup {o}
        BY <1>6, <1>7, <2>1, <4>2, PlainBooks
      <4>4. QED
        BY <4>1, <4>3
    <3>3. PICK p, S : p = prof /\ S = IncOf(prof, s)
      OBVIOUS
    <3>4. 1 \in 1..Len(running[Master])
      BY <1>4
    <3>5. ProfileOK(p) /\ p.active /\ Books(p, Master, NoTask, S, N) /\ Master \in p.now
          /\ p.task[o].Type = "initial" /\ Bound(p, Master, o)
      BY <1>1, <1>4, <1>5, <1>9, <2>1, <3>1, <3>2, <3>3, <3>4 DEF Type, Bounds
    <3>6. LET r == ParallelEnd(p, Master, o) IN
          /\ Handler(p, r, Master, {o}) /\ Books(r, Master, o, S, N)
          /\ OnlyRegion(p.task[o], r.task[o]) /\ r.task[o].rData = p.task[o].rData
      BY <1>4, <1>5, <3>5, ParallelEndBooks
    <3>7. /\ Handler(prof, q, Master, {o}) /\ Books(q, Master, o, S, N)
          /\ SameTask(prof.task[o], q.task[o])
      BY <3>3, <3>6 DEF SameTask
    <3> HIDE DEF q
    <3>8. /\ Effect(Master, {o}) /\ prof'.task = q.task
          /\ \A u, e, Z, M : Books(q, u, e, Z, M) => Books(prof', u, e, Z, M)
      BY <1>3, <1>9, <3>7, ReturnsEffect DEF q
    <3>9. prof'.active /\ SameTask(prof.task[o], prof'.task[o]) /\ Books(prof', Master, o, S, N)
      BY <2>1, <3>7, <3>8 DEF Effect
    <3>10. ExcOf(prof', s, Resting(Master)') = o /\ IncOf(prof', s) = S
      <4>1. Plain(prof', s)
        <5>1. \A x \in TaskObj : prof'.task[x].Type = prof.task[x].Type
          BY <3>8, <3>9 DEF Effect, Frame, SameTask, OnlyRegion
        <5>2. QED
          BY <1>6, <5>1, SamePlain
      <4>2. PICK rests : rests = Resting(Master)'
        OBVIOUS
      <4>3. prof'.active /\ ~prof'.task[o].inBarrier /\ ~rests
        BY <1>7, <1>8, <3>9, <4>2 DEF SameTask, OnlyRegion
      <4>4. ExcOf(prof', s, rests) = o /\ IncOf(prof', s) = Under(s) \cup {o}
        BY <1>6, <4>1, <4>2, <4>3, PlainBooks
      <4>5. QED
        BY <3>2, <3>3, <4>2, <4>4
    <3>11. Balance(Master, N)'
      BY <1>3, <3>9, <3>10 DEF Balance
    <3>12. QED
      BY <3>8, <3>9, <3>11
  <2>2. CASE ~prof.active
    <3>1. q = prof
      BY <2>2 DEF ParallelEnd
    <3>2. Handler(prof, q, Master, {o})
      BY <1>9, <3>1, HandlerNone
    <3> HIDE DEF q
    <3>3. /\ Effect(Master, {o}) /\ prof'.task = q.task
          /\ \A u, e, Z, M : Books(q, u, e, Z, M) => Books(prof', u, e, Z, M)
      BY <1>3, <1>9, <3>2, ReturnsEffect DEF q
    <3>4. ~prof'.active /\ SameTask(prof.task[o], prof'.task[o])
      BY <2>2, <3>1, <3>3 DEF Effect, SameTask, OnlyRegion
    <3>5. /\ ExcOf(prof, s, Resting(Master)) = NoTask /\ IncOf(prof, s) = {}
          /\ ExcOf(prof', s, Resting(Master)') = NoTask /\ IncOf(prof', s) = {}
      BY <2>2, <3>4, EmptyBooks
    <3>6. Books(prof', Master, NoTask, {}, N)
      BY <1>9, <3>1, <3>3, <3>5
    <3>7. Balance(Master, N)'
      BY <1>3, <3>5, <3>6 DEF Balance
    <3>8. QED
      BY <3>3, <3>4, <3>7
  <2>3. QED
    BY <2>1, <2>2
<1>11. OnlyTop' /\ InUse' /\ Started' /\ Waits' /\ Family' /\ Bounds(U)' /\ Inner(U)'
  <2>1. \A x \in TaskObj : SameTask(prof.task[x], prof'.task[x])
    <3>1. \A x \in TaskObj \ {o} : prof'.task[x] = prof.task[x]
      BY <1>10 DEF Effect, Frame
    <3>2. QED
      BY <1>10, <3>1 DEF SameTask, OnlyRegion
  <2>2. QED
    BY <1>1, <1>3, <1>4, <1>10, <2>1, MeasureRest
<1>12. Fresh'
  BY <1>1, <1>3, <1>10 DEF Fresh, Effect, Frame
<1>13. Balanced(N)'
  <2>1. ASSUME NEW u \in Thread, u # Master PROVE Balance(u, N)'
    <3>1. PICK O \in SUBSET TaskObj : O = {o}
      BY <1>5
    <3>2. \A x \in O : ~OnStack(running[u], x)
      BY <1>1, <1>4, <2>1, <3>1, <1>6 DEF Shape, Placed, Apart, OnStack
    <3>3. Resting(u)' = Resting(u) /\ running'[u] = running[u] /\ Effect(Master, O)
      BY <1>3, <1>8, <1>10, <2>1, <3>1
    <3>4. QED
      BY <1>1, <1>4, <2>1, <3>2, <3>3, OthersBalance
  <2>2. QED
    BY <1>10, <2>1 DEF Balanced
<1>14. KeptRegions
  BY <1>10 DEF KeptRegions, Effect, Frame, SameTask
<1>15. KeptKeys
  <2>1. \A x \in TaskObj : x \in {o} =>
          SameOrigin(prof.task[x], prof'.task[x]) \/ Type(x)' = "none"
    BY <1>10 DEF SameOrigin, SameTask, OnlyRegion
  <2>2. QED
    BY <1>10, <2>1, SameKeys DEF Effect
<1>16. QED
  BY <1>14, <1>15, <1>11, <1>12, <1>13 DEF Good, Kept

-----------------------------------------------------------------------------
(* Begin and end of initial and implicit tasks *)

(* No task on a stack is free.                                             *)
LEMMA NotOnStack ==
  ASSUME Shape, NEW o, Type(o) = "none"
  PROVE  ~Stacked(o) /\ \A u \in Thread : ~OnStack(running[u], o)
<1>1. \A u \in Thread : \A i \in 1..Len(running[u]) : Type(running[u][i]) \in Level(u, i)
  BY DEF Shape, Stacks
<1>2. \A u, i : "none" \notin Level(u, i)
  BY DEF Level
<1>3. QED
  BY <1>1, <1>2 DEF Stacked, OnStack

(* A free object has no flags.                                             *)
LEMMA FreeObject ==
  ASSUME Shape, Started, Waits, NEW o \in free
  PROVE  /\ o \in TaskObj /\ Type(o) = "none" /\ sync[o] = <<>> /\ ~AtBarrier(o)
         /\ ~prof.task[o].inBarrier /\ ~prof.task[o].isStarted
         /\ \A u \in Thread : ~OnStack(running[u], o)
<1>1. o \in TaskObj /\ Type(o) = "none"
  BY DEF Shape, EnvTypes, Placed
<1>2. ~Stacked(o) /\ \A u \in Thread : ~OnStack(running[u], o)
  BY <1>1, NotOnStack
<1>3. sync[o] = <<>>
  BY <1>1, <1>2 DEF Waits
<1>4. ~AtBarrier(o)
  BY <1>1, Bottoms DEF AtBarrier
<1>5. QED
  BY <1>1, <1>2, <1>3, <1>4 DEF Waits, Started

(* No task but o changes its kind.                                         *)
OtherKinds(p, q, o) == \A x \in TaskObj \ {o} : q.task[x].Type = p.task[x].Type

(* The tasks on a stack.                                                   *)
AllOf(s) == {o \in TaskObj : OnStack(s, o)}

(* The tasks of a stack are those under the top and the top.                *)
LEMMA AllUnder ==
  ASSUME NEW s \in Seq(TaskObj)
  PROVE  /\ Len(s) = 0 => AllOf(s) = {}
         /\ Len(s) > 0 => AllOf(s) = Under(s) \cup {s[Len(s)]}
<1> DEFINE n == Len(s)
<1>1. n \in Nat /\ \A i \in 1..n : s[i] \in TaskObj
  BY LenProperties, ElementOfSeq
<1> HIDE DEF n
<1>2. AllOf(s) = {o \in TaskObj : \E i \in 1..n : s[i] = o}
  BY DEF AllOf, OnStack, n
<1>3. Under(s) = {o \in TaskObj : \E i \in 1..n - 1 : s[i] = o}
  BY DEF Under, n
<1>4. n > 0 => /\ n \in 1..n /\ \A i \in 1..n - 1 : i \in 1..n
               /\ \A i \in 1..n : i \in 1..n - 1 \/ i = n
  BY <1>1
<1>5. n = 0 => AllOf(s) = {}
  BY <1>2
<1>6. n > 0 => AllOf(s) = Under(s) \cup {s[n]}
  BY <1>1, <1>2, <1>3, <1>4
<1>7. QED
  BY <1>5, <1>6 DEF n

(* A plain stack after a push.                                             *)
LEMMA PushPlain ==
  ASSUME NEW p, NEW q, NEW r \in [Thread -> Seq(TaskObj)], NEW s, NEW t \in Thread,
         NEW o \in TaskObj, Pushes(r, s, t, o), Len(r[t]) = 0 \/ Plain(p, r[t]),
         ~OnStack(r[t], o), OtherKinds(p, q, o), q.task[o].Type # "undeferred"
  PROVE  /\ Plain(q, s[t]) /\ Len(s[t]) > 0 /\ s[t][Len(s[t])] = o
         /\ Under(s[t]) = AllOf(r[t])
<1> DEFINE n == Len(r[t])
           a == r[t]
           b == s[t]
<1>1. /\ a \in Seq(TaskObj) /\ b \in Seq(TaskObj) /\ n \in Nat
      /\ \A i \in 1..n : a[i] \in TaskObj
  <2>1. a \in Seq(TaskObj) /\ b \in Seq(TaskObj)
    BY DEF Pushes
  <2>2. QED
    BY <2>1, LenProperties, ElementOfSeq
<1>2. Len(b) = n + 1 /\ b[n + 1] = o /\ \A i \in 1..n : b[i] = a[i]
  BY DEF Pushes
<1>3. \A i \in 1..n : a[i] # o
  BY DEF OnStack
<1>4. n # 0 => /\ \A i \in 1..n : p.task[a[i]].Type # "undeferred"
               /\ \A i, j \in 1..n : a[i] = a[j] => i = j
  BY DEF Plain
<1> HIDE DEF n, a, b
<1>5. \A i \in 1..n + 1 : i \in 1..n \/ i = n + 1
  BY <1>1
<1>6. \A i \in 1..n : q.task[a[i]].Type # "undeferred"
  <2>1. CASE n = 0
    BY <2>1
  <2>2. CASE n # 0
    BY <1>1, <1>3, <1>4, <2>2 DEF OtherKinds
  <2>3. QED
    BY <2>1, <2>2
<1>7. \A i \in 1..n + 1 : q.task[b[i]].Type # "undeferred"
  BY <1>2, <1>5, <1>6
<1>8. \A i, j \in 1..n + 1 : b[i] = b[j] => i = j
  <2>1. CASE n = 0
    BY <2>1
  <2>2. CASE n # 0
    BY <1>2, <1>3, <1>4, <1>5, <2>2
  <2>3. QED
    BY <2>1, <2>2
<1>9. Plain(q, b) /\ Len(b) > 0 /\ b[Len(b)] = o
  BY <1>1, <1>2, <1>7, <1>8 DEF Plain
<1>10. Under(b) = {x \in TaskObj : \E i \in 1..n : a[i] = x}
  <2>1. Len(b) - 1 = n
    BY <1>1, <1>2
  <2>2. QED
    BY <1>2, <2>1 DEF Under
<1>11. Under(b) = AllOf(a)
  BY <1>10 DEF AllOf, OnStack, n, a
<1>12. QED
  BY <1>9, <1>11 DEF n, a, b

(* ... and after a pop.                                                    *)
Popped(a, b) ==
  /\ b \in Seq(TaskObj) /\ Len(b) = Len(a) - 1 /\ \A i \in 1..Len(a) - 1 : b[i] = a[i]

(* A plain stack stays plain without its last task.                         *)
LEMMA PopPlain ==
  ASSUME NEW p, NEW q, NEW a, NEW b, Popped(a, b), Plain(p, a), NEW o, o = a[Len(a)],
         NEW x, x = a[Len(a) - 1], Len(a) > 1, OtherKinds(p, q, o)
  PROVE  Plain(q, b) /\ Len(b) > 0 /\ b[Len(b)] = x /\ Under(a) = AllOf(b)
<1> DEFINE n == Len(a)
<1>1. /\ a \in Seq(TaskObj) /\ b \in Seq(TaskObj) /\ n \in Nat
      /\ \A i \in 1..n : a[i] \in TaskObj
  <2>1. a \in Seq(TaskObj) /\ b \in Seq(TaskObj)
    BY DEF Popped, Plain
  <2>2. QED
    BY <2>1, LenProperties, ElementOfSeq
<1>2. Len(b) = n - 1 /\ n > 1 /\ (\A i \in 1..n - 1 : b[i] = a[i]) /\ o = a[n] /\ x = a[n - 1]
  BY DEF Popped
<1>3. Len(a) = n
  OBVIOUS
<1>4. /\ \A i \in 1..n : p.task[a[i]].Type # "undeferred"
      /\ \A i, j \in 1..n : a[i] = a[j] => i = j
  BY DEF Plain
<1>5. \A y \in TaskObj \ {a[n]} : q.task[y].Type = p.task[y].Type
  BY DEF OtherKinds
<1> HIDE DEF n
<1>6. \A i \in 1..n - 1 : i \in 1..n /\ i # n
  BY <1>1
<1>7. n \in 1..n /\ n - 1 \in 1..n - 1
  BY <1>1, <1>2
<1>8. \A i \in 1..n - 1 : a[i] # a[n] /\ a[i] \in TaskObj
  BY <1>1, <1>4, <1>6, <1>7
<1>9. \A i \in 1..n - 1 : q.task[b[i]].Type # "undeferred"
  BY <1>2, <1>4, <1>5, <1>6, <1>8
<1>10. \A i, j \in 1..n - 1 : b[i] = b[j] => i = j
  BY <1>2, <1>4, <1>6
<1>11. Plain(q, b) /\ Len(b) > 0 /\ b[Len(b)] = x
  BY <1>1, <1>2, <1>7, <1>9, <1>10 DEF Plain
<1>12. Under(a) = AllOf(b)
  BY <1>2, <1>3 DEF Under, AllOf, OnStack
<1>13. QED
  BY <1>11, <1>12

(* The stack of the thread that pops loses its last task.                   *)
LEMMA PopPopped ==
  ASSUME NEW r, NEW s, NEW t \in Thread, Pops(r, s, t)
  PROVE  Popped(r[t], s[t])
BY DEF Pops, Popped

(* The tasks that are left when the last one is gone.                      *)
LEMMA PoppedTasks ==
  ASSUME Shape, NEW t \in Thread, Len(running[t]) > 0, Pops(running, running', t),
         NEW o, o = running[t][Len(running[t])]
  PROVE  /\ \A u \in Thread : \A i \in 1..Len(running'[u]) :
              /\ i \in 1..Len(running[u]) /\ running'[u][i] = running[u][i]
              /\ running'[u][i] \in TaskObj \ {o} /\ (u = t => i # Len(running[t]))
         /\ o \in TaskObj /\ Len(running[t]) \in 1..Len(running[t])
         /\ \A i \in 1..Len(running[t]) : i # Len(running[t]) =>
              i \in 1..Len(running'[t]) /\ running'[t][i] = running[t][i]
<1>1. EnvTypes /\ running \in [Thread -> Seq(TaskObj)] /\ Apart(running)
  BY DEF Shape, EnvTypes, Placed
<1>2. \A u \in Thread : \A i \in 1..Len(running'[u]) :
        /\ i \in 1..Len(running[u]) /\ running'[u][i] = running[u][i]
        /\ u = t => i # Len(running[t])
  <2>1. PICK k, r : k = running' /\ r = running
    OBVIOUS
  <2>2. Pops(r, k, t) /\ r \in [Thread -> Seq(TaskObj)] /\ Len(r[t]) > 0
    BY <1>1, <2>1
  <2>3. \A u \in Thread : \A i \in 1..Len(k[u]) :
           /\ i \in 1..Len(r[u]) /\ k[u][i] = r[u][i]
           /\ u = t => i # Len(r[t])
    BY <2>2, PopElements
  <2>4. QED
    BY <2>1, <2>3
<1>3. /\ Len(running[t]) \in 1..Len(running[t])
      /\ \A i \in 1..Len(running[t]) : i # Len(running[t]) =>
           i \in 1..Len(running'[t]) /\ running'[t][i] = running[t][i]
  <2>1. PICK n : n = Len(running[t])
    OBVIOUS
  <2>2. n \in Nat /\ n > 0 /\ Len(running'[t]) = n - 1
        /\ \A i \in 1..n - 1 : running'[t][i] = running[t][i]
    BY <1>1, <2>1, CurrentOK DEF Pops
  <2>3. n \in 1..n /\ \A i \in 1..n : i # n => i \in 1..n - 1
    BY <2>2
  <2>4. QED
    BY <2>1, <2>2, <2>3
<1>4. \A u \in Thread : \A i \in 1..Len(running'[u]) : running'[u][i] \in TaskObj \ {o}
  <2>1. SUFFICES ASSUME NEW u \in Thread, NEW i \in 1..Len(running'[u])
                 PROVE  running'[u][i] \in TaskObj \ {o}
    OBVIOUS
  <2>2. i \in 1..Len(running[u]) /\ running'[u][i] = running[u][i] /\ running[u][i] \in TaskObj
    BY <1>1, <1>2, CurrentOK
  <2>3. running[u][i] = o => u = t /\ i = Len(running[t])
    BY <1>1, <1>3, <2>2 DEF Apart
  <2>4. QED
    BY <1>2, <2>2, <2>3
<1>5. o \in TaskObj
  BY <1>1, <1>3, CurrentOK
<1>6. QED
  BY <1>2, <1>3, <1>4, <1>5

(* What the begin of an initial or implicit task leaves of the invariant.  *)
LEMMA BeginRest ==
  ASSUME NEW U, Shape, OnlyTop, InUse, Started, Waits, Family, Bounds(U), Inner(U),
         NEW t \in Thread, NEW o \in free, Effect(t, {o}), Pushes(running, running', t, o),
         \A i \in 1..Len(running[t]) : Type(running[t][i]) = "initial",
         where[t] = "outside", where'[t] \notin {"barrier", "released", "leaving"},
         \A u \in Thread : u # t => where'[u] = where[u],
         UNCHANGED <<queue, next, sync, children>>,
         Type(o)' \in {"initial", "implicit"}, Bound(prof', t, o),
         prof'.task[o].profilingActive = prof.active, prof'.task[o].isStarted = prof.active,
         ~prof'.task[o].inBarrier
  PROVE  OnlyTop' /\ InUse' /\ Started' /\ Waits' /\ Family' /\ Bounds(U)' /\ Inner(U)'
<1>1. /\ EnvTypes /\ ProfileOK(prof) /\ ProfileOK(prof') /\ prof'.active = prof.active
      /\ running \in [Thread -> Seq(TaskObj)] /\ running' \in [Thread -> Seq(TaskObj)]
      /\ \A x \in TaskObj \ {o} : prof'.task[x] = prof.task[x]
  BY DEF Shape, EnvTypes, Effect, Frame, Pushes
<1>2. /\ o \in TaskObj /\ Type(o) = "none" /\ sync[o] = <<>> /\ ~AtBarrier(o)
      /\ \A u \in Thread : ~OnStack(running[u], o)
  BY FreeObject
<1>3. \A u \in Thread : \A i \in 1..Len(running'[u]) :
        \/ i \in 1..Len(running[u]) /\ running'[u][i] = running[u][i]
        \/ u = t /\ i = Len(running[t]) + 1 /\ running'[u][i] = o
  <2>1. PICK k, r : k = running' /\ r = running
    OBVIOUS
  <2>2. Pushes(r, k, t, o) /\ r \in [Thread -> Seq(TaskObj)]
    BY <1>1, <2>1
  <2>3. \A u \in Thread : \A i \in 1..Len(k[u]) :
          \/ i \in 1..Len(r[u]) /\ k[u][i] = r[u][i]
          \/ u = t /\ i = Len(r[t]) + 1 /\ k[u][i] = o
    BY <2>2, PushElements
  <2>4. QED
    BY <2>1, <2>3
<1>4. \A u \in Thread : \A i \in 1..Len(running[u]) : running[u][i] \in TaskObj \ {o}
  BY <1>1, <1>2, CurrentOK DEF OnStack
<1>5. \A x \in TaskObj \ {o} : Type(x)' = Type(x)
  BY <1>1 DEF Type
<1>6. \A x \in TaskObj \ {o} : Type(x) = "explicit" => prof.task[x].parentTask \in TaskObj \ {o}
  BY <1>1, <1>2 DEF Family, ProfileOK, Type
<1>7. \A u \in Thread : u # t => running'[u] = running[u]
  BY DEF Pushes
<1>8. \A u \in Thread : where'[u] \in {"barrier", "released", "leaving"} =>
        u # t /\ where[u] \in {"barrier", "released", "leaving"} /\ where'[u] = where[u]
        /\ Bottom(u)' = Bottom(u)
  BY <1>7 DEF Bottom
<1>9. \A u \in Thread : where[u] \in {"barrier", "released"} =>
        where'[u] = where[u] /\ Bottom(u)' = Bottom(u)
  BY <1>7 DEF Bottom
<1>10. \A x : AtBarrier(x)' <=> AtBarrier(x)
  BY <1>8, <1>9 DEF AtBarrier
<1>11. Stacked(o)' /\ \A x : Stacked(x) => Stacked(x)'
  <2>1. \A i \in 1..Len(running[t]) : running'[t][i] = running[t][i]
    BY DEF Pushes
  <2>2. Len(running[t]) \in Nat /\ Len(running'[t]) = Len(running[t]) + 1
        /\ running'[t][Len(running[t]) + 1] = o
    BY <1>1, CurrentOK DEF Pushes
  <2>3. Len(running[t]) + 1 \in 1..Len(running'[t])
        /\ \A i \in 1..Len(running[t]) : i \in 1..Len(running'[t])
    BY <2>2
  <2>4. OnStack(running'[t], o) /\ \A x : OnStack(running[t], x) => OnStack(running'[t], x)
    BY <2>1, <2>2, <2>3 DEF OnStack
  <2>5. QED
    BY <1>7, <2>4 DEF Stacked
<1>12. OnlyTop'
  <2>1. SUFFICES ASSUME NEW u \in Thread, NEW i \in 1..Len(running'[u]),
                        prof'.task[running'[u][i]].Type = "undeferred"
                 PROVE  i = Len(running'[u]) /\ next[u] = NoTask
    BY DEF OnlyTop, Type
  <2>2. i \in 1..Len(running[u]) /\ running'[u][i] = running[u][i]
    <3>1. prof'.task[o].Type # "undeferred"
      BY DEF Type
    <3>2. QED
      BY <1>3, <2>1, <3>1
  <2>3. Type(running[u][i]) = "undeferred"
    BY <1>4, <1>5, <2>1, <2>2 DEF Type
  <2>4. u # t
    BY <2>2, <2>3
  <2>5. QED
    BY <1>7, <2>2, <2>3, <2>4 DEF OnlyTop
<1>13. InUse'
  BY <1>2, <1>5, <1>11 DEF InUse
<1>14. Started'
  BY <1>1, <1>2, <1>5 DEF Started
<1>15. Waits'
  <2>1. ASSUME NEW x \in TaskObj
        PROVE  /\ prof'.task[x].inBarrier = (prof.active /\ (sync[x] # <<>> \/ AtBarrier(x)))
               /\ Len(sync[x]) \in {0, 1}
               /\ sync[x] # <<>> => Stacked(x)' /\ Type(x)' # "undeferred"
    <3>1. CASE x = o
      <4>1. prof'.task[o].inBarrier \in BOOLEAN
        BY <1>1, <1>2 DEF ProfileOK, Task
      <4>2. QED
        BY <1>2, <3>1, <4>1 DEF Waits
    <3>2. CASE x # o
      BY <1>1, <1>5, <1>11, <3>2 DEF Waits
    <3>3. QED
      BY <3>1, <3>2
  <2>2. QED
    BY <1>1, <1>10, <2>1 DEF Waits
<1>16. Family'
  <2>1. SUFFICES ASSUME NEW x \in TaskObj, Type(x)' = "explicit"
                 PROVE  LET y == prof'.task[x].parentTask IN
                        /\ y # x /\ y \notin queue /\ x \in children[y]
                        /\ prof'.task[y].Type \in {"implicit", "explicit"}
                        /\ \A u \in Thread : where'[u] \in {"released", "leaving"} => y # Bottom(u)'
    BY DEF Family, Type
  <2>2. x # o /\ Type(x) = "explicit" /\ prof'.task[x].parentTask = prof.task[x].parentTask
    BY <1>1, <1>5, <2>1
  <2>3. PICK y \in TaskObj \ {o} : y = prof.task[x].parentTask
    BY <1>6, <2>2
  <2>4. /\ y # x /\ y \notin queue /\ x \in children[y] /\ Type(y) \in {"implicit", "explicit"}
        /\ \A u \in Thread : where[u] \in {"released", "leaving"} => y # Bottom(u)
    BY <2>2, <2>3 DEF Family
  <2>5. QED
    BY <1>5, <1>8, <2>2, <2>3, <2>4 DEF Type
<1>17. Inner(U)'
  <2>1. SUFFICES ASSUME NEW x \in U, Type(x)' = "explicit"
                 PROVE  /\ x \notin queue
                        /\ \A u \in Thread : \A i \in 1..Len(running'[u]) :
                             running'[u][i] = x => i = Len(running'[u])
    BY DEF Inner
  <2>2. CASE x \notin TaskObj
    <3>1. x \notin queue
      BY <1>1, <2>2 DEF EnvTypes
    <3>2. \A u \in Thread : \A i \in 1..Len(running'[u]) : running'[u][i] # x
      BY <1>2, <1>3, <1>4, <2>2
    <3>3. QED
      BY <3>1, <3>2
  <2>3. CASE x \in TaskObj
    <3>1. x # o /\ Type(x) = "explicit"
      BY <1>5, <2>1, <2>3
    <3>2. ASSUME NEW u \in Thread, NEW i \in 1..Len(running'[u]), running'[u][i] = x
          PROVE  i = Len(running'[u])
      <4>1. i \in 1..Len(running[u]) /\ running[u][i] = x
        BY <1>3, <3>1, <3>2
      <4>2. u # t
        BY <3>1, <4>1
      <4>3. QED
        BY <1>7, <3>1, <4>1, <4>2 DEF Inner
    <3>3. QED
      BY <3>1, <3>2 DEF Inner
  <2>4. QED
    BY <2>2, <2>3
<1>18. Bounds(U)'
  <2>1. PICK F : F = {o}
    OBVIOUS
  <2>2. /\ \A x \in TaskObj \ F : SameButFlags(prof.task[x], prof'.task[x])
        /\ \A x \in TaskObj \ F : Type(x) = "explicit" => prof.task[x].parentTask \in TaskObj \ F
    BY <1>1, <1>6, <2>1 DEF SameButFlags
  <2>3. \A u \in Thread : \A i \in 1..Len(running'[u]) :
          running'[u][i] \in F \/ OnStack(running[u], running'[u][i])
    BY <1>3, <2>1 DEF OnStack
  <2>4. ASSUME NEW u \in Thread, NEW i \in 1..Len(running'[u]), running'[u][i] \in F
        PROVE  running'[u][i] = o /\ u = t
    BY <1>3, <1>4, <2>1, <2>4
  <2>5. prof'.task[o].Type \in {"initial", "implicit"}
    BY DEF Type
  <2>6. \A u \in Thread : \A i \in 1..Len(running'[u]) : running'[u][i] \in F =>
           LET y == running'[u][i] IN
           /\ prof'.task[y].Type \in {"initial", "implicit"} => Bound(prof', u, y)
           /\ prof'.task[y].Type = "explicit" /\ prof'.active =>
                Bound(prof', u, y) /\ KeyHolds(prof', y)
    BY <2>4, <2>5
  <2>7. QED
    BY <1>1, <2>2, <2>3, <2>6, BoundsKept
<1>19. QED
  BY <1>12, <1>13, <1>14, <1>15, <1>16, <1>17, <1>18

(* The measurement of an initial or implicit task begins on a stack none   *)
(* of whose tasks executes.                                                *)
LEMMA BeginBalance ==
  ASSUME NEW N \in [Region -> Nat], Shape, Started, Waits, Balanced(N),
         NEW t \in Thread, NEW o \in free, NEW num, NEW type \in ImplicitType,
         NEW data \in ParallelData, prof.active => num # 0 \/ type = "initial" \/ t \in prof.now,
         Returns(t, ImplicitTaskBegin(prof, t, num, o, type, data)),
         Pushes(running, running', t, o),
         \/ Len(running[t]) = 0
         \/ /\ Plain(prof, running[t]) /\ Type(running[t][Len(running[t])]) = "initial"
            /\ ~prof.task[running[t][Len(running[t])]].inBarrier /\ Resting(t),
         type = "initial" => ~Resting(t)'
  PROVE  /\ Effect(t, {o}) /\ Balance(t, N)' /\ Type(o)' = type /\ Bound(prof', t, o)
         /\ prof'.task[o].profilingActive = prof.active /\ prof'.task[o].isStarted = prof.active
         /\ ~prof'.task[o].inBarrier /\ RegionKey(prof', o) = Key(prof, data.codePtr, ParentRegion(prof, data))
<1> DEFINE q == ImplicitTaskBegin(prof, t, num, o, type, data)
           s == running[t]
           z == running'[t]
<1>1. /\ o \in TaskObj /\ Type(o) = "none" /\ ~prof.task[o].inBarrier /\ ~prof.task[o].isStarted
      /\ ~OnStack(s, o)
  BY FreeObject
<1>2. /\ ProfileOK(prof) /\ Books(prof, t, ExcOf(prof, s, Resting(t)), IncOf(prof, s), N)
      /\ EnvTypes /\ Len(s) \in Nat
  BY CurrentOK DEF Shape, Balanced, Balance
<1>3. ExcOf(prof, s, Resting(t)) = NoTask /\ o \notin IncOf(prof, s)
  <2>1. CASE Len(s) = 0
    BY <2>1, EmptyBooks
  <2>2. CASE Len(s) # 0
    <3>1. PICK rests : rests = Resting(t)
      OBVIOUS
    <3>2. Plain(prof, s) /\ prof.task[s[Len(s)]].Type = "initial" /\ rests
      BY <2>2, <3>1 DEF Type
    <3>3. ExcOf(prof, s, rests) = NoTask
      BY <3>2, PlainBooks DEF ExcOf
    <3>4. prof.task[s[1]].Type # "undeferred"
      <4>1. Len(s) > 0
        BY <1>2, <2>2
      <4>2. QED
        BY <4>1, BottomKind DEF Type
    <3>5. \A x \in IncOf(prof, s) : OnStack(s, x)
      BY <1>2, <3>4, BooksOnStack
    <3>6. QED
      BY <1>1, <3>1, <3>3, <3>5
  <2>3. QED
    BY <2>1, <2>2
<1>4. PICK p, S : p = prof /\ S = IncOf(prof, s)
  OBVIOUS
<1>5. /\ ProfileOK(p) /\ Books(p, t, NoTask, S, N) /\ o \notin S
      /\ p.active => num # 0 \/ type = "initial" \/ t \in p.now
      /\ ~p.task[o].isStarted /\ ~p.task[o].inBarrier
  BY <1>1, <1>2, <1>3, <1>4
<1>6. LET r == ImplicitTaskBegin(p, t, num, o, type, data)
          x == r.task[o]
      IN
      /\ Handler(p, r, t, {o})
      /\ x.Type = type /\ x.codePtr = data.codePtr /\ x.parentTask = data.parentTask
      /\ x.profilingActive = p.active /\ x.isStarted = p.active /\ ~x.inBarrier
      /\ Bound(r, t, o)
      /\ RegionKey(r, o) = Key(p, data.codePtr, ParentRegion(p, data))
      /\ p.active => Books(r, t, o, S \cup {o}, N)
      /\ ~p.active => Books(r, t, NoTask, S, N)
  BY <1>1, <1>5, ImplicitTaskBeginBooks
<1>7. /\ Handler(prof, q, t, {o})
      /\ q.task[o].Type = type /\ q.task[o].profilingActive = prof.active
      /\ q.task[o].isStarted = prof.active /\ ~q.task[o].inBarrier
      /\ Bound(q, t, o) /\ RegionKey(q, o) = Key(prof, data.codePtr, ParentRegion(prof, data))
      /\ prof.active => Books(q, t, o, S \cup {o}, N)
      /\ ~prof.active => Books(q, t, NoTask, S, N)
  BY <1>4, <1>6
<1> HIDE DEF q
<1>8. /\ Effect(t, {o}) /\ prof'.task = q.task /\ prof'.exc = q.exc /\ prof'.regions = q.regions
      /\ \A u, e, Z, M : Books(q, u, e, Z, M) => Books(prof', u, e, Z, M)
  BY <1>2, <1>7, ReturnsEffect DEF q
<1>9. Bound(prof', t, o) /\ Type(o)' = type
  BY <1>7, <1>8 DEF Bound, Type
<1>10. prof'.active = prof.active /\ \A x \in TaskObj \ {o} : prof'.task[x] = prof.task[x]
  BY <1>8 DEF Effect, Frame
<1>11. Balance(t, N)'
  <2>1. CASE ~prof.active
    <3>1. ~prof'.active
      BY <1>10, <2>1
    <3>2. ExcOf(prof', z, Resting(t)') = NoTask /\ IncOf(prof', z) = {} /\ S = {}
      BY <1>4, <2>1, <3>1, EmptyBooks
    <3>3. QED
      BY <1>7, <1>8, <2>1, <3>2 DEF Balance
  <2>2. CASE prof.active
    <3>1. type \in {"initial", "implicit"}
      BY DEF ImplicitType
    <3>2. /\ Plain(prof', z) /\ z[Len(z)] = o
          /\ Under(z) = AllOf(s)
      <4>1. \A x \in TaskObj \ {o} : prof'.task[x].Type = prof.task[x].Type
        BY <1>10
      <4>2. prof'.task[o].Type # "undeferred"
        BY <1>9, <3>1 DEF Type
      <4>3. PICK was, r, k, x : was = prof /\ r = running /\ k = running' /\ x = prof'
        OBVIOUS
      <4>4. r \in [Thread -> Seq(TaskObj)] /\ Pushes(r, k, t, o)
        BY <1>2, <4>3 DEF EnvTypes
      <4>5. /\ Len(r[t]) = 0 \/ Plain(was, r[t])
            /\ ~OnStack(r[t], o) /\ x.task[o].Type # "undeferred"
            /\ OtherKinds(was, x, o) /\ o \in TaskObj
        BY <1>1, <4>1, <4>2, <4>3 DEF OtherKinds
      <4>6. /\ Plain(x, k[t]) /\ k[t][Len(k[t])] = o
            /\ Under(k[t]) = AllOf(r[t])
        BY <4>4, <4>5, PushPlain
      <4>7. QED
        BY <4>3, <4>6
    <3>3. S = Under(z)
      <4>1. /\ Len(s) = 0 => AllOf(s) = {}
            /\ Len(s) > 0 => AllOf(s) = Under(s) \cup {s[Len(s)]}
        BY <1>2, AllUnder DEF EnvTypes
      <4>2. CASE Len(s) = 0
        BY <1>4, <3>2, <4>1, <4>2, EmptyBooks
      <4>3. CASE Len(s) # 0
        <5>1. Len(s) > 0 /\ Plain(prof, s) /\ ~prof.task[s[Len(s)]].inBarrier
          BY <1>2, <4>3
        <5>2. IncOf(prof, s) = Under(s) \cup {s[Len(s)]}
          BY <2>2, <5>1, PlainBooks
        <5>3. QED
          BY <1>4, <3>2, <4>1, <5>1, <5>2
      <4>4. QED
        BY <4>2, <4>3
    <3>4. PICK rests : rests = Resting(t)'
      OBVIOUS
    <3>5. prof'.active /\ ~prof'.task[o].inBarrier /\ ~(rests /\ prof'.task[o].Type = "initial")
      BY <1>7, <1>8, <1>9, <1>10, <2>2, <3>4 DEF Type
    <3>6. ExcOf(prof', z, rests) = o /\ IncOf(prof', z) = Under(z) \cup {o}
      BY <3>2, <3>5, PlainBooks
    <3>7. Books(prof', t, o, S \cup {o}, N)
      BY <1>7, <1>8, <2>2
    <3>8. QED
      BY <3>3, <3>4, <3>6, <3>7 DEF Balance
  <2>3. QED
    BY <2>1, <2>2
<1>12. RegionKey(prof', o) = Key(prof, data.codePtr, ParentRegion(prof, data))
  BY <1>7, <1>8 DEF RegionKey
<1>13. QED
  BY <1>7, <1>8, <1>9, <1>11, <1>12

(* The invariant is kept by the begin of the initial task.                  *)
LEMMA InitialTaskBeginGood ==
  ASSUME NEW U, NEW N \in [Region -> Nat], Good(U, N), Shape', InitialTaskBegin
  PROVE  Good(U, N)' /\ Kept
<1>1. /\ Shape /\ OnlyTop /\ InUse /\ Started /\ Waits /\ Family
      /\ Bounds(U) /\ Inner(U) /\ Fresh /\ Balanced(N) /\ Master \in Thread
  BY TaskProfileAssumption DEF Good
<1>2. PICK o \in free :
        /\ running[Master] = <<>>
        /\ Returns(Master, ImplicitTaskBegin(prof, Master, 0, o, "initial", NoTeam))
        /\ running' = [running EXCEPT ![Master] = <<o>>]
        /\ UNCHANGED <<queue, next, sync, children, team, where>>
  BY DEF InitialTaskBegin
<1>3. o \in TaskObj /\ EnvTypes
  BY <1>1 DEF Shape, EnvTypes
<1>4. Len(running[Master]) = 0 /\ Pushes(running, running', Master, o)
  <2>1. <<o>> = Append(running[Master], o)
    BY <1>2
  <2>2. running' = [running EXCEPT ![Master] = Append(@, o)]
    BY <1>1, <1>2, <1>3, <2>1 DEF EnvTypes
  <2>3. running \in [Thread -> Seq(TaskObj)] /\ Master \in Thread /\ o \in TaskObj
    BY <1>1, <1>3 DEF EnvTypes
  <2>4. Pushes(running, running', Master, o)
    BY <2>2, <2>3, PushOK
  <2>5. Len(running[Master]) = 0
    BY <1>2
  <2>6. QED
    BY <2>4, <2>5
<1>5. where[Master] = "outside" /\ team = NoTeam
  <2>1. \A n \in {1, 2} : ~(0 >= n)
    OBVIOUS
  <2>2. where[Master] = "outside"
    BY <1>1, <1>4, <2>1 DEF Shape, Stacks, Base
  <2>3. QED
    BY <1>1, <1>4, <2>2 DEF Shape, Teams
<1>6. /\ Effect(Master, {o}) /\ Balance(Master, N)' /\ Type(o)' = "initial"
      /\ Bound(prof', Master, o)
      /\ prof'.task[o].profilingActive = prof.active /\ prof'.task[o].isStarted = prof.active
      /\ ~prof'.task[o].inBarrier /\ RegionKey(prof', o) = Key(prof, NoTeam.codePtr, ParentRegion(prof, NoTeam))
  <2>1. PICK type \in ImplicitType, data \in ParallelData, num \in {0} : type = "initial" /\ data = NoTeam /\ num = 0
    BY DEF ImplicitType, ParallelData
  <2>2. Returns(Master, ImplicitTaskBegin(prof, Master, num, o, type, data))
    BY <1>2, <2>1
  <2>3. type = "initial" => ~Resting(Master)'
    BY <1>2, <1>5 DEF Resting
  <2>4. /\ Effect(Master, {o}) /\ Balance(Master, N)' /\ Type(o)' = type /\ Bound(prof', Master, o)
        /\ prof'.task[o].profilingActive = prof.active /\ prof'.task[o].isStarted = prof.active
        /\ ~prof'.task[o].inBarrier /\ RegionKey(prof', o) = Key(prof, data.codePtr, ParentRegion(prof, data))
    BY <1>1, <1>4, <2>1, <2>2, <2>3, BeginBalance
  <2>5. QED
    BY <2>1, <2>4
<1>7. OnlyTop' /\ InUse' /\ Started' /\ Waits' /\ Family' /\ Bounds(U)' /\ Inner(U)'
  <2>1. \A i \in 1..Len(running[Master]) : Type(running[Master][i]) = "initial"
    BY <1>4
  <2>2. where'[Master] \notin {"barrier", "released", "leaving"}
    BY <1>2, <1>5
  <2>3. Type(o)' \in {"initial", "implicit"}
    BY <1>6
  <2>4. \A u \in Thread : u # Master => where'[u] = where[u]
    BY <1>2
  <2>5. QED
    BY <1>1, <1>2, <1>4, <1>5, <1>6, <2>1, <2>2, <2>3, <2>4, BeginRest
<1>8. Fresh'
  BY <1>1, <1>2, <1>5, <1>6 DEF Fresh, Effect, Frame
<1>9. Balanced(N)'
  <2>1. ASSUME NEW u \in Thread, u # Master PROVE Balance(u, N)'
    <3>1. PICK O \in SUBSET TaskObj : O = {o}
      BY <1>3
    <3>2. \A x \in O : ~OnStack(running[u], x)
      BY <1>1, <3>1, FreeObject
    <3>3. Resting(u)' = Resting(u) /\ running'[u] = running[u] /\ Effect(Master, O)
      BY <1>2, <1>4, <1>6, <2>1, <3>1 DEF Resting, Pushes
    <3>4. QED
      BY <1>1, <2>1, <3>2, <3>3, OthersBalance
  <2>2. QED
    BY <1>6, <2>1 DEF Balanced
<1>10. KeptRegions
  <2>1. ~Stacked(o)
    BY <1>1, FreeObject DEF Stacked
  <2>2. QED
    BY <1>6, <2>1 DEF KeptRegions, Effect, Frame
<1>11. KeptKeys
  <2>1. Type(o) = "none"
    BY <1>1, FreeObject
  <2>2. \A x \in TaskObj \ {o} : prof'.task[x] = prof.task[x]
    BY <1>6 DEF Effect, Frame
  <2>3. QED
    BY <1>5, <1>6, <2>1, <2>2 DEF KeptKeys, SameOrigin, Type, Effect, Frame
<1>12. QED
  BY <1>10, <1>11, <1>7, <1>8, <1>9 DEF Good, Kept

(* The invariant is kept by the begin of an implicit task.                  *)
LEMMA ImplicitBeginGood ==
  ASSUME NEW U, NEW N \in [Region -> Nat], Good(U, N), Shape', NEW t \in Thread, ImplicitBegin(t)
  PROVE  Good(U, N)' /\ Kept
<1>1. /\ Shape /\ OnlyTop /\ InUse /\ Started /\ Waits /\ Family
      /\ Bounds(U) /\ Inner(U) /\ Fresh /\ Balanced(N) /\ Master \in Thread
  BY TaskProfileAssumption DEF Good
<1>2. PICK o \in free :
        /\ t \in forked /\ where[t] = "outside"
        /\ Returns(t, ImplicitTaskBegin(prof, t, ThreadNum(t), o, "implicit", team))
        /\ running' = [running EXCEPT ![t] = Append(@, o)]
        /\ where' = [where EXCEPT ![t] = "inside"]
        /\ UNCHANGED <<queue, next, sync, children, team>>
  BY DEF ImplicitBegin
<1>3. o \in TaskObj /\ EnvTypes /\ team \in ParallelData
  BY <1>1 DEF Shape, EnvTypes
<1>4. Pushes(running, running', t, o)
  BY <1>2, <1>3, PushOK DEF EnvTypes
<1>5. /\ team # NoTeam
      /\ where'[t] = "inside" /\ \A u \in Thread : u # t => where'[u] = where[u]
  BY <1>1, <1>2, <1>3 DEF Shape, EnvTypes, Teams
<1>6. /\ t # Master => Len(running[t]) = 0
      /\ t = Master => /\ Len(running[t]) = 1 /\ Type(running[t][1]) = "initial"
                       /\ Plain(prof, running[t]) /\ ~prof.task[running[t][1]].inBarrier
                       /\ Resting(t)
  <2>1. t # Master => Len(running[t]) = 0
    BY <1>1, <1>2 DEF Shape, Stacks
  <2>2. ASSUME t = Master
        PROVE  /\ Len(running[t]) = 1 /\ Type(running[t][1]) = "initial"
               /\ Plain(prof, running[t]) /\ ~prof.task[running[t][1]].inBarrier
               /\ Resting(t)
    <3>1. Len(running[t]) = 1 /\ Resting(t)
      BY <1>1, <1>2, <1>5, <2>2 DEF Shape, Teams, Resting
    <3>2. PICK x : x = running[t][1]
      OBVIOUS
    <3>3. 1 \in 1..Len(running[t]) /\ Len(running[t]) > 0
      BY <3>1
    <3>4. Type(x) = "initial" /\ x \in TaskObj /\ x = Current(t)
      <4>1. Level(t, 1) = {"initial"}
        BY <2>2 DEF Level, Base
      <4>2. QED
        BY <1>1, <1>3, <3>1, <3>2, <3>3, <4>1, CurrentOK DEF Shape, Stacks
    <3>5. Plain(prof, running[t])
      <4>1. Type(x) # "undeferred"
        BY <3>4
      <4>2. QED
        BY <1>1, <3>3, <3>4, <4>1, TopPlain
    <3>6. ~prof.task[x].inBarrier
      <4>1. ~AtBarrier(x)
        BY <1>1, <3>4, Bottoms DEF AtBarrier
      <4>2. sync[x] = <<>>
        BY <1>1, <1>5, <2>2, <3>2 DEF Fresh
      <4>3. QED
        BY <1>1, <3>4, <4>1, <4>2 DEF Waits
    <3>7. QED
      BY <3>1, <3>2, <3>4, <3>5, <3>6
  <2>3. QED
    BY <2>1, <2>2
<1>7. /\ Effect(t, {o}) /\ Balance(t, N)' /\ Type(o)' = "implicit"
      /\ Bound(prof', t, o)
      /\ prof'.task[o].profilingActive = prof.active /\ prof'.task[o].isStarted = prof.active
      /\ ~prof'.task[o].inBarrier /\ RegionKey(prof', o) = Key(prof, team.codePtr, ParentRegion(prof, team))
  <2>1. PICK type \in ImplicitType, num \in {ThreadNum(t)} : type = "implicit" /\ num = ThreadNum(t)
    BY DEF ImplicitType
  <2>2. Returns(t, ImplicitTaskBegin(prof, t, num, o, type, team))
    BY <1>2, <2>1
  <2>3. prof.active => num # 0 \/ type = "initial" \/ t \in prof.now
    BY <1>1, <1>2, <1>5, <2>1 DEF ThreadNum, Fresh
  <2>4. \/ Len(running[t]) = 0
        \/ /\ Plain(prof, running[t]) /\ Type(running[t][Len(running[t])]) = "initial"
           /\ ~prof.task[running[t][Len(running[t])]].inBarrier /\ Resting(t)
    BY <1>6
  <2>5. type = "initial" => ~Resting(t)'
    BY <2>1
  <2>6. /\ Effect(t, {o}) /\ Balance(t, N)' /\ Type(o)' = type /\ Bound(prof', t, o)
        /\ prof'.task[o].profilingActive = prof.active /\ prof'.task[o].isStarted = prof.active
        /\ ~prof'.task[o].inBarrier /\ RegionKey(prof', o) = Key(prof, team.codePtr, ParentRegion(prof, team))
    BY <1>1, <1>3, <1>4, <2>2, <2>3, <2>4, <2>5, BeginBalance
  <2>7. QED
    BY <2>1, <2>6
<1>8. OnlyTop' /\ InUse' /\ Started' /\ Waits' /\ Family' /\ Bounds(U)' /\ Inner(U)'
  <2>1. \A i \in 1..Len(running[t]) : Type(running[t][i]) = "initial"
    <3>1. CASE t = Master
      <4>1. \A i \in 1..Len(running[t]) : i = 1
        <5>1. Len(running[t]) = 1 /\ \A i \in 1..1 : i = 1
          BY <1>6, <3>1
        <5>2. QED
          BY <5>1
      <4>2. QED
        BY <1>6, <3>1, <4>1
    <3>2. CASE t # Master
      BY <1>6, <3>2
    <3>3. QED
      BY <3>1, <3>2
  <2>2. where'[t] \notin {"barrier", "released", "leaving"}
    BY <1>5
  <2>3. Type(o)' \in {"initial", "implicit"}
    BY <1>7
  <2>4. QED
    BY <1>1, <1>2, <1>4, <1>5, <1>7, <2>1, <2>2, <2>3, BeginRest
<1>9. Fresh'
  <2>1. team # NoTeam => running'[Master][1] = running[Master][1]
    <3>1. CASE t = Master
      <4>1. 1 \in 1..Len(running[t])
        BY <1>6, <3>1
      <4>2. QED
        BY <1>4, <3>1, <4>1 DEF Pushes
    <3>2. CASE t # Master
      BY <1>1, <1>4, <3>2 DEF Pushes
    <3>3. QED
      BY <3>1, <3>2
  <2>2. where'[Master] = "outside" => where[Master] = "outside" /\ t # Master
    BY <1>1, <1>5
  <2>3. QED
    BY <1>1, <1>2, <1>5, <1>7, <2>1, <2>2 DEF Fresh, Effect, Frame
<1>10. Balanced(N)'
  <2>1. ASSUME NEW u \in Thread, u # t PROVE Balance(u, N)'
    <3>1. PICK O \in SUBSET TaskObj : O = {o}
      BY <1>3
    <3>2. \A x \in O : ~OnStack(running[u], x)
      BY <1>1, <3>1, FreeObject
    <3>3. Resting(u)' = Resting(u) /\ running'[u] = running[u] /\ Effect(t, O)
      BY <1>2, <1>4, <1>7, <2>1, <3>1 DEF Resting, Pushes
    <3>4. QED
      BY <1>1, <2>1, <3>2, <3>3, OthersBalance
  <2>2. QED
    BY <1>7, <2>1 DEF Balanced
<1>11. KeptRegions
  <2>1. ~Stacked(o)
    BY <1>1, FreeObject DEF Stacked
  <2>2. QED
    BY <1>7, <2>1 DEF KeptRegions, Effect, Frame
<1>12. KeptKeys
  <2>1. Type(o) = "none"
    BY <1>1, FreeObject
  <2>2. \A x \in TaskObj \ {o} : prof'.task[x] = prof.task[x]
    BY <1>7 DEF Effect, Frame
  <2>3. QED
    BY <1>7, <2>1, <2>2 DEF KeptKeys, SameOrigin, Type, Effect, Frame
<1>13. QED
  BY <1>11, <1>12, <1>8, <1>9, <1>10 DEF Good, Kept

(* What the end of an initial or implicit task leaves of the invariant.    *)
LEMMA EndRest ==
  ASSUME NEW U, Shape, OnlyTop, InUse, Started, Waits, Family, Bounds(U), Inner(U),
         NEW t \in Thread, NEW o \in TaskObj, o = running[t][Len(running[t])],
         Len(running[t]) > 0, Effect(t, {o}), Pops(running, running', t),
         sync[o] = <<>>, ~AtBarrier(o), where[t] \notin {"barrier", "released"},
         where'[t] = "outside", \A u \in Thread : u # t => where'[u] = where[u],
         \A x \in TaskObj : Type(x) = "explicit" => prof.task[x].parentTask # o,
         UNCHANGED <<queue, next, sync>>, \A x \in TaskObj \ {o} : children'[x] = children[x],
         Type(o)' = "none", ~prof'.task[o].isStarted, ~prof'.task[o].inBarrier
  PROVE  OnlyTop' /\ InUse' /\ Started' /\ Waits' /\ Family' /\ Bounds(U)' /\ Inner(U)'
<1>1. /\ EnvTypes /\ ProfileOK(prof) /\ ProfileOK(prof') /\ prof'.active = prof.active
      /\ running \in [Thread -> Seq(TaskObj)] /\ running' \in [Thread -> Seq(TaskObj)]
      /\ \A x \in TaskObj \ {o} : prof'.task[x] = prof.task[x]
  BY DEF Shape, EnvTypes, Effect, Frame, Pops
<1>2. \A u \in Thread : \A i \in 1..Len(running'[u]) :
        /\ i \in 1..Len(running[u]) /\ running'[u][i] = running[u][i]
        /\ u = t => i # Len(running[t])
  <2>1. PICK k, r : k = running' /\ r = running
    OBVIOUS
  <2>2. Pops(r, k, t) /\ r \in [Thread -> Seq(TaskObj)] /\ Len(r[t]) > 0
    BY <1>1, <2>1
  <2>3. \A u \in Thread : \A i \in 1..Len(k[u]) :
           /\ i \in 1..Len(r[u]) /\ k[u][i] = r[u][i]
           /\ u = t => i # Len(r[t])
    BY <2>2, PopElements
  <2>4. QED
    BY <2>1, <2>3
<1>3. /\ Len(running[t]) \in 1..Len(running[t])
      /\ \A i \in 1..Len(running[t]) : i # Len(running[t]) =>
           i \in 1..Len(running'[t]) /\ running'[t][i] = running[t][i]
  <2>1. PICK n : n = Len(running[t])
    OBVIOUS
  <2>2. n \in Nat /\ n > 0 /\ Len(running'[t]) = n - 1
        /\ \A i \in 1..n - 1 : running'[t][i] = running[t][i]
    BY <1>1, <2>1, CurrentOK DEF Pops
  <2>3. n \in 1..n /\ \A i \in 1..n : i # n => i \in 1..n - 1
    BY <2>2
  <2>4. QED
    BY <2>1, <2>2, <2>3
<1>4. \A u \in Thread : \A i \in 1..Len(running'[u]) : running'[u][i] \in TaskObj \ {o}
  <2>1. SUFFICES ASSUME NEW u \in Thread, NEW i \in 1..Len(running'[u])
                 PROVE  running'[u][i] \in TaskObj \ {o}
    OBVIOUS
  <2>2. i \in 1..Len(running[u]) /\ running'[u][i] = running[u][i] /\ running[u][i] \in TaskObj
    BY <1>1, <1>2, CurrentOK
  <2>3. running[u][i] = o => u = t /\ i = Len(running[t])
    BY <1>3, <2>2 DEF Shape, Placed, Apart
  <2>4. QED
    BY <1>2, <2>2, <2>3
<1>5. \A x \in TaskObj \ {o} : Type(x)' = Type(x)
  BY <1>1 DEF Type
<1>6. \A x \in TaskObj \ {o} : Type(x) = "explicit" => prof.task[x].parentTask \in TaskObj \ {o}
  BY <1>1 DEF ProfileOK, Type
<1>7. \A u \in Thread : u # t => running'[u] = running[u]
  BY DEF Pops
<1>8. \A u \in Thread : where'[u] \in {"barrier", "released", "leaving"} =>
        u # t /\ where'[u] = where[u] /\ Bottom(u)' = Bottom(u)
  BY <1>7 DEF Bottom
<1>9. \A u \in Thread : where[u] \in {"barrier", "released"} =>
        where'[u] = where[u] /\ Bottom(u)' = Bottom(u)
  BY <1>7 DEF Bottom
<1>10. \A x : AtBarrier(x)' <=> AtBarrier(x)
  BY <1>8, <1>9 DEF AtBarrier
<1>11. \A x : Stacked(x) /\ x # o => Stacked(x)'
  BY <1>3, <1>7 DEF Stacked, OnStack
<1>12. OnlyTop'
  <2>1. SUFFICES ASSUME NEW u \in Thread, NEW i \in 1..Len(running'[u]),
                        prof'.task[running'[u][i]].Type = "undeferred"
                 PROVE  i = Len(running'[u]) /\ next[u] = NoTask
    BY DEF OnlyTop, Type
  <2>2. i \in 1..Len(running[u]) /\ running'[u][i] = running[u][i]
        /\ (u = t => i # Len(running[t]))
    BY <1>2
  <2>3. Type(running[u][i]) = "undeferred"
    BY <1>4, <1>5, <2>1, <2>2 DEF Type
  <2>4. i = Len(running[u]) /\ next[u] = NoTask
    BY <2>2, <2>3 DEF OnlyTop
  <2>5. QED
    BY <1>7, <2>2, <2>4
<1>13. InUse'
  BY <1>5, <1>11 DEF InUse
<1>14. Started'
  BY <1>1, <1>5 DEF Started
<1>15. Waits'
  <2>1. ASSUME NEW x \in TaskObj
        PROVE  /\ prof'.task[x].inBarrier = (prof.active /\ (sync[x] # <<>> \/ AtBarrier(x)))
               /\ Len(sync[x]) \in {0, 1}
               /\ sync[x] # <<>> => Stacked(x)' /\ Type(x)' # "undeferred"
    <3>1. CASE x = o
      <4>1. prof'.task[o].inBarrier \in BOOLEAN
        BY <1>1 DEF ProfileOK, Task
      <4>2. QED
        BY <3>1, <4>1 DEF Waits
    <3>2. CASE x # o
      BY <1>1, <1>5, <1>11, <3>2 DEF Waits
    <3>3. QED
      BY <3>1, <3>2
  <2>2. QED
    BY <1>1, <1>10, <2>1 DEF Waits
<1>16. Family'
  <2>1. SUFFICES ASSUME NEW x \in TaskObj, Type(x)' = "explicit"
                 PROVE  LET y == prof'.task[x].parentTask IN
                        /\ y # x /\ y \notin queue /\ x \in children'[y]
                        /\ prof'.task[y].Type \in {"implicit", "explicit"}
                        /\ \A u \in Thread : where'[u] \in {"released", "leaving"} => y # Bottom(u)'
    BY DEF Family, Type
  <2>2. x # o /\ Type(x) = "explicit" /\ prof'.task[x].parentTask = prof.task[x].parentTask
    BY <1>1, <1>5, <2>1
  <2>3. PICK y \in TaskObj \ {o} : y = prof.task[x].parentTask
    BY <1>6, <2>2
  <2>4. /\ y # x /\ y \notin queue /\ x \in children[y] /\ Type(y) \in {"implicit", "explicit"}
        /\ \A u \in Thread : where[u] \in {"released", "leaving"} => y # Bottom(u)
    BY <2>2, <2>3 DEF Family
  <2>5. QED
    BY <1>5, <1>8, <2>2, <2>3, <2>4 DEF Type
<1>17. Inner(U)'
  <2>1. SUFFICES ASSUME NEW x \in U, Type(x)' = "explicit"
                 PROVE  /\ x \notin queue
                        /\ \A u \in Thread : \A i \in 1..Len(running'[u]) :
                             running'[u][i] = x => i = Len(running'[u])
    BY DEF Inner
  <2>2. CASE x \notin TaskObj
    <3>1. x \notin queue
      BY <1>1, <2>2 DEF EnvTypes
    <3>2. QED
      BY <1>4, <2>2, <3>1
  <2>3. CASE x \in TaskObj
    <3>1. x # o /\ Type(x) = "explicit"
      BY <1>5, <2>1, <2>3
    <3>2. ASSUME NEW u \in Thread, NEW i \in 1..Len(running'[u]), running'[u][i] = x
          PROVE  i = Len(running'[u])
      <4>1. i \in 1..Len(running[u]) /\ running[u][i] = x /\ (u = t => i # Len(running[t]))
        BY <1>2, <3>2
      <4>2. i = Len(running[u])
        BY <3>1, <4>1 DEF Inner
      <4>3. QED
        BY <1>7, <4>1, <4>2
    <3>3. QED
      BY <3>1, <3>2 DEF Inner
  <2>4. QED
    BY <2>2, <2>3
<1>18. Bounds(U)'
  <2>1. PICK F : F = {o}
    OBVIOUS
  <2>2. /\ \A x \in TaskObj \ F : SameButFlags(prof.task[x], prof'.task[x])
        /\ \A x \in TaskObj \ F : Type(x) = "explicit" => prof.task[x].parentTask \in TaskObj \ F
    BY <1>1, <1>6, <2>1 DEF SameButFlags
  <2>3. \A u \in Thread : \A i \in 1..Len(running'[u]) :
          running'[u][i] \in F \/ OnStack(running[u], running'[u][i])
    BY <1>2 DEF OnStack
  <2>4. \A u \in Thread : \A i \in 1..Len(running'[u]) : running'[u][i] \notin F
    BY <1>4, <2>1
  <2>5. QED
    BY <1>1, <2>2, <2>3, <2>4, BoundsKept
<1>19. QED
  BY <1>12, <1>13, <1>14, <1>15, <1>16, <1>17, <1>18

(* The measurement of an initial or implicit task ends.                    *)
LEMMA EndBooks ==
  ASSUME NEW U, NEW N \in [Region -> Nat], Good(U, N), NEW t \in Thread, NEW o, o = Current(t),
         Len(running[t]) > 0, Type(o) \in {"initial", "implicit"},
         Type(o) = "initial" => ~Resting(t), ~prof.task[o].inBarrier,
         prof.active => prof.task[o].profilingActive
  PROVE  LET q == ImplicitTaskEnd(prof, t, o) IN
         /\ Handler(prof, q, t, {o}) /\ q.task[o].Type = "none"
         /\ ~q.task[o].isStarted /\ ~q.task[o].inBarrier
         /\ prof.active => t \in q.now /\ Books(q, t, NoTask, Under(running[t]), N)
         /\ ~prof.active => Books(q, t, NoTask, {}, N)
<1>1. /\ Shape /\ OnlyTop /\ Started /\ Family /\ Bounds(U) /\ Balanced(N)
  BY DEF Good
<1>2. /\ Plain(prof, running[t]) /\ o = running[t][Len(running[t])] /\ o \in TaskObj
      /\ Len(running[t]) \in 1..Len(running[t])
  BY <1>1, TopPlain
<1> DEFINE s == running[t]
           q == ImplicitTaskEnd(prof, t, o)
<1>3. ProfileOK(prof) /\ Books(prof, t, ExcOf(prof, s, Resting(t)), IncOf(prof, s), N)
  BY <1>1 DEF Shape, Balanced, Balance
<1>4. CASE prof.active
  <2>1. PICK p, S, rests : p = prof /\ S = Under(s) \cup {o} /\ rests = Resting(t)
    OBVIOUS
  <2>2. Ready(p, t, o)
    BY <1>1, <1>2, <1>4, <2>1, TaskReady
  <2>3. ExcOf(prof, s, rests) = o /\ IncOf(prof, s) = Under(s) \cup {o} /\ o \notin Under(s)
    BY <1>2, <1>4, <2>1, PlainBooks DEF Type
  <2>4. ProfileOK(p) /\ p.task[o].profilingActive /\ Books(p, t, o, S, N) /\ o \in S
    BY <1>3, <1>4, <2>1, <2>3
  <2>5. LET r == ImplicitTaskEnd(p, t, o) IN
        /\ Handler(p, r, t, {o}) /\ t \in r.now
        /\ r.task[o].Type = "none" /\ ~r.task[o].isStarted
        /\ r.task[o].inBarrier = p.task[o].inBarrier
        /\ Books(r, t, NoTask, S \ {o}, N)
    BY <1>2, <2>2, <2>4, ImplicitTaskEndBooks
  <2>6. S \ {o} = Under(s)
    BY <2>1, <2>3
  <2>7. QED
    BY <1>4, <2>1, <2>5, <2>6
<1>5. CASE ~prof.active
  <2>1. PICK p, S : p = prof /\ S = {}
    OBVIOUS
  <2>2. Type(o) = "implicit" => ~prof.task[o].profilingActive
    BY <1>1, <1>2, <1>5 DEF Started
  <2>3. ExcOf(prof, s, Resting(t)) = NoTask /\ IncOf(prof, s) = {}
    BY <1>5, EmptyBooks
  <2>4. /\ ProfileOK(p) /\ ~p.active /\ (p.task[o].profilingActive => p.task[o].Type = "initial")
        /\ Books(p, t, NoTask, S, N) /\ o \notin S
    BY <1>3, <1>5, <2>1, <2>2, <2>3 DEF Type
  <2>5. LET r == ImplicitTaskEnd(p, t, o) IN
        /\ Handler(p, r, t, {o})
        /\ r.task[o].Type = "none" /\ ~r.task[o].isStarted
        /\ r.task[o].inBarrier = p.task[o].inBarrier
        /\ Books(r, t, NoTask, S, N)
    BY <1>2, <2>4, ImplicitTaskEndPaused
  <2>6. QED
    BY <1>5, <2>1, <2>5
<1>6. QED
  BY <1>4, <1>5

(* ... and leaves the stack without a task that executes.                  *)
LEMMA EndBalance ==
  ASSUME NEW N, Shape, OnlyTop, NEW t \in Thread, NEW o \in TaskObj, o = Current(t),
         Type(o) # "undeferred", Effect(t, {o}), Pops(running, running', t),
         \/ Len(running[t]) = 1
         \/ /\ Len(running[t]) = 2 /\ Type(running[t][1]) = "initial"
            /\ ~prof.task[running[t][1]].inBarrier /\ Resting(t)',
         prof.active => Books(prof', t, NoTask, Under(running[t]), N),
         ~prof.active => Books(prof', t, NoTask, {}, N)
  PROVE  Balance(t, N)'
<1> DEFINE s == running[t]
           z == running'[t]
<1>1. /\ Plain(prof, s) /\ o = s[Len(s)] /\ Len(s) \in {1, 2}
  <2>1. Len(s) > 0 /\ Len(s) \in {1, 2}
    OBVIOUS
  <2>2. QED
    BY <2>1, TopPlain
<1>2. Len(z) = Len(s) - 1 /\ z \in Seq(TaskObj)
  BY DEF Pops
<1>3. prof'.active = prof.active /\ \A x \in TaskObj \ {o} : prof'.task[x] = prof.task[x]
  BY DEF Effect, Frame
<1>4. CASE ~prof.active
  <2>1. ~prof'.active
    BY <1>3, <1>4
  <2>2. ExcOf(prof', z, Resting(t)') = NoTask /\ IncOf(prof', z) = {}
    BY <2>1, EmptyBooks
  <2>3. QED
    BY <1>4, <2>2 DEF Balance
<1>5. CASE prof.active /\ Len(s) = 1
  <2>1. Len(z) = 0
    BY <1>2, <1>5
  <2>2. ExcOf(prof', z, Resting(t)') = NoTask /\ IncOf(prof', z) = {}
    BY <2>1, EmptyBooks
  <2>3. Under(s) = {}
    <3>1. \A i : ~(i \in 1..1 - 1)
      OBVIOUS
    <3>2. QED
      BY <1>5, <3>1 DEF Under
  <2>4. QED
    BY <1>5, <2>2, <2>3 DEF Balance
<1>6. CASE prof.active /\ Len(s) = 2
  <2>1. PICK x : x = s[1]
    OBVIOUS
  <2>2. x \in TaskObj \ {o}
    <3>1. 1 \in 1..Len(s) /\ Len(s) \in 1..Len(s) /\ 1 # Len(s)
      BY <1>6
    <3>2. s \in Seq(TaskObj)
      BY <1>1 DEF Plain
    <3>3. QED
      BY <1>1, <2>1, <3>1, <3>2, ElementOfSeq DEF Plain
  <2>3. Type(x) = "initial" /\ ~prof.task[x].inBarrier /\ Resting(t)'
    BY <1>6, <2>1
  <2>4. /\ Plain(prof', z) /\ z[Len(z)] = x /\ Under(s) = AllOf(z) /\ Len(z) > 0
    <3>1. PICK was, p, a, b : was = prof /\ p = prof' /\ a = s /\ b = z
      OBVIOUS
    <3>2. OtherKinds(was, p, o) /\ Popped(a, b) /\ Plain(was, a)
      BY <1>1, <1>3, <3>1, PopPopped DEF OtherKinds
    <3>3. Len(a) = 2 /\ Len(a) > 1 /\ Len(a) - 1 = 1
      BY <1>6, <3>1
    <3>4. o = a[Len(a)] /\ x = a[Len(a) - 1]
      BY <1>1, <2>1, <3>1, <3>3
    <3>5. Plain(p, b) /\ Len(b) > 0 /\ b[Len(b)] = x /\ Under(a) = AllOf(b)
      <4>1. Len(a) > 1
        BY <3>3
      <4>2. QED
        BY <3>2, <3>4, <4>1, PopPlain
    <3>6. QED
      BY <3>1, <3>5
  <2>5. PICK rests : rests = Resting(t)'
    OBVIOUS
  <2>6. prof'.active /\ ~prof'.task[x].inBarrier /\ prof'.task[x].Type = "initial" /\ rests
    BY <1>3, <1>6, <2>2, <2>3, <2>5 DEF Type
  <2>7. ExcOf(prof', z, rests) = NoTask /\ IncOf(prof', z) = Under(z) \cup {x}
    BY <2>4, <2>6, PlainBooks
  <2>8. AllOf(z) = Under(z) \cup {x}
    BY <1>2, <2>4, AllUnder
  <2>9. QED
    BY <1>6, <2>4, <2>5, <2>7, <2>8 DEF Balance
<1>7. QED
  BY <1>1, <1>4, <1>5, <1>6

(* The invariant is kept by the end of the initial task.                    *)
LEMMA InitialTaskEndGood ==
  ASSUME WellStructured, NEW U, NEW N \in [Region -> Nat], Good(U, N), Shape', InitialTaskEnd
  PROVE  Good(U, N)' /\ Kept
<1>1. /\ Shape /\ OnlyTop /\ InUse /\ Started /\ Waits /\ Family
      /\ Bounds(U) /\ Inner(U) /\ Fresh /\ Balanced(N) /\ Master \in Thread
  BY TaskProfileAssumption DEF Good
<1>2. PICK o : o = Current(Master)
  OBVIOUS
<1>3. /\ OnTop(Master) /\ Type(o) = "initial" /\ sync[o] = <<>>
      /\ \A t \in Thread : where[t] = "outside"
      /\ prof.task[o].profilingActive \/ ~prof.active
      /\ Returns(Master, ImplicitTaskEnd(prof, Master, o))
      /\ running' = [running EXCEPT ![Master] = <<>>]
      /\ UNCHANGED <<queue, next, sync, children, team, where>>
  BY <1>2 DEF InitialTaskEnd, InProgram, WellStructured
<1>4. /\ o \in TaskObj /\ Len(running[Master]) = 1 /\ o = running[Master][1] /\ team = NoTeam
      /\ Len(running[Master]) > 0 /\ o = running[Master][Len(running[Master])]
      /\ EnvTypes /\ ProfileOK(prof)
  <2>1. /\ o \in TaskObj /\ Len(running[Master]) = 1 /\ o = running[Master][1] /\ team = NoTeam
    BY <1>1, <1>2, <1>3, InitialOnTop
  <2>2. QED
    BY <1>1, <2>1 DEF Shape
<1>5. Pops(running, running', Master)
  <2>1. running' \in [Thread -> Seq(TaskObj)] /\ \A u \in Thread : u # Master => running'[u] = running[u]
    BY <1>3, <1>4, EmptySeq DEF EnvTypes
  <2>2. running'[Master] = <<>> /\ Len(running'[Master]) = 0
    BY <1>1, <1>3, <1>4 DEF EnvTypes
  <2>3. Len(running[Master]) - 1 = 0 /\ \A i : ~(i \in 1..0)
    BY <1>4
  <2>4. QED
    BY <2>1, <2>2, <2>3 DEF Pops
<1>6. ~AtBarrier(o) /\ ~prof.task[o].inBarrier
  <2>1. ~AtBarrier(o)
    BY <1>3 DEF AtBarrier
  <2>2. QED
    BY <1>1, <1>3, <1>4, <2>1 DEF Waits
<1> DEFINE q == ImplicitTaskEnd(prof, Master, o)
<1>7. /\ Handler(prof, q, Master, {o}) /\ q.task[o].Type = "none"
      /\ ~q.task[o].isStarted /\ ~q.task[o].inBarrier
      /\ prof.active => Books(q, Master, NoTask, Under(running[Master]), N)
      /\ ~prof.active => Books(q, Master, NoTask, {}, N)
  <2>1. Type(o) \in {"initial", "implicit"} /\ ~Resting(Master)
    BY <1>3, <1>4 DEF Resting
  <2>2. QED
    BY <1>1, <1>2, <1>3, <1>4, <1>6, <2>1, EndBooks
<1> HIDE DEF q
<1>8. /\ Effect(Master, {o}) /\ prof'.task = q.task
      /\ \A u, e, Z, M : Books(q, u, e, Z, M) => Books(prof', u, e, Z, M)
  BY <1>1, <1>3, <1>4, <1>7, ReturnsEffect DEF q
<1>9. Type(o)' = "none" /\ ~prof'.task[o].isStarted /\ ~prof'.task[o].inBarrier
  BY <1>7, <1>8 DEF Type
<1>10. Balance(Master, N)'
  <2>1. /\ prof.active => Books(prof', Master, NoTask, Under(running[Master]), N)
        /\ ~prof.active => Books(prof', Master, NoTask, {}, N)
    BY <1>7, <1>8
  <2>2. Type(o) # "undeferred"
    BY <1>3
  <2>3. QED
    BY <1>1, <1>2, <1>4, <1>5, <1>8, <2>1, <2>2, EndBalance
<1>11. OnlyTop' /\ InUse' /\ Started' /\ Waits' /\ Family' /\ Bounds(U)' /\ Inner(U)'
  <2>1. \A x \in TaskObj : Type(x) = "explicit" => prof.task[x].parentTask # o
    BY <1>1, <1>3 DEF Family
  <2>2. where[Master] \notin {"barrier", "released"} /\ where'[Master] = "outside"
        /\ (\A u \in Thread : u # Master => where'[u] = where[u])
        /\ \A x \in TaskObj \ {o} : children'[x] = children[x]
    BY <1>1, <1>3
  <2>3. QED
    BY <1>1, <1>3, <1>4, <1>5, <1>6, <1>8, <1>9, <2>1, <2>2, EndRest
<1>12. Fresh'
  BY <1>1, <1>3, <1>4, <1>8 DEF Fresh, Effect, Frame
<1>13. Balanced(N)'
  <2>1. ASSUME NEW u \in Thread, u # Master PROVE Balance(u, N)'
    <3>1. PICK O \in SUBSET TaskObj : O = {o}
      BY <1>4
    <3>2. \A x \in O : ~OnStack(running[u], x)
      <4>1. Len(running[u]) = 0
        BY <1>1, <1>3, <2>1 DEF Shape, Stacks
      <4>2. QED
        BY <4>1 DEF OnStack
    <3>3. Resting(u)' = Resting(u) /\ running'[u] = running[u] /\ Effect(Master, O)
      BY <1>3, <1>5, <1>8, <2>1, <3>1 DEF Resting, Pops
    <3>4. QED
      BY <1>1, <2>1, <3>2, <3>3, OthersBalance
  <2>2. QED
    BY <1>10, <2>1 DEF Balanced
<1>14. KeptRegions
  <2>1. ~Stacked(o)'
    BY <1>1, <1>4, <1>5, PoppedTasks DEF Stacked, OnStack
  <2>2. QED
    BY <1>8, <2>1 DEF KeptRegions, Effect, Frame
<1>15. KeptKeys
  <2>1. \A x \in TaskObj : x \in {o} =>
          SameOrigin(prof.task[x], prof'.task[x]) \/ Type(x)' = "none"
    BY <1>9
  <2>2. QED
    BY <1>8, <2>1, SameKeys DEF Effect
<1>16. QED
  BY <1>14, <1>15, <1>11, <1>12, <1>13 DEF Good, Kept

(* The invariant is kept by the end of an implicit task.                    *)
LEMMA ImplicitEndGood ==
  ASSUME NEW U, NEW N \in [Region -> Nat], Good(U, N), Shape', NEW t \in Thread, ImplicitEnd(t)
  PROVE  Good(U, N)' /\ Kept
<1>1. /\ Shape /\ OnlyTop /\ InUse /\ Started /\ Waits /\ Family
      /\ Bounds(U) /\ Inner(U) /\ Fresh /\ Balanced(N) /\ Master \in Thread
  BY TaskProfileAssumption DEF Good
<1>2. PICK o : o = Current(t)
  OBVIOUS
<1> DEFINE q == ImplicitTaskEnd(prof, t, o)
<1>3. /\ where[t] = "leaving"
      /\ IF t = Master THEN prof' = q ELSE Returns(t, q)
      /\ running' = [running EXCEPT ![t] = Front(@)]
      /\ where' = [where EXCEPT ![t] = "outside"]
      /\ children' = [children EXCEPT ![o] = {}]
      /\ UNCHANGED <<queue, next, sync, team>>
  BY <1>2 DEF ImplicitEnd
<1>4. /\ o \in TaskObj /\ Len(running[t]) = Base(t) /\ Len(running[t]) > 0
      /\ o = running[t][Len(running[t])] /\ o = Bottom(t) /\ Type(o) = "implicit"
      /\ sync[o] = <<>> /\ EnvTypes /\ ProfileOK(prof)
  <2>1. Bottom(t) \in TaskObj /\ Type(Bottom(t)) = "implicit" /\ Base(t) \in 1..Len(running[t])
    BY <1>1, <1>3, Bottoms
  <2>2. Len(running[t]) = Base(t) /\ sync[running[t][Base(t)]] = <<>>
    BY <1>1, <1>3 DEF Shape, Stacks
  <2>3. Len(running[t]) > 0
    BY <2>2 DEF Base
  <2>4. o = running[t][Len(running[t])]
    BY <1>1, <1>2, <2>3, CurrentOK DEF Shape
  <2>5. QED
    BY <1>1, <2>1, <2>2, <2>3, <2>4 DEF Bottom, Shape
<1>5. Pops(running, running', t)
  <2>1. running \in [Thread -> Seq(TaskObj)]
    BY <1>4 DEF EnvTypes
  <2>2. QED
    BY <1>3, <1>4, <2>1, PopOK
<1>6. ~AtBarrier(o) /\ ~prof.task[o].inBarrier
  <2>1. ~AtBarrier(o)
    BY <1>1, <1>3, <1>4, BarrierTask
  <2>2. QED
    BY <1>1, <1>4, <2>1 DEF Waits
<1>7. /\ Handler(prof, q, t, {o}) /\ q.task[o].Type = "none"
      /\ ~q.task[o].isStarted /\ ~q.task[o].inBarrier
      /\ prof.active => t \in q.now /\ Books(q, t, NoTask, Under(running[t]), N)
      /\ ~prof.active => Books(q, t, NoTask, {}, N)
  <2>1. Type(o) \in {"initial", "implicit"} /\ Type(o) # "initial"
    BY <1>4
  <2>2. prof.active => prof.task[o].profilingActive
    BY <1>1, <1>4 DEF Started
  <2>3. QED
    BY <1>2, <1>4, <1>6, <2>1, <2>2, EndBooks
<1> HIDE DEF q
<1>8. /\ Effect(t, {o}) /\ prof'.task = q.task
      /\ \A u, e, Z, M : Books(q, u, e, Z, M) => Books(prof', u, e, Z, M)
      /\ t = Master /\ prof.active => Master \in prof'.now
  <2>1. CASE t = Master
    BY <1>3, <1>4, <1>7, <2>1, DirectEffect
  <2>2. CASE t # Master
    BY <1>3, <1>4, <1>7, <2>2, ReturnsEffect
  <2>3. QED
    BY <2>1, <2>2
<1>9. Type(o)' = "none" /\ ~prof'.task[o].isStarted /\ ~prof'.task[o].inBarrier
  BY <1>7, <1>8 DEF Type
<1>10. where'[t] = "outside" /\ \A u \in Thread : u # t => where'[u] = where[u]
  BY <1>3, <1>4 DEF EnvTypes
<1>11. t = Master => /\ Type(running[t][1]) = "initial" /\ running[t][1] \in TaskObj
                     /\ ~prof.task[running[t][1]].inBarrier /\ Resting(t)' /\ team # NoTeam
                     /\ Len(running[t]) = 2
  <2>1. SUFFICES ASSUME t = Master
                 PROVE  /\ Type(running[t][1]) = "initial" /\ running[t][1] \in TaskObj
                        /\ ~prof.task[running[t][1]].inBarrier /\ Resting(t)' /\ team # NoTeam
                        /\ Len(running[t]) = 2
    OBVIOUS
  <2>2. Len(running[t]) = 2 /\ Level(t, 1) = {"initial"}
    BY <1>4, <2>1 DEF Base, Level
  <2>3. 1 \in 1..Len(running[t])
    BY <2>2
  <2>4. PICK x : x = running[t][1]
    OBVIOUS
  <2>5. x \in TaskObj /\ Type(x) = "initial"
    BY <1>1, <1>4, <2>2, <2>3, <2>4, CurrentOK DEF Shape, Stacks
  <2>6. team # NoTeam /\ sync[x] = <<>>
    BY <1>1, <1>3, <2>1, <2>4 DEF Fresh
  <2>7. ~AtBarrier(x)
    BY <1>1, <2>5, Bottoms DEF AtBarrier
  <2>8. ~prof.task[x].inBarrier
    BY <1>1, <2>5, <2>6, <2>7 DEF Waits
  <2>9. QED
    BY <1>3, <2>1, <2>2, <2>4, <2>5, <2>6, <2>8 DEF Resting
<1>12. Balance(t, N)'
  <2>1. /\ prof.active => Books(prof', t, NoTask, Under(running[t]), N)
        /\ ~prof.active => Books(prof', t, NoTask, {}, N)
    BY <1>7, <1>8
  <2>2. Type(o) # "undeferred"
    BY <1>4
  <2>3. \/ Len(running[t]) = 1
        \/ /\ Len(running[t]) = 2 /\ Type(running[t][1]) = "initial"
           /\ ~prof.task[running[t][1]].inBarrier /\ Resting(t)'
    BY <1>4, <1>11 DEF Base
  <2>4. QED
    BY <1>1, <1>2, <1>4, <1>5, <1>8, <2>1, <2>2, <2>3, EndBalance
<1>13. OnlyTop' /\ InUse' /\ Started' /\ Waits' /\ Family' /\ Bounds(U)' /\ Inner(U)'
  <2>1. \A x \in TaskObj : Type(x) = "explicit" => prof.task[x].parentTask # o
    BY <1>1, <1>3, <1>4 DEF Family
  <2>2. where[t] \notin {"barrier", "released"} /\ \A x \in TaskObj \ {o} : children'[x] = children[x]
    BY <1>3, <1>4 DEF EnvTypes
  <2>3. QED
    BY <1>1, <1>3, <1>4, <1>5, <1>6, <1>8, <1>9, <1>10, <2>1, <2>2, EndRest
<1>14. Fresh'
  <2>1. prof'.failure = "none" /\ ~prof'.stale /\ prof'.active = prof.active
    BY <1>1, <1>8 DEF Fresh, Effect, Frame
  <2>2. prof'.active /\ team' # NoTeam /\ where'[Master] = "outside" => Master \in prof'.now
    <3>1. CASE t = Master
      BY <1>8, <2>1, <3>1
    <3>2. CASE t # Master
      BY <1>1, <1>3, <1>8, <1>10, <2>1, <3>2 DEF Fresh, Effect
    <3>3. QED
      BY <3>1, <3>2
  <2>3. team' # NoTeam => sync'[running'[Master][1]] = <<>>
    <3>1. t = Master => running'[t][1] = running[t][1]
      <4>1. SUFFICES ASSUME t = Master PROVE running'[t][1] = running[t][1]
        OBVIOUS
      <4>2. Len(running[t]) - 1 = 1 /\ 1 \in 1..1
        BY <1>11, <4>1
      <4>3. QED
        BY <1>5, <4>2 DEF Pops
    <3>2. t # Master => running'[Master] = running[Master]
      BY <1>1, <1>5 DEF Pops
    <3>3. QED
      BY <1>1, <1>3, <3>1, <3>2 DEF Fresh
  <2>4. where'[Master] # "outside" => team' # NoTeam
    BY <1>1, <1>3, <1>10 DEF Fresh
  <2>5. QED
    BY <2>1, <2>2, <2>3, <2>4 DEF Fresh
<1>15. Balanced(N)'
  <2>1. ASSUME NEW u \in Thread, u # t PROVE Balance(u, N)'
    <3>1. PICK O \in SUBSET TaskObj : O = {o}
      BY <1>4
    <3>2. \A x \in O : ~OnStack(running[u], x)
      <4>1. Len(running[t]) \in 1..Len(running[t])
        BY <1>4 DEF Base
      <4>2. Apart(running)
        BY <1>1 DEF Shape, Placed
      <4>3. \A i \in 1..Len(running[u]) : running[u][i] # running[t][Len(running[t])]
        BY <2>1, <4>1, <4>2 DEF Apart
      <4>4. QED
        BY <1>4, <3>1, <4>3 DEF OnStack
    <3>3. Resting(u)' = Resting(u) /\ running'[u] = running[u] /\ Effect(t, O)
      BY <1>3, <1>5, <1>8, <2>1, <3>1 DEF Resting, Pops
    <3>4. QED
      BY <1>1, <2>1, <3>2, <3>3, OthersBalance
  <2>2. QED
    BY <1>12, <2>1 DEF Balanced
<1>16. KeptRegions
  <2>1. ~Stacked(o)'
    <3>1. \A u \in Thread : \A i \in 1..Len(running'[u]) : running'[u][i] \in TaskObj \ {o}
      BY <1>1, <1>4, <1>5, PoppedTasks
    <3>2. QED
      BY <3>1 DEF Stacked, OnStack
  <2>2. QED
    BY <1>8, <2>1 DEF KeptRegions, Effect, Frame
<1>17. KeptKeys
  <2>1. \A x \in TaskObj : x \in {o} =>
          SameOrigin(prof.task[x], prof'.task[x]) \/ Type(x)' = "none"
    BY <1>9
  <2>2. QED
    BY <1>8, <2>1, SameKeys DEF Effect
<1>18. QED
  BY <1>16, <1>17, <1>13, <1>14, <1>15 DEF Good, Kept

-----------------------------------------------------------------------------
(* Creation of tasks *)

(* Only a task that is not undeferred creates tasks, and waits.            *)
LEMMA Reports ==
  ASSUME WellStructured, Shape, NEW t \in Thread, OnTop(t), Reporting(t)
  PROVE  Type(Current(t)) \in {"initial", "implicit", "explicit"}
<1>1. Type(Current(t)) # "undeferred"
  BY DEF Reporting, WellStructured
<1>2. Type(Current(t)) \in Level(t, Len(running[t]))
  BY OnTopOK
<1>3. QED
  BY <1>1, <1>2 DEF Level

(* The task that creates an explicit one can be its parent.                *)
LEMMA Creator ==
  ASSUME WellStructured, Shape, NEW t \in Thread, InProgram(t), Reporting(t), team # NoTeam
  PROVE  /\ Type(Current(t)) \in {"implicit", "explicit"} /\ Current(t) \in TaskObj
         /\ Current(t) \notin queue
         /\ \A u \in Thread : where[u] \in {"released", "leaving"} => Current(t) # Bottom(u)
<1>1. OnTop(t)
  BY DEF InProgram
<1>2. /\ Type(Current(t)) \in {"initial", "implicit", "explicit"}
      /\ Type(Current(t)) = "initial" => team = NoTeam
      /\ Len(running[t]) \in 1..Len(running[t])
      /\ Current(t) = running[t][Len(running[t])] /\ Current(t) \in TaskObj
  BY <1>1, Reports, OnTopOK
<1>3. Type(Current(t)) \in {"implicit", "explicit"}
  BY <1>2
<1>4. Current(t) \notin queue
  BY <1>2 DEF Shape, Placed
<1>5. ASSUME NEW u \in Thread, where[u] \in {"released", "leaving"}, Current(t) = Bottom(u)
      PROVE  FALSE
  <2>1. Type(Current(t)) = "implicit"
    BY <1>5, Bottoms
  <2>2. where[t] = "inside"
    BY <2>1 DEF InProgram
  <2>3. Current(t) = Bottom(t)
    BY <1>1, <2>1, ImplicitOnTop DEF Bottom
  <2>4. u = t
    BY <1>5, <2>2, <2>3, Bottoms
  <2>5. QED
    BY <1>5, <2>2, <2>4
<1>6. QED
  BY <1>2, <1>3, <1>4, <1>5

(* What task_create does.                                                  *)
LEMMA CreateEffect ==
  ASSUME ProfileOK(prof), NEW t, NEW new \in TaskObj, NEW type \in TaskType,
         NEW code \in TaskCode, NEW o \in TaskObj, prof' = TaskCreate(prof, new, type, code, o)
  PROVE  /\ Handler(prof, prof', t, {new}) /\ prof'.now = prof.now
         /\ prof'.task[new].Type = type
         /\ type = "explicit" => prof'.task[new].codePtr = code /\ prof'.task[new].parentTask = o
         /\ prof'.task[new].profilingActive = (type = "explicit" /\ prof.active)
         /\ prof'.task[new].isStarted = prof.task[new].isStarted
         /\ prof'.task[new].inBarrier = prof.task[new].inBarrier
         /\ \A u, e, S, M : Books(prof, u, e, S, M) => Books(prof', u, e, S, M)
<1>1. PICK p : p = prof
  OBVIOUS
<1>2. ProfileOK(p)
  BY <1>1
<1> DEFINE q == TaskCreate(p, new, type, code, o)
           x == q.task[new]
<1>3. /\ Handler(p, q, t, {new}) /\ q.now = p.now
      /\ x.Type = type /\ (type = "explicit" => x.codePtr = code /\ x.parentTask = o)
      /\ x.profilingActive = (type = "explicit" /\ p.active)
      /\ x.isStarted = p.task[new].isStarted /\ x.inBarrier = p.task[new].inBarrier
      /\ \A u, e, S, N : Books(p, u, e, S, N) => Books(q, u, e, S, N)
  BY <1>2, TaskCreateBooks
<1>4. prof' = q
  BY <1>1
<1> HIDE DEF q
<1>5. QED
  BY <1>1, <1>3, <1>4

(* The books of a stack whose tasks do not change.                         *)
LEMMA SameBalance ==
  ASSUME NEW N, Shape, NEW u \in Thread, Balance(u, N), running'[u] = running[u],
         Resting(u)' = Resting(u), prof'.active = prof.active,
         \A i \in 1..Len(running[u]) :
           /\ prof'.task[running[u][i]].Type = prof.task[running[u][i]].Type
           /\ prof'.task[running[u][i]].inBarrier = prof.task[running[u][i]].inBarrier,
         \A e, S : Books(prof, u, e, S, N) => Books(prof', u, e, S, N)
  PROVE  Balance(u, N)'
<1>1. PICK p, q, z, rests : p = prof /\ q = prof' /\ z = running[u] /\ rests = Resting(u)
  OBVIOUS
<1>2. z \in Seq(TaskObj) /\ (Len(z) > 0 => p.task[z[1]].Type # "undeferred")
  <2>1. running[u] \in Seq(TaskObj)
    BY DEF Shape, EnvTypes
  <2>2. Len(running[u]) > 0 => Type(running[u][1]) # "undeferred"
    BY BottomKind
  <2>3. QED
    BY <1>1, <2>1, <2>2 DEF Type
<1>3. /\ q.active = p.active
      /\ \A i \in 1..Len(z) : /\ q.task[z[i]].Type = p.task[z[i]].Type
                              /\ q.task[z[i]].inBarrier = p.task[z[i]].inBarrier
  BY <1>1
<1>4. ExcOf(q, z, rests) = ExcOf(p, z, rests) /\ IncOf(q, z) = IncOf(p, z)
  BY <1>2, <1>3, SameBooks
<1>5. Books(q, u, ExcOf(q, z, rests), IncOf(q, z), N)
  BY <1>1, <1>4 DEF Balance
<1>6. QED
  BY <1>1, <1>5 DEF Balance

(* task_create: the new task waits, or runs next.                          *)
LEMMA CreateTaskGood ==
  ASSUME WellStructured, NEW U, NEW N \in [Region -> Nat], Good(U, N), Within(U), NEW t \in Thread,
         NEW type \in {"explicit", "undeferred"}, NEW code \in TaskCode, Shape',
         CreateTask(t, type, code)
  PROVE  Good(U, N)' /\ Kept
<1>1. /\ Shape /\ OnlyTop /\ InUse /\ Started /\ Waits /\ Family
      /\ Bounds(U) /\ Inner(U) /\ Fresh /\ Balanced(N)
  BY DEF Good
<1>2. PICK o : o = Current(t)
  OBVIOUS
<1>3. PICK new \in free :
        /\ prof' = TaskCreate(prof, new, type, code, o)
        /\ queue' = IF type = "explicit" THEN queue \cup {new} ELSE queue
        /\ next' = IF type = "explicit" THEN next ELSE [next EXCEPT ![t] = new]
        /\ children' = [children EXCEPT ![o] = @ \cup {new}]
        /\ path' = [path EXCEPT ![new] = Append(path[o], code)]
  BY <1>2 DEF CreateTask
<1>4. /\ InProgram(t) /\ Reporting(t) /\ (type = "explicit" => team # NoTeam)
      /\ UNCHANGED <<running, sync, team, where>>
  BY DEF CreateTask
<1>5. /\ Type(o) \in {"initial", "implicit", "explicit"} /\ o \in TaskObj
      /\ Len(running[t]) > 0 /\ EnvTypes /\ ProfileOK(prof)
  <2>1. OnTop(t)
    BY <1>4 DEF InProgram
  <2>2. Type(o) \in {"initial", "implicit", "explicit"} /\ o \in TaskObj /\ Len(running[t]) > 0
    BY <1>1, <1>2, <1>4, <2>1, Reports, OnTopOK
  <2>3. QED
    BY <1>1, <2>2 DEF Shape
<1>6. /\ new \in TaskObj /\ Type(new) = "none" /\ sync[new] = <<>> /\ ~AtBarrier(new)
      /\ ~prof.task[new].inBarrier /\ ~prof.task[new].isStarted
      /\ \A u \in Thread : ~OnStack(running[u], new)
  BY <1>1, FreeObject
<1>7. /\ Handler(prof, prof', t, {new}) /\ prof'.now = prof.now
      /\ prof'.task[new].Type = type
      /\ type = "explicit" => prof'.task[new].codePtr = code /\ prof'.task[new].parentTask = o
      /\ prof'.task[new].profilingActive = (type = "explicit" /\ prof.active)
      /\ prof'.task[new].isStarted = prof.task[new].isStarted
      /\ prof'.task[new].inBarrier = prof.task[new].inBarrier
      /\ \A u, e, S, M : Books(prof, u, e, S, M) => Books(prof', u, e, S, M)
  <2>1. type \in TaskType
    BY DEF TaskType
  <2>2. QED
    BY <1>3, <1>5, <1>6, <2>1, CreateEffect
<1>8. Effect(t, {new})
  BY <1>5, <1>7, DirectEffect
<1>9. /\ \A x \in TaskObj \ {new} : prof'.task[x] = prof.task[x] /\ Type(x)' = Type(x)
      /\ prof'.active = prof.active /\ Type(new)' = type
  BY <1>7, <1>8 DEF Effect, Frame, Type
<1>10. \A u \in Thread : \A i \in 1..Len(running[u]) :
          running[u][i] # new /\ running[u][i] \in TaskObj
  BY <1>5, <1>6, CurrentOK DEF OnStack
<1>11. OnlyTop'
  <2>1. \A i \in 1..Len(running[t]) : Type(running[t][i]) # "undeferred"
    <3>1. o = running[t][Len(running[t])]
      BY <1>2, <1>5, CurrentOK
    <3>2. QED
      BY <1>1, <1>5, <3>1 DEF OnlyTop
  <2>2. \A u \in Thread : u # t => next'[u] = next[u]
    BY <1>3, <1>5 DEF EnvTypes
  <2>3. \A u \in Thread : \A i \in 1..Len(running[u]) : Type(running[u][i])' = Type(running[u][i])
    BY <1>4, <1>9, <1>10 DEF Type
  <2>4. QED
    BY <1>1, <1>4, <2>1, <2>2, <2>3 DEF OnlyTop, Type
<1>12. /\ \A x \in TaskObj : Stacked(x)' = Stacked(x) /\ AtBarrier(x)' = AtBarrier(x)
       /\ \A u \in Thread : Bottom(u)' = Bottom(u)
       /\ \A x \in TaskObj \ {new} : x \in queue' <=> x \in queue
       /\ type = "explicit" => new \in queue'
  BY <1>3, <1>4 DEF Stacked, AtBarrier, Bottom
<1>13. InUse'
  BY <1>1, <1>9, <1>12 DEF InUse
<1>14. Started'
  <2>1. ASSUME NEW x \in TaskObj \ {new}
        PROVE  /\ prof'.task[x] = prof.task[x] /\ Type(x)' = Type(x)
               /\ x \in queue' <=> x \in queue
    BY <1>9, <1>12
  <2>2. prof.active \in BOOLEAN
    BY <1>5 DEF ProfileOK
  <2>3. type = "explicit" \/ type = "undeferred"
    OBVIOUS
  <2>4. /\ ~prof'.task[new].isStarted /\ prof'.active = prof.active /\ Type(new)' = type
        /\ type = "explicit" => prof'.task[new].profilingActive = prof'.active
        /\ type = "undeferred" => ~prof'.task[new].profilingActive
        /\ type = "explicit" => (prof'.active /\ new \notin queue') = FALSE
    BY <1>6, <1>7, <1>9, <1>12, <2>2
  <2>5. prof'.task[new].isStarted \in BOOLEAN
    BY <1>8, <1>6 DEF Effect, ProfileOK, Task
  <2>6. QED
    BY <1>1, <2>1, <2>3, <2>4, <2>5 DEF Started
<1>15. Waits'
  BY <1>1, <1>4, <1>6, <1>7, <1>9, <1>12 DEF Waits
<1>16. \A x \in TaskObj \ {new} : Type(x) = "explicit" =>
         prof.task[x].parentTask # new /\ prof.task[x].parentTask \in TaskObj
  BY <1>1, <1>5, <1>6 DEF Family, ProfileOK, Type
<1>17. Family'
  <2>1. \A u \in Thread : running'[u][Base(u)] = Bottom(u)
    BY <1>4 DEF Bottom
  <2>2. SUFFICES ASSUME NEW x \in TaskObj, Type(x)' = "explicit"
                 PROVE  LET y == prof'.task[x].parentTask IN
                        /\ y # x /\ y \notin queue' /\ x \in children'[y]
                        /\ prof'.task[y].Type \in {"implicit", "explicit"}
                        /\ \A u \in Thread : where'[u] \in {"released", "leaving"} =>
                             y # running'[u][Base(u)]
    BY DEF Family, Type, Bottom
  <2>3. PICK y : y = prof'.task[x].parentTask
    OBVIOUS
  <2>4. CASE x = new
    <3>1. type = "explicit" /\ y = o
      BY <1>7, <1>9, <2>2, <2>3, <2>4
    <3>2. /\ Type(o) \in {"implicit", "explicit"} /\ o \notin queue
          /\ \A u \in Thread : where[u] \in {"released", "leaving"} => o # Bottom(u)
      BY <1>1, <1>2, <1>4, <3>1, Creator
    <3>3. o # new
      BY <1>6, <3>2
    <3>4. new \in children'[o]
      BY <1>3, <1>5 DEF EnvTypes
    <3>5. QED
      BY <1>4, <1>5, <1>9, <1>12, <2>1, <2>3, <2>4, <3>1, <3>2, <3>3, <3>4 DEF Type
  <2>5. CASE x # new
    <3>1. Type(x) = "explicit" /\ y = prof.task[x].parentTask /\ y # new /\ y \in TaskObj
      BY <1>9, <1>16, <2>2, <2>3, <2>5
    <3>2. /\ y # x /\ y \notin queue /\ x \in children[y]
          /\ Type(y) \in {"implicit", "explicit"}
          /\ \A u \in Thread : where[u] \in {"released", "leaving"} => y # Bottom(u)
      BY <1>1, <3>1 DEF Family
    <3>3. x \in children'[y]
      BY <1>3, <1>5, <3>1, <3>2 DEF EnvTypes
    <3>4. QED
      BY <1>4, <1>9, <1>12, <2>1, <2>3, <3>1, <3>2, <3>3 DEF Type
  <2>6. QED
    BY <2>4, <2>5
<1>18. Bounds(U)'
  <2>1. PICK F : F = {new}
    OBVIOUS
  <2>2. \A x \in TaskObj \ F : SameButFlags(prof.task[x], prof'.task[x])
    BY <1>9, <2>1 DEF SameButFlags
  <2>3. \A x \in TaskObj \ F : Type(x) = "explicit" => prof.task[x].parentTask \in TaskObj \ F
    BY <1>16, <2>1
  <2>4. running' \in [Thread -> Seq(TaskObj)]
    BY <1>4, <1>5 DEF EnvTypes
  <2>5. \A u \in Thread : \A i \in 1..Len(running'[u]) :
          running'[u][i] \notin F /\ OnStack(running[u], running'[u][i])
    BY <1>4, <1>10, <2>1 DEF OnStack
  <2>6. QED
    BY <1>1, <1>8, <2>2, <2>3, <2>4, <2>5, BoundsKept
<1>19. Inner(U)'
  <2>1. new \notin U
    BY <1>6 DEF Within
  <2>2. \A x \in U : x \notin TaskObj => x \notin queue'
    BY <1>3, <1>5, <1>6 DEF EnvTypes
  <2>3. ASSUME NEW x \in U, Type(x)' = "explicit" PROVE x \notin queue'
    BY <1>1, <1>9, <1>12, <2>1, <2>2, <2>3 DEF Inner
  <2>4. ASSUME NEW x \in U, NEW u \in Thread, NEW i \in 1..Len(running'[u]),
               running'[u][i] = x, Type(x)' = "explicit"
        PROVE  i = Len(running'[u])
    <3>1. i \in 1..Len(running[u]) /\ running[u][i] = x /\ x \in TaskObj \ {new}
      BY <1>4, <1>10, <2>4
    <3>2. QED
      BY <1>1, <1>4, <1>9, <2>4, <3>1 DEF Inner
  <2>5. QED
    BY <2>3, <2>4 DEF Inner
<1>20. Fresh'
  BY <1>1, <1>4, <1>7, <1>8 DEF Fresh, Effect, Frame
<1>21. Balanced(N)'
  <2>1. SUFFICES ASSUME NEW u \in Thread PROVE Balance(u, N)'
    BY DEF Balanced
  <2>2. Balance(u, N)
    BY <1>1 DEF Balanced
  <2>3. \A i \in 1..Len(running[u]) :
          /\ prof'.task[running[u][i]].Type = prof.task[running[u][i]].Type
          /\ prof'.task[running[u][i]].inBarrier = prof.task[running[u][i]].inBarrier
    BY <1>9, <1>10
  <2>4. running'[u] = running[u] /\ Resting(u)' = Resting(u)
    BY <1>4 DEF Resting
  <2>5. \A e, S : Books(prof, u, e, S, N) => Books(prof', u, e, S, N)
    BY <1>7
  <2>6. QED
    BY <1>1, <1>9, <2>2, <2>3, <2>4, <2>5, SameBalance
<1>22. KeptRegions
  BY <1>6, <1>9 DEF KeptRegions, Stacked
<1>23. KeptKeys
  <2>1. type = "explicit" => path'[new] = Append(path[o], code)
    BY <1>3, <1>5, <1>6 DEF EnvTypes
  <2>2. \A x \in TaskObj : Type(x) = "none" /\ Type(x)' # "none" => x = new
    BY <1>9
  <2>3. QED
    BY <1>4, <1>6, <1>7, <1>8, <1>9, <2>1, <2>2 DEF KeptKeys, SameOrigin, Type, Effect, Frame
<1>24. QED
  BY <1>22, <1>23, <1>11, <1>13, <1>14, <1>15, <1>17, <1>18, <1>19, <1>20, <1>21 DEF Good, Kept

-----------------------------------------------------------------------------
(* Task scheduling points: a task is left for another *)

(* What a push of task o leaves of the invariant.                          *)
LEMMA SwitchRest ==
  ASSUME NEW U, Shape, OnlyTop, InUse, Started, Waits, Family, Bounds(U), Inner(U), Fresh, Within(U),
         NEW t \in Thread, NEW o \in TaskObj, NEW O, Effect(t, O),
         Pushes(running, running', t, o), Len(running[t]) > 0,
         \A i \in 1..Len(running[t]) : prof.task[running[t][i]].Type # "undeferred",
         \A u \in Thread : ~OnStack(running[u], o),
         prof.task[o].Type = "explicit" \/ prof.task[o].Type = "undeferred",
         prof'.task[o].Type = prof.task[o].Type,
         prof'.task[o].parentTask = prof.task[o].parentTask,
         prof'.task[o].profilingActive = prof.task[o].profilingActive,
         prof'.task[o].inBarrier = prof.task[o].inBarrier,
         prof'.task[o].isStarted = (prof.active /\ prof.task[o].Type = "explicit"),
         prof.task[o].Type = "explicit" /\ prof.active => Bound(prof', t, o) /\ KeyHolds(prof', o),
         \A x \in TaskObj \ {o} : SameButFlags(prof.task[x], prof'.task[x]),
         \A x \in TaskObj \ {o} : prof'.task[x].isStarted = prof.task[x].isStarted,
         \A x \in TaskObj \ {o} : prof'.task[x].inBarrier = prof.task[x].inBarrier,
         \A x \in TaskObj : Type(x) = "explicit" => prof.task[x].parentTask # o,
         queue' = queue \ {o}, next'[t] = NoTask, \A u \in Thread : u # t => next'[u] = next[u],
         UNCHANGED <<sync, children, team, where>>,
         where[t] = "outside" /\ t = Master => team = NoTeam
  PROVE  /\ OnlyTop' /\ InUse' /\ Started' /\ Waits' /\ Family'
         /\ Bounds(U)' /\ Inner(U)' /\ Fresh'
<1>1. /\ EnvTypes /\ ProfileOK(prof) /\ ProfileOK(prof') /\ prof'.active = prof.active
      /\ running \in [Thread -> Seq(TaskObj)] /\ running' \in [Thread -> Seq(TaskObj)]
  BY DEF Shape, EnvTypes, Effect, Frame, Pushes
<1>2. \A u \in Thread : \A i \in 1..Len(running[u]) : running[u][i] \in TaskObj \ {o}
  BY <1>1, CurrentOK DEF OnStack
<1>3. \A u \in Thread : \A i \in 1..Len(running'[u]) :
        \/ i \in 1..Len(running[u]) /\ running'[u][i] = running[u][i]
        \/ u = t /\ i = Len(running[t]) + 1 /\ running'[u][i] = o
  <2>1. PICK k, r : k = running' /\ r = running
    OBVIOUS
  <2>2. Pushes(r, k, t, o) /\ r \in [Thread -> Seq(TaskObj)]
    BY <1>1, <2>1
  <2>3. \A u \in Thread : \A i \in 1..Len(k[u]) :
          \/ i \in 1..Len(r[u]) /\ k[u][i] = r[u][i]
          \/ u = t /\ i = Len(r[t]) + 1 /\ k[u][i] = o
    BY <2>2, PushElements
  <2>4. QED
    BY <2>1, <2>3
<1>4. \A x \in TaskObj : /\ Type(x)' = Type(x)
                         /\ prof'.task[x].parentTask = prof.task[x].parentTask
                         /\ prof'.task[x].profilingActive = prof.task[x].profilingActive
                         /\ prof'.task[x].inBarrier = prof.task[x].inBarrier
  BY DEF SameButFlags, Type
<1>5. \A x \in TaskObj : Type(x) = "explicit" => prof.task[x].parentTask \in TaskObj \ {o}
  BY <1>1 DEF ProfileOK, Type
<1>6. \A u \in Thread : u # t => running'[u] = running[u]
  BY DEF Pushes
<1>7. /\ \A i \in 1..Len(running[t]) : running'[t][i] = running[t][i]
      /\ Len(running[t]) \in Nat /\ Len(running'[t]) = Len(running[t]) + 1
      /\ running'[t][Len(running[t]) + 1] = o
  BY <1>1, CurrentOK DEF Pushes
<1>8. Stacked(o)' /\ \A x : Stacked(x) => Stacked(x)'
  <2>1. Len(running[t]) + 1 \in 1..Len(running'[t])
        /\ \A i \in 1..Len(running[t]) : i \in 1..Len(running'[t])
    BY <1>7
  <2>2. OnStack(running'[t], o) /\ \A x : OnStack(running[t], x) => OnStack(running'[t], x)
    BY <1>7, <2>1 DEF OnStack
  <2>3. QED
    BY <1>6, <2>2 DEF Stacked
<1>9. \A u \in Thread : \A i \in 1..Len(running[u]) : running'[u][i] = running[u][i]
  BY <1>6, <1>7
<1>10. \A u \in Thread : where[u] # "outside" => Bottom(u)' = Bottom(u)
  <2>1. \A u \in Thread : where[u] # "outside" => Base(u) \in 1..Len(running[u])
    BY Bottoms
  <2>2. QED
    BY <1>9, <2>1 DEF Bottom
<1>11. \A x : AtBarrier(x)' <=> AtBarrier(x)
  BY <1>10 DEF AtBarrier
<1>12. OnlyTop'
  <2>1. SUFFICES ASSUME NEW u \in Thread, NEW i \in 1..Len(running'[u]),
                        prof'.task[running'[u][i]].Type = "undeferred"
                 PROVE  i = Len(running'[u]) /\ next'[u] = NoTask
    BY DEF OnlyTop, Type
  <2>2. CASE u # t
    BY <1>2, <1>4, <1>6, <2>1, <2>2 DEF OnlyTop, Type
  <2>3. CASE u = t
    <3>1. i \notin 1..Len(running[t])
      BY <1>2, <1>4, <1>7, <2>1, <2>3 DEF Type
    <3>2. i = Len(running[t]) + 1
      BY <1>3, <2>3, <3>1
    <3>3. QED
      BY <1>7, <2>3, <3>2
  <2>4. QED
    BY <2>2, <2>3
<1>13. InUse'
  BY <1>4, <1>8 DEF InUse
<1>14. Started'
  <2>1. ASSUME NEW x \in TaskObj, x # o
        PROVE  /\ prof'.task[x].isStarted = prof.task[x].isStarted
               /\ x \in queue' <=> x \in queue
    BY <2>1
  <2>2. ASSUME NEW x \in TaskObj
        PROVE  /\ Type(x)' = Type(x)
               /\ prof'.task[x].profilingActive = prof.task[x].profilingActive
    BY <1>4
  <2>3. /\ Type(o) = "explicit" \/ Type(o) = "undeferred"
        /\ Type(o) = "explicit" => prof'.task[o].isStarted = (prof'.active /\ o \notin queue')
        /\ Type(o) = "undeferred" => ~prof'.task[o].isStarted
    <3>1. prof.active \in BOOLEAN /\ prof'.task[o].isStarted \in BOOLEAN
      BY <1>1 DEF ProfileOK, Task
    <3>2. QED
      BY <1>1, <3>1 DEF Type
  <2>4. ASSUME NEW x \in TaskObj
        PROVE  /\ Type(x) \in {"implicit", "explicit"} =>
                    prof'.task[x].profilingActive = prof'.active
               /\ Type(x) = "undeferred" => ~prof'.task[x].profilingActive
    BY <1>1, <2>2 DEF Started
  <2>5. ASSUME NEW x \in TaskObj
        PROVE  /\ Type(x) \in {"none", "undeferred"} => ~prof'.task[x].isStarted
               /\ Type(x) = "implicit" => prof'.task[x].isStarted = prof'.active
               /\ Type(x) = "explicit" => prof'.task[x].isStarted = (prof'.active /\ x \notin queue')
    <3>1. CASE x = o
      BY <2>3, <3>1
    <3>2. CASE x # o
      BY <1>1, <2>1, <3>2 DEF Started
    <3>3. QED
      BY <3>1, <3>2
  <2>6. \A x \in TaskObj : prof'.task[x].Type = Type(x)
    BY <2>2 DEF Type
  <2>7. QED
    BY <2>4, <2>5, <2>6 DEF Started, Type
<1>15. Waits'
  BY <1>1, <1>4, <1>8, <1>11 DEF Waits
<1>16. Family'
  <2>1. SUFFICES ASSUME NEW x \in TaskObj, Type(x)' = "explicit"
                 PROVE  LET y == prof'.task[x].parentTask IN
                        /\ y # x /\ y \notin queue' /\ x \in children[y]
                        /\ prof'.task[y].Type \in {"implicit", "explicit"}
                        /\ \A u \in Thread : where[u] \in {"released", "leaving"} => y # Bottom(u)'
    BY DEF Family, Type
  <2>2. Type(x) = "explicit" /\ prof'.task[x].parentTask = prof.task[x].parentTask
    BY <1>4, <2>1
  <2>3. PICK y \in TaskObj \ {o} : y = prof.task[x].parentTask
    BY <1>5, <2>2
  <2>4. /\ y # x /\ y \notin queue /\ x \in children[y] /\ Type(y) \in {"implicit", "explicit"}
        /\ \A u \in Thread : where[u] \in {"released", "leaving"} => y # Bottom(u)
    BY <2>2, <2>3 DEF Family
  <2>5. \A u \in Thread : where[u] \in {"released", "leaving"} => Bottom(u)' = Bottom(u)
    BY <1>10
  <2>6. QED
    BY <1>4, <2>2, <2>3, <2>4, <2>5 DEF Type
<1>17. Inner(U)'
  <2>1. \A x \in U : x \in TaskObj => (Type(x)' = "explicit" <=> Type(x) = "explicit")
    BY <1>4
  <2>2. ASSUME NEW x \in U, Type(x)' = "explicit" PROVE x \notin queue'
    BY <1>1, <2>1, <2>2 DEF Inner, EnvTypes
  <2>3. ASSUME NEW x \in U, Type(x)' = "explicit", NEW u \in Thread,
               NEW i \in 1..Len(running'[u]), running'[u][i] = x
        PROVE  i = Len(running'[u])
    <3>1. x \in TaskObj
      BY <1>2, <1>3, <2>3
    <3>2. Type(x) = "explicit"
      BY <2>1, <2>3, <3>1
    <3>3. CASE u # t
      BY <1>6, <2>3, <3>2, <3>3 DEF Inner
    <3>4. CASE u = t /\ i \in 1..Len(running[t])
      <4>1. running[t][i] = x
        BY <1>7, <2>3, <3>4
      <4>2. i = Len(running[t])
        BY <3>2, <3>4, <4>1 DEF Inner
      <4>3. x = Current(t)
        BY <1>1, <4>1, <4>2, CurrentOK
      <4>4. running'[t] = running[t]
        BY <3>2, <4>3 DEF Within
      <4>5. QED
        BY <1>7, <4>4
    <3>5. CASE u = t /\ i \notin 1..Len(running[t])
      BY <1>3, <1>7, <3>5
    <3>6. QED
      BY <3>3, <3>4, <3>5
  <2>4. QED
    BY <2>2, <2>3 DEF Inner
<1>18. Bounds(U)'
  <2>1. PICK F : F = {o}
    OBVIOUS
  <2>2. /\ \A x \in TaskObj \ F : SameButFlags(prof.task[x], prof'.task[x])
        /\ \A x \in TaskObj \ F : Type(x) = "explicit" => prof.task[x].parentTask \in TaskObj \ F
    BY <1>5, <2>1
  <2>3. \A u \in Thread : \A i \in 1..Len(running'[u]) :
          running'[u][i] \in F \/ OnStack(running[u], running'[u][i])
    BY <1>3, <2>1 DEF OnStack
  <2>4. ASSUME NEW u \in Thread, NEW i \in 1..Len(running'[u]), running'[u][i] \in F
        PROVE  running'[u][i] = o /\ u = t
    BY <1>2, <1>3, <2>1, <2>4
  <2>5. /\ ~(prof'.task[o].Type \in {"initial", "implicit"})
        /\ prof'.task[o].Type = "explicit" /\ prof'.active => Bound(prof', t, o) /\ KeyHolds(prof', o)
    BY <1>1
  <2>6. \A u \in Thread : \A i \in 1..Len(running'[u]) : running'[u][i] \in F =>
           LET y == running'[u][i] IN
           /\ prof'.task[y].Type \in {"initial", "implicit"} => Bound(prof', u, y)
           /\ prof'.task[y].Type = "explicit" /\ prof'.active =>
                Bound(prof', u, y) /\ KeyHolds(prof', y)
    BY <2>4, <2>5
  <2>7. QED
    BY <1>1, <2>2, <2>3, <2>6, BoundsKept
<1>19. Fresh'
  <2>1. prof'.failure = "none" /\ ~prof'.stale
    BY DEF Fresh, Effect, Frame
  <2>2. prof'.active /\ team' # NoTeam /\ where'[Master] = "outside" => Master \in prof'.now
    BY <1>1 DEF Fresh, Effect
  <2>3. team # NoTeam => running'[Master][1] = running[Master][1]
    <3>1. Master \in Thread
      BY TaskProfileAssumption
    <3>2. team # NoTeam => Len(running[Master]) > 0
      BY DEF Shape, Teams
    <3>3. Len(running[Master]) > 0 => 1 \in 1..Len(running[Master])
      BY <1>1, <3>1, CurrentOK
    <3>4. QED
      BY <1>9, <3>1, <3>2, <3>3
  <2>4. QED
    BY <2>1, <2>2, <2>3 DEF Fresh
<1>20. QED
  BY <1>12, <1>13, <1>14, <1>15, <1>16, <1>17, <1>18, <1>19

(* An undeferred task on top counts for nothing.                           *)
LEMMA IncludedBooks ==
  ASSUME NEW p, NEW q, NEW a, NEW b, Popped(b, a), Plain(p, a), NEW o \in TaskObj, o = b[Len(b)],
         ~OnStack(a, o), q.task[o].Type = "undeferred", OtherKinds(p, q, o), q.active = p.active,
         \A x \in TaskObj \ {o} : q.task[x].inBarrier = p.task[x].inBarrier, NEW rests
  PROVE  ExcOf(q, b, rests) = ExcOf(p, a, rests) /\ IncOf(q, b) = IncOf(p, a)
<1> DEFINE n == Len(a)
           x == a[n]
<1>1. /\ a \in Seq(TaskObj) /\ n \in Nat /\ n > 0 /\ n \in 1..n
      /\ \A i \in 1..n : a[i] \in TaskObj
  <2>1. a \in Seq(TaskObj) /\ n > 0
    BY DEF Plain
  <2>2. n \in Nat
    BY <2>1, LenProperties
  <2>3. QED
    BY <2>1, <2>2, ElementOfSeq
<1>2. /\ Len(b) - 1 = n /\ \A i \in 1..n : b[i] = a[i]
  BY DEF Popped
<1>3. x \in TaskObj /\ x # o /\ p.task[x].Type # "undeferred" /\ Top(p, a) = x
  <2>1. x \in TaskObj /\ x # o
    BY <1>1 DEF OnStack
  <2>2. p.task[x].Type # "undeferred"
    BY <1>1 DEF Plain
  <2>3. QED
    BY <2>1, <2>2 DEF Top
<1>4. q.task[x].Type = p.task[x].Type /\ q.task[x].inBarrier = p.task[x].inBarrier
  BY <1>3 DEF OtherKinds
<1>5. Top(q, b) = x
  <2>1. b[Len(b) - 1] = x
    BY <1>1, <1>2
  <2>2. QED
    BY <2>1 DEF Top
<1>6. Len(b) > 0 /\ Len(a) > 0
  BY <1>1, <1>2 DEF Popped
<1>7. ExcOf(q, b, rests) = ExcOf(p, a, rests)
  BY <1>3, <1>4, <1>5, <1>6 DEF ExcOf
<1>8. \A y \in TaskObj \ {o} : OnStack(b, y) <=> OnStack(a, y)
  <2> HIDE DEF n
  <2>1. Len(b) = n + 1
    BY <1>1, <1>2 DEF Popped, n
  <2>2. \A i \in 1..n + 1 : i \in 1..n \/ i = n + 1
    BY <1>1
  <2>3. \A i \in 1..n : i \in 1..n + 1
    BY <1>1
  <2>4. b[n + 1] = o
    BY <2>1
  <2>5. QED
    BY <1>2, <2>1, <2>2, <2>3, <2>4 DEF OnStack, n
<1>9. \A y \in TaskObj \ {o} :
        /\ q.task[y].Type = p.task[y].Type /\ q.task[y].inBarrier = p.task[y].inBarrier
  BY DEF OtherKinds
<1> HIDE DEF x, n
<1>10. IncOf(q, b) = IncOf(p, a)
  BY <1>3, <1>5, <1>8, <1>9 DEF IncOf
<1>11. QED
  BY <1>7, <1>10

(* A task that is left for a deferred one is no undeferred one: the latter *)
(* runs to its end at once.                                                *)
LEMMA SwitchFrom ==
  ASSUME WellStructured, Shape, OnlyTop, Waits, NEW t \in Thread, NEW o \in queue, Switch(t, o)
  PROVE  /\ Current(t) \in TaskObj /\ Type(Current(t)) \in {"implicit", "explicit"}
         /\ Type(o) = "explicit" /\ next[t] = NoTask /\ o \in TaskObj
<1>1. Type(o) = "explicit" /\ o \in TaskObj /\ next[t] # o /\ o # NoTask
  BY TaskProfileAssumption DEF Shape, Placed, EnvTypes
<1>2. /\ Waiting(t) \/ (InProgram(t) /\ Reporting(t))
      /\ team # NoTeam
  BY <1>1 DEF Switch
<1>3. OnTop(t)
  BY <1>2 DEF Waiting, InProgram
<1>4. /\ Current(t) \in TaskObj /\ next[t] = NoTask
      /\ Type(Current(t)) \in Level(t, Len(running[t])) /\ Type(Current(t)) # "initial"
  BY <1>2, <1>3, OnTopOK
<1>5. Type(Current(t)) # "undeferred"
  <2>1. CASE Waiting(t)
    BY <1>4, <2>1 DEF Waiting, Waits
  <2>2. CASE InProgram(t) /\ Reporting(t)
    BY <1>3, <2>2, Reports
  <2>3. QED
    BY <1>2, <2>1, <2>2
<1>6. QED
  BY <1>1, <1>4, <1>5 DEF Level

(* The measurement goes from one task to the other.                        *)
LEMMA SwitchOver ==
  ASSUME NEW U, NEW N \in [Region -> Nat], Good(U, N), Within(U), NEW t \in Thread,
         NEW f, f = Current(t), Len(running[t]) > 0, NEW o \in queue,
         Type(f) = "implicit" \/ Type(f) = "explicit", running'[t] # running[t],
         Type(o) = "explicit", prof.active
  PROVE  LET q == TaskSchedule(prof, t, f, o, FALSE) IN
         /\ Handler(prof, q, t, {f, o})
         /\ SameTask(prof.task[f], q.task[f]) /\ NowStarted(prof.task[o], q.task[o])
         /\ Settled(q, t, o) /\ Books(q, t, o, AllOf(running[t]) \cup {o}, N)
<1>1. /\ Shape /\ OnlyTop /\ Started /\ Waits /\ Family /\ Bounds(U) /\ Balanced(N)
  BY DEF Good
<1> DEFINE s == running[t]
           S == IncOf(prof, s)
<1>2. /\ Plain(prof, s) /\ f = s[Len(s)] /\ f \in TaskObj /\ Len(s) \in 1..Len(s)
  BY <1>1, TopPlain
<1>3. /\ o \in TaskObj /\ ~Stacked(o) /\ ~OnStack(s, o) /\ f # o
      /\ sync[o] = <<>> /\ ~AtBarrier(o)
  <2>1. o \in TaskObj /\ ~Stacked(o)
    BY <1>1 DEF Shape, EnvTypes, Placed, Stacked, OnStack
  <2>2. ~OnStack(s, o)
    BY <2>1 DEF Stacked
  <2>3. f # o
    BY <1>2, <2>2 DEF OnStack
  <2>4. sync[o] = <<>>
    BY <1>1, <2>1 DEF Waits
  <2>5. ~AtBarrier(o)
    BY <1>1, Bottoms DEF AtBarrier
  <2>6. QED
    BY <2>1, <2>2, <2>3, <2>4, <2>5
<1>4. /\ prof.task[f].profilingActive /\ prof.task[o].profilingActive
      /\ ~prof.task[o].isStarted /\ ~prof.task[o].inBarrier
  BY <1>1, <1>2, <1>3 DEF Started, Waits
<1>5. Ready(prof, t, f) /\ Settled(prof, t, f)
  <2>1. f \notin U \/ Type(f) # "explicit"
    BY DEF Within
  <2>2. QED
    BY <1>1, <1>2, <2>1, TaskReady
<1>6. Ready(prof, t, o)
  BY <1>1, <1>3 DEF Ready, Family, Type
<1>7. /\ ExcOf(prof, s, Resting(t)) = IF prof.task[f].inBarrier THEN NoTask ELSE f
      /\ S = IF prof.task[f].inBarrier THEN Under(s) ELSE Under(s) \cup {f}
      /\ f \notin Under(s)
  <2>1. PICK rests : rests = Resting(t)
    OBVIOUS
  <2>2. prof.task[f].Type # "initial"
    BY DEF Type
  <2>3. /\ ExcOf(prof, s, rests) = IF prof.task[f].inBarrier THEN NoTask ELSE f
        /\ S = IF prof.task[f].inBarrier THEN Under(s) ELSE Under(s) \cup {f}
        /\ f \notin Under(s)
    BY <1>2, <2>2, PlainBooks
  <2>4. QED
    BY <2>1, <2>3
<1>8. AllOf(s) = Under(s) \cup {f}
  <2>1. s \in Seq(TaskObj)
    BY <1>2 DEF Plain
  <2>2. QED
    BY <1>2, <2>1, AllUnder
<1>9. o \notin S /\ S \cup {f} = AllOf(s) /\ (prof.task[f].inBarrier <=> f \notin S)
  <2>1. o \notin AllOf(s)
    BY <1>3 DEF AllOf
  <2>2. QED
    BY <1>7, <1>8, <2>1
<1>10. Books(prof, t, IF prof.task[f].inBarrier THEN NoTask ELSE f, S, N)
  BY <1>1, <1>7 DEF Balanced, Balance
<1>11. ~Included(prof, f) /\ ~Included(prof, o) /\ ProfileOK(prof)
  BY <1>1 DEF Included, Type, Shape
<1>12. PICK p, Z : p = prof /\ Z = S
  OBVIOUS
<1>13. /\ ProfileOK(p) /\ f # o /\ ~Included(p, f) /\ ~Included(p, o)
       /\ p.task[f].profilingActive /\ Ready(p, t, f) /\ Settled(p, t, f)
       /\ p.task[o].profilingActive /\ Ready(p, t, o)
       /\ ~p.task[o].isStarted /\ ~p.task[o].inBarrier
       /\ Books(p, t, IF p.task[f].inBarrier THEN NoTask ELSE f, Z, N)
       /\ p.task[f].inBarrier <=> f \notin Z
       /\ o \notin Z
  BY <1>3, <1>4, <1>5, <1>6, <1>9, <1>10, <1>11, <1>12
<1>14. LET q == TaskSchedule(p, t, f, o, FALSE) IN
       /\ Handler(p, q, t, {f, o})
       /\ SameTask(p.task[f], q.task[f]) /\ NowStarted(p.task[o], q.task[o])
       /\ Settled(q, t, o) /\ Books(q, t, o, Z \cup {f, o}, N)
  BY <1>2, <1>3, <1>13, SwitchBooks
<1>15. Z \cup {f, o} = AllOf(s) \cup {o}
  BY <1>9, <1>12
<1>16. QED
  BY <1>12, <1>14, <1>15

(* task_schedule: a deferred task begins.                                  *)
LEMMA SwitchExplicitGood ==
  ASSUME WellStructured, NEW U, NEW N \in [Region -> Nat], Good(U, N), Within(U), Shape',
         NEW t \in Thread, NEW o \in queue, Switch(t, o)
  PROVE  Good(U, N)' /\ Kept
<1>1. /\ Shape /\ OnlyTop /\ InUse /\ Started /\ Waits /\ Family
      /\ Bounds(U) /\ Inner(U) /\ Fresh /\ Balanced(N)
  BY DEF Good
<1>2. PICK f : f = Current(t)
  OBVIOUS
<1>3. /\ f \in TaskObj /\ (Type(f) = "implicit" \/ Type(f) = "explicit")
      /\ Type(o) = "explicit" /\ next[t] = NoTask /\ o \in TaskObj
  BY <1>1, <1>2, SwitchFrom
<1>4. /\ Returns(t, TaskSchedule(prof, t, f, o, FALSE))
      /\ queue' = queue \ {o} /\ next' = [next EXCEPT ![t] = NoTask]
      /\ running' = [running EXCEPT ![t] = Append(@, o)]
      /\ UNCHANGED <<sync, children, team, where>>
  BY <1>2 DEF Switch
<1>5. /\ EnvTypes /\ ProfileOK(prof) /\ Len(running[t]) > 0
      /\ where[t] = "outside" /\ t = Master => team = NoTeam
      /\ f = running[t][Len(running[t])] /\ Len(running[t]) \in 1..Len(running[t])
  BY <1>1, <1>2, <1>3, SwitchPlace DEF Shape
<1>6. Pushes(running, running', t, o)
  <2>1. running \in [Thread -> Seq(TaskObj)]
    BY <1>5 DEF EnvTypes
  <2>2. QED
    BY <1>3, <1>4, <2>1, PushOK
<1>7. Plain(prof, running[t])
  BY <1>1, <1>2, <1>3, <1>5, TopPlain
<1>8. /\ \A u \in Thread : ~OnStack(running[u], o)
      /\ ~prof.task[o].inBarrier /\ ~prof.task[o].isStarted /\ f # o
  <2>1. \A u \in Thread : ~OnStack(running[u], o)
    BY <1>1 DEF Shape, Placed, OnStack
  <2>2. ~Stacked(o) /\ ~AtBarrier(o)
    BY <1>1, <1>3, <2>1, Bottoms DEF Stacked, AtBarrier
  <2>3. f # o
    BY <1>5, <2>1 DEF OnStack
  <2>4. QED
    BY <1>1, <1>3, <2>1, <2>2, <2>3 DEF Waits, Started
<1> DEFINE q == TaskSchedule(prof, t, f, o, FALSE)
<1>9. /\ Handler(prof, q, t, {f, o})
      /\ SameTask(prof.task[f], q.task[f])
      /\ q.task[o].Type = prof.task[o].Type
      /\ q.task[o].parentTask = prof.task[o].parentTask
      /\ q.task[o].codePtr = prof.task[o].codePtr
      /\ q.task[o].profilingActive = prof.task[o].profilingActive
      /\ q.task[o].inBarrier = prof.task[o].inBarrier
      /\ q.task[o].isStarted = prof.active
      /\ prof.active => Settled(q, t, o) /\ Books(q, t, o, AllOf(running[t]) \cup {o}, N)
      /\ ~prof.active => Books(q, t, NoTask, {}, N)
  <2>1. CASE prof.active
    <3>1. running'[t] # running[t]
      <4>1. Len(running'[t]) # Len(running[t])
        BY <1>5, <1>6 DEF Pushes
      <4>2. QED
        BY <4>1
    <3>2. /\ Handler(prof, q, t, {f, o})
          /\ SameTask(prof.task[f], q.task[f]) /\ NowStarted(prof.task[o], q.task[o])
          /\ Settled(q, t, o) /\ Books(q, t, o, AllOf(running[t]) \cup {o}, N)
      BY <1>2, <1>3, <1>5, <2>1, <3>1, SwitchOver
    <3>3. q.task[o].isStarted \in BOOLEAN /\ prof.active \in BOOLEAN
      BY <1>3, <1>5, <3>2 DEF Handler, ProfileOK, Task
    <3> HIDE DEF q
    <3>4. QED
      BY <2>1, <3>2, <3>3 DEF NowStarted
  <2>2. CASE ~prof.active
    <3>1. /\ ~prof.task[f].profilingActive /\ ~prof.task[o].profilingActive
          /\ ~Included(prof, f) /\ ~Included(prof, o)
      BY <1>1, <1>3, <2>2 DEF Started, Included, Type
    <3>2. q = prof
      BY <3>1, ScheduleUnmeasured
    <3> HIDE DEF q
    <3>3. Handler(prof, q, t, {f, o})
      BY <1>5, <3>2, HandlerNone
    <3>4. Books(q, t, NoTask, {}, N)
      <4>1. Books(prof, t, ExcOf(prof, running[t], Resting(t)), IncOf(prof, running[t]), N)
        BY <1>1 DEF Balanced, Balance
      <4>2. QED
        BY <2>2, <3>2, <4>1, EmptyBooks
    <3>5. prof.task[o].isStarted \in BOOLEAN /\ prof.active \in BOOLEAN
      BY <1>3, <1>5 DEF ProfileOK, Task
    <3>6. QED
      BY <1>8, <2>2, <3>2, <3>3, <3>4, <3>5 DEF SameTask, OnlyRegion
  <2>3. QED
    BY <2>1, <2>2
<1> HIDE DEF q
<1>10. PICK O \in SUBSET TaskObj : O = {f, o}
  BY <1>3
<1>11. /\ Effect(t, O) /\ prof'.task = q.task /\ prof'.regions = q.regions
       /\ prof'.exc = q.exc /\ prof'.flat = q.flat
       /\ \A u, e, Z, M : Books(q, u, e, Z, M) => Books(prof', u, e, Z, M)
  BY <1>4, <1>5, <1>9, <1>10, ReturnsEffect DEF q
<1>12. /\ prof'.active = prof.active
       /\ \A x \in TaskObj \ {o} : /\ SameButFlags(prof.task[x], prof'.task[x])
                                   /\ prof'.task[x].isStarted = prof.task[x].isStarted
                                   /\ prof'.task[x].inBarrier = prof.task[x].inBarrier
  <2>1. \A x \in TaskObj \ {f, o} : prof'.task[x] = prof.task[x]
    BY <1>10, <1>11 DEF Effect, Frame
  <2>2. SameTask(prof.task[f], prof'.task[f])
    BY <1>9, <1>11
  <2>3. QED
    BY <1>11, <2>1, <2>2 DEF Effect, SameButFlags, SameTask, OnlyRegion
<1>13. prof.active => Bound(prof', t, o) /\ KeyHolds(prof', o)
  <2>1. /\ q.task[o].Type = "explicit"
        /\ prof.active => Bound(q, t, o) /\ KeyHolds(q, o)
    BY <1>3, <1>9 DEF Settled, Type
  <2>2. QED
    BY <1>11, <2>1 DEF Bound, KeyHolds, Key, CallPathID
<1>14. /\ OnlyTop' /\ InUse' /\ Started' /\ Waits' /\ Family'
       /\ Bounds(U)' /\ Inner(U)' /\ Fresh'
  <2>1. \A i \in 1..Len(running[t]) : prof.task[running[t][i]].Type # "undeferred"
    BY <1>7 DEF Plain
  <2>2. /\ prof'.task[o].Type = prof.task[o].Type
        /\ prof'.task[o].parentTask = prof.task[o].parentTask
        /\ prof'.task[o].profilingActive = prof.task[o].profilingActive
        /\ prof'.task[o].inBarrier = prof.task[o].inBarrier
        /\ prof'.task[o].isStarted = (prof.active /\ prof.task[o].Type = "explicit")
        /\ prof.task[o].Type = "explicit"
    <3>1. prof.active \in BOOLEAN
      BY <1>5 DEF ProfileOK
    <3>2. QED
      BY <1>3, <1>9, <1>11, <3>1 DEF Type
  <2>3. \A x \in TaskObj : Type(x) = "explicit" => prof.task[x].parentTask # o
    BY <1>1 DEF Family
  <2>4. next'[t] = NoTask /\ \A u \in Thread : u # t => next'[u] = next[u]
    BY <1>4, <1>5 DEF EnvTypes
  <2>5. QED
    BY <1>1, <1>3, <1>4, <1>5, <1>6, <1>8, <1>11, <1>12, <1>13, <2>1, <2>2, <2>3, <2>4, SwitchRest
<1>15. Balance(t, N)'
  <2>1. CASE ~prof.active
    <3>1. ~prof'.active
      BY <1>12, <2>1
    <3>2. ExcOf(prof', running'[t], Resting(t)') = NoTask /\ IncOf(prof', running'[t]) = {}
      BY <3>1, EmptyBooks
    <3>3. QED
      BY <1>9, <1>11, <2>1, <3>2 DEF Balance
  <2>2. CASE prof.active
    <3>1. PICK p, r, k, z, rests : /\ p = prof /\ r = running /\ k = running' /\ z = prof'
                                   /\ rests = Resting(t)'
      OBVIOUS
    <3>2. OtherKinds(p, z, o) /\ z.task[o].Type = "explicit"
      BY <1>3, <1>9, <1>11, <1>12, <3>1 DEF OtherKinds, SameButFlags, Type
    <3>3. /\ r \in [Thread -> Seq(TaskObj)] /\ Pushes(r, k, t, o) /\ Plain(p, r[t])
          /\ ~OnStack(r[t], o)
      BY <1>5, <1>6, <1>7, <1>8, <3>1 DEF EnvTypes
    <3>4. z.task[o].Type # "undeferred"
      BY <3>2
    <3>5. /\ Plain(z, k[t]) /\ k[t][Len(k[t])] = o /\ Under(k[t]) = AllOf(r[t])
      BY <1>3, <3>2, <3>3, <3>4, PushPlain
    <3>6. z.active /\ ~z.task[o].inBarrier /\ z.task[o].Type # "initial"
      BY <1>8, <1>9, <1>11, <1>12, <2>2, <3>1, <3>2
    <3>7. ExcOf(z, k[t], rests) = o /\ IncOf(z, k[t]) = Under(k[t]) \cup {o}
      BY <3>5, <3>6, PlainBooks
    <3>8. Books(prof', t, o, AllOf(running[t]) \cup {o}, N)
      BY <1>9, <1>11, <2>2
    <3>9. QED
      BY <3>1, <3>5, <3>7, <3>8 DEF Balance
  <2>3. QED
    BY <2>1, <2>2
<1>16. Balanced(N)'
  <2>1. ASSUME NEW u \in Thread, u # t PROVE Balance(u, N)'
    <3>1. \A x \in O : ~OnStack(running[u], x)
      <4>1. \A i \in 1..Len(running[u]) : running[u][i] # running[t][Len(running[t])]
        BY <1>1, <1>5, <2>1 DEF Shape, Placed, Apart
      <4>2. QED
        BY <1>5, <1>8, <1>10, <4>1 DEF OnStack
    <3>2. Resting(u)' = Resting(u) /\ running'[u] = running[u] /\ Effect(t, O)
      BY <1>4, <1>6, <1>11, <2>1 DEF Resting, Pushes
    <3>3. QED
      BY <1>1, <2>1, <3>1, <3>2, OthersBalance
  <2>2. QED
    BY <1>15, <2>1 DEF Balanced
<1>17. KeptRegions
  BY <1>8, <1>12 DEF KeptRegions, Stacked, SameButFlags
<1>18. KeptKeys
  <2>1. \A x \in TaskObj : x \in O =>
          SameOrigin(prof.task[x], prof'.task[x]) \/ Type(x)' = "none"
    BY <1>9, <1>10, <1>11, <1>12 DEF SameOrigin, SameButFlags
  <2>2. QED
    BY <1>11, <2>1, SameKeys DEF Effect
<1>19. QED
  BY <1>17, <1>18, <1>14, <1>16 DEF Good, Kept

(* task_schedule: an undeferred task begins, which changes no measurement. *)
LEMMA SwitchIncludedGood ==
  ASSUME NEW U, NEW N \in [Region -> Nat], Good(U, N), Within(U), Shape',
         NEW t \in Thread, NEW o \in TaskObj, o \notin queue, Switch(t, o)
  PROVE  Good(U, N)' /\ Kept
<1>1. /\ Shape /\ OnlyTop /\ InUse /\ Started /\ Waits /\ Family
      /\ Bounds(U) /\ Inner(U) /\ Fresh /\ Balanced(N)
  BY DEF Good
<1>2. PICK f : f = Current(t)
  OBVIOUS
<1>3. /\ next[t] = o /\ o # NoTask
      /\ Returns(t, TaskSchedule(prof, t, f, o, FALSE))
      /\ queue' = queue \ {o} /\ next' = [next EXCEPT ![t] = NoTask]
      /\ running' = [running EXCEPT ![t] = Append(@, o)]
      /\ UNCHANGED <<sync, children, team, where>>
  BY <1>2 DEF Switch
<1>4. /\ EnvTypes /\ ProfileOK(prof) /\ Len(running[t]) > 0
      /\ where[t] = "outside" /\ t = Master => team = NoTeam
      /\ Len(running[t]) \in 1..Len(running[t])
  BY <1>1, SwitchPlace DEF Shape
<1>5. Type(o) = "undeferred"
  BY <1>1, <1>3 DEF Shape, Placed
<1>6. Pushes(running, running', t, o)
  <2>1. running \in [Thread -> Seq(TaskObj)]
    BY <1>4 DEF EnvTypes
  <2>2. QED
    BY <1>3, <1>4, <2>1, PushOK
<1>7. \A i \in 1..Len(running[t]) : Type(running[t][i]) # "undeferred"
  BY <1>1, <1>3 DEF OnlyTop
<1>8. Plain(prof, running[t])
  <2>1. PICK r : r = running
    OBVIOUS
  <2>2. r \in [Thread -> Seq(TaskObj)] /\ Apart(r) /\ Len(r[t]) > 0
    BY <1>1, <1>4, <2>1 DEF EnvTypes, Shape, Placed
  <2>3. /\ \A i \in 1..Len(r[t]) : prof.task[r[t][i]].Type = "undeferred" => i = Len(r[t])
        /\ prof.task[r[t][Len(r[t])]].Type # "undeferred"
    BY <1>4, <1>7, <2>1 DEF Type
  <2>4. Plain(prof, r[t])
    BY <2>2, <2>3, PlainStack
  <2>5. QED
    BY <2>1, <2>4
<1>9. \A u \in Thread : ~OnStack(running[u], o)
  BY <1>1, <1>3 DEF Shape, Placed, OnStack
<1>10. /\ ~prof.task[o].isStarted /\ ~prof.task[o].inBarrier
       /\ prof.task[o].isStarted \in BOOLEAN
  <2>1. sync[o] = <<>> /\ ~AtBarrier(o)
    <3>1. ~AtBarrier(o)
      BY <1>1, <1>5, Bottoms DEF AtBarrier
    <3>2. QED
      BY <1>1, <1>5, <3>1 DEF Waits
  <2>2. QED
    BY <1>1, <1>4, <1>5, <2>1 DEF Waits, Started, ProfileOK, Task
<1> DEFINE q == TaskSchedule(prof, t, f, o, FALSE)
<1>11. q = prof
  BY <1>5, ScheduleUnmeasured DEF Included, Type
<1> HIDE DEF q
<1>12. PICK O : O = {}
  OBVIOUS
<1>13. /\ Effect(t, O) /\ prof'.task = prof.task
       /\ \A u, e, Z, M : Books(prof, u, e, Z, M) => Books(prof', u, e, Z, M)
  <2>1. Handler(prof, q, t, O) /\ Returns(t, q)
    BY <1>3, <1>4, <1>11, HandlerNone DEF q
  <2>2. QED
    BY <1>4, <1>11, <2>1, ReturnsEffect
<1>14. prof'.active = prof.active
  BY <1>13 DEF Effect
<1>15. /\ OnlyTop' /\ InUse' /\ Started' /\ Waits' /\ Family'
       /\ Bounds(U)' /\ Inner(U)' /\ Fresh'
  <2>1. \A i \in 1..Len(running[t]) : prof.task[running[t][i]].Type # "undeferred"
    BY <1>8 DEF Plain
  <2>2. /\ prof'.task[o].Type = prof.task[o].Type
        /\ prof'.task[o].parentTask = prof.task[o].parentTask
        /\ prof'.task[o].profilingActive = prof.task[o].profilingActive
        /\ prof'.task[o].inBarrier = prof.task[o].inBarrier
        /\ prof'.task[o].isStarted = (prof.active /\ prof.task[o].Type = "explicit")
        /\ prof.task[o].Type = "undeferred"
    BY <1>5, <1>10, <1>13 DEF Type
  <2>3. \A x \in TaskObj \ {o} : /\ SameButFlags(prof.task[x], prof'.task[x])
                                 /\ prof'.task[x].isStarted = prof.task[x].isStarted
                                 /\ prof'.task[x].inBarrier = prof.task[x].inBarrier
    BY <1>13 DEF SameButFlags
  <2>4. \A x \in TaskObj : Type(x) = "explicit" => prof.task[x].parentTask # o
    BY <1>1, <1>5 DEF Family
  <2>5. next'[t] = NoTask /\ \A u \in Thread : u # t => next'[u] = next[u]
    BY <1>3, <1>4 DEF EnvTypes
  <2>6. prof.task[o].Type # "explicit"
    BY <2>2
  <2>7. QED
    BY <1>1, <1>3, <1>4, <1>6, <1>9, <1>13, <2>1, <2>2, <2>3, <2>4, <2>5, <2>6, SwitchRest
<1>16. Balance(t, N)'
  <2>1. PICK p, z, a, b, rests : /\ p = prof /\ z = prof' /\ a = running[t] /\ b = running'[t]
                                 /\ rests = Resting(t)
    OBVIOUS
  <2>2. /\ Popped(b, a) /\ o = b[Len(b)] /\ ~OnStack(a, o)
    <3>1. a \in Seq(TaskObj) /\ Len(a) \in Nat
      BY <1>4, <2>1, CurrentOK DEF EnvTypes
    <3>2. Len(b) = Len(a) + 1 /\ b[Len(a) + 1] = o /\ \A i \in 1..Len(a) : b[i] = a[i]
      BY <1>6, <2>1 DEF Pushes
    <3>3. Len(b) - 1 = Len(a)
      BY <3>1, <3>2
    <3>4. QED
      BY <1>9, <2>1, <3>1, <3>2, <3>3 DEF Popped
  <2>3. /\ Plain(p, a) /\ z.task[o].Type = "undeferred" /\ OtherKinds(p, z, o)
        /\ z.active = p.active
        /\ \A x \in TaskObj \ {o} : z.task[x].inBarrier = p.task[x].inBarrier
    BY <1>5, <1>8, <1>13, <1>14, <2>1 DEF OtherKinds, Type
  <2>4. ExcOf(z, b, rests) = ExcOf(p, a, rests) /\ IncOf(z, b) = IncOf(p, a)
    BY <2>2, <2>3, IncludedBooks
  <2>5. Books(prof, t, ExcOf(prof, running[t], Resting(t)), IncOf(prof, running[t]), N)
    BY <1>1 DEF Balanced, Balance
  <2>6. Books(z, t, ExcOf(z, b, rests), IncOf(z, b), N)
    BY <1>13, <2>1, <2>4, <2>5
  <2>7. Resting(t)' = rests
    BY <1>3, <2>1 DEF Resting
  <2>8. QED
    BY <2>1, <2>6, <2>7 DEF Balance
<1>17. Balanced(N)'
  <2>1. ASSUME NEW u \in Thread, u # t PROVE Balance(u, N)'
    <3>1. O \in SUBSET TaskObj /\ \A x \in O : ~OnStack(running[u], x)
      BY <1>12
    <3>2. Resting(u)' = Resting(u) /\ running'[u] = running[u]
      BY <1>3, <1>6, <2>1 DEF Resting, Pushes
    <3>3. QED
      BY <1>1, <1>13, <2>1, <3>1, <3>2, OthersBalance
  <2>2. QED
    BY <1>16, <2>1 DEF Balanced
<1>18. KeptRegions
  BY <1>13 DEF KeptRegions
<1>19. KeptKeys
  <2>1. \A x \in TaskObj : x \in O =>
          SameOrigin(prof.task[x], prof'.task[x]) \/ Type(x)' = "none"
    BY <1>12
  <2>2. QED
    BY <1>13, <2>1, SameKeys DEF Effect
<1>20. QED
  BY <1>18, <1>19, <1>15, <1>17 DEF Good, Kept

(* The invariant is kept by a switch to a task.                             *)
LEMMA SwitchGood ==
  ASSUME WellStructured, NEW U, NEW N \in [Region -> Nat], Good(U, N), Within(U), Shape',
         NEW t \in Thread, NEW o \in TaskObj, Switch(t, o)
  PROVE  Good(U, N)' /\ Kept
BY SwitchExplicitGood, SwitchIncludedGood

-----------------------------------------------------------------------------
(* Task scheduling points: a task completes *)

(* What the completion of task o leaves of the invariant.                  *)
LEMMA CompleteRest ==
  ASSUME NEW U, Shape, OnlyTop, InUse, Started, Waits, Family, Bounds(U), Inner(U), Fresh,
         NEW t \in Thread, NEW o \in TaskObj, o = running[t][Len(running[t])],
         Len(running[t]) > 1, where[t] # "outside" => Len(running[t]) > Base(t),
         NEW O, Effect(t, O), Pops(running, running', t), sync[o] = <<>>, Type(o) # "implicit",
         \A x \in TaskObj : Type(x) = "explicit" => prof.task[x].parentTask # o,
         \A x \in TaskObj \ {o} : SameButFlags(prof.task[x], prof'.task[x]),
         \A x \in TaskObj \ {o} : prof'.task[x].isStarted = prof.task[x].isStarted,
         \A x \in TaskObj \ {o} : prof'.task[x].inBarrier = prof.task[x].inBarrier,
         prof'.task[o].Type = "none", ~prof'.task[o].isStarted, ~prof'.task[o].inBarrier,
         UNCHANGED <<queue, next, sync, team, where>>,
         \A x \in TaskObj \ {o} : children'[x] = children[x] \ {o}
  PROVE  /\ OnlyTop' /\ InUse' /\ Started' /\ Waits' /\ Family'
         /\ Bounds(U)' /\ Inner(U)' /\ Fresh'
<1>1. /\ EnvTypes /\ ProfileOK(prof) /\ ProfileOK(prof') /\ prof'.active = prof.active
      /\ running \in [Thread -> Seq(TaskObj)] /\ running' \in [Thread -> Seq(TaskObj)]
  BY DEF Shape, EnvTypes, Effect, Frame, Pops
<1>2. /\ \A u \in Thread : \A i \in 1..Len(running'[u]) :
           /\ i \in 1..Len(running[u]) /\ running'[u][i] = running[u][i]
           /\ running'[u][i] \in TaskObj \ {o} /\ (u = t => i # Len(running[t]))
      /\ Len(running[t]) \in 1..Len(running[t])
      /\ \A i \in 1..Len(running[t]) : i # Len(running[t]) =>
           i \in 1..Len(running'[t]) /\ running'[t][i] = running[t][i]
  <2>1. Len(running[t]) > 0
    BY <1>1, CurrentOK
  <2>2. QED
    BY <2>1, PoppedTasks
<1>3. \A x \in TaskObj \ {o} :
        /\ Type(x)' = Type(x) /\ prof'.task[x].parentTask = prof.task[x].parentTask
        /\ prof'.task[x].profilingActive = prof.task[x].profilingActive
  BY DEF SameButFlags, Type
<1>4. Type(o)' = "none"
  BY DEF Type
<1>5. \A x \in TaskObj \ {o} : Type(x) = "explicit" => prof.task[x].parentTask \in TaskObj \ {o}
  BY <1>1 DEF ProfileOK, Type
<1>6. \A u \in Thread : u # t => running'[u] = running[u]
  BY DEF Pops
<1>7. \A u \in Thread : where[u] # "outside" => Bottom(u)' = Bottom(u)
  <2>1. \A u \in Thread : where[u] # "outside" => Base(u) \in 1..Len(running[u])
    BY Bottoms
  <2>2. where[t] # "outside" => Base(t) # Len(running[t])
    BY <1>1, CurrentOK DEF Base
  <2>3. QED
    BY <1>2, <1>6, <2>1, <2>2 DEF Bottom
<1>8. \A x : AtBarrier(x)' <=> AtBarrier(x)
  BY <1>7 DEF AtBarrier
<1>9. ~AtBarrier(o)
  BY Bottoms DEF AtBarrier
<1>10. \A x : Stacked(x) /\ x # o => Stacked(x)'
  BY <1>2, <1>6 DEF Stacked, OnStack
<1>11. OnlyTop'
  <2>1. SUFFICES ASSUME NEW u \in Thread, NEW i \in 1..Len(running'[u]),
                        prof'.task[running'[u][i]].Type = "undeferred"
                 PROVE  i = Len(running'[u]) /\ next[u] = NoTask
    BY DEF OnlyTop, Type
  <2>2. i \in 1..Len(running[u]) /\ running'[u][i] = running[u][i]
        /\ (u = t => i # Len(running[t]))
    BY <1>2
  <2>3. Type(running[u][i]) = "undeferred"
    BY <1>2, <1>3, <2>1, <2>2 DEF Type
  <2>4. i = Len(running[u]) /\ next[u] = NoTask
    BY <2>2, <2>3 DEF OnlyTop
  <2>5. QED
    BY <1>6, <2>2, <2>4
<1>12. InUse'
  BY <1>3, <1>4, <1>10 DEF InUse
<1>13. Started'
  <2>1. \A x \in TaskObj \ {o} :
          /\ prof'.task[x].Type = Type(x)
          /\ prof'.task[x].profilingActive = prof.task[x].profilingActive
          /\ prof'.task[x].isStarted = prof.task[x].isStarted
    BY <1>3 DEF Type
  <2>2. /\ prof'.task[o].Type = "none" /\ ~prof'.task[o].isStarted
        /\ prof'.active = prof.active /\ queue' = queue
    BY <1>1
  <2>3. ASSUME NEW x \in TaskObj
        PROVE  /\ prof'.task[x].Type \in {"implicit", "explicit"} =>
                    prof'.task[x].profilingActive = prof'.active
               /\ prof'.task[x].Type = "undeferred" => ~prof'.task[x].profilingActive
    BY <2>1, <2>2 DEF Started
  <2>4. ASSUME NEW x \in TaskObj
        PROVE  /\ prof'.task[x].Type \in {"none", "undeferred"} => ~prof'.task[x].isStarted
               /\ prof'.task[x].Type = "implicit" => prof'.task[x].isStarted = prof'.active
               /\ prof'.task[x].Type = "explicit" =>
                    prof'.task[x].isStarted = (prof'.active /\ x \notin queue')
    BY <2>1, <2>2 DEF Started
  <2>5. QED
    BY <2>3, <2>4 DEF Started, Type
<1>14. Waits'
  <2>1. ASSUME NEW x \in TaskObj
        PROVE  /\ prof'.task[x].inBarrier = (prof.active /\ (sync[x] # <<>> \/ AtBarrier(x)))
               /\ Len(sync[x]) \in {0, 1}
               /\ sync[x] # <<>> => Stacked(x)' /\ Type(x)' # "undeferred"
    <3>1. CASE x = o
      <4>1. prof'.task[o].inBarrier \in BOOLEAN
        BY <1>1 DEF ProfileOK, Task
      <4>2. QED
        BY <1>9, <3>1, <4>1 DEF Waits
    <3>2. CASE x # o
      BY <1>1, <1>3, <1>10, <3>2 DEF Waits
    <3>3. QED
      BY <3>1, <3>2
  <2>2. QED
    BY <1>1, <1>8, <2>1 DEF Waits
<1>15. Family'
  <2>1. SUFFICES ASSUME NEW x \in TaskObj, Type(x)' = "explicit"
                 PROVE  LET y == prof'.task[x].parentTask IN
                        /\ y # x /\ y \notin queue /\ x \in children'[y]
                        /\ prof'.task[y].Type \in {"implicit", "explicit"}
                        /\ \A u \in Thread : where[u] \in {"released", "leaving"} => y # Bottom(u)'
    BY DEF Family, Type
  <2>2. x # o /\ Type(x) = "explicit" /\ prof'.task[x].parentTask = prof.task[x].parentTask
    BY <1>3, <1>4, <2>1
  <2>3. PICK y \in TaskObj \ {o} : y = prof.task[x].parentTask
    BY <1>5, <2>2
  <2>4. /\ y # x /\ y \notin queue /\ x \in children[y] /\ Type(y) \in {"implicit", "explicit"}
        /\ \A u \in Thread : where[u] \in {"released", "leaving"} => y # Bottom(u)
    BY <2>2, <2>3 DEF Family
  <2>5. \A u \in Thread : where[u] \in {"released", "leaving"} => Bottom(u)' = Bottom(u)
    BY <1>7
  <2>6. QED
    BY <1>3, <2>2, <2>3, <2>4, <2>5 DEF Type
<1>16. Inner(U)'
  <2>1. SUFFICES ASSUME NEW x \in U, Type(x)' = "explicit"
                 PROVE  /\ x \notin queue
                        /\ \A u \in Thread : \A i \in 1..Len(running'[u]) :
                             running'[u][i] = x => i = Len(running'[u])
    BY DEF Inner
  <2>2. CASE x \notin TaskObj
    <3>1. x \notin queue
      BY <1>1, <2>2 DEF EnvTypes
    <3>2. QED
      BY <1>2, <2>2, <3>1
  <2>3. CASE x \in TaskObj
    <3>1. x # o /\ Type(x) = "explicit"
      BY <1>3, <1>4, <2>1, <2>3
    <3>2. ASSUME NEW u \in Thread, NEW i \in 1..Len(running'[u]), running'[u][i] = x
          PROVE  i = Len(running'[u])
      <4>1. i \in 1..Len(running[u]) /\ running[u][i] = x /\ (u = t => i # Len(running[t]))
        BY <1>2, <3>2
      <4>2. i = Len(running[u])
        BY <3>1, <4>1 DEF Inner
      <4>3. QED
        BY <1>6, <4>1, <4>2
    <3>3. QED
      BY <3>1, <3>2 DEF Inner
  <2>4. QED
    BY <2>2, <2>3
<1>17. Bounds(U)'
  <2>1. PICK F : F = {o}
    OBVIOUS
  <2>2. /\ \A x \in TaskObj \ F : SameButFlags(prof.task[x], prof'.task[x])
        /\ \A x \in TaskObj \ F : Type(x) = "explicit" => prof.task[x].parentTask \in TaskObj \ F
    BY <1>5, <2>1
  <2>3. \A u \in Thread : \A i \in 1..Len(running'[u]) :
          running'[u][i] \in F \/ OnStack(running[u], running'[u][i])
    BY <1>2 DEF OnStack
  <2>4. \A u \in Thread : \A i \in 1..Len(running'[u]) : running'[u][i] \notin F
    BY <1>2, <2>1
  <2>5. QED
    BY <1>1, <2>2, <2>3, <2>4, BoundsKept
<1>18. Fresh'
  <2>1. prof'.failure = "none" /\ ~prof'.stale
    BY DEF Fresh, Effect, Frame
  <2>2. prof'.active /\ team' # NoTeam /\ where'[Master] = "outside" => Master \in prof'.now
    <3>1. team # NoTeam /\ where[Master] = "outside" => t # Master
      BY DEF Shape, Teams
    <3>2. QED
      BY <1>1, <3>1 DEF Fresh, Effect
  <2>3. team # NoTeam => running'[Master][1] = running[Master][1]
    <3>1. CASE t # Master
      BY <1>6, <3>1, TaskProfileAssumption
    <3>2. CASE t = Master
      <4>1. 1 \in 1..Len(running[t]) /\ 1 # Len(running[t])
        BY <1>2
      <4>2. QED
        BY <1>2, <3>2, <4>1
    <3>3. QED
      BY <3>1, <3>2
  <2>4. QED
    BY <2>1, <2>2, <2>3 DEF Fresh
<1>19. QED
  BY <1>11, <1>12, <1>13, <1>14, <1>15, <1>16, <1>17, <1>18

(* What is true when a task completes.                                     *)
Completes(t, o, b) ==
  /\ o = Current(t) /\ o = running[t][Len(running[t])] /\ o \in TaskObj
  /\ Len(running[t]) > 1 /\ Len(running[t]) \in 1..Len(running[t])
  /\ b = running[t][Len(running[t]) - 1] /\ b \in TaskObj /\ b # o
  /\ next[t] = NoTask /\ sync[o] = <<>> /\ ~prof.task[o].inBarrier
  /\ where[t] # "outside" => Len(running[t]) > Base(t)
  /\ Type(b) # "undeferred" /\ Type(b) \in Level(t, Len(running[t]) - 1)
  /\ b \notin queue /\ b \in Under(running[t])
  /\ \A x \in TaskObj : Type(x) = "explicit" => prof.task[x].parentTask # o
  /\ Pops(running, running', t)

(* ... is true.                                                            *)
LEMMA CompletePlace ==
  ASSUME WellStructured, NEW U, NEW N, Good(U, N), NEW t \in Thread, Complete(t)
  PROVE  /\ Completes(t, Current(t), Last(Front(running[t])))
         /\ Type(Current(t)) = "explicit" \/ Type(Current(t)) = "undeferred"
<1>1. /\ Shape /\ OnlyTop /\ Waits /\ Family /\ EnvTypes
  BY DEF Good, Shape
<1>2. PICK o, b, n : o = Current(t) /\ b = Last(Front(running[t])) /\ n = Len(running[t])
  OBVIOUS
<1>3. /\ OnTop(t) /\ Type(o) \in {"explicit", "undeferred"} /\ sync[o] = <<>>
      /\ children[o] # {} => "orphans" \in Features
      /\ running' = [running EXCEPT ![t] = Front(@)]
  BY <1>2 DEF Complete, InProgram
<1>4. /\ n \in Nat /\ n > 1 /\ o = running[t][n] /\ o \in TaskObj /\ next[t] = NoTask
      /\ where[t] # "outside" => n > Base(t)
  BY <1>1, <1>2, <1>3, TaskOnTop
<1>5. n \in 1..n /\ n - 1 \in 1..n /\ n - 1 # n
  BY <1>4
<1>6. b = running[t][n - 1] /\ b \in TaskObj
  <2>1. Len(running[t]) > 1
    BY <1>2, <1>4
  <2>2. QED
    BY <1>1, <1>2, <2>1, BelowOK
<1>7. /\ b # o /\ Type(b) \in Level(t, n - 1) /\ b \notin queue
  BY <1>1, <1>2, <1>4, <1>5, <1>6 DEF Shape, Placed, Apart, Stacks
<1>8. Type(b) # "undeferred"
  BY <1>1, <1>2, <1>5, <1>6 DEF OnlyTop
<1>9. b \in Under(running[t])
  <2>1. n - 1 \in 1..n - 1
    BY <1>4
  <2>2. QED
    BY <1>2, <1>6, <2>1 DEF Under
<1>10. \A x \in TaskObj : Type(x) = "explicit" => prof.task[x].parentTask # o
  BY <1>1, <1>3 DEF Family, WellStructured
<1>11. Pops(running, running', t)
  <2>1. running \in [Thread -> Seq(TaskObj)] /\ Len(running[t]) > 0
    BY <1>1, <1>2, <1>4 DEF EnvTypes
  <2>2. QED
    BY <1>3, <2>1, PopOK
<1>12. ~prof.task[o].inBarrier
  <2>1. ~AtBarrier(o)
    BY <1>1, <1>3, Bottoms DEF AtBarrier
  <2>2. QED
    BY <1>1, <1>3, <1>4, <2>1 DEF Waits
<1>13. Completes(t, o, b)
  BY <1>2, <1>3, <1>4, <1>5, <1>6, <1>7, <1>8, <1>9, <1>10, <1>11, <1>12 DEF Completes
<1>14. QED
  BY <1>2, <1>3, <1>13

(* The measurement goes back to the task that was left.                    *)
LEMMA CompleteOver ==
  ASSUME NEW U, NEW N \in [Region -> Nat], Good(U, N), Within(U), NEW t \in Thread,
         NEW o, NEW b, Completes(t, o, b), Type(o) = "explicit", prof.active
  PROVE  LET q == TaskSchedule(prof, t, o, b, TRUE) IN
         /\ Handler(prof, q, t, {o, b}) /\ SameTask(prof.task[b], q.task[b])
         /\ q.task[o].Type = "none" /\ ~q.task[o].isStarted /\ ~q.task[o].inBarrier
         /\ Books(q, t, IF prof.task[b].inBarrier THEN NoTask ELSE b,
                  IF prof.task[b].inBarrier THEN Under(running[t]) \ {b} ELSE Under(running[t]), N)
<1>1. /\ Shape /\ OnlyTop /\ Started /\ Waits /\ Family /\ Bounds(U) /\ Balanced(N) /\ Inner(U)
  BY DEF Good
<1> DEFINE s == running[t]
           S == IncOf(prof, s)
<1>2. /\ o = Current(t) /\ o = s[Len(s)] /\ o \in TaskObj /\ Len(s) > 1 /\ Len(s) \in 1..Len(s)
      /\ b = s[Len(s) - 1] /\ b \in TaskObj /\ b # o /\ ~prof.task[o].inBarrier
      /\ Type(b) # "undeferred" /\ Type(b) \in Level(t, Len(s) - 1)
      /\ b \notin queue /\ b \in Under(s)
      /\ \A x \in TaskObj : Type(x) = "explicit" => prof.task[x].parentTask # o
      /\ Pops(running, running', t) /\ (where[t] # "outside" => Len(s) > Base(t))
  BY DEF Completes
<1>3. PICK n : n = Len(s)
  OBVIOUS
<1>4. n \in Nat /\ n > 1 /\ n - 1 \in 1..n /\ n - 1 # n
  BY <1>1, <1>2, <1>3, CurrentOK DEF Shape
<1>5. Plain(prof, s)
  <2>1. Len(s) > 0
    BY <1>3, <1>4
  <2>2. QED
    BY <1>1, <1>2, <2>1, TopPlain
<1>6. Type(b) \in {"implicit", "explicit"}
  <2>1. "explicit" \in Level(t, n)
    BY <1>1, <1>2, <1>3 DEF Shape, Stacks
  <2>2. where[t] # "outside" /\ n > Base(t) /\ Base(t) \in {1, 2}
    BY <1>2, <1>3, <2>1 DEF Level, Base
  <2>3. ~(n - 1 < Base(t))
    BY <1>4, <2>2
  <2>4. QED
    BY <1>2, <1>3, <2>2, <2>3 DEF Level
<1>7. /\ prof.task[o].profilingActive /\ prof.task[b].profilingActive /\ prof.task[b].isStarted
  BY <1>1, <1>2, <1>6 DEF Started
<1>8. Ready(prof, t, o) /\ Settled(prof, t, o)
  <2>1. running'[t] # running[t]
    <3>1. Len(running'[t]) = n - 1
      BY <1>2, <1>3 DEF Pops
    <3>2. QED
      BY <1>3, <1>4, <3>1
  <2>2. Len(running[t]) > 0 /\ o = Current(t)
    BY <1>2, <1>3, <1>4
  <2>3. o \notin U
    BY <2>1, <2>2 DEF Within
  <2>4. QED
    BY <1>1, <1>2, <2>3, TaskReady
<1>9. Ready(prof, t, b) /\ Settled(prof, t, b)
  <2>1. b \notin U \/ Type(b) # "explicit"
    BY <1>1, <1>2, <1>3, <1>4 DEF Inner
  <2>2. n - 1 \in 1..Len(running[t]) /\ b = running[t][n - 1]
    BY <1>2, <1>3, <1>4
  <2>3. QED
    BY <1>1, <1>6, <2>1, <2>2, TaskReady
<1>10. ExcOf(prof, s, Resting(t)) = o /\ S = Under(s) \cup {o} /\ o \notin Under(s)
  <2>1. PICK rests : rests = Resting(t)
    OBVIOUS
  <2>2. prof.task[o].Type # "initial"
    BY DEF Type
  <2>3. ExcOf(prof, s, rests) = o /\ S = Under(s) \cup {o} /\ o \notin Under(s)
    BY <1>2, <1>5, <2>2, PlainBooks
  <2>4. QED
    BY <2>1, <2>3
<1>11. Books(prof, t, o, S, N) /\ o \in S /\ b \in S
  BY <1>1, <1>2, <1>10 DEF Balanced, Balance
<1>12. /\ ~Included(prof, o) /\ ~Included(prof, b) /\ ProfileOK(prof)
       /\ prof.task[b].Type = "explicit" => prof.task[b].parentTask # o
  BY <1>1, <1>2 DEF Included, Type, Shape
<1>13. PICK p, Z : p = prof /\ Z = S
  OBVIOUS
<1>14. /\ ProfileOK(p) /\ o # b /\ ~Included(p, o) /\ ~Included(p, b)
       /\ p.task[o].profilingActive /\ ~p.task[o].inBarrier /\ Ready(p, t, o) /\ Settled(p, t, o)
       /\ p.task[b].profilingActive /\ p.task[b].isStarted /\ Ready(p, t, b) /\ Settled(p, t, b)
       /\ p.task[b].Type = "explicit" => p.task[b].parentTask # o
       /\ Books(p, t, o, Z, N) /\ o \in Z /\ b \in Z
  BY <1>2, <1>7, <1>8, <1>9, <1>11, <1>12, <1>13
<1>15. o \in TaskObj /\ b \in TaskObj
  BY <1>2
<1>16. LET q == TaskSchedule(p, t, o, b, TRUE) IN
       /\ Handler(p, q, t, {o, b}) /\ SameTask(p.task[b], q.task[b])
       /\ q.task[o].Type = "none" /\ ~q.task[o].isStarted /\ ~q.task[o].inBarrier
       /\ Books(q, t, IF p.task[b].inBarrier THEN NoTask ELSE b,
                (IF p.task[b].inBarrier THEN Z \ {b} ELSE Z) \ {o}, N)
  BY <1>14, <1>15, CompleteBooks
<1>17. (IF p.task[b].inBarrier THEN Z \ {b} ELSE Z) \ {o}
         = IF prof.task[b].inBarrier THEN Under(s) \ {b} ELSE Under(s)
  BY <1>10, <1>13
<1>18. QED
  BY <1>13, <1>16, <1>17

(* What task_schedule does to the tasks when o completes.                  *)
LEMMA CompleteEffect ==
  ASSUME NEW U, NEW N \in [Region -> Nat], Good(U, N), Within(U), NEW t \in Thread,
         NEW o, NEW b, Completes(t, o, b), Type(o) = "explicit" \/ Type(o) = "undeferred"
  PROVE  LET q == TaskSchedule(prof, t, o, b, TRUE) IN
         /\ Handler(prof, q, t, {o, b}) /\ SameTask(prof.task[b], q.task[b])
         /\ q.task[o].Type = "none" /\ ~q.task[o].isStarted /\ ~q.task[o].inBarrier
         /\ Type(o) = "explicit" /\ prof.active =>
              Books(q, t, IF prof.task[b].inBarrier THEN NoTask ELSE b,
                    IF prof.task[b].inBarrier THEN Under(running[t]) \ {b} ELSE Under(running[t]), N)
         /\ Type(o) = "undeferred" \/ ~prof.active =>
              \A e, S : Books(prof, t, e, S, N) /\ o \notin S /\ o # e => Books(q, t, e, S, N)
<1>1. Shape /\ Started /\ ProfileOK(prof)
  BY DEF Good, Shape
<1>2. /\ o \in TaskObj /\ b \in TaskObj /\ b # o /\ ~prof.task[o].inBarrier
      /\ Type(b) # "undeferred"
  BY DEF Completes
<1> DEFINE q == TaskSchedule(prof, t, o, b, TRUE)
<1>3. CASE Type(o) = "explicit" /\ prof.active
  BY <1>3, CompleteOver
<1>4. CASE ~(Type(o) = "explicit" /\ prof.active)
  <2>1. Type(o) = "undeferred" \/ ~prof.active
    BY <1>4
  <2>2. \/ Included(prof, o)
        \/ /\ ~Included(prof, o) /\ ~Included(prof, b)
           /\ ~prof.task[o].profilingActive /\ ~prof.task[b].profilingActive
    <3>1. CASE Type(o) = "undeferred"
      BY <3>1 DEF Included, Type
    <3>2. CASE Type(o) = "explicit"
      <4>1. ~prof.active
        BY <1>4, <3>2
      <4>2. ~prof.task[o].profilingActive
        BY <1>1, <1>2, <3>2, <4>1 DEF Started
      <4>3. Type(b) \in {"implicit", "explicit"}
        <5>1. PICK n : n = Len(running[t])
          OBVIOUS
        <5>2. /\ n \in Nat /\ n > 1 /\ n \in 1..n /\ Type(b) \in Level(t, n - 1)
              /\ o = running[t][n] /\ (where[t] # "outside" => n > Base(t))
          BY <1>1, <5>1, CurrentOK DEF Completes, Shape
        <5>3. "explicit" \in Level(t, n)
          BY <1>1, <3>2, <5>1, <5>2 DEF Shape, Stacks
        <5>4. where[t] # "outside" /\ n > Base(t) /\ Base(t) \in {1, 2}
          BY <5>2, <5>3 DEF Level, Base
        <5>5. ~(n - 1 < Base(t))
          BY <5>2, <5>4
        <5>6. QED
          BY <1>2, <5>2, <5>4, <5>5 DEF Level
      <4>4. ~prof.task[b].profilingActive
        BY <1>1, <1>2, <4>1, <4>3 DEF Started
      <4>5. QED
        BY <1>2, <3>2, <4>2, <4>4 DEF Included, Type
    <3>3. QED
      BY <3>1, <3>2
  <2>3. q = Reset(prof, o)
    <3>1. PICK p, done : done \in BOOLEAN /\ p = prof /\ done = TRUE
      OBVIOUS
    <3>2. done \in BOOLEAN
      BY <3>1
    <3>3. \/ Included(p, o) \/ (Included(p, b) /\ ~done)
          \/ /\ ~Included(p, o) /\ ~Included(p, b)
             /\ ~p.task[o].profilingActive /\ ~p.task[b].profilingActive
      BY <2>2, <3>1
    <3>4. TaskSchedule(p, t, o, b, done) = IF done THEN Reset(p, o) ELSE p
      BY <3>3, <3>2, ScheduleUnmeasured
    <3>5. QED
      BY <3>1, <3>4
  <2> HIDE DEF q
  <2>4. PICK p, r : p = prof /\ r = Reset(prof, o)
    OBVIOUS
  <2>5. /\ Handler(prof, r, t, {o}) /\ r.task[o].Type = "none" /\ ~r.task[o].isStarted
        /\ r.task[o].inBarrier = prof.task[o].inBarrier
        /\ \A e, S, M : Books(prof, t, e, S, M) /\ o \notin S /\ o # e => Books(r, t, e, S, M)
    BY <1>1, <1>2, <2>4, ResetHandler
  <2>6. PICK O, P : O = {o} /\ P = {o, b}
    OBVIOUS
  <2>7. Handler(prof, r, t, P)
    <3>1. Handler(prof, r, t, O) /\ O \subseteq P
      BY <2>5, <2>6
    <3>2. QED
      BY <3>1, HandlerMore
  <2>8. r.task[b] = prof.task[b]
    BY <1>2, <2>5 DEF Handler, Frame
  <2>9. SameTask(prof.task[b], r.task[b])
    BY <2>8 DEF SameTask, OnlyRegion
  <2>10. QED
    BY <1>2, <1>4, <2>3, <2>4, <2>5, <2>6, <2>7, <2>9 DEF q
<1>5. QED
  BY <1>3, <1>4

(* A stack after its last task completed.                                  *)
LEMMA CompletePlain ==
  ASSUME Shape, Shape', OnlyTop', NEW t \in Thread, NEW o, NEW b, Completes(t, o, b),
         SameTask(prof.task[b], prof'.task[b])
  PROVE  /\ Plain(prof', running'[t]) /\ running'[t][Len(running'[t])] = b
         /\ ~OnStack(running'[t], o) /\ Popped(running[t], running'[t])
         /\ Under(running[t]) = AllOf(running'[t])
<1>1. /\ o = running[t][Len(running[t])] /\ Len(running[t]) > 1 /\ Pops(running, running', t)
      /\ b = running[t][Len(running[t]) - 1] /\ Type(b) # "undeferred"
  BY DEF Completes
<1>2. PICK n : n = Len(running[t])
  OBVIOUS
<1>3. /\ n \in Nat /\ n > 1 /\ n - 1 \in 1..n - 1 /\ Len(running'[t]) = n - 1
      /\ \A i \in 1..n - 1 : running'[t][i] = running[t][i]
  <2>1. n \in Nat /\ n > 1
    BY <1>1, <1>2, CurrentOK DEF Shape
  <2>2. QED
    BY <1>1, <1>2, <2>1 DEF Pops
<1>4. running'[t][Len(running'[t])] = b
  BY <1>1, <1>2, <1>3
<1>5. ~OnStack(running'[t], o)
  <2>1. Len(running[t]) > 0
    BY <1>2, <1>3
  <2>2. QED
    BY <1>1, <2>1, PoppedTasks DEF OnStack
<1>6. Popped(running[t], running'[t])
  BY <1>1, PopPopped
<1>7. Under(running[t]) = AllOf(running'[t])
  BY <1>2, <1>3 DEF Under, AllOf, OnStack
<1>8. Plain(prof', running'[t])
  <2>1. PICK r, p : r = running' /\ p = prof'
    OBVIOUS
  <2>2. r \in [Thread -> Seq(TaskObj)] /\ Apart(r)
    BY <2>1 DEF Shape, EnvTypes, Placed
  <2>3. Len(r[t]) > 0
    BY <1>3, <2>1
  <2>4. \A i \in 1..Len(r[t]) : p.task[r[t][i]].Type = "undeferred" => i = Len(r[t])
    BY <2>1 DEF OnlyTop, Type
  <2>5. p.task[r[t][Len(r[t])]].Type # "undeferred"
    BY <1>1, <1>4, <2>1 DEF SameTask, OnlyRegion, Type
  <2>6. Plain(p, r[t])
    BY <2>2, <2>3, <2>4, <2>5, PlainStack
  <2>7. QED
    BY <2>1, <2>6
<1>9. QED
  BY <1>4, <1>5, <1>6, <1>7, <1>8

(* What profile q keeps of the tasks but o, and of the books of thread t.  *)
Keeps(q, t, o, b, N) ==
  /\ SameTask(prof.task[b], q.task[b])
  /\ \A x \in TaskObj \ {o} : SameButFlags(prof.task[x], q.task[x])
  /\ \A x \in TaskObj \ {o} : q.task[x].inBarrier = prof.task[x].inBarrier
  /\ Type(o) = "explicit" /\ prof.active =>
       Books(q, t, IF prof.task[b].inBarrier THEN NoTask ELSE b,
             IF prof.task[b].inBarrier THEN Under(running[t]) \ {b} ELSE Under(running[t]), N)
  /\ Type(o) = "undeferred" \/ ~prof.active =>
       \A e, S : Books(prof, t, e, S, N) /\ o \notin S /\ o # e => Books(q, t, e, S, N)

KeepsBooks(p, q) == \A u, e, Z, M : Books(p, u, e, Z, M) => Books(q, u, e, Z, M)

(* The books of a thread after a task completed.                           *)
LEMMA CompleteBalance ==
  ASSUME NEW U, NEW N \in [Region -> Nat], Good(U, N), Shape', OnlyTop', NEW t \in Thread,
         NEW o, NEW b, Completes(t, o, b), Type(o) = "explicit" \/ Type(o) = "undeferred",
         NEW q, prof'.task = q.task, prof'.active = prof.active,
         Keeps(q, t, o, b, N), KeepsBooks(q, prof'), Resting(t)' = Resting(t)
  PROVE  Balance(t, N)'
<1>1. /\ Shape /\ OnlyTop /\ Balanced(N) /\ ProfileOK(prof) /\ EnvTypes
  BY DEF Good, Shape
<1>2. /\ o = running[t][Len(running[t])] /\ o \in TaskObj /\ b \in TaskObj /\ b # o
      /\ Len(running[t]) > 1 /\ Type(b) # "undeferred"
  BY DEF Completes
<1>3. /\ SameTask(prof.task[b], q.task[b])
      /\ \A x \in TaskObj \ {o} : SameButFlags(prof.task[x], q.task[x])
      /\ \A x \in TaskObj \ {o} : q.task[x].inBarrier = prof.task[x].inBarrier
      /\ Type(o) = "explicit" /\ prof.active =>
           Books(q, t, IF prof.task[b].inBarrier THEN NoTask ELSE b,
                 IF prof.task[b].inBarrier THEN Under(running[t]) \ {b} ELSE Under(running[t]), N)
      /\ Type(o) = "undeferred" \/ ~prof.active =>
           \A e, S : Books(prof, t, e, S, N) /\ o \notin S /\ o # e => Books(q, t, e, S, N)
      /\ \A u, e, Z, M : Books(q, u, e, Z, M) => Books(prof', u, e, Z, M)
  BY DEF Keeps, KeepsBooks
<1>4. /\ Plain(prof', running'[t]) /\ running'[t][Len(running'[t])] = b
      /\ ~OnStack(running'[t], o) /\ Popped(running[t], running'[t])
      /\ Under(running[t]) = AllOf(running'[t])
  <2>1. SameTask(prof.task[b], prof'.task[b])
    BY <1>3
  <2>2. QED
    BY <1>1, <2>1, CompletePlain
<1>5. Books(prof, t, ExcOf(prof, running[t], Resting(t)), IncOf(prof, running[t]), N)
  BY <1>1 DEF Balanced, Balance
<1>6. prof'.task[b].inBarrier = prof.task[b].inBarrier /\ prof'.task[b].Type = prof.task[b].Type
  BY <1>3 DEF SameTask, OnlyRegion
<1>7. CASE ~prof.active
  <2>1. ~prof'.active
    BY <1>7
  <2>2. ExcOf(prof', running'[t], Resting(t)') = NoTask /\ IncOf(prof', running'[t]) = {}
    BY <2>1, EmptyBooks
  <2>3. Books(prof, t, NoTask, {}, N)
    BY <1>5, <1>7, EmptyBooks
  <2>4. Books(q, t, NoTask, {}, N)
    BY <1>2, <1>7, <1>3, <2>3, TaskProfileAssumption
  <2>5. Books(prof', t, NoTask, {}, N)
    BY <1>3, <2>4
  <2>6. QED
    BY <2>2, <2>5 DEF Balance
<1>8. CASE prof.active /\ Type(o) = "explicit"
  <2>1. PICK z, a, rests : z = prof' /\ a = running'[t] /\ rests = Resting(t)'
    OBVIOUS
  <2>2. Type(b) # "initial"
    <3>1. PICK n : n = Len(running[t])
      OBVIOUS
    <3>2. /\ n \in Nat /\ n > 1 /\ n \in 1..n /\ Type(b) \in Level(t, n - 1)
          /\ o = running[t][n] /\ (where[t] # "outside" => n > Base(t))
      BY <1>1, <3>1, CurrentOK DEF Completes, Shape
    <3>3. "explicit" \in Level(t, n)
      BY <1>1, <1>8, <3>1, <3>2 DEF Shape, Stacks
    <3>4. where[t] # "outside" /\ n > Base(t) /\ Base(t) \in {1, 2}
      BY <3>2, <3>3 DEF Level, Base
    <3>5. ~(n - 1 < Base(t))
      BY <3>2, <3>4
    <3>6. QED
      BY <1>2, <3>2, <3>4, <3>5 DEF Level
  <2>3. /\ Plain(z, a) /\ a[Len(a)] = b /\ z.active
        /\ z.task[b].Type # "initial" /\ z.task[b].inBarrier = prof.task[b].inBarrier
    BY <1>4, <1>6, <1>8, <2>1, <2>2 DEF Type
  <2>4. PICK u : u = Under(a)
    OBVIOUS
  <2>5. /\ b \notin u
        /\ ExcOf(z, a, rests) = IF z.task[b].inBarrier THEN NoTask ELSE b
        /\ IncOf(z, a) = IF z.task[b].inBarrier THEN u ELSE u \cup {b}
    BY <2>3, <2>4, PlainBooks
  <2>6. Under(running[t]) = u \cup {b}
    <3>1. a \in Seq(TaskObj) /\ Len(a) > 0
      BY <2>3 DEF Plain
    <3>2. AllOf(a) = u \cup {b}
      BY <2>3, <2>4, <3>1, AllUnder
    <3>3. QED
      BY <1>4, <2>1, <3>2
  <2>7. IncOf(z, a) = IF prof.task[b].inBarrier THEN Under(running[t]) \ {b} ELSE Under(running[t])
    BY <2>3, <2>5, <2>6
  <2>8. Books(q, t, ExcOf(z, a, rests), IncOf(z, a), N)
    BY <1>8, <1>3, <2>3, <2>5, <2>7
  <2>9. Books(z, t, ExcOf(z, a, rests), IncOf(z, a), N)
    BY <1>3, <2>1, <2>8
  <2>10. QED
    BY <2>1, <2>9 DEF Balance
<1>9. CASE prof.active /\ Type(o) = "undeferred"
  <2>1. PICK z, p, a, c, rests : /\ z = prof' /\ p = prof /\ a = running'[t] /\ c = running[t]
                                 /\ rests = Resting(t)
    OBVIOUS
  <2>2. /\ Popped(c, a) /\ o = c[Len(c)] /\ ~OnStack(a, o) /\ Plain(z, a)
    BY <1>2, <1>4, <2>1
  <2>3. /\ p.task[o].Type = "undeferred" /\ OtherKinds(z, p, o) /\ p.active = z.active
        /\ \A x \in TaskObj \ {o} : p.task[x].inBarrier = z.task[x].inBarrier
    BY <1>9, <1>3, <2>1 DEF OtherKinds, SameButFlags, Type
  <2>4. PICK o1 \in TaskObj : o1 = o
    BY <1>2
  <2>5. /\ Popped(c, a) /\ Plain(z, a) /\ o1 = c[Len(c)] /\ ~OnStack(a, o1)
         /\ p.task[o1].Type = "undeferred" /\ OtherKinds(z, p, o1) /\ p.active = z.active
         /\ \A x \in TaskObj \ {o1} : p.task[x].inBarrier = z.task[x].inBarrier
    BY <2>2, <2>3, <2>4
  <2>6. ExcOf(p, c, rests) = ExcOf(z, a, rests) /\ IncOf(p, c) = IncOf(z, a)
    BY <2>5, IncludedBooks
  <2>7. Books(p, t, ExcOf(z, a, rests), IncOf(z, a), N)
    BY <1>5, <2>1, <2>6
  <2>8. o \notin IncOf(z, a) /\ o # ExcOf(z, a, rests)
    <3>1. a \in Seq(TaskObj) /\ Len(a) > 0
      BY <2>2 DEF Plain
    <3>2. Len(a) \in Nat /\ 1 \in 1..Len(a)
      <4>1. Len(a) \in Nat
        BY <3>1, LenProperties
      <4>2. QED
        BY <3>1, <4>1
    <3>3. z.task[a[1]].Type # "undeferred"
      BY <2>2, <3>2 DEF Plain
    <3>4. /\ ExcOf(z, a, rests) # NoTask => OnStack(a, ExcOf(z, a, rests))
          /\ \A x \in IncOf(z, a) : OnStack(a, x)
      BY <3>2, <3>3, BooksOnStack
    <3>5. QED
      BY <1>2, <2>2, <3>4, TaskProfileAssumption
  <2>9. Books(q, t, ExcOf(z, a, rests), IncOf(z, a), N)
    BY <1>9, <1>3, <2>1, <2>7, <2>8
  <2>10. Books(z, t, ExcOf(z, a, rests), IncOf(z, a), N)
    BY <1>3, <2>1, <2>9
  <2>11. Resting(t)' = rests
    BY <2>1
  <2>12. QED
    BY <2>1, <2>10, <2>11 DEF Balance
<1>10. QED
  BY <1>7, <1>8, <1>9

(* task_schedule: the task on top completes, the one below goes on.        *)
LEMMA CompleteGood ==
  ASSUME WellStructured, NEW U, NEW N \in [Region -> Nat], Good(U, N), Within(U), Shape',
         NEW t \in Thread, Complete(t)
  PROVE  Good(U, N)' /\ Kept
<1>1. /\ Shape /\ OnlyTop /\ InUse /\ Started /\ Waits /\ Family
      /\ Bounds(U) /\ Inner(U) /\ Fresh /\ Balanced(N)
  BY DEF Good
<1>2. PICK o, b : o = Current(t) /\ b = Last(Front(running[t]))
  OBVIOUS
<1>3. Completes(t, o, b) /\ (Type(o) = "explicit" \/ Type(o) = "undeferred")
  BY <1>2, CompletePlace
<1>4. /\ Returns(t, TaskSchedule(prof, t, o, b, TRUE))
      /\ children' = [x \in TaskObj |-> IF x = o THEN {} ELSE children[x] \ {o}]
      /\ UNCHANGED <<queue, next, sync, team, where>>
  BY <1>2 DEF Complete
<1>5. /\ EnvTypes /\ ProfileOK(prof) /\ o \in TaskObj /\ b \in TaskObj /\ b # o
      /\ o = running[t][Len(running[t])] /\ Len(running[t]) > 1
      /\ (where[t] # "outside" => Len(running[t]) > Base(t))
      /\ Pops(running, running', t) /\ sync[o] = <<>>
      /\ Len(running[t]) - 1 \in 1..Len(running[t]) /\ b = running[t][Len(running[t]) - 1]
      /\ Len(running[t]) \in 1..Len(running[t])
      /\ \A x \in TaskObj : Type(x) = "explicit" => prof.task[x].parentTask # o
  <2>1. PICK n : n = Len(running[t])
    OBVIOUS
  <2>2. n \in Nat /\ n > 1
    BY <1>1, <1>3, <2>1, CurrentOK DEF Completes, Shape
  <2>3. n - 1 \in 1..n
    BY <2>2
  <2>4. QED
    BY <1>1, <1>3, <2>1, <2>3 DEF Completes, Shape
<1> DEFINE q == TaskSchedule(prof, t, o, b, TRUE)
<1>6. /\ Handler(prof, q, t, {o, b}) /\ SameTask(prof.task[b], q.task[b])
      /\ q.task[o].Type = "none" /\ ~q.task[o].isStarted /\ ~q.task[o].inBarrier
      /\ Type(o) = "explicit" /\ prof.active =>
           Books(q, t, IF prof.task[b].inBarrier THEN NoTask ELSE b,
                 IF prof.task[b].inBarrier THEN Under(running[t]) \ {b} ELSE Under(running[t]), N)
      /\ Type(o) = "undeferred" \/ ~prof.active =>
           \A e, S : Books(prof, t, e, S, N) /\ o \notin S /\ o # e => Books(q, t, e, S, N)
  BY <1>3, CompleteEffect
<1>7. Returns(t, q)
  BY <1>4
<1> HIDE DEF q
<1>8. PICK O \in SUBSET TaskObj : O = {o, b}
  BY <1>5
<1>9. /\ Effect(t, O) /\ prof'.task = q.task
      /\ \A u, e, Z, M : Books(q, u, e, Z, M) => Books(prof', u, e, Z, M)
  BY <1>5, <1>6, <1>7, <1>8, ReturnsEffect
<1>10. \A x \in TaskObj \ {o} : /\ SameButFlags(prof.task[x], q.task[x])
                                /\ q.task[x].isStarted = prof.task[x].isStarted
                                /\ q.task[x].inBarrier = prof.task[x].inBarrier
  <2>1. \A x \in TaskObj \ {o, b} : q.task[x] = prof.task[x]
    BY <1>8, <1>9 DEF Effect, Frame
  <2>2. QED
    BY <1>6, <2>1 DEF SameButFlags, SameTask, OnlyRegion
<1>11. /\ OnlyTop' /\ InUse' /\ Started' /\ Waits' /\ Family'
       /\ Bounds(U)' /\ Inner(U)' /\ Fresh'
  <2>1. /\ \A x \in TaskObj \ {o} : SameButFlags(prof.task[x], prof'.task[x])
        /\ \A x \in TaskObj \ {o} : prof'.task[x].isStarted = prof.task[x].isStarted
        /\ \A x \in TaskObj \ {o} : prof'.task[x].inBarrier = prof.task[x].inBarrier
        /\ prof'.task[o].Type = "none" /\ ~prof'.task[o].isStarted /\ ~prof'.task[o].inBarrier
    BY <1>6, <1>9, <1>10
  <2>2. Type(o) # "implicit"
    BY <1>3
  <2>3. \A x \in TaskObj \ {o} : children'[x] = children[x] \ {o}
    BY <1>4
  <2>4. QED
    BY <1>1, <1>4, <1>5, <1>9, <2>1, <2>2, <2>3, CompleteRest
<1>12. Balance(t, N)'
  <2>1. Resting(t)' = Resting(t) /\ prof'.active = prof.active
    BY <1>4, <1>9 DEF Resting, Effect
  <2>2. /\ \A x \in TaskObj \ {o} : SameButFlags(prof.task[x], q.task[x])
        /\ \A x \in TaskObj \ {o} : q.task[x].inBarrier = prof.task[x].inBarrier
    BY <1>10
  <2>3. OnlyTop' /\ prof'.task = q.task
    BY <1>9, <1>11
  <2>4. PICK z : z = q
    OBVIOUS
  <2>5. Keeps(z, t, o, b, N)
    BY <1>6, <2>2, <2>4 DEF Keeps
  <2>6. KeepsBooks(z, prof') /\ prof'.task = z.task
    BY <1>9, <2>4 DEF KeepsBooks
  <2>7. QED
    BY <1>3, <2>1, <2>3, <2>5, <2>6, CompleteBalance
<1>13. Balanced(N)'
  <2>1. ASSUME NEW u \in Thread, u # t PROVE Balance(u, N)'
    <3>1. \A x \in O : ~OnStack(running[u], x)
      <4>1. \A i \in 1..Len(running[u]) :
              /\ running[u][i] # running[t][Len(running[t])]
              /\ running[u][i] # running[t][Len(running[t]) - 1]
        BY <1>1, <1>5, <2>1 DEF Shape, Placed, Apart
      <4>2. QED
        BY <1>5, <1>8, <4>1 DEF OnStack
    <3>2. Resting(u)' = Resting(u) /\ running'[u] = running[u]
      BY <1>4, <1>5, <2>1 DEF Resting, Pops
    <3>3. QED
      BY <1>1, <1>9, <2>1, <3>1, <3>2, OthersBalance
  <2>2. QED
    BY <1>12, <2>1 DEF Balanced
<1>14. KeptRegions
  <2>1. Len(running[t]) > 0
    BY <1>1, <1>5, CurrentOK DEF Shape
  <2>2. ~Stacked(o)'
    BY <1>1, <1>5, <2>1, PoppedTasks DEF Stacked, OnStack
  <2>3. QED
    BY <1>9, <1>10, <2>2 DEF KeptRegions, SameButFlags
<1>15. KeptKeys
  <2>1. \A x \in TaskObj : x \in O =>
          SameOrigin(prof.task[x], prof'.task[x]) \/ Type(x)' = "none"
    BY <1>6, <1>9, <1>10 DEF SameOrigin, SameButFlags, Type
  <2>2. QED
    BY <1>9, <2>1, SameKeys DEF Effect
<1>16. QED
  BY <1>14, <1>15, <1>11, <1>13 DEF Good, Kept

-----------------------------------------------------------------------------
(* Start and pause of the profiler *)

(* No task but the initial one while the profiler starts or pauses, and     *)
(* every other thread is outside of the program.                           *)
Alone(o) ==
  /\ Type(o) = "initial" /\ o \in TaskObj /\ Len(running[Master]) = 1 /\ o = running[Master][1]
  /\ next[Master] = NoTask /\ team = NoTeam /\ sync[o] = <<>>
  /\ \A t \in Thread : where[t] = "outside"
  /\ \A t \in Thread \ {Master} : Len(running[t]) = 0

(* control_tool comes from the initial task, with no other task there.      *)
LEMMA ControlPlace ==
  ASSUME WellStructured, Shape, NEW on, Control(on)
  PROVE  Alone(Current(Master))
<1>1. PICK o : o = Current(Master)
  OBVIOUS
<1>2. OnTop(Master) /\ Type(o) = "initial" /\ sync[o] = <<>> /\ \A t \in Thread : where[t] = "outside"
  BY <1>1 DEF Control, InProgram, WellStructured
<1>3. /\ Len(running[Master]) = 1 /\ o = running[Master][1] /\ o \in TaskObj
      /\ next[Master] = NoTask /\ team = NoTeam
  BY <1>1, <1>2, InitialOnTop, TaskProfileAssumption
<1>4. \A t \in Thread \ {Master} : Len(running[t]) = 0
  BY <1>2 DEF Shape, Stacks
<1>5. QED
  BY <1>1, <1>2, <1>3, <1>4 DEF Alone

(* Then no task of a parallel region is left, and no task waits.           *)
LEMMA AloneTasks ==
  ASSUME Shape, InUse, Waits, Family, NEW o, Alone(o)
  PROVE  /\ \A x \in TaskObj : Type(x) # "implicit" /\ Type(x) # "explicit"
         /\ \A x \in TaskObj : ~prof.task[x].inBarrier /\ sync[x] = <<>>
         /\ \A x : ~AtBarrier(x)
<1>1. \A t \in Thread : \A i \in 1..Len(running[t]) :
        t = Master /\ i = 1 /\ running[t][i] = o
  <2>1. Len(running[Master]) = 1 /\ running[Master][1] = o
        /\ \A t \in Thread \ {Master} : Len(running[t]) = 0
    BY DEF Alone
  <2>2. \A i \in 1..1 : i = 1
    OBVIOUS
  <2>3. \A i : i \notin 1..0
    OBVIOUS
  <2>4. QED
    BY <2>1, <2>2, <2>3
<1>2. \A x : Stacked(x) => x = o
  BY <1>1 DEF Stacked, OnStack
<1>3. Type(o) = "initial" /\ sync[o] = <<>> /\ \A t \in Thread : where[t] = "outside"
  BY DEF Alone
<1>4. \A x \in TaskObj : Type(x) # "implicit"
  BY <1>2, <1>3 DEF InUse
<1>5. \A x \in TaskObj : Type(x) # "explicit"
  <2>1. SUFFICES ASSUME NEW x \in TaskObj, Type(x) = "explicit" PROVE FALSE
    OBVIOUS
  <2>2. PICK y : y = prof.task[x].parentTask
    OBVIOUS
  <2>3. y \in TaskObj
    BY <2>1, <2>2 DEF Shape, ProfileOK, Type
  <2>4. y \notin queue /\ Type(y) \in {"implicit", "explicit"}
    BY <2>1, <2>2 DEF Family
  <2>5. Stacked(y)
    BY <2>3, <2>4 DEF InUse
  <2>6. QED
    BY <1>2, <1>3, <2>4, <2>5
<1>6. \A x : ~AtBarrier(x)
  BY <1>3 DEF AtBarrier
<1>7. \A x \in TaskObj : sync[x] = <<>>
  BY <1>2, <1>3 DEF Waits
<1>8. \A x \in TaskObj : ~prof.task[x].inBarrier
  BY <1>6, <1>7 DEF Waits
<1>9. QED
  BY <1>4, <1>5, <1>6, <1>7, <1>8

(* What control_tool does to the profile.                                  *)
LEMMA ControlEffect ==
  ASSUME NEW U, NEW N \in [Region -> Nat], Good(U, N), NEW on \in BOOLEAN, NEW o, Alone(o),
         Returns(Master, ControlTool(prof, Master, o, on)), prof.active # on
  PROVE  /\ ProfileOK(prof') /\ Frame(prof, prof', Master, {}) /\ prof'.active = on
         /\ prof'.task = prof.task /\ prof'.stale = prof.stale /\ prof'.regions = prof.regions
         /\ on => Books(prof', Master, o, {o}, N)
         /\ ~on => Books(prof', Master, NoTask, {}, N)
<1>1. Shape /\ InUse /\ Waits /\ Family /\ OnlyTop /\ Bounds(U) /\ Balanced(N) /\ ProfileOK(prof)
  BY DEF Good, Shape
<1>2. /\ Len(running[Master]) = 1 /\ o = running[Master][1] /\ o \in TaskObj /\ Master \in Thread
      /\ Type(o) = "initial" /\ team = NoTeam
  BY TaskProfileAssumption DEF Alone
<1>3. Bound(prof, Master, o)
  <2>1. 1 \in 1..Len(running[Master])
    BY <1>2
  <2>2. QED
    BY <1>1, <1>2, <2>1 DEF Bounds
<1>4. ~prof.task[o].inBarrier
  BY <1>1, <1>2, AloneTasks
<1>5. on => Books(prof, Master, NoTask, {}, N)
  <2>1. Books(prof, Master, ExcOf(prof, running[Master], Resting(Master)),
              IncOf(prof, running[Master]), N)
    BY <1>1, <1>2 DEF Balanced, Balance
  <2>2. on => ~prof.active
    BY <1>1 DEF ProfileOK
  <2>3. QED
    BY <2>1, <2>2, EmptyBooks
<1>6. ~on => Books(prof, Master, o, {o}, N)
  <2>1. CASE on
    BY <2>1
  <2>2. CASE ~on
    <3>1. PICK a, rests : a = running[Master] /\ rests = Resting(Master)
      OBVIOUS
    <3>2. Plain(prof, a)
      <4>1. Current(Master) = o /\ Len(running[Master]) > 0
        BY <1>1, <1>2, CurrentOK DEF Shape
      <4>2. QED
        BY <1>1, <1>2, <3>1, <4>1, TopPlain
    <3>3. prof.active /\ ~rests
      BY <1>1, <1>2, <2>2, <3>1 DEF ProfileOK, Resting
    <3>4. a[Len(a)] = o /\ Len(a) = 1
      BY <1>2, <3>1
    <3>5. ExcOf(prof, a, rests) = o /\ IncOf(prof, a) = Under(a) \cup {o}
      BY <1>4, <3>2, <3>3, <3>4, PlainBooks
    <3>6. Under(a) = {}
      BY <3>4 DEF Under
    <3>7. Books(prof, Master, ExcOf(prof, a, rests), IncOf(prof, a), N)
      BY <1>1, <1>2, <3>1 DEF Balanced, Balance
    <3>8. IncOf(prof, a) = {o}
      BY <3>5, <3>6
    <3>9. QED
      BY <3>5, <3>7, <3>8
  <2>3. QED
    BY <2>1, <2>2
<1> DEFINE q == ControlTool(prof, Master, o, on)
<1>7. /\ ProfileOK(q) /\ Frame(prof, q, Master, {}) /\ q.active = on
      /\ q.task = prof.task /\ q.stale = prof.stale /\ q.regions = prof.regions
      /\ OnlyBooks(q, Master, o, on, N)
  <2>1. PICK p : p = prof
    OBVIOUS
  <2>2. /\ ProfileOK(p) /\ Bound(p, Master, o) /\ p.active # on /\ OnlyBooks(p, Master, o, ~on, N)
    BY <1>1, <1>3, <1>5, <1>6, <2>1 DEF OnlyBooks
  <2>3. LET z == ControlTool(p, Master, o, on) IN
        /\ ProfileOK(z) /\ Frame(p, z, Master, {}) /\ z.active = on
        /\ z.task = p.task /\ z.stale = p.stale /\ z.regions = p.regions
        /\ OnlyBooks(z, Master, o, on, N)
    BY <1>2, <2>2, ControlToolBooks
  <2>4. QED
    BY <2>1, <2>3
<1> HIDE DEF q
<1>8. /\ ProfileOK(prof')
      /\ prof'.active = q.active /\ prof'.flat = q.flat /\ prof'.regions = q.regions
      /\ prof'.failure = q.failure /\ prof'.task = q.task
      /\ prof'.exc = q.exc /\ prof'.inc = q.inc /\ prof'.stale = q.stale
  <2>1. Returns(Master, q)
    BY DEF q
  <2>2. QED
    BY <1>7, <2>1, ReturnsOK
<1>9. Frame(prof, prof', Master, {})
  BY <1>7, <1>8 DEF Frame
<1>10. /\ on => Books(prof', Master, o, {o}, N)
       /\ ~on => Books(prof', Master, NoTask, {}, N)
  BY <1>7, <1>8, BooksSame DEF OnlyBooks
<1>11. QED
  BY <1>7, <1>8, <1>9, <1>10

(* The invariant is kept by a control_tool call.                            *)
LEMMA ControlGood ==
  ASSUME WellStructured, NEW U, NEW N \in [Region -> Nat], Good(U, N), Shape',
         NEW on \in BOOLEAN, Control(on)
  PROVE  Good(U, N)' /\ Kept
<1>1. /\ Shape /\ OnlyTop /\ InUse /\ Started /\ Waits /\ Family
      /\ Bounds(U) /\ Inner(U) /\ Fresh /\ Balanced(N)
  BY DEF Good
<1>2. PICK o : o = Current(Master)
  OBVIOUS
<1>3. Returns(Master, ControlTool(prof, Master, o, on)) /\ prof.active # on
      /\ UNCHANGED <<queue, running, next, sync, children, team, where>>
  BY <1>2 DEF Control, env
<1>4. Alone(o)
  BY <1>1, <1>2, ControlPlace
<1>5. /\ \A x \in TaskObj : Type(x) # "implicit" /\ Type(x) # "explicit"
      /\ \A x \in TaskObj : ~prof.task[x].inBarrier /\ sync[x] = <<>>
      /\ \A x : ~AtBarrier(x)
  BY <1>1, <1>4, AloneTasks
<1>6. /\ ProfileOK(prof') /\ Frame(prof, prof', Master, {}) /\ prof'.active = on
      /\ prof'.task = prof.task /\ prof'.stale = prof.stale /\ prof'.regions = prof.regions
      /\ on => Books(prof', Master, o, {o}, N)
      /\ ~on => Books(prof', Master, NoTask, {}, N)
  BY <1>3, <1>4, ControlEffect
<1>7. \A x : Type(x)' = Type(x) /\ Bottom(x)' = Bottom(x)
  BY <1>3, <1>6 DEF Type, Bottom, Base
<1>8. OnlyTop' /\ InUse' /\ Inner(U)' /\ Family'
  <2>1. OnlyTop'
    BY <1>1, <1>3, <1>7 DEF OnlyTop
  <2>2. InUse'
    BY <1>1, <1>3, <1>7 DEF InUse, Stacked
  <2>3. Inner(U)'
    BY <1>1, <1>3, <1>7 DEF Inner
  <2>4. Family'
    BY <1>5, <1>7 DEF Family
  <2>5. QED
    BY <2>1, <2>2, <2>3, <2>4
<1>9. Started'
  BY <1>1, <1>5, <1>6 DEF Started, Type
<1>10. Waits'
  <2>1. \A x \in TaskObj : prof.task[x].inBarrier \in BOOLEAN
    BY <1>1 DEF Shape, ProfileOK, Task
  <2>2. \A x : ~AtBarrier(x)'
    BY <1>3, <1>5, <1>7 DEF AtBarrier
  <2>3. \A x \in TaskObj : prof'.task[x].inBarrier = FALSE /\ sync'[x] = <<>> /\ Len(<<>>) = 0
    BY <1>3, <1>5, <1>6, <2>1
  <2>4. QED
    BY <2>2, <2>3 DEF Waits
<1>11. Bounds(U)'
  <2>1. \A t \in Thread : \A i \in 1..Len(running[t]) : running[t][i] \in TaskObj
    BY <1>1, CurrentOK DEF Shape
  <2>2. \A t, x : Bound(prof, t, x) => Bound(prof', t, x)
    BY <1>6 DEF Bound, Frame
  <2>3. QED
    BY <1>1, <1>3, <1>5, <1>7, <2>1, <2>2 DEF Bounds
<1>12. Fresh'
  <2>1. team = NoTeam
    BY <1>4 DEF Alone
  <2>2. prof'.failure = prof.failure
    BY <1>6 DEF Frame
  <2>3. QED
    BY <1>1, <1>3, <1>6, <2>1, <2>2 DEF Fresh
<1>13. Balance(Master, N)'
  <2>1. PICK z, a, rests : z = prof' /\ a = running'[Master] /\ rests = Resting(Master)'
    OBVIOUS
  <2>2. CASE ~on
    <3>1. ~z.active
      BY <1>6, <2>1, <2>2
    <3>2. ExcOf(z, a, rests) = NoTask /\ IncOf(z, a) = {}
      BY <3>1, EmptyBooks
    <3>3. Books(z, Master, NoTask, {}, N)
      BY <1>6, <2>1, <2>2
    <3>4. QED
      BY <2>1, <3>2, <3>3 DEF Balance
  <2>3. CASE on
    <3>1. Plain(z, a)
      <4>1. Current(Master) = o /\ Len(running[Master]) > 0
        BY <1>1, <1>2, <1>4, CurrentOK, TaskProfileAssumption DEF Shape, Alone
      <4>2. Type(o) # "undeferred"
        BY <1>4 DEF Alone
      <4>3. Plain(prof, running[Master])
        BY <1>1, <4>1, <4>2, TopPlain, TaskProfileAssumption
      <4>4. z.task = prof.task /\ a = running[Master]
        BY <1>3, <1>6, <2>1
      <4>5. QED
        BY <4>3, <4>4 DEF Plain
    <3>2. z.active /\ ~rests /\ a[Len(a)] = o /\ Len(a) = 1 /\ ~z.task[o].inBarrier
      BY <1>3, <1>4, <1>5, <1>6, <2>1, <2>3 DEF Alone, Resting
    <3>3. ExcOf(z, a, rests) = o /\ IncOf(z, a) = Under(a) \cup {o}
      BY <3>1, <3>2, PlainBooks
    <3>4. Under(a) = {}
      BY <3>2 DEF Under
    <3>5. IncOf(z, a) = {o}
      BY <3>3, <3>4
    <3>6. Books(z, Master, ExcOf(z, a, rests), IncOf(z, a), N)
      BY <1>6, <2>1, <2>3, <3>3, <3>5
    <3>7. QED
      BY <2>1, <3>6 DEF Balance
  <2>4. QED
    BY <2>2, <2>3
<1>14. Balanced(N)'
  <2>1. ASSUME NEW u \in Thread, u # Master PROVE Balance(u, N)'
    <3>1. Len(running[u]) = 0 /\ running' = running
      BY <1>3, <1>4, <2>1 DEF Alone
    <3>2. ExcOf(prof, running[u], Resting(u)) = NoTask /\ IncOf(prof, running[u]) = {}
      BY <3>1, EmptyBooks
    <3>3. Books(prof, u, NoTask, {}, N)
      BY <1>1, <3>2 DEF Balanced, Balance
    <3>4. Books(prof', u, NoTask, {}, N)
      <4>1. PICK O, S : O = {} /\ S = {}
        OBVIOUS
      <4>2. /\ ProfileOK(prof) /\ ProfileOK(prof') /\ Frame(prof, prof', Master, O)
            /\ NoTask \notin O /\ S \cap O = {} /\ Books(prof, u, NoTask, S, N)
        BY <1>1, <1>6, <3>3, <4>1 DEF Shape
      <4>3. Books(prof', u, NoTask, S, N)
        BY <2>1, <4>2, BooksFrame
      <4>4. QED
        BY <4>1, <4>3
    <3>5. ExcOf(prof', running'[u], Resting(u)') = NoTask /\ IncOf(prof', running'[u]) = {}
      BY <3>1, EmptyBooks
    <3>6. QED
      BY <3>4, <3>5 DEF Balance
  <2>2. QED
    BY <1>13, <2>1 DEF Balanced
<1>15. KeptRegions
  BY <1>6 DEF KeptRegions
<1>16. KeptKeys
  BY <1>5, <1>6 DEF KeptKeys, SameOrigin, Type, Frame
<1>17. QED
  BY <1>15, <1>16, <1>8, <1>9, <1>10, <1>11, <1>12, <1>14 DEF Good, Kept

-----------------------------------------------------------------------------
(* The invariant of well-structured programs *)

(* No task is borrowed, no region is measured beyond its tasks.            *)
NoMore == [r \in Region |-> 0]

Sound == Good({}, NoMore)

(* Before the program begins no task is there and no region is measured.   *)
LEMMA InitGood == Init => Sound
<1> SUFFICES ASSUME Init PROVE Sound
  OBVIOUS
<1>1. Shape /\ EnvTypes
  BY InitShape DEF Shape
<1>2. PICK on \in BOOLEAN, flat \in BOOLEAN :
        prof = [active |-> on, flat |-> flat, regions |-> <<>>, failure |-> "none",
                task |-> [o \in TaskObj |-> Blank], exc |-> <<>>, inc |-> <<>>,
                now |-> {}, stale |-> FALSE]
  BY DEF Init
<1>3. \A o \in TaskObj : prof.task[o] = Blank
  BY <1>2
<1>4. \A o \in TaskObj : Type(o) = "none" /\ ~prof.task[o].isStarted /\ ~prof.task[o].inBarrier
  BY <1>3 DEF Type, Blank
<1>5. DOMAIN prof.exc = {} /\ prof.failure = "none" /\ ~prof.stale
  BY <1>2
<1>6. /\ \A t \in Thread : running[t] = <<>> /\ Len(running[t]) = 0 /\ where[t] = "outside"
      /\ \A o \in TaskObj : sync[o] = <<>> /\ Len(sync[o]) = 0
      /\ team = NoTeam
  BY DEF Init
<1>7. \A x : ~AtBarrier(x)
  BY <1>6 DEF AtBarrier
<1>8. OnlyTop /\ InUse /\ Started /\ Family
  <2>1. OnlyTop
    BY <1>6 DEF OnlyTop
  <2>2. InUse
    BY <1>4 DEF InUse
  <2>3. Started
    BY <1>4 DEF Started
  <2>4. Family
    BY <1>4 DEF Family
  <2>5. QED
    BY <2>1, <2>2, <2>3, <2>4
<1>9. Waits
  <2>1. \A o \in TaskObj : prof.task[o].inBarrier = FALSE
    BY <1>3 DEF Blank
  <2>2. QED
    BY <1>6, <1>7, <2>1 DEF Waits
<1>10. Bounds({}) /\ Inner({})
  BY <1>6 DEF Bounds, Inner
<1>11. Fresh
  BY <1>5, <1>6, TaskProfileAssumption DEF Fresh
<1>12. Balanced(NoMore)
  <2>1. SUFFICES ASSUME NEW t \in Thread PROVE Balance(t, NoMore)
    BY DEF Balanced
  <2>2. ExcOf(prof, running[t], Resting(t)) = NoTask /\ IncOf(prof, running[t]) = {}
    BY <1>6, EmptyBooks
  <2>3. IsFiniteSet({})
    BY FS_EmptySet
  <2>4. Books(prof, t, NoTask, {}, NoMore)
    BY <1>5, <2>3, TaskProfileAssumption DEF Books, NoMore
  <2>5. QED
    BY <2>2, <2>4 DEF Balance
<1>13. QED
  BY <1>1, <1>8, <1>9, <1>10, <1>11, <1>12 DEF Sound, Good

(* Nothing is different when nothing changes.                              *)
LEMMA StutterGood ==
  ASSUME NEW U, NEW N, Good(U, N), Shape', UNCHANGED vars
  PROVE  Good(U, N)' /\ Kept
<1>1. /\ Shape /\ OnlyTop /\ InUse /\ Started /\ Waits /\ Family
      /\ Bounds(U) /\ Inner(U) /\ Fresh /\ Balanced(N)
  BY DEF Good
<1>2. UNCHANGED <<prof, running, queue, next, sync, children, team, where>>
  BY DEF vars, env
<1>3. \A x : Type(x)' = Type(x) /\ Bottom(x)' = Bottom(x) /\ Resting(x)' = Resting(x)
  BY <1>2 DEF Type, Bottom, Base, Resting
<1>4. \A x : AtBarrier(x)' <=> AtBarrier(x)
  BY <1>2, <1>3 DEF AtBarrier
<1>5. OnlyTop' /\ InUse'
  BY <1>1, <1>2, <1>3 DEF OnlyTop, InUse, Stacked
<1>6. Started'
  BY <1>1, <1>2, <1>3 DEF Started
<1>7. Waits'
  BY <1>1, <1>2, <1>3, <1>4 DEF Waits, Stacked
<1>8. Family' /\ Fresh'
  BY <1>1, <1>2, <1>3 DEF Family, Fresh
<1>9. Bounds(U)' /\ Inner(U)'
  BY <1>1, <1>2, <1>3 DEF Bounds, Inner
<1>10. Balanced(N)'
  BY <1>1, <1>2, <1>3 DEF Balanced, Balance
<1>11. KeptRegions
  BY <1>2 DEF KeptRegions
<1>12. KeptKeys
  BY <1>2 DEF KeptKeys, SameOrigin, Type
<1>13. QED
  BY <1>11, <1>12, <1>5, <1>6, <1>7, <1>8, <1>9, <1>10 DEF Good, Kept

(* Every step of a well-structured program keeps the invariant.            *)
LEMMA NextGood ==
  ASSUME WellStructured, NEW U, NEW N \in [Region -> Nat], Good(U, N), Within(U), [Next]_vars
  PROVE  Good(U, N)' /\ Kept
<1>1. Shape'
  BY NextShape DEF Good
<1>2. CASE InitialTaskBegin \/ InitialTaskEnd \/ ParallelRegionBegin \/ ParallelRegionEnd \/ BarrierOpens
  BY <1>1, <1>2, InitialTaskBeginGood, InitialTaskEndGood, ParallelRegionBeginGood,
     ParallelRegionEndGood, BarrierOpensGood
<1>3. CASE \E t \in Thread : ImplicitBegin(t) \/ BarrierBegin(t) \/ BarrierEnd(t) \/ ImplicitEnd(t)
  BY <1>1, <1>3, ImplicitBeginGood, BarrierBeginGood, BarrierEndGood, ImplicitEndGood
<1>4. CASE \E t \in Thread :
             \/ \E kind \in {"taskwait", "taskgroup"} : RegionBegin(t, kind)
             \/ RegionEnd(t)
  BY <1>1, <1>4, RegionBeginGood, RegionEndGood
<1>5. CASE \E t \in Thread : \E code \in TaskCode, type \in {"explicit", "undeferred"} :
             CreateTask(t, type, code)
  BY <1>1, <1>5, CreateTaskGood
<1>6. CASE \E t \in Thread : (\E o \in TaskObj : Switch(t, o)) \/ Complete(t)
  BY <1>1, <1>6, SwitchGood, CompleteGood
<1>7. CASE \E on \in BOOLEAN : Control(on)
  BY <1>1, <1>7, ControlGood
<1>8. CASE Stopped \/ UNCHANGED vars
  BY <1>1, <1>8, StutterGood DEF Stopped
<1>9. QED
  BY <1>2, <1>3, <1>4, <1>5, <1>6, <1>7, <1>8 DEF Next

(* Every step of a well-structured program keeps Sound and the bindings.    *)
LEMMA NextSound == ASSUME WellStructured, Sound, [Next]_vars PROVE Sound' /\ Kept
<1>1. PICK U, N : U = {} /\ N = NoMore
  OBVIOUS
<1>2. Good(U, N) /\ N \in [Region -> Nat]
  BY <1>1 DEF Sound, NoMore
<1>3. Within(U)
  BY <1>1 DEF Within
<1>4. Good(U, N)' /\ Kept
  BY <1>2, <1>3, NextGood
<1>5. QED
  BY <1>1, <1>4 DEF Sound

(* In a well-structured program every thread's books balance after every   *)
(* event: what is started of each region is what the task on top and the   *)
(* tasks below it call for, with the kinds, flags, parents and bindings of  *)
(* tasks that this rests on.                                               *)
THEOREM SoundInvariant == ASSUME WellStructured PROVE Spec => []Sound
<1>1. Init => Sound
  BY InitGood
<1>2. Sound /\ [Next]_vars => Sound'
  BY NextSound
<1>3. QED
  BY <1>1, <1>2, PTL DEF Spec

-----------------------------------------------------------------------------
(* What the invariant says of the properties of TaskProfile *)

(* The elements of a stack.                                                *)
LEMMA StackElements ==
  ASSUME EnvTypes, NEW t \in Thread
  PROVE  /\ \A x : x \in ToSet(running[t]) <=> OnStack(running[t], x)
         /\ DOMAIN running[t] = 1..Len(running[t]) /\ ToSet(running[t]) \subseteq TaskObj
<1>1. running[t] \in Seq(TaskObj)
  BY DEF EnvTypes
<1>2. DOMAIN running[t] = 1..Len(running[t]) /\ \A i \in 1..Len(running[t]) : running[t][i] \in TaskObj
  BY <1>1, ElementOfSeq, LenProperties
<1>3. QED
  BY <1>2 DEF ToSet, OnStack

(* A task is measured if the profiler is active, but for an undeferred one. *)
LEMMA MeasuredTasks ==
  ASSUME NEW U, NEW N, Good(U, N), NEW t \in Thread
  PROVE  \A x : x \in Measured(t) <=>
           prof.active /\ OnStack(running[t], x) /\ Type(x) # "undeferred"
<1>1. EnvTypes /\ Stacks /\ Started
  BY DEF Good, Shape
<1>2. SUFFICES ASSUME NEW x, OnStack(running[t], x)
               PROVE  (IF Type(x) = "initial" THEN prof.active ELSE prof.task[x].profilingActive)
                        <=> prof.active /\ Type(x) # "undeferred"
  BY <1>1, StackElements DEF Measured
<1>3. x \in TaskObj /\ Type(x) \in {"initial", "implicit", "explicit", "undeferred"}
  <2>1. PICK i \in 1..Len(running[t]) : running[t][i] = x
    BY <1>2 DEF OnStack
  <2>2. Type(x) \in Level(t, i) /\ x \in TaskObj
    BY <1>1, <2>1, CurrentOK DEF Stacks
  <2>3. QED
    BY <2>2 DEF Level
<1>4. QED
  BY <1>1, <1>3 DEF Started

(* The task at the top of a stack, and what lies over it.                  *)
LEMMA TopTask ==
  ASSUME Shape, OnlyTop, NEW t \in Thread, Len(running[t]) > 0
  PROVE  \E n \in 1..Len(running[t]) :
           /\ running[t][n] = Top(prof, running[t]) /\ Type(running[t][n]) # "undeferred"
           /\ \A j \in 1..Len(running[t]) : j > n => Type(running[t][j]) = "undeferred"
<1>1. EnvTypes /\ Stacks
  BY DEF Shape
<1>2. PICK m : m = Len(running[t])
  OBVIOUS
<1>3. m \in Nat /\ m > 0 /\ m \in 1..m
  BY <1>1, <1>2, CurrentOK
<1>4. \A i \in 1..m : Type(running[t][i]) = "undeferred" => i = m
  BY <1>2 DEF OnlyTop
<1>5. CASE Type(running[t][m]) # "undeferred"
  <2>1. Top(prof, running[t]) = running[t][m]
    BY <1>2, <1>5 DEF Top, Type
  <2>2. \A j \in 1..m : ~(j > m)
    BY <1>3
  <2>3. QED
    BY <1>2, <1>3, <1>5, <2>1, <2>2
<1>6. CASE Type(running[t][m]) = "undeferred"
  <2>1. m # 1
    <3>1. SUFFICES ASSUME m = 1 PROVE FALSE
      OBVIOUS
    <3>2. Type(running[t][1]) \in Level(t, 1)
      BY <1>1, <1>2, <1>3, <3>1 DEF Stacks
    <3>3. where[t] = "outside" => t = Master
      BY <1>1, <1>2, <1>3 DEF Stacks
    <3>4. Level(t, 1) \in {{"initial"}, {"implicit"}}
      BY <3>3 DEF Level, Base
    <3>5. QED
      BY <1>6, <3>1, <3>2, <3>4
  <2>2. m - 1 \in 1..m /\ m - 1 # m /\ \A j \in 1..m : j > m - 1 => j = m
    BY <1>3, <2>1
  <2>3. Top(prof, running[t]) = running[t][m - 1]
    BY <1>2, <1>6 DEF Top, Type
  <2>4. Type(running[t][m - 1]) # "undeferred"
    BY <1>4, <2>2
  <2>5. QED
    BY <1>2, <1>6, <2>2, <2>3, <2>4
<1>7. QED
  BY <1>5, <1>6

(* The time of a thread belongs to the task at the top of its stack, but   *)
(* not to the initial task that rests.                                     *)
LEMMA ChargedTask ==
  ASSUME NEW U, NEW N, Good(U, N), NEW t \in Thread
  PROVE  \A x : x \in Charged(t) <=>
           /\ prof.active /\ Len(running[t]) > 0 /\ x = Top(prof, running[t])
           /\ ~(Resting(t) /\ Type(x) = "initial")
<1>1. Shape /\ EnvTypes /\ Stacks /\ Apart(running) /\ OnlyTop
  BY DEF Good, Shape, Placed
<1>2. SUFFICES ASSUME NEW x, prof.active, OnStack(running[t], x)
               PROVE  x \in Charged(t) <=>
                        x = Top(prof, running[t]) /\ ~(Resting(t) /\ Type(x) = "initial")
  <2>1. Len(running[t]) > 0 => OnStack(running[t], Top(prof, running[t]))
    BY <1>1, TopTask DEF OnStack
  <2>2. \A x : x \in Charged(t) => x \in Measured(t)
    BY DEF Charged
  <2>3. \A x : OnStack(running[t], x) => Len(running[t]) > 0
    <3>1. Len(running[t]) \in Nat
      BY <1>1, CurrentOK
    <3>2. QED
      BY <3>1 DEF OnStack
  <2>4. QED
    BY <2>1, <2>2, <2>3, MeasuredTasks
<1>3. PICK k \in 1..Len(running[t]) : running[t][k] = x
  BY <1>2 DEF OnStack
<1>4. PICK m : m = Len(running[t])
  OBVIOUS
<1>5. m \in Nat /\ m > 0 /\ DOMAIN running[t] = 1..m
  BY <1>1, <1>3, <1>4, CurrentOK, StackElements
<1>6. PICK n \in 1..m :
        /\ running[t][n] = Top(prof, running[t]) /\ Type(running[t][n]) # "undeferred"
        /\ \A j \in 1..m : j > n => Type(running[t][j]) = "undeferred"
  BY <1>1, <1>4, <1>5, TopTask
<1>7. \A i \in 1..m : running[t][i] = x => i = k
  BY <1>1, <1>3, <1>4 DEF Apart
<1>8. (Type(x) # "undeferred" /\ \A j \in 1..m : j > k => Type(running[t][j]) = "undeferred") <=> k = n
  <2>1. k \in Nat /\ n \in Nat /\ k \in 1..m
    BY <1>3, <1>4, <1>5, <1>6
  <2>2. k < n => ~\A j \in 1..m : j > k => Type(running[t][j]) = "undeferred"
    BY <1>6, <2>1
  <2>3. k > n => Type(x) = "undeferred"
    BY <1>3, <1>6, <2>1
  <2>4. QED
    BY <1>3, <1>6, <2>1, <2>2, <2>3
<1>9. (k = n) <=> (x = Top(prof, running[t]))
  BY <1>3, <1>6, <1>7
<1>10. (Resting(t) /\ Type(x) = "initial") <=> (Type(x) = "initial" /\ team # NoTeam)
  <2>1. SUFFICES ASSUME Type(x) = "initial" PROVE t = Master
    BY DEF Resting
  <2>2. Type(x) \in Level(t, k) /\ k >= 1
    BY <1>1, <1>3 DEF Stacks
  <2>3. QED
    BY <2>1, <2>2 DEF Level, Base
<1>11. x \in Charged(t) <=>
         /\ x \in Measured(t)
         /\ \A i, j \in 1..m : running[t][i] = x /\ j > i => Type(running[t][j]) = "undeferred"
         /\ (Type(x) = "initial" => team = NoTeam)
  BY <1>5 DEF Charged
<1>12. (\A i, j \in 1..m : running[t][i] = x /\ j > i => Type(running[t][j]) = "undeferred")
         <=> (\A j \in 1..m : j > k => Type(running[t][j]) = "undeferred")
  BY <1>3, <1>4, <1>7
<1>13. x \in Measured(t) <=> Type(x) # "undeferred"
  BY <1>2, MeasuredTasks
<1>14. QED
  BY <1>8, <1>9, <1>10, <1>11, <1>12, <1>13

(* The books of a thread.                                                  *)
LEMMA ThreadBooks ==
  ASSUME NEW U, NEW N, Good(U, N), NEW t \in Thread, NEW r \in DOMAIN prof.exc, r.thread = t,
         NEW e, e = ExcOf(prof, running[t], Resting(t)), NEW S, S = IncOf(prof, running[t])
  PROVE  /\ prof.exc[r] = IF e \in TaskObj /\ prof.task[e].rData = r THEN 1 ELSE 0
         /\ prof.inc[r] = Cardinality(BoundTo(prof.task, S, r)) + N[r]
         /\ IsFiniteSet(BoundTo(prof.task, S, r))
<1>1. Books(prof, t, e, S, N)
  BY DEF Good, Balanced, Balance
<1>2. QED
  BY <1>1, FS_Subset DEF Books, BoundTo

(* A region is of a thread.                                                *)
LEMMA RegionThread == Shape => DOMAIN prof.inc = DOMAIN prof.exc /\ \A r \in DOMAIN prof.exc : r.thread \in Thread
<1>1. Shape => DOMAIN prof.inc = DOMAIN prof.exc /\ DOMAIN prof.exc \subseteq Region
  BY DEF Shape, ProfileOK
<1>2. QED
  BY <1>1 DEF Region

(* Exclusive time is measured of the task that executes.                   *)
LEMMA GoodExclusive ==
  ASSUME NEW U, NEW N, Good(U, N)
  PROVE  ExclusiveMatches
<1> SUFFICES ASSUME NEW r \in DOMAIN prof.exc
             PROVE  prof.exc[r] = Cardinality({o \in Charged(r.thread) :
                                    prof.task[o].rData = r /\ ~prof.task[o].inBarrier})
  BY DEF ExclusiveMatches
<1>1. PICK t \in Thread : t = r.thread
  BY RegionThread DEF Good
<1>2. PICK e : e = ExcOf(prof, running[t], Resting(t))
  OBVIOUS
<1>3. \A x : x \in Charged(t) /\ ~prof.task[x].inBarrier <=> x = e /\ e \in TaskObj
  <2>1. Shape /\ EnvTypes /\ OnlyTop /\ Len(running[t]) \in Nat
    BY CurrentOK DEF Good, Shape
  <2>2. Len(running[t]) > 0 => Top(prof, running[t]) \in TaskObj
    BY <2>1, TopTask, CurrentOK
  <2>3. NoTask \notin TaskObj
    BY TaskProfileAssumption
  <2>4. QED
    BY <1>2, <2>2, <2>3, ChargedTask DEF ExcOf, Type
<1>4. {o \in Charged(t) : prof.task[o].rData = r /\ ~prof.task[o].inBarrier} =
        IF e \in TaskObj /\ prof.task[e].rData = r THEN {e} ELSE {}
  BY <1>3
<1>5. Cardinality({e}) = 1 /\ Cardinality({}) = 0
  BY FS_Singleton, FS_EmptySet
<1>6. prof.exc[r] = IF e \in TaskObj /\ prof.task[e].rData = r THEN 1 ELSE 0
  BY <1>1, <1>2, ThreadBooks
<1>7. QED
  BY <1>1, <1>4, <1>5, <1>6

(* An initial task that rests does not wait.                               *)
LEMMA RestingWaits ==
  ASSUME NEW U, NEW N, Good(U, N), NEW t \in Thread, Resting(t), NEW x, OnStack(running[t], x), Type(x) = "initial"
  PROVE  ~prof.task[x].inBarrier
<1>1. Shape /\ EnvTypes /\ Stacks /\ Apart(running) /\ Waits /\ Fresh
  BY DEF Good, Shape, Placed
<1>2. PICK i \in 1..Len(running[t]) : running[t][i] = x
  BY DEF OnStack
<1>3. t = Master /\ team # NoTeam /\ i = 1 /\ x \in TaskObj
  <2>1. Type(x) \in Level(t, i) /\ t = Master /\ team # NoTeam /\ x \in TaskObj /\ i >= 1
    BY <1>1, <1>2, CurrentOK DEF Stacks, Resting
  <2>2. i < Base(t)
    BY <2>1 DEF Level
  <2>3. QED
    BY <2>1, <2>2 DEF Base
<1>4. sync[x] = <<>>
  BY <1>1, <1>2, <1>3 DEF Fresh
<1>5. ~AtBarrier(x)
  <2>1. SUFFICES ASSUME NEW u \in Thread, where[u] \in {"barrier", "released"}, Bottom(u) = x PROVE FALSE
    BY DEF AtBarrier
  <2>2. Type(Bottom(u)) = "implicit"
    BY <1>1, <2>1, Bottoms
  <2>3. QED
    BY <2>1, <2>2
<1>6. QED
  BY <1>1, <1>3, <1>4, <1>5 DEF Waits

(* Inclusive time is measured of the tasks that are begun and do not wait,  *)
(* and beyond them as N says.                                              *)
LEMMA GoodInclusive ==
  ASSUME NEW U, NEW N, Good(U, N), NEW r \in DOMAIN prof.inc
  PROVE  LET S == {o \in Measured(r.thread) :
                     /\ prof.task[o].rData = r
                     /\ prof.task[o].inBarrier => o \notin Charged(r.thread)}
         IN  Cardinality(S) \in Nat /\ prof.inc[r] = Cardinality(S) + N[r]
<1>1. PICK t \in Thread : t = r.thread
  BY RegionThread DEF Good
<1>2. \A x : (x \in Measured(t) /\ (prof.task[x].inBarrier => x \notin Charged(t)))
               <=> x \in IncOf(prof, running[t])
  <2>1. SUFFICES ASSUME NEW x
                 PROVE  (x \in Measured(t) /\ (prof.task[x].inBarrier => x \notin Charged(t)))
                          <=> x \in IncOf(prof, running[t])
    OBVIOUS
  <2>2. x \in IncOf(prof, running[t]) <=>
          /\ x \in TaskObj /\ prof.active /\ OnStack(running[t], x) /\ Type(x) # "undeferred"
          /\ ~(prof.task[x].inBarrier /\ x = Top(prof, running[t]))
    BY DEF IncOf, Type
  <2>3. OnStack(running[t], x) => x \in TaskObj /\ Len(running[t]) > 0
    <3>1. EnvTypes
      BY DEF Good, Shape
    <3>2. Len(running[t]) \in Nat /\ \A i \in 1..Len(running[t]) : running[t][i] \in TaskObj
      BY <3>1, CurrentOK
    <3>3. QED
      BY <3>2 DEF OnStack
  <2>4. x \in Charged(t) <=>
          /\ prof.active /\ Len(running[t]) > 0 /\ x = Top(prof, running[t])
          /\ ~(Resting(t) /\ Type(x) = "initial")
    BY ChargedTask
  <2>5. OnStack(running[t], x) /\ Resting(t) /\ Type(x) = "initial" => ~prof.task[x].inBarrier
    BY RestingWaits
  <2>6. x \in Measured(t) <=> prof.active /\ OnStack(running[t], x) /\ Type(x) # "undeferred"
    BY MeasuredTasks
  <2>7. QED
    BY <2>2, <2>3, <2>4, <2>5, <2>6
<1>3. {o \in Measured(t) : /\ prof.task[o].rData = r
                           /\ prof.task[o].inBarrier => o \notin Charged(t)}
        = BoundTo(prof.task, IncOf(prof, running[t]), r)
  BY <1>2 DEF BoundTo
<1>4. r \in DOMAIN prof.exc
  BY RegionThread DEF Good
<1>5. PICK S : S = BoundTo(prof.task, IncOf(prof, running[t]), r)
  OBVIOUS
<1>6. prof.inc[r] = Cardinality(S) + N[r] /\ IsFiniteSet(S)
  BY <1>1, <1>4, <1>5, ThreadBooks
<1>7. Cardinality(S) \in Nat
  BY <1>6, FS_CardinalityType
<1>8. QED
  BY <1>1, <1>3, <1>5, <1>6, <1>7

(* Regions are stopped only after they are started.                        *)
LEMMA SoundStops == Sound => StopsFollowStarts
<1> SUFFICES ASSUME Good({}, NoMore), NEW r \in DOMAIN prof.exc
             PROVE  prof.exc[r] >= 0 /\ prof.inc[r] >= 0
  BY DEF Sound, StopsFollowStarts
<1>1. r.thread \in Thread
  BY RegionThread DEF Good
<1>2. PICK S : S = BoundTo(prof.task, IncOf(prof, running[r.thread]), r)
  OBVIOUS
<1>3. prof.exc[r] \in {0, 1} /\ prof.inc[r] = Cardinality(S) + NoMore[r] /\ IsFiniteSet(S)
  BY <1>1, <1>2, ThreadBooks
<1>4. Cardinality(S) \in Nat /\ NoMore[r] = 0
  BY <1>3, FS_CardinalityType DEF Good, Shape, ProfileOK, NoMore
<1>5. QED
  BY <1>3, <1>4

(* When the program is over, nothing is measured.                          *)
LEMMA GoodStopped ==
  ASSUME NEW U, NEW N, Good(U, N), ended => \A r \in Region : N[r] = 0
  PROVE  ValueIsStopMinusStart
<1> SUFFICES ASSUME ended, NEW r \in DOMAIN prof.exc
             PROVE  prof.exc[r] = 0 /\ prof.inc[r] = 0
  BY DEF ValueIsStopMinusStart
<1>1. PICK t \in Thread : t = r.thread
  BY RegionThread DEF Good
<1>2. Len(running[t]) = 0
  BY DEF Good, Shape, Teams
<1>3. ExcOf(prof, running[t], Resting(t)) = NoTask /\ IncOf(prof, running[t]) = {}
  BY <1>2, EmptyBooks
<1>4. BoundTo(prof.task, {}, r) = {}
  BY DEF BoundTo
<1>5. prof.exc[r] = 0 /\ prof.inc[r] = Cardinality({}) + N[r]
  <2>1. PICK e, S : e = ExcOf(prof, running[t], Resting(t)) /\ S = IncOf(prof, running[t])
    OBVIOUS
  <2>2. e \notin TaskObj
    BY <1>3, <2>1, TaskProfileAssumption
  <2>3. /\ prof.exc[r] = IF e \in TaskObj /\ prof.task[e].rData = r THEN 1 ELSE 0
        /\ prof.inc[r] = Cardinality(BoundTo(prof.task, S, r)) + N[r]
    BY <1>1, <2>1, ThreadBooks
  <2>4. QED
    BY <1>3, <1>4, <2>1, <2>2, <2>3
<1>6. N[r] = 0
  BY DEF Good, Shape, ProfileOK
<1>7. QED
  BY <1>5, <1>6, FS_EmptySet

-----------------------------------------------------------------------------
(* The theorems *)

(* The assertions of startExclusive, stopExclusive, startInclusive and     *)
(* stopInclusive never fail in a well-structured program.                  *)
THEOREM AssertionsInvariant == ASSUME WellStructured PROVE Spec => []AssertionsHold
<1>1. Sound => AssertionsHold
  BY DEF Sound, Good, Fresh, AssertionsHold
<1>2. QED
  BY <1>1, SoundInvariant, PTL

(* No handler of a well-structured program uses a measurement from before  *)
(* the code that ran since the last event of its thread.                   *)
THEOREM FreshInvariant == ASSUME WellStructured PROVE Spec => []MeasurementFresh
<1>1. Sound => MeasurementFresh
  BY DEF Sound, Good, Fresh, MeasurementFresh
<1>2. QED
  BY <1>1, SoundInvariant, PTL

(* No region of a well-structured program is stopped more often than it is *)
(* started.                                                                *)
THEOREM StopsInvariant == ASSUME WellStructured PROVE Spec => []StopsFollowStarts
BY SoundStops, SoundInvariant, PTL

(* At the end of a well-structured program every region is stopped as often *)
(* as it was started: its value is the sum of what was measured.           *)
THEOREM ValueInvariant == ASSUME WellStructured PROVE Spec => []ValueIsStopMinusStart
<1>1. Sound => ValueIsStopMinusStart
  BY GoodStopped DEF Sound, NoMore
<1>2. QED
  BY <1>1, SoundInvariant, PTL

(* The exclusive time of a thread goes to the region of the task that      *)
(* executes there, and to no other, after every event of the program.      *)
THEOREM ExclusiveInvariant == ASSUME WellStructured PROVE Spec => []ExclusiveMatches
<1>1. Sound => ExclusiveMatches
  BY GoodExclusive DEF Sound
<1>2. QED
  BY <1>1, SoundInvariant, PTL

(* The inclusive time of a region runs once for every begun task that is   *)
(* bound to it and does not wait.                                          *)
THEOREM InclusiveInvariant == ASSUME WellStructured PROVE Spec => []InclusiveMatches
<1>1. Sound => InclusiveMatches
  <2>1. SUFFICES ASSUME Good({}, NoMore), NEW r \in DOMAIN prof.inc,
                        NEW n, n = Cardinality({o \in Measured(r.thread) :
                                     /\ prof.task[o].rData = r
                                     /\ prof.task[o].inBarrier => o \notin Charged(r.thread)})
                 PROVE  prof.inc[r] = n
    BY DEF Sound, InclusiveMatches
  <2>2. n \in Nat /\ prof.inc[r] = n + NoMore[r]
    BY <2>1, GoodInclusive
  <2>3. NoMore[r] = 0
    BY <2>1 DEF Good, Shape, ProfileOK, NoMore
  <2>4. QED
    BY <2>2, <2>3
<1>2. QED
  BY <1>1, SoundInvariant, PTL

(* A begun task stays bound to the region it started with until it ends.   *)
THEOREM RegionKeptStep == ASSUME WellStructured PROVE Spec => RegionKept
<1>1. Init => Sound
  BY InitGood
<1>2. Sound /\ [Next]_vars => Sound' /\ KeptRegions
  BY NextSound DEF Kept
<1>3. ASSUME Sound, Sound', KeptRegions
      PROVE  \A t \in Thread : \A o \in ToSet(running[t]) \cap ToSet(running'[t]) :
               prof'.task[o].rData = prof.task[o].rData
  <2>1. SUFFICES ASSUME NEW t \in Thread, NEW o, o \in ToSet(running[t]), o \in ToSet(running'[t])
                 PROVE  prof'.task[o].rData = prof.task[o].rData
    OBVIOUS
  <2>2. EnvTypes /\ EnvTypes'
    BY <1>3 DEF Sound, Good, Shape
  <2>3. OnStack(running[t], o) /\ o \in TaskObj
    BY <2>1, <2>2, StackElements
  <2>4. OnStack(running'[t], o)
    <3>1. DOMAIN running'[t] = 1..Len(running'[t])
      <4>1. running'[t] \in Seq(TaskObj)
        BY <2>2 DEF EnvTypes
      <4>2. QED
        BY <4>1, LenProperties
    <3>2. QED
      BY <2>1, <3>1 DEF ToSet, OnStack
  <2>5. Stacked(o) /\ Stacked(o)'
    BY <2>3, <2>4 DEF Stacked
  <2>6. QED
    BY <1>3, <2>3, <2>5 DEF KeptRegions
<1>4. Sound /\ Sound' /\ KeptRegions /\ [Next]_vars =>
        [\A t \in Thread : \A o \in ToSet(running[t]) \cap ToSet(running'[t]) :
           prof'.task[o].rData = prof.task[o].rData]_vars
  BY <1>3
<1>5. QED
  BY <1>1, <1>2, <1>4, PTL DEF Spec, RegionKept

-----------------------------------------------------------------------------
(* Call paths *)

(* A set of natural numbers has a least one.                               *)
LEMMA Least ==
  ASSUME NEW T, T \subseteq Nat, T # {}
  PROVE  \E m \in T : \A k \in T : m <= k
<1>1. PICK R : R = OpToRel(<, Nat)
  OBVIOUS
<1>2. IsWellFoundedOn(R, Nat)
  BY <1>1, NatLessThanWellFounded
<1>3. PICK m \in T : \A k \in T : ~(<<k, m>> \in R)
  BY <1>2, WFMin
<1>4. \A i, j \in Nat : i < j => <<i, j>> \in R
  BY <1>1 DEF OpToRel
<1>5. m \in Nat
  OBVIOUS
<1>6. ASSUME NEW k \in T PROVE m <= k
  <2>1. k \in Nat /\ ~(<<k, m>> \in R)
    BY <1>3
  <2>2. ~(k < m)
    BY <1>4, <1>5, <2>1
  <2>3. QED
    BY <1>5, <2>1, <2>2
<1>7. QED
  BY <1>6

(* f follows the regions with the keys rs up to the n-th.                   *)
Follows(f, rs, n) ==
  f = [i \in 0..n |-> IF i = 0 THEN <<>> ELSE Append(f[rs[i][2]], rs[i][1])]

(* A region is younger than the one it is called from.                     *)
Rooted(rs) == \A i \in 1..Len(rs) : rs[i][2] \in Nat /\ rs[i][2] < i

(* ... and is the only one, also when there are more regions.              *)
LEMMA FollowsUnique ==
  ASSUME NEW f, NEW g, NEW rs, NEW qs, NEW n \in Nat, NEW m \in Nat, n <= m,
         Follows(f, rs, n), Follows(g, qs, m),
         \A i \in 1..n : rs[i] = qs[i] /\ rs[i][2] \in Nat /\ rs[i][2] < i
  PROVE  \A i \in 0..n : f[i] = g[i]
<1>1. PICK T : T = {i \in 0..n : f[i] # g[i]}
  OBVIOUS
<1>2. SUFFICES ASSUME T # {} PROVE FALSE
  BY <1>1
<1>3. T \subseteq Nat
  BY <1>1
<1>4. PICK k \in T : \A i \in T : k <= i
  BY <1>2, <1>3, Least
<1>5. k \in 0..n /\ f[k] # g[k] /\ k \in 0..m
  BY <1>1
<1>6. f[k] = IF k = 0 THEN <<>> ELSE Append(f[rs[k][2]], rs[k][1])
  BY <1>5 DEF Follows
<1>7. g[k] = IF k = 0 THEN <<>> ELSE Append(g[qs[k][2]], qs[k][1])
  BY <1>5 DEF Follows
<1>8. k # 0
  BY <1>5, <1>6, <1>7
<1>9. k \in 1..n
  BY <1>5, <1>8
<1>10. rs[k] = qs[k] /\ rs[k][2] \in 0..n /\ rs[k][2] < k
  BY <1>9
<1>11. PICK j : j = rs[k][2]
  OBVIOUS
<1>12. j \in 0..n /\ ~(k <= j)
  BY <1>5, <1>10, <1>11
<1>13. f[j] = g[j]
  BY <1>1, <1>4, <1>12
<1>14. QED
  BY <1>5, <1>6, <1>7, <1>8, <1>10, <1>11, <1>13

(* There is a way to every region.                                         *)
LEMMA FollowsExists ==
  ASSUME NEW rs, Len(rs) \in Nat, Rooted(rs)
  PROVE  \E f : Follows(f, rs, Len(rs))
<1>1. PICK l \in Nat : l = Len(rs)
  OBVIOUS
<1>2. PICK T : T = {n \in 0..l : ~(\E f : Follows(f, rs, n))}
  OBVIOUS
<1>3. SUFFICES ASSUME T # {} PROVE FALSE
  BY <1>1, <1>2
<1>4. T \subseteq Nat
  BY <1>2
<1>5. PICK m \in T : \A i \in T : m <= i
  BY <1>3, <1>4, Least
<1>6. m \in 0..l /\ ~(\E f : Follows(f, rs, m))
  BY <1>2
<1>7. m # 0
  <2>1. SUFFICES ASSUME m = 0 PROVE FALSE
    OBVIOUS
  <2> DEFINE e == [i \in 0..0 |-> <<>>]
  <2>2. e = [i \in 0..0 |-> IF i = 0 THEN <<>> ELSE Append(e[rs[i][2]], rs[i][1])]
    OBVIOUS
  <2>3. QED
    BY <1>6, <2>1, <2>2 DEF Follows
<1>8. m - 1 \in 0..l /\ m - 1 \in Nat /\ ~(m <= m - 1) /\ m \in 1..l
  BY <1>6, <1>7
<1>9. PICK f : Follows(f, rs, m - 1)
  BY <1>2, <1>5, <1>8
<1> DEFINE h == Append(f[rs[m][2]], rs[m][1])
           g == [i \in 0..m |-> IF i = m THEN h ELSE f[i]]
<1>10. ASSUME NEW i \in 0..m
       PROVE  g[i] = IF i = 0 THEN <<>> ELSE Append(g[rs[i][2]], rs[i][1])
  <2>1. g[i] = IF i = m THEN h ELSE f[i]
    OBVIOUS
  <2>2. CASE i = m
    <3>1. rs[m][2] \in 0..m /\ rs[m][2] # m
      BY <1>1, <1>8 DEF Rooted
    <3>2. g[rs[m][2]] = f[rs[m][2]]
      BY <3>1
    <3>3. QED
      BY <1>7, <2>1, <2>2, <3>2
  <2>3. CASE i # m
    <3>1. i \in 0..m - 1 /\ i \in Nat
      BY <1>8, <2>3
    <3>2. f[i] = IF i = 0 THEN <<>> ELSE Append(f[rs[i][2]], rs[i][1])
      BY <1>9, <3>1 DEF Follows
    <3>3. i # 0 => rs[i][2] \in 0..m /\ rs[i][2] # m
      <4>1. i # 0 => i \in 1..l
        BY <1>8, <3>1
      <4>2. QED
        BY <1>1, <1>8, <3>1, <4>1 DEF Rooted
    <3>4. i # 0 => g[rs[i][2]] = f[rs[i][2]]
      BY <3>3
    <3>5. QED
      BY <2>1, <2>3, <3>2, <3>4
  <2>4. QED
    BY <2>2, <2>3
<1>11. g = [i \in 0..m |-> IF i = 0 THEN <<>> ELSE Append(g[rs[i][2]], rs[i][1])]
  BY <1>10
<1>12. QED
  BY <1>6, <1>11 DEF Follows

(* The code pointers on the way to each region, which RegionPath shows.     *)
Way(rs) == CHOOSE f : Follows(f, rs, Len(rs))

(* The way to every region of a profile.                                    *)
LEMMA WayFollows ==
  ASSUME NEW p, ProfileOK(p)
  PROVE  /\ Follows(Way(p.regions), p.regions, Len(p.regions))
         /\ Len(p.regions) \in Nat /\ DOMAIN p.regions = 1..Len(p.regions)
         /\ \A i \in 1..Len(p.regions) : p.regions[i][2] \in Nat /\ p.regions[i][2] < i
<1>1. PICK rs : rs = p.regions
  OBVIOUS
<1>2. rs \in Seq(Code \X Nat) /\ \A i \in DOMAIN rs : rs[i][2] < i
  BY <1>1 DEF ProfileOK
<1>3. Len(rs) \in Nat /\ DOMAIN rs = 1..Len(rs)
  BY <1>2, LenProperties
<1>4. \A i \in 1..Len(rs) : rs[i][2] \in Nat /\ rs[i][2] < i
  <2>1. \A i \in 1..Len(rs) : rs[i] \in Code \X Nat
    BY <1>2, ElementOfSeq
  <2>2. QED
    BY <1>2, <1>3, <2>1
<1>5. PICK f : Follows(f, rs, Len(rs))
  BY <1>3, <1>4, FollowsExists DEF Rooted
<1>6. Follows(Way(rs), rs, Len(rs))
  BY <1>5 DEF Way
<1>7. QED
  BY <1>1, <1>3, <1>4, <1>6

(* What a profile keeps of its regions when there are more.                *)
Extends(p, q) ==
  /\ q.flat = p.flat /\ DOMAIN p.regions \subseteq DOMAIN q.regions
  /\ \A i \in DOMAIN p.regions : q.regions[i] = p.regions[i]

(* The ways to the regions that are there stay the same.                   *)
LEMMA WayStays ==
  ASSUME NEW p, NEW q, ProfileOK(p), ProfileOK(q), Extends(p, q)
  PROVE  \A i \in 0..Len(p.regions) : Way(q.regions)[i] = Way(p.regions)[i]
<1>1. PICK rs, qs, n, m, f, g :
        /\ rs = p.regions /\ qs = q.regions /\ n = Len(p.regions) /\ m = Len(q.regions)
        /\ f = Way(p.regions) /\ g = Way(q.regions)
  OBVIOUS
<1>2. /\ Follows(f, rs, n) /\ Follows(g, qs, m) /\ n \in Nat /\ m \in Nat
      /\ DOMAIN rs = 1..n /\ DOMAIN qs = 1..m
      /\ \A i \in 1..n : rs[i][2] \in Nat /\ rs[i][2] < i
  BY <1>1, WayFollows
<1>3. 1..n \subseteq 1..m /\ \A i \in 1..n : qs[i] = rs[i]
  BY <1>1, <1>2 DEF Extends
<1>4. n <= m
  <2>1. n # 0 => n \in 1..n
    BY <1>2
  <2>2. QED
    BY <1>2, <1>3, <2>1
<1>5. \A i \in 1..n : rs[i] = qs[i] /\ rs[i][2] \in Nat /\ rs[i][2] < i
  BY <1>2, <1>3
<1>6. \A i \in 0..n : f[i] = g[i]
  BY <1>2, <1>4, <1>5, FollowsUnique
<1>7. QED
  BY <1>1, <1>6

(* Region r is the one of call path s.                                     *)
OnPath(p, r, s) ==
  /\ p.regions[r.id][1] \notin UserCode
  /\ IF p.flat THEN p.regions[r.id][1] = Last(s) ELSE Way(p.regions)[r.id] = s

(* What was on its path stays on it when regions are added.                 *)
LEMMA OnPathStays ==
  ASSUME NEW p, NEW q, ProfileOK(p), ProfileOK(q), Extends(p, q),
         NEW r \in DOMAIN p.exc, NEW s, OnPath(p, r, s)
  PROVE  OnPath(q, r, s)
<1>1. /\ r.id \in DOMAIN p.regions /\ Len(p.regions) \in Nat
      /\ DOMAIN p.regions = 1..Len(p.regions)
  BY WayFollows DEF ProfileOK
<1>2. r.id \in 0..Len(p.regions) /\ q.regions[r.id] = p.regions[r.id] /\ q.flat = p.flat
  BY <1>1 DEF Extends
<1>3. Way(q.regions)[r.id] = Way(p.regions)[r.id]
  BY <1>2, WayStays
<1>4. QED
  BY <1>2, <1>3 DEF OnPath

(* A region that was looked up under the one of call path s.               *)
LEMMA OnPathChild ==
  ASSUME NEW p, NEW q, ProfileOK(p), ProfileOK(q), Extends(p, q),
         NEW r \in DOMAIN q.exc, NEW above, NEW s \in Seq(Code), NEW code \in Code \ UserCode,
         q.regions[r.id] = Key(p, code, above),
         \/ above = NoRegion /\ s = <<>>
         \/ above \in DOMAIN p.exc /\ OnPath(p, above, s)
  PROVE  OnPath(q, r, Append(s, code))
<1>1. PICK k, id : k = q.regions[r.id] /\ id = r.id
  OBVIOUS
<1>2. k[1] = code /\ (~p.flat => k[2] = CallPathID(p, above)) /\ q.flat = p.flat
  BY <1>1 DEF Key, Extends
<1>3. Last(Append(s, code)) = code
  <2>1. /\ Append(s, code) \in Seq(Code) /\ Len(Append(s, code)) = Len(s) + 1
        /\ Append(s, code)[Len(s) + 1] = code
    BY AppendProperties
  <2>2. QED
    BY <2>1 DEF Last
<1>4. ASSUME ~p.flat PROVE Way(q.regions)[id] = Append(s, code)
  <2>1. PICK rs, g, m : rs = q.regions /\ g = Way(q.regions) /\ m = Len(q.regions)
    OBVIOUS
  <2>2. /\ Follows(g, rs, m) /\ m \in Nat /\ DOMAIN rs = 1..m
        /\ \A i \in 1..m : rs[i][2] \in Nat /\ rs[i][2] < i
    BY <2>1, WayFollows
  <2>3. id \in 1..m
    BY <1>1, <2>1, <2>2 DEF ProfileOK
  <2>4. g[id] = Append(g[rs[id][2]], rs[id][1])
    <3>1. id \in 0..m /\ id # 0
      BY <2>2, <2>3
    <3>2. QED
      BY <2>2, <3>1 DEF Follows
  <2>5. rs[id] = k
    BY <1>1, <2>1
  <2>6. g[k[2]] = s
    <3>1. CASE above = NoRegion /\ s = <<>>
      <4>1. k[2] = 0
        BY <1>2, <1>4, <3>1 DEF CallPathID
      <4>2. 0 \in 0..m
        BY <2>2
      <4>3. QED
        BY <2>2, <3>1, <4>1, <4>2 DEF Follows
    <3>2. CASE above \in DOMAIN p.exc /\ OnPath(p, above, s)
      <4>1. /\ above.id \in DOMAIN p.regions /\ Len(p.regions) \in Nat
            /\ DOMAIN p.regions = 1..Len(p.regions) /\ above \in Region
        BY <3>2, WayFollows DEF ProfileOK
      <4>2. above # NoRegion
        BY <4>1, NoRegionIsNone
      <4>3. k[2] = above.id
        BY <1>2, <1>4, <3>2, <4>2 DEF CallPathID, OnPath
      <4>4. above.id \in 0..Len(p.regions)
        BY <4>1
      <4>5. Way(q.regions)[above.id] = Way(p.regions)[above.id]
        BY <4>4, WayStays
      <4>6. Way(p.regions)[above.id] = s
        BY <1>4, <3>2 DEF OnPath
      <4>7. QED
        BY <2>1, <4>3, <4>5, <4>6
    <3>3. QED
      BY <3>1, <3>2
  <2>7. QED
    BY <1>2, <2>1, <2>4, <2>5, <2>6
<1>5. QED
  BY <1>1, <1>2, <1>3, <1>4 DEF OnPath

-----------------------------------------------------------------------------
(* The path of every task *)

(* The call path of a task that begins with the implicit tasks of a team.  *)
NewPath == Append(IF team.parentTask = NoTask THEN <<>> ELSE path[team.parentTask], team.codePtr)

(* Tasks keep their path as long as they are there, and get on a stack when *)
(* they begin.                                                             *)
Moved ==
  \A x \in TaskObj :
    /\ Type(x) \in {"initial", "implicit", "explicit"} /\ Type(x)' # "none" => path'[x] = path[x]
    /\ Type(x) # "none" /\ Stacked(x)' => Stacked(x) \/ Type(x) \in {"explicit", "undeferred"}
    /\ Type(x) = "none" /\ Stacked(x)' =>
         Type(x)' \in {"initial", "implicit"} /\ path'[x] = NewPath

(* A step that begins no task, and after which no path is different but     *)
(* that of o, which ends or is no more than announced.                     *)
LEMMA QuietMoved ==
  ASSUME Shape, NEW o, \A x \in TaskObj \ {o} : path'[x] = path[x],
         o \in TaskObj => Type(o) \in {"none", "undeferred"} \/ Type(o)' = "none" \/ path'[o] = path[o],
         \A x : Stacked(x)' => Stacked(x)
  PROVE  Moved
<1>1. \A x : Type(x) = "none" => ~Stacked(x)
  BY NotOnStack
<1>2. QED
  BY <1>1 DEF Moved

(* A begin of an initial or implicit task.                                 *)
LEMMA BeginMoved ==
  ASSUME Shape, NEW t \in Thread, NEW num, NEW type \in ImplicitType, NEW o \in free,
         Returns(t, ImplicitTaskBegin(prof, t, num, o, type, team)),
         Pushes(running, running', t, o), path' = [path EXCEPT ![o] = NewPath]
  PROVE  Moved
<1>1. EnvTypes /\ ProfileOK(prof) /\ o \in TaskObj /\ Type(o) = "none"
  BY DEF Shape, EnvTypes, Placed
<1>2. Type(o)' \in {"initial", "implicit"}
  <2>1. team \in ParallelData
    BY <1>1 DEF EnvTypes
  <2> DEFINE q == ImplicitTaskBegin(prof, t, num, o, type, team)
  <2>2. Kinds(prof, q, {o}) /\ q.task[o].Type = type
    BY <1>1, <2>1, ImplicitTaskBeginKinds
  <2> HIDE DEF q
  <2>3. prof'.task = q.task
    BY <2>2, ReturnsKinds DEF q
  <2>4. QED
    BY <2>2, <2>3 DEF ImplicitType, Type
<1>3. path'[o] = NewPath /\ \A x \in TaskObj \ {o} : path'[x] = path[x]
  BY <1>1 DEF EnvTypes
<1>4. \A x : Stacked(x)' => Stacked(x) \/ x = o
  <2>1. PICK r, s : r = running /\ s = running'
    OBVIOUS
  <2>2. r \in [Thread -> Seq(TaskObj)] /\ Pushes(r, s, t, o)
    BY <1>1, <2>1 DEF EnvTypes
  <2>3. \A u \in Thread : \A i \in 1..Len(s[u]) :
          \/ i \in 1..Len(r[u]) /\ s[u][i] = r[u][i]
          \/ u = t /\ i = Len(r[t]) + 1 /\ s[u][i] = o
    BY <2>2, PushElements
  <2>4. QED
    BY <2>1, <2>3 DEF Stacked, OnStack
<1>5. \A x : Type(x) = "none" => ~Stacked(x)
  BY NotOnStack
<1>6. QED
  BY <1>1, <1>2, <1>3, <1>4, <1>5 DEF Moved

(* Only its own path is written by the begin of the initial task.           *)
LEMMA InitialTaskBeginMoved == ASSUME Shape, InitialTaskBegin PROVE Moved
<1>1. PICK o \in free :
        /\ running[Master] = <<>>
        /\ Returns(Master, ImplicitTaskBegin(prof, Master, 0, o, "initial", NoTeam))
        /\ running' = [running EXCEPT ![Master] = <<o>>]
        /\ path' = [path EXCEPT ![o] = <<NoCode>>]
  BY DEF InitialTaskBegin
<1>2. Master \in Thread /\ EnvTypes /\ o \in TaskObj /\ Len(running[Master]) = 0
  BY <1>1, TaskProfileAssumption DEF Shape, EnvTypes
<1>3. Pushes(running, running', Master, o)
  <2>1. <<o>> = Append(running[Master], o)
    BY <1>1
  <2>2. running' = [running EXCEPT ![Master] = Append(@, o)]
    BY <1>1, <1>2, <2>1 DEF EnvTypes
  <2>3. QED
    BY <1>2, <2>2, PushOK DEF EnvTypes
<1>4. team = NoTeam
  <2>1. ~(Len(running[Master]) > 0)
    BY <1>2
  <2>2. QED
    BY <2>1 DEF Shape, Teams
<1>5. NewPath = <<NoCode>>
  BY <1>4 DEF NewPath, NoTeam
<1>6. PICK type, num : type \in ImplicitType /\ type = "initial" /\ num = 0
  BY DEF ImplicitType
<1>7. Returns(Master, ImplicitTaskBegin(prof, Master, num, o, type, team))
  BY <1>1, <1>4, <1>6
<1>8. path' = [path EXCEPT ![o] = NewPath]
  BY <1>1, <1>5
<1>9. QED
  BY <1>2, <1>3, <1>6, <1>7, <1>8, BeginMoved

(* Only its own path is written by the begin of an implicit task.           *)
LEMMA ImplicitBeginMoved == ASSUME Shape, NEW t \in Thread, ImplicitBegin(t) PROVE Moved
<1>1. PICK o \in free :
        /\ t \in forked
        /\ Returns(t, ImplicitTaskBegin(prof, t, ThreadNum(t), o, "implicit", team))
        /\ running' = [running EXCEPT ![t] = Append(@, o)]
        /\ path' = [path EXCEPT ![o] = Append(path[team.parentTask], ParCode)]
  BY DEF ImplicitBegin
<1>2. EnvTypes /\ o \in TaskObj
  BY <1>1 DEF Shape, EnvTypes
<1>3. Pushes(running, running', t, o)
  BY <1>1, <1>2, PushOK DEF EnvTypes
<1>4. NewPath = Append(path[team.parentTask], ParCode)
  <2>1. team # NoTeam /\ team \in ParallelData
    BY <1>1, <1>2 DEF Shape, EnvTypes, Teams
  <2>2. team.codePtr = ParCode /\ team.parentTask \in TaskObj
    BY <2>1 DEF ParallelData
  <2>3. QED
    BY <2>2, TaskProfileAssumption DEF NewPath
<1>5. PICK type, num : type \in ImplicitType /\ type = "implicit" /\ num = ThreadNum(t)
  BY DEF ImplicitType
<1>6. Returns(t, ImplicitTaskBegin(prof, t, num, o, type, team))
  BY <1>1, <1>5
<1>7. path' = [path EXCEPT ![o] = NewPath]
  BY <1>1, <1>4
<1>8. QED
  BY <1>1, <1>3, <1>5, <1>6, <1>7, BeginMoved

(* The task on top of a stack ends.                                        *)
LEMMA EndMoved ==
  ASSUME Shape, NEW t \in Thread, Len(running[t]) > 0, Pops(running, running', t),
         NEW o \in TaskObj, path' = [path EXCEPT ![o] = <<>>],
         Type(o)' = "none" \/ Type(o) = "undeferred"
  PROVE  Moved
<1>1. EnvTypes
  BY DEF Shape
<1>2. \A x \in TaskObj \ {o} : path'[x] = path[x]
  BY <1>1 DEF EnvTypes
<1>3. \A x : Stacked(x)' => Stacked(x)
  BY PoppedTasks DEF Stacked, OnStack
<1>4. QED
  BY <1>2, <1>3, QuietMoved

(* The end of the initial task clears its path only.                        *)
LEMMA InitialTaskEndMoved == ASSUME Shape, Shape', InitialTaskEnd PROVE Moved
<1>1. PICK o : o = Current(Master)
  OBVIOUS
<1>2. /\ OnTop(Master) /\ Type(o) = "initial" /\ free' = free \cup {o}
      /\ running' = [running EXCEPT ![Master] = <<>>]
      /\ path' = [path EXCEPT ![o] = <<>>]
  BY <1>1 DEF InitialTaskEnd, InProgram
<1>3. o \in TaskObj /\ Len(running[Master]) = 1 /\ EnvTypes /\ Master \in Thread
  BY <1>1, <1>2, InitialOnTop, TaskProfileAssumption DEF Shape
<1>4. Pops(running, running', Master)
  <2>1. running' \in [Thread -> Seq(TaskObj)] /\ \A u \in Thread : u # Master => running'[u] = running[u]
    BY <1>2, <1>3, EmptySeq DEF EnvTypes
  <2>2. running'[Master] = <<>> /\ Len(running'[Master]) = 0
    BY <1>2, <1>3 DEF EnvTypes
  <2>3. Len(running[Master]) - 1 = 0 /\ \A i : ~(i \in 1..0)
    BY <1>3
  <2>4. QED
    BY <2>1, <2>2, <2>3 DEF Pops
<1>5. Type(o)' = "none"
  BY <1>2, <1>3 DEF Shape, Placed
<1>6. PICK t \in Thread : t = Master
  BY <1>3
<1>7. /\ Len(running[t]) > 0 /\ Pops(running, running', t)
      /\ path' = [path EXCEPT ![o] = <<>>] /\ Type(o)' = "none"
  BY <1>2, <1>3, <1>4, <1>5, <1>6
<1>8. QED
  BY <1>3, <1>7, EndMoved

(* The end of an implicit task clears its path only.                        *)
LEMMA ImplicitEndMoved == ASSUME Shape, Shape', NEW t \in Thread, ImplicitEnd(t) PROVE Moved
<1>1. PICK o : o = Current(t)
  OBVIOUS
<1>2. /\ where[t] = "leaving" /\ free' = free \cup {o}
      /\ running' = [running EXCEPT ![t] = Front(@)]
      /\ path' = [path EXCEPT ![o] = <<>>]
  BY <1>1 DEF ImplicitEnd
<1>3. Len(running[t]) > 0 /\ EnvTypes
  BY <1>2 DEF Shape, Stacks, Base
<1>4. o \in TaskObj
  BY <1>1, <1>3, CurrentOK
<1>5. Pops(running, running', t)
  BY <1>2, <1>3, PopOK DEF EnvTypes
<1>6. Type(o)' = "none"
  BY <1>2, <1>4 DEF Shape, Placed
<1>7. QED
  BY <1>2, <1>3, <1>4, <1>5, <1>6, EndMoved

(* The completion of a task clears its path only.                           *)
LEMMA CompleteMoved ==
  ASSUME Shape, Shape', InUse', KeptKeys, NEW t \in Thread, Complete(t)
  PROVE  Moved
<1>1. PICK o : o = Current(t)
  OBVIOUS
<1>2. /\ OnTop(t) /\ Type(o) \in {"explicit", "undeferred"} /\ queue' = queue
      /\ running' = [running EXCEPT ![t] = Front(@)]
      /\ path' = [path EXCEPT ![o] = <<>>]
  BY <1>1 DEF Complete, InProgram
<1>3. /\ Len(running[t]) \in Nat /\ Len(running[t]) > 0 /\ EnvTypes /\ o \in TaskObj
      /\ o = running[t][Len(running[t])]
  BY <1>1, <1>2, OnTopOK DEF Shape
<1>4. Pops(running, running', t)
  BY <1>2, <1>3, PopOK DEF EnvTypes
<1>5. Type(o)' = "none" \/ Type(o) = "undeferred"
  <2>1. ~Stacked(o)'
    <3>1. \A u \in Thread : \A i \in 1..Len(running'[u]) : running'[u][i] # o
      BY <1>3, <1>4, PoppedTasks
    <3>2. QED
      BY <3>1 DEF Stacked, OnStack
  <2>2. o \notin queue'
    <3>1. Len(running[t]) \in 1..Len(running[t])
      BY <1>3
    <3>2. QED
      BY <1>2, <1>3, <3>1 DEF Shape, Placed
  <2>3. Type(o)' # "explicit"
    BY <1>3, <2>1, <2>2 DEF InUse
  <2>4. Type(o)' # "none" => Type(o)' = Type(o)
    BY <1>2, <1>3 DEF KeptKeys, SameOrigin, Type
  <2>5. QED
    BY <1>2, <2>3, <2>4
<1>6. QED
  BY <1>2, <1>3, <1>4, <1>5, EndMoved

(* The creation of a task writes its path only.                             *)
LEMMA CreateTaskMoved ==
  ASSUME Shape, NEW t, NEW type, NEW code, CreateTask(t, type, code)
  PROVE  Moved
<1>1. PICK o : o = Current(t)
  OBVIOUS
<1>2. /\ running' = running
      /\ \E new \in free : path' = [path EXCEPT ![new] = Append(path[o], code)]
  BY <1>1 DEF CreateTask
<1>new. PICK new \in free : path' = [path EXCEPT ![new] = Append(path[o], code)]
  BY <1>2
<1>3. Type(new) = "none" /\ new \in TaskObj /\ path \in [TaskObj -> Seq(Code)]
  BY <1>new DEF Shape, EnvTypes, Placed
<1>4. \A x \in TaskObj \ {new} : path'[x] = path[x]
  BY <1>new, <1>3
<1>5. \A x : Stacked(x)' => Stacked(x)
  BY <1>2 DEF Stacked
<1>6. QED
  BY <1>3, <1>4, <1>5, QuietMoved

(* A task that was announced or deferred gets on the stack.                *)
LEMMA SwitchMoved ==
  ASSUME Shape, NEW t \in Thread, NEW o \in TaskObj, Switch(t, o)
  PROVE  Moved
<1>1. /\ running' = [running EXCEPT ![t] = Append(@, o)] /\ path' = path
      /\ o \in queue \/ next[t] = o
  BY DEF Switch
<1>2. EnvTypes /\ Type(o) \in {"explicit", "undeferred"}
  BY <1>1, TaskProfileAssumption DEF Shape, Placed
<1>3. \A x : Stacked(x)' => Stacked(x) \/ x = o
  <2>1. PICK r, s : r = running /\ s = running'
    OBVIOUS
  <2>2. r \in [Thread -> Seq(TaskObj)] /\ Pushes(r, s, t, o)
    BY <1>1, <1>2, <2>1, PushOK DEF EnvTypes
  <2>3. \A u \in Thread : \A i \in 1..Len(s[u]) :
          \/ i \in 1..Len(r[u]) /\ s[u][i] = r[u][i]
          \/ u = t /\ i = Len(r[t]) + 1 /\ s[u][i] = o
    BY <2>2, PushElements
  <2>4. QED
    BY <2>1, <2>3 DEF Stacked, OnStack
<1>4. \A x : Type(x) = "none" => ~Stacked(x)
  BY NotOnStack
<1>5. QED
  BY <1>1, <1>2, <1>3, <1>4 DEF Moved

(* Every step keeps the paths of the tasks that are there.                  *)
LEMMA NextMoved ==
  ASSUME Shape, Shape', InUse', KeptKeys, [Next]_vars
  PROVE  Moved
<1>1. CASE path' = path /\ running' = running
  <2>1. \A x : Stacked(x)' => Stacked(x)
    BY <1>1 DEF Stacked
  <2>2. PICK o : o = NoTask
    OBVIOUS
  <2>3. QED
    BY <1>1, <2>1, <2>2, QuietMoved
<1>2. CASE InitialTaskBegin \/ InitialTaskEnd
  BY <1>2, InitialTaskBeginMoved, InitialTaskEndMoved
<1>3. CASE \E t \in Thread : ImplicitBegin(t) \/ ImplicitEnd(t) \/ Complete(t)
  BY <1>3, ImplicitBeginMoved, ImplicitEndMoved, CompleteMoved
<1>4. CASE \E t \in Thread, type \in {"explicit", "undeferred"}, code \in TaskCode :
             CreateTask(t, type, code)
  BY <1>4, CreateTaskMoved
<1>5. CASE \E t \in Thread, o \in TaskObj : Switch(t, o)
  BY <1>5, SwitchMoved
<1>6. CASE UNCHANGED vars \/ Stopped
  BY <1>1, <1>6 DEF Stopped, vars, env
<1>7. CASE ParallelRegionBegin \/ ParallelRegionEnd \/ BarrierOpens
  BY <1>1, <1>7 DEF ParallelRegionBegin, ParallelRegionEnd, BarrierOpens
<1>8. CASE \E t \in Thread :
             \/ BarrierBegin(t) \/ BarrierEnd(t) \/ RegionEnd(t)
             \/ \E kind \in {"taskwait", "taskgroup"} : RegionBegin(t, kind)
  BY <1>1, <1>8 DEF BarrierBegin, BarrierEnd, RegionBegin, RegionEnd
<1>9. CASE \E on \in BOOLEAN : Control(on)
  BY <1>1, <1>9 DEF Control, env
<1>10. QED
  BY <1>2, <1>3, <1>4, <1>5, <1>6, <1>7, <1>8, <1>9 DEF Next

-----------------------------------------------------------------------------
(* The call path of every begun task *)

(* A task whose region is looked up and measured.                          *)
Begun(x) ==
  /\ Stacked(x)
  /\ Type(x) \in {"initial", "implicit"} \/ (Type(x) = "explicit" /\ prof.active)

(* A begun task is bound to the region of its path, and an explicit one has *)
(* the path of the task that created it and its own code pointer.          *)
Tracked ==
  /\ \A x \in TaskObj : Begun(x) => OnPath(prof, prof.task[x].rData, path[x])
  /\ \A x \in TaskObj : Type(x) = "explicit" =>
       /\ prof.task[x].codePtr \in TaskCode
       /\ path[x] = Append(path[prof.task[x].parentTask], prof.task[x].codePtr)

(* What is known of a begun task.                                          *)
Known ==
  \A x \in TaskObj : Begun(x) =>
    /\ prof.task[x].rData \in DOMAIN prof.exc
    /\ Type(x) = "explicit" => KeyHolds(prof, x)

(* Begun tasks have a region, explicit ones that of their key.              *)
LEMMA SoundKnown == Sound => Known
<1> SUFFICES ASSUME Sound, NEW x \in TaskObj, Begun(x)
             PROVE  /\ prof.task[x].rData \in DOMAIN prof.exc
                    /\ Type(x) = "explicit" => KeyHolds(prof, x)
  BY DEF Known
<1>1. Bounds({})
  BY DEF Sound, Good
<1>2. PICK t \in Thread : OnStack(running[t], x)
  BY DEF Begun, Stacked
<1>3. PICK i \in 1..Len(running[t]) : running[t][i] = x
  BY <1>2 DEF OnStack
<1>4. /\ Type(x) \in {"initial", "implicit"} => Bound(prof, t, x)
      /\ Type(x) = "explicit" /\ prof.active => Bound(prof, t, x) /\ KeyHolds(prof, x)
  BY <1>1, <1>3 DEF Bounds
<1>5. QED
  BY <1>4 DEF Begun, Bound

(* The path of a task that was begun before.                               *)
LEMMA TrackedOld ==
  ASSUME Sound, Sound', Kept, Moved, Tracked, NEW x \in TaskObj,
         Stacked(x), Begun(x)'
  PROVE  /\ OnPath(prof', prof'.task[x].rData, path'[x])
         /\ SameOrigin(prof.task[x], prof'.task[x]) /\ path'[x] = path[x]
<1>1. KeptRegions /\ KeptKeys /\ Shape
  BY DEF Kept, Sound, Good
<1>2. Stacked(x)' /\ Type(x)' \in {"initial", "implicit", "explicit"}
      /\ (Type(x)' = "explicit" => prof'.active)
  BY DEF Begun
<1>3. SameOrigin(prof.task[x], prof'.task[x]) /\ Type(x)' = Type(x)
  <2>1. Type(x) # "none"
    BY <1>1, NotOnStack
  <2>2. SameOrigin(prof.task[x], prof'.task[x])
    BY <1>1, <1>2, <2>1 DEF KeptKeys
  <2>3. QED
    BY <2>2 DEF SameOrigin, Type
<1>4. Begun(x)
  BY <1>1, <1>2, <1>3 DEF KeptKeys, Begun
<1>5. prof'.task[x].rData = prof.task[x].rData
  BY <1>1, <1>2 DEF KeptRegions
<1>6. path'[x] = path[x]
  BY <1>2, <1>3 DEF Moved
<1>7. PICK r, s, p, q : r = prof.task[x].rData /\ s = path[x] /\ p = prof /\ q = prof'
  OBVIOUS
<1>8. OnPath(p, r, s)
  BY <1>4, <1>7 DEF Tracked
<1>9. r \in DOMAIN p.exc
  BY <1>4, <1>7, SoundKnown DEF Known
<1>10. ProfileOK(p) /\ ProfileOK(q) /\ Extends(p, q)
  BY <1>1, <1>7 DEF Sound, Good, Shape, KeptKeys, Extends
<1>11. OnPath(q, r, s)
  BY <1>8, <1>9, <1>10, OnPathStays
<1>12. QED
  BY <1>3, <1>5, <1>6, <1>7, <1>11

(* The path of an initial or implicit task that begins.                    *)
LEMMA TrackedNew ==
  ASSUME Sound, Sound', Known', Kept, Moved, Tracked, NEW x \in TaskObj,
         Type(x) = "none", Begun(x)'
  PROVE  OnPath(prof', prof'.task[x].rData, path'[x])
<1>1. KeptKeys /\ Shape /\ EnvTypes /\ Teams /\ Known
  BY SoundKnown DEF Kept, Sound, Good, Shape
<1>2. PICK p, q, r, k, above, s :
        /\ p = prof /\ q = prof' /\ r = prof'.task[x].rData
        /\ k = team.codePtr /\ above = ParentRegion(prof, team)
        /\ s = IF team.parentTask = NoTask THEN <<>> ELSE path[team.parentTask]
  OBVIOUS
<1>3. Stacked(x)' /\ Type(x)' \in {"initial", "implicit"} /\ path'[x] = Append(s, k)
  BY <1>2 DEF Begun, Moved, NewPath
<1>4. r \in DOMAIN q.exc
  BY <1>2 DEF Known
<1>5. q.regions[r.id] = Key(p, k, above)
  BY <1>1, <1>2, <1>3 DEF KeptKeys, RegionKey
<1>6. ProfileOK(p) /\ ProfileOK(q) /\ Extends(p, q)
  BY <1>1, <1>2 DEF Sound, Good, Shape, KeptKeys, Extends
<1>7. k \in Code \ UserCode
  <2>1. team \in ParallelData
    BY <1>1 DEF EnvTypes
  <2>2. k \in {ParCode, NoCode}
    BY <1>2, <2>1 DEF ParallelData, NoTeam
  <2>3. QED
    BY <2>2, TaskProfileAssumption DEF Code
<1>8. CASE team = NoTeam
  <2>1. above = NoRegion /\ s = <<>>
    BY <1>2, <1>8 DEF NoTeam, ParentRegion
  <2>2. s \in Seq(Code)
    BY <2>1, EmptySeq
  <2>3. OnPath(q, r, Append(s, k))
    BY <1>4, <1>5, <1>6, <1>7, <2>1, <2>2, OnPathChild
  <2>4. QED
    BY <1>2, <1>3, <2>3
<1>9. CASE team # NoTeam
  <2>1. Len(running[Master]) > 0 /\ team.parentTask = running[Master][1]
    BY <1>1, <1>9 DEF Teams
  <2>2. Master \in Thread
    BY TaskProfileAssumption
  <2>3. /\ Type(running[Master][1]) \in {"initial", "implicit"}
        /\ running[Master] \in Seq(TaskObj) /\ Len(running[Master]) \in Nat
    BY <1>1, <2>1, <2>2, BottomKind
  <2>4. PICK y : y = running[Master][1]
    OBVIOUS
  <2>5. y \in TaskObj /\ Begun(y)
    <3>1. 1 \in 1..Len(running[Master])
      BY <2>1, <2>3
    <3>2. y \in TaskObj
      BY <2>3, <2>4, <3>1, ElementOfSeq
    <3>3. Stacked(y)
      BY <2>2, <2>4, <3>1 DEF Stacked, OnStack
    <3>4. QED
      BY <2>3, <2>4, <3>2, <3>3 DEF Begun
  <2>6. y # NoTask
    BY <2>5, TaskProfileAssumption
  <2>7. above = prof.task[y].rData /\ s = path[y]
    BY <1>2, <2>1, <2>4, <2>6 DEF ParentRegion
  <2>8. above \in DOMAIN p.exc /\ OnPath(p, above, s) /\ s \in Seq(Code)
    BY <1>1, <1>2, <2>5, <2>7 DEF Known, Tracked, EnvTypes
  <2>9. OnPath(q, r, Append(s, k))
    BY <1>4, <1>5, <1>6, <1>7, <2>8, OnPathChild
  <2>10. QED
    BY <1>2, <1>3, <2>9
<1>10. QED
  BY <1>8, <1>9

(* The path of a deferred task that begins: its parent has begun before.   *)
LEMMA TrackedDeferred ==
  ASSUME Sound, Sound', Known', Kept, Moved, Tracked, NEW x \in TaskObj,
         Type(x) # "none", ~Stacked(x), Begun(x)'
  PROVE  OnPath(prof', prof'.task[x].rData, path'[x])
<1>1. KeptKeys /\ Shape /\ InUse /\ Family /\ EnvTypes
  BY DEF Kept, Sound, Good, Shape
<1>2. Stacked(x)' /\ Type(x)' \in {"initial", "implicit", "explicit"}
  BY DEF Begun
<1>3. SameOrigin(prof.task[x], prof'.task[x])
  BY <1>1, <1>2 DEF KeptKeys
<1>4. Type(x) = "explicit" /\ Type(x)' = "explicit"
  <2>1. Type(x) \in {"explicit", "undeferred"}
    BY <1>2 DEF Moved
  <2>2. QED
    BY <1>2, <1>3, <2>1 DEF SameOrigin, Type
<1>5. PICK y, k : y = prof.task[x].parentTask /\ k = prof.task[x].codePtr
  OBVIOUS
<1>6. y \in TaskObj /\ prof'.task[x].parentTask = y /\ prof'.task[x].codePtr = k
  BY <1>1, <1>3, <1>4, <1>5 DEF Shape, ProfileOK, SameOrigin, Type
<1>7. Stacked(y)
  <2>1. y \notin queue /\ Type(y) \in {"implicit", "explicit"}
    BY <1>1, <1>4, <1>5 DEF Family
  <2>2. QED
    BY <1>1, <1>6, <2>1 DEF InUse
<1>8. PICK q, r, above, s : q = prof' /\ r = prof'.task[x].rData
                            /\ above = prof'.task[y].rData /\ s = path[y]
  OBVIOUS
<1>9. /\ r \in DOMAIN q.exc /\ q.regions[r.id] = Key(q, k, above)
      /\ Begun(y)' /\ above \in DOMAIN q.exc
  <2>1. /\ prof'.task[x].rData \in DOMAIN prof'.exc /\ KeyHolds(prof', x)
    BY <1>4 DEF Known
  <2>2. Begun(y)'
    <3>1. y \notin queue' /\ Type(y)' \in {"implicit", "explicit"}
      <4>1. Family'
        BY DEF Sound, Good
      <4>2. QED
        BY <1>4, <1>6, <4>1 DEF Family
    <3>2. Stacked(y)'
      <4>1. InUse'
        BY DEF Sound, Good
      <4>2. QED
        BY <1>6, <3>1, <4>1 DEF InUse
    <3>3. prof'.active
      BY <1>4 DEF Begun
    <3>4. QED
      BY <3>1, <3>2, <3>3 DEF Begun
  <2>3. above \in DOMAIN q.exc
    BY <1>6, <1>8, <2>2 DEF Known
  <2>4. QED
    BY <1>6, <1>8, <2>1, <2>2, <2>3 DEF KeyHolds
<1>10. OnPath(q, above, s)
  BY <1>6, <1>7, <1>8, <1>9, TrackedOld
<1>11. path'[x] = Append(s, k) /\ k \in TaskCode
  <2>1. path'[x] = path[x]
    BY <1>4 DEF Moved
  <2>2. path[x] = Append(s, k) /\ k \in TaskCode
    BY <1>4, <1>5, <1>8 DEF Tracked
  <2>3. QED
    BY <2>1, <2>2
<1>12. k \in Code \ UserCode /\ s \in Seq(Code)
  BY <1>1, <1>6, <1>8, <1>11, TaskProfileAssumption DEF Code, EnvTypes
<1>13. ProfileOK(q) /\ Extends(q, q)
  BY <1>8 DEF Sound, Good, Shape, Extends
<1>14. OnPath(q, r, Append(s, k))
  BY <1>9, <1>10, <1>12, <1>13, OnPathChild
<1>15. QED
  BY <1>8, <1>11, <1>14

(* Every step keeps begun tasks on their paths.                             *)
LEMMA TrackedStep ==
  ASSUME Sound, Sound', Known', Kept, Moved, Tracked
  PROVE  Tracked'
<1>1. ASSUME NEW x \in TaskObj, Begun(x)'
      PROVE  OnPath(prof', prof'.task[x].rData, path'[x])
  <2>1. CASE Stacked(x)
    BY <1>1, <2>1, TrackedOld
  <2>2. CASE ~Stacked(x) /\ Type(x) = "none"
    BY <1>1, <2>2, TrackedNew
  <2>3. CASE ~Stacked(x) /\ Type(x) # "none"
    BY <1>1, <2>3, TrackedDeferred
  <2>4. QED
    BY <2>1, <2>2, <2>3
<1>2. ASSUME NEW x \in TaskObj, Type(x)' = "explicit"
      PROVE  /\ prof'.task[x].codePtr \in TaskCode
             /\ path'[x] = Append(path'[prof'.task[x].parentTask], prof'.task[x].codePtr)
  <2>1. KeptKeys /\ Shape /\ Family /\ InUse' /\ Family' /\ ProfileOK(prof')
    BY DEF Kept, Sound, Good, Shape
  <2>2. PICK y, k : y = prof'.task[x].parentTask /\ k = prof'.task[x].codePtr
    OBVIOUS
  <2>3. k \in TaskCode /\ path'[x] = Append(path[y], k)
    <3>1. CASE Type(x) = "none"
      BY <1>2, <2>1, <2>2, <3>1 DEF KeptKeys
    <3>2. CASE Type(x) # "none"
      <4>1. SameOrigin(prof.task[x], prof'.task[x])
        BY <1>2, <2>1, <3>2 DEF KeptKeys
      <4>2. Type(x) = "explicit" /\ prof.task[x].parentTask = y /\ prof.task[x].codePtr = k
        BY <1>2, <2>2, <4>1 DEF SameOrigin, Type
      <4>3. path'[x] = path[x]
        BY <1>2, <4>2 DEF Moved
      <4>4. QED
        BY <4>2, <4>3 DEF Tracked
    <3>3. QED
      BY <3>1, <3>2
  <2>4. y \in TaskObj /\ Type(y)' \in {"implicit", "explicit"}
    BY <1>2, <2>1, <2>2 DEF Family, ProfileOK, Type
  <2>5. path'[y] = path[y]
    <3>1. Type(y) # "none"
      <4>1. SUFFICES ASSUME Type(y) = "none" PROVE FALSE
        OBVIOUS
      <4>2. y \notin queue'
        BY <1>2, <2>1, <2>2 DEF Family
      <4>3. Stacked(y)'
        BY <2>1, <2>4, <4>2 DEF InUse
      <4>4. ~Stacked(y)
        BY <2>1, <4>1, NotOnStack
      <4>5. running' # running
        BY <4>3, <4>4 DEF Stacked
      <4>6. Type(x) # "none"
        BY <1>2, <2>1, <4>5 DEF KeptKeys
      <4>7. Type(x) = "explicit" /\ prof.task[x].parentTask = y
        <5>1. SameOrigin(prof.task[x], prof'.task[x])
          BY <1>2, <2>1, <4>6 DEF KeptKeys
        <5>2. QED
          BY <1>2, <2>2, <5>1 DEF SameOrigin, Type
      <4>8. Type(y) \in {"implicit", "explicit"}
        BY <2>1, <4>7 DEF Family
      <4>9. QED
        BY <4>1, <4>8
    <3>2. SameOrigin(prof.task[y], prof'.task[y])
      BY <2>1, <2>4, <3>1 DEF KeptKeys
    <3>3. Type(y) \in {"implicit", "explicit"}
      BY <2>4, <3>2 DEF SameOrigin, Type
    <3>4. QED
      BY <2>4, <3>3 DEF Moved
  <2>6. QED
    BY <2>2, <2>3, <2>5
<1>3. QED
  BY <1>1, <1>2 DEF Tracked

(* No task has begun in the initial states.                                 *)
LEMMA InitTracked == Init => Tracked
<1> SUFFICES ASSUME Init PROVE Tracked
  OBVIOUS
<1>1. \A o \in TaskObj : Type(o) = "none"
  BY DEF Init, Type, Blank
<1>2. QED
  BY <1>1 DEF Tracked, Begun

(* Measured tasks have begun, so that their paths are known.               *)
LEMMA TrackedPaths == Sound /\ Tracked => CallPathFaithful
<1> SUFFICES ASSUME Sound, Tracked, NEW t \in Thread, NEW o \in Measured(t)
             PROVE  LET id == prof.task[o].rData.id IN
                    IF prof.flat THEN prof.regions[id][1] = Last(path[o])
                    ELSE RegionPath[id] = path[o]
  BY DEF CallPathFaithful
<1>1. prof.active /\ OnStack(running[t], o) /\ Type(o) # "undeferred"
  BY MeasuredTasks DEF Sound
<1>2. PICK i \in 1..Len(running[t]) : running[t][i] = o
  BY <1>1 DEF OnStack
<1>3. o \in TaskObj /\ Type(o) \in {"initial", "implicit", "explicit", "undeferred"}
  <2>1. EnvTypes /\ Stacks
    BY DEF Sound, Good, Shape
  <2>2. Type(o) \in Level(t, i) /\ o \in TaskObj
    BY <1>2, <2>1, CurrentOK DEF Stacks
  <2>3. QED
    BY <2>2 DEF Level
<1>4. OnPath(prof, prof.task[o].rData, path[o])
  BY <1>1, <1>3 DEF Tracked, Begun, Stacked
<1>5. RegionPath = Way(prof.regions)
  BY DEF RegionPath, Way, Follows
<1>6. QED
  BY <1>4, <1>5 DEF OnPath

(* In a call-path profile of a well-structured program the code pointers    *)
(* from the root to the region of a measured task are those of its true    *)
(* call path; in a flat profile its region has its own code pointer.       *)
THEOREM CallPathInvariant == ASSUME WellStructured PROVE Spec => []CallPathFaithful
<1>1. Init => Sound /\ Tracked
  BY InitGood, InitTracked
<1>2. Sound /\ Tracked /\ [Next]_vars => Sound' /\ Tracked'
  <2>1. SUFFICES ASSUME Sound, Tracked, [Next]_vars PROVE Sound' /\ Tracked'
    OBVIOUS
  <2>2. Sound' /\ Kept
    BY <2>1, NextSound
  <2>3. Shape /\ Shape' /\ InUse' /\ KeptKeys
    BY <2>1, <2>2 DEF Sound, Good, Kept
  <2>4. Moved
    BY <2>1, <2>3, NextMoved
  <2>5. Known'
    BY <2>2, SoundKnown, PTL
  <2>6. QED
    BY <2>1, <2>2, <2>4, <2>5, TrackedStep
<1>3. QED
  BY <1>1, <1>2, TrackedPaths, PTL DEF Spec
=============================================================================
