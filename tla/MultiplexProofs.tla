--------------------------- MODULE MultiplexProofs ---------------------------
(***************************************************************************)
(* The two tools next to each other, for any threads, tasks and regions.   *)
(* The first part of the invariant, Flow, is about the program and the      *)
(* callbacks that are in progress; the second, Words, about the memory the  *)
(* tools share.  Only Words needs that the client sets the callback of an   *)
(* end with that of the begin, and that no task is cancelled.              *)
(***************************************************************************)
EXTENDS Multiplex, SequenceFacts, FiniteSetTheorems

Remaining(t) == {call[t].parts[i] : i \in 1..Len(call[t].parts)}
OnStack(t) == {stack[t][i] : i \in 1..Len(stack[t])}

(* The part of a stack that is no explicit task ends with the initial task. *)
Base(t) == IF t = Initial THEN 1 ELSE 0

Place == {"new", "begun", "idle", "serial", "fork", "team", "barrier", "leaving", "join", "done",
          "ending", "gone", "final"}

EventName == {"thread_begin", "thread_end", "parallel_begin", "parallel_end", "implicit_task",
              "sync_region", "task_create", "task_schedule", "control_tool", "work", "finalize", None}

PartName == {"own", "client", "free", "dlclose"}

CallType == [event : EventName, args : SUBSET Handle, begun : SUBSET Handle,
             ended : SUBSET Handle, parts : Seq(PartName)]

BeginEvent(h) ==
  CASE h[1] = "thread" -> "thread_begin"
    [] h[1] = "region" -> IF h = RegionData(0) THEN "implicit_task" ELSE "parallel_begin"
    [] h[1] = "implicit" -> "implicit_task"
    [] OTHER -> "task_create"

EndEvent(h) ==
  CASE h[1] = "thread" -> "thread_end"
    [] h[1] = "region" -> "parallel_end"
    [] h[1] = "implicit" -> "implicit_task"
    [] OTHER -> "task_schedule"

-----------------------------------------------------------------------------
(* Where the threads are: a region is entered by all, and left when all     *)
(* have come to its barrier.                                               *)
Places ==
  /\ at \in [Thread -> Place]
  /\ \A t \in Worker : at[t] \in {"new", "idle", "team", "barrier", "leaving", "gone"}
  /\ at[Initial] # "idle"
  /\ region <= barrier + 1
  /\ \A t \in Thread :
       /\ barrier <= entered[t]
       /\ at[t] = "team" => barrier < entered[t]
       /\ at[t] \notin {"team", "barrier"} => entered[t] <= barrier
       /\ at[t] \in {"team", "barrier", "leaving"} => entered[t] > 0
       /\ at[t] = "new" => entered[t] = 0
  /\ at[Initial] \in {"fork", "team"} => barrier < region
  /\ at[Initial] \notin {"fork", "team", "barrier"} => barrier = region
  /\ at[Initial] # "fork" => entered[Initial] = region
  /\ at[Initial] \in {"fork", "team", "barrier", "leaving", "join"} => region > 0
  /\ at[Initial] \in {"new", "begun"} => region = 0
  /\ ready # {} => barrier < region

(* What a thread executes: explicit tasks above the implicit one, which is  *)
(* on the initial task for the initial thread; no task twice.              *)
StackOf(t) ==
  /\ at[t] \in {"new", "begun", "idle", "done", "gone", "final"} => stack[t] = <<>>
  /\ at[t] \in {"serial", "fork", "join", "ending"} => stack[t] = <<InitialTask>>
  /\ at[t] \in {"team", "barrier", "leaving"} =>
       LET n == Len(stack[t]) - Base(t) IN
         /\ n > 0 /\ stack[t][n] = ImplicitTask(entered[t], t)
         /\ t = Initial => stack[t][n + 1] = InitialTask
         /\ \A i \in 1..n - 1 :
              /\ barrier < entered[t]
              /\ \E e \in created \ ready : stack[t][i] = ExplicitTask(e)

Stacks ==
  /\ \A t \in Thread : StackOf(t)
  /\ \A t, u \in Thread : \A i \in 1..Len(stack[t]), j \in 1..Len(stack[u]) :
       stack[t][i] = stack[u][j] => t = u /\ i = j

(* What a callback passes and does not end is used by its thread ...        *)
Uses(t, h) ==
  \/ h \in OnStack(t)
  \/ h \in call[t].begun /\ h = ThreadData(t)
  \/ h \in call[t].begun /\ at[t] = "team" /\ \E e \in ready : h = ExplicitTask(e)
  \/ h = RegionData(region) /\ at[t] \in {"team", "barrier"} /\ barrier < entered[t]
  \/ h = RegionData(region) /\ t = Initial /\ at[t] \in {"fork", "leaving"}
  \/ h = RegionData(0) /\ h \in call[t].begun /\ t = Initial /\ at[t] = "serial"

(* ... and what it ends by nobody.                                         *)
Spent(t, h) ==
  \/ h = ThreadData(t) /\ at[t] = "gone"
  \/ /\ h \in TaskHandle /\ h[1] = "implicit" /\ h = ImplicitTask(h[2], t)
     /\ h[2] <= entered[t] /\ at[t] \in {"idle", "join", "done"}
     /\ h = InitialTask => at[t] = "done"
  \/ h = RegionData(region) /\ region > 0 /\ t = Initial /\ at[t] = "serial"
  \/ /\ \E e \in created \ ready : h = ExplicitTask(e)
     /\ at[t] \in {"team", "barrier"} /\ barrier < entered[t]
     /\ \A u \in Thread : h \notin OnStack(u)

(* What a callback passes: regions begin on the initial thread; of what     *)
(* begins at a time there is one of a kind.                                *)
Passes(t) ==
  /\ call[t].begun \subseteq call[t].args /\ call[t].ended \subseteq call[t].args
  /\ call[t].begun = {} \/ call[t].ended = {}
  /\ \A h \in call[t].ended : call[t].event = EndEvent(h)
  /\ \A h \in call[t].begun : call[t].event = BeginEvent(h) /\ (h[1] = "region" => t = Initial)
  /\ \A h, g \in call[t].begun : KindOf(h) = KindOf(g) => h = g
  /\ \A h \in call[t].args : h[1] = "thread" =>
       h = ThreadData(t) /\ h \in call[t].begun \cup call[t].ended

InUse(t) ==
  /\ \A h \in call[t].args \ call[t].ended : Uses(t, h)
  /\ \A h \in call[t].ended : Spent(t, h)
  /\ call[t].event = "thread_begin" => at[t] \in {"begun", "idle"}
  /\ call[t].event = "thread_end" => at[t] = "gone"
  /\ call[t].event = "parallel_begin" => at[t] = "fork"

Apart(t, u) ==
  \A e \in Task :
    /\ ExplicitTask(e) \notin call[t].begun \cap call[u].begun
    /\ ExplicitTask(e) \notin call[t].ended \cap call[u].ended

Arguments ==
  /\ \A t \in Thread : InCall(t) => Passes(t) /\ InUse(t)
  /\ \A t, u \in Thread : InCall(t) /\ InCall(u) /\ t # u => Apart(t, u)
  /\ at[Initial] = "fork" /\ InCall(Initial) => \A t \in Thread : entered[t] < region

(* The parts that a callback has left.                                     *)
PartsOf(t) ==
  LET p == call[t].parts IN
  /\ \A i, j \in 1..Len(p) : p[i] = p[j] => i = j
  /\ \A i \in 1..Len(p) : p[i] \in {"free", "dlclose"} => i = Len(p)
  /\ "free" \in Remaining(t) <=> call[t].event = "thread_end"
  /\ "dlclose" \in Remaining(t) <=> call[t].event = "finalize"
  /\ IF call[t].event = "finalize"
       THEN /\ t = Initial /\ at[t] = "final"
            /\ \A i \in 1..Len(p) : p[i] = "client" => i = 1 /\ client # 0
       ELSE /\ "own" \in Remaining(t) => callbacks_registered /\ call[t].event \in OwnEvent
            /\ "client" \in Remaining(t) => call[t].event \in clientSet
  /\ call[t].event = "control_tool" => t = Initial /\ at[t] = "ending"

PartsLeft ==
  /\ call \in [Thread -> CallType]
  /\ \A t \in Thread : InCall(t) => PartsOf(t)

(* What a callback may have left when the tools are finalized: the end of   *)
(* finalize, or the client's part of the control_tool that ended them.     *)
Over(t) == Remaining(t) = IF call[t].event = "control_tool" THEN {"client"} ELSE {"dlclose"}

Closed == client # 0 /\ client \notin opened

(* The life of the tool.                                                   *)
Life ==
  /\ phase \in {"load", "initialize"} =>
       /\ ~callbacks_registered /\ clientSet = {} /\ created = {}
       /\ \A t \in Thread : at[t] = "new" /\ ~InCall(t)
  /\ clientSet # {} => client # 0
  /\ clientSet = {} \/ clientSet \in ClientSets
  /\ Closed => /\ at[Initial] = "final" \/ phase = "finalized"
               /\ \A t \in Thread : InCall(t) => call[t].event = "control_tool"
  /\ phase = "finalized" => \A t \in Thread : InCall(t) => Over(t)
  /\ at[Initial] = "final" => \A t \in Worker : at[t] \in {"new", "gone"} /\ ~InCall(t)

Flow == TypeOK /\ Places /\ Stacks /\ PartsLeft /\ Arguments /\ Life

-----------------------------------------------------------------------------
(* What the code expects of a client: it sets the callback of the end       *)
(* whenever it sets that of the begin, and thread_begin with thread_end.   *)
ClientPaired ==
  \A events \in ClientSets :
    /\ "thread_begin" \in events <=> "thread_end" \in events
    /\ "parallel_begin" \in events => "parallel_end" \in events
    /\ "task_create" \in events => "task_schedule" \in events

(* The threads, regions and tasks that have begun and not ended.           *)
CurrentThread(h) == \E t \in Thread : h = ThreadData(t) /\ at[t] \notin {"new", "gone", "final"}

CurrentRegion(h) ==
  \/ h = RegionData(0) /\ at[Initial] \notin {"new", "begun"}
  \/ h = RegionData(region) /\ at[Initial] \in {"fork", "team", "barrier", "leaving", "join"}

CurrentTask(h) == (\E t \in Thread : h \in OnStack(t)) \/ (\E e \in ready : h = ExplicitTask(e))

Current(h) == CurrentThread(h) \/ CurrentRegion(h) \/ CurrentTask(h)

Beginning(h, part) == \E t \in Thread : h \in call[t].begun /\ part \in Remaining(t)
Ending(h, part) == \E t \in Thread : h \in call[t].ended /\ part \in Remaining(t)

(* The regions and tasks for which the profiler has an object, and all      *)
(* that the client has seen begin and not end.                             *)
Held == {h \in RegionHandle \cup TaskHandle : (Current(h) /\ ~Beginning(h, "own")) \/ Ending(h, "own")}
Known == {h \in Handle : /\ BeginEvent(h) \in clientSet
                         /\ (Current(h) /\ ~Beginning(h, "client")) \/ Ending(h, "client")}

Started(h) ==
  CASE h[1] = "thread" -> at[h[2]] # "new"
    [] h[1] = "region" -> IF h[2] = 0 THEN at[Initial] \notin {"new", "begun"} ELSE h[2] <= region
    [] h[1] = "implicit" -> IF h[2] = 0 THEN at[Initial] \notin {"new", "begun"} ELSE h[2] <= entered[h[3]]
    [] OTHER -> h[2] \in created

(* The wrappers of ends call the client first.                             *)
Ordered ==
  \A t \in Thread : InCall(t) =>
    LET p == call[t].parts IN
    IF call[t].ended # {} /\ call[t].event # "thread_end"
      THEN /\ \A i \in 1..Len(p) : p[i] = "client" => i = 1
           /\ callbacks_registered => "own" \in Remaining(t)
      ELSE call[t].event # "finalize" =>
             /\ \A i \in 1..Len(p) : p[i] = "own" => i = 1
             /\ "own" \in Remaining(t) /\ call[t].event \in clientSet => "client" \in Remaining(t)

(* Who has an object, and on which thread.                                 *)
Objects ==
  /\ \A h \in Held : callbacks_registered => ptr[h] \in Object /\ user[ptr[h]] = h
  /\ \A o \in Object : user[o] # None =>
       /\ callbacks_registered
       /\ user[o] \in Held /\ ptr[user[o]] = o /\ o[1] = KindOf(user[o])
       /\ user[o][1] = "region" => Owner(o) = Initial
       /\ user[o][1] = "implicit" => Owner(o) = user[o][3]
       /\ user[o][1] = "explicit" => entered[Owner(o)] = region

Threads ==
  \A t \in Thread :
    /\ callbacks_registered /\ at[t] # "new"
       /\ (at[t] \in {"gone", "final"} => InCall(t) /\ call[t].event = "thread_end" /\ "own" \in Remaining(t))
       /\ ~(call[t].event = "thread_begin" /\ "own" \in Remaining(t))
         => t \in pools
    /\ Registered("thread_begin")
       /\ (at[t] \notin {"new", "gone", "final"} \/ (InCall(t) /\ call[t].event = "thread_end"))
         => t \in pairs

(* What the client has stored.                                             *)
Stored ==
  /\ live = Known
  /\ \A o \in Object : user[o] = None \/ Current(user[o]) \/ Ending(user[o], "client")
       => data[o] = IF user[o] \in live THEN user[o] ELSE None
  /\ \A h \in Handle :
       ~(callbacks_registered /\ h \in RegionHandle \cup TaskHandle)
       /\ (~Started(h) \/ Current(h) \/ Ending(h, "client"))
         => data[h] = IF h \in live THEN h ELSE None

Words == Ordered /\ Objects /\ Threads /\ Stored

-----------------------------------------------------------------------------
(* Sequences whose first element comes or goes *)

(* A task on top of a stack.                                               *)
LEMMA PushFront ==
  ASSUME NEW S, NEW s \in Seq(S), NEW x \in S
  PROVE  /\ <<x>> \o s \in Seq(S)
         /\ Len(<<x>> \o s) = Len(s) + 1
         /\ (<<x>> \o s)[1] = x
         /\ \A i \in 1..Len(s) : (<<x>> \o s)[i + 1] = s[i]
<1>1. <<x>> \in Seq(S) /\ Len(<<x>>) = 1 /\ <<x>>[1] = x
  OBVIOUS
<1>2. Len(s) \in Nat
  BY LenProperties
<1> DEFINE f == <<x>>
<1>3. f \in Seq(S) /\ Len(f) = 1 /\ f[1] = x
  BY <1>1
<1> HIDE DEF f
<1>4. /\ f \o s \in Seq(S)
      /\ Len(f \o s) = Len(f) + Len(s)
      /\ \A i \in 1..Len(f) + Len(s) : (f \o s)[i] = IF i <= Len(f) THEN f[i] ELSE s[i - Len(f)]
  BY <1>3, ConcatProperties
<1>5. \A i \in 1..Len(s) : (f \o s)[i + 1] = s[i]
  BY <1>2, <1>3, <1>4
<1>6. (f \o s)[1] = x
  BY <1>2, <1>3, <1>4
<1>7. QED
  BY <1>2, <1>3, <1>4, <1>5, <1>6 DEF f

(* The task on top of a stack, and the next part of a callback, goes.       *)
LEMMA TailFacts ==
  ASSUME NEW S, NEW s \in Seq(S), s # <<>>
  PROVE  /\ Len(s) \in Nat \ {0} /\ s[1] \in S /\ Head(s) = s[1]
         /\ Tail(s) \in Seq(S) /\ Len(Tail(s)) = Len(s) - 1
         /\ \A i \in 1..Len(s) - 1 : Tail(s)[i] = s[i + 1]
<1>1. Len(s) \in Nat \ {0}
  BY EmptySeq
<1>2. /\ Head(s) = s[1] /\ Tail(s) \in Seq(S) /\ Len(Tail(s)) = Len(s) - 1
      /\ \A i \in 1..Len(Tail(s)) : Tail(s)[i] = s[i + 1]
  BY HeadTailProperties
<1>3. s[1] \in S
  BY <1>1, ElementOfSeq
<1>4. QED
  BY <1>1, <1>2, <1>3

(* Without repetitions, the rest has all elements but the first.            *)
LEMMA TailRange ==
  ASSUME NEW S, NEW s \in Seq(S), s # <<>>,
         \A i, j \in 1..Len(s) : s[i] = s[j] => i = j
  PROVE  {Tail(s)[i] : i \in 1..Len(Tail(s))} = {s[i] : i \in 1..Len(s)} \ {s[1]}
<1> DEFINE n == Len(s)
           r == Tail(s)
<1>1. n \in Nat \ {0} /\ Len(r) = n - 1 /\ (\A i \in 1..n - 1 : r[i] = s[i + 1])
  BY TailFacts
<1> HIDE DEF n, r
<1>2. ASSUME NEW i \in 1..Len(r)
      PROVE  r[i] \in {s[j] : j \in 1..n} \ {s[1]}
  <2>1. i + 1 \in 1..n /\ i + 1 # 1 /\ r[i] = s[i + 1] /\ 1 \in 1..n
    BY <1>1
  <2>2. QED
    BY <2>1 DEF n
<1>3. ASSUME NEW i \in 1..n, s[i] # s[1]
      PROVE  s[i] \in {r[j] : j \in 1..Len(r)}
  <2>1. i # 1
    BY <1>3
  <2>2. i - 1 \in 1..Len(r) /\ i = (i - 1) + 1
    BY <1>1, <2>1
  <2>3. r[i - 1] = s[i]
    BY <1>1, <2>2
  <2>4. QED
    BY <2>2, <2>3
<1>4. QED
  BY <1>2, <1>3 DEF n, r

-----------------------------------------------------------------------------
(* Handles *)

LEMMA HandleFacts ==
  /\ \A t : ThreadData(t)[1] = "thread" /\ ThreadData(t)[2] = t
  /\ \A r : RegionData(r)[1] = "region" /\ RegionData(r)[2] = r
  /\ \A r, t : /\ ImplicitTask(r, t)[1] = "implicit"
               /\ ImplicitTask(r, t)[2] = r /\ ImplicitTask(r, t)[3] = t
  /\ \A e : ExplicitTask(e)[1] = "explicit" /\ ExplicitTask(e)[2] = e
BY DEF ThreadData, RegionData, ImplicitTask, ExplicitTask

LEMMA HandleCases ==
  /\ Handle = {ThreadData(t) : t \in Thread} \cup RegionHandle \cup TaskHandle
  /\ Initial \in Thread /\ Worker = Thread \ {Initial} /\ MaxRegion \in Nat
  /\ \A t \in Thread : ThreadData(t) \in Handle
  /\ \A r \in 0..MaxRegion : RegionData(r) \in RegionHandle
  /\ \A r \in 1..MaxRegion : \A t \in Thread : ImplicitTask(r, t) \in TaskHandle
  /\ InitialTask \in TaskHandle /\ InitialTask = ImplicitTask(0, Initial)
  /\ \A e \in Task : ExplicitTask(e) \in TaskHandle
  /\ \A h \in RegionHandle : \E r \in 0..MaxRegion : h = RegionData(r)
  /\ \A h \in TaskHandle : \/ h = InitialTask
                           \/ \E r \in 1..MaxRegion : \E t \in Thread : h = ImplicitTask(r, t)
                           \/ \E e \in Task : h = ExplicitTask(e)
  /\ None \notin Handle /\ None \notin Object
<1>1. MaxRegion \in Nat /\ Worker = Thread \ {Initial}
  BY MultiplexAssumption DEF Thread
<1>2. 0 \in 0..MaxRegion
  BY <1>1
<1>3. QED
  BY <1>1, <1>2, NoneAssumption DEF Handle, RegionHandle, TaskHandle, Thread, InitialTask

(* Objects of different handles have different first components.            *)
LEMMA KindFacts ==
  /\ \A h \in RegionHandle : h[1] = "region" /\ KindOf(h) = "region"
  /\ \A h \in TaskHandle : h[1] \in {"implicit", "explicit"} /\ h \notin RegionHandle /\ KindOf(h) = "task"
  /\ \A t \in Thread : ThreadData(t) \notin RegionHandle \cup TaskHandle
  /\ \A h \in Handle : h[1] \in {"thread", "region", "implicit", "explicit"}
  /\ \A h \in Handle : h[1] = "thread" => \E t \in Thread : h = ThreadData(t)
  /\ \A h \in Handle : h[1] = "region" => h \in RegionHandle
  /\ \A h \in Handle : h[1] \in {"implicit", "explicit"} => h \in TaskHandle
<1>1. \A h \in RegionHandle : h[1] = "region"
  BY HandleFacts, HandleCases
<1>2. \A h \in TaskHandle : h[1] \in {"implicit", "explicit"}
  BY HandleFacts, HandleCases
<1>3. \A t \in Thread : ThreadData(t)[1] = "thread"
  BY HandleFacts
<1>4. QED
  BY <1>1, <1>2, <1>3, HandleCases DEF KindOf

-----------------------------------------------------------------------------
(* Callbacks *)

(* Two parts, one after the other.                                         *)
LEMMA TwoParts ==
  ASSUME NEW a \in PartName, NEW b \in PartName
  PROVE  <<a>> \o <<b>> = <<a, b>>
<1> DEFINE s == <<b>>
<1>1. s \in Seq(PartName) /\ Len(s) = 1 /\ s[1] = b
  OBVIOUS
<1> HIDE DEF s
<1> DEFINE f == <<a>> \o s
           g == <<a, b>>
<1>2. /\ <<a>> \o s \in Seq(PartName)
      /\ Len(<<a>> \o s) = Len(s) + 1
      /\ (<<a>> \o s)[1] = a
      /\ \A i \in 1..Len(s) : (<<a>> \o s)[i + 1] = s[i]
  BY <1>1, PushFront
<1>3. f \in Seq(PartName) /\ Len(f) = 2 /\ f[1] = a /\ f[2] = b
  <2>1. 1 \in 1..Len(s) /\ 1 + 1 = 2
    BY <1>1
  <2>2. f[1 + 1] = s[1]
    BY <1>2, <2>1
  <2>3. f \in Seq(PartName) /\ Len(f) = Len(s) + 1 /\ f[1] = a
    BY <1>2
  <2> HIDE DEF f
  <2>4. QED
    BY <1>1, <2>1, <2>2, <2>3
<1>4. g \in Seq(PartName) /\ Len(g) = 2 /\ g[1] = a /\ g[2] = b
  OBVIOUS
<1> HIDE DEF f, g
<1>5. Len(f) = Len(g) /\ \A i \in 1..Len(f) : f[i] = g[i]
  BY <1>3, <1>4
<1>6. f = g
  BY <1>3, <1>4, <1>5, SeqEqual
<1>7. QED
  BY <1>6 DEF f, g, s

(* The parts of a callback in the order of the wrapper, and the set of them. *)
LEMMA OwnFirstParts ==
  ASSUME NEW event
  PROVE  /\ OwnFirst(event) \in Seq(PartName)
         /\ \A i, j \in 1..Len(OwnFirst(event)) : OwnFirst(event)[i] = OwnFirst(event)[j] => i = j
         /\ \A i \in 1..Len(OwnFirst(event)) : OwnFirst(event)[i] = "own" => i = 1
         /\ \A i \in 1..Len(OwnFirst(event)) : OwnFirst(event)[i] \in {"own", "client"}
         /\ {OwnFirst(event)[i] : i \in 1..Len(OwnFirst(event))}
              = {q \in {"own", "client"} : Called(event, q)}
<1>1. CASE Called(event, "own") /\ Called(event, "client")
  <2>1. OwnFirst(event) = <<"own", "client">>
    BY <1>1, TwoParts DEF PartName, OwnFirst, When
  <2>2. QED
    BY <1>1, <2>1 DEF PartName
<1>2. CASE Called(event, "own") /\ ~Called(event, "client")
  <2>1. OwnFirst(event) = <<"own">>
    BY <1>2 DEF OwnFirst, When
  <2>2. QED
    BY <1>2, <2>1 DEF PartName
<1>3. CASE ~Called(event, "own") /\ Called(event, "client")
  <2>1. OwnFirst(event) = <<"client">>
    BY <1>3 DEF OwnFirst, When
  <2>2. QED
    BY <1>3, <2>1 DEF PartName
<1>4. CASE ~Called(event, "own") /\ ~Called(event, "client")
  <2>1. OwnFirst(event) = <<>>
    BY <1>4 DEF OwnFirst, When
  <2>2. QED
    BY <1>4, <2>1 DEF PartName
<1>5. QED
  BY <1>1, <1>2, <1>3, <1>4

LEMMA ClientFirstParts ==
  ASSUME NEW event
  PROVE  /\ ClientFirst(event) \in Seq(PartName)
         /\ \A i, j \in 1..Len(ClientFirst(event)) : ClientFirst(event)[i] = ClientFirst(event)[j] => i = j
         /\ \A i \in 1..Len(ClientFirst(event)) : ClientFirst(event)[i] = "client" => i = 1
         /\ \A i \in 1..Len(ClientFirst(event)) : ClientFirst(event)[i] \in {"own", "client"}
         /\ {ClientFirst(event)[i] : i \in 1..Len(ClientFirst(event))}
              = {q \in {"own", "client"} : Called(event, q)}
<1>1. CASE Called(event, "own") /\ Called(event, "client")
  <2>1. ClientFirst(event) = <<"client", "own">>
    BY <1>1, TwoParts DEF PartName, ClientFirst, When
  <2>2. QED
    BY <1>1, <2>1 DEF PartName
<1>2. CASE Called(event, "own") /\ ~Called(event, "client")
  <2>1. ClientFirst(event) = <<"own">>
    BY <1>2 DEF ClientFirst, When
  <2>2. QED
    BY <1>2, <2>1 DEF PartName
<1>3. CASE ~Called(event, "own") /\ Called(event, "client")
  <2>1. ClientFirst(event) = <<"client">>
    BY <1>3 DEF ClientFirst, When
  <2>2. QED
    BY <1>3, <2>1 DEF PartName
<1>4. CASE ~Called(event, "own") /\ ~Called(event, "client")
  <2>1. ClientFirst(event) = <<>>
    BY <1>4 DEF ClientFirst, When
  <2>2. QED
    BY <1>4, <2>1 DEF PartName
<1>5. QED
  BY <1>1, <1>2, <1>3, <1>4

ThreadEndLeft == OwnFirst("thread_end") \o When("thread_end", "free")

LEMMA ThreadEndParts ==
  /\ ThreadEndLeft \in Seq(PartName)
  /\ \A i, j \in 1..Len(ThreadEndLeft) : ThreadEndLeft[i] = ThreadEndLeft[j] => i = j
  /\ \A i \in 1..Len(ThreadEndLeft) : ThreadEndLeft[i] = "own" => i = 1
  /\ \A i \in 1..Len(ThreadEndLeft) : ThreadEndLeft[i] \in {"free", "dlclose"} => i = Len(ThreadEndLeft)
  /\ {ThreadEndLeft[i] : i \in 1..Len(ThreadEndLeft)} 
       = {q \in {"own", "client", "free"} : Called("thread_end", q)}
<1> DEFINE p == ThreadEndLeft
           s == OwnFirst("thread_end")
           n == Len(s)
<1>1. /\ s \in Seq(PartName) /\ n \in Nat
      /\ \A i, j \in 1..n : s[i] = s[j] => i = j
      /\ \A i \in 1..n : s[i] = "own" => i = 1
      /\ \A i \in 1..n : s[i] \in {"own", "client"}
      /\ {s[i] : i \in 1..n} = {q \in {"own", "client"} : Called("thread_end", q)}
  BY OwnFirstParts, LenProperties
<1>2. p = s \o When("thread_end", "free")
  BY DEF ThreadEndLeft
<1> HIDE DEF s, p
<1>3. ASSUME Called("thread_end", "free")
      PROVE  /\ p \in Seq(PartName)
             /\ \A i, j \in 1..Len(p) : p[i] = p[j] => i = j
             /\ \A i \in 1..Len(p) : p[i] = "own" => i = 1
             /\ \A i \in 1..Len(p) : p[i] \in {"free", "dlclose"} => i = Len(p)
             /\ {p[i] : i \in 1..Len(p)} = {q \in {"own", "client", "free"} : Called("thread_end", q)}
  <2> DEFINE f == <<"free">>
  <2>1. f \in Seq(PartName) /\ Len(f) = 1 /\ f[1] = "free"
    BY DEF PartName
  <2>2. p = s \o f
    BY <1>2, <1>3 DEF When
  <2> HIDE DEF f
  <2>20. s \in Seq(PartName) /\ f \in Seq(PartName) /\ n \in Nat /\ n = Len(s)
    BY <1>1, <2>1
  <2> HIDE DEF n
  <2>3. /\ s \o f \in Seq(PartName) /\ Len(s \o f) = Len(s) + Len(f)
        /\ \A i \in 1..Len(s) + Len(f) : (s \o f)[i] = IF i <= Len(s) THEN s[i] ELSE f[i - Len(s)]
    BY <2>20, ConcatProperties
  <2>30. /\ p \in Seq(PartName) /\ Len(p) = n + 1
         /\ \A i \in 1..n + 1 : p[i] = IF i <= n THEN s[i] ELSE f[i - n]
    BY <2>1, <2>2, <2>20, <2>3
  <2>40. n + 1 \in 1..n + 1 /\ ~(n + 1 <= n) /\ (n + 1) - n = 1
    BY <2>20
  <2>41. \A i \in 1..n : i \in 1..n + 1 /\ i <= n
    BY <2>20
  <2>4. Len(p) = n + 1 /\ p[n + 1] = "free" /\ \A i \in 1..n : p[i] = s[i] /\ i \in 1..n + 1
    BY <2>1, <2>30, <2>40, <2>41
  <2>5. \A i \in 1..n + 1 : i \in 1..n \/ i = n + 1
    BY <2>20
  <2>50. \A i \in 1..n : s[i] # "free"
    BY <1>1
  <2>6. ASSUME NEW i \in 1..Len(p), NEW j \in 1..Len(p), p[i] = p[j]
        PROVE  i = j
    <3>1. CASE i \in 1..n /\ j \in 1..n
      BY <1>1, <2>4, <2>6, <3>1
    <3>2. CASE i \in 1..n /\ j = n + 1
      BY <2>4, <2>6, <2>50, <3>2
    <3>3. CASE i = n + 1 /\ j \in 1..n
      BY <2>4, <2>6, <2>50, <3>3
    <3>4. QED
      BY <2>4, <2>5, <3>1, <3>2, <3>3
  <2>7. \A i \in 1..Len(p) : p[i] = "own" => i = 1
    BY <1>1, <2>4, <2>5
  <2>8. \A i \in 1..Len(p) : p[i] \in {"free", "dlclose"} => i = Len(p)
    BY <1>1, <2>4, <2>5
  <2>9. {p[i] : i \in 1..Len(p)} = {s[i] : i \in 1..n} \cup {"free"}
    <3>1. ASSUME NEW i \in 1..Len(p)
          PROVE  p[i] \in {s[j] : j \in 1..n} \cup {"free"}
      BY <2>4, <2>5
    <3>2. ASSUME NEW i \in 1..n
          PROVE  s[i] \in {p[j] : j \in 1..Len(p)}
      BY <2>4
    <3>3. n + 1 \in 1..Len(p)
      BY <1>1, <2>4
    <3>4. "free" \in {p[j] : j \in 1..Len(p)}
      BY <2>4, <3>3
    <3>5. QED
      BY <3>1, <3>2, <3>4
  <2>10. {q \in {"own", "client", "free"} : Called("thread_end", q)}
           = {q \in {"own", "client"} : Called("thread_end", q)} \cup {"free"}
    BY <1>3
  <2>11. {p[i] : i \in 1..Len(p)} = {q \in {"own", "client", "free"} : Called("thread_end", q)}
    BY <1>1, <2>9, <2>10, Zenon
  <2>12. QED
    BY <2>30, <2>6, <2>7, <2>8, <2>11
<1>4. ASSUME ~Called("thread_end", "free")
      PROVE  /\ p \in Seq(PartName)
             /\ \A i, j \in 1..Len(p) : p[i] = p[j] => i = j
             /\ \A i \in 1..Len(p) : p[i] = "own" => i = 1
             /\ \A i \in 1..Len(p) : p[i] \in {"free", "dlclose"} => i = Len(p)
             /\ {p[i] : i \in 1..Len(p)} = {q \in {"own", "client", "free"} : Called("thread_end", q)}
  <2>0. ~Called("thread_end", "own") /\ ~Called("thread_end", "client")
    BY <1>4 DEF Called, Registered
  <2>1. p = s
    BY <1>1, <1>2, <1>4, ConcatEmptySeq DEF When
  <2>2. \A i \in 1..n : s[i] \notin {"free", "dlclose"}
    BY <1>1
  <2>3. {q \in {"own", "client", "free"} : Called("thread_end", q)} = {q \in {"own", "client"} : Called("thread_end", q)}
    BY <1>4
  <2>4. {s[i] : i \in 1..n} = {q \in {"own", "client", "free"} : Called("thread_end", q)}
    BY <1>1, <2>3
  <2>5. {p[i] : i \in 1..Len(p)} = {s[i] : i \in 1..n}
    BY <2>1, Zenon
  <2>6. /\ p \in Seq(PartName)
        /\ \A i, j \in 1..Len(p) : p[i] = p[j] => i = j
        /\ \A i \in 1..Len(p) : p[i] = "own" => i = 1
        /\ \A i \in 1..Len(p) : p[i] \in {"free", "dlclose"} => i = Len(p)
    BY <1>1, <2>1, <2>2
  <2>7. QED
    BY <2>4, <2>5, <2>6
<1>5. /\ p \in Seq(PartName)
      /\ \A i, j \in 1..Len(p) : p[i] = p[j] => i = j
      /\ \A i \in 1..Len(p) : p[i] = "own" => i = 1
      /\ \A i \in 1..Len(p) : p[i] \in {"free", "dlclose"} => i = Len(p)
      /\ {p[i] : i \in 1..Len(p)} = {q \in {"own", "client", "free"} : Called("thread_end", q)}
  BY <1>3, <1>4
<1>6. QED
  BY <1>5 DEF p

LEMMA FinalizeParts ==
  ASSUME NEW p, p = (IF client # 0 THEN <<"client">> ELSE <<>>) \o <<"own", "dlclose">>
  PROVE  /\ p \in Seq(PartName) /\ p # <<>>
         /\ \A i, j \in 1..Len(p) : p[i] = p[j] => i = j
         /\ \A i \in 1..Len(p) : p[i] = "client" => i = 1 /\ client # 0
         /\ \A i \in 1..Len(p) : p[i] \in {"free", "dlclose"} => i = Len(p)
         /\ "dlclose" \in {p[i] : i \in 1..Len(p)} /\ "free" \notin {p[i] : i \in 1..Len(p)}
<1> DEFINE s == <<"own", "dlclose">>
<1>1. s \in Seq(PartName) /\ Len(s) = 2 /\ s[1] = "own" /\ s[2] = "dlclose"
  BY DEF PartName
<1>2. p = (IF client # 0 THEN <<"client">> ELSE <<>>) \o s
  OBVIOUS
<1> HIDE DEF s
<1>3. CASE client # 0
  <2>1. p = <<"client">> \o s /\ "client" \in PartName
    BY <1>2, <1>3 DEF PartName
  <2>2. /\ p \in Seq(PartName) /\ Len(p) = 3 /\ p[1] = "client"
        /\ \A i \in 1..Len(s) : p[i + 1] = s[i]
    BY <1>1, <2>1, PushFront
  <2>3. 1 \in 1..Len(s) /\ 2 \in 1..Len(s) /\ 1 + 1 = 2 /\ 2 + 1 = 3
    BY <1>1
  <2>4. p[2] = "own" /\ p[3] = "dlclose"
    BY <1>1, <2>2, <2>3
  <2>5. Len(p) = 3 /\ p[1] = "client" /\ p[2] = "own" /\ p[3] = "dlclose" /\ p \in Seq(PartName)
    BY <2>2, <2>4
  <2>6. QED
    BY <1>3, <2>5
<1>4. CASE client = 0
  <2>1. p = <<>> \o s
    BY <1>2, <1>4
  <2>2. p = s
    BY <1>1, <2>1, ConcatEmptySeq
  <2>3. p \in Seq(PartName) /\ Len(p) = 2 /\ p[1] = "own" /\ p[2] = "dlclose"
    BY <1>1, <2>2
  <2>4. QED
    BY <2>3
<1>5. QED
  BY <1>3, <1>4

(* A wrapper that calls something is a callback in progress; the others go *)
(* on.                                                                     *)
LEMMA CallbackFacts ==
  ASSUME call \in [Thread -> CallType],
         NEW t \in Thread, NEW event \in EventName, NEW args \in SUBSET Handle,
         NEW begun \in SUBSET Handle, NEW ended \in SUBSET Handle, NEW p \in Seq(PartName),
         Callback(t, event, args, begun, ended, p)
  PROVE  /\ call' \in [Thread -> CallType]
         /\ \A u \in Thread \ {t} : call'[u] = call[u]
         /\ call'[t].parts = p
         /\ p # <<>> => /\ call'[t].event = event /\ call'[t].args = args
                        /\ call'[t].begun = begun /\ call'[t].ended = ended
         /\ p = <<>> => call'[t] = NoCall
<1>1. NoCall \in CallType /\ NoCall.parts = <<>>
  BY DEF NoCall, CallType, EventName
<1>2. [event |-> event, args |-> args, begun |-> begun, ended |-> ended, parts |-> p] \in CallType
  BY DEF CallType
<1>3. QED
  BY <1>1, <1>2 DEF Callback

-----------------------------------------------------------------------------
(* Types *)

LEMMA KindTypes ==
  /\ Cardinality(Index) = Cardinality(Task) + 2 /\ Cardinality(Task) \in Nat
  /\ Index = 1..(Cardinality(Task) + 2)
  /\ \A h \in RegionHandle \cup TaskHandle : KindOf(h) \in Kind
<1>1. Cardinality(Task) \in Nat
  BY MultiplexAssumption, FS_CardinalityType
<1>2. Cardinality(1..(Cardinality(Task) + 2)) = Cardinality(Task) + 2
  BY <1>1, FS_Interval
<1>3. QED
  BY <1>1, <1>2 DEF Index, KindOf, Kind

LEMMA TypeInit == Init => TypeOK
<1>1. <<>> \in Seq(TaskHandle) /\ DOMAIN <<>> = {}
  OBVIOUS
<1>2. 0 \in 0..MaxLibrary /\ 0 \in 0..MaxRegion
  BY MultiplexAssumption
<1>3. 0 \in 0..Cardinality(Index)
  BY KindTypes
<1>4. ASSUME Init
      PROVE  TypeOK
  <2>1. size \in [Kind \X Thread -> 0..Cardinality(Index)]
    BY <1>3, <1>4 DEF Init
  <2>2. DOMAIN seen \subseteq Handle /\ live \subseteq Handle
    BY <1>1, <1>4 DEF Init
  <2>3. stack \in [Thread -> Seq(TaskHandle)]
    BY <1>1, <1>4 DEF Init
  <2>4. /\ user \in [Object -> RegionHandle \cup TaskHandle \cup {None}]
        /\ ptr \in [RegionHandle \cup TaskHandle -> Object \cup {None}]
        /\ data \in [Object \cup Handle -> Handle \cup {None}]
    BY <1>4 DEF Init
  <2>5. region \in 0..MaxRegion /\ barrier \in 0..region /\ entered \in [Thread -> 0..region]
    BY <1>2, <1>4 DEF Init
  <2>6. QED
    BY <1>2, <1>4, <2>1, <2>2, <2>3, <2>4, <2>5 DEF Init, TypeOK
<1>5. QED
  BY <1>4

(* The own tool takes an object that is free.                              *)
LEMMA OwnBeginTypes ==
  ASSUME TypeOK, NEW t \in Thread, call[t].begun \subseteq RegionHandle \cup TaskHandle, OwnBegin(t)
  PROVE  /\ size' \in [Kind \X Thread -> 0..Cardinality(Index)]
         /\ user' \in [Object -> RegionHandle \cup TaskHandle \cup {None}]
         /\ ptr' \in [RegionHandle \cup TaskHandle -> Object \cup {None}]
<1>1. PICK new \in [call[t].begun -> Object] :
        /\ \A h \in call[t].begun : MayGet(t, KindOf(h), new[h])
        /\ ptr' = [h \in DOMAIN ptr |-> IF h \in call[t].begun THEN new[h] ELSE ptr[h]]
        /\ user' = [o \in Object |-> IF \E h \in call[t].begun : new[h] = o
                                      THEN CHOOSE h \in call[t].begun : new[h] = o ELSE user[o]]
        /\ size' = [k \in Kind \X Thread |->
             LET mine == {new[h][3] : h \in {g \in call[t].begun : KindOf(g) = k[1] /\ k[2] = t}} IN
               IF \E i \in mine : i > size[k] THEN size[k] + 1 ELSE size[k]]
  BY DEF OwnBegin
<1>2. ptr' \in [RegionHandle \cup TaskHandle -> Object \cup {None}]
  BY <1>1 DEF TypeOK
<1>3. user' \in [Object -> RegionHandle \cup TaskHandle \cup {None}]
  <2>1. ASSUME NEW o \in Object, \E h \in call[t].begun : new[h] = o
        PROVE  (CHOOSE h \in call[t].begun : new[h] = o) \in call[t].begun
    BY <2>1
  <2>2. QED
    BY <1>1, <2>1 DEF TypeOK
<1>4. ASSUME NEW k \in Kind \X Thread
      PROVE  size'[k] \in 0..Cardinality(Index)
  <2>1. size[k] \in 0..Cardinality(Index) /\ k = <<k[1], k[2]>>
    BY DEF TypeOK
  <2> DEFINE mine == {new[h][3] : h \in {g \in call[t].begun : KindOf(g) = k[1] /\ k[2] = t}}
  <2>2. CASE \E i \in mine : i > size[k]
    <3>1. PICK h \in call[t].begun : KindOf(h) = k[1] /\ k[2] = t /\ new[h][3] > size[k]
      BY <2>2
    <3>2. new[h] \in Object /\ MayGet(t, k[1], new[h])
      BY <1>1, <3>1
    <3>3. new[h][3] \in 1..Cardinality(Index)
      BY <3>2, KindTypes DEF Object
    <3>4. new[h][3] = size[k] + 1
      BY <2>1, <3>1, <3>2, <3>3, KindTypes DEF MayGet
    <3>5. size'[k] = size[k] + 1
      BY <1>1, <2>2
    <3>6. QED
      BY <2>1, <3>3, <3>4, <3>5, KindTypes
  <2>3. CASE ~\E i \in mine : i > size[k]
    <3>1. size'[k] = size[k]
      BY <1>1, <2>3
    <3>2. QED
      BY <2>1, <3>1
  <2>4. QED
    BY <2>2, <2>3
<1>5. size' \in [Kind \X Thread -> 0..Cardinality(Index)]
  BY <1>1, <1>4
<1>6. QED
  BY <1>2, <1>3, <1>5

(* A thread in a region executes something.                                *)
LEMMA StackNotEmpty ==
  ASSUME Flow, NEW t \in Thread, at[t] \in {"team", "barrier", "leaving"}
  PROVE  stack[t] # <<>> /\ Len(stack[t]) \in Nat \ {0}
<1>1. stack[t] \in Seq(TaskHandle)
  BY DEF Flow, TypeOK
<1>2. Len(stack[t]) \in Nat
  BY <1>1, LenProperties
<1>3. Len(stack[t]) - Base(t) > 0
  BY DEF Flow, Stacks, StackOf
<1>4. Base(t) \in {0, 1}
  BY DEF Base
<1>5. Len(stack[t]) # 0
  BY <1>2, <1>3, <1>4
<1>6. QED
  BY <1>1, <1>2, <1>5, EmptySeq

(* Only thread_begin begins a thread.                                      *)
LEMMA BegunPooled ==
  ASSUME Flow, NEW t \in Thread, InCall(t), call[t].event # "thread_begin"
  PROVE  call[t].begun \subseteq RegionHandle \cup TaskHandle
<1>1. call[t].begun \subseteq Handle
  BY DEF Flow, PartsLeft, CallType
<1>2. ASSUME NEW h \in call[t].begun
      PROVE  h[1] # "thread"
  <2>1. call[t].event = BeginEvent(h)
    BY DEF Flow, Arguments, Passes
  <2>2. QED
    BY <2>1 DEF BeginEvent
<1>3. QED
  BY <1>1, <1>2, KindFacts

(* Every step keeps the types.                                             *)
LEMMA TypeStep ==
  ASSUME Flow, Next
  PROVE  TypeOK'
<1>1. CASE NextLibrary
  <2>1. library + 1 \in 0..MaxLibrary /\ library + 1 \in 1..MaxLibrary
    BY <1>1, MultiplexAssumption DEF Flow, TypeOK, NextLibrary
  <2>2. /\ library' = library + 1 /\ UNCHANGED <<phase, callbacks_registered, clientSet, memory, live, program>>
        /\ opened' \subseteq opened \cup {library + 1} /\ client' \in {client, library + 1} /\ seen' = seen
    BY <1>1 DEF NextLibrary
  <2>3. client' \in 0..MaxLibrary /\ opened' \subseteq 1..MaxLibrary /\ library' \in 0..MaxLibrary
    BY <2>1, <2>2 DEF Flow, TypeOK
  <2>4. QED
    BY <2>2, <2>3 DEF Flow, TypeOK, memory, program
<1>2. CASE OwnStartTool
  BY <1>2, MultiplexAssumption DEF Flow, OwnStartTool, TypeOK, memory, program
<1>3. CASE Initialize
  BY <1>3, MultiplexAssumption DEF Flow, Initialize, TypeOK, memory, program
<1>4. CASE InitialTaskBegin
  <2>1. <<InitialTask>> \in Seq(TaskHandle)
    BY HandleCases
  <2>2. QED
    BY <1>4, <2>1 DEF Flow, InitialTaskBegin, TypeOK, Goto, tool, memory
<1>5. CASE ParallelBegin
  <2>1. region + 1 \in 0..MaxRegion /\ 0..region \subseteq 0..region + 1
    BY <1>5, HandleCases DEF Flow, TypeOK, ParallelBegin
  <2>2. barrier \in 0..region + 1 /\ entered \in [Thread -> 0..region + 1]
    BY <2>1 DEF Flow, TypeOK
  <2>3. QED
    BY <1>5, <2>1, <2>2 DEF Flow, ParallelBegin, TypeOK, Goto, tool, memory
<1>6. CASE BarrierOpens
  <2>1. barrier' = region /\ UNCHANGED <<tool, memory, live, seen, stack, entered, region, ready, created>>
    BY <1>6 DEF BarrierOpens
  <2>2. barrier' \in 0..region
    BY <2>1, HandleCases DEF Flow, TypeOK
  <2>3. QED
    BY <2>1, <2>2 DEF Flow, TypeOK, tool, memory
<1>7. CASE ParallelEnd
  BY <1>7, HandleCases DEF Flow, ParallelEnd, TypeOK, Goto, Part, tool, memory, program, vars
<1>8. CASE InitialTaskEnd
  <2>1. <<>> \in Seq(TaskHandle)
    OBVIOUS
  <2>2. QED
    BY <1>8, <2>1 DEF Flow, InitialTaskEnd, TypeOK, Goto, tool, memory
<1>9. CASE ControlToolEnd
  BY <1>9, HandleCases DEF Flow, ControlToolEnd, TypeOK, Goto, Part, tool, memory, program, vars
<1>10. CASE Finalize
  BY <1>10, HandleCases DEF Flow, Finalize, TypeOK, Goto, Part, tool, memory, program, vars
<1>11. CASE Stopped
  BY <1>11, HandleCases DEF Flow, Stopped, TypeOK, Goto, Part, tool, memory, program, vars
<1>12. ASSUME NEW t \in Thread, ThreadBegin(t)
      PROVE  TypeOK'
  BY <1>12, HandleCases DEF Flow, ThreadBegin, TypeOK, Goto, Part, tool, memory, program, vars
<1>13. ASSUME NEW t \in Thread, ImplicitTaskBegin(t)
      PROVE  TypeOK'
  <2>1. region \in 1..MaxRegion
    BY <1>13, HandleCases DEF Flow, TypeOK, ImplicitTaskBegin, Forked
  <2>2. <<ImplicitTask(region, t)>> \o stack[t] \in Seq(TaskHandle)
    BY <2>1, HandleCases, PushFront DEF Flow, TypeOK
  <2>3. stack' \in [Thread -> Seq(TaskHandle)] /\ entered' \in [Thread -> 0..region]
    BY <1>13, <2>1, <2>2 DEF Flow, TypeOK, ImplicitTaskBegin
  <2>4. QED
    BY <1>13, <2>3 DEF Flow, ImplicitTaskBegin, TypeOK, tool, memory
<1>14. ASSUME NEW t \in Thread, SyncRegionBegin(t)
      PROVE  TypeOK'
  BY <1>14, HandleCases DEF Flow, SyncRegionBegin, TypeOK, Goto, Part, tool, memory, program, vars
<1>15. ASSUME NEW t \in Thread, SyncRegionEnd(t)
      PROVE  TypeOK'
  BY <1>15, HandleCases DEF Flow, SyncRegionEnd, TypeOK, Goto, Part, tool, memory, program, vars
<1>16. ASSUME NEW t \in Thread, ImplicitTaskEnd(t)
      PROVE  TypeOK'
  <2>1. at[t] \in {"leaving"}
    BY <1>16 DEF ImplicitTaskEnd, Goto
  <2>2. stack[t] # <<>> /\ stack[t] \in Seq(TaskHandle)
    BY <2>1, StackNotEmpty DEF Flow, TypeOK
  <2>3. Tail(stack[t]) \in Seq(TaskHandle)
    BY <2>2, TailFacts
  <2>4. stack' \in [Thread -> Seq(TaskHandle)]
    BY <1>16, <2>3 DEF Flow, TypeOK, ImplicitTaskEnd
  <2>5. QED
    BY <1>16, <2>4 DEF Flow, ImplicitTaskEnd, TypeOK, tool, memory
<1>17. ASSUME NEW t \in Thread, ThreadEnd(t)
      PROVE  TypeOK'
  BY <1>17, HandleCases DEF Flow, ThreadEnd, TypeOK, Goto, Part, tool, memory, program, vars
<1>18. ASSUME NEW t \in Thread, Work(t)
      PROVE  TypeOK'
  BY <1>18, HandleCases DEF Flow, Work, TypeOK, Goto, Part, tool, memory, program, vars
<1>19. ASSUME NEW t \in Thread, Own(t)
      PROVE  TypeOK'
  <2>1. \/ UNCHANGED <<size, user, ptr, data, pairs>> /\ pools' \subseteq pools \cup {t} /\ phase' \in {phase, "finalized"}
        \/ OwnBegin(t) /\ UNCHANGED phase
           /\ call[t].event \notin {"thread_begin", "thread_end", "control_tool", "finalize"}
        \/ OwnEnd(t) /\ UNCHANGED phase
    BY <1>19 DEF Own, OwnControlTool, memory
  <2>2. InCall(t)
    BY <1>19 DEF Own, Part
  <2>3. /\ UNCHANGED <<program, library, client, callbacks_registered, clientSet, live, seen>>
        /\ opened' \subseteq opened
    BY <1>19 DEF Own, OwnControlTool, Part
  <2>4. CASE UNCHANGED <<size, user, ptr, data, pairs>> /\ pools' \subseteq pools \cup {t} /\ phase' \in {phase, "finalized"}
    BY <2>3, <2>4 DEF Flow, TypeOK, program
  <2>5. CASE OwnBegin(t) /\ UNCHANGED phase
             /\ call[t].event \notin {"thread_begin", "thread_end", "control_tool", "finalize"}
    <3>1. call[t].begun \subseteq RegionHandle \cup TaskHandle
      BY <2>2, <2>5, BegunPooled
    <3>2. /\ size' \in [Kind \X Thread -> 0..Cardinality(Index)]
          /\ user' \in [Object -> RegionHandle \cup TaskHandle \cup {None}]
          /\ ptr' \in [RegionHandle \cup TaskHandle -> Object \cup {None}]
      BY <2>5, <3>1, OwnBeginTypes DEF Flow
    <3>3. UNCHANGED <<pools, data, pairs>>
      BY <2>5 DEF OwnBegin
    <3>4. QED
      BY <2>3, <2>5, <3>2, <3>3 DEF Flow, TypeOK, program
  <2>6. CASE OwnEnd(t) /\ UNCHANGED phase
    BY <2>3, <2>6 DEF Flow, TypeOK, program, OwnEnd
  <2>7. QED
    BY <2>1, <2>4, <2>5, <2>6
<1>20. ASSUME NEW t \in Thread, Client(t)
      PROVE  TypeOK'
  <2>1. call[t] \in CallType
    BY DEF Flow, PartsLeft
  <2>2. call[t].args \subseteq Handle /\ call[t].begun \subseteq Handle
    BY <2>1 DEF CallType
  <2>3. DOMAIN seen' \subseteq Handle /\ live' \subseteq Handle
    BY <1>20, <2>2 DEF Flow, TypeOK, Client
  <2>4. data' \in [Object \cup Handle -> Handle \cup {None}]
    <3>1. ASSUME NEW c, \E h \in call[t].begun : ClientData(h) = c
          PROVE  (CHOOSE h \in call[t].begun : ClientData(h) = c) \in Handle
      BY <2>2, <3>1
    <3>2. QED
      BY <1>20, <3>1 DEF Flow, TypeOK, Client
  <2>5. QED
    BY <1>20, <2>3, <2>4 DEF Flow, TypeOK, Client, Part, tool, program
<1>21. ASSUME NEW t \in Thread, Free(t)
      PROVE  TypeOK'
  BY <1>21, HandleCases DEF Flow, Free, TypeOK, Goto, Part, tool, memory, program, vars
<1>22. ASSUME NEW t \in Thread, DlClose(t)
      PROVE  TypeOK'
  BY <1>22, HandleCases DEF Flow, DlClose, TypeOK, Goto, Part, tool, memory, program, vars
<1>23. ASSUME NEW t \in Thread, NEW e \in Task, TaskCreate(t, e)
      PROVE  TypeOK'
  BY <1>23, HandleCases DEF Flow, TaskCreate, TypeOK, Goto, Part, tool, memory, program, vars
<1>24. ASSUME NEW t \in Thread, NEW e \in Task, TaskSwitch(t, e)
      PROVE  TypeOK'
  <2>1. <<ExplicitTask(e)>> \o stack[t] \in Seq(TaskHandle)
    BY HandleCases, PushFront DEF Flow, TypeOK
  <2>2. stack' \in [Thread -> Seq(TaskHandle)]
    BY <1>24, <2>1 DEF Flow, TypeOK, TaskSwitch
  <2>3. QED
    BY <1>24, <2>2 DEF Flow, TaskSwitch, TypeOK, tool, memory
<1>25. ASSUME NEW t \in Thread, NEW status \in EndStatus, TaskEnd(t, status)
      PROVE  TypeOK'
  <2>1. at[t] \in {"team", "barrier"}
    BY <1>25 DEF TaskEnd, Goto
  <2>2. stack[t] # <<>> /\ stack[t] \in Seq(TaskHandle)
    BY <2>1, StackNotEmpty DEF Flow, TypeOK
  <2>3. Tail(stack[t]) \in Seq(TaskHandle)
    BY <2>2, TailFacts
  <2>4. stack' \in [Thread -> Seq(TaskHandle)]
    BY <1>25, <2>3 DEF Flow, TypeOK, TaskEnd
  <2>5. QED
    BY <1>25, <2>4 DEF Flow, TaskEnd, TypeOK, tool, memory
<1>26. QED
  BY <1>1, <1>2, <1>3, <1>4, <1>5, <1>6, <1>7, <1>8, <1>9, <1>10, <1>11, <1>12, <1>13, <1>14, <1>15, <1>16, <1>17, <1>18, <1>19, <1>20, <1>21, <1>22, <1>23, <1>24, <1>25 DEF Next


-----------------------------------------------------------------------------
(* The program *)

LEMMA CountTypes ==
  ASSUME Flow
  PROVE  /\ region \in Nat /\ barrier \in Nat /\ barrier <= region /\ region <= MaxRegion
         /\ \A t \in Thread : entered[t] \in Nat /\ entered[t] <= region
         /\ entered \in [Thread -> Nat] /\ at \in [Thread -> Place]
<1>1. region \in 0..MaxRegion /\ barrier \in 0..region /\ entered \in [Thread -> 0..region]
  BY DEF Flow, TypeOK
<1>2. at \in [Thread -> Place]
  BY DEF Flow, Places
<1>3. QED
  BY <1>1, <1>2, HandleCases

(* Regions are entered, and left, by all threads.                          *)
LEMMA PlacesStep ==
  ASSUME Flow, Next
  PROVE  Places'
<1>1. CASE NextLibrary
  BY <1>1 DEF Flow, Places, NextLibrary, program
<1>2. CASE OwnStartTool
  BY <1>2 DEF Flow, Places, OwnStartTool, program
<1>3. CASE Initialize
  BY <1>3 DEF Flow, Places, Initialize, program
<1>4. CASE InitialTaskBegin
  BY <1>4, CountTypes, HandleCases DEF Flow, Places, Place, InitialTaskBegin, Goto, Base
<1>5. CASE ParallelBegin
  BY <1>5, CountTypes, HandleCases DEF Flow, Places, Place, ParallelBegin, Goto, Base
<1>6. CASE BarrierOpens
  BY <1>6, CountTypes, HandleCases DEF Flow, Places, Place, BarrierOpens, Goto, Base
<1>7. CASE ParallelEnd
  BY <1>7, CountTypes, HandleCases DEF Flow, Places, Place, ParallelEnd, Goto, Base
<1>8. CASE InitialTaskEnd
  BY <1>8, CountTypes, HandleCases DEF Flow, Places, Place, InitialTaskEnd, Goto, Base
<1>9. CASE ControlToolEnd
  BY <1>9, CountTypes, HandleCases DEF Flow, Places, Place, ControlToolEnd, Goto, Base
<1>10. CASE Finalize
  BY <1>10, CountTypes, HandleCases DEF Flow, Places, Place, Finalize, Goto, Base
<1>11. CASE Stopped
  BY <1>11 DEF Flow, Places, Stopped, vars, program
<1>12. ASSUME NEW t \in Thread, ThreadBegin(t)
      PROVE  Places'
  BY <1>12, CountTypes, HandleCases DEF Flow, Places, Place, ThreadBegin, Goto, Base
<1>13. ASSUME NEW t \in Thread, ImplicitTaskBegin(t)
      PROVE  Places'
  BY <1>13, CountTypes, HandleCases DEF Flow, Places, Place, ImplicitTaskBegin, Goto, Base
<1>14. ASSUME NEW t \in Thread, SyncRegionBegin(t)
      PROVE  Places'
  BY <1>14, CountTypes, HandleCases DEF Flow, Places, Place, SyncRegionBegin, Goto, Base
<1>15. ASSUME NEW t \in Thread, SyncRegionEnd(t)
      PROVE  Places'
  BY <1>15, CountTypes, HandleCases DEF Flow, Places, Place, SyncRegionEnd, Goto, Base
<1>16. ASSUME NEW t \in Thread, ImplicitTaskEnd(t)
      PROVE  Places'
  BY <1>16, CountTypes, HandleCases DEF Flow, Places, Place, ImplicitTaskEnd, Goto, Base
<1>17. ASSUME NEW t \in Thread, ThreadEnd(t)
      PROVE  Places'
  BY <1>17, CountTypes, HandleCases DEF Flow, Places, Place, ThreadEnd, Goto, Base
<1>18. ASSUME NEW t \in Thread, Work(t)
      PROVE  Places'
  BY <1>18, CountTypes, HandleCases DEF Flow, Places, Place, Work, Goto, Base
<1>19. ASSUME NEW t \in Thread, Own(t)
      PROVE  Places'
  BY <1>19 DEF Flow, Places, Own, Part, program
<1>20. ASSUME NEW t \in Thread, Client(t)
      PROVE  Places'
  BY <1>20 DEF Flow, Places, Client, Part, program
<1>21. ASSUME NEW t \in Thread, Free(t)
      PROVE  Places'
  BY <1>21 DEF Flow, Places, Free, Part, program
<1>22. ASSUME NEW t \in Thread, DlClose(t)
      PROVE  Places'
  BY <1>22 DEF Flow, Places, DlClose, Part, program
<1>23. ASSUME NEW t \in Thread, NEW e \in Task, TaskCreate(t, e)
      PROVE  Places'
  BY <1>23, CountTypes, HandleCases DEF Flow, Places, Place, TaskCreate, Goto, Base
<1>24. ASSUME NEW t \in Thread, NEW e \in Task, TaskSwitch(t, e)
      PROVE  Places'
  BY <1>24, CountTypes, HandleCases DEF Flow, Places, Place, TaskSwitch, Goto, Base
<1>25. ASSUME NEW t \in Thread, NEW status \in EndStatus, TaskEnd(t, status)
      PROVE  Places'
  BY <1>25, CountTypes, HandleCases DEF Flow, Places, Place, TaskEnd, Goto, Base
<1>26. QED
  BY <1>1, <1>2, <1>3, <1>4, <1>5, <1>6, <1>7, <1>8, <1>9, <1>10, <1>11, <1>12, <1>13, <1>14, <1>15, <1>16, <1>17, <1>18, <1>19, <1>20, <1>21, <1>22, <1>23, <1>24, <1>25 DEF Next


(* The stack of a thread that does not begin or end a task.                *)
LEMMA StackFrame ==
  ASSUME NEW t \in Thread, StackOf(t), stack'[t] = stack[t], entered'[t] = entered[t],
         \/ at'[t] = at[t]
         \/ at[t] \in {"new", "begun", "idle", "done", "gone"} /\ at'[t] \in {"new", "begun", "idle", "done", "gone", "final"}
         \/ at[t] \in {"serial", "fork", "join"} /\ at'[t] \in {"serial", "fork", "join", "ending"}
         \/ at[t] \in {"team", "barrier"} /\ at'[t] \in {"team", "barrier", "leaving"},
         barrier' = barrier, created \ ready \subseteq created' \ ready'
  PROVE  StackOf(t)'
<1>1. CASE at[t] \in {"team", "barrier", "leaving"}
  <2> DEFINE n == Len(stack[t]) - Base(t)
  <2>1. /\ n > 0 /\ stack[t][n] = ImplicitTask(entered[t], t)
        /\ t = Initial => stack[t][n + 1] = InitialTask
        /\ \A i \in 1..n - 1 :
             /\ barrier < entered[t]
             /\ \E e \in created \ ready : stack[t][i] = ExplicitTask(e)
    BY <1>1 DEF StackOf
  <2>2. at'[t] \in {"team", "barrier", "leaving"}
    BY <1>1
  <2>3. \A i \in 1..n - 1 : \E e \in created' \ ready' : stack[t][i] = ExplicitTask(e)
    BY <2>1
  <2>4. at'[t] \notin {"new", "begun", "idle", "done", "gone", "final", "serial", "fork", "join", "ending"}
    BY <2>2
  <2> HIDE DEF n
  <2>5. /\ Len(stack'[t]) - Base(t) = n /\ n > 0 /\ stack'[t][n] = ImplicitTask(entered'[t], t)
        /\ t = Initial => stack'[t][n + 1] = InitialTask
        /\ \A i \in 1..n - 1 :
             /\ barrier' < entered'[t]
             /\ \E e \in created' \ ready' : stack'[t][i] = ExplicitTask(e)
    BY <2>1, <2>3 DEF n
  <2>6. QED
    BY <2>4, <2>5 DEF StackOf
<1>2. CASE at[t] \notin {"team", "barrier", "leaving"}
  BY <1>2 DEF StackOf
<1>3. QED
  BY <1>1, <1>2

(* No task is on two stacks, or twice on one, when one is added that is on  *)
(* none, ...                                                               *)
LEMMA DistinctPush ==
  ASSUME Flow, NEW t \in Thread, NEW x \in TaskHandle,
         \A u \in Thread : x \notin OnStack(u),
         stack' = [stack EXCEPT ![t] = <<x>> \o @]
  PROVE  \A u, v \in Thread : \A i \in 1..Len(stack'[u]), j \in 1..Len(stack'[v]) :
           stack'[u][i] = stack'[v][j] => u = v /\ i = j
<1>1. /\ \A u \in Thread : stack[u] \in Seq(TaskHandle) /\ Len(stack[u]) \in Nat
      /\ stack'[t] = <<x>> \o stack[t] /\ \A u \in Thread \ {t} : stack'[u] = stack[u]
  BY LenProperties DEF Flow, TypeOK
<1>2. /\ Len(stack'[t]) = Len(stack[t]) + 1 /\ stack'[t][1] = x
      /\ \A i \in 1..Len(stack[t]) : stack'[t][i + 1] = stack[t][i]
  BY <1>1, PushFront
<1>3. \A u \in Thread : \A i \in 1..Len(stack[u]) : stack[u][i] # x
  BY DEF OnStack
<1>4. \A u, v \in Thread : \A i \in 1..Len(stack[u]), j \in 1..Len(stack[v]) :
        stack[u][i] = stack[v][j] => u = v /\ i = j
  BY DEF Flow, Stacks
<1>5. \A i \in 1..Len(stack'[t]) : i = 1 \/ (i - 1 \in 1..Len(stack[t]) /\ (i - 1) + 1 = i)
  BY <1>1, <1>2
<1>6. \A i \in 1..Len(stack'[t]) : \/ i = 1 /\ stack'[t][i] = x
                                   \/ i # 1 /\ i - 1 \in 1..Len(stack[t]) /\ stack'[t][i] = stack[t][i - 1]
  BY <1>1, <1>2, <1>5
<1>7. ASSUME NEW u \in Thread, NEW v \in Thread, NEW i \in 1..Len(stack'[u]), NEW j \in 1..Len(stack'[v]),
             stack'[u][i] = stack'[v][j]
      PROVE  u = v /\ i = j
  <2>1. CASE u = t /\ v = t
    BY <1>1, <1>3, <1>4, <1>6, <1>7, <2>1
  <2>2. CASE u = t /\ v # t
    BY <1>1, <1>3, <1>4, <1>6, <1>7, <2>2
  <2>3. CASE u # t /\ v = t
    BY <1>1, <1>3, <1>4, <1>6, <1>7, <2>3
  <2>4. CASE u # t /\ v # t
    BY <1>1, <1>4, <1>7, <2>4
  <2>5. QED
    BY <2>1, <2>2, <2>3, <2>4
<1>8. QED
  BY <1>7

(* ... and when the topmost goes.                                          *)
LEMMA DistinctPop ==
  ASSUME Flow, NEW t \in Thread, stack[t] # <<>>, stack' = [stack EXCEPT ![t] = Tail(@)]
  PROVE  \A u, v \in Thread : \A i \in 1..Len(stack'[u]), j \in 1..Len(stack'[v]) :
           stack'[u][i] = stack'[v][j] => u = v /\ i = j
<1>1. /\ \A u \in Thread : stack[u] \in Seq(TaskHandle) /\ Len(stack[u]) \in Nat
      /\ stack'[t] = Tail(stack[t]) /\ \A u \in Thread \ {t} : stack'[u] = stack[u]
  BY LenProperties DEF Flow, TypeOK
<1> DEFINE s == stack[t]
<1>20. s \in Seq(TaskHandle) /\ s # <<>>
  BY <1>1
<1>2. Len(Tail(s)) = Len(s) - 1 /\ \A i \in 1..Len(s) - 1 : Tail(s)[i] = s[i + 1]
  <2> HIDE DEF s
  <2>1. QED
    BY <1>20, TailFacts
<1>21. \A u \in Thread : Len(stack[u]) \in Nat
  BY <1>1
<1>22. Len(stack'[t]) = Len(s) - 1 /\ \A i \in 1..Len(s) - 1 : stack'[t][i] = s[i + 1]
  <2>1. stack'[t] = Tail(s)
    BY <1>1
  <2> HIDE DEF s
  <2>2. QED
    BY <1>2, <2>1, Zenon
<1>4. \A u, v \in Thread : \A i \in 1..Len(stack[u]), j \in 1..Len(stack[v]) :
        stack[u][i] = stack[v][j] => u = v /\ i = j
  BY DEF Flow, Stacks
<1>5. \A i \in 1..Len(stack'[t]) : i + 1 \in 1..Len(stack[t]) /\ stack'[t][i] = stack[t][i + 1]
  BY <1>21, <1>22
<1>6. ASSUME NEW u \in Thread, NEW v \in Thread, NEW i \in 1..Len(stack'[u]), NEW j \in 1..Len(stack'[v]),
             stack'[u][i] = stack'[v][j]
      PROVE  u = v /\ i = j
  <2>1. CASE u = t /\ v = t
    BY <1>1, <1>4, <1>5, <1>6, <2>1
  <2>2. CASE u = t /\ v # t
    BY <1>1, <1>4, <1>5, <1>6, <2>2
  <2>3. CASE u # t /\ v = t
    BY <1>1, <1>4, <1>5, <1>6, <2>3
  <2>4. CASE u # t /\ v # t
    BY <1>1, <1>4, <1>6, <2>4
  <2>5. QED
    BY <2>1, <2>2, <2>3, <2>4
<1>7. QED
  BY <1>6

(* What is on a stack.                                                     *)
LEMMA OnStackFacts ==
  ASSUME Flow, NEW t \in Thread, NEW h \in OnStack(t)
  PROVE  \/ h = InitialTask /\ t = Initial /\ at[t] \notin {"new", "begun", "done", "gone", "final"}
         \/ h = ImplicitTask(entered[t], t) /\ at[t] \in {"team", "barrier", "leaving"}
              /\ entered[t] > 0
         \/ /\ \E e \in created \ ready : h = ExplicitTask(e)
            /\ at[t] \in {"team", "barrier"} /\ barrier < entered[t]
<1>1. PICK i \in 1..Len(stack[t]) : h = stack[t][i]
  BY DEF OnStack
<1>2. at[t] \in Place /\ StackOf(t) /\ Len(stack[t]) \in Nat /\ entered[t] \in Nat /\ barrier \in Nat
  BY CountTypes, LenProperties DEF Flow, Stacks, TypeOK
<1>3. CASE at[t] \in {"new", "begun", "idle", "done", "gone", "final"}
  <2>1. stack[t] = <<>>
    BY <1>2, <1>3 DEF StackOf
  <2>2. QED
    BY <1>1, <2>1
<1>4. CASE at[t] \in {"serial", "fork", "join", "ending"}
  <2>1. stack[t] = <<InitialTask>> /\ t = Initial
    BY <1>2, <1>4, HandleCases DEF StackOf, Flow, Places
  <2>2. h = InitialTask
    BY <1>1, <2>1
  <2>3. QED
    BY <1>4, <2>1, <2>2
<1>5. CASE at[t] \in {"team", "barrier", "leaving"}
  <2> DEFINE n == Len(stack[t]) - Base(t)
  <2>1. /\ n > 0 /\ stack[t][n] = ImplicitTask(entered[t], t)
        /\ t = Initial => stack[t][n + 1] = InitialTask
        /\ \A j \in 1..n - 1 :
             /\ barrier < entered[t]
             /\ \E e \in created \ ready : stack[t][j] = ExplicitTask(e)
    BY <1>2, <1>5 DEF StackOf
  <2>2. n \in Nat /\ Len(stack[t]) = n + Base(t) /\ Base(t) \in {0, 1} /\ (Base(t) = 1 => t = Initial)
    BY <1>2, <2>1 DEF Base
  <2>3. entered[t] > 0 /\ (at[t] = "leaving" => ~(barrier < entered[t]))
    BY <1>2, <1>5 DEF Flow, Places
  <2> HIDE DEF n
  <2>4. i \in 1..n - 1 \/ i = n \/ (i = n + 1 /\ t = Initial)
    BY <1>1, <2>2
  <2>5. CASE i \in 1..n - 1
    BY <1>1, <1>5, <2>1, <2>3, <2>5
  <2>6. CASE i = n
    BY <1>1, <1>5, <2>1, <2>3, <2>6
  <2>7. CASE i = n + 1 /\ t = Initial
    BY <1>1, <1>5, <2>1, <2>7
  <2>8. QED
    BY <2>4, <2>5, <2>6, <2>7
<1>6. QED
  BY <1>2, <1>3, <1>4, <1>5 DEF Place

(* The topmost task, and that only the implicit one is there when it is on  *)
(* top.                                                                    *)
LEMMA TopFacts ==
  ASSUME Flow, NEW t \in Thread, at[t] \in {"team", "barrier", "leaving"}
  PROVE  /\ stack[t][1] \in OnStack(t) /\ Head(stack[t]) = stack[t][1]
         /\ stack[t][1][1] \in {"implicit", "explicit"}
         /\ stack[t][1][1] = "implicit" => Len(stack[t]) = 1 + Base(t) /\ stack[t][1] = ImplicitTask(entered[t], t)
         /\ stack[t][1][1] = "explicit" =>
              /\ Len(stack[t]) - Base(t) > 1 /\ stack[t][2] \in OnStack(t)
              /\ \E e \in created \ ready : stack[t][1] = ExplicitTask(e)
         /\ ~(barrier < entered[t]) => stack[t][1][1] = "implicit"
<1>1. /\ StackOf(t) /\ Len(stack[t]) \in Nat \ {0} /\ entered[t] \in Nat /\ barrier \in Nat
      /\ stack[t] \in Seq(TaskHandle) /\ stack[t] # <<>>
  BY CountTypes, StackNotEmpty DEF Flow, Stacks, TypeOK
<1> DEFINE n == Len(stack[t]) - Base(t)
<1>2. /\ n > 0 /\ stack[t][n] = ImplicitTask(entered[t], t)
      /\ \A j \in 1..n - 1 :
           /\ barrier < entered[t]
           /\ \E e \in created \ ready : stack[t][j] = ExplicitTask(e)
  BY <1>1 DEF StackOf
<1>3. n \in Nat /\ Len(stack[t]) = n + Base(t) /\ Base(t) \in {0, 1}
  BY <1>1, <1>2 DEF Base
<1>4. Head(stack[t]) = stack[t][1]
  BY <1>1, TailFacts
<1> HIDE DEF n
<1>5. CASE n = 1
  <2>1. stack[t][1] = ImplicitTask(entered[t], t) /\ Len(stack[t]) = 1 + Base(t) /\ 1 \in 1..Len(stack[t])
    BY <1>1, <1>2, <1>3, <1>5
  <2>2. QED
    BY <1>4, <2>1, HandleFacts DEF OnStack
<1>6. CASE n > 1
  <2>1. 1 \in 1..n - 1 /\ 1 \in 1..Len(stack[t]) /\ 2 \in 1..Len(stack[t])
    BY <1>3, <1>6
  <2>2. barrier < entered[t] /\ \E e \in created \ ready : stack[t][1] = ExplicitTask(e)
    BY <1>2, <2>1
  <2>3. QED
    BY <1>4, <1>6, <2>1, <2>2, HandleFacts DEF OnStack, n
<1>7. QED
  BY <1>2, <1>3, <1>5, <1>6

(* Tasks are begun and ended on top of the stacks.                          *)
LEMMA StacksStep ==
  ASSUME Flow, Next
  PROVE  Stacks'
<1>1. CASE NextLibrary
  <2>1. UNCHANGED <<stack, entered, barrier, at, created, ready>>
    BY <1>1 DEF NextLibrary, program
  <2>2. \A u \in Thread : StackOf(u)'
    BY <2>1 DEF Flow, Stacks, StackOf
  <2>3. QED
    BY <2>1, <2>2 DEF Flow, Stacks
<1>2. CASE OwnStartTool
  <2>1. UNCHANGED <<stack, entered, barrier, at, created, ready>>
    BY <1>2 DEF OwnStartTool, program
  <2>2. \A u \in Thread : StackOf(u)'
    BY <2>1 DEF Flow, Stacks, StackOf
  <2>3. QED
    BY <2>1, <2>2 DEF Flow, Stacks
<1>3. CASE Initialize
  <2>1. UNCHANGED <<stack, entered, barrier, at, created, ready>>
    BY <1>3 DEF Initialize, program
  <2>2. \A u \in Thread : StackOf(u)'
    BY <2>1 DEF Flow, Stacks, StackOf
  <2>3. QED
    BY <2>1, <2>2 DEF Flow, Stacks
<1>4. CASE InitialTaskBegin
  <2>1. Initial \in Thread /\ stack[Initial] = <<>> /\ InitialTask \in TaskHandle
    BY <1>4, HandleCases DEF Flow, Stacks, StackOf, InitialTaskBegin, Goto
  <2>2. stack' = [stack EXCEPT ![Initial] = <<InitialTask>> \o @]
    BY <1>4, <2>1, ConcatEmptySeq DEF InitialTaskBegin
  <2>3. ASSUME NEW u \in Thread
        PROVE  InitialTask \notin OnStack(u)
    <3>1. at[Initial] = "begun"
      BY <1>4 DEF InitialTaskBegin, Goto
    <3>2. QED
      BY <2>1, <3>1, OnStackFacts, CountTypes, HandleFacts, HandleCases
  <2>4. ASSUME NEW u \in Thread, u # Initial
        PROVE  StackOf(u)'
    <3>1. StackOf(u)
      BY DEF Flow, Stacks
    <3>2. stack'[u] = stack[u] /\ entered'[u] = entered[u] /\ at'[u] = at[u]
      BY <1>4, <2>4, CountTypes DEF InitialTaskBegin, Goto, Flow, TypeOK
    <3>3. barrier' = barrier /\ created \ ready \subseteq created' \ ready'
      BY <1>4 DEF InitialTaskBegin
    <3>4. QED
      BY <3>1, <3>2, <3>3, StackFrame
  <2>5. stack'[Initial] = <<InitialTask>> /\ at'[Initial] = "serial"
    BY <1>4, <2>1, CountTypes DEF InitialTaskBegin, Goto, Flow, TypeOK
  <2>6. StackOf(Initial)'
    BY <2>5 DEF StackOf
  <2>7. QED
    BY <2>1, <2>2, <2>3, <2>4, <2>6, DistinctPush DEF Stacks
<1>5. CASE ParallelBegin
  <2>1. UNCHANGED <<stack, entered, barrier>> /\ created \ ready \subseteq created' \ ready'
    BY <1>5 DEF ParallelBegin
  <2>2. ASSUME NEW u \in Thread
        PROVE  StackOf(u)'
    <3>1. StackOf(u)
      BY DEF Flow, Stacks
    <3>2. \/ at'[u] = at[u]
          \/ at[u] \in {"new", "begun", "idle", "done", "gone"} /\ at'[u] \in {"new", "begun", "idle", "done", "gone", "final"}
          \/ at[u] \in {"serial", "fork", "join"} /\ at'[u] \in {"serial", "fork", "join", "ending"}
          \/ at[u] \in {"team", "barrier"} /\ at'[u] \in {"team", "barrier", "leaving"}
      BY <1>5, CountTypes DEF ParallelBegin, Goto
    <3>3. QED
      BY <2>1, <3>1, <3>2, StackFrame
  <2>3. QED
    BY <2>1, <2>2 DEF Flow, Stacks
<1>6. CASE BarrierOpens
  <2>1. UNCHANGED <<stack, entered, at, created, ready>>
    BY <1>6 DEF BarrierOpens
  <2>2. ASSUME NEW u \in Thread
        PROVE  StackOf(u)'
    <3>1. at[u] = "barrier" /\ Head(stack[u])[1] = "implicit"
      BY <1>6 DEF BarrierOpens
    <3>2. Len(stack[u]) = 1 + Base(u)
      BY <3>1, TopFacts
    <3>3. Len(stack[u]) - Base(u) = 1
      BY <3>2 DEF Base
    <3>4. StackOf(u)
      BY DEF Flow, Stacks
    <3>5. QED
      BY <2>1, <3>1, <3>3, <3>4 DEF StackOf
  <2>3. QED
    BY <2>1, <2>2 DEF Flow, Stacks
<1>7. CASE ParallelEnd
  <2>1. UNCHANGED <<stack, entered, barrier>> /\ created \ ready \subseteq created' \ ready'
    BY <1>7 DEF ParallelEnd
  <2>2. ASSUME NEW u \in Thread
        PROVE  StackOf(u)'
    <3>1. StackOf(u)
      BY DEF Flow, Stacks
    <3>2. \/ at'[u] = at[u]
          \/ at[u] \in {"new", "begun", "idle", "done", "gone"} /\ at'[u] \in {"new", "begun", "idle", "done", "gone", "final"}
          \/ at[u] \in {"serial", "fork", "join"} /\ at'[u] \in {"serial", "fork", "join", "ending"}
          \/ at[u] \in {"team", "barrier"} /\ at'[u] \in {"team", "barrier", "leaving"}
      BY <1>7, CountTypes DEF ParallelEnd, Goto
    <3>3. QED
      BY <2>1, <3>1, <3>2, StackFrame
  <2>3. QED
    BY <2>1, <2>2 DEF Flow, Stacks
<1>8. CASE InitialTaskEnd
  <2>1. ASSUME NEW u \in Thread, u # Initial
        PROVE  StackOf(u)'
    <3>1. StackOf(u)
      BY DEF Flow, Stacks
    <3>2. stack'[u] = stack[u] /\ entered'[u] = entered[u] /\ at'[u] = at[u]
      BY <1>8, <2>1, CountTypes DEF InitialTaskEnd, Goto, Flow, TypeOK
    <3>3. barrier' = barrier /\ created \ ready \subseteq created' \ ready'
      BY <1>8 DEF InitialTaskEnd
    <3>4. QED
      BY <3>1, <3>2, <3>3, StackFrame
  <2>2. stack'[Initial] = <<>> /\ at'[Initial] = "done" /\ Initial \in Thread
    BY <1>8, CountTypes, HandleCases DEF InitialTaskEnd, Goto, Flow, TypeOK
  <2>3. StackOf(Initial)'
    BY <2>2 DEF StackOf
  <2>4. \A u \in Thread \ {Initial} : stack'[u] = stack[u]
    BY <1>8 DEF InitialTaskEnd, Flow, TypeOK
  <2>5. \A u, v \in Thread : \A i \in 1..Len(stack'[u]), j \in 1..Len(stack'[v]) :
          stack'[u][i] = stack'[v][j] => u = v /\ i = j
    BY <2>2, <2>4 DEF Flow, Stacks
  <2>6. QED
    BY <2>1, <2>3, <2>5 DEF Stacks
<1>9. CASE ControlToolEnd
  <2>1. UNCHANGED <<stack, entered, barrier>> /\ created \ ready \subseteq created' \ ready'
    BY <1>9 DEF ControlToolEnd
  <2>2. ASSUME NEW u \in Thread
        PROVE  StackOf(u)'
    <3>1. StackOf(u)
      BY DEF Flow, Stacks
    <3>2. \/ at'[u] = at[u]
          \/ at[u] \in {"new", "begun", "idle", "done", "gone"} /\ at'[u] \in {"new", "begun", "idle", "done", "gone", "final"}
          \/ at[u] \in {"serial", "fork", "join"} /\ at'[u] \in {"serial", "fork", "join", "ending"}
          \/ at[u] \in {"team", "barrier"} /\ at'[u] \in {"team", "barrier", "leaving"}
      BY <1>9, CountTypes DEF ControlToolEnd, Goto
    <3>3. QED
      BY <2>1, <3>1, <3>2, StackFrame
  <2>3. QED
    BY <2>1, <2>2 DEF Flow, Stacks
<1>10. CASE Finalize
  <2>1. UNCHANGED <<stack, entered, barrier>> /\ created \ ready \subseteq created' \ ready'
    BY <1>10 DEF Finalize
  <2>2. ASSUME NEW u \in Thread
        PROVE  StackOf(u)'
    <3>1. StackOf(u)
      BY DEF Flow, Stacks
    <3>2. \/ at'[u] = at[u]
          \/ at[u] \in {"new", "begun", "idle", "done", "gone"} /\ at'[u] \in {"new", "begun", "idle", "done", "gone", "final"}
          \/ at[u] \in {"serial", "fork", "join"} /\ at'[u] \in {"serial", "fork", "join", "ending"}
          \/ at[u] \in {"team", "barrier"} /\ at'[u] \in {"team", "barrier", "leaving"}
      BY <1>10, CountTypes DEF Finalize, Goto
    <3>3. QED
      BY <2>1, <3>1, <3>2, StackFrame
  <2>3. QED
    BY <2>1, <2>2 DEF Flow, Stacks
<1>11. CASE Stopped
  <2>1. UNCHANGED <<stack, entered, barrier, at, created, ready>>
    BY <1>11 DEF Stopped, vars, program
  <2>2. \A u \in Thread : StackOf(u)'
    BY <2>1 DEF Flow, Stacks, StackOf
  <2>3. QED
    BY <2>1, <2>2 DEF Flow, Stacks
<1>12. ASSUME NEW t \in Thread, ThreadBegin(t)
      PROVE  Stacks'
  <2>1. UNCHANGED <<stack, entered, barrier>> /\ created \ ready \subseteq created' \ ready'
    BY <1>12 DEF ThreadBegin
  <2>2. ASSUME NEW u \in Thread
        PROVE  StackOf(u)'
    <3>1. StackOf(u)
      BY DEF Flow, Stacks
    <3>2. \/ at'[u] = at[u]
          \/ at[u] \in {"new", "begun", "idle", "done", "gone"} /\ at'[u] \in {"new", "begun", "idle", "done", "gone", "final"}
          \/ at[u] \in {"serial", "fork", "join"} /\ at'[u] \in {"serial", "fork", "join", "ending"}
          \/ at[u] \in {"team", "barrier"} /\ at'[u] \in {"team", "barrier", "leaving"}
      BY <1>12, CountTypes DEF ThreadBegin, Goto
    <3>3. QED
      BY <2>1, <3>1, <3>2, StackFrame
  <2>3. QED
    BY <2>1, <2>2 DEF Flow, Stacks
<1>13. ASSUME NEW t \in Thread, ImplicitTaskBegin(t)
      PROVE  Stacks'
  <2> DEFINE s == stack[t]
             x == ImplicitTask(region, t)
  <2>1. region \in 1..MaxRegion /\ entered[t] < region /\ entered'[t] = region
    BY <1>13, CountTypes DEF ImplicitTaskBegin, Forked
  <2>2. x \in TaskHandle /\ s \in Seq(TaskHandle)
    BY <2>1, HandleCases DEF Flow, TypeOK
  <2>3. ASSUME NEW u \in Thread
        PROVE  x \notin OnStack(u)
    BY <2>1, OnStackFacts, CountTypes, HandleFacts, HandleCases
  <2>4. stack' = [stack EXCEPT ![t] = <<x>> \o @] /\ stack'[t] = <<x>> \o s
    BY <1>13 DEF ImplicitTaskBegin, Flow, TypeOK
  <2>5. ASSUME NEW u \in Thread, u # t
        PROVE  StackOf(u)'
    <3>1. StackOf(u)
      BY DEF Flow, Stacks
    <3>2. stack'[u] = stack[u] /\ entered'[u] = entered[u] /\ at'[u] = at[u]
      BY <1>13, <2>5, CountTypes DEF ImplicitTaskBegin, Goto, Flow, TypeOK
    <3>3. barrier' = barrier /\ created \ ready \subseteq created' \ ready'
      BY <1>13 DEF ImplicitTaskBegin
    <3>4. QED
      BY <3>1, <3>2, <3>3, StackFrame
  <2>6. s = IF t = Initial THEN <<InitialTask>> ELSE <<>>
    BY <1>13 DEF ImplicitTaskBegin, Goto, Flow, Stacks, StackOf
  <2>7. Len(s) = Base(t) /\ (t = Initial => 1 \in 1..Len(s) /\ s[1] = InitialTask)
    BY <2>6 DEF Base
  <2> HIDE DEF s, x
  <2>8. /\ Len(<<x>> \o s) = Len(s) + 1 /\ (<<x>> \o s)[1] = x
        /\ \A i \in 1..Len(s) : (<<x>> \o s)[i + 1] = s[i]
    BY <2>2, PushFront
  <2>9. Len(stack'[t]) - Base(t) = 1 /\ stack'[t][1] = x /\ (t = Initial => stack'[t][1 + 1] = InitialTask)
    BY <2>4, <2>7, <2>8 DEF Base
  <2>10. at'[t] = "team" /\ x = ImplicitTask(entered'[t], t)
    BY <1>13, <2>1, CountTypes DEF ImplicitTaskBegin, Goto, x
  <2>11. StackOf(t)'
    BY <2>9, <2>10 DEF StackOf
  <2>12. QED
    BY <2>2, <2>3, <2>4, <2>5, <2>11, DistinctPush DEF Stacks
<1>14. ASSUME NEW t \in Thread, SyncRegionBegin(t)
      PROVE  Stacks'
  <2>1. UNCHANGED <<stack, entered, barrier>> /\ created \ ready \subseteq created' \ ready'
    BY <1>14 DEF SyncRegionBegin
  <2>2. ASSUME NEW u \in Thread
        PROVE  StackOf(u)'
    <3>1. StackOf(u)
      BY DEF Flow, Stacks
    <3>2. \/ at'[u] = at[u]
          \/ at[u] \in {"new", "begun", "idle", "done", "gone"} /\ at'[u] \in {"new", "begun", "idle", "done", "gone", "final"}
          \/ at[u] \in {"serial", "fork", "join"} /\ at'[u] \in {"serial", "fork", "join", "ending"}
          \/ at[u] \in {"team", "barrier"} /\ at'[u] \in {"team", "barrier", "leaving"}
      BY <1>14, CountTypes DEF SyncRegionBegin, Goto
    <3>3. QED
      BY <2>1, <3>1, <3>2, StackFrame
  <2>3. QED
    BY <2>1, <2>2 DEF Flow, Stacks
<1>15. ASSUME NEW t \in Thread, SyncRegionEnd(t)
      PROVE  Stacks'
  <2>1. UNCHANGED <<stack, entered, barrier>> /\ created \ ready \subseteq created' \ ready'
    BY <1>15 DEF SyncRegionEnd
  <2>2. ASSUME NEW u \in Thread
        PROVE  StackOf(u)'
    <3>1. StackOf(u)
      BY DEF Flow, Stacks
    <3>2. \/ at'[u] = at[u]
          \/ at[u] \in {"new", "begun", "idle", "done", "gone"} /\ at'[u] \in {"new", "begun", "idle", "done", "gone", "final"}
          \/ at[u] \in {"serial", "fork", "join"} /\ at'[u] \in {"serial", "fork", "join", "ending"}
          \/ at[u] \in {"team", "barrier"} /\ at'[u] \in {"team", "barrier", "leaving"}
      BY <1>15, CountTypes DEF SyncRegionEnd, Goto
    <3>3. QED
      BY <2>1, <3>1, <3>2, StackFrame
  <2>3. QED
    BY <2>1, <2>2 DEF Flow, Stacks
<1>16. ASSUME NEW t \in Thread, ImplicitTaskEnd(t)
      PROVE  Stacks'
  <2> DEFINE s == stack[t]
  <2>1. at[t] = "leaving" /\ at'[t] = IF t = Initial THEN "join" ELSE "idle"
    BY <1>16, CountTypes DEF ImplicitTaskEnd, Goto
  <2>2. s # <<>> /\ s \in Seq(TaskHandle) /\ Len(s) \in Nat \ {0}
    BY <2>1, StackNotEmpty DEF Flow, TypeOK
  <2>3. stack' = [stack EXCEPT ![t] = Tail(@)] /\ stack'[t] = Tail(s)
    BY <1>16 DEF ImplicitTaskEnd, Flow, TypeOK
  <2>4. ASSUME NEW u \in Thread, u # t
        PROVE  StackOf(u)'
    <3>1. StackOf(u)
      BY DEF Flow, Stacks
    <3>2. stack'[u] = stack[u] /\ entered'[u] = entered[u] /\ at'[u] = at[u]
      BY <1>16, <2>4, CountTypes DEF ImplicitTaskEnd, Goto, Flow, TypeOK
    <3>3. barrier' = barrier /\ created \ ready \subseteq created' \ ready'
      BY <1>16 DEF ImplicitTaskEnd
    <3>4. QED
      BY <3>1, <3>2, <3>3, StackFrame
  <2>5. entered[t] <= barrier
    BY <2>1 DEF Flow, Places
  <2>50. s[1][1] = "implicit"
    BY <2>1, <2>5, TopFacts, CountTypes
  <2>6. Len(s) = 1 + Base(t)
    BY <2>1, <2>50, TopFacts
  <2>7. t = Initial => s[2] = InitialTask
    <3>1. Len(s) - Base(t) = 1
      BY <2>6 DEF Base
    <3>2. QED
      BY <2>1, <3>1 DEF Flow, Stacks, StackOf
  <2> HIDE DEF s
  <2>8. Tail(s) \in Seq(TaskHandle) /\ Len(Tail(s)) = Len(s) - 1 /\ \A i \in 1..Len(s) - 1 : Tail(s)[i] = s[i + 1]
    BY <2>2, TailFacts
  <2>9. t # Initial => stack'[t] = <<>>
    BY <2>3, <2>6, <2>8, EmptySeq DEF Base
  <2>10. t = Initial => stack'[t] = <<InitialTask>>
    <3>1. CASE t = Initial
      <4> DEFINE r == Tail(s)
                 q == <<InitialTask>>
      <4>1. 1 \in 1..Len(s) - 1 /\ 1 + 1 = 2 /\ Len(s) - 1 = 1
        BY <2>6, <3>1 DEF Base
      <4>2. r \in Seq(TaskHandle) /\ Len(r) = 1 /\ r[1] = InitialTask
        BY <2>7, <2>8, <3>1, <4>1
      <4>3. q \in Seq(TaskHandle) /\ Len(q) = 1 /\ q[1] = InitialTask
        BY HandleCases
      <4> HIDE DEF r, q
      <4>4. \A i \in 1..Len(r) : r[i] = q[i]
        BY <4>2, <4>3
      <4>5. r = q
        BY <4>2, <4>3, <4>4, SeqEqual
      <4>6. QED
        BY <2>3, <4>5 DEF r, q
    <3>2. QED
      BY <3>1
  <2>11. StackOf(t)'
    BY <2>1, <2>9, <2>10 DEF StackOf
  <2>12. stack[t] # <<>>
    BY <2>2 DEF s
  <2>13. QED
    BY <2>3, <2>4, <2>11, <2>12, DistinctPop DEF Stacks
<1>17. ASSUME NEW t \in Thread, ThreadEnd(t)
      PROVE  Stacks'
  <2>1. UNCHANGED <<stack, entered, barrier>> /\ created \ ready \subseteq created' \ ready'
    BY <1>17 DEF ThreadEnd
  <2>2. ASSUME NEW u \in Thread
        PROVE  StackOf(u)'
    <3>1. StackOf(u)
      BY DEF Flow, Stacks
    <3>2. \/ at'[u] = at[u]
          \/ at[u] \in {"new", "begun", "idle", "done", "gone"} /\ at'[u] \in {"new", "begun", "idle", "done", "gone", "final"}
          \/ at[u] \in {"serial", "fork", "join"} /\ at'[u] \in {"serial", "fork", "join", "ending"}
          \/ at[u] \in {"team", "barrier"} /\ at'[u] \in {"team", "barrier", "leaving"}
      BY <1>17, CountTypes DEF ThreadEnd, Goto
    <3>3. QED
      BY <2>1, <3>1, <3>2, StackFrame
  <2>3. QED
    BY <2>1, <2>2 DEF Flow, Stacks
<1>18. ASSUME NEW t \in Thread, Work(t)
      PROVE  Stacks'
  <2>1. UNCHANGED <<stack, entered, barrier>> /\ created \ ready \subseteq created' \ ready'
    BY <1>18 DEF Work
  <2>2. ASSUME NEW u \in Thread
        PROVE  StackOf(u)'
    <3>1. StackOf(u)
      BY DEF Flow, Stacks
    <3>2. \/ at'[u] = at[u]
          \/ at[u] \in {"new", "begun", "idle", "done", "gone"} /\ at'[u] \in {"new", "begun", "idle", "done", "gone", "final"}
          \/ at[u] \in {"serial", "fork", "join"} /\ at'[u] \in {"serial", "fork", "join", "ending"}
          \/ at[u] \in {"team", "barrier"} /\ at'[u] \in {"team", "barrier", "leaving"}
      BY <1>18, CountTypes DEF Work, Goto
    <3>3. QED
      BY <2>1, <3>1, <3>2, StackFrame
  <2>3. QED
    BY <2>1, <2>2 DEF Flow, Stacks
<1>19. ASSUME NEW t \in Thread, Own(t)
      PROVE  Stacks'
  <2>1. UNCHANGED <<stack, entered, barrier, at, created, ready>>
    BY <1>19 DEF Own, Part, program
  <2>2. \A u \in Thread : StackOf(u)'
    BY <2>1 DEF Flow, Stacks, StackOf
  <2>3. QED
    BY <2>1, <2>2 DEF Flow, Stacks
<1>20. ASSUME NEW t \in Thread, Client(t)
      PROVE  Stacks'
  <2>1. UNCHANGED <<stack, entered, barrier, at, created, ready>>
    BY <1>20 DEF Client, Part, program
  <2>2. \A u \in Thread : StackOf(u)'
    BY <2>1 DEF Flow, Stacks, StackOf
  <2>3. QED
    BY <2>1, <2>2 DEF Flow, Stacks
<1>21. ASSUME NEW t \in Thread, Free(t)
      PROVE  Stacks'
  <2>1. UNCHANGED <<stack, entered, barrier, at, created, ready>>
    BY <1>21 DEF Free, Part, program
  <2>2. \A u \in Thread : StackOf(u)'
    BY <2>1 DEF Flow, Stacks, StackOf
  <2>3. QED
    BY <2>1, <2>2 DEF Flow, Stacks
<1>22. ASSUME NEW t \in Thread, DlClose(t)
      PROVE  Stacks'
  <2>1. UNCHANGED <<stack, entered, barrier, at, created, ready>>
    BY <1>22 DEF DlClose, Part, program
  <2>2. \A u \in Thread : StackOf(u)'
    BY <2>1 DEF Flow, Stacks, StackOf
  <2>3. QED
    BY <2>1, <2>2 DEF Flow, Stacks
<1>23. ASSUME NEW t \in Thread, NEW e \in Task, TaskCreate(t, e)
      PROVE  Stacks'
  <2>1. UNCHANGED <<stack, entered, barrier>> /\ created \ ready \subseteq created' \ ready'
    BY <1>23 DEF TaskCreate
  <2>2. ASSUME NEW u \in Thread
        PROVE  StackOf(u)'
    <3>1. StackOf(u)
      BY DEF Flow, Stacks
    <3>2. \/ at'[u] = at[u]
          \/ at[u] \in {"new", "begun", "idle", "done", "gone"} /\ at'[u] \in {"new", "begun", "idle", "done", "gone", "final"}
          \/ at[u] \in {"serial", "fork", "join"} /\ at'[u] \in {"serial", "fork", "join", "ending"}
          \/ at[u] \in {"team", "barrier"} /\ at'[u] \in {"team", "barrier", "leaving"}
      BY <1>23, CountTypes DEF TaskCreate, Goto
    <3>3. QED
      BY <2>1, <3>1, <3>2, StackFrame
  <2>3. QED
    BY <2>1, <2>2 DEF Flow, Stacks
<1>24. ASSUME NEW t \in Thread, NEW e \in Task, TaskSwitch(t, e)
      PROVE  Stacks'
  <2> DEFINE s == stack[t]
             x == ExplicitTask(e)
             n == Len(s) - Base(t)
  <2>1. x \in TaskHandle /\ s \in Seq(TaskHandle) /\ e \in ready /\ e \in created
    BY <1>24, HandleCases DEF Flow, TypeOK, TaskSwitch
  <2>2. ASSUME NEW u \in Thread
        PROVE  x \notin OnStack(u)
    BY <2>1, OnStackFacts, HandleFacts, HandleCases
  <2>3. stack' = [stack EXCEPT ![t] = <<x>> \o @] /\ stack'[t] = <<x>> \o s
    BY <1>24 DEF TaskSwitch, Flow, TypeOK
  <2>4. ASSUME NEW u \in Thread, u # t
        PROVE  StackOf(u)'
    <3>1. StackOf(u)
      BY DEF Flow, Stacks
    <3>2. stack'[u] = stack[u] /\ entered'[u] = entered[u] /\ at'[u] = at[u]
      BY <1>24, <2>4, CountTypes DEF TaskSwitch, Goto, Flow, TypeOK
    <3>3. barrier' = barrier /\ created \ ready \subseteq created' \ ready'
      BY <1>24 DEF TaskSwitch
    <3>4. QED
      BY <3>1, <3>2, <3>3, StackFrame
  <2>5. at[t] \in {"team", "barrier"} /\ at'[t] = at[t] /\ entered[t] = region /\ barrier < region
    BY <1>24, CountTypes DEF TaskSwitch, Goto
  <2>6. /\ n > 0 /\ s[n] = ImplicitTask(entered[t], t)
        /\ t = Initial => s[n + 1] = InitialTask
        /\ \A j \in 1..n - 1 : \E d \in created \ ready : s[j] = ExplicitTask(d)
    BY <2>5 DEF Flow, Stacks, StackOf
  <2>7. n \in Nat /\ Base(t) \in {0, 1} /\ Len(s) = n + Base(t) /\ (t = Initial => Base(t) = 1)
    <3>1. Len(s) \in Nat
      BY <2>1, LenProperties
    <3>2. Base(t) \in {0, 1} /\ (t = Initial => Base(t) = 1)
      BY DEF Base
    <3>3. QED
      BY <2>6, <3>1, <3>2
  <2>8. created' = created /\ ready' = ready \ {e} /\ UNCHANGED <<entered, barrier>>
    BY <1>24 DEF TaskSwitch
  <2> HIDE DEF s, x, n
  <2>9. /\ Len(<<x>> \o s) = Len(s) + 1 /\ (<<x>> \o s)[1] = x
        /\ \A i \in 1..Len(s) : (<<x>> \o s)[i + 1] = s[i]
    BY <2>1, PushFront
  <2>10. Len(stack'[t]) - Base(t) = n + 1 /\ stack'[t][1] = x /\ \A i \in 1..Len(s) : stack'[t][i + 1] = s[i]
    <3>1. Len(stack'[t]) = Len(s) + 1
      BY <2>3, <2>9, Zenon
    <3>2. stack'[t][1] = x /\ \A i \in 1..Len(s) : stack'[t][i + 1] = s[i]
      BY <2>3, <2>9, Zenon
    <3>3. QED
      BY <2>7, <3>1, <3>2
  <2>11. n \in 1..Len(s) /\ (t = Initial => n + 1 \in 1..Len(s))
    BY <2>6, <2>7
  <2>12. /\ n + 1 > 0 /\ stack'[t][n + 1] = ImplicitTask(entered'[t], t)
         /\ t = Initial => stack'[t][(n + 1) + 1] = InitialTask
    <3>1. stack'[t][n + 1] = s[n] /\ (t = Initial => stack'[t][(n + 1) + 1] = s[n + 1])
      BY <2>10, <2>11
    <3>2. QED
      BY <2>6, <2>7, <2>8, <3>1
  <2>13. ASSUME NEW i \in 1..(n + 1) - 1
         PROVE  barrier' < entered'[t] /\ \E d \in created' \ ready' : stack'[t][i] = ExplicitTask(d)
    <3>1. CASE i = 1
      BY <2>1, <2>5, <2>8, <2>10, <3>1 DEF x
    <3>2. CASE i # 1
      <4>1. i - 1 \in 1..n - 1 /\ i - 1 \in 1..Len(s) /\ (i - 1) + 1 = i
        BY <2>7, <3>2
      <4>2. stack'[t][i] = s[i - 1] /\ \E d \in created \ ready : s[i - 1] = ExplicitTask(d)
        BY <2>6, <2>10, <4>1
      <4>3. QED
        BY <2>5, <2>8, <4>2
    <3>3. QED
      BY <3>1, <3>2
  <2>14. StackOf(t)'
    BY <2>5, <2>10, <2>12, <2>13 DEF StackOf
  <2>15. QED
    BY <2>1, <2>2, <2>3, <2>4, <2>14, DistinctPush DEF Stacks
<1>25. ASSUME NEW t \in Thread, NEW status \in EndStatus, TaskEnd(t, status)
      PROVE  Stacks'
  <2> DEFINE s == stack[t]
             n == Len(s) - Base(t)
  <2>1. at[t] \in {"team", "barrier"} /\ at'[t] = at[t] /\ s[1][1] = "explicit"
    BY <1>25, CountTypes DEF TaskEnd, Goto
  <2>2. s # <<>> /\ s \in Seq(TaskHandle) /\ Len(s) \in Nat \ {0}
    BY <2>1, StackNotEmpty DEF Flow, TypeOK
  <2>3. stack' = [stack EXCEPT ![t] = Tail(@)] /\ stack'[t] = Tail(s)
    BY <1>25 DEF TaskEnd, Flow, TypeOK
  <2>4. ASSUME NEW u \in Thread, u # t
        PROVE  StackOf(u)'
    <3>1. StackOf(u)
      BY DEF Flow, Stacks
    <3>2. stack'[u] = stack[u] /\ entered'[u] = entered[u] /\ at'[u] = at[u]
      BY <1>25, <2>4, CountTypes DEF TaskEnd, Goto, Flow, TypeOK
    <3>3. barrier' = barrier /\ created \ ready \subseteq created' \ ready'
      BY <1>25 DEF TaskEnd
    <3>4. QED
      BY <3>1, <3>2, <3>3, StackFrame
  <2>5. /\ n > 1 /\ s[n] = ImplicitTask(entered[t], t)
        /\ t = Initial => s[n + 1] = InitialTask
        /\ \A j \in 1..n - 1 : barrier < entered[t] /\ \E d \in created \ ready : s[j] = ExplicitTask(d)
    BY <2>1, TopFacts DEF Flow, Stacks, StackOf
  <2>6. n \in Nat /\ Base(t) \in {0, 1} /\ Len(s) = n + Base(t) /\ (t = Initial => Base(t) = 1)
    BY <2>2, <2>5 DEF Base
  <2>7. UNCHANGED <<entered, barrier, created, ready>>
    BY <1>25 DEF TaskEnd
  <2> HIDE DEF s, n
  <2>8. Len(Tail(s)) = Len(s) - 1 /\ \A i \in 1..Len(s) - 1 : Tail(s)[i] = s[i + 1]
    BY <2>2, TailFacts
  <2>9. Len(stack'[t]) - Base(t) = n - 1 /\ \A i \in 1..Len(s) - 1 : stack'[t][i] = s[i + 1]
    <3>1. Len(stack'[t]) = Len(s) - 1 /\ \A i \in 1..Len(s) - 1 : stack'[t][i] = s[i + 1]
      BY <2>3, <2>8, Zenon
    <3>2. QED
      BY <2>6, <3>1
  <2>10. n - 1 \in 1..Len(s) - 1 /\ (t = Initial => n \in 1..Len(s) - 1)
    BY <2>5, <2>6
  <2>11. /\ n - 1 > 0 /\ stack'[t][n - 1] = ImplicitTask(entered'[t], t)
         /\ t = Initial => stack'[t][(n - 1) + 1] = InitialTask
    BY <2>5, <2>6, <2>7, <2>9, <2>10
  <2>12. ASSUME NEW i \in 1..(n - 1) - 1
         PROVE  barrier' < entered'[t] /\ \E d \in created' \ ready' : stack'[t][i] = ExplicitTask(d)
    <3>1. i + 1 \in 1..n - 1 /\ i \in 1..Len(s) - 1
      BY <2>6
    <3>2. QED
      BY <2>5, <2>7, <2>9, <3>1
  <2>13. StackOf(t)'
    BY <2>1, <2>9, <2>11, <2>12 DEF StackOf
  <2>14. stack[t] # <<>>
    BY <2>2 DEF s
  <2>15. QED
    BY <2>3, <2>4, <2>13, <2>14, DistinctPop DEF Stacks
<1>26. QED
  BY <1>1, <1>2, <1>3, <1>4, <1>5, <1>6, <1>7, <1>8, <1>9, <1>10, <1>11, <1>12, <1>13, <1>14, <1>15, <1>16, <1>17, <1>18, <1>19, <1>20, <1>21, <1>22, <1>23, <1>24, <1>25 DEF Next


-----------------------------------------------------------------------------
(* The parts of the callbacks *)

LEMMA RemainingFacts ==
  ASSUME Flow, NEW t \in Thread
  PROVE  /\ call[t] \in CallType /\ call[t].parts \in Seq(PartName) /\ Len(call[t].parts) \in Nat
         /\ InCall(t) <=> Remaining(t) # {}
         /\ Remaining(t) \subseteq PartName
         /\ InCall(t) => Head(call[t].parts) \in Remaining(t) /\ Head(call[t].parts) = call[t].parts[1]
<1>1. call[t] \in CallType /\ call[t].parts \in Seq(PartName)
  BY DEF Flow, PartsLeft, CallType
<1> DEFINE p == call[t].parts
<1>2. p \in Seq(PartName) /\ Len(p) \in Nat /\ (p = <<>> <=> Len(p) = 0)
  BY <1>1, LenProperties, EmptySeq
<1> HIDE DEF p
<1>3. \A i \in 1..Len(p) : p[i] \in PartName
  BY <1>2, ElementOfSeq
<1>4. Len(p) # 0 => 1 \in 1..Len(p) /\ Head(p) = p[1]
  BY <1>2, TailFacts
<1>5. /\ call[t].parts \in Seq(PartName) /\ Len(call[t].parts) \in Nat
      /\ InCall(t) <=> Len(p) # 0
  BY <1>2 DEF p, InCall
<1>6. Remaining(t) = {p[i] : i \in 1..Len(p)}
  BY Zenon DEF Remaining, p
<1>7. Remaining(t) \subseteq PartName
  BY <1>3, <1>6
<1>8. Len(p) # 0 <=> Remaining(t) # {}
  <2>1. Len(p) = 0 => Remaining(t) = {}
    BY <1>6
  <2>2. QED
    BY <1>4, <1>6, <2>1
<1>9. Len(p) # 0 => Head(p) \in Remaining(t) /\ Head(p) = p[1]
  BY <1>4, <1>6
<1>10. InCall(t) => Head(call[t].parts) \in Remaining(t) /\ Head(call[t].parts) = call[t].parts[1]
  BY <1>5, <1>9 DEF p
<1>11. QED
  BY <1>1, <1>5, <1>7, <1>8, <1>10

(* A part that a thread executes is its next; the others remain.            *)
LEMMA PartFacts ==
  ASSUME Flow, NEW t \in Thread, NEW q \in PartName, Part(t, q)
  PROVE  /\ InCall(t) /\ PartsOf(t) /\ q \in Remaining(t) /\ q = call[t].parts[1]
         /\ call' \in [Thread -> CallType]
         /\ \A u \in Thread \ {t} : call'[u] = call[u]
         /\ Remaining(t)' = Remaining(t) \ {q}
         /\ InCall(t)' => /\ call'[t] = [call[t] EXCEPT !.parts = Tail(call[t].parts)]
                          /\ Len(call'[t].parts) = Len(call[t].parts) - 1
                          /\ \A i \in 1..Len(call[t].parts) - 1 : call'[t].parts[i] = call[t].parts[i + 1]
         /\ ~InCall(t)' => call'[t] = NoCall /\ Remaining(t) = {q}
         /\ UNCHANGED program
<1>1. /\ InCall(t) /\ Head(call[t].parts) = q /\ UNCHANGED program
      /\ call' = [call EXCEPT ![t] = IF Tail(call[t].parts) = <<>> THEN NoCall
                                      ELSE [call[t] EXCEPT !.parts = Tail(call[t].parts)]]
  BY Zenon DEF Part
<1>2. PartsOf(t) /\ q \in Remaining(t) /\ call[t] \in CallType /\ q = call[t].parts[1]
  BY <1>1, RemainingFacts DEF Flow, PartsLeft
<1> DEFINE p == call[t].parts
<1>3. p \in Seq(PartName) /\ p # <<>> /\ \A i, j \in 1..Len(p) : p[i] = p[j] => i = j
  BY <1>1, <1>2 DEF PartsOf, InCall, CallType
<1> HIDE DEF p
<1>4. /\ Len(p) \in Nat \ {0} /\ Head(p) = p[1] /\ Tail(p) \in Seq(PartName) /\ Len(Tail(p)) = Len(p) - 1
      /\ \A i \in 1..Len(p) - 1 : Tail(p)[i] = p[i + 1]
      /\ {Tail(p)[i] : i \in 1..Len(Tail(p))} = {p[i] : i \in 1..Len(p)} \ {p[1]}
  BY <1>3, TailFacts, TailRange
<1>5. NoCall \in CallType /\ NoCall.parts = <<>>
  BY DEF NoCall, CallType, EventName
<1>6. /\ \A u \in Thread \ {t} : call'[u] = call[u]
      /\ call'[t] = IF Tail(p) = <<>> THEN NoCall ELSE [call[t] EXCEPT !.parts = Tail(p)]
  <2>1. call \in [Thread -> CallType]
    BY DEF Flow, PartsLeft
  <2>2. QED
    BY <1>1, <2>1, Zenon DEF p
<1>7. [call[t] EXCEPT !.parts = Tail(p)] \in CallType /\ [call[t] EXCEPT !.parts = Tail(p)].parts = Tail(p)
  <2> DEFINE c == call[t]
             r == Tail(p)
  <2>1. c \in CallType /\ r \in Seq(PartName)
    BY <1>2, <1>4
  <2> HIDE DEF c, r
  <2>2. [c EXCEPT !.parts = r] \in CallType /\ [c EXCEPT !.parts = r].parts = r
    BY <2>1 DEF CallType
  <2>3. QED
    BY <2>2 DEF c, r
<1>8. call' \in [Thread -> CallType]
  <2>1. call'[t] \in CallType
    BY <1>5, <1>6, <1>7
  <2>2. call \in [Thread -> CallType]
    BY DEF Flow, PartsLeft
  <2> DEFINE n == IF Tail(p) = <<>> THEN NoCall ELSE [call[t] EXCEPT !.parts = Tail(p)]
  <2>3. call' = [call EXCEPT ![t] = n] /\ n \in CallType
    BY <1>1, <1>5, <1>7, Zenon DEF p
  <2> HIDE DEF n
  <2>4. QED
    BY <2>2, <2>3
<1>9. CASE Tail(p) = <<>>
  <2>1. call'[t] = NoCall /\ call'[t].parts = <<>>
    BY <1>5, <1>6, <1>9
  <2>2. {p[i] : i \in 1..Len(p)} = {q}
    <3> DEFINE r == Tail(p)
               n == Len(p)
    <3>1. r = <<>> /\ Len(r) = n - 1 /\ n \in Nat
      BY <1>4, <1>9, Zenon
    <3> HIDE DEF r, n
    <3>2. n = 1
      BY <3>1
    <3>3. QED
      BY <1>1, <1>4, <3>2 DEF p, n
  <2>3. Remaining(t)' = {} /\ ~InCall(t)'
    BY <2>1 DEF Remaining, InCall
  <2>4. Remaining(t) = {q}
    BY <2>2 DEF Remaining, p
  <2>5. QED
    BY <1>1, <1>2, <1>6, <1>8, <2>1, <2>3, <2>4
<1>10. CASE Tail(p) # <<>>
  <2>1. call'[t] = [call[t] EXCEPT !.parts = Tail(p)] /\ call'[t].parts = Tail(p)
    BY <1>6, <1>7, <1>10
  <2>3. InCall(t)'
    BY <1>10, <2>1 DEF InCall
  <2>4. Remaining(t)' = {Tail(p)[i] : i \in 1..Len(Tail(p))}
    BY <2>1, Zenon DEF Remaining
  <2>5. Remaining(t) = {p[i] : i \in 1..Len(p)}
    BY Zenon DEF Remaining, p
  <2>6. p[1] = q
    BY <1>1, <1>4 DEF p
  <2>7. Remaining(t)' = Remaining(t) \ {q}
    BY <1>4, <2>4, <2>5, <2>6
  <2>8. /\ Len(call'[t].parts) = Len(p) - 1
        /\ \A i \in 1..Len(p) - 1 : call'[t].parts[i] = p[i + 1]
    BY <1>4, <2>1, Zenon
  <2>9. QED
    BY <1>1, <1>2, <1>6, <1>8, <2>1, <2>3, <2>7, <2>8 DEF p
<1>11. QED
  BY <1>9, <1>10

(* The conditions on the parts do not depend on other threads.             *)
LEMMA PartsFrame ==
  ASSUME NEW t \in Thread, InCall(t) => PartsOf(t), call'[t] = call[t], InCall(t) => at'[t] = at[t],
         UNCHANGED <<client, callbacks_registered, clientSet>>
  PROVE  InCall(t)' => PartsOf(t)'
<1>1. Remaining(t)' = Remaining(t) /\ InCall(t)' = InCall(t)
  BY DEF Remaining, InCall
<1>2. ASSUME InCall(t)
      PROVE  PartsOf(t)'
  <2>1. PartsOf(t) /\ at'[t] = at[t]
    BY <1>2
  <2>2. QED
    BY <1>1, <2>1 DEF PartsOf
<1>3. QED
  BY <1>1, <1>2

-----------------------------------------------------------------------------
(* The callbacks of the events *)

Tools(event) == {q \in {"own", "client"} : Called(event, q)}

(* Thread t gets a callback for which the wrapper calls the parts left.     *)
Calls(t, event, args, begun, ended, left) ==
  /\ ~InCall(t)
  /\ call' \in [Thread -> CallType]
  /\ \A u \in Thread \ {t} : call'[u] = call[u]
  /\ Remaining(t)' = left
  /\ InCall(t)' <=> left # {}
  /\ InCall(t)' => /\ call'[t].event = event /\ call'[t].args = args
                   /\ call'[t].begun = begun /\ call'[t].ended = ended
  /\ ~InCall(t)' => call'[t] = NoCall
  /\ \A i, j \in 1..Len(call'[t].parts) : call'[t].parts[i] = call'[t].parts[j] => i = j
  /\ \A i \in 1..Len(call'[t].parts) : call'[t].parts[i] \in {"free", "dlclose"} => i = Len(call'[t].parts)

OwnLeads(t) == \A i \in 1..Len(call[t].parts) : call[t].parts[i] = "own" => i = 1
ClientLeads(t) == \A i \in 1..Len(call[t].parts) : call[t].parts[i] = "client" => i = 1

LEMMA CallsParts ==
  ASSUME Flow, NEW t \in Thread, ~InCall(t), NEW event \in EventName, NEW args \in SUBSET Handle,
         NEW begun \in SUBSET Handle, NEW ended \in SUBSET Handle, NEW p \in Seq(PartName),
         Callback(t, event, args, begun, ended, p),
         \A i, j \in 1..Len(p) : p[i] = p[j] => i = j,
         \A i \in 1..Len(p) : p[i] \in {"free", "dlclose"} => i = Len(p)
  PROVE  Calls(t, event, args, begun, ended, {p[i] : i \in 1..Len(p)}) /\ call'[t].parts = p
<1>1. /\ call' \in [Thread -> CallType]
      /\ \A u \in Thread \ {t} : call'[u] = call[u]
      /\ call'[t].parts = p
      /\ p # <<>> => /\ call'[t].event = event /\ call'[t].args = args
                     /\ call'[t].begun = begun /\ call'[t].ended = ended
      /\ p = <<>> => call'[t] = NoCall
  BY CallbackFacts DEF Flow, PartsLeft
<1>2. InCall(t)' <=> p # <<>>
  BY <1>1 DEF InCall
<1>3. Remaining(t)' = {p[i] : i \in 1..Len(p)}
  <2>1. call'[t].parts = p
    BY <1>1
  <2>2. QED
    BY <2>1, Zenon DEF Remaining
<1>4. p # <<>> <=> {p[i] : i \in 1..Len(p)} # {}
  <2>1. p # <<>> => 1 \in 1..Len(p)
    BY TailFacts
  <2>2. p = <<>> => {p[i] : i \in 1..Len(p)} = {}
    OBVIOUS
  <2>3. QED
    BY <2>1, <2>2
<1>5. /\ \A i, j \in 1..Len(call'[t].parts) : call'[t].parts[i] = call'[t].parts[j] => i = j
      /\ \A i \in 1..Len(call'[t].parts) : call'[t].parts[i] \in {"free", "dlclose"} => i = Len(call'[t].parts)
  BY <1>1, Zenon
<1>6. QED
  BY <1>1, <1>2, <1>3, <1>4, <1>5 DEF Calls

LEMMA OwnFirstCalls ==
  ASSUME Flow, NEW t \in Thread, ~InCall(t), NEW event \in EventName, NEW args \in SUBSET Handle,
         NEW begun \in SUBSET Handle, NEW ended \in SUBSET Handle,
         Callback(t, event, args, begun, ended, OwnFirst(event))
  PROVE  Calls(t, event, args, begun, ended, Tools(event)) /\ OwnLeads(t)'
<1> DEFINE p == OwnFirst(event)
<1>1. /\ p \in Seq(PartName)
      /\ \A i, j \in 1..Len(p) : p[i] = p[j] => i = j
      /\ \A i \in 1..Len(p) : p[i] = "own" => i = 1
      /\ \A i \in 1..Len(p) : p[i] \in {"own", "client"}
      /\ {p[i] : i \in 1..Len(p)} = Tools(event)
  BY OwnFirstParts DEF Tools
<1>2. Callback(t, event, args, begun, ended, p)
  OBVIOUS
<1> HIDE DEF p
<1>3. \A i \in 1..Len(p) : p[i] \in {"free", "dlclose"} => i = Len(p)
  BY <1>1
<1>4. Calls(t, event, args, begun, ended, {p[i] : i \in 1..Len(p)}) /\ call'[t].parts = p
  BY <1>1, <1>2, <1>3, CallsParts
<1>5. OwnLeads(t)'
  BY <1>1, <1>4, Zenon DEF OwnLeads
<1>6. QED
  BY <1>1, <1>4, <1>5

LEMMA ClientFirstCalls ==
  ASSUME Flow, NEW t \in Thread, ~InCall(t), NEW event \in EventName, NEW args \in SUBSET Handle,
         NEW begun \in SUBSET Handle, NEW ended \in SUBSET Handle,
         Callback(t, event, args, begun, ended, ClientFirst(event))
  PROVE  Calls(t, event, args, begun, ended, Tools(event)) /\ ClientLeads(t)'
<1> DEFINE p == ClientFirst(event)
<1>1. /\ p \in Seq(PartName)
      /\ \A i, j \in 1..Len(p) : p[i] = p[j] => i = j
      /\ \A i \in 1..Len(p) : p[i] = "client" => i = 1
      /\ \A i \in 1..Len(p) : p[i] \in {"own", "client"}
      /\ {p[i] : i \in 1..Len(p)} = Tools(event)
  BY ClientFirstParts DEF Tools
<1>2. Callback(t, event, args, begun, ended, p)
  OBVIOUS
<1> HIDE DEF p
<1>3. \A i \in 1..Len(p) : p[i] \in {"free", "dlclose"} => i = Len(p)
  BY <1>1
<1>4. Calls(t, event, args, begun, ended, {p[i] : i \in 1..Len(p)}) /\ call'[t].parts = p
  BY <1>1, <1>2, <1>3, CallsParts
<1>5. ClientLeads(t)'
  BY <1>1, <1>4, Zenon DEF ClientLeads
<1>6. QED
  BY <1>1, <1>4, <1>5

LEMMA ThreadBeginCall ==
  ASSUME Flow, NEW t \in Thread, ThreadBegin(t)
  PROVE  /\ Calls(t, "thread_begin", {ThreadData(t)}, {ThreadData(t)}, {}, Tools("thread_begin"))
         /\ OwnLeads(t)'
<1>1. t \in Thread /\ ~InCall(t)
  BY DEF ThreadBegin, Goto
<1>2. ThreadData(t) \in Handle
  BY HandleCases
<1>3. "thread_begin" \in EventName /\ {} \in SUBSET Handle
  BY DEF EventName
<1>4. QED
  BY <1>1, <1>2, <1>3, OwnFirstCalls DEF ThreadBegin

LEMMA InitialTaskBeginCall ==
  ASSUME Flow, InitialTaskBegin
  PROVE  /\ Calls(Initial, "implicit_task", {RegionData(0), InitialTask}, {RegionData(0), InitialTask}, {}, Tools("implicit_task"))
         /\ OwnLeads(Initial)'
<1>1. Initial \in Thread /\ ~InCall(Initial)
  BY HandleCases DEF InitialTaskBegin, Goto
<1>2. RegionData(0) \in Handle /\ InitialTask \in Handle
  <2>1. 0 \in 0..MaxRegion
    BY HandleCases
  <2>2. QED
    BY <2>1, HandleCases
<1>3. "implicit_task" \in EventName /\ {} \in SUBSET Handle
  BY DEF EventName
<1>4. QED
  BY <1>1, <1>2, <1>3, OwnFirstCalls DEF InitialTaskBegin

LEMMA ParallelBeginCall ==
  ASSUME Flow, ParallelBegin
  PROVE  /\ Calls(Initial, "parallel_begin", {InitialTask, RegionData(region')}, {RegionData(region')}, {}, Tools("parallel_begin"))
         /\ OwnLeads(Initial)'
<1>1. Initial \in Thread /\ ~InCall(Initial)
  BY HandleCases DEF ParallelBegin, Goto
<1>2. RegionData(region') \in Handle /\ InitialTask \in Handle
  <2>1. region' \in 0..MaxRegion
    BY CountTypes, HandleCases DEF ParallelBegin
  <2>2. QED
    BY <2>1, HandleCases
<1>3. "parallel_begin" \in EventName /\ {} \in SUBSET Handle
  BY DEF EventName
<1>4. QED
  BY <1>1, <1>2, <1>3, OwnFirstCalls DEF ParallelBegin

LEMMA ImplicitTaskBeginCall ==
  ASSUME Flow, NEW t \in Thread, ImplicitTaskBegin(t)
  PROVE  /\ Calls(t, "implicit_task", {RegionData(region), ImplicitTask(region, t)}, {ImplicitTask(region, t)}, {}, Tools("implicit_task"))
         /\ OwnLeads(t)'
<1>1. t \in Thread /\ ~InCall(t)
  BY DEF ImplicitTaskBegin, Goto
<1>2. RegionData(region) \in Handle /\ ImplicitTask(region, t) \in Handle
  <2>1. region \in 1..MaxRegion
    BY CountTypes, HandleCases DEF ImplicitTaskBegin
  <2>2. QED
    BY <2>1, HandleCases
<1>3. "implicit_task" \in EventName /\ {} \in SUBSET Handle
  BY DEF EventName
<1>4. QED
  BY <1>1, <1>2, <1>3, OwnFirstCalls DEF ImplicitTaskBegin

LEMMA TaskCreateCall ==
  ASSUME Flow, NEW t \in Thread, NEW e \in Task, TaskCreate(t, e)
  PROVE  /\ Calls(t, "task_create", {stack[t][1], ExplicitTask(e)}, {ExplicitTask(e)}, {}, Tools("task_create"))
         /\ OwnLeads(t)'
<1>1. t \in Thread /\ ~InCall(t)
  BY DEF TaskCreate, Goto
<1>2. Head(stack[t]) = stack[t][1] /\ stack[t][1] \in Handle /\ ExplicitTask(e) \in Handle
  <2>1. at[t] \in {"team", "barrier", "leaving"}
    BY DEF TaskCreate, Goto
  <2>2. stack[t][1] \in TaskHandle /\ Head(stack[t]) = stack[t][1]
    <3>1. stack[t] \in Seq(TaskHandle) /\ stack[t] # <<>>
      BY <2>1, StackNotEmpty DEF Flow, TypeOK
    <3>2. QED
      BY <3>1, TailFacts
  <2>3. QED
    BY <2>2, CountTypes, HandleCases
<1>3. "task_create" \in EventName /\ {} \in SUBSET Handle
  BY DEF EventName
<1>4. QED
  BY <1>1, <1>2, <1>3, OwnFirstCalls DEF TaskCreate

LEMMA TaskSwitchCall ==
  ASSUME Flow, NEW t \in Thread, NEW e \in Task, TaskSwitch(t, e)
  PROVE  /\ Calls(t, "task_schedule", {stack[t][1], ExplicitTask(e)}, {}, {}, Tools("task_schedule"))
         /\ OwnLeads(t)'
<1>1. t \in Thread /\ ~InCall(t)
  BY DEF TaskSwitch, Goto
<1>2. Head(stack[t]) = stack[t][1] /\ stack[t][1] \in Handle /\ ExplicitTask(e) \in Handle
  <2>1. at[t] \in {"team", "barrier", "leaving"}
    BY DEF TaskSwitch, Goto
  <2>2. stack[t][1] \in TaskHandle /\ Head(stack[t]) = stack[t][1]
    <3>1. stack[t] \in Seq(TaskHandle) /\ stack[t] # <<>>
      BY <2>1, StackNotEmpty DEF Flow, TypeOK
    <3>2. QED
      BY <3>1, TailFacts
  <2>3. QED
    BY <2>2, CountTypes, HandleCases
<1>3. "task_schedule" \in EventName /\ {} \in SUBSET Handle
  BY DEF EventName
<1>4. QED
  BY <1>1, <1>2, <1>3, OwnFirstCalls DEF TaskSwitch

LEMMA SyncRegionBeginCall ==
  ASSUME Flow, NEW t \in Thread, SyncRegionBegin(t)
  PROVE  /\ Calls(t, "sync_region", {RegionData(region), stack[t][1]}, {}, {}, Tools("sync_region"))
         /\ OwnLeads(t)'
<1>1. t \in Thread /\ ~InCall(t)
  BY DEF SyncRegionBegin, Goto
<1>2. stack[t][1] \in Handle /\ RegionData(region) \in Handle
  <2>1. at[t] \in {"team", "barrier", "leaving"}
    BY DEF SyncRegionBegin, Goto
  <2>2. stack[t][1] \in TaskHandle /\ Head(stack[t]) = stack[t][1]
    <3>1. stack[t] \in Seq(TaskHandle) /\ stack[t] # <<>>
      BY <2>1, StackNotEmpty DEF Flow, TypeOK
    <3>2. QED
      BY <3>1, TailFacts
  <2>3. QED
    BY <2>2, CountTypes, HandleCases
<1>3. "sync_region" \in EventName /\ {} \in SUBSET Handle
  BY DEF EventName
<1>4. QED
  BY <1>1, <1>2, <1>3, OwnFirstCalls DEF SyncRegionBegin

LEMMA SyncRegionEndCall ==
  ASSUME Flow, NEW t \in Thread, SyncRegionEnd(t)
  PROVE  /\ Calls(t, "sync_region", {stack[t][1]} \cup (IF t = Initial THEN {RegionData(region)} ELSE {}), {}, {}, Tools("sync_region"))
         /\ OwnLeads(t)'
<1>1. t \in Thread /\ ~InCall(t)
  BY DEF SyncRegionEnd, Goto
<1>2. stack[t][1] \in Handle /\ RegionData(region) \in Handle
  <2>1. at[t] \in {"team", "barrier", "leaving"}
    BY DEF SyncRegionEnd, Goto
  <2>2. stack[t][1] \in TaskHandle /\ Head(stack[t]) = stack[t][1]
    <3>1. stack[t] \in Seq(TaskHandle) /\ stack[t] # <<>>
      BY <2>1, StackNotEmpty DEF Flow, TypeOK
    <3>2. QED
      BY <3>1, TailFacts
  <2>3. QED
    BY <2>2, CountTypes, HandleCases
<1>3. "sync_region" \in EventName /\ {} \in SUBSET Handle
  BY DEF EventName
<1>4. QED
  BY <1>1, <1>2, <1>3, OwnFirstCalls DEF SyncRegionEnd

LEMMA ImplicitTaskEndCall ==
  ASSUME Flow, NEW t \in Thread, ImplicitTaskEnd(t)
  PROVE  /\ Calls(t, "implicit_task", {stack[t][1]}, {}, {stack[t][1]}, Tools("implicit_task"))
         /\ ClientLeads(t)'
<1>1. t \in Thread /\ ~InCall(t)
  BY DEF ImplicitTaskEnd, Goto
<1>2. stack[t][1] \in Handle
  <2>1. at[t] \in {"team", "barrier", "leaving"}
    BY DEF ImplicitTaskEnd, Goto
  <2>2. stack[t][1] \in TaskHandle /\ Head(stack[t]) = stack[t][1]
    <3>1. stack[t] \in Seq(TaskHandle) /\ stack[t] # <<>>
      BY <2>1, StackNotEmpty DEF Flow, TypeOK
    <3>2. QED
      BY <3>1, TailFacts
  <2>3. QED
    BY <2>2, CountTypes, HandleCases
<1>3. "implicit_task" \in EventName /\ {} \in SUBSET Handle
  BY DEF EventName
<1>4. QED
  BY <1>1, <1>2, <1>3, ClientFirstCalls DEF ImplicitTaskEnd

LEMMA WorkCall ==
  ASSUME Flow, NEW t \in Thread, Work(t)
  PROVE  /\ Calls(t, "work", {RegionData(region), stack[t][1]}, {}, {}, Tools("work"))
         /\ OwnLeads(t)'
<1>1. t \in Thread /\ ~InCall(t)
  BY DEF Work, Goto
<1>2. Head(stack[t]) = stack[t][1] /\ stack[t][1] \in Handle /\ RegionData(region) \in Handle
  <2>1. at[t] \in {"team", "barrier", "leaving"}
    BY DEF Work, Goto
  <2>2. stack[t][1] \in TaskHandle /\ Head(stack[t]) = stack[t][1]
    <3>1. stack[t] \in Seq(TaskHandle) /\ stack[t] # <<>>
      BY <2>1, StackNotEmpty DEF Flow, TypeOK
    <3>2. QED
      BY <3>1, TailFacts
  <2>3. QED
    BY <2>2, CountTypes, HandleCases
<1>3. "work" \in EventName /\ {} \in SUBSET Handle
  BY DEF EventName
<1>4. QED
  BY <1>1, <1>2, <1>3, OwnFirstCalls DEF Work

LEMMA ParallelEndCall ==
  ASSUME Flow, ParallelEnd
  PROVE  /\ Calls(Initial, "parallel_end", {RegionData(region), InitialTask}, {}, {RegionData(region)}, Tools("parallel_end"))
         /\ ClientLeads(Initial)'
<1>1. Initial \in Thread /\ ~InCall(Initial)
  BY HandleCases DEF ParallelEnd, Goto
<1>2. RegionData(region) \in Handle /\ InitialTask \in Handle
  BY CountTypes, HandleCases
<1>3. "parallel_end" \in EventName /\ {} \in SUBSET Handle
  BY DEF EventName
<1>4. QED
  BY <1>1, <1>2, <1>3, ClientFirstCalls DEF ParallelEnd

LEMMA InitialTaskEndCall ==
  ASSUME Flow, InitialTaskEnd
  PROVE  /\ Calls(Initial, "implicit_task", {InitialTask}, {}, {InitialTask}, Tools("implicit_task"))
         /\ ClientLeads(Initial)'
<1>1. Initial \in Thread /\ ~InCall(Initial)
  BY HandleCases DEF InitialTaskEnd, Goto
<1>2. InitialTask \in Handle
  BY HandleCases
<1>3. "implicit_task" \in EventName /\ {} \in SUBSET Handle
  BY DEF EventName
<1>4. QED
  BY <1>1, <1>2, <1>3, ClientFirstCalls DEF InitialTaskEnd

LEMMA ControlToolEndCall ==
  ASSUME Flow, ControlToolEnd
  PROVE  /\ Calls(Initial, "control_tool", {}, {}, {}, Tools("control_tool"))
         /\ OwnLeads(Initial)'
<1>1. Initial \in Thread /\ ~InCall(Initial)
  BY HandleCases DEF ControlToolEnd, Goto
<1>2. {} \subseteq Handle
  OBVIOUS
<1>3. "control_tool" \in EventName /\ {} \in SUBSET Handle
  BY DEF EventName
<1>4. QED
  BY <1>1, <1>2, <1>3, OwnFirstCalls DEF ControlToolEnd

LEMMA TaskEndCall ==
  ASSUME Flow, NEW t \in Thread, NEW status \in EndStatus, TaskEnd(t, status)
  PROVE  /\ Calls(t, "task_schedule", {stack[t][1], stack[t][2]}, {}, {stack[t][1]}, Tools("task_schedule"))
         /\ IF status = "complete" THEN ClientLeads(t)' ELSE OwnLeads(t)'
<1>1. t \in Thread /\ ~InCall(t) /\ at[t] \in {"team", "barrier", "leaving"}
  BY DEF TaskEnd, Goto
<1>2. stack[t][1] \in Handle /\ stack[t][2] \in Handle
  <2>1. stack[t] \in Seq(TaskHandle) /\ Len(stack[t]) \in Nat
    BY LenProperties DEF Flow, TypeOK
  <2>2. Len(stack[t]) - Base(t) > 1 /\ Base(t) \in {0, 1}
    BY <1>1, TopFacts DEF TaskEnd, Base
  <2>3. 1 \in 1..Len(stack[t]) /\ 2 \in 1..Len(stack[t])
    BY <2>1, <2>2
  <2>4. QED
    BY <2>1, <2>3, ElementOfSeq, HandleCases
<1>3. "task_schedule" \in EventName /\ {} \in SUBSET Handle
  BY DEF EventName
<1>4. CASE status = "complete"
  BY <1>1, <1>2, <1>3, <1>4, ClientFirstCalls DEF TaskEnd
<1>5. CASE status # "complete"
  BY <1>1, <1>2, <1>3, <1>5, OwnFirstCalls DEF TaskEnd
<1>6. QED
  BY <1>4, <1>5

LEMMA ThreadEndCall ==
  ASSUME Flow, NEW t \in Thread, ThreadEnd(t)
  PROVE  /\ Calls(t, "thread_end", {ThreadData(t)}, {}, {ThreadData(t)},
                  {q \in {"own", "client", "free"} : Called("thread_end", q)})
         /\ OwnLeads(t)'
<1> DEFINE p == ThreadEndLeft
<1>1. ~InCall(t) /\ "thread_end" \in EventName /\ {} \in SUBSET Handle /\ ThreadData(t) \in Handle
      /\ Callback(t, "thread_end", {ThreadData(t)}, {}, {ThreadData(t)}, p)
  BY HandleCases DEF ThreadEnd, ThreadEndLeft, Goto, EventName
<1>3. /\ p \in Seq(PartName)
      /\ \A i, j \in 1..Len(p) : p[i] = p[j] => i = j
      /\ \A i \in 1..Len(p) : p[i] = "own" => i = 1
      /\ \A i \in 1..Len(p) : p[i] \in {"free", "dlclose"} => i = Len(p)
      /\ {p[i] : i \in 1..Len(p)} = {q \in {"own", "client", "free"} : Called("thread_end", q)}
  BY ThreadEndParts
<1> HIDE DEF p
<1>4. Calls(t, "thread_end", {ThreadData(t)}, {}, {ThreadData(t)}, {p[i] : i \in 1..Len(p)}) /\ call'[t].parts = p
  <2>1. /\ p \in Seq(PartName)
        /\ \A i, j \in 1..Len(p) : p[i] = p[j] => i = j
        /\ \A i \in 1..Len(p) : p[i] \in {"free", "dlclose"} => i = Len(p)
    BY <1>3
  <2>2. {ThreadData(t)} \in SUBSET Handle
    BY <1>1
  <2>3. QED
    BY <1>1, <2>1, <2>2, CallsParts
<1>5. OwnLeads(t)'
  BY <1>3, <1>4, Zenon DEF OwnLeads
<1>6. QED
  BY <1>3, <1>4, <1>5, Zenon

LEMMA FinalizeCall ==
  ASSUME Flow, Finalize
  PROVE  /\ \E left : Calls(Initial, "finalize", {}, {}, {}, left) /\ "dlclose" \in left /\ "free" \notin left
         /\ \A i \in 1..Len(call'[Initial].parts) : call'[Initial].parts[i] = "client" => i = 1 /\ client # 0
<1> DEFINE p == (IF client # 0 THEN <<"client">> ELSE <<>>) \o <<"own", "dlclose">>
<1>1. /\ ~InCall(Initial) /\ Initial \in Thread /\ "finalize" \in EventName /\ {} \in SUBSET Handle
      /\ Callback(Initial, "finalize", {}, {}, {}, p)
  BY HandleCases DEF Finalize, Goto, EventName
<1>2. /\ p \in Seq(PartName) /\ p # <<>>
      /\ \A i, j \in 1..Len(p) : p[i] = p[j] => i = j
      /\ \A i \in 1..Len(p) : p[i] = "client" => i = 1 /\ client # 0
      /\ \A i \in 1..Len(p) : p[i] \in {"free", "dlclose"} => i = Len(p)
      /\ "dlclose" \in {p[i] : i \in 1..Len(p)} /\ "free" \notin {p[i] : i \in 1..Len(p)}
  BY FinalizeParts
<1> HIDE DEF p
<1>5. Calls(Initial, "finalize", {}, {}, {}, {p[i] : i \in 1..Len(p)}) /\ call'[Initial].parts = p
  BY <1>1, <1>2, CallsParts
<1>6. \A i \in 1..Len(call'[Initial].parts) : call'[Initial].parts[i] = "client" => i = 1 /\ client # 0
  BY <1>2, <1>5, Zenon
<1>7. QED
  BY <1>2, <1>5, <1>6

LEMMA PartsOfCall ==
  ASSUME Flow, NEW t \in Thread, NEW event, NEW args, NEW begun, NEW ended, NEW left,
         Calls(t, event, args, begun, ended, left),
         UNCHANGED <<client, callbacks_registered, clientSet>>,
         \A u \in Thread \ {t} : at'[u] = at[u],
         left # {} =>
           /\ "free" \in left <=> event = "thread_end"
           /\ "dlclose" \in left <=> event = "finalize"
           /\ event = "finalize" =>
                /\ t = Initial /\ at'[t] = "final"
                /\ \A i \in 1..Len(call'[t].parts) : call'[t].parts[i] = "client" => i = 1 /\ client # 0
           /\ event # "finalize" =>
                /\ "own" \in left => callbacks_registered /\ event \in OwnEvent
                /\ "client" \in left => event \in clientSet
           /\ event = "control_tool" => t = Initial /\ at'[t] = "ending"
  PROVE  PartsLeft'
<1>1. ASSUME NEW u \in Thread, u # t
      PROVE  InCall(u)' => PartsOf(u)'
  <2>1. InCall(u) => PartsOf(u)
    BY DEF Flow, PartsLeft
  <2>2. call'[u] = call[u] /\ at'[u] = at[u]
    BY <1>1 DEF Calls
  <2>3. QED
    BY <2>1, <2>2, PartsFrame
<1>2. ASSUME InCall(t)'
      PROVE  PartsOf(t)'
  <2>1. left # {} /\ Remaining(t)' = left /\ call'[t].event = event
    BY <1>2 DEF Calls
  <2>2. /\ \A i, j \in 1..Len(call'[t].parts) : call'[t].parts[i] = call'[t].parts[j] => i = j
        /\ \A i \in 1..Len(call'[t].parts) : call'[t].parts[i] \in {"free", "dlclose"} => i = Len(call'[t].parts)
    BY DEF Calls
  <2>3. QED
    BY <2>1, <2>2 DEF PartsOf
<1>3. call' \in [Thread -> CallType]
  BY DEF Calls
<1>4. QED
  BY <1>1, <1>2, <1>3 DEF PartsLeft

LEMMA PartsOfTools ==
  ASSUME Flow, NEW t \in Thread, NEW event, NEW args, NEW begun, NEW ended,
         Calls(t, event, args, begun, ended, Tools(event)),
         event \notin {"thread_end", "finalize"},
         UNCHANGED <<client, callbacks_registered, clientSet>>,
         \A u \in Thread \ {t} : at'[u] = at[u],
         event = "control_tool" => t = Initial /\ at'[t] = "ending"
  PROVE  PartsLeft'
<1>1. "free" \notin Tools(event) /\ "dlclose" \notin Tools(event)
  BY DEF Tools
<1>2. "own" \in Tools(event) => callbacks_registered /\ event \in OwnEvent
  BY DEF Tools, Called
<1>3. "client" \in Tools(event) => event \in clientSet
  BY DEF Tools, Called
<1> DEFINE left == Tools(event)
<1>4. Calls(t, event, args, begun, ended, left)
  OBVIOUS
<1>5. left # {} =>
           /\ "free" \in left <=> event = "thread_end"
           /\ "dlclose" \in left <=> event = "finalize"
           /\ event # "finalize"
           /\ "own" \in left => callbacks_registered /\ event \in OwnEvent
           /\ "client" \in left => event \in clientSet
           /\ event = "control_tool" => t = Initial /\ at'[t] = "ending"
  BY <1>1, <1>2, <1>3
<1> HIDE DEF left
<1>6. QED
  BY <1>4, <1>5, PartsOfCall

(* A part of a callback is done: the others are left.                       *)
LEMMA PartsOfPart ==
  ASSUME Flow, NEW t \in Thread, NEW q \in PartName, Part(t, q),
         UNCHANGED <<client, callbacks_registered, clientSet>>
  PROVE  PartsLeft'
<1>1. /\ InCall(t) /\ PartsOf(t) /\ q \in Remaining(t) /\ q = call[t].parts[1]
      /\ call' \in [Thread -> CallType]
      /\ \A u \in Thread \ {t} : call'[u] = call[u]
      /\ Remaining(t)' = Remaining(t) \ {q}
      /\ InCall(t)' => /\ call'[t] = [call[t] EXCEPT !.parts = Tail(call[t].parts)]
                       /\ Len(call'[t].parts) = Len(call[t].parts) - 1
                       /\ \A i \in 1..Len(call[t].parts) - 1 : call'[t].parts[i] = call[t].parts[i + 1]
      /\ UNCHANGED program
  BY PartFacts
<1>2. ASSUME NEW u \in Thread, u # t
      PROVE  InCall(u)' => PartsOf(u)'
  <2>1. InCall(u) => PartsOf(u)
    BY DEF Flow, PartsLeft
  <2>2. call'[u] = call[u] /\ at'[u] = at[u]
    BY <1>1, <1>2 DEF program
  <2>3. QED
    BY <2>1, <2>2, PartsFrame
<1>3. ASSUME InCall(t)'
      PROVE  PartsOf(t)'
  <2> DEFINE p == call[t].parts
             r == call'[t].parts
  <2>1. call[t] \in CallType /\ call'[t].event = call[t].event
    <3>1. call[t] \in CallType
      BY DEF Flow, PartsLeft
    <3>2. call'[t] = [call[t] EXCEPT !.parts = Tail(call[t].parts)]
      BY <1>1, <1>3
    <3>3. QED
      BY <3>1, <3>2 DEF CallType
  <2>2. Len(p) \in Nat /\ Len(r) = Len(p) - 1 /\ Len(r) \in Nat
        /\ \A i \in 1..Len(p) - 1 : r[i] = p[i + 1]
    <3>1. p \in Seq(PartName) /\ r \in Seq(PartName)
      BY <1>1, <2>1 DEF CallType
    <3>2. QED
      BY <1>1, <1>3, <3>1, LenProperties
  <2>3. /\ \A i, j \in 1..Len(p) : p[i] = p[j] => i = j
        /\ \A i \in 1..Len(p) : p[i] \in {"free", "dlclose"} => i = Len(p)
        /\ call[t].event = "finalize" => \A i \in 1..Len(p) : p[i] = "client" => i = 1 /\ client # 0
    BY <1>1 DEF PartsOf
  <2> HIDE DEF p, r
  <2>4. \A i \in 1..Len(r) : i + 1 \in 1..Len(p) /\ r[i] = p[i + 1]
    BY <2>2
  <2>5. /\ \A i, j \in 1..Len(r) : r[i] = r[j] => i = j
        /\ \A i \in 1..Len(r) : r[i] \in {"free", "dlclose"} => i = Len(r)
        /\ call[t].event = "finalize" => \A i \in 1..Len(r) : r[i] = "client" => i = 1 /\ client # 0
    BY <2>2, <2>3, <2>4
  <2>6. /\ "free" \in Remaining(t) <=> call[t].event = "thread_end"
        /\ "dlclose" \in Remaining(t) <=> call[t].event = "finalize"
        /\ call[t].event = "finalize" => t = Initial /\ at[t] = "final"
        /\ call[t].event # "finalize" =>
             /\ "own" \in Remaining(t) => callbacks_registered /\ call[t].event \in OwnEvent
             /\ "client" \in Remaining(t) => call[t].event \in clientSet
        /\ call[t].event = "control_tool" => t = Initial /\ at[t] = "ending"
    BY <1>1 DEF PartsOf
  <2>7. q \notin {"free", "dlclose"}
    <3>1. CASE q \in {"free", "dlclose"}
      <4>0. q = p[1]
        BY <1>1, Zenon DEF p
      <4>1. Len(p) = 0 \/ Len(p) = 1
        <5>1. Len(p) # 0 => 1 \in 1..Len(p)
          BY <2>2
        <5>2. QED
          BY <2>3, <3>1, <4>0, <5>1
      <4>2. Len(r) = 0
        BY <2>2, <4>1
      <4>3. r = <<>>
        BY <1>1, <4>2, EmptySeq DEF r, CallType
      <4>4. QED
        BY <1>3, <4>3 DEF InCall, r
    <3>2. QED
      BY <3>1
  <2>8. /\ "free" \in Remaining(t)' <=> call'[t].event = "thread_end"
        /\ "dlclose" \in Remaining(t)' <=> call'[t].event = "finalize"
        /\ "own" \in Remaining(t)' => "own" \in Remaining(t)
        /\ "client" \in Remaining(t)' => "client" \in Remaining(t)
    BY <1>1, <2>1, <2>6, <2>7
  <2>9. at'[t] = at[t]
    BY <1>1 DEF program
  <2>10. QED
    BY <2>1, <2>5, <2>6, <2>8, <2>9 DEF PartsOf, r
<1>4. QED
  BY <1>1, <1>2, <1>3 DEF PartsLeft

(* What the wrappers have left in every state.                              *)
LEMMA PartsStep ==
  ASSUME Flow, Next
  PROVE  PartsLeft'
<1>1. CASE NextLibrary
  <2>1. call' = call /\ phase = "load"
    BY <1>1 DEF NextLibrary
  <2>2. \A u \in Thread : ~InCall(u)'
    BY <2>1 DEF Flow, Life, InCall
  <2>3. QED
    BY <2>1, <2>2 DEF Flow, PartsLeft
<1>2. CASE OwnStartTool
  <2>1. call' = call /\ phase = "load"
    BY <1>2 DEF OwnStartTool
  <2>2. \A u \in Thread : ~InCall(u)'
    BY <2>1 DEF Flow, Life, InCall
  <2>3. QED
    BY <2>1, <2>2 DEF Flow, PartsLeft
<1>3. CASE Initialize
  <2>1. call' = call /\ phase = "initialize"
    BY <1>3 DEF Initialize
  <2>2. \A u \in Thread : ~InCall(u)'
    BY <2>1 DEF Flow, Life, InCall
  <2>3. QED
    BY <2>1, <2>2 DEF Flow, PartsLeft
<1>4. CASE InitialTaskBegin
  <2>1. UNCHANGED <<client, callbacks_registered, clientSet>> /\ \A u \in Thread \ {Initial} : at'[u] = at[u]
    BY <1>4, CountTypes DEF InitialTaskBegin, Goto, tool
  <2>0. Initial \in Thread
    BY HandleCases
  <2>2. QED
    BY <1>4, <2>1, <2>0, InitialTaskBeginCall, PartsOfTools
<1>5. CASE ParallelBegin
  <2>1. UNCHANGED <<client, callbacks_registered, clientSet>> /\ \A u \in Thread \ {Initial} : at'[u] = at[u]
    BY <1>5, CountTypes DEF ParallelBegin, Goto, tool
  <2>0. Initial \in Thread
    BY HandleCases
  <2>2. QED
    BY <1>5, <2>1, <2>0, ParallelBeginCall, PartsOfTools
<1>6. CASE BarrierOpens
  <2>1. UNCHANGED <<client, callbacks_registered, clientSet, call, at>>
    BY <1>6 DEF BarrierOpens, tool, vars, program
  <2>2. ASSUME NEW u \in Thread
        PROVE  InCall(u)' => PartsOf(u)'
    <3>1. InCall(u) => PartsOf(u)
      BY DEF Flow, PartsLeft
    <3>2. QED
      BY <2>1, <3>1, PartsFrame
  <2>3. QED
    BY <2>1, <2>2 DEF Flow, PartsLeft
<1>7. CASE ParallelEnd
  <2>1. UNCHANGED <<client, callbacks_registered, clientSet>> /\ \A u \in Thread \ {Initial} : at'[u] = at[u]
    BY <1>7, CountTypes DEF ParallelEnd, Goto, tool
  <2>0. Initial \in Thread
    BY HandleCases
  <2>2. QED
    BY <1>7, <2>1, <2>0, ParallelEndCall, PartsOfTools
<1>8. CASE InitialTaskEnd
  <2>1. UNCHANGED <<client, callbacks_registered, clientSet>> /\ \A u \in Thread \ {Initial} : at'[u] = at[u]
    BY <1>8, CountTypes DEF InitialTaskEnd, Goto, tool
  <2>0. Initial \in Thread
    BY HandleCases
  <2>2. QED
    BY <1>8, <2>1, <2>0, InitialTaskEndCall, PartsOfTools
<1>9. CASE ControlToolEnd
  <2>1. UNCHANGED <<client, callbacks_registered, clientSet>> /\ \A u \in Thread \ {Initial} : at'[u] = at[u]
    BY <1>9, CountTypes DEF ControlToolEnd, Goto, tool
  <2>0. Initial \in Thread /\ at'[Initial] = "ending"
    BY <1>9, CountTypes, HandleCases DEF ControlToolEnd, Goto
  <2>2. QED
    BY <1>9, <2>1, <2>0, ControlToolEndCall, PartsOfTools
<1>10. CASE Finalize
  <2>1. UNCHANGED <<client, callbacks_registered, clientSet>> /\ \A u \in Thread \ {Initial} : at'[u] = at[u]
    BY <1>10, CountTypes DEF Finalize, Goto, tool
  <2>2. PICK left : Calls(Initial, "finalize", {}, {}, {}, left) /\ "dlclose" \in left /\ "free" \notin left
    BY <1>10, FinalizeCall
  <2>3. \A i \in 1..Len(call'[Initial].parts) : call'[Initial].parts[i] = "client" => i = 1 /\ client # 0
    BY <1>10, FinalizeCall
  <2>4. Initial \in Thread /\ at'[Initial] = "final"
    BY <1>10, CountTypes, HandleCases DEF Finalize, Goto
  <2>5. QED
    BY <2>1, <2>2, <2>3, <2>4, PartsOfCall
<1>11. CASE Stopped
  <2>1. UNCHANGED <<client, callbacks_registered, clientSet, call, at>>
    BY <1>11 DEF Stopped, tool, vars, program
  <2>2. ASSUME NEW u \in Thread
        PROVE  InCall(u)' => PartsOf(u)'
    <3>1. InCall(u) => PartsOf(u)
      BY DEF Flow, PartsLeft
    <3>2. QED
      BY <2>1, <3>1, PartsFrame
  <2>3. QED
    BY <2>1, <2>2 DEF Flow, PartsLeft
<1>12. ASSUME NEW t \in Thread, ThreadBegin(t)
      PROVE  PartsLeft'
  <2>1. UNCHANGED <<client, callbacks_registered, clientSet>> /\ \A u \in Thread \ {t} : at'[u] = at[u]
    BY <1>12, CountTypes DEF ThreadBegin, Goto, tool
  <2>2. QED
    BY <1>12, <2>1, ThreadBeginCall, PartsOfTools
<1>13. ASSUME NEW t \in Thread, ImplicitTaskBegin(t)
      PROVE  PartsLeft'
  <2>1. UNCHANGED <<client, callbacks_registered, clientSet>> /\ \A u \in Thread \ {t} : at'[u] = at[u]
    BY <1>13, CountTypes DEF ImplicitTaskBegin, Goto, tool
  <2>2. QED
    BY <1>13, <2>1, ImplicitTaskBeginCall, PartsOfTools
<1>14. ASSUME NEW t \in Thread, SyncRegionBegin(t)
      PROVE  PartsLeft'
  <2>1. UNCHANGED <<client, callbacks_registered, clientSet>> /\ \A u \in Thread \ {t} : at'[u] = at[u]
    BY <1>14, CountTypes DEF SyncRegionBegin, Goto, tool
  <2>2. QED
    BY <1>14, <2>1, SyncRegionBeginCall, PartsOfTools
<1>15. ASSUME NEW t \in Thread, SyncRegionEnd(t)
      PROVE  PartsLeft'
  <2>1. UNCHANGED <<client, callbacks_registered, clientSet>> /\ \A u \in Thread \ {t} : at'[u] = at[u]
    BY <1>15, CountTypes DEF SyncRegionEnd, Goto, tool
  <2>2. QED
    BY <1>15, <2>1, SyncRegionEndCall, PartsOfTools
<1>16. ASSUME NEW t \in Thread, ImplicitTaskEnd(t)
      PROVE  PartsLeft'
  <2>1. UNCHANGED <<client, callbacks_registered, clientSet>> /\ \A u \in Thread \ {t} : at'[u] = at[u]
    BY <1>16, CountTypes DEF ImplicitTaskEnd, Goto, tool
  <2>2. QED
    BY <1>16, <2>1, ImplicitTaskEndCall, PartsOfTools
<1>17. ASSUME NEW t \in Thread, ThreadEnd(t)
      PROVE  PartsLeft'
  <2> DEFINE left == {q \in {"own", "client", "free"} : Called("thread_end", q)}
  <2>1. UNCHANGED <<client, callbacks_registered, clientSet>> /\ \A u \in Thread \ {t} : at'[u] = at[u]
    BY <1>17, CountTypes DEF ThreadEnd, Goto, tool
  <2>2. Calls(t, "thread_end", {ThreadData(t)}, {}, {ThreadData(t)}, left)
    BY <1>17, ThreadEndCall
  <2>3. /\ left # {} => "free" \in left
        /\ "dlclose" \notin left
        /\ "own" \in left => callbacks_registered /\ "thread_end" \in OwnEvent
        /\ "client" \in left => "thread_end" \in clientSet
    BY DEF Called, Registered
  <2> HIDE DEF left
  <2>4. QED
    BY <2>1, <2>2, <2>3, PartsOfCall
<1>18. ASSUME NEW t \in Thread, Work(t)
      PROVE  PartsLeft'
  <2>1. UNCHANGED <<client, callbacks_registered, clientSet>> /\ \A u \in Thread \ {t} : at'[u] = at[u]
    BY <1>18, CountTypes DEF Work, Goto, tool
  <2>2. QED
    BY <1>18, <2>1, WorkCall, PartsOfTools
<1>19. ASSUME NEW t \in Thread, Own(t)
      PROVE  PartsLeft'
  <2>1. Part(t, "own") /\ "own" \in PartName /\ UNCHANGED <<client, callbacks_registered, clientSet>>
    BY <1>19 DEF Own, PartName, tool
  <2>2. QED
    BY <2>1, PartsOfPart
<1>20. ASSUME NEW t \in Thread, Client(t)
      PROVE  PartsLeft'
  <2>1. Part(t, "client") /\ "client" \in PartName /\ UNCHANGED <<client, callbacks_registered, clientSet>>
    BY <1>20 DEF Client, PartName, tool
  <2>2. QED
    BY <2>1, PartsOfPart
<1>21. ASSUME NEW t \in Thread, Free(t)
      PROVE  PartsLeft'
  <2>1. Part(t, "free") /\ "free" \in PartName /\ UNCHANGED <<client, callbacks_registered, clientSet>>
    BY <1>21 DEF Free, PartName, tool
  <2>2. QED
    BY <2>1, PartsOfPart
<1>22. ASSUME NEW t \in Thread, DlClose(t)
      PROVE  PartsLeft'
  <2>1. Part(t, "dlclose") /\ "dlclose" \in PartName /\ UNCHANGED <<client, callbacks_registered, clientSet>>
    BY <1>22 DEF DlClose, PartName, tool
  <2>2. QED
    BY <2>1, PartsOfPart
<1>23. ASSUME NEW t \in Thread, NEW e \in Task, TaskCreate(t, e)
      PROVE  PartsLeft'
  <2>1. UNCHANGED <<client, callbacks_registered, clientSet>> /\ \A u \in Thread \ {t} : at'[u] = at[u]
    BY <1>23, CountTypes DEF TaskCreate, Goto, tool
  <2>2. QED
    BY <1>23, <2>1, TaskCreateCall, PartsOfTools
<1>24. ASSUME NEW t \in Thread, NEW e \in Task, TaskSwitch(t, e)
      PROVE  PartsLeft'
  <2>1. UNCHANGED <<client, callbacks_registered, clientSet>> /\ \A u \in Thread \ {t} : at'[u] = at[u]
    BY <1>24, CountTypes DEF TaskSwitch, Goto, tool
  <2>2. QED
    BY <1>24, <2>1, TaskSwitchCall, PartsOfTools
<1>25. ASSUME NEW t \in Thread, NEW status \in EndStatus, TaskEnd(t, status)
      PROVE  PartsLeft'
  <2>1. UNCHANGED <<client, callbacks_registered, clientSet>> /\ \A u \in Thread \ {t} : at'[u] = at[u]
    BY <1>25, CountTypes DEF TaskEnd, Goto, tool
  <2>2. QED
    BY <1>25, <2>1, TaskEndCall, PartsOfTools
<1>26. QED
  BY <1>1, <1>2, <1>3, <1>4, <1>5, <1>6, <1>7, <1>8, <1>9, <1>10, <1>11, <1>12, <1>13, <1>14, <1>15, <1>16, <1>17, <1>18, <1>19, <1>20, <1>21, <1>22, <1>23, <1>24, <1>25 DEF Next

-----------------------------------------------------------------------------
(* The life of the tool *)

LEMMA LastPart ==
  ASSUME Flow, NEW t \in Thread, NEW q \in {"free", "dlclose"}, Part(t, q)
  PROVE  ~InCall(t)' /\ Remaining(t) = {q}
<1>1. /\ PartsOf(t) /\ InCall(t) /\ q = call[t].parts[1] /\ q \in PartName
      /\ ~InCall(t)' => Remaining(t) = {q}
      /\ InCall(t)' => Len(call'[t].parts) = Len(call[t].parts) - 1
      /\ call' \in [Thread -> CallType]
  BY PartFacts DEF PartName
<1> DEFINE p == call[t].parts
           r == call'[t].parts
<1>2. \A i \in 1..Len(p) : p[i] \in {"free", "dlclose"} => i = Len(p)
  BY <1>1 DEF PartsOf
<1>3. p \in Seq(PartName) /\ p # <<>> /\ r \in Seq(PartName)
  <2>1. call[t] \in CallType /\ call'[t] \in CallType
    BY <1>1 DEF Flow, PartsLeft
  <2>2. QED
    BY <1>1, <2>1 DEF CallType, InCall
<1>4. q = p[1] /\ (InCall(t)' => Len(r) = Len(p) - 1) /\ (r = <<>> => ~InCall(t)')
  <2>1. r = <<>> => ~InCall(t)'
    BY Zenon DEF InCall
  <2>2. QED
    BY <1>1, <2>1, Zenon
<1> HIDE DEF p, r
<1>5. Len(p) \in Nat \ {0} /\ (Len(r) = 0 => r = <<>>)
  BY <1>3, EmptySeq
<1>6. 1 \in 1..Len(p)
  BY <1>5
<1>7. Len(p) = 1
  BY <1>2, <1>4, <1>6
<1>8. QED
  BY <1>1, <1>4, <1>5, <1>7

(* The client is called while its library is open, and nobody is called     *)
(* once the tools are finalized.                                           *)
LEMMA FlowClientOpen ==
  ASSUME Flow, \A events \in ClientSets : "control_tool" \notin events
  PROVE  ClientOpen
<1> SUFFICES ASSUME NEW t \in Thread, InCall(t)
             PROVE  /\ Head(call[t].parts) = "client" => client \in opened
                    /\ Head(call[t].parts) \in {"own", "client"} => phase = "run"
  BY DEF ClientOpen
<1>1. Head(call[t].parts) \in Remaining(t) /\ PartsOf(t)
  BY RemainingFacts DEF Flow, PartsLeft
<1>2. "control_tool" \notin clientSet
  BY DEF Flow, Life
<1>3. call[t].event = "control_tool" => Head(call[t].parts) # "client"
  BY <1>1, <1>2 DEF PartsOf
<1>4. ASSUME Head(call[t].parts) = "client"
      PROVE  client \in opened
  <2>1. client # 0
    <3>1. CASE call[t].event = "finalize"
      <4>1. \E i \in 1..Len(call[t].parts) : call[t].parts[i] = "client"
        BY <1>1, <1>4 DEF Remaining
      <4>2. QED
        BY <1>1, <3>1, <4>1 DEF PartsOf
    <3>2. CASE call[t].event # "finalize"
      <4>1. call[t].event \in clientSet
        BY <1>1, <1>4, <3>2 DEF PartsOf
      <4>2. QED
        BY <4>1 DEF Flow, Life
    <3>3. QED
      BY <3>1, <3>2
  <2>2. QED
    BY <1>3, <1>4, <2>1 DEF Flow, Life, Closed
<1>5. ASSUME Head(call[t].parts) \in {"own", "client"}
      PROVE  phase = "run"
  <2>1. ~Over(t)
    BY <1>1, <1>3, <1>5 DEF Over
  <2>2. QED
    BY <2>1 DEF Flow, Life, TypeOK
<1>6. QED
  BY <1>4, <1>5

(* When the runtime has ended no worker begins or does anything.            *)
LEMMA FinalWorkers ==
  ASSUME Flow, at[Initial] = "final", NEW t \in Worker
  PROVE  at[t] = "gone" \/ (at[t] = "new" /\ ~Forked)
<1>1. t \in Thread /\ at[t] \in {"new", "gone"} /\ barrier = region
  BY DEF Flow, Life, Places, Thread
<1>2. at[t] = "new" => entered[t] = 0
  BY <1>1 DEF Flow, Places
<1>3. barrier <= entered[t]
  BY <1>1 DEF Flow, Places
<1>4. QED
  BY <1>1, <1>2, <1>3, CountTypes DEF Forked

LEMMA LifeEvent ==
  ASSUME Flow, NEW t \in Thread, phase = "run", UNCHANGED tool,
         \A u \in Thread \ {t} : at'[u] = at[u] /\ call'[u] = call[u],
         at[Initial] # "final",
         at'[Initial] = "final" => \A u \in Worker : at'[u] \in {"new", "gone"} /\ ~InCall(u)'
  PROVE  Life'
<1>1. UNCHANGED <<phase, opened, client, callbacks_registered, clientSet>>
  BY DEF tool
<1>2. ~Closed /\ ~Closed'
  BY <1>1 DEF Flow, Life, Closed
<1>3. QED
  BY <1>1, <1>2 DEF Flow, Life

(* A callback that has no part left is over.                               *)
LEMMA PartRemains ==
  ASSUME Flow, NEW t \in Thread, NEW q \in PartName, Part(t, q), InCall(t)'
  PROVE  Remaining(t)' # {}
<1> DEFINE r == call'[t].parts
<1>1. r \in Seq(PartName) /\ r # <<>>
  BY PartFacts DEF CallType, InCall
<1> HIDE DEF r
<1>2. 1 \in 1..Len(r)
  BY <1>1, TailFacts
<1>3. QED
  BY <1>2 DEF Remaining, r

LEMMA LifePart ==
  ASSUME Flow, NEW t \in Thread, NEW q \in PartName, Part(t, q),
         UNCHANGED <<client, callbacks_registered, clientSet>>,
         phase' = phase \/ (phase = "run" /\ phase' = "finalized" /\ \A u \in Thread : InCall(u)' => Over(u)'),
         \/ opened' = opened
         \/ /\ at[Initial] = "final" \/ phase' = "finalized"
            /\ \A u \in Thread : InCall(u)' => call'[u].event = "control_tool"
  PROVE  Life'
<1>1. /\ InCall(t) /\ PartsOf(t) /\ q \in Remaining(t)
      /\ \A u \in Thread \ {t} : call'[u] = call[u]
      /\ Remaining(t)' = Remaining(t) \ {q}
      /\ InCall(t)' => call'[t] = [call[t] EXCEPT !.parts = Tail(call[t].parts)]
      /\ UNCHANGED program
  BY PartFacts
<1>2. at' = at /\ created' = created
  BY <1>1 DEF program
<1>3. \A u \in Thread : InCall(u)' => InCall(u) /\ call'[u].event = call[u].event
  <2>1. call[t] \in CallType
    BY DEF Flow, PartsLeft
  <2>2. InCall(t)' => call'[t].event = call[t].event
    BY <1>1, <2>1 DEF CallType
  <2>3. QED
    BY <1>1, <2>2 DEF InCall
<1>4. phase \notin {"load", "initialize"}
  BY <1>1 DEF Flow, Life
<1>5. phase' = "finalized" => \A u \in Thread : InCall(u)' => Over(u)'
  <2>1. CASE phase' = phase
    <3>1. ASSUME phase = "finalized", NEW u \in Thread, InCall(u)'
          PROVE  Over(u)'
      <4>1. Over(u) /\ call'[u].event = call[u].event
        BY <1>3, <3>1 DEF Flow, Life
      <4>2. CASE u = t
        <5>1. Remaining(t) = {q}
          BY <1>1, <4>1, <4>2 DEF Over
        <5>2. Remaining(t)' = {}
          BY <1>1, <5>1
        <5>3. QED
          BY <3>1, <4>2, <5>2, PartRemains
      <4>3. CASE u # t
        <5>1. call'[u] = call[u]
          BY <1>1, <4>3
        <5>2. Remaining(u)' = Remaining(u)
          BY <5>1 DEF Remaining
        <5>3. QED
          BY <4>1, <5>2 DEF Over
      <4>4. QED
        BY <4>2, <4>3
    <3>2. QED
      BY <2>1, <3>1
  <2>2. QED
    BY <2>1
<1>6. ASSUME Closed'
      PROVE  /\ at'[Initial] = "final" \/ phase' = "finalized"
             /\ \A u \in Thread : InCall(u)' => call'[u].event = "control_tool"
  <2>1. CASE opened' = opened
    <3>1. Closed
      BY <1>6, <2>1 DEF Closed
    <3>2. /\ at[Initial] = "final" \/ phase = "finalized"
          /\ \A u \in Thread : InCall(u) => call[u].event = "control_tool"
      BY <3>1 DEF Flow, Life
    <3>3. QED
      BY <1>2, <1>3, <3>2
  <2>2. QED
    BY <1>2, <2>1
<1>7. at'[Initial] = "final" => \A u \in Worker : at'[u] \in {"new", "gone"} /\ ~InCall(u)'
  BY <1>2, <1>3, HandleCases DEF Flow, Life
<1>8. phase' \notin {"load", "initialize"}
  BY <1>4
<1>9. /\ clientSet' # {} => client' # 0
      /\ clientSet' = {} \/ clientSet' \in ClientSets
  BY DEF Flow, Life
<1>10. QED
  BY <1>5, <1>6, <1>7, <1>8, <1>9 DEF Life

LEMMA LifeStep ==
  ASSUME Flow, Next
  PROVE  Life'
<1>1. CASE NextLibrary
  <2>1. UNCHANGED <<callbacks_registered, clientSet, call, at, created, phase>> /\ phase = "load" /\ client = 0
    BY <1>1 DEF NextLibrary, program
  <2>2. ~Closed'
    BY <1>1 DEF NextLibrary, Closed
  <2>3. clientSet = {} /\ ~callbacks_registered /\ created = {} /\ \A u \in Thread : at[u] = "new" /\ ~InCall(u)
    BY <2>1 DEF Flow, Life
  <2>4. \A u \in Thread : ~InCall(u)' /\ at'[u] = "new"
    BY <2>1, <2>3 DEF InCall
  <2>5. QED
    BY <2>1, <2>2, <2>3, <2>4, HandleCases DEF Life
<1>2. CASE OwnStartTool
  <2>1. /\ UNCHANGED <<callbacks_registered, clientSet, call, at, created, client, opened>>
        /\ phase = "load" /\ phase' = "initialize"
    BY <1>2 DEF OwnStartTool, program
  <2>3. clientSet = {} /\ ~callbacks_registered /\ created = {} /\ \A u \in Thread : at[u] = "new" /\ ~InCall(u)
    BY <2>1 DEF Flow, Life
  <2>4. \A u \in Thread : ~InCall(u)' /\ at'[u] = "new"
    BY <2>1, <2>3 DEF InCall
  <2>5. ~Closed'
    BY <2>1, <2>3, HandleCases DEF Flow, Life, Closed
  <2>6. QED
    BY <2>1, <2>3, <2>4, <2>5, HandleCases DEF Life
<1>3. CASE Initialize
  <2>1. /\ UNCHANGED <<call, at, created, client, opened>>
        /\ phase = "initialize" /\ phase' = "run"
        /\ IF client = 0 THEN clientSet' = clientSet ELSE clientSet' \in ClientSets
    BY <1>3 DEF Initialize, program
  <2>3. clientSet = {} /\ \A u \in Thread : at[u] = "new" /\ ~InCall(u)
    BY <2>1 DEF Flow, Life
  <2>4. \A u \in Thread : ~InCall(u)' /\ at'[u] = "new"
    BY <2>1, <2>3 DEF InCall
  <2>5. ~Closed'
    BY <2>1, <2>3, HandleCases DEF Flow, Life, Closed
  <2>6. QED
    BY <2>1, <2>3, <2>4, <2>5, HandleCases DEF Life
<1>4. CASE InitialTaskBegin
  <2>1. Initial \in Thread /\ UNCHANGED tool /\ phase = "run" /\ at'[Initial] # "final"
    BY <1>4, CountTypes, HandleCases DEF InitialTaskBegin, Goto
  <2>2. at[Initial] # "final"
    BY <1>4 DEF InitialTaskBegin, Goto
  <2>3. \A u \in Thread \ {Initial} : at'[u] = at[u] /\ call'[u] = call[u]
    BY <1>4, InitialTaskBeginCall, CountTypes DEF InitialTaskBegin, Goto, Calls
  <2>4. at'[Initial] # "final"
    BY <2>1, <2>2, <2>3, HandleCases
  <2>5. QED
    BY <2>1, <2>2, <2>3, <2>4, LifeEvent
<1>5. CASE ParallelBegin
  <2>1. Initial \in Thread /\ UNCHANGED tool /\ phase = "run" /\ at'[Initial] # "final"
    BY <1>5, CountTypes, HandleCases DEF ParallelBegin, Goto
  <2>2. at[Initial] # "final"
    BY <1>5 DEF ParallelBegin, Goto
  <2>3. \A u \in Thread \ {Initial} : at'[u] = at[u] /\ call'[u] = call[u]
    BY <1>5, ParallelBeginCall, CountTypes DEF ParallelBegin, Goto, Calls
  <2>4. at'[Initial] # "final"
    BY <2>1, <2>2, <2>3, HandleCases
  <2>5. QED
    BY <2>1, <2>2, <2>3, <2>4, LifeEvent
<1>6. CASE BarrierOpens
  <2>1. UNCHANGED <<tool, at, call, created>>
    BY <1>6 DEF BarrierOpens, vars, program
  <2>2. QED
    BY <2>1 DEF Flow, Life, InCall, Remaining, Over, Closed, tool
<1>7. CASE ParallelEnd
  <2>1. Initial \in Thread /\ UNCHANGED tool /\ phase = "run" /\ at'[Initial] # "final"
    BY <1>7, CountTypes, HandleCases DEF ParallelEnd, Goto
  <2>2. at[Initial] # "final"
    BY <1>7 DEF ParallelEnd, Goto
  <2>3. \A u \in Thread \ {Initial} : at'[u] = at[u] /\ call'[u] = call[u]
    BY <1>7, ParallelEndCall, CountTypes DEF ParallelEnd, Goto, Calls
  <2>4. at'[Initial] # "final"
    BY <2>1, <2>2, <2>3, HandleCases
  <2>5. QED
    BY <2>1, <2>2, <2>3, <2>4, LifeEvent
<1>8. CASE InitialTaskEnd
  <2>1. Initial \in Thread /\ UNCHANGED tool /\ phase = "run" /\ at'[Initial] # "final"
    BY <1>8, CountTypes, HandleCases DEF InitialTaskEnd, Goto
  <2>2. at[Initial] # "final"
    BY <1>8 DEF InitialTaskEnd, Goto
  <2>3. \A u \in Thread \ {Initial} : at'[u] = at[u] /\ call'[u] = call[u]
    BY <1>8, InitialTaskEndCall, CountTypes DEF InitialTaskEnd, Goto, Calls
  <2>4. at'[Initial] # "final"
    BY <2>1, <2>2, <2>3, HandleCases
  <2>5. QED
    BY <2>1, <2>2, <2>3, <2>4, LifeEvent
<1>9. CASE ControlToolEnd
  <2>1. Initial \in Thread /\ UNCHANGED tool /\ phase = "run" /\ at'[Initial] # "final"
    BY <1>9, CountTypes, HandleCases DEF ControlToolEnd, Goto
  <2>2. at[Initial] # "final"
    BY <1>9 DEF ControlToolEnd, Goto
  <2>3. \A u \in Thread \ {Initial} : at'[u] = at[u] /\ call'[u] = call[u]
    BY <1>9, ControlToolEndCall, CountTypes DEF ControlToolEnd, Goto, Calls
  <2>4. at'[Initial] # "final"
    BY <2>1, <2>2, <2>3, HandleCases
  <2>5. QED
    BY <2>1, <2>2, <2>3, <2>4, LifeEvent
<1>10. CASE Finalize
  <2>1. /\ UNCHANGED tool /\ phase = "run" /\ Initial \in Thread /\ at[Initial] # "final"
        /\ \A u \in Thread : at[u] \in {"new", "gone"} /\ ~InCall(u)
    BY <1>10, HandleCases DEF Finalize, Goto
  <2>2. PICK left : Calls(Initial, "finalize", {}, {}, {}, left)
    BY <1>10, FinalizeCall
  <2>3. \A u \in Thread \ {Initial} : at'[u] = at[u] /\ call'[u] = call[u]
    BY <1>10, <2>2, CountTypes DEF Finalize, Goto, Calls
  <2>4. \A u \in Worker : at'[u] \in {"new", "gone"} /\ ~InCall(u)'
    BY <2>1, <2>3, HandleCases DEF InCall
  <2>5. QED
    BY <2>1, <2>3, <2>4, LifeEvent
<1>11. CASE Stopped
  <2>1. UNCHANGED <<tool, at, call, created>>
    BY <1>11 DEF Stopped, vars, program
  <2>2. QED
    BY <2>1 DEF Flow, Life, InCall, Remaining, Over, Closed, tool
<1>12. ASSUME NEW t \in Thread, ThreadBegin(t)
      PROVE  Life'
  <2>1. UNCHANGED tool /\ phase = "run" /\ at'[t] # "final"
    BY <1>12, CountTypes DEF ThreadBegin, Goto
  <2>2. at[Initial] # "final"
    <3>1. CASE t = Initial
      BY <1>12, <3>1 DEF ThreadBegin, Goto
    <3>2. CASE t # Initial
      BY <1>12, <3>2, FinalWorkers, HandleCases DEF ThreadBegin, Goto
    <3>3. QED
      BY <3>1, <3>2
  <2>3. \A u \in Thread \ {t} : at'[u] = at[u] /\ call'[u] = call[u]
    BY <1>12, ThreadBeginCall, CountTypes DEF ThreadBegin, Goto, Calls
  <2>4. at'[Initial] # "final"
    BY <2>1, <2>2, <2>3, HandleCases
  <2>5. QED
    BY <2>1, <2>2, <2>3, <2>4, LifeEvent
<1>13. ASSUME NEW t \in Thread, ImplicitTaskBegin(t)
      PROVE  Life'
  <2>1. UNCHANGED tool /\ phase = "run" /\ at'[t] # "final"
    BY <1>13, CountTypes DEF ImplicitTaskBegin, Goto
  <2>2. at[Initial] # "final"
    <3>1. CASE t = Initial
      BY <1>13, <3>1 DEF ImplicitTaskBegin, Goto
    <3>2. CASE t # Initial
      BY <1>13, <3>2, FinalWorkers, HandleCases DEF ImplicitTaskBegin, Goto
    <3>3. QED
      BY <3>1, <3>2
  <2>3. \A u \in Thread \ {t} : at'[u] = at[u] /\ call'[u] = call[u]
    BY <1>13, ImplicitTaskBeginCall, CountTypes DEF ImplicitTaskBegin, Goto, Calls
  <2>4. at'[Initial] # "final"
    BY <2>1, <2>2, <2>3, HandleCases
  <2>5. QED
    BY <2>1, <2>2, <2>3, <2>4, LifeEvent
<1>14. ASSUME NEW t \in Thread, SyncRegionBegin(t)
      PROVE  Life'
  <2>1. UNCHANGED tool /\ phase = "run" /\ at'[t] # "final"
    BY <1>14, CountTypes DEF SyncRegionBegin, Goto
  <2>2. at[Initial] # "final"
    <3>1. CASE t = Initial
      BY <1>14, <3>1 DEF SyncRegionBegin, Goto
    <3>2. CASE t # Initial
      BY <1>14, <3>2, FinalWorkers, HandleCases DEF SyncRegionBegin, Goto
    <3>3. QED
      BY <3>1, <3>2
  <2>3. \A u \in Thread \ {t} : at'[u] = at[u] /\ call'[u] = call[u]
    BY <1>14, SyncRegionBeginCall, CountTypes DEF SyncRegionBegin, Goto, Calls
  <2>4. at'[Initial] # "final"
    BY <2>1, <2>2, <2>3, HandleCases
  <2>5. QED
    BY <2>1, <2>2, <2>3, <2>4, LifeEvent
<1>15. ASSUME NEW t \in Thread, SyncRegionEnd(t)
      PROVE  Life'
  <2>1. UNCHANGED tool /\ phase = "run" /\ at'[t] # "final"
    BY <1>15, CountTypes DEF SyncRegionEnd, Goto
  <2>2. at[Initial] # "final"
    <3>1. CASE t = Initial
      BY <1>15, <3>1 DEF SyncRegionEnd, Goto
    <3>2. CASE t # Initial
      BY <1>15, <3>2, FinalWorkers, HandleCases DEF SyncRegionEnd, Goto
    <3>3. QED
      BY <3>1, <3>2
  <2>3. \A u \in Thread \ {t} : at'[u] = at[u] /\ call'[u] = call[u]
    BY <1>15, SyncRegionEndCall, CountTypes DEF SyncRegionEnd, Goto, Calls
  <2>4. at'[Initial] # "final"
    BY <2>1, <2>2, <2>3, HandleCases
  <2>5. QED
    BY <2>1, <2>2, <2>3, <2>4, LifeEvent
<1>16. ASSUME NEW t \in Thread, ImplicitTaskEnd(t)
      PROVE  Life'
  <2>1. UNCHANGED tool /\ phase = "run" /\ at'[t] # "final"
    BY <1>16, CountTypes DEF ImplicitTaskEnd, Goto
  <2>2. at[Initial] # "final"
    <3>1. CASE t = Initial
      BY <1>16, <3>1 DEF ImplicitTaskEnd, Goto
    <3>2. CASE t # Initial
      BY <1>16, <3>2, FinalWorkers, HandleCases DEF ImplicitTaskEnd, Goto
    <3>3. QED
      BY <3>1, <3>2
  <2>3. \A u \in Thread \ {t} : at'[u] = at[u] /\ call'[u] = call[u]
    BY <1>16, ImplicitTaskEndCall, CountTypes DEF ImplicitTaskEnd, Goto, Calls
  <2>4. at'[Initial] # "final"
    BY <2>1, <2>2, <2>3, HandleCases
  <2>5. QED
    BY <2>1, <2>2, <2>3, <2>4, LifeEvent
<1>17. ASSUME NEW t \in Thread, ThreadEnd(t)
      PROVE  Life'
  <2>1. UNCHANGED tool /\ phase = "run" /\ at'[t] # "final"
    BY <1>17, CountTypes DEF ThreadEnd, Goto
  <2>2. at[Initial] # "final"
    <3>1. CASE t = Initial
      BY <1>17, <3>1 DEF ThreadEnd, Goto
    <3>2. CASE t # Initial
      BY <1>17, <3>2, FinalWorkers, HandleCases DEF ThreadEnd, Goto
    <3>3. QED
      BY <3>1, <3>2
  <2>3. \A u \in Thread \ {t} : at'[u] = at[u] /\ call'[u] = call[u]
    BY <1>17, ThreadEndCall, CountTypes DEF ThreadEnd, Goto, Calls
  <2>4. at'[Initial] # "final"
    BY <2>1, <2>2, <2>3, HandleCases
  <2>5. QED
    BY <2>1, <2>2, <2>3, <2>4, LifeEvent
<1>18. ASSUME NEW t \in Thread, Work(t)
      PROVE  Life'
  <2>1. UNCHANGED tool /\ phase = "run" /\ at'[t] # "final"
    BY <1>18, CountTypes DEF Work, Goto
  <2>2. at[Initial] # "final"
    <3>1. CASE t = Initial
      BY <1>18, <3>1 DEF Work, Goto
    <3>2. CASE t # Initial
      BY <1>18, <3>2, FinalWorkers, HandleCases DEF Work, Goto
    <3>3. QED
      BY <3>1, <3>2
  <2>3. \A u \in Thread \ {t} : at'[u] = at[u] /\ call'[u] = call[u]
    BY <1>18, WorkCall, CountTypes DEF Work, Goto, Calls
  <2>4. at'[Initial] # "final"
    BY <2>1, <2>2, <2>3, HandleCases
  <2>5. QED
    BY <2>1, <2>2, <2>3, <2>4, LifeEvent
<1>19. ASSUME NEW t \in Thread, Own(t)
      PROVE  Life'
  <2>1. Part(t, "own") /\ "own" \in PartName /\ UNCHANGED <<client, callbacks_registered, clientSet>>
    BY <1>19 DEF Own, PartName, tool
  <2>2. /\ InCall(t) /\ PartsOf(t) /\ "own" \in Remaining(t) /\ "own" = call[t].parts[1]
        /\ \A u \in Thread \ {t} : call'[u] = call[u]
        /\ Remaining(t)' = Remaining(t) \ {"own"}
        /\ InCall(t)' => call'[t] = [call[t] EXCEPT !.parts = Tail(call[t].parts)]
    BY <2>1, PartFacts
  <2>3. InCall(t)' => Remaining(t)' # {}
    BY <2>1, PartRemains
  <2>4. CASE call[t].event \notin {"control_tool", "finalize"}
    <3>1. UNCHANGED <<phase, opened>>
      BY <1>19, <2>4 DEF Own, OwnControlTool
    <3>2. QED
      BY <2>1, <3>1, LifePart
  <2>5. CASE call[t].event \in {"control_tool", "finalize"}
    <3>1. phase = "run" /\ phase' = "finalized"
      <4>1. phase' = "finalized"
        BY <1>19, <2>5 DEF Own, OwnControlTool
      <4>2. ~Over(t)
        BY <2>2 DEF Over
      <4>3. QED
        BY <2>2, <4>1, <4>2 DEF Flow, Life, TypeOK
    <3>2. t = Initial /\ \A u \in Worker : ~InCall(u)
      <4>1. CASE call[t].event = "control_tool"
        <5>1. t = Initial
          BY <2>2, <4>1 DEF PartsOf
        <5>2. \A u \in Worker : ~InCall(u)
          BY <1>19, <4>1 DEF Own, OwnControlTool
        <5>3. QED
          BY <5>1, <5>2
      <4>2. CASE call[t].event = "finalize"
        <5>1. t = Initial /\ at[Initial] = "final"
          BY <2>2, <4>2 DEF PartsOf
        <5>2. \A u \in Worker : ~InCall(u)
          BY <5>1 DEF Flow, Life
        <5>3. QED
          BY <5>1, <5>2
      <4>3. QED
        BY <2>5, <4>1, <4>2
    <3>3. Remaining(t)' \subseteq IF call[t].event = "control_tool" THEN {"client"} ELSE {"dlclose"}
      <4>1. Remaining(t) \subseteq PartName
        BY RemainingFacts
      <4>2. "free" \notin Remaining(t)
        BY <2>2, <2>5 DEF PartsOf
      <4>3. CASE call[t].event = "control_tool"
        <5>1. "dlclose" \notin Remaining(t)
          BY <2>2, <4>3 DEF PartsOf
        <5>2. QED
          BY <2>2, <4>1, <4>2, <4>3, <5>1 DEF PartName
      <4>4. CASE call[t].event = "finalize"
        <5>1. \A i \in 1..Len(call[t].parts) : call[t].parts[i] = "client" => i = 1
          BY <2>2, <4>4 DEF PartsOf
        <5>2. \A i \in 1..Len(call[t].parts) : call[t].parts[i] # "client"
          BY <2>2, <5>1
        <5>3. "client" \notin Remaining(t)
          BY <5>2 DEF Remaining
        <5>4. QED
          BY <2>2, <4>1, <4>2, <4>4, <5>3 DEF PartName
      <4>5. QED
        BY <2>5, <4>3, <4>4
    <3>4. InCall(t)' => call'[t].event = call[t].event
      <4>1. call[t] \in CallType
        BY DEF Flow, PartsLeft
      <4>2. QED
        BY <2>2, <4>1 DEF CallType
    <3>5. \A u \in Worker : ~InCall(u)'
      BY <2>2, <3>2, HandleCases DEF InCall
    <3>6. \A u \in Thread : InCall(u)' => Over(u)'
      <4>1. InCall(t)' => Over(t)'
        BY <2>3, <3>3, <3>4 DEF Over
      <4>2. QED
        BY <3>2, <3>5, <4>1, HandleCases
    <3>7. opened' = opened \/ \A u \in Thread : InCall(u)' => call'[u].event = "control_tool"
      <4>1. call[t].event = "finalize" => opened' = opened
        BY <1>19 DEF Own, OwnControlTool
      <4>2. QED
        BY <2>5, <3>2, <3>4, <3>5, <4>1, HandleCases
    <3>8. QED
      BY <2>1, <3>1, <3>6, <3>7, LifePart
  <2>6. QED
    BY <2>4, <2>5
<1>20. ASSUME NEW t \in Thread, Client(t)
      PROVE  Life'
  <2>1. Part(t, "client") /\ "client" \in PartName /\ UNCHANGED <<client, callbacks_registered, clientSet, phase, opened>>
    BY <1>20 DEF Client, PartName, tool
  <2>2. QED
    BY <2>1, LifePart
<1>21. ASSUME NEW t \in Thread, Free(t)
      PROVE  Life'
  <2>1. Part(t, "free") /\ "free" \in PartName /\ UNCHANGED <<client, callbacks_registered, clientSet, phase, opened>>
    BY <1>21 DEF Free, PartName, tool
  <2>2. QED
    BY <2>1, LifePart
<1>22. ASSUME NEW t \in Thread, DlClose(t)
      PROVE  Life'
  <2>1. Part(t, "dlclose") /\ "dlclose" \in PartName /\ UNCHANGED <<client, callbacks_registered, clientSet, phase>>
    BY <1>22 DEF DlClose, PartName, tool
  <2>2. t = Initial /\ at[Initial] = "final" /\ ~InCall(t)'
    <3>1. PartsOf(t) /\ "dlclose" \in Remaining(t)
      BY <2>1, PartFacts
    <3>2. QED
      BY <2>1, <3>1, LastPart DEF PartsOf
  <2>3. \A u \in Worker : ~InCall(u)'
    <3>1. \A u \in Thread \ {t} : call'[u] = call[u]
      BY <2>1, PartFacts
    <3>2. QED
      BY <2>2, <3>1, HandleCases DEF Flow, Life, InCall
  <2>4. QED
    BY <2>1, <2>2, <2>3, HandleCases, LifePart
<1>23. ASSUME NEW t \in Thread, NEW e \in Task, TaskCreate(t, e)
      PROVE  Life'
  <2>1. UNCHANGED tool /\ phase = "run" /\ at'[t] # "final"
    BY <1>23, CountTypes DEF TaskCreate, Goto
  <2>2. at[Initial] # "final"
    <3>1. CASE t = Initial
      BY <1>23, <3>1 DEF TaskCreate, Goto
    <3>2. CASE t # Initial
      BY <1>23, <3>2, FinalWorkers, HandleCases DEF TaskCreate, Goto
    <3>3. QED
      BY <3>1, <3>2
  <2>3. \A u \in Thread \ {t} : at'[u] = at[u] /\ call'[u] = call[u]
    BY <1>23, TaskCreateCall, CountTypes DEF TaskCreate, Goto, Calls
  <2>4. at'[Initial] # "final"
    BY <2>1, <2>2, <2>3, HandleCases
  <2>5. QED
    BY <2>1, <2>2, <2>3, <2>4, LifeEvent
<1>24. ASSUME NEW t \in Thread, NEW e \in Task, TaskSwitch(t, e)
      PROVE  Life'
  <2>1. UNCHANGED tool /\ phase = "run" /\ at'[t] # "final"
    BY <1>24, CountTypes DEF TaskSwitch, Goto
  <2>2. at[Initial] # "final"
    <3>1. CASE t = Initial
      BY <1>24, <3>1 DEF TaskSwitch, Goto
    <3>2. CASE t # Initial
      BY <1>24, <3>2, FinalWorkers, HandleCases DEF TaskSwitch, Goto
    <3>3. QED
      BY <3>1, <3>2
  <2>3. \A u \in Thread \ {t} : at'[u] = at[u] /\ call'[u] = call[u]
    BY <1>24, TaskSwitchCall, CountTypes DEF TaskSwitch, Goto, Calls
  <2>4. at'[Initial] # "final"
    BY <2>1, <2>2, <2>3, HandleCases
  <2>5. QED
    BY <2>1, <2>2, <2>3, <2>4, LifeEvent
<1>25. ASSUME NEW t \in Thread, NEW status \in EndStatus, TaskEnd(t, status)
      PROVE  Life'
  <2>1. UNCHANGED tool /\ phase = "run" /\ at'[t] # "final"
    BY <1>25, CountTypes DEF TaskEnd, Goto
  <2>2. at[Initial] # "final"
    <3>1. CASE t = Initial
      BY <1>25, <3>1 DEF TaskEnd, Goto
    <3>2. CASE t # Initial
      BY <1>25, <3>2, FinalWorkers, HandleCases DEF TaskEnd, Goto
    <3>3. QED
      BY <3>1, <3>2
  <2>3. \A u \in Thread \ {t} : at'[u] = at[u] /\ call'[u] = call[u]
    BY <1>25, TaskEndCall, CountTypes DEF TaskEnd, Goto, Calls
  <2>4. at'[Initial] # "final"
    BY <2>1, <2>2, <2>3, HandleCases
  <2>5. QED
    BY <2>1, <2>2, <2>3, <2>4, LifeEvent
<1>26. QED
  BY <1>1, <1>2, <1>3, <1>4, <1>5, <1>6, <1>7, <1>8, <1>9, <1>10, <1>11, <1>12, <1>13, <1>14, <1>15, <1>16, <1>17, <1>18, <1>19, <1>20, <1>21, <1>22, <1>23, <1>24, <1>25 DEF Next

-----------------------------------------------------------------------------
(* The arguments of the callbacks *)

LEMMA EventNames ==
  /\ \A t : BeginEvent(ThreadData(t)) = "thread_begin" /\ EndEvent(ThreadData(t)) = "thread_end"
  /\ \A r : EndEvent(RegionData(r)) = "parallel_end"
  /\ BeginEvent(RegionData(0)) = "implicit_task"
  /\ \A r : r # 0 => BeginEvent(RegionData(r)) = "parallel_begin"
  /\ \A r, t : /\ BeginEvent(ImplicitTask(r, t)) = "implicit_task"
               /\ EndEvent(ImplicitTask(r, t)) = "implicit_task"
  /\ \A e : BeginEvent(ExplicitTask(e)) = "task_create" /\ EndEvent(ExplicitTask(e)) = "task_schedule"
<1>1. \A r : RegionData(r) = RegionData(0) <=> r = 0
  BY HandleFacts
<1>2. QED
  BY <1>1, HandleFacts DEF BeginEvent, EndEvent

(* The tasks on the stacks after an event.                                 *)
LEMMA OnStackSame ==
  ASSUME NEW t, stack'[t] = stack[t]
  PROVE  OnStack(t)' = OnStack(t)
BY Zenon DEF OnStack

LEMMA OnStackPush ==
  ASSUME Flow, NEW t \in Thread, NEW x \in TaskHandle, stack'[t] = <<x>> \o stack[t]
  PROVE  OnStack(t)' = OnStack(t) \cup {x}
<1> DEFINE s == stack[t]
           r == <<x>> \o s
           n == Len(s)
<1>1. s \in Seq(TaskHandle)
  BY DEF Flow, TypeOK
<1>2. n \in Nat /\ Len(r) = n + 1 /\ r[1] = x /\ (\A i \in 1..n : r[i + 1] = s[i])
  <2> HIDE DEF s
  <2>1. QED
    BY <1>1, PushFront, LenProperties
<1>3. OnStack(t)' = {r[i] : i \in 1..Len(r)}
  <2>1. stack'[t] = r
    OBVIOUS
  <2>2. QED
    BY <2>1, Zenon DEF OnStack
<1>4. OnStack(t) = {s[i] : i \in 1..n}
  BY Zenon DEF OnStack
<1> HIDE DEF s, n, r
<1>5. ASSUME NEW i \in 1..Len(r)
      PROVE  r[i] \in {s[j] : j \in 1..n} \cup {x}
  <2>1. i = 1 \/ (i - 1 \in 1..n /\ (i - 1) + 1 = i)
    BY <1>2
  <2>2. QED
    BY <1>2, <2>1
<1>6. ASSUME NEW i \in 1..n
      PROVE  s[i] \in {r[j] : j \in 1..Len(r)}
  <2>1. i + 1 \in 1..Len(r) /\ r[i + 1] = s[i]
    BY <1>2
  <2>2. QED
    BY <2>1
<1>7. x \in {r[j] : j \in 1..Len(r)}
  <2>1. 1 \in 1..Len(r)
    BY <1>2
  <2>2. QED
    BY <1>2, <2>1
<1>8. QED
  BY <1>3, <1>4, <1>5, <1>6, <1>7

LEMMA OnStackPop ==
  ASSUME Flow, NEW t \in Thread, stack[t] # <<>>, stack'[t] = Tail(stack[t])
  PROVE  OnStack(t)' = OnStack(t) \ {stack[t][1]}
<1> DEFINE s == stack[t]
<1>1. /\ s \in Seq(TaskHandle) /\ stack'[t] = Tail(s) /\ s # <<>>
      /\ \A i, j \in 1..Len(s) : s[i] = s[j] => i = j
  BY DEF Flow, TypeOK, Stacks
<1>2. OnStack(t)' = {Tail(s)[i] : i \in 1..Len(Tail(s))}
  BY <1>1, Zenon DEF OnStack
<1>3. OnStack(t) = {s[i] : i \in 1..Len(s)}
  BY Zenon DEF OnStack
<1> HIDE DEF s
<1>4. {Tail(s)[i] : i \in 1..Len(Tail(s))} = {s[i] : i \in 1..Len(s)} \ {s[1]}
  BY <1>1, TailRange
<1>5. QED
  BY <1>2, <1>3, <1>4, Zenon DEF s

LEMMA OnStackImplicitBegin ==
  ASSUME Flow, NEW t \in Thread, ImplicitTaskBegin(t)
  PROVE  OnStack(t)' = OnStack(t) \cup {ImplicitTask(region, t)}
<1>1. region \in 1..MaxRegion
  BY CountTypes DEF ImplicitTaskBegin
<1>2. ImplicitTask(region, t) \in TaskHandle
  BY <1>1, HandleCases
<1>3. stack'[t] = <<ImplicitTask(region, t)>> \o stack[t]
  BY DEF ImplicitTaskBegin, Flow, TypeOK
<1>4. QED
  BY <1>2, <1>3, OnStackPush

LEMMA OnStackSwitch ==
  ASSUME Flow, NEW t \in Thread, NEW e \in Task, TaskSwitch(t, e)
  PROVE  OnStack(t)' = OnStack(t) \cup {ExplicitTask(e)}
<1>1. ExplicitTask(e) \in TaskHandle
  BY HandleCases
<1>2. stack'[t] = <<ExplicitTask(e)>> \o stack[t]
  BY DEF TaskSwitch, Flow, TypeOK
<1>3. QED
  BY <1>1, <1>2, OnStackPush

LEMMA OnStackEnd ==
  ASSUME Flow, NEW t \in Thread, ImplicitTaskEnd(t) \/ \E status \in EndStatus : TaskEnd(t, status)
  PROVE  OnStack(t)' = OnStack(t) \ {stack[t][1]}
<1>1. at[t] \in {"team", "barrier", "leaving"}
  BY DEF ImplicitTaskEnd, TaskEnd, Goto
<1>2. stack'[t] = Tail(stack[t])
  BY DEF ImplicitTaskEnd, TaskEnd, Flow, TypeOK
<1>3. QED
  BY <1>1, <1>2, StackNotEmpty, OnStackPop

LEMMA OnStackInitial ==
  ASSUME Flow
  PROVE  /\ InitialTaskBegin => OnStack(Initial) = {} /\ OnStack(Initial)' = {InitialTask}
         /\ InitialTaskEnd => OnStack(Initial) = {InitialTask} /\ OnStack(Initial)' = {}
         /\ at[Initial] \in {"serial", "fork", "join"} => OnStack(Initial) = {InitialTask}
<1>1. Initial \in Thread /\ stack \in [Thread -> Seq(TaskHandle)] /\ StackOf(Initial)
  BY HandleCases DEF Flow, TypeOK, Stacks
<1>2. \A s : s = <<>> => {s[i] : i \in 1..Len(s)} = {}
  OBVIOUS
<1>3. \A s : s = <<InitialTask>> => {s[i] : i \in 1..Len(s)} = {InitialTask}
  OBVIOUS
<1>4. ASSUME InitialTaskBegin
      PROVE  OnStack(Initial) = {} /\ OnStack(Initial)' = {InitialTask}
  <2>1. stack[Initial] = <<>> /\ stack'[Initial] = <<InitialTask>>
    BY <1>1, <1>4 DEF StackOf, InitialTaskBegin, Goto
  <2>2. QED
    BY <1>2, <1>3, <2>1 DEF OnStack
<1>5. ASSUME InitialTaskEnd
      PROVE  OnStack(Initial) = {InitialTask} /\ OnStack(Initial)' = {}
  <2>1. stack[Initial] = <<InitialTask>> /\ stack'[Initial] = <<>>
    BY <1>1, <1>5 DEF StackOf, InitialTaskEnd, Goto
  <2>2. QED
    BY <1>2, <1>3, <2>1 DEF OnStack
<1>6. ASSUME at[Initial] \in {"serial", "fork", "join"}
      PROVE  OnStack(Initial) = {InitialTask}
  <2>1. stack[Initial] = <<InitialTask>>
    BY <1>1, <1>6 DEF StackOf
  <2>2. QED
    BY <1>3, <2>1 DEF OnStack
<1>7. QED
  BY <1>4, <1>5, <1>6

(* What an event on thread t leaves to the other threads.                   *)
LeavesOthers(t) ==
  /\ \A u \in Thread \ {t} : /\ at'[u] = at[u] /\ entered'[u] = entered[u]
                            /\ stack'[u] = stack[u] /\ call'[u] = call[u]
  /\ barrier' = barrier
  /\ region' = region \/ (t = Initial /\ barrier = region)
  /\ created \ ready \subseteq created' \ ready'
  /\ \A e \in ready \ ready' : ~Busy(ExplicitTask(e))
  /\ \A e \in created \ ready : ExplicitTask(e) \in OnStack(t)' => ExplicitTask(e) \in OnStack(t)

LEMMA InUseFrame ==
  ASSUME Flow, NEW t \in Thread, LeavesOthers(t), NEW u \in Thread, u # t, InCall(u)
  PROVE  InUse(u)'
<1>1. /\ at'[u] = at[u] /\ entered'[u] = entered[u] /\ stack'[u] = stack[u] /\ call'[u] = call[u]
      /\ barrier' = barrier /\ (region' = region \/ (t = Initial /\ barrier = region))
      /\ created \ ready \subseteq created' \ ready'
  BY DEF LeavesOthers
<1>2. OnStack(u)' = OnStack(u)
  BY <1>1, OnStackSame
<1>3. /\ \A h \in call[u].args \ call[u].ended : Uses(u, h)
      /\ \A h \in call[u].ended : Spent(u, h)
      /\ call[u].event = "thread_begin" => at[u] \in {"begun", "idle"}
      /\ call[u].event = "thread_end" => at[u] = "gone"
      /\ call[u].event = "parallel_begin" => at[u] = "fork"
      /\ call[u].begun \subseteq call[u].args
  BY DEF Flow, Arguments, Passes, InUse
<1>4. ASSUME NEW h \in call[u].args \ call[u].ended
      PROVE  Uses(u, h)'
  <2>1. Uses(u, h)
    BY <1>3
  <2>2. CASE h \in OnStack(u)
    BY <1>2, <2>2 DEF Uses
  <2>3. CASE h \in call[u].begun /\ h = ThreadData(u)
    BY <1>1, <2>3 DEF Uses
  <2>4. CASE h \in call[u].begun /\ at[u] = "team" /\ \E e \in ready : h = ExplicitTask(e)
    <3>1. PICK e \in ready : h = ExplicitTask(e)
      BY <2>4
    <3>2. Busy(ExplicitTask(e))
      BY <3>1 DEF Busy
    <3>3. e \in ready'
      BY <3>2 DEF LeavesOthers
    <3>4. QED
      BY <1>1, <2>4, <3>1, <3>3 DEF Uses
  <2>5. CASE h = RegionData(region) /\ at[u] \in {"team", "barrier"} /\ barrier < entered[u]
    <3>1. region' = region
      BY <1>1, <2>5, CountTypes
    <3>2. QED
      BY <1>1, <2>5, <3>1 DEF Uses
  <2>6. CASE h = RegionData(region) /\ u = Initial /\ at[u] \in {"fork", "leaving"}
    BY <1>1, <2>6 DEF Uses
  <2>7. CASE h = RegionData(0) /\ h \in call[u].begun /\ u = Initial /\ at[u] = "serial"
    BY <1>1, <2>7 DEF Uses
  <2>8. QED
    BY <2>1, <2>2, <2>3, <2>4, <2>5, <2>6, <2>7 DEF Uses
<1>5. ASSUME NEW h \in call[u].ended
      PROVE  Spent(u, h)'
  <2>1. Spent(u, h)
    BY <1>3
  <2>2. CASE h = ThreadData(u) /\ at[u] = "gone"
    BY <1>1, <2>2 DEF Spent
  <2>3. CASE /\ h \in TaskHandle /\ h[1] = "implicit" /\ h = ImplicitTask(h[2], u)
             /\ h[2] <= entered[u] /\ at[u] \in {"idle", "join", "done"}
             /\ h = InitialTask => at[u] = "done"
    BY <1>1, <2>3 DEF Spent
  <2>4. CASE h = RegionData(region) /\ region > 0 /\ u = Initial /\ at[u] = "serial"
    BY <1>1, <2>4 DEF Spent
  <2>5. CASE /\ \E e \in created \ ready : h = ExplicitTask(e)
             /\ at[u] \in {"team", "barrier"} /\ barrier < entered[u]
             /\ \A v \in Thread : h \notin OnStack(v)
    <3>1. PICK e \in created \ ready : h = ExplicitTask(e)
      BY <2>5
    <3>2. ASSUME NEW v \in Thread
          PROVE  h \notin OnStack(v)'
      <4>1. CASE v = t
        BY <2>5, <3>1, <4>1 DEF LeavesOthers
      <4>2. CASE v # t
        <5>1. stack'[v] = stack[v]
          BY <4>2 DEF LeavesOthers
        <5>2. QED
          BY <2>5, <5>1, OnStackSame
      <4>3. QED
        BY <4>1, <4>2
    <3>3. e \in created' \ ready'
      BY <1>1, <3>1
    <3>4. QED
      BY <1>1, <2>5, <3>1, <3>2, <3>3 DEF Spent
  <2>6. QED
    BY <2>1, <2>2, <2>3, <2>4, <2>5 DEF Spent
<1>6. QED
  BY <1>1, <1>3, <1>4, <1>5 DEF InUse

LEMMA ArgumentsEvent ==
  ASSUME Flow, NEW t \in Thread, NEW event, NEW args, NEW begun, NEW ended, NEW left,
         Calls(t, event, args, begun, ended, left), LeavesOthers(t),
         InCall(t)' => Passes(t)' /\ InUse(t)',
         \A e \in Task : ExplicitTask(e) \in begun => e \notin created,
         \A e \in Task : ExplicitTask(e) \in ended => ExplicitTask(e) \in OnStack(t),
         at'[t] # "fork" \/ (t = Initial /\ \A u \in Thread : entered'[u] < region'),
         t # Initial => \/ entered'[t] = entered[t]
                       \/ ~(at[Initial] = "fork" /\ InCall(Initial))
  PROVE  Arguments'
<1>1. \A u \in Thread \ {t} : call'[u] = call[u] /\ (InCall(u)' <=> InCall(u))
  BY DEF Calls, InCall
<1>2. ASSUME NEW u \in Thread, InCall(u)'
      PROVE  Passes(u)' /\ InUse(u)'
  <2>1. CASE u # t
    <3>1. InCall(u) /\ call'[u] = call[u]
      BY <1>1, <1>2, <2>1
    <3>2. Passes(u)
      BY <3>1 DEF Flow, Arguments
    <3>3. Passes(u)'
      BY <3>1, <3>2 DEF Passes
    <3>4. QED
      BY <2>1, <3>1, <3>3, InUseFrame
  <2>2. QED
    BY <1>2, <2>1
<1>3. ASSUME NEW u \in Thread, u # t, InCall(u), InCall(t)'
      PROVE  Apart(t, u)' /\ Apart(u, t)'
  <2>1. call'[u] = call[u] /\ call'[t].begun = begun /\ call'[t].ended = ended
    BY <1>1, <1>3 DEF Calls
  <2>2. Passes(u) /\ InUse(u)
    BY <1>3 DEF Flow, Arguments
  <2>3. ASSUME NEW e \in Task, ExplicitTask(e) \in call[u].begun
        PROVE  e \in created
    <3> DEFINE h == ExplicitTask(e)
    <3>1. h \in call[u].args \ call[u].ended
      BY <2>2, <2>3 DEF Passes
    <3>2. Uses(u, h)
      BY <2>2, <3>1 DEF InUse
    <3>3. h # ThreadData(u) /\ h # RegionData(region) /\ h # RegionData(0)
      BY HandleFacts
    <3>4. h \in OnStack(u) \/ \E d \in ready : h = ExplicitTask(d)
      BY <3>2, <3>3 DEF Uses
    <3>5. \E d \in created : h = ExplicitTask(d)
      <4>1. CASE h \in OnStack(u)
        BY <4>1, OnStackFacts, HandleFacts, HandleCases
      <4>2. QED
        BY <3>4, <4>1 DEF Flow, TypeOK
    <3>6. QED
      BY <3>5, HandleFacts
  <2>4. ASSUME NEW e \in Task, ExplicitTask(e) \in call[u].ended
        PROVE  ExplicitTask(e) \notin OnStack(t)
    <3> DEFINE h == ExplicitTask(e)
    <3>1. Spent(u, h)
      BY <2>2, <2>4 DEF InUse
    <3>2. h # ThreadData(u) /\ h # RegionData(region) /\ h[1] # "implicit"
      BY HandleFacts
    <3>3. QED
      BY <3>1, <3>2 DEF Spent
  <2>5. QED
    BY <2>1, <2>3, <2>4 DEF Apart
<1>4. ASSUME NEW u \in Thread, NEW v \in Thread, InCall(u)', InCall(v)', u # v
      PROVE  Apart(u, v)'
  <2>1. CASE u # t /\ v # t
    <3>1. Apart(u, v) /\ call'[u] = call[u] /\ call'[v] = call[v]
      BY <1>1, <1>4, <2>1 DEF Flow, Arguments
    <3>2. QED
      BY <3>1 DEF Apart
  <2>2. CASE u = t
    BY <1>1, <1>3, <1>4, <2>2
  <2>3. CASE v = t
    BY <1>1, <1>3, <1>4, <2>3
  <2>4. QED
    BY <2>1, <2>2, <2>3
<1>5. ASSUME at'[Initial] = "fork", InCall(Initial)', NEW u \in Thread
      PROVE  entered'[u] < region'
  <2>1. CASE t = Initial
    BY <1>5, <2>1
  <2>2. CASE t # Initial
    <3>1. Initial \in Thread \ {t}
      BY <2>2, HandleCases
    <3>2. at[Initial] = "fork" /\ InCall(Initial) /\ region' = region
      BY <1>1, <1>5, <3>1, <2>2 DEF LeavesOthers
    <3>3. entered'[u] = entered[u]
      BY <2>2, <3>2 DEF LeavesOthers
    <3>4. entered[u] < region
      BY <3>2 DEF Flow, Arguments
    <3>5. QED
      BY <3>2, <3>3, <3>4
  <2>3. QED
    BY <2>1, <2>2
<1>6. QED
  BY <1>2, <1>4, <1>5 DEF Arguments

LEMMA ArgumentsPart ==
  ASSUME Flow, NEW t \in Thread, NEW q \in PartName, Part(t, q)
  PROVE  Arguments'
<1>1. /\ InCall(t) /\ \A u \in Thread \ {t} : call'[u] = call[u]
      /\ InCall(t)' => call'[t] = [call[t] EXCEPT !.parts = Tail(call[t].parts)]
  BY PartFacts
<1>2. UNCHANGED <<at, stack, entered, region, barrier, ready, created>>
  BY DEF Part, program
<1>3. \A u \in Thread : OnStack(u)' = OnStack(u)
  BY <1>2, OnStackSame
<1>4. ASSUME NEW u \in Thread, InCall(u)'
      PROVE  /\ InCall(u) /\ call'[u].event = call[u].event /\ call'[u].args = call[u].args
             /\ call'[u].begun = call[u].begun /\ call'[u].ended = call[u].ended
  <2>1. CASE u = t
    <3>1. call[t] \in CallType
      BY DEF Flow, PartsLeft
    <3>2. call'[t] = [call[t] EXCEPT !.parts = Tail(call[t].parts)]
      BY <1>1, <1>4, <2>1
    <3>3. QED
      BY <1>1, <2>1, <3>1, <3>2 DEF CallType
  <2>2. CASE u # t
    BY <1>1, <1>4, <2>2 DEF InCall
  <2>3. QED
    BY <2>1, <2>2
<1>5. ASSUME NEW u \in Thread, InCall(u)'
      PROVE  Passes(u)' /\ InUse(u)'
  <2>1. Passes(u) /\ InUse(u)
    BY <1>4, <1>5 DEF Flow, Arguments
  <2>2. Passes(u)'
    BY <1>4, <1>5, <2>1 DEF Passes
  <2>3. \A h : Uses(u, h) => Uses(u, h)'
    BY <1>2, <1>3, <1>4, <1>5 DEF Uses
  <2>4. \A h : Spent(u, h) => Spent(u, h)'
    BY <1>2, <1>3 DEF Spent
  <2>5. InUse(u)'
    BY <1>2, <1>4, <1>5, <2>1, <2>3, <2>4 DEF InUse
  <2>6. QED
    BY <2>2, <2>5
<1>6. ASSUME NEW u \in Thread, NEW v \in Thread, InCall(u)', InCall(v)', u # v
      PROVE  Apart(u, v)'
  <2>1. Apart(u, v)
    BY <1>4, <1>6 DEF Flow, Arguments
  <2>2. QED
    BY <1>4, <1>6, <2>1 DEF Apart
<1>7. at'[Initial] = "fork" /\ InCall(Initial)' => \A u \in Thread : entered'[u] < region'
  BY <1>2, <1>4, HandleCases DEF Flow, Arguments
<1>8. QED
  BY <1>5, <1>6, <1>7 DEF Arguments

(* What the callbacks in progress pass in every state.                     *)
LEMMA ArgumentsStep ==
  ASSUME Flow, Next
  PROVE  Arguments'
<1>1. CASE NextLibrary
  <2>1. call' = call /\ phase = "load"
    BY <1>1 DEF NextLibrary
  <2>2. \A u \in Thread : ~InCall(u)'
    BY <2>1 DEF Flow, Life, InCall
  <2>3. QED
    BY <2>2, HandleCases DEF Arguments
<1>2. CASE OwnStartTool
  <2>1. call' = call /\ phase = "load"
    BY <1>2 DEF OwnStartTool
  <2>2. \A u \in Thread : ~InCall(u)'
    BY <2>1 DEF Flow, Life, InCall
  <2>3. QED
    BY <2>2, HandleCases DEF Arguments
<1>3. CASE Initialize
  <2>1. call' = call /\ phase = "initialize"
    BY <1>3 DEF Initialize
  <2>2. \A u \in Thread : ~InCall(u)'
    BY <2>1 DEF Flow, Life, InCall
  <2>3. QED
    BY <2>2, HandleCases DEF Arguments
<1>4. CASE InitialTaskBegin
  <2>1. Initial \in Thread /\ ~InCall(Initial)
    BY <1>4, HandleCases DEF InitialTaskBegin, Goto
  <2>2. LeavesOthers(Initial)
    <3>1. /\ \A u \in Thread \ {Initial} : /\ at'[u] = at[u] /\ entered'[u] = entered[u]
                                  /\ stack'[u] = stack[u] /\ call'[u] = call[u]
          /\ barrier' = barrier /\ (region' = region \/ (Initial = Initial /\ barrier = region))
          /\ created \ ready \subseteq created' \ ready'
          /\ \A e \in ready \ ready' : ~Busy(ExplicitTask(e))
      BY <1>4, InitialTaskBeginCall, CountTypes DEF InitialTaskBegin, Goto, Calls, Flow, Places, TypeOK
    <3>2. \A e \in created \ ready : ExplicitTask(e) \in OnStack(Initial)' => ExplicitTask(e) \in OnStack(Initial)
      BY <1>4, OnStackInitial, HandleFacts, HandleCases
    <3>3. QED
      BY <3>1, <3>2 DEF LeavesOthers
  <2>3. ASSUME InCall(Initial)'
        PROVE  Passes(Initial)'
    <3>1. /\ call'[Initial].event = "implicit_task" /\ call'[Initial].args = {RegionData(0), InitialTask}
          /\ call'[Initial].begun = {RegionData(0), InitialTask} /\ call'[Initial].ended = {}
      BY <1>4, <2>3, InitialTaskBeginCall DEF Calls
    <3>2. /\ KindOf(RegionData(0)) = "region" /\ KindOf(InitialTask) = "task"
          /\ BeginEvent(RegionData(0)) = "implicit_task" /\ BeginEvent(InitialTask) = "implicit_task"
          /\ RegionData(0)[1] # "thread" /\ InitialTask[1] # "thread" /\ InitialTask[1] # "region"
      <4>1. 0 \in 0..MaxRegion
        BY HandleCases
      <4>2. QED
        BY <4>1, HandleFacts, EventNames, KindFacts, HandleCases
    <3>3. QED
      BY <3>1, <3>2 DEF Passes
  <2>4. ASSUME InCall(Initial)'
        PROVE  InUse(Initial)'
    <3>1. /\ call'[Initial].event = "implicit_task" /\ call'[Initial].args = {RegionData(0), InitialTask}
          /\ call'[Initial].begun = {RegionData(0), InitialTask} /\ call'[Initial].ended = {}
      BY <1>4, <2>4, InitialTaskBeginCall DEF Calls
    <3>2. at'[Initial] = "serial" /\ InitialTask \in OnStack(Initial)'
      BY <1>4, CountTypes, OnStackInitial, HandleCases DEF InitialTaskBegin, Goto
    <3>3. \A h \in call'[Initial].args \ call'[Initial].ended : Uses(Initial, h)'
      BY <3>1, <3>2 DEF Uses
    <3>4. \A h \in call'[Initial].ended : Spent(Initial, h)'
      BY <3>1
    <3>5. QED
      BY <3>1, <3>3, <3>4 DEF InUse
  <2>5. /\ at'[Initial] # "fork" /\ \A e \in Task : ExplicitTask(e) \notin {RegionData(0), InitialTask}
    BY <1>4, HandleFacts, HandleCases, CountTypes DEF InitialTaskBegin, Goto
  <2>6. Calls(Initial, "implicit_task", {RegionData(0), InitialTask}, {RegionData(0), InitialTask}, {}, Tools("implicit_task"))
    BY <1>4, InitialTaskBeginCall
  <2>7. /\ \A d \in Task : ExplicitTask(d) \in {RegionData(0), InitialTask} => d \notin created
        /\ \A d \in Task : ExplicitTask(d) \in {} => ExplicitTask(d) \in OnStack(Initial)
    BY <2>5
  <2>8. at'[Initial] # "fork" \/ (Initial = Initial /\ \A u \in Thread : entered'[u] < region')
    BY <2>5
  <2>9. Initial # Initial => entered'[Initial] = entered[Initial] \/ ~(at[Initial] = "fork" /\ InCall(Initial))
    BY <2>5
  <2>10. QED
    BY <2>1, <2>2, <2>3, <2>4, <2>6, <2>7, <2>8, <2>9, ArgumentsEvent
<1>5. CASE ParallelBegin
  <2>1. Initial \in Thread /\ ~InCall(Initial)
    BY <1>5, HandleCases DEF ParallelBegin, Goto
  <2>2. LeavesOthers(Initial)
    <3>1. /\ \A u \in Thread \ {Initial} : /\ at'[u] = at[u] /\ entered'[u] = entered[u]
                                  /\ stack'[u] = stack[u] /\ call'[u] = call[u]
          /\ barrier' = barrier /\ (region' = region \/ (Initial = Initial /\ barrier = region))
          /\ created \ ready \subseteq created' \ ready'
          /\ \A e \in ready \ ready' : ~Busy(ExplicitTask(e))
      BY <1>5, ParallelBeginCall, CountTypes DEF ParallelBegin, Goto, Calls, Flow, Places, TypeOK
    <3>2. \A e \in created \ ready : ExplicitTask(e) \in OnStack(Initial)' => ExplicitTask(e) \in OnStack(Initial)
      <4>1. stack' = stack
        BY <1>5 DEF ParallelBegin
      <4>2. QED
        BY <4>1, OnStackSame
    <3>3. QED
      BY <3>1, <3>2 DEF LeavesOthers
  <2>3. ASSUME InCall(Initial)'
        PROVE  Passes(Initial)'
    <3>1. /\ call'[Initial].event = "parallel_begin" /\ call'[Initial].args = {InitialTask, RegionData(region')}
          /\ call'[Initial].begun = {RegionData(region')} /\ call'[Initial].ended = {}
      BY <1>5, <2>3, ParallelBeginCall DEF Calls
    <3>2. region' # 0
      BY <1>5, CountTypes DEF ParallelBegin
    <3>3. /\ BeginEvent(RegionData(region')) = "parallel_begin"
          /\ RegionData(region')[1] # "thread" /\ InitialTask[1] # "thread"
      BY <3>2, HandleFacts, EventNames, HandleCases
    <3>4. QED
      BY <3>1, <3>3 DEF Passes
  <2>4. ASSUME InCall(Initial)'
        PROVE  InUse(Initial)'
    <3>1. /\ call'[Initial].event = "parallel_begin" /\ call'[Initial].args = {InitialTask, RegionData(region')}
          /\ call'[Initial].begun = {RegionData(region')} /\ call'[Initial].ended = {}
      BY <1>5, <2>4, ParallelBeginCall DEF Calls
    <3>2. at'[Initial] = "fork" /\ InitialTask \in OnStack(Initial)'
      <4>1. at[Initial] = "serial" /\ at'[Initial] = "fork" /\ stack' = stack
        BY <1>5, CountTypes, HandleCases DEF ParallelBegin, Goto
      <4>2. QED
        BY <4>1, OnStackInitial, OnStackSame
    <3>3. \A h \in call'[Initial].args \ call'[Initial].ended : Uses(Initial, h)'
      BY <3>1, <3>2 DEF Uses
    <3>4. \A h \in call'[Initial].ended : Spent(Initial, h)'
      BY <3>1
    <3>5. QED
      BY <3>1, <3>3, <3>4, <3>2 DEF InUse
  <2>5. /\ \A u \in Thread : entered'[u] < region'
        /\ \A e \in Task : ExplicitTask(e) # RegionData(region')
    BY <1>5, HandleFacts, CountTypes DEF ParallelBegin, Goto
  <2>6. Calls(Initial, "parallel_begin", {InitialTask, RegionData(region')}, {RegionData(region')}, {}, Tools("parallel_begin"))
    BY <1>5, ParallelBeginCall
  <2>7. /\ \A d \in Task : ExplicitTask(d) \in {RegionData(region')} => d \notin created
        /\ \A d \in Task : ExplicitTask(d) \in {} => ExplicitTask(d) \in OnStack(Initial)
    BY <2>5
  <2>8. at'[Initial] # "fork" \/ (Initial = Initial /\ \A u \in Thread : entered'[u] < region')
    BY <2>5
  <2>9. Initial # Initial => entered'[Initial] = entered[Initial] \/ ~(at[Initial] = "fork" /\ InCall(Initial))
    BY <2>5
  <2>10. QED
    BY <2>1, <2>2, <2>3, <2>4, <2>6, <2>7, <2>8, <2>9, ArgumentsEvent
<1>6. CASE BarrierOpens
  <2>1. call' = call /\ \A u \in Thread : ~InCall(u)
    BY <1>6 DEF BarrierOpens
  <2>2. \A u \in Thread : ~InCall(u)'
    BY <2>1 DEF InCall
  <2>3. QED
    BY <2>2, HandleCases DEF Arguments
<1>7. CASE ParallelEnd
  <2>1. Initial \in Thread /\ ~InCall(Initial)
    BY <1>7, HandleCases DEF ParallelEnd, Goto
  <2>2. LeavesOthers(Initial)
    <3>1. /\ \A u \in Thread \ {Initial} : /\ at'[u] = at[u] /\ entered'[u] = entered[u]
                                  /\ stack'[u] = stack[u] /\ call'[u] = call[u]
          /\ barrier' = barrier /\ (region' = region \/ (Initial = Initial /\ barrier = region))
          /\ created \ ready \subseteq created' \ ready'
          /\ \A e \in ready \ ready' : ~Busy(ExplicitTask(e))
      BY <1>7, ParallelEndCall, CountTypes DEF ParallelEnd, Goto, Calls, Flow, Places, TypeOK
    <3>2. \A e \in created \ ready : ExplicitTask(e) \in OnStack(Initial)' => ExplicitTask(e) \in OnStack(Initial)
      <4>1. stack' = stack
        BY <1>7 DEF ParallelEnd
      <4>2. QED
        BY <4>1, OnStackSame
    <3>3. QED
      BY <3>1, <3>2 DEF LeavesOthers
  <2>3. ASSUME InCall(Initial)'
        PROVE  Passes(Initial)'
    <3>1. /\ call'[Initial].event = "parallel_end" /\ call'[Initial].args = {RegionData(region), InitialTask}
          /\ call'[Initial].begun = {} /\ call'[Initial].ended = {RegionData(region)}
      BY <1>7, <2>3, ParallelEndCall DEF Calls
    <3>3. /\ EndEvent(RegionData(region)) = "parallel_end"
          /\ RegionData(region)[1] # "thread" /\ InitialTask[1] # "thread"
      BY HandleFacts, EventNames, HandleCases
    <3>4. QED
      BY <3>1, <3>3 DEF Passes
  <2>4. ASSUME InCall(Initial)'
        PROVE  InUse(Initial)'
    <3>1. /\ call'[Initial].event = "parallel_end" /\ call'[Initial].args = {RegionData(region), InitialTask}
          /\ call'[Initial].begun = {} /\ call'[Initial].ended = {RegionData(region)}
      BY <1>7, <2>4, ParallelEndCall DEF Calls
    <3>2. at'[Initial] = "serial" /\ region > 0 /\ region' = region /\ InitialTask \in OnStack(Initial)'
      <4>1. at[Initial] = "join" /\ at'[Initial] = "serial" /\ stack' = stack /\ region' = region
        BY <1>7, CountTypes, HandleCases DEF ParallelEnd, Goto
      <4>2. region > 0
        BY <4>1 DEF Flow, Places
      <4>3. QED
        BY <4>1, <4>2, OnStackInitial, OnStackSame
    <3>3. \A h \in call'[Initial].args \ call'[Initial].ended : Uses(Initial, h)'
      BY <3>1, <3>2 DEF Uses
    <3>4. \A h \in call'[Initial].ended : Spent(Initial, h)'
      BY <3>1, <3>2 DEF Spent
    <3>5. QED
      BY <3>1, <3>3, <3>4 DEF InUse
  <2>5. /\ at'[Initial] # "fork" /\ \A e \in Task : ExplicitTask(e) # RegionData(region)
    BY <1>7, HandleFacts, HandleCases, CountTypes DEF ParallelEnd, Goto
  <2>6. Calls(Initial, "parallel_end", {RegionData(region), InitialTask}, {}, {RegionData(region)}, Tools("parallel_end"))
    BY <1>7, ParallelEndCall
  <2>7. /\ \A d \in Task : ExplicitTask(d) \in {} => d \notin created
        /\ \A d \in Task : ExplicitTask(d) \in {RegionData(region)} => ExplicitTask(d) \in OnStack(Initial)
    BY <2>5
  <2>8. at'[Initial] # "fork" \/ (Initial = Initial /\ \A u \in Thread : entered'[u] < region')
    BY <2>5
  <2>9. Initial # Initial => entered'[Initial] = entered[Initial] \/ ~(at[Initial] = "fork" /\ InCall(Initial))
    BY <2>5
  <2>10. QED
    BY <2>1, <2>2, <2>3, <2>4, <2>6, <2>7, <2>8, <2>9, ArgumentsEvent
<1>8. CASE InitialTaskEnd
  <2>1. Initial \in Thread /\ ~InCall(Initial)
    BY <1>8, HandleCases DEF InitialTaskEnd, Goto
  <2>2. LeavesOthers(Initial)
    <3>1. /\ \A u \in Thread \ {Initial} : /\ at'[u] = at[u] /\ entered'[u] = entered[u]
                                  /\ stack'[u] = stack[u] /\ call'[u] = call[u]
          /\ barrier' = barrier /\ (region' = region \/ (Initial = Initial /\ barrier = region))
          /\ created \ ready \subseteq created' \ ready'
          /\ \A e \in ready \ ready' : ~Busy(ExplicitTask(e))
      BY <1>8, InitialTaskEndCall, CountTypes DEF InitialTaskEnd, Goto, Calls, Flow, Places, TypeOK
    <3>2. \A e \in created \ ready : ExplicitTask(e) \in OnStack(Initial)' => ExplicitTask(e) \in OnStack(Initial)
      BY <1>8, OnStackInitial
    <3>3. QED
      BY <3>1, <3>2 DEF LeavesOthers
  <2>3. ASSUME InCall(Initial)'
        PROVE  Passes(Initial)'
    <3>1. /\ call'[Initial].event = "implicit_task" /\ call'[Initial].args = {InitialTask}
          /\ call'[Initial].begun = {} /\ call'[Initial].ended = {InitialTask}
      BY <1>8, <2>3, InitialTaskEndCall DEF Calls
    <3>2. EndEvent(InitialTask) = "implicit_task" /\ InitialTask[1] # "thread"
      BY HandleFacts, EventNames, HandleCases
    <3>3. QED
      BY <3>1, <3>2 DEF Passes
  <2>4. ASSUME InCall(Initial)'
        PROVE  InUse(Initial)'
    <3>1. /\ call'[Initial].event = "implicit_task" /\ call'[Initial].args = {InitialTask}
          /\ call'[Initial].begun = {} /\ call'[Initial].ended = {InitialTask}
      BY <1>8, <2>4, InitialTaskEndCall DEF Calls
    <3>2. at'[Initial] = "done" /\ InitialTask[2] <= entered'[Initial] /\ InitialTask \in TaskHandle /\ InitialTask = ImplicitTask(InitialTask[2], Initial) /\ InitialTask[1] = "implicit"
      BY <1>8, CountTypes, HandleCases, HandleFacts DEF InitialTaskEnd, Goto
    <3>3. \A h \in call'[Initial].args \ call'[Initial].ended : Uses(Initial, h)'
      BY <3>1
    <3>4. \A h \in call'[Initial].ended : Spent(Initial, h)'
      BY <3>1, <3>2 DEF Spent
    <3>5. QED
      BY <3>1, <3>3, <3>4 DEF InUse
  <2>5. /\ at'[Initial] # "fork" /\ OnStack(Initial) = {InitialTask}
    BY <1>8, OnStackInitial, CountTypes, HandleCases DEF InitialTaskEnd, Goto
  <2>6. Calls(Initial, "implicit_task", {InitialTask}, {}, {InitialTask}, Tools("implicit_task"))
    BY <1>8, InitialTaskEndCall
  <2>7. /\ \A d \in Task : ExplicitTask(d) \in {} => d \notin created
        /\ \A d \in Task : ExplicitTask(d) \in {InitialTask} => ExplicitTask(d) \in OnStack(Initial)
    BY <2>5
  <2>8. at'[Initial] # "fork" \/ (Initial = Initial /\ \A u \in Thread : entered'[u] < region')
    BY <2>5
  <2>9. Initial # Initial => entered'[Initial] = entered[Initial] \/ ~(at[Initial] = "fork" /\ InCall(Initial))
    BY <2>5
  <2>10. QED
    BY <2>1, <2>2, <2>3, <2>4, <2>6, <2>7, <2>8, <2>9, ArgumentsEvent
<1>9. CASE ControlToolEnd
  <2>1. Initial \in Thread /\ ~InCall(Initial)
    BY <1>9, HandleCases DEF ControlToolEnd, Goto
  <2>2. LeavesOthers(Initial)
    <3>1. /\ \A u \in Thread \ {Initial} : /\ at'[u] = at[u] /\ entered'[u] = entered[u]
                                  /\ stack'[u] = stack[u] /\ call'[u] = call[u]
          /\ barrier' = barrier /\ (region' = region \/ (Initial = Initial /\ barrier = region))
          /\ created \ ready \subseteq created' \ ready'
          /\ \A e \in ready \ ready' : ~Busy(ExplicitTask(e))
      BY <1>9, ControlToolEndCall, CountTypes DEF ControlToolEnd, Goto, Calls, Flow, Places, TypeOK
    <3>2. \A e \in created \ ready : ExplicitTask(e) \in OnStack(Initial)' => ExplicitTask(e) \in OnStack(Initial)
      <4>1. stack' = stack
        BY <1>9 DEF ControlToolEnd
      <4>2. QED
        BY <4>1, OnStackSame
    <3>3. QED
      BY <3>1, <3>2 DEF LeavesOthers
  <2>3. ASSUME InCall(Initial)'
        PROVE  Passes(Initial)'
    <3>1. /\ call'[Initial].event = "control_tool" /\ call'[Initial].args = {}
          /\ call'[Initial].begun = {} /\ call'[Initial].ended = {}
      BY <1>9, <2>3, ControlToolEndCall DEF Calls
    <3>2. QED
      BY <1>9, <2>1, <3>1, HandleFacts, EventNames, KindFacts, HandleCases, CountTypes DEF Passes
  <2>4. ASSUME InCall(Initial)'
        PROVE  InUse(Initial)'
    <3>1. /\ call'[Initial].event = "control_tool" /\ call'[Initial].args = {}
          /\ call'[Initial].begun = {} /\ call'[Initial].ended = {}
      BY <1>9, <2>4, ControlToolEndCall DEF Calls
    <3>2. call'[Initial].event # "thread_begin"
      BY <3>1
    <3>3. \A h \in call'[Initial].args \ call'[Initial].ended : Uses(Initial, h)'
      BY <3>1
    <3>4. \A h \in call'[Initial].ended : Spent(Initial, h)'
      BY <3>1
    <3>5. QED
      BY <3>1, <3>3, <3>4 DEF InUse
  <2>5. at'[Initial] # "fork"
    BY <1>9, HandleCases, CountTypes DEF ControlToolEnd, Goto
  <2>6. Calls(Initial, "control_tool", {}, {}, {}, Tools("control_tool"))
    BY <1>9, ControlToolEndCall
  <2>7. /\ \A d \in Task : ExplicitTask(d) \in {} => d \notin created
        /\ \A d \in Task : ExplicitTask(d) \in {} => ExplicitTask(d) \in OnStack(Initial)
    BY <2>5
  <2>8. at'[Initial] # "fork" \/ (Initial = Initial /\ \A u \in Thread : entered'[u] < region')
    BY <2>5
  <2>9. Initial # Initial => entered'[Initial] = entered[Initial] \/ ~(at[Initial] = "fork" /\ InCall(Initial))
    BY <2>5
  <2>10. QED
    BY <2>1, <2>2, <2>3, <2>4, <2>6, <2>7, <2>8, <2>9, ArgumentsEvent
<1>10. CASE Finalize
  <2>1. Initial \in Thread /\ ~InCall(Initial)
    BY <1>10, HandleCases DEF Finalize, Goto
  <2>2. LeavesOthers(Initial)
    <3>1. /\ \A u \in Thread \ {Initial} : /\ at'[u] = at[u] /\ entered'[u] = entered[u]
                                  /\ stack'[u] = stack[u] /\ call'[u] = call[u]
          /\ barrier' = barrier /\ (region' = region \/ (Initial = Initial /\ barrier = region))
          /\ created \ ready \subseteq created' \ ready'
          /\ \A e \in ready \ ready' : ~Busy(ExplicitTask(e))
      BY <1>10, FinalizeCall, CountTypes DEF Finalize, Goto, Calls, Flow, Places, TypeOK
    <3>2. \A e \in created \ ready : ExplicitTask(e) \in OnStack(Initial)' => ExplicitTask(e) \in OnStack(Initial)
      <4>1. stack' = stack
        BY <1>10 DEF Finalize
      <4>2. QED
        BY <4>1, OnStackSame
    <3>3. QED
      BY <3>1, <3>2 DEF LeavesOthers
  <2>3. ASSUME InCall(Initial)'
        PROVE  Passes(Initial)'
    <3>1. /\ call'[Initial].event = "finalize" /\ call'[Initial].args = {}
          /\ call'[Initial].begun = {} /\ call'[Initial].ended = {}
      BY <1>10, <2>3, FinalizeCall DEF Calls
    <3>2. QED
      BY <1>10, <2>1, <3>1, HandleFacts, EventNames, KindFacts, HandleCases, CountTypes DEF Passes
  <2>4. ASSUME InCall(Initial)'
        PROVE  InUse(Initial)'
    <3>1. /\ call'[Initial].event = "finalize" /\ call'[Initial].args = {}
          /\ call'[Initial].begun = {} /\ call'[Initial].ended = {}
      BY <1>10, <2>4, FinalizeCall DEF Calls
    <3>2. call'[Initial].event # "thread_begin"
      BY <3>1
    <3>3. \A h \in call'[Initial].args \ call'[Initial].ended : Uses(Initial, h)'
      BY <3>1
    <3>4. \A h \in call'[Initial].ended : Spent(Initial, h)'
      BY <3>1
    <3>5. QED
      BY <3>1, <3>3, <3>4 DEF InUse
  <2>5. at'[Initial] # "fork"
    BY <1>10, HandleCases, CountTypes DEF Finalize, Goto
  <2>6. PICK left : Calls(Initial, "finalize", {}, {}, {}, left)
    BY <1>10, FinalizeCall
  <2>7. /\ \A d \in Task : ExplicitTask(d) \in {} => d \notin created
        /\ \A d \in Task : ExplicitTask(d) \in {} => ExplicitTask(d) \in OnStack(Initial)
    BY <2>5
  <2>8. at'[Initial] # "fork" \/ (Initial = Initial /\ \A u \in Thread : entered'[u] < region')
    BY <2>5
  <2>9. Initial # Initial => entered'[Initial] = entered[Initial] \/ ~(at[Initial] = "fork" /\ InCall(Initial))
    BY <2>5
  <2>10. QED
    BY <2>1, <2>2, <2>3, <2>4, <2>6, <2>7, <2>8, <2>9, ArgumentsEvent
<1>11. CASE Stopped
  <2>1. call' = call /\ \A u \in Thread : ~InCall(u)
    BY <1>11 DEF Stopped, vars
  <2>2. \A u \in Thread : ~InCall(u)'
    BY <2>1 DEF InCall
  <2>3. QED
    BY <2>2, HandleCases DEF Arguments
<1>12. ASSUME NEW t \in Thread, ThreadBegin(t)
      PROVE  Arguments'
  <2>1. t \in Thread /\ ~InCall(t)
    BY <1>12, HandleCases DEF ThreadBegin, Goto
  <2>2. LeavesOthers(t)
    <3>1. /\ \A u \in Thread \ {t} : /\ at'[u] = at[u] /\ entered'[u] = entered[u]
                                  /\ stack'[u] = stack[u] /\ call'[u] = call[u]
          /\ barrier' = barrier /\ (region' = region \/ (t = Initial /\ barrier = region))
          /\ created \ ready \subseteq created' \ ready'
          /\ \A e \in ready \ ready' : ~Busy(ExplicitTask(e))
      BY <1>12, ThreadBeginCall, CountTypes DEF ThreadBegin, Goto, Calls, Flow, Places, TypeOK
    <3>2. \A e \in created \ ready : ExplicitTask(e) \in OnStack(t)' => ExplicitTask(e) \in OnStack(t)
      <4>1. stack' = stack
        BY <1>12 DEF ThreadBegin
      <4>2. QED
        BY <4>1, OnStackSame
    <3>3. QED
      BY <3>1, <3>2 DEF LeavesOthers
  <2>3. ASSUME InCall(t)'
        PROVE  Passes(t)'
    <3>1. /\ call'[t].event = "thread_begin" /\ call'[t].args = {ThreadData(t)}
          /\ call'[t].begun = {ThreadData(t)} /\ call'[t].ended = {}
      BY <1>12, <2>3, ThreadBeginCall DEF Calls
    <3>2. QED
      BY <1>12, <2>1, <3>1, HandleFacts, EventNames, KindFacts, HandleCases, CountTypes DEF Passes
  <2>4. ASSUME InCall(t)'
        PROVE  InUse(t)'
    <3>1. /\ call'[t].event = "thread_begin" /\ call'[t].args = {ThreadData(t)}
          /\ call'[t].begun = {ThreadData(t)} /\ call'[t].ended = {}
      BY <1>12, <2>4, ThreadBeginCall DEF Calls
    <3>2. at'[t] \in {"begun", "idle"}
      BY <1>12, CountTypes DEF ThreadBegin, Goto
    <3>3. \A h \in call'[t].args \ call'[t].ended : Uses(t, h)'
      BY <3>1 DEF Uses
    <3>4. \A h \in call'[t].ended : Spent(t, h)'
      BY <3>1
    <3>5. QED
      BY <3>1, <3>3, <3>4, <3>2 DEF InUse
  <2>5. /\ at'[t] # "fork" /\ entered' = entered /\ \A e \in Task : ExplicitTask(e) # ThreadData(t)
    BY <1>12, HandleFacts, CountTypes, <2>1 DEF ThreadBegin, Goto
  <2>6. Calls(t, "thread_begin", {ThreadData(t)}, {ThreadData(t)}, {}, Tools("thread_begin"))
    BY <1>12, ThreadBeginCall
  <2>7. /\ \A d \in Task : ExplicitTask(d) \in {ThreadData(t)} => d \notin created
        /\ \A d \in Task : ExplicitTask(d) \in {} => ExplicitTask(d) \in OnStack(t)
    BY <2>5
  <2>8. at'[t] # "fork" \/ (t = Initial /\ \A u \in Thread : entered'[u] < region')
    BY <2>5
  <2>9. t # Initial => entered'[t] = entered[t] \/ ~(at[Initial] = "fork" /\ InCall(Initial))
    BY <2>5
  <2>10. QED
    BY <2>1, <2>2, <2>3, <2>4, <2>6, <2>7, <2>8, <2>9, ArgumentsEvent
<1>13. ASSUME NEW t \in Thread, ImplicitTaskBegin(t)
      PROVE  Arguments'
  <2>1. t \in Thread /\ ~InCall(t)
    BY <1>13, HandleCases DEF ImplicitTaskBegin, Goto
  <2>2. LeavesOthers(t)
    <3>1. /\ \A u \in Thread \ {t} : /\ at'[u] = at[u] /\ entered'[u] = entered[u]
                                  /\ stack'[u] = stack[u] /\ call'[u] = call[u]
          /\ barrier' = barrier /\ (region' = region \/ (t = Initial /\ barrier = region))
          /\ created \ ready \subseteq created' \ ready'
          /\ \A e \in ready \ ready' : ~Busy(ExplicitTask(e))
      BY <1>13, ImplicitTaskBeginCall, CountTypes DEF ImplicitTaskBegin, Goto, Calls, Flow, Places, TypeOK
    <3>2. \A e \in created \ ready : ExplicitTask(e) \in OnStack(t)' => ExplicitTask(e) \in OnStack(t)
      BY <1>13, OnStackImplicitBegin, HandleFacts
    <3>3. QED
      BY <3>1, <3>2 DEF LeavesOthers
  <2>3. ASSUME InCall(t)'
        PROVE  Passes(t)'
    <3>1. /\ call'[t].event = "implicit_task" /\ call'[t].args = {RegionData(region), ImplicitTask(region, t)}
          /\ call'[t].begun = {ImplicitTask(region, t)} /\ call'[t].ended = {}
      BY <1>13, <2>3, ImplicitTaskBeginCall DEF Calls
    <3>2. QED
      BY <1>13, <2>1, <3>1, HandleFacts, EventNames, KindFacts, HandleCases, CountTypes DEF Passes
  <2>4. ASSUME InCall(t)'
        PROVE  InUse(t)'
    <3>1. /\ call'[t].event = "implicit_task" /\ call'[t].args = {RegionData(region), ImplicitTask(region, t)}
          /\ call'[t].begun = {ImplicitTask(region, t)} /\ call'[t].ended = {}
      BY <1>13, <2>4, ImplicitTaskBeginCall DEF Calls
    <3>2. at'[t] = "team" /\ barrier < entered'[t] /\ UNCHANGED <<region, barrier>> /\ ImplicitTask(region, t) \in OnStack(t)'
      <4>1. at'[t] = "team" /\ UNCHANGED <<region, barrier>> /\ entered[t] < region /\ entered'[t] = region
        BY <1>13, CountTypes DEF ImplicitTaskBegin, Goto
      <4>2. barrier <= entered[t]
        BY DEF Flow, Places
      <4>3. QED
        BY <1>13, <4>1, <4>2, CountTypes, OnStackImplicitBegin
    <3>3. \A h \in call'[t].args \ call'[t].ended : Uses(t, h)'
      BY <3>1, <3>2 DEF Uses
    <3>4. \A h \in call'[t].ended : Spent(t, h)'
      BY <3>1
    <3>5. QED
      BY <3>1, <3>3, <3>4 DEF InUse
  <2>5. /\ at'[t] # "fork" /\ ~(at[Initial] = "fork" /\ InCall(Initial))
        /\ \A e \in Task : ExplicitTask(e) # ImplicitTask(region, t)
    BY <1>13, HandleFacts, CountTypes DEF ImplicitTaskBegin, Goto, Forked
  <2>6. Calls(t, "implicit_task", {RegionData(region), ImplicitTask(region, t)}, {ImplicitTask(region, t)}, {}, Tools("implicit_task"))
    BY <1>13, ImplicitTaskBeginCall
  <2>7. /\ \A d \in Task : ExplicitTask(d) \in {ImplicitTask(region, t)} => d \notin created
        /\ \A d \in Task : ExplicitTask(d) \in {} => ExplicitTask(d) \in OnStack(t)
    BY <2>5
  <2>8. at'[t] # "fork" \/ (t = Initial /\ \A u \in Thread : entered'[u] < region')
    BY <2>5
  <2>9. t # Initial => entered'[t] = entered[t] \/ ~(at[Initial] = "fork" /\ InCall(Initial))
    BY <2>5
  <2>10. QED
    BY <2>1, <2>2, <2>3, <2>4, <2>6, <2>7, <2>8, <2>9, ArgumentsEvent
<1>14. ASSUME NEW t \in Thread, SyncRegionBegin(t)
      PROVE  Arguments'
  <2>1. t \in Thread /\ ~InCall(t)
    BY <1>14, HandleCases DEF SyncRegionBegin, Goto
  <2>2. LeavesOthers(t)
    <3>1. /\ \A u \in Thread \ {t} : /\ at'[u] = at[u] /\ entered'[u] = entered[u]
                                  /\ stack'[u] = stack[u] /\ call'[u] = call[u]
          /\ barrier' = barrier /\ (region' = region \/ (t = Initial /\ barrier = region))
          /\ created \ ready \subseteq created' \ ready'
          /\ \A e \in ready \ ready' : ~Busy(ExplicitTask(e))
      BY <1>14, SyncRegionBeginCall, CountTypes DEF SyncRegionBegin, Goto, Calls, Flow, Places, TypeOK
    <3>2. \A e \in created \ ready : ExplicitTask(e) \in OnStack(t)' => ExplicitTask(e) \in OnStack(t)
      <4>1. stack' = stack
        BY <1>14 DEF SyncRegionBegin
      <4>2. QED
        BY <4>1, OnStackSame
    <3>3. QED
      BY <3>1, <3>2 DEF LeavesOthers
  <2>3. ASSUME InCall(t)'
        PROVE  Passes(t)'
    <3>1. /\ call'[t].event = "sync_region" /\ call'[t].args = {RegionData(region), stack[t][1]}
          /\ call'[t].begun = {} /\ call'[t].ended = {}
      BY <1>14, <2>3, SyncRegionBeginCall DEF Calls
    <3>2. stack[t][1][1] # "thread"
      <4>1. at[t] \in {"team", "barrier", "leaving"}
        BY <1>14 DEF SyncRegionBegin, Goto
      <4>2. QED
        BY <4>1, TopFacts
    <3>3. QED
      BY <3>1, <3>2, HandleFacts, EventNames DEF Passes
  <2>4. ASSUME InCall(t)'
        PROVE  InUse(t)'
    <3>1. /\ call'[t].event = "sync_region" /\ call'[t].args = {RegionData(region), stack[t][1]}
          /\ call'[t].begun = {} /\ call'[t].ended = {}
      BY <1>14, <2>4, SyncRegionBeginCall DEF Calls
    <3>2. stack[t][1] \in OnStack(t)' /\ at'[t] = "barrier" /\ barrier < entered[t] /\ UNCHANGED <<barrier, region, entered>>
      <4>1. at[t] \in {"team", "barrier", "leaving"}
        BY <1>14 DEF SyncRegionBegin, Goto
      <4>2. stack[t][1] \in OnStack(t)
        BY <4>1, TopFacts
      <4>3. at[t] = "team" /\ stack' = stack /\ at'[t] = "barrier" /\ UNCHANGED <<barrier, region, entered>>
        BY <1>14, CountTypes DEF SyncRegionBegin, Goto
      <4>4. barrier < entered[t]
        BY <4>3 DEF Flow, Places
      <4>5. QED
        BY <4>2, <4>3, <4>4, OnStackSame
    <3>3. \A h \in call'[t].args \ call'[t].ended : Uses(t, h)'
      BY <3>1, <3>2 DEF Uses
    <3>4. \A h \in call'[t].ended : Spent(t, h)'
      BY <3>1
    <3>5. QED
      BY <3>1, <3>3, <3>4 DEF InUse
  <2>5. /\ at'[t] # "fork" /\ entered' = entered
    BY <1>14, CountTypes DEF SyncRegionBegin, Goto
  <2>6. Calls(t, "sync_region", {RegionData(region), stack[t][1]}, {}, {}, Tools("sync_region"))
    BY <1>14, SyncRegionBeginCall
  <2>7. /\ \A d \in Task : ExplicitTask(d) \in {} => d \notin created
        /\ \A d \in Task : ExplicitTask(d) \in {} => ExplicitTask(d) \in OnStack(t)
    BY <2>5
  <2>8. at'[t] # "fork" \/ (t = Initial /\ \A u \in Thread : entered'[u] < region')
    BY <2>5
  <2>9. t # Initial => entered'[t] = entered[t] \/ ~(at[Initial] = "fork" /\ InCall(Initial))
    BY <2>5
  <2>10. QED
    BY <2>1, <2>2, <2>3, <2>4, <2>6, <2>7, <2>8, <2>9, ArgumentsEvent
<1>15. ASSUME NEW t \in Thread, SyncRegionEnd(t)
      PROVE  Arguments'
  <2>1. t \in Thread /\ ~InCall(t)
    BY <1>15, HandleCases DEF SyncRegionEnd, Goto
  <2>2. LeavesOthers(t)
    <3>1. /\ \A u \in Thread \ {t} : /\ at'[u] = at[u] /\ entered'[u] = entered[u]
                                  /\ stack'[u] = stack[u] /\ call'[u] = call[u]
          /\ barrier' = barrier /\ (region' = region \/ (t = Initial /\ barrier = region))
          /\ created \ ready \subseteq created' \ ready'
          /\ \A e \in ready \ ready' : ~Busy(ExplicitTask(e))
      BY <1>15, SyncRegionEndCall, CountTypes DEF SyncRegionEnd, Goto, Calls, Flow, Places, TypeOK
    <3>2. \A e \in created \ ready : ExplicitTask(e) \in OnStack(t)' => ExplicitTask(e) \in OnStack(t)
      <4>1. stack' = stack
        BY <1>15 DEF SyncRegionEnd
      <4>2. QED
        BY <4>1, OnStackSame
    <3>3. QED
      BY <3>1, <3>2 DEF LeavesOthers
  <2>3. ASSUME InCall(t)'
        PROVE  Passes(t)'
    <3>1. /\ call'[t].event = "sync_region" /\ call'[t].args = {stack[t][1]} \cup (IF t = Initial THEN {RegionData(region)} ELSE {})
          /\ call'[t].begun = {} /\ call'[t].ended = {}
      BY <1>15, <2>3, SyncRegionEndCall DEF Calls
    <3>2. stack[t][1][1] # "thread"
      <4>1. at[t] \in {"team", "barrier", "leaving"}
        BY <1>15 DEF SyncRegionEnd, Goto
      <4>2. QED
        BY <4>1, TopFacts
    <3>3. QED
      BY <3>1, <3>2, HandleFacts, EventNames DEF Passes
  <2>4. ASSUME InCall(t)'
        PROVE  InUse(t)'
    <3>1. /\ call'[t].event = "sync_region" /\ call'[t].args = {stack[t][1]} \cup (IF t = Initial THEN {RegionData(region)} ELSE {})
          /\ call'[t].begun = {} /\ call'[t].ended = {}
      BY <1>15, <2>4, SyncRegionEndCall DEF Calls
    <3>2. stack[t][1] \in OnStack(t)' /\ at'[t] = "leaving" /\ region' = region
      <4>1. at[t] \in {"team", "barrier", "leaving"}
        BY <1>15 DEF SyncRegionEnd, Goto
      <4>2. stack[t][1] \in OnStack(t)
        BY <4>1, TopFacts
      <4>3. stack' = stack /\ at'[t] = "leaving" /\ region' = region
        BY <1>15, CountTypes DEF SyncRegionEnd, Goto
      <4>4. QED
        BY <4>2, <4>3, OnStackSame
    <3>3. \A h \in call'[t].args \ call'[t].ended : Uses(t, h)'
      BY <3>1, <3>2 DEF Uses
    <3>4. \A h \in call'[t].ended : Spent(t, h)'
      BY <3>1
    <3>5. QED
      BY <3>1, <3>3, <3>4 DEF InUse
  <2>5. /\ at'[t] # "fork" /\ entered' = entered
    BY <1>15, CountTypes DEF SyncRegionEnd, Goto
  <2>6. Calls(t, "sync_region", {stack[t][1]} \cup (IF t = Initial THEN {RegionData(region)} ELSE {}), {}, {}, Tools("sync_region"))
    BY <1>15, SyncRegionEndCall
  <2>7. /\ \A d \in Task : ExplicitTask(d) \in {} => d \notin created
        /\ \A d \in Task : ExplicitTask(d) \in {} => ExplicitTask(d) \in OnStack(t)
    BY <2>5
  <2>8. at'[t] # "fork" \/ (t = Initial /\ \A u \in Thread : entered'[u] < region')
    BY <2>5
  <2>9. t # Initial => entered'[t] = entered[t] \/ ~(at[Initial] = "fork" /\ InCall(Initial))
    BY <2>5
  <2>10. QED
    BY <2>1, <2>2, <2>3, <2>4, <2>6, <2>7, <2>8, <2>9, ArgumentsEvent
<1>16. ASSUME NEW t \in Thread, ImplicitTaskEnd(t)
      PROVE  Arguments'
  <2>1. t \in Thread /\ ~InCall(t)
    BY <1>16, HandleCases DEF ImplicitTaskEnd, Goto
  <2>2. LeavesOthers(t)
    <3>1. /\ \A u \in Thread \ {t} : /\ at'[u] = at[u] /\ entered'[u] = entered[u]
                                  /\ stack'[u] = stack[u] /\ call'[u] = call[u]
          /\ barrier' = barrier /\ (region' = region \/ (t = Initial /\ barrier = region))
          /\ created \ ready \subseteq created' \ ready'
          /\ \A e \in ready \ ready' : ~Busy(ExplicitTask(e))
      BY <1>16, ImplicitTaskEndCall, CountTypes DEF ImplicitTaskEnd, Goto, Calls, Flow, Places, TypeOK
    <3>2. \A e \in created \ ready : ExplicitTask(e) \in OnStack(t)' => ExplicitTask(e) \in OnStack(t)
      BY <1>16, OnStackEnd
    <3>3. QED
      BY <3>1, <3>2 DEF LeavesOthers
  <2>3. ASSUME InCall(t)'
        PROVE  Passes(t)'
    <3>1. /\ call'[t].event = "implicit_task" /\ call'[t].args = {stack[t][1]}
          /\ call'[t].begun = {} /\ call'[t].ended = {stack[t][1]}
      BY <1>16, <2>3, ImplicitTaskEndCall DEF Calls
    <3>2. stack[t][1][1] # "thread" /\ EndEvent(stack[t][1]) = "implicit_task"
      <4>1. at[t] = "leaving"
        BY <1>16 DEF ImplicitTaskEnd, Goto
      <4>2. entered[t] <= barrier
        BY <4>1 DEF Flow, Places
      <4>3. stack[t][1] = ImplicitTask(entered[t], t)
        BY <4>1, <4>2, TopFacts, CountTypes
      <4>4. QED
        BY <4>3, HandleFacts, EventNames
    <3>3. QED
      BY <3>1, <3>2 DEF Passes
  <2>4. ASSUME InCall(t)'
        PROVE  InUse(t)'
    <3>1. /\ call'[t].event = "implicit_task" /\ call'[t].args = {stack[t][1]}
          /\ call'[t].begun = {} /\ call'[t].ended = {stack[t][1]}
      BY <1>16, <2>4, ImplicitTaskEndCall DEF Calls
    <3>2. /\ at'[t] \in {"idle", "join"} /\ stack[t][1] \in TaskHandle
          /\ stack[t][1][2] <= entered'[t] /\ stack[t][1] # InitialTask
          /\ stack[t][1][1] = "implicit" /\ stack[t][1] = ImplicitTask(stack[t][1][2], t)
      <4>1. at[t] = "leaving" /\ at'[t] \in {"idle", "join"}
        BY <1>16, CountTypes DEF ImplicitTaskEnd, Goto
      <4>2. entered[t] <= barrier /\ entered[t] > 0
        BY <4>1 DEF Flow, Places
      <4>3. stack[t][1] = ImplicitTask(entered[t], t)
        BY <4>1, <4>2, TopFacts, CountTypes
      <4>4. entered[t] \in 1..MaxRegion /\ entered' = entered
        BY <1>16, <4>2, CountTypes, HandleCases DEF ImplicitTaskEnd
      <4>5. QED
        BY <4>1, <4>3, <4>4, HandleCases, HandleFacts
    <3>3. \A h \in call'[t].args \ call'[t].ended : Uses(t, h)'
      BY <3>1
    <3>4. \A h \in call'[t].ended : Spent(t, h)'
      BY <3>1, <3>2 DEF Spent
    <3>5. QED
      BY <3>1, <3>3, <3>4 DEF InUse
  <2>5. /\ at'[t] # "fork" /\ entered' = entered /\ stack[t][1] \in OnStack(t)
    BY <1>16, TopFacts, CountTypes DEF ImplicitTaskEnd, Goto
  <2>6. Calls(t, "implicit_task", {stack[t][1]}, {}, {stack[t][1]}, Tools("implicit_task"))
    BY <1>16, ImplicitTaskEndCall
  <2>7. /\ \A d \in Task : ExplicitTask(d) \in {} => d \notin created
        /\ \A d \in Task : ExplicitTask(d) \in {stack[t][1]} => ExplicitTask(d) \in OnStack(t)
    BY <2>5
  <2>8. at'[t] # "fork" \/ (t = Initial /\ \A u \in Thread : entered'[u] < region')
    BY <2>5
  <2>9. t # Initial => entered'[t] = entered[t] \/ ~(at[Initial] = "fork" /\ InCall(Initial))
    BY <2>5
  <2>10. QED
    BY <2>1, <2>2, <2>3, <2>4, <2>6, <2>7, <2>8, <2>9, ArgumentsEvent
<1>17. ASSUME NEW t \in Thread, ThreadEnd(t)
      PROVE  Arguments'
  <2>1. t \in Thread /\ ~InCall(t)
    BY <1>17, HandleCases DEF ThreadEnd, Goto
  <2>2. LeavesOthers(t)
    <3>1. /\ \A u \in Thread \ {t} : /\ at'[u] = at[u] /\ entered'[u] = entered[u]
                                  /\ stack'[u] = stack[u] /\ call'[u] = call[u]
          /\ barrier' = barrier /\ (region' = region \/ (t = Initial /\ barrier = region))
          /\ created \ ready \subseteq created' \ ready'
          /\ \A e \in ready \ ready' : ~Busy(ExplicitTask(e))
      BY <1>17, ThreadEndCall, CountTypes DEF ThreadEnd, Goto, Calls, Flow, Places, TypeOK
    <3>2. \A e \in created \ ready : ExplicitTask(e) \in OnStack(t)' => ExplicitTask(e) \in OnStack(t)
      <4>1. stack' = stack
        BY <1>17 DEF ThreadEnd
      <4>2. QED
        BY <4>1, OnStackSame
    <3>3. QED
      BY <3>1, <3>2 DEF LeavesOthers
  <2>3. ASSUME InCall(t)'
        PROVE  Passes(t)'
    <3>1. /\ call'[t].event = "thread_end" /\ call'[t].args = {ThreadData(t)}
          /\ call'[t].begun = {} /\ call'[t].ended = {ThreadData(t)}
      BY <1>17, <2>3, ThreadEndCall DEF Calls
    <3>2. QED
      BY <1>17, <2>1, <3>1, HandleFacts, EventNames, KindFacts, HandleCases, CountTypes DEF Passes
  <2>4. ASSUME InCall(t)'
        PROVE  InUse(t)'
    <3>1. /\ call'[t].event = "thread_end" /\ call'[t].args = {ThreadData(t)}
          /\ call'[t].begun = {} /\ call'[t].ended = {ThreadData(t)}
      BY <1>17, <2>4, ThreadEndCall DEF Calls
    <3>2. at'[t] = "gone"
      BY <1>17, CountTypes DEF ThreadEnd, Goto
    <3>3. \A h \in call'[t].args \ call'[t].ended : Uses(t, h)'
      BY <3>1
    <3>4. \A h \in call'[t].ended : Spent(t, h)'
      BY <3>1, <3>2 DEF Spent
    <3>5. QED
      BY <3>1, <3>3, <3>4, <3>2 DEF InUse
  <2>5. /\ at'[t] # "fork" /\ entered' = entered /\ \A e \in Task : ExplicitTask(e) # ThreadData(t)
    BY <1>17, HandleFacts, CountTypes, <2>1 DEF ThreadEnd, Goto
  <2>6. Calls(t, "thread_end", {ThreadData(t)}, {}, {ThreadData(t)}, {q \in {"own", "client", "free"} : Called("thread_end", q)})
    BY <1>17, ThreadEndCall
  <2>7. /\ \A d \in Task : ExplicitTask(d) \in {} => d \notin created
        /\ \A d \in Task : ExplicitTask(d) \in {ThreadData(t)} => ExplicitTask(d) \in OnStack(t)
    BY <2>5
  <2>8. at'[t] # "fork" \/ (t = Initial /\ \A u \in Thread : entered'[u] < region')
    BY <2>5
  <2>9. t # Initial => entered'[t] = entered[t] \/ ~(at[Initial] = "fork" /\ InCall(Initial))
    BY <2>5
  <2>10. QED
    BY <2>1, <2>2, <2>3, <2>4, <2>6, <2>7, <2>8, <2>9, ArgumentsEvent
<1>18. ASSUME NEW t \in Thread, Work(t)
      PROVE  Arguments'
  <2>1. t \in Thread /\ ~InCall(t)
    BY <1>18, HandleCases DEF Work, Goto
  <2>2. LeavesOthers(t)
    <3>1. /\ \A u \in Thread \ {t} : /\ at'[u] = at[u] /\ entered'[u] = entered[u]
                                  /\ stack'[u] = stack[u] /\ call'[u] = call[u]
          /\ barrier' = barrier /\ (region' = region \/ (t = Initial /\ barrier = region))
          /\ created \ ready \subseteq created' \ ready'
          /\ \A e \in ready \ ready' : ~Busy(ExplicitTask(e))
      BY <1>18, WorkCall, CountTypes DEF Work, Goto, Calls, Flow, Places, TypeOK
    <3>2. \A e \in created \ ready : ExplicitTask(e) \in OnStack(t)' => ExplicitTask(e) \in OnStack(t)
      <4>1. stack' = stack
        BY <1>18 DEF Work
      <4>2. QED
        BY <4>1, OnStackSame
    <3>3. QED
      BY <3>1, <3>2 DEF LeavesOthers
  <2>3. ASSUME InCall(t)'
        PROVE  Passes(t)'
    <3>1. /\ call'[t].event = "work" /\ call'[t].args = {RegionData(region), stack[t][1]}
          /\ call'[t].begun = {} /\ call'[t].ended = {}
      BY <1>18, <2>3, WorkCall DEF Calls
    <3>2. stack[t][1][1] # "thread"
      <4>1. at[t] \in {"team", "barrier", "leaving"}
        BY <1>18 DEF Work, Goto
      <4>2. QED
        BY <4>1, TopFacts
    <3>3. QED
      BY <3>1, <3>2, HandleFacts, EventNames DEF Passes
  <2>4. ASSUME InCall(t)'
        PROVE  InUse(t)'
    <3>1. /\ call'[t].event = "work" /\ call'[t].args = {RegionData(region), stack[t][1]}
          /\ call'[t].begun = {} /\ call'[t].ended = {}
      BY <1>18, <2>4, WorkCall DEF Calls
    <3>2. stack[t][1] \in OnStack(t)' /\ at'[t] = "team" /\ barrier < entered[t] /\ UNCHANGED <<barrier, region, entered>>
      <4>1. at[t] \in {"team", "barrier", "leaving"}
        BY <1>18 DEF Work, Goto
      <4>2. stack[t][1] \in OnStack(t)
        BY <4>1, TopFacts
      <4>3. at[t] = "team" /\ stack' = stack /\ at'[t] = "team" /\ UNCHANGED <<barrier, region, entered>>
        BY <1>18, CountTypes DEF Work, Goto
      <4>4. barrier < entered[t]
        BY <4>3 DEF Flow, Places
      <4>5. QED
        BY <4>2, <4>3, <4>4, OnStackSame
    <3>3. \A h \in call'[t].args \ call'[t].ended : Uses(t, h)'
      BY <3>1, <3>2 DEF Uses
    <3>4. \A h \in call'[t].ended : Spent(t, h)'
      BY <3>1
    <3>5. QED
      BY <3>1, <3>3, <3>4 DEF InUse
  <2>5. /\ at'[t] # "fork" /\ entered' = entered
    BY <1>18, CountTypes DEF Work, Goto
  <2>6. Calls(t, "work", {RegionData(region), stack[t][1]}, {}, {}, Tools("work"))
    BY <1>18, WorkCall
  <2>7. /\ \A d \in Task : ExplicitTask(d) \in {} => d \notin created
        /\ \A d \in Task : ExplicitTask(d) \in {} => ExplicitTask(d) \in OnStack(t)
    BY <2>5
  <2>8. at'[t] # "fork" \/ (t = Initial /\ \A u \in Thread : entered'[u] < region')
    BY <2>5
  <2>9. t # Initial => entered'[t] = entered[t] \/ ~(at[Initial] = "fork" /\ InCall(Initial))
    BY <2>5
  <2>10. QED
    BY <2>1, <2>2, <2>3, <2>4, <2>6, <2>7, <2>8, <2>9, ArgumentsEvent
<1>19. ASSUME NEW t \in Thread, Own(t)
      PROVE  Arguments'
  <2>1. Part(t, "own") /\ "own" \in PartName
    BY <1>19 DEF Own, PartName
  <2>2. QED
    BY <2>1, ArgumentsPart
<1>20. ASSUME NEW t \in Thread, Client(t)
      PROVE  Arguments'
  <2>1. Part(t, "client") /\ "client" \in PartName
    BY <1>20 DEF Client, PartName
  <2>2. QED
    BY <2>1, ArgumentsPart
<1>21. ASSUME NEW t \in Thread, Free(t)
      PROVE  Arguments'
  <2>1. Part(t, "free") /\ "free" \in PartName
    BY <1>21 DEF Free, PartName
  <2>2. QED
    BY <2>1, ArgumentsPart
<1>22. ASSUME NEW t \in Thread, DlClose(t)
      PROVE  Arguments'
  <2>1. Part(t, "dlclose") /\ "dlclose" \in PartName
    BY <1>22 DEF DlClose, PartName
  <2>2. QED
    BY <2>1, ArgumentsPart
<1>23. ASSUME NEW t \in Thread, NEW e \in Task, TaskCreate(t, e)
      PROVE  Arguments'
  <2>1. t \in Thread /\ ~InCall(t)
    BY <1>23, HandleCases DEF TaskCreate, Goto
  <2>2. LeavesOthers(t)
    <3>1. /\ \A u \in Thread \ {t} : /\ at'[u] = at[u] /\ entered'[u] = entered[u]
                                  /\ stack'[u] = stack[u] /\ call'[u] = call[u]
          /\ barrier' = barrier /\ (region' = region \/ (t = Initial /\ barrier = region))
          /\ created \ ready \subseteq created' \ ready'
          /\ \A d \in ready \ ready' : ~Busy(ExplicitTask(d))
      BY <1>23, TaskCreateCall, CountTypes DEF TaskCreate, Goto, Calls, Flow, Places, TypeOK
    <3>2. \A d \in created \ ready : ExplicitTask(d) \in OnStack(t)' => ExplicitTask(d) \in OnStack(t)
      <4>1. stack' = stack
        BY <1>23 DEF TaskCreate
      <4>2. QED
        BY <4>1, OnStackSame
    <3>3. QED
      BY <3>1, <3>2 DEF LeavesOthers
  <2>3. ASSUME InCall(t)'
        PROVE  Passes(t)'
    <3>1. /\ call'[t].event = "task_create" /\ call'[t].args = {stack[t][1], ExplicitTask(e)}
          /\ call'[t].begun = {ExplicitTask(e)} /\ call'[t].ended = {}
      BY <1>23, <2>3, TaskCreateCall DEF Calls
    <3>2. stack[t][1][1] # "thread"
      <4>1. at[t] \in {"team", "barrier", "leaving"}
        BY <1>23 DEF TaskCreate, Goto
      <4>2. QED
        BY <4>1, TopFacts
    <3>3. QED
      BY <3>1, <3>2, HandleFacts, EventNames DEF Passes
  <2>4. ASSUME InCall(t)'
        PROVE  InUse(t)'
    <3>1. /\ call'[t].event = "task_create" /\ call'[t].args = {stack[t][1], ExplicitTask(e)}
          /\ call'[t].begun = {ExplicitTask(e)} /\ call'[t].ended = {}
      BY <1>23, <2>4, TaskCreateCall DEF Calls
    <3>2. stack[t][1] \in OnStack(t)' /\ e \in ready' /\ at'[t] = "team"
      <4>1. at[t] \in {"team", "barrier", "leaving"}
        BY <1>23 DEF TaskCreate, Goto
      <4>2. stack[t][1] \in OnStack(t)
        BY <4>1, TopFacts
      <4>3. stack' = stack /\ e \in ready' /\ at'[t] = "team"
        BY <1>23, CountTypes DEF TaskCreate, Goto
      <4>4. QED
        BY <4>2, <4>3, OnStackSame
    <3>3. \A h \in call'[t].args \ call'[t].ended : Uses(t, h)'
      BY <3>1, <3>2 DEF Uses
    <3>4. \A h \in call'[t].ended : Spent(t, h)'
      BY <3>1
    <3>5. QED
      BY <3>1, <3>3, <3>4 DEF InUse
  <2>5. /\ at'[t] # "fork" /\ entered' = entered /\ e \notin created
        /\ \A d \in Task : ExplicitTask(d) = ExplicitTask(e) => d = e
    BY <1>23, HandleFacts, CountTypes DEF TaskCreate, Goto
  <2>6. Calls(t, "task_create", {stack[t][1], ExplicitTask(e)}, {ExplicitTask(e)}, {}, Tools("task_create"))
    BY <1>23, TaskCreateCall
  <2>7. /\ \A d \in Task : ExplicitTask(d) \in {ExplicitTask(e)} => d \notin created
        /\ \A d \in Task : ExplicitTask(d) \in {} => ExplicitTask(d) \in OnStack(t)
    BY <2>5
  <2>8. at'[t] # "fork" \/ (t = Initial /\ \A u \in Thread : entered'[u] < region')
    BY <2>5
  <2>9. t # Initial => entered'[t] = entered[t] \/ ~(at[Initial] = "fork" /\ InCall(Initial))
    BY <2>5
  <2>10. QED
    BY <2>1, <2>2, <2>3, <2>4, <2>6, <2>7, <2>8, <2>9, ArgumentsEvent
<1>24. ASSUME NEW t \in Thread, NEW e \in Task, TaskSwitch(t, e)
      PROVE  Arguments'
  <2>1. t \in Thread /\ ~InCall(t)
    BY <1>24, HandleCases DEF TaskSwitch, Goto
  <2>2. LeavesOthers(t)
    <3>1. /\ \A u \in Thread \ {t} : /\ at'[u] = at[u] /\ entered'[u] = entered[u]
                                  /\ stack'[u] = stack[u] /\ call'[u] = call[u]
          /\ barrier' = barrier /\ (region' = region \/ (t = Initial /\ barrier = region))
          /\ created \ ready \subseteq created' \ ready'
          /\ \A d \in ready \ ready' : ~Busy(ExplicitTask(d))
      BY <1>24, TaskSwitchCall, CountTypes DEF TaskSwitch, Goto, Calls, Flow, Places, TypeOK
    <3>2. \A d \in created \ ready : ExplicitTask(d) \in OnStack(t)' => ExplicitTask(d) \in OnStack(t)
      <4>1. e \in ready
        BY <1>24 DEF TaskSwitch
      <4>2. QED
        BY <1>24, <4>1, OnStackSwitch, HandleFacts
    <3>3. QED
      BY <3>1, <3>2 DEF LeavesOthers
  <2>3. ASSUME InCall(t)'
        PROVE  Passes(t)'
    <3>1. /\ call'[t].event = "task_schedule" /\ call'[t].args = {stack[t][1], ExplicitTask(e)}
          /\ call'[t].begun = {} /\ call'[t].ended = {}
      BY <1>24, <2>3, TaskSwitchCall DEF Calls
    <3>2. stack[t][1][1] # "thread"
      <4>1. at[t] \in {"team", "barrier", "leaving"}
        BY <1>24 DEF TaskSwitch, Goto
      <4>2. QED
        BY <4>1, TopFacts
    <3>3. QED
      BY <3>1, <3>2, HandleFacts, EventNames DEF Passes
  <2>4. ASSUME InCall(t)'
        PROVE  InUse(t)'
    <3>1. /\ call'[t].event = "task_schedule" /\ call'[t].args = {stack[t][1], ExplicitTask(e)}
          /\ call'[t].begun = {} /\ call'[t].ended = {}
      BY <1>24, <2>4, TaskSwitchCall DEF Calls
    <3>2. stack[t][1] \in OnStack(t)' /\ ExplicitTask(e) \in OnStack(t)'
      <4>1. at[t] \in {"team", "barrier", "leaving"}
        BY <1>24 DEF TaskSwitch, Goto
      <4>2. stack[t][1] \in OnStack(t)
        BY <4>1, TopFacts
      <4>3. QED
        BY <1>24, <4>2, OnStackSwitch
    <3>3. \A h \in call'[t].args \ call'[t].ended : Uses(t, h)'
      BY <3>1, <3>2 DEF Uses
    <3>4. \A h \in call'[t].ended : Spent(t, h)'
      BY <3>1
    <3>5. QED
      BY <3>1, <3>3, <3>4 DEF InUse
  <2>5. /\ at'[t] # "fork" /\ entered' = entered
    BY <1>24, CountTypes DEF TaskSwitch, Goto
  <2>6. Calls(t, "task_schedule", {stack[t][1], ExplicitTask(e)}, {}, {}, Tools("task_schedule"))
    BY <1>24, TaskSwitchCall
  <2>7. /\ \A d \in Task : ExplicitTask(d) \in {} => d \notin created
        /\ \A d \in Task : ExplicitTask(d) \in {} => ExplicitTask(d) \in OnStack(t)
    BY <2>5
  <2>8. at'[t] # "fork" \/ (t = Initial /\ \A u \in Thread : entered'[u] < region')
    BY <2>5
  <2>9. t # Initial => entered'[t] = entered[t] \/ ~(at[Initial] = "fork" /\ InCall(Initial))
    BY <2>5
  <2>10. QED
    BY <2>1, <2>2, <2>3, <2>4, <2>6, <2>7, <2>8, <2>9, ArgumentsEvent
<1>25. ASSUME NEW t \in Thread, NEW status \in EndStatus, TaskEnd(t, status)
      PROVE  Arguments'
  <2>1. t \in Thread /\ ~InCall(t)
    BY <1>25, HandleCases DEF TaskEnd, Goto
  <2>2. LeavesOthers(t)
    <3>1. /\ \A u \in Thread \ {t} : /\ at'[u] = at[u] /\ entered'[u] = entered[u]
                                  /\ stack'[u] = stack[u] /\ call'[u] = call[u]
          /\ barrier' = barrier /\ (region' = region \/ (t = Initial /\ barrier = region))
          /\ created \ ready \subseteq created' \ ready'
          /\ \A e \in ready \ ready' : ~Busy(ExplicitTask(e))
      BY <1>25, TaskEndCall, CountTypes DEF TaskEnd, Goto, Calls, Flow, Places, TypeOK
    <3>2. \A e \in created \ ready : ExplicitTask(e) \in OnStack(t)' => ExplicitTask(e) \in OnStack(t)
      BY <1>25, OnStackEnd
    <3>3. QED
      BY <3>1, <3>2 DEF LeavesOthers
  <2>3. ASSUME InCall(t)'
        PROVE  Passes(t)'
    <3>1. /\ call'[t].event = "task_schedule" /\ call'[t].args = {stack[t][1], stack[t][2]}
          /\ call'[t].begun = {} /\ call'[t].ended = {stack[t][1]}
      BY <1>25, <2>3, TaskEndCall DEF Calls
    <3>2. /\ stack[t][1][1] # "thread" /\ EndEvent(stack[t][1]) = "task_schedule"
          /\ stack[t][2][1] # "thread"
      <4>1. at[t] \in {"team", "barrier", "leaving"} /\ stack[t][1][1] = "explicit"
        BY <1>25 DEF TaskEnd, Goto
      <4>2. stack[t][2] \in OnStack(t) /\ \E e \in Task : stack[t][1] = ExplicitTask(e)
        BY <4>1, TopFacts DEF Flow, TypeOK
      <4>3. stack[t][2][1] # "thread"
        BY <4>2, OnStackFacts, HandleFacts, HandleCases
      <4>4. QED
        BY <4>2, <4>3, HandleFacts, EventNames
    <3>3. QED
      BY <3>1, <3>2 DEF Passes
  <2>4. ASSUME InCall(t)'
        PROVE  InUse(t)'
    <3>1. /\ call'[t].event = "task_schedule" /\ call'[t].args = {stack[t][1], stack[t][2]}
          /\ call'[t].begun = {} /\ call'[t].ended = {stack[t][1]}
      BY <1>25, <2>4, TaskEndCall DEF Calls
    <3>2. /\ at'[t] \in {"team", "barrier"} /\ UNCHANGED <<barrier, entered, created, ready>>
          /\ at[t] \in {"team", "barrier"}
      BY <1>25, CountTypes DEF TaskEnd, Goto
    <3>20. /\ stack[t][2] \in OnStack(t) /\ \E e \in created \ ready : stack[t][1] = ExplicitTask(e)
           /\ stack[t][1] \in OnStack(t) /\ barrier < entered[t]
      <4>1. stack[t][1][1] = "explicit"
        BY <1>25 DEF TaskEnd
      <4>2. QED
        BY <3>2, <4>1, TopFacts, OnStackFacts, HandleFacts, HandleCases
    <3>21. OnStack(t)' = OnStack(t) \ {stack[t][1]}
      BY <1>25, OnStackEnd
    <3>22. \A u \in Thread : stack[t][1] \notin OnStack(u)'
      <4>1. \A u \in Thread \ {t} : OnStack(u)' = OnStack(u)
        BY <2>2, OnStackSame DEF LeavesOthers
      <4>2. \A u \in Thread \ {t} : stack[t][1] \notin OnStack(u)
        BY <3>20 DEF Flow, Stacks, OnStack
      <4>3. QED
        BY <3>21, <4>1, <4>2
    <3>3. \A h \in call'[t].args \ call'[t].ended : Uses(t, h)'
      BY <3>1, <3>20, <3>21 DEF Uses
    <3>4. \A h \in call'[t].ended : Spent(t, h)'
      BY <3>1, <3>2, <3>20, <3>22 DEF Spent
    <3>5. QED
      BY <3>1, <3>3, <3>4 DEF InUse
  <2>5. /\ at'[t] # "fork" /\ entered' = entered /\ stack[t][1] \in OnStack(t)
    BY <1>25, TopFacts, CountTypes DEF TaskEnd, Goto
  <2>6. Calls(t, "task_schedule", {stack[t][1], stack[t][2]}, {}, {stack[t][1]}, Tools("task_schedule"))
    BY <1>25, TaskEndCall
  <2>7. /\ \A d \in Task : ExplicitTask(d) \in {} => d \notin created
        /\ \A d \in Task : ExplicitTask(d) \in {stack[t][1]} => ExplicitTask(d) \in OnStack(t)
    BY <2>5
  <2>8. at'[t] # "fork" \/ (t = Initial /\ \A u \in Thread : entered'[u] < region')
    BY <2>5
  <2>9. t # Initial => entered'[t] = entered[t] \/ ~(at[Initial] = "fork" /\ InCall(Initial))
    BY <2>5
  <2>10. QED
    BY <2>1, <2>2, <2>3, <2>4, <2>6, <2>7, <2>8, <2>9, ArgumentsEvent
<1>26. QED
  BY <1>1, <1>2, <1>3, <1>4, <1>5, <1>6, <1>7, <1>8, <1>9, <1>10, <1>11, <1>12, <1>13, <1>14, <1>15, <1>16, <1>17, <1>18, <1>19, <1>20, <1>21, <1>22, <1>23, <1>24, <1>25 DEF Next

-----------------------------------------------------------------------------
(* The first part of the invariant *)

LEMMA FlowInit == Init => Flow
<1> SUFFICES ASSUME Init
             PROVE  Flow
  OBVIOUS
<1>1. /\ \A t \in Thread : call[t] = NoCall /\ at[t] = "new" /\ stack[t] = <<>> /\ entered[t] = 0
      /\ call = [t \in Thread |-> NoCall] /\ at = [t \in Thread |-> "new"]
      /\ region = 0 /\ barrier = 0 /\ ready = {} /\ created = {}
      /\ client = 0 /\ clientSet = {} /\ ~callbacks_registered /\ phase = "load" /\ Initial \in Thread
      /\ Worker \subseteq Thread
  BY HandleCases DEF Init, Thread
<1>2. NoCall \in CallType /\ NoCall.parts = <<>>
  BY DEF NoCall, CallType, EventName
<1>3. \A t \in Thread : ~InCall(t)
  BY <1>1, <1>2 DEF InCall
<1>4. Places
  BY <1>1 DEF Places, Place
<1>5. Stacks
  BY <1>1 DEF Stacks, StackOf
<1>6. PartsLeft
  BY <1>1, <1>2, <1>3 DEF PartsLeft
<1>7. Arguments
  BY <1>1, <1>3 DEF Arguments
<1>8. Life
  BY <1>1, <1>3 DEF Life, Closed
<1>9. QED
  BY <1>4, <1>5, <1>6, <1>7, <1>8, TypeInit DEF Flow

LEMMA FlowStutter ==
  ASSUME Flow, UNCHANGED vars
  PROVE  Flow'
<1>1. UNCHANGED <<phase, library, opened, client, callbacks_registered, clientSet, pools, size, user,
                  ptr, data, pairs, call, live, seen, at, stack, entered, region, barrier, ready, created>>
  BY DEF vars, tool, memory, program
<1>2. TypeOK'
  BY <1>1 DEF Flow, TypeOK
<1>3. Places'
  BY <1>1 DEF Flow, Places
<1>4. Stacks'
  BY <1>1 DEF Flow, Stacks, StackOf
<1>5. (\A t \in Thread : OnStack(t)' = OnStack(t)) /\ (\A t \in Thread : Remaining(t)' = Remaining(t) /\ (InCall(t)' <=> InCall(t)))
  BY <1>1 DEF OnStack, Remaining, InCall
<1>6. PartsLeft'
  <2>1. \A t \in Thread : InCall(t)' => PartsOf(t)'
    BY <1>1, PartsFrame DEF Flow, PartsLeft
  <2>2. QED
    BY <1>1, <2>1 DEF Flow, PartsLeft
<1>7. Arguments'
  <2>1. \A t \in Thread : \A h : (Uses(t, h)' <=> Uses(t, h)) /\ (Spent(t, h)' <=> Spent(t, h))
    BY <1>1, <1>5 DEF Uses, Spent
  <2>2. \A t \in Thread : InCall(t)' => Passes(t)' /\ InUse(t)'
    BY <1>1, <1>5, <2>1 DEF Flow, Arguments, Passes, InUse
  <2>3. \A t, u \in Thread : InCall(t)' /\ InCall(u)' /\ t # u => Apart(t, u)'
    BY <1>1, <1>5 DEF Flow, Arguments, Apart
  <2>4. at'[Initial] = "fork" /\ InCall(Initial)' => \A t \in Thread : entered'[t] < region'
    BY <1>1, <1>5, HandleCases DEF Flow, Arguments
  <2>5. QED
    BY <2>2, <2>3, <2>4 DEF Arguments
<1>8. Life'
  <2>1. /\ phase \in {"load", "initialize"} =>
            /\ ~callbacks_registered /\ clientSet = {} /\ created = {}
            /\ \A t \in Thread : at[t] = "new" /\ ~InCall(t)
        /\ clientSet # {} => client # 0
        /\ clientSet = {} \/ clientSet \in ClientSets
    BY DEF Flow, Life
  <2>2. /\ Closed => /\ at[Initial] = "final" \/ phase = "finalized"
                     /\ \A t \in Thread : InCall(t) => call[t].event = "control_tool"
        /\ phase = "finalized" => \A t \in Thread : InCall(t) => Over(t)
        /\ at[Initial] = "final" => \A t \in Worker : at[t] \in {"new", "gone"} /\ ~InCall(t)
    BY DEF Flow, Life
  <2>3. /\ phase' \in {"load", "initialize"} =>
            /\ ~callbacks_registered' /\ clientSet' = {} /\ created' = {}
            /\ \A t \in Thread : at'[t] = "new" /\ ~InCall(t)'
        /\ clientSet' # {} => client' # 0
        /\ clientSet' = {} \/ clientSet' \in ClientSets
    BY <1>1, <1>5, <2>1
  <2>4. \A t \in Worker : t \in Thread
    BY HandleCases
  <2>5. /\ Closed' => /\ at'[Initial] = "final" \/ phase' = "finalized"
                      /\ \A t \in Thread : InCall(t)' => call'[t].event = "control_tool"
        /\ phase' = "finalized" => \A t \in Thread : InCall(t)' => Over(t)'
        /\ at'[Initial] = "final" => \A t \in Worker : at'[t] \in {"new", "gone"} /\ ~InCall(t)'
    BY <1>1, <1>5, <2>2, <2>4 DEF Closed, Over
  <2>6. QED
    BY <2>3, <2>5 DEF Life
<1>9. QED
  BY <1>2, <1>3, <1>4, <1>6, <1>7, <1>8 DEF Flow

LEMMA FlowStep == Flow /\ [Next]_vars => Flow'
<1>1. ASSUME Flow, Next
      PROVE  Flow'
  BY <1>1, TypeStep, PlacesStep, StacksStep, PartsStep, ArgumentsStep, LifeStep DEF Flow
<1>2. QED
  BY <1>1, FlowStutter

(* Program and callbacks: the first part of the invariant holds in every    *)
(* state, for any clients (ompt-multiplex.h, the wrappers of the events).  *)
THEOREM FlowInvariant == Spec => []Flow
<1>1. Init => Flow
  BY FlowInit
<1>2. Flow /\ [Next]_vars => Flow'
  BY FlowStep
<1>3. QED
  BY <1>1, <1>2, PTL DEF Spec

(* Every variable has its type (ompt-multiplex.h, the profiler's objects).  *)
THEOREM TypeCorrect == Spec => []TypeOK
<1>1. Flow => TypeOK
  BY DEF Flow
<1>2. QED
  BY <1>1, FlowInvariant, PTL

(* The client is called only while its library is open, and neither tool    *)
(* once both are finalized, for any client that has no callback for         *)
(* control_tool (start_tool, finalize; control_tool end, by which the        *)
(* program may end the tools at any time outside of a region).             *)
THEOREM ClientOpenInvariant ==
  ASSUME \A events \in ClientSets : "control_tool" \notin events
  PROVE  Spec => []ClientOpen
<1>1. Flow => ClientOpen
  BY FlowClientOpen
<1>2. QED
  BY <1>1, FlowInvariant, PTL

-----------------------------------------------------------------------------
(* Which threads, regions and tasks have begun                              *)

LEMMA CurrentKinds ==
  ASSUME Flow
  PROVE  /\ \A t \in Thread : Current(ThreadData(t)) <=> at[t] \notin {"new", "gone", "final"}
         /\ \A r : Current(RegionData(r)) <=>
              \/ r = 0 /\ at[Initial] \notin {"new", "begun"}
              \/ r = region /\ at[Initial] \in {"fork", "team", "barrier", "leaving", "join"}
         /\ \A h \in TaskHandle : Current(h) <=> CurrentTask(h)
         /\ \A t \in Thread : OnStack(t) \subseteq TaskHandle
<1>1. ASSUME NEW t \in Thread
      PROVE  OnStack(t) \subseteq TaskHandle
  <2>1. stack[t] \in Seq(TaskHandle)
    BY DEF Flow, TypeOK
  <2>2. QED
    BY <2>1, ElementOfSeq DEF OnStack
<1>2. \A h : CurrentTask(h) => h \in TaskHandle
  <2>1. ready \subseteq Task
    BY DEF Flow, TypeOK
  <2>2. QED
    BY <1>1, <2>1, HandleCases DEF CurrentTask
<1>3. \A h : CurrentThread(h) => h[1] = "thread"
  BY HandleFacts DEF CurrentThread
<1>4. \A h : CurrentRegion(h) => h[1] = "region"
  BY HandleFacts DEF CurrentRegion
<1>5. \A h \in TaskHandle : h[1] \in {"implicit", "explicit"}
  BY KindFacts
<1>6. ASSUME NEW t \in Thread
      PROVE  Current(ThreadData(t)) <=> at[t] \notin {"new", "gone", "final"}
  <2>1. ~CurrentRegion(ThreadData(t)) /\ ~CurrentTask(ThreadData(t))
    BY <1>2, <1>4, <1>5, HandleFacts
  <2>2. \A u : ThreadData(u) = ThreadData(t) <=> u = t
    BY HandleFacts
  <2>3. QED
    BY <2>1, <2>2 DEF Current, CurrentThread
<1>7. ASSUME NEW r
      PROVE  Current(RegionData(r)) <=>
              \/ r = 0 /\ at[Initial] \notin {"new", "begun"}
              \/ r = region /\ at[Initial] \in {"fork", "team", "barrier", "leaving", "join"}
  <2>1. ~CurrentThread(RegionData(r)) /\ ~CurrentTask(RegionData(r))
    BY <1>2, <1>3, <1>5, HandleFacts
  <2>2. \A q : RegionData(r) = RegionData(q) <=> r = q
    BY HandleFacts
  <2>3. QED
    BY <2>1, <2>2 DEF Current, CurrentRegion
<1>8. \A h \in TaskHandle : Current(h) <=> CurrentTask(h)
  BY <1>3, <1>4, <1>5 DEF Current
<1>9. QED
  BY <1>1, <1>6, <1>7, <1>8

LEMMA StartedKinds ==
  /\ \A t : Started(ThreadData(t)) <=> at[t] # "new"
  /\ \A r : Started(RegionData(r)) <=> IF r = 0 THEN at[Initial] \notin {"new", "begun"} ELSE r <= region
  /\ \A r, t : Started(ImplicitTask(r, t)) <=>
       IF r = 0 THEN at[Initial] \notin {"new", "begun"} ELSE r <= entered[t]
  /\ \A e : Started(ExplicitTask(e)) <=> e \in created
BY HandleFacts DEF Started

LEMMA CurrentStarted ==
  ASSUME Flow, NEW h \in Handle, Current(h)
  PROVE  Started(h)
<1>1. CASE \E t \in Thread : h = ThreadData(t)
  BY <1>1, CurrentKinds, StartedKinds
<1>2. CASE h \in RegionHandle
  <2>1. PICK r \in 0..MaxRegion : h = RegionData(r)
    BY <1>2, HandleCases
  <2>2. CASE r = 0
    <3>1. at[Initial] \notin {"new", "begun"}
      BY <2>1, <2>2, CurrentKinds
    <3>2. QED
      BY <2>1, <2>2, <3>1, StartedKinds
  <2>3. CASE r # 0
    <3>1. r = region
      BY <2>1, <2>3, CurrentKinds
    <3>2. QED
      BY <2>1, <2>3, <3>1, StartedKinds, CountTypes
  <2>4. QED
    BY <2>2, <2>3
<1>3. CASE h \in TaskHandle
  <2>1. CurrentTask(h)
    BY <1>3, CurrentKinds
  <2>2. CASE \E e \in ready : h = ExplicitTask(e)
    BY <2>2, StartedKinds DEF Flow, TypeOK
  <2>3. ASSUME NEW t \in Thread, h \in OnStack(t)
        PROVE  Started(h)
    <3>1. CASE h = InitialTask /\ t = Initial /\ at[t] \notin {"new", "begun", "done", "gone", "final"}
      BY <3>1, HandleCases, StartedKinds
    <3>2. CASE h = ImplicitTask(entered[t], t) /\ entered[t] > 0
      BY <3>2, StartedKinds, CountTypes
    <3>3. CASE \E e \in created \ ready : h = ExplicitTask(e)
      BY <3>3, StartedKinds
    <3>4. QED
      BY <2>3, <3>1, <3>2, <3>3, OnStackFacts
  <2>4. QED
    BY <2>1, <2>2, <2>3 DEF CurrentTask
<1>4. QED
  BY <1>1, <1>2, <1>3, HandleCases

-----------------------------------------------------------------------------
(* What the callbacks in progress begin and end                             *)

LEMMA CallFacts ==
  ASSUME Flow, NEW t \in Thread, InCall(t)
  PROVE  /\ call[t].args \subseteq Handle /\ call[t].begun \subseteq call[t].args /\ call[t].ended \subseteq call[t].args
         /\ call[t].begun \cap call[t].ended = {}
         /\ Passes(t) /\ InUse(t) /\ PartsOf(t)
<1>1. Passes(t) /\ InUse(t) /\ PartsOf(t) /\ call[t] \in CallType
  BY DEF Flow, Arguments, PartsLeft
<1>2. QED
  BY <1>1 DEF CallType, Passes

LEMMA UsedCurrent ==
  ASSUME Flow, NEW t \in Thread, InCall(t), NEW h \in call[t].args \ call[t].ended
  PROVE  Current(h)
<1>1. Uses(t, h) /\ Passes(t) /\ InUse(t)
  BY CallFacts DEF InUse
<1>2. CASE h \in OnStack(t)
  BY <1>2 DEF Current, CurrentTask
<1>3. CASE h \in call[t].begun /\ h = ThreadData(t)
  <2>1. call[t].event = "thread_begin"
    BY <1>1, <1>3, EventNames DEF Passes
  <2>2. at[t] \in {"begun", "idle"}
    BY <1>1, <2>1 DEF InUse
  <2>3. QED
    BY <1>3, <2>2, CurrentKinds
<1>4. CASE h \in call[t].begun /\ at[t] = "team" /\ \E e \in ready : h = ExplicitTask(e)
  BY <1>4 DEF Current, CurrentTask
<1>5. CASE h = RegionData(region) /\ at[t] \in {"team", "barrier"} /\ barrier < entered[t]
  <2>1. barrier # region
    BY <1>5, CountTypes
  <2>2. at[Initial] \in {"fork", "team", "barrier"}
    BY <2>1 DEF Flow, Places
  <2>3. QED
    BY <1>5, <2>2, CurrentKinds
<1>6. CASE h = RegionData(region) /\ t = Initial /\ at[t] \in {"fork", "leaving"}
  BY <1>6, CurrentKinds
<1>7. CASE h = RegionData(0) /\ h \in call[t].begun /\ t = Initial /\ at[t] = "serial"
  BY <1>7, CurrentKinds
<1>8. QED
  BY <1>1, <1>2, <1>3, <1>4, <1>5, <1>6, <1>7 DEF Uses

LEMMA BegunCurrent ==
  ASSUME Flow, NEW t \in Thread, InCall(t), NEW h \in call[t].begun
  PROVE  Current(h) /\ Started(h) /\ h \in Handle
<1>1. h \in call[t].args \ call[t].ended /\ h \in Handle
  BY CallFacts
<1>2. QED
  BY <1>1, UsedCurrent, CurrentStarted

LEMMA EndedGone ==
  ASSUME Flow, NEW t \in Thread, InCall(t), NEW h \in call[t].ended
  PROVE  ~Current(h) /\ Started(h) /\ h \in Handle
<1>1. Spent(t, h) /\ h \in Handle
  BY CallFacts DEF InUse
<1>2. CASE h = ThreadData(t) /\ at[t] = "gone"
  BY <1>1, <1>2, CurrentKinds, StartedKinds
<1>3. CASE /\ h \in TaskHandle /\ h[1] = "implicit" /\ h = ImplicitTask(h[2], t)
           /\ h[2] <= entered[t] /\ at[t] \in {"idle", "join", "done"}
           /\ h = InitialTask => at[t] = "done"
  <2>1. ASSUME NEW u \in Thread, h \in OnStack(u)
        PROVE  FALSE
    <3>1. CASE h = InitialTask /\ u = Initial /\ at[u] \notin {"new", "begun", "done", "gone", "final"}
      <4>1. h[3] = Initial /\ h[3] = t
        BY <1>3, <3>1, HandleFacts DEF InitialTask
      <4>2. QED
        BY <1>3, <3>1, <4>1
    <3>2. CASE h = ImplicitTask(entered[u], u) /\ at[u] \in {"team", "barrier", "leaving"}
      <4>1. h[3] = u /\ h[3] = t
        BY <1>3, <3>2, HandleFacts
      <4>2. QED
        BY <1>3, <3>2, <4>1
    <3>3. CASE \E e \in created \ ready : h = ExplicitTask(e)
      BY <1>3, <3>3, HandleFacts
    <3>4. QED
      BY <2>1, <3>1, <3>2, <3>3, OnStackFacts
  <2>2. ~\E e \in ready : h = ExplicitTask(e)
    BY <1>3, HandleFacts
  <2>3. ~Current(h)
    BY <1>3, <2>1, <2>2, CurrentKinds DEF CurrentTask
  <2>4. CASE h[2] = 0
    <3>1. h = InitialTask
      <4>1. CASE \E r \in 1..MaxRegion : \E u \in Thread : h = ImplicitTask(r, u)
        BY <2>4, <4>1, HandleFacts, HandleCases
      <4>2. CASE \E e \in Task : h = ExplicitTask(e)
        BY <1>3, <4>2, HandleFacts
      <4>3. QED
        BY <1>3, <4>1, <4>2, HandleCases
    <3>2. at[t] = "done" /\ t = Initial
      BY <1>3, <3>1, HandleFacts DEF InitialTask
    <3>3. QED
      BY <1>1, <1>3, <2>3, <2>4, <3>2, StartedKinds
  <2>5. CASE h[2] # 0
    <3>1. Started(ImplicitTask(h[2], t))
      BY <1>3, <2>5, StartedKinds
    <3>2. QED
      BY <1>1, <1>3, <2>3, <3>1
  <2>6. QED
    BY <2>4, <2>5
<1>4. CASE h = RegionData(region) /\ region > 0 /\ t = Initial /\ at[t] = "serial"
  BY <1>1, <1>4, CurrentKinds, StartedKinds, CountTypes
<1>5. CASE /\ \E e \in created \ ready : h = ExplicitTask(e)
           /\ at[t] \in {"team", "barrier"} /\ barrier < entered[t]
           /\ \A u \in Thread : h \notin OnStack(u)
  <2>1. PICK e \in created \ ready : h = ExplicitTask(e)
    BY <1>5
  <2>2. \A f \in ready : h # ExplicitTask(f)
    BY <2>1, HandleFacts
  <2>3. h \in TaskHandle
    BY <2>1, HandleCases DEF Flow, TypeOK
  <2>4. QED
    BY <1>1, <1>5, <2>1, <2>2, <2>3, CurrentKinds, StartedKinds DEF CurrentTask
<1>6. QED
  BY <1>1, <1>2, <1>3, <1>4, <1>5 DEF Spent

(* An explicit or implicit task that begins, and where.                     *)
LEMMA BegunTask ==
  ASSUME Flow, NEW t \in Thread, InCall(t), NEW h \in call[t].begun, h \in TaskHandle
  PROVE  \/ h \in OnStack(t)
         \/ at[t] = "team" /\ \E e \in ready : h = ExplicitTask(e)
<1>1. Uses(t, h) /\ h[1] \in {"implicit", "explicit"}
  BY CallFacts, KindFacts DEF InUse
<1>2. QED
  BY <1>1, HandleFacts DEF Uses

LEMMA OneStack ==
  ASSUME Flow, NEW t \in Thread, NEW u \in Thread, NEW h \in OnStack(t), h \in OnStack(u)
  PROVE  t = u
<1>1. PICK i \in 1..Len(stack[t]), j \in 1..Len(stack[u]) : h = stack[t][i] /\ h = stack[u][j]
  BY DEF OnStack
<1>2. QED
  BY <1>1 DEF Flow, Stacks

LEMMA StackNotReady ==
  ASSUME Flow, NEW t \in Thread, NEW h \in OnStack(t), NEW e \in ready
  PROVE  h # ExplicitTask(e)
<1>1. h[1] = "explicit" => \E f \in created \ ready : h = ExplicitTask(f)
  BY OnStackFacts, HandleFacts, HandleCases
<1>2. QED
  BY <1>1, HandleFacts

LEMMA OneEvent ==
  ASSUME Flow, NEW t \in Thread, NEW u \in Thread, InCall(t), InCall(u), 
         NEW h \in call[t].begun \cup call[t].ended, h \in call[u].begun \cup call[u].ended
  PROVE  t = u
<1>1. h \in Handle /\ (h \in call[t].begun <=> h \in call[u].begun)
  BY BegunCurrent, EndedGone
<1>2. CASE h \in call[t].begun
  <2>1. CASE h[1] = "thread"
    BY <1>1, <1>2, <2>1, CallFacts, HandleFacts DEF Passes
  <2>2. CASE h[1] = "region"
    BY <1>1, <1>2, <2>2, CallFacts DEF Passes
  <2>3. CASE h \in TaskHandle
    <3>1. CASE h \in OnStack(t)
      BY <1>1, <1>2, <2>3, <3>1, BegunTask, OneStack, StackNotReady
    <3>2. CASE \E e \in ready : h = ExplicitTask(e)
      <4>1. PICK e \in ready : h = ExplicitTask(e)
        BY <3>2
      <4>2. e \in Task
        BY DEF Flow, TypeOK
      <4>3. t # u => Apart(t, u)
        BY DEF Flow, Arguments
      <4>4. QED
        BY <1>1, <1>2, <4>1, <4>2, <4>3 DEF Apart
    <3>3. QED
      BY <1>2, <2>3, <3>1, <3>2, BegunTask
  <2>4. QED
    BY <1>1, <2>1, <2>2, <2>3, KindFacts
<1>3. CASE h \in call[t].ended
  <2>1. h \in call[u].ended
    BY <1>1, <1>3, CallFacts
  <2>2. Spent(t, h) /\ Spent(u, h)
    BY <1>3, <2>1, CallFacts DEF InUse
  <2>3. CASE h[1] = "thread"
    BY <2>2, <2>3, HandleFacts DEF Spent
  <2>4. CASE h[1] = "region"
    BY <2>2, <2>4, HandleFacts DEF Spent
  <2>5. CASE h[1] = "implicit"
    <3>1. h = ImplicitTask(h[2], t) /\ h = ImplicitTask(h[2], u)
      BY <2>2, <2>5, HandleFacts DEF Spent
    <3>2. QED
      BY <3>1, HandleFacts
  <2>6. CASE h[1] = "explicit"
    <3>1. PICK e \in created : h = ExplicitTask(e)
      BY <2>2, <2>6, HandleFacts DEF Spent
    <3>2. e \in Task
      BY DEF Flow, TypeOK
    <3>3. t # u => Apart(t, u)
      BY DEF Flow, Arguments
    <3>4. QED
      BY <1>3, <2>1, <3>1, <3>2, <3>3 DEF Apart
  <2>7. QED
    BY <1>1, <2>3, <2>4, <2>5, <2>6, KindFacts
<1>4. QED
  BY <1>2, <1>3

(* A thread that is in no callback executes, is, or has opened nothing      *)
(* that another one is only about to report.                               *)
LEMMA NotBeginning ==
  ASSUME Flow, NEW t \in Thread, ~InCall(t), NEW h,
         h \in OnStack(t) \/ h = ThreadData(t) \/ (t = Initial /\ h[1] = "region"),
         NEW u \in Thread, InCall(u)
  PROVE  h \notin call[u].begun
<1> SUFFICES ASSUME h \in call[u].begun
             PROVE  FALSE
  OBVIOUS
<1>1. u # t /\ h \in Handle
  BY BegunCurrent
<1>2. CASE h \in OnStack(t)
  <2>1. h \in TaskHandle
    BY <1>2, CurrentKinds
  <2>2. QED
    BY <1>1, <1>2, <2>1, BegunTask, OneStack, StackNotReady
<1>3. CASE h = ThreadData(t)
  BY <1>1, <1>3, CallFacts, HandleFacts DEF Passes
<1>4. CASE t = Initial /\ h[1] = "region"
  BY <1>1, <1>4, CallFacts DEF Passes
<1>5. QED
  BY <1>2, <1>3, <1>4

-----------------------------------------------------------------------------
(* What the events begin and end                                            *)

ThreadHandle == {ThreadData(t) : t \in Thread}

MovesOf(H, begun, ended) ==
  \A h \in H : /\ Current(h)' <=> (Current(h) \/ h \in begun) /\ h \notin ended
               /\ Started(h)' <=> Started(h) \/ h \in begun

Moves(begun, ended) ==
  /\ MovesOf(Handle, begun, ended)
  /\ \A h \in begun : h \in Handle /\ ~Started(h)
  /\ \A h \in ended : /\ h \in Handle /\ Current(h) /\ h # RegionData(0)
                      /\ \A u \in Thread : InCall(u) => h \notin call[u].begun

Kinds ==
  /\ \A t \in Thread : Current(ThreadData(t)) <=> at[t] \notin {"new", "gone", "final"}
  /\ \A r : Current(RegionData(r)) <=>
       \/ r = 0 /\ at[Initial] \notin {"new", "begun"}
       \/ r = region /\ at[Initial] \in {"fork", "team", "barrier", "leaving", "join"}
  /\ \A h \in TaskHandle : Current(h) <=> CurrentTask(h)
  /\ \A t : Started(ThreadData(t)) <=> at[t] # "new"
  /\ \A r : Started(RegionData(r)) <=> IF r = 0 THEN at[Initial] \notin {"new", "begun"} ELSE r <= region
  /\ \A r, t : Started(ImplicitTask(r, t)) <=>
       IF r = 0 THEN at[Initial] \notin {"new", "begun"} ELSE r <= entered[t]
  /\ \A e : Started(ExplicitTask(e)) <=> e \in created

LEMMA KindsNow == Flow => Kinds
BY CurrentKinds, StartedKinds DEF Kinds

LEMMA KindsNext == Flow /\ Next => Kinds /\ Kinds'
<1>1. Flow /\ Next => Flow'
  BY FlowStep
<1>2. Flow => Kinds
  BY KindsNow
<1>3. QED
  BY <1>1, <1>2, PTL

LEMMA GotoFacts ==
  ASSUME Flow, NEW t \in Thread, NEW from, NEW to, Goto(t, from, to)
  PROVE  at[t] = from /\ at'[t] = to /\ (\A u \in Thread \ {t} : at'[u] = at[u]) /\ ~InCall(t)
BY CountTypes DEF Goto

LEMMA AllKinds ==
  ASSUME NEW begun, NEW ended, MovesOf(ThreadHandle, begun, ended),
         MovesOf(RegionHandle, begun, ended), MovesOf(TaskHandle, begun, ended)
  PROVE  MovesOf(Handle, begun, ended)
BY HandleCases DEF MovesOf, ThreadHandle

LEMMA ThreadsStay ==
  ASSUME Kinds, Kinds', NEW begun, NEW ended, begun \subseteq RegionHandle \cup TaskHandle,
         ended \subseteq RegionHandle \cup TaskHandle,
         \A u \in Thread : /\ at'[u] \in {"new", "gone", "final"} <=> at[u] \in {"new", "gone", "final"}
                           /\ at'[u] = "new" <=> at[u] = "new"
  PROVE  MovesOf(ThreadHandle, begun, ended)
<1>1. ASSUME NEW u \in Thread
      PROVE  /\ Current(ThreadData(u))' <=> Current(ThreadData(u))
             /\ Started(ThreadData(u))' <=> Started(ThreadData(u))
             /\ ThreadData(u) \notin begun \cup ended
  BY KindFacts DEF Kinds
<1>2. QED
  BY <1>1 DEF MovesOf, ThreadHandle

LEMMA RegionsStay ==
  ASSUME Kinds, Kinds', NEW begun, NEW ended, begun \subseteq ThreadHandle \cup TaskHandle,
         ended \subseteq ThreadHandle \cup TaskHandle, region' = region,
         at'[Initial] \in {"new", "begun"} <=> at[Initial] \in {"new", "begun"},
         at'[Initial] \in {"fork", "team", "barrier", "leaving", "join"} <=>
           at[Initial] \in {"fork", "team", "barrier", "leaving", "join"}
  PROVE  MovesOf(RegionHandle, begun, ended)
<1>1. ASSUME NEW r
      PROVE  /\ Current(RegionData(r))' <=> Current(RegionData(r))
             /\ Started(RegionData(r))' <=> Started(RegionData(r))
  BY DEF Kinds
<1>2. \A h \in RegionHandle : h \notin begun \cup ended
  BY KindFacts DEF ThreadHandle
<1>3. QED
  BY <1>1, <1>2, HandleCases DEF MovesOf

LEMMA TasksMove ==
  ASSUME Flow, Kinds, Kinds', NEW begun, NEW ended, 
         at'[Initial] \in {"new", "begun"} <=> at[Initial] \in {"new", "begun"},
         \A t \in Thread : \A r \in 1..MaxRegion :
           r <= entered'[t] <=> r <= entered[t] \/ ImplicitTask(r, t) \in begun,
         InitialTask \notin begun,
         \A e \in Task : e \in created' <=> e \in created \/ ExplicitTask(e) \in begun,
         \A h \in TaskHandle : CurrentTask(h)' <=> (CurrentTask(h) \/ h \in begun) /\ h \notin ended
  PROVE  MovesOf(TaskHandle, begun, ended)
<1>1. \A h \in TaskHandle : Current(h)' <=> (Current(h) \/ h \in begun) /\ h \notin ended
  BY DEF Kinds
<1>2. Started(InitialTask)' <=> Started(InitialTask) \/ InitialTask \in begun
  BY DEF Kinds, InitialTask
<1>3. ASSUME NEW t \in Thread, NEW r \in 1..MaxRegion
      PROVE  Started(ImplicitTask(r, t))' <=> Started(ImplicitTask(r, t)) \/ ImplicitTask(r, t) \in begun
  BY DEF Kinds
<1>4. ASSUME NEW e \in Task
      PROVE  Started(ExplicitTask(e))' <=> Started(ExplicitTask(e)) \/ ExplicitTask(e) \in begun
  BY DEF Kinds
<1>5. QED
  BY <1>1, <1>2, <1>3, <1>4, HandleCases DEF MovesOf

LEMMA TasksStay ==
  ASSUME Flow, Kinds, Kinds', NEW begun, NEW ended, begun \subseteq ThreadHandle \cup RegionHandle,
         ended \subseteq ThreadHandle \cup RegionHandle,
         at'[Initial] \in {"new", "begun"} <=> at[Initial] \in {"new", "begun"},
         entered' = entered, UNCHANGED <<stack, ready, created>>
  PROVE  MovesOf(TaskHandle, begun, ended)
<1>1. \A h \in TaskHandle : h \notin begun \cup ended
  BY KindFacts DEF ThreadHandle
<1>2. \A h : CurrentTask(h)' <=> CurrentTask(h)
  BY OnStackSame DEF CurrentTask
<1>3. \A t \in Thread : \A r \in 1..MaxRegion : ImplicitTask(r, t) \notin begun
  BY <1>1, HandleCases
<1>4. InitialTask \notin begun /\ \A e \in Task : ExplicitTask(e) \notin begun
  BY <1>1, HandleCases
<1>5. QED
  BY <1>1, <1>2, <1>3, <1>4, TasksMove

(* The events, one by one.                                                 *)

LEMMA SyncRegionBeginMoves ==
  ASSUME Flow, Next, NEW t \in Thread, SyncRegionBegin(t)
  PROVE  Moves({}, {})
<1>1. Kinds /\ Kinds'
  BY KindsNext
<1>2. /\ at[t] \in {"team"} /\ at'[t] \in {"barrier"} /\ \A u \in Thread \ {t} : at'[u] = at[u]
      /\ Initial \in Thread /\ UNCHANGED <<stack, entered, region, ready, created>>
  BY GotoFacts, HandleCases DEF SyncRegionBegin
<1>3. MovesOf(ThreadHandle, {}, {})
  BY <1>1, <1>2, ThreadsStay
<1>4. MovesOf(RegionHandle, {}, {})
  BY <1>1, <1>2, RegionsStay
<1>5. MovesOf(TaskHandle, {}, {})
  BY <1>1, <1>2, TasksStay
<1>6. QED
  BY <1>3, <1>4, <1>5, AllKinds DEF Moves

LEMMA SyncRegionEndMoves ==
  ASSUME Flow, Next, NEW t \in Thread, SyncRegionEnd(t)
  PROVE  Moves({}, {})
<1>1. Kinds /\ Kinds'
  BY KindsNext
<1>2. /\ at[t] \in {"barrier"} /\ at'[t] \in {"leaving"} /\ \A u \in Thread \ {t} : at'[u] = at[u]
      /\ Initial \in Thread /\ UNCHANGED <<stack, entered, region, ready, created>>
  BY GotoFacts, HandleCases DEF SyncRegionEnd
<1>3. MovesOf(ThreadHandle, {}, {})
  BY <1>1, <1>2, ThreadsStay
<1>4. MovesOf(RegionHandle, {}, {})
  BY <1>1, <1>2, RegionsStay
<1>5. MovesOf(TaskHandle, {}, {})
  BY <1>1, <1>2, TasksStay
<1>6. QED
  BY <1>3, <1>4, <1>5, AllKinds DEF Moves

LEMMA WorkMoves ==
  ASSUME Flow, Next, NEW t \in Thread, Work(t)
  PROVE  Moves({}, {})
<1>1. Kinds /\ Kinds'
  BY KindsNext
<1>2. /\ at[t] \in {"team"} /\ at'[t] \in {"team"} /\ \A u \in Thread \ {t} : at'[u] = at[u]
      /\ Initial \in Thread /\ UNCHANGED <<stack, entered, region, ready, created>>
  BY GotoFacts, HandleCases DEF Work
<1>3. MovesOf(ThreadHandle, {}, {})
  BY <1>1, <1>2, ThreadsStay
<1>4. MovesOf(RegionHandle, {}, {})
  BY <1>1, <1>2, RegionsStay
<1>5. MovesOf(TaskHandle, {}, {})
  BY <1>1, <1>2, TasksStay
<1>6. QED
  BY <1>3, <1>4, <1>5, AllKinds DEF Moves

LEMMA ControlToolEndMoves ==
  ASSUME Flow, Next, ControlToolEnd
  PROVE  Moves({}, {})
<1>1. Kinds /\ Kinds'
  BY KindsNext
<1>2. /\ at[Initial] \in {"serial"} /\ at'[Initial] \in {"ending"} /\ \A u \in Thread \ {Initial} : at'[u] = at[u]
      /\ Initial \in Thread /\ UNCHANGED <<stack, entered, region, ready, created>>
  BY GotoFacts, HandleCases DEF ControlToolEnd
<1>3. MovesOf(ThreadHandle, {}, {})
  BY <1>1, <1>2, ThreadsStay
<1>4. MovesOf(RegionHandle, {}, {})
  BY <1>1, <1>2, RegionsStay
<1>5. MovesOf(TaskHandle, {}, {})
  BY <1>1, <1>2, TasksStay
<1>6. QED
  BY <1>3, <1>4, <1>5, AllKinds DEF Moves

LEMMA FinalizeMoves ==
  ASSUME Flow, Next, Finalize
  PROVE  Moves({}, {})
<1>1. Kinds /\ Kinds'
  BY KindsNext
<1>2. /\ at[Initial] \in {"gone"} /\ at'[Initial] \in {"final"} /\ \A u \in Thread \ {Initial} : at'[u] = at[u]
      /\ Initial \in Thread /\ UNCHANGED <<stack, entered, region, ready, created>>
  BY GotoFacts, HandleCases DEF Finalize
<1>3. MovesOf(ThreadHandle, {}, {})
  BY <1>1, <1>2, ThreadsStay
<1>4. MovesOf(RegionHandle, {}, {})
  BY <1>1, <1>2, RegionsStay
<1>5. MovesOf(TaskHandle, {}, {})
  BY <1>1, <1>2, TasksStay
<1>6. QED
  BY <1>3, <1>4, <1>5, AllKinds DEF Moves

LEMMA ThreadBeginMoves ==
  ASSUME Flow, Next, NEW t \in Thread, ThreadBegin(t)
  PROVE  Moves({ThreadData(t)}, {})
<1>1. Kinds /\ Kinds'
  BY KindsNext
<1>2. /\ at[t] = "new" /\ at'[t] \in {"begun", "idle"} /\ \A u \in Thread \ {t} : at'[u] = at[u]
      /\ t = Initial => at'[t] = "begun"
      /\ Initial \in Thread /\ UNCHANGED <<stack, entered, region, ready, created>>
  BY GotoFacts, HandleCases DEF ThreadBegin
<1>3. ASSUME NEW u \in Thread
      PROVE  /\ Current(ThreadData(u))' <=> Current(ThreadData(u)) \/ ThreadData(u) \in {ThreadData(t)}
             /\ Started(ThreadData(u))' <=> Started(ThreadData(u)) \/ ThreadData(u) \in {ThreadData(t)}
  <2>1. ThreadData(u) = ThreadData(t) <=> u = t
    BY HandleFacts
  <2>2. QED
    BY <1>1, <1>2, <2>1 DEF Kinds
<1>4. MovesOf(ThreadHandle, {ThreadData(t)}, {})
  BY <1>3 DEF MovesOf, ThreadHandle
<1>5. {ThreadData(t)} \subseteq ThreadHandle
  BY DEF ThreadHandle
<1>6. MovesOf(RegionHandle, {ThreadData(t)}, {})
  BY <1>1, <1>2, <1>5, RegionsStay
<1>7. MovesOf(TaskHandle, {ThreadData(t)}, {})
  BY <1>1, <1>2, <1>5, TasksStay
<1>8. ThreadData(t) \in Handle /\ ~Started(ThreadData(t))
  BY <1>1, <1>2, HandleCases DEF Kinds
<1>9. QED
  BY <1>4, <1>6, <1>7, <1>8, AllKinds DEF Moves

LEMMA ThreadEndMoves ==
  ASSUME Flow, Next, NEW t \in Thread, ThreadEnd(t)
  PROVE  Moves({}, {ThreadData(t)})
<1>1. Kinds /\ Kinds'
  BY KindsNext
<1>2. /\ at[t] \in {"idle", "done"} /\ at'[t] = "gone" /\ \A u \in Thread \ {t} : at'[u] = at[u]
      /\ t = Initial => at[t] = "done"
      /\ Initial \in Thread /\ UNCHANGED <<stack, entered, region, ready, created>> /\ ~InCall(t)
  BY GotoFacts, HandleCases DEF ThreadEnd
<1>3. ASSUME NEW u \in Thread
      PROVE  /\ Current(ThreadData(u))' <=> Current(ThreadData(u)) /\ ThreadData(u) \notin {ThreadData(t)}
             /\ Started(ThreadData(u))' <=> Started(ThreadData(u))
  <2>1. ThreadData(u) = ThreadData(t) <=> u = t
    BY HandleFacts
  <2>2. QED
    BY <1>1, <1>2, <2>1 DEF Kinds
<1>4. MovesOf(ThreadHandle, {}, {ThreadData(t)})
  BY <1>3 DEF MovesOf, ThreadHandle
<1>5. {ThreadData(t)} \subseteq ThreadHandle
  BY DEF ThreadHandle
<1>6. MovesOf(RegionHandle, {}, {ThreadData(t)})
  BY <1>1, <1>2, <1>5, RegionsStay
<1>7. MovesOf(TaskHandle, {}, {ThreadData(t)})
  BY <1>1, <1>2, <1>5, TasksStay
<1>8. /\ ThreadData(t) \in Handle /\ Current(ThreadData(t)) /\ ThreadData(t) # RegionData(0)
      /\ \A u \in Thread : InCall(u) => ThreadData(t) \notin call[u].begun
  BY <1>1, <1>2, HandleCases, HandleFacts, NotBeginning DEF Kinds
<1>9. QED
  BY <1>4, <1>6, <1>7, <1>8, AllKinds DEF Moves

LEMMA InitialTaskBeginMoves ==
  ASSUME Flow, Next, InitialTaskBegin
  PROVE  Moves({RegionData(0), InitialTask}, {})
<1> DEFINE new == {RegionData(0), InitialTask}
<1>1. Kinds /\ Kinds'
  BY KindsNext
<1>2. /\ at[Initial] = "begun" /\ at'[Initial] = "serial" /\ \A u \in Thread \ {Initial} : at'[u] = at[u]
      /\ Initial \in Thread /\ UNCHANGED <<entered, region, ready, created>>
      /\ \A u \in Thread \ {Initial} : stack'[u] = stack[u]
  BY GotoFacts, HandleCases DEF InitialTaskBegin, Flow, TypeOK
<1>3. RegionData(0) \in RegionHandle /\ InitialTask \in TaskHandle /\ region = 0 /\ RegionHandle \cup TaskHandle \subseteq Handle
  BY <1>2, HandleCases DEF Flow, Places
<1>4. new \subseteq RegionHandle \cup TaskHandle
  BY <1>3
<1>5. MovesOf(ThreadHandle, new, {})
  <2> HIDE DEF new
  <2>1. QED
    BY <1>1, <1>2, <1>4, ThreadsStay
<1>6. MovesOf(RegionHandle, new, {})
  <2>1. ASSUME NEW r \in 0..MaxRegion
        PROVE  /\ Current(RegionData(r))' <=> Current(RegionData(r)) \/ r = 0
               /\ Started(RegionData(r))' <=> Started(RegionData(r)) \/ r = 0
               /\ RegionData(r) \in new <=> r = 0
    <3>1. RegionData(r) \in new <=> r = 0
      BY HandleFacts, KindFacts, HandleCases
    <3>2. QED
      BY <1>1, <1>2, <1>3, <3>1 DEF Kinds
  <2>2. QED
    BY <2>1, HandleCases DEF MovesOf
<1>7. MovesOf(TaskHandle, new, {})
  <2>1. \A h \in TaskHandle : h \in new <=> h = InitialTask
    BY <1>3, KindFacts
  <2>2. OnStack(Initial) = {} /\ OnStack(Initial)' = {InitialTask}
    BY OnStackInitial
  <2>3. \A u \in Thread \ {Initial} : OnStack(u)' = OnStack(u)
    BY <1>2, OnStackSame
  <2>4. \A h \in TaskHandle : CurrentTask(h)' <=> CurrentTask(h) \/ h \in new
    BY <1>2, <2>1, <2>2, <2>3 DEF CurrentTask
  <2>5. \A h \in TaskHandle : Current(h)' <=> Current(h) \/ h \in new
    BY <1>1, <2>4 DEF Kinds
  <2>6. Started(InitialTask)'
    BY <1>1, <1>2 DEF Kinds, InitialTask
  <2>7. ASSUME NEW u \in Thread, NEW r \in 1..MaxRegion
        PROVE  (Started(ImplicitTask(r, u))' <=> Started(ImplicitTask(r, u))) /\ ImplicitTask(r, u) # InitialTask
    <3>1. ImplicitTask(r, u) # InitialTask
      BY HandleFacts DEF InitialTask
    <3>2. QED
      BY <1>1, <1>2, <3>1 DEF Kinds
  <2>8. ASSUME NEW e \in Task
        PROVE  (Started(ExplicitTask(e))' <=> Started(ExplicitTask(e))) /\ ExplicitTask(e) # InitialTask
    <3>1. ExplicitTask(e) # InitialTask
      BY HandleFacts DEF InitialTask
    <3>2. QED
      BY <1>1, <1>2, <3>1 DEF Kinds
  <2>9. \A h \in TaskHandle : Started(h)' <=> Started(h) \/ h \in new
    BY <2>1, <2>6, <2>7, <2>8, HandleCases
  <2>10. QED
    BY <2>5, <2>9 DEF MovesOf
<1>8. ~Started(RegionData(0)) /\ ~Started(InitialTask)
  BY <1>1, <1>2 DEF Kinds, InitialTask
<1>9. QED
  BY <1>3, <1>5, <1>6, <1>7, <1>8, AllKinds DEF Moves

LEMMA ParallelBeginMoves ==
  ASSUME Flow, Next, ParallelBegin
  PROVE  Moves({RegionData(region')}, {})
<1> DEFINE new == {RegionData(region')}
<1>1. Kinds /\ Kinds'
  BY KindsNext
<1>2. /\ at[Initial] = "serial" /\ at'[Initial] = "fork" /\ \A u \in Thread \ {Initial} : at'[u] = at[u]
      /\ Initial \in Thread /\ UNCHANGED <<stack, entered, ready, created>>
      /\ region' = region + 1 /\ region' \in 1..MaxRegion /\ region \in Nat
  BY GotoFacts, HandleCases, CountTypes DEF ParallelBegin
<1>3. RegionData(region') \in RegionHandle /\ RegionHandle \subseteq Handle
  BY <1>2, HandleCases
<1>4. new \subseteq RegionHandle
  BY <1>3
<1>5. MovesOf(ThreadHandle, new, {})
  <2> HIDE DEF new
  <2>1. QED
    BY <1>1, <1>2, <1>4, ThreadsStay
<1>6. MovesOf(RegionHandle, new, {})
  <2>1. ASSUME NEW r \in 0..MaxRegion
        PROVE  /\ Current(RegionData(r))' <=> Current(RegionData(r)) \/ r = region'
               /\ Started(RegionData(r))' <=> Started(RegionData(r)) \/ r = region'
               /\ RegionData(r) \in new <=> r = region'
    <3>1. RegionData(r) \in new <=> r = region'
      BY HandleFacts
    <3>2. Current(RegionData(r))' <=> Current(RegionData(r)) \/ r = region'
      BY <1>1, <1>2 DEF Kinds
    <3>3. Started(RegionData(r))' <=> Started(RegionData(r)) \/ r = region'
      BY <1>1, <1>2 DEF Kinds
    <3>4. QED
      BY <3>1, <3>2, <3>3
  <2>2. QED
    BY <2>1, HandleCases DEF MovesOf
<1>7. MovesOf(TaskHandle, new, {})
  <2> HIDE DEF new
  <2>1. QED
    BY <1>1, <1>2, <1>4, TasksStay
<1>8. ~Started(RegionData(region'))
  BY <1>1, <1>2 DEF Kinds
<1>9. QED
  BY <1>3, <1>5, <1>6, <1>7, <1>8, AllKinds DEF Moves

LEMMA ParallelEndMoves ==
  ASSUME Flow, Next, ParallelEnd
  PROVE  Moves({}, {RegionData(region)})
<1> DEFINE old == {RegionData(region)}
<1>1. Kinds /\ Kinds'
  BY KindsNext
<1>2. /\ at[Initial] = "join" /\ at'[Initial] = "serial" /\ \A u \in Thread \ {Initial} : at'[u] = at[u]
      /\ Initial \in Thread /\ UNCHANGED <<stack, entered, region, ready, created>> /\ ~InCall(Initial)
  BY GotoFacts, HandleCases DEF ParallelEnd
<1>3. region \in 1..MaxRegion
  BY <1>2, CountTypes DEF Flow, Places
<1>4. RegionData(region) \in RegionHandle /\ RegionHandle \subseteq Handle
  BY <1>3, HandleCases
<1>5. MovesOf(ThreadHandle, {}, old)
  <2>1. old \subseteq RegionHandle
    BY <1>4
  <2> HIDE DEF old
  <2>2. QED
    BY <1>1, <1>2, <2>1, ThreadsStay
<1>6. MovesOf(RegionHandle, {}, old)
  <2>1. ASSUME NEW r \in 0..MaxRegion
        PROVE  /\ Current(RegionData(r))' <=> Current(RegionData(r)) /\ r # region
               /\ Started(RegionData(r))' <=> Started(RegionData(r))
               /\ RegionData(r) \in old <=> r = region
    <3>1. RegionData(r) \in old <=> r = region
      BY HandleFacts
    <3>2. Current(RegionData(r))' <=> Current(RegionData(r)) /\ r # region
      BY <1>1, <1>2, <1>3 DEF Kinds
    <3>3. Started(RegionData(r))' <=> Started(RegionData(r))
      BY <1>1, <1>2 DEF Kinds
    <3>4. QED
      BY <3>1, <3>2, <3>3
  <2>2. QED
    BY <2>1, HandleCases DEF MovesOf
<1>7. MovesOf(TaskHandle, {}, old)
  <2>1. old \subseteq RegionHandle
    BY <1>4
  <2> HIDE DEF old
  <2>2. QED
    BY <1>1, <1>2, <2>1, TasksStay
<1>8. Current(RegionData(region)) /\ RegionData(region) # RegionData(0)
  BY <1>1, <1>2, <1>3, HandleFacts DEF Kinds
<1>9. \A u \in Thread : InCall(u) => RegionData(region) \notin call[u].begun
  BY <1>2, HandleFacts, NotBeginning
<1>10. QED
  BY <1>4, <1>5, <1>6, <1>7, <1>8, <1>9, AllKinds DEF Moves

LEMMA InitialTaskEndMoves ==
  ASSUME Flow, Next, InitialTaskEnd
  PROVE  Moves({}, {InitialTask})
<1> DEFINE old == {InitialTask}
<1>1. Kinds /\ Kinds'
  BY KindsNext
<1>2. /\ at[Initial] = "serial" /\ at'[Initial] = "done" /\ \A u \in Thread \ {Initial} : at'[u] = at[u]
      /\ Initial \in Thread /\ UNCHANGED <<entered, region, ready, created>> /\ ~InCall(Initial)
      /\ \A u \in Thread \ {Initial} : stack'[u] = stack[u]
  <2>1. stack' = [stack EXCEPT ![Initial] = <<>>] /\ DOMAIN stack = Thread
    BY DEF InitialTaskEnd, Flow, TypeOK
  <2>2. \A u \in Thread \ {Initial} : stack'[u] = stack[u]
    BY <2>1
  <2>3. QED
    BY <2>2, GotoFacts, HandleCases DEF InitialTaskEnd
<1>3. OnStack(Initial) = {InitialTask} /\ OnStack(Initial)' = {} /\ InitialTask \in TaskHandle /\ InitialTask \in Handle
  BY OnStackInitial, HandleCases
<1>4. old \subseteq TaskHandle
  BY <1>3
<1>5. MovesOf(ThreadHandle, {}, old)
  <2> HIDE DEF old
  <2>1. QED
    BY <1>1, <1>2, <1>4, ThreadsStay
<1>6. MovesOf(RegionHandle, {}, old)
  <2> HIDE DEF old
  <2>1. QED
    BY <1>1, <1>2, <1>4, RegionsStay
<1>7. MovesOf(TaskHandle, {}, old)
  <2>1. \A u \in Thread \ {Initial} : OnStack(u)' = OnStack(u)
    BY <1>2, OnStackSame
  <2>2. \A u \in Thread \ {Initial} : InitialTask \notin OnStack(u)
    BY <1>2, <1>3, OneStack
  <2>3. \A e \in ready : InitialTask # ExplicitTask(e)
    BY HandleFacts DEF InitialTask
  <2>4. \A h \in TaskHandle : CurrentTask(h)' <=> CurrentTask(h) /\ h \notin old
    BY <1>2, <1>3, <2>1, <2>2, <2>3 DEF CurrentTask
  <2>5. QED
    BY <1>1, <1>2, <2>4, TasksMove
<1>8. /\ Current(InitialTask) /\ InitialTask # RegionData(0)
      /\ \A u \in Thread : InCall(u) => InitialTask \notin call[u].begun
  <2>1. InitialTask \in OnStack(Initial)
    BY <1>3
  <2>2. Current(InitialTask)
    BY <1>2, <2>1 DEF Current, CurrentTask
  <2>3. InitialTask # RegionData(0)
    BY HandleFacts DEF InitialTask
  <2>4. QED
    BY <1>2, <2>1, <2>2, <2>3, NotBeginning
<1>9. QED
  BY <1>3, <1>5, <1>6, <1>7, <1>8, AllKinds DEF Moves

LEMMA ImplicitTaskBeginMoves ==
  ASSUME Flow, Next, NEW t \in Thread, ImplicitTaskBegin(t)
  PROVE  Moves({ImplicitTask(region, t)}, {})
<1> DEFINE new == {ImplicitTask(region, t)}
<1>1. Kinds /\ Kinds'
  BY KindsNext
<1>2. /\ at[t] \in {"fork", "idle"} /\ at'[t] = "team" /\ \A u \in Thread \ {t} : at'[u] = at[u]
      /\ t = Initial => at[t] = "fork"
      /\ Initial \in Thread /\ UNCHANGED <<region, ready, created>>
      /\ \A u \in Thread \ {t} : stack'[u] = stack[u] /\ entered'[u] = entered[u]
      /\ entered'[t] = region /\ entered[t] < region
  <2>1. /\ stack' = [stack EXCEPT ![t] = <<ImplicitTask(region, t)>> \o stack[t]] /\ DOMAIN stack = Thread
        /\ entered' = [entered EXCEPT ![t] = region] /\ DOMAIN entered = Thread
    BY Zenon DEF ImplicitTaskBegin, Flow, TypeOK
  <2>2. \A u \in Thread \ {t} : stack'[u] = stack[u] /\ entered'[u] = entered[u]
    BY <2>1, Zenon
  <2>3. entered'[t] = region
    BY <2>1, Zenon
  <2>4. Goto(t, IF t = Initial THEN "fork" ELSE "idle", "team") /\ entered[t] < region /\ UNCHANGED <<region, ready, created>>
    BY DEF ImplicitTaskBegin
  <2>5. QED
    BY <2>2, <2>3, <2>4, GotoFacts, HandleCases
<1>3. /\ region \in 1..MaxRegion /\ entered[t] \in Nat /\ region <= entered[t] + 1
      /\ \A u \in Thread : entered[u] \in Nat
  BY <1>2, CountTypes DEF Flow, Places
<1>4. ImplicitTask(region, t) \in TaskHandle /\ TaskHandle \subseteq Handle
  BY <1>3, HandleCases
<1>5. MovesOf(ThreadHandle, new, {})
  <2>1. new \subseteq TaskHandle
    BY <1>4
  <2> HIDE DEF new
  <2>2. QED
    BY <1>1, <1>2, <2>1, ThreadsStay
<1>6. MovesOf(RegionHandle, new, {})
  <2>1. new \subseteq TaskHandle
    BY <1>4
  <2> HIDE DEF new
  <2>2. QED
    BY <1>1, <1>2, <2>1, RegionsStay
<1>7. MovesOf(TaskHandle, new, {})
  <2>1. OnStack(t)' = OnStack(t) \cup new
    BY OnStackImplicitBegin
  <2>2. \A u \in Thread \ {t} : OnStack(u)' = OnStack(u)
    BY <1>2, OnStackSame
  <2>3. \A h \in TaskHandle : CurrentTask(h)' <=> CurrentTask(h) \/ h \in new
    BY <1>2, <2>1, <2>2 DEF CurrentTask
  <2>4. ASSUME NEW u \in Thread, NEW r \in 1..MaxRegion
        PROVE  r <= entered'[u] <=> r <= entered[u] \/ ImplicitTask(r, u) \in new
    <3>1. ImplicitTask(r, u) \in new <=> r = region /\ u = t
      BY HandleFacts
    <3>2. CASE u = t
      BY <1>2, <1>3, <3>1, <3>2
    <3>3. CASE u # t
      BY <1>2, <1>3, <3>1, <3>3
    <3>4. QED
      BY <3>2, <3>3
  <2>5. InitialTask \notin new
    BY <1>3, HandleFacts DEF InitialTask
  <2>6. \A e \in Task : ExplicitTask(e) \notin new
    BY HandleFacts
  <2>7. at'[Initial] \in {"new", "begun"} <=> at[Initial] \in {"new", "begun"}
    BY <1>2
  <2> HIDE DEF new
  <2>8. QED
    BY <1>1, <1>2, <2>3, <2>4, <2>5, <2>6, <2>7, TasksMove
<1>8. ~Started(ImplicitTask(region, t))
  BY <1>1, <1>2, <1>3 DEF Kinds
<1>9. QED
  BY <1>4, <1>5, <1>6, <1>7, <1>8, AllKinds DEF Moves

LEMMA TaskCreateMoves ==
  ASSUME Flow, Next, NEW t \in Thread, NEW e \in Task, TaskCreate(t, e)
  PROVE  Moves({ExplicitTask(e)}, {})
<1> DEFINE new == {ExplicitTask(e)}
<1>1. Kinds /\ Kinds'
  BY KindsNext
<1>2. /\ \A u \in Thread : at'[u] = at[u]
      /\ Initial \in Thread /\ UNCHANGED <<stack, entered, region>>
      /\ e \notin created /\ created' = created \cup {e} /\ ready' = ready \cup {e}
  BY GotoFacts, HandleCases DEF TaskCreate
<1>3. ExplicitTask(e) \in TaskHandle /\ TaskHandle \subseteq Handle
  BY HandleCases
<1>4. MovesOf(ThreadHandle, new, {})
  <2>1. new \subseteq TaskHandle
    BY <1>3
  <2> HIDE DEF new
  <2>2. QED
    BY <1>1, <1>2, <2>1, ThreadsStay
<1>5. MovesOf(RegionHandle, new, {})
  <2>1. new \subseteq TaskHandle
    BY <1>3
  <2> HIDE DEF new
  <2>2. QED
    BY <1>1, <1>2, <2>1, RegionsStay
<1>6. MovesOf(TaskHandle, new, {})
  <2>1. \A u \in Thread : OnStack(u)' = OnStack(u)
    BY <1>2, OnStackSame
  <2>2. \A h \in TaskHandle : CurrentTask(h)' <=> CurrentTask(h) \/ h \in new
    BY <1>2, <2>1 DEF CurrentTask
  <2>3. \A f \in Task : f \in created' <=> f \in created \/ ExplicitTask(f) \in new
    BY <1>2, HandleFacts
  <2>4. InitialTask \notin new /\ \A u \in Thread : \A r \in 1..MaxRegion : ImplicitTask(r, u) \notin new
    BY HandleFacts DEF InitialTask
  <2> HIDE DEF new
  <2>5. QED
    BY <1>1, <1>2, <2>2, <2>3, <2>4, TasksMove
<1>7. ~Started(ExplicitTask(e))
  BY <1>1, <1>2 DEF Kinds
<1>8. QED
  BY <1>3, <1>4, <1>5, <1>6, <1>7, AllKinds DEF Moves

LEMMA TaskSwitchMoves ==
  ASSUME Flow, Next, NEW t \in Thread, NEW e \in Task, TaskSwitch(t, e)
  PROVE  Moves({}, {})
<1>1. Kinds /\ Kinds'
  BY KindsNext
<1>2. /\ \A u \in Thread : at'[u] = at[u]
      /\ Initial \in Thread /\ UNCHANGED <<entered, region, created>>
      /\ e \in ready /\ ready' = ready \ {e}
      /\ \A u \in Thread \ {t} : stack'[u] = stack[u]
  <2>1. stack' = [stack EXCEPT ![t] = <<ExplicitTask(e)>> \o stack[t]] /\ DOMAIN stack = Thread
    BY Zenon DEF TaskSwitch, Flow, TypeOK
  <2>2. \A u \in Thread \ {t} : stack'[u] = stack[u]
    BY <2>1, Zenon
  <2>3. Goto(t, at[t], at[t]) /\ e \in ready /\ ready' = ready \ {e} /\ UNCHANGED <<entered, region, created>>
    BY DEF TaskSwitch
  <2>4. QED
    BY <2>2, <2>3, GotoFacts, HandleCases
<1>3. MovesOf(ThreadHandle, {}, {})
  BY <1>1, <1>2, ThreadsStay
<1>4. MovesOf(RegionHandle, {}, {})
  BY <1>1, <1>2, RegionsStay
<1>5. MovesOf(TaskHandle, {}, {})
  <2>1. OnStack(t)' = OnStack(t) \cup {ExplicitTask(e)}
    BY OnStackSwitch
  <2>2. \A u \in Thread \ {t} : OnStack(u)' = OnStack(u)
    BY <1>2, OnStackSame
  <2>3. \A h : (\E f \in ready : h = ExplicitTask(f)) <=> (\E f \in ready' : h = ExplicitTask(f)) \/ h = ExplicitTask(e)
    BY <1>2
  <2>4. \A h : (\E u \in Thread : h \in OnStack(u)') <=> (\E u \in Thread : h \in OnStack(u)) \/ h = ExplicitTask(e)
    BY <2>1, <2>2
  <2>5. \A h \in TaskHandle : CurrentTask(h)' <=> CurrentTask(h)
    BY <2>3, <2>4 DEF CurrentTask
  <2>6. QED
    BY <1>1, <1>2, <2>5, TasksMove
<1>6. QED
  BY <1>3, <1>4, <1>5, AllKinds DEF Moves

LEMMA ImplicitTaskEndMoves ==
  ASSUME Flow, Next, NEW t \in Thread, ImplicitTaskEnd(t)
  PROVE  Moves({}, {stack[t][1]})
<1> DEFINE old == {stack[t][1]}
<1>1. Kinds /\ Kinds'
  BY KindsNext
<1>2. /\ at[t] \in {"leaving"} /\ at'[t] \in {"idle", "join"} /\ \A u \in Thread \ {t} : at'[u] = at[u]
      /\ t = Initial => at'[t] # "idle"
      /\ Initial \in Thread /\ UNCHANGED <<entered, region, ready, created>> /\ ~InCall(t)
      /\ \A u \in Thread \ {t} : stack'[u] = stack[u]
  <2>1. stack' = [stack EXCEPT ![t] = Tail(stack[t])] /\ DOMAIN stack = Thread
    BY Zenon DEF ImplicitTaskEnd, Flow, TypeOK
  <2>2. \A u \in Thread \ {t} : stack'[u] = stack[u]
    BY <2>1, Zenon
  <2>3. Goto(t, "leaving", IF t = Initial THEN "join" ELSE "idle") /\ UNCHANGED <<entered, region, ready, created>>
    BY DEF ImplicitTaskEnd
  <2>4. QED
    BY <2>2, <2>3, GotoFacts, HandleCases
<1>3. stack[t][1] \in OnStack(t) /\ OnStack(t) \subseteq TaskHandle /\ TaskHandle \subseteq Handle
  BY <1>2, TopFacts, CurrentKinds, HandleCases
<1>4. old \subseteq TaskHandle
  BY <1>3
<1>5. MovesOf(ThreadHandle, {}, old)
  <2> HIDE DEF old
  <2>1. QED
    BY <1>1, <1>2, <1>4, ThreadsStay
<1>6. MovesOf(RegionHandle, {}, old)
  <2> HIDE DEF old
  <2>1. QED
    BY <1>1, <1>2, <1>4, RegionsStay
<1>7. MovesOf(TaskHandle, {}, old)
  <2>1. OnStack(t)' = OnStack(t) \ old
    BY OnStackEnd
  <2>2. \A u \in Thread \ {t} : OnStack(u)' = OnStack(u)
    BY <1>2, OnStackSame
  <2>3. \A u \in Thread \ {t} : stack[t][1] \notin OnStack(u)
    BY <1>3, OneStack
  <2>4. \A e \in ready : stack[t][1] # ExplicitTask(e)
    BY <1>3, StackNotReady
  <2>5. \A h \in TaskHandle : CurrentTask(h)' <=> CurrentTask(h) /\ h \notin old
    BY <1>2, <2>1, <2>2, <2>3, <2>4 DEF CurrentTask
  <2> HIDE DEF old
  <2>6. QED
    BY <1>1, <1>2, <2>5, TasksMove
<1>8. /\ Current(stack[t][1]) /\ stack[t][1] # RegionData(0)
      /\ \A u \in Thread : InCall(u) => stack[t][1] \notin call[u].begun
  <2>1. Current(stack[t][1])
    BY <1>3 DEF Current, CurrentTask
  <2>2. stack[t][1] # RegionData(0)
    BY <1>3, KindFacts, HandleFacts
  <2>3. QED
    BY <1>2, <1>3, <2>1, <2>2, NotBeginning
<1>9. QED
  BY <1>3, <1>5, <1>6, <1>7, <1>8, AllKinds DEF Moves

LEMMA TaskEndMoves ==
  ASSUME Flow, Next, NEW t \in Thread, NEW status \in EndStatus, TaskEnd(t, status)
  PROVE  Moves({}, {stack[t][1]})
<1> DEFINE old == {stack[t][1]}
<1>1. Kinds /\ Kinds'
  BY KindsNext
<1>2. /\ at[t] \in {"team", "barrier"} /\ at'[t] \in {"team", "barrier"} /\ \A u \in Thread \ {t} : at'[u] = at[u]
      /\ t = Initial => at'[t] # "idle"
      /\ Initial \in Thread /\ UNCHANGED <<entered, region, ready, created>> /\ ~InCall(t)
      /\ \A u \in Thread \ {t} : stack'[u] = stack[u]
  <2>1. stack' = [stack EXCEPT ![t] = Tail(stack[t])] /\ DOMAIN stack = Thread
    BY Zenon DEF TaskEnd, Flow, TypeOK
  <2>2. \A u \in Thread \ {t} : stack'[u] = stack[u]
    BY <2>1, Zenon
  <2>3. at[t] \in {"team", "barrier"} /\ Goto(t, at[t], at[t]) /\ UNCHANGED <<entered, region, ready, created>>
    BY DEF TaskEnd
  <2>4. QED
    BY <2>2, <2>3, GotoFacts, HandleCases
<1>3. stack[t][1] \in OnStack(t) /\ OnStack(t) \subseteq TaskHandle /\ TaskHandle \subseteq Handle
  BY <1>2, TopFacts, CurrentKinds, HandleCases
<1>4. old \subseteq TaskHandle
  BY <1>3
<1>5. MovesOf(ThreadHandle, {}, old)
  <2> HIDE DEF old
  <2>1. QED
    BY <1>1, <1>2, <1>4, ThreadsStay
<1>6. MovesOf(RegionHandle, {}, old)
  <2> HIDE DEF old
  <2>1. QED
    BY <1>1, <1>2, <1>4, RegionsStay
<1>7. MovesOf(TaskHandle, {}, old)
  <2>1. OnStack(t)' = OnStack(t) \ old
    BY OnStackEnd
  <2>2. \A u \in Thread \ {t} : OnStack(u)' = OnStack(u)
    BY <1>2, OnStackSame
  <2>3. \A u \in Thread \ {t} : stack[t][1] \notin OnStack(u)
    BY <1>3, OneStack
  <2>4. \A e \in ready : stack[t][1] # ExplicitTask(e)
    BY <1>3, StackNotReady
  <2>5. \A h \in TaskHandle : CurrentTask(h)' <=> CurrentTask(h) /\ h \notin old
    BY <1>2, <2>1, <2>2, <2>3, <2>4 DEF CurrentTask
  <2> HIDE DEF old
  <2>6. QED
    BY <1>1, <1>2, <2>5, TasksMove
<1>8. /\ Current(stack[t][1]) /\ stack[t][1] # RegionData(0)
      /\ \A u \in Thread : InCall(u) => stack[t][1] \notin call[u].begun
  <2>1. Current(stack[t][1])
    BY <1>3 DEF Current, CurrentTask
  <2>2. stack[t][1] # RegionData(0)
    BY <1>3, KindFacts, HandleFacts
  <2>3. QED
    BY <1>2, <1>3, <2>1, <2>2, NotBeginning
<1>9. QED
  BY <1>3, <1>5, <1>6, <1>7, <1>8, AllKinds DEF Moves

-----------------------------------------------------------------------------
(* What the tools know after an event                                       *)

LEMMA NotStarted ==
  ASSUME Flow, NEW h \in Handle, ~Started(h)
  PROVE  ~Current(h) /\ \A q : ~Beginning(h, q) /\ ~Ending(h, q)
<1>1. \A t \in Thread : InCall(t) <=> Remaining(t) # {}
  BY RemainingFacts
<1>2. QED
  BY <1>1, CurrentStarted, BegunCurrent, EndedGone DEF Beginning, Ending

LEMMA CurrentNotEnding ==
  ASSUME Flow, NEW h, Current(h)
  PROVE  \A q : ~Ending(h, q)
<1>1. \A t \in Thread : InCall(t) <=> Remaining(t) # {}
  BY RemainingFacts
<1>2. QED
  BY <1>1, EndedGone DEF Ending

LEMMA EventCalls ==
  ASSUME Flow, NEW t \in Thread, NEW event, NEW args, NEW begun, NEW ended, NEW left,
         Calls(t, event, args, begun, ended, left)
  PROVE  /\ \A h, q : Beginning(h, q)' <=> Beginning(h, q) \/ (h \in begun /\ q \in left)
         /\ \A h, q : Ending(h, q)' <=> Ending(h, q) \/ (h \in ended /\ q \in left)
         /\ Remaining(t) = {} /\ Remaining(t)' = left
         /\ \A u \in Thread \ {t} : call'[u] = call[u] /\ Remaining(u)' = Remaining(u) /\ (InCall(u)' <=> InCall(u))
<1>1. Remaining(t) = {}
  BY RemainingFacts DEF Calls
<1>2. /\ Remaining(t)' = left /\ (left # {} => call'[t].begun = begun /\ call'[t].ended = ended)
      /\ \A u \in Thread \ {t} : call'[u] = call[u]
  BY DEF Calls
<1>3. \A u \in Thread \ {t} : Remaining(u)' = Remaining(u) /\ (InCall(u)' <=> InCall(u))
  BY <1>2 DEF Remaining, InCall
<1>4. ASSUME NEW h, NEW q
      PROVE  /\ Beginning(h, q)' <=> Beginning(h, q) \/ (h \in begun /\ q \in left)
             /\ Ending(h, q)' <=> Ending(h, q) \/ (h \in ended /\ q \in left)
  <2>1. /\ h \in call'[t].begun /\ q \in Remaining(t)' <=> h \in begun /\ q \in left
        /\ h \in call'[t].ended /\ q \in Remaining(t)' <=> h \in ended /\ q \in left
    BY <1>2
  <2>2. \A u \in Thread \ {t} :
          /\ h \in call'[u].begun /\ q \in Remaining(u)' <=> h \in call[u].begun /\ q \in Remaining(u)
          /\ h \in call'[u].ended /\ q \in Remaining(u)' <=> h \in call[u].ended /\ q \in Remaining(u)
    BY <1>2, <1>3
  <2>3. QED
    BY <1>1, <2>1, <2>2 DEF Beginning, Ending
<1>5. QED
  BY <1>1, <1>2, <1>3, <1>4

(* The callback reaches a tool that has set it for a begin and an end.      *)
Reaches(event, begun, ended, left) ==
  /\ begun \cup ended # {} =>
       /\ callbacks_registered => "own" \in left
       /\ "client" \in left <=> event \in clientSet
  /\ \A h \in begun : event = BeginEvent(h)
  /\ \A h \in ended : event = EndEvent(h)

LEMMA EventHeld ==
  ASSUME Flow, NEW t \in Thread, NEW event, NEW args, NEW begun, NEW ended, NEW left,
         Calls(t, event, args, begun, ended, left), Moves(begun, ended),
         Reaches(event, begun, ended, left), callbacks_registered
  PROVE  Held' = Held
<1>1. \A t1 \in Thread : InCall(t1) <=> Remaining(t1) # {}
  BY RemainingFacts
<1>2. ASSUME NEW h \in RegionHandle \cup TaskHandle
      PROVE  (Current(h) /\ ~Beginning(h, "own")) \/ Ending(h, "own") <=>
             ((Current(h) /\ ~Beginning(h, "own")) \/ Ending(h, "own"))'
  <2>1. h \in Handle
    BY HandleCases
  <2>2. /\ Current(h)' <=> (Current(h) \/ h \in begun) /\ h \notin ended
        /\ Beginning(h, "own")' <=> Beginning(h, "own") \/ (h \in begun /\ "own" \in left)
        /\ Ending(h, "own")' <=> Ending(h, "own") \/ (h \in ended /\ "own" \in left)
    BY <2>1, EventCalls DEF Moves, MovesOf
  <2>3. CASE h \in begun
    <3>1. ~Current(h) /\ ~Beginning(h, "own") /\ ~Ending(h, "own")
      BY <2>1, <2>3, NotStarted DEF Moves
    <3>2. h \notin ended /\ "own" \in left
      BY <2>3, <3>1 DEF Moves, Reaches
    <3>3. QED
      BY <2>2, <2>3, <3>1, <3>2
  <2>4. CASE h \in ended
    <3>1. Current(h) /\ ~Beginning(h, "own")
      BY <1>1, <2>4 DEF Moves, Beginning
    <3>2. "own" \in left
      BY <2>4 DEF Reaches
    <3>3. QED
      BY <2>2, <2>4, <3>1, <3>2
  <2>5. CASE h \notin begun /\ h \notin ended
    BY <2>2, <2>5
  <2>6. QED
    BY <2>3, <2>4, <2>5
<1>3. QED
  BY <1>2 DEF Held

LEMMA PairedEvents ==
  ASSUME Flow, ClientPaired, NEW h \in Handle, h # RegionData(0), BeginEvent(h) \in clientSet
  PROVE  EndEvent(h) \in clientSet
<1>1. clientSet \in ClientSets
  BY DEF Flow, Life
<1>2. CASE h[1] = "thread"
  BY <1>1, <1>2 DEF BeginEvent, EndEvent, ClientPaired
<1>3. CASE h[1] = "region"
  BY <1>1, <1>3 DEF BeginEvent, EndEvent, ClientPaired
<1>4. CASE h[1] = "implicit"
  BY <1>4 DEF BeginEvent, EndEvent
<1>5. CASE h[1] = "explicit"
  BY <1>1, <1>5 DEF BeginEvent, EndEvent, ClientPaired
<1>6. QED
  BY <1>2, <1>3, <1>4, <1>5, KindFacts

LEMMA EventKnown ==
  ASSUME Flow, ClientPaired, NEW t \in Thread, NEW event, NEW args, NEW begun, NEW ended, NEW left,
         Calls(t, event, args, begun, ended, left), Moves(begun, ended),
         Reaches(event, begun, ended, left), clientSet' = clientSet
  PROVE  Known' = Known
<1>1. \A t1 \in Thread : InCall(t1) <=> Remaining(t1) # {}
  BY RemainingFacts
<1>2. ASSUME NEW h \in Handle, BeginEvent(h) \in clientSet
      PROVE  (Current(h) /\ ~Beginning(h, "client")) \/ Ending(h, "client") <=>
             ((Current(h) /\ ~Beginning(h, "client")) \/ Ending(h, "client"))'
  <2>2. /\ Current(h)' <=> (Current(h) \/ h \in begun) /\ h \notin ended
        /\ Beginning(h, "client")' <=> Beginning(h, "client") \/ (h \in begun /\ "client" \in left)
        /\ Ending(h, "client")' <=> Ending(h, "client") \/ (h \in ended /\ "client" \in left)
    BY EventCalls DEF Moves, MovesOf
  <2>3. CASE h \in begun
    <3>1. ~Current(h) /\ ~Beginning(h, "client") /\ ~Ending(h, "client")
      BY <2>3, NotStarted DEF Moves
    <3>2. h \notin ended /\ "client" \in left
      BY <1>2, <2>3, <3>1 DEF Moves, Reaches
    <3>3. QED
      BY <2>2, <2>3, <3>1, <3>2
  <2>4. CASE h \in ended
    <3>1. Current(h) /\ ~Beginning(h, "client") /\ h # RegionData(0)
      BY <1>1, <2>4 DEF Moves, Beginning
    <3>2. event = EndEvent(h) /\ EndEvent(h) \in clientSet
      BY <1>2, <2>4, <3>1, PairedEvents DEF Reaches
    <3>3. "client" \in left
      BY <2>4, <3>2 DEF Reaches
    <3>4. QED
      BY <2>2, <2>4, <3>1, <3>3
  <2>5. CASE h \notin begun /\ h \notin ended
    BY <2>2, <2>5
  <2>6. QED
    BY <2>3, <2>4, <2>5
<1>3. ASSUME NEW h
      PROVE  BeginEvent(h)' = BeginEvent(h)
  BY DEF BeginEvent
<1>4. QED
  BY <1>2, <1>3 DEF Known

(* The explicit tasks for which the profiler has an object are those of the *)
(* region that is going on.                                                *)
LEMMA HeldExplicit ==
  ASSUME Flow, NEW h \in Held, h[1] = "explicit"
  PROVE  barrier < region
<1>1. h \in TaskHandle
  BY KindFacts DEF Held
<1>2. CASE Current(h)
  <2>1. CurrentTask(h)
    BY <1>1, <1>2, CurrentKinds
  <2>2. CASE \E e \in ready : h = ExplicitTask(e)
    BY <2>2 DEF Flow, Places
  <2>3. ASSUME NEW t \in Thread, h \in OnStack(t)
        PROVE  barrier < region
    <3>1. barrier < entered[t]
      BY <2>3, OnStackFacts, HandleFacts DEF InitialTask
    <3>2. QED
      BY <3>1, CountTypes
  <2>4. QED
    BY <2>1, <2>2, <2>3 DEF CurrentTask
<1>3. CASE Ending(h, "own")
  <2>1. PICK t \in Thread : h \in call[t].ended /\ "own" \in Remaining(t)
    BY <1>3 DEF Ending
  <2>2. InCall(t)
    BY <2>1, RemainingFacts
  <2>3. Spent(t, h)
    BY <2>1, <2>2, CallFacts DEF InUse
  <2>4. barrier < entered[t]
    BY <2>3, HandleFacts DEF Spent
  <2>5. QED
    BY <2>4, CountTypes
<1>4. QED
  BY <1>2, <1>3 DEF Held

LEMMA EventObjects ==
  ASSUME Flow, Objects, UNCHANGED <<callbacks_registered, user, ptr>>,
         callbacks_registered => Held' = Held,
         \A u \in Thread : entered'[u] = entered[u] \/ entered[u] < region,
         region' = region \/ barrier = region
  PROVE  Objects'
<1>1. \A h \in Held' : callbacks_registered' => ptr'[h] \in Object /\ user'[ptr'[h]] = h
  BY DEF Objects
<1>2. ASSUME NEW o \in Object, user'[o] # None
      PROVE  /\ callbacks_registered'
             /\ user'[o] \in Held' /\ ptr'[user'[o]] = o /\ o[1] = KindOf(user'[o])
             /\ user'[o][1] = "region" => Owner(o) = Initial
             /\ user'[o][1] = "implicit" => Owner(o) = user'[o][3]
             /\ user'[o][1] = "explicit" => entered'[Owner(o)] = region'
  <2>1. /\ callbacks_registered
        /\ user[o] \in Held /\ ptr[user[o]] = o /\ o[1] = KindOf(user[o])
        /\ user[o][1] = "region" => Owner(o) = Initial
        /\ user[o][1] = "implicit" => Owner(o) = user[o][3]
        /\ user[o][1] = "explicit" => entered[Owner(o)] = region
    BY <1>2 DEF Objects
  <2>2. ASSUME user[o][1] = "explicit"
        PROVE  entered'[Owner(o)] = region'
    <3>1. barrier < region
      BY <2>1, <2>2, HeldExplicit
    <3>2. Owner(o) \in Thread
      BY DEF Owner, Object
    <3>3. entered'[Owner(o)] = entered[Owner(o)] /\ region' = region
      BY <2>1, <2>2, <3>1, <3>2, CountTypes
    <3>4. QED
      BY <2>1, <2>2, <3>3
  <2>3. QED
    BY <2>1, <2>2
<1>3. \A h : KindOf(h)' = KindOf(h)
  BY DEF KindOf
<1>4. \A o : Owner(o)' = Owner(o)
  BY DEF Owner
<1>5. QED
  BY <1>1, <1>2, <1>3, <1>4 DEF Objects

LEMMA EventStored ==
  ASSUME Flow, Objects, Stored, NEW t \in Thread, NEW event, NEW args, NEW begun, NEW ended, NEW left,
         Calls(t, event, args, begun, ended, left), Moves(begun, ended),
         UNCHANGED <<callbacks_registered, user, data, live>>, Known' = Known
  PROVE  Stored'
<1>1. ASSUME NEW h \in Handle
      PROVE  /\ Current(h)' \/ Ending(h, "client")' => h \in begun \/ Current(h) \/ Ending(h, "client")
             /\ ~Started(h)' => ~Started(h)
             /\ h \in begun => ~Started(h)
    BY EventCalls DEF Moves, MovesOf
<1>2. ASSUME NEW o \in Object, user[o] = None \/ Current(user[o])' \/ Ending(user[o], "client")'
      PROVE  data[o] = IF user[o] \in live THEN user[o] ELSE None
  <2>1. CASE user[o] = None
    BY <2>1 DEF Stored
  <2>2. CASE user[o] # None
    <3>1. user[o] \in Held /\ user[o] \in Handle
      BY <2>2, HandleCases DEF Objects, Held
    <3>2. user[o] \notin begun
      BY <1>1, <3>1, NotStarted DEF Held
    <3>3. Current(user[o]) \/ Ending(user[o], "client")
      BY <1>1, <1>2, <2>2, <3>1, <3>2
    <3>4. QED
      BY <3>3 DEF Stored
  <2>3. QED
    BY <2>1, <2>2
<1>3. ASSUME NEW h \in Handle, ~(callbacks_registered /\ h \in RegionHandle \cup TaskHandle),
             ~Started(h)' \/ Current(h)' \/ Ending(h, "client")'
      PROVE  data[h] = IF h \in live THEN h ELSE None
  <2>1. ~Started(h) \/ Current(h) \/ Ending(h, "client")
    BY <1>1, <1>3
  <2>2. QED
    BY <1>3, <2>1 DEF Stored
<1>4. live = Known
  BY DEF Stored
<1>5. \A o \in Object : (user[o] = None \/ Current(user[o]) \/ Ending(user[o], "client")
        => data[o] = IF user[o] \in live THEN user[o] ELSE None)'
  BY <1>2
<1>6. \A h \in Handle : (~(callbacks_registered /\ h \in RegionHandle \cup TaskHandle)
                         /\ (~Started(h) \/ Current(h) \/ Ending(h, "client"))
        => data[h] = IF h \in live THEN h ELSE None)'
  BY <1>3
<1>7. QED
  BY <1>4, <1>5, <1>6 DEF Stored

(* The order in which the new callback reaches the tools.                   *)
Leads(t, event, ended, left) ==
  IF ended # {} /\ event # "thread_end"
    THEN ClientLeads(t)' /\ (callbacks_registered => "own" \in left)
    ELSE event # "finalize" =>
           OwnLeads(t)' /\ ("own" \in left /\ event \in clientSet => "client" \in left)

LEMMA EventOrdered ==
  ASSUME Flow, Ordered, NEW t \in Thread, NEW event, NEW args, NEW begun, NEW ended, NEW left,
         Calls(t, event, args, begun, ended, left), Leads(t, event, ended, left),
         UNCHANGED <<callbacks_registered, clientSet>>
  PROVE  Ordered'
<1> DEFINE OrderedAt(u) ==
      LET p == call[u].parts IN
      IF call[u].ended # {} /\ call[u].event # "thread_end"
        THEN /\ \A i \in 1..Len(p) : p[i] = "client" => i = 1
             /\ callbacks_registered => "own" \in Remaining(u)
        ELSE call[u].event # "finalize" =>
               /\ \A i \in 1..Len(p) : p[i] = "own" => i = 1
               /\ "own" \in Remaining(u) /\ call[u].event \in clientSet => "client" \in Remaining(u)
<1>1. ASSUME NEW u \in Thread \ {t}, InCall(u)'
      PROVE  OrderedAt(u)'
  <2>1. call'[u] = call[u] /\ Remaining(u)' = Remaining(u) /\ InCall(u)
    BY <1>1, EventCalls
  <2>2. OrderedAt(u)
    BY <2>1 DEF Ordered
  <2>3. QED
    BY <2>1, <2>2
<1>2. ASSUME InCall(t)'
      PROVE  OrderedAt(t)'
  <2>1. call'[t].event = event /\ call'[t].ended = ended /\ Remaining(t)' = left
    BY <1>2 DEF Calls
  <2>2. QED
    BY <2>1 DEF Leads, OwnLeads, ClientLeads
<1>3. QED
  BY <1>1, <1>2 DEF Ordered

LEMMA EventThreads ==
  ASSUME Flow, Threads, NEW t \in Thread, NEW event, NEW args, NEW begun, NEW ended, NEW left,
         Calls(t, event, args, begun, ended, left), at[t] \notin {"new", "gone", "final"},
         \A u \in Thread \ {t} : at'[u] = at[u],
         UNCHANGED <<callbacks_registered, clientSet, pools, pairs>>
  PROVE  Threads'
<1> DEFINE Pool(u) ==
             callbacks_registered /\ at[u] # "new"
             /\ (at[u] \in {"gone", "final"} => InCall(u) /\ call[u].event = "thread_end" /\ "own" \in Remaining(u))
             /\ ~(call[u].event = "thread_begin" /\ "own" \in Remaining(u))
           Pair(u) == Registered("thread_begin")
             /\ (at[u] \notin {"new", "gone", "final"} \/ (InCall(u) /\ call[u].event = "thread_end"))
<1>1. \A u \in Thread : (Pool(u) => u \in pools) /\ (Pair(u) => u \in pairs)
  BY DEF Threads
<1>2. Registered("thread_begin")' <=> Registered("thread_begin")
  BY DEF Registered
<1>3. ASSUME NEW u \in Thread \ {t}
      PROVE  (Pool(u)' => u \in pools') /\ (Pair(u)' => u \in pairs')
  <2>1. at'[u] = at[u] /\ call'[u] = call[u] /\ Remaining(u)' = Remaining(u) /\ (InCall(u)' <=> InCall(u))
    BY EventCalls
  <2>2. QED
    BY <1>1, <1>2, <2>1
<1>4. (Pool(t)' => t \in pools') /\ (Pair(t)' => t \in pairs')
  <2>1. Remaining(t) = {}
    BY EventCalls
  <2>2. (callbacks_registered => Pool(t)) /\ (Registered("thread_begin") => Pair(t))
    BY <2>1
  <2>3. QED
    BY <1>1, <1>2, <2>2
<1>5. QED
  BY <1>3, <1>4 DEF Threads

LEMMA EventWords ==
  ASSUME Flow, Words, ClientPaired, NEW t \in Thread, NEW event, NEW args, NEW begun, NEW ended, NEW left,
         Calls(t, event, args, begun, ended, left), Moves(begun, ended),
         Reaches(event, begun, ended, left), Leads(t, event, ended, left), Threads',
         UNCHANGED <<callbacks_registered, clientSet, user, ptr, data, live>>,
         \A u \in Thread : entered'[u] = entered[u] \/ entered[u] < region,
         region' = region \/ barrier = region
  PROVE  Words'
<1>1. callbacks_registered => Held' = Held
  BY EventHeld
<1>2. Known' = Known
  BY EventKnown
<1>3. Objects'
  BY <1>1, EventObjects DEF Words
<1>4. Stored'
  BY <1>2, EventStored DEF Words
<1>5. Ordered'
  BY EventOrdered DEF Words
<1>6. QED
  BY <1>3, <1>4, <1>5 DEF Words

LEMMA ThreadBeginWords ==
  ASSUME Flow, Next, Words, ClientPaired, NEW t \in Thread, ThreadBegin(t)
  PROVE  Words'
<1> DEFINE args == {ThreadData(t)}
           begun == {ThreadData(t)}
           ended == {}
           left == Tools("thread_begin")
<1>1. Initial \in Thread
  BY HandleCases
<1>2. Calls(t, "thread_begin", args, begun, ended, left) /\ OwnLeads(t)'
  BY ThreadBeginCall
<1>3. Moves(begun, ended)
  BY ThreadBeginMoves
<1>4. Reaches("thread_begin", begun, ended, left)
  BY EventNames, MultiplexAssumption DEF Reaches, Tools, Called, InitialTask
<1>5. Leads(t, "thread_begin", ended, left)
  BY <1>2 DEF Leads, Tools, Called
<1>6. /\ UNCHANGED <<callbacks_registered, clientSet, user, ptr, data, live, pools, entered, region>>
      /\ at[t] = "new" /\ at'[t] \in {"begun", "idle"} /\ \A u \in Thread \ {t} : at'[u] = at[u]
      /\ pairs' = IF Registered("thread_begin") THEN pairs \cup {t} ELSE pairs
  BY GotoFacts DEF ThreadBegin, tool
<1>7. Threads'
  <2> DEFINE Pool(u) ==
               callbacks_registered /\ at[u] # "new"
               /\ (at[u] \in {"gone", "final"} => InCall(u) /\ call[u].event = "thread_end" /\ "own" \in Remaining(u))
               /\ ~(call[u].event = "thread_begin" /\ "own" \in Remaining(u))
             Pair(u) == Registered("thread_begin")
               /\ (at[u] \notin {"new", "gone", "final"} \/ (InCall(u) /\ call[u].event = "thread_end"))
  <2>1. \A u \in Thread : (Pool(u) => u \in pools) /\ (Pair(u) => u \in pairs)
    BY DEF Words, Threads
  <2>2. Registered("thread_begin")' <=> Registered("thread_begin")
    BY <1>6 DEF Registered
  <2>3. ASSUME NEW u \in Thread \ {t}
        PROVE  (Pool(u)' => u \in pools') /\ (Pair(u)' => u \in pairs')
    <3>1. at'[u] = at[u] /\ call'[u] = call[u] /\ Remaining(u)' = Remaining(u) /\ (InCall(u)' <=> InCall(u))
      BY <1>2, <1>6, EventCalls
    <3>2. QED
      BY <1>6, <2>1, <2>2, <3>1
  <2>4. (Pool(t)' => t \in pools') /\ (Pair(t)' => t \in pairs')
    <3>1. callbacks_registered' => call'[t].event = "thread_begin" /\ "own" \in Remaining(t)'
      BY <1>2, <1>4, <1>6 DEF Reaches, Calls
    <3>2. Pair(t)' => t \in pairs'
      BY <1>6, <2>2
    <3>3. ~Pool(t)'
      BY <3>1
    <3>4. QED
      BY <3>2, <3>3
  <2>5. QED
    BY <2>3, <2>4 DEF Threads
<1>8. entered' = entered /\ region' = region
  BY <1>6
<1> HIDE DEF args, begun, ended, left
<1>9. QED
  BY <1>1, <1>2, <1>3, <1>4, <1>5, <1>6, <1>7, <1>8, EventWords

LEMMA InitialTaskBeginWords ==
  ASSUME Flow, Next, Words, ClientPaired, InitialTaskBegin
  PROVE  Words'
<1> DEFINE args == {RegionData(0), InitialTask}
           begun == {RegionData(0), InitialTask}
           ended == {}
           left == Tools("implicit_task")
<1>1. Initial \in Thread
  BY HandleCases
<1>2. Calls(Initial, "implicit_task", args, begun, ended, left) /\ OwnLeads(Initial)'
  BY InitialTaskBeginCall
<1>3. Moves(begun, ended)
  BY InitialTaskBeginMoves
<1>4. Reaches("implicit_task", begun, ended, left)
  BY EventNames, MultiplexAssumption DEF Reaches, Tools, Called, InitialTask
<1>5. Leads(Initial, "implicit_task", ended, left)
  BY <1>2 DEF Leads, Tools, Called
<1>6. /\ UNCHANGED <<callbacks_registered, clientSet, user, ptr, data, live, pools, pairs, entered, region>>
      /\ at[Initial] \in {"begun"} /\ \A u \in Thread \ {Initial} : at'[u] = at[u]
  BY <1>1, GotoFacts DEF InitialTaskBegin, tool, memory
<1>7. Threads'
  <2> HIDE DEF args, begun, ended, left
  <2>1. QED
    BY <1>1, <1>2, <1>6, EventThreads DEF Words
<1>8. entered' = entered /\ region' = region
  BY <1>6
<1> HIDE DEF args, begun, ended, left
<1>9. QED
  BY <1>1, <1>2, <1>3, <1>4, <1>5, <1>6, <1>7, <1>8, EventWords

LEMMA ParallelBeginWords ==
  ASSUME Flow, Next, Words, ClientPaired, ParallelBegin
  PROVE  Words'
<1> DEFINE args == {InitialTask, RegionData(region')}
           begun == {RegionData(region')}
           ended == {}
           left == Tools("parallel_begin")
<1>1. Initial \in Thread
  BY HandleCases
<1>2. Calls(Initial, "parallel_begin", args, begun, ended, left) /\ OwnLeads(Initial)'
  BY ParallelBeginCall
<1>3. Moves(begun, ended)
  BY ParallelBeginMoves
<1>4. Reaches("parallel_begin", begun, ended, left)
  <2>1. region' # 0
    BY CountTypes DEF ParallelBegin
  <2>2. BeginEvent(RegionData(region')) = "parallel_begin"
    BY <2>1, EventNames
  <2>3. QED
    BY <2>2, MultiplexAssumption DEF Reaches, Tools, Called
<1>5. Leads(Initial, "parallel_begin", ended, left)
  BY <1>2 DEF Leads, Tools, Called
<1>6. /\ UNCHANGED <<callbacks_registered, clientSet, user, ptr, data, live, pools, pairs>>
      /\ at[Initial] \in {"serial"} /\ \A u \in Thread \ {Initial} : at'[u] = at[u]
  BY <1>1, GotoFacts DEF ParallelBegin, tool, memory
<1>7. Threads'
  <2> HIDE DEF args, begun, ended, left
  <2>1. QED
    BY <1>1, <1>2, <1>6, EventThreads DEF Words
<1>8. entered' = entered /\ barrier = region
  BY <1>6 DEF ParallelBegin, Flow, Places
<1> HIDE DEF args, begun, ended, left
<1>9. QED
  BY <1>1, <1>2, <1>3, <1>4, <1>5, <1>6, <1>7, <1>8, EventWords

LEMMA ImplicitTaskBeginWords ==
  ASSUME Flow, Next, Words, ClientPaired, NEW t \in Thread, ImplicitTaskBegin(t)
  PROVE  Words'
<1> DEFINE args == {RegionData(region), ImplicitTask(region, t)}
           begun == {ImplicitTask(region, t)}
           ended == {}
           left == Tools("implicit_task")
<1>1. Initial \in Thread
  BY HandleCases
<1>2. Calls(t, "implicit_task", args, begun, ended, left) /\ OwnLeads(t)'
  BY ImplicitTaskBeginCall
<1>3. Moves(begun, ended)
  BY ImplicitTaskBeginMoves
<1>4. Reaches("implicit_task", begun, ended, left)
  BY EventNames, MultiplexAssumption DEF Reaches, Tools, Called, InitialTask
<1>5. Leads(t, "implicit_task", ended, left)
  BY <1>2 DEF Leads, Tools, Called
<1>6. /\ UNCHANGED <<callbacks_registered, clientSet, user, ptr, data, live, pools, pairs>>
      /\ at[t] \in {"fork", "idle"} /\ \A u \in Thread \ {t} : at'[u] = at[u]
  BY <1>1, GotoFacts DEF ImplicitTaskBegin, tool, memory
<1>7. Threads'
  <2> HIDE DEF args, begun, ended, left
  <2>1. QED
    BY <1>1, <1>2, <1>6, EventThreads DEF Words
<1>8. (\A u \in Thread : entered'[u] = entered[u] \/ entered[u] < region) /\ region' = region
  <2>1. entered' = [entered EXCEPT ![t] = region] /\ entered[t] < region /\ region' = region
    BY DEF ImplicitTaskBegin
  <2>2. QED
    BY <2>1, CountTypes
<1> HIDE DEF args, begun, ended, left
<1>9. QED
  BY <1>1, <1>2, <1>3, <1>4, <1>5, <1>6, <1>7, <1>8, EventWords

LEMMA TaskCreateWords ==
  ASSUME Flow, Next, Words, ClientPaired, NEW t \in Thread, NEW e \in Task, TaskCreate(t, e)
  PROVE  Words'
<1> DEFINE args == {stack[t][1], ExplicitTask(e)}
           begun == {ExplicitTask(e)}
           ended == {}
           left == Tools("task_create")
<1>1. Initial \in Thread
  BY HandleCases
<1>2. Calls(t, "task_create", args, begun, ended, left) /\ OwnLeads(t)'
  BY TaskCreateCall
<1>3. Moves(begun, ended)
  BY TaskCreateMoves
<1>4. Reaches("task_create", begun, ended, left)
  BY EventNames, MultiplexAssumption DEF Reaches, Tools, Called, InitialTask
<1>5. Leads(t, "task_create", ended, left)
  BY <1>2 DEF Leads, Tools, Called
<1>6. /\ UNCHANGED <<callbacks_registered, clientSet, user, ptr, data, live, pools, pairs, entered, region>>
      /\ at[t] \in {"team"} /\ \A u \in Thread \ {t} : at'[u] = at[u]
  BY <1>1, GotoFacts DEF TaskCreate, tool, memory
<1>7. Threads'
  <2> HIDE DEF args, begun, ended, left
  <2>1. QED
    BY <1>1, <1>2, <1>6, EventThreads DEF Words
<1>8. entered' = entered /\ region' = region
  BY <1>6
<1> HIDE DEF args, begun, ended, left
<1>9. QED
  BY <1>1, <1>2, <1>3, <1>4, <1>5, <1>6, <1>7, <1>8, EventWords

LEMMA TaskSwitchWords ==
  ASSUME Flow, Next, Words, ClientPaired, NEW t \in Thread, NEW e \in Task, TaskSwitch(t, e)
  PROVE  Words'
<1> DEFINE args == {stack[t][1], ExplicitTask(e)}
           begun == {}
           ended == {}
           left == Tools("task_schedule")
<1>1. Initial \in Thread
  BY HandleCases
<1>2. Calls(t, "task_schedule", args, begun, ended, left) /\ OwnLeads(t)'
  BY TaskSwitchCall
<1>3. Moves(begun, ended)
  BY TaskSwitchMoves
<1>4. Reaches("task_schedule", begun, ended, left)
  BY DEF Reaches
<1>5. Leads(t, "task_schedule", ended, left)
  BY <1>2 DEF Leads, Tools, Called
<1>6. /\ UNCHANGED <<callbacks_registered, clientSet, user, ptr, data, live, pools, pairs, entered, region>>
      /\ at[t] \in {"team", "barrier"} /\ \A u \in Thread \ {t} : at'[u] = at[u]
  BY <1>1, GotoFacts DEF TaskSwitch, tool, memory
<1>7. Threads'
  <2> HIDE DEF args, begun, ended, left
  <2>1. QED
    BY <1>1, <1>2, <1>6, EventThreads DEF Words
<1>8. entered' = entered /\ region' = region
  BY <1>6
<1> HIDE DEF args, begun, ended, left
<1>9. QED
  BY <1>1, <1>2, <1>3, <1>4, <1>5, <1>6, <1>7, <1>8, EventWords

LEMMA SyncRegionBeginWords ==
  ASSUME Flow, Next, Words, ClientPaired, NEW t \in Thread, SyncRegionBegin(t)
  PROVE  Words'
<1> DEFINE args == {RegionData(region), stack[t][1]}
           begun == {}
           ended == {}
           left == Tools("sync_region")
<1>1. Initial \in Thread
  BY HandleCases
<1>2. Calls(t, "sync_region", args, begun, ended, left) /\ OwnLeads(t)'
  BY SyncRegionBeginCall
<1>3. Moves(begun, ended)
  BY SyncRegionBeginMoves
<1>4. Reaches("sync_region", begun, ended, left)
  BY DEF Reaches
<1>5. Leads(t, "sync_region", ended, left)
  BY <1>2 DEF Leads, Tools, Called
<1>6. /\ UNCHANGED <<callbacks_registered, clientSet, user, ptr, data, live, pools, pairs, entered, region>>
      /\ at[t] \in {"team"} /\ \A u \in Thread \ {t} : at'[u] = at[u]
  BY <1>1, GotoFacts DEF SyncRegionBegin, tool, memory
<1>7. Threads'
  <2> HIDE DEF args, begun, ended, left
  <2>1. QED
    BY <1>1, <1>2, <1>6, EventThreads DEF Words
<1>8. entered' = entered /\ region' = region
  BY <1>6
<1> HIDE DEF args, begun, ended, left
<1>9. QED
  BY <1>1, <1>2, <1>3, <1>4, <1>5, <1>6, <1>7, <1>8, EventWords

LEMMA SyncRegionEndWords ==
  ASSUME Flow, Next, Words, ClientPaired, NEW t \in Thread, SyncRegionEnd(t)
  PROVE  Words'
<1> DEFINE args == {stack[t][1]} \cup (IF t = Initial THEN {RegionData(region)} ELSE {})
           begun == {}
           ended == {}
           left == Tools("sync_region")
<1>1. Initial \in Thread
  BY HandleCases
<1>2. Calls(t, "sync_region", args, begun, ended, left) /\ OwnLeads(t)'
  BY SyncRegionEndCall
<1>3. Moves(begun, ended)
  BY SyncRegionEndMoves
<1>4. Reaches("sync_region", begun, ended, left)
  BY DEF Reaches
<1>5. Leads(t, "sync_region", ended, left)
  BY <1>2 DEF Leads, Tools, Called
<1>6. /\ UNCHANGED <<callbacks_registered, clientSet, user, ptr, data, live, pools, pairs, entered, region>>
      /\ at[t] \in {"barrier"} /\ \A u \in Thread \ {t} : at'[u] = at[u]
  BY <1>1, GotoFacts DEF SyncRegionEnd, tool, memory
<1>7. Threads'
  <2> HIDE DEF args, begun, ended, left
  <2>1. QED
    BY <1>1, <1>2, <1>6, EventThreads DEF Words
<1>8. entered' = entered /\ region' = region
  BY <1>6
<1> HIDE DEF args, begun, ended, left
<1>9. QED
  BY <1>1, <1>2, <1>3, <1>4, <1>5, <1>6, <1>7, <1>8, EventWords

LEMMA ImplicitTaskEndWords ==
  ASSUME Flow, Next, Words, ClientPaired, NEW t \in Thread, ImplicitTaskEnd(t)
  PROVE  Words'
<1> DEFINE args == {stack[t][1]}
           begun == {}
           ended == {stack[t][1]}
           left == Tools("implicit_task")
<1>1. Initial \in Thread
  BY HandleCases
<1>2. Calls(t, "implicit_task", args, begun, ended, left) /\ ClientLeads(t)'
  BY ImplicitTaskEndCall
<1>3. Moves(begun, ended)
  BY ImplicitTaskEndMoves
<1>4. Reaches("implicit_task", begun, ended, left)
  <2>1. at[t] = "leaving"
    BY GotoFacts DEF ImplicitTaskEnd
  <2>2. EndEvent(stack[t][1]) = "implicit_task"
    <3>1. stack[t][1] \in OnStack(t)
      BY <2>1, TopFacts
    <3>2. stack[t][1] = InitialTask \/ stack[t][1] = ImplicitTask(entered[t], t)
      BY <2>1, <3>1, OnStackFacts
    <3>3. QED
      BY <3>2, EventNames DEF InitialTask
  <2>3. QED
    BY <2>2, MultiplexAssumption DEF Reaches, Tools, Called
<1>5. Leads(t, "implicit_task", ended, left)
  BY <1>2, <1>4 DEF Leads, Reaches
<1>6. /\ UNCHANGED <<callbacks_registered, clientSet, user, ptr, data, live, pools, pairs, entered, region>>
      /\ at[t] \in {"leaving"} /\ \A u \in Thread \ {t} : at'[u] = at[u]
  BY <1>1, GotoFacts DEF ImplicitTaskEnd, tool, memory
<1>7. Threads'
  <2> HIDE DEF args, begun, ended, left
  <2>1. QED
    BY <1>1, <1>2, <1>6, EventThreads DEF Words
<1>8. entered' = entered /\ region' = region
  BY <1>6
<1> HIDE DEF args, begun, ended, left
<1>9. QED
  BY <1>1, <1>2, <1>3, <1>4, <1>5, <1>6, <1>7, <1>8, EventWords

LEMMA TaskEndWords ==
  ASSUME Flow, Next, Words, ClientPaired, "cancel" \notin EndStatus, NEW t \in Thread, NEW status \in EndStatus, TaskEnd(t, status)
  PROVE  Words'
<1> DEFINE args == {stack[t][1], stack[t][2]}
           begun == {}
           ended == {stack[t][1]}
           left == Tools("task_schedule")
<1>1. status = "complete"
  BY MultiplexAssumption
<1>2. Calls(t, "task_schedule", args, begun, ended, left) /\ ClientLeads(t)'
  BY <1>1, TaskEndCall
<1>3. Moves(begun, ended)
  BY TaskEndMoves
<1>4. Reaches("task_schedule", begun, ended, left)
  <2>1. at[t] \in {"team", "barrier"} /\ stack[t][1][1] = "explicit"
    BY DEF TaskEnd
  <2>2. EndEvent(stack[t][1]) = "task_schedule"
    <3>1. \E f \in created : stack[t][1] = ExplicitTask(f)
      BY <2>1, TopFacts
    <3>2. QED
      BY <3>1, EventNames
  <2>3. QED
    BY <2>2, MultiplexAssumption DEF Reaches, Tools, Called
<1>5. Leads(t, "task_schedule", ended, left)
  BY <1>2, <1>4 DEF Leads, Reaches
<1>6. /\ UNCHANGED <<callbacks_registered, clientSet, user, ptr, data, live, pools, pairs, entered, region>>
      /\ at[t] \in {"team", "barrier"} /\ \A u \in Thread \ {t} : at'[u] = at[u]
  BY <1>1, GotoFacts DEF TaskEnd, tool, memory
<1>7. Threads'
  <2> HIDE DEF args, begun, ended, left
  <2>1. QED
    BY <1>1, <1>2, <1>6, EventThreads DEF Words
<1>8. entered' = entered /\ region' = region
  BY <1>6
<1> HIDE DEF args, begun, ended, left
<1>9. QED
  BY <1>1, <1>2, <1>3, <1>4, <1>5, <1>6, <1>7, <1>8, EventWords

LEMMA WorkWords ==
  ASSUME Flow, Next, Words, ClientPaired, NEW t \in Thread, Work(t)
  PROVE  Words'
<1> DEFINE args == {RegionData(region), stack[t][1]}
           begun == {}
           ended == {}
           left == Tools("work")
<1>1. Initial \in Thread
  BY HandleCases
<1>2. Calls(t, "work", args, begun, ended, left) /\ OwnLeads(t)'
  BY WorkCall
<1>3. Moves(begun, ended)
  BY WorkMoves
<1>4. Reaches("work", begun, ended, left)
  BY DEF Reaches
<1>5. Leads(t, "work", ended, left)
  BY <1>2 DEF Leads, Tools, Called
<1>6. /\ UNCHANGED <<callbacks_registered, clientSet, user, ptr, data, live, pools, pairs, entered, region>>
      /\ at[t] \in {"team"} /\ \A u \in Thread \ {t} : at'[u] = at[u]
  BY <1>1, GotoFacts DEF Work, tool, memory
<1>7. Threads'
  <2> HIDE DEF args, begun, ended, left
  <2>1. QED
    BY <1>1, <1>2, <1>6, EventThreads DEF Words
<1>8. entered' = entered /\ region' = region
  BY <1>6
<1> HIDE DEF args, begun, ended, left
<1>9. QED
  BY <1>1, <1>2, <1>3, <1>4, <1>5, <1>6, <1>7, <1>8, EventWords

LEMMA ParallelEndWords ==
  ASSUME Flow, Next, Words, ClientPaired, ParallelEnd
  PROVE  Words'
<1> DEFINE args == {RegionData(region), InitialTask}
           begun == {}
           ended == {RegionData(region)}
           left == Tools("parallel_end")
<1>1. Initial \in Thread
  BY HandleCases
<1>2. Calls(Initial, "parallel_end", args, begun, ended, left) /\ ClientLeads(Initial)'
  BY ParallelEndCall
<1>3. Moves(begun, ended)
  BY ParallelEndMoves
<1>4. Reaches("parallel_end", begun, ended, left)
  BY EventNames, MultiplexAssumption DEF Reaches, Tools, Called, InitialTask
<1>5. Leads(Initial, "parallel_end", ended, left)
  BY <1>2, <1>4 DEF Leads, Reaches
<1>6. /\ UNCHANGED <<callbacks_registered, clientSet, user, ptr, data, live, pools, pairs, entered, region>>
      /\ at[Initial] \in {"join"} /\ \A u \in Thread \ {Initial} : at'[u] = at[u]
  BY <1>1, GotoFacts DEF ParallelEnd, tool, memory
<1>7. Threads'
  <2> HIDE DEF args, begun, ended, left
  <2>1. QED
    BY <1>1, <1>2, <1>6, EventThreads DEF Words
<1>8. entered' = entered /\ region' = region
  BY <1>6
<1> HIDE DEF args, begun, ended, left
<1>9. QED
  BY <1>1, <1>2, <1>3, <1>4, <1>5, <1>6, <1>7, <1>8, EventWords

LEMMA InitialTaskEndWords ==
  ASSUME Flow, Next, Words, ClientPaired, InitialTaskEnd
  PROVE  Words'
<1> DEFINE args == {InitialTask}
           begun == {}
           ended == {InitialTask}
           left == Tools("implicit_task")
<1>1. Initial \in Thread
  BY HandleCases
<1>2. Calls(Initial, "implicit_task", args, begun, ended, left) /\ ClientLeads(Initial)'
  BY InitialTaskEndCall
<1>3. Moves(begun, ended)
  BY InitialTaskEndMoves
<1>4. Reaches("implicit_task", begun, ended, left)
  BY EventNames, MultiplexAssumption DEF Reaches, Tools, Called, InitialTask
<1>5. Leads(Initial, "implicit_task", ended, left)
  BY <1>2, <1>4 DEF Leads, Reaches
<1>6. /\ UNCHANGED <<callbacks_registered, clientSet, user, ptr, data, live, pools, pairs, entered, region>>
      /\ at[Initial] \in {"serial"} /\ \A u \in Thread \ {Initial} : at'[u] = at[u]
  BY <1>1, GotoFacts DEF InitialTaskEnd, tool, memory
<1>7. Threads'
  <2> HIDE DEF args, begun, ended, left
  <2>1. QED
    BY <1>1, <1>2, <1>6, EventThreads DEF Words
<1>8. entered' = entered /\ region' = region
  BY <1>6
<1> HIDE DEF args, begun, ended, left
<1>9. QED
  BY <1>1, <1>2, <1>3, <1>4, <1>5, <1>6, <1>7, <1>8, EventWords

LEMMA ControlToolEndWords ==
  ASSUME Flow, Next, Words, ClientPaired, ControlToolEnd
  PROVE  Words'
<1> DEFINE args == {}
           begun == {}
           ended == {}
           left == Tools("control_tool")
<1>1. Initial \in Thread
  BY HandleCases
<1>2. Calls(Initial, "control_tool", args, begun, ended, left) /\ OwnLeads(Initial)'
  BY ControlToolEndCall
<1>3. Moves(begun, ended)
  BY ControlToolEndMoves
<1>4. Reaches("control_tool", begun, ended, left)
  BY DEF Reaches
<1>5. Leads(Initial, "control_tool", ended, left)
  BY <1>2 DEF Leads, Tools, Called
<1>6. /\ UNCHANGED <<callbacks_registered, clientSet, user, ptr, data, live, pools, pairs, entered, region>>
      /\ at[Initial] \in {"serial"} /\ \A u \in Thread \ {Initial} : at'[u] = at[u]
  BY <1>1, GotoFacts DEF ControlToolEnd, tool, memory
<1>7. Threads'
  <2> HIDE DEF args, begun, ended, left
  <2>1. QED
    BY <1>1, <1>2, <1>6, EventThreads DEF Words
<1>8. entered' = entered /\ region' = region
  BY <1>6
<1> HIDE DEF args, begun, ended, left
<1>9. QED
  BY <1>1, <1>2, <1>3, <1>4, <1>5, <1>6, <1>7, <1>8, EventWords

LEMMA ThreadEndWords ==
  ASSUME Flow, Next, Words, ClientPaired, NEW t \in Thread, ThreadEnd(t)
  PROVE  Words'
<1> DEFINE args == {ThreadData(t)}
           begun == {}
           ended == {ThreadData(t)}
           left == {q \in {"own", "client", "free"} : Called("thread_end", q)}
<1>1. Initial \in Thread
  BY HandleCases
<1>2. Calls(t, "thread_end", args, begun, ended, left) /\ OwnLeads(t)'
  BY ThreadEndCall
<1>3. Moves(begun, ended)
  BY ThreadEndMoves
<1>4. Reaches("thread_end", begun, ended, left)
  BY EventNames, MultiplexAssumption DEF Reaches, Tools, Called, InitialTask
<1>5. Leads(t, "thread_end", ended, left)
  BY <1>2 DEF Leads, Tools, Called
<1>6. /\ UNCHANGED <<callbacks_registered, clientSet, user, ptr, data, live, pools, pairs, entered, region>>
      /\ at[t] \in {"idle", "done"} /\ \A u \in Thread \ {t} : at'[u] = at[u]
  BY <1>1, GotoFacts DEF ThreadEnd, tool, memory
<1>7. Threads'
  <2> HIDE DEF args, begun, ended, left
  <2>1. QED
    BY <1>1, <1>2, <1>6, EventThreads DEF Words
<1>8. entered' = entered /\ region' = region
  BY <1>6
<1> HIDE DEF args, begun, ended, left
<1>9. QED
  BY <1>1, <1>2, <1>3, <1>4, <1>5, <1>6, <1>7, <1>8, EventWords

LEMMA FinalizeWords ==
  ASSUME Flow, Next, Words, ClientPaired, Finalize
  PROVE  Words'
<1>1. PICK left : Calls(Initial, "finalize", {}, {}, {}, left)
  BY FinalizeCall
<1>2. Moves({}, {})
  BY FinalizeMoves
<1>3. Reaches("finalize", {}, {}, left) /\ Leads(Initial, "finalize", {}, left)
  BY DEF Reaches, Leads
<1>4. /\ UNCHANGED <<callbacks_registered, clientSet, user, ptr, data, live, pools, pairs, entered, region>>
      /\ Initial \in Thread /\ at[Initial] = "gone" /\ at'[Initial] = "final"
      /\ \A u \in Thread \ {Initial} : at'[u] = at[u]
  BY GotoFacts, HandleCases DEF Finalize, tool, memory
<1>5. Threads'
  <2> DEFINE Pool(u) ==
               callbacks_registered /\ at[u] # "new"
               /\ (at[u] \in {"gone", "final"} => InCall(u) /\ call[u].event = "thread_end" /\ "own" \in Remaining(u))
               /\ ~(call[u].event = "thread_begin" /\ "own" \in Remaining(u))
             Pair(u) == Registered("thread_begin")
               /\ (at[u] \notin {"new", "gone", "final"} \/ (InCall(u) /\ call[u].event = "thread_end"))
  <2>1. \A u \in Thread : (Pool(u) => u \in pools) /\ (Pair(u) => u \in pairs)
    BY DEF Words, Threads
  <2>2. Registered("thread_begin")' <=> Registered("thread_begin")
    BY <1>4 DEF Registered
  <2>3. ASSUME NEW u \in Thread \ {Initial}
        PROVE  (Pool(u)' => u \in pools') /\ (Pair(u)' => u \in pairs')
    <3>1. at'[u] = at[u] /\ call'[u] = call[u] /\ Remaining(u)' = Remaining(u) /\ (InCall(u)' <=> InCall(u))
      BY <1>1, <1>4, EventCalls
    <3>2. QED
      BY <1>4, <2>1, <2>2, <3>1
  <2>4. InCall(Initial)' => call'[Initial].event = "finalize"
    BY <1>1 DEF Calls
  <2>5. ~Pool(Initial)' /\ ~Pair(Initial)'
    BY <1>4, <2>4
  <2>6. QED
    BY <2>3, <2>5 DEF Threads
<1>6. QED
  BY <1>1, <1>2, <1>3, <1>4, <1>5, EventWords

-----------------------------------------------------------------------------
(* What the tools know after a part of a callback                           *)

LEMMA HandleNotObject ==
  \A h \in Handle : h \notin Object
<1>1. \A o \in Object : \E k, t, i : o = <<k, t, i>> /\ k \in {"region", "task"}
  BY DEF Object, Kind
<1>2. \A a, b, c, d, e : <<a, b>> # <<c, d, e>>
  <2>1. ASSUME NEW a, NEW b, NEW c, NEW d, NEW e, <<a, b>> = <<c, d, e>>
        PROVE  FALSE
    <3>1. Len(<<a, b>>) = 2 /\ Len(<<c, d, e>>) = 3
      OBVIOUS
    <3>2. QED
      BY <2>1, <3>1
  <2>2. QED
    BY <2>1
<1>3. \A t : ThreadData(t) \notin Object
  BY <1>1, <1>2 DEF ThreadData
<1>4. \A r : RegionData(r) \notin Object
  BY <1>1, <1>2 DEF RegionData
<1>5. \A r, t : ImplicitTask(r, t) \notin Object
  BY <1>1, HandleFacts
<1>6. \A e : ExplicitTask(e) \notin Object
  BY <1>1, <1>2 DEF ExplicitTask
<1>7. QED
  BY <1>3, <1>4, <1>5, <1>6, HandleCases

LEMMA CurrentFrame ==
  ASSUME UNCHANGED <<at, stack, entered, region, ready, created>>
  PROVE  \A h : (Current(h)' <=> Current(h)) /\ (Started(h)' <=> Started(h))
<1>1. ASSUME NEW h
      PROVE  (Current(h)' <=> Current(h)) /\ (Started(h)' <=> Started(h))
  <2>1. \A t \in Thread : OnStack(t)' = OnStack(t)
    BY OnStackSame
  <2>2. CurrentTask(h)' <=> CurrentTask(h)
    BY <2>1 DEF CurrentTask
  <2>3. CurrentThread(h)' <=> CurrentThread(h)
    BY DEF CurrentThread
  <2>4. CurrentRegion(h)' <=> CurrentRegion(h)
    BY DEF CurrentRegion
  <2>5. Started(h)' <=> Started(h)
    BY DEF Started
  <2>6. QED
    BY <2>2, <2>3, <2>4, <2>5 DEF Current
<1>2. QED
  BY <1>1

LEMMA PartMoves ==
  ASSUME Flow, NEW t \in Thread, NEW q \in PartName, Part(t, q)
  PROVE  /\ \A h : (Current(h)' <=> Current(h)) /\ (Started(h)' <=> Started(h))
         /\ \A h, p : Beginning(h, p)' <=> Beginning(h, p) /\ ~(p = q /\ h \in call[t].begun)
         /\ \A h, p : Ending(h, p)' <=> Ending(h, p) /\ ~(p = q /\ h \in call[t].ended)
         /\ \A u \in Thread \ {t} : call'[u] = call[u] /\ Remaining(u)' = Remaining(u) /\ (InCall(u)' <=> InCall(u))
         /\ InCall(t)' => /\ call'[t].event = call[t].event /\ call'[t].begun = call[t].begun
                          /\ call'[t].ended = call[t].ended /\ call'[t].args = call[t].args
<1>1. /\ InCall(t) /\ q \in Remaining(t) /\ UNCHANGED program
      /\ \A u \in Thread \ {t} : call'[u] = call[u]
      /\ Remaining(t)' = Remaining(t) \ {q}
      /\ InCall(t)' => call'[t] = [call[t] EXCEPT !.parts = Tail(call[t].parts)]
      /\ ~InCall(t)' => Remaining(t) = {q}
  BY PartFacts
<1>2. InCall(t)' => /\ call'[t].event = call[t].event /\ call'[t].begun = call[t].begun
                    /\ call'[t].ended = call[t].ended /\ call'[t].args = call[t].args
  <2>1. call[t] \in CallType
    BY DEF Flow, PartsLeft
  <2>2. QED
    BY <1>1, <2>1 DEF CallType
<1>3. \A u \in Thread \ {t} : Remaining(u)' = Remaining(u) /\ (InCall(u)' <=> InCall(u))
  BY <1>1 DEF Remaining, InCall
<1>4. \A u \in Thread : InCall(u) <=> Remaining(u) # {}
  BY RemainingFacts
<1>5. ASSUME NEW h, NEW p
      PROVE  /\ Beginning(h, p)' <=> Beginning(h, p) /\ ~(p = q /\ h \in call[t].begun)
             /\ Ending(h, p)' <=> Ending(h, p) /\ ~(p = q /\ h \in call[t].ended)
  <2>1. /\ h \in call'[t].begun /\ p \in Remaining(t)' <=> h \in call[t].begun /\ p \in Remaining(t) /\ p # q
        /\ h \in call'[t].ended /\ p \in Remaining(t)' <=> h \in call[t].ended /\ p \in Remaining(t) /\ p # q
    BY <1>1, <1>2
  <2>2. \A u \in Thread \ {t} :
          /\ h \in call'[u].begun /\ p \in Remaining(u)' <=> h \in call[u].begun /\ p \in Remaining(u)
          /\ h \in call'[u].ended /\ p \in Remaining(u)' <=> h \in call[u].ended /\ p \in Remaining(u)
    BY <1>1, <1>3
  <2>3. ASSUME NEW u \in Thread \ {t}
        PROVE  /\ h \in call[t].begun => ~(h \in call[u].begun /\ p \in Remaining(u))
               /\ h \in call[t].ended => ~(h \in call[u].ended /\ p \in Remaining(u))
    BY <1>1, <1>4, OneEvent
  <2>4. QED
    BY <2>1, <2>2, <2>3 DEF Beginning, Ending
<1>6. UNCHANGED <<at, stack, entered, region, ready, created>>
  BY <1>1 DEF program
<1>7. QED
  BY <1>1, <1>2, <1>3, <1>5, <1>6, CurrentFrame

LEMMA PartHeld ==
  ASSUME Flow, NEW t \in Thread, NEW q \in PartName, Part(t, q)
  PROVE  /\ q # "own" => Held' = Held
         /\ q = "own" => Held' = (Held \cup (call[t].begun \cap (RegionHandle \cup TaskHandle))) \ call[t].ended
<1>1. InCall(t) /\ q \in Remaining(t)
  BY PartFacts
<1>2. /\ \A h : Current(h)' <=> Current(h)
      /\ \A h, p : Beginning(h, p)' <=> Beginning(h, p) /\ ~(p = q /\ h \in call[t].begun)
      /\ \A h, p : Ending(h, p)' <=> Ending(h, p) /\ ~(p = q /\ h \in call[t].ended)
  BY PartMoves
<1>3. q # "own" => Held' = Held
  BY <1>2 DEF Held
<1>4. /\ \A h \in call[t].begun : Current(h) /\ h \notin call[t].ended
      /\ \A h \in call[t].ended : ~Current(h)
  BY <1>1, BegunCurrent, EndedGone, CallFacts
<1>5. ASSUME q = "own", NEW h \in RegionHandle \cup TaskHandle
      PROVE  h \in Held' <=> h \in (Held \cup (call[t].begun \cap (RegionHandle \cup TaskHandle))) \ call[t].ended
  BY <1>2, <1>4, <1>5 DEF Held
<1>6. Held \subseteq RegionHandle \cup TaskHandle /\ Held' \subseteq RegionHandle \cup TaskHandle
  BY DEF Held
<1>7. q = "own" => Held' = (Held \cup (call[t].begun \cap (RegionHandle \cup TaskHandle))) \ call[t].ended
  BY <1>5, <1>6
<1>8. QED
  BY <1>3, <1>7

LEMMA NoEventFinalize ==
  ASSUME Flow, NEW t \in Thread, InCall(t), call[t].event \in {"finalize", "control_tool"}
  PROVE  call[t].begun = {} /\ call[t].ended = {}
<1>1. ASSUME NEW h
      PROVE  BeginEvent(h) \notin {"finalize", "control_tool"} /\ EndEvent(h) \notin {"finalize", "control_tool"}
  BY DEF BeginEvent, EndEvent
<1>2. QED
  BY <1>1, CallFacts DEF Passes

LEMMA PartKnown ==
  ASSUME Flow, NEW t \in Thread, NEW q \in PartName, Part(t, q), clientSet' = clientSet
  PROVE  /\ q # "client" => Known' = Known
         /\ q = "client" => Known' = (Known \cup call[t].begun) \ call[t].ended
<1>1. InCall(t) /\ q \in Remaining(t) /\ PartsOf(t)
  BY PartFacts
<1>2. /\ \A h : Current(h)' <=> Current(h)
      /\ \A h, p : Beginning(h, p)' <=> Beginning(h, p) /\ ~(p = q /\ h \in call[t].begun)
      /\ \A h, p : Ending(h, p)' <=> Ending(h, p) /\ ~(p = q /\ h \in call[t].ended)
  BY PartMoves
<1>3. \A h : BeginEvent(h)' = BeginEvent(h)
  BY DEF BeginEvent
<1>4. q # "client" => Known' = Known
  BY <1>2, <1>3 DEF Known
<1>5. /\ \A h \in call[t].begun : Current(h) /\ h \notin call[t].ended /\ h \in Handle
      /\ \A h \in call[t].ended : ~Current(h)
  BY <1>1, BegunCurrent, EndedGone, CallFacts
<1>6. q = "client" => \A h \in call[t].begun : BeginEvent(h) \in clientSet
  <2>1. CASE call[t].event = "finalize"
    BY <1>1, <2>1, NoEventFinalize
  <2>2. CASE call[t].event # "finalize"
    BY <1>1, <2>2, CallFacts DEF PartsOf, Passes
  <2>3. QED
    BY <2>1, <2>2
<1>7. ASSUME q = "client", NEW h \in Handle
      PROVE  h \in Known' <=> h \in (Known \cup call[t].begun) \ call[t].ended
  BY <1>2, <1>3, <1>5, <1>6, <1>7 DEF Known
<1>8. Known \subseteq Handle /\ Known' \subseteq Handle
  BY DEF Known
<1>9. q = "client" => Known' = (Known \cup call[t].begun) \ call[t].ended
  BY <1>5, <1>7, <1>8
<1>10. QED
  BY <1>4, <1>9

LEMMA PartOrdered ==
  ASSUME Flow, Ordered, NEW t \in Thread, NEW q \in PartName, Part(t, q),
         UNCHANGED <<callbacks_registered, clientSet>>
  PROVE  Ordered'
<1> DEFINE OrderedAt(u) ==
      LET p == call[u].parts IN
      IF call[u].ended # {} /\ call[u].event # "thread_end"
        THEN /\ \A i \in 1..Len(p) : p[i] = "client" => i = 1
             /\ callbacks_registered => "own" \in Remaining(u)
        ELSE call[u].event # "finalize" =>
               /\ \A i \in 1..Len(p) : p[i] = "own" => i = 1
               /\ "own" \in Remaining(u) /\ call[u].event \in clientSet => "client" \in Remaining(u)
<1>1. ASSUME NEW u \in Thread \ {t}, InCall(u)'
      PROVE  OrderedAt(u)'
  <2>1. call'[u] = call[u] /\ Remaining(u)' = Remaining(u) /\ InCall(u)
    BY <1>1, PartMoves
  <2>2. OrderedAt(u)
    BY <2>1 DEF Ordered
  <2>3. QED
    BY <2>1, <2>2
<1>2. ASSUME InCall(t)'
      PROVE  OrderedAt(t)'
  <2>1. /\ InCall(t) /\ PartsOf(t) /\ q = call[t].parts[1] /\ Remaining(t)' = Remaining(t) \ {q}
        /\ Len(call'[t].parts) = Len(call[t].parts) - 1
        /\ \A i \in 1..Len(call[t].parts) - 1 : call'[t].parts[i] = call[t].parts[i + 1]
        /\ call'[t].event = call[t].event /\ call'[t].ended = call[t].ended
    BY <1>2, PartFacts, PartMoves
  <2>2. OrderedAt(t) /\ Len(call[t].parts) \in Nat /\ Remaining(t) \subseteq PartName
    BY <2>1, RemainingFacts DEF Ordered
  <2>3. \A p : \A i \in 1..Len(call'[t].parts) :
            call'[t].parts[i] = p => i + 1 \in 1..Len(call[t].parts) /\ call[t].parts[i + 1] = p /\ i + 1 # 1
    BY <2>1, <2>2
  <2>4. CASE call[t].ended # {} /\ call[t].event # "thread_end"
    <3>1. \A i \in 1..Len(call'[t].parts) : call'[t].parts[i] = "client" => i = 1
      BY <2>2, <2>3, <2>4
    <3>2. ASSUME callbacks_registered
          PROVE  "own" \in Remaining(t)'
      <4>1. "own" \in Remaining(t)
        BY <2>2, <2>4, <3>2
      <4>2. ASSUME q = "own"
            PROVE  FALSE
        <5>1. "client" \notin Remaining(t)
          BY <2>1, <2>2, <2>4, <4>2 DEF Remaining
        <5>2. "free" \notin Remaining(t) /\ "dlclose" \notin Remaining(t)
          BY <2>1, <2>4, NoEventFinalize DEF PartsOf
        <5>3. Remaining(t)' = {}
          BY <2>1, <2>2, <4>2, <5>1, <5>2 DEF PartName
        <5>4. Remaining(t)' # {}
          <6>1. call'[t].parts # <<>> /\ call'[t].parts \in Seq(PartName)
            BY <1>2, PartFacts DEF InCall, CallType
          <6>2. 1 \in 1..Len(call'[t].parts)
            BY <6>1, TailFacts
          <6>3. QED
            BY <6>2 DEF Remaining
        <5>5. QED
          BY <5>3, <5>4
      <4>3. QED
        BY <2>1, <4>1, <4>2
    <3>3. QED
      BY <2>1, <2>4, <3>1, <3>2
  <2>5. CASE ~(call[t].ended # {} /\ call[t].event # "thread_end") /\ call[t].event # "finalize"
    <3>1. \A i \in 1..Len(call'[t].parts) : call'[t].parts[i] = "own" => i = 1
      BY <2>2, <2>3, <2>5
    <3>2. "own" \notin Remaining(t)'
      BY <2>1, <2>2, <2>5 DEF Remaining
    <3>3. QED
      BY <2>1, <2>5, <3>1, <3>2
  <2>6. CASE ~(call[t].ended # {} /\ call[t].event # "thread_end") /\ call[t].event = "finalize"
    BY <2>1, <2>6
  <2>7. QED
    BY <2>4, <2>5, <2>6
<1>3. QED
  BY <1>1, <1>2 DEF Ordered

LEMMA PartThreads ==
  ASSUME Flow, Threads, NEW t \in Thread, NEW q \in PartName, Part(t, q),
         UNCHANGED <<callbacks_registered, clientSet>>,
         pools \ {t} \subseteq pools', pairs \ {t} \subseteq pairs',
         q = "own" /\ call[t].event = "thread_begin" => t \in pools',
         ~(q = "own" /\ call[t].event = "thread_end") => pools \subseteq pools',
         q # "free" => pairs \subseteq pairs'
  PROVE  Threads'
<1> DEFINE Pool(u) ==
             callbacks_registered /\ at[u] # "new"
             /\ (at[u] \in {"gone", "final"} => InCall(u) /\ call[u].event = "thread_end" /\ "own" \in Remaining(u))
             /\ ~(call[u].event = "thread_begin" /\ "own" \in Remaining(u))
           Pair(u) == Registered("thread_begin")
             /\ (at[u] \notin {"new", "gone", "final"} \/ (InCall(u) /\ call[u].event = "thread_end"))
<1>1. \A u \in Thread : (Pool(u) => u \in pools) /\ (Pair(u) => u \in pairs)
  BY DEF Threads
<1>2. (Registered("thread_begin")' <=> Registered("thread_begin")) /\ at' = at
  BY PartFacts DEF Registered, program
<1>3. ASSUME NEW u \in Thread \ {t}
      PROVE  (Pool(u)' => u \in pools') /\ (Pair(u)' => u \in pairs')
  <2>1. call'[u] = call[u] /\ Remaining(u)' = Remaining(u) /\ (InCall(u)' <=> InCall(u))
    BY PartMoves
  <2>2. QED
    BY <1>1, <1>2, <2>1
<1>4. /\ InCall(t) /\ q \in Remaining(t) /\ Remaining(t)' = Remaining(t) \ {q}
      /\ InCall(t)' => call'[t].event = call[t].event
      /\ ~InCall(t)' => Remaining(t) = {q} /\ Remaining(t)' = {}
      /\ call[t].event = "thread_end" => at[t] = "gone"
      /\ call[t].event = "finalize" => at[t] = "final"
      /\ q = "free" => call[t].event = "thread_end" /\ ~InCall(t)'
      /\ PartsOf(t)
  <2>1. /\ InCall(t) /\ q \in Remaining(t) /\ Remaining(t)' = Remaining(t) \ {q}
        /\ InCall(t)' => call'[t].event = call[t].event
        /\ ~InCall(t)' => Remaining(t) = {q} /\ Remaining(t)' = {}
        /\ PartsOf(t)
    BY PartFacts, PartMoves
  <2>2. call[t].event = "thread_end" => at[t] = "gone"
    BY <2>1, CallFacts DEF InUse
  <2>3. call[t].event = "finalize" => at[t] = "final"
    BY <2>1 DEF PartsOf
  <2>4. q = "free" => call[t].event = "thread_end" /\ ~InCall(t)'
    BY <2>1, LastPart DEF PartsOf
  <2>5. QED
    BY <2>1, <2>2, <2>3, <2>4
<1>5. Pool(t)' => t \in pools'
  <2>1. CASE q = "own" /\ call[t].event = "thread_begin"
    BY <2>1
  <2>2. CASE q = "own" /\ call[t].event = "thread_end"
    BY <1>2, <1>4, <2>2
  <2>3. CASE ~(q = "own" /\ call[t].event \in {"thread_begin", "thread_end"})
    <3>1. Pool(t)' => Pool(t)
      BY <1>2, <1>4, <2>3
    <3>2. QED
      BY <1>1, <2>3, <3>1
  <2>4. QED
    BY <2>1, <2>2, <2>3
<1>6. Pair(t)' => t \in pairs'
  <2>1. Pair(t)' => Pair(t) /\ q # "free"
    BY <1>2, <1>4
  <2>2. QED
    BY <1>1, <2>1
<1>7. QED
  BY <1>3, <1>5, <1>6 DEF Threads

(* A part that leaves the memory of regions and tasks alone.               *)
LEMMA PartFrame ==
  ASSUME Flow, Words, NEW t \in Thread, NEW q \in PartName, Part(t, q), q # "client",
         q = "own" => call[t].begun \cap (RegionHandle \cup TaskHandle) = {}
                      /\ call[t].ended \cap (RegionHandle \cup TaskHandle) = {},
         UNCHANGED <<callbacks_registered, clientSet, user, ptr, data, live>>
  PROVE  Objects' /\ Stored'
<1>1. /\ \A h : (Current(h)' <=> Current(h)) /\ (Started(h)' <=> Started(h))
      /\ \A h : Ending(h, "client")' <=> Ending(h, "client")
  BY PartMoves
<1>2. Held' = Held
  <2>1. Held \subseteq RegionHandle \cup TaskHandle
    BY DEF Held
  <2>2. QED
    BY <2>1, PartHeld
<1>3. Known' = Known
  BY PartKnown
<1>4. UNCHANGED <<entered, region>>
  BY PartFacts DEF program
<1>5. Objects'
  BY <1>2, <1>4, EventObjects DEF Words
<1>6. \A o \in Object : (user[o] = None \/ Current(user[o]) \/ Ending(user[o], "client")
        => data[o] = IF user[o] \in live THEN user[o] ELSE None)'
  <2>1. ASSUME NEW o \in Object
        PROVE  (Current(user[o])' <=> Current(user[o])) /\ (Ending(user[o], "client")' <=> Ending(user[o], "client"))
    BY <1>1
  <2>2. QED
    BY <2>1 DEF Words, Stored
<1>7. \A h \in Handle : (~(callbacks_registered /\ h \in RegionHandle \cup TaskHandle)
                         /\ (~Started(h) \/ Current(h) \/ Ending(h, "client"))
        => data[h] = IF h \in live THEN h ELSE None)'
  BY <1>1 DEF Words, Stored
<1>8. QED
  BY <1>3, <1>5, <1>6, <1>7 DEF Words, Stored

(* New returns an object of its own for every region and task that begins.  *)
LEMMA OwnBeginFacts ==
  ASSUME Flow, NEW t \in Thread, InCall(t), call[t].begun \subseteq RegionHandle \cup TaskHandle, OwnBegin(t)
  PROVE  /\ \A h \in call[t].begun :
              /\ ptr'[h] \in Object /\ user[ptr'[h]] = None /\ user'[ptr'[h]] = h
              /\ ptr'[h][1] = KindOf(h) /\ Owner(ptr'[h]) = t
         /\ \A h \in (RegionHandle \cup TaskHandle) \ call[t].begun : ptr'[h] = ptr[h]
         /\ \A o \in Object : (\A h \in call[t].begun : ptr'[h] # o) => user'[o] = user[o]
         /\ UNCHANGED <<pools, data, pairs>>
<1> DEFINE begun == call[t].begun
<1>1. PICK new \in [begun -> Object] :
        /\ \A h \in begun : MayGet(t, KindOf(h), new[h])
        /\ ptr' = [h \in DOMAIN ptr |-> IF h \in begun THEN new[h] ELSE ptr[h]]
        /\ user' = [o \in Object |-> IF \E h \in begun : new[h] = o
                                      THEN CHOOSE h \in begun : new[h] = o ELSE user[o]]
        /\ UNCHANGED <<pools, data, pairs>>
  BY Zenon DEF OwnBegin
<1>2. begun \subseteq RegionHandle \cup TaskHandle /\ DOMAIN ptr = RegionHandle \cup TaskHandle
  BY DEF Flow, TypeOK
<1>3. \A h, g \in begun : KindOf(h) = KindOf(g) => h = g
  BY CallFacts DEF Passes
<1> HIDE DEF begun
<1>4. \A h \in begun : /\ new[h] \in Object /\ user[new[h]] = None
                       /\ new[h][1] = KindOf(h) /\ Owner(new[h]) = t
  BY <1>1 DEF MayGet
<1>5. \A h, g \in begun : new[h] = new[g] => h = g
  BY <1>3, <1>4
<1>6. (\A h \in begun : ptr'[h] = new[h]) /\ (\A h \in (RegionHandle \cup TaskHandle) \ begun : ptr'[h] = ptr[h])
  BY <1>1, <1>2
<1>7. ASSUME NEW h \in begun
      PROVE  user'[new[h]] = h
  <2>1. user'[new[h]] = CHOOSE g \in begun : new[g] = new[h]
    BY <1>1, <1>4, <1>7
  <2>2. (CHOOSE g \in begun : new[g] = new[h]) = h
    BY <1>5, <1>7
  <2>3. QED
    BY <2>1, <2>2
<1>8. ASSUME NEW o \in Object, \A h \in begun : new[h] # o
      PROVE  user'[o] = user[o]
  BY <1>1, <1>8
<1>9. /\ \A h \in begun : /\ ptr'[h] \in Object /\ user[ptr'[h]] = None /\ user'[ptr'[h]] = h
                           /\ ptr'[h][1] = KindOf(h) /\ Owner(ptr'[h]) = t
      /\ \A o \in Object : (\A h \in begun : ptr'[h] # o) => user'[o] = user[o]
  <2>1. ASSUME NEW h \in begun
        PROVE  /\ ptr'[h] \in Object /\ user[ptr'[h]] = None /\ user'[ptr'[h]] = h
               /\ ptr'[h][1] = KindOf(h) /\ Owner(ptr'[h]) = t
    <3>1. ptr'[h] = new[h]
      BY <1>6
    <3>2. QED
      BY <1>4, <1>7, <3>1
  <2>2. \A o \in Object : (\A h \in begun : ptr'[h] # o) => user'[o] = user[o]
    BY <1>6, <1>8
  <2>3. QED
    BY <2>1, <2>2
<1>10. UNCHANGED <<pools, data, pairs>>
  BY <1>1
<1>11. QED
  BY <1>6, <1>9, <1>10 DEF begun

(* Where the tasks that begin are put.                                     *)
LEMMA BegunOwner ==
  ASSUME Flow, NEW t \in Thread, InCall(t), NEW h \in call[t].begun, h \in RegionHandle \cup TaskHandle
  PROVE  /\ h[1] = "region" => t = Initial
         /\ h[1] = "implicit" => h[3] = t
         /\ h[1] = "explicit" => entered[t] = region
<1>1. h[1] = "region" => t = Initial
  BY CallFacts DEF Passes
<1>2. ASSUME h[1] = "implicit"
      PROVE  h[3] = t
  <2>1. h \in TaskHandle /\ ~\E e \in ready : h = ExplicitTask(e)
    BY <1>2, KindFacts, HandleFacts
  <2>2. h \in OnStack(t)
    BY <2>1, BegunTask
  <2>3. QED
    BY <1>2, <2>2, OnStackFacts, HandleFacts DEF InitialTask
<1>3. ASSUME h[1] = "explicit"
      PROVE  entered[t] = region
  <2>1. h \in TaskHandle
    BY <1>3, KindFacts
  <2>2. barrier < entered[t]
    <3>1. CASE h \in OnStack(t)
      BY <1>3, <3>1, OnStackFacts, HandleFacts DEF InitialTask
    <3>2. CASE at[t] = "team"
      BY <3>2 DEF Flow, Places
    <3>3. QED
      BY <2>1, <3>1, <3>2, BegunTask
  <2>3. region <= barrier + 1
    BY DEF Flow, Places
  <2>4. QED
    BY <2>2, <2>3, CountTypes
<1>4. QED
  BY <1>1, <1>2, <1>3

LEMMA OwnBeginObjects ==
  ASSUME Flow, Words, NEW t \in Thread, Part(t, "own"), call[t].begun # {},
         call[t].begun \subseteq RegionHandle \cup TaskHandle, OwnBegin(t),
         callbacks_registered, callbacks_registered' = callbacks_registered
  PROVE  Objects'
<1> DEFINE begun == call[t].begun
<1>1. InCall(t) /\ call[t].ended = {} /\ "own" \in PartName
  BY PartFacts, CallFacts DEF Passes, PartName
<1>2. Held' = Held \cup begun
  BY <1>1, PartHeld
<1>3. /\ \A h \in begun :
              /\ ptr'[h] \in Object /\ user[ptr'[h]] = None /\ user'[ptr'[h]] = h
              /\ ptr'[h][1] = KindOf(h) /\ Owner(ptr'[h]) = t
      /\ \A h \in (RegionHandle \cup TaskHandle) \ begun : ptr'[h] = ptr[h]
      /\ \A o \in Object : (\A h \in begun : ptr'[h] # o) => user'[o] = user[o]
  BY <1>1, OwnBeginFacts
<1>4. UNCHANGED <<entered, region>>
  BY <1>1, PartFacts DEF program
<1>5. \A h \in begun : /\ h[1] = "region" => t = Initial
                       /\ h[1] = "implicit" => h[3] = t
                       /\ h[1] = "explicit" => entered[t] = region
  BY <1>1, BegunOwner
<1>6. \A h \in begun : h # None /\ h \in RegionHandle \cup TaskHandle
  BY HandleCases
<1>7. \A h \in begun : h \notin Held
  <2>1. ASSUME NEW h \in begun
        PROVE  h \notin Held
    <3>1. Beginning(h, "own")
      BY <1>1, PartFacts DEF Beginning
    <3>2. ~Ending(h, "own")
      BY <1>1, BegunCurrent, CurrentNotEnding
    <3>3. QED
      BY <3>1, <3>2 DEF Held
  <2>2. QED
    BY <2>1
<1> HIDE DEF begun
<1>8. ASSUME NEW h \in Held'
      PROVE  ptr'[h] \in Object /\ user'[ptr'[h]] = h
  <2>1. CASE h \in begun
    BY <1>3, <2>1
  <2>2. CASE h \notin begun
    <3>1. h \in Held /\ h \in RegionHandle \cup TaskHandle /\ h # None
      BY <1>2, <1>8, <2>2, HandleCases DEF Held
    <3>2. ptr'[h] = ptr[h] /\ ptr[h] \in Object /\ user[ptr[h]] = h
      BY <1>3, <2>2, <3>1 DEF Words, Objects
    <3>3. \A g \in begun : ptr'[g] # ptr[h]
      BY <1>3, <3>1, <3>2
    <3>4. QED
      BY <1>3, <3>2, <3>3
  <2>3. QED
    BY <2>1, <2>2
<1>9. ASSUME NEW o \in Object, user'[o] # None
      PROVE  /\ user'[o] \in Held' /\ ptr'[user'[o]] = o /\ o[1] = KindOf(user'[o])
             /\ user'[o][1] = "region" => Owner(o) = Initial
             /\ user'[o][1] = "implicit" => Owner(o) = user'[o][3]
             /\ user'[o][1] = "explicit" => entered'[Owner(o)] = region'
  <2>1. CASE \E h \in begun : ptr'[h] = o
    <3>1. PICK h \in begun : ptr'[h] = o
      BY <2>1
    <3>2. user'[o] = h /\ o[1] = KindOf(h) /\ Owner(o) = t
      BY <1>3, <3>1
    <3>3. QED
      BY <1>2, <1>4, <1>5, <3>1, <3>2
  <2>2. CASE \A h \in begun : ptr'[h] # o
    <3>1. user'[o] = user[o] /\ user[o] # None
      BY <1>3, <1>9, <2>2
    <3>2. /\ user[o] \in Held /\ ptr[user[o]] = o /\ o[1] = KindOf(user[o])
          /\ user[o][1] = "region" => Owner(o) = Initial
          /\ user[o][1] = "implicit" => Owner(o) = user[o][3]
          /\ user[o][1] = "explicit" => entered[Owner(o)] = region
      BY <3>1 DEF Words, Objects
    <3>3. user[o] \notin begun
      BY <1>7, <3>2
    <3>4. ptr'[user[o]] = ptr[user[o]]
      BY <1>3, <3>2, <3>3 DEF Held
    <3>5. QED
      BY <1>2, <1>4, <3>1, <3>2, <3>4
  <2>3. QED
    BY <2>1, <2>2
<1>10. \A h : KindOf(h)' = KindOf(h)
  BY DEF KindOf
<1>11. \A o : Owner(o)' = Owner(o)
  BY DEF Owner
<1>12. QED
  BY <1>8, <1>9, <1>10, <1>11 DEF Objects

LEMMA OwnBeginStored ==
  ASSUME Flow, Words, NEW t \in Thread, Part(t, "own"), call[t].begun # {},
         call[t].begun \subseteq RegionHandle \cup TaskHandle, OwnBegin(t),
         UNCHANGED <<callbacks_registered, clientSet, live>>
  PROVE  Stored'
<1> DEFINE begun == call[t].begun
<1>1. InCall(t) /\ call[t].ended = {} /\ "own" \in PartName /\ "own" \in Remaining(t)
  BY PartFacts, CallFacts DEF Passes, PartName
<1>2. /\ \A h : (Current(h)' <=> Current(h)) /\ (Started(h)' <=> Started(h))
      /\ \A h : Ending(h, "client")' <=> Ending(h, "client")
  BY <1>1, PartMoves
<1>3. Known' = Known /\ live = Known
  BY <1>1, PartKnown DEF Words, Stored
<1>4. /\ \A h \in begun : ptr'[h] \in Object /\ user[ptr'[h]] = None /\ user'[ptr'[h]] = h
      /\ \A o \in Object : (\A h \in begun : ptr'[h] # o) => user'[o] = user[o]
      /\ data' = data
  BY <1>1, OwnBeginFacts
<1>5. ASSUME NEW h \in begun
      PROVE  h \notin live
  <2>1. call[t].event = BeginEvent(h) /\ call[t].event # "finalize"
    BY <1>1, CallFacts, NoEventFinalize DEF Passes
  <2>2. call[t].event \in clientSet => "client" \in Remaining(t)
    BY <1>1, <2>1 DEF Words, Ordered
  <2>3. BeginEvent(h) \in clientSet => Beginning(h, "client")
    BY <2>1, <2>2 DEF Beginning
  <2>4. ~Ending(h, "client")
    BY <1>1, BegunCurrent, CurrentNotEnding
  <2>5. QED
    BY <1>3, <2>3, <2>4 DEF Known
<1> HIDE DEF begun
<1>6. \A o \in Object : (user[o] = None \/ Current(user[o]) \/ Ending(user[o], "client")
        => data[o] = IF user[o] \in live THEN user[o] ELSE None)'
  <2>1. ASSUME NEW o \in Object, (user[o] = None \/ Current(user[o]) \/ Ending(user[o], "client"))'
        PROVE  data'[o] = IF user'[o] \in live' THEN user'[o] ELSE None
    <3>1. CASE \E h \in begun : ptr'[h] = o
      <4>1. PICK h \in begun : ptr'[h] = o
        BY <3>1
      <4>2. user[o] = None /\ user'[o] = h /\ h \notin live
        BY <1>4, <1>5, <4>1
      <4>3. data[o] = None
        BY <4>2 DEF Words, Stored
      <4>4. QED
        BY <1>4, <4>2, <4>3
    <3>2. CASE \A h \in begun : ptr'[h] # o
      <4>1. user'[o] = user[o]
        BY <1>4, <3>2
      <4>2. user[o] = None \/ Current(user[o]) \/ Ending(user[o], "client")
        BY <1>2, <2>1, <4>1
      <4>3. data[o] = IF user[o] \in live THEN user[o] ELSE None
        BY <4>2 DEF Words, Stored
      <4>4. QED
        BY <1>4, <4>1, <4>3
    <3>3. QED
      BY <3>1, <3>2
  <2>2. QED
    BY <2>1
<1>7. \A h \in Handle : (~(callbacks_registered /\ h \in RegionHandle \cup TaskHandle)
                         /\ (~Started(h) \/ Current(h) \/ Ending(h, "client"))
        => data[h] = IF h \in live THEN h ELSE None)'
  BY <1>2, <1>4 DEF Words, Stored
<1>8. QED
  BY <1>3, <1>6, <1>7 DEF Stored

(* Delete returns the objects of what ends, with nothing in them.           *)
LEMMA OwnEndFacts ==
  ASSUME Flow, Words, NEW t \in Thread, Part(t, "own"), call[t].begun = {},
         call[t].ended \subseteq RegionHandle \cup TaskHandle, OwnEnd(t), callbacks_registered
  PROVE  /\ \A h \in call[t].ended : h \in Held /\ ptr[h] \in Object /\ user[ptr[h]] = h
         /\ \A h \in call[t].ended : user'[ptr[h]] = None /\ data'[ptr[h]] = None
         /\ \A o \in Object : (\A h \in call[t].ended : ptr[h] # o) => user'[o] = user[o] /\ data'[o] = data[o]
         /\ \A h \in Handle : data'[h] = data[h]
         /\ UNCHANGED <<pools, ptr, pairs>>
<1>1. /\ user' = [o \in Object |-> IF o \in {ptr[h] : h \in call[t].ended} THEN None ELSE user[o]]
      /\ data' = [c \in DOMAIN data |-> IF c \in {ptr[h] : h \in call[t].ended} THEN None ELSE data[c]]
      /\ UNCHANGED <<pools, ptr, pairs>>
  BY DEF OwnEnd
<1>2. "own" \in PartName /\ "own" \in Remaining(t) /\ InCall(t)
  BY PartFacts DEF PartName
<1>3. ASSUME NEW h \in call[t].ended
      PROVE  h \in Held /\ ptr[h] \in Object /\ user[ptr[h]] = h
  <2>1. h \in Held
    BY <1>2 DEF Held, Ending
  <2>2. QED
    BY <2>1 DEF Words, Objects
<1>4. DOMAIN data = Object \cup Handle
  BY DEF Flow, TypeOK
<1>5. \A h \in call[t].ended : user'[ptr[h]] = None /\ data'[ptr[h]] = None
  BY <1>1, <1>3, <1>4
<1>6. \A o \in Object : (\A h \in call[t].ended : ptr[h] # o) => user'[o] = user[o] /\ data'[o] = data[o]
  BY <1>1, <1>4
<1>7. \A h \in Handle : data'[h] = data[h]
  BY <1>1, <1>3, <1>4, HandleNotObject
<1>8. QED
  BY <1>1, <1>3, <1>5, <1>6, <1>7

LEMMA OwnEndObjects ==
  ASSUME Flow, Words, NEW t \in Thread, Part(t, "own"), call[t].begun = {},
         call[t].ended \subseteq RegionHandle \cup TaskHandle, OwnEnd(t),
         callbacks_registered, callbacks_registered' = callbacks_registered
  PROVE  Objects'
<1> DEFINE ended == call[t].ended
<1>1. InCall(t) /\ "own" \in PartName
  BY PartFacts DEF PartName
<1>2. Held' = Held \ ended
  BY <1>1, PartHeld
<1>3. /\ \A h \in ended : ptr[h] \in Object /\ user[ptr[h]] = h /\ user'[ptr[h]] = None
      /\ \A o \in Object : (\A h \in ended : ptr[h] # o) => user'[o] = user[o]
      /\ ptr' = ptr
  BY OwnEndFacts
<1>4. UNCHANGED <<entered, region>>
  BY <1>1, PartFacts DEF program
<1> HIDE DEF ended
<1>5. ASSUME NEW h \in Held'
      PROVE  ptr'[h] \in Object /\ user'[ptr'[h]] = h
  <2>1. h \in Held /\ h \notin ended /\ ptr[h] \in Object /\ user[ptr[h]] = h
    BY <1>2 DEF Words, Objects
  <2>2. \A g \in ended : ptr[g] # ptr[h]
    BY <1>3, <2>1
  <2>3. QED
    BY <1>3, <2>1, <2>2
<1>6. ASSUME NEW o \in Object, user'[o] # None
      PROVE  /\ user'[o] \in Held' /\ ptr'[user'[o]] = o /\ o[1] = KindOf(user'[o])
             /\ user'[o][1] = "region" => Owner(o) = Initial
             /\ user'[o][1] = "implicit" => Owner(o) = user'[o][3]
             /\ user'[o][1] = "explicit" => entered'[Owner(o)] = region'
  <2>1. (\A h \in ended : ptr[h] # o) /\ user'[o] = user[o] /\ user[o] # None
    BY <1>3, <1>6
  <2>2. /\ user[o] \in Held /\ ptr[user[o]] = o /\ o[1] = KindOf(user[o])
        /\ user[o][1] = "region" => Owner(o) = Initial
        /\ user[o][1] = "implicit" => Owner(o) = user[o][3]
        /\ user[o][1] = "explicit" => entered[Owner(o)] = region
    BY <2>1 DEF Words, Objects
  <2>3. user[o] \notin ended
    BY <2>1, <2>2
  <2>4. QED
    BY <1>2, <1>3, <1>4, <2>1, <2>2, <2>3
<1>7. \A h : KindOf(h)' = KindOf(h)
  BY DEF KindOf
<1>8. \A o : Owner(o)' = Owner(o)
  BY DEF Owner
<1>9. QED
  BY <1>5, <1>6, <1>7, <1>8 DEF Objects

LEMMA OwnEndStored ==
  ASSUME Flow, Words, NEW t \in Thread, Part(t, "own"), call[t].begun = {},
         call[t].ended \subseteq RegionHandle \cup TaskHandle, OwnEnd(t), callbacks_registered,
         UNCHANGED <<callbacks_registered, clientSet, live>>
  PROVE  Stored'
<1> DEFINE ended == call[t].ended
<1>1. InCall(t) /\ "own" \in PartName
  BY PartFacts DEF PartName
<1>2. /\ \A h : (Current(h)' <=> Current(h)) /\ (Started(h)' <=> Started(h))
      /\ \A h : Ending(h, "client")' <=> Ending(h, "client")
  BY <1>1, PartMoves
<1>3. Known' = Known /\ live = Known
  BY <1>1, PartKnown DEF Words, Stored
<1>4. /\ \A h \in ended : ptr[h] \in Object /\ user'[ptr[h]] = None /\ data'[ptr[h]] = None
      /\ \A o \in Object : (\A h \in ended : ptr[h] # o) => user'[o] = user[o] /\ data'[o] = data[o]
      /\ \A h \in Handle : data'[h] = data[h]
  BY OwnEndFacts
<1> HIDE DEF ended
<1>5. \A o \in Object : (user[o] = None \/ Current(user[o]) \/ Ending(user[o], "client")
        => data[o] = IF user[o] \in live THEN user[o] ELSE None)'
  <2>1. ASSUME NEW o \in Object, (user[o] = None \/ Current(user[o]) \/ Ending(user[o], "client"))'
        PROVE  data'[o] = IF user'[o] \in live' THEN user'[o] ELSE None
    <3>1. CASE \E h \in ended : ptr[h] = o
      BY <1>4, <3>1
    <3>2. CASE \A h \in ended : ptr[h] # o
      <4>1. user'[o] = user[o] /\ data'[o] = data[o]
        BY <1>4, <3>2
      <4>2. user[o] = None \/ Current(user[o]) \/ Ending(user[o], "client")
        BY <1>2, <2>1, <4>1
      <4>3. data[o] = IF user[o] \in live THEN user[o] ELSE None
        BY <4>2 DEF Words, Stored
      <4>4. QED
        BY <4>1, <4>3
    <3>3. QED
      BY <3>1, <3>2
  <2>2. QED
    BY <2>1
<1>6. \A h \in Handle : (~(callbacks_registered /\ h \in RegionHandle \cup TaskHandle)
                         /\ (~Started(h) \/ Current(h) \/ Ending(h, "client"))
        => data[h] = IF h \in live THEN h ELSE None)'
  BY <1>2, <1>4 DEF Words, Stored
<1>7. QED
  BY <1>3, <1>5, <1>6 DEF Stored

(* The client's words are apart from each other.                            *)
LEMMA ClientFacts ==
  ASSUME Flow, Words, NEW t \in Thread, Client(t)
  PROVE  /\ Part(t, "client") /\ "client" \in PartName
         /\ UNCHANGED <<tool, pools, size, user, ptr, pairs>>
         /\ live' = (live \cup call[t].begun) \ call[t].ended
         /\ \A h \in call[t].begun : callbacks_registered /\ h \in RegionHandle \cup TaskHandle =>
              h \in Held /\ ptr[h] \in Object /\ user[ptr[h]] = h
         /\ \A h \in call[t].begun : data'[ClientData(h)] = h
         /\ \A c \in Object \cup Handle : (\A h \in call[t].begun : ClientData(h) # c) => data'[c] = data[c]
<1> DEFINE begun == call[t].begun
<1>1. /\ Part(t, "client") /\ "client" \in PartName
      /\ UNCHANGED <<tool, pools, size, user, ptr, pairs>>
      /\ live' = (live \cup begun) \ call[t].ended
      /\ data' = [c \in DOMAIN data |->
                   IF \E h \in begun : ClientData(h) = c
                     THEN CHOOSE h \in begun : ClientData(h) = c ELSE data[c]]
      /\ DOMAIN data = Object \cup Handle
  BY DEF Client, PartName, Flow, TypeOK
<1>2. /\ InCall(t) /\ call[t].parts[1] = "client" /\ (begun # {} => call[t].ended = {} /\ call[t].event # "finalize")
      /\ \A h \in begun : h \in Handle /\ Current(h)
  BY <1>1, PartFacts, CallFacts, NoEventFinalize, BegunCurrent DEF Passes
<1>3. begun # {} => "own" \notin Remaining(t)
  BY <1>2 DEF Words, Ordered, Remaining
<1>4. \A u \in Thread : InCall(u) <=> Remaining(u) # {}
  BY RemainingFacts
<1>5. ASSUME NEW h \in begun, callbacks_registered, h \in RegionHandle \cup TaskHandle
      PROVE  h \in Held /\ ptr[h] \in Object /\ user[ptr[h]] = h
  <2>1. ~Beginning(h, "own")
    <3>1. ASSUME NEW u \in Thread, h \in call[u].begun, "own" \in Remaining(u)
          PROVE  FALSE
      <4>1. InCall(u)
        BY <1>4, <3>1
      <4>2. u = t
        BY <1>2, <1>5, <3>1, <4>1, OneEvent
      <4>3. QED
        BY <1>3, <1>5, <3>1, <4>2
    <3>2. QED
      BY <3>1 DEF Beginning
  <2>2. h \in Held
    BY <1>2, <1>5, <2>1 DEF Held
  <2>3. QED
    BY <1>5, <2>2 DEF Words, Objects
<1>6. \A h \in begun : ClientData(h) = IF callbacks_registered /\ h \in RegionHandle \cup TaskHandle THEN ptr[h] ELSE h
  BY DEF ClientData
<1>7. \A h \in begun : ClientData(h) \in Object \cup Handle
  BY <1>2, <1>5, <1>6
<1>8. \A h, g \in begun : ClientData(h) = ClientData(g) => h = g
  BY <1>2, <1>5, <1>6, HandleNotObject
<1> HIDE DEF begun
<1>9. ASSUME NEW h \in begun
      PROVE  data'[ClientData(h)] = h
  <2>1. data'[ClientData(h)] = CHOOSE g \in begun : ClientData(g) = ClientData(h)
    BY <1>1, <1>7, <1>9
  <2>2. (CHOOSE g \in begun : ClientData(g) = ClientData(h)) = h
    BY <1>8, <1>9
  <2>3. QED
    BY <2>1, <2>2
<1>10. \A c \in Object \cup Handle : (\A h \in begun : ClientData(h) # c) => data'[c] = data[c]
  BY <1>1
<1>11. QED
  BY <1>1, <1>5, <1>9, <1>10 DEF begun

LEMMA ClientStored ==
  ASSUME Flow, Words, NEW t \in Thread, Client(t)
  PROVE  Objects' /\ Stored'
<1> DEFINE begun == call[t].begun
           ended == call[t].ended
<1>1. /\ Part(t, "client") /\ "client" \in PartName
      /\ UNCHANGED <<callbacks_registered, clientSet, user, ptr>>
      /\ live' = (live \cup begun) \ ended
      /\ \A h \in begun : callbacks_registered /\ h \in RegionHandle \cup TaskHandle =>
              h \in Held /\ ptr[h] \in Object /\ user[ptr[h]] = h
      /\ \A h \in begun : data'[ClientData(h)] = h
      /\ \A c \in Object \cup Handle : (\A h \in begun : ClientData(h) # c) => data'[c] = data[c]
  BY ClientFacts DEF tool
<1>2. InCall(t)
  BY <1>1, PartFacts
<1>3. /\ \A h : (Current(h)' <=> Current(h)) /\ (Started(h)' <=> Started(h))
      /\ \A h : Ending(h, "client")' <=> Ending(h, "client") /\ h \notin ended
  BY <1>1, PartMoves
<1>4. Known' = (Known \cup begun) \ ended /\ live = Known /\ Held' = Held
  BY <1>1, PartKnown, PartHeld DEF Words, Stored
<1>5. /\ \A h \in begun : h \in Handle /\ Current(h) /\ h \notin ended
      /\ \A h \in ended : ~Current(h)
  BY <1>2, BegunCurrent, EndedGone
<1>6. \A h \in begun : ClientData(h) = IF callbacks_registered /\ h \in RegionHandle \cup TaskHandle THEN ptr[h] ELSE h
  BY DEF ClientData
<1> HIDE DEF begun, ended
<1>7. \A o \in Object : (user[o] = None \/ Current(user[o]) \/ Ending(user[o], "client")
        => data[o] = IF user[o] \in live THEN user[o] ELSE None)'
  <2>1. ASSUME NEW o \in Object, (user[o] = None \/ Current(user[o]) \/ Ending(user[o], "client"))'
        PROVE  data'[o] = IF user'[o] \in live' THEN user'[o] ELSE None
    <3>1. user'[o] = user[o]
      BY <1>1
    <3>2. CASE user[o] = None
      <4>1. \A h \in begun : ClientData(h) # o
        <5>1. ASSUME NEW h \in begun, ClientData(h) = o
              PROVE  FALSE
          <6>1. h \in Handle /\ h # None
            BY <1>5, HandleCases
          <6>2. QED
            BY <1>1, <1>6, <3>2, <5>1, <6>1, HandleNotObject
        <5>2. QED
          BY <5>1
      <4>2. data'[o] = data[o] /\ data[o] = None
        BY <1>1, <3>2, <4>1 DEF Words, Stored
      <4>3. QED
        BY <3>1, <3>2, <4>2
    <3>3. CASE user[o] # None /\ user[o] \in begun
      <4>1. callbacks_registered /\ ptr[user[o]] = o /\ user[o] \in RegionHandle \cup TaskHandle
        BY <3>3 DEF Words, Objects, Held
      <4>2. data'[o] = user[o]
        BY <1>1, <1>6, <3>3, <4>1
      <4>3. user[o] \in live'
        BY <1>1, <1>5, <3>3
      <4>4. QED
        BY <3>1, <4>2, <4>3
    <3>4. CASE user[o] # None /\ user[o] \notin begun
      <4>1. \A h \in begun : ClientData(h) # o
        <5>1. ASSUME NEW h \in begun, ClientData(h) = o
              PROVE  FALSE
          <6>1. h \in Handle
            BY <1>5
          <6>2. user[o] = h
            BY <1>1, <1>6, <5>1, <6>1, HandleNotObject
          <6>3. QED
            BY <3>4, <6>2
        <5>2. QED
          BY <5>1
      <4>2. data'[o] = data[o]
        BY <1>1, <4>1
      <4>3. (Current(user[o]) \/ Ending(user[o], "client")) /\ user[o] \notin ended
        BY <1>3, <1>5, <2>1, <3>1, <3>4
      <4>4. data[o] = IF user[o] \in live THEN user[o] ELSE None
        BY <4>3 DEF Words, Stored
      <4>5. user[o] \in live' <=> user[o] \in live
        BY <1>1, <3>4, <4>3
      <4>6. QED
        BY <3>1, <4>2, <4>4, <4>5
    <3>5. QED
      BY <3>2, <3>3, <3>4
  <2>2. QED
    BY <2>1
<1>8. \A h \in Handle : (~(callbacks_registered /\ h \in RegionHandle \cup TaskHandle)
                         /\ (~Started(h) \/ Current(h) \/ Ending(h, "client"))
        => data[h] = IF h \in live THEN h ELSE None)'
  <2>1. ASSUME NEW h \in Handle, ~(callbacks_registered /\ h \in RegionHandle \cup TaskHandle),
               ~Started(h)' \/ Current(h)' \/ Ending(h, "client")'
        PROVE  data'[h] = IF h \in live' THEN h ELSE None
    <3>1. CASE h \in begun
      <4>1. data'[h] = h
        BY <1>1, <1>6, <2>1, <3>1
      <4>2. h \in live'
        BY <1>1, <1>5, <3>1
      <4>3. QED
        BY <4>1, <4>2
    <3>2. CASE h \notin begun
      <4>1. \A g \in begun : ClientData(g) # h
        BY <1>1, <1>6, <3>2, HandleNotObject
      <4>2. data'[h] = data[h]
        BY <1>1, <4>1
      <4>3. ~Started(h) \/ Current(h) \/ Ending(h, "client")
        BY <1>3, <2>1
      <4>4. h \notin ended
        <5>1. h \in ended => Started(h) /\ ~Current(h)
          BY <1>2, EndedGone DEF ended
        <5>2. QED
          BY <1>3, <2>1, <5>1
      <4>5. data[h] = IF h \in live THEN h ELSE None
        BY <2>1, <4>3 DEF Words, Stored
      <4>6. h \in live' <=> h \in live
        BY <1>1, <3>2, <4>4
      <4>7. QED
        BY <4>2, <4>5, <4>6
    <3>3. QED
      BY <3>1, <3>2
  <2>2. QED
    BY <1>1, <2>1
<1>9. Objects'
  <2>1. UNCHANGED <<entered, region>>
    BY <1>1, PartFacts DEF program
  <2>2. QED
    BY <1>1, <1>4, <2>1, EventObjects DEF Words
<1>10. QED
  BY <1>1, <1>4, <1>7, <1>8, <1>9 DEF Stored

-----------------------------------------------------------------------------
(* The second part of the invariant *)

LEMMA PartWords ==
  ASSUME Flow, Words, NEW t \in Thread, Own(t) \/ Client(t) \/ Free(t) \/ DlClose(t)
  PROVE  Words'
<1>1. UNCHANGED <<callbacks_registered, clientSet>>
  BY DEF Own, Client, Free, DlClose, tool
<1>2. ASSUME NEW h \in Handle
      PROVE  /\ BeginEvent(h) = "thread_begin" <=> h[1] = "thread"
             /\ EndEvent(h) = "thread_end" <=> h[1] = "thread"
             /\ h[1] = "thread" <=> h \notin RegionHandle \cup TaskHandle
  <2>1. h[1] \in {"thread", "region", "implicit", "explicit"}
    BY KindFacts
  <2>2. h[1] = "thread" <=> h \notin RegionHandle \cup TaskHandle
    BY <2>1, KindFacts
  <2>3. QED
    BY <2>1, <2>2 DEF BeginEvent, EndEvent
<1>3. CASE Own(t)
  <2>1. /\ Part(t, "own") /\ "own" \in PartName
        /\ UNCHANGED <<callbacks_registered, clientSet, live>>
    BY <1>3 DEF Own, PartName
  <2>2. /\ InCall(t) /\ PartsOf(t) /\ "own" \in Remaining(t)
        /\ call[t].begun \subseteq Handle /\ call[t].ended \subseteq Handle
        /\ \A h \in call[t].begun : call[t].event = BeginEvent(h)
        /\ \A h \in call[t].ended : call[t].event = EndEvent(h)
    BY <2>1, PartFacts, CallFacts DEF Passes
  <2>3. Ordered'
    BY <2>1, PartOrdered DEF Words
  <2>4. CASE call[t].event \in {"thread_begin", "thread_end", "control_tool", "finalize"}
    <3>1. /\ UNCHANGED <<user, ptr, data, pairs>>
          /\ call[t].event = "thread_begin" => pools' = pools \cup {t}
          /\ call[t].event = "thread_end" => pools' = pools \ {t}
          /\ call[t].event \notin {"thread_begin", "thread_end"} => pools' = pools
      BY <1>3, <2>4 DEF Own, OwnControlTool, memory
    <3>2. /\ call[t].begun \cap (RegionHandle \cup TaskHandle) = {}
          /\ call[t].ended \cap (RegionHandle \cup TaskHandle) = {}
      <4>1. CASE call[t].event \in {"thread_begin", "thread_end"}
        <5>1. ASSUME NEW h \in call[t].begun
              PROVE  h \notin RegionHandle \cup TaskHandle
          <6>1. BeginEvent(h) \in {"thread_begin", "thread_end"}
            BY <2>2, <4>1
          <6>2. BeginEvent(h) # "thread_end"
            BY DEF BeginEvent
          <6>3. QED
            BY <1>2, <2>2, <6>1, <6>2
        <5>2. ASSUME NEW h \in call[t].ended
              PROVE  h \notin RegionHandle \cup TaskHandle
          <6>1. EndEvent(h) \in {"thread_begin", "thread_end"}
            BY <2>2, <4>1
          <6>2. EndEvent(h) # "thread_begin"
            BY DEF EndEvent
          <6>3. QED
            BY <1>2, <2>2, <6>1, <6>2
        <5>3. QED
          BY <5>1, <5>2
      <4>2. CASE call[t].event \in {"control_tool", "finalize"}
        BY <2>2, <4>2, NoEventFinalize
      <4>3. QED
        BY <2>4, <4>1, <4>2
    <3>3. Objects' /\ Stored'
      BY <2>1, <3>1, <3>2, PartFrame
    <3>4. Threads'
      <4>1. pools \ {t} \subseteq pools' /\ pairs \ {t} \subseteq pairs' /\ pairs \subseteq pairs'
        BY <2>4, <3>1
      <4>2. ~("own" = "own" /\ call[t].event = "thread_end") => pools \subseteq pools'
        BY <2>4, <3>1
      <4>3. "own" = "own" /\ call[t].event = "thread_begin" => t \in pools'
        BY <3>1
      <4>4. QED
        BY <2>1, <4>1, <4>2, <4>3, PartThreads DEF Words
    <3>5. QED
      BY <2>3, <3>3, <3>4 DEF Words
  <2>5. CASE call[t].event \notin {"thread_begin", "thread_end", "control_tool", "finalize"}
    <3>1. IF call[t].begun # {} THEN OwnBegin(t) ELSE OwnEnd(t)
      BY <1>3, <2>5 DEF Own, OwnControlTool
    <3>2. callbacks_registered
      BY <2>2, <2>5 DEF PartsOf
    <3>3. call[t].begun \subseteq RegionHandle \cup TaskHandle /\ call[t].ended \subseteq RegionHandle \cup TaskHandle
      BY <1>2, <2>2, <2>5
    <3>4. UNCHANGED <<pools, pairs>>
      BY <3>1 DEF OwnBegin, OwnEnd
    <3>5. Threads'
      BY <2>1, <2>5, <3>4, PartThreads DEF Words
    <3>6. CASE call[t].begun # {}
      <4>1. OwnBegin(t)
        BY <3>1, <3>6
      <4>2. Objects' /\ Stored'
        BY <2>1, <3>2, <3>3, <3>6, <4>1, OwnBeginObjects, OwnBeginStored
      <4>3. QED
        BY <2>3, <3>5, <4>2 DEF Words
    <3>7. CASE call[t].begun = {}
      <4>1. OwnEnd(t)
        BY <3>1, <3>7
      <4>2. Objects' /\ Stored'
        BY <2>1, <3>2, <3>3, <3>7, <4>1, OwnEndObjects, OwnEndStored
      <4>3. QED
        BY <2>3, <3>5, <4>2 DEF Words
    <3>8. QED
      BY <3>6, <3>7
  <2>6. QED
    BY <2>4, <2>5
<1>4. CASE Client(t)
  <2>1. Part(t, "client") /\ "client" \in PartName /\ UNCHANGED <<pools, pairs>>
    BY <1>4, ClientFacts
  <2>2. Ordered'
    BY <1>1, <2>1, PartOrdered DEF Words
  <2>3. Threads'
    BY <1>1, <2>1, PartThreads DEF Words
  <2>4. QED
    BY <1>4, <2>2, <2>3, ClientStored DEF Words
<1>5. CASE Free(t)
  <2>1. Part(t, "free") /\ "free" \in PartName /\ UNCHANGED <<pools, user, ptr, data, live>> /\ pairs' = pairs \ {t}
    BY <1>5 DEF Free, PartName
  <2>2. Ordered'
    BY <1>1, <2>1, PartOrdered DEF Words
  <2>3. Threads'
    BY <1>1, <2>1, PartThreads DEF Words
  <2>4. Objects' /\ Stored'
    BY <1>1, <2>1, PartFrame
  <2>5. QED
    BY <2>2, <2>3, <2>4 DEF Words
<1>6. CASE DlClose(t)
  <2>1. Part(t, "dlclose") /\ "dlclose" \in PartName /\ UNCHANGED <<pools, pairs, user, ptr, data, live>>
    BY <1>6 DEF DlClose, PartName, memory
  <2>2. Ordered'
    BY <1>1, <2>1, PartOrdered DEF Words
  <2>3. Threads'
    BY <1>1, <2>1, PartThreads DEF Words
  <2>4. Objects' /\ Stored'
    BY <1>1, <2>1, PartFrame
  <2>5. QED
    BY <2>2, <2>3, <2>4 DEF Words
<1>7. QED
  BY <1>3, <1>4, <1>5, <1>6

(* Before the program begins nothing is stored.                            *)
Untouched ==
  /\ \A t \in Thread : at[t] = "new" /\ stack[t] = <<>> /\ ~InCall(t) /\ Remaining(t) = {}
  /\ region = 0 /\ ready = {} /\ live = {}
  /\ \A o \in Object : user[o] = None /\ data[o] = None
  /\ \A h \in Handle : data[h] = None

LEMMA UntouchedWords == Untouched => Words
<1> SUFFICES ASSUME Untouched
             PROVE  Words
  OBVIOUS
<1>1. Initial \in Thread /\ None \notin Handle
  BY HandleCases
<1>2. \A t \in Thread : OnStack(t) = {}
  BY DEF Untouched, OnStack
<1>3. \A h : ~Current(h)
  BY <1>1, <1>2 DEF Untouched, Current, CurrentThread, CurrentRegion, CurrentTask
<1>4. \A h, q : ~Beginning(h, q) /\ ~Ending(h, q)
  BY DEF Untouched, Beginning, Ending
<1>5. Held = {} /\ Known = {}
  BY <1>3, <1>4 DEF Held, Known
<1>6. Ordered
  BY DEF Ordered, Untouched
<1>7. Objects
  BY <1>5 DEF Objects, Untouched
<1>8. Threads
  BY DEF Threads, Untouched
<1>9. Stored
  BY <1>5 DEF Stored, Untouched
<1>10. QED
  BY <1>6, <1>7, <1>8, <1>9 DEF Words

LEMMA WordsInit == Init => Words
<1>1. Init => Untouched
  <2> SUFFICES ASSUME Init
               PROVE  Untouched
    OBVIOUS
  <2>1. \A t \in Thread : call[t] = NoCall /\ at[t] = "new" /\ stack[t] = <<>>
    BY DEF Init
  <2>2. NoCall.parts = <<>>
    BY DEF NoCall
  <2>3. \A t \in Thread : call[t].parts = <<>>
    BY <2>1, <2>2
  <2>4. \A t \in Thread : ~InCall(t) /\ Remaining(t) = {}
    BY <2>3 DEF InCall, Remaining
  <2>5. QED
    BY <2>1, <2>4 DEF Init, Untouched
<1>2. QED
  BY <1>1, UntouchedWords

LEMMA WordsInitialize ==
  ASSUME Flow, Words, Initialize
  PROVE  Untouched'
<1>1. /\ phase = "initialize"
      /\ UNCHANGED <<user, data, call, live, at, stack, region, ready>>
  BY DEF Initialize, memory, program
<1>2. /\ ~callbacks_registered /\ clientSet = {} /\ created = {} /\ Initial \in Thread
      /\ \A t \in Thread : at[t] = "new" /\ ~InCall(t)
  BY <1>1, HandleCases DEF Flow, Life
<1>3. \A t \in Thread : stack[t] = <<>> /\ Remaining(t) = {}
  BY <1>2, RemainingFacts DEF Flow, Stacks, StackOf
<1>4. region = 0 /\ ready = {}
  BY <1>2 DEF Flow, Places, TypeOK
<1>5. live = {}
  BY <1>2 DEF Words, Stored, Known
<1>6. \A o \in Object : user[o] = None
  BY <1>2 DEF Words, Objects
<1>7. \A o \in Object : data[o] = None
  BY <1>5, <1>6 DEF Words, Stored
<1>8. ASSUME NEW h \in Handle
      PROVE  data[h] = None
  <2>1. ~Started(h)
    <3>1. CASE \E t \in Thread : h = ThreadData(t)
      BY <1>2, <3>1, StartedKinds
    <3>2. CASE h \in RegionHandle
      <4>1. PICK r \in 0..MaxRegion : h = RegionData(r)
        BY <3>2, HandleCases
      <4>2. ~(r # 0 /\ r <= region)
        BY <1>4
      <4>3. QED
        BY <1>2, <4>1, <4>2, StartedKinds
    <3>3. CASE h \in TaskHandle
      <4>1. CASE h = InitialTask
        BY <1>2, <4>1, StartedKinds DEF InitialTask
      <4>2. ASSUME NEW r \in 1..MaxRegion, NEW t \in Thread, h = ImplicitTask(r, t)
            PROVE  ~Started(h)
        <5>1. r \in Nat \ {0} /\ entered[t] = 0
          BY <1>2, HandleCases DEF Flow, Places
        <5>2. ~(r <= entered[t])
          BY <5>1
        <5>3. QED
          BY <4>2, <5>1, <5>2, StartedKinds
      <4>3. CASE \E e \in Task : h = ExplicitTask(e)
        BY <1>2, <4>3, StartedKinds
      <4>4. QED
        BY <3>3, <4>1, <4>2, <4>3, HandleCases
    <3>4. QED
      BY <3>1, <3>2, <3>3, HandleCases
  <2>2. QED
    BY <1>2, <1>5, <2>1 DEF Words, Stored
<1>9. \A t \in Thread : ~InCall(t)' /\ Remaining(t)' = {}
  BY <1>1, <1>2, <1>3 DEF InCall, Remaining
<1>10. QED
  BY <1>1, <1>2, <1>3, <1>4, <1>5, <1>6, <1>7, <1>8, <1>9 DEF Untouched

LEMMA WordsFrame ==
  ASSUME Words, UNCHANGED <<callbacks_registered, clientSet, memory, call, live,
                            at, stack, entered, region, ready, created>>
  PROVE  Words'
<1>1. UNCHANGED <<pools, size, user, ptr, data, pairs>>
  BY DEF memory
<1>2. \A h : (Current(h)' <=> Current(h)) /\ (Started(h)' <=> Started(h))
  BY CurrentFrame
<1>3. \A t \in Thread : Remaining(t)' = Remaining(t) /\ (InCall(t)' <=> InCall(t))
  BY DEF Remaining, InCall
<1>4. \A h, q : (Beginning(h, q)' <=> Beginning(h, q)) /\ (Ending(h, q)' <=> Ending(h, q))
  BY <1>3 DEF Beginning, Ending
<1>5. Held' = Held
  BY <1>2, <1>4 DEF Held
<1>6. \A h : BeginEvent(h)' = BeginEvent(h) /\ KindOf(h)' = KindOf(h) /\ Owner(h)' = Owner(h)
  BY DEF BeginEvent, KindOf, Owner
<1>7. Known' = Known
  BY <1>2, <1>4, <1>6 DEF Known
<1>8. Ordered'
  BY <1>3 DEF Words, Ordered
<1>9. Objects'
  BY <1>1, <1>5, <1>6 DEF Words, Objects
<1>10. Threads'
  BY <1>1, <1>3 DEF Words, Threads, Registered
<1>11. Stored'
  <2>1. \A o \in Object : (user[o] = None \/ Current(user[o]) \/ Ending(user[o], "client")
        => data[o] = IF user[o] \in live THEN user[o] ELSE None)'
    <3>1. ASSUME NEW o \in Object
          PROVE  (Current(user[o])' <=> Current(user[o])) /\ (Ending(user[o], "client")' <=> Ending(user[o], "client"))
      BY <1>1, <1>2, <1>4
    <3>2. QED
      BY <1>1, <3>1 DEF Words, Stored
  <2>2. \A h \in Handle : (~(callbacks_registered /\ h \in RegionHandle \cup TaskHandle)
                           /\ (~Started(h) \/ Current(h) \/ Ending(h, "client"))
        => data[h] = IF h \in live THEN h ELSE None)'
    BY <1>1, <1>2, <1>4 DEF Words, Stored
  <2>3. QED
    BY <1>7, <2>1, <2>2 DEF Words, Stored
<1>12. QED
  BY <1>8, <1>9, <1>10, <1>11 DEF Words

LEMMA WordsStep ==
  ASSUME Flow, Words, ClientPaired, "cancel" \notin EndStatus, Next
  PROVE  Words'
<1>1. CASE NextLibrary
  BY <1>1, WordsFrame DEF NextLibrary, program
<1>2. CASE OwnStartTool
  BY <1>2, WordsFrame DEF OwnStartTool, program
<1>3. CASE Initialize
  <2>1. Untouched'
    BY <1>3, WordsInitialize
  <2>2. Untouched' => Words'
    BY UntouchedWords, PTL
  <2>3. QED
    BY <2>1, <2>2
<1>4. CASE InitialTaskBegin
  BY <1>4, InitialTaskBeginWords
<1>5. CASE ParallelBegin
  BY <1>5, ParallelBeginWords
<1>6. CASE BarrierOpens
  BY <1>6, WordsFrame DEF BarrierOpens, tool
<1>7. CASE ParallelEnd
  BY <1>7, ParallelEndWords
<1>8. CASE InitialTaskEnd
  BY <1>8, InitialTaskEndWords
<1>9. CASE ControlToolEnd
  BY <1>9, ControlToolEndWords
<1>10. CASE Finalize
  BY <1>10, FinalizeWords
<1>11. CASE Stopped
  BY <1>11, WordsFrame DEF Stopped, vars, tool, program
<1>12. ASSUME NEW t \in Thread, ThreadBegin(t)
      PROVE  Words'
  BY <1>12, ThreadBeginWords
<1>13. ASSUME NEW t \in Thread, ImplicitTaskBegin(t)
      PROVE  Words'
  BY <1>13, ImplicitTaskBeginWords
<1>14. ASSUME NEW t \in Thread, SyncRegionBegin(t)
      PROVE  Words'
  BY <1>14, SyncRegionBeginWords
<1>15. ASSUME NEW t \in Thread, SyncRegionEnd(t)
      PROVE  Words'
  BY <1>15, SyncRegionEndWords
<1>16. ASSUME NEW t \in Thread, ImplicitTaskEnd(t)
      PROVE  Words'
  BY <1>16, ImplicitTaskEndWords
<1>17. ASSUME NEW t \in Thread, ThreadEnd(t)
      PROVE  Words'
  BY <1>17, ThreadEndWords
<1>18. ASSUME NEW t \in Thread, Work(t)
      PROVE  Words'
  BY <1>18, WorkWords
<1>19. ASSUME NEW t \in Thread, Own(t)
      PROVE  Words'
  BY <1>19, PartWords
<1>20. ASSUME NEW t \in Thread, Client(t)
      PROVE  Words'
  BY <1>20, PartWords
<1>21. ASSUME NEW t \in Thread, Free(t)
      PROVE  Words'
  BY <1>21, PartWords
<1>22. ASSUME NEW t \in Thread, DlClose(t)
      PROVE  Words'
  BY <1>22, PartWords
<1>23. ASSUME NEW t \in Thread, NEW e \in Task, TaskCreate(t, e)
      PROVE  Words'
  BY <1>23, TaskCreateWords
<1>24. ASSUME NEW t \in Thread, NEW e \in Task, TaskSwitch(t, e)
      PROVE  Words'
  BY <1>24, TaskSwitchWords
<1>25. ASSUME NEW t \in Thread, NEW status \in EndStatus, TaskEnd(t, status)
      PROVE  Words'
  BY <1>25, TaskEndWords
<1>26. QED
  BY <1>1, <1>2, <1>3, <1>4, <1>5, <1>6, <1>7, <1>8, <1>9, <1>10, <1>11, <1>12, <1>13, <1>14, <1>15, <1>16, <1>17, <1>18, <1>19, <1>20, <1>21, <1>22, <1>23, <1>24, <1>25 DEF Next

LEMMA WordsInvariant ==
  ASSUME ClientPaired, "cancel" \notin EndStatus
  PROVE  Spec => [](Flow /\ Words)
<1>1. Init => Words
  BY WordsInit
<1>2. Flow /\ Words /\ [Next]_vars => Words'
  <2>1. ASSUME Flow, Words, Next
        PROVE  Words'
    BY <2>1, WordsStep
  <2>2. ASSUME Words, UNCHANGED vars
        PROVE  Words'
    BY <2>2, WordsFrame DEF vars, tool, program
  <2>3. QED
    BY <2>1, <2>2
<1>3. QED
  BY <1>1, <1>2, FlowInvariant, PTL DEF Spec

-----------------------------------------------------------------------------
(* What follows for the storage the tools are led to                        *)

LEMMA InPools ==
  ASSUME Flow, Words, NEW t \in Thread, callbacks_registered, at[t] \notin {"new", "gone", "final"},
         InCall(t) => call[t].event # "thread_begin"
  PROVE  t \in pools
<1>1. InCall(t) <=> Remaining(t) # {}
  BY RemainingFacts
<1>2. QED
  BY <1>1 DEF Words, Threads

LEMMA BeginPlace ==
  ASSUME Flow, NEW t \in Thread, InCall(t), call[t].event = "thread_begin"
  PROVE  at[t] \in {"begun", "idle"}
BY CallFacts DEF InUse

LEMMA TaskPools ==
  ASSUME Flow, Words
  PROVE  PoolsComplete
<1> SUFFICES ASSUME NEW o \in Object, user[o] \in TaskHandle
             PROVE  Owner(o) \in pools
  BY DEF PoolsComplete
<1> DEFINE h == user[o]
           t == Owner(o)
<1>1. /\ h # None /\ t \in Thread /\ h[1] \in {"implicit", "explicit"}
  BY HandleCases, KindFacts DEF Owner, Object
<1>2. /\ callbacks_registered /\ h \in Held
      /\ h[1] = "implicit" => t = h[3]
      /\ h[1] = "explicit" => entered[t] = region
  BY <1>1 DEF Words, Objects
<1>3. h \in TaskHandle
  OBVIOUS
<1> HIDE DEF h, t
<1>4. CASE h[1] = "explicit"
  <2>1. barrier < entered[t]
    BY <1>2, <1>4, HeldExplicit
  <2>2. at[t] \in {"team", "barrier"}
    BY <1>1, <2>1, CountTypes DEF Flow, Places
  <2>3. QED
    BY <1>1, <1>2, <2>2, InPools, BeginPlace DEF t
<1>5. CASE h[1] = "implicit" /\ Current(h)
  <2>1. CurrentTask(h) /\ ~\E e \in ready : h = ExplicitTask(e)
    BY <1>3, <1>5, CurrentKinds, HandleFacts
  <2>2. PICK u \in Thread : h \in OnStack(u)
    BY <2>1 DEF CurrentTask
  <2>3. \/ h = InitialTask /\ u = Initial /\ at[u] \notin {"new", "begun", "done", "gone", "final"}
        \/ h = ImplicitTask(entered[u], u) /\ at[u] \in {"team", "barrier", "leaving"}
    BY <1>5, <2>2, OnStackFacts, HandleFacts
  <2>4. h[3] = u /\ at[u] \notin {"new", "begun", "gone", "final"} /\ at[Initial] # "idle"
    BY <2>3, HandleFacts DEF InitialTask, Flow, Places
  <2>5. t = u /\ at[u] # "idle"
    BY <1>2, <1>5, <2>3, <2>4
  <2>6. QED
    BY <1>1, <1>2, <2>4, <2>5, InPools, BeginPlace DEF t
<1>6. CASE h[1] = "implicit" /\ Ending(h, "own")
  <2>1. PICK u \in Thread : h \in call[u].ended /\ "own" \in Remaining(u)
    BY <1>6 DEF Ending
  <2>2. InCall(u)
    BY <2>1, RemainingFacts
  <2>3. Spent(u, h) /\ call[u].event = EndEvent(h)
    BY <2>1, <2>2, CallFacts DEF InUse, Passes
  <2>4. h = ImplicitTask(h[2], u) /\ at[u] \in {"idle", "join", "done"}
    BY <1>6, <2>3, HandleFacts DEF Spent
  <2>5. t = u /\ call[u].event = "implicit_task"
    BY <1>2, <1>6, <2>3, <2>4, HandleFacts, EventNames
  <2>6. QED
    BY <1>1, <1>2, <2>4, <2>5, InPools DEF t
<1>7. QED
  BY <1>1, <1>2, <1>4, <1>5, <1>6 DEF Held

(* No other thread is about to report the begin of what a callback passes.  *)
LEMMA PassedBefore ==
  ASSUME Flow, NEW t \in Thread, InCall(t), NEW h \in call[t].args \ call[t].ended,
         NEW u \in Thread, InCall(u), h \in call[u].begun
  PROVE  u = t
<1>1. Uses(t, h) /\ h \in Handle /\ call[u].event = BeginEvent(h)
      /\ (h[1] = "region" => u = Initial)
  BY CallFacts DEF InUse, Passes
<1>2. CASE h \in OnStack(t)
  <2>1. h \in TaskHandle
    BY <1>2, CurrentKinds
  <2>2. QED
    BY <1>2, <2>1, BegunTask, OneStack, StackNotReady
<1>3. CASE h \in call[t].begun
  BY <1>3, OneEvent
<1>4. CASE h = RegionData(region) /\ at[t] \in {"team", "barrier"} /\ barrier < entered[t]
  <2>1. region # 0 /\ entered[t] = region
    BY <1>4, CountTypes DEF Flow, Places
  <2>2. call[u].event = "parallel_begin" /\ u = Initial
    BY <1>1, <1>4, <2>1, EventNames, HandleFacts
  <2>3. at[Initial] = "fork"
    BY <2>2, CallFacts DEF InUse
  <2>4. entered[t] < region
    BY <2>2, <2>3 DEF Flow, Arguments
  <2>5. QED
    BY <2>1, <2>4, CountTypes
<1>5. CASE h[1] = "region" /\ t = Initial
  BY <1>1, <1>5
<1>6. QED
  BY <1>1, <1>2, <1>3, <1>4, <1>5, HandleFacts DEF Uses

LEMMA ArgumentHeld ==
  ASSUME Flow, Words, NEW t \in Thread, InCall(t), NEW h \in call[t].args, h \in RegionHandle \cup TaskHandle,
         callbacks_registered, Head(call[t].parts) \in {"own", "client"},
         ~(Head(call[t].parts) = "own" /\ h \in call[t].begun)
  PROVE  h \in Held
<1>1. /\ Passes(t) /\ PartsOf(t) /\ Head(call[t].parts) = call[t].parts[1]
      /\ Len(call[t].parts) \in Nat \ {0}
  <2>1. call[t].parts # <<>> /\ call[t].parts \in Seq(PartName)
    BY RemainingFacts DEF InCall
  <2>2. QED
    BY <2>1, CallFacts, TailFacts
<1>2. CASE h \in call[t].ended
  <2>1. call[t].event = EndEvent(h) /\ h[1] \in {"region", "implicit", "explicit"}
    BY <1>1, <1>2, KindFacts DEF Passes
  <2>2. call[t].event # "thread_end"
    BY <2>1 DEF EndEvent
  <2>3. "own" \in Remaining(t)
    BY <1>2, <2>2 DEF Words, Ordered
  <2>4. QED
    BY <1>2, <2>3 DEF Held, Ending
<1>3. CASE h \notin call[t].ended
  <2>1. Current(h)
    BY <1>3, UsedCurrent
  <2>2. ASSUME NEW u \in Thread, h \in call[u].begun, "own" \in Remaining(u)
        PROVE  FALSE
    <3>1. InCall(u)
      BY <2>2, RemainingFacts
    <3>2. u = t
      BY <1>3, <2>2, <3>1, PassedBefore
    <3>3. call[t].ended = {} /\ call[t].event # "finalize"
      BY <1>1, <2>2, <3>2, NoEventFinalize DEF Passes
    <3>4. \A i \in 1..Len(call[t].parts) : call[t].parts[i] = "own" => i = 1
      BY <3>3 DEF Words, Ordered
    <3>5. call[t].parts[1] = "own"
      BY <2>2, <3>2, <3>4 DEF Remaining
    <3>6. QED
      BY <1>1, <2>2, <3>2, <3>5
  <2>3. QED
    BY <2>1, <2>2 DEF Held, Beginning
<1>4. QED
  BY <1>2, <1>3

(* The region that a callback passes is one of a thread with pools.         *)
LEMMA RegionPools ==
  ASSUME Flow, Words, NEW t \in Thread, InCall(t), NEW h \in call[t].args, h[1] = "region",
         callbacks_registered
  PROVE  Initial \in pools
<1>1. Initial \in Thread
  BY HandleCases
<1>2. at[Initial] \in {"serial", "fork", "team", "barrier", "leaving"}
  <2>1. CASE h \in call[t].ended
    <3>1. Spent(t, h)
      BY <2>1, CallFacts DEF InUse
    <3>2. QED
      BY <3>1, HandleFacts DEF Spent
  <2>2. CASE h \notin call[t].ended
    <3>1. Uses(t, h)
      BY <2>2, CallFacts DEF InUse
    <3>2. h \notin OnStack(t)
      BY CurrentKinds, KindFacts
    <3>3. CASE at[t] \in {"team", "barrier"} /\ barrier < entered[t]
      <4>1. barrier # region
        BY <3>3, CountTypes
      <4>2. QED
        BY <4>1 DEF Flow, Places
    <3>4. CASE t = Initial /\ at[t] \in {"fork", "leaving", "serial"}
      BY <3>4
    <3>5. QED
      BY <3>1, <3>2, <3>3, <3>4, HandleFacts DEF Uses
  <2>3. QED
    BY <2>1, <2>2
<1>3. QED
  BY <1>1, <1>2, InPools, BeginPlace

LEMMA PairAlive ==
  ASSUME Flow, Words, ClientPaired, NEW t \in Thread, InCall(t), NEW h \in call[t].args, h[1] = "thread",
         Head(call[t].parts) \in {"own", "client"}
  PROVE  h[2] \in pairs
<1>1. h = ThreadData(t) /\ h[2] = t /\ h \in call[t].begun \cup call[t].ended
  BY CallFacts, HandleFacts DEF Passes
<1>2. call[t].event \in {"thread_begin", "thread_end"}
  BY <1>1, CallFacts, EventNames DEF Passes
<1>3. Head(call[t].parts) \in Remaining(t) /\ PartsOf(t)
  BY RemainingFacts, CallFacts
<1>4. Registered("thread_begin")
  <2>1. CASE Head(call[t].parts) = "own"
    BY <1>2, <1>3, <2>1, MultiplexAssumption DEF PartsOf, Registered
  <2>2. CASE Head(call[t].parts) = "client"
    <3>1. call[t].event \in clientSet
      BY <1>2, <1>3, <2>2 DEF PartsOf
    <3>2. clientSet \in ClientSets
      BY <3>1 DEF Flow, Life
    <3>3. QED
      BY <1>2, <3>1, <3>2 DEF ClientPaired, Registered
  <2>3. QED
    BY <2>1, <2>2
<1>5. call[t].event = "thread_begin" => at[t] \in {"begun", "idle"}
  BY BeginPlace
<1>6. QED
  BY <1>1, <1>2, <1>4, <1>5 DEF Words, Threads

LEMMA StorageAlive ==
  ASSUME Flow, Words, ClientPaired
  PROVE  DataAlive
<1> SUFFICES ASSUME NEW t \in Thread, InCall(t), Head(call[t].parts) \in {"own", "client"}, NEW h \in call[t].args
             PROVE  IF h \in RegionHandle \cup TaskHandle
                      THEN callbacks_registered /\ ~(Head(call[t].parts) = "own" /\ h \in call[t].begun)
                             => Owned(h)
                      ELSE h[2] \in pairs
  BY DEF DataAlive
<1>1. CASE h \in RegionHandle \cup TaskHandle
  <2>1. ASSUME callbacks_registered, ~(Head(call[t].parts) = "own" /\ h \in call[t].begun)
        PROVE  Owned(h)
    <3>1. h \in Held
      BY <1>1, <2>1, ArgumentHeld
    <3>2. ptr[h] \in Object /\ user[ptr[h]] = h /\ h # None
      BY <1>1, <2>1, <3>1, HandleCases DEF Words, Objects
    <3>3. CASE h \in RegionHandle
      <4>1. h[1] = "region"
        BY <3>3, KindFacts
      <4>2. Initial \in pools
        BY <2>1, <4>1, RegionPools
      <4>3. Owner(ptr[h]) = Initial
        BY <3>2, <4>1 DEF Words, Objects
      <4>4. QED
        BY <3>2, <4>2, <4>3, HandleCases DEF Owned
    <3>4. CASE h \in TaskHandle
      <4>1. Owner(ptr[h]) \in pools
        BY <3>2, <3>4, TaskPools DEF PoolsComplete
      <4>2. QED
        BY <3>2, <4>1, HandleCases DEF Owned
    <3>5. QED
      BY <1>1, <3>3, <3>4
  <2>2. QED
    BY <1>1, <2>1
<1>2. CASE h \notin RegionHandle \cup TaskHandle
  <2>1. h \in Handle
    BY CallFacts
  <2>2. h[1] = "thread"
    BY <1>2, <2>1, KindFacts
  <2>3. QED
    BY <1>2, <2>2, PairAlive
<1>3. QED
  BY <1>1, <1>2

-----------------------------------------------------------------------------
(* The refinement *)

(* What the client has stored for what is live is in the word it is led to.  *)
LEMMA WordValue ==
  ASSUME Flow, Words, NEW h \in live
  PROVE  h \in Handle /\ data[ClientData(h)] = h
<1>1. /\ h \in Handle /\ BeginEvent(h) \in clientSet
      /\ (Current(h) /\ ~Beginning(h, "client")) \/ Ending(h, "client")
  BY DEF Words, Stored, Known
<1>2. CASE callbacks_registered /\ h \in RegionHandle \cup TaskHandle
  <2>1. ASSUME Ending(h, "client")
        PROVE  h \in Held
    <3>1. PICK t \in Thread : h \in call[t].ended /\ "client" \in Remaining(t)
      BY <2>1 DEF Ending
    <3>2. InCall(t) /\ call[t].ended # {}
      BY <3>1, RemainingFacts
    <3>3. call[t].event = EndEvent(h) /\ h[1] \in {"region", "implicit", "explicit"}
      BY <1>2, <3>1, <3>2, CallFacts, KindFacts DEF Passes
    <3>4. call[t].event # "thread_end"
      BY <3>3 DEF EndEvent
    <3>5. "own" \in Remaining(t)
      BY <1>2, <3>2, <3>4 DEF Words, Ordered
    <3>6. QED
      BY <1>2, <3>1, <3>5 DEF Held, Ending
  <2>2. ASSUME Current(h), ~Beginning(h, "client")
        PROVE  h \in Held
    <3>1. ASSUME NEW u \in Thread, h \in call[u].begun, "own" \in Remaining(u)
          PROVE  FALSE
      <4>1. InCall(u)
        BY <3>1, RemainingFacts
      <4>2. call[u].ended = {} /\ call[u].event = BeginEvent(h) /\ call[u].event # "finalize"
        BY <3>1, <4>1, CallFacts, NoEventFinalize DEF Passes
      <4>3. "client" \in Remaining(u)
        BY <1>1, <3>1, <4>1, <4>2 DEF Words, Ordered
      <4>4. QED
        BY <2>2, <3>1, <4>3 DEF Beginning
    <3>2. QED
      BY <1>2, <2>2, <3>1 DEF Held, Beginning
  <2>3. h \in Held
    BY <1>1, <2>1, <2>2
  <2>4. ptr[h] \in Object /\ user[ptr[h]] = h
    BY <1>2, <2>3 DEF Words, Objects
  <2>5. data[ptr[h]] = h
    BY <1>1, <2>4 DEF Words, Stored
  <2>6. QED
    BY <1>1, <1>2, <2>5 DEF ClientData
<1>3. CASE ~(callbacks_registered /\ h \in RegionHandle \cup TaskHandle)
  BY <1>1, <1>3 DEF ClientData, Words, Stored
<1>4. QED
  BY <1>2, <1>3

(* What the client is led to by the arguments of its callback.              *)
LEMMA ArgumentWord ==
  ASSUME Flow, Words, NEW t \in Thread, Part(t, "client"), NEW h \in call[t].args
  PROVE  data[ClientData(h)] = IF h \in live THEN h ELSE None
<1>1. InCall(t) /\ "client" \in Remaining(t) /\ Head(call[t].parts) = "client" /\ h \in Handle
  BY PartFacts, CallFacts DEF PartName, Part
<1>2. Current(h) \/ Ending(h, "client")
  BY <1>1, UsedCurrent DEF Ending
<1>3. CASE callbacks_registered /\ h \in RegionHandle \cup TaskHandle
  <2>1. h \in Held
    BY <1>1, <1>3, ArgumentHeld
  <2>2. ptr[h] \in Object /\ user[ptr[h]] = h
    BY <1>3, <2>1 DEF Words, Objects
  <2>3. data[ptr[h]] = IF h \in live THEN h ELSE None
    BY <1>2, <2>2 DEF Words, Stored
  <2>4. QED
    BY <1>3, <2>3 DEF ClientData
<1>4. CASE ~(callbacks_registered /\ h \in RegionHandle \cup TaskHandle)
  BY <1>1, <1>2, <1>4 DEF ClientData, Words, Stored
<1>5. QED
  BY <1>3, <1>4

(* A thread, region or task that begins is new to the client.              *)
LEMMA BegunNotLive ==
  ASSUME Flow, Words, NEW t \in Thread, Part(t, "client")
  PROVE  call[t].begun \cap live = {}
<1>1. InCall(t) /\ "client" \in Remaining(t)
  BY PartFacts DEF PartName
<1>2. ASSUME NEW h \in call[t].begun, h \in live
      PROVE  FALSE
  <2>1. Current(h) /\ Beginning(h, "client")
    BY <1>1, <1>2, BegunCurrent DEF Beginning
  <2>2. ~Ending(h, "client")
    BY <2>1, CurrentNotEnding
  <2>3. QED
    BY <1>2, <2>1, <2>2 DEF Words, Stored, Known
<1>3. QED
  BY <1>2

LEMMA AloneInit == Init => Alone!Init
BY DEF Init, Alone!Init

(* The words of a state of the invariant.                                   *)
WordsByHandle == \A h \in live : h \in Handle /\ data[ClientData(h)] = h

LEMMA ClientAlone ==
  ASSUME Flow, Words, WordsByHandle, WordsByHandle', NEW t \in Thread, Client(t)
  PROVE  Alone!Next
<1> DEFINE args == call[t].args
           begun == call[t].begun
           ended == call[t].ended \cap live
           word == [h \in Handle |-> IF h \in live THEN data[ClientData(h)] ELSE None]
<1>1. /\ Part(t, "client") /\ live' = (live \cup begun) \ call[t].ended
      /\ seen' = [h \in args |-> data[ClientData(h)]]
  BY DEF Client
<1>2. InCall(t)
  BY <1>1, PartFacts DEF PartName
<1>3. /\ args \subseteq Handle /\ begun \subseteq args /\ ended \subseteq args
      /\ begun \cap call[t].ended = {} /\ begun \cap live = {}
  BY <1>1, <1>2, CallFacts, BegunNotLive
<1>4. args = {h \in Handle : h \in DOMAIN seen'}
  BY <1>1, <1>3
<1>5. \A h \in Handle : word[h] = IF h \in live THEN h ELSE None
  BY DEF WordsByHandle
<1>6. seen' = [h \in args |-> word[h]]
  <2>1. \A h \in args : data[ClientData(h)] = word[h]
    BY <1>1, <1>3, <1>5, ArgumentWord
  <2> HIDE DEF word, args
  <2>2. QED
    BY <1>1, <2>1
<1>7. live' = (live \cup begun) \ ended
  BY <1>1, <1>3
<1>8. \A h \in Handle : word'[h] = IF h \in live' THEN h ELSE None
  <2>1. \A h \in live' : data'[ClientData(h)'] = h
    BY DEF WordsByHandle
  <2>2. word' = [h \in Handle |-> IF h \in live' THEN data'[ClientData(h)'] ELSE None]
    OBVIOUS
  <2>3. QED
    BY <2>1, <2>2
<1>9. word' = [h \in Handle |-> IF h \in ended THEN None ELSE IF h \in begun THEN h ELSE word[h]]
  <2>1. \A h \in Handle : word'[h] = IF h \in ended THEN None ELSE IF h \in begun THEN h ELSE word[h]
    BY <1>3, <1>5, <1>7, <1>8
  <2>2. word' = [h \in Handle |-> word'[h]]
    OBVIOUS
  <2> HIDE DEF word, ended, begun
  <2>3. QED
    BY <2>1, <2>2
<1>10. begun \in SUBSET args /\ ended \in SUBSET args /\ ended \subseteq live \cup begun
  BY <1>3
<1>11. \E b \in SUBSET args : \E e \in SUBSET args : Alone!Occurs(b, e)
  <2> SUFFICES \E b, e : /\ b \in SUBSET args /\ e \in SUBSET args
                        /\ b \cap live = {} /\ e \subseteq live \cup b
                        /\ live' = (live \cup b) \ e
                        /\ word' = [h \in Handle |-> IF h \in e THEN None ELSE IF h \in b THEN h ELSE word[h]]
    BY DEF Alone!Occurs
  <2> HIDE DEF begun, ended, args, word
  <2>1. QED
    BY <1>3, <1>7, <1>9, <1>10
<1>12. QED
  BY <1>4, <1>6, <1>11 DEF Alone!Next

LEMMA WordsHeld == Flow /\ Words => WordsByHandle
BY WordValue DEF WordsByHandle

(* A step of the program or of the profiler is none of the client's, ...     *)
LEMMA OthersAlone ==
  ASSUME WordsByHandle, WordsByHandle', UNCHANGED <<live, seen>>
  PROVE  UNCHANGED Alone!vars
<1> DEFINE word == [h \in Handle |-> IF h \in live THEN data[ClientData(h)] ELSE None]
<1>1. \A h \in Handle : word[h] = IF h \in live THEN h ELSE None
  BY DEF WordsByHandle
<1>2. \A h \in Handle : word'[h] = IF h \in live' THEN h ELSE None
  <2>1. \A h \in live' : data'[ClientData(h)'] = h
    BY DEF WordsByHandle
  <2>2. word' = [h \in Handle |-> IF h \in live' THEN data'[ClientData(h)'] ELSE None]
    OBVIOUS
  <2>3. QED
    BY <2>1, <2>2
<1>3. word' = word
  <2>1. \A h \in Handle : word'[h] = word[h]
    BY <1>1, <1>2
  <2>2. word' = [h \in Handle |-> word'[h]] /\ word = [h \in Handle |-> word[h]]
    OBVIOUS
  <2> HIDE DEF word
  <2>3. QED
    BY <2>1, <2>2
<1>4. QED
  BY <1>3 DEF Alone!vars

(* ... and a callback of the client is an event of a tool that is alone.     *)
LEMMA AloneStep ==
  ASSUME Flow, Words, WordsByHandle, WordsByHandle', Next
  PROVE  [Alone!Next]_(Alone!vars)
<1>1. ASSUME NEW t \in Thread, Client(t)
      PROVE  Alone!Next
  BY <1>1, ClientAlone
<1>2. ASSUME ~\E t \in Thread : Client(t)
      PROVE  UNCHANGED <<live, seen>>
  <2>1. CASE NextLibrary \/ OwnStartTool \/ Initialize
    BY <2>1 DEF NextLibrary, OwnStartTool, Initialize
  <2>2. CASE InitialTaskBegin \/ ParallelBegin \/ BarrierOpens \/ ParallelEnd \/ InitialTaskEnd
             \/ ControlToolEnd \/ Finalize
    BY <2>2 DEF InitialTaskBegin, ParallelBegin, BarrierOpens, ParallelEnd, InitialTaskEnd, ControlToolEnd, Finalize
  <2>3. ASSUME NEW t \in Thread,
               \/ ThreadBegin(t) \/ ImplicitTaskBegin(t) \/ SyncRegionBegin(t) \/ SyncRegionEnd(t)
               \/ ImplicitTaskEnd(t) \/ ThreadEnd(t) \/ Work(t)
        PROVE  UNCHANGED <<live, seen>>
    BY <2>3 DEF ThreadBegin, ImplicitTaskBegin, SyncRegionBegin, SyncRegionEnd, ImplicitTaskEnd, ThreadEnd, Work
  <2>4. ASSUME NEW t \in Thread, NEW e \in Task, TaskCreate(t, e) \/ TaskSwitch(t, e)
        PROVE  UNCHANGED <<live, seen>>
    BY <2>4 DEF TaskCreate, TaskSwitch
  <2>5. ASSUME NEW t \in Thread, NEW status \in EndStatus, TaskEnd(t, status)
        PROVE  UNCHANGED <<live, seen>>
    BY <2>5 DEF TaskEnd
  <2>6. ASSUME NEW t \in Thread, Own(t) \/ Free(t) \/ DlClose(t)
        PROVE  UNCHANGED <<live, seen>>
    BY <2>6 DEF Own, Free, DlClose
  <2>7. CASE Stopped
    BY <2>7 DEF Stopped, vars
  <2>8. QED
    BY <1>2, <2>1, <2>2, <2>3, <2>4, <2>5, <2>6, <2>7 DEF Next
<1>3. QED
  BY <1>1, <1>2, OthersAlone

-----------------------------------------------------------------------------
(* When a thread's pools are destroyed no task uses an object of them, for  *)
(* any threads, tasks, regions and clients that pair their callbacks        *)
(* (on_ompt_callback_thread_end, ~DataPool).                               *)
THEOREM PoolsCompleteInvariant ==
  ASSUME ClientPaired, "cancel" \notin EndStatus
  PROVE  Spec => []PoolsComplete
<1>1. Flow /\ Words => PoolsComplete
  BY TaskPools
<1>2. QED
  BY <1>1, WordsInvariant, PTL

(* The storage that the arguments of either tool lead to is there, and is   *)
(* still that of the thread, region or task of the event: the order of the  *)
(* two tools in the wrappers is right (get_client_*_data, the wrappers).    *)
THEOREM DataAliveInvariant ==
  ASSUME ClientPaired, "cancel" \notin EndStatus
  PROVE  Spec => []DataAlive
<1>1. Flow /\ Words => DataAlive
  BY StorageAlive
<1>2. QED
  BY <1>1, WordsInvariant, PTL

(* For the client the profiler is not there: every behaviour of the two is   *)
(* one of a tool that has the words for itself (the multiplexer's purpose).  *)
THEOREM Implements ==
  ASSUME ClientPaired, "cancel" \notin EndStatus
  PROVE  Spec => ImplementsToolAlone
<1>1. Flow /\ Words /\ WordsByHandle /\ WordsByHandle' /\ [Next]_vars => [Alone!Next]_(Alone!vars)
  <2>1. ASSUME WordsByHandle, WordsByHandle', UNCHANGED vars
        PROVE  UNCHANGED Alone!vars
    <3>1. UNCHANGED <<live, seen>>
      BY <2>1 DEF vars
    <3>2. QED
      BY <2>1, <3>1, OthersAlone
  <2>2. QED
    BY <2>1, AloneStep
<1>2. QED
  BY <1>1, AloneInit, WordsHeld, WordsInvariant, PTL DEF Spec, ImplementsToolAlone, Alone!Spec
=============================================================================
