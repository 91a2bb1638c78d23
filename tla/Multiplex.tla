------------------------------ MODULE Multiplex ------------------------------
(***************************************************************************)
(* ompt-multiplex.h: a second tool, the client, next to the profiler, the  *)
(* own tool.  Every OMPT event is passed to both, one after the other; the *)
(* client's data of a region or task is a field of the profiler's pooled   *)
(* object, its data of a thread half of a pair from malloc.  Events of     *)
(* different threads interleave between the two tools.                     *)
(***************************************************************************)
EXTENDS Naturals, Sequences, FiniteSets

CONSTANTS
  Worker, Initial,   \* the threads
  Task,              \* explicit tasks
  MaxRegion,         \* bound: parallel regions, one after the other
  MaxLibrary,        \* bound: names in the variable with the client libraries
  Event,             \* OMPT events
  OwnEvent,          \* those that the profiler sets a callback for
  ClientSets,        \* sets of events that a client may set a callback for
  EndStatus,         \* how explicit tasks end: "complete", "cancel"
  None

ASSUME MultiplexAssumption ==
  /\ Initial \notin Worker
  /\ MaxRegion \in Nat /\ MaxLibrary \in Nat
  /\ IsFiniteSet(Task)
  /\ OwnEvent \subseteq Event /\ ClientSets \subseteq SUBSET Event
  /\ {"thread_begin", "thread_end", "parallel_begin", "parallel_end", "implicit_task",
       "sync_region", "task_create", "task_schedule", "control_tool"} \subseteq OwnEvent
  /\ EndStatus \subseteq {"complete", "cancel"}

Thread == Worker \cup {Initial}

(* What the runtime keeps an ompt_data_t for.  Region 0 is the implicit     *)
(* parallel region, and its implicit task the initial task.                *)
ThreadData(t) == <<"thread", t>>
RegionData(r) == <<"region", r>>
ImplicitTask(r, t) == <<"implicit", r, t>>
ExplicitTask(e) == <<"explicit", e>>
InitialTask == ImplicitTask(0, Initial)

RegionHandle == {RegionData(r) : r \in 0..MaxRegion}
TaskHandle ==
  {InitialTask} \cup {ImplicitTask(r, t) : r \in 1..MaxRegion, t \in Thread}
    \cup {ExplicitTask(e) : e \in Task}
Handle == {ThreadData(t) : t \in Thread} \cup RegionHandle \cup TaskHandle

VARIABLES
  phase,               \* of the tool: "load", "initialize", "run", "finalized"
  library,             \* start_tool has looked at so many names
  opened,              \* libraries that are open
  client,              \* client_tool_module, 0 if there is no client
  callbacks_registered,
  clientSet,           \* events that the client has set a callback for
  pools,               \* threads whose pools exist
  size,                \* objects allocated by kind and thread
  user,                \* which handle uses a pooled object
  ptr,                 \* the object the profiler has put into a handle
  data,                \* the client's word in a handle, pair or object
  pairs,               \* threads whose pair is allocated
  call,                \* the callback a thread is in, see Callback
  live, seen,          \* the client, see ToolAlone
  at, stack,           \* where a thread is in the program, the tasks it executes
  entered,             \* the region it entered last
  region, barrier,     \* the current region; the last one whose barrier opened
  ready, created       \* explicit tasks

tool == <<phase, library, opened, client, callbacks_registered, clientSet>>
memory == <<pools, size, user, ptr, data, pairs>>
program == <<at, stack, entered, region, barrier, ready, created>>
vars == <<tool, memory, call, live, seen, program>>

Kind == {"region", "task"}
KindOf(h) == IF h \in RegionHandle THEN "region" ELSE "task"

(* Bound: so many objects of a kind are in use at a time on one thread.      *)
Index == 1..(Cardinality(Task) + 2)
Object == Kind \X Thread \X Index
Owner(o) == o[2]

ASSUME NoneAssumption == None \notin Handle \cup Object

NoCall == [event |-> None, args |-> {}, begun |-> {}, ended |-> {}, parts |-> <<>>]

Init ==
  /\ phase = "load" /\ library = 0 /\ opened = {} /\ client = 0
  /\ callbacks_registered = FALSE /\ clientSet = {}
  /\ pools = {}
  /\ size = [k \in Kind \X Thread |-> 0]
  /\ user = [o \in Object |-> None]
  /\ ptr = [h \in RegionHandle \cup TaskHandle |-> None]
  /\ data = [c \in Object \cup Handle |-> None]
  /\ pairs = {}
  /\ call = [t \in Thread |-> NoCall]
  /\ live = {} /\ seen = <<>>
  /\ at = [t \in Thread |-> "new"]
  /\ stack = [t \in Thread |-> <<>>]
  /\ entered = [t \in Thread |-> 0]
  /\ region = 0 /\ barrier = 0
  /\ ready = {} /\ created = {}

-----------------------------------------------------------------------------
(* ompt_start_tool, initialize and finalize *)

(* Mutant of NextLibrary: the loop turns once too often.                    *)
OneTooMany ==
  /\ phase = "load" /\ client = 0 /\ library <= MaxLibrary
  /\ library' = library + 1
  /\ UNCHANGED <<opened, client, phase, callbacks_registered, clientSet, memory, call, live, seen, program>>

(* One name of the list: the library is missing, has no ompt_start_tool, or *)
(* declines; or it is the client, and the loop ends.  The handle that the   *)
(* next turn would close is the outer h, which the inner h hides, so a      *)
(* library that was opened for nothing stays open.                         *)
NextLibrary ==
  /\ phase = "load" /\ client = 0 /\ library < MaxLibrary
  /\ library' = library + 1
  /\ \/ UNCHANGED <<opened, client>>
     \/ opened' = opened \cup {library'} /\ UNCHANGED client
     \/ opened' = opened \cup {library'} /\ client' = library'
  /\ UNCHANGED <<phase, callbacks_registered, clientSet, memory, call, live, seen, program>>

(* The end of the list, also an earlier one or none; the own start_tool.    *)
OwnStartTool ==
  /\ phase = "load"
  /\ phase' = "initialize"
  /\ library' = 0
  /\ UNCHANGED <<opened, client, callbacks_registered, clientSet, memory, call, live, seen, program>>

(* The profiler sets its callbacks if it measures anything, the client its  *)
(* own.                                                                    *)
Initialize ==
  /\ phase = "initialize"
  /\ phase' = "run"
  /\ callbacks_registered' \in BOOLEAN
  /\ IF client = 0 THEN UNCHANGED clientSet ELSE clientSet' \in ClientSets
  /\ UNCHANGED <<library, opened, client, memory, call, live, seen, program>>

(* The first callback of one of the tools for an event makes the runtime    *)
(* call the wrapper.                                                       *)
Registered(event) ==
  \/ callbacks_registered /\ event \in OwnEvent
  \/ event \in clientSet

-----------------------------------------------------------------------------
(* The wrappers: which parts a callback has left *)

Called(event, part) ==
  CASE part = "own"    -> callbacks_registered /\ event \in OwnEvent
    [] part = "client" -> event \in clientSet
    [] OTHER           -> Registered(event)

When(event, part) == IF Called(event, part) THEN <<part>> ELSE <<>>

(* The begins and all events in between: the own tool first.                *)
OwnFirst(event) == When(event, "own") \o When(event, "client")

(* Ends, with CUSTOM_GET_CLIENT data and no CUSTOM_DELETE: the client, and   *)
(* then the own tool, which returns its object and the client's word in it. *)
ClientFirst(event) == When(event, "client") \o When(event, "own")

(* The runtime calls back on thread t, which has no callback in progress.   *)
Callback(t, event, args, begun, ended, parts) ==
  call' = [call EXCEPT ![t] =
    IF parts = <<>> THEN NoCall
    ELSE [event |-> event, args |-> args, begun |-> begun, ended |-> ended, parts |-> parts]]

InCall(t) == call[t].parts # <<>>
Busy(h) == \E t \in Thread : InCall(t) /\ h \in call[t].args

(* The word that the pointer of the client leads to.                       *)
ClientData(h) ==
  IF callbacks_registered /\ h \in RegionHandle \cup TaskHandle THEN ptr[h] ELSE h

Goto(t, from, to) ==
  /\ phase = "run" /\ ~InCall(t)
  /\ at[t] = from /\ at' = [at EXCEPT ![t] = to]

-----------------------------------------------------------------------------
(* Events: what the runtime does, and the wrapper it calls *)

(* The master has told the other threads of the team to begin.             *)
Forked == region # 0 /\ (at[Initial] = "fork" => ~InCall(Initial))

(* The wrapper allocates the pair first.                                   *)
ThreadBegin(t) ==
  /\ t # Initial => Forked
  /\ Goto(t, "new", IF t = Initial THEN "begun" ELSE "idle")
  /\ Callback(t, "thread_begin", {ThreadData(t)}, {ThreadData(t)}, {}, OwnFirst("thread_begin"))
  /\ pairs' = IF Registered("thread_begin") THEN pairs \cup {t} ELSE pairs
  /\ UNCHANGED <<tool, pools, size, user, ptr, data, live, seen, stack, entered, region, barrier, ready, created>>

ThreadEnd(t) ==
  /\ t # Initial => at[Initial] \in {"done", "gone", "ending"} /\ entered[t] = region
  /\ Goto(t, IF t = Initial THEN "done" ELSE "idle", "gone")
  /\ Callback(t, "thread_end", {ThreadData(t)}, {}, {ThreadData(t)},
              OwnFirst("thread_end") \o When("thread_end", "free"))
  /\ UNCHANGED <<tool, memory, live, seen, stack, entered, region, barrier, ready, created>>

InitialTaskBegin ==
  /\ Goto(Initial, "begun", "serial")
  /\ stack' = [stack EXCEPT ![Initial] = <<InitialTask>>]
  /\ LET new == {RegionData(0), InitialTask} IN
       Callback(Initial, "implicit_task", new, new, {}, OwnFirst("implicit_task"))
  /\ UNCHANGED <<tool, memory, live, seen, entered, region, barrier, ready, created>>

ParallelBegin ==
  /\ region < MaxRegion
  /\ Goto(Initial, "serial", "fork")
  /\ region' = region + 1
  /\ Callback(Initial, "parallel_begin", {InitialTask, RegionData(region')},
              {RegionData(region')}, {}, OwnFirst("parallel_begin"))
  /\ UNCHANGED <<tool, memory, live, seen, stack, entered, barrier, ready, created>>

ImplicitTaskBegin(t) ==
  /\ Forked /\ entered[t] < region
  /\ Goto(t, IF t = Initial THEN "fork" ELSE "idle", "team")
  /\ entered' = [entered EXCEPT ![t] = region]
  /\ stack' = [stack EXCEPT ![t] = <<ImplicitTask(region, t)>> \o @]
  /\ Callback(t, "implicit_task", {RegionData(region), ImplicitTask(region, t)},
              {ImplicitTask(region, t)}, {}, OwnFirst("implicit_task"))
  /\ UNCHANGED <<tool, memory, live, seen, region, barrier, ready, created>>

TaskCreate(t, e) ==
  /\ e \notin created
  /\ Goto(t, "team", "team")
  /\ created' = created \cup {e}
  /\ ready' = ready \cup {e}
  /\ Callback(t, "task_create", {Head(stack[t]), ExplicitTask(e)}, {ExplicitTask(e)}, {}, OwnFirst("task_create"))
  /\ UNCHANGED <<tool, memory, live, seen, stack, entered, region, barrier>>

(* task_schedule: a task begins, on any thread of the team, once its        *)
(* creation is reported; ...                                               *)
TaskSwitch(t, e) ==
  /\ e \in ready /\ ~Busy(ExplicitTask(e))
  /\ entered[t] = region /\ barrier < region
  /\ at[t] \in {"team", "barrier"} /\ Goto(t, at[t], at[t])
  /\ ready' = ready \ {e}
  /\ stack' = [stack EXCEPT ![t] = <<ExplicitTask(e)>> \o @]
  /\ Callback(t, "task_schedule", {Head(stack[t]), ExplicitTask(e)}, {}, {}, OwnFirst("task_schedule"))
  /\ UNCHANGED <<tool, memory, live, seen, entered, region, barrier, created>>

(* ... and ends.  Of the three states in which the profiler deletes the     *)
(* object the wrapper only takes ompt_task_complete for an end.             *)
TaskEnd(t, status) ==
  /\ at[t] \in {"team", "barrier"} /\ Goto(t, at[t], at[t])
  /\ stack[t][1][1] = "explicit"
  /\ stack' = [stack EXCEPT ![t] = Tail(@)]
  /\ Callback(t, "task_schedule", {stack[t][1], stack[t][2]}, {}, {stack[t][1]},
              IF status = "complete" THEN ClientFirst("task_schedule") ELSE OwnFirst("task_schedule"))
  /\ UNCHANGED <<tool, memory, live, seen, entered, region, barrier, ready, created>>

(* The barrier at the end of the region.                                   *)
SyncRegionBegin(t) ==
  /\ Goto(t, "team", "barrier")
  /\ stack[t][1] = ImplicitTask(region, t)
  /\ Callback(t, "sync_region", {RegionData(region), stack[t][1]}, {}, {}, OwnFirst("sync_region"))
  /\ UNCHANGED <<tool, memory, live, seen, stack, entered, region, barrier, ready, created>>

BarrierOpens ==
  /\ phase = "run" /\ barrier < region
  /\ \A t \in Thread :
       at[t] = "barrier" /\ entered[t] = region /\ ~InCall(t) /\ Head(stack[t])[1] = "implicit"
  /\ ready = {}
  /\ barrier' = region
  /\ UNCHANGED <<tool, memory, call, live, seen, at, stack, entered, region, ready, created>>

(* A worker leaves when the master may be in the next region; it gets no    *)
(* parallel data.                                                          *)
SyncRegionEnd(t) ==
  /\ barrier >= entered[t]
  /\ Goto(t, "barrier", "leaving")
  /\ stack[t][1][1] = "implicit"
  /\ Callback(t, "sync_region",
              {stack[t][1]} \cup (IF t = Initial THEN {RegionData(region)} ELSE {}), {}, {}, OwnFirst("sync_region"))
  /\ UNCHANGED <<tool, memory, live, seen, stack, entered, region, barrier, ready, created>>

ImplicitTaskEnd(t) ==
  /\ Goto(t, "leaving", IF t = Initial THEN "join" ELSE "idle")
  /\ stack' = [stack EXCEPT ![t] = Tail(@)]
  /\ Callback(t, "implicit_task", {stack[t][1]}, {}, {stack[t][1]}, ClientFirst("implicit_task"))
  /\ UNCHANGED <<tool, memory, live, seen, entered, region, barrier, ready, created>>

(* Mutant of ParallelEnd: the own tool deletes the region first.            *)
ParallelEndOwnFirst ==
  /\ Goto(Initial, "join", "serial")
  /\ Callback(Initial, "parallel_end", {RegionData(region), InitialTask}, {},
              {RegionData(region)}, OwnFirst("parallel_end"))
  /\ UNCHANGED <<tool, memory, live, seen, stack, entered, region, barrier, ready, created>>

ParallelEnd ==
  /\ Goto(Initial, "join", "serial")
  /\ Callback(Initial, "parallel_end", {RegionData(region), InitialTask}, {},
              {RegionData(region)}, ClientFirst("parallel_end"))
  /\ UNCHANGED <<tool, memory, live, seen, stack, entered, region, barrier, ready, created>>

InitialTaskEnd ==
  /\ Goto(Initial, "serial", "done")
  /\ stack' = [stack EXCEPT ![Initial] = <<>>]
  /\ Callback(Initial, "implicit_task", {InitialTask}, {}, {InitialTask}, ClientFirst("implicit_task"))
  /\ UNCHANGED <<tool, memory, live, seen, entered, region, barrier, ready, created>>

(* An event with the data of the current task that only a client asks for.  *)
Work(t) ==
  /\ "work" \in clientSet
  /\ Goto(t, "team", "team")
  /\ Callback(t, "work", {RegionData(region), Head(stack[t])}, {}, {}, OwnFirst("work"))
  /\ UNCHANGED <<tool, memory, live, seen, stack, entered, region, barrier, ready, created>>

(* control_tool end.  It is the profiler that ends the tools, so without its *)
(* callback this is an event like any other.                               *)
ControlToolEnd ==
  /\ Called("control_tool", "own")
  /\ Goto(Initial, "serial", "ending")
  /\ Callback(Initial, "control_tool", {}, {}, {}, OwnFirst("control_tool"))
  /\ UNCHANGED <<tool, memory, live, seen, stack, entered, region, barrier, ready, created>>

(* The runtime ends; it has ended the other threads.                       *)
Finalize ==
  /\ \A t \in Thread : at[t] \in {"new", "gone"} /\ ~InCall(t)
  /\ Goto(Initial, "gone", "final")
  /\ Callback(Initial, "finalize", {}, {}, {},
              (IF client # 0 THEN <<"client">> ELSE <<>>) \o <<"own", "dlclose">>)
  /\ UNCHANGED <<tool, memory, live, seen, stack, entered, region, barrier, ready, created>>

-----------------------------------------------------------------------------
(* The parts of a callback *)

Part(t, part) ==
  /\ InCall(t) /\ Head(call[t].parts) = part
  /\ LET left == Tail(call[t].parts) IN
       call' = [call EXCEPT ![t] = IF left = <<>> THEN NoCall ELSE [call[t] EXCEPT !.parts = left]]
  /\ UNCHANGED program

(* getData: any free object of the own pool, or else a new one.             *)
MayGet(t, k, o) ==
  /\ o[1] = k /\ Owner(o) = t /\ user[o] = None
  /\ o[3] <= size[<<k, t>>] \/
       /\ o[3] = size[<<k, t>>] + 1
       /\ \A i \in 1..size[<<k, t>>] : user[<<k, t, i>>] # None

(* New for every region and task that begins.                              *)
OwnBegin(t) ==
  \E new \in [call[t].begun -> Object] :
    /\ \A h \in call[t].begun : MayGet(t, KindOf(h), new[h])
    /\ ptr' = [h \in DOMAIN ptr |-> IF h \in call[t].begun THEN new[h] ELSE ptr[h]]
    /\ user' = [o \in Object |-> IF \E h \in call[t].begun : new[h] = o
                                  THEN CHOOSE h \in call[t].begun : new[h] = o ELSE user[o]]
    /\ size' = [k \in Kind \X Thread |->
         LET mine == {new[h][3] : h \in {g \in call[t].begun : KindOf(g) = k[1] /\ k[2] = t}} IN
           IF \E i \in mine : i > size[k] THEN size[k] + 1 ELSE size[k]]
    /\ UNCHANGED <<pools, data, pairs>>

(* Mutant of OwnEnd: the object goes back with the client's word in it.     *)
OwnEndKeepsWord(t) ==
  /\ user' = [o \in Object |-> IF o \in {ptr[h] : h \in call[t].ended} THEN None ELSE user[o]]
  /\ UNCHANGED <<data, pools, size, ptr, pairs>>

(* Mutant of OwnEnd: the object of an implicit task is not given back.      *)
OwnEndForgetsImplicit(t) ==
  LET old == {ptr[h] : h \in {g \in call[t].ended : g[1] # "implicit"}} IN
    /\ user' = [o \in Object |-> IF o \in old THEN None ELSE user[o]]
    /\ data' = [c \in DOMAIN data |-> IF c \in old THEN None ELSE data[c]]
    /\ UNCHANGED <<pools, size, ptr, pairs>>

(* Delete, which resets the object and the client's word.                  *)
OwnEnd(t) ==
  LET old == {ptr[h] : h \in call[t].ended} IN
    /\ user' = [o \in Object |-> IF o \in old THEN None ELSE user[o]]
    /\ data' = [c \in DOMAIN data |-> IF c \in old THEN None ELSE data[c]]
    /\ UNCHANGED <<pools, size, ptr, pairs>>

(* Mutant: the profiler finalizes the tools itself, as the threads are.     *)
OwnControlToolAtOnce(t) ==
  /\ call[t].event = "control_tool"
  /\ phase' = "finalized" /\ opened' = opened \ {client}
  /\ UNCHANGED memory

(* control_tool end: ompt_finalize_tool makes the runtime end the threads   *)
(* and finalize both tools, which closes the client's library, before the   *)
(* callback of the profiler returns.                                       *)
OwnControlTool(t) ==
  /\ call[t].event = "control_tool"
  /\ \A u \in Worker : at[u] \in {"new", "gone"} /\ ~InCall(u)
  /\ phase' = "finalized" /\ opened' = opened \ {client}
  /\ UNCHANGED memory

Own(t) ==
  /\ Part(t, "own")
  /\ \/ call[t].event = "thread_begin" /\ pools' = pools \cup {t}
          /\ UNCHANGED <<size, user, ptr, data, pairs, phase, opened>>
     \/ call[t].event = "thread_end" /\ pools' = pools \ {t}
          /\ UNCHANGED <<size, user, ptr, data, pairs, phase, opened>>
     \/ OwnControlTool(t)
     \/ call[t].event = "finalize" /\ phase' = "finalized" /\ UNCHANGED <<memory, opened>>
     \/ /\ call[t].event \notin {"thread_begin", "thread_end", "control_tool", "finalize"}
        /\ IF call[t].begun # {} THEN OwnBegin(t) ELSE OwnEnd(t)
        /\ UNCHANGED <<phase, opened>>
  /\ UNCHANGED <<library, client, callbacks_registered, clientSet, live, seen>>

(* The client looks at all data it gets, and sets what begins.             *)
Client(t) ==
  /\ Part(t, "client")
  /\ LET begun == call[t].begun IN
     /\ seen' = [h \in call[t].args |-> data[ClientData(h)]]
     /\ data' = [c \in DOMAIN data |->
                   IF \E h \in begun : ClientData(h) = c
                     THEN CHOOSE h \in begun : ClientData(h) = c ELSE data[c]]
     /\ live' = (live \cup begun) \ call[t].ended
  /\ UNCHANGED <<tool, pools, size, user, ptr, pairs>>

(* The end of thread_end.                                                  *)
Free(t) ==
  /\ Part(t, "free")
  /\ pairs' = pairs \ {t}
  /\ UNCHANGED <<tool, pools, size, user, ptr, data, live, seen>>

(* The end of finalize.                                                    *)
DlClose(t) ==
  /\ Part(t, "dlclose")
  /\ opened' = opened \ {client}
  /\ UNCHANGED <<phase, library, client, callbacks_registered, clientSet, memory, live, seen>>

-----------------------------------------------------------------------------
Stopped ==
  /\ phase = "finalized" /\ \A t \in Thread : ~InCall(t)
  /\ UNCHANGED vars

Next ==
  \/ NextLibrary \/ OwnStartTool \/ Initialize
  \/ InitialTaskBegin \/ ParallelBegin \/ BarrierOpens \/ ParallelEnd \/ InitialTaskEnd
  \/ ControlToolEnd \/ Finalize
  \/ \E t \in Thread :
       \/ ThreadBegin(t) \/ ImplicitTaskBegin(t) \/ SyncRegionBegin(t) \/ SyncRegionEnd(t)
       \/ ImplicitTaskEnd(t) \/ ThreadEnd(t) \/ Work(t)
       \/ \E e \in Task : TaskCreate(t, e) \/ TaskSwitch(t, e)
       \/ \E status \in EndStatus : TaskEnd(t, status)
       \/ Own(t) \/ Client(t) \/ Free(t) \/ DlClose(t)
  \/ Stopped

Spec == Init /\ [][Next]_vars

-----------------------------------------------------------------------------
(* Properties *)

TypeOK ==
  /\ phase \in {"load", "initialize", "run", "finalized"}
  /\ library \in 0..MaxLibrary /\ opened \subseteq 1..MaxLibrary
  /\ client \in 0..MaxLibrary /\ callbacks_registered \in BOOLEAN
  /\ clientSet \subseteq Event
  /\ pools \subseteq Thread /\ pairs \subseteq Thread
  /\ size \in [Kind \X Thread -> 0..Cardinality(Index)]
  /\ user \in [Object -> RegionHandle \cup TaskHandle \cup {None}]
  /\ ptr \in [RegionHandle \cup TaskHandle -> Object \cup {None}]
  /\ data \in [Object \cup Handle -> Handle \cup {None}]
  /\ live \subseteq Handle /\ DOMAIN seen \subseteq Handle
  /\ stack \in [Thread -> Seq(TaskHandle)]
  /\ region \in 0..MaxRegion /\ barrier \in 0..region
  /\ entered \in [Thread -> 0..region]
  /\ ready \subseteq created /\ created \subseteq Task

(* The profiler's object of a region or task is still that of h.            *)
Owned(h) ==
  /\ ptr[h] # None
  /\ user[ptr[h]] = h /\ Owner(ptr[h]) \in pools

(* Whichever of the two tools is called next, on whichever thread, the      *)
(* storage its arguments lead to is there, and is still that of the thread, *)
(* region or task of the event: the pair of a thread is allocated, the      *)
(* profiler's object of a region or task is neither returned to its pool    *)
(* nor used by another, and its pool exists (get_client_*_data; the order   *)
(* of the calls in the wrappers of ends).                                  *)
DataAlive ==
  \A t \in Thread :
    InCall(t) /\ Head(call[t].parts) \in {"own", "client"} =>
      \A h \in call[t].args :
        IF h \in RegionHandle \cup TaskHandle
          THEN callbacks_registered /\ ~(Head(call[t].parts) = "own" /\ h \in call[t].begun)
                 => Owned(h)
          ELSE h[2] \in pairs

(* The client is called only while its library is open, and no callback     *)
(* reaches either tool once it is finalized: also when control_tool ends    *)
(* both tools while other threads are in the middle of a wrapper (finalize). *)
ClientOpen ==
  \A t \in Thread : InCall(t) =>
    /\ Head(call[t].parts) = "client" => client \in opened
    /\ Head(call[t].parts) \in {"own", "client"} => phase = "run"

(* When a thread's pools are destroyed at its thread_end, no task uses an   *)
(* object of them any more, so none will be returned to them (~DataPool).   *)
PoolsComplete ==
  \A o \in Object : user[o] \in TaskHandle => Owner(o) \in pools

(* For the client the profiler is not there: what it stores in the data of  *)
(* a thread, region or task it finds there until the end of that, whatever  *)
(* the profiler does with the objects the words live in, on other threads   *)
(* and between the profiler's callback and the client's.                   *)
Alone == INSTANCE ToolAlone WITH
  word <- [h \in Handle |-> IF h \in live THEN data[ClientData(h)] ELSE None]

ImplementsToolAlone == Alone!Spec
=============================================================================
