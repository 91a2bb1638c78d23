------------------------------ MODULE TaskProfile ------------------------------
(***************************************************************************)
(* The profiler attached to an OpenMP program.  The profiler is prof, the  *)
(* record of module TaskData; the other variables are the OpenMP runtime   *)
(* that calls it: which tasks each thread has on its stack, which deferred *)
(* tasks wait, who has arrived at the barrier.  Every action is one event  *)
(* of the runtime together with the whole handler the profiler registered  *)
(* for it.  The set Features says what the program does, so that one       *)
(* instance can look at well-structured programs and another at the rest.  *)
(***************************************************************************)
EXTENDS TaskData, FiniteSets

CONSTANTS Master,      \* the thread that runs the initial task
          ParCode,     \* codeptr_ra of the parallel constructs
          TaskCode,    \* code pointers of the task constructs
          Features,    \* see ASSUME
          MaxTask,     \* bound: task constructs executed
          MaxParallel  \* bound: parallel regions executed

ASSUME TaskProfileAssumption ==
  /\ Master \in Thread
  /\ NoTask \notin TaskObj \cup Thread
  /\ NoCode \notin TaskCode \cup UserCode \cup {ParCode}
  /\ UserCode \cap (TaskCode \cup {ParCode}) = {}
  /\ Features \subseteq
       {"yield",      \* tasks reach scheduling points outside of waits
        "undeferred", \* tasks with a false if clause
        "reporting",  \* ... which wait or create tasks themselves
        "orphans",    \* tasks complete before the tasks they created
        "nesting",    \* taskwait or parallel inside of taskgroup
        "midpause",   \* control_tool before the workers left the last region
        "unpaused"}   \* the program ends while a profiler runs that it started
  /\ MaxTask \in Nat /\ MaxParallel \in Nat

VARIABLES
  prof,      \* the profiler
  free,      \* TaskData objects that are in a pool
  running,   \* per thread the tasks it has begun; the last one executes
  queue,     \* deferred tasks no thread has begun
  next,      \* per thread the undeferred task it created and must run now
  sync,      \* per task the kinds of its open sync regions
  children,  \* per task the tasks it created that have not completed
  team,      \* the ParallelData of the open parallel region, or NoTeam
  forked,    \* threads that have not begun their implicit task
  where,     \* per thread the point of its implicit task it is at
  path,      \* per task the code pointers on its true call path
  count,     \* how many tasks and parallel regions there were
  ended      \* the initial task has ended

env == <<free, running, queue, next, sync, children, forked, team, where, path,
         count, ended>>
vars == <<prof, env>>

NoTeam == [codePtr |-> NoCode, parentTask |-> NoTask]

Init ==
  /\ \E on \in BOOLEAN, flat \in BOOLEAN :
       prof = [active |-> on, flat |-> flat, regions |-> <<>>, failure |-> "none",
               task |-> [o \in TaskObj |-> Blank], exc |-> <<>>, inc |-> <<>>,
               now |-> {}, stale |-> FALSE]
  /\ free = TaskObj
  /\ running = [t \in Thread |-> <<>>]
  /\ queue = {}
  /\ next = [t \in Thread |-> NoTask]
  /\ sync = [o \in TaskObj |-> <<>>]
  /\ children = [o \in TaskObj |-> {}]
  /\ forked = {}
  /\ team = NoTeam
  /\ where = [t \in Thread |-> "outside"]
  /\ path = [o \in TaskObj |-> <<>>]
  /\ count = [task |-> 0, parallel |-> 0]
  /\ ended = FALSE

-----------------------------------------------------------------------------
(* The runtime *)

Running == prof.failure = "none" /\ ~ended

(* The task that executes on t.                                            *)
Current(t) == IF running[t] = <<>> THEN NoTask ELSE Last(running[t])

Type(o) == prof.task[o].Type

(* Thread t executes its current task: the initial task rests while a      *)
(* parallel region is open, and an undeferred task runs at once.           *)
OnTop(t) ==
  /\ Running
  /\ Current(t) # NoTask
  /\ next[t] = NoTask
  /\ Type(Current(t)) = "initial" => team = NoTeam

(* ... and is in code of the program, not in a barrier or in a taskwait.   *)
InProgram(t) ==
  /\ OnTop(t)
  /\ Type(Current(t)) = "implicit" => where[t] = "inside"
  /\ sync[Current(t)] # <<>> => Last(sync[Current(t)]) # "taskwait"

(* ... or waits in the barrier that ends the region, in a taskwait, or at   *)
(* the end of a taskgroup.                                                 *)
Waiting(t) ==
  /\ OnTop(t)
  /\ \/ Type(Current(t)) = "implicit" /\ where[t] = "barrier"
     \/ sync[Current(t)] # <<>>

(* Undeferred tasks reach the callbacks of a waiting or creating task only  *)
(* in programs with that feature.                                          *)
Reporting(t) == Type(Current(t)) = "undeferred" => "reporting" \in Features

ThreadNum(t) == IF t = Master THEN 0 ELSE 1

(* Thread t leaves the callbacks of an event, after which the profiler is p: *)
(* it runs program code, or waits, and its last measurement is of the past.  *)
Returns(t, p) == prof' = [p EXCEPT !.now = @ \ {t}]

-----------------------------------------------------------------------------
(* Events *)

InitialTaskBegin ==
  /\ Running /\ running[Master] = <<>> /\ free = TaskObj
  /\ \E o \in free :
       /\ Returns(Master, ImplicitTaskBegin(prof, Master, 0, o, "initial", NoTeam))
       /\ free' = free \ {o}
       /\ running' = [running EXCEPT ![Master] = <<o>>]
       /\ path' = [path EXCEPT ![o] = <<NoCode>>]
  /\ UNCHANGED <<queue, next, sync, children, forked, team, where, count, ended>>

(* Without "unpaused" a profiler that the program has started it also pauses. *)
InitialTaskEnd ==
  LET o == Current(Master) IN
  /\ InProgram(Master) /\ Type(o) = "initial" /\ sync[o] = <<>>
  /\ \A t \in Thread : where[t] = "outside"
  /\ prof.active /\ ~prof.task[o].profilingActive => "unpaused" \in Features
  /\ Returns(Master, ImplicitTaskEnd(prof, Master, o))
  /\ free' = free \cup {o}
  /\ running' = [running EXCEPT ![Master] = <<>>]
  /\ path' = [path EXCEPT ![o] = <<>>]
  /\ ended' = TRUE
  /\ UNCHANGED <<queue, next, sync, children, forked, team, where, count>>

(* The master goes on to the begin of its implicit task.                   *)
ParallelRegionBegin ==
  LET o == Current(Master) IN
  /\ InProgram(Master) /\ Type(o) = "initial"
  /\ sync[o] # <<>> => "nesting" \in Features
  /\ count.parallel < MaxParallel
  /\ forked = {}
  /\ prof' = ParallelBegin(prof, Master, o)
  /\ team' = [codePtr |-> ParCode, parentTask |-> o]
  /\ forked' = Thread
  /\ count' = [count EXCEPT !.parallel = @ + 1]
  /\ UNCHANGED <<free, running, queue, next, sync, children, where, path, ended>>

(* A worker first leaves the previous region, see ImplicitEnd.             *)
ImplicitBegin(t) ==
  /\ Running /\ t \in forked /\ where[t] = "outside"
  /\ \E o \in free :
       /\ Returns(t, ImplicitTaskBegin(prof, t, ThreadNum(t), o, "implicit", team))
       /\ free' = free \ {o}
       /\ running' = [running EXCEPT ![t] = Append(@, o)]
       /\ path' = [path EXCEPT ![o] = Append(path[team.parentTask], ParCode)]
  /\ forked' = forked \ {t}
  /\ where' = [where EXCEPT ![t] = "inside"]
  /\ UNCHANGED <<queue, next, sync, children, team, count, ended>>

(* The implicit task arrives at the barrier that ends the region ...       *)
BarrierBegin(t) ==
  /\ InProgram(t) /\ Type(Current(t)) = "implicit" /\ sync[Current(t)] = <<>>
  /\ Returns(t, SyncRegionBegin(prof, t, Current(t)))
  /\ where' = [where EXCEPT ![t] = "barrier"]
  /\ UNCHANGED <<free, running, queue, next, sync, children, forked, team, path,
                 count, ended>>

(* ... which opens when all have arrived and no explicit task is left.      *)
BarrierOpens ==
  /\ Running /\ queue = {}
  /\ \A t \in Thread : where[t] = "barrier" /\ Type(Current(t)) = "implicit"
  /\ where' = [t \in Thread |-> "released"]
  /\ UNCHANGED <<prof, free, running, queue, next, sync, children, forked, team,
                 path, count, ended>>

BarrierEnd(t) ==
  /\ Running /\ where[t] = "released"
  /\ Returns(t, SyncRegionEnd(prof, t, Current(t)))
  /\ where' = [where EXCEPT ![t] = "leaving"]
  /\ UNCHANGED <<free, running, queue, next, sync, children, forked, team, path,
                 count, ended>>

(* The runtime reports the end of a worker's implicit task when the worker  *)
(* leaves the barrier; the master does not wait for that, and goes on to    *)
(* parallel_end.                                                           *)
ImplicitEnd(t) ==
  LET o == Current(t) IN
  /\ Running /\ where[t] = "leaving"
  /\ LET p == ImplicitTaskEnd(prof, t, o)
     IN  IF t = Master THEN prof' = p ELSE Returns(t, p)
  /\ free' = free \cup {o}
  /\ running' = [running EXCEPT ![t] = Front(@)]
  /\ path' = [path EXCEPT ![o] = <<>>]
  /\ where' = [where EXCEPT ![t] = "outside"]
  /\ children' = [children EXCEPT ![o] = {}]
  /\ UNCHANGED <<queue, next, sync, forked, team, count, ended>>

ParallelRegionEnd ==
  /\ Running /\ team # NoTeam
  /\ Master \notin forked /\ where[Master] = "outside"
  /\ Returns(Master, ParallelEnd(prof, Master, team.parentTask))
  /\ team' = NoTeam
  /\ UNCHANGED <<free, running, queue, next, sync, children, forked, where, path,
                 count, ended>>

(* taskwait and taskgroup *)
RegionBegin(t, kind) ==
  LET o == Current(t) IN
  /\ InProgram(t) /\ Reporting(t)
  /\ sync[o] # <<>> => "nesting" \in Features /\ Len(sync[o]) < 2
  /\ Returns(t, SyncRegionBegin(prof, t, o))
  /\ sync' = [sync EXCEPT ![o] = Append(@, kind)]
  /\ UNCHANGED <<free, running, queue, next, children, forked, team, where, path,
                 count, ended>>

(* Both end when the tasks created by the task have completed.              *)
RegionEnd(t) ==
  LET o == Current(t) IN
  /\ OnTop(t) /\ sync[o] # <<>> /\ children[o] = {}
  /\ Returns(t, SyncRegionEnd(prof, t, o))
  /\ sync' = [sync EXCEPT ![o] = Front(@)]
  /\ UNCHANGED <<free, running, queue, next, children, forked, team, where, path,
                 count, ended>>

(* A task outside of any parallel region is always undeferred.             *)
CreateTask(t, type, code) ==
  LET o == Current(t) IN
  /\ InProgram(t) /\ Reporting(t)
  /\ IF type = "explicit" THEN team # NoTeam ELSE "undeferred" \in Features
  /\ count.task < MaxTask
  /\ \E new \in free :
       /\ prof' = TaskCreate(prof, new, type, code, o)
       /\ free' = free \ {new}
       /\ queue' = IF type = "explicit" THEN queue \cup {new} ELSE queue
       /\ next' = IF type = "explicit" THEN next ELSE [next EXCEPT ![t] = new]
       /\ children' = [children EXCEPT ![o] = @ \cup {new}]
       /\ path' = [path EXCEPT ![new] = Append(path[o], code)]
  /\ count' = [count EXCEPT !.task = @ + 1]
  /\ UNCHANGED <<running, sync, forked, team, where, ended>>

(* Thread t leaves its task for a deferred one, at a task scheduling point, *)
(* or for the undeferred one it has just created.                          *)
Switch(t, o) ==
  /\ \/ /\ o \in queue
        /\ Waiting(t) \/ ("yield" \in Features /\ InProgram(t) /\ Reporting(t))
     \/ Running /\ next[t] = o /\ o # NoTask
  /\ team # NoTeam \/ next[t] = o
  /\ Returns(t, TaskSchedule(prof, t, Current(t), o, FALSE))
  /\ queue' = queue \ {o}
  /\ next' = [next EXCEPT ![t] = NoTask]
  /\ running' = [running EXCEPT ![t] = Append(@, o)]
  /\ UNCHANGED <<free, sync, children, forked, team, where, path, count, ended>>

(* The task on top completes (or is cancelled, or detaches) and the thread  *)
(* resumes the one it had left for it.                                     *)
Complete(t) ==
  LET o == Current(t)
      below == Last(Front(running[t]))
  IN
  /\ InProgram(t) /\ Type(o) \in {"explicit", "undeferred"} /\ sync[o] = <<>>
  /\ children[o] # {} => "orphans" \in Features
  /\ Returns(t, TaskSchedule(prof, t, o, below, TRUE))
  /\ free' = IF prof'.task[o].Type = "none" THEN free \cup {o} ELSE free
  /\ running' = [running EXCEPT ![t] = Front(@)]
  /\ children' = [x \in TaskObj |-> IF x = o THEN {} ELSE children[x] \ {o}]
  /\ path' = [path EXCEPT ![o] = <<>>]
  /\ UNCHANGED <<queue, next, sync, forked, team, where, count, ended>>

(* The program starts or pauses the profiler from the initial task.        *)
Control(on) ==
  LET o == Current(Master) IN
  /\ InProgram(Master) /\ Type(o) = "initial"
  /\ sync[o] = <<>>
  /\ (\E t \in Thread : where[t] # "outside") => "midpause" \in Features
  /\ prof.active # on
  /\ Returns(Master, ControlTool(prof, Master, o, on))
  /\ UNCHANGED env

(* The program has ended, or was stopped by the profiler.                  *)
Stopped == ~Running /\ UNCHANGED vars

Next ==
  \/ InitialTaskBegin
  \/ InitialTaskEnd
  \/ ParallelRegionBegin
  \/ ParallelRegionEnd
  \/ BarrierOpens
  \/ \E t \in Thread :
       \/ ImplicitBegin(t)
       \/ BarrierBegin(t)
       \/ BarrierEnd(t)
       \/ ImplicitEnd(t)
       \/ \E kind \in {"taskwait", "taskgroup"} : RegionBegin(t, kind)
       \/ RegionEnd(t)
       \/ \E code \in TaskCode, type \in {"explicit", "undeferred"} :
            CreateTask(t, type, code)
       \/ \E o \in TaskObj : Switch(t, o)
       \/ Complete(t)
  \/ \E on \in BOOLEAN : Control(on)
  \/ Stopped

Spec == Init /\ [][Next]_vars
-----------------------------------------------------------------------------
(* Properties *)

Region == [thread : Thread, id : Nat]

(* The profiler's data and the runtime's keep their types.                 *)
TypeOK ==
  /\ prof.active \in BOOLEAN /\ prof.flat \in BOOLEAN
  /\ prof.failure \in {"none", "abort"}
  /\ prof.task \in [TaskObj -> [Type : {"none", "initial", "implicit", "explicit", "undeferred"},
                                codePtr : TaskCode \cup {ParCode, NoCode},
                                parentTask : TaskObj \cup {NoTask},
                                isStarted : BOOLEAN, inBarrier : BOOLEAN,
                                profilingActive : BOOLEAN,
                                rData : Region \cup {NoRegion}]]
  /\ prof.regions \in Seq((TaskCode \cup UserCode \cup {ParCode, NoCode}) \X Nat)
  /\ prof.now \subseteq Thread /\ prof.stale \in BOOLEAN
  /\ DOMAIN prof.exc = DOMAIN prof.inc /\ DOMAIN prof.exc \subseteq Region
  /\ \A r \in DOMAIN prof.exc : prof.exc[r] \in Int /\ prof.inc[r] \in Int
  /\ free \subseteq TaskObj /\ queue \subseteq TaskObj /\ forked \subseteq Thread
  /\ running \in [Thread -> Seq(TaskObj)]
  /\ where \in [Thread -> {"outside", "inside", "barrier", "released", "leaving"}]

(* The tasks of t that are measured: begun, and not created while the      *)
(* profiler was paused.  The initial task follows the control_tool.        *)
Measured(t) ==
  {o \in ToSet(running[t]) : IF Type(o) = "initial" THEN prof.active
                             ELSE prof.task[o].profilingActive}

(* The task the time of thread t belongs to.  An undeferred task counts    *)
(* for the task that created it; the initial task rests during a region.   *)
Charged(t) ==
  {o \in Measured(t) :
     /\ \A i, j \in DOMAIN running[t] :
          running[t][i] = o /\ j > i => Type(running[t][j]) = "undeferred"
     /\ Type(o) = "initial" => team = NoTeam}

(* Exclusive time: on every thread exactly the region of the task that     *)
(* executes is measured, unless the task waits; no region is ever started  *)
(* twice or stopped twice.  task_schedule, sync_region, parallel_begin and *)
(* implicit_task hand the measurement over to one another.                 *)
ExclusiveMatches ==
  Running => \A r \in DOMAIN prof.exc :
    prof.exc[r] = Cardinality({o \in Charged(r.thread) :
                                 prof.task[o].rData = r /\ ~prof.task[o].inBarrier})

(* Inclusive time: a region is measured once for every task bound to it    *)
(* that has begun and not ended, except for a task that waits and has      *)
(* nothing executing on top of it.                                         *)
InclusiveMatches ==
  Running => \A r \in DOMAIN prof.inc :
    prof.inc[r] = Cardinality({o \in Measured(r.thread) :
                                 /\ prof.task[o].rData = r
                                 /\ prof.task[o].inBarrier => o \notin Charged(r.thread)})

(* The code pointers on the way from the root to a region.                 *)
RegionPath[i \in 0..Len(prof.regions)] ==
  IF i = 0 THEN <<>>
  ELSE Append(RegionPath[prof.regions[i][2]], prof.regions[i][1])

(* A call-path profile attributes every measured task to the region of its *)
(* true call path, although the lookup goes through the parent's TaskData  *)
(* at the time the task starts; a flat profile to the region of its code.  *)
CallPathFaithful ==
  \A t \in Thread : \A o \in Measured(t) :
    LET id == prof.task[o].rData.id IN
    IF prof.flat THEN prof.regions[id][1] = Last(path[o])
    ELSE RegionPath[id] = path[o]

(* The region a task is bound to when it starts is the one it is bound to   *)
(* when it stops, however often startExclusive looks it up in between.      *)
RegionKept ==
  [][\A t \in Thread : \A o \in ToSet(running[t]) \cap ToSet(running'[t]) :
       prof'.task[o].rData = prof.task[o].rData]_vars

(* No start or stop uses a time that was read before program code ran on    *)
(* the thread: the begin of the master's implicit task relies on the       *)
(* measurement of parallel_begin, parallel_end on that of the end of the   *)
(* implicit task, every other handler on its own (ompt-profiler.cpp:292).  *)
MeasurementFresh == ~prof.stale

(* "value_region = stopvalue - startvalue" (ompt-profiler.h:367): when the  *)
(* program is over, every region was stopped as often as it was started.   *)
ValueIsStopMinusStart ==
  ended => \A r \in DOMAIN prof.exc : prof.exc[r] = 0 /\ prof.inc[r] = 0

(* A region is stopped only while it is started.                           *)
StopsFollowStarts ==
  \A r \in DOMAIN prof.exc : prof.exc[r] >= 0 /\ prof.inc[r] >= 0

(* The assertions in startExclusive, stopExclusive, startInclusive and      *)
(* stopInclusive hold (ompt-profiler-datastructures.h:256,269,279,289), and *)
(* none is called for a region that is not there (ompt-profiler.cpp:706).   *)
AssertionsHold == prof.failure = "none"
=============================================================================
