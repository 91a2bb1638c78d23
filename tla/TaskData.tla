------------------------------- MODULE TaskData -------------------------------
(***************************************************************************)
(* The data the profiler keeps about tasks and regions, and what its OMPT  *)
(* handlers do to it.  The profiler is a record p:                         *)
(*   active   profiler_flags->profilingActive (control_tool start, pause)  *)
(*   flat     profiler_flags->flatProfile                                  *)
(*   task     the TaskData objects, in use or waiting in a pool            *)
(*   regions  the keys of the global region map, in order of creation: a   *)
(*            region is known by its position                              *)
(*   exc, inc per thread-local RegionData, startCount - stopCount of its   *)
(*            exclusive and of its inclusive measurement                   *)
(*   failure  the assertion or null pointer the process stopped at         *)
(*   now      threads whose tData->time (and counters) were read after     *)
(*            program code last ran on them                                *)
(*   stale    a measurement was used that was read before that             *)
(* A callback runs on one thread and calls nothing that waits, so a        *)
(* handler is an operator that returns the record it leaves behind.        *)
(***************************************************************************)
EXTENDS Integers, Sequences, SequencesExt

CONSTANTS Thread,     \* threads of the OpenMP program
          TaskObj,    \* TaskData objects of the pools
          NoTask,     \* a null TaskData pointer
          NoCode,     \* a null codeptr_ra
          UserCode    \* code pointers of user regions

NoRegion == [thread |-> NoTask, id |-> 0]

(* The fields of TaskData with their initializers. *)
Blank == [Type |-> "none", codePtr |-> NoCode, parentTask |-> NoTask,
          isStarted |-> FALSE, inBarrier |-> FALSE, profilingActive |-> TRUE,
          rData |-> NoRegion]

(* TaskData::Reset leaves inBarrier as it was. *)
Reset(p, o) ==
  [p EXCEPT !.task[o] = [Blank EXCEPT !.inBarrier = p.task[o].inBarrier]]

-----------------------------------------------------------------------------
(* Regions *)

(* Mutant: the parent is left out of the key.                              *)
KeyWithoutParent(p, code, parent) == <<code, 0>>

(* Only regions that are no user regions count regionIds up.               *)
CallPathID(p, r) ==
  IF r = NoRegion \/ p.regions[r.id][1] \in UserCode THEN 0 ELSE r.id

(* The key of a region: its code pointer and, in a call-path profile, the  *)
(* callPathID of the region it is called from (0 without one).             *)
Key(p, code, parent) == <<code, IF p.flat THEN 0 ELSE CallPathID(p, parent)>>

(* getGlobalRegionData: an unknown key gets the next callPathID. *)
GlobalRegionData(p, key) ==
  IF key \in Range(p.regions) THEN p
  ELSE [p EXCEPT !.regions = Append(p.regions, key)]

(* getThreadRegionData on thread t: a region the thread has not seen is    *)
(* entered in the thread's own map, with nothing measured yet.             *)
ThreadRegion(p, t, code, parent) ==
  [thread |-> t,
   id |-> CHOOSE i \in DOMAIN p.regions : p.regions[i] = Key(p, code, parent)]

ThreadRegionData(p, t, code, parent) ==
  LET g == GlobalRegionData(p, Key(p, code, parent))
      r == ThreadRegion(g, t, code, parent)
      Known(f) == [x \in DOMAIN f \cup {r} |-> IF x \in DOMAIN f THEN f[x] ELSE 0]
  IN  [g EXCEPT !.exc = Known(@), !.inc = Known(@)]

(* Mutant: a task is bound only while the profiler is active.              *)
BindRegionWhenActive(p, t, o, code, parent) ==
  LET q == ThreadRegionData(p, t, code, parent)
  IN  IF p.active THEN [q EXCEPT !.task[o].rData = ThreadRegion(q, t, code, parent)] ELSE p

(* ... its result bound to the task's rData.                               *)
BindRegion(p, t, o, code, parent) ==
  LET q == ThreadRegionData(p, t, code, parent)
  IN  [q EXCEPT !.task[o].rData = ThreadRegion(q, t, code, parent)]

-----------------------------------------------------------------------------
(* Measurements: kind is "exc" or "inc" *)

(* takeMeasurement on thread t.                                            *)
Take(p, t) == [p EXCEPT !.now = @ \cup {t}]

(* RegionData::start* and stop* on thread t, whose last measurement they    *)
(* use: n is 1 or -1.  There is no region behind a null pointer.           *)
CountRegion(p, kind, t, r, n) ==
  IF r = NoRegion THEN [p EXCEPT !.failure = "abort"]
  ELSE [p EXCEPT ![kind][r] = @ + n, !.stale = @ \/ t \notin p.now]

(* What TaskData's start* and stop* share: the initial task is skipped      *)
(* while the profiler is paused, an undeferred task fails an assertion.    *)
Count(p, kind, t, o, n) ==
  LET x == p.task[o] IN
  IF x.Type = "initial" /\ ~p.active THEN p
  ELSE CountRegion(p, kind, t, IF x.Type = "undeferred" THEN NoRegion ELSE x.rData, n)

(* Mutant: a task that has a region looks it up under that one.            *)
StartUnderOwnRegion(p, kind, t, o) ==
  LET x == p.task[o]
      above == IF x.rData = NoRegion THEN p.task[x.parentTask].rData ELSE x.rData
  IN  Count(IF x.Type = "explicit" THEN BindRegion(p, t, o, x.codePtr, above) ELSE p,
            kind, t, o, 1)

(* An explicit task looks its region up on the thread that starts it, under *)
(* the region its parent's TaskData has by then.                           *)
Start(p, kind, t, o) ==
  LET x == p.task[o] IN
  Count(IF x.Type = "explicit"
        THEN BindRegion(p, t, o, x.codePtr, p.task[x.parentTask].rData)
        ELSE p, kind, t, o, 1)

Stop(p, kind, t, o) == Count(p, kind, t, o, -1)

StartBoth(p, t, o) == Start(Start(p, "exc", t, o), "inc", t, o)
StopBoth(p, t, o) == Stop(Stop(p, "exc", t, o), "inc", t, o)

-----------------------------------------------------------------------------
(* Handlers *)

(* implicit_task, begin: the TaskData is bound to its region at once.  The *)
(* task of the master (thread_num num = 0) starts with the measurement     *)
(* that parallel_begin took.                                               *)
ImplicitTaskBegin(p, t, num, o, type, team) ==
  LET parent == IF team.parentTask = NoTask THEN NoRegion
                ELSE p.task[team.parentTask].rData
      init   == [p EXCEPT !.task[o] =
                  [@ EXCEPT !.Type = type, !.codePtr = team.codePtr,
                            !.parentTask = team.parentTask,
                            !.profilingActive = p.active]]
      bound  == BindRegion(init, t, o, team.codePtr, parent)
      taken  == IF num # 0 \/ type = "initial" THEN Take(bound, t) ELSE bound
  IN  IF ~p.active THEN bound
      ELSE [StartBoth(taken, t, o) EXCEPT !.task[o].isStarted = TRUE]

(* Mutant: the inclusive measurement is not stopped.                       *)
ImplicitTaskEndExclusive(p, t, o) ==
  Reset(IF p.task[o].profilingActive THEN Stop(Take(p, t), "exc", t, o) ELSE p, o)

(* Mutant: the measurement of the barrier is used again.                   *)
ImplicitTaskEndNotTaken(p, t, o) ==
  Reset(IF p.task[o].profilingActive THEN StopBoth(p, t, o) ELSE p, o)

(* implicit_task, end: what begin started is stopped, the object returned. *)
ImplicitTaskEnd(p, t, o) ==
  Reset(IF p.task[o].profilingActive THEN StopBoth(Take(p, t), t, o) ELSE p, o)

ParallelBegin(p, t, parent) ==
  IF p.active THEN Stop(Take(p, t), "exc", t, parent) ELSE p

(* parallel_end uses what the end of the master's implicit task took.      *)
ParallelEnd(p, t, parent) == IF p.active THEN Start(p, "exc", t, parent) ELSE p

(* sync_region: nothing is measured between its begin and its end.         *)
SyncRegionBegin(p, t, o) ==
  IF ~p.active THEN p
  ELSE [StopBoth(Take(p, t), t, o) EXCEPT !.task[o].inBarrier = TRUE]

SyncRegionEnd(p, t, o) ==
  IF ~p.active THEN p
  ELSE [StartBoth(Take(p, t), t, o) EXCEPT !.task[o].inBarrier = FALSE]

(* Mutant: two arguments are swapped.                                      *)
TaskCreateSwapped(p, o, type, code, parent) ==
  [p EXCEPT !.task[o] = [@ EXCEPT !.Type = type, !.codePtr = parent,
                                  !.parentTask = code, !.profilingActive = p.active]]

(* task_create: an undeferred task is not profiled and knows no parent.    *)
TaskCreate(p, o, type, code, parent) ==
  IF type = "undeferred"
  THEN [p EXCEPT !.task[o] = [@ EXCEPT !.Type = type, !.profilingActive = FALSE]]
  ELSE [p EXCEPT !.task[o] = [@ EXCEPT !.Type = type, !.codePtr = code,
                                       !.parentTask = parent,
                                       !.profilingActive = p.active]]

(* Mutant: a task that waits is stopped like any other.                    *)
LeaveNotWaiting(p, t, from) ==
  IF ~p.task[from].profilingActive THEN p ELSE Stop(p, "exc", t, from)

(* Mutant: a completed task is given back without its last stop.           *)
FinishWithoutStop(p, t, from) == Reset(p, from)

(* task_schedule: thread t leaves task from for task to; done says that    *)
(* from completed, was cancelled or detached.  The order of the five parts *)
(* is the order of the code.                                               *)
Leave(p, t, from) ==
  IF ~p.task[from].profilingActive THEN p
  ELSE IF p.task[from].inBarrier THEN Start(p, "inc", t, from)
       ELSE Stop(p, "exc", t, from)

Enter(p, t, to) ==
  IF ~p.task[to].profilingActive THEN p
  ELSE IF p.task[to].inBarrier THEN Stop(p, "inc", t, to)
       ELSE Start(p, "exc", t, to)

FirstEnter(p, t, to) ==
  IF ~p.task[to].profilingActive \/ p.task[to].isStarted THEN p
  ELSE [Start(p, "inc", t, to) EXCEPT !.task[to].isStarted = TRUE]

Finish(p, t, from) ==
  Reset(IF p.task[from].profilingActive THEN Stop(p, "inc", t, from) ELSE p, from)

Included(p, o) == p.task[o].Type = "undeferred"

TaskSchedule(p, t, from, to, done) ==
  IF Included(p, to) \/ Included(p, from)
  THEN IF done /\ Included(p, from) THEN Reset(p, from) ELSE p
  ELSE LET measured == p.task[to].profilingActive \/ p.task[from].profilingActive
           taken == IF measured THEN Take(p, t) ELSE p
           q == FirstEnter(Enter(Leave(taken, t, from), t, to), t, to)
       IN  IF done THEN Finish(q, t, from) ELSE q

(* control_tool start and pause act on the region of the initial task of   *)
(* the calling thread (tData->initialTask).                                *)
ControlTool(p, t, o, on) ==
  LET n == IF on THEN 1 ELSE -1
      r == p.task[o].rData
      q == Take([p EXCEPT !.active = on], t)
  IN  IF p.active = on THEN p
      ELSE CountRegion(CountRegion(q, "exc", t, r, n), "inc", t, r, n)
=============================================================================
