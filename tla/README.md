# drd-performance: verification of the OMPT profiler

The repository measures the overhead of data-race detection.  Its one program with
state, threads and a protocol is the **OMPT profiler** (`src/profiler/`): a tool the
OpenMP runtime loads, whose callbacks start and stop time and counter measurements of
regions (parallel constructs, tasks, user regions), possibly per call path.  This
directory models that profiler.  The rest of the repository starts compilers and
benchmarks, plots results, or patches LLVM sources that are not in the repository.

## 1. Inventory

| Component | State | Operations | Interacts with |
|---|---|---|---|
| Task and region handlers, `ompt-profiler.cpp:265-530`, `ompt-profiler-datastructures.h:130-310` | `TaskData` of every task: type, code pointer, `parentTask`, `isStarted`, `inBarrier`, own copy of `profilingActive`, `rData` | `implicit_task`, `parallel_begin/end`, `sync_region`, `task_create`, `task_schedule` | called by the runtime on every thread; take objects from the pools, regions from the maps; start and stop `RegionData` |
| Object pools, `DataPool` in `ompt-profiler-datastructures.h:12-128` | two vectors of free objects, an atomic count, a mutex, per thread | `getData`, `newDatas`, `returnOwnData`, `returnData`, `PoolData::Delete`; created and destroyed at `thread_begin` and `thread_end` | the owner takes, any thread returns; the objects also hold the data words of the second tool |
| Region maps, `ompt-profiler.cpp:84-263`, `ompt-atomwrapper.h` | global map under a lock, `RegionList` under a second one, a map per thread, the atomic `regionIds` | `getThreadRegionData`, `getGlobalRegionData`, `setCallpath`, `thread_end` with `addRegion` and `atomic_add` | every start of a task looks a region up; thread end merges |
| User regions, `ompt-profiler.cpp:576-760`, `ompt-profiler-user.h` | `userRegionMap` per thread, `sParentPtr` per region, static `ompt_region_data_t` of the program | `region_begin/end`, `region_begin_name/end_name`, `region_register` | overwrite the `rData` of the current task |
| `control_tool` start, pause, flush, end | global `profilingActive` | `ompt-profiler.cpp:535-575` | every handler reads the flag |
| Life cycle | `myProfile`, thread-local `tData` and pools | `ompt_start_tool`, `initialize`, `thread_begin/end`, `finalize`, `ompt-profiler.cpp:211-263, 796-940, 1182-` | creates and destroys all of the above |
| Output | none of its own | `printFlatProfile`, `printCallPathProfile`, `ompt-profiler.cpp:942-1180` | walks `RegionList` after all threads ended |
| Time and counters, `ompt-profiler.h`, `ompt-papi.cpp` | `tData->time`, PAPI event sets | `takeMeasurement`, `RegionData::start*` and `stop*` | read by the handlers |
| Multiplexer, `ompt-multiplex.h` | the client library and its callbacks; a pair of data words per thread; the client's word of a region or task is a field of the profiler's pooled object | `ompt_start_tool`, `initialize`, `finalize`, one wrapper per OMPT callback | passes every event to the profiler and to a second tool, the client |
| Options, `ompt-profiler.h` | `profiler_flags` | parsing of `PROFILER_OPTIONS` | read once |
| Contention-free shared mutex, `safe_ptr.h` | `want_x_lock`, its owner and recursion count, an array of slots, the slot of each thread | `lock`, `unlock`, `lock_shared`, `unlock_shared`, `register_thread`, `unregister_thread` | lock of the global maps |
| JUBE files, scripts, plots, LLVM patches | none | | |

What is hard:

* **Hand-over of one measurement.**  `task_schedule`, `sync_region`,
  `parallel_begin/end` and `implicit_task` each do half of a start/stop pair, and which
  half depends on `inBarrier`, `isStarted` and the task's copy of `profilingActive`.  The
  balance is right only over a whole sequence of callbacks, on every thread.
* **Late binding.**  An explicit task finds its region through the `TaskData` of its parent,
  on the thread that starts it, at the time it starts, again at every start.
* **Unlocked reads.**  The owner of a pool reads the return counter without the mutex;
  threads end and merge, by compare and exchange, while others create regions.
* **Switching the profiler on and off** while workers are still leaving a region.
* **Two tools, one object.**  The client's data of a task is stored in the profiler's object of
  it, which goes back to a pool when the task ends: which tool is called first decides whether
  the client finds its data, and the next user of the object may be on another thread.
* **A lock of one's own.**  Readers of `safe_ptr.h` announce themselves in a slot and then look
  for a writer, writers announce themselves and then look at the slots; slots change hands.
* **Reused measurements.**  Two handlers use a time that an earlier callback has read.

Correctness per component: exactly the region of the executing task is measured, under its
true call path, and starts and stops balance (handlers); no object is handed out twice, none
is lost, the pool stays bounded, `getData` returns (pools); one shared region per key, each
printed once, the thread's and the global map agree, and no addition is lost (maps); the
innermost user region is the measured one (user regions); the client sees what it would see
alone, and neither tool is called with data, or in a library, that is gone (multiplexer,
life cycle); a writer is alone and the lock is free again in the end (mutex).

## 2. Modules

| Module | What it is |
|---|---|
| `TaskData` | what every handler does to the profiler's data, as operators on a record `p`; no variables |
| `TaskProfile` | the profiler attached to an OpenMP program: `prof` (the record of `TaskData`) and the runtime that calls it; one action per runtime event, with the whole handler |
| `HandlerProofs` | what every handler of `TaskData` does to the measurements of a thread, proved with TLAPS |
| `TaskProfileProofs` | inductive invariant and all safety properties of `TaskProfile`, proved with TLAPS |
| `UserRegions` | extends `TaskProfile` by a program that begins and ends user regions |
| `UserRegionsProofs` | inductive invariant and all properties of the run `UserRegions`, proved with TLAPS |
| `ObjectPool` | abstract specification of a pool: `getData` hands out an unused object of the caller's pool |
| `DataPool` | the pools at the level of shared accesses; implements `ObjectPool` |
| `SequenceFacts` | lemmas about `Append`, concatenation and removal of the last element, used by the proof modules |
| `DataPoolProofs` | where the objects of the pools are (`PlaceInv`), the refinement, and how many there are: nothing is lost and the pools stay bounded; proved with TLAPS |
| `RegionMap` | lookup and creation of regions and the merge at thread end, at the level of shared accesses |
| `RegionMapProofs` | inductive invariant and all safety properties of lookup and merge, proved with TLAPS |
| `ReadWriteLock` | abstract specification: a recursive readers-writer lock |
| `SharedMutex` | the mutex of `safe_ptr.h` at the level of its atomic accesses; implements `ReadWriteLock` |
| `SharedMutexProofs` | inductive invariant, mutual exclusion and the refinement, proved with TLAPS |
| `ToolAlone` | abstract specification: what a tool finds in its data words when no other tool is there |
| `Multiplex` | start, initialization and end of the two tools, and the wrappers of the events; implements `ToolAlone` |
| `MultiplexProofs` | inductive invariant, all safety properties of `Multiplex` and the refinement, proved with TLAPS |
| `MC*` | symmetry for TLC |

A callback of the handlers runs on one thread and waits for nothing, and everything it touches
belongs to its thread or its task; therefore `TaskProfile` makes a callback one step.  What
callbacks do share, the pools, the region maps and their lock, has a module of its own at the
granularity of single shared accesses.  In `TaskProfile` a pool is therefore just a set of free objects
(what `ObjectPool` promises), and a region lookup is a step (what `RegionMap` promises: one
region per key).

**TaskData / TaskProfile.**  A measurement is abstracted to the number of starts minus stops of
a thread's `RegionData`, separately for exclusive (`exc`) and inclusive (`inc`) time: time and
counter values add up correctly when every stop follows its start and each uses a time that was
read for it.  For the second, `now` is the set of threads on which `takeMeasurement` was called
since program code last ran there (`Returns` removes a thread when a callback hands it back to
the program; `parallel_begin` and the master's `implicit_task` end go on to the next callback
instead), and `stale` records that a start or stop used an older one.  `failure` records
that an assertion or a null pointer stopped the process.  A region is its position in
`regions`, its key `<<code pointer, callPathID of the parent>>` as in the code; the model keeps
the chain of keys, from which the call path follows, not the strings.

The environment is the runtime as the callbacks depend on it: a stack of begun tasks per thread
(a task is resumed when the one it was left for completes, as in libomp), tied tasks, one level
of parallelism, deferred tasks in a pool, a barrier at the end of a region which also executes
tasks, `taskwait` and `taskgroup`, undeferred tasks executed at once.  A worker reports the end
of its implicit task when it leaves the barrier, which may be after `parallel_end` of the
master: this is what libomp does, and it is what one of the findings is about.  A task object
comes from a pool in any order.  The set `Features` switches on what a program does beyond
this, so that the passing run states exactly for which programs the profiler is right:

| Feature | Program |
|---|---|
| `yield` | tasks reach scheduling points outside of waits (`taskyield`, task creation) |
| `undeferred` | tasks with a false `if` clause, or outside of parallel regions |
| `reporting` | ... which wait or create tasks themselves |
| `orphans` | a task completes before the tasks it created |
| `nesting` | `taskwait` or `parallel` inside of `taskgroup` |
| `midpause` | `control_tool` while workers still leave the last region |
| `unpaused` | the program ends while a profiler runs that it has started itself |

**UserRegions.**  A name is used at one place, and is its code pointer; regions are properly
nested in a task, and only begun while the profiler is active (a call is ignored otherwise).
`UserFeatures` plays the role of `Features`, and the passing run has none of them:

| Feature | Program |
|---|---|
| `static` | regions with static data (`OMPT_REGION_DEFINE`) instead of names |
| `recursive` | a region begins again before it ends on the same thread |
| `tasks` | tasks are created in a user region, or an explicit task waits or is left in one |
| `undeferred` | a user region begins in an undeferred task |
| `groups` | a user region begins or ends in the body of a `taskgroup`, whose task is stopped already, as with `nesting` |

**DataPool.**  `pc` is the point in `getData` or `Delete` a thread is at.  Each action is the
code between two shared accesses: the unlocked read of `remote` (`NewDatas`), the lock, the
swap, the reset, the unlock; and for a return from another thread the lock, `emplace_back`,
the count, the unlock.  Objects are numbered in the order of allocation.  `ReturnOwn` needs no
lock: only the owner touches `DataPointer`.

**RegionMap.**  `Lock`, `Find`, `Create`, `Push`, `Unlock`, `Remember` are
`getThreadRegionData` with `getGlobalRegionData`; `ThreadEnd`, `FindGlobal`, `Load`, `Exchange`
are `thread_end` with `addRegion` and `atomic_add`.  A measurement is the value 1 and a region
has `NField` counters that are added one after the other.  `children` is the counter of that name
in a shared region: `setCallpath` counts the parent's up and puts the new value at the end of the
region's call path string (`child`), before `emplace` decides whether the region is used; a refused
one leaves its id and its number behind.  Two abstractions: a
compare-and-exchange fails only when the value differs, and `FindGlobal` uses the element, not
the iterator, after the lock is released (with libstdc++ the iterator stays valid when another
thread inserts).

**SharedMutex.**  One action per atomic access of `lock_shared`, `unlock_shared`, `lock` and
`unlock`, all taken as sequentially consistent: those the lock rests on, a
reader's announcement and the flag, are so in the code, as is the scan of the slots; releases and the owner are
weaker.  A thread registers in a slot
when it first shares the lock, or shares without a slot, as the owner of `want_x_lock`, when
there are more threads than slots; it may unregister when it holds nothing.  `excl`, `shared` and
`fallback` are what the program believes to hold; the refinement is by them.  `Nesting` says
which nested locks a program takes: the header's comment allows to share a lock that one holds
exclusively, which blocks (see the hazards), and the profiler does neither.  `RegionMap` uses the
lock as a plain exclusive one, which is what `ReadWriteLock` promises for threads that only call
`lock`.

**Multiplex.**  A callback of the runtime is a sequence of parts: the own tool (the profiler),
the client, and for some events `free` or `dlclose`.  Its wrapper decides the order: the own tool
first (`OwnFirst`), but at the end of a region or task the client (`ClientFirst`), because the
profiler then returns the object the client's word lives in.  Parts of different threads
interleave.  The profiler is here only what it does to the pooled objects and the pools, at the
granularity of `ObjectPool`; the client is external: it writes a word of its own into whatever
begins, and `seen` is what it found at its last event.  The program is a master that forks
regions one after the other, workers that may be late in leaving one, and explicit tasks begun on
any thread of the team.  `ToolAlone` has neither objects nor pools: one word per handle, from
begin to end.  `Event` stands for the events whose wrappers store or free something; `work` is
one for all those that only pass their arguments on.  The clients of the instances set the
callback of an end whenever they set that of the begin, and `thread_begin`: without it the pair
of a thread is never allocated (see the hazards).  `ControlToolEnd` is the wrapper of `control_tool`
with the command `end`, with or without a client: the profiler's part (`OwnControlTool`) lets the
runtime end the workers, finalizes both tools and closes the client's library, all before the wrapper
goes on.  The clients of the passing run have no callback for `control_tool`; that of `MultiplexEnd`
has one, and is called in the closed library.

## 3. Runs

| Run | What it shows | Bounds |
|---|---|---|
| `TaskProfile` | exclusive and inclusive time, call paths, fresh measurements, balance at the end, no failed assertion and no null region | 2 threads, 2 parallel regions, 3 task constructs, 5 objects, start/pause anywhere outside of regions, flat and call-path profile |
| `UserRegions` | innermost user region measured, nesting, balance | 2 threads, 1 region, 1 task, 2 user regions begun |
| `DataPool` | safety and bound of the pools, `IInv`, refinement of `ObjectPool`, `getData` returns | 2 threads, page of 1 object, 2 objects in use |
| `RegionMap` | lookup, creation, printing order, merge, termination | 2 threads, one task region, one user region, 3 shared regions, 2 counters |
| `SharedMutex` | `IInv`, a writer is alone, refinement of `ReadWriteLock`, the lock is free again | 3 threads, 2 slots, 2 nested locks |
| `Multiplex` | no tool uses data or a library that is gone; the client sees what it would see alone; pools are complete when destroyed | 2 threads, 2 parallel regions, 2 explicit tasks, 2 library names; profiler on or off, no client or one of two; the tools end after the threads or in `control_tool` |
| `TaskProfileOrphans`, `TaskProfileMidPause`, `TaskProfileUnpaused`, `UserRegionsStatic`, `MultiplexCancel`, `MultiplexEnd` | one disagreement of the code with its own comments or assertions each, as a counterexample | as small as shows it |

Why the bounds suffice.  *TaskProfile*: three tasks give a task on top of a waiting task on top
of a task, on either thread, and a parent, child and sibling; two parallel regions let an object
be reused by another type of task and let a worker be late from the first region.  Six objects could be
live (the initial, two implicit and three explicit tasks); the run has five, so that a third
explicit task only begins when another has ended, and the proofs cover any number.  *DataPool*: with pages of one object every second `getData`
reaches `newDatas`, while the other thread returns; that more than one thread returns at a time
is covered by the proofs, which bound nothing.  *SharedMutex*: with three threads and two slots
one reader has none, slots change hands, and a writer scans while both of the others move; the
proofs hold for any number.  *Multiplex*: two regions let an object be reused and a worker leave
late; two tasks let one be begun on the other thread, and in the middle of another; two names
give a library that is opened for nothing.  *RegionMap*: two
threads suffice for every conflict, since the lock admits one and a compare and exchange fails
because of one; three regions give two different parents, one of which is a user region.

**Fairness.**  Only of the rest of a callback that has begun (`WF_vars(Step(t))`): a thread
inside of a callback runs on, and nothing obliges the program to make the next call.  The
mutexes need no more than weak fairness: a pool whose owner waits hands out nothing, so the
returning threads run out of objects (`GetDataReturns`); a compare and exchange fails only
because one of finitely many other additions succeeded (`ThreadEnds`).  `SharedMutex` assumes
weak fairness of the steps of a call in progress and of the release of a lock that is held (a
program that never unlocks blocks everyone).  Strong fairness is assumed of one step,
`ReleaseLast`: that the program gives up the last of its recursive locks.  It may lock again in
between, so that the step is enabled again and again but not always; code that uses a lock
recursively ends the outermost use.  Nothing is assumed of who gets the lock:
`ExclusiveEnds` says that `want_x_lock` is cleared, not that a given thread obtains it, which
the spinning loops do not promise.  The handlers of `TaskProfile` have no liveness property, as
they never wait, and neither have the wrappers of `Multiplex`, which only call.

**Findings.**  Six runs expect a violation; each is quoted in `PROJECT.json`:

1. *Orphans*: an explicit task looks its region up again at every start, through a parent whose
   `TaskData` was reset or reused; it starts on one region and stops on another.
2. *MidPause*: `sync_region` reads the global flag, `implicit_task` the task's copy.
3. *Unpaused*: a profiler that the program has started, and not paused again, starts the region of
   the initial task and never stops it: `implicit_task` end looks at the copy of `profilingActive`
   that the task took when it began.
4. *UserRegionsStatic*: `region_end` leaves the ended region the current one.
5. *MultiplexCancel*: the wrapper of `task_schedule` takes only `ompt_task_complete` for the end
   of a task; at a cancelled one the profiler deletes the object, with the client's word in it,
   before the client is called.
6. *MultiplexEnd*: the wrapper of `control_tool` calls the client after the profiler's part has closed
   the client's library.

Others have no run of their own.  They are in the list of hazards, and each shows within a few steps
when its feature is added to a passing run:

* `reporting`: a `taskwait` in an undeferred task fails the assertion of `stopExclusive`
  (`AssertionsHold`).
* `nesting`: a `taskgroup` is taken for a wait from its begin on; a `taskwait` in it stops the region
  twice (`ExclusiveMatches`).
* `undeferred` in `UserFeatures`: a user region in an undeferred task stops the region above it, which
  is a null pointer (`AssertionsHold`).
* `recursive`: the second begin of a region overwrites the way back of the first, whose end follows a
  null pointer (`AssertionsHold`).
* `tasks`: a `taskwait` or the resumption of an explicit task in a user region resets the current region,
  and the end of the user region is then refused (`RegionIsInnermost`).
* `groups`: a user region in the body of a `taskgroup` stops a region that is stopped
  (`ExclusiveMatches`).

## 4. Proofs

`DataPoolProofs` proves, for every finite set of threads, page size and demand,
`Spec => []PlaceInv`, and from it `TypeOK`, `OnePlace`, `PopHasData`, `RemoteCounts` and the
refinement `Spec => Abstract!Spec`.  Its second half extends the invariant to `IInv` and
proves `MissingAreInUse` and `PoolBounded`.  Assumed is only `DataPoolAssumption`: a page has at
least one object, `None` is no thread, and threads are finite in number (the bound counts them).

*The argument.*  None of the properties is inductive.  That `back()` finds an object
depends on what the owner concluded from a counter it read without the mutex: `GetDataKnows`
says that the conclusion stays true, because only the owner lowers the counter, and `CountOK`
that a counter above 0 means a vector that is not empty, also while a return has appended and
not yet counted.  `CountOK` needs that only one thread is in the critical section (`MutexHeld`)
and that it still knows its object (`ArgIsObj`).  `OnePlace` is inductive relative to these:
the swap exchanges two disjoint vectors, the second of which `GetDataKnows` says is empty.
`PlaceInv` is the conjunction.  There is one lemma per
action; the refinement maps `Pop` to `HandOut`, `Allocate` to `Grow`, `GetData` to `Call`, the
two forms of `Delete` to `GiveBack`, and everything else to a stutter.

The counts need that an object is in one place (`PlaceInv`): then a step that moves an object
changes one vector and the set `Missing` by exactly one.  That a pool stays bounded rests on the
moment of the unlocked read (`NewDatasBelow`): when `newDatas` reads 0 in `remote`, both vectors
are empty but for at most one object that is appended and not counted yet.  So by
`MissingAreInUse` all other objects of the pool are in use or carried by other threads, and since
those threads, the one that is about to count and the reader itself are all busy, `Demand` says
that there are fewer objects than `MaxLive` (`AllocateBelow`), and they do not become more before
the page is allocated.  The run `DataPool` checks `IInv` first.

`RegionMapProofs` proves all eight safety properties of `RegionMap`, for every finite set of
threads, any code pointers and any number of regions and counters: `Spec => []IInv`, and from
it `TypeOK`, `IdsUnique`, `LocalIsGlobal`, `ListIsMap`, `ParentIsAsked`, `NothingLost`,
`AllMerged` and `SiblingsNumbered`.  Assumed is only `RegionMapAssumption`; threads are finite in
number because `NothingLost` counts them.

*The argument* has two halves.  `LookupInv` is about one key and one list: what `find` said
stays true while the lock is held (`Found`, with `MutexHeld`), an entry of the map has the key
of its own region (`MapKey`), which gives `ParentIsAsked` because `regionIds` is ahead of every
id (`RegionOK`, `IdsUnique`), and only the region a thread is just creating is not yet in the
list (`Listed`), which gives `ListIsMap`.  `MergeOK` says exactly which additions a thread in
`thread_end` has made: all counters of the regions it is done with, and those before `field` of
the one it is at; since its own map is injective (`MapKey` with `LocalIsGlobal`), no pair is
added twice, and a successful exchange changes both sides of `NothingLost` by one.  `ChildOK`
says that the counter `children` of a parent and the numbers handed out below it agree: each region's
number is within the count, no two have the same, and every number counted is that of a region that is
mapped.  The last part needs that `emplace` never refuses (`Found`), as a refused region would
leave a gap; with `Listed` it gives `SiblingsNumbered`.  The run `RegionMap` checks `IInv` first.

`SharedMutexProofs` proves, for any threads, number of slots, nesting and depth,
`Spec => []IInv` and from it `MutualExclusion` and `Spec => Abstract!Spec` (`SharedMutexAssumption`
only says that there is a slot and that `NoThread` is no thread).

*The argument.*  Mutual exclusion follows from `NobodyBehind`: nobody shares the lock in a slot
that the writer's scan has passed; a reader that announces itself there later finds
`want_x_lock` set.  It is kept because the flag stays set while a
thread is anywhere between setting and clearing it (`OneOwner`, which also says that only one
thread is there and what its recursion count is), and because a slot's value is exactly what its
one owner has announced, or 0 or 1 while it changes hands (`SlotsCount`: no two threads have the
same slot).  `AtPoint` ties the locks a thread holds to the point of the call it is at; for
instance a thread that has no slot shares only as the owner.  The refinement maps the step
of a call that takes or gives up a lock to the action of `ReadWriteLock` of that name, and all
others to a stutter.

`HandlerProofs` and `TaskProfileProofs` prove, for any threads, `TaskData` objects, code pointers and
any number of tasks and parallel regions, type correctness of `TaskProfile` whatever the program does
(`TypeCorrect`), and for well-structured programs all its other properties: `ExclusiveMatches`,
`InclusiveMatches`, `CallPathFaithful`, `RegionKept`, `MeasurementFresh`, `ValueIsStopMinusStart`,
and that the assertions of `RegionData` hold and nothing is stopped that is not started.
`WellStructured` says that `Features` has at most `yield` and `undeferred`: the programs of the run
`TaskProfile`.  With each other feature a property is violated (see the findings), so that the
assumption cannot be weaker.

*The argument* has four layers.

1. `Shape`, for every program: a `TaskData` object is in one place, a pool, the queue, announced as
   undeferred, or once on one stack (`Placed`); on a stack lie the initial task, the implicit task,
   then explicit and undeferred ones (`Stacks`); the team fits the places of its threads (`Teams`);
   region keys are unique and a region is younger than its parent (`ProfileOK`).
2. What a handler does.  `Books(p, t, e, S, N)` says of the profile between two calls of `start*` and
   `stop*` what the counts of thread `t` stand for: task `e` is measured exclusively and the tasks
   in `S` inclusively, and each region `r` another `N[r]` times.  `Start`, `Stop` and the lookup have a lemma
   each that says how they move a task into or out of `e` and `S`, a handler the composition of
   those of its calls.  A lookup leaves a bound task where it is if it finds the region the task
   is bound to (`Settled`): this is where the parent's `TaskData` must be alive.
3. `Sound`, the inductive invariant.  Which flags are set follows from where the task is
   (`Started`, `Waits`); begun tasks are bound to regions of their thread, explicit ones to that of
   their key (`Bounds`); the parent of an explicit task is there as long as it is, neither queued nor
   leaving (`Family`), which keeps the key; undeferred tasks are on top only (`OnlyTop`); a
   measurement that is used without being taken anew is there (`Fresh`); and the books of every
   thread are those its stack asks for (`Balanced`): exclusive time for the task on top that is
   neither undeferred nor waiting nor resting, inclusive time for all begun ones but a waiting one on
   top.  Of each event it is shown that its handler finds the books in the form its lemma asks for
   and leaves them as the new stack asks.  `ExclusiveMatches`, `InclusiveMatches` and the end of the
   program are then counted out of `Balanced`.
4. Call paths.  `RegionPath` recurses over the keys of the regions, and is shown to exist and to
   be the same for all older regions when a region is added, by looking at the least region for which it
   would not.  `Tracked` says that begun tasks lie on their true path and that queued ones will
   look themselves up under their parent's; a task that begins takes its region from its parent,
   which has begun and by `Family` is still there.

`Good(U, N)` is `Sound` with the tasks in `U` bound to user regions and `N` more inclusive measurements
per region; the events are proved to keep it for any such `U` and `N`.

`UserRegionsProofs` uses this to prove, for any number of threads, tasks and user regions begun,
`RegionIsInnermost`, `InclusiveNested`, `ExclusiveMatches`, `ValueIsStopMinusStart`, the types, the
assertions and `MeasurementFresh` of programs that begin and end regions by name (`UserWell`: no
member of `UserFeatures`, as in the run `UserRegions`).  The invariant is `UserSound`.

* `Accounts`: `Good(U, N)` holds with `U` the tasks in a user region and `N` how often each region
  was left for one.  `region_begin_name` moves the task's exclusive time to the new region and adds
  one to `N` of the region above, `region_end_name` takes both back: `DescendBooks`, `AscendBooks`.
* `Links`: the region a task is bound to, those recorded when its regions began, and the one it
  started with are the chain that `sParentPtr` leads along (`Chain`); the names fit, and at the
  bottom is no user region but, for an explicit task, that of its key.  So `region_end_name`, which
  knows the current region only, returns to the right one, and a later lookup finds it again.
* `Distinct`: no region is on two chains or twice on one.  There is one `sParentPtr` per region;
  without this a second begin would overwrite the way back of the first.  It is kept because a
  region found by name belongs to the thread (`Mapped`) and its name is not in use there.
* `Users`: a task in a user region is begun, measured and without children.  The steps of the rest of
  the program neither begin, end nor move it (`Quiet`), and no child's key speaks of its region.

`recursive` breaks `Distinct` and `tasks` breaks `Users`: with `recursive` the second begin
overwrites `sParentPtr`, and with `tasks` a lookup takes the task out of its user region.

`MultiplexProofs` proves, for any threads, tasks and number of regions and libraries, `TypeOK`
whatever the client has set callbacks for and however tasks end; `ClientOpen` for clients that have
no callback for `control_tool` (the run `MultiplexEnd` shows it violated otherwise); and
`PoolsComplete`, `DataAlive` and the refinement `Spec => Alone!Spec` under two hypotheses:

* `ClientPaired`: a client that sets `thread_begin` sets `thread_end` and the reverse, and the
  callback of the end of a region or explicit task if it sets that of the begin.  The first is
  what the wrappers need: only that of `thread_begin` allocates the pair that `thread_end` reads and
  frees.  Without the others the client would never be told that a word it has stored is gone.
  Any other event, and any set of events without both, is allowed; both clients of the run
  `Multiplex` satisfy it.
* `"cancel" \notin EndStatus`: the run `MultiplexCancel` shows `DataAlive` violated otherwise.

*The argument* has two halves.

1. `Flow`, for every program and client.  Where the threads are relative to the fork and the
   barrier of the current region (`Places`); which tasks are on which stack, none on two (`Stacks`);
   which parts a callback has left, and in which events (`PartsLeft`); the life of the tool and of
   the client's library (`Life`): when both tools are finalized, what is left of a callback is the
   closing of the library or the client's part of the `control_tool` that finalized them, which a client
   without that callback does not have; this gives `ClientOpen`.  The heart is `Arguments`: what a
   callback in progress passes and does not end is used by its thread (`Uses`), and what it ends by
   nobody (`Spent`).  So nothing ends under a callback that passes it, on whichever
   thread the other is.
2. `Words`, about the memory.  A region or task is `Current` from its begin to its end in the
   program.  The profiler knows it (`Held`) from the own part of the callback of its begin to that of
   its end, the client (`Known`) from its part to its part; between the two, on different threads,
   any order is possible except within a callback, where the wrapper decides (`Ordered`).
   `Objects`: what is `Held` has an object and every object that is in use belongs to something
   `Held`, on the thread that owns the pool in question.  `Threads`: the pools and the pair of a
   thread exist while it does.  `Stored`: the client's word is what the client has put there, or
   empty.  That also holds of what has not begun yet and of objects that nobody uses, since `Delete`
   resets them: this is what the client finds at a begin.

Every event moves things into or out of `Current` and starts parts that make up for it, so that `Held`
and `Known` stay as they are (`EventHeld`, `EventKnown`); every part changes one of them and the
memory that goes with it.  `ArgumentHeld` then says that what a callback passes is `Held` when
either tool is called, except for the own tool at its begin; `DataAlive` and `PoolsComplete` follow.
The refinement maps the part of the client in a callback to `Next` of `ToolAlone`, everything else
to a stutter: `WordValue` says that the word the client is led to is its own for all that is live,
also while another thread's callback has just ended it for the program and not yet for the client.

Only model-checked: liveness (`GetDataReturns`, `ThreadEnds`, `ExclusiveEnds`), which needs
fairness and ENABLED and is out of the prover's reach.

## 5. Not modelled, and the plan

Not modelled:

* PAPI and clock values, number formatting and symbolization, option parsing; plots, batch files
  and LLVM patches.
* Of the multiplexer: target, device and `_emi` events and the inquiry functions, which only pass
  arguments on; clients that decline in `initialize`.
* The safe pointers of `safe_ptr.h`, which only hold a guard of the mutex; the array's
  reallocation when the map of a thread outlives the mutex.
* Detached tasks: `early_fulfill` and `late_fulfill` carry no second task, which
  `task_schedule` dereferences before it looks at the status.  Nested parallel regions.
* The deletion of the region maps in `finalize`, after the threads have ended.

The plan, with what is done:

1. done: `TaskData`, `TaskProfile` with the freshness of measurements; `DataPool` with
   `ObjectPool` and its proofs; `RegionMap` and its proofs; `UserRegions`; `SharedMutex` with
   `ReadWriteLock` and its proofs; `Multiplex` with `ToolAlone`, which also has the life cycle of
   threads and pools.
2. done: proofs of every invariant the passing runs check, and of the refinements.
3. done: the initial task's region when the profiler is started late (`unpaused`), user regions in
   undeferred tasks, and `control_tool` end with a client.
4. Threads that call `control_tool` from inside of a region.
