\* A client with callbacks for every event but control_tool, or without those of tasks, next to the profiler.
\* It sets thread_begin, and the callback of an end whenever it sets that of the begin.
SPECIFICATION Spec
CONSTANTS
  Worker = {w}
  Initial = i
  Task = {e1, e2}
  MaxRegion = 2
  MaxLibrary = 2
  Event = {"thread_begin", "thread_end", "parallel_begin", "parallel_end", "implicit_task",
    "sync_region", "task_create", "task_schedule", "control_tool", "work"}
  OwnEvent = {"thread_begin", "thread_end", "parallel_begin", "parallel_end", "implicit_task",
    "sync_region", "task_create", "task_schedule", "control_tool"}
  ClientSets = {{"thread_begin", "thread_end", "parallel_begin", "parallel_end", "implicit_task",
    "sync_region", "task_create", "task_schedule", "work"},
    {"thread_begin", "thread_end", "parallel_begin", "parallel_end", "work"}}
  EndStatus = {"complete"}
  None = None
INVARIANTS
  TypeOK
  DataAlive
  ClientOpen
  PoolsComplete
PROPERTIES
  ImplementsToolAlone
