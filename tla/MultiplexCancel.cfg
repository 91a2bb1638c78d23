\* The same with explicit tasks that are cancelled.
SPECIFICATION Spec
CONSTANTS
  Worker = {w}
  Initial = i
  Task = {e1, e2}
  MaxRegion = 2
  MaxLibrary = 2
  Event = {"thread_begin", "thread_end", "parallel_begin", "parallel_end", "implicit_task",
    "sync_region", "task_create", "task_schedule", "control_tool", "work"}
  OwnEvent = {"thread_begin", "thread_end", "parallel_begin", "parallel_end", "implicit_task",
    "sync_region", "task_create", "task_schedule", "control_tool"}
  ClientSets = {{"thread_begin", "thread_end", "parallel_begin", "parallel_end", "implicit_task",
    "sync_region", "task_create", "task_schedule", "work"},
    {"thread_begin", "thread_end", "parallel_begin", "parallel_end", "work"}}
  EndStatus = {"complete", "cancel"}
  None = None
INVARIANT DataAlive
