\* A client with a callback for control_tool, which the program ends the tools with.
SPECIFICATION Spec
CONSTANTS
  Worker = {w}
  Initial = i
  Task = {}
  MaxRegion = 1
  MaxLibrary = 1
  Event = {"thread_begin", "thread_end", "parallel_begin", "parallel_end", "implicit_task",
    "sync_region", "task_create", "task_schedule", "control_tool", "work"}
  OwnEvent = {"thread_begin", "thread_end", "parallel_begin", "parallel_end", "implicit_task",
    "sync_region", "task_create", "task_schedule", "control_tool"}
  ClientSets = {{"thread_begin", "thread_end", "parallel_begin", "parallel_end", "implicit_task",
    "sync_region", "task_create", "task_schedule", "control_tool", "work"}}
  EndStatus = {"complete"}
  None = None
INVARIANT ClientOpen
