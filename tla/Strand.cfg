SPECIFICATION Spec
CONSTANTS
  Threads = {t1, t2}
  Given = {9}
  MaxCreated = 2
  MaxTasks = 3
INVARIANTS
  Serialised
  Ownership
CHECK_DEADLOCK FALSE
