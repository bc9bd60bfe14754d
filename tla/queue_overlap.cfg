\* Three messages are enough: one whose end is late and two in the queue.
SPECIFICATION Spec
CONSTANTS
  Messages = {m1, m2, m3}
  None = None
SYMMETRY Symmetry
\* Nothing is left to do once every message is written and dealt with.
CHECK_DEADLOCK FALSE
INVARIANT OneAtATime
