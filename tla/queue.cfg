\* Two messages: one in the turn and one steered, queued or sent behind it.
\* The theorems of QueuedSendProofs hold for any number.
SPECIFICATION Spec
CONSTANTS
  Messages = {m1, m2}
  None = None
SYMMETRY Symmetry
\* Nothing is left to do once every message is written and dealt with.
CHECK_DEADLOCK FALSE
INVARIANT InOnePlace
PROPERTY SettledOnce
