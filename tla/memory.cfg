\* Two threads, three claims of either kind, one stage-1 job at a time.
SPECIFICATION Spec
CONSTANTS
  Threads = {t1, t2}
  Tokens = {k1, k2, k3}
  NoToken = NoToken
  LeaseSeconds = 1
  RetryDelay = 1
  MaxRunning = 1
  DefaultRetry = 2
  ClockLag = 1
  MaxTime = 2
  MaxWatermark = 3
SYMMETRY Symmetry
INVARIANT InductiveInvariant
INVARIANT ClaimsWithinCap
INVARIANT OutputHasItsJob
INVARIANT ReplacedMemoryIsQueued
INVARIANT SelectionTracksBaseline
