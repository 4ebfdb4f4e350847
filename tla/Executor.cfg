\* Two calls on either backend; the host is started and stopped once.
SPECIFICATION FairSpec
CONSTANTS
  Works = {w1, w2}
  Backends = {"gui", "headless"}
  MaxStarts = 1
INVARIANTS
  ReplyIsOutcome
PROPERTIES
  ImplementsCallOnce
  EveryCallReturns
  QueuedIsServed
