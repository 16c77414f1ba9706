SPECIFICATION Spec
CONSTANTS
  Threads = {t1, t2}
  MaxContexts = 2
  RingSize = 2
  MaxEvents = 2
  MaxReads = 1
  Stressers = {s1, s2}
  Iterations = 2
  MaxCommands = 4
  Totals = {0, 10}
  BurstSizes = {0, 3}
  Latencies = {1, 2}
INVARIANTS
  InIdOrder
  BuffersReturned
  AllServed
PROPERTIES
  EventuallyBroadcast
  FlagObeyed
  Finishes
CHECK_DEADLOCK FALSE
