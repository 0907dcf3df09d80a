\* A second has 16 ns and 4 ms here, and 2^32 ns, which are 4.29 s, are 64 ns. The
\* waits are shorter than that (16 ms would be cut short, as 4295 ms are), and some of them
\* carry into the next second.
CONSTANTS
  Threads = {t1, t2}
  CounterModulus = 3
  Word = 64
  NsPerMs = 4
  NsPerSecond = 16
  Msecs = {0, 15}
  StartNanos = {0, 15}
SPECIFICATION FairSpec
INVARIANTS
  NobodySleepsOn
  WaitsAsLongAsAsked
PROPERTIES
  ImplementsAtomicEvent
  SignalledLeave
