\* Two requests, each of which may be aggregated or streamed, and up to
\* three signals.
CONSTANTS
  Requests = {r1, r2}
  MaxSignals = 3
SPECIFICATION ServerFairSpec
INVARIANTS OutcomesBalance
PROPERTIES SignalEndsProcess GaugeIsAuthoritative CutsOffOnlyLate
