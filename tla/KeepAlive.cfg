SPECIFICATION Spec
CONSTANTS
  Interval = 4
  Timeout = 4
  RoundTrip = 1
  Wrap = 32
INVARIANTS TimerIsTrue SilenceBounded DeathNoticed
PROPERTY HealthyStays
