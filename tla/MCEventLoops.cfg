\* Two connections that use one descriptor after each other, and may be built anew
\* where they were; two asio watchers, two uv handles.  One connection of libev,
\* with half a second as the unit of time.
CONSTANTS
  Conn = {c1, c2}
  Fd = {f1}
  None = None
  AddressReuse = TRUE
  MaxWatchers = 2
  MaxOps = 2
  MaxPolls = 2
  TimedConn = {c1}
  ConnectTimeout = 3
  Timeouts = {0, 1, 2}
  MaxLate = 1
  MaxTime = 10
SPECIFICATION FairSpec
CHECK_DEADLOCK FALSE
INVARIANT CallbacksOwned
PROPERTIES MonitorsWhatIsAsked ReadsGoOn FreedAgainExplained HeartbeatsKept
