\* A process from its start to its exit, with errors, a signal and a handler
\* that never returns; a channel of one entry, so that it is full at times.
SPECIFICATION FairSpec
CONSTANTS
  consumer = consumer
  ticker = ticker
  request = request
  request2 = request2
  call = call
  Loggers <- MCLoggers
  Loops = {consumer, ticker}
  Tickers = {ticker}
  Handlers = {request, request2}
  Calls = {call}
  BufferSize = 1
  MaxLogs = 3
INVARIANTS LifecycleTypeOK LogsAreKept QuietBeforeClose
PROPERTIES ServiceEnds
CHECK_DEADLOCK FALSE
