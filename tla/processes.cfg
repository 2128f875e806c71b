\* A server of every kind with three requests, two of which heed their context; three
\* servers or URLs that come and go; child processes whose pipe holds a line; three
\* browser events with channels that hold one; two pages of two sources.
SPECIFICATION ProcessSpec
CONSTANTS
  Reqs = {p1, p2, s1}
  Patient = {p1, p2}
  BaseContexts = {"nil", "ctx", "other"}
  Configs = {"http", "tls", "none"}
  OthersShutdown = TRUE
  Addrs = {a1, a2, a3}
  Scenarios <- Plays
  PipeSize = 1
  Kinds = {"console", "exception"}
  HandlerSets <- HandlerLists
  MaxEvents = 3
  ChanCap = 1
  Sources = {1, 2}
  Pages = {1, 2}
  MaxEdits = 3
  MaxClock = 3
INVARIANTS ShutdownInv  PagesCurrent
PROPERTIES
  ShutdownEnds PollsDoNotDelay WaitEnds CallsSound OutputFlows 
CHECK_DEADLOCK FALSE
