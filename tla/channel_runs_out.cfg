CONSTANTS
  Channels = {c1}
  ChannelEvents = {e1}
  Workers = {k1}
  MaxAttempts = 2
  AttemptCap = 3
  ChannelFaults = {"abandon"}
SPECIFICATION ChannelSpec
INVARIANT RunsOut
