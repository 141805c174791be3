CONSTANTS
  Lines = {l1, l2}
  Requests <- MixedRequests
  Heartbeats <- MixedBeats
  PeerWindows = {0, 4}
  InitialWindow = 4
  Capacity = 3
  TokensPerTick = 2
  Timeout = 1
  MaxControls = 1
SPECIFICATION Spec
INVARIANTS TypeOK ViewsAgree NeverStranded Accounted InflightIsPending ControlNotStuck
PROPERTIES SilentLineGivesUp Reconnects RequestSent
