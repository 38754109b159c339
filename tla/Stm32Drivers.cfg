SPECIFICATION DriversSpec
CONSTANTS
  Devices <- MCDevices
  Controllers <- MCControllers
  Requests <- MCRequests
  Pins <- MCPins
  Buffers = {b1, b2}
  NoBuffer = NoBuffer
  Watched <- MCWatched
  Calls = 2
  G0Boards <- MCG0Boards
  H7Boards <- MCH7Boards
CHECK_DEADLOCK FALSE
INVARIANTS DriversTypeOK FaultsExplained PinsRouted CallbackBuffer WokenMeansRunning
PROPERTIES BurstIntegrity RequestsComplete StormsEnd CoresBoot NotificationSeen OwnAnswer NoAnswerMissed
