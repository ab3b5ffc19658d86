CONSTANTS
    Clients = {c1, c2}
    Topics = {"streams", "all"}
    SendBuffer = 2
SPECIFICATION FairHubSpec
INVARIANTS HubSafety
PROPERTIES DisconnectIsComplete EventsReachClients
CHECK_DEADLOCK FALSE
