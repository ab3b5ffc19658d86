CONSTANTS
    Requests <- MCRequests
    PlaybackRequests <- MCPlaybackRequests
    PlaybackCaps <- MCPlaybackCaps
    Formats <- MCFormats
    Products <- MCProducts
    Pools <- MCPools
SPECIFICATION DecisionsSpec
INVARIANTS PictureSound BestTargets EndpointsAgree 
PROPERTIES RulesSettle
CHECK_DEADLOCK FALSE
