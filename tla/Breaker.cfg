SPECIFICATION FairSpec
CONSTANTS
    Clients = {c1, c2, c3}
    Protocols = {"cache", "document", "publish"}
    FailureThreshold = 2
    Cooldown = 3
    OpMax = 2
INVARIANTS
    AtMostOneProbe
    CacheGateHasAHolder
PROPERTIES
    CacheRecoversAfterOutage
    CacheOutageIsThrottled
