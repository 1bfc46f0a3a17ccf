CONSTANTS
    o1 = o1
    o2 = o2
    h1 = h1
    h2 = h2
    h3 = h3
    Owners <- TwoOwners
    Nil = Nil
    Beats <- ThreeBeats
    MaxAttempt = 2
SPECIFICATION LiveSpec
INVARIANTS
    TypeOK
    SoleHeartbeat
    KeepaliveCovered
    HeartbeatSparesReplacement
PROPERTIES
    KeepaliveLives
