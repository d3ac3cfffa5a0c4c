\* Four releases, two system types, two faults and two deployments; clients
\* post and delete repeating events, two handlers count while GetStats copies.
SPECIFICATION FairSpec
CONSTANTS
    Aliases <- MCAliases
    Releases = {"r1", "r2", "r3", "r4"}
    IndexName <- MCIndexName
    Schema <- MCSchema
    SystemTypes <- MCSystemTypes
    Counters = {"NumEventTypes"}
    Workers = {w1, w2}
    MaxIncrements = 2
    MaxFaults = 2
    MaxDeploys = 2
    MaxCrons = 1
    None = None
INVARIANTS
    TypeOK ServesOwnIndices SystemTypesComplete CountsBounded
PROPERTY
    Converges
