CONSTANTS
    Replicas = {k1, k2}
    Queues = 2
    MaxCrashes = 2
    MaxOutages = 2
    MaxUndos = 1
SPECIFICATION FairSpec
INVARIANTS TypeOK ServesOnFullSchema SchemaIsRecorded ConsumersFindTheirQueues
PROPERTIES EveryReplicaIsReady
