CONSTANTS
    Messages <- NoRequestMessages
    Requests = {r1}
    Attempts = {a1}
    Handlers = {h1, h2}
    MaxFaults = 1
    Zips = {z1, z2}
    MalformedIds = {notAUuid}
    None = None
    Nobody = Nobody
    r1 = r1
    r2 = r2
    a1 = a1
    a2 = a2
    z1 = z1
    z2 = z2
    notAUuid = notAUuid
    unknownId = unknownId
SPECIFICATION FairSpec
PROPERTIES NoRequestIsDeadLettered
