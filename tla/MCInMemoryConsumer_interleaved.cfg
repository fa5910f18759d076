CONSTANTS
    Messages <- AttemptMessages
    Requests = {r1}
    Attempts = {a1, a2}
    Handlers = {h1, h2}
    Zips = {z1}
    MalformedIds = {}
    None = None
    Nobody = Nobody
    r1 = r1
    a1 = a1
    z1 = z1
SPECIFICATION Spec
SYMMETRY HandlerSymmetry
INVARIANT SettledOutboxTellsTheRequest
