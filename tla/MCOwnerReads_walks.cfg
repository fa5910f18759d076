CONSTANTS
    Ids = {1, 2, 3}
    Owners = {o1, o2}
    Times = {1, 2}
    Attempts = {a1}
    Zips = {z1, z2}
    None = None
    Text = Text
    RawSizes <- AllRawSizes
    DefaultPageSize = 2
    MaxPageSize = 2
    MaxMoves = 2
SPECIFICATION Spec
SYMMETRY OwnerSymmetry
INVARIANTS TypeOK WalkShowsWhatWasStored RepeatsAreInserts OwnersSeeTheirOwn
PROPERTY AnswersNeverGoBack
