SPECIFICATION MCSpec
CONSTANTS
    app = app
    lib = lib
    talk = talk
    None = None
    Repos = {app, lib}
    Convs = {talk}
    HomeOf <- MCHomeOf
    MaxTurns = 2
    MaxTwists = 1
    MaxMishaps = 1
INVARIANTS TypeOK OwnTurnsStay HandedOverIsClaimed NothingLeftUnseen
ACTION_CONSTRAINT MCApart
CHECK_DEADLOCK FALSE
