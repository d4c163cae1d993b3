CONSTANTS
    Blueprints <- AllBlueprints
    Resources = {r1, r2}
    Names = {shop}
    Places = {home, away}
    Home = home
    Nobody = nobody
    Outside = outside
SYMMETRY Anonymous
SPECIFICATION Spec
CHECK_DEADLOCK FALSE
INVARIANTS TypeOK NothingIsLost SuccessIsDeletable
PROPERTIES NoImportedTwin GoneIsGone 
