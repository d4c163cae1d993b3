CONSTANTS
    Blueprints <- DnsBlueprints
    Resources = {r1, r2}
    Names = {shop, mail}
    Places = {home}
    Home = home
    Nobody = nobody
    Outside = outside
SYMMETRY Anonymous
SPECIFICATION Spec
CHECK_DEADLOCK FALSE
PROPERTY RemovesTheRecorded
