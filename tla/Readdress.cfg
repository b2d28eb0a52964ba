SPECIFICATION FairSpec
CONSTANTS
    Run = {r1, r2}
    a = a
    b = b
    c = c
    Place = {a, b, c}
    HomeOf <- MCHomeOf
    Object = {1, 2, 3, 4}
    Catalogues <- MCCatalogues
    Moves <- MCMoves
    MaxEvent = 3
INVARIANTS
    TypeOK
    ToldIsTrue
PROPERTIES
    MovesAreWhole
    TablesKeepTheLedger
    EveryMoveEnds
CHECK_DEADLOCK FALSE
