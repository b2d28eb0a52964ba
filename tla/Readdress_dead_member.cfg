SPECIFICATION Spec
CONSTANTS
    Run = {r1, r2}
    a = a
    b = b
    c = c
    Place = {a, b, c}
    HomeOf <- MCHomeOf
    Object = {1, 2, 3, 4}
    Catalogues <- MCCatalogues
    Moves <- MCMoves
    MaxEvent = 3
INVARIANT MembersKeepTheirChains
CHECK_DEADLOCK FALSE
