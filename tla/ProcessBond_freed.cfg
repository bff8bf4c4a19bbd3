SPECIFICATION BondSpec
CONSTANTS
    Main = Main
    None = None
    Procs = {Main, p1, p2}
    MaxLoad = 2
    PageFails = {}
INVARIANTS
    BondOutlivesItsUsers
CHECK_DEADLOCK FALSE
