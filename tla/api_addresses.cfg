\* Subnets around the ends of the loop, with every choice of free boundary addresses.
SPECIFICATION Spec
CONSTANTS
    None = None
    Bases = {1, 129}
    Prefixes = {8, 24, 25, 26, 28, 30, 31, 32}
    Holes = {2, 3, 127, 128, 253}
INVARIANTS
    TypeOK
    FindsLowestFree
