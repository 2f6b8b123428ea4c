SPECIFICATION HashSpec
CONSTANTS
    LayerLengths = {16, 64, 128, 2500, 4998, 5000, 5001, 5006, 10000}
    Processors = {1, 2, 8, 16, 32, 64}
INVARIANT GoHashTreeEquivalence
CHECK_DEADLOCK FALSE
