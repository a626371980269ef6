SPECIFICATION RingSpec
CONSTANTS
    Readers = {r1}
    SlotCount = 2
    Words = {w1, w2}
    Retries = 2
    MaxFrame = 4
    MaxRestarts = 1
SYMMETRY WordSymmetry
INVARIANTS
    ImageIsWhole
    ImageNotOlder
