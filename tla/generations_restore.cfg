\* A restore takes the number of the generation under construction.
SPECIFICATION GenSpec
CONSTANTS
    m1 = m1
    m2 = m2
    Nothing = Nothing
    Mems = {m1, m2}
    MaxGens = 3
    MaxRevs = 2
    Confidences = {1}
    MaxWrites = 3
    MaxRestores = 1
SYMMETRY Symmetric
INVARIANTS NoRowOfReplacedStore
CHECK_DEADLOCK FALSE
