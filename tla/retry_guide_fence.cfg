\* A guide mutation that a restore overtakes.
SPECIFICATION FairSpec
CONSTANTS
    k1 = k1
    k2 = k2
    NoCall = NoCall
    Calls = {k1}
    Guides = {k1}
    MaxGen = 2
    MaxEpoch = 3
    MaxFaults = 2
    MaxRefusals = 1
    MaxActivations = 0
    MaxRestores = 1
INVARIANTS GenerationFence
CHECK_DEADLOCK FALSE
