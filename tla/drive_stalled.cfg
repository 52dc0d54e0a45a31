\* A batch of failing jobs at the head of the order.
SPECIFICATION DriveFairSpec
CONSTANTS
    N = 3
    Failing = {1, 2, 3}
    Cap = 2
    MaxWrites = 3
    MaxAborts = 0
PROPERTIES TextIsIndexed
CHECK_DEADLOCK FALSE
