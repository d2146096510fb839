SPECIFICATION RingSpec
CONSTANTS
    Capacity = 3
    Value = {0, 1, 2}
PROPERTY FifoRefined
