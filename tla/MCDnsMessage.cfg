CONSTANTS
    Parsers = {"records", "services"}
    Lengths <- MCLengths
    Counts = {0, 1, 9}
    RdLengths = {0, 1, 5, 65535}
    TxtLengths = {0, 1, 3, 255}
SPECIFICATION Spec
INVARIANTS NoOverread BoundedWork
CHECK_DEADLOCK FALSE
