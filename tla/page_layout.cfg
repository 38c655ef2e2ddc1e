SPECIFICATION Spec
CONSTANTS
    PAGE_SIZE = 36
    Lengths = {0, 1, 3, 4, 5}
    MaxChanges = 5
INVARIANTS TypeOK ReadBack
