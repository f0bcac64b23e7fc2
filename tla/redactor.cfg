\* The literal redactor, with one literal inside another.
SPECIFICATION Spec
CONSTANTS
    a = a
    b = b
    c = c
    d = d
    Chars = {a, b, c, d}
    Mark = Mark
    Literals <- Nested
    MaxText = 6
INVARIANT LiteralsRemoved
CHECK_DEADLOCK FALSE
