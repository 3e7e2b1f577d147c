SPECIFICATION MCSpec
CONSTANTS
    Bytes <- MCBytes
    MaxBytes = 15
    Lengths <- MCLengths
    Alphabet <- MCAlphabet
    MaxLen = 4
INVARIANTS
    AcceptedIsCanonical
    BuiltIsAccepted
    Utf8Exact
PROPERTIES
    VerdictIsStable
