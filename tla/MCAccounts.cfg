SPECIFICATION Spec
CONSTANTS
    Slots = {s1, s2, s3}
    Tokens = {t1, t2, t3, t4}
    Nil = Nil
    MaxFailed = 2
    MaxLapses = 2
SYMMETRY Symmetry
INVARIANTS AccountsTypeOK OneTokenPerSession LogoutEnds GuessesBounded
