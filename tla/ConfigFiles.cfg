\* What saves make of the two configuration files.
SPECIFICATION MCSpec
CONSTANTS
    Users = {u1, u2}
    Passwords = {p1}
    Ssids = {s1, s2}
    Passphrases = {k1}
    RawKeys = {r1}
    Cut = Cut
    Blank = Blank
    Omitted = Omitted
    Unknown = Unknown
    MaxOdd = 1
SYMMETRY Symmetry
INVARIANT SecretFollowsUser
PROPERTY SavedIsRead
