\* The files of both daemons over saves, restarts, failing writes and cuts.
SPECIFICATION Spec
CONSTANTS
    Names = {a, b}
    OnlySpace = OnlySpace
    Nobody = Nobody
    MaxObserved = 2
    Sounds = {default, custom}
    UnsafeNames = {other}
    DefaultSound = default
    Recordings = {w1, w2}
    Factory = w1
    Missing = Missing
    Torn = Torn
    NoName = NoName
    Pairs = {1, 2, 3}
    Absent = Absent
    Short = Short
INVARIANTS TopicsAgree SelectionHonest
PROPERTIES TopicsOnlyEvicted TornOnlyByCut ServesUnlessDamaged
