SPECIFICATION Spec
CONSTANTS
    Thread = {t1, t2}
    Provider = {a, b}
    Entry = {e}
    Preset = {p1, p2}
    Name = {n}
    NoThread = NoThread
    NoCall = NoCall
    Absent = Absent
SYMMETRY Symmetry
INVARIANTS TypeOK RecordedIsApplied UpIsRecorded HistoryIsDurable OneDefault
PROPERTIES AllOrNothing NoNamesakes
