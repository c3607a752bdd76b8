SPECIFICATION Spec
CONSTANTS
    Request = {r1, r2}
    Sources = {s1, s2}
    None = None
PROPERTY DeadlineIsOverall
