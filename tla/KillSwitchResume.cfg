SPECIFICATION Spec
CONSTANTS
    t1 = t1
    t2 = t2
    t3 = t3
    A = A
    Triggers = {t1, t2, t3}
    Exchanges = {A}
    MaxClears = 1
PROPERTY
    ResumeNeedsBoth
