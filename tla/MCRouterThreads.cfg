SPECIFICATION Spec
CONSTANTS
    Threads = {t1, m}
    Maintenance = {m}
INVARIANT
    NoCircularWait
