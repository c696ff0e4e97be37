CONSTANTS
    Units = {u1}
    Threads = {t1, t2}
    MaxStarts = 2
SPECIFICATION Spec
INVARIANTS TypeOK RemovedFileDisabled
