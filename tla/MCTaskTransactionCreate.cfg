SPECIFICATION Spec
CONSTANTS
    Proc = {p1}
    NewTaskWorkers = {p1}
    OrphansSurvive = FALSE
    Dest = {manifest, text}
    Manifest = manifest
    Content = {c1, c2}
    Tx = {t1}
    Absent = absent
    Keep = keep
    Unread = unread
    NoProc = noproc
    NoTx = notx
    NoJournal = nojournal
SYMMETRY Symmetry
PROPERTY RefinesAtomicRevision
