SPECIFICATION Spec
CONSTANTS
    Proc = {p1, p2}
    NewTaskWorkers = {}
    OrphansSurvive = FALSE
    Dest = {manifest, text}
    Manifest = manifest
    Content = {c1, c2}
    Tx = {t1}
    Absent = absent
    Keep = keep
    Unread = unread
    NoProc = noproc
    NoTx = notx
    NoJournal = nojournal
SYMMETRY Symmetry
INVARIANTS
    TypeOK
    PreparedIsRecoverable
    ReadersSeeOneRevision
    SuccessStands
PROPERTY RefinesAtomicRevision
