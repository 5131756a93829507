SPECIFICATION Spec
CONSTANTS
    Proc = {p1, p2}
    NewTaskWorkers = {p1}
    OrphansSurvive = FALSE
    Dest = {manifest, text}
    Manifest = manifest
    Content = {c1}
    Tx = {t1, t2}
    Absent = absent
    Keep = keep
    Unread = unread
    NoProc = noproc
    NoTx = notx
    NoJournal = nojournal
INVARIANT SuccessStands
