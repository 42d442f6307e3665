SPECIFICATION DbSpec
CONSTANTS
    Threads = {t1, t2}
    Nobody = nobody
    NUM_FRAMES = 2
    Lbas = {0, 1, 2}
    WAL_BASE = 10
    Forgetful = {t1, t2}
    MaxWrites = 2
    MaxLog = 2
    PageWords = 22
    Rids = {0, 7}
    Hashes = {0, 9}
    Payloads = {1, 2}
    MaxInserts = 4
SYMMETRY Symmetry
INVARIANTS
    PagesAsWritten
    Durable
    SearchFindsInserted
PROPERTY
    LogBeforePage
CHECK_DEADLOCK FALSE
