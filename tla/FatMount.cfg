SPECIFICATION FairSpec
CONSTANTS
    Threads = {t1, t2}
    Names = {sd, usb}
    Handles = {h1, h2, h3}
    Partitions = {p1, p2}
    STD_MAX = 5
    None = None
INVARIANTS OpenListExact UnmountSavesChanges
PROPERTY CallsReturn
