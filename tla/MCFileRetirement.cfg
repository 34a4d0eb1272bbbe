\* A file two rows share and an upload, changed by two sessions; the drain runs.
SPECIFICATION FairSpec
CONSTANTS
    p = p
    q = q
    r1 = r1
    r2 = r2
    r3 = r3
    Rows = {r1, r2, r3}
    Keys = {1, 2}
    Sessions = {s1, s2}
    NoSession = NoSession
    PersonOf <- MCPersonOf
    KeyPerson <- MCKeyPerson
    Uploads = {2}
    FirstPath <- SharedPath
INVARIANTS
    NoRetiredReference
    NoBytesForgotten
    NoLockCycle
PROPERTIES
    UnownedBytesGo
    ImplementsCustody
CHECK_DEADLOCK FALSE
