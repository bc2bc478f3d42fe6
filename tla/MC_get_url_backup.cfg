\* get_url with backup: yes on a host whose dest file is out of date.
CONSTANTS
    A = A
    B = B
    Contents = {A, B}
    Checksums = {""}
    Backups = {TRUE}
    UnsafeWrites = {FALSE}
    TmpDests = {""}
    Renames = {"none"}
SPECIFICATION Spec
INVARIANTS
    BackupHoldsOldContent
