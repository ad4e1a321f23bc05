CONSTANTS
    a = a
    b = b
    r = r
    q = q
    old = old
    older = older
    new = new
    newer = newer
    Installers = {a}
    Restorers = {r, q}
    Binary <- Puts
    Inodes = {i1, i2, i3, i4}
    First = old
    RollbackTmp = rollbackTmp
    Nothing = Nothing
SYMMETRY Symmetry
SPECIFICATION ReplaceSpec
INVARIANTS InstalledWhole
