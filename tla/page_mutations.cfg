SPECIFICATION Spec
CONSTANTS
    src = src
    dst = dst
    ref = ref
    a = a
    r = r
    Task = {t1, t2}
    Path = {src, dst, ref}
    Home <- MCHome
    Folder = {ref}
    FirstPage = {a, r}
    FirstFiles <- MCFiles
    Nothing = Nothing
    MaxWork = 3
    MaxSaves = 2
    MaxAttempts = 2
INVARIANTS
    OneFilePerPage
    IndexFollowsFiles
    RefusedIsNotApplied
PROPERTIES
    NoLostUpdate
    ReadsFindThePage
CHECK_DEADLOCK FALSE
SYMMETRY Symmetry
VIEW MCView
