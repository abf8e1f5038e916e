SPECIFICATION FairSpec
CONSTANTS
    d1 = d1
    d2 = d2
    page = page
    j1 = j1
    j2 = j2
    Device = {d1, d2}
    Page = {page, j1, j2}
    Sealed = {}
    Journal = {j1, j2}
    Minted <- MCMinted
    Rank <- MCRank
    Absent = Absent
    MaxEdits = 2
    MaxRemoves = 1
    MaxFaults = 1
INVARIANTS
    NothingIsLost
    MarkersStayHome
    OneJournalADay
PROPERTY EventuallyInSync
CHECK_DEADLOCK FALSE
