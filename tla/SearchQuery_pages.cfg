SPECIFICATION Spec
CONSTANTS
    a = a
    b = b
    z = z
    p = p
    q = q
    r = r
    x = x
    work = work
    home = home
    inbox = inbox
    any = any
    no = no
    Undated = Undated
    Account = {a, b, z}
    Owned <- MCOwned
    Folder = {p, q, r, x}
    AccountOf <- MCAccountOf
    Message <- MCMessage
    Home <- MCHome
    Sent <- MCSent
    DayLength = 2
    Address <- MCAddress
    Name = {work, home}
    Needle = {inbox, any, no}
    Finds <- MCFinds
    Queries <- MCQueries
    Places <- MCPlaces
    PageSize = 1
    Overfetch = 2
    MaxFetch = 4
    MaxChanges = 2
INVARIANTS
    TypeOK
    HitsBelong
    RowsAnswer
    PagesPartition
CHECK_DEADLOCK FALSE
