\* Four populations, pages of two, batches of three, searches of eight hits.
SPECIFICATION FairSpec
CONSTANTS
    a1 = a1
    a2 = a2
    a3 = a3
    a4 = a4
    a5 = a5
    a6 = a6
    a7 = a7
    a8 = a8
    a9 = a9
    g1 = g1
    e1 = e1
    e2 = e2
    s1 = s1
    t1 = t1
    ts = ts
    Populations <- MCPopulations
    TypeOf <- MCTypeOf
    System = {ts}
    PageSize = 2
    MaxThreads = 3
    Window = 8
    Faulty <- MCFaulty
INVARIANTS
    TypeOK NothingDangles LeftForAReason
PROPERTY
    EndsIfPagesFit
CHECK_DEADLOCK FALSE
