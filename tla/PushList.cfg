CONSTANTS
    r1 = r1
    r2 = r2
    Recs = {r1, r2}
    NoRec = NoRec
    Order <- IdOrder
    PageSize = 1
    Queries = {q1}
    Options = {}
    Radios = {FALSE}
    MaxVer = 1
    MaxLists = 2
    MaxPosts = 1
SPECIFICATION Spec
INVARIANTS
    TypeOK
    IdNamesDialog
    AddStartsBlank
    TableIsFresh
