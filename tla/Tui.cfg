SPECIFICATION FairSpec
CONSTANTS
    a = a  def = def  z = z  l1 = l1  l2 = l2  bad = bad
    Names <- MCNames
    Default = def
    Links = {l1, l2, bad}
    Bad = {bad}
    Added = l1
    Typed = {def, z}
    Latencies = {1, 2}
    Profiles <- MCProfiles
    Fetched <- MCFetched
    None = none
    MaxLinks = 3
    MaxStarts = 2
    MaxKeys = 8
CHECK_DEADLOCK FALSE
INVARIANTS
    TypeOK
    GroupIndexValid
    WaitsForAJob
PROPERTIES
    ShownGroupKept
    EnterNamesHighlighted
    WorkEnds
