SPECIFICATION Spec
CONSTANTS
    a = a  b = b  def = def  l1 = l1  l2 = l2  bad = bad  url = url
    Groups = {a, b, def}
    Default = def
    Links = {l1, l2, bad}
    Bad = {bad}
    URLs = {url}
    None = none
    Torn = torn
    Stores <- MCStores
    Fetches <- MCFetches
    Outcomes <- MCOutcomes
    MaxLinks = 3
    MaxCmds = 2
INVARIANTS
    TypeOK
    ActiveIsRunning
PROPERTIES
    StartsWhatWasChosen
    ImplementsBook
