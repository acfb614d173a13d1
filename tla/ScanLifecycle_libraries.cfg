SPECIFICATION FairSpec
CONSTANTS
    l1 = l1  l2 = l2  a = a  b = b  c = c
    None = None
    Libs = {l1, l2}
    Folders = {a, c}
    LibOf <- TwoLibraries
    Requests <- OtherLibrary
    MaxRequests = 1
    MaxEdits = 0
    MaxCrashes = 1
    MaxFaults = 1
PROPERTY InterruptedScanCompletes
