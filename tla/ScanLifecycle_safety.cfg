SPECIFICATION Spec
CONSTANTS
    l1 = l1  l2 = l2  a = a  b = b  c = c
    None = None
    Libs = {l1}
    Folders = {a, b}
    LibOf <- OneLibrary
    Requests <- AllRequests
    MaxRequests = 1
    MaxEdits = 1
    MaxCrashes = 1
    MaxFaults = 1
SYMMETRY FolderSymmetry
 
PROPERTY CompletedScanIsCurrent
