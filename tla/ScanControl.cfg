SPECIFICATION FairSpec
CONSTANTS
    Maintenance = Maintenance
    NoOne = NoOne
    Callers = {u, w}
    Libs = {l1, l2}
    Requests <- AnyScan
    Day = 1
    MaxScans = 2
    MaxFaults = 1
    MaxCrashes = 1
 
PROPERTIES ImplementsScanLock ScanAndAnalysisEnd
