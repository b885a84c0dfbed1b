\* A Vds sweep, a gate scan, a co-sweep map and a B-field gate scan.
SPECIFICATION Spec
CONSTANTS
    PlainTabs = {dual, scan}
    MapTabs = {cosweep}
    SeriesTabs = {bfield}
    EarlyTabs = {dual, cosweep}
    NoTab = NoTab
    MaxRuns = 3
    MaxJobs = 2
    MaxOther = 2
INVARIANTS HoldsItsDevices RecordHonest
