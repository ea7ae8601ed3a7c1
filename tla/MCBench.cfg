SPECIFICATION BenchSpec
CONSTANTS
    CaseIds <- MCCaseIds
    GroupOf <- MCGroupOf
    NoGroup = "none"
    Jobs <- MCJobs
    Hosts = {h1, h2}
    NoHost = NoHost
    Pairs = 2
    Rebuilt = "b"
    MaxLaunches = 2
    MaxUpsets = 1
    ResultOf <- MCResultOf
SYMMETRY HostsAlike
INVARIANTS
    ArmsRunFirstEqually
    RowsComplete
    ReportsCompareLike
CHECK_DEADLOCK FALSE
