CONSTANTS
    Managed = {v1, v2}
    Foreign = Foreign
    None = None
    MaxCalls = 4
    MaxFaults = 6
SPECIFICATION Spec
PROPERTIES
    ReportIsTrue
    ReplacedOnlyWhenGone
CHECK_DEADLOCK FALSE
