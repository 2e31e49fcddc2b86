\* Three tenants of which two are tracked, one flag, six configs of which two are refused.
CONSTANTS
    Tenants = {t1, t2, t3}
    Flags = {f1}
    Unit = 4
    Confidence = 1
    Configs <- MCConfigs
    Default <- MCDefault
SPECIFICATION MSpec
SYMMETRY Symmetry
INVARIANTS
    MetricsInv
    CountsMatchBuffer
    TotalFailureAlarms
PROPERTY AlarmsOutliveEviction
