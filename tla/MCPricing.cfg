CONSTANTS
    None = None
    DayLength = 6
    Cent = 10
    Offset <- MCOffset
    Sessions <- MCSessions
    Periods <- MCPeriods
    MaxLength = 2
    MaxPeriods = 3
SPECIFICATION Spec
INVARIANTS BilledAsMetered SpansMeansChange TaxesAccount WithinLimits DoubtsAreNoted LintKeepsWord
CHECK_DEADLOCK FALSE
