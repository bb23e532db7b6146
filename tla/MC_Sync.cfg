SPECIFICATION MCSpec
CONSTANTS
    Harts = {h1, h2, h3, h4}
    Values = {v1, v2}
    Uninit = uninit
    NoHart = noHart
    One = {h1}
    Three = {h1, h2, h3}
    MaxCalls = 2
CHECK_DEADLOCK FALSE
INVARIANTS
    NoUninitialisedUse
    Exclusion
    NoFalseAlarm
    GuardsExclude
PROPERTIES
    RelockDetected
    EveryoneGetsIn
