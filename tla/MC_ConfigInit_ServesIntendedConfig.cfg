SPECIFICATION SpecConfigInit
CONSTANTS
    DefKeys <- MCDefKeys
    IntKeys <- MCIntKeys
    OptKeys <- MCOptKeys
    FlagKeys <- MCFlagKeys
    Default <- MCDefault
    FileVal <- MCFileVal
    EnvVal <- MCEnvVal
    Numeral = "7200"
    NumeralVal = 7200
    Garbage = "2h"
INVARIANT ServesIntendedConfig
CHECK_DEADLOCK FALSE
