CONSTANTS
    Script <- MCScript
    Unswept <- MCUnswept
    Abandoned <- MCAbandoned
    NeverOff <- MCNeverOff
    Known <- MCKnown
SPECIFICATION RigSpec
INVARIANTS OwnReadings MeasuresARunningMachine EndsQuiet
CHECK_DEADLOCK FALSE
