SPECIFICATION Spec
CONSTANTS
    Numeral <- MCNumeral
    Names <- MCNames
    Payloads <- MCPayloads
    Libraries <- MCLibraries
    Rules <- MCRules
    MaxChanges = 1
INVARIANT EpisodeSurvives
CHECK_DEADLOCK FALSE
