SPECIFICATION Spec
CONSTANTS
    Numeral <- MCNumeral
    Names <- MCNames
    Payloads <- MCPayloads
    Libraries <- MCLibraries
    Rules <- MCRules
    MaxChanges = 1
INVARIANTS TypeOK  PlansAreSure ReviewReasoned
CHECK_DEADLOCK FALSE
