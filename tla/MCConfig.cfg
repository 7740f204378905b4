\* The set-up and a refusal are the end of the reader: Stopped stutters.
CONSTANTS
    Declared <- MCDeclared
    Lines <- MCLines
    MaxLines = 4
    ListCapacity = 2
SPECIFICATION Spec
INVARIANTS AcceptedReads AbortsExplained SetupBuildsAsked
PROPERTY ParseEnds
