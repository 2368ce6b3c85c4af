SPECIFICATION Spec
CONSTANTS
    R1 = R1
    R2 = R2
    EditedLines = {1}
INVARIANTS
    TypeOK
    RowsAgree
    TotalMatchesItems
    AnswersAreTrue
    GrantsAreBounded
