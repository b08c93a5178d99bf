CONSTANTS
    a = a
    b = b
    Blank = Blank
    Cols = 2
    LineLength = 3
    Texts <- MCTexts
SPECIFICATION Spec
INVARIANTS TypeOK ErrorsLastOneView
PROPERTY SetUpSurvivesLosses
