\* keys come, go and come again, with the issuer they had or with one found since
SPECIFICATION Spec
CONSTANTS
    f1 = f1
    f2 = f2
    f3 = f3
    f4 = f4
    NoIssuer = NoIssuer
    Fpr <- MCFour
SYMMETRY Symmetry
INVARIANTS
    NothingIsLost
    TreeIsRight
    ViewFollows
PROPERTIES
    MovedRowsMatch
