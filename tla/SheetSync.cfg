SPECIFICATION Spec
CONSTANTS
    Syncs = {p1, p2}
    Cells = {c1, c2}
    Values = {blank, a, b}
    Blank = blank
    NoEntry = none
    MaxTrouble = 2
SYMMETRY Symmetry
PROPERTIES ManualSurvives OwnWritesRecognised
