CONSTANTS
    Conns = {1, 2}
    MaxStatements = 2
    MaxSends = 3
    None = None
SPECIFICATION Spec
PROPERTY RunsOnDisplayed
CHECK_DEADLOCK FALSE
