CONSTANTS
    Letter = {32, 97, 224, 20013}
    MaxLetters = 3
    MAX_NAME = 7
SPECIFICATION NamesSpec
INVARIANTS
    NameComesThrough
CHECK_DEADLOCK FALSE
