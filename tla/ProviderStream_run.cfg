CONSTANTS
    Scripts <- MCScripts
    Tools <- MCTools
    NameLimit = 8
    Channel = 2
    Cuts = {1, 3, 6}
SPECIFICATION StreamSpec
CHECK_DEADLOCK FALSE
INVARIANTS AnswerIsPrefix CallWhole
PROPERTIES RoundEnds
