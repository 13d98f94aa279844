\* One service of the program, with signals and --down at every point; three
\* services of an embedding host.
CONSTANTS
    main = main
    Hosts = {main}
    InitialCap = 8
    MaxOpens = 3
SPECIFICATION Spec
INVARIANTS ContextOwned StatusTrue ExitTells CleanExit
PROPERTIES Ends
CHECK_DEADLOCK FALSE
