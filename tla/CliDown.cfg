\* --down against a program that waits for signals.
CONSTANTS
    main = main
    Hosts = {main}
    InitialCap = 8
    MaxOpens = 1
SPECIFICATION Spec
PROPERTIES DownStops
CHECK_DEADLOCK FALSE
