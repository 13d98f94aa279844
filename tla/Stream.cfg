\* Two chunks from the publisher, both directions closed.
CONSTANTS
    con = con  pub = pub
    Consumer = con
    Publisher = pub
    Writers = {pub}
    MaxData = 2
    MaxWaitSend = 2
    MaxLoss = 1
SPECIFICATION Spec
INVARIANTS NoTruncation DoneComplete
PROPERTIES BothEnd
CHECK_DEADLOCK FALSE
