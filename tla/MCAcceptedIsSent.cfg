SPECIFICATION FairConnectionSpec
CONSTANTS
    Io = "io"
    Senders = {"heartbeat"}
    MaxMessages = 3
PROPERTY
    AcceptedIsSent
CHECK_DEADLOCK FALSE
