\* Three commands: a receiver follows another one that has not closed its port.
SPECIFICATION FairSpec
CONSTANTS
    MaxCommands = 3
    MaxMessages = 2
INVARIANTS TypeOK OneReceiver IdNamesConnection
PROPERTIES MulticastsAreLogged CommandsReturn
CHECK_DEADLOCK FALSE
