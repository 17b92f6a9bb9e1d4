CONSTANTS
    MaxSent = 4
    MaxFaults = 4
    MaxConns = 2
SPECIFICATION Spec
PROPERTIES
    ImplementsChannel
    BufferDrains
    Reconnects
