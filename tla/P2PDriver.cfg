\* Two devices compete; three messages fit the control socket, and two commands the
\* command connection. No symmetry: the temporal properties are checked too.
CONSTANTS
    NoDevice = NoDevice
    Devices = {d1, d2}
    QueueCap = 3
    MaxCommands = 2
    MAX_CONFIRM_MSGS = 2
    OUR_IP = "192.168.4.1"
    GROUP_IP = "192.168.4.1"
SPECIFICATION Spec
INVARIANTS
    SessionTornDown
    ServesNegotiatedDevice
    NoDisconnectLost
    AtMostOneLateCommand
    IInv
PROPERTIES
    FreshDisconnect
    ImplementsSession
    SocketFailureReopensSearch
    DisconnectReopensSearch
    CommandPortComesBack
