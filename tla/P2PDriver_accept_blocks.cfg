\* One device: the handler waiting in accept() when the flag falls.
CONSTANTS
    NoDevice = NoDevice
    Devices = {d1}
    QueueCap = 2
    MaxCommands = 1
    MAX_CONFIRM_MSGS = 2
    OUR_IP = "192.168.4.1"
    GROUP_IP = "192.168.4.1"
SPECIFICATION Spec
PROPERTY HandlerFinishesWhenFlagFalls
