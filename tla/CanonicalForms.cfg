SPECIFICATION Spec
CONSTANTS
    a = a
    b = b
    nan = nan
    socket = socket
    NonFinite = {nan}
    Foreign = {socket}
    Object <- Objects
INVARIANTS
    OneTextPerValue
    CallerHashesTheSame
