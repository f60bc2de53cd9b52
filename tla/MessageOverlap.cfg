SPECIFICATION MsgSpec
CONSTANTS
    Tasks = {t1, t2, t3}
    Msgs = {m1, m2, m3}
    Slots = 2
    None = None
\* Processes may all wait for each other: the kernel then idles.
CHECK_DEADLOCK FALSE
INVARIANTS
    BytesOfMessage
