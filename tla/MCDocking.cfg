CONSTANTS
    Programs = {a, b, c}
    NoTag = NoTag
    MESSAGE_RESEND_TIME = 2
    Destructible = {c}
SPECIFICATION FairSpec
INVARIANTS PortsAgree ConfirmIsFresh
PROPERTIES LinksKept HandshakeEnds
