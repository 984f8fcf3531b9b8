SPECIFICATION Spec
CONSTANTS
    SubConn = {s1, s2}
    usrA = usrA
    usrB = usrB
    User <- MCUser
    NoUser = NoUser
    Hash <- MCHash
    Rpc = {r1}
    None = None
PROPERTIES
    SameServer
