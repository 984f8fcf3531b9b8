SPECIFICATION FairSpec
CONSTANTS
    SubConn = {s1, s2, s3}
    usrA = usrA
    usrB = usrB
    User <- MCOneUser
    NoUser = NoUser
    Hash <- MCOneHash
    Rpc = {r1}
    None = None
INVARIANTS
    TypeOK
PROPERTIES
    Rerouted
    Distributed
