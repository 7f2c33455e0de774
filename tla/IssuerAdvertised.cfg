SPECIFICATION Spec
CONSTANTS
    Unset = Unset
    Malformed = Malformed
    Blank = Blank
    Parts = {"absent", "empty", "given"}
    a1 = a1
    a2 = a2
    NoAddr = NoAddr
    Addrs = {a1, a2}
    Conns = {c1}
    MaxJWKSKeys = 2
    Environments <- MCEnvironments
    Documents <- MCDocuments
INVARIANT AdvertisedIsServed
