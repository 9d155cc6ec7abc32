SPECIFICATION RegistrySpec
CONSTANTS
    Session = {s1, s2, s3}
    Socket = {c1, c2, c3}
PROPERTY
    KeepsRelation
