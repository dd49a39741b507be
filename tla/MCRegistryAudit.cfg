SPECIFICATION HSpec
CONSTANTS
    s1 = s1
    s2 = s2
    Servers = {s1, s2}
    Rulesets <- MCRulesets
    Names = {"acme", "ACME"}
    ValidNames = {"acme"}
    Owners = {"robot/7", "robot/9"}
    Digests <- MCRulesets
    NameOf <- MCNameOf
    OwnerOf <- MCOwnerOf
    DigestOf <- MCDigestOf
    Bootstrap = Bootstrap
    MaxVersion = 3
SYMMETRY ServerSymmetry
INVARIANT ActiveIsAudited
