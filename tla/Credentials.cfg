\* Two declarations on one reference; two calls and a first clone; two secrets.
CONSTANTS
    Declarations = {d1, d2}
    c1 = c1
    c2 = c2
    c3 = c3
    Calls <- AllCalls
    Clones <- FirstClones
    Quiet <- AllQuiet
    MaxClock = 3
    MaxSecrets = 2
    MaxFails = 1
    NoDeclaration = NoDeclaration
SYMMETRY Symmetry
SPECIFICATION CredentialsSpec
INVARIANT BlocksAreDeserved
PROPERTY RefusedStaysRefused
