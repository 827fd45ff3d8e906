CONSTANTS
    alice = alice
    bob = bob
    secret = secret
    Credentials <- MCCredentials
    BadLine = BadLine
    NoFile = NoFile
    FixedAuthorizations = {}
    HasAuthFile = TRUE
    TargetLines <- MCTargetLines
    Addr <- MCAddr
    FixedTargetLines = {"a:443"}
    HasTargetFile = TRUE
    MaxWrites = 3
SPECIFICATION AuthSpec
INVARIANTS AuthTypeOK OneWholeVersion
PROPERTIES ReloadTakesEffect TargetsTakeEffect
