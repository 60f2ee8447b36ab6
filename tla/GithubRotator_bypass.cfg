SPECIFICATION Spec
CONSTANTS
    N = 3
    TokenLife = 2
    ExpiryMargin = 0
    LimitWindow = 1
    MaxNow = 2
    Nil = Nil
PROPERTIES
    BypassesOnlyRefused
