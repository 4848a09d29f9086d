\* The debit is made on another connection, as in the code.
SPECIFICATION Spec
CONSTANTS
    Requests = {r1, r2}
    NoRequest = NoRequest
    Users = {u1, u2}
    Properties = {p1}
    Keys = {k1}
    NoKey = NoKey
    Slots <- MCSlots
    Units = 2
    Price = 1
    Minimum = 1
    MaxMain = 2
    MaxLost = 1
    DebitWays = {"outside"}
PROPERTIES
    Answered
