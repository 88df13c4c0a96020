SPECIFICATION LiveSpec
CONSTANTS
    a1 = a1
    h1 = h1
    h2 = h2
    h3 = h3
    noCall = noCall
    Account = {a1}
    Handler = {h1, h2}
    NoCall = noCall
    Kind = {"call"}
    MaxDuration = 0
PROPERTIES
    ImplementsManager
    HangupEnds
