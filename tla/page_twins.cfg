SPECIFICATION Spec
CONSTANTS
    Order <- MCOrder
    Look <- TwinsLook
    MaxChars = 40
    None = None
    Acts = {a1}
    Fillable = {"field"}
    Reads <- MCReads
    Starts <- MCStarts
    MaxChanges = 2
PROPERTIES RerenderKeepsEveryControl
