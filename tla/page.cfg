SPECIFICATION Spec
CONSTANTS
    Order <- MCOrder
    Look <- MCLook
    MaxChars = 6
    None = None
    Acts = {a1}
    Fillable = {"field"}
    Reads <- MCReads
    Starts <- MCStarts
    MaxChanges = 2
INVARIANTS TypeOK PagingEnds PagingShowsEveryLine PagingRepeatsNoLine
PROPERTIES ActsOnTheNamedControl RerenderKeepsTheControl NumbersKeepTheirNode
