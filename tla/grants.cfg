SPECIFICATION Spec
CONSTANTS
    Origins = {s1, local}
    Required = {local}
    WorkerOps = {w}
    PopupOps = {p}
    OptionsOps = {o}
    Inherited <- MCInherited
    None = None
    Never = Never
    Idle = 2
    Choices <- MCChoices
    MaxTime = 2
    MaxClicks = 2
INVARIANTS TypeOK GrantsAndPermissionsAgree ListKeepsTheUsersWish
CHECK_DEADLOCK FALSE
