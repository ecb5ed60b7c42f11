SPECIFICATION Spec
CONSTANTS
    users = users
    orders = orders
    items = items
    id = id
    name = name
    secret = secret
    Tables = {users, orders, items}
    Columns = {id, name, secret}
    Denied = {secret}
    Shapes <- ShopShapes
    Requests <- ShopRequests
    MaxChanges = 2
    MaxRefresh = 2
INVARIANTS
    PlansAreJudged
    AnswersFitOneVersion
    KeysAreLinked
    PathsAreShortest
PROPERTY
    RefreshIsExact
CHECK_DEADLOCK FALSE
