SPECIFICATION Spec
CONSTANTS
    c1 = c1
    Customer = {c1}
    DishesOf <- TwoMenus
    Stocks = {1}
    NoMenu = NoMenu
    None = None
    MaxChanges = 2
    MaxOrders = 1
INVARIANT CustomersSeeTheirDishes
INVARIANT MessagesComeInTurn
PROPERTY FailureLeadsToTakeover
CHECK_DEADLOCK FALSE
