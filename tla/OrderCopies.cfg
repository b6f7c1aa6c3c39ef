SPECIFICATION Spec
CONSTANTS
    c1 = c1
    Customer = {c1}
    DishesOf <- TwoMenus
    Stocks = {1}
    NoMenu = NoMenu
    None = None
    MaxChanges = 2
    MaxOrders = 0
INVARIANT CopiesAgree
CHECK_DEADLOCK FALSE
