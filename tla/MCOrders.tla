------------------------------ MODULE MCOrders ------------------------------
EXTENDS OrderProperties

CONSTANT c1

TwoMenus == [p \in Name |-> IF p = "A" THEN {"duck"} ELSE {"soup"}]

=============================================================================
