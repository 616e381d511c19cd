SPECIFICATION BillingSpec
CONSTANTS
    k1 = k1
    k2 = k2
    w1 = w1
    w2 = w2
    Workspace = {w1, w2}
    Checkout = {k1, k2}
    Price = {"pro", "other"}
    Levers <- OneLever
    Orders = {TRUE, FALSE}
    MaxCustomers = 2
    MaxEvents = 7
    MaxReordered = 4
    MaxHandlers = 2
SYMMETRY Symmetric
INVARIANTS
    RowsKept
    
    PayerIsMetered
CHECK_DEADLOCK FALSE
