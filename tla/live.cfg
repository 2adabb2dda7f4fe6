SPECIFICATION Spec
CONSTANTS
    Owners = {w1,w2}
    Second = w2
    Orders = {o1}
    Requests = {c1,c2}
    Keys = {"k1"}
    Reviews = {"record_demo_validation"}
    MaxAge = 0
CONSTRAINT FewAtOnce
VIEW Compared
CHECK_DEADLOCK FALSE
INVARIANTS OnlyPermittedOrdersLeave
PROPERTIES ImplementsPermission
