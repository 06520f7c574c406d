SPECIFICATION Spec
CONSTANT Conn = {c1, c2}
INVARIANTS NothingAfterTheEnd NoSelfDeadlock NoneLeaks
CHECK_DEADLOCK FALSE
