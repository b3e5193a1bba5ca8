SPECIFICATION BindingSpec
CONSTANT MaxListed = 2
INVARIANTS NothingDangles AllOrNothing
\* A driver that is lost in the list of a device that is not there stops.
CHECK_DEADLOCK FALSE
