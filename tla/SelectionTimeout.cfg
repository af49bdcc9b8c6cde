SPECIFICATION Spec
CONSTANTS
  Window = {here, there}
  Gone = gone
  MaxChanges = 2
  here = here
  there = there
  gone = gone
CHECK_DEADLOCK FALSE
INVARIANT TimeoutIsDistinct
