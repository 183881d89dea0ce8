SPECIFICATION RoleViewSpec
CONSTANTS
    People = {p, q}
    Gone = Gone
    MaxViewFailures = 1
    MaxMappers = 1
INVARIANT DeletesOnlySelected
CHECK_DEADLOCK FALSE
