SPECIFICATION Spec
CONSTANTS
    m1 = m1
    m2 = m2
    Macs = {m1, m2}
    Items <- MCItems
    Slots = {1, 2}
    MaxChanges = 1
    MaxFailures = 1
INVARIANTS
    TableShowsItems
    MessagesAreTrue
PROPERTIES
    BecomesCurrent
