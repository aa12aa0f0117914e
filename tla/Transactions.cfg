CONSTANTS
    q1 = q1
    q2 = q2
    q3 = q3
    t1 = t1
    p1 = p1
    food = food
    salary = salary
    None = None
    Requests = {q1, q2, q3}
    Stored = {t1}
    StoredTemplates = {p1}
    Categories = {food, salary}
    TypeOf <- MCTypeOf
    MaxCopies = 2
    MaxFailures = 1
    Mixes <- MCMixes
SPECIFICATION Spec
SYMMETRY MCSymmetry
INVARIANTS TypeOK CategoryFits UsesCounted ImportAccounted DiscardStands
PROPERTIES DeletedUntouched RemovedMappingStays
CHECK_DEADLOCK FALSE
