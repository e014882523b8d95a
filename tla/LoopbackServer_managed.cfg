SPECIFICATION Spec
CONSTANTS
    Requests = {r1}
    Plans <- MCPlans
    Asked <- MCManaged
    None = None
PROPERTY RecordedCanBeChanged
