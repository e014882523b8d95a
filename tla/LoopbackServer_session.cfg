SPECIFICATION Spec
CONSTANTS
    Requests = {r1, r2}
    Plans <- MCPlans
    Asked <- MCAsked
    None = None
INVARIANTS TypeOK StaleReadinessIsHarmless
PROPERTIES OnlyVerifiedIsUsed
VIEW Observable
SYMMETRY Symmetry
