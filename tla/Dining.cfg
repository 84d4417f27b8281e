CONSTANTS
    N = 5
    SERVINGS = 4
    Free = Free
SPECIFICATION Spec
INVARIANTS TypeOK AssertionsHold NoDeadlock MealsAddUp
PROPERTIES DinnerEnds
