CONSTANTS
    Keys = {1, 2, 3}
    Cards <- MCCards
    Conditions <- MCConditions
    Undeclared = Undeclared
    None = None
    IntMax = 2147483647
SPECIFICATION Spec
INVARIANTS TypeOK BestSoFar DominatedIsNotSelected TemplateFitsItsAlgorithm
CHECK_DEADLOCK FALSE
