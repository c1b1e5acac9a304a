CONSTANTS
    Factor = 98
    Objects = {1, 2, 3, 4}
    MaxLinks = 4
    Confidences = 1
    MaxDepth = 3
SPECIFICATION Spec
CHECK_DEADLOCK FALSE
INVARIANTS DerivesChains ExplanationHolds RuleOrderIsFree SearchFindsAll NothingIsLost PricesAddUp
