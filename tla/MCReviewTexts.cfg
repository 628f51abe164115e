SPECIFICATION Spec
CONSTANTS
    Transactions <- MCTransactions
INVARIANTS
    NoAmountFails
    AmountsAreShown
    TotalIsSum
