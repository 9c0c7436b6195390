\* Up to two instructions and two groups of inner ones.
SPECIFICATION Spec
CONSTANTS
    a1 = a1
    a2 = a2
    a3 = a3
    o1 = o1
    o2 = o2
    m1 = m1
    m2 = m2
    None = None
    Unparsable = Unparsable
    Transactions <- SmallTransactions
INVARIANTS
    TypeOK
    RowPerTransfer
    TransfersExplainBalances
    OwnersAreLatest
    TransfersAreResolved
    KeysPointBack
