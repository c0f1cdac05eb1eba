CONSTANTS
    Prices <- MCPrices
    FixedValues <- MCFixedValues
    Points <- MCPoints
    Scale = 8
    MaxQuantity = 4
    MinPaid = 4
    MaxTotal = 35
    MaxVersion = 2
    None = None
SPECIFICATION Spec
INVARIANTS PaysWhatWasShown RefundsMatchPayment
