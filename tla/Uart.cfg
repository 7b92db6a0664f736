SPECIFICATION Spec
CONSTANTS RxSize = 3
          TxSize = 3
          Depth = 2
          Word = 16
          Traffic <- MCTraffic
INVARIANTS TypeOK TxInOrder
PROPERTIES AvailableExact RxIsChannel FlushSends TxDrains
