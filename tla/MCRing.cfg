CONSTANTS
  Capacity = 2
  Word = 4
  Payload = {a, b}
  NoLabel = NoLabel
  MaxOffer = 5
SYMMETRY PayloadSymmetry
SPECIFICATION Spec
INVARIANTS RingInv NoDataRace DepthNotWrapped NoHiddenDrop
PROPERTIES IsQueue
