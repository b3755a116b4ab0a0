SPECIFICATION Spec
CONSTANTS
  Addr = {a1, a2, a3}
  Source = {"pinned", "legacy", "alpha-pool"}
  MaxSlots = 2
SYMMETRY Symmetry
INVARIANTS SlotsRespected NoPriorityInversion DemotedSlotsStayFree Settled
