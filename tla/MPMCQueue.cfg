CONSTANTS
  None = None
  Producers = {p1, p2}
  Consumers = {c1, c2}
  Values = {v1, v2}
  Capacity = 2
  MaxTickets = 4
SPECIFICATION Spec
SYMMETRY Symmetry
INVARIANTS
  IInv
  TicketDelivery
  SlotExclusive
PROPERTIES
  ImplementsFifo
  FullIsJustified
  EmptyIsJustified
