CONSTANTS
  n1 = n1
  n2 = n2
  n3 = n3
  n4 = n4
  None = None
  Nodes = {n1, n2, n3, n4}
  Prios = {0, 1, 2, 3, 4, 5}
  Lowest = 5
  HashScale = 2
SPECIFICATION Spec
INVARIANT LinksExact
PROPERTIES ImplementsFifo SplicesMatch
