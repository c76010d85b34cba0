\* Three nodes in two regions, one of which may be down; one vault; a request
\* about nodes and one about files at a time, and one event besides.
CONSTANTS
  n1 = n1  n2 = n2  n3 = n3
  Nodes = {n1, n2, n3}  RegionOf <- MCRegionOf  BaseLoad <- MCBaseLoad
  Seeds = {n1, n2}  AtLocalhost = n3  Vaults = {v1}  Managers = {m1}  Proxies = {p1}
  Sizes = {1, 3}  Overhead = 1  MaxFileSize = 2  BodySlack = 1  Capacity = 6
  OfflineAfter = 0  Factors <- MCFactors  Strategies = {"region_diverse", "load_balanced"}
  MaxEvents = 1  MaxBeats = 1  None = None
SYMMETRY Interchangeable
SPECIFICATION Spec
INVARIANTS TypeOK SelectionFits ListedIsStored StoredIsFindable
