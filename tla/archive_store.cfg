CONSTANTS
  p1 = p1
  p2 = p2
  b1 = b1
  b2 = b2
  u1 = u1
  u2 = u2
  Pages = {p1, p2}
  Blobs = {b1}
  Items = {i1, i2}
  Requests = {r1, r2}
  Refs <- SharedRefs
  Url <- OneUrl
  MaxCrashes = 2
  MaxFaults = 1
  MaxRebuilds = 1
  Nobody = Nobody
SYMMETRY Symmetry
SPECIFICATION Spec
INVARIANTS CountsCoverClaims BlobsAreThere CatalogFollowsStore
PROPERTY PurgedStaysGone
CHECK_DEADLOCK FALSE
