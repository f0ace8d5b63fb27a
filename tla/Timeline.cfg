SPECIFICATION Spec
CONSTANTS
  p1 = p1
  p2 = p2
  p3 = p3
  ana = ana
  bob = bob
  Posts <- MCPosts
  Users <- MCUsers
  Author <- MCAuthor
  Timestamp <- MCTimestamp
  MaxRows = 5
INVARIANTS
  TypeOK
  RowsMirrorPosts
  OnlyOwnRequested
PROPERTIES
  ButtonStaysOnPost
  ImplementsRows
