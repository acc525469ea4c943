\* two packages, three searches, two of them typed into each other
CONSTANTS
  p1 = p1
  p2 = p2
  a = a
  b = b
  c = c
  q1 = q1
  q2 = q2
  q3 = q3
  None = None
  Query = {q1, q2, q3}
  Malformed = {q3}
  Packages <- MCPackages
  Entities <- MCEntities
  NameMatches <- MCNameMatches
  MemberMatches <- MCMemberMatches
  MaxSearches = 2
  MaxNavigations = 2
SPECIFICATION Spec
INVARIANTS SearchTypeOK WorkHasTimer ResultsOfLastSearch SearchComplete SelectionInBounds
PROPERTY SearchEnds
CHECK_DEADLOCK FALSE
