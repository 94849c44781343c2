SPECIFICATION Spec
CONSTANTS
  Sessions = {s1, s2}
  Revisions = {1, 2, 3}
  First = 1
  Scopes = {"document", "section"}
  DocumentWide = "document"
  Offers <- MCOffers
  Queries <- MCQueries
  Findings <- MCFindings
  Times = {0, 1}
  Unavailable = Unavailable
  CursorTtl = 1
  MaxWalk = 2
  Nothing = Nothing
SYMMETRY Symmetry
INVARIANTS
  PagesMakeUpTheResult
  EndedSessionStaysEnded
  CursorsEndWithTheirSession
