SPECIFICATION PreloadSpec
CONSTANTS
  NoExpiry = NoExpiry
  Snapshots <- Files
  Keys <- SomeKeys
  Entries <- SomeEntries
  Indices <- SomeIndices
INVARIANTS TypeOK AllOrNothing RefusedForAReason CurrentExists Preloaded
PROPERTIES TurnsAdvance WritesStayApart
