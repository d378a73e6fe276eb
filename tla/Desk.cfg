CONSTANTS
  Tabs = {1, 2}
  Notes = {1, 2, 3, 4}
  Cards = {1, 2, 3, 4, 5}
  NoteOf <- MCNoteOf
  Sockets = {1, 2, 3}
  BoxSize = 2
  Desks <- MCDesks
  Types = {1, 2}
  Texts = {"", "x", "<x>"}
  Plain <- MCPlain
  Models = {1, 2}
  Titles = {"a", "b"}
  Looks = {"plain", "bold"}
  Sheets = {1}
  MaxItems = 3
  Stored <- MCModels
SPECIFICATION Spec
INVARIANTS ReviewersShowTheNextCard RowsAreCurrent DeckPagesAreCurrent FreshSaveIsExact CleanUnlessStale
PROPERTIES NewNotesAreNew AllOrNothing TheOldestStays TheLastTypeStays
CHECK_DEADLOCK FALSE
