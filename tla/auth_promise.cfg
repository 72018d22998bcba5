SPECIFICATION AuthSpec
CONSTANTS
  Calls = {c1, c2, c3}
  c1 = c1
  c2 = c2
  c3 = c3
  None = None
  MaxUsers = 5
  MaxBooks = 2
  Emails <- MCEmails
  Passwords <- OnePassword
  Latitudes <- MCLatitudes
  Longitudes <- MCLongitudes
  Cities <- MCCities
  Texts <- MCTexts
  Founders <- PromiseFounders
  FirstUser = 4
  FoundersReading <- MCReading
  Library <- MCLibrary
  FirstBook = 3
  Commands <- PromiseCommands
  GeocoderAnswers <- MCAnswers
  ClientsWait = TRUE
SYMMETRY CallSymmetry
INVARIANTS AddedBookStays RelocationStays AddedOnce
PROPERTY KeepsPromise
CHECK_DEADLOCK FALSE
