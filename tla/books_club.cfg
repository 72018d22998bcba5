SPECIFICATION BooksSpec
CONSTANTS
  Calls = {c1, c2}
  c1 = c1
  c2 = c2
  Tasks = {t1, t2}
  t1 = t1
  t2 = t2
  None = None
  MaxUsers = 2
  MaxBooks = 5
  MaxRestarts = 1
  Emails <- MCEmails
  Passwords <- MCPasswords
  Latitudes <- MCLatitudes
  Longitudes <- MCLongitudes
  Cities <- MCCities
  Texts <- MCTexts
  Founders <- MCFounders
  FirstUser = 3
  FoundersReading <- MCReading
  Library <- MCLibrary
  FirstBook = 4
  Commands <- Lookups
  BookCommands <- ClubCommands
  GeocoderAnswers <- MCAnswers
  ClientsWait = FALSE
SYMMETRY TaskSymmetry
INVARIANTS
  BooksTypeOK NoOwnBookRead  ReadsAccountedFor
  NoDanglingReading BooksPerDelivery
PROPERTY OnlyAuthorChangesBook
CHECK_DEADLOCK FALSE
