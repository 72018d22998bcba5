SPECIFICATION BooksSpec
CONSTANTS
  Calls = {c1, c2}
  c1 = c1
  c2 = c2
  Tasks = {t1}
  t1 = t1
  None = None
  MaxUsers = 2
  MaxBooks = 4
  MaxRestarts = 0
  Emails <- MCEmails
  Passwords <- MCPasswords
  Latitudes <- MCLatitudes
  Longitudes <- MCLongitudes
  Cities <- MCCities
  Texts <- MCTexts
  Founders <- MCFounders
  FirstUser = 3
  FoundersReading <- MCReading
  Library <- MCLibrary
  FirstBook = 4
  Commands <- MovesOfAnn
  BookCommands <- OneCreate
  GeocoderAnswers <- MCAnswers
  ClientsWait = FALSE
INVARIANT RelocationStays
CHECK_DEADLOCK FALSE
