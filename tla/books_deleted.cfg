SPECIFICATION BooksSpec
CONSTANTS
  Calls = {c1}
  c1 = c1
  Tasks = {t1, t2}
  t1 = t1
  t2 = t2
  None = None
  MaxUsers = 2
  MaxBooks = 3
  MaxRestarts = 0
  Emails <- MCEmails
  Passwords <- MCPasswords
  Latitudes <- MCLatitudes
  Longitudes <- MCLongitudes
  Cities <- MCCities
  Texts <- MCTexts
  Founders <- MCFounders
  FirstUser = 3
  FoundersReading <- MCReading
  Library <- MCLibrary
  FirstBook = 4
  Commands <- NoCommands
  BookCommands <- UpdateAndDelete
  GeocoderAnswers <- MCAnswers
  ClientsWait = FALSE
INVARIANT DeletedStaysDeleted
CHECK_DEADLOCK FALSE
