SPECIFICATION BooksFairSpec
CONSTANTS
  Calls = {c1, c2, c3}
  c1 = c1
  c2 = c2
  c3 = c3
  Tasks = {t1}
  t1 = t1
  None = None
  MaxUsers = 2
  MaxBooks = 6
  MaxRestarts = 2
  Emails <- MCEmails
  Passwords <- MCPasswords
  Latitudes <- MCLatitudes
  Longitudes <- MCLongitudes
  Cities <- MCCities
  Texts <- MCTexts
  Founders <- MCFounders
  FirstUser = 3
  FoundersReading <- MCReading
  Library <- MCLibrary
  FirstBook = 4
  Commands <- NoCommands
  BookCommands <- EveryBookCommand
  GeocoderAnswers <- MCAnswers
  ClientsWait = FALSE
PROPERTY TaskAnswered
CHECK_DEADLOCK FALSE
