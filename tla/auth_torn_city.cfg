SPECIFICATION AuthSpec
CONSTANTS
  Calls = {c1, c2, c3}
  c1 = c1
  c2 = c2
  c3 = c3
  None = None
  MaxUsers = 3
  MaxBooks = 3
  Emails <- MCEmails
  Passwords <- MCPasswords
  Latitudes <- MCLatitudes
  Longitudes <- MCLongitudes
  Cities <- MCCities
  Texts <- MCTexts
  Founders <- MCFounders
  FirstUser = 4
  FoundersReading <- MCReading
  Library <- MCLibrary
  FirstBook = 4
  Commands <- MoveCommands
  GeocoderAnswers <- MCAnswers
  ClientsWait = FALSE
INVARIANT CityMatchesCoordinates
CHECK_DEADLOCK FALSE
