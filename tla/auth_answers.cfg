SPECIFICATION AuthFairSpec
CONSTANTS
  Calls = {c1, c2}
  c1 = c1
  c2 = c2
  None = None
  MaxUsers = 5
  MaxBooks = 3
  Emails <- MCEmails
  Passwords <- MCPasswords
  Latitudes <- MCLatitudes
  Longitudes <- MCLongitudes
  Cities <- MCCities
  Texts <- MCTexts
  Founders <- MCFounders
  FirstUser = 4
  FoundersReading <- MCReading
  Library <- MCLibrary
  FirstBook = 4
  Commands <- EveryCommand
  GeocoderAnswers <- MCAnswersOrFails
  ClientsWait = FALSE
INVARIANT EveryReadWasConfirmed
PROPERTY EventuallyAnswered
CHECK_DEADLOCK FALSE
