SPECIFICATION AuthSpec
CONSTANTS
  Calls = {c1, c2, c3}
  c1 = c1
  c2 = c2
  c3 = c3
  None = None
  MaxUsers = 6
  MaxBooks = 3
  Emails <- MCEmails
  Passwords <- MCPasswords
  Latitudes <- MCLatitudes
  Longitudes <- MCLongitudes
  Cities <- MCCities
  Texts <- MCTexts
  Founders <- MCFounders
  FirstUser = 4
  FoundersReading <- MCReading
  Library <- MCLibrary
  FirstBook = 4
  Commands <- AccountCommands
  GeocoderAnswers <- MCAnswers
  ClientsWait = FALSE
SYMMETRY CallSymmetry
INVARIANTS AuthTypeOK EmailsUnique AccountsAreRegistrations TokenNeedsRegistration
CHECK_DEADLOCK FALSE
