\* The page and its client; the daemon with a user's and a superuser's page, one console at most.
SPECIFICATION SerialSpec
CONSTANTS
  User = user
  Superuser = superuser
  Pages = {user, superuser}
  Superusers = {superuser}
  Tokens <- MCTokens
  Sends <- MCSends
  MaxSessions = 1
  Numbers = {1, 2}
  Room = 1
  ForkMayFail = TRUE
  NoPage = none
  MaxDown = 3
  MaxReloads = 1
INVARIANTS OwnConsole StatusTrue
PROPERTIES ConsolesEnd CutsNoticed
CHECK_DEADLOCK FALSE
