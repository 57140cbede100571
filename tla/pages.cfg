SPECIFICATION PagesSpec
CONSTANTS
  Jobs = {j1, j2}
  Cancellable = {j1}
  Second = j2
  Files = {f, g}
  TotalChunks = 2
  MaxUploads = 2
  Hosts = {h1, h2, h3}
  Lists = {volumes, templates}
  Pickers = {volumes}
  Choices = {p1, p2}
  None = none
INVARIANTS OnePoll JobsKept SentIsStored ShownForChoice
PROPERTIES OutcomeTold
CHECK_DEADLOCK FALSE
