SPECIFICATION SessionSpec
CONSTANTS
  App = {desktop, game}
  NoApp = none
  MaxLate = 0
PROPERTY ResumesSelected
