SPECIFICATION FairSpec
CONSTANTS
  Analog = analog
  Others = {other}
  MaxStarts = 1
  MaxJacks = 1
  JackNotices = 2
  MaxDeaths = 2
PROPERTIES
  WritesWhileRunning
  RunningIsWoken
