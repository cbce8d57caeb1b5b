SPECIFICATION NoticesSpec
CONSTANTS
  Cap = 2
  NONE = NONE
  MaxEvents = 4
  MaxEpoch = 1
  h1 = h1
  h2 = h2
  Handler <- MCHandler
  Durations <- MCDurations
  Soon = 2
  Scenes <- MCScenes
PROPERTIES
  FeedResumes
