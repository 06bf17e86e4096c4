CONSTANTS
  Images <- MCImages
  Views <- MCViews
  Centers <- MCCenters
  Cursor <- MCCursor
  Unit = 4000000
  MaxZooms = 2
SPECIFICATION ViewSpec
PROPERTY
  ImageStaysUnderMouse
CHECK_DEADLOCK FALSE
