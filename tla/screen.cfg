CONSTANTS
  MaxTask = 4
  MaxTerm = 3
  Pictures <- TwoPictures
SPECIFICATION ScreenSpec
INVARIANTS ScreenTypeOK Forest PictureKeptUnlessWiped MappingFollows
