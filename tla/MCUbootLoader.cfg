SPECIFICATION FairSpec
CONSTANTS
  NumSectors = 4
  PageSize = 4
  HdrSize = 1
  PagesPerBlock = 3
  MaxBlkPge = 10
  TableSize = 4
  FileLengths = {4, 7, 9}
  Options <- ImageWithHeader
  Images <- MCImages
INVARIANTS
  TypeOK
  SuccessMeansComplete
  NoSpuriousFailure
  JumpsToLoadedImage
  HeaderSizeLoaded
PROPERTIES
  Terminates
  ImplementsLoad
