SPECIFICATION Spec
CONSTANTS
  KBYTE = 2
  PAGE_SIZE = 8
  WORD = 64
  Segment <- Files
  Id <- Ids
  SizeLine <- Sizes
  NUM_PAGES = 4
  NoId = 0
INVARIANTS
  PagesInTable
