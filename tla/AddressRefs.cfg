\* Any allocation may fail; the program deletes only what may be null.
SPECIFICATION Spec
CONSTANTS
  Ids = {1, 2, 3, 4, 5, 6, 7, 8, 9, 10}
  NULL = NULL
  Junk = Junk
  Dumps <- FewDumps
  Deletable = {"peer_address", "broadcast"}
  Faults = {"memory"}
  Checked = TRUE
  MaxHeld = 2
  Room = 7
INVARIANT TypeOK
INVARIANT CountsCover
INVARIANT ReprSafe
PROPERTY OnlyListsAndPiecesLost
