SPECIFICATION FairSpec
CONSTANTS
  Writers = {"ws", "feed1", "feed2"}
  Readers = {r1}
  Field = {"private", "l2_book"}
  FieldOf <- TwoFeeds
  Announcers = {"ws"}
  MaxStarts = 3
CHECK_DEADLOCK FALSE
INVARIANTS TypeOK Converged AnnouncedIsUp
PROPERTY DisconnectIsSeen
