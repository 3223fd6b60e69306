SPECIFICATION Spec
CONSTANTS
  goto = goto
  track = track
  there = there
  Slot <- MCSlot
  Types <- MCTypes
  Reentrant = {track}
  Incompatible <- MCIncompatible
  UnlockRqsts = {track}
  MaxValue = 3
  Members <- MCMembers
  Rank <- MCRank
  Readers = {there}
  Foreign = {there}
INVARIANTS InputIsOwn OutputIsOwn ReadIsComputed
PROPERTY ReplyAfterPoster
