--------------------------- MODULE MCPicQueueTime ---------------------------
EXTENDS PicQueueTime, TLC

CONSTANTS a, b

TwoHandlers == {<<a, 0>>, <<b, 0>>}
QueueSymmetry == Permutations(Slots) \cup Permutations(Handlers)
=============================================================================
