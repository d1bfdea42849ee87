CONSTANTS
  v1 = v1
  v2 = v2
  ch1 = ch1
  ch2 = ch2
  Conversations = {v1, v2}
  Channels = {ch1}
  ChannelOf <- Shared
  Streaming = {ch1}
  QueueMax = 1
  Retries = 1
  Emits <- Streamer
  OutletCancels = TRUE
  MaxOps <- Uneven
SPECIFICATION Safety
INVARIANTS
  TypeOK
  JoinCountsWork
  DeliveryInOrder
  OneDonePerStream
  RenderBarrier
  ClosedHubIsEmpty
