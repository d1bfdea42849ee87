CONSTANTS
  v1 = v1
  v2 = v2
  ch1 = ch1
  ch2 = ch2
  Conversations = {v1, v2}
  Channels = {ch1, ch2}
  ChannelOf <- Apart
  Streaming = {ch1}
  QueueMax = 1
  Retries = 1
  Emits <- Mixed
  OutletCancels = FALSE
  MaxOps <- Even
SPECIFICATION Spec
PROPERTIES
  ChannelServesItsCallers
  CloseReleasesEveryone
