SPECIFICATION MCSpec
CONSTANTS
  a = a
  b = b
  chat = chat
  embed = embed
  stop = stop
  None = None
  Tag = {a, b}
  Request = {chat, embed}
  Chat = {}
  Unload = {}
  MaxLoaded = 1
  MaxActive = 1
  MaxTokens = 1
  MaxHandles = 2
  MaxExpiries = 0
PROPERTY EverySubmittedReplyEnds
CHECK_DEADLOCK FALSE
