\* Two chats, one after the other or together; two messages of a conversation are read.
SPECIFICATION ConversationSpec
CONSTANTS
  Chats = {ask, again}
  Planners = {}
  Images = {}
  Providers = {v1}
  ReadLimit = 2
  Window = 1
  MaxMishaps = 0
PROPERTY PromptIsSeen
CHECK_DEADLOCK FALSE
