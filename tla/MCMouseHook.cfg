SPECIFICATION FairHookSpec
CONSTANTS
  back = back
  forward = forward
  h1 = h1
  h2 = h2
  Thumbs <- MCThumbs
  Wishes <- MCWishes
  Hooks <- MCHooks
  NoHook = NoHook
  MaxPosts = 2
INVARIANTS
  HookIsOwned
  DownIsRemembered
PROPERTY
  WishIsMet
CHECK_DEADLOCK FALSE
