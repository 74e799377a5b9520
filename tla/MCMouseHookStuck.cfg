SPECIFICATION HookSpec
CONSTANTS
  back = back
  forward = forward
  h1 = h1
  h2 = h2
  Thumbs <- MCThumbs
  Wishes <- MCWishes
  Hooks <- MCHooks
  NoHook = NoHook
  MaxPosts = 2
INVARIANT
  NoStuckButton
CHECK_DEADLOCK FALSE
