SPECIFICATION FairSpec
CONSTANTS
  o1 = o1
  o2 = o2
  home = home
  game = game
  away = away
  player = player
  mask = mask
  Others = {o1}
  Channels = {home, game}
  Home = home
  Game = game
  Names = {player}
  Own = Own
  Null = Null
  MayFail = {}
PROPERTIES
  PositionsAreReset
