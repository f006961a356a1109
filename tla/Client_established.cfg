SPECIFICATION Spec
CONSTANTS
  c1 = c1
  c2 = c2
  Conns = {c1, c2}
  Http = Http
  Plugin = Plugin
  Null = Null
  somewhere = somewhere
  Servers = {somewhere, NoServer}
  Blank = {NoServer}
  NoServer = NoServer
  GameIds = {0, 1}
INVARIANTS
  EstablishedExists
