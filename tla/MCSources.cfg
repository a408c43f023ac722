CONSTANTS
  rest = 20
  gap = 21
  param = 22
  Verb <- Verbs
  Module = {1, 2, 3, 4, 5, 6, 7}
  Name <- MCName
  Package <- MCPackage
  Parts <- MCParts
  default = 0
  None = None
  Guards = {5, 6, 7}
  Classes = {4}
  bearer = 50
  authorization = 51
  Inline <- MCInline
  Screaming = {9}
  Words = {40}
  rootUrlconf = 99
  urlpatterns = 7
  urls = 0
  next = 0
  api = 10
  RouterNames = {83}
  UsualNames = {79, 80}
  RouterTypes = {84}
  RequestTypes = {85}
  server = 86
  handler = 87
  serveHttp = 88
  defaultMux = 89
  serverRoot = 90
  Found = {}
  Projects <- MCProjects
  MaxHops = 3
  MaxDepth = 5
SPECIFICATION SourcesSpec
CHECK_DEADLOCK FALSE
INVARIANT PythonIsReadAsServed
INVARIANT JsIsReadAsServed
INVARIANT GoIsReadAsServed
