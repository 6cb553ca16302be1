SPECIFICATION Spec
CONSTANTS
  a = a
  b = b
  c = c
  Items <- MCItems
  Wishes <- MCWishes
  Size <- MCSize
  Hashed <- MCHashed
  Known <- MCKnown
  Parts <- MCParts
  PipelineDepth = 1
  Proxy = "http"
  Tls = TRUE
  MaxRedirects = 1
  Disorder = {TRUE, FALSE}
INVARIANT
  AnswersMatch
PROPERTY
  AllAnswered
