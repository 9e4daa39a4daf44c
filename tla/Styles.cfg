SPECIFICATION FairSpec
CONSTANTS
  css = css
  sld = sld
  Names = {point}
  Contents = {css, sld}
  Formats = {"SLD", "CSS"}
  FormatOf <- TwoFormats
  BuiltIn = {point}
  BuiltInContent = builtin
  Replicas = {pa, pb}
  Requests = {q1, q2}
  MaxEvents = 3
  None = None
INVARIANTS
  RowsFit
PROPERTIES
  Converges
