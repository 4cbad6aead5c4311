SPECIFICATION Spec
CONSTANTS
  Handler = {h1, h2}
  Engagement = {e1}
  t1 = t1
  Target = {t1}
  Doc = {d1}
  UrlDoc = {}
  Rule <- MCRule
  NoArg = NoArg
PROPERTIES ClosedIsFinal
