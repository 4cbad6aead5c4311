SPECIFICATION Spec
CONSTANTS
  Handler = {h1, h2}
  Engagement = {e1}
  t1 = t1
  Target = {t1}
  Doc = {d1, d2}
  UrlDoc = {d2}
  Rule <- MCRule
  NoArg = NoArg
INVARIANTS NoActionWithoutAuthorization TaskIsAccountable ReadsStillHold RefusalIsAudited
           ActiveHasSchema PurgeIsFinal
PROPERTIES AuthorizationIsFinal
