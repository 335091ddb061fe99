CONSTANTS
  s1 = s1 s2 = s2 q1 = q1 q2 = q2 B2 = B2 A1 = A1 B4 = B4 t1 = t1
  Settings = {s1, s2}
  Schedule <- MCSchedule
  SmokeSchedule <- MCSmoke
  Rewriting = {B2, B4}
  Spoken = {q1}
  Texts = {t1}
  Original = Original
  None = None
  MaxInvocations = 4
SPECIFICATION Spec
INVARIANTS
  IndexMatches
  OneRewrite
PROPERTIES
  RecordsSettled
  OrphansRefused
