SPECIFICATION Spec
CONSTANTS
  h1 = h1
  h2 = h2
  m1 = m1
  z1 = z1
  z2 = z2
  Slots = {s1, s2}
  Hours = {h1, h2}
  Minutes = {m1}
  Zones = {z1, z2}
  DefaultTime <- MCDefaultTime
  DefaultZone = z1
  NoUser = NoUser
  Nothing = Nothing
  MaxElsewhere = 1
SYMMETRY MCSymmetry
INVARIANTS
  TypeOK
  TogglesCounted
PROPERTIES
  OnboardingOnce
  ChoiceAsShown
