SPECIFICATION Spec
CONSTANTS
  Unset = unset
  Blank = blank
  Junk = junk
  Gates <- MCGates
  CommandLines <- MCCommandLines
  Manifests <- MCManifests
  Annotations <- MCAnnotations
  MaxExits = 1
  MaxNames = 2
INVARIANTS UpdatesAreLeftAlone
