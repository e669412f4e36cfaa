CONSTANTS
  Heights <- MCHeights
  Widths <- MCWidths
  MaxMounts = 2

SPECIFICATION FairSpec

PROPERTY EventuallySettles
