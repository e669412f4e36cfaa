CONSTANTS
  Heights <- MCHeights
  Widths <- MCWidths
  MaxMounts = 2

SPECIFICATION Spec

INVARIANT NoStateUpdateAfterUnmount
