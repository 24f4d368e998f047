SPECIFICATION MCSpec
CONSTANTS
  Worker = {w1, w2}
  Identity = {i1, i2}
  Host = {h1, h2}
  Setting = {default, other}
  Default = default
  None = none
  Absent = absent
  Empty = empty
  Torn = torn
SYMMETRY Symmetry
INVARIANTS SameIdentity HostsKept SettingsAgree
