CONSTANTS
  u1 = u1  u2 = u2  t1 = t1  t2 = t2  t3 = t3
  a1 = a1  a2 = a2  c1 = c1  c2 = c2
  Users = {u1, u2}
  External = {a1, a2}
  Created = {c1, c2}
  Tabs = {t1, t2, t3}
  NoWallet = NoWallet
  NoAddress = NoAddress
  Scenarios <- MCWallets
SPECIFICATION Spec
CHECK_DEADLOCK FALSE
SYMMETRY MCSymmetry
INVARIANTS OneOwnerPerAddress CalmPageShowsTheWallet
PROPERTIES SerialUnlinkKeepsAppWallets
