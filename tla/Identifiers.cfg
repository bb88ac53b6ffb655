SPECIFICATION Spec
CONSTANTS
  Types = {t1, t2}
  MaxIds = 3
  MaxCount = 2
  MaxDepth = 3
  MaxLate = 1
SYMMETRY Symmetry
INVARIANTS MembersAgree CursorSafe FreedOnce ForcedClearsAll
CHECK_DEADLOCK FALSE
