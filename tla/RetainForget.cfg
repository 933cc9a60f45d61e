SPECIFICATION RetentionSpec
CONSTANTS
  Proc = {p1, p2}
  Nobody = Nobody
  MaxAttempts = 1
  MaxIncarnations = 2
  Drivers = {"qbittorrent"}
  Actions = {"add_stopped"}
SYMMETRY Symmetry
INVARIANT RetentionTypeOK
INVARIANT OnlyTornTombBlocks
PROPERTY CompletionIsRemembered
