SPECIFICATION ReportSpec
CONSTANTS
  Kinds = {"xbox", "xboxOld", "ds", "dsBt", "ds4", "switch", "steam", "unknown", "keyboard", "browser"}
  Pushes <- MCPushes
  Pulls = {12, 255}
  MaxActive = 2
  MaxPlugged = 2
INVARIANTS ReportExact StickFollows TriggerSeen RumbleFelt
