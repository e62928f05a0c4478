SPECIFICATION Spec
CONSTANTS
  Docs = {d1, d2}
  Runs = {r1, r2}
  Names = {"harta_284", "harta", "nickname", "harta_234", "maruni", "smudge"}
  Partners = {"p1", "p2", "p3"}
  Canonical <- MCCanonical
  AlreadyTaught <- MCAlreadyTaught
  Near <- MCNear
  Common <- MCCommon
  Alike <- MCAlike
  Papers <- MCPapers
  Rules <- MCRules
  Unset = Unset
  MaxStarts = 2
  MaxLapses = 1
  MaxChanges = 1
SYMMETRY Symmetry
INVARIANTS TypeOK MatchIsOfThisReading OriginalIsTrusted AutoIsTraceable MisreadIsSeen
CHECK_DEADLOCK FALSE
