SPECIFICATION ImportSpec
CONSTANTS
  Folder = {{t1}, {t2}}
  Job = {j1}
  Kinds = {"archive"}
INVARIANTS ArchiveKept
