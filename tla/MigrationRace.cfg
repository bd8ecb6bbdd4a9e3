SPECIFICATION MigrationSpec
CONSTANTS
  Executors = {a, b}
  Texts = {t}
  NoExecutor = none
  MaxMigrations = 1
  MaxUps = 2
  MaxUnanswered = 0
INVARIANTS NeverReexecuted
CHECK_DEADLOCK FALSE
