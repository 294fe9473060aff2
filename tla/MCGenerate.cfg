\* One generation at a time over two accounts.
CONSTANTS
  Accounts = {a, b}
  NoAccount = NoAccount
  Bodies <- SampleBodies
SPECIFICATION FairSpec
INVARIANTS AttemptsBounded ErrorHeadNeverStarts
PROPERTIES ReplaysOnlyWhenSafe RetryStaysOnAccount NoReturn GenerationEnds
