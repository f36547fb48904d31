\* Two tables of four rows and of three in two languages; two items per dataset; four epochs of two
\* batches; three starts (of the corpus: two), and up to three errors.
SPECIFICATION Spec
CONSTANTS
    train_len = 4
    leetcode_len = 3
    Languages = 2
    SAVE_INTERVAL = 3
    BATCH_SIZE = 2
    MaxStarts = 3
    MaxErrors = 2
    Loadable <- MCLoadable
    Items = 3
    Unit = 25000
    MaxBuilds = 2
    MaxFailures = 2
    EPOCHS = 4
    steps_per_epoch = 2
    Losses = {1, 2}
    MaxTrainings = 3
    MaxUpsets = 2
INVARIANTS FewRowsAreSkippedInSilence AResumeRepeatsAtMostABatchOfEachTable ACheckpointCountsItsTraining
PROPERTIES AMergeAppendsAllOrNothing AModelIsReplacedByABetterOne
CHECK_DEADLOCK FALSE
