SPECIFICATION Spec
CONSTANTS
  MaxWord = 3
  Sayings <- MCSayings
  Nfkc <- MCNfkc
  Visible <- MCVisible
  UploadMaxBytes = 4
  ReadChunkBytes = 3
  Gain <- MCGain
  MaxLength <- MCMaxLength
  Sizes <- MCSizes
  Windows = {3, 4, 5}
  Distances = {0, 6, 20}
  Chunks = {1, 2, 3, 4, 5}
  Cutoffs = {0, 1, 2, 3, 4, 5}
  Outcomes <- MCOutcomes
  SourceWeights <- MCSourceWeights
  Cases = {"k1", "k2"}
  Sources = {"manual", "synthetic"}
  Scores <- MCScores
  Datasets = {"d1", "d2"}
  Overrides <- MCOverrides
INVARIANTS
  EveryChunkFits EveryTextIsCovered CleaningSettles BodySurvives MetricsTellOneStory
  LabelFitsMetrics SummariesAddUp VerdictsFitSummaries UploadsAreBounded
CHECK_DEADLOCK FALSE
