\* A visitor may stop at any time.
SPECIFICATION Spec
CONSTANTS
  None = None
  Texts = {this, that}
  Pages = {"quill", "aperture-0312", "marcellus", "vellum-1492", "calder"}
  Commenters <- MCCommenters
  MaxQuestions <- MCMaxQuestions
  MaxRequests = 4
  MaxComments = 3
  Limit = 2
  Hour = 1
  MaxTime = 3
SYMMETRY TextSymmetry
INVARIANTS AnswerIsForItsInput ThreadIsOneGeneration WithinTwiceTheLimit
CHECK_DEADLOCK FALSE
