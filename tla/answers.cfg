CONSTANTS
  Words <- MCWords
  Stopwords = {"where"}
  SafeSymbols = {"%"}
  LowInformation = {"api"}
  PathTerms = {"/users/{id}"}
  MaxTerms = 3
  Fields <- MCFields
  ParamSegments = {"{param}", ":id"}
  ChainTypes = {"REQUESTS_API", "DEFINES_API", "CALLS_METHOD"}
  Size <- MCSize
  EdgeSize = 1
  Budget = 15
  MaxResults = 3
  Indexes <- MCIndexes
  Queries <- MCQueries
  VectorAnswers <- MCVectorAnswers
  Kinds = {"keyword", "hybrid", "api_chain", "search_chain", "code_qa", "trace", "chat"}
  Hints = {{}, {"trace"}, {"trace", "change"}}
  Limits = {2}
  Depths = {1, 2}
  ApiKeys <- MCApiKeys
  ApiRequests <- MCApiRequests
  Files <- MCFiles
  Drafts <- MCDrafts
  Variants <- MCVariants
  Product = "W75"
  None = None
SPECIFICATION Spec
INVARIANTS
  SearchExact
  GraphExact
  EvidenceNearest
  DegradationTold
  GroundedAnswers
  EvaluationMatchesProduct
