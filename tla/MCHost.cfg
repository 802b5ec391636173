CONSTANTS
  Searches = {s1, s2, s3}
  Publish = 2
  Count = 2
  MaxAttempts = 3
  MaxResults = 2
  Target = 2
SPECIFICATION HostSpec
INVARIANTS OneWinner ReportExact LateBounded NeverRelated LastLineFinal
PROPERTIES EverySearchEnds LinesGoForward DropReturns
