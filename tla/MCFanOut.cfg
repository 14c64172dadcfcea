CONSTANTS
    N = 5
    Limit = 3
    Values = {ok, err}
    NoOutput = NoOutput
SPECIFICATION FanFairSpec
INVARIANTS InFlightBound ResultInOrder
PROPERTIES BatchPromise BatchEnds
