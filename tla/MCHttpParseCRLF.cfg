SPECIFICATION Spec
CHECK_DEADLOCK FALSE
CONSTANTS
    Requests <- MCRequests
    Responses <- MCResponses
    Methods = {"GET", "POST"}
    AnyMethod = {"UNKNOWN", "POST"}
    Versions = {"HTTP/1.1", "HTTP/1.0"}
    Codes = {"200", "404", "405"}
    Width <- MCWidth
    Stale = {"LF", "data"}
INVARIANT CRLFRequestSent
