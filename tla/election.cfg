SPECIFICATION FairSpec
CONSTANTS
    Electors = {e1}
    Workers = {w1, w2}
    Peers = {p1, p2}
    Handler = h
    Self = self
    None = None
    MaxTerm = 2
INVARIANT AcceptedInTerm
PROPERTY HandlerReturns
