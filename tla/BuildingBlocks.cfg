CONSTANTS
    Empty = Empty
    None = None
    NoEntry = NoEntry
    Endpoint = {e1, e2, e3}
    Member = {e1}
    Stranger = {e2}
    Rate <- Rates
    Burst <- Rates
SPECIFICATION Spec
INVARIANTS
    
    
    WindowIsExact
    CarriedIsPlayed
    
    ReadersHoldLiveData
    OldAudioIsForgotten
    RefreshIsExact
PROPERTIES
    RingIsBoundedQueue
    GapsAreReal
CHECK_DEADLOCK FALSE
