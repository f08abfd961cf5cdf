\* One relying party, two codes one after the other.
SPECIFICATION InfoSpec
CONSTANTS
    Client = {"rp"}
    Request = {"r1"}
    None = "none"
    MaxExchanges = 2
INVARIANTS
    ToldAsAsked
PROPERTIES
    ExchangeSurvivesOutage
