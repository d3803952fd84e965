SPECIFICATION FairSpec
CONSTANTS
    Advert <- Air
    NoAdvert = NoAdvert
    Filter <- ProductFilter
    Preferences <- ProductPreferences
    SelectorFilters <- HardFilters
    Decodable <- WellFormed
    Timeout = 5
    MaxHeard = 2
 
PROPERTIES PromiseKept CallReturns
