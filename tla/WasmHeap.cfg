SPECIFICATION FairSpec
CONSTANTS
    Handler = {h1, h2}
    Nobody = Nobody
    Capacity = 30
INVARIANTS TypeOK NoMisuse NothingLeft
PROPERTIES HandlersEnd
