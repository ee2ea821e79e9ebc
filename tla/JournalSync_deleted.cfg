\* Does a full sync bring back a deleted trip?
SPECIFICATION JournalSpec
CONSTANTS
    Trips = {t1, t2}
    NoTrip = NoTrip
    Full = Full
    Edits = {e1}
PROPERTY DeletedStaysDeleted
