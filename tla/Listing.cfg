SPECIFICATION FairSpec
CONSTANTS
    Columns <- MCColumns
    KindOf <- MCKindOf
    Fields = {"name"}
    Relations = {"role", "permissions", "users", "owner"}
    Rows <- MCRows
    Changing = {2, 5}
    Cell <- MCCell
    Queries <- MCQueries
    None = None
INVARIANTS TypeOK RelationsKept WalkStands
PROPERTIES MatchesMeant WalkAdvances EachOnce WalkEnds
