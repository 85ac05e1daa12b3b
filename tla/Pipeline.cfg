CONSTANTS
    Request = {r1, r2}
    Tag <- Tags
    Prefix <- PrefixOf
    Key <- Keys
    Text = {"en", "vi", "vi2"}
    Files <- TheFiles
    FaultyFiles = TRUE
    Null = Null
    Wants <- TwoWants
SPECIFICATION FairSpec
INVARIANTS AnsweredAndLogged OnlyIdentified MessagesAgree MessagesFromFiles
PROPERTIES RequestsEnd
