SPECIFICATION LibrarySpec
CONSTANTS
    Scopes <- SomeScopes
    IntValues <- SomeInts
    Half = 2
    Scalars = {0, 1}
    Side = 2
    Dist <- GridDist
    Chars = {"a", "k", "t", ":"}
    Pieces <- SomePieces
    MaxPieces = 8
    Keys <- SomeKeys
    tcp <- tcpString
    Protos = {tcp, outbound}
    Hosts = {h1, h2}
    Ports <- SomePorts
    Paths = {update, remove, search}
    Optional = {"proto", "port", "path"}
INVARIANTS
    SchemaInv
    NamesAgree
    AsWritten
\* the last step has no next
CHECK_DEADLOCK FALSE
