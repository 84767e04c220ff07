\* One request after the other against an artifact of two seconds and a half.
SPECIFICATION Spec
CONSTANTS
    Requests = {r1}
    Tick = 2
    Ttl = 5
    LinkTtls <- MCLinkTtls
    MaxLink = 4
    PresignTtl = 2
    NoLink = NoLink
    NoRow = NoRow
    Horizon = 10
INVARIANTS
    TypeOK
    LinkKeepsItsWord
    RevokedAtOnce
    UrlEndsInTime
\* The clock stops at the horizon.
CHECK_DEADLOCK FALSE
