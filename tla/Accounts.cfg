SPECIFICATION FairAccountsSpec
CONSTANTS
    q1 = q1  q2 = q2  q3 = q3
    e1 = e1  e2 = e2
    i1 = i1  i2 = i2
    Request = {q1, q2, q3}
    Email = {e1, e2}
    Address <- SharedAddress
    Item = {i1}
    Nobody = Nobody
INVARIANTS AccountsTypeOK OneAccountPerEmail AccountsResolve RepliesAreTrue TenantsApart
PROPERTIES RegistrationEnds
CHECK_DEADLOCK FALSE
