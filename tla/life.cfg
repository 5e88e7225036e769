CONSTANTS
    b1 = b1 b2 = b2 b3 = b3 b4 = b4 b5 = b5 c1 = c1 c2 = c2 x1 = x1 u1 = u1 u2 = u2
    k1 = k1 k2 = k2 k3 = k3 d1 = d1 d2 = d2 t1 = t1 t2 = t2 y1 = y1 y2 = y2
    oil = oil brake = brake unknown = unknown brakeCert = brakeCert
    None = None
    Bookers = {b1}
    Confirmers = {c1, c2}
    Cancellers = {x1}
    Users = {u1, u2}
    Keys = {k1, k2, k3}
    Dealers = {d1, d2}
    ServiceTypes = {oil, brake, unknown}
    Offered = {oil, brake}
    Certifications = {brakeCert}
    TechnicianIds = {t1, t2}
    BayIds = {y1, y2}
    Catalog <- MCCatalog
    Technicians <- MCTechnicians
    ServiceBays <- MCServiceBays
    Request <- LifeRequest
    ClockSkew <- NoSkew
    MinStartLeadTime = 1
    MaxStartLeadTime = 20
    ReservationTTL = 2
    MaxTries = 2
    MaxTime = 2
SPECIFICATION FairSpec
INVARIANTS OneAnswerPerTransition UpdatesNeedTwoTries
PROPERTIES StatusOnlyAdvances EveryRequestIsAnswered
