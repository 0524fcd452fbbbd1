CONSTANTS
    m1 = m1
    m2 = m2
    m3 = m3
    s1 = s1
    s2 = s2
    q1 = q1
    q2 = q2
    Movies = {m1, m2}
    Slugs = {s1, s2}
    Requests = {q1, q2}
SYMMETRY Alike
SPECIFICATION Spec
INVARIANTS
    TypeOK
    SlugsLeadRight
    MoviesAreFound
CHECK_DEADLOCK FALSE
