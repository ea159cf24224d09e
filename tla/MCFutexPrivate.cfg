SPECIFICATION Spec
CONSTANTS
    t1 = t1
    t2 = t2
    t3 = t3
    q1 = q1
    q2 = q2
    q3 = q3
    q4 = q4
    Processes = {{t1, t2, t3}}
    Values = {0, 1}
    Bits = {1}
    Queues = {q1, q2, q3, q4}
    Nothing = Nothing
SYMMETRY Symmetry
PROPERTIES
    ImplementsFutexSpec
