SPECIFICATION Spec
CONSTANT Session = {s1, s2, s3}
INVARIANTS TypeOK OnlyPurgesDeadlock
PROPERTIES RequestsEnd
