SPECIFICATION Spec
INVARIANTS AcceptsExactlyTheGroup CodeIsTrueOfTheBuffer
PROPERTY RoundTrip
CHECK_DEADLOCK FALSE
