SPECIFICATION Spec
CONSTANTS
    Handlers = {x1, x2}
    Sessions = {s1, s2, s3}
    Names = {a, b}
    Passwords = {p, q}
    None = None
SYMMETRY AccountSymmetry
INVARIANTS TypeOK SessionsFollowName PasswordStands
PROPERTIES OneSessionSpec
