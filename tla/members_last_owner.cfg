CONSTANTS
    None = None
    Users = {u1, u2}
    Founder = u1
    Clients = {c1}
    InvitedRoles = {"member"}
    MaxMembers = 2
    MemberRequests = {r1, r2}
SPECIFICATION MemberSpec
INVARIANT AlwaysAnOwner
CHECK_DEADLOCK FALSE
