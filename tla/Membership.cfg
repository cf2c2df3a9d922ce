SPECIFICATION Spec
CONSTANTS
    boss = boss
    ann = ann
    admin = admin
    qa = qa
    members = members
    users = users
    write = write
    Users = {boss, ann}
    Projects = {p1}
    RoleIds = {admin, qa}
    Tokens = {t1}
    Any = Any
    Permissions = {members, users, write}
    GlobalOnly = {users}
    ManageMembers = members
    ManageUsers = users
    AdminRole = admin
    BuiltIn <- MCBuiltIn
    Bootstrap = {boss}
    GroupRoles <- MCGroupRoles
    DefaultRoles = {}
    Drafts <- MCDrafts
    TokenKinds <- MCTokenKinds
    Clients = {c1}
    None = None
INVARIANTS
    GrantsNameRoles
PROPERTIES
    GainsAreHeld
    ProjectStaysInside
CHECK_DEADLOCK FALSE
