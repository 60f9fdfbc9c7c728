SPECIFICATION Spec
CONSTANTS
    ann = ann
    bot = bot
    bob = bob
    Accounts = {"a", "b"}
    Actors = {ann, bot, bob}
    AccountOf <- TwoTenants
    Kind <- Kinds
    Conns = {1, 2}
INVARIANTS TypeOK Isolation PrivateByPolicy
PROPERTIES RevocationIsImmediate
CHECK_DEADLOCK FALSE
