SPECIFICATION Spec
CONSTANTS
    shop = shop  shop_eu = shop_eu  other = other  p1 = p1  NoKey = NoKey  s1 = s1  s2 = s2
    Clients = {shop, shop_eu, other}
    Tasks = {"t1"}
    Solves = {s1, s2}
    Providers = {p1}
    Prefixed <- ShopPrefixed
    SettingsTtl = 2
    Ttls = {0, 1}
    MaxEntries = 2
    AdmittedUntil <- Expiring
    MaxClock = 2
PROPERTIES ClearsOnlyTheNamed
