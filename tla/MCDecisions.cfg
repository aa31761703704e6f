CONSTANTS
    r1 = r1
    r2 = r2
    leg = leg
    shanghai = shanghai
    rotterdam = rotterdam
    CNSHA = CNSHA
    NLRTM = NLRTM
    dry20 = dry20
    dry40 = dry40
    Runs = {r1, r2}
    Scenarios = {r2}
    Legs = {leg}
    Locations = {shanghai, rotterdam}
    Types = {dry20, dry40}
    From <- MCFrom
    Quantities = {1, 2}
    Results <- MCResults
    Ports = {CNSHA, NLRTM}
    EquipmentTypes = {"20DC", "40DC"}
    PortOf <- MCPortOf
    EquipmentOf <- MCEquipmentOf
    Stock <- MCStock
    MaxDeliveries = 3
SPECIFICATION DecisionSpec

INVARIANTS
    DurableBeforeSent
    OrdersWereDecided
    InTransitCoversOrders
