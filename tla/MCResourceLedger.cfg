SPECIFICATION Spec
CONSTANTS
    home = home
    colony = colony
    ann = ann
    bob = bob
    Planets = {home, colony}
    Mooned = {home}
    Players = {ann, bob}
    OwnerOf <- MCOwnerOf
    Homes = {home}
    Starting = 1
    StorageCap = 2
    BonusBps = 1
    BPS = 1
    MaxBonus = 1
    MaxReserve = 2
    MaxStep = 1
    Slots = 2
    Together = FALSE
INVARIANTS TypeOK Conservation RiftsAreLocked ReserveBacked
