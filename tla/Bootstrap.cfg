SPECIFICATION Spec
CONSTANTS
    Entries = {v1}
    Assets = {o1}
    ConfigKeys = {k1}
    NoRow = NoRow
    Roles = {r1, r2}
    EventIds = {demo}
    Pushers = {p1, p2}
    DemoEvent = demo
    DemoAsset = o1
    Absent = Absent
    Commands <- MCCommands
    Crowds <- MCCrowds
    MaxResets = 2
    MaxLoads = 2
    MaxLogins = 2
INVARIANTS
    SeededAdminLogsIn
    StraysHaveCauses
    SummaryClosesDemo
    NoEntryMissed
PROPERTIES
    SeedKeepsWhatPeopleSet
