SPECIFICATION FairSpec
CONSTANTS
    web = web
    api = api
    Ports = {web, api}
    Internal = {api}
    Clients = {c1}
    Subs = {s1}
    ConfigFiles <- Files
    MaxSubs = 1
    Early = {web}
    MaxOps = 2
INVARIANTS SubscribersCurrent UserTunnelKept AutoOffClosesAll TypeOK
PROPERTIES Settles
ACTION_CONSTRAINT CancelIdle
CHECK_DEADLOCK FALSE
