SPECIFICATION Spec
CONSTANTS
    web = web
    api = api
    Ports = {web, api}
    Internal = {api}
    Early = {web}
    Clients = {c1}
    Subs = {s1}
    ConfigFiles = {}
    MaxSubs = 1
    MaxOps = 2
INVARIANT SubscribersKnowClients
CHECK_DEADLOCK FALSE
