SPECIFICATION FairSpec
CONSTANTS
    web = web
    api = api
    Ports = {web, api}
    Internal = {api}
    Early = {}
    Clients = {c1}
    Subs = {}
    ConfigFiles = {}
    MaxSubs = 1
    MaxOps = 2
PROPERTIES KeepsRunning
CHECK_DEADLOCK FALSE
