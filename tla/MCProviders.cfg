SPECIFICATION Spec
CONSTANTS
    lmstudio = lmstudio
    vllm = vllm
    local = local
    other = other
    remote = remote
    unknown = unknown
    t1 = t1
    Provider = {lmstudio, vllm}
    SeedOrder <- Order
    Endpoint = {local, other, remote}
    Remote = {remote}
    NoEndpoint = NoEndpoint
    Env <- Environments
    Task = {t1}
    NoRow = NoRow
    NoAdapter = NoAdapter
    NoHealth = NoHealth
    NoProbe = NoProbe
INVARIANTS TypeOK AdaptersMatch HealthIsCurrent
 
