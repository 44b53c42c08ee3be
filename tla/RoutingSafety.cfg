\* Two readers and two writers of the settings, with failures of Redis and the database;
\* then every policy under every call.
SPECIFICATION MCSpec
CONSTANTS
    Callers = {c1, c2}
    Writers = {w1, w2}
    MaxWrites = 2
    MaxErrors = 1
    Ttl = 2
    Patience = 1
    Policies <- MCPolicies
    Options <- MCOptions
    Deployments <- MCDeployments
    DefaultProvider = "groq"
    BaseMode = "enforce"
SYMMETRY Symmetry
INVARIANTS TypeOK SettingsTakeHold StaleOnlyExcused ObeysRecentPolicy
