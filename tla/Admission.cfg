\* One service of either kind; every request, Secret change and profile change is one of MaxChanges.
CONSTANTS
    Kinds = {"isvc", "llm"}
    s1 = s1
    s2 = s2
    h1 = h1
    h2 = h2
    t1 = t1
    t2 = t2
    None = None
    Absent = Absent
    Own = Own
    Secrets = {s1, s2}
    SecretSpecs <- MCSecretSpecs
    Profiles = {h1, h2}
    Namespaces = {"home", "shared"}
    Home = "home"
    ProfileSpecs <- MCProfileSpecs
    FirstSecrets <- MCFirstSecrets
    FirstProfiles <- MCFirstProfiles
    Manifests <- MCManifests
    Edits <- MCEdits
    Templates = {t1}
    MaxChanges = 3
SPECIFICATION FairSpec
CHECK_DEADLOCK FALSE
INVARIANTS ConnectionServed NoForeignConnection  AdmissionSettles UsersValuesKept
PROPERTIES DeletionCompletes
