SPECIFICATION FileSpec
CONSTANTS
    m1 = m1
    m2 = m2
    m3 = m3
    Manifests <- MCManifests
    Empty = Empty
    NotLoaded = NotLoaded
    Absent = Absent
    Torn = Torn
INVARIANTS
    FileTypeOK
    NoTornGeneration
PROPERTIES
    AtomicWrite
