CONSTANTS
    Absent = Absent
    Origins = {s1, s2, p1}
    Secure = {s1, s2}
    MaxRedirects = 3
    MaxVersion = 2
    ChunkSize = 2
    MaxChunk = 3
    MaxInput = 6
    Users = {u1, u2}
    Files = {f1, f2}
    Sized = {f1}
    FileLength = 2
    None = None
    MaxBegun = 2
    Threads = {t1, t2}
    Jars = {j1, j2}
    Domains = {d1, d2, d3}
    Nobody = Nobody
SPECIFICATION PartsSpec
INVARIANTS
    TypeOK
    UploadedOnce
    OneConnectionPerChain
    LinesUncut
    DeflateDetected
    TruncationRefused
    PipelineExact
    UploadExact
    SeenAtOnce
    NoCircularWait
PROPERTIES
    CredentialsStayHome
    ReadFreezes
