CONSTANTS
    Absent = Absent
    Origins = {s1, s2, p1}
    Secure = {s1, s2}
    MaxRedirects = 2
    MaxVersion = 2
SPECIFICATION ClientSpec
PROPERTIES
    OwnHeadersFresh
