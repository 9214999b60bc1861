SPECIFICATION Spec
CONSTANTS
    o1 = o1
    o2 = o2
    o3 = o3
    p1 = p1
    None = None
    Stages = 3
    ReadsFile <- FirstTwo
    Ops = {o1, o2}
    Pdfs = {p1}
    Target <- OneDocument
INVARIANT UploadBelongsToRun
