SPECIFICATION FairSpec
CONSTANTS
    o1 = o1
    o2 = o2
    o3 = o3
    p1 = p1
    None = None
    Stages = 1
    ReadsFile <- First
    Ops = {o1, o2, o3}
    Pdfs = {p1}
    Target <- OneDocument
PROPERTY JobSettles
