SPECIFICATION LiveSpec
CONSTANTS
    Ids = {i1, i2}
    Pcs = {p1, p2}
    NoId = noId
    NoPc = noPc
    Main = main
    MaxOps = 8
PROPERTIES LostClientLeaves LostDriverLetsGo OfferSettles
