\* Only "SPS or PPS" against "picture" matters to where the indices go.
CONSTANTS
  CAP = 4
  sps = config
  pps = config
  idr = picture
  frame = picture
  Sps = config
  Pps = config
  Idr = picture
  Frame = picture
  Values <- AllKinds
  Blank = blank
  Producer = producer
  Consumer = consumer
SPECIFICATION AppSpec
INVARIANT NothingLost
