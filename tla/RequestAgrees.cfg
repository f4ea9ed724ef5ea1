SPECIFICATION Spec
CONSTANTS
  NameLengths = {1, 254, 255, 256}
  Sizes = {0, 7, 8, 511, 512, 513, 1428, 65464, 65465, 65535, 65536, 65544, 200000}
CHECK_DEADLOCK FALSE
INVARIANTS
  TypeOK
  RequestFits
  EndsAgree
  NothingRefused
  
