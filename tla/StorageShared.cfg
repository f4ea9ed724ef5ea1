SPECIFICATION Spec
CONSTANTS
  Uploads = {"u1", "u2"}
  Downloads = {"d1"}
  Deletes = {"x1", "x2"}
  Blocks = 2
  Faults = {"open", "remove", "ack", "receive", "transmit", "exit"}
CHECK_DEADLOCK FALSE
INVARIANTS
  TypeOK
  PartialIsUnlinked
  DownloadIsOneUpload
  StoredIsReadWhole
  ConfirmedOnce
  DirectoryIsSettled
