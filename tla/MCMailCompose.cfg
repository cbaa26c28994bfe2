\* A stored draft, a received mail with one inline image, the bounds of the
\* compose window.
SPECIFICATION ComposeSpec
CONSTANTS
  StoredMails <- MCStored
  StoredKind <- MCKind
  InlineOf <- MCInline
  FilesOf <- MCFiles
  UploadIds = {"u1", "u2"}
  MaxImages = 2
  MaxFiles = 4
  MaxComposeActs = 5
INVARIANTS
  DraftIsItsOwn
CHECK_DEADLOCK FALSE
