--------------------------- MODULE MCUserMailbox ---------------------------
EXTENDS UserMailbox
MCMails == 1..2
MCOwner == [m \in MCMails |-> "a"]
MCHome == [m \in MCMails |-> "inbox"]
MCUsers == {"a"}
MCFolders == {"inbox", "trash", "localArchive"}
=============================================================================
