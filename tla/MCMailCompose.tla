--------------------------- MODULE MCMailCompose ---------------------------
EXTENDS MailCompose
MCStored == {"d", "r"}
MCKind == [m \in MCStored |-> IF m = "d" THEN "draft" ELSE "received"]
MCInline == [m \in MCStored |-> {IF m = "d" THEN "pd" ELSE "pr"}]
MCFiles == [m \in MCStored |-> IF m = "d" THEN {"fd"} ELSE {}]
=============================================================================
