------------------------------ MODULE WorkItemMC -----------------------------
EXTENDS WorkItem
=============================================================================
