---- MODULE MCStateFile ----
EXTENDS StateFile
CONSTANTS tui, dash, main, worker, hub, a, b
MCInstances == {tui, dash}
MCThreads == {main, worker, hub}
MCHome == [t \in MCThreads |-> IF t = hub THEN dash ELSE tui]
MCInitially == {[k \in Keys |-> Absent], [k \in Keys |-> a]}
MCDefaults == [i \in MCInstances |-> [k \in Keys |-> IF k = "id" THEN (IF i = tui THEN a ELSE b) ELSE Absent]]
====
