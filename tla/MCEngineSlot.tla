---------------------------- MODULE MCEngineSlot ----------------------------
\* Instances of EngineSlot for TLC: which requests meet, and on which thread.
EXTENDS EngineSlot, TLC

CONSTANTS t1, t2, t3, a, b, c

EngineThreads == {t1, t2, t3}
EngineMix(k1, k2, k3, idles) ==
  LET kinds == t1 :> k1 @@ t2 :> k2 @@ t3 :> k3 @@ Watcher :> idles
  IN  [t \in Actors |-> [k \in Kinds |-> IF k \in kinds[t] THEN 1 ELSE 0]]
EngineBudgets ==
  {EngineMix({"decodes"}, {"loads"}, {"unloads"}, {}),
   EngineMix({"decodes"}, {"loads", "warmups"}, {}, {}),
   EngineMix({"decodes", "loads"}, {"loads"}, {}, {}),
   EngineMix({"decodes", "loads"}, {"decodes"}, {}, {}),
   EngineMix({"decodes"}, {"loads"}, {}, {"idles"}),
   EngineMix({"warmups"}, {"loads"}, {}, {"idles"})}
SessionBudgets == {EngineMix({"decodes"}, {"loads"}, {}, {})}

=============================================================================
