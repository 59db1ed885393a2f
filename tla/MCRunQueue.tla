----------------------------- MODULE MCRunQueue -----------------------------
(* Small instances of RunQueue for TLC. *)
EXTENDS QueueWhy, TLC

CONSTANTS e1, s1, s2, we, ws, v1, v2, w1, w2, gpu

Lock(resource, mode, limit) == [resource |-> resource, mode |-> mode, limit |-> limit]

\* Runs of an exclusive and of a shared workflow on one resource.
MCWorkflowOf == [r \in Run |-> IF r = e1 THEN we ELSE ws]

MCSettingChoices ==
  {Lock(gpu, "exclusive", 1), Lock(gpu, "shared", 1), Lock(gpu, "shared", 2),
   Lock(NoResource, "shared", 1)}

MCSetting ==
  [c \in Workflow \cup Service |->
     CASE c = we -> Lock(gpu, "exclusive", 1)
       [] c = ws -> Lock(gpu, "shared", 2)
       [] c = v1 -> Lock(gpu, "shared", 1)
       [] c = v2 -> Lock(gpu, "exclusive", 1)]

\* The same with one run of each workflow at a time.
MCTightSetting == [c \in Workflow \cup Service |-> [MCSetting[c] EXCEPT !.limit = 1]]
=============================================================================
