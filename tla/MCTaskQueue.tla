----------------------------- MODULE MCTaskQueue -----------------------------
(* Small task queues for TLC. *)
EXTENDS TaskQueueProperties, TLC

CONSTANTS j1, j2, j3, delete, dispatch, worker, sweep

Deletes     == {delete}
Dispatches  == {dispatch}
DeleteAndDispatch == {delete, dispatch}
None        == {}

OneJob   == {j1}
TwoJobs  == {j1, j2}
ThreeJobs == {j1, j2, j3}
Both     == {worker, sweep}
Worker   == {worker}

Interchangeable == Permutations(ThreeJobs) \cup Permutations(Both)
==============================================================================
