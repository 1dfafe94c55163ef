---------------------------- MODULE MCMemoryStore ----------------------------
(* Small instances of MemoryStore: a few calls on two response ids and two   *)
(* turn ids, chosen to collide.                                              *)
EXTENDS MemoryStore, TLC

CONSTANTS c1, c2, c3, r1, r2, t1, t2

Json(r, s) == [id |-> r, status |-> s]
Session(r, p) ==
  [response_id |-> r, parent_response_id |-> p, final_response_json |-> Json(r, "completed")]
Record(t, r, p, o) ==
  [turn_id |-> t, response_id |-> r, parent_response_id |-> p, outcome |-> o]

Complete(t, r) ==
  [op |-> "commit_completed", session |-> Session(r, "none"),
   record |-> Record(t, r, "none", "Completed")]
Fail(t, r) ==
  [op |-> "commit_terminal", response_id |-> r, response |-> Json(r, "failed"),
   record |-> Record(t, r, "none", "Failed")]

\* Commits whose arguments do not fit together.
Misfits ==
  {[Complete(t1, r1) EXCEPT !.record.response_id = r2],
   [Complete(t1, r1) EXCEPT !.record.parent_response_id = r2],
   [Complete(t1, r1) EXCEPT !.record.outcome = "Incomplete"],
   [Fail(t1, r1) EXCEPT !.response_id = r2],
   [Fail(t1, r1) EXCEPT !.record.outcome = "Completed"]}
Lookups ==
  {[op |-> "get", response_id |-> r1],
   [op |-> "get_response_json", response_id |-> r1],
   [op |-> "get_turn", turn_id |-> t1],
   [op |-> "count"]}
Overwrites ==
  {[op |-> "put", session |-> Session(r1, r2)],
   [op |-> "put_response_json", response_id |-> r1, response |-> Json(r1, "failed")],
   [op |-> "put_turn", record |-> Record(t1, r2, "none", "Failed")]}

\* Symmetric callers, for the runs without liveness.
CallerSymmetry == Permutations(Callers)

\* Duplicates of either id, refusals, and a lookup of each map of a commit.
CommitCalls ==
  {Complete(t1, r1), Complete(t2, r1), Complete(t1, r2), Fail(t1, r1), Fail(t2, r2),
   [op |-> "get", response_id |-> r1], [op |-> "get_response_json", response_id |-> r1]}

\* Every lock in every mode the service takes it in.
ReturnCalls ==
  {Complete(t1, r1), Fail(t1, r1),
   [op |-> "get", response_id |-> r1], [op |-> "get_response_json", response_id |-> r1]}

\* Every operation, with arguments that fit together and that do not.
AllCalls ==
  {Complete(t1, r1), Fail(t2, r1), Fail(t1, r1)} \cup Misfits \cup Lookups \cup Overwrites
=============================================================================
