---------------------------- MODULE MCAgentTools ----------------------------
(* Intents of one agent: two results and a correction, a mark, two experiments
   with the same slug and one without, a write-up, a run, pins, statuses, a
   batch of two contents, one named twice and the other registered by other
   tools too. *)
EXTENDS AgentTools, TLC

MCRuns == {"run1", "run2"}
MCNames == {"loss"}

MCToolOf ==
  [ first      |-> [tool |-> "submit_result", run |-> "run1", name |-> "loss"],
    second     |-> [tool |-> "submit_result", run |-> "run1", name |-> "loss"],
    other      |-> [tool |-> "submit_result", run |-> "run2", name |-> "loss"],
    mark       |-> [tool |-> "mark_result_superseded"],
    create     |-> [tool |-> "create_experiment", slug |-> "cn-7"],
    again      |-> [tool |-> "create_experiment", slug |-> "cn-7"],
    generated  |-> [tool |-> "create_experiment", slug |-> NULL],
    writeup    |-> [tool |-> "append_writeup"],
    enqueue    |-> [tool |-> "enqueue_run"],
    best       |-> [tool |-> "set_pin"],
    latest     |-> [tool |-> "set_pin"],
    running    |-> [tool |-> "set_run_status", value |-> "running"],
    cancel     |-> [tool |-> "cancel_run", value |-> "cancelled"],
    wrapup     |-> [tool |-> "update_experiment_status"],
    conclusion |-> [tool |-> "record_experiment_conclusion"],
    batch      |-> [tool |-> "upload_artifacts_batch", run_id |-> "run1",
                     experiment_slug |-> NULL, items |-> <<"code", "data", "code">>],
    upload     |-> [tool |-> "upload_artifact_to_drive", run_id |-> "run2",
                     experiment_slug |-> NULL, items |-> <<"data">>],
    pointer    |-> [tool |-> "register_artifact", run_id |-> "run1",
                     experiment_slug |-> NULL, items |-> <<"data">>],
    orphan     |-> [tool |-> "register_artifact", run_id |-> NULL,
                     experiment_slug |-> NULL, items |-> <<"data">>],
    commit     |-> [tool |-> "register_git_artifact", run_id |-> NULL,
                     experiment_slug |-> "cn-7", items |-> <<"commit">>],
    weights    |-> [tool |-> "register_hf_artifact", run_id |-> "run2",
                     experiment_slug |-> NULL, items |-> <<"weights">>] ]

MCIntents == DOMAIN MCToolOf

\* One agent reports and corrects results, one sets up an experiment, one
\* repoints and closes what others read, one registers artifacts.
MCPlans ==
  { {"first", "second", "other", "mark"},
    {"create", "again", "generated", "writeup", "enqueue"},
    {"best", "latest", "running", "cancel", "wrapup", "conclusion"},
    {"batch", "upload", "pointer", "orphan", "commit", "weights"} }

SymmetricRequests == Permutations(Requests)
=============================================================================
