----------------------------- MODULE RunStates -----------------------------
(***************************************************************************)
(* The statuses of a run and the legal moves between them, as             *)
(* src/octo/models.py declares them.  "absent" is a run that no row has    *)
(* been inserted for yet.                                                  *)
(***************************************************************************)

RunStatus == {"queued", "running", "awaiting_approval",
              "completed", "failed", "rejected", "cancelled"}

ALLOWED_TRANSITIONS ==
    {<<"queued", "running">>,
     <<"running", "completed">>,
     <<"running", "failed">>,
     <<"running", "awaiting_approval">>,
     <<"running", "queued">>,
     <<"awaiting_approval", "queued">>,
     <<"awaiting_approval", "rejected">>,
     <<"queued", "cancelled">>,
     <<"awaiting_approval", "cancelled">>}

\* A row's status, or the lack of a row.
RowStatus == RunStatus \cup {"absent"}

=============================================================================
