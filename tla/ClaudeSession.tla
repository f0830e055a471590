--------------------------- MODULE ClaudeSession ---------------------------
(***************************************************************************)
(* What the scripts of src/frontend/scripts share: a session of claude -p   *)
(* run to its end, and the reading of how it ended.  The scripts state that *)
(* their way of calling is that of review.mjs, which the rows point at.     *)
(***************************************************************************)

\* The exit codes, by name.
EXIT == {"OK", "UNKNOWN", "TOKEN_MISSING", "CLI_MISSING", "AUTH_FAILED",
         "RATE_LIMITED", "NO_TARGET", "GIT", "CANCELLED", "PUSH_FAILED",
         "ISSUE_MISSING", "GIST_FAILED"}

\* What is known of a session at its end.  words: what the last answer and
\* the end of stderr talk about.
Outcome ==
    [spawned: BOOLEAN,
     result: {"none", "success", "error"},     \* the last event, and its is_error
     exitCode: {0, 1},
     status: {"none", "auth", "limit"},        \* api_error_status
     rateLimitHit: BOOLEAN,
     words: SUBSET {"login", "limit"}]

\* The ways a session ends: it does not start, it succeeds, it ends without a
\* result, or it fails, with or without the cause in the status or the text.
Outcomes ==
    {o \in Outcome :
        /\ ~o.spawned => o.result = "none" /\ o.exitCode = 1 /\ o.status = "none"
                         /\ ~o.rateLimitHit /\ o.words = {}
        /\ o.result = "success" => o.exitCode = 0 /\ o.status = "none"
        /\ o.result = "none" => o.status = "none"}

\* What the scripts are to tell apart: why the session failed.
Cause(o) ==
    CASE o.status = "auth" -> "AUTH_FAILED"
      [] o.status = "limit" -> "RATE_LIMITED"
      [] OTHER -> "other"

Succeeded(o) == o.result = "success" /\ o.exitCode = 0

\* classifyFailure; "OK" is its null.
ClassifyFailure(o) ==
    CASE ~o.spawned -> "CLI_MISSING"
      [] o.spawned /\ Succeeded(o) -> "OK"
      [] o.spawned /\ ~Succeeded(o) /\ (o.status = "auth" \/ "login" \in o.words) -> "AUTH_FAILED"
      [] o.spawned /\ ~Succeeded(o) /\ o.status # "auth" /\ "login" \notin o.words
         /\ (o.status = "limit" \/ o.rateLimitHit \/ "limit" \in o.words) -> "RATE_LIMITED"
      [] OTHER -> IF o.result = "error" \/ o.exitCode # 0 THEN "UNKNOWN" ELSE "OK"
=============================================================================
