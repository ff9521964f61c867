---------------------------- MODULE UrlLifecycle ----------------------------
(***************************************************************************)
(* What the metadata store promises about each URL: the state diagram of   *)
(* the crawl, as it can be read from the database file after a crash at    *)
(* any moment.  One step here is one commit, and one commit may make the   *)
(* effects of several statements durable at once, so a step may combine    *)
(* moves of the diagram that need nothing from a worker: a URL can be      *)
(* discovered and leased in one commit, but it cannot be leased and        *)
(* reported in one, because only a durable lease is handed out.            *)
(***************************************************************************)
CONSTANT Urls

VARIABLE phase

Phases == {"Absent", "Pending", "In_Progress", "Completed", "Retry", "Failed",
           "Terminal_Failed"}

\* The moves a commit can make durable.
Moves ==
       {<<"Absent", s>>      : s \in {"Pending", "In_Progress"}}
  \cup {<<"Pending", "In_Progress">>}
  \cup {<<"In_Progress", s>> : s \in Phases \ {"Absent", "In_Progress"}}
  \cup {<<"Retry", s>>       : s \in {"Pending", "In_Progress", "Failed"}}

Init == phase = [u \in Urls |-> "Absent"]

Commit ==
    /\ phase' \in [Urls -> Phases]
    /\ \A u \in Urls : \/ phase'[u] = phase[u]
                       \/ <<phase[u], phase'[u]>> \in Moves

Spec == Init /\ [][Commit]_phase
=============================================================================
