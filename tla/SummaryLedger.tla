--------------------------- MODULE SummaryLedger ---------------------------
(***************************************************************************)
(* What the Discord monitor promises about the lines of attacker sessions, *)
(* without clusters, queues, governors, retries or restarts.  STATE_PATH   *)
(* has taken in the log up to a line; every session line below it is open, *)
(* which means that a restart still leads to a report of it, or it was     *)
(* reported or given up; and no line is in two reports.                    *)
(***************************************************************************)
EXTENDS Integers

VARIABLES
  lines,     \* session lines in the log, by number
  recorded,  \* the last line STATE_PATH has taken in
  open,      \* lines STATE_PATH still leads to a report of
  reports,   \* the sets of lines that were reported, under increasing numbers
  dropped    \* lines given up

Reported == UNION {reports[n] : n \in DOMAIN reports}

-----------------------------------------------------------------------------

Init ==
  /\ lines = {}
  /\ recorded = 0
  /\ open = {}
  /\ reports = [r \in {} |-> {}]
  /\ dropped = {}

\* The log grows beyond what is recorded.
LineLogged ==
  /\ \E n \in lines' : n > recorded /\ lines' = lines \cup {n}
  /\ UNCHANGED <<recorded, open, reports, dropped>>

\* Lines are recorded and opened, in the order of the log; open lines are
\* closed only when they were reported or are given up, and stay closed.
Record ==
  /\ recorded' >= recorded
  /\ dropped \subseteq dropped'
  /\ LET new == {n \in lines : recorded < n /\ n <= recorded'}
     IN /\ open' \subseteq open \cup new
        /\ (open \cup new) \ open' \subseteq Reported \cup dropped'

\* A report goes out while its lines are open, and none was reported before.
Report ==
  \E r \in DOMAIN reports' :
    /\ DOMAIN reports' = DOMAIN reports \cup {r}
    /\ \A s \in DOMAIN reports : s < r /\ reports'[s] = reports[s]
    /\ reports'[r] \subseteq open'
    /\ reports'[r] \cap Reported = {}

Next ==
  \/ LineLogged
  \/ Record /\ (Report \/ UNCHANGED reports) /\ UNCHANGED lines

Spec == Init /\ [][Next]_<<lines, recorded, open, reports, dropped>>

=============================================================================
