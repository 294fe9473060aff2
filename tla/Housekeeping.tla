----------------------------- MODULE Housekeeping -----------------------------
(***************************************************************************)
(* The housekeeping task (lobsterai/housekeep.rs) over the account pool:   *)
(* every minute the credential directory is read again and tokens that are *)
(* due are refreshed; on its own schedule a check-in pass visits every     *)
(* account (checkin_all, lobsterai/checkin.rs).  The steps on the pool are *)
(* the actions of Pool, which requests go on taking in between.            *)
(*                                                                         *)
(* Every call to the upstream ends by a timeout of 15 or 30 seconds, so    *)
(* its answer is one step, in which any answer may come.                   *)
(***************************************************************************)
EXTENDS Pool

CONSTANTS CheckinEnabled  (* config.checkin.enabled, one of these          *)

ASSUME HousekeepingAssumption == CheckinEnabled \in BOOLEAN

VARIABLES
  at,        (* where the task is in its loop                              *)
  todo,      (* the credentials left of the pass, the first is next        *)
  shutdown   (* a shutdown has been requested                              *)

taskVars == <<at, todo, shutdown>>
hvars    == <<vars, taskVars>>

Places == {"delay", "select", "reload", "refresh", "checkin", "retry", "credits", "stopped"}

\* The credentials a pass works through: a copy of the entries.
Snapshot == [i \in DOMAIN entries |-> Cred(entries[i])]

HInit == Init /\ at = "delay" /\ todo = << >> /\ shutdown = FALSE

-----------------------------------------------------------------------------
GoTo(place, left) == at' = place /\ todo' = left /\ UNCHANGED shutdown

\* After the last credential of a pass the task is back in its select.
Continue(place) ==
  GoTo(IF Tail(todo) = << >> THEN "select" ELSE place, Tail(todo))

StartPass(place) ==
  /\ GoTo(IF Snapshot = << >> THEN "select" ELSE place, Snapshot)
  /\ UNCHANGED vars

\* The delay is over, or the ticker of the check-in.
CheckinDue ==
  /\ at \in {"delay", "select"}
  /\ IF CheckinEnabled THEN StartPass("checkin")
     ELSE GoTo("select", << >>) /\ UNCHANGED vars

\* Mutant of Stop: the loop does not look at the shutdown signal.
StopInDelay ==
  /\ at = "delay" /\ shutdown
  /\ GoTo("stopped", << >>) /\ UNCHANGED vars

Stop ==
  /\ at \in {"delay", "select"} /\ shutdown
  /\ GoTo("stopped", << >>) /\ UNCHANGED vars

(***************************************************************************)
(* The refresh tick: prune, load_files, refresh_due.                       *)
(***************************************************************************)
\* Mutant of Rescan: nothing is read again while accounts are loaded.
RescanWhenEmpty ==
  \/ at = "select" /\ entries = << >> /\ Prune /\ GoTo("reload", << >>)
  \/ at = "reload" /\ (PruneState \/ Load) /\ UNCHANGED taskVars

\* Mutant of Rescan: the state of the accounts that were dropped is kept.
RescanWithoutCleaning ==
  \/ at = "select" /\ Prune /\ GoTo("reload", << >>)
  \/ /\ at = "reload" /\ hk.phase # "rest"
     /\ hk' = [phase |-> "rest", ids |-> {}]
     /\ entries' = LoadFiles(entries)
     /\ known' = known \cup CredsOf(entries')
     /\ UNCHANGED <<files, picking, healthVars, stickyVars, rr, taskVars>>

Rescan ==
  \/ at = "select" /\ Prune /\ GoTo("reload", << >>)
  \/ at = "reload" /\ (PruneState \/ Load) /\ UNCHANGED taskVars

StartRefresh == at = "reload" /\ hk.phase = "rest" /\ StartPass("refresh")

\* The credential of the pass gets new tokens, and the account of its file.
Renew == \E v \in Accounts : Refresh(Head(todo), v)

\* Not due, found fresh, or refreshed.
RefreshOk ==
  /\ at = "refresh"
  /\ Continue("refresh")
  /\ UNCHANGED vars \/ Renew

\* A failed refresh counts as a 401 of the account.
RefreshFails ==
  at = "refresh" /\ NoteStatus(Head(todo).uid) /\ Continue("refresh")

(***************************************************************************)
(* checkin_all: the check-in, one refresh and retry when unauthorized, and *)
(* the credits.  A check-in that needed the retry skips the credits.       *)
(***************************************************************************)
Checkin ==
  /\ at = "checkin"
  /\ \E next \in {"retry", "credits"} : GoTo(next, todo)
  /\ UNCHANGED vars

\* force_refresh, then the check-in again; on to the credits when it fails.
Retry ==
  /\ at = "retry"
  /\ \/ Renew /\ Continue("checkin")
     \/ UNCHANGED vars /\ GoTo("credits", todo)

FetchCredits ==
  /\ at = "credits"
  /\ Continue("checkin")
  /\ UNCHANGED vars \/ \E c \in CreditLevels : SetCredits(Head(todo).uid, c)

TaskStep ==
  \/ CheckinDue \/ Stop \/ Rescan \/ StartRefresh \/ RefreshOk \/ RefreshFails
  \/ Checkin \/ Retry \/ FetchCredits

-----------------------------------------------------------------------------
(***************************************************************************)
(* Requests meanwhile, the directory, and time.  What requests report of   *)
(* an account is left to Pool: the task reads nothing of it.               *)
(***************************************************************************)
Others ==
  \/ \E p \in Paths, c \in Contents : FileChange(p, c)
  \/ PickRetain
  \/ \E s \in Sessions \cup {NoSession}, m \in Models,
        u \in Accounts \cup {NoAccount} : PickSelect(s, m, u)
  \/ Tick

\* A request refreshes a credential, which the task may have in its pass.
OthersRefresh ==
  \E c \in known, v \in Accounts :
     /\ Refresh(c, v)
     /\ \/ todo' = [i \in DOMAIN todo |-> IF todo[i] = c THEN [c EXCEPT !.uid = v]
                                         ELSE todo[i]]
        \/ UNCHANGED todo
     /\ UNCHANGED <<at, shutdown>>

RequestShutdown ==
  /\ ~ shutdown /\ shutdown' = TRUE
  /\ UNCHANGED <<vars, at, todo>>

HNext ==
  \/ TaskStep
  \/ Others /\ UNCHANGED taskVars
  \/ OthersRefresh
  \/ RequestShutdown
  \/ at = "stopped" /\ UNCHANGED hvars

HSpec == HInit /\ [][HNext]_hvars

(***************************************************************************)
(* The runtime polls the task, calls end by their timeouts, and the select *)
(* takes its branches at random: each that is ready again and again is     *)
(* taken in the end.  Nothing is asked of requests or of the directory.    *)
(***************************************************************************)
HFairSpec == HSpec /\ WF_hvars(TaskStep) /\ SF_hvars(Stop) /\ SF_hvars(Rescan)

-----------------------------------------------------------------------------
HTypeOK ==
  /\ TypeOK
  /\ at \in Places /\ todo \in Seq(Credential) /\ shutdown \in BOOLEAN

(***************************************************************************)
(* The task and the requests use the pool as Pool allows: what holds of    *)
(* Pool holds here.  A report is of an account whose credential the task   *)
(* was given, however long ago, and a rescan cleans up before it loads     *)
(* (housekeep.rs, refresh_due, checkin_all).                               *)
(***************************************************************************)
ImplementsPool == Init /\ [][Next]_vars

(***************************************************************************)
(* A requested shutdown ends the task, whatever pass it is in.             *)
(***************************************************************************)
TaskStops == shutdown ~> at = "stopped"

(***************************************************************************)
(* An account whose file has come to stay is loaded without a restart, as  *)
(* long as the server runs: no check-in pass, no pick that drops entries   *)
(* of lost files, and no other change of the directory keeps it out        *)
(* (prune, load_files, housekeep.rs).  Only a file that was put in the     *)
(* place of another account's, which is still loaded, is not looked at.    *)
(***************************************************************************)
FileOf(p, u) ==
  /\ files[p] = u
  /\ \A i \in DOMAIN entries : entries[i].path = p => entries[i].uid = u

NewAccountsLoaded ==
  \A p \in Paths, u \in Accounts :
     <>[]FileOf(p, u) => <>(at = "stopped") \/ []<>(u \in Loaded)
=============================================================================
