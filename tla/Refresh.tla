------------------------------- MODULE Refresh -------------------------------
(***************************************************************************)
(* Refreshing the token of one account (lobsterai/refresh.rs) and keeping  *)
(* it on disk (lobsterai/credential.rs).                                   *)
(*                                                                         *)
(* Tasks share one Credential: the housekeeping task calls ensure_fresh,   *)
(* requests that were answered 401 call force_refresh.  The refresh lock   *)
(* is tokio's, which is handed over in the order of arrival, so it is a    *)
(* queue whose head holds it.  Tokens are numbers in order of issue within *)
(* one login.  The server may give a new refresh token with a new access   *)
(* token and then honours the new one only: the least favourable server.   *)
(***************************************************************************)
EXTENDS Integers, Sequences

CONSTANTS Keepers,     (* tasks that call ensure_fresh                     *)
          Requests,    (* tasks that call force_refresh                    *)
          MaxLogins,   (* bound: logins in another process                 *)
          MaxIssued    (* bound: access tokens the server issues per login *)

Tasks  == Keepers \cup Requests
Logins == 0 .. MaxLogins

ASSUME RefreshAssumption ==
  MaxLogins \in Nat /\ MaxIssued \in Nat /\ Keepers \cap Requests = {}

VARIABLES
  mem,        (* CredentialData: login, access token, refresh token        *)
  disk,       (* the credential file                                       *)
  expiring,   (* needs_refresh of mem                                      *)
  lock_queue, (* refresh_lock: its holder and those waiting for it         *)
  pc,         (* where each task is in its call                            *)
  sent,       (* the tokens a task read when it began to refresh           *)
  reply,      (* what the server answered a task                           *)
  seen,       (* the tokens of mem when the task called                    *)
  issued,     (* server: access tokens issued, per login                   *)
  current,    (* server: the refresh token it honours, per login           *)
  unsettled   (* logins with a refresh call whose answer was not stored    *)

memVars    == <<mem, disk, expiring>>
callVars   == <<sent, reply, seen>>
serverVars == <<issued, current>>
vars == <<memVars, lock_queue, pc, callVars, serverVars, unsettled>>

FirstTokens(l) == [login |-> l, access |-> 0, refresh |-> 0]

Holds(t) == lock_queue # << >> /\ Head(lock_queue) = t

\* The caller gets its answer: the lock guard and the locals are dropped.
Leave(t) ==
  /\ lock_queue' = Tail(lock_queue)
  /\ pc' = [pc EXCEPT ![t] = "idle"]
  /\ sent' = [sent EXCEPT ![t] = FirstTokens(0)]
  /\ reply' = [reply EXCEPT ![t] = FirstTokens(0)]
  /\ seen' = [seen EXCEPT ![t] = FirstTokens(0)]

-----------------------------------------------------------------------------
Init ==
  /\ mem = FirstTokens(0) /\ disk = FirstTokens(0)
  /\ expiring \in BOOLEAN
  /\ lock_queue = << >>
  /\ pc = [t \in Tasks |-> "idle"]
  /\ sent = [t \in Tasks |-> FirstTokens(0)]
  /\ reply = [t \in Tasks |-> FirstTokens(0)]
  /\ seen = [t \in Tasks |-> FirstTokens(0)]
  /\ issued = [l \in Logins |-> 0] /\ current = [l \in Logins |-> 0]
  /\ unsettled = {}

\* ensure_fresh returns at once while the token is fresh; force_refresh waits.
Call(t) ==
  /\ pc[t] = "idle"
  /\ t \in Keepers => expiring
  /\ pc' = [pc EXCEPT ![t] = "queued"]
  /\ lock_queue' = Append(lock_queue, t)
  /\ seen' = [seen EXCEPT ![t] = mem]
  /\ UNCHANGED <<memVars, sent, reply, serverVars, unsettled>>

\* Mutants of MustRefresh: no double check; the double check in force_refresh.
NeverDoubleChecked(t) == TRUE
AlwaysDoubleChecked(t) == expiring

\* The double check under the lock, which force_refresh does not make.
MustRefresh(t) == t \in Keepers => expiring

AlreadyFresh(t) ==
  /\ pc[t] = "queued" /\ Holds(t)
  /\ ~ MustRefresh(t)
  /\ Leave(t)
  /\ UNCHANGED <<memVars, serverVars, unsettled>>

\* Mutant of ReadTokens: the tokens are those read before waiting for the lock.
ReadTokensAtCall(t) == sent' = [sent EXCEPT ![t] = seen[t]]

ReadTokens(t) == sent' = [sent EXCEPT ![t] = mem]

Send(t) ==
  /\ pc[t] = "queued" /\ Holds(t)
  /\ MustRefresh(t)
  /\ ReadTokens(t)
  /\ pc' = [pc EXCEPT ![t] = "calling"]
  /\ UNCHANGED <<memVars, lock_queue, reply, seen, serverVars, unsettled>>

(***************************************************************************)
(* The server.                                                             *)
(***************************************************************************)
\* The refresh token of an answer, the one sent when it carries none.
KeptOrNew(old, new, rotate) == IF rotate THEN new ELSE old

Grant(t, rotate) ==
  LET l == sent[t].login
  IN  /\ pc[t] = "calling"
      /\ sent[t].refresh = current[l] /\ issued[l] < MaxIssued
      /\ issued' = [issued EXCEPT ![l] = @ + 1]
      /\ current' = IF rotate THEN [current EXCEPT ![l] = issued'[l]] ELSE current
      /\ reply' = [reply EXCEPT ![t] = [login |-> l, access |-> issued'[l],
                       refresh |-> KeptOrNew(sent[t].refresh, issued'[l], rotate)]]
      /\ pc' = [pc EXCEPT ![t] = "answered"]
      /\ UNCHANGED <<memVars, lock_queue, sent, seen, unsettled>>

\* A non-2xx status, a business error, or an answer without an access token.
Reject(t) ==
  /\ pc[t] = "calling"
  /\ Leave(t)
  /\ UNCHANGED <<memVars, serverVars, unsettled>>

\* Mutant of GiveUp: the request has no timeout.
WaitForever(t) == FALSE

\* The request times out, or the transport fails before or after the server.
GiveUp(t) ==
  /\ pc[t] \in {"calling", "answered"}
  /\ Leave(t)
  /\ unsettled' = unsettled \cup {sent[t].login}
  /\ UNCHANGED <<memVars, serverVars>>

(***************************************************************************)
(* apply_refresh holds the data lock, so no task reads mem between its two *)
(* halves; the process may still die there.                                *)
(***************************************************************************)
Unread == \A t \in Tasks : pc[t] # "persisted"

\* Mutant of Persist: memory is updated before the file.
PersistLast(t) ==
  /\ pc[t] = "answered"
  /\ mem' = reply[t] /\ expiring' = FALSE
  /\ pc' = [pc EXCEPT ![t] = "persisted"]
  /\ UNCHANGED <<disk, lock_queue, callVars, serverVars, unsettled>>

Persist(t) ==
  /\ pc[t] = "answered"
  /\ disk' = reply[t]
  /\ pc' = [pc EXCEPT ![t] = "persisted"]
  /\ UNCHANGED <<mem, expiring, lock_queue, callVars, serverVars, unsettled>>

PersistFails(t) ==
  /\ pc[t] = "answered"
  /\ Leave(t)
  /\ unsettled' = unsettled \cup {sent[t].login}
  /\ UNCHANGED <<memVars, serverVars>>

Publish(t) ==
  /\ pc[t] = "persisted"
  /\ mem' = reply[t] /\ expiring' = FALSE
  /\ Leave(t)
  /\ UNCHANGED <<disk, serverVars, unsettled>>

\* The file was replaced by one that does not parse with the new tokens in it.
PublishFails(t) ==
  /\ pc[t] = "persisted"
  /\ Leave(t)
  /\ unsettled' = unsettled \cup {sent[t].login}
  /\ UNCHANGED <<memVars, serverVars>>

(***************************************************************************)
(* The environment.                                                        *)
(***************************************************************************)
Expire ==
  /\ ~ expiring /\ expiring' = TRUE
  /\ UNCHANGED <<mem, disk, lock_queue, pc, callVars, serverVars, unsettled>>

\* lobsterai-proxy login, in another process: the loaded entry is not re-read.
Login(l) ==
  /\ l = disk.login + 1 /\ l > mem.login
  /\ disk' = FirstTokens(l)
  /\ UNCHANGED <<mem, expiring, lock_queue, pc, callVars, serverVars, unsettled>>

\* The process dies and starts again from the file.
Restart ==
  /\ mem' = disk /\ expiring' \in BOOLEAN
  /\ lock_queue' = << >>
  /\ pc' = [t \in Tasks |-> "idle"]
  /\ sent' = [t \in Tasks |-> FirstTokens(0)]
  /\ reply' = [t \in Tasks |-> FirstTokens(0)]
  /\ seen' = [t \in Tasks |-> FirstTokens(0)]
  /\ unsettled' = unsettled \cup
       {sent[t].login : t \in {u \in Tasks : pc[u] \in {"calling", "answered"}}}
  /\ UNCHANGED <<disk, serverVars>>

Next ==
  \/ \E t \in Tasks :
       \/ Unread /\ (Call(t) \/ AlreadyFresh(t) \/ Send(t))
       \/ \E rotate \in BOOLEAN : Grant(t, rotate)
       \/ Reject(t) \/ GiveUp(t) \/ Persist(t) \/ PersistFails(t)
       \/ Publish(t) \/ PublishFails(t)
  \/ Expire \/ Restart
  \/ \E l \in Logins : Login(l)

(***************************************************************************)
(* A task that holds the lock goes on; the request ends within 15 seconds; *)
(* file operations end.  Nothing is assumed of the server.                 *)
(***************************************************************************)
Fairness ==
  \A t \in Tasks : /\ WF_vars(Unread /\ (AlreadyFresh(t) \/ Send(t)))
                   /\ WF_vars(GiveUp(t))
                   /\ WF_vars(Publish(t))

Spec     == Init /\ [][Next]_vars
FairSpec == Spec /\ Fairness

-----------------------------------------------------------------------------
Numbers == 0 .. MaxIssued
Tokens  == [login : Logins, access : Numbers, refresh : Numbers]

TypeOK ==
  /\ mem \in Tokens /\ disk \in Tokens
  /\ expiring \in BOOLEAN
  /\ lock_queue \in Seq(Tasks)
  /\ pc \in [Tasks -> {"idle", "queued", "calling", "answered", "persisted"}]
  /\ sent \in [Tasks -> Tokens] /\ reply \in [Tasks -> Tokens]
  /\ seen \in [Tasks -> Tokens]
  /\ issued \in [Logins -> Numbers] /\ current \in [Logins -> Numbers]
  /\ unsettled \subseteq Logins

(***************************************************************************)
(* A crash loses no token that was in use: as long as the file is of the   *)
(* login in memory, its tokens are at least as new (apply_refresh writes   *)
(* the file before it replaces the data other tasks read).                 *)
(***************************************************************************)
DiskAtLeastMemory ==
  disk.login = mem.login =>
    disk.access >= mem.access /\ disk.refresh >= mem.refresh

(***************************************************************************)
(* The proxy does not log itself out: while the answer of every call of a  *)
(* login was stored, the refresh token sent is the one the server honours, *)
(* however many tasks refresh, wait, are restarted or find the file        *)
(* replaced (force_refresh, ensure_fresh, perform_refresh).                *)
(***************************************************************************)
NeverSendsSpentToken ==
  \A t \in Tasks : pc[t] = "calling" /\ sent[t].login \notin unsettled
                     => sent[t].refresh = current[sent[t].login]

(***************************************************************************)
(* A rejected request that is told the refresh succeeded has a token newer *)
(* than the rejected one, although the rejected one looked fresh: a        *)
(* rejected token need not be near its expiry (force_refresh).             *)
(***************************************************************************)
ToldOk(t) == Publish(t) \/ AlreadyFresh(t)

OkIsNewer ==
  [][\A t \in Requests : ToldOk(t) => mem'.access > seen[t].access]_vars

(***************************************************************************)
(* A keeper replaces a token only while it is the expiring one it waited   *)
(* with: no refresh by a request, which may end at any time around the     *)
(* keeper's own call, is followed by a second one of the fresh token       *)
(* (ensure_fresh, and the lock held across perform_refresh).               *)
(***************************************************************************)
KeeperSharesRefresh == [][\A t \in Keepers : Publish(t) => expiring]_vars

(***************************************************************************)
(* Every call returns: no server, however silent, and no crowd of other    *)
(* callers keeps a task waiting for ever (refresh_lock, the 15 s timeout). *)
(***************************************************************************)
EveryCallReturns == \A t \in Tasks : pc[t] # "idle" ~> pc[t] = "idle"

(***************************************************************************)
(* What docs/LOBSTERAI_AUTH.md says of requests that fail together:        *)
(* concurrent failures share one refresh call (force_refresh).             *)
(***************************************************************************)
FailuresShareRefresh ==
  [][\A t \in Requests :
       pc[t] = "queued" /\ pc'[t] = "calling" => mem.access = seen[t].access]_vars
==============================================================================
