-------------------------------- MODULE Pool --------------------------------
(***************************************************************************)
(* The account pool (lobsterai/pool.rs): the entries loaded from the       *)
(* credential directory, what the pool has learned of each account, the    *)
(* sticky-session table, and the choice of the account for a request.      *)
(*                                                                         *)
(* The pool is shared by request tasks and by the housekeeping task.  A    *)
(* critical section of a lock is one action.  pick and prune hold two      *)
(* locks one after the other, so each is two actions with whatever other   *)
(* tasks do in between.  Callers are the most general ones: any outcome    *)
(* may be reported of, and any refresh may end for, a credential that was  *)
(* ever handed out.                                                        *)
(*                                                                         *)
(* Time passes by Tick.  An Instant is represented by its distance to now: *)
(* a cooldown by the ticks it has left, a binding by its age.              *)
(***************************************************************************)
EXTENDS Integers, Sticky

CONSTANTS Models,         (* model names                                   *)
          NPaths,         (* credential files are 1 .. NPaths, sorted      *)
          NoFile,         (* content of a path where there is no file      *)
          BadFile,        (* content of a file that does not parse         *)
          FileChanges,    (* <<path, content>> the environment may write   *)
          NoSession,      (* a request without a session fingerprint       *)
          NoAccount,      (* pick found no account                         *)
          CredCooldown,   (* limits.cred_cooldown_secs, in ticks           *)
          HardCooldown,   (* limits.hard_credit_cooldown_secs, in ticks    *)
          ModelCooldown,  (* limits.model_cooldown_secs.max(1), in ticks   *)
          ErrThreshold,   (* the literal 3 of note_error_threshold         *)
          CreditLevels,   (* credits profile-summary may report            *)
          Outcomes,       (* outcomes callers report, of AllOutcomes       *)
          RrModulus,      (* usize wraps at 2^64                           *)
          MaxPicking      (* bound: callers between the two halves of pick *)

AllOutcomes == {"status", "rate", "hard", "error"}
Paths       == 1 .. NPaths
Contents    == Accounts \cup {NoFile, BadFile}
CoolKinds   == {"HardCredit", "ErrThreshold"}

ASSUME PoolAssumption ==
  /\ NPaths \in Nat /\ MaxPicking \in Nat
  /\ NoFile \notin Accounts /\ BadFile \notin Accounts
  /\ FileChanges \subseteq Paths \X Contents
  /\ NoSession \notin Sessions /\ NoAccount \notin Accounts
  /\ CredCooldown \in Nat /\ HardCooldown \in Nat
  /\ ModelCooldown \in Nat \ {0} /\ ErrThreshold \in Nat \ {0}
  /\ CreditLevels \subseteq Int /\ Outcomes \subseteq AllOutcomes
  /\ RrModulus \in Nat \ {0}

VARIABLES
  files,        (* path -> what the credential directory holds there       *)
  entries,      (* Pool.entries                                            *)
  known,        (* credentials some task may still hold                    *)
  hk,           (* where the housekeeping task is, and the ids prune holds *)
  picking,      (* callers of pick that have dropped the entries lock      *)
  fail_until,   (* account -> kind -> ticks left                           *)
  model_fail,   (* account -> model -> ticks left, Never without an entry  *)
  credits,      (* account -> credits, Unknown without an entry            *)
  err_counts,   (* account -> errors since the last cooldown               *)
  sticky,       (* PoolState.sticky                                        *)
  sticky_order, (* PoolState.sticky_order                                  *)
  rr            (* PoolState.rr                                            *)

rosterVars == <<files, entries, known, hk, picking>>
healthVars == <<fail_until, model_fail, credits, err_counts>>
stickyVars == <<sticky, sticky_order>>
vars == <<rosterVars, healthVars, stickyVars, rr>>

Never   == -1
Unknown == -1

Table       == [map |-> sticky, order |-> sticky_order]
SetTable(t) == sticky' = t.map /\ sticky_order' = t.order

UidsOf(es)  == {es[i].uid : i \in DOMAIN es}
PathsOf(es) == {es[i].path : i \in DOMAIN es}
Loaded      == UidsOf(entries)

\* A credential is the file it was read from and the account it is of by now.
Cred(e)     == [path |-> e.path, uid |-> e.uid]
CredsOf(es) == {Cred(es[i]) : i \in DOMAIN es}
Held        == {c.uid : c \in known}

(***************************************************************************)
(* Reading the credential directory.                                       *)
(***************************************************************************)
\* entries.retain(is_file): an unreadable file still is a file.
OnDisk(es) == Compact(es, {i \in DOMAIN es : files[es[i].path] # NoFile})

\* Paths of parsable files that repeat neither a loaded path nor a loaded uid.
Loadable(es) == {p \in Paths : /\ files[p] \in Accounts
                               /\ p \notin PathsOf(es)
                               /\ files[p] \notin UidsOf(es)}

\* Mutant of Fresh: uids are compared with the loaded ones only.
FreshWithRepeats(es) == Loadable(es)

\* load_files walks the sorted paths: the first file of a uid wins.
Fresh(es) == {p \in Loadable(es) :
                \A q \in Loadable(es) : q < p => files[q] # files[p]}

LoadFiles(es) ==
  LET f == Enumerate(Fresh(es), NPaths)
  IN  es \o [i \in DOMAIN f |->
                [path |-> f[i], uid |-> files[f[i]], own |-> TRUE]]

(***************************************************************************)
(* apply_refresh puts the new tokens into what the file holds by then and  *)
(* takes the credential from it again.  A nested file keeps its account,   *)
(* which is that of whoever replaced it; a flat one gets the account of    *)
(* the credential, as does a file that is gone or is no JSON.  Other JSON  *)
(* may name any account once it has a token.                               *)
(***************************************************************************)
Rewritten(content, u) ==
  IF content = BadFile THEN Accounts ELSE {u} \cup ({content} \ {NoFile})

\* The credential is shared: its entry is of account v from now on.
Renewed(es, c, v) ==
  [i \in DOMAIN es |->
     IF Cred(es[i]) = c
     THEN [es[i] EXCEPT !.uid = v, !.own = @ /\ v = c.uid]
     ELSE es[i]]

(***************************************************************************)
(* Health and rank of an account.                                          *)
(***************************************************************************)
GloballyHealthy(u) == \A k \in CoolKinds : fail_until[u][k] = 0
ModelHealthy(u, m) == model_fail[u][m] <= 0
Healthy(u, m)      == GloballyHealthy(u) /\ ModelHealthy(u, m)

Candidates(m) ==
  Compact(entries, {i \in DOMAIN entries : Healthy(entries[i].uid, m)})

\* The stable sort by credits keeps the entries' order within the top rank.
Top(m) ==
  LET c == Candidates(m)
  IN  Compact(c, {i \in DOMAIN c :
                    \A j \in DOMAIN c : credits[c[j].uid] <= credits[c[i].uid]})

\* Mutant of StickyServes: the binding is followed without asking for health.
StickyServesBlindly(t, s, m) == s \in Keys(t) /\ t.map[s].id \in Loaded

\* The caller's binding, when the account it names can serve the model.
StickyServes(t, s, m) ==
  /\ s \in Keys(t)
  /\ t.map[s].id \in Loaded
  /\ Healthy(t.map[s].id, m)

-----------------------------------------------------------------------------
Init ==
  /\ files \in [Paths -> Contents]
  /\ entries = LoadFiles(<< >>)
  /\ known = CredsOf(entries)
  /\ hk = [phase |-> "rest", ids |-> {}]
  /\ picking = 0
  /\ fail_until = [u \in Accounts |-> [k \in CoolKinds |-> 0]]
  /\ model_fail = [u \in Accounts |-> [m \in Models |-> Never]]
  /\ credits = [u \in Accounts |-> Unknown]
  /\ err_counts = [u \in Accounts |-> 0]
  /\ sticky = EmptyTable.map /\ sticky_order = EmptyTable.order
  /\ rr = 0

\* A user, or a login in another process, writes or deletes a file.
FileChange(p, c) ==
  /\ <<p, c>> \in FileChanges
  /\ files' = [files EXCEPT ![p] = c]
  /\ UNCHANGED <<entries, known, hk, picking, healthVars, stickyVars, rr>>

(***************************************************************************)
(* One pass of the housekeeping task: prune, then load_files.              *)
(***************************************************************************)
\* Mutant of Prune: the wrong half of the accounts is forgotten.
PruneForgetsKept ==
  /\ hk.phase = "rest"
  /\ LET kept == OnDisk(entries)
     IN  /\ entries' = kept
         /\ hk' = IF Len(kept) # Len(entries)
                  THEN [phase |-> "clean", ids |-> Loaded \ UidsOf(kept)]
                  ELSE [phase |-> "load", ids |-> {}]
  /\ UNCHANGED <<files, known, picking, healthVars, stickyVars, rr>>

Prune ==
  /\ hk.phase = "rest"
  /\ LET kept == OnDisk(entries)
     IN  /\ entries' = kept
         /\ hk' = IF Len(kept) # Len(entries)
                  THEN [phase |-> "clean", ids |-> UidsOf(kept)]
                  ELSE [phase |-> "load", ids |-> {}]
  /\ UNCHANGED <<files, known, picking, healthVars, stickyVars, rr>>

PruneState ==
  /\ hk.phase = "clean"
  /\ hk' = [phase |-> "load", ids |-> {}]
  /\ fail_until' = [u \in Accounts |-> IF u \in hk.ids THEN fail_until[u]
                                       ELSE [k \in CoolKinds |-> 0]]
  /\ model_fail' = [u \in Accounts |-> IF u \in hk.ids THEN model_fail[u]
                                       ELSE [m \in Models |-> Never]]
  /\ credits' = [u \in Accounts |-> IF u \in hk.ids THEN credits[u] ELSE Unknown]
  /\ err_counts' = [u \in Accounts |-> IF u \in hk.ids THEN err_counts[u] ELSE 0]
  /\ SetTable(RemoveKeys(Table, OwnedBy(Table, Accounts \ hk.ids)))
  /\ UNCHANGED <<files, entries, known, picking, rr>>

Load ==
  /\ hk.phase = "load"
  /\ hk' = [phase |-> "rest", ids |-> {}]
  /\ entries' = LoadFiles(entries)
  /\ known' = known \cup CredsOf(entries')
  /\ UNCHANGED <<files, picking, healthVars, stickyVars, rr>>

(***************************************************************************)
(* A refresh ended for a credential, of a loaded entry or of one that was  *)
(* dropped meanwhile (apply_refresh under the lock of the credential).  A  *)
(* refresh that fails changes nothing here.                                *)
(***************************************************************************)
Refresh(c, v) ==
  /\ v \in Rewritten(files[c.path], c.uid)
  /\ files' = [files EXCEPT ![c.path] = v]
  /\ known' = known \cup {[c EXCEPT !.uid = v]}
  /\ entries' = Renewed(entries, c, v) \/ UNCHANGED entries
  /\ UNCHANGED <<hk, picking, healthVars, stickyVars, rr>>

(***************************************************************************)
(* pick: first under the entries lock, then under the state lock.          *)
(***************************************************************************)
PickRetain ==
  /\ picking < MaxPicking
  /\ picking' = picking + 1
  /\ entries' = OnDisk(entries)
  /\ UNCHANGED <<files, known, hk, healthVars, stickyVars, rr>>

StickyHit(t, s, m, u) ==
  /\ StickyServes(t, s, m)
  /\ u = t.map[s].id
  /\ SetTable(Touch(t, s))
  /\ UNCHANGED rr

NoCandidate(t, s, m, u) ==
  /\ ~ StickyServes(t, s, m)
  /\ Candidates(m) = << >>
  /\ u = NoAccount
  /\ SetTable(RemoveKeys(t, {s}))
  /\ UNCHANGED rr

RankedPick(t, s, m, u) ==
  /\ ~ StickyServes(t, s, m)
  /\ Candidates(m) # << >>
  /\ u = Top(m)[(rr % Len(Top(m))) + 1].uid
  /\ rr' = (rr + 1) % RrModulus
  /\ SetTable(IF s = NoSession THEN t ELSE Bind(RemoveKeys(t, {s}), s, u))

PickSelect(s, m, u) ==
  /\ picking > 0
  /\ picking' = picking - 1
  /\ LET t == Evict(Table)
     IN  StickyHit(t, s, m, u) \/ NoCandidate(t, s, m, u) \/ RankedPick(t, s, m, u)
  /\ UNCHANGED <<files, entries, known, hk, healthVars>>

(***************************************************************************)
(* What callers report.                                                    *)
(***************************************************************************)
Cool(u, kind, ticks) == fail_until' = [fail_until EXCEPT ![u][kind] = ticks]

\* note_status(401 | 403): also called for every failed proactive refresh.
NoteStatus(u) ==
  /\ "status" \in Outcomes
  /\ Cool(u, "ErrThreshold", CredCooldown)
  /\ UNCHANGED <<rosterVars, model_fail, credits, err_counts, stickyVars, rr>>

\* Mutant of NoteRateLimit: the sessions of the account stay bound.
NoteRateLimitOnly(u, m) ==
  /\ "rate" \in Outcomes
  /\ model_fail' = [model_fail EXCEPT ![u][m] = ModelCooldown]
  /\ UNCHANGED <<rosterVars, fail_until, credits, err_counts, stickyVars, rr>>

\* note_status(429): cool the model and unbind every session of the account.
NoteRateLimit(u, m) ==
  /\ "rate" \in Outcomes
  /\ model_fail' = [model_fail EXCEPT ![u][m] = ModelCooldown]
  /\ SetTable(RemoveKeys(Table, OwnedBy(Table, {u})))
  /\ UNCHANGED <<rosterVars, fail_until, credits, err_counts, rr>>

NoteHardCredit(u) ==
  /\ "hard" \in Outcomes
  /\ Cool(u, "HardCredit", HardCooldown)
  /\ UNCHANGED <<rosterVars, model_fail, credits, err_counts, stickyVars, rr>>

NoteError(u) ==
  /\ "error" \in Outcomes
  /\ IF err_counts[u] + 1 >= ErrThreshold
     THEN /\ err_counts' = [err_counts EXCEPT ![u] = 0]
          /\ Cool(u, "ErrThreshold", CredCooldown)
     ELSE /\ err_counts' = [err_counts EXCEPT ![u] = @ + 1]
          /\ UNCHANGED fail_until
  /\ UNCHANGED <<rosterVars, model_fail, credits, stickyVars, rr>>

SetCredits(u, c) ==
  /\ credits' = [credits EXCEPT ![u] = c]
  /\ UNCHANGED <<rosterVars, fail_until, model_fail, err_counts, stickyVars, rr>>

\* One tick of time for every cooldown and every binding.
Less(n) == IF n > 0 THEN n - 1 ELSE n

Tick ==
  /\ fail_until' = [u \in Accounts |-> [k \in CoolKinds |-> Less(fail_until[u][k])]]
  /\ model_fail' = [u \in Accounts |-> [m \in Models |-> Less(model_fail[u][m])]]
  /\ SetTable(AgeAll(Table))
  /\ UNCHANGED <<rosterVars, credits, err_counts, rr>>

Next ==
  \/ \E p \in Paths, c \in Contents : FileChange(p, c)
  \/ Prune \/ PruneState \/ Load \/ PickRetain
  \/ \E s \in Sessions \cup {NoSession}, m \in Models,
        u \in Accounts \cup {NoAccount} : PickSelect(s, m, u)
  \/ \E c \in known, v \in Accounts : Refresh(c, v)
  \/ \E u \in Held : NoteStatus(u) \/ NoteHardCredit(u) \/ NoteError(u)
  \/ \E u \in Held, m \in Models : NoteRateLimit(u, m)
  \/ \E u \in Held, c \in CreditLevels : SetCredits(u, c)
  \/ Tick

Spec == Init /\ [][Next]_vars

-----------------------------------------------------------------------------
(***************************************************************************)
(* Types: what the Rust types say, and that the deque and the entries are  *)
(* sequences of what was put in.                                           *)
(***************************************************************************)
Credential == [path : Paths, uid : Accounts]

\* own: no refresh has put another account in the place of the one loaded.
Entry    == [path : Paths, uid : Accounts, own : BOOLEAN]
HkPhases == {"rest", "clean", "load"}

TypeOK ==
  /\ files \in [Paths -> Contents]
  /\ entries \in Seq(Entry)
  /\ known \in SUBSET Credential
  /\ hk \in [phase : HkPhases, ids : SUBSET Accounts]
  /\ picking \in Nat
  /\ fail_until \in [Accounts -> [CoolKinds -> Nat]]
  /\ model_fail \in [Accounts -> [Models -> Int]]
  /\ credits \in [Accounts -> Int]
  /\ err_counts \in [Accounts -> Nat]
  /\ TableTypeOK(Table)
  /\ rr \in Nat

(***************************************************************************)
(* The sticky map and its eviction deque never drift apart, whatever       *)
(* pick, a 429, prune and eviction do to them in whatever order: the deque *)
(* holds every key once, in the order of use, and the cap holds (pick,     *)
(* note_status, prune, bind_sticky and remove_sticky of pool.rs).          *)
(***************************************************************************)
StickyConsistent == Consistent(Table)

(***************************************************************************)
(* A session bound to an account that is cooling after a 429 was bound     *)
(* after that 429: the rate limit unbound every session of the account,    *)
(* whatever its model, and no later touch kept an older binding alive      *)
(* (note_status against pick).                                             *)
(***************************************************************************)
ReboundAfter429 ==
  \A s \in DOMAIN sticky, m \in Models :
     LET left == model_fail[sticky[s].id][m]
     IN  left > 0 => sticky[s].age <= ModelCooldown - left

(***************************************************************************)
(* No file is loaded twice, and no account but by a refresh that took over *)
(* the account of a file put in the place of its own: neither a reload nor *)
(* the retain of pick makes a second entry of an account, however files    *)
(* and the accounts of entries are replaced in between (load_files, prune, *)
(* pick, apply_refresh).                                                   *)
(***************************************************************************)
Apart(x, y) == x.path # y.path /\ (x.own /\ y.own => x.uid # y.uid)

AccountsAreDistinct ==
  \A i, j \in DOMAIN entries : i # j => Apart(entries[i], entries[j])

(***************************************************************************)
(* What the comments of load_files and apply_refresh add up to: "ignoring  *)
(* duplicates (same path or same uid)", and "refreshes never change" the   *)
(* account.  A refresh after the file was replaced refutes it.             *)
(***************************************************************************)
OneEntryPerAccount ==
  \A i, j \in DOMAIN entries : entries[i].uid = entries[j].uid => i = j

(***************************************************************************)
(* A loaded account's cooldown ends by the passing of time only: no other  *)
(* outcome of a concurrent request, no second kind of cooldown, no check-  *)
(* in and no prune that raced with a reload shortens it (note_status,      *)
(* note_hard_credit, note_error_threshold, prune).  Not so of an account   *)
(* that a refresh moves to another's entry: prune may have taken it for    *)
(* gone just before.                                                       *)
(***************************************************************************)
OwnUids(es) == {es[i].uid : i \in {n \in DOMAIN es : es[n].own}}

NotShortened ==
  \A u \in OwnUids(entries') :
     /\ \A k \in CoolKinds : fail_until'[u][k] >= fail_until[u][k]
     /\ \A m \in Models : model_fail'[u][m] >= model_fail[u][m]

CooldownNeverShortened == [][NotShortened \/ Tick]_vars

(***************************************************************************)
(* What pick returns is loaded and healthy for the model, with or without  *)
(* a binding, and is of the top rank when it is not the session's own      *)
(* account; and it returns nothing only when no loaded account is healthy. *)
(***************************************************************************)
SoundAnswer(s, m, u) ==
  /\ u = NoAccount => \A v \in Loaded : ~ Healthy(v, m)
  /\ u # NoAccount =>
       /\ u \in Loaded /\ Healthy(u, m)
       /\ \/ s \in DOMAIN sticky /\ sticky[s].id = u
          \/ \A v \in Loaded : Healthy(v, m) => credits[v] <= credits[u]

PickIsSound ==
  [][picking' < picking =>
        \A s \in Sessions \cup {NoSession}, m \in Models, u \in Accounts \cup {NoAccount} :
           SoundAnswer(s, m, u) \/ ~ PickSelect(s, m, u)]_vars

(***************************************************************************)
(* A session keeps its account for as long as the binding is within its    *)
(* ttl and the account is loaded and healthy, whatever the credits of the  *)
(* others are by then, and keeps the binding (pick, evict_sticky).         *)
(***************************************************************************)
KeepsAccount(s, m, u) ==
  (/\ s \in DOMAIN sticky
   /\ sticky[s].age <= StickyTtl /\ sticky[s].id \in Loaded
   /\ Healthy(sticky[s].id, m)
   /\ Cardinality(DOMAIN sticky) <= StickyMax)
  => u = sticky[s].id /\ s \in DOMAIN sticky' /\ sticky'[s].id = u

StickyAffinity ==
  [][picking' < picking =>
        \A s \in Sessions, m \in Models, u \in Accounts \cup {NoAccount} :
           KeepsAccount(s, m, u) \/ ~ PickSelect(s, m, u)]_vars

(***************************************************************************)
(* Eviction only ever looks at the front of the deque, and still no        *)
(* binding older than the ttl survives a pick (evict_sticky).  Only the    *)
(* second half of pick lowers picking.                                     *)
(***************************************************************************)
NoneExpired == \A s \in DOMAIN sticky' : sticky'[s].age <= StickyTtl

EvictionIsComplete == [][picking' < picking => NoneExpired]_vars

(***************************************************************************)
(* What docs/RUNBOOK.md says: an account that ran out of credits is        *)
(* revived by the next check-in, which reports its credits (set_credits).  *)
(***************************************************************************)
CheckInRevives ==
  [][\A u \in Held, c \in CreditLevels :
        SetCredits(u, c) /\ c > 0 => fail_until'[u]["HardCredit"] = 0]_vars
=============================================================================
