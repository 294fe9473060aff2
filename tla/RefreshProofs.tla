---------------------------- MODULE RefreshProofs ----------------------------
(***************************************************************************)
(* Proofs about Refresh, for any number of tasks, logins and tokens.       *)
(***************************************************************************)
EXTENDS Refresh, SequenceTheorems, TLAPS

\* A task at work for the lock's holder: from its call to the end of the write.
Working(t)  == pc[t] \in {"calling", "answered", "persisted"}
Answered(t) == pc[t] \in {"answered", "persisted"}

\* Only the holder of the lock is at work.
OnlyHolderWorks == \A t \in Tasks : Working(t) => Holds(t)

\* What a call has read stays as it was: the tokens of mem, which expire.
CallsReadMemory ==
  \A t \in Tasks :
     /\ Working(t) => sent[t] = mem
     /\ Working(t) /\ t \in Keepers => expiring
     /\ pc[t] # "idle" => seen[t].access <= mem.access

\* The tokens of an answer are newer than those of mem, and the server's.
NewerReply(r) ==
  /\ r.login = mem.login
  /\ mem.access < r.access /\ r.access <= issued[r.login]
  /\ mem.refresh <= r.refresh /\ r.refresh <= issued[r.login]
  /\ r.refresh = current[r.login]

AnswersAreNewer ==
  \A t \in Tasks :
     /\ Answered(t) => NewerReply(reply[t])
     /\ pc[t] = "persisted" /\ disk.login = mem.login => disk = reply[t]

\* The file is of the login in memory, or has the first tokens of a later one.
FileInv ==
  /\ mem.login <= disk.login
  /\ DiskAtLeastMemory
  /\ mem.login < disk.login => disk = FirstTokens(disk.login)

\* The server has issued what memory and file hold, and nothing for later logins.
IssuedInv ==
  /\ mem.access <= issued[mem.login] /\ mem.refresh <= issued[mem.login]
  /\ disk.access <= issued[disk.login] /\ disk.refresh <= issued[disk.login]
  /\ \A l \in Logins : mem.login < l => issued[l] = 0 /\ current[l] = 0

\* While every answer was stored, memory and file have the token honoured, but
\* for an answer that is on its way to them.
SettledInv ==
  mem.login \notin unsettled =>
    /\ (\A t \in Tasks : ~ Answered(t)) => mem.refresh = current[mem.login]
    /\ disk.login = mem.login /\ (\A t \in Tasks : pc[t] # "answered")
         => disk.refresh = current[mem.login]

Facts == OnlyHolderWorks /\ CallsReadMemory /\ AnswersAreNewer /\ FileInv /\ IssuedInv /\ SettledInv

IInv == TypeOK /\ Facts

-----------------------------------------------------------------------------
LEMMA InitIInv == Init => IInv
<1> SUFFICES ASSUME Init
             PROVE  IInv
  OBVIOUS
<1>1. 0 \in Logins /\ 0 \in Numbers
  BY RefreshAssumption DEF Logins, Numbers
<1>2. TypeOK
  <2>1. FirstTokens(0) \in Tokens
    BY <1>1 DEF FirstTokens, Tokens
  <2>2. QED
    BY <1>1, <2>1 DEF Init, TypeOK
<1>3. FirstTokens(0).login = 0 /\ FirstTokens(0).access = 0 /\ FirstTokens(0).refresh = 0
  BY DEF FirstTokens
<1>4. OnlyHolderWorks /\ CallsReadMemory /\ AnswersAreNewer
  BY DEF Init, OnlyHolderWorks, CallsReadMemory, AnswersAreNewer, Working, Answered
<1>5. FileInv /\ IssuedInv /\ SettledInv
  BY <1>1, <1>3 DEF Init, FileInv, DiskAtLeastMemory, IssuedInv, SettledInv
<1>6. QED
  BY <1>2, <1>4, <1>5 DEF IInv, Facts

(***************************************************************************)
(* The types that arithmetic needs.                                        *)
(***************************************************************************)
LEMMA TokenTypes ==
  ASSUME NEW k \in Tokens
  PROVE  k.login \in Nat /\ k.login \in Logins /\ k.access \in Nat /\ k.refresh \in Nat
BY RefreshAssumption DEF Tokens, Logins, Numbers

\* Two tasks that hold the lock are one.
LEMMA OneHolder ==
  ASSUME NEW t, NEW u, Holds(t), Holds(u)
  PROVE  t = u
BY DEF Holds

\* When the holder of the lock gets its answer, no task is at work.
LEMMA LeaveEndsWork ==
  ASSUME TypeOK, OnlyHolderWorks, NEW t \in Tasks, Holds(t), Leave(t)
  PROVE  /\ \A u \in Tasks : ~ Working(u)' /\ ~ Answered(u)'
         /\ \A u \in Tasks : pc'[u] # "idle" => pc[u] # "idle" /\ seen'[u] = seen[u]
         /\ lock_queue' \in Seq(Tasks)
         /\ pc' \in [Tasks -> {"idle", "queued", "calling", "answered", "persisted"}]
         /\ sent' \in [Tasks -> Tokens] /\ reply' \in [Tasks -> Tokens]
         /\ seen' \in [Tasks -> Tokens]
<1>1. FirstTokens(0) \in Tokens
  BY RefreshAssumption DEF FirstTokens, Tokens, Logins, Numbers
<1>2. lock_queue \in Seq(Tasks) /\ lock_queue # << >>
  BY DEF TypeOK, Holds
<1>3. lock_queue' \in Seq(Tasks)
  BY <1>2, HeadTailProperties DEF Leave
<1>4. \A u \in Tasks : pc'[u] = IF u = t THEN "idle" ELSE pc[u]
  BY DEF Leave, TypeOK
<1>5. \A u \in Tasks : u # t => ~ Working(u)
  BY OneHolder DEF OnlyHolderWorks
<1>6. \A u \in Tasks : ~ Working(u)' /\ ~ Answered(u)'
  BY <1>4, <1>5 DEF Working, Answered
<1>7. \A u \in Tasks : pc'[u] # "idle" => pc[u] # "idle" /\ seen'[u] = seen[u]
  BY <1>4 DEF Leave, TypeOK
<1>8. QED
  BY <1>1, <1>3, <1>6, <1>7 DEF Leave, TypeOK

-----------------------------------------------------------------------------
(***************************************************************************)
(* A call that ends without new tokens: the holder leaves, and the login   *)
(* counts as unsettled unless the server did not answer.                   *)
(***************************************************************************)
LEMMA EndsWithout ==
  ASSUME IInv, NEW t \in Tasks, Holds(t), Leave(t),
         UNCHANGED <<memVars, serverVars>>,
         \/ UNCHANGED unsettled /\ ~ Answered(t)
         \/ Working(t) /\ unsettled' = unsettled \cup {sent[t].login}
  PROVE  IInv'
<1> USE DEF IInv, Facts, memVars, serverVars
<1>1. /\ \A u \in Tasks : ~ Working(u)' /\ ~ Answered(u)'
      /\ \A u \in Tasks : pc'[u] # "idle" => pc[u] # "idle" /\ seen'[u] = seen[u]
      /\ lock_queue' \in Seq(Tasks)
      /\ pc' \in [Tasks -> {"idle", "queued", "calling", "answered", "persisted"}]
      /\ sent' \in [Tasks -> Tokens] /\ reply' \in [Tasks -> Tokens]
      /\ seen' \in [Tasks -> Tokens]
  BY LeaveEndsWork
<1>2. Working(t) => sent[t] = mem
  BY DEF CallsReadMemory
<1>3. sent[t].login \in Logins
  BY TokenTypes DEF TypeOK
<1>4. TypeOK'
  BY <1>1, <1>3 DEF TypeOK
<1>5. OnlyHolderWorks' /\ CallsReadMemory'
  BY <1>1 DEF OnlyHolderWorks, CallsReadMemory
<1>6. AnswersAreNewer'
  BY <1>1 DEF AnswersAreNewer, Answered
<1>7. FileInv' /\ IssuedInv'
  BY DEF FileInv, IssuedInv, DiskAtLeastMemory
<1>8. SettledInv'
  <2>1. CASE UNCHANGED unsettled /\ ~ Answered(t)
    <3>1. \A u \in Tasks : ~ Answered(u)
      BY <2>1, OneHolder DEF OnlyHolderWorks, Answered, Working
    <3>2. QED
      BY <2>1, <3>1 DEF SettledInv, Answered
  <2>2. CASE Working(t) /\ unsettled' = unsettled \cup {sent[t].login}
    BY <1>2, <2>2 DEF SettledInv
  <2>3. QED
    BY <2>1, <2>2
<1>9. QED
  BY <1>4, <1>5, <1>6, <1>7, <1>8

LEMMA CallStep ==
  ASSUME IInv, NEW t \in Tasks, Call(t)
  PROVE  IInv'
<1> USE DEF IInv, Facts, Call, memVars, serverVars
<1>1. /\ lock_queue' \in Seq(Tasks)
      /\ \A u \in Tasks : Holds(u) => Holds(u)'
  <2>1. lock_queue \in Seq(Tasks)
    BY DEF TypeOK
  <2>2. lock_queue' \in Seq(Tasks) /\ lock_queue' # << >>
    BY <2>1, AppendProperties
  <2>3. lock_queue # << >> => Head(lock_queue') = Head(lock_queue)
    BY <2>1, HeadTailAppend
  <2>4. QED
    BY <2>2, <2>3 DEF Holds
<1>2. \A u \in Tasks : /\ pc'[u] = IF u = t THEN "queued" ELSE pc[u]
                       /\ seen'[u] = IF u = t THEN mem ELSE seen[u]
  BY DEF TypeOK
<1>3. \A u \in Tasks : /\ Working(u)' <=> Working(u)
                       /\ Answered(u)' <=> Answered(u)
                       /\ pc'[u] = "persisted" <=> pc[u] = "persisted"
                       /\ pc'[u] = "answered" <=> pc[u] = "answered"
  BY <1>2 DEF Working, Answered
<1>4. mem.access \in Nat
  BY TokenTypes DEF TypeOK
<1>5. TypeOK'
  BY <1>1 DEF TypeOK
<1>6. OnlyHolderWorks'
  BY <1>1, <1>3 DEF OnlyHolderWorks
<1>7. CallsReadMemory'
  BY <1>2, <1>3, <1>4 DEF CallsReadMemory
<1>8. AnswersAreNewer'
  BY <1>3 DEF AnswersAreNewer, NewerReply
<1>9. FileInv' /\ IssuedInv' /\ SettledInv'
  BY <1>3 DEF FileInv, IssuedInv, SettledInv, DiskAtLeastMemory
<1>10. QED
  BY <1>5, <1>6, <1>7, <1>8, <1>9

LEMMA SendStep ==
  ASSUME IInv, NEW t \in Tasks, Send(t)
  PROVE  IInv'
<1> USE DEF IInv, Facts, Send, ReadTokens, memVars, serverVars
<1>1. \A u \in Tasks : /\ pc'[u] = IF u = t THEN "calling" ELSE pc[u]
                       /\ sent'[u] = IF u = t THEN mem ELSE sent[u]
  BY DEF TypeOK
<1>2. \A u \in Tasks : /\ Working(u)' <=> Working(u) \/ u = t
                       /\ Answered(u)' <=> Answered(u)
                       /\ pc'[u] = "persisted" <=> pc[u] = "persisted"
                       /\ pc'[u] = "answered" <=> pc[u] = "answered"
  BY <1>1 DEF Working, Answered
<1>3. TypeOK'
  BY DEF TypeOK
<1>4. OnlyHolderWorks'
  BY <1>2 DEF OnlyHolderWorks, Holds
<1>5. CallsReadMemory'
  BY <1>1, <1>2 DEF CallsReadMemory, MustRefresh
<1>6. AnswersAreNewer'
  BY <1>2 DEF AnswersAreNewer, NewerReply
<1>7. FileInv' /\ IssuedInv' /\ SettledInv'
  BY <1>2 DEF FileInv, IssuedInv, SettledInv, DiskAtLeastMemory
<1>8. QED
  BY <1>3, <1>4, <1>5, <1>6, <1>7

(***************************************************************************)
(* The server issues a token to the only task at work: its login is that   *)
(* of mem, and no other answer is on its way.                              *)
(***************************************************************************)
LEMMA GrantStep ==
  ASSUME IInv, NEW t \in Tasks, NEW rotate \in BOOLEAN, Grant(t, rotate)
  PROVE  IInv'
<1> USE DEF IInv, Facts, Grant, memVars, serverVars
<1> DEFINE l == mem.login
<1>1. sent[t] = mem
  BY DEF CallsReadMemory, Working
<1>2. \A u \in Tasks : u # t => ~ Working(u) /\ ~ Answered(u)
  BY OneHolder DEF OnlyHolderWorks, Working, Answered
<1>3. \A u \in Tasks : pc'[u] = IF u = t THEN "answered" ELSE pc[u]
  BY DEF TypeOK
<1>4. \A u \in Tasks : (Working(u)' <=> Working(u)) /\ (Answered(u)' => u = t)
  BY <1>2, <1>3 DEF Working, Answered
<1>5. /\ l \in Logins /\ l \in Nat /\ mem.access \in Nat /\ mem.refresh \in Nat
      /\ disk.login \in Logins /\ disk.login \in Nat
      /\ disk.access \in Nat /\ disk.refresh \in Nat
  BY TokenTypes DEF TypeOK
<1>6. /\ issued' = [issued EXCEPT ![l] = @ + 1]
      /\ issued \in [Logins -> Nat] /\ issued[l] < MaxIssued
  BY <1>1, RefreshAssumption DEF TypeOK, Numbers
<1>7. /\ issued'[l] = issued[l] + 1
      /\ \A k \in Logins : issued[k] <= issued'[k] /\ (k # l => issued'[k] = issued[k])
  BY <1>5, <1>6
<1>8. issued' \in [Logins -> Numbers] /\ issued'[l] \in Numbers
  <2>1. issued \in [Logins -> Numbers] /\ issued[l] \in Numbers
    BY <1>5 DEF TypeOK
  <2>2. issued[l] + 1 \in Numbers
    BY <1>6, <2>1, RefreshAssumption DEF Numbers
  <2>3. QED
    BY <1>5, <1>6, <2>1, <2>2
<1>9. /\ current' \in [Logins -> Numbers]
      /\ current'[l] = IF rotate THEN issued'[l] ELSE current[l]
      /\ \A k \in Logins : k # l => current'[k] = current[k]
  BY <1>1, <1>5, <1>8 DEF TypeOK
<1>10. /\ reply' \in [Tasks -> Tokens]
       /\ reply'[t] = [login |-> l, access |-> issued'[l],
                       refresh |-> IF rotate THEN issued'[l] ELSE mem.refresh]
  <2>1. mem.refresh \in Numbers
    BY DEF TypeOK, Tokens
  <2>2. [login |-> l, access |-> issued'[l],
         refresh |-> IF rotate THEN issued'[l] ELSE mem.refresh] \in Tokens
    BY <1>5, <1>8, <2>1 DEF Tokens
  <2>3. QED
    BY <1>1, <2>2 DEF TypeOK, KeptOrNew
<1>11. mem.refresh = current[l]
  BY <1>1
<1>12. mem.access <= issued[l] /\ mem.refresh <= issued[l]
  BY DEF IssuedInv
<1>13. TypeOK'
  BY <1>8, <1>9, <1>10 DEF TypeOK
<1>14. OnlyHolderWorks'
  BY <1>4 DEF OnlyHolderWorks, Holds
<1>15. CallsReadMemory'
  <2>1. \A u \in Tasks : pc'[u] # "idle" => pc[u] # "idle"
    BY <1>3
  <2>2. QED
    BY <1>4, <2>1 DEF CallsReadMemory
<1>16. AnswersAreNewer'
  <2>1. issued[l] \in Nat
    BY <1>5, <1>6
  <2>2. mem.access < issued'[l] /\ mem.refresh <= issued'[l]
    BY <1>5, <1>7, <1>12, <2>1
  <2>3. NewerReply(reply[t])'
    BY <1>5, <1>7, <1>9, <1>10, <1>11, <2>1, <2>2 DEF NewerReply
  <2>4. \A u \in Tasks : pc'[u] # "persisted"
    BY <1>2, <1>3 DEF Answered
  <2>5. QED
    BY <1>4, <2>3, <2>4 DEF AnswersAreNewer
<1>17. FileInv'
  BY DEF FileInv, DiskAtLeastMemory
<1>18. IssuedInv'
  <2>1. issued[l] \in Nat /\ issued[disk.login] \in Nat /\ issued'[l] \in Nat
        /\ issued'[disk.login] \in Nat
    BY <1>5, <1>6, <1>7
  <2>2. \A k \in Logins : l < k => k # l
    BY <1>5, RefreshAssumption DEF Logins
  <2>3. QED
    BY <1>5, <1>7, <1>9, <2>1, <2>2 DEF IssuedInv
<1>19. SettledInv'
  BY <1>3 DEF SettledInv, Answered
<1>20. QED
  BY <1>13, <1>14, <1>15, <1>16, <1>17, <1>18, <1>19

LEMMA PersistStep ==
  ASSUME IInv, NEW t \in Tasks, Persist(t)
  PROVE  IInv'
<1> USE DEF IInv, Facts, Persist, callVars, serverVars
<1>1. \A u \in Tasks : pc'[u] = IF u = t THEN "persisted" ELSE pc[u]
  BY DEF TypeOK
<1>2. \A u \in Tasks : u # t => ~ Answered(u)
  BY OneHolder DEF OnlyHolderWorks, Working, Answered
<1>3. \A u \in Tasks : (Working(u)' <=> Working(u)) /\ (Answered(u)' <=> Answered(u))
  BY <1>1 DEF Working, Answered
<1>4. NewerReply(reply[t])
  BY DEF AnswersAreNewer, Answered
<1>5. reply[t] \in Tokens /\ mem \in Tokens
  BY DEF TypeOK
<1>6. TypeOK'
  BY <1>5 DEF TypeOK
<1>7. OnlyHolderWorks'
  BY <1>3 DEF OnlyHolderWorks, Holds
<1>8. CallsReadMemory'
  BY <1>1, <1>3 DEF CallsReadMemory
<1>9. AnswersAreNewer'
  BY <1>1, <1>2, <1>3 DEF AnswersAreNewer, NewerReply, Answered
<1>10. FileInv' /\ IssuedInv'
  <2>1. /\ mem.login \in Nat /\ mem.access \in Nat /\ mem.refresh \in Nat
        /\ reply[t].access \in Nat /\ reply[t].refresh \in Nat
    BY <1>5, TokenTypes
  <2>2. QED
    BY <1>4, <2>1 DEF FileInv, IssuedInv, DiskAtLeastMemory, NewerReply
<1>11. SettledInv'
  BY <1>3, <1>4 DEF SettledInv, NewerReply, Answered
<1>12. QED
  BY <1>6, <1>7, <1>8, <1>9, <1>10, <1>11

LEMMA PublishStep ==
  ASSUME IInv, NEW t \in Tasks, Publish(t)
  PROVE  IInv'
<1> USE DEF IInv, Facts, Publish, serverVars
<1>1. Holds(t)
  BY DEF OnlyHolderWorks, Working
<1>2. /\ \A u \in Tasks : ~ Working(u)' /\ ~ Answered(u)'
      /\ \A u \in Tasks : pc'[u] # "idle" => pc[u] # "idle" /\ seen'[u] = seen[u]
      /\ lock_queue' \in Seq(Tasks)
      /\ pc' \in [Tasks -> {"idle", "queued", "calling", "answered", "persisted"}]
      /\ sent' \in [Tasks -> Tokens] /\ reply' \in [Tasks -> Tokens]
      /\ seen' \in [Tasks -> Tokens]
  BY <1>1, LeaveEndsWork
<1>3. NewerReply(reply[t]) /\ (disk.login = mem.login => disk = reply[t])
  BY DEF AnswersAreNewer, Answered
<1>4. mem' = reply[t] /\ reply[t] \in Tokens /\ mem \in Tokens /\ disk \in Tokens
  BY DEF TypeOK
<1>5. /\ mem.login \in Nat /\ mem.access \in Nat /\ mem.refresh \in Nat
      /\ disk.login \in Nat /\ disk.access \in Nat /\ disk.refresh \in Nat
      /\ mem'.access \in Nat /\ mem'.refresh \in Nat
  BY <1>4, TokenTypes
<1>6. mem'.login = mem.login /\ mem.access < mem'.access
  BY <1>3, <1>4 DEF NewerReply
<1>7. TypeOK'
  BY <1>2, <1>4 DEF TypeOK
<1>8. OnlyHolderWorks'
  BY <1>2 DEF OnlyHolderWorks
<1>9. CallsReadMemory'
  <2>1. \A u \in Tasks : seen[u].access \in Nat
    BY TokenTypes DEF TypeOK
  <2>2. QED
    BY <1>2, <1>5, <1>6, <2>1 DEF CallsReadMemory
<1>10. AnswersAreNewer'
  BY <1>2 DEF AnswersAreNewer, Answered
<1>11. FileInv'
  BY <1>3, <1>4, <1>5, <1>6 DEF FileInv, DiskAtLeastMemory
<1>12. IssuedInv'
  BY <1>3, <1>4, <1>6 DEF IssuedInv, NewerReply
<1>13. SettledInv'
  BY <1>3, <1>4, <1>6 DEF SettledInv, NewerReply
<1>14. QED
  BY <1>7, <1>8, <1>9, <1>10, <1>11, <1>12, <1>13

LEMMA LoginStep ==
  ASSUME IInv, NEW l \in Logins, Login(l)
  PROVE  IInv'
<1> USE DEF IInv, Facts, Login, callVars, serverVars
<1>1. l \in Nat /\ mem.login \in Nat /\ mem.login < l
  BY TokenTypes, RefreshAssumption DEF TypeOK, Logins
<1>2. disk'.login = l /\ disk'.access = 0 /\ disk'.refresh = 0
  BY DEF FirstTokens
<1>3. 0 \in Numbers
  BY RefreshAssumption DEF Numbers
<1>4. TypeOK'
  BY <1>3 DEF TypeOK, FirstTokens, Tokens
<1>5. OnlyHolderWorks' /\ CallsReadMemory'
  BY DEF OnlyHolderWorks, CallsReadMemory, Working, Holds
<1>6. AnswersAreNewer'
  BY <1>1, <1>2 DEF AnswersAreNewer, NewerReply, Answered
<1>7. FileInv' /\ IssuedInv'
  BY <1>1, <1>2 DEF FileInv, IssuedInv, DiskAtLeastMemory
<1>8. SettledInv'
  BY <1>1, <1>2 DEF SettledInv, Answered
<1>9. QED
  BY <1>4, <1>5, <1>6, <1>7, <1>8

(***************************************************************************)
(* A restart reads the file.  A call whose answer was not stored leaves    *)
(* its login unsettled; without one the file has the token honoured.       *)
(***************************************************************************)
LEMMA RestartStep ==
  ASSUME IInv, Restart
  PROVE  IInv'
<1> USE DEF IInv, Facts, Restart, serverVars
<1>1. FirstTokens(0) \in Tokens
  BY RefreshAssumption DEF FirstTokens, Tokens, Logins, Numbers
<1>2. \A u \in Tasks : ~ Working(u)' /\ ~ Answered(u)' /\ pc'[u] = "idle"
  BY DEF Working, Answered
<1>3. mem' = disk /\ disk' = disk /\ disk \in Tokens /\ mem \in Tokens
  BY DEF TypeOK
<1>4. /\ mem.login \in Nat /\ disk.login \in Nat /\ disk.login \in Logins
      /\ disk.access \in Nat /\ disk.refresh \in Nat
  BY <1>3, TokenTypes
<1>5. TypeOK'
  <2>1. \A t \in Tasks : sent[t].login \in Logins
    BY TokenTypes DEF TypeOK
  <2>2. unsettled' \subseteq Logins
    BY <2>1 DEF TypeOK
  <2>3. QED
    BY <1>1, <2>2 DEF TypeOK
<1>6. OnlyHolderWorks' /\ CallsReadMemory' /\ AnswersAreNewer'
  BY <1>2 DEF OnlyHolderWorks, CallsReadMemory, AnswersAreNewer
<1>7. FileInv'
  BY <1>3, <1>4 DEF FileInv, DiskAtLeastMemory
<1>8. IssuedInv'
  <2>1. \A l \in Logins : disk.login < l => mem.login < l
    BY <1>4, RefreshAssumption DEF FileInv, Logins
  <2>2. QED
    BY <1>3, <2>1 DEF IssuedInv
<1>9. SettledInv'
  <2> SUFFICES ASSUME disk.login \notin unsettled'
               PROVE  disk.refresh = current[disk.login]
    BY <1>3 DEF SettledInv
  <2>1. CASE mem.login < disk.login
    <3>1. disk.refresh = 0
      BY <2>1 DEF FileInv, FirstTokens
    <3>2. QED
      BY <1>4, <2>1, <3>1 DEF IssuedInv
  <2>2. CASE mem.login = disk.login
    <3>1. \A u \in Tasks : pc[u] # "answered"
      <4> SUFFICES ASSUME NEW u \in Tasks, pc[u] = "answered"
                   PROVE  FALSE
        OBVIOUS
      <4>1. sent[u] = mem
        BY DEF CallsReadMemory, Working
      <4>2. sent[u].login \in unsettled'
        OBVIOUS
      <4>3. QED
        BY <2>2, <4>1, <4>2
    <3>2. QED
      BY <2>2, <3>1 DEF SettledInv
  <2>3. QED
    BY <1>4, <2>1, <2>2 DEF FileInv
<1>10. QED
  BY <1>5, <1>6, <1>7, <1>8, <1>9

-----------------------------------------------------------------------------
LEMMA ExpireStep ==
  ASSUME IInv, Expire
  PROVE  IInv'
BY DEF IInv, Facts, TypeOK, OnlyHolderWorks, CallsReadMemory, AnswersAreNewer, NewerReply,
       FileInv, DiskAtLeastMemory, IssuedInv, SettledInv, Working, Answered, Holds,
       Expire, callVars, serverVars

LEMMA TaskSteps ==
  ASSUME IInv, NEW t \in Tasks,
         AlreadyFresh(t) \/ Reject(t) \/ GiveUp(t) \/ PersistFails(t) \/ PublishFails(t)
  PROVE  IInv'
<1>1. Working(t) => Holds(t)
  BY DEF IInv, Facts, OnlyHolderWorks
<1>2. CASE AlreadyFresh(t)
  BY <1>2, EndsWithout DEF AlreadyFresh, Answered
<1>3. CASE Reject(t)
  BY <1>1, <1>3, EndsWithout DEF Reject, Answered, Working
<1>4. CASE GiveUp(t)
  BY <1>1, <1>4, EndsWithout DEF GiveUp, Working
<1>5. CASE PersistFails(t)
  BY <1>1, <1>5, EndsWithout DEF PersistFails, Working
<1>6. CASE PublishFails(t)
  BY <1>1, <1>6, EndsWithout DEF PublishFails, Working
<1>7. QED
  BY <1>2, <1>3, <1>4, <1>5, <1>6

LEMMA NextIInv == IInv /\ [Next]_vars => IInv'
<1> SUFFICES ASSUME IInv, [Next]_vars
             PROVE  IInv'
  OBVIOUS
<1>1. CASE UNCHANGED vars
  BY <1>1 DEF IInv, Facts, TypeOK, OnlyHolderWorks, CallsReadMemory, AnswersAreNewer,
              NewerReply, FileInv, DiskAtLeastMemory, IssuedInv, SettledInv, Working,
              Answered, Holds, vars, memVars, callVars, serverVars
<1>2. ASSUME NEW t \in Tasks,
             \/ Unread /\ (Call(t) \/ AlreadyFresh(t) \/ Send(t))
             \/ \E rotate \in BOOLEAN : Grant(t, rotate)
             \/ Reject(t) \/ GiveUp(t) \/ Persist(t) \/ PersistFails(t)
             \/ Publish(t) \/ PublishFails(t)
      PROVE  IInv'
  BY <1>2, TaskSteps, CallStep, SendStep, GrantStep, PersistStep, PublishStep
<1>3. CASE Expire \/ Restart \/ \E l \in Logins : Login(l)
  BY <1>3, ExpireStep, RestartStep, LoginStep
<1>4. QED
  BY <1>1, <1>2, <1>3 DEF Next

(***************************************************************************)
(* The strengthening, and with it the types.                               *)
(***************************************************************************)
THEOREM Invariance == Spec => []IInv
<1>1. QED
  BY InitIInv, NextIInv, PTL DEF Spec

(***************************************************************************)
(* The write of the file before the update of the memory loses no token to *)
(* a crash (apply_refresh).                                                *)
(***************************************************************************)
THEOREM FileIsNew == Spec => []DiskAtLeastMemory
<1>1. IInv => DiskAtLeastMemory
  BY DEF IInv, Facts, FileInv
<1>2. QED
  BY <1>1, Invariance, PTL

(***************************************************************************)
(* The proxy does not log itself out: the tokens are read under the lock,  *)
(* where nothing but the task's own answer can make them stale             *)
(* (perform_refresh).                                                      *)
(***************************************************************************)
THEOREM TokenHonoured == Spec => []NeverSendsSpentToken
<1>1. IInv => NeverSendsSpentToken
  <2> SUFFICES ASSUME IInv, NEW t \in Tasks, pc[t] = "calling", sent[t].login \notin unsettled
               PROVE  sent[t].refresh = current[sent[t].login]
    BY DEF NeverSendsSpentToken
  <2>1. sent[t] = mem
    BY DEF IInv, Facts, CallsReadMemory, Working
  <2>2. \A u \in Tasks : ~ Answered(u)
    BY OneHolder DEF IInv, Facts, OnlyHolderWorks, Working, Answered
  <2>3. QED
    BY <2>1, <2>2 DEF IInv, Facts, SettledInv
<1>2. QED
  BY <1>1, Invariance, PTL

(***************************************************************************)
(* A request that is told ok has a token newer than the one that was       *)
(* rejected (force_refresh has no double check).                           *)
(***************************************************************************)
OkStep == \A t \in Requests : ToldOk(t) => mem'.access > seen[t].access

LEMMA NewerForRequests == IInv => OkStep
<1> SUFFICES ASSUME IInv, NEW t \in Requests, ToldOk(t)
             PROVE  mem'.access > seen[t].access
  BY DEF OkStep
<1>1. t \in Tasks /\ t \notin Keepers
  BY RefreshAssumption DEF Tasks
<1>2. Publish(t)
  BY <1>1 DEF ToldOk, AlreadyFresh, MustRefresh
<1>3. NewerReply(reply[t]) /\ seen[t].access <= mem.access
  BY <1>1, <1>2 DEF IInv, Facts, AnswersAreNewer, CallsReadMemory, Answered, Publish
<1>4. reply[t].access \in Nat /\ mem.access \in Nat /\ seen[t].access \in Nat
  BY <1>1, TokenTypes DEF IInv, TypeOK
<1>5. QED
  BY <1>2, <1>3, <1>4 DEF Publish, NewerReply

THEOREM NewerWhenOk == Spec => OkIsNewer
<1>1. IInv /\ [Next]_vars => [OkStep]_vars
  BY NewerForRequests
<1>2. QED
  BY <1>1, Invariance, PTL DEF Spec, OkIsNewer, OkStep

(***************************************************************************)
(* No keeper refreshes a token that a request has refreshed while it       *)
(* waited (the double check in ensure_fresh).                              *)
(***************************************************************************)
KeeperStep == \A t \in Keepers : Publish(t) => expiring

THEOREM KeeperRefreshesOnce == Spec => KeeperSharesRefresh
<1>1. IInv => KeeperStep
  BY DEF IInv, Facts, CallsReadMemory, Working, Publish, KeeperStep, Tasks
<1>2. QED
  BY <1>1, Invariance, PTL DEF Spec, KeeperSharesRefresh, KeeperStep
=============================================================================
