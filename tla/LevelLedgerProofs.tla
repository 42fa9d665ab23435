------------------------- MODULE LevelLedgerProofs -------------------------
(***************************************************************************)
(* The ledger of LevelPlay: when the orders of the levels have no gap, as  *)
(* in the seeded catalogue, the experience points and the level count of a *)
(* user agree with the progress rows, and the whole gameplay loop           *)
(* implements AwardLedger.  Progress, certifications and events agree for  *)
(* any catalogue.                                                          *)
(***************************************************************************)
EXTENDS LevelPlayProofs

-----------------------------------------------------------------------------
(* Steps, seen from the account. *)

\* A request arrives with an empty transaction, and a submission with its
\* level unlocked.
LEMMA ArriveEffect ==
    ASSUME TypeInv, WritesInv, NEW r \in Requests, Arrive(r)
    PROVE  /\ pc'[r] \in {"record", "commit", "session_merge", "insert"}
           /\ ~tx'[r].granted /\ tx'[r].userCols = {} /\ tx'[r].certs = {}
           /\ tx'[r].submission = {}
           /\ call'[r].op = "submit" => IsUnlocked(call'[r].user, call'[r].level)
  <1>0. WritesOK(r) /\ tx[r] \in Transaction
    BY Typed DEF WritesInv
  <1>1. ASSUME NEW u \in Users, NEW l \in Levels, ResumeLevel(r, u, l)
        PROVE  pc'[r] = "record" /\ tx'[r] = NoWrites /\ call'[r].op = "start"
    <2>1. PICK s : call'[r] = NewCall("start", u, l, None, None, s)
      BY <1>1, ResumeEffect
    <2>2. pc[r] = "idle" /\ pc'[r] = "record" /\ tx'[r] = tx[r]
      BY <1>1, ResumeEffect
    <2>3. QED  BY <1>0, <2>1, <2>2 DEF NewCall, WritesOK
  <1>2. ASSUME NEW u \in Users, NEW l \in Levels, StartLevel(r, u, l)
        PROVE  /\ pc'[r] = "commit" /\ tx'[r] = [NoWrites EXCEPT !.opened = TRUE]
               /\ call'[r].op = "start"
    <2>1. PICK s \in SessionIds :
              /\ pc[r] = "idle" /\ pc'[r] = "commit" /\ IsNextSession(s)
              /\ call'[r] = NewCall("start", u, l, None, None, s)
              /\ entity'[r] = NewSession(u, l) /\ account'[r] = account[r]
              /\ dirty'[r] = dirty[r] /\ tx'[r] = [tx[r] EXCEPT !.opened = TRUE]
      BY <1>2, StartEffect
    <2>2. tx[r] = NoWrites
      BY <1>0, <2>1 DEF WritesOK
    <2>3. QED  BY <2>1, <2>2 DEF NewCall
  <1>3. ASSUME NEW u \in Users, NEW l \in Levels, NEW w \in Wallets, SetupLevel(r, u, l, w)
        PROVE  /\ pc'[r] \in {"commit", "session_merge"} /\ tx'[r] = NoWrites
               /\ call'[r].op = "setup"
    <2>1. PICK s \in SessionIds :
              /\ pc[r] = "idle" /\ s \in ActiveSessions(u, l)
              /\ call'[r] = NewCall("setup", u, l, w, None, s)
              /\ \/ pc'[r] = "commit" /\ entity'[r] = entity[r]
                 \/ /\ pc'[r] = "session_merge" /\ l \in Executable
                    /\ entity'[r] = [sessions[s] EXCEPT !.bound = w, !.exploit = "setup_ready"]
              /\ account'[r] = account[r] /\ dirty'[r] = dirty[r] /\ tx'[r] = tx[r]
      BY <1>3, SetupEffect
    <2>2. pc[r] = "idle" /\ pc'[r] \in {"commit", "session_merge"} /\ tx'[r] = tx[r]
      BY <1>3, SetupEffect
    <2>3. QED  BY <1>0, <2>1, <2>2 DEF NewCall, WritesOK
  <1>4. ASSUME NEW u \in Users, NEW l \in Levels, NEW w \in Wallets,
               NEW g \in Signatures \cup {None}, SubmitLevel(r, u, l, w, g)
        PROVE  /\ pc'[r] = "insert" /\ tx'[r] = NoWrites
               /\ call'[r].op = "submit" /\ IsUnlocked(call'[r].user, call'[r].level)
    <2>1. PICK s : call'[r] = NewCall("submit", u, l, w, g, s)
      BY <1>4, SubmitEffect
    <2>2. /\ pc[r] = "idle" /\ pc'[r] = "insert" /\ tx'[r] = tx[r] /\ IsUnlocked(u, l)
      BY <1>4, SubmitEffect
    <2>3. QED  BY <1>0, <2>1, <2>2 DEF NewCall, WritesOK
  <1>5. QED  BY <1>1, <1>2, <1>3, <1>4 DEF Arrive, NoWrites

\* An UPDATE of no column changes nothing, one of every changed column copies.
LEMMA MergedNothing ==
    ASSUME NEW row \in UserRow, NEW copy \in UserRow
    PROVE  /\ Merged(row, copy, {}) = row
           /\ Merged(row, copy, Changed(row, copy)) = copy
  BY DEF Merged, Changed, UserRow

-----------------------------------------------------------------------------
(* Progress in the order of the levels. *)

Contiguous == \A k, l \in Levels : \A m \in k .. l : m \in Levels

\* The level of a submission is unlocked from its first read on.
UnlockedInv ==
    /\ \A u \in Users, l \in Levels : <<u, l>> \in progress => IsUnlocked(u, l)
    /\ \A r \in Requests :
          call[r].op = "submit" => IsUnlocked(call[r].user, call[r].level)

LEMMA UnlockedStays ==
    ASSUME progress \subseteq progress', NEW u, NEW l, IsUnlocked(u, l)
    PROVE  IsUnlocked(u, l)'
  BY DEF IsUnlocked

LEMMA NextUnlocked == TypeInv /\ WritesInv /\ UnlockedInv /\ [Next]_vars => UnlockedInv'
  <1>1. ASSUME UnlockedInv, UNCHANGED vars PROVE UnlockedInv'
    BY <1>1 DEF UnlockedInv, IsUnlocked, vars, tables, locals
  <1>2. ASSUME TypeInv, WritesInv, UnlockedInv, NEW r \in Requests, Step(r) PROVE UnlockedInv'
    <2>0. progress \subseteq progress' /\ OthersUnchanged(r) /\ WritesOK(r) /\ CallOK(r)
      BY <1>2, Frame DEF WritesInv, TypeInv
    <2>1. ASSUME NEW q \in Requests \ {r}, call'[q].op = "submit"
          PROVE  IsUnlocked(call[q].user, call[q].level)'
      BY <1>2, <2>0, <2>1, UnlockedStays DEF UnlockedInv, OthersUnchanged
    <2>2. call'[r].op = "submit" =>
            \/ Arrive(r) /\ IsUnlocked(call'[r].user, call'[r].level) /\ UNCHANGED progress
            \/ call'[r] = call[r]
      <3>1. CASE Arrive(r)
        BY <1>2, <3>1, ArriveEffect
           DEF Arrive, ResumeLevel, StartLevel, SetupLevel, SubmitLevel, tables
      <3>2. CASE Abort(r) \/ RecordStart(r) \/ Commit(r) \/ IntegrityError(r)
        BY <1>2, <3>2, CloseEffect DEF Abort, RecordStart, Commit, IntegrityError, NoCall
      <3>3. CASE InsertSubmission(r) \/ CommitStart(r) \/ Continues(r)
        BY <1>2, <3>3, InsertEffect, CommitStartEffect, ContinueEffect
      <3>4. QED  BY <1>2, <3>1, <3>2, <3>3 DEF Step, Proceed, Continues
    <2>3. ASSUME call'[r].op = "submit" PROVE IsUnlocked(call[r].user, call[r].level)'
      <3>1. CASE Arrive(r) /\ IsUnlocked(call'[r].user, call'[r].level) /\ UNCHANGED progress
        BY <3>1 DEF IsUnlocked
      <3>2. CASE call'[r] = call[r]
        BY <1>2, <2>0, <2>3, <3>2, UnlockedStays DEF UnlockedInv
      <3>3. QED  BY <2>2, <2>3, <3>1, <3>2
    <2>4. ASSUME NEW u \in Users, NEW l \in Levels, <<u, l>> \in progress'
          PROVE  IsUnlocked(u, l)'
      <3>1. CASE <<u, l>> \in progress
        BY <1>2, <2>0, <3>1, UnlockedStays DEF UnlockedInv
      <3>2. CASE <<u, l>> \notin progress
        <4>1. Commits(r) /\ progress' = VisibleProgress(r)
          BY <1>2, <2>4, <3>2, StepKinds, CommitPublishes DEF tables, RecordStart, Publish
        <4>2. tx[r].granted /\ u = call[r].user /\ l = call[r].level
          BY <2>4, <3>2, <4>1 DEF VisibleProgress
        <4>3. call[r].op = "submit"
          BY <2>0, <4>2 DEF WritesOK
        <4>4. QED  BY <1>2, <2>0, <4>2, <4>3, UnlockedStays DEF UnlockedInv
      <3>3. QED  BY <3>1, <3>2
    <2>5. QED  BY <2>1, <2>3, <2>4 DEF UnlockedInv
  <1>3. QED  BY <1>1, <1>2 DEF Next, Step

UnlockedSafeInv == TypeInv /\ WritesInv /\ UnlockedInv

THEOREM UnlockedInvariant == Spec => []UnlockedSafeInv
  <1>1. Init => UnlockedSafeInv
    BY InitTyped, InitWrites DEF Init, UnlockedSafeInv, UnlockedInv, NoCall
  <1>2. UnlockedSafeInv /\ [Next]_vars => UnlockedSafeInv'
    BY NextTyped, NextWrites, NextUnlocked DEF UnlockedSafeInv
  <1>3. QED  BY <1>1, <1>2, PTL DEF Spec

\* A completed level never looks locked, available or failed again.
THEOREM CompletedStaysVisibleHolds == Spec => []CompletedStaysVisible
  <1>1. ASSUME UnlockedSafeInv, NEW u \in Users, NEW l \in LevelsDoneBy(u)
        PROVE  StateFor(u, l) \in {"completed", "in_progress"}
    <2>1. l \in Levels /\ <<u, l>> \in progress
      BY <1>1 DEF LevelsDoneBy
    <2>2. IsUnlocked(u, l)
      BY <1>1, <2>1 DEF UnlockedSafeInv, UnlockedInv
    <2>3. QED  BY <2>1, <2>2 DEF StateFor
  <1>2. UnlockedSafeInv => CompletedStaysVisible
    BY <1>1 DEF CompletedStaysVisible
  <1>3. QED  BY <1>2, UnlockedInvariant, PTL

\* Without a gap in the orders, an unlocked level has all those before it done.
LEMMA UnlockedMeansBefore ==
    ASSUME Contiguous, ProgressIsSequential, NEW u \in Users, NEW l \in Levels,
           IsUnlocked(u, l), NEW k \in Levels, k < l
    PROVE  <<u, k>> \in progress
  <1>1. l \in Nat /\ k \in Nat
    BY LevelsAssumption
  <1>2. l - 1 \in k .. l
    BY <1>1
  <1>3. l - 1 \in Levels
    BY <1>2 DEF Contiguous
  <1>4. <<u, l - 1>> \in progress
    BY <1>1, <1>3 DEF IsUnlocked
  <1>5. CASE k = l - 1
    BY <1>4, <1>5
  <1>6. CASE k < l - 1
    BY <1>3, <1>4, <1>6 DEF ProgressIsSequential, LevelsDoneBy
  <1>7. QED  BY <1>1, <1>5, <1>6

\* So at any time a user has at most one unlocked level to complete.
LEMMA OneLevelToComplete ==
    ASSUME Contiguous, ProgressIsSequential, NEW u \in Users, NEW l \in Levels, NEW m \in Levels,
           IsUnlocked(u, l), <<u, l>> \notin progress, IsUnlocked(u, m), <<u, m>> \notin progress
    PROVE  l = m
  <1>1. l \in Nat /\ m \in Nat
    BY LevelsAssumption
  <1>2. ~(l < m) /\ ~(m < l)
    BY UnlockedMeansBefore
  <1>3. QED  BY <1>1, <1>2

\* Levels are completed in order, by whatever interleaving of requests.
LEMMA NextSequential ==
    ASSUME Contiguous
    PROVE  UnlockedSafeInv /\ ProgressIsSequential /\ [Next]_vars => ProgressIsSequential'
  <1>1. ASSUME ProgressIsSequential, UNCHANGED progress PROVE ProgressIsSequential'
    BY <1>1 DEF ProgressIsSequential, LevelsDoneBy
  <1>2. ASSUME UnlockedSafeInv, ProgressIsSequential, NEW r \in Requests, Commits(r)
        PROVE  ProgressIsSequential'
    <2> DEFINE v == call[r].user
               m == call[r].level
    <2>1. /\ pc[r] = "commit" /\ v \in Users /\ m \in Levels /\ progress' = VisibleProgress(r)
          /\ (tx[r].granted => IsUnlocked(v, m))
      BY <1>2, CommitPublishes
         DEF Publish, UnlockedSafeInv, TypeInv, CallOK, WritesInv, WritesOK, UnlockedInv
    <2>2. progress \subseteq progress' /\ \A x \in progress' \ progress : x = <<v, m>> /\ tx[r].granted
      BY <2>1 DEF VisibleProgress
    <2>3. ASSUME NEW u \in Users, NEW l \in Levels, <<u, l>> \in progress', NEW k \in Levels, k < l
          PROVE  <<u, k>> \in progress'
      <3>1. CASE <<u, l>> \in progress
        BY <1>2, <2>2, <2>3, <3>1 DEF ProgressIsSequential, LevelsDoneBy
      <3>2. CASE <<u, l>> \notin progress
        <4>1. u = v /\ l = m /\ IsUnlocked(u, l)
          BY <2>1, <2>2, <2>3, <3>2
        <4>2. QED  BY <1>2, <2>2, <2>3, <4>1, UnlockedMeansBefore
      <3>3. QED  BY <3>1, <3>2
    <2>4. QED  BY <2>3 DEF ProgressIsSequential, LevelsDoneBy
  <1>3. QED  BY <1>1, <1>2, StepKinds DEF Next, Step, vars, tables, RecordStart

\* Levels are completed in order, whatever requests run concurrently: the level
\* access check comes before the first write, but nothing ever locks a level again.
THEOREM ProgressIsSequentialHolds ==
    ASSUME Contiguous
    PROVE  Spec => []ProgressIsSequential
  <1>1. Init => ProgressIsSequential
    BY DEF Init, ProgressIsSequential, LevelsDoneBy
  <1>2. UnlockedSafeInv /\ ProgressIsSequential /\ [Next]_vars => ProgressIsSequential'
    BY NextSequential
  <1>3. QED  BY <1>1, <1>2, UnlockedInvariant, PTL DEF Spec

-----------------------------------------------------------------------------
(* Experience points.  From the insert of its progress row on, a request is *)
(* the only one that pays its user, and what it is going to write is the    *)
(* account of that moment plus the reward.                                  *)

PayOK(r) ==
    LET u == call[r].user
        l == call[r].level
    IN  /\ (pc[r] = "grant" /\ <<u, l>> \notin progress) \/ tx[r].granted
              => account[r] = Credited(u, l)
        /\ tx[r].granted => <<u, l>> \notin progress
        /\ tx[r].granted /\ pc[r] = "account_flush" => dirty[r] = Changed(users[u], account[r])
        /\ tx[r].granted /\ pc[r] \notin {"account_merge", "account_flush"}
              => tx[r].userCols = Changed(users[u], account[r])
        /\ ~tx[r].granted \/ pc[r] \in {"account_merge", "account_flush"} => tx[r].userCols = {}

OnePayer ==
    \A q, r \in Requests :
        tx[q].granted /\ tx[r].granted /\ call[q].user = call[r].user => q = r

PayInv == OnePayer /\ \A r \in Requests : PayOK(r)

\* What a step does to the ledger: nothing, or one payment.
Pays(r) ==
    LET u == call[r].user
        l == call[r].level
    IN  /\ Commits(r) /\ tx[r].granted
        /\ u \in Users /\ l \in Levels /\ <<u, l>> \notin progress
        /\ progress' = progress \cup {<<u, l>>}
        /\ users' = [users EXCEPT ![u] = Credited(u, l)]

LEMMA PayOrKeep ==
    ASSUME TypeInv, PayInv, NEW r \in Requests, Step(r)
    PROVE  Pays(r) \/ UNCHANGED <<progress, users>>
  <1>1. CASE Commits(r)
    <2> DEFINE u == call[r].user
               l == call[r].level
    <2>1. /\ pc[r] = "commit" /\ progress' = VisibleProgress(r)
          /\ users' = [users EXCEPT ![u] = Merged(@, account[r], tx[r].userCols)]
      BY <1>1, CommitPublishes DEF Publish
    <2>2. u \in Users /\ l \in Levels /\ users \in [Users -> UserRow] /\ account[r] \in UserRow
      BY <2>1 DEF TypeInv, CallOK, TypeOK
    <2>3. PayOK(r)
      BY DEF PayInv
    <2>4. CASE tx[r].granted
      <3>1. tx[r].userCols = Changed(users[u], account[r]) /\ account[r] = Credited(u, l)
            /\ <<u, l>> \notin progress
        BY <2>1, <2>3, <2>4 DEF PayOK
      <3>2. Merged(users[u], account[r], tx[r].userCols) = Credited(u, l)
        BY <2>2, <3>1, MergedNothing
      <3>3. progress' = progress \cup {<<u, l>>}
        BY <2>1, <2>4 DEF VisibleProgress
      <3>4. QED  BY <1>1, <2>1, <2>2, <2>4, <3>1, <3>2, <3>3 DEF Pays
    <2>5. CASE ~tx[r].granted
      <3>1. tx[r].userCols = {}
        BY <2>3, <2>5 DEF PayOK
      <3>2. Merged(users[u], account[r], tx[r].userCols) = users[u]
        BY <2>2, <3>1, MergedNothing
      <3>3. users' = users /\ progress' = progress
        BY <2>1, <2>2, <2>5, <3>2 DEF VisibleProgress
      <3>4. QED  BY <3>3
    <2>6. QED  BY <2>4, <2>5
  <1>2. QED  BY <1>1, StepKinds DEF tables, RecordStart

\* A request grants in its own step, and only once it sees nobody else granting.
LEMMA GrantedBefore ==
    ASSUME TypeInv, WritesInv, NEW r \in Requests, Step(r), tx'[r].granted
    PROVE  /\ call'[r] = call[r] /\ account'[r] = account[r]
           /\ tx[r].granted \/ InsertProgress(r)
  <1>0. tx[r] \in Transaction
    BY Typed
  <1>1. ~Arrive(r)
    BY ArriveEffect
  <1>2. CASE Abort(r) \/ RecordStart(r) \/ Commit(r) \/ IntegrityError(r)
    BY <1>2, CloseEffect DEF Abort, RecordStart, Commit, IntegrityError, NoWrites
  <1>3. CASE CommitStart(r)
    BY <1>3, CommitStartEffect DEF NoWrites
  <1>4. CASE InsertSubmission(r)
    <2>1. WritesOK(r)
      BY DEF WritesInv
    <2>2. pc[r] = "insert" /\ \E S : tx'[r] = [tx[r] EXCEPT !.submission = S]
      BY <1>4, InsertEffect
    <2>3. ~tx[r].granted
      BY <2>1, <2>2 DEF WritesOK, NoWrites
    <2>4. tx'[r].granted = tx[r].granted
      BY <1>0, <2>2 DEF Transaction
    <2>5. QED  BY <2>3, <2>4
  <1>5. CASE Continues(r)
    <2>1. CASE InsertProgress(r)
      BY <2>1, GrantEffect
    <2>2. CASE ReadAccount(r)
      BY <2>2, ReadEffect DEF WritesInv, WritesOK
    <2>3. CASE MergeAccount(r) \/ MergeSession(r)
      BY <2>3, MergeAccountEffect, MergeSessionEffect
    <2>4. CASE FlushAccount(r)
      BY <1>0, <2>4, FlushAccountEffect DEF Transaction
    <2>5. CASE FlushSession(r)
      BY <1>0, <2>5, FlushSessionEffect DEF Transaction
    <2>6. CASE EvaluateCertification(r)
      <3>1. PICK S : tx'[r] = [tx[r] EXCEPT !.certs = S]
        BY <2>6, CertifyEffect
      <3>2. QED  BY <1>0, <2>6, <3>1, CertifyEffect DEF Transaction
    <2>7. QED  BY <1>5, <2>1, <2>2, <2>3, <2>4, <2>5, <2>6 DEF Continues
  <1>6. QED  BY <1>1, <1>2, <1>3, <1>4, <1>5 DEF Step, Proceed, Continues

\* A user whose levels have no gap is never paid by two requests at once: both
\* would complete the one level that is unlocked and not done, and the second
\* insert waits on uq_progress_user_level.
LEMMA NextOnePayer ==
    ASSUME Contiguous, UnlockedSafeInv, PayInv, ProgressIsSequential,
           NEW r \in Requests, Step(r)
    PROVE  OnePayer'
  <1>0. TypeInv /\ WritesInv /\ UnlockedInv /\ OthersUnchanged(r)
    BY Frame DEF UnlockedSafeInv
  <1>1. ASSUME NEW q \in Requests \ {r}, tx[q].granted, tx'[r].granted,
               call[q].user = call[r].user
        PROVE  FALSE
    <2>1. tx[r].granted \/ InsertProgress(r)
      BY <1>0, <1>1, GrantedBefore
    <2>2. ~tx[r].granted
      BY <1>1 DEF PayInv, OnePayer
    <2>3. InsertProgress(r)
      BY <2>1, <2>2
    <2>4. /\ pc[r] = "grant" /\ ~Waits(r) /\ <<call[r].user, call[r].level>> \notin progress
      BY <1>0, <2>3, GrantEffect
    <2>5. <<call[q].user, call[q].level>> \notin progress
      BY <1>1 DEF PayInv, PayOK
    <2>6. call[q].op = "submit" /\ call[r].op = "submit"
      BY <1>0, <1>1, <2>4 DEF TypeInv, CallOK, Submitting, WritesInv, WritesOK
    <2>7. /\ IsUnlocked(call[q].user, call[q].level)
          /\ IsUnlocked(call[r].user, call[r].level)
      BY <1>0, <2>6 DEF UnlockedInv
    <2>8. call[r].user \in Users /\ call[r].level \in Levels /\ call[q].level \in Levels
      <3>1. WritesOK(q)
        BY <1>0 DEF WritesInv
      <3>2. pc[q] # "idle"
        BY <2>6, <3>1 DEF WritesOK, NoCall
      <3>3. QED  BY <1>0, <2>4, <3>2 DEF TypeInv, CallOK
    <2>9. call[q].level = call[r].level
      BY <1>1, <2>4, <2>5, <2>7, <2>8, OneLevelToComplete
    <2>10. GrantWaits(r, q)
      BY <1>1, <2>4, <2>9 DEF GrantWaits
    <2>11. QED  BY <2>4, <2>10 DEF Waits, WaitsFor
  <1>2. ASSUME NEW p \in Requests, NEW q \in Requests, tx'[p].granted, tx'[q].granted,
               call'[p].user = call'[q].user
        PROVE  p = q
    <2>1. tx'[r].granted => call'[r] = call[r]
      BY <1>0, GrantedBefore
    <2>2. CASE p = r /\ q # r
      BY <1>0, <1>1, <1>2, <2>1, <2>2 DEF OthersUnchanged
    <2>3. CASE p # r /\ q = r
      BY <1>0, <1>1, <1>2, <2>1, <2>3 DEF OthersUnchanged
    <2>4. CASE p # r /\ q # r
      BY <1>0, <1>2, <2>4 DEF OthersUnchanged, PayInv, OnePayer
    <2>5. QED  BY <2>2, <2>3, <2>4
  <1>3. QED  BY <1>2 DEF OnePayer

\* A payment of another request leaves what a request is going to pay alone:
\* it is to another user, or the level is now done.
LEMMA OthersPay ==
    ASSUME Contiguous, UnlockedSafeInv, PayInv, ProgressIsSequential,
           NEW r \in Requests, Step(r), NEW q \in Requests \ {r}
    PROVE  PayOK(q)'
  <1>0. TypeInv /\ WritesInv /\ UnlockedInv /\ OthersUnchanged(r) /\ PayOK(q) /\ PayOK(r)
    BY Frame DEF UnlockedSafeInv, PayInv
  <1>1. /\ pc'[q] = pc[q] /\ call'[q] = call[q] /\ account'[q] = account[q]
        /\ dirty'[q] = dirty[q] /\ tx'[q] = tx[q]
    BY <1>0 DEF OthersUnchanged
  <1>2. CASE UNCHANGED <<progress, users>>
    BY <1>0, <1>1, <1>2 DEF PayOK, Credited
  <1>3. CASE Pays(r)
    <2> DEFINE u == call[r].user
               l == call[r].level
               v == call[q].user
               m == call[q].level
    <2>1. /\ tx[r].granted /\ u \in Users /\ l \in Levels /\ <<u, l>> \notin progress
          /\ progress' = progress \cup {<<u, l>>}
          /\ users' = [users EXCEPT ![u] = Credited(u, l)] /\ users \in [Users -> UserRow]
      BY <1>0, <1>3 DEF Pays, TypeInv, TypeOK
    <2>2. CASE v # u
      <3>1. users'[v] = users[v] /\ (<<v, m>> \in progress' <=> <<v, m>> \in progress)
        BY <2>1, <2>2
      <3>2. QED  BY <1>0, <1>1, <3>1 DEF PayOK, Credited
    <2>3. CASE v = u
      <3>1. ~tx[q].granted
        BY <2>1, <2>3 DEF PayInv, OnePayer
      <3>2. pc[q] = "grant" => <<v, m>> \in progress'
        <4>1. SUFFICES ASSUME pc[q] = "grant", <<v, m>> \notin progress PROVE m = l
          BY <2>1, <2>3
        <4>2. call[q].op = "submit" /\ call[r].op = "submit" /\ m \in Levels
          BY <1>0, <2>1, <4>1 DEF TypeInv, CallOK, Submitting, WritesInv, WritesOK
        <4>3. IsUnlocked(u, m) /\ IsUnlocked(u, l)
          BY <1>0, <2>3, <4>2 DEF UnlockedInv
        <4>4. QED  BY <2>1, <2>3, <4>1, <4>2, <4>3, OneLevelToComplete
      <3>3. QED  BY <1>0, <1>1, <3>1, <3>2 DEF PayOK
    <2>4. QED  BY <2>2, <2>3
  <1>4. QED  BY <1>0, <1>2, <1>3, PayOrKeep

LEMMA StepPay ==
    ASSUME TypeInv, WritesInv, PayInv, NEW r \in Requests, Step(r)
    PROVE  PayOK(r)'
  <1>0. tx[r] \in Transaction /\ WritesOK(r) /\ CallOK(r) /\ PayOK(r)
    BY Typed DEF WritesInv, TypeInv, PayInv
  <1> USE <1>0
  <1>1. CASE Arrive(r)
    BY <1>1, ArriveEffect DEF PayOK
  <1>2. CASE Abort(r) \/ RecordStart(r) \/ Commit(r) \/ IntegrityError(r)
    BY <1>2, CloseEffect DEF Abort, RecordStart, Commit, IntegrityError, NoWrites, PayOK
  <1>3. CASE CommitStart(r)
    BY <1>3, CommitStartEffect DEF NoWrites, PayOK
  <1>4. CASE InsertSubmission(r)
    <2>1. /\ pc[r] = "insert" /\ pc'[r] \in {"complete", "session_merge"}
          /\ \E S : tx'[r] = [tx[r] EXCEPT !.submission = S]
      BY <1>4, InsertEffect
    <2>2. ~tx'[r].granted /\ tx'[r].userCols = {}
      BY <2>1 DEF WritesOK, NoWrites, Transaction
    <2>3. QED  BY <2>1, <2>2 DEF PayOK
  <1>5. CASE ReadAccount(r)
    <2>1. /\ pc[r] = "complete" /\ tx'[r] = tx[r] /\ call'[r] = call[r] /\ UNCHANGED tables
          /\ \/ pc'[r] = "certify"
             \/ pc'[r] = "grant" /\ account'[r] = Credited(call[r].user, call[r].level)
      BY <1>5, ReadEffect DEF ReadAccount
    <2>2. ~tx[r].granted /\ tx[r].userCols = {}
      BY <2>1 DEF WritesOK, PayOK
    <2>3. QED  BY <2>1, <2>2 DEF PayOK, Credited, tables
  <1>6. CASE InsertProgress(r)
    <2>1. /\ pc[r] = "grant" /\ pc'[r] = "account_merge" /\ call'[r] = call[r]
          /\ account'[r] = account[r] /\ <<call[r].user, call[r].level>> \notin progress
          /\ tx'[r] = [tx[r] EXCEPT !.granted = TRUE] /\ UNCHANGED tables
      BY <1>6, GrantEffect DEF InsertProgress
    <2>2. ~tx[r].granted /\ tx[r].userCols = {}
      BY <2>1 DEF WritesOK, PayOK
    <2>3. tx'[r].userCols = {}
      BY <2>1, <2>2 DEF Transaction
    <2>4. account[r] = Credited(call[r].user, call[r].level)
      BY <2>1 DEF PayOK
    <2>5. QED  BY <2>1, <2>3, <2>4 DEF PayOK, Credited, tables
  <1>7. CASE MergeAccount(r)
    <2>1. /\ pc[r] = "account_merge" /\ call'[r] = call[r] /\ account'[r] = account[r]
          /\ tx'[r] = tx[r] /\ dirty'[r] = Changed(users[call[r].user], account[r])
          /\ pc'[r] = (IF dirty'[r] = {} THEN "certify" ELSE "account_flush")
          /\ UNCHANGED tables
      BY <1>7, MergeAccountEffect DEF MergeAccount
    <2>2. tx[r].granted /\ tx[r].userCols = {}
      BY <2>1 DEF WritesOK, PayOK
    <2>3. QED  BY <2>1, <2>2 DEF PayOK, Credited, tables
  <1>8. CASE FlushAccount(r)
    <2>1. /\ pc[r] = "account_flush" /\ pc'[r] = "certify" /\ call'[r] = call[r]
          /\ account'[r] = account[r] /\ tx'[r] = [tx[r] EXCEPT !.userCols = dirty[r]]
          /\ UNCHANGED tables
      BY <1>8, FlushAccountEffect DEF FlushAccount
    <2>2. tx[r].granted
      BY <2>1 DEF WritesOK
    <2>3. tx'[r].userCols = dirty[r] /\ tx'[r].granted
      BY <2>1, <2>2 DEF Transaction, CallOK
    <2>4. QED  BY <2>1, <2>2, <2>3 DEF PayOK, Credited, tables
  <1>9. ASSUME pc[r] \in {"certify", "session_merge", "session_flush"},
               pc'[r] \in {"session_merge", "session_flush", "commit"},
               call'[r] = call[r], account'[r] = account[r], UNCHANGED tables,
               tx'[r].granted = tx[r].granted, tx'[r].userCols = tx[r].userCols
        PROVE  PayOK(r)'
    BY <1>9 DEF PayOK, Credited, tables
  <1>10. CASE EvaluateCertification(r)
    <2>1. PICK S : tx'[r] = [tx[r] EXCEPT !.certs = S]
      BY <1>10, CertifyEffect
    <2>2. tx'[r].granted = tx[r].granted /\ tx'[r].userCols = tx[r].userCols
      BY <2>1 DEF Transaction
    <2>3. QED  BY <1>9, <1>10, <2>2, CertifyEffect DEF EvaluateCertification
  <1>11. CASE MergeSession(r)
    BY <1>9, <1>11, MergeSessionEffect DEF MergeSession
  <1>12. CASE FlushSession(r)
    <2>1. tx'[r].granted = tx[r].granted /\ tx'[r].userCols = tx[r].userCols
      BY <1>12, FlushSessionEffect DEF Transaction
    <2>2. QED  BY <1>9, <1>12, <2>1, FlushSessionEffect DEF FlushSession
  <1>13. QED
    BY <1>1, <1>2, <1>3, <1>4, <1>5, <1>6, <1>7, <1>8, <1>10, <1>11, <1>12 DEF Step, Proceed

\* The account moves with the progress rows.
LEMMA PaidOnce ==
    ASSUME TypeInv, LedgerMatchesProgress, NEW r \in Requests, Pays(r)
    PROVE  LedgerMatchesProgress'
  <1> DEFINE v == call[r].user
             m == call[r].level
  <1>1. /\ v \in Users /\ m \in Levels /\ <<v, m>> \notin progress
        /\ progress' = progress \cup {<<v, m>>}
        /\ users' = [users EXCEPT ![v] = Credited(v, m)] /\ users \in [Users -> UserRow]
    BY DEF Pays, TypeInv, TypeOK
  <1>2. ASSUME NEW u \in Users
        PROVE  /\ users'[u].xp = TotalReward[LevelsDoneBy(u)']
               /\ users'[u].completed_levels = Cardinality(LevelsDoneBy(u)')
    <2> DEFINE done == LevelsDoneBy(u)
    <2>1. users[u].xp = TotalReward[done] /\ users[u].completed_levels = Cardinality(done)
      BY DEF LedgerMatchesProgress
    <2>2. CASE u # v
      <3>1. users'[u] = users[u] /\ LevelsDoneBy(u)' = done
        BY <1>1, <2>2 DEF LevelsDoneBy
      <3>2. QED  BY <2>1, <3>1
    <2>3. CASE u = v
      <3>1. done \in SUBSET Levels /\ m \notin done /\ LevelsDoneBy(u)' = done \cup {m}
        BY <1>1, <2>3 DEF LevelsDoneBy
      <3>2. users'[u] = Credited(u, m)
        BY <1>1, <2>3
      <3>3. /\ users'[u].xp = users[u].xp + XpReward[m]
            /\ users'[u].completed_levels = users[u].completed_levels + 1
        BY <3>2 DEF Credited
      <3>4. TotalReward[done \cup {m}] = TotalReward[done] + XpReward[m]
        BY <1>1, <3>1, LevelsAssumption
      <3>5. IsFiniteSet(done)
        BY <3>1, LevelsAssumption, FS_Subset
      <3>6. Cardinality(done \cup {m}) = Cardinality(done) + 1
        BY <3>1, <3>5, FS_AddElement
      <3> HIDE DEF done
      <3>7. QED  BY <2>1, <3>1, <3>3, <3>4, <3>6
    <2>4. QED  BY <2>2, <2>3
  <1>3. QED  BY <1>2 DEF LedgerMatchesProgress

LedgerInv == UnlockedSafeInv /\ ProgressIsSequential /\ PayInv /\ LedgerMatchesProgress

LEMMA NextLedger ==
    ASSUME Contiguous
    PROVE  LedgerInv /\ [Next]_vars => LedgerInv'
  <1>1. UnlockedSafeInv /\ ProgressIsSequential /\ [Next]_vars
          => (UnlockedSafeInv /\ ProgressIsSequential)'
    BY NextTyped, NextWrites, NextUnlocked, NextSequential DEF UnlockedSafeInv
  <1>2. ASSUME LedgerInv, UNCHANGED vars PROVE PayInv' /\ LedgerMatchesProgress'
    <2>1. OnePayer' /\ LedgerMatchesProgress'
      BY <1>2 DEF LedgerInv, PayInv, OnePayer, LedgerMatchesProgress, LevelsDoneBy,
                  vars, tables, locals
    <2>2. ASSUME NEW r \in Requests PROVE PayOK(r)'
      BY <1>2 DEF LedgerInv, PayInv, PayOK, Credited, vars, tables, locals
    <2>3. QED  BY <2>1, <2>2 DEF PayInv
  <1>3. ASSUME LedgerInv, NEW r \in Requests, Step(r) PROVE PayInv' /\ LedgerMatchesProgress'
    <2>1. TypeInv /\ WritesInv /\ UnlockedSafeInv /\ PayInv /\ ProgressIsSequential
          /\ LedgerMatchesProgress
      BY <1>3 DEF LedgerInv, UnlockedSafeInv
    <2>2. OnePayer'
      BY <1>3, <2>1, NextOnePayer
    <2>3. ASSUME NEW q \in Requests PROVE PayOK(q)'
      <3>1. CASE q = r
        BY <1>3, <2>1, <3>1, StepPay
      <3>2. CASE q # r
        BY <1>3, <2>1, <3>2, OthersPay
      <3>3. QED  BY <3>1, <3>2
    <2>4. LedgerMatchesProgress'
      <3>1. CASE Pays(r)
        BY <1>3, <2>1, <3>1, PaidOnce
      <3>2. CASE UNCHANGED <<progress, users>>
        BY <2>1, <3>2 DEF LedgerMatchesProgress, LevelsDoneBy
      <3>3. QED  BY <1>3, <2>1, <3>1, <3>2, PayOrKeep
    <2>5. QED  BY <2>2, <2>3, <2>4 DEF PayInv
  <1>4. QED  BY <1>1, <1>2, <1>3 DEF LedgerInv, Next, Step

LEMMA InitLedger == Init => LedgerInv
  <1> SUFFICES ASSUME Init PROVE LedgerInv
    OBVIOUS
  <1>1. UnlockedSafeInv
    BY InitTyped, InitWrites DEF Init, UnlockedSafeInv, UnlockedInv, NoCall
  <1>2. ProgressIsSequential
    BY DEF Init, ProgressIsSequential, LevelsDoneBy
  <1>3. PayInv
    BY DEF Init, PayInv, PayOK, OnePayer, NoWrites
  <1>4. \A u \in Users : LevelsDoneBy(u) = {} /\ users[u] = NoAccount
    BY DEF Init, LevelsDoneBy
  <1>5. LedgerMatchesProgress
    <2>1. TotalReward[{}] = 0 /\ Cardinality({}) = 0
      BY LevelsAssumption, FS_EmptySet
    <2>2. QED  BY <1>4, <2>1 DEF LedgerMatchesProgress, NoAccount
  <1>6. QED  BY <1>1, <1>2, <1>3, <1>5 DEF LedgerInv

THEOREM LedgerInvariant ==
    ASSUME Contiguous
    PROVE  Spec => []LedgerInv
  BY InitLedger, NextLedger, PTL DEF Spec

\* The experience points and the level count of a user are those of the levels
\* completed: no interleaving of requests loses or doubles an award, although
\* users.xp is written as a value computed from an earlier read.
THEOREM LedgerMatchesProgressHolds ==
    ASSUME Contiguous
    PROVE  Spec => []LedgerMatchesProgress
  <1>1. LedgerInv => LedgerMatchesProgress
    BY DEF LedgerInv
  <1>2. QED  BY <1>1, LedgerInvariant, PTL

-----------------------------------------------------------------------------
(* Refinement. *)

\* The gameplay loop, with all its statements and interleavings, implements the
\* ledger: each commit is one payment or leaves the ledger alone.
THEOREM LedgerImplemented ==
    ASSUME Contiguous
    PROVE  Spec => ImplementsLedger
  <1>1. Init => Ledger!Init
    BY DEF Init, Ledger!Init, NoAccount
  <1>2. LedgerInv /\ [Next]_vars => [Ledger!Next]_<<progress, users>>
    <2>1. ASSUME UNCHANGED vars PROVE UNCHANGED <<progress, users>>
      BY <2>1 DEF vars, tables
    <2>2. ASSUME LedgerInv, NEW r \in Requests, Pays(r) PROVE Ledger!Next
      <3> DEFINE u == call[r].user
                 l == call[r].level
      <3>1. /\ u \in Users /\ l \in Levels /\ <<u, l>> \notin progress
            /\ progress' = progress \cup {<<u, l>>}
            /\ users' = [users EXCEPT ![u] = Credited(u, l)] /\ users \in [Users -> UserRow]
        BY <2>2 DEF Pays, LedgerInv, UnlockedSafeInv, TypeInv, TypeOK
      <3>2. users' = [users EXCEPT ![u] =
                [xp |-> @.xp + XpReward[l], completed_levels |-> @.completed_levels + 1]]
        BY <3>1 DEF Credited
      <3>3. Ledger!Pay(u, l)
        BY <3>1, <3>2 DEF Ledger!Pay
      <3>4. QED  BY <3>1, <3>3 DEF Ledger!Next
    <2>3. ASSUME LedgerInv, NEW r \in Requests, Step(r)
          PROVE  [Ledger!Next]_<<progress, users>>
      <3>1. TypeInv /\ PayInv
        BY <2>3 DEF LedgerInv, UnlockedSafeInv
      <3>2. QED  BY <2>2, <2>3, <3>1, PayOrKeep
    <2>4. QED  BY <2>1, <2>3 DEF Next, Step
  <1>3. QED  BY <1>1, <1>2, LedgerInvariant, PTL DEF Spec, ImplementsLedger, Ledger!Spec

-----------------------------------------------------------------------------
(* Analytics and certifications, for any catalogue. *)

SubmissionEvent(u, l, v) ==
    [type |-> IF v THEN "level_submission_verified" ELSE "level_submission_rejected",
     user |-> u, level |-> l]

\* The submission events of a commit are those of its submission.
LEMMA CommittedEvents ==
    ASSUME TypeInv, WritesInv, NEW r \in Requests, Commits(r),
           NEW u \in Users, NEW l \in Levels, NEW v \in BOOLEAN
    PROVE  SubmissionEvent(u, l, v) \in EventsOf(r)
              <=> \E b \in tx[r].submission : b.user = u /\ b.level = l /\ b.verified = v
  <1>1. WritesOK(r) /\ tx[r] \in Transaction /\ call[r] \in Call
    BY Typed DEF WritesInv
  <1>2. CASE call[r].op = "submit"
    <2>1. \A b \in tx[r].submission :
             b.user = call[r].user /\ b.level = call[r].level /\ b.verified \in BOOLEAN
      BY <1>1 DEF WritesOK, Transaction, Submission
    <2>2. EventsOf(r) =
             {SubmissionEvent(call[r].user, call[r].level, b.verified) : b \in tx[r].submission}
      BY <1>2 DEF EventsOf, SubmissionEvent
    <2>3. \A x \in BOOLEAN : SubmissionEvent(u, l, v) = SubmissionEvent(call[r].user, call[r].level, x)
             <=> u = call[r].user /\ l = call[r].level /\ v = x
      BY DEF SubmissionEvent
    <2>4. QED  BY <2>1, <2>2, <2>3
  <1>3. CASE call[r].op # "submit"
    <2>1. tx[r].submission = {}
      BY <1>1, <1>3 DEF WritesOK
    <2>2. \A e \in EventsOf(r) : e.type = "level_setup_ready"
      BY <1>3 DEF EventsOf
    <2>3. SubmissionEvent(u, l, v).type # "level_setup_ready"
      BY DEF SubmissionEvent
    <2>4. QED  BY <2>1, <2>2, <2>3
  <1>4. QED  BY <1>2, <1>3

LEMMA NextEvents ==
    TypeInv /\ WritesInv /\ SubmissionEventsMatch /\ [Next]_vars => SubmissionEventsMatch'
  <1>1. ASSUME SubmissionEventsMatch, UNCHANGED <<analytics, submissions>>
        PROVE  SubmissionEventsMatch'
    <2>1. ASSUME NEW u \in Users, NEW l \in Levels, NEW v \in BOOLEAN
          PROVE  SubmissionEvent(u, l, v) \in analytics'
                    <=> \E b \in submissions' : b.user = u /\ b.level = l /\ b.verified = v
      BY <1>1 DEF SubmissionEventsMatch, SubmissionEvent
    <2>2. QED  BY <2>1 DEF SubmissionEventsMatch, SubmissionEvent
  <1>2. ASSUME SubmissionEventsMatch, NEW r \in Requests, RecordStart(r)
        PROVE  SubmissionEventsMatch'
    <2>1. /\ submissions' = submissions
          /\ \E e : e.type = "level_started" /\ analytics' = analytics \cup {e}
      BY <1>2 DEF RecordStart
    <2>2. ASSUME NEW u \in Users, NEW l \in Levels, NEW v \in BOOLEAN
          PROVE  SubmissionEvent(u, l, v) \in analytics'
                    <=> \E b \in submissions' : b.user = u /\ b.level = l /\ b.verified = v
      <3>1. SubmissionEvent(u, l, v).type # "level_started"
        BY DEF SubmissionEvent
      <3>2. SubmissionEvent(u, l, v) \in analytics' <=> SubmissionEvent(u, l, v) \in analytics
        BY <2>1, <3>1
      <3>3. QED  BY <1>2, <2>1, <3>2 DEF SubmissionEventsMatch, SubmissionEvent
    <2>3. QED  BY <2>2 DEF SubmissionEventsMatch, SubmissionEvent
  <1>3. ASSUME TypeInv, WritesInv, SubmissionEventsMatch, NEW r \in Requests, Commits(r)
        PROVE  SubmissionEventsMatch'
    <2>1. submissions' = submissions \cup tx[r].submission /\ analytics' = analytics \cup EventsOf(r)
      BY <1>3, CommitPublishes DEF Publish
    <2>2. ASSUME NEW u \in Users, NEW l \in Levels, NEW v \in BOOLEAN
          PROVE  SubmissionEvent(u, l, v) \in analytics'
                    <=> \E b \in submissions' : b.user = u /\ b.level = l /\ b.verified = v
      <3>1. SubmissionEvent(u, l, v) \in analytics
              <=> \E b \in submissions : b.user = u /\ b.level = l /\ b.verified = v
        BY <1>3 DEF SubmissionEventsMatch, SubmissionEvent
      <3>2. SubmissionEvent(u, l, v) \in EventsOf(r)
              <=> \E b \in tx[r].submission : b.user = u /\ b.level = l /\ b.verified = v
        BY <1>3, CommittedEvents
      <3>3. QED  BY <2>1, <3>1, <3>2
    <2>3. QED  BY <2>2 DEF SubmissionEventsMatch, SubmissionEvent
  <1>4. QED  BY <1>1, <1>2, <1>3, StepKinds DEF Next, Step, vars, tables

\* The submission events of the analytics table are those of the committed
\* submissions, none missing and none for a submission rolled back.
THEOREM SubmissionEventsMatchHolds == Spec => []SubmissionEventsMatch
  <1>1. Init => SubmissionEventsMatch
    BY DEF Init, SubmissionEventsMatch
  <1>2. TypeInv /\ WritesInv /\ SubmissionEventsMatch /\ [Next]_vars
          => (TypeInv /\ WritesInv /\ SubmissionEventsMatch)'
    BY NextTyped, NextWrites, NextEvents
  <1>3. QED  BY <1>1, <1>2, InitTyped, InitWrites, PTL DEF Spec

Cert(k) == IF k = 2 THEN LEVEL_2 ELSE LEVEL_3

CertifiedLevels == {2, 3} \cap Levels

\* A certification about to be created is due, and whoever completes its level
\* creates it unless it is there.
CertsOK(r) ==
    \A k \in CertifiedLevels :
        /\ Cert(k) \in tx[r].certs => <<call[r].user, k>> \in VisibleProgress(r)
        /\ /\ tx[r].granted /\ call[r].level = k
           /\ pc[r] \in {"session_merge", "session_flush", "commit"}
           => Cert(k) \in tx[r].certs \/ <<call[r].user, Cert(k)>> \in certifications

CertsInv == CertificationFollowsLevel /\ \A r \in Requests : CertsOK(r)

LEMMA LevelsCertified ==
    CertificationFollowsLevel
        <=> \A u \in Users, k \in CertifiedLevels :
               <<u, Cert(k)>> \in certifications <=> <<u, k>> \in progress
  <1>1. \A k : k \in CertifiedLevels <=> (k = 2 \/ k = 3) /\ k \in Levels
    BY DEF CertifiedLevels
  <1>2. Cert(2) = LEVEL_2 /\ Cert(3) = LEVEL_3
    BY DEF Cert
  <1>3. ASSUME CertificationFollowsLevel, NEW u \in Users, NEW k \in CertifiedLevels
        PROVE  <<u, Cert(k)>> \in certifications <=> <<u, k>> \in progress
    <2>1. CASE k = 2
      BY <1>1, <1>2, <1>3, <2>1 DEF CertificationFollowsLevel
    <2>2. CASE k = 3
      BY <1>1, <1>2, <1>3, <2>2 DEF CertificationFollowsLevel
    <2>3. QED  BY <1>1, <2>1, <2>2
  <1>4. ASSUME \A u \in Users, k \in CertifiedLevels :
                  <<u, Cert(k)>> \in certifications <=> <<u, k>> \in progress
        PROVE  CertificationFollowsLevel
    BY <1>1, <1>2, <1>4 DEF CertificationFollowsLevel
  <1>5. QED  BY <1>3, <1>4

LEMMA DueLevels ==
    ASSUME NEW done, NEW held, NEW k \in CertifiedLevels
    PROVE  Cert(k) \in DueCertifications(done, held) <=> k \in done \/ Cert(k) \in held
  BY DEF DueCertifications, LevelCertifications, CertifiedLevels, Cert, LEVEL_2, LEVEL_3, BEGINNER

LEMMA StepCerts ==
    ASSUME TypeInv, WritesInv, CertsInv, NEW r \in Requests, Step(r)
    PROVE  CertsOK(r)'
  <1>0. tx[r] \in Transaction /\ WritesOK(r) /\ CallOK(r) /\ CertsOK(r)
        /\ progress \subseteq progress' /\ certifications \subseteq certifications'
    BY Typed, Frame DEF WritesInv, TypeInv, CertsInv
  <1> USE <1>0
  <1>1. CASE Arrive(r)
    BY <1>1, ArriveEffect DEF CertsOK
  <1>2. CASE Abort(r) \/ RecordStart(r) \/ Commit(r) \/ IntegrityError(r)
    BY <1>2, CloseEffect DEF Abort, RecordStart, Commit, IntegrityError, NoWrites, CertsOK
  <1>3. CASE CommitStart(r)
    BY <1>3, CommitStartEffect DEF NoWrites, CertsOK
  <1>4. CASE InsertSubmission(r)
    <2>1. pc[r] = "insert" /\ \E S : tx'[r] = [tx[r] EXCEPT !.submission = S]
      BY <1>4, InsertEffect
    <2>2. ~tx'[r].granted /\ tx'[r].certs = {}
      BY <2>1 DEF WritesOK, NoWrites, Transaction
    <2>3. QED  BY <2>2 DEF CertsOK
  <1>5. ASSUME call'[r] = call[r], tx'[r].certs = tx[r].certs, tx[r].granted => tx'[r].granted,
               tx'[r].granted /\ pc'[r] \in {"session_merge", "session_flush", "commit"}
                   => tx[r].granted /\ pc[r] \in {"session_merge", "session_flush", "commit"}
        PROVE  CertsOK(r)'
    BY <1>5 DEF CertsOK, VisibleProgress
  <1>6. CASE ReadAccount(r) \/ MergeAccount(r) \/ MergeSession(r)
    BY <1>5, <1>6, ReadEffect, MergeAccountEffect, MergeSessionEffect
  <1>7. CASE InsertProgress(r)
    <2>1. /\ pc'[r] = "account_merge" /\ call'[r] = call[r]
          /\ tx'[r] = [tx[r] EXCEPT !.granted = TRUE]
      BY <1>7, GrantEffect
    <2>2. tx'[r].certs = tx[r].certs /\ tx'[r].granted
      BY <2>1 DEF Transaction
    <2>3. QED  BY <1>5, <2>1, <2>2
  <1>8. CASE FlushAccount(r)
    BY <1>5, <1>8, FlushAccountEffect DEF Transaction
  <1>9. CASE FlushSession(r)
    BY <1>5, <1>9, FlushSessionEffect DEF Transaction
  <1>10. CASE EvaluateCertification(r)
    <2> DEFINE u == call[r].user
               due == DueCertifications(CompletedBy(r, u), HeldBy(u))
    <2>1. /\ call'[r] = call[r] /\ tx'[r] = [tx[r] EXCEPT !.certs = due \ HeldBy(u)]
          /\ UNCHANGED tables
      BY <1>10, CertifyEffect DEF EvaluateCertification
    <2>2. tx'[r].certs = due \ HeldBy(u) /\ tx'[r].granted = tx[r].granted
      BY <2>1 DEF Transaction
    <2>3. VisibleProgress(r)' = VisibleProgress(r)
      BY <2>1, <2>2 DEF VisibleProgress, tables
    <2>4. ASSUME NEW k \in CertifiedLevels
          PROVE  /\ Cert(k) \in due => <<u, k>> \in VisibleProgress(r) \/ Cert(k) \in HeldBy(u)
                 /\ tx[r].granted /\ call[r].level = k => Cert(k) \in due
                 /\ Cert(k) \in HeldBy(u) => <<u, Cert(k)>> \in certifications
      BY <2>4, DueLevels DEF CompletedBy, VisibleProgress, HeldBy, CertifiedLevels
    <2> HIDE DEF due
    <2>5. QED  BY <2>1, <2>2, <2>3, <2>4 DEF CertsOK, tables
  <1>11. QED
    BY <1>1, <1>2, <1>3, <1>4, <1>6, <1>7, <1>8, <1>9, <1>10 DEF Step, Proceed

LEMMA CommitCerts ==
    ASSUME TypeInv, WritesInv, CertsInv, NEW r \in Requests, Commits(r)
    PROVE  CertificationFollowsLevel'
  <1> DEFINE v == call[r].user
  <1>1. /\ pc[r] = "commit" /\ progress' = VisibleProgress(r)
        /\ certifications' = certifications \cup {<<v, c>> : c \in tx[r].certs}
        /\ CertsOK(r)
    BY CommitPublishes DEF Publish, CertsInv
  <1>2. ASSUME NEW u \in Users, NEW k \in CertifiedLevels
        PROVE  <<u, Cert(k)>> \in certifications' <=> <<u, k>> \in progress'
    <2>1. <<u, Cert(k)>> \in certifications <=> <<u, k>> \in progress
      BY LevelsCertified DEF CertsInv
    <2>2. <<u, Cert(k)>> \in certifications' => <<u, k>> \in progress'
      <3>1. progress \subseteq VisibleProgress(r)
        BY DEF VisibleProgress
      <3>2. CASE u = v /\ Cert(k) \in tx[r].certs
        BY <1>1, <3>2 DEF CertsOK
      <3>3. CASE <<u, Cert(k)>> \in certifications
        BY <1>1, <2>1, <3>1, <3>3
      <3>4. QED  BY <1>1, <3>2, <3>3
    <2>3. ASSUME <<u, k>> \in progress' PROVE <<u, Cert(k)>> \in certifications'
      <3>1. CASE <<u, k>> \in progress
        BY <1>1, <2>1, <3>1
      <3>2. CASE u = v /\ k = call[r].level /\ tx[r].granted
        BY <1>1, <3>2 DEF CertsOK
      <3>3. QED  BY <1>1, <2>3, <3>1, <3>2 DEF VisibleProgress
    <2>4. QED  BY <2>2, <2>3
  <1>3. (\A u \in Users, k \in CertifiedLevels :
            <<u, Cert(k)>> \in certifications' <=> <<u, k>> \in progress')
        => CertificationFollowsLevel'
    <2>1. \A k : k \in CertifiedLevels <=> (k = 2 \/ k = 3) /\ k \in Levels
      BY DEF CertifiedLevels
    <2>2. Cert(2) = LEVEL_2 /\ Cert(3) = LEVEL_3
      BY DEF Cert
    <2>3. QED  BY <2>1, <2>2 DEF CertificationFollowsLevel
  <1>4. QED  BY <1>2, <1>3

LEMMA NextCerts == TypeInv /\ WritesInv /\ CertsInv /\ [Next]_vars => CertsInv'
  <1>1. ASSUME CertsInv, UNCHANGED vars PROVE CertsInv'
    BY <1>1 DEF CertsInv, CertsOK, CertificationFollowsLevel, VisibleProgress,
                vars, tables, locals
  <1>2. ASSUME TypeInv, WritesInv, CertsInv, NEW r \in Requests, Step(r) PROVE CertsInv'
    <2>1. ASSUME NEW q \in Requests \ {r} PROVE CertsOK(q)'
      <3>1. /\ pc'[q] = pc[q] /\ call'[q] = call[q] /\ tx'[q] = tx[q]
            /\ progress \subseteq progress' /\ certifications \subseteq certifications'
        BY <1>2, Frame DEF OthersUnchanged
      <3>2. CertsOK(q)
        BY <1>2 DEF CertsInv
      <3>3. QED  BY <3>1, <3>2 DEF CertsOK, VisibleProgress
    <2>2. CertificationFollowsLevel'
      <3>1. CASE Commits(r)
        BY <1>2, <3>1, CommitCerts
      <3>2. CASE UNCHANGED <<progress, certifications>>
        BY <1>2, <3>2 DEF CertsInv, CertificationFollowsLevel
      <3>3. QED  BY <1>2, <3>1, <3>2, StepKinds DEF tables, RecordStart
    <2>3. QED  BY <1>2, <2>1, <2>2, StepCerts DEF CertsInv
  <1>3. QED  BY <1>1, <1>2 DEF Next, Step

\* Whoever completes level 2 or 3 holds its certification from that commit on,
\* and nobody else does.
THEOREM CertificationFollowsLevelHolds == Spec => []CertificationFollowsLevel
  <1>1. Init => CertsInv
    BY DEF Init, CertsInv, CertsOK, CertificationFollowsLevel, NoWrites
  <1>2. TypeInv /\ WritesInv /\ CertsInv /\ [Next]_vars => (TypeInv /\ WritesInv /\ CertsInv)'
    BY NextTyped, NextWrites, NextCerts
  <1>3. CertsInv => CertificationFollowsLevel
    BY DEF CertsInv
  <1>4. QED  BY <1>1, <1>2, <1>3, InitTyped, InitWrites, PTL DEF Spec
=============================================================================
