------------------------- MODULE LevelPlayProofs -------------------------
(***************************************************************************)
(* Theorems about LevelPlay, for every number of users, levels, requests,  *)
(* signatures and rows.                                                    *)
(***************************************************************************)
EXTENDS LevelPlay, FiniteSetTheorems, TLAPS

-----------------------------------------------------------------------------
(* The operators the model is built from. *)

\* The columns a flush writes are columns of the table.
LEMMA ChangedColumns ==
    ASSUME NEW row, NEW copy
    PROVE  /\ copy \in SessionRow => Changed(row, copy) \subseteq SessionCols
           /\ copy \in UserRow => Changed(row, copy) \subseteq UserCols
  BY DEF Changed, SessionRow, UserRow, SessionCols, UserCols

\* An UPDATE of some columns of a row yields a row.
LEMMA MergedRow ==
    ASSUME NEW row, NEW copy, NEW cols
    PROVE  /\ row \in SessionRow /\ copy \in SessionRow => Merged(row, copy, cols) \in SessionRow
           /\ row \in UserRow /\ copy \in UserRow => Merged(row, copy, cols) \in UserRow
  <1>1. row \in SessionRow /\ copy \in SessionRow => Merged(row, copy, cols) \in SessionRow
    BY DEF Merged, SessionRow
  <1>2. row \in UserRow /\ copy \in UserRow => Merged(row, copy, cols) \in UserRow
    BY DEF Merged, UserRow
  <1>3. QED  BY <1>1, <1>2

\* The rows and calls a request begins and ends with.
LEMMA EmptyRows ==
    /\ NoSession \in SessionRow
    /\ NoAccount \in UserRow
    /\ NoCall \in Call
    /\ NoWrites \in Transaction
  BY DEF NoSession, NoAccount, NoCall, NoWrites, SessionRow, UserRow, Call, Transaction

-----------------------------------------------------------------------------
(* Type correctness.  TypeOK is not inductive: a commit writes rows keyed by *)
(* the user, level and session of its call, which exist while it runs, and   *)
(* an attempt number counts a finite table.                                  *)

Submitting == {"insert", "complete", "grant", "account_merge", "account_flush", "certify"}

CallOK(r) ==
    /\ pc[r] # "idle" =>
          /\ call[r].op # "none"
          /\ call[r].user \in Users /\ call[r].level \in Levels
          /\ call[r].session \in SessionIds
    /\ pc[r] \in Submitting => call[r].op = "submit"
    /\ call[r].op = "submit" => call[r].wallet \in Wallets
    /\ IsFiniteSet(tx[r].submission)
    /\ pc[r] = "account_flush" => dirty[r] \subseteq UserCols
    /\ pc[r] = "session_flush" => dirty[r] \subseteq SessionCols

TypeInv == TypeOK /\ IsFiniteSet(submissions) /\ \A r \in Requests : CallOK(r)

LEMMA InitTyped == Init => TypeInv
  <1> SUFFICES ASSUME Init PROVE TypeInv
    OBVIOUS
  <1>1. TypeOK /\ IsFiniteSet(submissions)
    BY EmptyRows, FS_EmptySet DEF Init, TypeOK, PCs
  <1>2. ASSUME NEW r \in Requests PROVE CallOK(r)
    BY FS_EmptySet DEF Init, CallOK, NoCall, NoWrites, Submitting
  <1>3. QED  BY <1>1, <1>2 DEF TypeInv

LocalsTyped ==
    /\ entity \in [Requests -> SessionRow] /\ account \in [Requests -> UserRow]
    /\ dirty \in [Requests -> SUBSET (SessionCols \cup UserCols)]
    /\ tx \in [Requests -> Transaction]
    /\ \A r \in Requests : IsFiniteSet(tx[r].submission)

\* A request that ends leaves its locals typed.
LEMMA CloseTyped ==
    ASSUME TypeInv, NEW r \in Requests, Close(r)
    PROVE  /\ LocalsTyped'
           /\ pc' \in [Requests -> PCs] /\ call' \in [Requests -> Call]
           /\ \A q \in Requests : CallOK(q)'
  <1>1. LocalsTyped'
    BY EmptyRows, FS_EmptySet DEF TypeInv, TypeOK, CallOK, LocalsTyped, Close, NoWrites
  <1>2. pc' \in [Requests -> PCs] /\ call' \in [Requests -> Call]
    BY EmptyRows DEF TypeInv, TypeOK, Close, PCs
  <1>3. ASSUME NEW q \in Requests PROVE CallOK(q)'
    BY <1>1 DEF TypeInv, TypeOK, CallOK, LocalsTyped, Close, NoCall, Submitting
  <1>4. QED  BY <1>1, <1>2, <1>3

\* A request that goes to a next statement, for a call whose rows exist.
LEMMA StepTyped ==
    ASSUME TypeInv, NEW r \in Requests, NEW label \in PCs, NEW c \in Call,
           pc' = [pc EXCEPT ![r] = label], call' = [call EXCEPT ![r] = c],
           UNCHANGED tables, LocalsTyped',
           c.op # "none", c.user \in Users, c.level \in Levels, c.session \in SessionIds,
           label \in Submitting => c.op = "submit",
           c.op = "submit" => c.wallet \in Wallets,
           \A q \in Requests \ {r} : dirty'[q] = dirty[q],
           label = "account_flush" => dirty'[r] \subseteq UserCols,
           label = "session_flush" => dirty'[r] \subseteq SessionCols
    PROVE  TypeInv'
  <1>1. TypeOK' /\ IsFiniteSet(submissions)'
    BY DEF TypeInv, TypeOK, LocalsTyped, tables
  <1>2. ASSUME NEW q \in Requests PROVE CallOK(q)'
    BY DEF TypeInv, TypeOK, CallOK, LocalsTyped
  <1>3. QED  BY <1>1, <1>2 DEF TypeInv

\* A commit leaves the tables typed.
LEMMA PublishTyped ==
    ASSUME TypeInv, NEW r \in Requests, pc[r] = "commit", Publish(r)
    PROVE  /\ sessions' \in [SessionIds -> SessionRow]
           /\ submissions' \in SUBSET Submission /\ IsFiniteSet(submissions')
           /\ progress' \in SUBSET (Users \X Levels)
           /\ users' \in [Users -> UserRow]
           /\ certifications' \in SUBSET (Users \X Slugs)
           /\ analytics' \in SUBSET Event
  <1> DEFINE u == call[r].user  l == call[r].level  s == call[r].session
  <1>1. /\ u \in Users /\ l \in Levels /\ s \in SessionIds
        /\ tx[r] \in Transaction /\ entity[r] \in SessionRow /\ account[r] \in UserRow
    BY DEF TypeInv, TypeOK, CallOK
  <1>2. sessions' \in [SessionIds -> SessionRow]
    <2>1. Merged(sessions[s], entity[r], tx[r].sessionCols) \in SessionRow
      BY <1>1, MergedRow DEF TypeInv, TypeOK
    <2>2. QED  BY <2>1, <1>1 DEF TypeInv, TypeOK, Publish
  <1>3. submissions' \in SUBSET Submission /\ IsFiniteSet(submissions')
    BY <1>1, FS_Union DEF TypeInv, TypeOK, CallOK, Publish, Transaction
  <1>4. progress' \in SUBSET (Users \X Levels)
    BY <1>1 DEF TypeInv, TypeOK, Publish, VisibleProgress
  <1>5. users' \in [Users -> UserRow]
    <2>1. Merged(users[u], account[r], tx[r].userCols) \in UserRow
      BY <1>1, MergedRow DEF TypeInv, TypeOK
    <2>2. QED  BY <2>1, <1>1 DEF TypeInv, TypeOK, Publish
  <1>6. certifications' \in SUBSET (Users \X Slugs)
    BY <1>1 DEF TypeInv, TypeOK, Publish, Transaction
  <1>7. analytics' \in SUBSET Event
    <2>1. EventsOf(r) \in SUBSET Event
      BY <1>1 DEF EventsOf, Event
    <2>2. QED  BY <2>1 DEF TypeInv, TypeOK, Publish
  <1>8. QED  BY <1>2, <1>3, <1>4, <1>5, <1>6, <1>7

\* The requests that arrive.
LEMMA NewCallTyped ==
    ASSUME NEW op \in {"start", "setup", "submit"}, NEW u \in Users, NEW l \in Levels,
           NEW w \in Wallets \cup {None}, NEW g \in Signatures \cup {None}, NEW s \in SessionIds
    PROVE  LET c == NewCall(op, u, l, w, g, s)
           IN  c \in Call /\ c.op = op /\ c.user = u /\ c.level = l /\ c.wallet = w /\ c.session = s
  BY DEF NewCall, Call

LEMMA ArriveTyped ==
    ASSUME TypeInv, NEW r \in Requests, Arrive(r)
    PROVE  TypeInv'
  <1>1. PICK u \in Users, l \in Levels :
          \/ ResumeLevel(r, u, l)
          \/ StartLevel(r, u, l)
          \/ \E w \in Wallets :
                \/ SetupLevel(r, u, l, w)
                \/ \E g \in Signatures \cup {None} : SubmitLevel(r, u, l, w, g)
    BY DEF Arrive
  <1>2. LocalsTyped
    BY DEF TypeInv, TypeOK, CallOK, LocalsTyped
  <1>3. ASSUME NEW op \in {"start", "setup", "submit"}, NEW w \in Wallets \cup {None},
               NEW g \in Signatures \cup {None}, NEW s \in SessionIds, NEW label \in PCs,
               call' = [call EXCEPT ![r] = NewCall(op, u, l, w, g, s)],
               pc' = [pc EXCEPT ![r] = label], LocalsTyped', UNCHANGED tables, UNCHANGED dirty,
               label \notin {"account_flush", "session_flush"},
               label \in Submitting => op = "submit", op = "submit" => w \in Wallets
        PROVE  TypeInv'
    <2> DEFINE c == NewCall(op, u, l, w, g, s)
    <2>1. c \in Call /\ c.op = op /\ c.user = u /\ c.level = l /\ c.wallet = w /\ c.session = s
      BY <1>3, NewCallTyped
    <2>2. call' = [call EXCEPT ![r] = c]
      BY <1>3
    <2> HIDE DEF c
    <2>3. c.op # "none"
      BY <1>3, <2>1
    <2>4. QED  BY <1>3, <2>1, <2>2, <2>3, StepTyped
  <1> USE DEF PCs, Submitting, Goto
  <1>4. CASE ResumeLevel(r, u, l)
    <2>1. PICK s \in SessionIds : call' = [call EXCEPT ![r] = NewCall("start", u, l, None, None, s)]
      BY <1>4 DEF ResumeLevel
    <2>2. LocalsTyped'
      BY <1>2, <1>4 DEF ResumeLevel, LocalsTyped
    <2>3. QED  BY <1>3, <1>4, <2>1, <2>2 DEF ResumeLevel
  <1>5. CASE StartLevel(r, u, l)
    <2>1. PICK s \in SessionIds : call' = [call EXCEPT ![r] = NewCall("start", u, l, None, None, s)]
      BY <1>5 DEF StartLevel
    <2>2. NewSession(u, l) \in SessionRow
      BY DEF NewSession, NoSession, SessionRow
    <2>3. LocalsTyped'
      BY <1>2, <1>5, <2>2 DEF StartLevel, LocalsTyped, Transaction
    <2>4. QED  BY <1>3, <1>5, <2>1, <2>3 DEF StartLevel
  <1>6. ASSUME NEW w \in Wallets, SetupLevel(r, u, l, w) PROVE TypeInv'
    <2>1. PICK s \in SessionIds, label \in {"commit", "session_merge"} :
            /\ \/ UNCHANGED entity
               \/ entity' = [entity EXCEPT ![r] =
                      [sessions[s] EXCEPT !.bound = w, !.exploit = "setup_ready"]]
            /\ pc' = [pc EXCEPT ![r] = label]
            /\ call' = [call EXCEPT ![r] = NewCall("setup", u, l, w, None, s)]
      BY <1>6 DEF SetupLevel
    <2>2. [sessions[s] EXCEPT !.bound = w, !.exploit = "setup_ready"] \in SessionRow
      <3>1. sessions[s] \in SessionRow
        BY DEF TypeInv, TypeOK
      <3>2. QED  BY <3>1 DEF SessionRow
    <2>3. LocalsTyped'
      BY <1>2, <1>6, <2>1, <2>2 DEF SetupLevel, LocalsTyped
    <2>4. QED  BY <1>3, <1>6, <2>1, <2>3 DEF SetupLevel
  <1>7. ASSUME NEW w \in Wallets, NEW g \in Signatures \cup {None}, SubmitLevel(r, u, l, w, g)
        PROVE  TypeInv'
    <2>1. PICK s \in SessionIds :
            /\ call' = [call EXCEPT ![r] = NewCall("submit", u, l, w, g, s)]
            /\ entity' = [entity EXCEPT ![r] = sessions[s]]
      BY <1>7 DEF SubmitLevel
    <2>2. LocalsTyped'
      BY <1>2, <1>7, <2>1 DEF SubmitLevel, LocalsTyped, TypeInv, TypeOK
    <2>3. QED  BY <1>3, <1>7, <2>1, <2>2 DEF SubmitLevel
  <1>8. QED  BY <1>1, <1>4, <1>5, <1>6, <1>7

\* The steps of a request between its first read and its commit.
LEMMA ProceedTyped ==
    ASSUME TypeInv, NEW r \in Requests,
           \/ InsertSubmission(r) \/ ReadAccount(r) \/ InsertProgress(r)
           \/ MergeAccount(r) \/ FlushAccount(r) \/ EvaluateCertification(r)
           \/ MergeSession(r) \/ FlushSession(r)
    PROVE  TypeInv'
  <1> DEFINE u == call[r].user  l == call[r].level  s == call[r].session
  <1>1. pc[r] # "idle" /\ call' = call /\ UNCHANGED tables
    BY DEF InsertSubmission, ReadAccount, InsertProgress, MergeAccount, FlushAccount,
           EvaluateCertification, MergeSession, FlushSession
  <1>2. LocalsTyped /\ call[r] \in Call /\ call' = [call EXCEPT ![r] = call[r]]
    BY <1>1 DEF TypeInv, TypeOK, CallOK, LocalsTyped
  <1>3. u \in Users /\ l \in Levels /\ s \in SessionIds /\ call[r].op # "none"
    BY <1>1 DEF TypeInv, CallOK
  <1>4. LocalsTyped'
    <2>1. CASE InsertSubmission(r)
      <3>1. PICK v \in BOOLEAN, i \in SubmissionIds :
              /\ tx' = [tx EXCEPT ![r].submission =
                     {[id |-> i, user |-> u, level |-> l, session |-> s,
                       number |-> AttemptNumber(u, l),
                       sig |-> call[r].sig, wallet |-> call[r].wallet, verified |-> v]}]
              /\ entity' = [entity EXCEPT ![r] = Judged(r, v)]
        BY <2>1 DEF InsertSubmission, Verdicts
      <3>2. Judged(r, v) \in SessionRow
        <4>1. entity[r] \in SessionRow /\ call[r].sig \in Signatures \cup {None}
          BY <1>2 DEF LocalsTyped, Call
        <4> DEFINE e0 == [entity[r] EXCEPT !.attempts = @ + 1]
                   e1 == [e0 EXCEPT !.sig = IF call[r].sig # None THEN call[r].sig ELSE @]
                   e2 == [e1 EXCEPT !.state = IF v THEN "completed" ELSE "failed",
                                    !.exploit = IF v THEN "verified" ELSE "failed"]
        <4>0. e0 \in SessionRow
          BY <4>1 DEF SessionRow
        <4> HIDE DEF e0
        <4>2. e1 \in SessionRow
          BY <4>0, <4>1 DEF SessionRow
        <4> HIDE DEF e1
        <4>3. e2 \in SessionRow
          BY <4>2 DEF SessionRow
        <4>4. Judged(r, v) = e2
          BY <4>1 DEF Judged, e0, e1, SessionRow
        <4>5. QED  BY <4>3, <4>4
      <3>3. AttemptNumber(u, l) \in Nat
        <4>1. IsFiniteSet({b \in submissions : b.user = u /\ b.level = l})
          BY FS_Subset DEF TypeInv
        <4>2. QED  BY <4>1, FS_CardinalityType DEF AttemptNumber
      <3>4. call[r].wallet \in Wallets /\ call[r].sig \in Signatures \cup {None}
        BY <1>2, <2>1 DEF TypeInv, CallOK, InsertSubmission, Submitting, Call
      <3> DEFINE row == [id |-> i, user |-> u, level |-> l, session |-> s,
                         number |-> AttemptNumber(u, l),
                         sig |-> call[r].sig, wallet |-> call[r].wallet, verified |-> v]
      <3>5. row \in Submission
        BY <1>3, <3>3, <3>4 DEF Submission
      <3> HIDE DEF row
      <3>6. IsFiniteSet({row})
        BY FS_Singleton
      <3>7. tx' = [tx EXCEPT ![r].submission = {row}]
        BY <3>1 DEF row
      <3>8. QED
        <4>1. tx' \in [Requests -> Transaction]
          BY <1>2, <3>5, <3>7 DEF LocalsTyped, Transaction
        <4>2. ASSUME NEW q \in Requests PROVE IsFiniteSet(tx'[q].submission)
          BY <1>2, <3>6, <3>7 DEF LocalsTyped, Transaction
        <4>3. QED  BY <1>2, <2>1, <3>1, <3>2, <4>1, <4>2 DEF LocalsTyped, InsertSubmission
    <2>2. CASE ReadAccount(r)
      <3>1. Credited(u, l) \in UserRow
        <4>1. users[u] \in UserRow /\ XpReward[l] \in Nat
          BY <1>3, LevelsAssumption DEF TypeInv, TypeOK
        <4>2. QED  BY <4>1 DEF Credited, UserRow
      <3>2. QED  BY <1>2, <2>2, <3>1 DEF LocalsTyped, ReadAccount
    <2>3. CASE InsertProgress(r)
      BY <1>2, <2>3 DEF LocalsTyped, InsertProgress, Transaction
    <2>4. CASE MergeAccount(r)
      BY <1>2, <1>3, <2>4, ChangedColumns DEF LocalsTyped, MergeAccount, TypeInv, TypeOK
    <2>5. CASE FlushAccount(r)
      BY <1>2, <2>5 DEF LocalsTyped, FlushAccount, Transaction, TypeInv, CallOK
    <2>6. CASE EvaluateCertification(r)
      <3>1. DueCertifications(CompletedBy(r, u), HeldBy(u)) \subseteq Slugs
        BY DEF DueCertifications, LevelCertifications, HeldBy, Slugs
      <3>2. QED  BY <1>2, <2>6, <3>1 DEF LocalsTyped, EvaluateCertification, Transaction
    <2>7. CASE MergeSession(r)
      BY <1>2, <1>3, <2>7, ChangedColumns
         DEF LocalsTyped, MergeSession, TypeInv, TypeOK, SessionCols
    <2>8. CASE FlushSession(r)
      BY <1>2, <2>8 DEF LocalsTyped, FlushSession, Transaction, TypeInv, CallOK
    <2>9. QED  BY <2>1, <2>2, <2>3, <2>4, <2>5, <2>6, <2>7, <2>8
  <1>5. PICK label \in PCs :
          /\ pc' = [pc EXCEPT ![r] = label]
          /\ label \in Submitting => call[r].op = "submit"
          /\ label = "account_flush" => dirty'[r] \subseteq UserCols
          /\ label = "session_flush" => dirty'[r] \subseteq SessionCols
    <2> USE DEF Submitting, PCs, Goto
    <2>1. CASE InsertSubmission(r)
      BY <1>1, <2>1 DEF InsertSubmission, Verdicts, TypeInv, CallOK
    <2>2. CASE ReadAccount(r)
      BY <1>1, <2>2 DEF ReadAccount, TypeInv, CallOK
    <2>3. CASE InsertProgress(r)
      BY <1>1, <2>3 DEF InsertProgress, TypeInv, CallOK
    <2>4. CASE MergeAccount(r)
      BY <1>2, <1>3, <2>4, ChangedColumns DEF LocalsTyped, MergeAccount, TypeInv, TypeOK, CallOK
    <2>5. CASE FlushAccount(r)
      BY <1>1, <2>5 DEF FlushAccount, TypeInv, CallOK
    <2>6. CASE EvaluateCertification(r)
      BY <1>1, <2>6 DEF EvaluateCertification, TypeInv, CallOK
    <2>7. CASE MergeSession(r)
      BY <1>2, <1>3, <2>7, ChangedColumns
         DEF LocalsTyped, MergeSession, TypeInv, TypeOK, SessionCols
    <2>8. CASE FlushSession(r)
      BY <1>1, <2>8 DEF FlushSession, TypeInv, CallOK
    <2>9. QED  BY <2>1, <2>2, <2>3, <2>4, <2>5, <2>6, <2>7, <2>8
  <1>6. call[r].op = "submit" => call[r].wallet \in Wallets
    BY DEF TypeInv, CallOK
  <1>7. \A q \in Requests \ {r} : dirty'[q] = dirty[q]
    BY <1>2 DEF LocalsTyped, InsertSubmission, ReadAccount, InsertProgress, MergeAccount,
                FlushAccount, EvaluateCertification, MergeSession, FlushSession
  <1>8. QED  BY <1>1, <1>2, <1>3, <1>4, <1>5, <1>6, <1>7, StepTyped

LEMMA NextTyped == TypeInv /\ [Next]_vars => TypeInv'
  <1> SUFFICES ASSUME TypeInv, [Next]_vars PROVE TypeInv'
    OBVIOUS
  <1>1. CASE UNCHANGED vars
    BY <1>1 DEF vars, tables, locals, TypeInv, TypeOK, CallOK
  <1>2. ASSUME NEW r \in Requests, Arrive(r) PROVE TypeInv'
    BY <1>2, ArriveTyped
  <1>3. ASSUME NEW r \in Requests, Proceed(r) PROVE TypeInv'
    <2>1. CASE RecordStart(r)
      <3>1. [type |-> "level_started", user |-> call[r].user, level |-> call[r].level] \in Event
        BY <2>1 DEF RecordStart, TypeInv, CallOK, Event
      <3>2. QED
        BY <2>1, <3>1, CloseTyped DEF RecordStart, TypeInv, TypeOK, LocalsTyped
    <2>2. CASE CommitStart(r)
      <3>1. LocalsTyped' /\ pc' \in [Requests -> PCs] /\ call' \in [Requests -> Call]
        BY <2>2, EmptyRows, FS_EmptySet
           DEF CommitStart, Goto, TypeInv, TypeOK, CallOK, LocalsTyped, NoWrites, PCs
      <3>2. ASSUME NEW q \in Requests PROVE CallOK(q)'
        BY <2>2, <3>1 DEF CommitStart, Goto, TypeInv, TypeOK, CallOK, LocalsTyped, Submitting
      <3>3. QED
        BY <2>2, <3>1, <3>2, PublishTyped DEF CommitStart, TypeInv, TypeOK, LocalsTyped
    <2>3. CASE Commit(r)
      BY <2>3, PublishTyped, CloseTyped DEF Commit, TypeInv, TypeOK, LocalsTyped
    <2>4. CASE IntegrityError(r)
      BY <2>4, CloseTyped DEF IntegrityError, TypeInv, TypeOK, LocalsTyped, tables
    <2>5. QED  BY <1>3, <2>1, <2>2, <2>3, <2>4, ProceedTyped DEF Proceed
  <1>4. ASSUME NEW r \in Requests, Abort(r) PROVE TypeInv'
    BY <1>4, CloseTyped DEF Abort, TypeInv, TypeOK, LocalsTyped, tables
  <1>5. QED  BY <1>1, <1>2, <1>3, <1>4 DEF Next

\* Every row, and every value a request holds between two statements, has its
\* type: sessions, submissions, progress, accounts and pending writes.
THEOREM TypeCorrect == Spec => []TypeOK
  <1>1. TypeInv => TypeOK
    BY DEF TypeInv
  <1>2. QED  BY <1>1, InitTyped, NextTyped, PTL DEF Spec

-----------------------------------------------------------------------------
(* What a step leaves alone. *)

Step(r) == Arrive(r) \/ Proceed(r) \/ Abort(r)

OthersUnchanged(r) ==
    \A q \in Requests \ {r} :
        /\ pc'[q] = pc[q] /\ call'[q] = call[q] /\ entity'[q] = entity[q]
        /\ account'[q] = account[q] /\ dirty'[q] = dirty[q] /\ tx'[q] = tx[q]

\* A step of one request touches the locals of no other, and the tables of
\* progress, submissions, certifications and events only grow.
LEMMA Frame ==
    ASSUME TypeInv, NEW r \in Requests, Step(r)
    PROVE  /\ OthersUnchanged(r)
           /\ progress \subseteq progress' /\ submissions \subseteq submissions'
           /\ certifications \subseteq certifications' /\ analytics \subseteq analytics'
  <1>1. OthersUnchanged(r)
    <2> USE DEF Goto, Close, tables, OthersUnchanged
    <2>1. CASE Arrive(r)
      <3>1. ASSUME NEW u \in Users, NEW l \in Levels, ResumeLevel(r, u, l) PROVE OthersUnchanged(r)
        BY <3>1 DEF TypeInv, TypeOK, ResumeLevel
      <3>2. ASSUME NEW u \in Users, NEW l \in Levels, StartLevel(r, u, l) PROVE OthersUnchanged(r)
        BY <3>2 DEF TypeInv, TypeOK, StartLevel
      <3>3. ASSUME NEW u \in Users, NEW l \in Levels, NEW w \in Wallets, SetupLevel(r, u, l, w)
            PROVE  OthersUnchanged(r)
        BY <3>3 DEF TypeInv, TypeOK, SetupLevel
      <3>4. ASSUME NEW u \in Users, NEW l \in Levels, NEW w \in Wallets,
                   NEW g \in Signatures \cup {None}, SubmitLevel(r, u, l, w, g)
            PROVE  OthersUnchanged(r)
        BY <3>4 DEF TypeInv, TypeOK, SubmitLevel
      <3>5. QED  BY <2>1, <3>1, <3>2, <3>3, <3>4 DEF Arrive
    <2>2. CASE Abort(r)
      BY <2>2 DEF TypeInv, TypeOK, Abort
    <2>3. CASE Proceed(r)
      BY <2>3 DEF TypeInv, TypeOK, Proceed, RecordStart, CommitStart, Commit, InsertSubmission,
                  ReadAccount, InsertProgress, MergeAccount, FlushAccount, EvaluateCertification,
                  IntegrityError, MergeSession, FlushSession
    <2>4. QED  BY <2>1, <2>2, <2>3 DEF Step
  <1>2. /\ progress \subseteq progress' /\ submissions \subseteq submissions'
        /\ certifications \subseteq certifications' /\ analytics \subseteq analytics'
    <2> USE DEF tables
    <2>1. CASE Arrive(r)
      BY <2>1 DEF Arrive, ResumeLevel, StartLevel, SetupLevel, SubmitLevel
    <2>2. CASE Abort(r)
      BY <2>2 DEF Abort
    <2>3. CASE Proceed(r)
      BY <2>3 DEF Proceed, RecordStart, CommitStart, Commit, InsertSubmission, Publish,
                  VisibleProgress, ReadAccount, InsertProgress, MergeAccount, FlushAccount,
                  EvaluateCertification, IntegrityError, MergeSession, FlushSession
    <2>4. QED  BY <2>1, <2>2, <2>3 DEF Step
  <1>3. QED  BY <1>1, <1>2

\* The tables change only when a request commits, or records its start.
Quiet(r) ==
    \/ Arrive(r) \/ Abort(r) \/ IntegrityError(r)
    \/ InsertSubmission(r) \/ ReadAccount(r) \/ InsertProgress(r)
    \/ MergeAccount(r) \/ FlushAccount(r) \/ EvaluateCertification(r)
    \/ MergeSession(r) \/ FlushSession(r)

Commits(r) == CommitStart(r) \/ Commit(r)

LEMMA StepKinds ==
    ASSUME NEW r \in Requests, Step(r)
    PROVE  \/ Quiet(r) /\ UNCHANGED tables
           \/ Commits(r)
           \/ RecordStart(r)
  BY DEF Step, Quiet, Commits, Arrive, Proceed, Abort, ResumeLevel, StartLevel, SetupLevel,
         SubmitLevel, IntegrityError, InsertSubmission, ReadAccount, InsertProgress, MergeAccount,
         FlushAccount, EvaluateCertification, MergeSession, FlushSession

-----------------------------------------------------------------------------
(* What a step does to the request that takes it. *)

LEMMA Typed ==
    ASSUME TypeInv, NEW r \in Requests
    PROVE  /\ pc[r] \in PCs /\ call[r] \in Call /\ entity[r] \in SessionRow
           /\ account[r] \in UserRow /\ tx[r] \in Transaction
  BY DEF TypeInv, TypeOK

LEMMA CloseEffect ==
    ASSUME TypeInv, NEW r \in Requests, Close(r)
    PROVE  /\ pc'[r] = "idle" /\ call'[r] = NoCall /\ entity'[r] = NoSession
           /\ account'[r] = NoAccount /\ dirty'[r] = {} /\ tx'[r] = NoWrites
  BY DEF TypeInv, TypeOK, Close

LEMMA ResumeEffect ==
    ASSUME TypeInv, NEW r \in Requests, NEW u \in Users, NEW l \in Levels, ResumeLevel(r, u, l)
    PROVE  \E s \in SessionIds :
              /\ pc[r] = "idle" /\ pc'[r] = "record"
              /\ call'[r] = NewCall("start", u, l, None, None, s)
              /\ entity'[r] = entity[r] /\ account'[r] = account[r]
              /\ dirty'[r] = dirty[r] /\ tx'[r] = tx[r]
  BY DEF TypeInv, TypeOK, ResumeLevel, Goto

LEMMA StartEffect ==
    ASSUME TypeInv, NEW r \in Requests, NEW u \in Users, NEW l \in Levels, StartLevel(r, u, l)
    PROVE  \E s \in SessionIds :
              /\ pc[r] = "idle" /\ pc'[r] = "commit" /\ IsNextSession(s)
              /\ call'[r] = NewCall("start", u, l, None, None, s)
              /\ entity'[r] = NewSession(u, l) /\ account'[r] = account[r]
              /\ dirty'[r] = dirty[r] /\ tx'[r] = [tx[r] EXCEPT !.opened = TRUE]
  BY DEF TypeInv, TypeOK, StartLevel, Goto

LEMMA SetupEffect ==
    ASSUME TypeInv, NEW r \in Requests, NEW u \in Users, NEW l \in Levels, NEW w \in Wallets,
           SetupLevel(r, u, l, w)
    PROVE  \E s \in SessionIds :
              /\ pc[r] = "idle" /\ s \in ActiveSessions(u, l)
              /\ call'[r] = NewCall("setup", u, l, w, None, s)
              /\ \/ pc'[r] = "commit" /\ entity'[r] = entity[r]
                 \/ /\ pc'[r] = "session_merge" /\ l \in Executable
                    /\ entity'[r] = [sessions[s] EXCEPT !.bound = w, !.exploit = "setup_ready"]
              /\ account'[r] = account[r] /\ dirty'[r] = dirty[r] /\ tx'[r] = tx[r]
  BY DEF TypeInv, TypeOK, SetupLevel, Goto, IsNewest

LEMMA SubmitEffect ==
    ASSUME TypeInv, NEW r \in Requests, NEW u \in Users, NEW l \in Levels, NEW w \in Wallets,
           NEW g \in Signatures \cup {None}, SubmitLevel(r, u, l, w, g)
    PROVE  \E s \in SessionIds :
              /\ pc[r] = "idle" /\ pc'[r] = "insert"
              /\ IsUnlocked(u, l) /\ s \in ActiveSessions(u, l) /\ SetUpForProof(l, s)
              /\ call'[r] = NewCall("submit", u, l, w, g, s)
              /\ entity'[r] = sessions[s] /\ account'[r] = account[r]
              /\ dirty'[r] = dirty[r] /\ tx'[r] = tx[r]
  BY DEF TypeInv, TypeOK, SubmitLevel, Goto, IsNewest

NewSubmission(r, v, i) ==
    [id |-> i, user |-> call[r].user, level |-> call[r].level, session |-> call[r].session,
     number |-> AttemptNumber(call[r].user, call[r].level),
     sig |-> call[r].sig, wallet |-> call[r].wallet, verified |-> v]

LEMMA InsertEffect ==
    ASSUME TypeInv, NEW r \in Requests, InsertSubmission(r)
    PROVE  \E v \in BOOLEAN, i \in SubmissionIds :
              /\ pc[r] = "insert" /\ ~Waits(r) /\ ~SignatureTaken(call[r].sig)
              /\ pc'[r] = IF v THEN "complete" ELSE "session_merge"
              /\ call'[r] = call[r] /\ entity'[r] = Judged(r, v) /\ account'[r] = account[r]
              /\ dirty'[r] = dirty[r]
              /\ tx'[r] = [tx[r] EXCEPT !.submission = {NewSubmission(r, v, i)}]
  BY DEF TypeInv, TypeOK, InsertSubmission, Goto, NewSubmission, Verdicts

LEMMA ReadEffect ==
    ASSUME TypeInv, NEW r \in Requests, ReadAccount(r)
    PROVE  /\ pc[r] = "complete"
           /\ \/ /\ <<call[r].user, call[r].level>> \in progress
                 /\ pc'[r] = "certify" /\ account'[r] = account[r]
              \/ /\ <<call[r].user, call[r].level>> \notin progress
                 /\ pc'[r] = "grant" /\ account'[r] = Credited(call[r].user, call[r].level)
           /\ call'[r] = call[r] /\ entity'[r] = entity[r]
           /\ dirty'[r] = dirty[r] /\ tx'[r] = tx[r]
  BY DEF TypeInv, TypeOK, ReadAccount, Goto

LEMMA GrantEffect ==
    ASSUME TypeInv, NEW r \in Requests, InsertProgress(r)
    PROVE  /\ pc[r] = "grant" /\ pc'[r] = "account_merge" /\ ~Waits(r)
           /\ <<call[r].user, call[r].level>> \notin progress
           /\ call'[r] = call[r] /\ entity'[r] = entity[r] /\ account'[r] = account[r]
           /\ dirty'[r] = dirty[r] /\ tx'[r] = [tx[r] EXCEPT !.granted = TRUE]
  BY DEF TypeInv, TypeOK, InsertProgress, Goto

LEMMA MergeAccountEffect ==
    ASSUME TypeInv, NEW r \in Requests, MergeAccount(r)
    PROVE  /\ pc[r] = "account_merge"
           /\ dirty'[r] = Changed(users[call[r].user], account[r])
           /\ pc'[r] = IF dirty'[r] = {} THEN "certify" ELSE "account_flush"
           /\ call'[r] = call[r] /\ entity'[r] = entity[r] /\ account'[r] = account[r]
           /\ tx'[r] = tx[r]
  BY DEF TypeInv, TypeOK, MergeAccount, Goto

LEMMA FlushAccountEffect ==
    ASSUME TypeInv, NEW r \in Requests, FlushAccount(r)
    PROVE  /\ pc[r] = "account_flush" /\ pc'[r] = "certify"
           /\ call'[r] = call[r] /\ entity'[r] = entity[r] /\ account'[r] = account[r]
           /\ dirty'[r] = {} /\ tx'[r] = [tx[r] EXCEPT !.userCols = dirty[r]]
  BY DEF TypeInv, TypeOK, FlushAccount, Goto

LEMMA CertifyEffect ==
    ASSUME TypeInv, NEW r \in Requests, EvaluateCertification(r)
    PROVE  LET u == call[r].user
           IN  /\ pc[r] = "certify" /\ pc'[r] = "session_merge"
               /\ call'[r] = call[r] /\ entity'[r] = entity[r] /\ account'[r] = account[r]
               /\ dirty'[r] = dirty[r]
               /\ tx'[r] = [tx[r] EXCEPT !.certs =
                      DueCertifications(CompletedBy(r, u), HeldBy(u)) \ HeldBy(u)]
  BY DEF TypeInv, TypeOK, EvaluateCertification, Goto

LEMMA MergeSessionEffect ==
    ASSUME TypeInv, NEW r \in Requests, MergeSession(r)
    PROVE  /\ pc[r] = "session_merge"
           /\ dirty'[r] = Changed(sessions[call[r].session], entity[r]) \cup {"stamp"}
           /\ pc'[r] = "session_flush"
           /\ call'[r] = call[r] /\ entity'[r] = entity[r] /\ account'[r] = account[r]
           /\ tx'[r] = tx[r]
  BY DEF TypeInv, TypeOK, MergeSession, Goto

LEMMA FlushSessionEffect ==
    ASSUME TypeInv, NEW r \in Requests, FlushSession(r)
    PROVE  /\ pc[r] = "session_flush" /\ pc'[r] = "commit"
           /\ call'[r] = call[r] /\ entity'[r] = entity[r] /\ account'[r] = account[r]
           /\ dirty'[r] = {} /\ tx'[r] = [tx[r] EXCEPT !.sessionCols = dirty[r]]
  BY DEF TypeInv, TypeOK, FlushSession, Goto

LEMMA CommitStartEffect ==
    ASSUME TypeInv, NEW r \in Requests, CommitStart(r)
    PROVE  /\ pc[r] = "commit" /\ pc'[r] = "record" /\ call[r].op = "start"
           /\ call'[r] = call[r] /\ entity'[r] = NoSession /\ account'[r] = account[r]
           /\ dirty'[r] = dirty[r] /\ tx'[r] = NoWrites
  BY DEF TypeInv, TypeOK, CommitStart, Goto

-----------------------------------------------------------------------------
(* What a request has written at each point of its way. *)

Verified(r) == \E b \in tx[r].submission : b.verified

WritesOK(r) ==
    /\ pc[r] = "idle" => call[r] = NoCall /\ entity[r] = NoSession
    /\ pc[r] \in {"idle", "insert", "record"} => tx[r] = NoWrites
    /\ tx[r].opened <=> pc[r] = "commit" /\ call[r].op = "start"
    /\ pc[r] \in {"session_merge", "session_flush"} => call[r].op # "start"
    /\ call[r].op # "submit" => tx[r].submission = {} /\ ~tx[r].granted
    /\ \A b \in tx[r].submission :
          /\ b.user = call[r].user /\ b.level = call[r].level
          /\ b.session = call[r].session /\ b.sig = call[r].sig
    /\ \A a, b \in tx[r].submission : a = b
    /\ pc[r] \in Submitting \ {"insert"} => Verified(r)
    /\ entity[r].state = "completed" => Verified(r)
    /\ tx[r].granted => Verified(r)
    /\ pc[r] \in {"complete", "grant"} => ~tx[r].granted
    /\ pc[r] \in {"account_merge", "account_flush"} => tx[r].granted
    /\ Verified(r) => \/ pc[r] \in {"complete", "grant"}
                      \/ <<call[r].user, call[r].level>> \in VisibleProgress(r)

WritesInv == \A r \in Requests : WritesOK(r)

LEMMA InitWrites == Init => WritesInv
  BY DEF Init, WritesInv, WritesOK, Verified, Submitting, NoCall, NoSession, NoWrites

\* The other requests keep what they have, and see as many progress rows.
LEMMA WritesKept ==
    ASSUME TypeInv, WritesInv, NEW r \in Requests, Step(r), NEW q \in Requests \ {r}
    PROVE  WritesOK(q)'
  <1>1. /\ pc'[q] = pc[q] /\ call'[q] = call[q] /\ entity'[q] = entity[q] /\ tx'[q] = tx[q]
        /\ progress \subseteq progress'
    BY Frame DEF OthersUnchanged
  <1>2. WritesOK(q)
    BY DEF WritesInv
  <1>3. VisibleProgress(q) \subseteq VisibleProgress(q)'
    BY <1>1 DEF VisibleProgress
  <1>4. QED  BY <1>1, <1>2, <1>3 DEF WritesOK, Verified

LEMMA StepWrites ==
    ASSUME TypeInv, WritesInv, NEW r \in Requests, Step(r)
    PROVE  WritesOK(r)'
  <1>0. /\ WritesOK(r) /\ CallOK(r) /\ pc[r] \in PCs /\ call[r] \in Call
        /\ entity[r] \in SessionRow /\ tx[r] \in Transaction
        /\ progress \subseteq progress' /\ (pc[r] \in Submitting => call[r].op = "submit")
    BY Typed, Frame DEF TypeInv, WritesInv, CallOK
  <1> USE <1>0 DEF WritesOK, Submitting
  <1>1. CASE Abort(r) \/ RecordStart(r) \/ Commit(r) \/ IntegrityError(r)
    BY <1>1, CloseEffect DEF Abort, RecordStart, Commit, IntegrityError, Verified, NoCall,
                             NoSession, NoWrites
  <1>2. CASE CommitStart(r)
    BY <1>2, CommitStartEffect DEF Verified, NoWrites, NoSession
  <1>3. ASSUME NEW u \in Users, NEW l \in Levels, ResumeLevel(r, u, l) PROVE WritesOK(r)'
    <2>1. PICK s \in SessionIds :
            /\ pc[r] = "idle" /\ pc'[r] = "record"
            /\ call'[r] = NewCall("start", u, l, None, None, s)
            /\ entity'[r] = entity[r] /\ tx'[r] = tx[r]
      BY <1>3, ResumeEffect
    <2>2. call'[r].op = "start" /\ tx'[r] = NoWrites /\ entity'[r] = NoSession
      BY <2>1 DEF NewCall
    <2>3. QED  BY <2>1, <2>2 DEF Verified, NoWrites, NoSession
  <1>4. ASSUME NEW u \in Users, NEW l \in Levels, StartLevel(r, u, l) PROVE WritesOK(r)'
    <2>1. /\ pc[r] = "idle" /\ pc'[r] = "commit" /\ entity'[r] = NewSession(u, l)
          /\ tx'[r] = [tx[r] EXCEPT !.opened = TRUE]
          /\ \E s \in SessionIds : call'[r] = NewCall("start", u, l, None, None, s)
      BY <1>4, StartEffect
    <2>2. call'[r].op = "start" /\ entity'[r].state = "in_progress"
      BY <2>1 DEF NewCall, NewSession, NoSession
    <2>3. tx'[r] = [NoWrites EXCEPT !.opened = TRUE]
      BY <2>1
    <2>4. tx'[r].opened /\ tx'[r].submission = {} /\ ~tx'[r].granted
      BY <2>3 DEF NoWrites
    <2>5. QED  BY <2>1, <2>2, <2>4 DEF Verified
  <1>5. ASSUME NEW u \in Users, NEW l \in Levels, NEW w \in Wallets, SetupLevel(r, u, l, w)
        PROVE  WritesOK(r)'
    <2>1. PICK s \in SessionIds :
            /\ pc[r] = "idle" /\ s \in ActiveSessions(u, l)
            /\ call'[r] = NewCall("setup", u, l, w, None, s)
            /\ \/ pc'[r] = "commit" /\ entity'[r] = entity[r]
               \/ /\ pc'[r] = "session_merge"
                  /\ entity'[r] = [sessions[s] EXCEPT !.bound = w, !.exploit = "setup_ready"]
            /\ tx'[r] = tx[r]
      BY <1>5, SetupEffect
    <2>2. sessions[s] \in SessionRow
      BY DEF TypeInv, TypeOK
    <2>3. call'[r].op = "setup" /\ tx'[r] = NoWrites
      BY <2>1 DEF NewCall
    <2>4. entity'[r].state # "completed"
      <3>1. sessions[s].state = "in_progress"
        BY <2>1 DEF ActiveSessions
      <3>2. CASE entity'[r] = [sessions[s] EXCEPT !.bound = w, !.exploit = "setup_ready"]
        BY <2>2, <3>1, <3>2 DEF SessionRow
      <3>3. CASE entity'[r] = entity[r]
        BY <2>1, <3>3 DEF NoSession
      <3>4. QED  BY <2>1, <3>2, <3>3
    <2>5. QED  BY <2>1, <2>3, <2>4 DEF Verified, NoWrites
  <1>6. ASSUME NEW u \in Users, NEW l \in Levels, NEW w \in Wallets,
               NEW g \in Signatures \cup {None}, SubmitLevel(r, u, l, w, g)
        PROVE  WritesOK(r)'
    <2>1. PICK s \in SessionIds :
            /\ pc[r] = "idle" /\ pc'[r] = "insert" /\ s \in ActiveSessions(u, l)
            /\ call'[r] = NewCall("submit", u, l, w, g, s)
            /\ entity'[r] = sessions[s] /\ tx'[r] = tx[r]
      BY <1>6, SubmitEffect
    <2>2. call'[r].op = "submit" /\ tx'[r] = NoWrites /\ entity'[r].state # "completed"
      BY <2>1 DEF NewCall, ActiveSessions
    <2>3. QED  BY <2>1, <2>2 DEF Verified, NoWrites
  <1>7. CASE InsertSubmission(r)
    <2>1. PICK v \in BOOLEAN, i \in SubmissionIds :
            /\ pc[r] = "insert" /\ ~Waits(r) /\ ~SignatureTaken(call[r].sig)
            /\ pc'[r] = IF v THEN "complete" ELSE "session_merge"
            /\ call'[r] = call[r] /\ entity'[r] = Judged(r, v) /\ account'[r] = account[r]
            /\ dirty'[r] = dirty[r]
            /\ tx'[r] = [tx[r] EXCEPT !.submission = {NewSubmission(r, v, i)}]
      BY <1>7, InsertEffect
    <2> DEFINE b == NewSubmission(r, v, i)
    <2>2. /\ b.user = call[r].user /\ b.level = call[r].level /\ b.session = call[r].session
          /\ b.sig = call[r].sig /\ b.verified = v
      BY DEF NewSubmission
    <2> HIDE DEF b
    <2>3. tx'[r].submission = {b} /\ tx'[r].opened = tx[r].opened /\ tx'[r].granted = tx[r].granted
      BY <2>1 DEF Transaction, b
    <2>4. call[r].op = "submit" /\ ~tx[r].granted /\ ~tx[r].opened
      BY <2>1 DEF NoWrites
    <2>5. entity'[r].state = IF v THEN "completed" ELSE "failed"
      BY <2>1 DEF Judged, SessionRow
    <2>6. Verified(r)' <=> v
      BY <2>2, <2>3 DEF Verified
    <2>7. QED  BY <2>1, <2>2, <2>3, <2>4, <2>5, <2>6
  <1>8. ASSUME pc[r] \in Submitting \cup {"session_merge", "session_flush"},
               pc[r] # "insert", pc'[r] \notin {"idle", "insert", "record"},
               pc'[r] \in Submitting => pc[r] \in Submitting,
               call'[r] = call[r], entity'[r] = entity[r],
               tx'[r].opened = tx[r].opened, tx'[r].submission = tx[r].submission,
               tx'[r].granted <=> tx[r].granted \/ pc'[r] = "account_merge",
               pc'[r] \in {"complete", "grant"} => pc[r] \in {"complete", "grant"},
               pc'[r] = "account_flush" => pc[r] = "account_merge",
               pc[r] \in {"complete", "grant"} /\ pc'[r] \notin {"complete", "grant"} =>
                   tx'[r].granted \/ <<call[r].user, call[r].level>> \in progress
        PROVE  WritesOK(r)'
    <2>1. Verified(r)' <=> Verified(r)
      BY <1>8 DEF Verified
    <2>2. ~tx[r].opened /\ (pc'[r] = "commit" => call[r].op # "start")
      BY <1>8
    <2>3. <<call[r].user, call[r].level>> \in VisibleProgress(r) =>
             <<call[r].user, call[r].level>> \in VisibleProgress(r)'
      BY <1>8 DEF VisibleProgress
    <2>4. tx'[r].granted \/ <<call[r].user, call[r].level>> \in progress =>
             <<call[r].user, call[r].level>> \in VisibleProgress(r)'
      BY <1>8 DEF VisibleProgress
    <2>5. QED  BY <1>8, <2>1, <2>2, <2>3, <2>4
  <1>9. CASE ReadAccount(r)
    <2>1. tx[r].granted <=> FALSE
      BY <1>9, ReadEffect
    <2>2. QED  BY <1>8, <1>9, <2>1, ReadEffect
  <1>10. CASE InsertProgress(r)
    BY <1>8, <1>10, GrantEffect DEF Transaction
  <1>11. CASE MergeAccount(r) \/ MergeSession(r)
    BY <1>8, <1>11, MergeAccountEffect, MergeSessionEffect
  <1>12. CASE FlushAccount(r)
    <2>1. /\ tx'[r].opened = tx[r].opened /\ tx'[r].submission = tx[r].submission
          /\ tx'[r].granted = tx[r].granted
      BY <1>12, FlushAccountEffect DEF Transaction
    <2>2. tx[r].granted
      BY <1>12, FlushAccountEffect
    <2>3. QED  BY <1>8, <1>12, <2>1, <2>2, FlushAccountEffect
  <1>13. CASE EvaluateCertification(r)
    <2>1. /\ tx'[r].opened = tx[r].opened /\ tx'[r].submission = tx[r].submission
          /\ tx'[r].granted = tx[r].granted
      BY <1>13, CertifyEffect DEF Transaction
    <2>2. QED  BY <1>8, <1>13, <2>1, CertifyEffect
  <1>14. CASE FlushSession(r)
    <2>1. /\ tx'[r].opened = tx[r].opened /\ tx'[r].submission = tx[r].submission
          /\ tx'[r].granted = tx[r].granted
      BY <1>14, FlushSessionEffect DEF Transaction
    <2>2. QED  BY <1>8, <1>14, <2>1, FlushSessionEffect
  <1>15. QED
    BY <1>1, <1>2, <1>3, <1>4, <1>5, <1>6, <1>7, <1>9, <1>10, <1>11, <1>12, <1>13, <1>14
       DEF Step, Arrive, Proceed

LEMMA NextWrites == TypeInv /\ WritesInv /\ [Next]_vars => WritesInv'
  <1>1. ASSUME WritesInv, UNCHANGED vars PROVE WritesInv'
    BY <1>1 DEF WritesInv, WritesOK, Verified, VisibleProgress, vars, tables, locals
  <1>2. ASSUME TypeInv, WritesInv, NEW r \in Requests, Step(r) PROVE WritesInv'
    BY <1>2, WritesKept, StepWrites DEF WritesInv
  <1>3. QED  BY <1>1, <1>2 DEF Next, Step

THEOREM WritesInvariant == Spec => []WritesInv
  <1>1. TypeInv /\ WritesInv /\ [Next]_vars => (TypeInv /\ WritesInv)'
    BY NextTyped, NextWrites
  <1>2. QED  BY <1>1, InitTyped, InitWrites, PTL DEF Spec

-----------------------------------------------------------------------------
(* Submissions and progress. *)

LEMMA CommitPublishes ==
    ASSUME NEW r \in Requests, Commits(r)
    PROVE  pc[r] = "commit" /\ Publish(r)
  BY DEF Commits, CommitStart, Commit

\* Two requests never tell of the same submission, and a progress row appears
\* in the transaction of a verified submission, never without it.
LEMMA NextVerified ==
    TypeInv /\ WritesInv /\ VerifiedMeansProgress /\ [Next]_vars => VerifiedMeansProgress'
  <1>1. ASSUME VerifiedMeansProgress, UNCHANGED vars PROVE VerifiedMeansProgress'
    BY <1>1 DEF VerifiedMeansProgress, vars, tables
  <1>2. ASSUME TypeInv, WritesInv, VerifiedMeansProgress, NEW r \in Requests, Commits(r)
        PROVE  VerifiedMeansProgress'
    <2> DEFINE u == call[r].user  l == call[r].level
    <2>1. /\ pc[r] = "commit" /\ submissions' = submissions \cup tx[r].submission
          /\ progress' = VisibleProgress(r)
      BY <1>2, CommitPublishes DEF Publish
    <2>2. \A b \in tx[r].submission : b.user = u /\ b.level = l
      BY <1>2 DEF WritesInv, WritesOK
    <2>3. Verified(r) <=> <<u, l>> \in progress' /\ Verified(r)
      BY <1>2, <2>1 DEF WritesInv, WritesOK
    <2>4. progress' = progress \/ (Verified(r) /\ progress' = progress \cup {<<u, l>>})
      <3>1. tx[r].granted => Verified(r)
        BY <1>2 DEF WritesInv, WritesOK
      <3>2. QED  BY <2>1, <3>1 DEF VisibleProgress
    <2>5. ASSUME NEW x \in Users, NEW k \in Levels
          PROVE  <<x, k>> \in progress'
                    <=> \E b \in submissions' : b.user = x /\ b.level = k /\ b.verified
      <3>1. <<x, k>> \in progress
              <=> \E b \in submissions : b.user = x /\ b.level = k /\ b.verified
        BY <1>2 DEF VerifiedMeansProgress
      <3>2. (\E b \in tx[r].submission : b.user = x /\ b.level = k /\ b.verified)
              <=> x = u /\ k = l /\ Verified(r)
        BY <2>2 DEF Verified
      <3>3. QED  BY <2>1, <2>3, <2>4, <3>1, <3>2
    <2>6. QED  BY <2>5 DEF VerifiedMeansProgress
  <1>3. ASSUME VerifiedMeansProgress, NEW r \in Requests,
               (Quiet(r) /\ UNCHANGED tables) \/ RecordStart(r)
        PROVE  VerifiedMeansProgress'
    BY <1>3 DEF VerifiedMeansProgress, tables, RecordStart
  <1>4. QED  BY <1>1, <1>2, <1>3, StepKinds DEF Next, Step

\* A level is completed for a user exactly when a verified submission of that
\* user is on record, whatever requests are cut off or run concurrently.
THEOREM VerifiedMeansProgressHolds == Spec => []VerifiedMeansProgress
  <1>1. Init => VerifiedMeansProgress
    BY DEF Init, VerifiedMeansProgress
  <1>2. TypeInv /\ WritesInv /\ VerifiedMeansProgress /\ [Next]_vars
          => (TypeInv /\ WritesInv /\ VerifiedMeansProgress)'
    BY NextTyped, NextWrites, NextVerified
  <1>3. QED  BY <1>1, <1>2, InitTyped, InitWrites, PTL DEF Spec

\* The signatures of open transactions are as distinct as the committed ones.
SignaturesInv ==
    /\ SignatureUsedOnce
    /\ \A r \in Requests : \A a \in tx[r].submission : a.sig # None =>
          /\ \A b \in submissions : b.sig # a.sig
          /\ \A q \in Requests \ {r} : \A b \in tx[q].submission : b.sig # a.sig

\* No other step puts a submission in a transaction.
LEMMA SubmissionsOfTransactions ==
    ASSUME TypeInv, NEW r \in Requests, Step(r), ~InsertSubmission(r)
    PROVE  tx'[r].submission \subseteq tx[r].submission
  <1>1. tx[r] \in Transaction
    BY Typed
  <1>2. CASE Abort(r) \/ RecordStart(r) \/ Commit(r) \/ IntegrityError(r) \/ CommitStart(r)
    BY <1>2, CloseEffect, CommitStartEffect
       DEF Abort, RecordStart, Commit, IntegrityError, NoWrites
  <1>3. CASE Arrive(r)
    <2>1. tx'[r] = tx[r] \/ tx'[r] = [tx[r] EXCEPT !.opened = TRUE]
      BY <1>3, ResumeEffect, StartEffect, SetupEffect, SubmitEffect DEF Arrive
    <2>2. QED  BY <1>1, <2>1 DEF Transaction
  <1>4. CASE ReadAccount(r) \/ MergeAccount(r) \/ MergeSession(r)
    BY <1>4, ReadEffect, MergeAccountEffect, MergeSessionEffect
  <1>5. CASE InsertProgress(r)
    BY <1>1, <1>5, GrantEffect DEF Transaction
  <1>6. CASE FlushAccount(r)
    BY <1>1, <1>6, FlushAccountEffect DEF Transaction
  <1>7. CASE EvaluateCertification(r)
    <2>1. PICK S : tx'[r] = [tx[r] EXCEPT !.certs = S]
      BY <1>7, CertifyEffect
    <2>2. QED  BY <1>1, <2>1 DEF Transaction
  <1>8. CASE FlushSession(r)
    BY <1>1, <1>8, FlushSessionEffect DEF Transaction
  <1>9. QED
    BY <1>2, <1>3, <1>4, <1>5, <1>6, <1>7, <1>8 DEF Step, Proceed

LEMMA NextSignatures == TypeInv /\ WritesInv /\ SignaturesInv /\ [Next]_vars => SignaturesInv'
  <1>1. ASSUME SignaturesInv, UNCHANGED vars PROVE SignaturesInv'
    BY <1>1 DEF SignaturesInv, SignatureUsedOnce, vars, tables, locals
  <1>2. ASSUME TypeInv, SignaturesInv, NEW r \in Requests, InsertSubmission(r)
        PROVE  SignaturesInv'
    <2>1. PICK v \in BOOLEAN, i \in SubmissionIds :
            /\ pc[r] = "insert" /\ ~Waits(r) /\ ~SignatureTaken(call[r].sig)
            /\ pc'[r] = IF v THEN "complete" ELSE "session_merge"
            /\ call'[r] = call[r] /\ entity'[r] = Judged(r, v) /\ account'[r] = account[r]
            /\ dirty'[r] = dirty[r]
            /\ tx'[r] = [tx[r] EXCEPT !.submission = {NewSubmission(r, v, i)}]
      BY <1>2, InsertEffect
    <2> DEFINE b == NewSubmission(r, v, i)
    <2>2. b.sig = call[r].sig
      BY DEF NewSubmission
    <2> HIDE DEF b
    <2>3. tx'[r].submission = {b}
      BY <1>2, <2>1, Typed DEF Transaction, b
    <2>4. submissions' = submissions
      BY <1>2 DEF InsertSubmission, tables
    <2>5. \A q \in Requests \ {r} : tx'[q] = tx[q]
      BY <1>2, Frame DEF Step, Proceed, OthersUnchanged
    <2>6. ASSUME b.sig # None
          PROVE  /\ \A c \in submissions : c.sig # b.sig
                 /\ \A q \in Requests \ {r} : \A c \in tx[q].submission : c.sig # b.sig
      BY <2>1, <2>2, <2>6 DEF SignatureTaken, Waits, WaitsFor, InsertWaits
    <2>7. QED  BY <1>2, <2>3, <2>4, <2>5, <2>6 DEF SignaturesInv, SignatureUsedOnce
  <1>3. ASSUME TypeInv, WritesInv, SignaturesInv, NEW r \in Requests, Step(r), ~InsertSubmission(r)
        PROVE  SignaturesInv'
    <2>1. /\ tx'[r].submission \subseteq tx[r].submission
          /\ \A q \in Requests \ {r} : tx'[q] = tx[q]
      BY <1>3, Frame, SubmissionsOfTransactions DEF OthersUnchanged
    <2>2. CASE submissions' = submissions
      BY <1>3, <2>1, <2>2 DEF SignaturesInv, SignatureUsedOnce
    <2>3. CASE submissions' = submissions \cup tx[r].submission /\ tx'[r].submission = {}
      <3>1. \A a, b \in tx[r].submission : a = b
        BY <1>3 DEF WritesInv, WritesOK
      <3>2. SignatureUsedOnce'
        BY <1>3, <2>3, <3>1 DEF SignaturesInv, SignatureUsedOnce
      <3>3. QED  BY <1>3, <2>1, <2>3, <3>2 DEF SignaturesInv
    <2>4. submissions' = submissions
            \/ (submissions' = submissions \cup tx[r].submission /\ tx'[r].submission = {})
      BY <1>3, StepKinds, CloseEffect, CommitStartEffect
         DEF Commits, CommitStart, Commit, Publish, RecordStart, tables, NoWrites
    <2>5. QED  BY <2>2, <2>3, <2>4
  <1>4. QED  BY <1>1, <1>2, <1>3 DEF Next, Step

\* One transaction signature proves at most one submission of any user: the
\* unique key, and the wait of an INSERT for the transaction it collides with,
\* close the gap between the replay check and the INSERT.
THEOREM SignatureUsedOnceHolds == Spec => []SignatureUsedOnce
  <1>1. Init => SignaturesInv
    BY DEF Init, SignaturesInv, SignatureUsedOnce, NoWrites
  <1>2. SignaturesInv => SignatureUsedOnce
    BY DEF SignaturesInv
  <1>3. TypeInv /\ WritesInv /\ SignaturesInv /\ [Next]_vars
          => (TypeInv /\ WritesInv /\ SignaturesInv)'
    BY NextTyped, NextWrites, NextSignatures
  <1>4. QED  BY <1>1, <1>2, <1>3, InitTyped, InitWrites, PTL DEF Spec

\* Whose session a request holds a copy of.
CopyOK(r) ==
    /\ tx[r].opened =>
          /\ sessions[call[r].session] = NoSession
          /\ entity[r] = NewSession(call[r].user, call[r].level)
          /\ \A q \in Requests \ {r} : tx[q].opened => call[q].session # call[r].session
    /\ call[r].op \in {"setup", "submit"} =>
          /\ sessions[call[r].session].state # "absent"
          /\ sessions[call[r].session].owner = call[r].user
          /\ sessions[call[r].session].level = call[r].level
          /\ entity[r].state = "absent" => pc[r] = "commit" /\ tx[r].sessionCols = {}
          /\ entity[r].state # "absent" =>
                /\ entity[r].owner = call[r].user /\ entity[r].level = call[r].level
                /\ entity[r].bound # None <=> call[r].level \in Executable
                /\ entity[r].sig # None =>
                      \E b \in submissions \cup tx[r].submission :
                          b.sig = entity[r].sig /\ b.session = call[r].session

SessionOK(s) ==
    /\ sessions[s].state = "absent" => sessions[s] = NoSession
    /\ sessions[s].bound # None => sessions[s].level \in Executable
    /\ sessions[s].sig # None =>
          \E b \in submissions : b.sig = sessions[s].sig /\ b.session = s

SessionsInv ==
    /\ \A s \in SessionIds : SessionOK(s)
    /\ \A r \in Requests : CopyOK(r)

\* Between the insert of its submission and its commit a request keeps its call
\* and its copy of the session.
Continues(r) ==
    \/ ReadAccount(r) \/ InsertProgress(r) \/ MergeAccount(r) \/ FlushAccount(r)
    \/ EvaluateCertification(r) \/ MergeSession(r) \/ FlushSession(r)

LEMMA ContinueEffect ==
    ASSUME TypeInv, NEW r \in Requests, Continues(r)
    PROVE  /\ UNCHANGED tables
           /\ pc[r] \in {"complete", "grant", "account_merge", "account_flush", "certify",
                        "session_merge", "session_flush"}
           /\ call'[r] = call[r] /\ entity'[r] = entity[r]
           /\ tx'[r].opened = tx[r].opened /\ tx'[r].submission = tx[r].submission
  <1>0. tx[r] \in Transaction
    BY Typed
  <1>1. CASE ReadAccount(r) \/ MergeAccount(r) \/ MergeSession(r)
    BY <1>1, ReadEffect, MergeAccountEffect, MergeSessionEffect
       DEF ReadAccount, MergeAccount, MergeSession
  <1>2. CASE InsertProgress(r)
    BY <1>0, <1>2, GrantEffect DEF InsertProgress, Transaction
  <1>3. CASE FlushAccount(r)
    BY <1>0, <1>3, FlushAccountEffect DEF FlushAccount, Transaction
  <1>4. CASE EvaluateCertification(r)
    <2>1. PICK S : tx'[r] = [tx[r] EXCEPT !.certs = S]
      BY <1>4, CertifyEffect
    <2>2. QED  BY <1>0, <1>4, <2>1, CertifyEffect DEF EvaluateCertification, Transaction
  <1>5. CASE FlushSession(r)
    BY <1>0, <1>5, FlushSessionEffect DEF FlushSession, Transaction
  <1>6. QED  BY <1>1, <1>2, <1>3, <1>4, <1>5 DEF Continues

LEMMA InitSessions == Init => SessionsInv
  BY DEF Init, SessionsInv, SessionOK, CopyOK, NoSession, NoCall, NoWrites

\* The tables and the other requests, when a request arrives, goes on or ends.
LEMMA QuietSessions ==
    ASSUME TypeInv, SessionsInv, NEW r \in Requests, Step(r),
           UNCHANGED <<sessions, submissions>>,
           tx'[r].opened => \/ tx[r].opened /\ call'[r].session = call[r].session
                            \/ IsNextSession(call'[r].session) /\ call'[r].session \in SessionIds
    PROVE  /\ \A s \in SessionIds : SessionOK(s)'
           /\ \A q \in Requests \ {r} : CopyOK(q)'
           /\ tx'[r].opened => \A q \in Requests \ {r} :
                 tx[q].opened => call[q].session # call'[r].session
  <1>1. \A s \in SessionIds : SessionOK(s)'
    BY DEF SessionsInv, SessionOK
  <1>2. ASSUME NEW q \in Requests \ {r}, tx'[r].opened, tx[q].opened
        PROVE  call[q].session # call'[r].session
    <2>1. CASE tx[r].opened /\ call'[r].session = call[r].session
      BY <1>2, <2>1 DEF SessionsInv, CopyOK
    <2>2. CASE IsNextSession(call'[r].session) /\ call'[r].session \in SessionIds
      <3>1. call[q].session \in UsedSessionIds
        BY <1>2 DEF UsedSessionIds
      <3>2. call[q].session < call'[r].session
        BY <2>2, <3>1 DEF IsNextSession
      <3>3. QED  BY <2>2, <3>2, BoundsAssumption DEF SessionIds
    <2>3. QED  BY <1>2, <2>1, <2>2
  <1>3. ASSUME NEW q \in Requests \ {r} PROVE CopyOK(q)'
    <2>1. /\ pc'[q] = pc[q] /\ call'[q] = call[q] /\ entity'[q] = entity[q] /\ tx'[q] = tx[q]
          /\ \A p \in Requests \ {r} : tx'[p] = tx[p] /\ call'[p] = call[p]
      BY Frame DEF OthersUnchanged
    <2>2. CopyOK(q)
      BY DEF SessionsInv
    <2>3. ASSUME tx'[q].opened, NEW p \in Requests \ {q}, tx'[p].opened
          PROVE  call'[p].session # call'[q].session
      BY <1>2, <2>1, <2>2, <2>3 DEF CopyOK
    <2>4. QED  BY <2>1, <2>2, <2>3 DEF CopyOK
  <1>4. QED  BY <1>1, <1>2, <1>3

\* What a commit makes of the session of its call.
LEMMA PublishedSession ==
    ASSUME TypeInv, WritesInv, SessionsInv, NEW r \in Requests, Commits(r)
    PROVE  LET s == call[r].session
           IN  /\ s \in SessionIds /\ \A t \in SessionIds \ {s} : sessions'[t] = sessions[t]
               /\ sessions'[s] \in SessionRow
               /\ sessions'[s].owner = call[r].user /\ sessions'[s].level = call[r].level
               /\ sessions'[s].state # "absent"
               /\ sessions'[s].bound # None => call[r].level \in Executable
               /\ sessions[s].bound # None => sessions'[s].bound # None
               /\ sessions'[s].sig # None =>
                     \E b \in submissions' : b.sig = sessions'[s].sig /\ b.session = s
               /\ sessions'[s].state = "completed" =>
                     sessions[s].state = "completed" \/ Verified(r)
  <1> DEFINE s == call[r].session
             row == Merged(sessions[s], entity[r], tx[r].sessionCols)
  <1>1. pc[r] = "commit" /\ Publish(r)
    BY CommitPublishes
  <1>2. /\ s \in SessionIds /\ sessions[s] \in SessionRow /\ entity[r] \in SessionRow
        /\ sessions \in [SessionIds -> SessionRow]
        /\ CopyOK(r) /\ WritesOK(r) /\ SessionOK(s) /\ call[r].op # "none" /\ call[r] \in Call
    BY <1>1, Typed DEF TypeInv, TypeOK, CallOK, SessionsInv, WritesInv
  <1>3. submissions' = submissions \cup tx[r].submission
    BY <1>1 DEF Publish
  <1>4. CASE tx[r].opened
    <2>1. sessions' = [sessions EXCEPT ![s] = NewSession(call[r].user, call[r].level)]
      BY <1>1, <1>2, <1>4 DEF Publish, CopyOK
    <2>2. entity[r] = NewSession(call[r].user, call[r].level) /\ sessions[s].bound = None
      BY <1>2, <1>4 DEF CopyOK, NoSession
    <2>3. QED  BY <1>2, <2>1, <2>2 DEF NewSession, NoSession
  <1>5. CASE ~tx[r].opened
    <2>1. sessions' = [sessions EXCEPT ![s] = row]
      BY <1>1, <1>5 DEF Publish
    <2>2. sessions'[s] = row /\ \A t \in SessionIds \ {s} : sessions'[t] = sessions[t]
      BY <1>2, <2>1
    <2>3. row \in SessionRow
      BY <1>2, MergedRow
    <2>4. \A c \in SessionCols \ {"stamp"} :
             row[c] = IF c \in tx[r].sessionCols THEN entity[r][c] ELSE sessions[s][c]
      BY <1>2 DEF Merged, SessionRow, SessionCols
    <2>5. call[r].op \in {"setup", "submit"}
      BY <1>1, <1>2, <1>5 DEF WritesOK, Call
    <2>6. /\ row.owner \in {entity[r].owner, sessions[s].owner}
          /\ row.level \in {entity[r].level, sessions[s].level}
          /\ row.state \in {entity[r].state, sessions[s].state}
          /\ row.bound \in {entity[r].bound, sessions[s].bound}
          /\ row.sig \in {entity[r].sig, sessions[s].sig}
      BY <2>4 DEF SessionCols
    <2>7. CASE entity[r].state = "absent"
      <3>1. tx[r].sessionCols = {}
        BY <1>2, <2>5, <2>7 DEF CopyOK
      <3>2. /\ row.owner = sessions[s].owner /\ row.level = sessions[s].level
            /\ row.state = sessions[s].state /\ row.bound = sessions[s].bound
            /\ row.sig = sessions[s].sig
        BY <2>4, <3>1 DEF SessionCols
      <3>3. QED  BY <1>2, <1>3, <2>2, <2>3, <2>5, <3>2 DEF CopyOK, SessionOK
    <2>8. CASE entity[r].state # "absent"
      <3>1. /\ sessions[s].state # "absent"
            /\ sessions[s].owner = call[r].user /\ sessions[s].level = call[r].level
            /\ entity[r].owner = call[r].user /\ entity[r].level = call[r].level
            /\ entity[r].bound # None <=> call[r].level \in Executable
            /\ entity[r].sig # None =>
                  \E b \in submissions \cup tx[r].submission :
                      b.sig = entity[r].sig /\ b.session = s
        BY <1>2, <2>5, <2>8 DEF CopyOK
      <3>2. /\ sessions[s].bound # None => call[r].level \in Executable
            /\ sessions[s].sig # None =>
                  \E b \in submissions : b.sig = sessions[s].sig /\ b.session = s
        BY <1>2, <3>1 DEF SessionOK
      <3>3. row.state = "completed" => sessions[s].state = "completed" \/ Verified(r)
        BY <1>2, <2>6 DEF WritesOK
      <3>4. QED  BY <1>2, <1>3, <2>2, <2>3, <2>6, <2>8, <3>1, <3>2, <3>3
    <2>9. QED  BY <2>7, <2>8
  <1>6. QED  BY <1>4, <1>5

LEMMA CommitSessions ==
    ASSUME TypeInv, WritesInv, SessionsInv, NEW r \in Requests, Commits(r)
    PROVE  SessionsInv'
  <1> DEFINE s == call[r].session
  <1>1. /\ s \in SessionIds /\ \A t \in SessionIds \ {s} : sessions'[t] = sessions[t]
        /\ sessions'[s].owner = call[r].user /\ sessions'[s].level = call[r].level
        /\ sessions'[s].state # "absent"
        /\ sessions'[s].bound # None => call[r].level \in Executable
        /\ sessions'[s].sig # None =>
              \E b \in submissions' : b.sig = sessions'[s].sig /\ b.session = s
    BY PublishedSession
  <1>2. submissions \subseteq submissions'
    BY Frame DEF Commits, Step, Proceed
  <1>3. ASSUME NEW t \in SessionIds PROVE SessionOK(t)'
    <2>1. CASE t = s
      BY <1>1, <2>1 DEF SessionOK
    <2>2. CASE t # s
      BY <1>1, <1>2, <1>3, <2>2 DEF SessionsInv, SessionOK
    <2>3. QED  BY <2>1, <2>2
  <1>4. CopyOK(r) /\ WritesOK(r) /\ pc[r] = "commit" /\ call[r] \in Call /\ call[r].op # "none"
    BY CommitPublishes, Typed DEF SessionsInv, WritesInv, TypeInv, CallOK
  <1>5. /\ tx'[r] = NoWrites /\ call'[r].op \notin {"setup", "submit"}
    BY CloseEffect, CommitStartEffect DEF Commits, Commit, NoCall
  <1>6. ASSUME NEW q \in Requests \ {r} PROVE CopyOK(q)'
    <2>1. /\ pc'[q] = pc[q] /\ call'[q] = call[q] /\ entity'[q] = entity[q] /\ tx'[q] = tx[q]
          /\ \A p \in Requests \ {r} : tx'[p] = tx[p] /\ call'[p] = call[p]
      BY Frame DEF OthersUnchanged, Commits, Step, Proceed
    <2>2. CopyOK(q) /\ CallOK(q)
      BY DEF SessionsInv, TypeInv
    <2>3. CASE tx[q].opened
      <3>1. call[q].session # s /\ pc[q] = "commit" /\ call[q].op = "start"
        <4>1. pc[q] = "commit" /\ call[q].op = "start"
          BY <2>3 DEF WritesInv, WritesOK
        <4>2. CASE tx[r].opened
          BY <1>4, <2>3, <4>1, <4>2 DEF CopyOK
        <4>3. CASE ~tx[r].opened
          <5>1. sessions[s].state # "absent"
            BY <1>4, <4>3 DEF CopyOK, WritesOK, Call
          <5>2. sessions[call[q].session].state = "absent"
            BY <2>2, <2>3 DEF CopyOK, NoSession
          <5>3. QED  BY <4>1, <5>1, <5>2
        <4>4. QED  BY <4>1, <4>2, <4>3
      <3>2. sessions'[call[q].session] = sessions[call[q].session]
        BY <1>1, <2>2, <3>1 DEF CallOK
      <3>3. ASSUME NEW p \in Requests \ {q}, tx'[p].opened PROVE call'[p].session # call'[q].session
        BY <1>5, <2>1, <2>2, <2>3, <3>3 DEF CopyOK, NoWrites
      <3>4. QED  BY <2>1, <2>2, <2>3, <3>1, <3>2, <3>3 DEF CopyOK
    <2>4. CASE ~tx[q].opened
      <3>1. call[q].op \in {"setup", "submit"} => call[q].session \in SessionIds
        <4>1. pc[q] = "idle" => call[q].op = "none"
          <5>1. WritesOK(q)
            BY DEF WritesInv
          <5>2. QED  BY <5>1 DEF WritesOK, NoCall
        <4>2. QED  BY <2>2, <4>1 DEF CallOK
      <3>2. call[q].op \in {"setup", "submit"} =>
              /\ sessions'[call[q].session].state # "absent"
              /\ sessions'[call[q].session].owner = call[q].user
              /\ sessions'[call[q].session].level = call[q].level
        <4>1. CASE call[q].session # s
          BY <1>1, <2>2, <3>1, <4>1 DEF CopyOK
        <4>2. CASE call[q].session = s /\ tx[r].opened
          BY <1>4, <2>2, <4>2 DEF CopyOK, NoSession
        <4>3. CASE call[q].session = s /\ ~tx[r].opened
          <5>1. sessions[s].owner = call[r].user /\ sessions[s].level = call[r].level
            BY <1>4, <4>3 DEF CopyOK, WritesOK, Call
          <5>2. QED  BY <1>1, <2>2, <4>3, <5>1 DEF CopyOK
        <4>4. QED  BY <4>1, <4>2, <4>3
      <3>3. QED  BY <1>2, <2>1, <2>2, <2>4, <3>2 DEF CopyOK
    <2>5. QED  BY <2>3, <2>4
  <1>7. CopyOK(r)'
    BY <1>5 DEF CopyOK, NoWrites
  <1>8. QED  BY <1>3, <1>6, <1>7 DEF SessionsInv

LEMMA StepCopy ==
    ASSUME TypeInv, WritesInv, SessionsInv, NEW r \in Requests, Quiet(r) \/ RecordStart(r),
           tx'[r].opened => \A q \in Requests \ {r} :
               tx[q].opened => call[q].session # call'[r].session
    PROVE  CopyOK(r)'
  <1>0. /\ WritesOK(r) /\ CallOK(r) /\ CopyOK(r) /\ pc[r] \in PCs /\ call[r] \in Call
        /\ entity[r] \in SessionRow /\ tx[r] \in Transaction
    BY Typed DEF TypeInv, WritesInv, SessionsInv
  <1>1. \A q \in Requests \ {r} : tx'[q] = tx[q] /\ call'[q] = call[q]
    BY Frame DEF OthersUnchanged, Quiet, Step, Proceed
  <1>2. CASE Abort(r) \/ IntegrityError(r) \/ RecordStart(r)
    BY <1>2, CloseEffect DEF Abort, IntegrityError, RecordStart, CopyOK, NoCall, NoWrites
  <1>3. ASSUME NEW u \in Users, NEW l \in Levels, ResumeLevel(r, u, l) PROVE CopyOK(r)'
    <2>1. PICK s \in SessionIds :
              /\ pc[r] = "idle" /\ pc'[r] = "record"
              /\ call'[r] = NewCall("start", u, l, None, None, s)
              /\ entity'[r] = entity[r] /\ account'[r] = account[r]
              /\ dirty'[r] = dirty[r] /\ tx'[r] = tx[r]
      BY <1>3, ResumeEffect
    <2>2. call'[r].op = "start" /\ tx'[r] = NoWrites
      BY <1>0, <2>1 DEF NewCall, WritesOK
    <2>3. QED  BY <2>2 DEF CopyOK, NoWrites
  <1>4. ASSUME NEW u \in Users, NEW l \in Levels, StartLevel(r, u, l) PROVE CopyOK(r)'
    <2>1. PICK s \in SessionIds :
              /\ pc[r] = "idle" /\ pc'[r] = "commit" /\ IsNextSession(s)
              /\ call'[r] = NewCall("start", u, l, None, None, s)
              /\ entity'[r] = NewSession(u, l) /\ account'[r] = account[r]
              /\ dirty'[r] = dirty[r] /\ tx'[r] = [tx[r] EXCEPT !.opened = TRUE]
      BY <1>4, StartEffect
    <2>2. /\ call'[r].op = "start" /\ call'[r].user = u /\ call'[r].level = l
          /\ call'[r].session = s
      BY <2>1 DEF NewCall
    <2>3. tx'[r].opened
      BY <1>0, <2>1 DEF Transaction
    <2>4. sessions'[s] = NoSession
      <3>1. sessions[s].state = "absent"
        BY <2>1, BoundsAssumption DEF IsNextSession, UsedSessionIds, SessionIds
      <3>2. QED  BY <1>4, <3>1 DEF SessionsInv, SessionOK, StartLevel, tables
    <2>5. QED  BY <1>1, <2>1, <2>2, <2>3, <2>4 DEF CopyOK
  <1>5. ASSUME NEW u \in Users, NEW l \in Levels, NEW w \in Wallets, SetupLevel(r, u, l, w)
        PROVE  CopyOK(r)'
    <2>1. PICK s \in SessionIds :
              /\ pc[r] = "idle" /\ s \in ActiveSessions(u, l)
              /\ call'[r] = NewCall("setup", u, l, w, None, s)
              /\ \/ pc'[r] = "commit" /\ entity'[r] = entity[r]
                 \/ /\ pc'[r] = "session_merge" /\ l \in Executable
                    /\ entity'[r] = [sessions[s] EXCEPT !.bound = w, !.exploit = "setup_ready"]
              /\ account'[r] = account[r] /\ dirty'[r] = dirty[r] /\ tx'[r] = tx[r]
      BY <1>5, SetupEffect
    <2>2. /\ call'[r].op = "setup" /\ call'[r].user = u /\ call'[r].level = l
          /\ call'[r].session = s
      BY <2>1 DEF NewCall
    <2>3. /\ sessions[s] \in SessionRow /\ SessionOK(s) /\ sessions[s].state = "in_progress"
          /\ sessions[s].owner = u /\ sessions[s].level = l
      BY <2>1 DEF TypeInv, TypeOK, SessionsInv, ActiveSessions, SessionsOf
    <2>4. sessions' = sessions /\ submissions' = submissions
      BY <1>5 DEF SetupLevel, tables
    <2>5. tx'[r] = NoWrites
      BY <1>0, <2>1 DEF WritesOK
    <2>6. CASE pc'[r] = "commit" /\ entity'[r] = entity[r]
      <3>1. entity'[r].state = "absent"
        BY <1>0, <2>1, <2>6 DEF WritesOK, NoSession
      <3>2. QED  BY <2>2, <2>3, <2>4, <2>5, <2>6, <3>1 DEF CopyOK, NoWrites
    <2>7. CASE entity'[r] = [sessions[s] EXCEPT !.bound = w, !.exploit = "setup_ready"]
               /\ l \in Executable
      <3>1. /\ entity'[r].owner = u /\ entity'[r].level = l /\ entity'[r].state = "in_progress"
            /\ entity'[r].bound = w /\ w # None /\ entity'[r].sig = sessions[s].sig
        BY <2>3, <2>7, ActorsAssumption DEF SessionRow
      <3>2. entity'[r].sig # None => \E b \in submissions' : b.sig = entity'[r].sig /\ b.session = s
        BY <2>3, <2>4, <3>1 DEF SessionOK
      <3>3. QED  BY <2>2, <2>3, <2>4, <2>5, <2>7, <3>1, <3>2 DEF CopyOK, NoWrites
    <2>8. QED  BY <2>1, <2>6, <2>7
  <1>6. ASSUME NEW u \in Users, NEW l \in Levels, NEW w \in Wallets,
               NEW g \in Signatures \cup {None}, SubmitLevel(r, u, l, w, g)
        PROVE  CopyOK(r)'
    <2>1. PICK s \in SessionIds :
              /\ pc[r] = "idle" /\ pc'[r] = "insert"
              /\ IsUnlocked(u, l) /\ s \in ActiveSessions(u, l) /\ SetUpForProof(l, s)
              /\ call'[r] = NewCall("submit", u, l, w, g, s)
              /\ entity'[r] = sessions[s] /\ account'[r] = account[r]
              /\ dirty'[r] = dirty[r] /\ tx'[r] = tx[r]
      BY <1>6, SubmitEffect
    <2>2. /\ call'[r].op = "submit" /\ call'[r].user = u /\ call'[r].level = l
          /\ call'[r].session = s
      BY <2>1 DEF NewCall
    <2>3. /\ SessionOK(s) /\ sessions[s].state = "in_progress"
          /\ sessions[s].owner = u /\ sessions[s].level = l
      BY <2>1 DEF SessionsInv, ActiveSessions, SessionsOf
    <2>4. sessions' = sessions /\ submissions' = submissions
      BY <1>6 DEF SubmitLevel, tables
    <2>5. tx'[r] = NoWrites
      BY <1>0, <2>1 DEF WritesOK
    <2>6. sessions[s].bound # None <=> l \in Executable
      BY <2>1, <2>3 DEF SessionOK, SetUpForProof
    <2>7. entity'[r].sig # None => \E b \in submissions' : b.sig = entity'[r].sig /\ b.session = s
      BY <2>1, <2>3, <2>4 DEF SessionOK
    <2>8. QED  BY <2>1, <2>2, <2>3, <2>4, <2>5, <2>6, <2>7 DEF CopyOK, NoWrites
  <1>7. CASE InsertSubmission(r)
    <2>1. PICK v \in BOOLEAN, i \in SubmissionIds :
            /\ pc[r] = "insert" /\ ~Waits(r) /\ ~SignatureTaken(call[r].sig)
            /\ pc'[r] = IF v THEN "complete" ELSE "session_merge"
            /\ call'[r] = call[r] /\ entity'[r] = Judged(r, v) /\ account'[r] = account[r]
            /\ dirty'[r] = dirty[r]
            /\ tx'[r] = [tx[r] EXCEPT !.submission = {NewSubmission(r, v, i)}]
      BY <1>7, InsertEffect
    <2> DEFINE b == NewSubmission(r, v, i)
    <2>2. b.sig = call[r].sig /\ b.session = call[r].session
      BY DEF NewSubmission
    <2> HIDE DEF b
    <2>3. tx'[r].submission = {b} /\ tx'[r].opened = tx[r].opened
      BY <1>0, <2>1 DEF Transaction, b
    <2>4. call[r].op = "submit" /\ tx[r].submission = {} /\ ~tx[r].opened
      BY <1>0, <2>1 DEF CallOK, Submitting, WritesOK, NoWrites
    <2>5. /\ entity'[r].owner = entity[r].owner /\ entity'[r].level = entity[r].level
          /\ entity'[r].bound = entity[r].bound /\ entity'[r].state # "absent"
          /\ entity'[r].sig = IF call[r].sig # None THEN call[r].sig ELSE entity[r].sig
      BY <1>0, <2>1 DEF Judged, SessionRow
    <2>6. sessions' = sessions /\ submissions' = submissions
      BY <1>7 DEF InsertSubmission, tables
    <2>7. QED  BY <1>0, <2>1, <2>2, <2>3, <2>4, <2>5, <2>6 DEF CopyOK
  <1>8. CASE Continues(r)
    <2>1. /\ UNCHANGED tables /\ pc[r] # "commit" /\ call'[r] = call[r] /\ entity'[r] = entity[r]
          /\ tx'[r].opened = tx[r].opened /\ tx'[r].submission = tx[r].submission
      BY <1>8, ContinueEffect
    <2>2. ~tx[r].opened /\ (call[r].op \in {"setup", "submit"} => entity[r].state # "absent")
      BY <1>0, <2>1 DEF WritesOK, CopyOK
    <2>3. QED  BY <1>0, <2>1, <2>2 DEF CopyOK, tables
  <1>9. QED
    BY <1>2, <1>3, <1>4, <1>5, <1>6, <1>7, <1>8 DEF Quiet, Arrive, Continues

\* A session is opened by the start of a level, under the next free id.
LEMMA OpenedByStart ==
    ASSUME TypeInv, WritesInv, NEW r \in Requests, Quiet(r) \/ RecordStart(r), tx'[r].opened
    PROVE  \/ tx[r].opened /\ call'[r].session = call[r].session
           \/ IsNextSession(call'[r].session) /\ call'[r].session \in SessionIds
  <1>0. WritesOK(r) /\ tx[r] \in Transaction
    BY Typed DEF WritesInv
  <1>1. CASE Abort(r) \/ IntegrityError(r) \/ RecordStart(r)
    BY <1>1, CloseEffect DEF Abort, IntegrityError, RecordStart, NoWrites
  <1>2. ASSUME NEW u \in Users, NEW l \in Levels, StartLevel(r, u, l)
        PROVE  IsNextSession(call'[r].session) /\ call'[r].session \in SessionIds
    <2>1. PICK s \in SessionIds :
              /\ pc[r] = "idle" /\ pc'[r] = "commit" /\ IsNextSession(s)
              /\ call'[r] = NewCall("start", u, l, None, None, s)
              /\ entity'[r] = NewSession(u, l) /\ account'[r] = account[r]
              /\ dirty'[r] = dirty[r] /\ tx'[r] = [tx[r] EXCEPT !.opened = TRUE]
      BY <1>2, StartEffect
    <2>2. call'[r].session = s
      BY <2>1 DEF NewCall
    <2>3. QED  BY <2>1, <2>2
  <1>3. ASSUME NEW u \in Users, NEW l \in Levels,
               \/ ResumeLevel(r, u, l)
               \/ \E w \in Wallets : \/ SetupLevel(r, u, l, w)
                                     \/ \E g \in Signatures \cup {None} : SubmitLevel(r, u, l, w, g)
        PROVE  FALSE
    <2>1. pc[r] = "idle" /\ tx'[r] = tx[r]
      BY <1>3, ResumeEffect, SetupEffect, SubmitEffect
    <2>2. QED  BY <1>0, <2>1 DEF WritesOK, NoWrites
  <1>4. CASE InsertSubmission(r)
    BY <1>0, <1>4, InsertEffect DEF Transaction
  <1>5. CASE Continues(r)
    BY <1>5, ContinueEffect
  <1>6. QED  BY <1>1, <1>2, <1>3, <1>4, <1>5 DEF Quiet, Arrive, Continues

LEMMA NextSessions == TypeInv /\ WritesInv /\ SessionsInv /\ [Next]_vars => SessionsInv'
  <1>1. ASSUME SessionsInv, UNCHANGED vars PROVE SessionsInv'
    BY <1>1 DEF SessionsInv, SessionOK, CopyOK, vars, tables, locals
  <1>2. ASSUME TypeInv, WritesInv, SessionsInv, NEW r \in Requests, Step(r),
               (Quiet(r) /\ UNCHANGED tables) \/ RecordStart(r)
        PROVE  SessionsInv'
    <2>1. UNCHANGED <<sessions, submissions>>
      BY <1>2 DEF tables, RecordStart
    <2>2. tx'[r].opened => \/ tx[r].opened /\ call'[r].session = call[r].session
                           \/ IsNextSession(call'[r].session) /\ call'[r].session \in SessionIds
      BY <1>2, OpenedByStart
    <2>3. QED  BY <1>2, <2>1, <2>2, QuietSessions, StepCopy DEF SessionsInv
  <1>3. QED  BY <1>1, <1>2, CommitSessions, StepKinds DEF Next, Step

SafeInv == TypeInv /\ WritesInv /\ SignaturesInv /\ SessionsInv

THEOREM SafeInvariant == Spec => []SafeInv
  <1>1. Init => SafeInv
    BY InitTyped, InitWrites, InitSessions
       DEF Init, SafeInv, SignaturesInv, SignatureUsedOnce, NoWrites
  <1>2. SafeInv /\ [Next]_vars => SafeInv'
    BY NextTyped, NextWrites, NextSignatures, NextSessions DEF SafeInv
  <1>3. QED  BY <1>1, <1>2, PTL DEF Spec

\* tx_signature stays unique over level_sessions as well: a session row carries
\* the signature of a submission made for that session.
THEOREM SessionSignaturesDistinctHolds == Spec => []SessionSignaturesDistinct
  <1>1. SafeInv => SessionSignaturesDistinct
    BY DEF SafeInv, SignaturesInv, SignatureUsedOnce, SessionsInv, SessionOK,
           SessionSignaturesDistinct
  <1>2. QED  BY <1>1, SafeInvariant, PTL

\* A session is marked completed only with the progress row of its level,
\* although stale copies of it are written back.
THEOREM CompletedSessionHasProgressHolds == Spec => []CompletedSessionHasProgress
  <1>1. Init => CompletedSessionHasProgress
    BY DEF Init, CompletedSessionHasProgress, NoSession
  <1>2. ASSUME SafeInv, CompletedSessionHasProgress, NEW r \in Requests, Commits(r)
        PROVE  CompletedSessionHasProgress'
    <2> DEFINE s == call[r].session
    <2>1. /\ s \in SessionIds /\ \A t \in SessionIds \ {s} : sessions'[t] = sessions[t]
          /\ sessions'[s].owner = call[r].user /\ sessions'[s].level = call[r].level
          /\ sessions'[s].state = "completed" => sessions[s].state = "completed" \/ Verified(r)
      BY <1>2, PublishedSession DEF SafeInv
    <2>2. progress \subseteq progress' /\ progress' = VisibleProgress(r) /\ pc[r] = "commit"
      BY <1>2, CommitPublishes DEF Publish, VisibleProgress
    <2>3. Verified(r) => <<call[r].user, call[r].level>> \in progress'
      BY <1>2, <2>2 DEF SafeInv, WritesInv, WritesOK
    <2>4. sessions[s].state = "completed" =>
             sessions[s].owner = call[r].user /\ sessions[s].level = call[r].level
      <3>1. CopyOK(r) /\ WritesOK(r) /\ call[r] \in Call /\ call[r].op # "none"
        BY <1>2, <2>2, Typed DEF SafeInv, SessionsInv, WritesInv, TypeInv, CallOK
      <3>2. CASE tx[r].opened
        BY <3>1, <3>2 DEF CopyOK, NoSession
      <3>3. CASE ~tx[r].opened
        BY <2>2, <3>1, <3>3 DEF CopyOK, WritesOK, Call
      <3>4. QED  BY <3>2, <3>3
    <2>5. QED  BY <1>2, <2>1, <2>2, <2>3, <2>4 DEF CompletedSessionHasProgress
  <1>3. ASSUME CompletedSessionHasProgress, UNCHANGED <<sessions, progress>>
        PROVE  CompletedSessionHasProgress'
    BY <1>3 DEF CompletedSessionHasProgress
  <1>4. SafeInv /\ CompletedSessionHasProgress /\ [Next]_vars => CompletedSessionHasProgress'
    <2>1. ASSUME UNCHANGED vars PROVE UNCHANGED <<sessions, progress>>
      BY <2>1 DEF vars, tables
    <2>2. ASSUME NEW r \in Requests, Step(r), ~Commits(r) PROVE UNCHANGED <<sessions, progress>>
      BY <2>2, StepKinds DEF tables, RecordStart
    <2>3. QED  BY <1>2, <1>3, <2>1, <2>2 DEF Next, Step
  <1>5. QED  BY <1>1, <1>4, SafeInvariant, PTL DEF Spec

\* The wallet a session is bound to is never erased by a request that writes
\* an older copy of the session back.
THEOREM SetupIsNotUndoneHolds == Spec => SetupIsNotUndone
  <1>1. ASSUME SafeInv, NEW r \in Requests, Commits(r)
        PROVE  \A s \in SessionIds : sessions[s].bound # None => sessions'[s].bound # None
    BY <1>1, PublishedSession DEF SafeInv
  <1>2. SafeInv /\ [Next]_vars =>
          [\A s \in SessionIds : sessions[s].bound # None => sessions'[s].bound # None]_sessions
    <2>1. ASSUME UNCHANGED vars PROVE sessions' = sessions
      BY <2>1 DEF vars, tables
    <2>2. ASSUME NEW r \in Requests, Step(r), ~Commits(r) PROVE sessions' = sessions
      BY <2>2, StepKinds DEF tables, RecordStart
    <2>3. QED  BY <1>1, <2>1, <2>2 DEF Next, Step
  <1>3. QED  BY <1>2, SafeInvariant, PTL DEF Spec, SetupIsNotUndone
=============================================================================
