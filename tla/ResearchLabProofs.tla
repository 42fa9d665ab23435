------------------------ MODULE ResearchLabProofs ------------------------
(***************************************************************************)
(* Theorems about ResearchLab, for every number of users, sessions and     *)
(* requests.                                                               *)
(***************************************************************************)
EXTENDS ResearchLab, TLAPS

Step(r) == Arrive(r) \/ Proceed(r) \/ Abort(r)

-----------------------------------------------------------------------------
(* TypeOK is not inductive: a commit writes the session and the completion   *)
(* of its call, and the columns in which the session in memory differs from  *)
(* the one loaded.  What is inductive is that a request works for the owner  *)
(* of its session, that one which creates a session is alone with it, and    *)
(* that the session in memory is of the same owner.                          *)

Exists(s) == sessions[s].status # "absent"

RowOK(s) == IF Exists(s) THEN sessions[s].owner \in Users ELSE sessions[s].owner = None

\* The points up to the flush of a session loaded before.
InMemory == {"execute", "verify", "read_report", "award", "grant", "wipe", "clear",
             "clear_report", "session_flush"}

\* The request has loaded its session; a draft has not.
HasLoaded(r) == pc[r] \in InMemory /\ call[r].op # "draft"

IdleOK(r) ==
    pc[r] = "idle" => /\ call[r] = NoCall /\ tx[r] = NoWrites
                      /\ entity[r] = NoSession /\ draft[r] = NoReport

CallOK(r) ==
    /\ pc[r] # "idle" => call[r].session \in SessionIds /\ call[r].user \in Users
    /\ tx[r].opened <=> call[r].op = "create"
    /\ tx[r].opened => /\ pc[r] = "commit" /\ ~Exists(call[r].session)
                       /\ entity[r] = NewSession(call[r].user)
                       /\ ~tx[r].granted /\ draft[r] = NoReport
                       /\ \A q \in Requests \ {r} :
                             tx[q].opened => call[q].session # call[r].session
    /\ pc[r] # "idle" /\ ~tx[r].opened =>
          Exists(call[r].session) /\ sessions[call[r].session].owner = call[r].user
    /\ call[r].op = "draft" => pc[r] \in {"read_report", "upsert", "report_flush", "commit"}

MemoryOK(r) ==
    /\ HasLoaded(r) =>
          /\ loaded[r].owner = call[r].user /\ entity[r].owner = call[r].user
          /\ entity[r].status # "absent"
    /\ pc[r] \in InMemory => tx[r].cols = {}
    /\ "status" \in tx[r].cols => entity[r].status # "absent"

TypeInv ==
    /\ TypeOK
    /\ \A s \in SessionIds : RowOK(s)
    /\ \A r \in Requests : IdleOK(r) /\ CallOK(r) /\ MemoryOK(r)

(* The reward.  A request that has recorded a completion is the only open    *)
(* one to pay its user, who has not been paid; it is the one, and the only   *)
(* one, that writes xp_awarded; and whatever is completed or accepted in     *)
(* memory belongs to a user who has been paid or is paid by this request.    *)

Paid(r) == tx[r].granted \/ Completed(call[r].user)

GrantOK(r) ==
    tx[r].granted =>
        /\ pc[r] \in {"session_flush", "upsert", "report_flush", "commit"}
        /\ ~Completed(call[r].user)
        /\ \A q \in Requests \ {r} : tx[q].granted => call[q].user # call[r].user

AwardOK(r) ==
    /\ HasLoaded(r) =>
          /\ loaded[r].xp => Completed(call[r].user)
          /\ entity[r].xp <=> loaded[r].xp \/ tx[r].granted
          /\ entity[r].completed => Paid(r)
    /\ ~HasLoaded(r) => ("xp" \in tx[r].cols <=> tx[r].granted)
    /\ "xp" \in tx[r].cols => entity[r].xp
    /\ "completed" \in tx[r].cols /\ entity[r].completed => Paid(r)
    /\ draft[r].status = "accepted" /\ pc[r] \notin {"award", "grant"} => Paid(r)

AwardInv == \A r \in Requests : GrantOK(r) /\ AwardOK(r)

(* The status.  A request that carries a passed session back over one that   *)
(* was not has verified it.                                                  *)

StatusOK(r) ==
    /\ HasLoaded(r) /\ entity[r].status = "passed" =>
          loaded[r].status = "passed" \/ tx[r].verified
    /\ "status" \in tx[r].cols /\ entity[r].status = "passed" => tx[r].verified

StatusInv == \A r \in Requests : StatusOK(r)

IInv == TypeInv /\ AwardInv /\ StatusInv /\ PaidThroughOneSession /\ CompletedIsAwarded

-----------------------------------------------------------------------------
(* The rows the model is built from. *)

LEMMA EmptyRows ==
    /\ NoSession \in SessionRow /\ NoSession.owner = None /\ NoSession.status = "absent"
    /\ NoSession.completed = FALSE /\ NoSession.xp = FALSE
    /\ NoReport \in ReportRow /\ NoReport.status = "absent" /\ NoReport.id = 0
    /\ NoStatement \in Statement /\ NoStatement.kind = "none"
    /\ NoCall \in Call /\ NoCall.op = "none" /\ NoCall.user = None
  BY DEF NoSession, NoReport, NoStatement, NoCall, SessionRow, ReportRow, Statement, Call, Ops

LEMMA EmptyWrites ==
    /\ NoWrites \in Transaction /\ NoWrites.opened = FALSE /\ NoWrites.cols = {}
    /\ NoWrites.verified = FALSE /\ NoWrites.granted = FALSE
  BY EmptyRows DEF NoWrites, Transaction

LEMMA NewSessionTyped ==
    ASSUME NEW u \in Users
    PROVE  /\ NewSession(u) \in SessionRow
           /\ NewSession(u).owner = u /\ NewSession(u).status = "active"
           /\ NewSession(u).completed = FALSE /\ NewSession(u).xp = FALSE
  BY DEF NewSession, NoSession, SessionRow

\* An UPDATE of some columns of a row.
LEMMA MergedSession ==
    ASSUME NEW row \in SessionRow, NEW e \in SessionRow, NEW cols \in SUBSET SessionCols
    PROVE  /\ Merged(row, e, cols) \in SessionRow
           /\ Merged(row, e, cols).owner = row.owner
           /\ Merged(row, e, cols).status = IF "status" \in cols THEN e.status ELSE row.status
           /\ Merged(row, e, cols).completed =
                 IF "completed" \in cols THEN e.completed ELSE row.completed
           /\ Merged(row, e, cols).xp = IF "xp" \in cols THEN e.xp ELSE row.xp
  BY DEF Merged, SessionRow, SessionCols

LEMMA ChangedSession ==
    ASSUME NEW row \in SessionRow, NEW e \in SessionRow
    PROVE  /\ row.owner = e.owner => Changed(row, e) \in SUBSET SessionCols
           /\ "xp" \in Changed(row, e) <=> e.xp # row.xp
           /\ "status" \in Changed(row, e) <=> e.status # row.status
  BY DEF Changed, SessionRow, SessionCols

LEMMA MergedReport ==
    ASSUME NEW row \in ReportRow, NEW d \in ReportRow, NEW cols \in SUBSET ReportCols
    PROVE  /\ Merged(row, d, cols) \in ReportRow
           /\ Merged(row, d, cols).status = IF "status" \in cols THEN d.status ELSE row.status
  BY DEF Merged, ReportRow, ReportCols

LEMMA ReportAfterTyped ==
    ASSUME TypeOK, NEW r \in Requests, NEW row \in ReportRow
    PROVE  /\ ReportAfter(r, row) \in ReportRow
           /\ ReportAfter(r, row).status = "accepted" =>
                 row.status = "accepted" \/ draft[r].status = "accepted"
  <1>1. draft[r] \in ReportRow /\ tx[r].report \in Statement
    BY DEF TypeOK, Transaction
  <1>2. tx[r].report.id \in ReportIds \cup {0} /\ tx[r].report.cols \in SUBSET ReportCols
    BY <1>1 DEF Statement
  <1>3. \A i \in ReportIds \cup {0} : /\ [draft[r] EXCEPT !.id = i] \in ReportRow
                                     /\ [draft[r] EXCEPT !.id = i].status = draft[r].status
    BY <1>1 DEF ReportRow
  <1>4. CASE tx[r].report.kind = "insert"
    BY <1>2, <1>3, <1>4 DEF ReportAfter
  <1>5. CASE tx[r].report.kind # "insert" /\ tx[r].doomed # 0 /\ tx[r].doomed = row.id
    BY <1>5, EmptyRows DEF ReportAfter
  <1>6. CASE tx[r].report.kind # "insert" /\ ~(tx[r].doomed # 0 /\ tx[r].doomed = row.id)
    <2>1. ReportAfter(r, row) = Merged(row, draft[r], tx[r].report.cols)
      BY <1>6 DEF ReportAfter
    <2>2. QED  BY <1>1, <1>2, <2>1, MergedReport
  <1>7. QED  BY <1>4, <1>5, <1>6

LEMMA OneOwner == None \notin Users
  BY NoneAssumption

-----------------------------------------------------------------------------
(* What each step does to the locals of its request. *)

\* A step of a request changes its own locals only.
LEMMA OthersUntouched ==
    ASSUME TypeOK, NEW r \in Requests, Step(r), NEW q \in Requests \ {r}
    PROVE  /\ pc'[q] = pc[q] /\ call'[q] = call[q] /\ tx'[q] = tx[q]
           /\ loaded'[q] = loaded[q] /\ entity'[q] = entity[q] /\ draft'[q] = draft[q]
  <1>1. CASE Arrive(r)
    BY <1>1 DEF Arrive, CreateSession, BeginTransact, BeginVerify, BeginDraft, BeginSubmit,
                BeginReset, LoadSession, LoadForDraft, Goto, TypeOK
  <1>2. CASE ExecuteTransaction(r) \/ VerifyObjective(r) \/ SaveReportDraft(r) \/ SubmitReport(r)
    BY <1>2 DEF ExecuteTransaction, VerifyObjective, SaveReportDraft, SubmitReport, Goto, TypeOK
  <1>3. CASE AwardXpOnce(r) \/ CreateCompletion(r) \/ UpsertReport(r) \/ FlushReport(r)
    BY <1>3 DEF AwardXpOnce, CreateCompletion, UpsertReport, FlushReport, Goto, TypeOK
  <1>4. CASE ResetRuntime(r) \/ ClearRuns(r) \/ ClearReport(r) \/ FlushSession(r)
    BY <1>4 DEF ResetRuntime, ClearRuns, ClearReport, FlushSession, Goto, TypeOK
  <1>5. CASE IntegrityError(r) \/ RefuseDraft(r) \/ Commit(r) \/ Abort(r)
    BY <1>5 DEF IntegrityError, RefuseDraft, Commit, Abort, Close, TypeOK
  <1>6. QED  BY <1>1, <1>2, <1>3, <1>4, <1>5 DEF Step, Proceed

LEMMA OnlyCommitsWrite ==
    ASSUME NEW r \in Requests, Step(r)
    PROVE  UNCHANGED tables \/ Commit(r)
  BY DEF Step, Arrive, Proceed, Abort, CreateSession, BeginTransact, BeginVerify, BeginDraft,
         BeginSubmit, BeginReset, LoadSession, LoadForDraft, ExecuteTransaction,
         VerifyObjective, SaveReportDraft, SubmitReport, AwardXpOnce, CreateCompletion,
         UpsertReport, FlushReport, RefuseDraft, IntegrityError, ResetRuntime, ClearRuns,
         ClearReport, FlushSession

LEMMA CloseEffect ==
    ASSUME TypeOK, NEW r \in Requests, Close(r)
    PROVE  /\ pc' \in [Requests -> PCs] /\ call' \in [Requests -> Call]
           /\ loaded' \in [Requests -> SessionRow] /\ entity' \in [Requests -> SessionRow]
           /\ copy' \in [Requests -> ReportRow] /\ draft' \in [Requests -> ReportRow]
           /\ write' \in [Requests -> Statement] /\ tx' \in [Requests -> Transaction]
           /\ pc'[r] = "idle" /\ call'[r] = NoCall /\ tx'[r] = NoWrites
           /\ entity'[r] = NoSession /\ draft'[r] = NoReport
  <1>1. "idle" \in PCs
    BY DEF PCs
  <1>2. QED  BY <1>1, EmptyRows, EmptyWrites DEF Close, TypeOK

LEMMA CreateEffect ==
    ASSUME TypeOK, NEW r \in Requests, tx[r] = NoWrites, NEW u \in Users, CreateSession(r, u)
    PROVE  /\ TypeOK'
           /\ UNCHANGED <<tables, loaded, draft>>
           /\ pc[r] = "idle" /\ pc'[r] = "commit"
           /\ call'[r].op = "create" /\ call'[r].user = u
           /\ call'[r].session \in SessionIds \ UsedSessionIds
           /\ entity'[r] = NewSession(u)
           /\ tx'[r].opened /\ ~tx'[r].granted /\ ~tx'[r].verified /\ tx'[r].cols = {}
  <1>1. PICK s \in SessionIds \ UsedSessionIds :
           /\ call' = [call EXCEPT ![r] = NewCall("create", u, s)]
           /\ sandbox' = [sandbox EXCEPT ![s] = "clean"]
    BY DEF CreateSession
  <1>2. /\ NewCall("create", u, s) \in Call
        /\ NewCall("create", u, s).op = "create" /\ NewCall("create", u, s).user = u
        /\ NewCall("create", u, s).session = s
    BY DEF NewCall, Call, Ops
  <1>3. /\ call' \in [Requests -> Call] /\ call'[r] = NewCall("create", u, s)
        /\ sandbox' \in [SessionIds -> {"clean", "drained"}]
    BY <1>1, <1>2 DEF TypeOK
  <1>4. entity' \in [Requests -> SessionRow] /\ entity'[r] = NewSession(u)
    BY NewSessionTyped DEF CreateSession, TypeOK
  <1>5. PICK b \in BOOLEAN : b = TRUE
    OBVIOUS
  <1>6. tx' = [tx EXCEPT ![r] = [NoWrites EXCEPT !.opened = b]]
    BY <1>5 DEF CreateSession
  <1>7. /\ [NoWrites EXCEPT !.opened = b] \in Transaction
        /\ [NoWrites EXCEPT !.opened = b].opened = b
        /\ [NoWrites EXCEPT !.opened = b].cols = {}
        /\ [NoWrites EXCEPT !.opened = b].granted = FALSE
        /\ [NoWrites EXCEPT !.opened = b].verified = FALSE
    BY EmptyRows DEF NoWrites, Transaction
  <1>8. tx' \in [Requests -> Transaction] /\ tx'[r] = [NoWrites EXCEPT !.opened = b]
    BY <1>6, <1>7 DEF TypeOK
  <1>9. pc' \in [Requests -> PCs] /\ pc'[r] = "commit" /\ pc[r] = "idle"
    BY DEF CreateSession, Goto, TypeOK, PCs
  <1>10. UNCHANGED <<tables, loaded, copy, draft, write>>
    BY DEF CreateSession
  <1>11. TypeOK'
    BY <1>3, <1>4, <1>8, <1>9, <1>10 DEF TypeOK, tables
  <1>12. QED
    BY <1>1, <1>2, <1>3, <1>4, <1>5, <1>7, <1>8, <1>9, <1>10, <1>11

\* What the five ways to begin with a session on record have in common.
LoadedOps == {"transact", "verify", "submit", "reset"}

LEMMA LoadEffect ==
    ASSUME TypeOK, NEW r \in Requests, NEW s \in SessionIds, NEW op \in LoadedOps,
           NEW label \in {"execute", "verify", "read_report", "wipe"},
           LoadSession(r, s, op, label)
    PROVE  /\ TypeOK'
           /\ UNCHANGED <<tables, draft, tx>>
           /\ pc[r] = "idle" /\ pc'[r] = label /\ Exists(s)
           /\ call'[r].op = op /\ call'[r].session = s /\ call'[r].user = sessions[s].owner
           /\ loaded'[r] = sessions[s] /\ entity'[r] = sessions[s]
  <1>1. sessions[s] \in SessionRow /\ sessions[s].owner \in Users \cup {None}
    BY DEF TypeOK, SessionRow
  <1>2. /\ NewCall(op, sessions[s].owner, s) \in Call
        /\ NewCall(op, sessions[s].owner, s).op = op
        /\ NewCall(op, sessions[s].owner, s).user = sessions[s].owner
        /\ NewCall(op, sessions[s].owner, s).session = s
    BY <1>1 DEF NewCall, Call, Ops, LoadedOps
  <1>3. label \in PCs
    BY DEF PCs
  <1>4. TypeOK'
    BY <1>1, <1>2, <1>3 DEF LoadSession, Goto, TypeOK, tables
  <1>5. QED  BY <1>2, <1>4 DEF LoadSession, Goto, TypeOK, Exists

LEMMA LoadForDraftEffect ==
    ASSUME TypeOK, NEW r \in Requests, NEW s \in SessionIds, BeginDraft(r, s)
    PROVE  /\ TypeOK'
           /\ UNCHANGED <<tables, loaded, entity, draft, tx>>
           /\ pc[r] = "idle" /\ pc'[r] = "read_report" /\ Exists(s)
           /\ call'[r].op = "draft" /\ call'[r].session = s
           /\ call'[r].user = sessions[s].owner
  <1>1. sessions[s].owner \in Users \cup {None}
    BY DEF TypeOK, SessionRow
  <1>2. /\ NewCall("draft", sessions[s].owner, s) \in Call
        /\ NewCall("draft", sessions[s].owner, s).op = "draft"
        /\ NewCall("draft", sessions[s].owner, s).user = sessions[s].owner
        /\ NewCall("draft", sessions[s].owner, s).session = s
    BY <1>1 DEF NewCall, Call, Ops
  <1>3. "read_report" \in PCs
    BY DEF PCs
  <1>4. TypeOK'
    BY <1>2, <1>3 DEF BeginDraft, LoadForDraft, Goto, TypeOK, tables
  <1>5. QED  BY <1>2, <1>4 DEF BeginDraft, LoadForDraft, Goto, TypeOK, Exists

LEMMA ExecuteEffect ==
    ASSUME TypeOK, NEW r \in Requests, call[r].session \in SessionIds, ExecuteTransaction(r)
    PROVE  /\ TypeOK'
           /\ UNCHANGED <<tables, call, loaded, draft, tx>>
           /\ pc[r] = "execute" /\ pc'[r] = "session_flush"
           /\ entity'[r].owner = entity[r].owner /\ entity'[r].status = entity[r].status
           /\ entity'[r].completed = entity[r].completed /\ entity'[r].xp = entity[r].xp
  <1>1. entity[r] \in SessionRow /\ entity \in [Requests -> SessionRow]
    BY DEF TypeOK
  <1>2. PICK b \in BOOLEAN : b = TRUE
    OBVIOUS
  <1>3. entity' = [entity EXCEPT ![r] = [entity[r] EXCEPT !.tried = b]]
    BY <1>2 DEF ExecuteTransaction
  <1>4. /\ [entity[r] EXCEPT !.tried = b] \in SessionRow
        /\ [entity[r] EXCEPT !.tried = b].owner = entity[r].owner
        /\ [entity[r] EXCEPT !.tried = b].status = entity[r].status
        /\ [entity[r] EXCEPT !.tried = b].completed = entity[r].completed
        /\ [entity[r] EXCEPT !.tried = b].xp = entity[r].xp
    BY <1>1 DEF SessionRow
  <1>5. /\ entity' \in [Requests -> SessionRow]
        /\ entity'[r] = [entity[r] EXCEPT !.tried = b]
    BY <1>1, <1>3, <1>4
  <1>6. sandbox' \in [SessionIds -> {"clean", "drained"}]
    BY DEF ExecuteTransaction, TypeOK
  <1>7. /\ pc' \in [Requests -> PCs] /\ pc[r] = "execute" /\ pc'[r] = "session_flush"
        /\ UNCHANGED <<tables, call, loaded, copy, draft, write, tx>>
    BY DEF ExecuteTransaction, Goto, TypeOK, PCs
  <1>8. TypeOK'
    BY <1>5, <1>6, <1>7 DEF TypeOK, tables
  <1>9. QED  BY <1>4, <1>5, <1>7, <1>8

LEMMA VerifyEffect ==
    ASSUME TypeOK, NEW r \in Requests, VerifyObjective(r)
    PROVE  /\ TypeOK'
           /\ UNCHANGED <<tables, call, loaded, draft>>
           /\ pc[r] = "verify" /\ pc'[r] = IF tx'[r].verified THEN "session_flush" ELSE "commit"
           /\ tx'[r].opened = tx[r].opened /\ tx'[r].cols = tx[r].cols
           /\ tx'[r].granted = tx[r].granted
           /\ entity'[r].owner = entity[r].owner
           /\ entity'[r].status = IF tx'[r].verified THEN "passed" ELSE entity[r].status
           /\ entity'[r].completed = entity[r].completed /\ entity'[r].xp = entity[r].xp
  <1>1. entity[r] \in SessionRow /\ entity \in [Requests -> SessionRow]
    BY DEF TypeOK
  <1>2. PICK b \in BOOLEAN : b = (sandbox[call[r].session] = "drained")
    OBVIOUS
  <1>3. tx[r] \in Transaction /\ tx \in [Requests -> Transaction]
    BY DEF TypeOK
  <1>4. /\ tx' = [tx EXCEPT ![r] = [tx[r] EXCEPT !.verified = b]]
        /\ pc' = [pc EXCEPT ![r] = IF b THEN "session_flush" ELSE "commit"]
        /\ UNCHANGED <<tables, sandbox, call, loaded, copy, draft, write>> /\ pc[r] = "verify"
    BY <1>2 DEF VerifyObjective, Goto
  <1>5. /\ [tx[r] EXCEPT !.verified = b] \in Transaction
        /\ [tx[r] EXCEPT !.verified = b].verified = b
        /\ [tx[r] EXCEPT !.verified = b].opened = tx[r].opened
        /\ [tx[r] EXCEPT !.verified = b].cols = tx[r].cols
        /\ [tx[r] EXCEPT !.verified = b].granted = tx[r].granted
    BY <1>3 DEF Transaction
  <1>6. tx' \in [Requests -> Transaction] /\ tx'[r] = [tx[r] EXCEPT !.verified = b]
    BY <1>3, <1>4, <1>5
  <1>7. PICK t \in BOOLEAN : t = TRUE
    OBVIOUS
  <1>8. entity' = [entity EXCEPT ![r] =
                      IF b THEN [entity[r] EXCEPT !.status = "passed", !.tried = t] ELSE entity[r]]
    BY <1>2, <1>7 DEF VerifyObjective
  <1>9. PICK e \in SessionRow :
           /\ e = IF b THEN [entity[r] EXCEPT !.status = "passed", !.tried = t] ELSE entity[r]
           /\ e.owner = entity[r].owner
           /\ e.status = IF b THEN "passed" ELSE entity[r].status
           /\ e.completed = entity[r].completed /\ e.xp = entity[r].xp
    <2>1. /\ [entity[r] EXCEPT !.status = "passed", !.tried = t] \in SessionRow
          /\ [entity[r] EXCEPT !.status = "passed", !.tried = t].owner = entity[r].owner
          /\ [entity[r] EXCEPT !.status = "passed", !.tried = t].status = "passed"
          /\ [entity[r] EXCEPT !.status = "passed", !.tried = t].completed = entity[r].completed
          /\ [entity[r] EXCEPT !.status = "passed", !.tried = t].xp = entity[r].xp
      BY <1>1 DEF SessionRow
    <2>2. QED  BY <1>1, <2>1
  <1>10. entity' \in [Requests -> SessionRow] /\ entity'[r] = e
    BY <1>1, <1>8, <1>9
  <1>11. pc' \in [Requests -> PCs] /\ pc'[r] = IF b THEN "session_flush" ELSE "commit"
    BY <1>4 DEF TypeOK, PCs
  <1>12. TypeOK'
    BY <1>4, <1>6, <1>10, <1>11 DEF TypeOK, tables
  <1>13. QED  BY <1>4, <1>5, <1>6, <1>9, <1>10, <1>11, <1>12

\* SaveReportDraft and SubmitReport.
LEMMA ReadReportEffect ==
    ASSUME TypeOK, NEW r \in Requests, call[r].session \in SessionIds,
           SaveReportDraft(r) \/ SubmitReport(r)
    PROVE  /\ TypeOK'
           /\ UNCHANGED <<tables, call, loaded, entity, tx>>
           /\ pc[r] = "read_report" /\ pc'[r] \in {"award", "upsert"}
           /\ call[r].op \in {"draft", "submit"}
           /\ call[r].op = "draft" => pc'[r] = "upsert"
           /\ draft'[r].status = "accepted" => pc'[r] = "award"
  <1>1. reports[call[r].session] \in ReportRow
    BY DEF TypeOK
  <1>2. \A st \in {"draft", "retry", "accepted"}, f \in {"poor", "sound"} :
           NewReport(st, f) \in ReportRow /\ NewReport(st, f).status = st
    BY DEF NewReport, ReportRow
  <1>3. CASE SaveReportDraft(r)
    <2>1. PICK f \in {"poor", "sound"} : draft' = [draft EXCEPT ![r] = NewReport("draft", f)]
      BY <1>3 DEF SaveReportDraft
    <2>2. /\ draft' \in [Requests -> ReportRow] /\ draft'[r].status = "draft"
      BY <1>2, <2>1 DEF TypeOK
    <2>3. /\ pc[r] = "read_report" /\ call[r].op = "draft"
          /\ pc' = [pc EXCEPT ![r] = "upsert"]
          /\ copy' = [copy EXCEPT ![r] = reports[call[r].session]]
          /\ UNCHANGED <<tables, sandbox, call, loaded, entity, write, tx>>
      BY <1>3 DEF SaveReportDraft, Goto, CurrentReport
    <2>4. pc' \in [Requests -> PCs] /\ pc'[r] = "upsert"
      BY <2>3 DEF TypeOK, PCs
    <2>5. TypeOK'
      BY <1>1, <2>2, <2>3, <2>4 DEF TypeOK, tables
    <2>6. QED  BY <2>2, <2>3, <2>4, <2>5
  <1>4. CASE SubmitReport(r)
    <2>1. PICK b \in BOOLEAN : b = (CurrentReport(r).fields = "sound")
      OBVIOUS
    <2>2. reports[call[r].session].fields \in {"poor", "sound"}
      BY <1>1 DEF ReportRow
    <2>3. draft' = [draft EXCEPT ![r] = NewReport(IF b THEN "accepted" ELSE "retry",
                                                  reports[call[r].session].fields)]
      BY <1>4, <2>1 DEF SubmitReport, CurrentReport
    <2>4. /\ draft' \in [Requests -> ReportRow]
          /\ draft'[r].status = IF b THEN "accepted" ELSE "retry"
      BY <1>2, <2>2, <2>3 DEF TypeOK
    <2>5. /\ pc[r] = "read_report" /\ call[r].op = "submit"
          /\ pc' = [pc EXCEPT ![r] = IF b THEN "award" ELSE "upsert"]
          /\ copy' = [copy EXCEPT ![r] = reports[call[r].session]]
          /\ UNCHANGED <<tables, sandbox, call, loaded, entity, write, tx>>
      BY <1>4, <2>1 DEF SubmitReport, Goto, CurrentReport
    <2>6. pc' \in [Requests -> PCs] /\ pc'[r] = IF b THEN "award" ELSE "upsert"
      BY <2>5 DEF TypeOK, PCs
    <2>7. TypeOK'
      BY <1>1, <2>4, <2>5, <2>6 DEF TypeOK, tables
    <2>8. QED  BY <2>4, <2>5, <2>6, <2>7
  <1>5. QED  BY <1>3, <1>4

LEMMA AwardEffect ==
    ASSUME TypeOK, NEW r \in Requests, AwardXpOnce(r)
    PROVE  /\ TypeOK'
           /\ UNCHANGED <<tables, call, loaded, draft, tx>>
           /\ pc[r] = "award" /\ pc'[r] \in {"grant", "session_flush"}
           /\ entity'[r].owner = entity[r].owner /\ entity'[r].status = entity[r].status
           /\ entity'[r].xp = entity[r].xp
           /\ pc'[r] = "grant" => entity'[r].completed = entity[r].completed
           /\ pc'[r] = "session_flush" => Completed(call[r].user)
  <1>1. entity[r] \in SessionRow /\ entity \in [Requests -> SessionRow]
    BY DEF TypeOK
  <1>2. /\ pc[r] = "award"
        /\ UNCHANGED <<tables, sandbox, call, loaded, copy, draft, write, tx>>
    BY DEF AwardXpOnce
  <1>3. PICK b \in BOOLEAN : b = TRUE
    OBVIOUS
  <1>4. CASE Completed(call[r].user)
    <2>1. /\ entity' = [entity EXCEPT ![r] = [entity[r] EXCEPT !.completed = b]]
          /\ pc' = [pc EXCEPT ![r] = "session_flush"]
      BY <1>3, <1>4 DEF AwardXpOnce, Goto
    <2>2. /\ [entity[r] EXCEPT !.completed = b] \in SessionRow
          /\ [entity[r] EXCEPT !.completed = b].owner = entity[r].owner
          /\ [entity[r] EXCEPT !.completed = b].status = entity[r].status
          /\ [entity[r] EXCEPT !.completed = b].xp = entity[r].xp
      BY <1>1 DEF SessionRow
    <2>3. /\ entity' \in [Requests -> SessionRow]
          /\ entity'[r] = [entity[r] EXCEPT !.completed = b]
      BY <1>1, <2>1, <2>2
    <2>4. pc' \in [Requests -> PCs] /\ pc'[r] = "session_flush"
      BY <2>1 DEF TypeOK, PCs
    <2>5. TypeOK'
      BY <1>2, <2>3, <2>4 DEF TypeOK, tables
    <2>6. QED  BY <1>2, <1>4, <2>2, <2>3, <2>4, <2>5
  <1>5. CASE ~Completed(call[r].user)
    <2>1. UNCHANGED entity /\ pc' = [pc EXCEPT ![r] = "grant"]
      BY <1>5 DEF AwardXpOnce, Goto
    <2>2. pc' \in [Requests -> PCs] /\ pc'[r] = "grant"
      BY <2>1 DEF TypeOK, PCs
    <2>3. TypeOK'
      BY <1>2, <2>1, <2>2 DEF TypeOK, tables
    <2>4. QED  BY <1>2, <2>1, <2>2, <2>3
  <1>6. QED  BY <1>4, <1>5

LEMMA CompletionEffect ==
    ASSUME TypeOK, NEW r \in Requests, CreateCompletion(r)
    PROVE  /\ TypeOK'
           /\ UNCHANGED <<tables, call, loaded, draft>>
           /\ pc[r] = "grant" /\ pc'[r] = "session_flush"
           /\ tx'[r].granted /\ tx'[r].opened = tx[r].opened /\ tx'[r].cols = tx[r].cols
           /\ tx'[r].verified = tx[r].verified
           /\ entity'[r].owner = entity[r].owner /\ entity'[r].status = entity[r].status
           /\ entity'[r].xp = TRUE
           /\ ~Completed(call[r].user)
           /\ \A q \in Requests \ {r} : tx[q].granted => call[q].user # call[r].user
  <1>1. entity[r] \in SessionRow /\ entity \in [Requests -> SessionRow]
    BY DEF TypeOK
  <1>2. tx[r] \in Transaction /\ tx \in [Requests -> Transaction]
    BY DEF TypeOK
  <1>3. PICK b \in BOOLEAN : b = TRUE
    OBVIOUS
  <1>4. /\ pc[r] = "grant" /\ ~Waits(r) /\ ~Completed(call[r].user)
        /\ tx' = [tx EXCEPT ![r] = [tx[r] EXCEPT !.granted = b]]
        /\ pc' = [pc EXCEPT ![r] = "session_flush"]
        /\ UNCHANGED <<tables, sandbox, call, loaded, copy, draft, write>>
    BY <1>3 DEF CreateCompletion, Goto
  <1>5. /\ [tx[r] EXCEPT !.granted = b] \in Transaction
        /\ [tx[r] EXCEPT !.granted = b].granted = b
        /\ [tx[r] EXCEPT !.granted = b].opened = tx[r].opened
        /\ [tx[r] EXCEPT !.granted = b].cols = tx[r].cols
        /\ [tx[r] EXCEPT !.granted = b].verified = tx[r].verified
    BY <1>2 DEF Transaction
  <1>6. tx' \in [Requests -> Transaction] /\ tx'[r] = [tx[r] EXCEPT !.granted = b]
    BY <1>2, <1>4, <1>5
  <1>7. entity' = [[entity EXCEPT ![r].completed = b] EXCEPT ![r].xp = b]
    BY <1>3 DEF CreateCompletion
  <1>8. PICK e \in SessionRow : e = [entity[r] EXCEPT !.completed = b]
                                /\ e.owner = entity[r].owner /\ e.status = entity[r].status
    <2>1. /\ [entity[r] EXCEPT !.completed = b] \in SessionRow
          /\ [entity[r] EXCEPT !.completed = b].owner = entity[r].owner
          /\ [entity[r] EXCEPT !.completed = b].status = entity[r].status
      BY <1>1 DEF SessionRow
    <2>2. QED  BY <2>1
  <1>9. PICK f \in SessionRow : f = [e EXCEPT !.xp = b]
                                /\ f.owner = e.owner /\ f.status = e.status /\ f.xp = b
    <2>1. /\ [e EXCEPT !.xp = b] \in SessionRow
          /\ [e EXCEPT !.xp = b].owner = e.owner
          /\ [e EXCEPT !.xp = b].status = e.status
          /\ [e EXCEPT !.xp = b].xp = b
      BY <1>8 DEF SessionRow
    <2>2. QED  BY <2>1
  <1>10. entity' = [entity EXCEPT ![r] = f]
    <2>1. [entity EXCEPT ![r].completed = b] = [entity EXCEPT ![r] = e]
      BY <1>8
    <2>2. [entity EXCEPT ![r] = e][r] = e
      BY <1>1
    <2>3. [[entity EXCEPT ![r] = e] EXCEPT ![r].xp = b] = [entity EXCEPT ![r] = f]
      BY <1>1, <1>9, <2>2
    <2>4. QED  BY <1>7, <2>1, <2>3
  <1>11. entity' \in [Requests -> SessionRow] /\ entity'[r] = f
    BY <1>1, <1>10
  <1>12. pc' \in [Requests -> PCs] /\ pc'[r] = "session_flush"
    BY <1>4 DEF TypeOK, PCs
  <1>13. TypeOK'
    BY <1>4, <1>6, <1>11, <1>12 DEF TypeOK, tables
  <1>14. \A q \in Requests \ {r} : tx[q].granted => call[q].user # call[r].user
    BY <1>4 DEF Waits, WaitsFor, GrantWaits
  <1>15. QED  BY <1>3, <1>4, <1>5, <1>6, <1>8, <1>9, <1>11, <1>12, <1>13, <1>14

LEMMA UpsertEffect ==
    ASSUME TypeOK, NEW r \in Requests, call[r].session \in SessionIds, UpsertReport(r)
    PROVE  /\ TypeOK'
           /\ UNCHANGED <<tables, call, loaded, entity, draft, tx>>
           /\ pc[r] = "upsert" /\ pc'[r] \in {"report_flush", "commit"}
  <1>1. reports[call[r].session] \in ReportRow /\ CurrentReport(r).id \in ReportIds \cup {0}
    BY DEF TypeOK, CurrentReport, ReportRow
  <1>2. /\ pc[r] = "upsert"
        /\ copy' = [copy EXCEPT ![r] = NoReport]
        /\ UNCHANGED <<tables, sandbox, call, loaded, entity, draft, tx>>
    BY DEF UpsertReport
  <1>3. write' \in [Requests -> Statement]
    <2>1. \A i \in ReportIds, k \in {"insert", "update"}, c \in SUBSET ReportCols :
             [kind |-> k, id |-> i, cols |-> c] \in Statement
      BY DEF Statement
    <2>2. SentCols(r) \in SUBSET (SUBSET ReportCols)
      BY DEF SentCols, ReportDirty, ReportCols
    <2>3. CASE CurrentReport(r).id = 0
      <3>1. PICK i \in ReportIds :
               write' = [write EXCEPT ![r] = [kind |-> "insert", id |-> i, cols |-> ReportCols]]
        BY <2>3 DEF UpsertReport
      <3>2. [kind |-> "insert", id |-> i, cols |-> ReportCols] \in Statement
        BY <2>1
      <3>3. QED  BY <3>1, <3>2 DEF TypeOK
    <2>4. CASE CurrentReport(r).id # 0
      <3>1. PICK cols \in SentCols(r) :
               \/ UNCHANGED write
               \/ write' = [write EXCEPT ![r] =
                               [kind |-> "update", id |-> CurrentReport(r).id, cols |-> cols]]
        BY <2>4 DEF UpsertReport
      <3>2. [kind |-> "update", id |-> CurrentReport(r).id, cols |-> cols] \in Statement
        BY <1>1, <2>1, <2>2, <2>4
      <3>3. QED  BY <3>1, <3>2 DEF TypeOK
    <2>5. QED  BY <2>3, <2>4
  <1>4. pc' \in [Requests -> PCs] /\ pc'[r] \in {"report_flush", "commit"}
    BY DEF UpsertReport, Goto, TypeOK, PCs
  <1>5. TypeOK'
    BY <1>2, <1>3, <1>4, EmptyRows DEF TypeOK, tables
  <1>6. QED  BY <1>2, <1>4, <1>5

LEMMA FlushReportEffect ==
    ASSUME TypeOK, NEW r \in Requests, FlushReport(r)
    PROVE  /\ TypeOK'
           /\ UNCHANGED <<tables, call, loaded, entity, draft>>
           /\ pc[r] = "report_flush" /\ pc'[r] = "commit"
           /\ tx'[r].opened = tx[r].opened /\ tx'[r].cols = tx[r].cols
           /\ tx'[r].granted = tx[r].granted /\ tx'[r].verified = tx[r].verified
  <1>1. tx[r] \in Transaction /\ tx \in [Requests -> Transaction] /\ write[r] \in Statement
    BY DEF TypeOK
  <1>2. /\ tx' = [tx EXCEPT ![r] = [tx[r] EXCEPT !.report = write[r]]]
        /\ write' = [write EXCEPT ![r] = NoStatement]
        /\ pc[r] = "report_flush" /\ pc' = [pc EXCEPT ![r] = "commit"]
        /\ UNCHANGED <<tables, sandbox, call, loaded, entity, copy, draft>>
    BY DEF FlushReport, Goto
  <1>3. /\ [tx[r] EXCEPT !.report = write[r]] \in Transaction
        /\ [tx[r] EXCEPT !.report = write[r]].opened = tx[r].opened
        /\ [tx[r] EXCEPT !.report = write[r]].cols = tx[r].cols
        /\ [tx[r] EXCEPT !.report = write[r]].granted = tx[r].granted
        /\ [tx[r] EXCEPT !.report = write[r]].verified = tx[r].verified
    BY <1>1 DEF Transaction
  <1>4. tx' \in [Requests -> Transaction] /\ tx'[r] = [tx[r] EXCEPT !.report = write[r]]
    BY <1>1, <1>2, <1>3
  <1>5. pc' \in [Requests -> PCs] /\ pc'[r] = "commit"
    BY <1>2 DEF TypeOK, PCs
  <1>6. TypeOK'
    BY <1>2, <1>4, <1>5, EmptyRows DEF TypeOK, tables
  <1>7. QED  BY <1>2, <1>3, <1>4, <1>5, <1>6

\* ResetRuntime and ClearRuns.
LEMMA WipeEffect ==
    ASSUME TypeOK, NEW r \in Requests, ResetRuntime(r) \/ ClearRuns(r)
    PROVE  /\ TypeOK'
           /\ UNCHANGED <<tables, call, loaded, entity, draft, tx>>
           /\ pc[r] \in {"wipe", "clear"} /\ pc'[r] \in {"clear", "clear_report"}
  <1>1. /\ pc[r] \in {"wipe", "clear"}
        /\ pc' \in [Requests -> PCs] /\ pc'[r] \in {"clear", "clear_report"}
        /\ UNCHANGED <<tables, call, loaded, entity, copy, draft, write, tx>>
    BY DEF ResetRuntime, ClearRuns, Goto, TypeOK, PCs
  <1>2. sandbox' \in [SessionIds -> {"clean", "drained"}]
    BY DEF ResetRuntime, ClearRuns, TypeOK
  <1>3. TypeOK'
    BY <1>1, <1>2 DEF TypeOK, tables
  <1>4. QED  BY <1>1, <1>3

LEMMA ClearReportEffect ==
    ASSUME TypeOK, NEW r \in Requests, call[r].session \in SessionIds, ClearReport(r)
    PROVE  /\ TypeOK'
           /\ UNCHANGED <<tables, call, loaded, draft>>
           /\ pc[r] = "clear_report" /\ pc'[r] = "session_flush"
           /\ tx'[r].opened = tx[r].opened /\ tx'[r].cols = tx[r].cols
           /\ tx'[r].granted = tx[r].granted /\ tx'[r].verified = tx[r].verified
           /\ entity'[r].owner = entity[r].owner /\ entity'[r].status = "active"
           /\ entity'[r].completed = FALSE /\ entity'[r].xp = entity[r].xp
  <1>1. /\ tx[r] \in Transaction /\ tx \in [Requests -> Transaction]
        /\ entity[r] \in SessionRow /\ entity \in [Requests -> SessionRow]
        /\ CurrentReport(r).id \in ReportIds \cup {0}
    BY DEF TypeOK, CurrentReport, ReportRow
  <1>2. PICK b \in BOOLEAN : b = FALSE
    OBVIOUS
  <1>3. /\ tx' = [tx EXCEPT ![r] = [tx[r] EXCEPT !.doomed = CurrentReport(r).id]]
        /\ entity' = [entity EXCEPT ![r] =
               [entity[r] EXCEPT !.status = "active", !.tried = b, !.completed = b]]
        /\ pc[r] = "clear_report" /\ pc' = [pc EXCEPT ![r] = "session_flush"]
        /\ UNCHANGED <<tables, sandbox, call, loaded, copy, draft, write>>
    BY <1>2 DEF ClearReport, Goto
  <1>4. /\ [tx[r] EXCEPT !.doomed = CurrentReport(r).id] \in Transaction
        /\ [tx[r] EXCEPT !.doomed = CurrentReport(r).id].opened = tx[r].opened
        /\ [tx[r] EXCEPT !.doomed = CurrentReport(r).id].cols = tx[r].cols
        /\ [tx[r] EXCEPT !.doomed = CurrentReport(r).id].granted = tx[r].granted
        /\ [tx[r] EXCEPT !.doomed = CurrentReport(r).id].verified = tx[r].verified
    BY <1>1 DEF Transaction
  <1>5. /\ tx' \in [Requests -> Transaction]
        /\ tx'[r] = [tx[r] EXCEPT !.doomed = CurrentReport(r).id]
    BY <1>1, <1>3, <1>4
  <1>6. PICK e \in SessionRow :
           /\ e = [entity[r] EXCEPT !.status = "active", !.tried = b, !.completed = b]
           /\ e.owner = entity[r].owner /\ e.status = "active"
           /\ e.completed = b /\ e.xp = entity[r].xp
    <2>1. /\ [entity[r] EXCEPT !.status = "active", !.tried = b, !.completed = b] \in SessionRow
          /\ [entity[r] EXCEPT !.status = "active", !.tried = b, !.completed = b].owner = entity[r].owner
          /\ [entity[r] EXCEPT !.status = "active", !.tried = b, !.completed = b].status = "active"
          /\ [entity[r] EXCEPT !.status = "active", !.tried = b, !.completed = b].completed = b
          /\ [entity[r] EXCEPT !.status = "active", !.tried = b, !.completed = b].xp = entity[r].xp
      BY <1>1 DEF SessionRow
    <2>2. QED  BY <2>1
  <1>7. entity' \in [Requests -> SessionRow] /\ entity'[r] = e
    BY <1>1, <1>3, <1>6
  <1>8. pc' \in [Requests -> PCs] /\ pc'[r] = "session_flush"
    BY <1>3 DEF TypeOK, PCs
  <1>9. TypeOK'
    BY <1>3, <1>5, <1>7, <1>8 DEF TypeOK, tables
  <1>10. QED  BY <1>2, <1>3, <1>4, <1>5, <1>6, <1>7, <1>8, <1>9

LEMMA FlushSessionEffect ==
    ASSUME TypeOK, NEW r \in Requests, FlushSession(r), loaded[r].owner = entity[r].owner
    PROVE  /\ TypeOK'
           /\ UNCHANGED <<tables, call, draft>>
           /\ pc[r] = "session_flush" /\ pc'[r] \in {"upsert", "commit"}
           /\ tx'[r].opened = tx[r].opened
           /\ tx'[r].granted = tx[r].granted /\ tx'[r].verified = tx[r].verified
           /\ \A c \in {"status", "completed", "xp"} :
                 c \in tx'[r].cols => entity'[r][c] = entity[r][c]
           /\ "status" \in tx'[r].cols <=> entity[r].status # loaded[r].status
           /\ "xp" \in tx'[r].cols <=> entity[r].xp # loaded[r].xp
  <1>1. /\ tx[r] \in Transaction /\ tx \in [Requests -> Transaction]
        /\ entity[r] \in SessionRow /\ entity \in [Requests -> SessionRow]
        /\ loaded[r] \in SessionRow
    BY DEF TypeOK
  <1>2. PICK c \in SUBSET SessionCols :
           /\ c = SessionDirty(r)
           /\ "status" \in c <=> entity[r].status # loaded[r].status
           /\ "xp" \in c <=> entity[r].xp # loaded[r].xp
    <2>1. Changed(loaded[r], entity[r]) \in SUBSET SessionCols
      BY <1>1, ChangedSession
    <2>2. "completed" \in SessionCols
      BY DEF SessionCols
    <2>3. SessionDirty(r) \in SUBSET SessionCols
      BY <2>1, <2>2 DEF SessionDirty
    <2>4. /\ "status" \in SessionDirty(r) <=> entity[r].status # loaded[r].status
          /\ "xp" \in SessionDirty(r) <=> entity[r].xp # loaded[r].xp
      BY <1>1, ChangedSession DEF SessionDirty
    <2>5. QED  BY <2>3, <2>4
  <1>3. /\ tx' = [tx EXCEPT ![r] = [tx[r] EXCEPT !.cols = c]]
        /\ entity' = [entity EXCEPT ![r] = Merged(NoSession, entity[r], c)]
        /\ loaded' = [loaded EXCEPT ![r] = NoSession]
        /\ pc[r] = "session_flush"
        /\ pc' = [pc EXCEPT ![r] = IF call[r].op = "submit" THEN "upsert" ELSE "commit"]
        /\ UNCHANGED <<tables, sandbox, call, copy, draft, write>>
    BY <1>2 DEF FlushSession, Goto
  <1>4. /\ [tx[r] EXCEPT !.cols = c] \in Transaction
        /\ [tx[r] EXCEPT !.cols = c].cols = c
        /\ [tx[r] EXCEPT !.cols = c].opened = tx[r].opened
        /\ [tx[r] EXCEPT !.cols = c].granted = tx[r].granted
        /\ [tx[r] EXCEPT !.cols = c].verified = tx[r].verified
    BY <1>1, <1>2 DEF Transaction
  <1>5. tx' \in [Requests -> Transaction] /\ tx'[r] = [tx[r] EXCEPT !.cols = c]
    BY <1>1, <1>3, <1>4
  <1>6. PICK e \in SessionRow :
           /\ e = Merged(NoSession, entity[r], c)
           /\ "status" \in c => e.status = entity[r].status
           /\ "completed" \in c => e.completed = entity[r].completed
           /\ "xp" \in c => e.xp = entity[r].xp
    BY <1>1, EmptyRows, MergedSession
  <1>7. entity' \in [Requests -> SessionRow] /\ entity'[r] = e
    BY <1>1, <1>3, <1>6
  <1>8. pc' \in [Requests -> PCs] /\ pc'[r] \in {"upsert", "commit"}
    BY <1>3 DEF TypeOK, PCs
  <1>9. loaded' \in [Requests -> SessionRow]
    BY <1>3, EmptyRows DEF TypeOK
  <1>10. TypeOK'
    BY <1>3, <1>5, <1>7, <1>8, <1>9 DEF TypeOK, tables
  <1>11. \A k \in {"status", "completed", "xp"} :
            k \in tx'[r].cols => entity'[r][k] = entity[r][k]
    BY <1>4, <1>5, <1>6, <1>7
  <1>12. QED  BY <1>2, <1>3, <1>4, <1>5, <1>8, <1>10, <1>11

-----------------------------------------------------------------------------
(* Type correctness. *)

\* What a commit does to the tables.
LEMMA CommitEffect ==
    ASSUME TypeInv, NEW r \in Requests, Commit(r)
    PROVE  /\ TypeOK' /\ Close(r)
           /\ pc[r] = "commit"
           /\ call[r].session \in SessionIds /\ call[r].user \in Users
           /\ \A t \in SessionIds \ {call[r].session} :
                 sessions'[t] = sessions[t] /\ reports'[t] = reports[t]
           /\ tx[r].opened => sessions'[call[r].session] = NewSession(call[r].user)
           /\ ~tx[r].opened =>
                 sessions'[call[r].session] =
                     Merged(sessions[call[r].session], entity[r], tx[r].cols)
           /\ reports'[call[r].session].status = "accepted" =>
                 reports[call[r].session].status = "accepted" \/ draft[r].status = "accepted"
           /\ completions' = completions \cup
                 (IF tx[r].granted THEN {<<call[r].user, call[r].session>>} ELSE {})
  <1>0. /\ TypeOK /\ CallOK(r) /\ pc[r] = "commit" /\ Close(r)
        /\ UNCHANGED sandbox
    BY DEF TypeInv, Commit
  <1>1. call[r].session \in SessionIds /\ call[r].user \in Users
    BY <1>0 DEF CallOK
  <1>2. PICK s \in SessionIds : s = call[r].session
    BY <1>1
  <1>3. /\ sessions[s] \in SessionRow /\ reports[s] \in ReportRow /\ entity[r] \in SessionRow
        /\ tx[r].cols \in SUBSET SessionCols
    BY <1>0 DEF TypeOK, Transaction
  <1>4. /\ sessions' = [sessions EXCEPT ![s] =
               IF tx[r].opened THEN entity[r] ELSE Merged(sessions[s], entity[r], tx[r].cols)]
        /\ reports' = [reports EXCEPT ![s] = ReportAfter(r, reports[s])]
        /\ completions' = completions \cup
               (IF tx[r].granted THEN {<<call[r].user, s>>} ELSE {})
    BY <1>2 DEF Commit
  <1>5. Merged(sessions[s], entity[r], tx[r].cols) \in SessionRow
    BY <1>3, MergedSession
  <1>6. /\ sessions' \in [SessionIds -> SessionRow]
        /\ sessions'[s] = IF tx[r].opened THEN entity[r]
                          ELSE Merged(sessions[s], entity[r], tx[r].cols)
        /\ \A t \in SessionIds \ {s} : sessions'[t] = sessions[t]
    BY <1>0, <1>3, <1>4, <1>5 DEF TypeOK
  <1>7. /\ reports' \in [SessionIds -> ReportRow]
        /\ reports'[s] = ReportAfter(r, reports[s])
        /\ \A t \in SessionIds \ {s} : reports'[t] = reports[t]
    BY <1>0, <1>3, <1>4, ReportAfterTyped DEF TypeOK
  <1>8. completions' \in SUBSET (Users \X SessionIds)
    BY <1>0, <1>1, <1>4 DEF TypeOK
  <1>9. TypeOK'
    BY <1>0, <1>6, <1>7, <1>8, CloseEffect DEF TypeOK
  <1>10. tx[r].opened => entity[r] = NewSession(call[r].user)
    BY <1>0 DEF CallOK
  <1>11. reports'[s].status = "accepted" =>
            reports[s].status = "accepted" \/ draft[r].status = "accepted"
    BY <1>0, <1>3, <1>7, ReportAfterTyped
  <1>12. QED  BY <1>0, <1>1, <1>2, <1>4, <1>6, <1>7, <1>9, <1>10, <1>11

\* A session on record stays there, with its owner; one that is not stays away
\* from everybody but the request that creates it.
LEMMA RowsKept ==
    ASSUME TypeInv, NEW r \in Requests, Step(r)
    PROVE  /\ \A s \in SessionIds : RowOK(s)'
           /\ \A s \in SessionIds : Exists(s) =>
                 Exists(s)' /\ sessions'[s].owner = sessions[s].owner
           /\ \A s \in SessionIds : ~Exists(s) /\ Exists(s)' =>
                 tx[r].opened /\ call[r].session = s /\ Commit(r)
  <1>1. CASE UNCHANGED tables
    BY <1>1 DEF tables, TypeInv, RowOK, Exists
  <1>2. CASE Commit(r)
    <2>1. /\ CallOK(r) /\ MemoryOK(r) /\ TypeOK /\ \A s \in SessionIds : RowOK(s)
      BY DEF TypeInv
    <2>2. \A t \in SessionIds \ {call[r].session} : sessions'[t] = sessions[t]
      BY <1>2, CommitEffect
    <2>3. call[r].session \in SessionIds /\ call[r].user \in Users /\ pc[r] = "commit"
      BY <1>2, CommitEffect
    <2>4. CASE tx[r].opened
      <3>1. sessions'[call[r].session] = NewSession(call[r].user) /\ ~Exists(call[r].session)
        BY <1>2, <2>1, <2>4, CommitEffect DEF CallOK
      <3>2. /\ sessions'[call[r].session].owner = call[r].user
            /\ sessions'[call[r].session].status = "active"
        BY <2>3, <3>1, NewSessionTyped
      <3>3. QED  BY <1>2, <2>1, <2>2, <2>3, <2>4, <3>1, <3>2 DEF RowOK, Exists
    <2>5. CASE ~tx[r].opened
      <3>1. Exists(call[r].session)
        BY <2>1, <2>3, <2>5 DEF CallOK
      <3>2. sessions'[call[r].session]
               = Merged(sessions[call[r].session], entity[r], tx[r].cols)
        BY <1>2, <2>5, CommitEffect
      <3>3. /\ sessions[call[r].session] \in SessionRow /\ entity[r] \in SessionRow
            /\ tx[r].cols \in SUBSET SessionCols
        BY <2>1, <2>3 DEF TypeOK, Transaction
      <3>4. /\ sessions'[call[r].session].owner = sessions[call[r].session].owner
            /\ sessions'[call[r].session].status = IF "status" \in tx[r].cols
                  THEN entity[r].status ELSE sessions[call[r].session].status
        BY <3>2, <3>3, MergedSession
      <3>5. sessions'[call[r].session].status # "absent"
        BY <2>1, <3>1, <3>4 DEF MemoryOK, Exists
      <3>6. QED  BY <2>1, <2>2, <2>3, <3>1, <3>4, <3>5 DEF RowOK, Exists
    <2>6. QED  BY <2>4, <2>5
  <1>3. QED  BY <1>1, <1>2, OnlyCommitsWrite

LEMMA CloseTyped ==
    ASSUME TypeOK, NEW r \in Requests, Close(r)
    PROVE  IdleOK(r)' /\ CallOK(r)' /\ MemoryOK(r)'
  <1>1. /\ pc'[r] = "idle" /\ call'[r] = NoCall /\ tx'[r] = NoWrites
        /\ entity'[r] = NoSession /\ draft'[r] = NoReport
    BY CloseEffect
  <1>2. QED
    BY <1>1, EmptyRows, EmptyWrites DEF IdleOK, CallOK, MemoryOK, HasLoaded, InMemory

LEMMA ArriveTyped ==
    ASSUME TypeInv, NEW r \in Requests, Arrive(r)
    PROVE  TypeOK' /\ IdleOK(r)' /\ CallOK(r)' /\ MemoryOK(r)'
  <1>0. /\ TypeOK /\ IdleOK(r) /\ CallOK(r) /\ \A s \in SessionIds : RowOK(s)
        /\ pc[r] = "idle"
    BY DEF TypeInv, Arrive, CreateSession, BeginTransact, BeginVerify, BeginDraft, BeginSubmit,
           BeginReset, LoadSession, LoadForDraft
  <1>1. /\ tx[r] = NoWrites /\ ~tx[r].opened /\ tx[r].cols = {}
        /\ draft[r] = NoReport /\ entity[r] = NoSession
    BY <1>0, EmptyWrites DEF IdleOK
  <1>2. ASSUME NEW u \in Users, CreateSession(r, u)
        PROVE  TypeOK' /\ IdleOK(r)' /\ CallOK(r)' /\ MemoryOK(r)'
    <2>1. /\ TypeOK' /\ UNCHANGED <<tables, loaded, draft>>
          /\ pc'[r] = "commit" /\ call'[r].op = "create" /\ call'[r].user = u
          /\ call'[r].session \in SessionIds \ UsedSessionIds
          /\ entity'[r] = NewSession(u)
          /\ tx'[r].opened /\ ~tx'[r].granted /\ tx'[r].cols = {}
      BY <1>0, <1>1, <1>2, CreateEffect
    <2>2. \A q \in Requests \ {r} : tx'[q] = tx[q] /\ call'[q] = call[q]
      BY <1>0, <1>2, OthersUntouched DEF Step, Arrive
    <2>3. ~Exists(call'[r].session)
      BY <2>1 DEF UsedSessionIds, Exists
    <2>4. \A q \in Requests \ {r} : tx[q].opened => call[q].session # call'[r].session
      BY <2>1 DEF UsedSessionIds
    <2>5. CallOK(r)'
      BY <1>1, <2>1, <2>2, <2>3, <2>4 DEF CallOK, Exists, tables
    <2>6. IdleOK(r)' /\ MemoryOK(r)'
      BY <2>1 DEF IdleOK, MemoryOK, HasLoaded, InMemory
    <2>7. QED  BY <2>1, <2>5, <2>6
  <1>3. ASSUME NEW s \in SessionIds, NEW op \in LoadedOps,
               NEW label \in {"execute", "verify", "read_report", "wipe"},
               LoadSession(r, s, op, label)
        PROVE  TypeOK' /\ IdleOK(r)' /\ CallOK(r)' /\ MemoryOK(r)'
    <2>1. /\ TypeOK' /\ UNCHANGED <<tables, draft, tx>>
          /\ pc'[r] = label /\ Exists(s)
          /\ call'[r].op = op /\ call'[r].session = s /\ call'[r].user = sessions[s].owner
          /\ loaded'[r] = sessions[s] /\ entity'[r] = sessions[s]
      BY <1>0, <1>3, LoadEffect
    <2>2. sessions[s].owner \in Users
      BY <1>0, <2>1 DEF RowOK
    <2>3. CallOK(r)'
      BY <1>1, <2>1, <2>2 DEF CallOK, Exists, tables, LoadedOps
    <2>4. IdleOK(r)' /\ MemoryOK(r)'
      BY <1>1, <2>1 DEF IdleOK, MemoryOK, HasLoaded, InMemory, Exists
    <2>5. QED  BY <2>1, <2>3, <2>4
  <1>4. ASSUME NEW s \in SessionIds, BeginDraft(r, s)
        PROVE  TypeOK' /\ IdleOK(r)' /\ CallOK(r)' /\ MemoryOK(r)'
    <2>1. /\ TypeOK' /\ UNCHANGED <<tables, loaded, entity, draft, tx>>
          /\ pc'[r] = "read_report" /\ Exists(s)
          /\ call'[r].op = "draft" /\ call'[r].session = s
          /\ call'[r].user = sessions[s].owner
      BY <1>0, <1>4, LoadForDraftEffect
    <2>2. sessions[s].owner \in Users
      BY <1>0, <2>1 DEF RowOK
    <2>3. CallOK(r)'
      BY <1>1, <2>1, <2>2 DEF CallOK, Exists, tables
    <2>4. IdleOK(r)' /\ MemoryOK(r)'
      BY <1>1, <2>1 DEF IdleOK, MemoryOK, HasLoaded, InMemory
    <2>5. QED  BY <2>1, <2>3, <2>4
  <1>5. QED
    BY <1>2, <1>3, <1>4 DEF Arrive, BeginTransact, BeginVerify, BeginSubmit, BeginReset, LoadedOps

\* Steps that keep the call and change the session in memory, but not its owner.
LEMMA StepInMemory ==
    ASSUME TypeInv, NEW r \in Requests, pc[r] \in InMemory,
           TypeOK', UNCHANGED tables, call' = call, loaded' = loaded,
           pc'[r] \in InMemory \cup {"upsert", "commit"},
           call[r].op = "draft" => pc'[r] \in {"read_report", "upsert", "report_flush", "commit"},
           entity'[r].owner = entity[r].owner,
           entity[r].status = "absent" \/ entity'[r].status # "absent",
           tx'[r].opened = tx[r].opened, tx'[r].cols = tx[r].cols
    PROVE  IdleOK(r)' /\ CallOK(r)' /\ MemoryOK(r)'
  <1>0. CallOK(r) /\ MemoryOK(r) /\ pc[r] # "idle" /\ pc'[r] # "idle"
    BY DEF TypeInv, InMemory
  <1>1. ~tx[r].opened /\ tx[r].cols = {}
    BY <1>0 DEF CallOK, MemoryOK, InMemory
  <1>2. IdleOK(r)'
    BY <1>0 DEF IdleOK
  <1>3. CallOK(r)'
    BY <1>0, <1>1 DEF CallOK, Exists, tables
  <1>4. HasLoaded(r)' => HasLoaded(r)
    BY DEF HasLoaded
  <1>5. MemoryOK(r)'
    BY <1>0, <1>1, <1>4 DEF MemoryOK, HasLoaded
  <1>6. QED  BY <1>2, <1>3, <1>5

\* Steps after the session is flushed: those of the report.
LEMMA StepOfReport ==
    ASSUME TypeInv, NEW r \in Requests, pc[r] \in {"upsert", "report_flush"},
           TypeOK', UNCHANGED tables, call' = call, entity' = entity,
           pc'[r] \in {"report_flush", "commit"},
           tx'[r].opened = tx[r].opened, tx'[r].cols = tx[r].cols
    PROVE  IdleOK(r)' /\ CallOK(r)' /\ MemoryOK(r)'
  <1>0. CallOK(r) /\ MemoryOK(r)
    BY DEF TypeInv
  <1>1. ~tx[r].opened
    BY <1>0 DEF CallOK
  <1>2. IdleOK(r)' /\ CallOK(r)'
    BY <1>0, <1>1 DEF IdleOK, CallOK, Exists, tables
  <1>3. MemoryOK(r)'
    BY <1>0 DEF MemoryOK, HasLoaded, InMemory
  <1>4. QED  BY <1>2, <1>3

LEMMA ProceedTyped ==
    ASSUME TypeInv, NEW r \in Requests, Proceed(r)
    PROVE  TypeOK' /\ IdleOK(r)' /\ CallOK(r)' /\ MemoryOK(r)'
  <1>0. TypeOK /\ CallOK(r) /\ MemoryOK(r)
    BY DEF TypeInv
  <1>a. pc[r] # "idle"
    BY DEF Proceed, ExecuteTransaction, VerifyObjective, SaveReportDraft, SubmitReport,
           AwardXpOnce, CreateCompletion, UpsertReport, FlushReport, RefuseDraft, IntegrityError,
           ResetRuntime, ClearRuns, ClearReport, FlushSession, Commit
  <1>b. call[r].session \in SessionIds
    BY <1>0, <1>a DEF CallOK
  <1>c. call[r].op = "draft" =>
           pc[r] \in {"read_report", "upsert", "report_flush", "commit"}
    BY <1>0 DEF CallOK
  <1>1. CASE ExecuteTransaction(r)
    BY <1>0, <1>b, <1>c, <1>1, ExecuteEffect, StepInMemory DEF InMemory
  <1>2. CASE VerifyObjective(r)
    BY <1>0, <1>c, <1>2, VerifyEffect, StepInMemory DEF InMemory
  <1>3. CASE SaveReportDraft(r) \/ SubmitReport(r)
    BY <1>0, <1>b, <1>c, <1>3, ReadReportEffect, StepInMemory DEF InMemory
  <1>4. CASE AwardXpOnce(r)
    BY <1>0, <1>c, <1>4, AwardEffect, StepInMemory DEF InMemory
  <1>5. CASE CreateCompletion(r)
    BY <1>0, <1>c, <1>5, CompletionEffect, StepInMemory DEF InMemory
  <1>6. CASE UpsertReport(r)
    BY <1>0, <1>b, <1>6, UpsertEffect, StepOfReport
  <1>7. CASE FlushReport(r)
    BY <1>0, <1>7, FlushReportEffect, StepOfReport
  <1>8. CASE IntegrityError(r) \/ RefuseDraft(r)
    <2>1. Close(r) /\ UNCHANGED <<tables, sandbox>>
      BY <1>8 DEF IntegrityError, RefuseDraft
    <2>2. TypeOK'
      BY <1>0, <2>1, CloseEffect DEF TypeOK, tables
    <2>3. QED  BY <1>0, <2>1, <2>2, CloseTyped
  <1>9. CASE ResetRuntime(r) \/ ClearRuns(r)
    BY <1>0, <1>c, <1>9, WipeEffect, StepInMemory DEF InMemory
  <1>10. CASE ClearReport(r)
    BY <1>0, <1>b, <1>c, <1>10, ClearReportEffect, StepInMemory DEF InMemory
  <1>11. CASE FlushSession(r)
    <2>1. HasLoaded(r) /\ pc[r] = "session_flush"
      BY <1>c, <1>11 DEF FlushSession, HasLoaded, InMemory
    <2>2. loaded[r].owner = entity[r].owner /\ entity[r].status # "absent"
      BY <1>0, <2>1 DEF MemoryOK
    <2>3. /\ TypeOK' /\ UNCHANGED <<tables, call, draft>>
          /\ pc'[r] \in {"upsert", "commit"} /\ tx'[r].opened = tx[r].opened
          /\ "status" \in tx'[r].cols => entity'[r].status = entity[r].status
      BY <1>0, <1>11, <2>2, FlushSessionEffect
    <2>4. ~tx[r].opened
      BY <1>0, <2>1 DEF CallOK
    <2>5. IdleOK(r)' /\ CallOK(r)'
      BY <1>0, <2>1, <2>3, <2>4 DEF IdleOK, CallOK, Exists, tables
    <2>6. MemoryOK(r)'
      BY <2>2, <2>3 DEF MemoryOK, HasLoaded, InMemory
    <2>7. QED  BY <2>3, <2>5, <2>6
  <1>12. CASE Commit(r)
    BY <1>0, <1>12, CommitEffect, CloseTyped
  <1>13. QED
    BY <1>1, <1>2, <1>3, <1>4, <1>5, <1>6, <1>7, <1>8, <1>9, <1>10, <1>11, <1>12 DEF Proceed

LEMMA StepTyped ==
    ASSUME TypeInv, NEW r \in Requests, Step(r)
    PROVE  TypeInv'
  <1>0. TypeOK
    BY DEF TypeInv
  <1>1. TypeOK' /\ IdleOK(r)' /\ CallOK(r)' /\ MemoryOK(r)'
    <2>1. CASE Abort(r)
      <3>1. Close(r) /\ UNCHANGED <<tables, sandbox>>
        BY <2>1 DEF Abort
      <3>2. TypeOK'
        BY <1>0, <3>1, CloseEffect DEF TypeOK, tables
      <3>3. QED  BY <1>0, <3>1, <3>2, CloseTyped
    <2>2. QED  BY <2>1, ArriveTyped, ProceedTyped DEF Step
  <1>2. ASSUME NEW q \in Requests \ {r}
        PROVE  IdleOK(q)' /\ CallOK(q)' /\ MemoryOK(q)'
    <2>1. /\ pc'[q] = pc[q] /\ call'[q] = call[q] /\ tx'[q] = tx[q]
          /\ loaded'[q] = loaded[q] /\ entity'[q] = entity[q] /\ draft'[q] = draft[q]
      BY <1>0, OthersUntouched
    <2>2. IdleOK(q) /\ CallOK(q) /\ MemoryOK(q) /\ CallOK(r)
      BY DEF TypeInv
    <2>3. IdleOK(q)' /\ MemoryOK(q)'
      BY <2>1, <2>2 DEF IdleOK, MemoryOK, HasLoaded
    <2>4. CASE tx[q].opened
      <3>1. pc[q] = "commit" /\ call[q].session \in SessionIds /\ ~Exists(call[q].session)
        BY <2>2, <2>4 DEF CallOK
      <3>2. ~Exists(call[q].session)'
        BY <2>2, <2>4, <3>1, RowsKept, <2>1 DEF CallOK
      <3>3. ASSUME NEW p \in Requests \ {q}, tx'[p].opened
            PROVE  call'[p].session # call[q].session
        <4>1. CASE p = r
          BY <1>1, <2>1, <2>4, <3>3, <4>1 DEF CallOK
        <4>2. CASE p # r
          BY <1>0, <2>2, <2>4, <3>3, <4>2, OthersUntouched DEF CallOK
        <4>3. QED  BY <4>1, <4>2
      <3>4. QED  BY <2>1, <2>2, <2>3, <2>4, <3>1, <3>2, <3>3 DEF CallOK
    <2>5. CASE ~tx[q].opened
      <3>1. pc[q] # "idle" =>
               /\ Exists(call[q].session)'
               /\ sessions'[call[q].session].owner = sessions[call[q].session].owner
        <4>1. pc[q] # "idle" => call[q].session \in SessionIds /\ Exists(call[q].session)
          BY <2>2, <2>5 DEF CallOK
        <4>2. \A s \in SessionIds : Exists(s) =>
                 Exists(s)' /\ sessions'[s].owner = sessions[s].owner
          BY RowsKept
        <4>3. QED  BY <2>1, <4>1, <4>2
      <3>2. CallOK(q)'
        BY <2>1, <2>2, <2>5, <3>1 DEF CallOK
      <3>3. QED  BY <2>3, <3>2
    <2>6. QED  BY <2>4, <2>5
  <1>3. QED  BY <1>1, <1>2, RowsKept DEF TypeInv

LEMMA InitTyped == Init => TypeInv
  <1> SUFFICES ASSUME Init PROVE TypeInv
    OBVIOUS
  <1>1. TypeOK
    BY EmptyRows, EmptyWrites DEF Init, TypeOK, PCs
  <1>2. \A s \in SessionIds : RowOK(s)
    BY EmptyRows DEF Init, RowOK, Exists
  <1>3. \A r \in Requests : IdleOK(r) /\ CallOK(r) /\ MemoryOK(r)
    BY EmptyRows, EmptyWrites DEF Init, IdleOK, CallOK, MemoryOK, HasLoaded, InMemory
  <1>4. QED  BY <1>1, <1>2, <1>3 DEF TypeInv

LEMMA NextTyped == TypeInv /\ [Next]_vars => TypeInv'
  <1> SUFFICES ASSUME TypeInv, [Next]_vars PROVE TypeInv'
    OBVIOUS
  <1>1. ASSUME NEW r \in Requests, Step(r)
        PROVE  TypeInv'
    BY <1>1, StepTyped
  <1>2. CASE UNCHANGED vars
    BY <1>2 DEF vars, tables, locals, TypeInv, TypeOK, RowOK, Exists, IdleOK, CallOK, MemoryOK,
                HasLoaded
  <1>3. QED  BY <1>1, <1>2 DEF Next, Step

\* Every committed row, the state file and every local of a request has its type.
THEOREM TypeCorrect == Spec => []TypeOK
  <1>1. TypeInv => TypeOK
    BY DEF TypeInv
  <1>2. QED  BY <1>1, InitTyped, NextTyped, PTL DEF Spec

-----------------------------------------------------------------------------
(* The reward. *)

\* Completions are only added, by the commit of the request that has one to add.
LEMMA CompletionsGrow ==
    ASSUME TypeInv, NEW r \in Requests, Step(r)
    PROVE  /\ \A u : Completed(u) => Completed(u)'
           /\ \A u : ~Completed(u) /\ Completed(u)' => tx[r].granted /\ u = call[r].user
  <1>1. CASE UNCHANGED tables
    BY <1>1 DEF tables, Completed
  <1>2. CASE Commit(r)
    <2>1. completions' = completions \cup
             (IF tx[r].granted THEN {<<call[r].user, call[r].session>>} ELSE {})
      BY <1>2, CommitEffect
    <2>2. QED  BY <2>1 DEF Completed
  <1>3. QED  BY <1>1, <1>2, OnlyCommitsWrite

LEMMA CloseAwards ==
    ASSUME TypeOK, NEW r \in Requests, Close(r)
    PROVE  GrantOK(r)' /\ AwardOK(r)' /\ StatusOK(r)'
  <1>1. pc'[r] = "idle" /\ tx'[r] = NoWrites /\ draft'[r] = NoReport
    BY CloseEffect
  <1>2. QED
    BY <1>1, EmptyRows, EmptyWrites DEF GrantOK, AwardOK, StatusOK, HasLoaded, InMemory

\* A session on record shows the reward or a completion only for a paid owner.
LEMMA ArriveAwards ==
    ASSUME IInv, NEW r \in Requests, Arrive(r)
    PROVE  GrantOK(r)' /\ AwardOK(r)' /\ StatusOK(r)'
  <1>0. /\ TypeOK /\ IdleOK(r) /\ \A s \in SessionIds : RowOK(s)
        /\ pc[r] = "idle"
    BY DEF IInv, TypeInv, Arrive, CreateSession, BeginTransact, BeginVerify, BeginDraft,
           BeginSubmit, BeginReset, LoadSession, LoadForDraft
  <1>1. /\ tx[r] = NoWrites /\ ~tx[r].granted /\ tx[r].cols = {}
        /\ draft[r].status = "absent"
    BY <1>0, EmptyRows, EmptyWrites DEF IdleOK
  <1>2. ASSUME NEW u \in Users, CreateSession(r, u)
        PROVE  GrantOK(r)' /\ AwardOK(r)' /\ StatusOK(r)'
    <2>1. /\ UNCHANGED <<tables, loaded, draft>> /\ pc'[r] = "commit"
          /\ ~tx'[r].granted /\ tx'[r].cols = {}
      BY <1>0, <1>1, <1>2, CreateEffect
    <2>2. QED  BY <1>1, <2>1 DEF GrantOK, AwardOK, StatusOK, HasLoaded, InMemory
  <1>3. ASSUME NEW s \in SessionIds, NEW op \in LoadedOps,
               NEW label \in {"execute", "verify", "read_report", "wipe"},
               LoadSession(r, s, op, label)
        PROVE  GrantOK(r)' /\ AwardOK(r)' /\ StatusOK(r)'
    <2>1. /\ UNCHANGED <<tables, draft, tx>> /\ pc'[r] = label /\ Exists(s)
          /\ call'[r].op = op /\ call'[r].user = sessions[s].owner
          /\ loaded'[r] = sessions[s] /\ entity'[r] = sessions[s]
      BY <1>0, <1>3, LoadEffect
    <2>2. sessions[s].owner \in Users /\ sessions[s].xp \in BOOLEAN
      BY <1>0, <2>1 DEF RowOK, TypeOK, SessionRow
    <2>3. sessions[s].xp => Completed(sessions[s].owner)
      BY <2>2 DEF IInv, PaidThroughOneSession, Completed
    <2>4. sessions[s].completed => Completed(sessions[s].owner)
      BY DEF IInv, CompletedIsAwarded
    <2>5. Completed(sessions[s].owner) => Completed(call[r].user)'
      BY <2>1 DEF Completed, tables
    <2>6. HasLoaded(r)'
      BY <2>1 DEF HasLoaded, InMemory, LoadedOps
    <2>7. GrantOK(r)' /\ StatusOK(r)'
      BY <1>1, <2>1 DEF GrantOK, StatusOK
    <2>8. AwardOK(r)'
      BY <1>1, <2>1, <2>2, <2>3, <2>4, <2>5, <2>6 DEF AwardOK, Paid
    <2>9. QED  BY <2>7, <2>8
  <1>4. ASSUME NEW s \in SessionIds, BeginDraft(r, s)
        PROVE  GrantOK(r)' /\ AwardOK(r)' /\ StatusOK(r)'
    <2>1. UNCHANGED <<tables, loaded, entity, draft, tx>> /\ call'[r].op = "draft"
      BY <1>0, <1>4, LoadForDraftEffect
    <2>2. QED  BY <1>1, <2>1 DEF GrantOK, AwardOK, StatusOK, HasLoaded
  <1>5. QED
    BY <1>2, <1>3, <1>4 DEF Arrive, BeginTransact, BeginVerify, BeginSubmit, BeginReset, LoadedOps

\* Steps on the session in memory that leave the reward as it is.
LEMMA AwardsInMemory ==
    ASSUME IInv, NEW r \in Requests, pc[r] \in InMemory \ {"award", "grant", "session_flush"},
           call[r].op # "draft" \/ entity' = entity,
           UNCHANGED tables, call' = call, loaded' = loaded,
           pc'[r] \notin {"award", "grant"} /\ draft'[r].status = "accepted" => draft' = draft,
           entity'[r].xp = entity[r].xp, entity'[r].completed => entity[r].completed,
           tx'[r].granted = tx[r].granted, tx'[r].cols = tx[r].cols
    PROVE  GrantOK(r)' /\ AwardOK(r)'
  <1>0. TypeOK /\ GrantOK(r) /\ AwardOK(r) /\ tx[r].cols = {}
    BY DEF IInv, TypeInv, AwardInv, MemoryOK
  <1>1. ~tx[r].granted
    BY <1>0 DEF GrantOK, InMemory
  <1>2. GrantOK(r)'
    BY <1>1 DEF GrantOK
  <1>3. HasLoaded(r)' => HasLoaded(r)
    BY DEF HasLoaded
  <1>4. Completed(call[r].user) <=> Completed(call[r].user)'
    BY DEF Completed, tables
  <1>5. AwardOK(r)'
    BY <1>0, <1>1, <1>3, <1>4 DEF AwardOK, Paid
  <1>6. QED  BY <1>2, <1>5

LEMMA ProceedAwards ==
    ASSUME IInv, NEW r \in Requests, Proceed(r)
    PROVE  GrantOK(r)' /\ AwardOK(r)'
  <1>0. TypeOK /\ CallOK(r) /\ MemoryOK(r) /\ GrantOK(r) /\ AwardOK(r)
    BY DEF IInv, TypeInv, AwardInv
  <1>a. pc[r] # "idle"
    BY DEF Proceed, ExecuteTransaction, VerifyObjective, SaveReportDraft, SubmitReport,
           AwardXpOnce, CreateCompletion, UpsertReport, FlushReport, RefuseDraft, IntegrityError,
           ResetRuntime, ClearRuns, ClearReport, FlushSession, Commit
  <1>b. call[r].session \in SessionIds
    BY <1>0, <1>a DEF CallOK
  <1>c. call[r].op = "draft" =>
           pc[r] \in {"read_report", "upsert", "report_flush", "commit"}
    BY <1>0 DEF CallOK
  <1>1. CASE ExecuteTransaction(r)
    BY <1>0, <1>b, <1>c, <1>1, ExecuteEffect, AwardsInMemory DEF InMemory
  <1>2. CASE VerifyObjective(r)
    BY <1>0, <1>c, <1>2, VerifyEffect, AwardsInMemory DEF InMemory
  <1>3. CASE SaveReportDraft(r) \/ SubmitReport(r)
    BY <1>0, <1>b, <1>c, <1>3, ReadReportEffect, AwardsInMemory DEF InMemory
  <1>4. CASE AwardXpOnce(r)
    <2>1. /\ UNCHANGED <<tables, call, loaded, draft, tx>>
          /\ pc[r] = "award" /\ pc'[r] \in {"grant", "session_flush"}
          /\ entity'[r].xp = entity[r].xp
          /\ pc'[r] = "grant" => entity'[r].completed = entity[r].completed
          /\ pc'[r] = "session_flush" => Completed(call[r].user)
      BY <1>0, <1>4, AwardEffect
    <2>2. ~tx[r].granted /\ tx[r].cols = {} /\ HasLoaded(r)
      BY <1>0, <1>c, <2>1 DEF GrantOK, MemoryOK, HasLoaded, InMemory
    <2>3. Completed(call[r].user) => Completed(call[r].user)'
      BY <2>1 DEF Completed, tables
    <2>4. HasLoaded(r)'
      BY <2>1, <2>2 DEF HasLoaded, InMemory
    <2>5. AwardOK(r)'
      BY <1>0, <2>1, <2>2, <2>3, <2>4 DEF AwardOK, Paid
    <2>6. QED  BY <2>1, <2>2, <2>5 DEF GrantOK
  <1>5. CASE CreateCompletion(r)
    <2>1. /\ UNCHANGED <<tables, call, loaded, draft>>
          /\ pc[r] = "grant" /\ pc'[r] = "session_flush"
          /\ tx'[r].granted /\ tx'[r].cols = tx[r].cols
          /\ entity'[r].xp = TRUE
          /\ ~Completed(call[r].user)
          /\ \A q \in Requests \ {r} : tx[q].granted => call[q].user # call[r].user
      BY <1>0, <1>5, CompletionEffect
    <2>2. tx[r].cols = {} /\ HasLoaded(r)
      BY <1>0, <1>c, <2>1 DEF MemoryOK, HasLoaded, InMemory
    <2>3. Completed(call[r].user) <=> Completed(call[r].user)'
      BY <2>1 DEF Completed, tables
    <2>4. \A q \in Requests \ {r} : tx'[q] = tx[q]
      BY <1>0, <1>5, OthersUntouched DEF Step, Proceed
    <2>5. GrantOK(r)'
      BY <2>1, <2>3, <2>4 DEF GrantOK
    <2>6. HasLoaded(r)' /\ Paid(r)'
      BY <2>1, <2>2 DEF HasLoaded, InMemory, Paid
    <2>7. AwardOK(r)'
      BY <1>0, <2>1, <2>2, <2>3, <2>6 DEF AwardOK
    <2>8. QED  BY <2>5, <2>7
  <1>6. CASE UpsertReport(r) \/ FlushReport(r)
    <2>1. /\ UNCHANGED <<tables, call, loaded, entity, draft>>
          /\ pc[r] \in {"upsert", "report_flush"} /\ pc'[r] \in {"report_flush", "commit"}
          /\ tx'[r].granted = tx[r].granted /\ tx'[r].cols = tx[r].cols
          /\ \A q \in Requests \ {r} : tx'[q] = tx[q]
      BY <1>0, <1>b, <1>6, UpsertEffect, FlushReportEffect, OthersUntouched DEF Step, Proceed
    <2>2. Completed(call[r].user) <=> Completed(call[r].user)'
      BY <2>1 DEF Completed, tables
    <2>3. ~HasLoaded(r) /\ ~HasLoaded(r)'
      BY <2>1 DEF HasLoaded, InMemory
    <2>4. GrantOK(r)'
      BY <1>0, <2>1, <2>2 DEF GrantOK
    <2>5. AwardOK(r)'
      BY <1>0, <2>1, <2>2, <2>3 DEF AwardOK, Paid
    <2>6. QED  BY <2>4, <2>5
  <1>7. CASE IntegrityError(r) \/ RefuseDraft(r) \/ Commit(r)
    BY <1>0, <1>7, CloseAwards DEF IntegrityError, RefuseDraft, Commit
  <1>8. CASE ResetRuntime(r) \/ ClearRuns(r)
    BY <1>0, <1>c, <1>8, WipeEffect, AwardsInMemory DEF InMemory
  <1>9. CASE ClearReport(r)
    BY <1>0, <1>b, <1>c, <1>9, ClearReportEffect, AwardsInMemory DEF InMemory
  <1>10. CASE FlushSession(r)
    <2>1. HasLoaded(r) /\ pc[r] = "session_flush"
      BY <1>c, <1>10 DEF FlushSession, HasLoaded, InMemory
    <2>2. loaded[r].owner = entity[r].owner
      BY <1>0, <2>1 DEF MemoryOK
    <2>3. /\ UNCHANGED <<tables, call, draft>>
          /\ pc'[r] \in {"upsert", "commit"} /\ tx'[r].granted = tx[r].granted
          /\ "completed" \in tx'[r].cols => entity'[r].completed = entity[r].completed
          /\ "xp" \in tx'[r].cols => entity'[r].xp = entity[r].xp
          /\ "xp" \in tx'[r].cols <=> entity[r].xp # loaded[r].xp
      BY <1>0, <1>10, <2>2, FlushSessionEffect
    <2>4. \A q \in Requests \ {r} : tx'[q] = tx[q]
      BY <1>0, <1>10, OthersUntouched DEF Step, Proceed
    <2>5. Completed(call[r].user) <=> Completed(call[r].user)'
      BY <2>3 DEF Completed, tables
    <2>6. GrantOK(r)'
      BY <1>0, <2>3, <2>4, <2>5 DEF GrantOK
    <2>7. ~HasLoaded(r)'
      BY <2>3 DEF HasLoaded, InMemory
    <2>8. /\ entity[r].xp \in BOOLEAN /\ loaded[r].xp \in BOOLEAN /\ tx[r].granted \in BOOLEAN
      BY <1>0 DEF TypeOK, SessionRow, Transaction
    <2>9. tx[r].granted => ~loaded[r].xp
      BY <1>0, <2>1 DEF GrantOK, AwardOK
    <2>10. "xp" \in tx'[r].cols <=> tx[r].granted
      BY <1>0, <2>1, <2>3, <2>8, <2>9 DEF AwardOK
    <2>11. AwardOK(r)'
      BY <1>0, <2>1, <2>3, <2>5, <2>7, <2>8, <2>9, <2>10 DEF AwardOK, Paid
    <2>12. QED  BY <2>6, <2>11
  <1>11. QED
    BY <1>1, <1>2, <1>3, <1>4, <1>5, <1>6, <1>7, <1>8, <1>9, <1>10 DEF Proceed

LEMMA StepAwards ==
    ASSUME IInv, NEW r \in Requests, Step(r)
    PROVE  AwardInv'
  <1>0. TypeOK /\ TypeInv
    BY DEF IInv, TypeInv
  <1>1. GrantOK(r)' /\ AwardOK(r)'
    BY <1>0, ArriveAwards, ProceedAwards, CloseAwards DEF Step, Abort
  <1>2. ASSUME NEW q \in Requests \ {r}
        PROVE  GrantOK(q)' /\ AwardOK(q)'
    <2>1. /\ pc'[q] = pc[q] /\ call'[q] = call[q] /\ tx'[q] = tx[q]
          /\ loaded'[q] = loaded[q] /\ entity'[q] = entity[q] /\ draft'[q] = draft[q]
      BY <1>0, OthersUntouched
    <2>2. GrantOK(q) /\ AwardOK(q)
      BY DEF IInv, AwardInv
    <2>3. Completed(call[q].user) => Completed(call[q].user)'
      BY <1>0, CompletionsGrow, <2>1
    <2>4. AwardOK(q)'
      BY <2>1, <2>2, <2>3 DEF AwardOK, Paid, HasLoaded
    <2>5. SUFFICES ASSUME tx[q].granted PROVE GrantOK(q)'
      BY <2>1, <2>4 DEF GrantOK
    <2>6. ~Completed(call[q].user)'
      <3>1. tx[r].granted => call[r].user # call[q].user
        BY <2>2, <2>5 DEF GrantOK
      <3>2. ~Completed(call[q].user)
        BY <2>2, <2>5 DEF GrantOK
      <3>3. \A u : ~Completed(u) /\ Completed(u)' => tx[r].granted /\ u = call[r].user
        BY <1>0, CompletionsGrow
      <3>4. QED  BY <2>1, <3>1, <3>2, <3>3
    <2>7. ASSUME NEW p \in Requests \ {q}, tx'[p].granted
          PROVE  call'[p].user # call[q].user
      <3>1. CASE p = r
        BY <1>1, <2>1, <2>5, <2>7, <3>1 DEF GrantOK
      <3>2. CASE p # r
        BY <1>0, <2>2, <2>5, <2>7, <3>2, OthersUntouched DEF GrantOK
      <3>3. QED  BY <3>1, <3>2
    <2>8. QED  BY <2>1, <2>2, <2>4, <2>5, <2>6, <2>7 DEF GrantOK
  <1>3. QED  BY <1>1, <1>2 DEF AwardInv

\* What the commit of a request makes of the session and of the completions.
LEMMA CommitAwards ==
    ASSUME IInv, NEW r \in Requests, Commit(r)
    PROVE  /\ sessions'[call[r].session].owner = call[r].user
           /\ ~tx[r].opened => /\ sessions[call[r].session].owner = call[r].user
                               /\ sessions'[call[r].session].xp <=>
                                     sessions[call[r].session].xp \/ tx[r].granted
           /\ tx[r].opened => /\ ~Exists(call[r].session) /\ ~tx[r].granted
                              /\ ~sessions'[call[r].session].xp
           /\ sessions'[call[r].session].completed =>
                 (sessions[call[r].session].completed /\ ~tx[r].opened) \/ Paid(r)
           /\ reports'[call[r].session].status = "accepted" =>
                 reports[call[r].session].status = "accepted" \/ Paid(r)
  <1>0. /\ TypeInv /\ TypeOK /\ CallOK(r) /\ AwardOK(r) /\ GrantOK(r)
        /\ pc[r] = "commit"
    BY DEF IInv, TypeInv, AwardInv, Commit
  <1>1. call[r].session \in SessionIds /\ call[r].user \in Users
    BY <1>0 DEF CallOK
  <1>2. reports'[call[r].session].status = "accepted" =>
           reports[call[r].session].status = "accepted" \/ Paid(r)
    <2>1. draft[r].status = "accepted" => Paid(r)
      BY <1>0 DEF AwardOK
    <2>2. reports'[call[r].session].status = "accepted" =>
             reports[call[r].session].status = "accepted" \/ draft[r].status = "accepted"
      BY <1>0, CommitEffect
    <2>3. QED  BY <2>1, <2>2
  <1>3. CASE tx[r].opened
    <2>1. ~Exists(call[r].session) /\ ~tx[r].granted
      BY <1>0, <1>3 DEF CallOK
    <2>2. sessions'[call[r].session] = NewSession(call[r].user)
      BY <1>0, <1>3, CommitEffect
    <2>3. /\ sessions'[call[r].session].owner = call[r].user
          /\ ~sessions'[call[r].session].completed /\ ~sessions'[call[r].session].xp
      BY <1>1, <2>2, NewSessionTyped
    <2>4. QED  BY <1>2, <1>3, <2>1, <2>3
  <1>4. CASE ~tx[r].opened
    <2>1. sessions[call[r].session].owner = call[r].user
      BY <1>0, <1>4 DEF CallOK
    <2>2. sessions'[call[r].session]
             = Merged(sessions[call[r].session], entity[r], tx[r].cols)
      BY <1>0, <1>4, CommitEffect
    <2>3. /\ sessions[call[r].session] \in SessionRow /\ entity[r] \in SessionRow
          /\ tx[r].cols \in SUBSET SessionCols
      BY <1>0, <1>1 DEF TypeOK, Transaction
    <2>4. /\ sessions'[call[r].session].owner = call[r].user
          /\ sessions'[call[r].session].completed = IF "completed" \in tx[r].cols
                THEN entity[r].completed ELSE sessions[call[r].session].completed
          /\ sessions'[call[r].session].xp = IF "xp" \in tx[r].cols
                THEN entity[r].xp ELSE sessions[call[r].session].xp
      BY <2>1, <2>2, <2>3, MergedSession
    <2>5. /\ "xp" \in tx[r].cols <=> tx[r].granted
          /\ "xp" \in tx[r].cols => entity[r].xp
          /\ "completed" \in tx[r].cols /\ entity[r].completed => Paid(r)
      BY <1>0 DEF AwardOK, HasLoaded, InMemory
    <2>6. sessions'[call[r].session].xp <=> sessions[call[r].session].xp \/ tx[r].granted
      BY <2>4, <2>5
    <2>7. sessions'[call[r].session].completed => sessions[call[r].session].completed \/ Paid(r)
      BY <2>4, <2>5
    <2>8. QED  BY <1>2, <1>4, <2>1, <2>4, <2>6, <2>7
  <1>5. QED  BY <1>3, <1>4

LEMMA StepPaid ==
    ASSUME IInv, NEW r \in Requests, Commit(r)
    PROVE  PaidThroughOneSession'
  <1>0. /\ TypeInv /\ TypeOK /\ GrantOK(r)
        /\ call[r].session \in SessionIds /\ call[r].user \in Users
        /\ \A s \in SessionIds : RowOK(s)
    BY CommitEffect DEF IInv, TypeInv, AwardInv
  <1>1. completions' = completions \cup
           (IF tx[r].granted THEN {<<call[r].user, call[r].session>>} ELSE {})
    BY <1>0, CommitEffect
  <1>2. \A t \in SessionIds \ {call[r].session} : sessions'[t] = sessions[t]
    BY <1>0, CommitEffect
  <1>3. tx[r].granted => \A t \in SessionIds : <<call[r].user, t>> \notin completions
    BY <1>0 DEF GrantOK, Completed
  <1>4. ASSUME NEW u \in Users, NEW s \in SessionIds
        PROVE  <<u, s>> \in completions' <=> sessions'[s].owner = u /\ sessions'[s].xp
    <2>1. <<u, s>> \in completions <=> sessions[s].owner = u /\ sessions[s].xp
      BY DEF IInv, PaidThroughOneSession
    <2>2. CASE s # call[r].session
      BY <1>1, <1>2, <2>1, <2>2
    <2>3. CASE s = call[r].session /\ tx[r].opened
      <3>1. /\ sessions'[s].owner = call[r].user /\ ~sessions'[s].xp
            /\ ~tx[r].granted /\ ~Exists(s)
        BY <2>3, CommitAwards
      <3>2. sessions[s].owner = None
        BY <1>0, <3>1 DEF RowOK
      <3>3. <<u, s>> \notin completions
        BY <2>1, <3>2, OneOwner
      <3>4. QED  BY <1>1, <3>1, <3>3
    <2>4. CASE s = call[r].session /\ ~tx[r].opened
      <3>1. /\ sessions'[s].owner = call[r].user /\ sessions[s].owner = call[r].user
            /\ sessions'[s].xp <=> sessions[s].xp \/ tx[r].granted
        BY <2>4, CommitAwards
      <3>2. QED  BY <1>1, <2>1, <2>4, <3>1
    <2>5. QED  BY <2>2, <2>3, <2>4
  <1>5. ASSUME NEW u \in Users, NEW s \in SessionIds, NEW t \in SessionIds,
               <<u, s>> \in completions', <<u, t>> \in completions'
        PROVE  t = s
    <2>1. CASE tx[r].granted /\ u = call[r].user
      BY <1>1, <1>3, <1>5, <2>1
    <2>2. CASE ~(tx[r].granted /\ u = call[r].user)
      BY <1>1, <1>5, <2>2 DEF IInv, PaidThroughOneSession
    <2>3. QED  BY <2>1, <2>2
  <1>6. QED  BY <1>4, <1>5 DEF PaidThroughOneSession

LEMMA StepCompleted ==
    ASSUME IInv, NEW r \in Requests, Commit(r)
    PROVE  CompletedIsAwarded'
  <1>0. /\ TypeInv /\ TypeOK
        /\ call[r].session \in SessionIds /\ call[r].user \in Users
        /\ \A s \in SessionIds : RowOK(s)
    BY CommitEffect DEF IInv, TypeInv
  <1>1. /\ Step(r)
        /\ \A t \in SessionIds \ {call[r].session} :
              sessions'[t] = sessions[t] /\ reports'[t] = reports[t]
        /\ completions' = completions \cup
              (IF tx[r].granted THEN {<<call[r].user, call[r].session>>} ELSE {})
    BY <1>0, CommitEffect DEF Step, Proceed
  <1>2. \A u : Completed(u) => \E t \in SessionIds : <<u, t>> \in completions'
    BY <1>1 DEF Completed
  <1>3. Paid(r) => \E t \in SessionIds : <<call[r].user, t>> \in completions'
    BY <1>0, <1>1, <1>2 DEF Paid
  <1>4. ASSUME NEW s \in SessionIds, sessions'[s].completed \/ reports'[s].status = "accepted"
        PROVE  \E t \in SessionIds : <<sessions'[s].owner, t>> \in completions'
    <2>1. CASE s # call[r].session
      <3>1. Completed(sessions[s].owner)
        BY <1>1, <1>4, <2>1 DEF IInv, CompletedIsAwarded
      <3>2. QED  BY <1>1, <1>2, <2>1, <3>1
    <2>2. CASE s = call[r].session /\ tx[r].opened
      <3>1. /\ sessions'[s].owner = call[r].user /\ ~Exists(s)
            /\ Paid(r) \/ reports[s].status = "accepted"
        BY <1>4, <2>2, CommitAwards
      <3>2. reports[s].status # "accepted"
        <4>1. sessions[s].owner = None
          BY <1>0, <3>1 DEF RowOK
        <4>2. ~Completed(None)
          BY <1>0, OneOwner DEF Completed, TypeOK
        <4>3. QED  BY <4>1, <4>2 DEF IInv, CompletedIsAwarded
      <3>3. QED  BY <1>3, <3>1, <3>2
    <2>3. CASE s = call[r].session /\ ~tx[r].opened
      <3>1. /\ sessions'[s].owner = call[r].user /\ sessions[s].owner = call[r].user
            /\ sessions[s].completed \/ reports[s].status = "accepted" \/ Paid(r)
        BY <1>4, <2>3, CommitAwards
      <3>2. Completed(call[r].user) \/ Paid(r)
        BY <3>1 DEF IInv, CompletedIsAwarded
      <3>3. QED  BY <1>2, <1>3, <3>1, <3>2
    <2>4. QED  BY <2>1, <2>2, <2>3
  <1>5. QED  BY <1>4 DEF CompletedIsAwarded, Completed

-----------------------------------------------------------------------------
(* The status. *)

LEMMA ProceedStatus ==
    ASSUME IInv, NEW r \in Requests, Proceed(r)
    PROVE  StatusOK(r)'
  <1>0. TypeOK /\ CallOK(r) /\ MemoryOK(r) /\ StatusOK(r)
    BY DEF IInv, TypeInv, StatusInv
  <1>a. pc[r] # "idle"
    BY DEF Proceed, ExecuteTransaction, VerifyObjective, SaveReportDraft, SubmitReport,
           AwardXpOnce, CreateCompletion, UpsertReport, FlushReport, RefuseDraft, IntegrityError,
           ResetRuntime, ClearRuns, ClearReport, FlushSession, Commit
  <1>b. call[r].session \in SessionIds
    BY <1>0, <1>a DEF CallOK
  <1>c. call[r].op = "draft" =>
           pc[r] \in {"read_report", "upsert", "report_flush", "commit"}
    BY <1>0 DEF CallOK
  <1>d. ASSUME pc[r] \in InMemory, call' = call, loaded' = loaded,
               HasLoaded(r)' => HasLoaded(r),
               entity'[r].status = entity[r].status,
               tx'[r].cols = tx[r].cols, tx'[r].verified = tx[r].verified
        PROVE  StatusOK(r)'
    BY <1>0, <1>d DEF StatusOK, MemoryOK
  <1>1. CASE ExecuteTransaction(r)
    BY <1>0, <1>b, <1>1, <1>d, ExecuteEffect DEF HasLoaded, InMemory
  <1>2. CASE VerifyObjective(r)
    <2>1. /\ pc[r] = "verify" /\ pc'[r] = IF tx'[r].verified THEN "session_flush" ELSE "commit"
          /\ tx'[r].cols = tx[r].cols
      BY <1>0, <1>2, VerifyEffect
    <2>2. tx[r].cols = {} /\ (~tx'[r].verified => ~HasLoaded(r)')
      BY <1>0, <2>1 DEF MemoryOK, HasLoaded, InMemory
    <2>3. QED  BY <2>1, <2>2 DEF StatusOK
  <1>3. CASE SaveReportDraft(r) \/ SubmitReport(r)
    BY <1>0, <1>b, <1>3, <1>d, ReadReportEffect DEF HasLoaded, InMemory
  <1>4. CASE AwardXpOnce(r)
    BY <1>0, <1>4, <1>d, AwardEffect DEF HasLoaded, InMemory
  <1>5. CASE CreateCompletion(r)
    BY <1>0, <1>5, <1>d, CompletionEffect DEF HasLoaded, InMemory
  <1>6. CASE UpsertReport(r) \/ FlushReport(r)
    <2>1. /\ pc'[r] \in {"report_flush", "commit"} /\ entity' = entity
          /\ tx'[r].cols = tx[r].cols /\ tx'[r].verified = tx[r].verified
      BY <1>0, <1>b, <1>6, UpsertEffect, FlushReportEffect
    <2>2. ~HasLoaded(r)'
      BY <2>1 DEF HasLoaded, InMemory
    <2>3. QED  BY <1>0, <2>1, <2>2 DEF StatusOK
  <1>7. CASE IntegrityError(r) \/ RefuseDraft(r) \/ Commit(r)
    BY <1>0, <1>7, CloseAwards DEF IntegrityError, RefuseDraft, Commit
  <1>8. CASE ResetRuntime(r) \/ ClearRuns(r)
    BY <1>0, <1>8, <1>d, WipeEffect DEF HasLoaded, InMemory
  <1>9. CASE ClearReport(r)
    <2>1. pc[r] = "clear_report" /\ entity'[r].status = "active" /\ tx'[r].cols = tx[r].cols
      BY <1>0, <1>b, <1>9, ClearReportEffect
    <2>2. QED  BY <2>1 DEF StatusOK
  <1>10. CASE FlushSession(r)
    <2>1. HasLoaded(r)
      BY <1>c, <1>10 DEF FlushSession, HasLoaded, InMemory
    <2>2. loaded[r].owner = entity[r].owner
      BY <1>0, <2>1 DEF MemoryOK
    <2>3. /\ pc'[r] \in {"upsert", "commit"} /\ tx'[r].verified = tx[r].verified
          /\ "status" \in tx'[r].cols => entity'[r].status = entity[r].status
          /\ "status" \in tx'[r].cols <=> entity[r].status # loaded[r].status
      BY <1>0, <1>10, <2>2, FlushSessionEffect
    <2>4. ~HasLoaded(r)'
      BY <2>3 DEF HasLoaded, InMemory
    <2>5. QED  BY <1>0, <2>1, <2>3, <2>4 DEF StatusOK
  <1>11. QED
    BY <1>1, <1>2, <1>3, <1>4, <1>5, <1>6, <1>7, <1>8, <1>9, <1>10 DEF Proceed

LEMMA StepStatus ==
    ASSUME IInv, NEW r \in Requests, Step(r)
    PROVE  StatusInv'
  <1>0. TypeOK
    BY DEF IInv, TypeInv
  <1>1. StatusOK(r)'
    BY <1>0, ArriveAwards, ProceedStatus, CloseAwards DEF Step, Abort
  <1>2. ASSUME NEW q \in Requests \ {r}
        PROVE  StatusOK(q)'
    BY <1>0, OthersUntouched DEF IInv, StatusInv, StatusOK, HasLoaded
  <1>3. QED  BY <1>1, <1>2 DEF StatusInv

-----------------------------------------------------------------------------
(* The properties. *)

LEMMA InitInv == Init => IInv
  <1> SUFFICES ASSUME Init PROVE IInv
    OBVIOUS
  <1>1. AwardInv /\ StatusInv
    BY EmptyRows, EmptyWrites
       DEF Init, AwardInv, StatusInv, GrantOK, AwardOK, StatusOK, HasLoaded, InMemory
  <1>2. PaidThroughOneSession /\ CompletedIsAwarded
    BY EmptyRows DEF Init, PaidThroughOneSession, CompletedIsAwarded
  <1>3. QED  BY <1>1, <1>2, InitTyped DEF IInv

LEMMA NextInv == IInv /\ [Next]_vars => IInv'
  <1> SUFFICES ASSUME IInv, [Next]_vars PROVE IInv'
    OBVIOUS
  <1>1. TypeInv'
    BY NextTyped DEF IInv
  <1>2. ASSUME NEW r \in Requests, Step(r)
        PROVE  IInv'
    <2>1. AwardInv' /\ StatusInv'
      BY <1>2, StepAwards, StepStatus
    <2>2. CASE Commit(r)
      BY <1>1, <2>1, <2>2, StepPaid, StepCompleted DEF IInv
    <2>3. CASE UNCHANGED tables
      BY <1>1, <2>1, <2>3
         DEF IInv, tables, PaidThroughOneSession, CompletedIsAwarded, Completed
    <2>4. QED  BY <1>2, <2>2, <2>3, OnlyCommitsWrite
  <1>3. CASE UNCHANGED vars
    BY <1>1, <1>3 DEF vars, tables, locals, IInv, AwardInv, StatusInv, GrantOK, AwardOK, StatusOK,
                      HasLoaded, Paid, PaidThroughOneSession, CompletedIsAwarded, Completed
  <1>4. QED  BY <1>2, <1>3 DEF Next, Step

\* The reward of the lab is paid to a user through one session at most, the one
\* whose completion is on record, for all orders of submits, resets and sessions.
THEOREM PaidThroughOneSessionHolds == Spec => []PaidThroughOneSession
  <1>1. IInv => PaidThroughOneSession
    BY DEF IInv
  <1>2. QED  BY <1>1, InitInv, NextInv, PTL DEF Spec

\* A completed session and an accepted report belong to a user who was paid.
THEOREM CompletedIsAwardedHolds == Spec => []CompletedIsAwarded
  <1>1. IInv => CompletedIsAwarded
    BY DEF IInv
  <1>2. QED  BY <1>1, InitInv, NextInv, PTL DEF Spec

\* An active session becomes a passed one by the commit of a verification only.
THEOREM VerificationOpensReportHolds == Spec => VerificationOpensReport
  <1> DEFINE Opens ==
        \A s \in SessionIds :
            sessions[s].status = "active" /\ sessions'[s].status = "passed" =>
                \E r \in Requests :
                    pc[r] = "commit" /\ pc'[r] = "idle" /\ call[r].session = s /\ tx[r].verified
  <1>1. IInv /\ [Next]_vars => [Opens]_vars
    <2> SUFFICES ASSUME IInv, Next, NEW s \in SessionIds,
                        sessions[s].status = "active", sessions'[s].status = "passed"
                 PROVE  \E r \in Requests :
                           /\ pc[r] = "commit" /\ pc'[r] = "idle"
                           /\ call[r].session = s /\ tx[r].verified
      OBVIOUS
    <2>0. TypeInv /\ TypeOK
      BY DEF IInv, TypeInv
    <2>1. PICK r \in Requests : Commit(r)
      <3>1. PICK r \in Requests : Step(r)
        BY DEF Next, Step
      <3>2. QED  BY <3>1, OnlyCommitsWrite DEF tables
    <2>2. call[r].session = s /\ pc[r] = "commit" /\ Close(r)
      BY <2>0, <2>1, CommitEffect
    <2>3. pc'[r] = "idle"
      BY <2>0, <2>2, CloseEffect
    <2>4. ~tx[r].opened
      <3>1. tx[r].opened => ~Exists(s)
        BY <2>2 DEF IInv, TypeInv, CallOK
      <3>2. QED  BY <3>1 DEF Exists
    <2>5. sessions'[s] = Merged(sessions[s], entity[r], tx[r].cols)
      BY <2>0, <2>1, <2>2, <2>4, CommitEffect
    <2>6. /\ sessions[s] \in SessionRow /\ entity[r] \in SessionRow
          /\ tx[r].cols \in SUBSET SessionCols
      BY <2>0 DEF TypeOK, Transaction
    <2>7. "status" \in tx[r].cols /\ entity[r].status = "passed"
      <3>1. sessions'[s].status
               = IF "status" \in tx[r].cols THEN entity[r].status ELSE sessions[s].status
        BY <2>5, <2>6, MergedSession
      <3>2. QED  BY <3>1
    <2>8. tx[r].verified
      BY <2>7 DEF IInv, StatusInv, StatusOK
    <2>9. QED  BY <2>2, <2>3, <2>8
  <1>2. [][Opens]_vars => VerificationOpensReport
    BY DEF VerificationOpensReport
  <1>3. QED  BY <1>1, <1>2, InitInv, NextInv, PTL DEF Spec

-----------------------------------------------------------------------------
(* Who can wait for whom.  What a request holds tells where it is: rows of    *)
(* completions and sessions are held by submissions on their way to the       *)
(* report, a deleted report by a reset on its way to the session; all other   *)
(* locks are taken last.                                                      *)

HoldsOK(r) ==
    /\ tx[r].granted =>
          call[r].op = "submit" /\ pc[r] \in {"session_flush", "upsert", "report_flush", "commit"}
    /\ tx[r].cols # {} => \/ pc[r] = "commit"
                          \/ pc[r] \in {"upsert", "report_flush"} /\ call[r].op = "submit"
    /\ tx[r].report.kind # "none" => pc[r] = "commit"
    /\ tx[r].doomed # 0 => call[r].op = "reset" /\ pc[r] \in {"session_flush", "commit"}
    /\ pc[r] \in {"wipe", "clear", "clear_report"} => call[r].op = "reset"
    /\ pc[r] \in {"award", "grant"} => call[r].op = "submit"
    /\ pc[r] = "idle" => tx[r] = NoWrites

HoldsInv == TypeOK /\ \A r \in Requests : HoldsOK(r)

LEMMA InitHolds == Init => HoldsInv
  <1> SUFFICES ASSUME Init PROVE HoldsInv
    OBVIOUS
  <1>1. TypeOK
    BY InitTyped DEF TypeInv
  <1>2. \A r \in Requests : pc[r] = "idle" /\ tx[r] = NoWrites /\ call[r] = NoCall
    BY DEF Init
  <1>3. QED  BY <1>1, <1>2 DEF HoldsInv, HoldsOK, NoWrites, NoStatement

LEMMA StepHolds ==
    ASSUME HoldsInv, TypeInv', NEW r \in Requests, Step(r)
    PROVE  HoldsInv'
  <1>0. TypeOK /\ HoldsOK(r) /\ pc \in [Requests -> PCs] /\ call \in [Requests -> Call]
        /\ tx \in [Requests -> Transaction]
    BY DEF HoldsInv, TypeOK
  <1>1. HoldsOK(r)'
    <2>1. CASE \E u \in Users : CreateSession(r, u)
      <3>1. pc'[r] = "commit" /\ tx'[r] = [tx[r] EXCEPT !.opened = TRUE] /\ tx[r] = NoWrites
        BY <1>0, <2>1 DEF CreateSession, Goto, HoldsOK
      <3>2. QED  BY <3>1 DEF HoldsOK, NoWrites, NoStatement
    <2>2. CASE \E s \in SessionIds : \/ BeginTransact(r, s) \/ BeginVerify(r, s) \/ BeginDraft(r, s)
                                     \/ BeginSubmit(r, s) \/ BeginReset(r, s)
      <3>1. /\ tx'[r] = NoWrites /\ pc'[r] \in {"execute", "verify", "read_report", "wipe"}
            /\ pc'[r] = "wipe" => call'[r].op = "reset"
        BY <1>0, <2>2 DEF BeginTransact, BeginVerify, BeginDraft, BeginSubmit, BeginReset,
             LoadSession, LoadForDraft, NewCall, Goto, HoldsOK
      <3>2. QED  BY <3>1 DEF HoldsOK, NoWrites, NoStatement
    <2>3. CASE ExecuteTransaction(r) \/ SaveReportDraft(r) \/ SubmitReport(r) \/ AwardXpOnce(r)
               \/ UpsertReport(r) \/ ResetRuntime(r) \/ ClearRuns(r)
      BY <1>0, <2>3 DEF ExecuteTransaction, SaveReportDraft, SubmitReport, AwardXpOnce,
           UpsertReport, ResetRuntime, ClearRuns, Goto, HoldsOK
    <2>4. CASE VerifyObjective(r)
      <3>1. PICK passed \in BOOLEAN :
               /\ tx'[r] = [tx[r] EXCEPT !.verified = passed]
               /\ pc'[r] \in {"session_flush", "commit"} /\ pc[r] = "verify" /\ call'[r] = call[r]
        BY <1>0, <2>4 DEF VerifyObjective, Goto
      <3>2. QED  BY <1>0, <3>1 DEF HoldsOK, Transaction
    <2>5. CASE CreateCompletion(r)
      <3>1. /\ tx'[r] = [tx[r] EXCEPT !.granted = TRUE] /\ call'[r] = call[r]
            /\ pc'[r] = "session_flush" /\ pc[r] = "grant"
        BY <1>0, <2>5 DEF CreateCompletion, Goto
      <3>2. QED  BY <1>0, <3>1 DEF HoldsOK, Transaction
    <2>6. CASE FlushReport(r)
      <3>1. /\ tx'[r] = [tx[r] EXCEPT !.report = write[r]] /\ call'[r] = call[r]
            /\ pc'[r] = "commit" /\ pc[r] = "report_flush"
        BY <1>0, <2>6 DEF FlushReport, Goto
      <3>2. QED  BY <1>0, <3>1 DEF HoldsOK, Transaction
    <2>7. CASE ClearReport(r)
      <3>1. /\ tx'[r] = [tx[r] EXCEPT !.doomed = CurrentReport(r).id] /\ call'[r] = call[r]
            /\ pc'[r] = "session_flush" /\ pc[r] = "clear_report"
        BY <1>0, <2>7 DEF ClearReport, Goto
      <3>2. QED  BY <1>0, <3>1 DEF HoldsOK, Transaction
    <2>8. CASE FlushSession(r)
      <3>1. /\ tx'[r] = [tx[r] EXCEPT !.cols = SessionDirty(r)] /\ call'[r] = call[r]
            /\ pc'[r] = IF call[r].op = "submit" THEN "upsert" ELSE "commit"
            /\ pc[r] = "session_flush"
        BY <1>0, <2>8 DEF FlushSession, Goto
      <3>2. QED  BY <1>0, <3>1 DEF HoldsOK, Transaction
    <2>9. CASE RefuseDraft(r) \/ IntegrityError(r) \/ Commit(r) \/ Abort(r)
      <3>1. Close(r)
        BY <2>9 DEF RefuseDraft, IntegrityError, Commit, Abort
      <3>2. pc'[r] = "idle" /\ tx'[r] = NoWrites
        BY <1>0, <3>1, CloseEffect
      <3>3. QED  BY <3>2 DEF HoldsOK, NoWrites, NoStatement
    <2>10. QED
      BY <2>1, <2>2, <2>3, <2>4, <2>5, <2>6, <2>7, <2>8, <2>9 DEF Step, Arrive, Proceed
  <1>2. ASSUME NEW q \in Requests \ {r} PROVE HoldsOK(q)'
    <2>1. pc'[q] = pc[q] /\ call'[q] = call[q] /\ tx'[q] = tx[q]
      BY <1>0, OthersUntouched
    <2>2. QED  BY <2>1 DEF HoldsInv, HoldsOK
  <1>3. QED  BY <1>1, <1>2 DEF HoldsInv, TypeInv

LEMMA NextHolds == HoldsInv /\ TypeInv' /\ [Next]_vars => HoldsInv'
  <1> SUFFICES ASSUME HoldsInv, TypeInv', [Next]_vars PROVE HoldsInv'
    OBVIOUS
  <1>1. CASE \E r \in Requests : Step(r)
    BY <1>1, StepHolds
  <1>2. CASE UNCHANGED vars
    BY <1>2 DEF vars, tables, locals, HoldsInv, HoldsOK, TypeInv
  <1>3. QED  BY <1>1, <1>2 DEF Next, Step

\* The places where a request can wait, in the order of what they can wait for.
Last(r) == pc[r] = "session_flush" /\ call[r].op = "reset"
Third(r) == pc[r] = "report_flush"
Second(r) == pc[r] = "session_flush" /\ call[r].op # "reset"
First(r) == pc[r] \in {"grant", "clear_report"}

Opposed(r, q) == call[r].op = "submit" /\ call[q].op = "reset" /\ SameSession(r, q)

LEMMA WaitsAreOrdered ==
    ASSUME HoldsInv, NEW r \in Requests, NEW q \in Requests, WaitsFor(r, q)
    PROVE  /\ First(r) => ~First(q)
           /\ Second(r) => ~First(q) /\ ~Second(q) /\ ~Last(q)
           /\ Third(r) => ~First(q) /\ ~Second(q) /\ ~Third(q)
           /\ Last(r) => Opposed(q, r) \/ pc[q] = "commit" \/ pc[q] = "upsert"
           /\ First(r) \/ Second(r) \/ Third(r) \/ Last(r)
  <1>0. HoldsOK(r) /\ HoldsOK(q) /\ q # r
    BY DEF HoldsInv, WaitsFor
  <1>1. CASE GrantWaits(r, q)
    BY <1>0, <1>1 DEF GrantWaits, HoldsOK, First, Second, Third, Last
  <1>2. CASE SessionWaits(r, q)
    BY <1>0, <1>2 DEF SessionWaits, SameSession, HoldsOK, First, Second, Third, Last, Opposed
  <1>3. CASE ClearReportWaits(r, q)
    BY <1>0, <1>3 DEF ClearReportWaits, HoldsOK, First, Second, Third, Last
  <1>4. CASE ReportWaits(r, q)
    BY <1>0, <1>4 DEF ReportWaits, HoldsOK, First, Second, Third, Last
  <1>5. QED  BY <1>1, <1>2, <1>3, <1>4 DEF WaitsFor

\* However many requests work on however many sessions, a circle of waits has a
\* submission and a reset of one session in it.
THEOREM CirclesAreSubmitAndResetHolds == Spec => []CirclesAreSubmitAndReset
  <1>1. HoldsInv => CirclesAreSubmitAndReset
    <2> SUFFICES ASSUME HoldsInv, NEW circle \in (SUBSET Requests) \ {{}},
                        \A r \in circle : \E q \in circle : WaitsFor(r, q)
                 PROVE  \E r, q \in circle : Opposed(r, q)
      BY DEF CirclesAreSubmitAndReset, Opposed
    <2>1. \A r \in circle : First(r) \/ Second(r) \/ Third(r) \/ Last(r)
      BY WaitsAreOrdered
    <2>2. ASSUME NEW r \in circle, Last(r)
          PROVE  \E p, q \in circle : Opposed(p, q)
      <3>1. PICK q \in circle : WaitsFor(r, q)
        OBVIOUS
      <3>2. pc[q] # "commit" /\ pc[q] # "upsert"
        BY <2>1 DEF First, Second, Third, Last
      <3>3. Opposed(q, r)
        BY <2>2, <3>1, <3>2, WaitsAreOrdered
      <3>4. QED  BY <3>3
    <2>3. ASSUME NEW r \in circle, Third(r)
          PROVE  \E q \in circle : Last(q)
      BY <2>1, <2>3, WaitsAreOrdered
    <2>4. ASSUME NEW r \in circle, Second(r)
          PROVE  \E q \in circle : Third(q)
      BY <2>1, <2>4, WaitsAreOrdered
    <2>5. ASSUME NEW r \in circle, First(r)
          PROVE  \E q \in circle : Second(q) \/ Third(q) \/ Last(q)
      BY <2>1, <2>5, WaitsAreOrdered
    <2>6. \E r \in circle : Last(r)
      BY <2>1, <2>3, <2>4, <2>5
    <2>7. QED  BY <2>2, <2>6
  <1>2. Init => TypeInv /\ HoldsInv
    BY InitTyped, InitHolds
  <1>3. TypeInv /\ HoldsInv /\ [Next]_vars => TypeInv' /\ HoldsInv'
    BY NextTyped, NextHolds
  <1>4. QED  BY <1>1, <1>2, <1>3, PTL DEF Spec

=============================================================================
