---------------------------- MODULE ResearchLab ----------------------------
(***************************************************************************)
(* Research lab sessions: the routes of app/modules/labs that create and   *)
(* reset a session, run sandbox transactions, verify the objective, save   *)
(* and submit the report.  Two stores are written by one request: tables   *)
(* of the database, in the transaction of the request, and the state file  *)
(* of the sandbox, at once and for good, whatever becomes of the request.  *)
(*                                                                         *)
(* Transactions, locks and rollbacks are those of LevelPlay.  A session    *)
(* and a report are changed as mapped objects: a flush writes the columns  *)
(* that differ from the object as this request loaded it.                  *)
(*                                                                         *)
(* Abstractions: one lab, as in the source; the user's XP is UserLedger's; *)
(* rows that no statement reads back to decide anything are left out       *)
(* (LabSandbox has the transactions and the verifications; terminal lines, *)
(* files and analytics); of the state file, only whether it proves the     *)
(* exploit's impact, which LabSandbox refines to the treasury in it; an    *)
(* expired session refuses every request, which changes nothing; editing   *)
(* files and running tests are refused by the only lab there is.           *)
(***************************************************************************)
EXTENDS Integers, FiniteSets, RowWrites

CONSTANTS
    Users, Requests,
    SessionIds,      \* the sessions that can be created: a bound on their rows
    None

ASSUME RequestsAssumption == IsFiniteSet(Requests)
ASSUME NoneAssumption == None \notin Users \cup SessionIds

VARIABLES
    sessions, reports, completions,              \* committed
    sandbox,                                     \* the state file of each session
    pc, call, loaded, entity, copy, draft, write, tx \* per request

tables == <<sessions, reports, completions>>
locals == <<pc, call, loaded, entity, copy, draft, write, tx>>
vars == <<tables, sandbox, locals>>

\* Enough for the report of a session and those that requests still know.
ReportIds == 1 .. Cardinality(Requests) + 1

\* tried: objective_progress has reached 3, the exploit; xp: the reward of the
\* lab was paid through this session (xp_awarded).
SessionRow ==
    [owner : Users \cup {None}, status : {"absent", "active", "passed"},
     tried : BOOLEAN, completed : BOOLEAN, xp : BOOLEAN]

\* fields: "sound" if they pass _validate_report, "poor" otherwise.
ReportRow ==
    [id : ReportIds \cup {0}, status : {"absent", "draft", "retry", "accepted"},
     fields : {"poor", "sound"}]

SessionCols == {"status", "tried", "completed", "xp"}
ReportCols == {"status", "fields"}

Ops == {"none", "create", "transact", "verify", "draft", "submit", "reset"}
Call == [op : Ops, user : Users \cup {None}, session : SessionIds \cup {None}]

\* What upsert_report sends: an INSERT of report id, an UPDATE of its columns
\* cols (and of columns left out here), or nothing.
Statement ==
    [kind : {"none", "insert", "update"}, id : ReportIds \cup {0}, cols : SUBSET ReportCols]

\* The writes of an open transaction: a session inserted (opened) or columns
\* of it updated, a passed verification, a completion (granted), a report
\* statement, the report deleted by a reset (doomed).
Transaction ==
    [opened : BOOLEAN, cols : SUBSET SessionCols, verified : BOOLEAN,
     granted : BOOLEAN, report : Statement, doomed : ReportIds \cup {0}]

NoSession == [owner |-> None, status |-> "absent", tried |-> FALSE,
              completed |-> FALSE, xp |-> FALSE]
NoReport == [id |-> 0, status |-> "absent", fields |-> "poor"]
NoCall == [op |-> "none", user |-> None, session |-> None]
NoStatement == [kind |-> "none", id |-> 0, cols |-> {}]
NoWrites == [opened |-> FALSE, cols |-> {}, verified |-> FALSE, granted |-> FALSE,
             report |-> NoStatement, doomed |-> 0]

PCs == {"idle", "execute", "verify", "read_report", "award", "grant", "wipe", "clear",
        "clear_report", "session_flush", "upsert", "report_flush", "commit"}

-----------------------------------------------------------------------------
(* Locks.  q stands in the way of the next statement of r. *)

SameSession(r, q) == call[q].session = call[r].session
Completed(u) == \E s \in SessionIds : <<u, s>> \in completions
CurrentReport(r) == reports[call[r].session]

\* uq_research_lab_completion_user_lab
GrantWaits(r, q) == pc[r] = "grant" /\ tx[q].granted /\ call[q].user = call[r].user

\* Mutant: the whole session is written back.
SessionDirtyWhole(r) == SessionCols

\* Columns to write: those that differ, and a new completed_at at every submit.
SessionDirty(r) ==
    Changed(loaded[r], entity[r]) \cup (IF call[r].op = "submit" THEN {"completed"} ELSE {})

SessionWaits(r, q) ==
    /\ pc[r] = "session_flush" /\ SameSession(r, q)
    /\ SessionDirty(r) # {} /\ tx[q].cols # {}

ClearReportWaits(r, q) ==
    /\ pc[r] = "clear_report" /\ SameSession(r, q)
    /\ CurrentReport(r).id # 0
    /\ \/ tx[q].report.kind = "update" /\ tx[q].report.id = CurrentReport(r).id
       \/ tx[q].doomed = CurrentReport(r).id

\* uq_research_lab_report_session for an INSERT, the row lock for an UPDATE.
ReportWaits(r, q) ==
    /\ pc[r] = "report_flush" /\ SameSession(r, q)
    /\ \/ tx[q].report.kind = "insert" /\ write[r].kind = "insert"
       \/ tx[q].report.kind = "update" /\ write[r].kind = "update"
       \/ tx[q].doomed # 0 /\ tx[q].doomed = CurrentReport(r).id

WaitsFor(r, q) ==
    /\ q # r
    /\ \/ GrantWaits(r, q) \/ SessionWaits(r, q)
       \/ ClearReportWaits(r, q) \/ ReportWaits(r, q)

Waits(r) == \E q \in Requests : WaitsFor(r, q)

-----------------------------------------------------------------------------
Init ==
    /\ sessions = [s \in SessionIds |-> NoSession]
    /\ reports = [s \in SessionIds |-> NoReport]
    /\ completions = {}
    /\ sandbox = [s \in SessionIds |-> "clean"]
    /\ pc = [r \in Requests |-> "idle"]
    /\ call = [r \in Requests |-> NoCall]
    /\ loaded = [r \in Requests |-> NoSession]
    /\ entity = [r \in Requests |-> NoSession]
    /\ copy = [r \in Requests |-> NoReport]
    /\ draft = [r \in Requests |-> NoReport]
    /\ write = [r \in Requests |-> NoStatement]
    /\ tx = [r \in Requests |-> NoWrites]

\* Mutant: the connection goes back to the pool with its transaction open.
CloseKeepingWrites(r) ==
    /\ pc' = [pc EXCEPT ![r] = "idle"]
    /\ call' = [call EXCEPT ![r] = NoCall]
    /\ loaded' = [loaded EXCEPT ![r] = NoSession]
    /\ entity' = [entity EXCEPT ![r] = NoSession]
    /\ copy' = [copy EXCEPT ![r] = NoReport]
    /\ draft' = [draft EXCEPT ![r] = NoReport]
    /\ write' = [write EXCEPT ![r] = NoStatement]
    /\ UNCHANGED tx

Close(r) ==
    /\ pc' = [pc EXCEPT ![r] = "idle"]
    /\ call' = [call EXCEPT ![r] = NoCall]
    /\ loaded' = [loaded EXCEPT ![r] = NoSession]
    /\ entity' = [entity EXCEPT ![r] = NoSession]
    /\ copy' = [copy EXCEPT ![r] = NoReport]
    /\ draft' = [draft EXCEPT ![r] = NoReport]
    /\ write' = [write EXCEPT ![r] = NoStatement]
    /\ tx' = [tx EXCEPT ![r] = NoWrites]

\* An exception, a client that leaves, a deadlock victim, a crash: the tables
\* are rolled back, the state file is not.
Abort(r) ==
    /\ pc[r] # "idle"
    /\ Close(r)
    /\ UNCHANGED <<tables, sandbox>>

Goto(r, label) == pc' = [pc EXCEPT ![r] = label]

NewCall(op, u, s) == [op |-> op, user |-> u, session |-> s]

-----------------------------------------------------------------------------
(* POST /research-labs/{id}/sessions *)

UsedSessionIds ==
    {s \in SessionIds : sessions[s].status # "absent"}
        \cup {call[q].session : q \in {p \in Requests : tx[p].opened}}

\* Mutant: the session is left as it was inserted.
NewSessionProvisioning(u) == [NoSession EXCEPT !.owner = u, !.status = "provisioning"]

NewSession(u) == [NoSession EXCEPT !.owner = u, !.status = "active"]

\* The session is provisioning only inside this transaction.
CreateSession(r, u) ==
    /\ pc[r] = "idle"
    /\ \E s \in SessionIds \ UsedSessionIds :
          /\ call' = [call EXCEPT ![r] = NewCall("create", u, s)]
          /\ sandbox' = [sandbox EXCEPT ![s] = "clean"]
    /\ entity' = [entity EXCEPT ![r] = NewSession(u)]
    /\ tx' = [tx EXCEPT ![r].opened = TRUE]
    /\ Goto(r, "commit")
    /\ UNCHANGED <<tables, loaded, copy, draft, write>>

-----------------------------------------------------------------------------
(* The session is loaded once, by _owned_session and its two variants. *)

LoadSession(r, s, op, label) ==
    /\ pc[r] = "idle"
    /\ sessions[s].status # "absent"
    /\ call' = [call EXCEPT ![r] = NewCall(op, sessions[s].owner, s)]
    /\ loaded' = [loaded EXCEPT ![r] = sessions[s]]
    /\ entity' = [entity EXCEPT ![r] = sessions[s]]
    /\ Goto(r, label)
    /\ UNCHANGED <<tables, sandbox, copy, draft, write, tx>>

\* A draft changes nothing of the session it has loaded.
LoadForDraft(r, s) ==
    /\ pc[r] = "idle"
    /\ call' = [call EXCEPT ![r] = NewCall("draft", sessions[s].owner, s)]
    /\ Goto(r, "read_report")
    /\ UNCHANGED <<tables, sandbox, loaded, entity, copy, draft, write, tx>>

\* _owned_active_session
BeginTransact(r, s) == sessions[s].status # "passed" /\ LoadSession(r, s, "transact", "execute")
BeginVerify(r, s) == sessions[s].status # "passed" /\ LoadSession(r, s, "verify", "verify")

\* _owned_report_session
BeginDraft(r, s) == sessions[s].status = "passed" /\ LoadForDraft(r, s)
BeginSubmit(r, s) == sessions[s].status = "passed" /\ LoadSession(r, s, "submit", "read_report")

BeginReset(r, s) == LoadSession(r, s, "reset", "wipe")

-----------------------------------------------------------------------------
(* POST .../transactions and .../verify-objective *)

\* A withdrawal against counterfeit credit drains the treasury; a deposit, an
\* action that is rejected or not supported leave the verdict as it is.
ExecuteTransaction(r) ==
    LET s == call[r].session
    IN  /\ pc[r] = "execute"
        /\ \E file \in {sandbox[s], "drained"} : sandbox' = [sandbox EXCEPT ![s] = file]
        /\ entity' = [entity EXCEPT ![r].tried = TRUE]
        /\ Goto(r, "session_flush")
        /\ UNCHANGED <<tables, call, loaded, copy, draft, write, tx>>

\* The treasury has paid out against counterfeit collateral.
VerifyObjective(r) ==
    LET passed == sandbox[call[r].session] = "drained"
    IN  /\ pc[r] = "verify"
        /\ tx' = [tx EXCEPT ![r].verified = passed]
        /\ entity' = [entity EXCEPT ![r] =
               IF passed THEN [@ EXCEPT !.status = "passed", !.tried = TRUE] ELSE @]
        /\ Goto(r, IF passed THEN "session_flush" ELSE "commit")
        /\ UNCHANGED <<tables, sandbox, call, loaded, copy, draft, write>>

-----------------------------------------------------------------------------
(* PUT .../report and POST .../report/submit *)

NewReport(status, fields) == [id |-> 0, status |-> status, fields |-> fields]

SaveReportDraft(r) ==
    /\ pc[r] = "read_report" /\ call[r].op = "draft"
    /\ CurrentReport(r).status # "accepted"
    /\ copy' = [copy EXCEPT ![r] = CurrentReport(r)]
    /\ \E fields \in {"poor", "sound"} :
          draft' = [draft EXCEPT ![r] = NewReport("draft", fields)]
    /\ Goto(r, "upsert")
    /\ UNCHANGED <<tables, sandbox, call, loaded, entity, write, tx>>

\* The report has been accepted.
RefuseDraft(r) ==
    /\ pc[r] = "read_report" /\ call[r].op = "draft"
    /\ CurrentReport(r).status = "accepted"
    /\ Close(r)
    /\ UNCHANGED <<tables, sandbox>>

SubmitReport(r) ==
    LET accepted == CurrentReport(r).fields = "sound"
    IN  /\ pc[r] = "read_report" /\ call[r].op = "submit"
        /\ copy' = [copy EXCEPT ![r] = CurrentReport(r)]
        /\ draft' = [draft EXCEPT ![r] =
               NewReport(IF accepted THEN "accepted" ELSE "retry", CurrentReport(r).fields)]
        /\ Goto(r, IF accepted THEN "award" ELSE "upsert")
        /\ UNCHANGED <<tables, sandbox, call, loaded, entity, write, tx>>

\* Mutant: the reward is shown again although the completion is on record.
AwardXpTwice(r) ==
    /\ pc[r] = "award"
    /\ \/ /\ Completed(call[r].user)
          /\ entity' = [entity EXCEPT ![r].completed = TRUE, ![r].xp = TRUE]
          /\ Goto(r, "session_flush")
       \/ /\ ~Completed(call[r].user)
          /\ Goto(r, "grant")
          /\ UNCHANGED entity
    /\ UNCHANGED <<tables, sandbox, call, loaded, copy, draft, write, tx>>

\* Mutant: the completion is never recorded.
AwardXpUnrecorded(r) ==
    /\ pc[r] = "award"
    /\ entity' = [entity EXCEPT ![r].completed = TRUE]
    /\ Goto(r, "session_flush")
    /\ UNCHANGED <<tables, sandbox, call, loaded, copy, draft, write, tx>>

\* _award_xp_once looks for a completion: if there is one nothing is paid.
AwardXpOnce(r) ==
    /\ pc[r] = "award"
    /\ \/ /\ Completed(call[r].user)
          /\ entity' = [entity EXCEPT ![r].completed = TRUE]
          /\ Goto(r, "session_flush")
       \/ /\ ~Completed(call[r].user)
          /\ Goto(r, "grant")
          /\ UNCHANGED entity
    /\ UNCHANGED <<tables, sandbox, call, loaded, copy, draft, write, tx>>

CreateCompletion(r) ==
    /\ pc[r] = "grant"
    /\ ~Waits(r)
    /\ ~Completed(call[r].user)
    /\ tx' = [tx EXCEPT ![r].granted = TRUE]
    /\ entity' = [entity EXCEPT ![r].completed = TRUE, ![r].xp = TRUE]
    /\ Goto(r, "session_flush")
    /\ UNCHANGED <<tables, sandbox, call, loaded, copy, draft, write>>

\* Columns of the report to write, over the row as this request knows it: a
\* row it has read before keeps the values read then.
ReportDirty(r) ==
    LET known == IF CurrentReport(r).id = copy[r].id THEN copy[r] ELSE CurrentReport(r)
    IN  {c \in ReportCols : known[c] # draft[r][c]}

\* A draft may also replace poor fields by other poor ones, or sound by sound.
SentCols(r) ==
    {ReportDirty(r)} \cup (IF call[r].op = "draft" THEN {ReportDirty(r) \cup {"fields"}} ELSE {})

UsedReportIds(s) ==
    LET here == {q \in Requests : call[q].session = s}
    IN  {reports[s].id} \cup {copy[q].id : q \in here} \cup {write[q].id : q \in here}
            \cup {tx[q].report.id : q \in here}

\* upsert_report reads the report again; a submit always has a new
\* submitted_at to write.
UpsertReport(r) ==
    /\ pc[r] = "upsert"
    /\ \/ /\ CurrentReport(r).id = 0
          /\ \E i \in ReportIds \ UsedReportIds(call[r].session) :
                /\ \A j \in ReportIds \ UsedReportIds(call[r].session) : i <= j
                /\ write' = [write EXCEPT ![r] = [kind |-> "insert", id |-> i, cols |-> ReportCols]]
          /\ Goto(r, "report_flush")
       \/ /\ CurrentReport(r).id # 0
          /\ \E cols \in SentCols(r) :
                IF call[r].op = "draft" /\ cols = {}
                THEN Goto(r, "commit") /\ UNCHANGED write
                ELSE /\ write' = [write EXCEPT ![r] =
                            [kind |-> "update", id |-> CurrentReport(r).id, cols |-> cols]]
                     /\ Goto(r, "report_flush")
    /\ copy' = [copy EXCEPT ![r] = NoReport]
    /\ UNCHANGED <<tables, sandbox, call, loaded, entity, draft, tx>>

\* Another report was inserted, or the one to update was deleted, since.
ReportMoved(r) ==
    IF write[r].kind = "insert" THEN CurrentReport(r).id # 0
                       ELSE CurrentReport(r).id # write[r].id

\* Mutant: a report to retry is written before its session is.
FlushReportFirst(r) ==
    /\ pc[r] = "report_flush"
    /\ ~Waits(r)
    /\ ~ReportMoved(r)
    /\ tx' = [tx EXCEPT ![r].report = write[r]]
    /\ write' = [write EXCEPT ![r] = NoStatement]
    /\ Goto(r, IF call[r].op = "submit" /\ tx[r].cols = {} THEN "session_flush" ELSE "commit")
    /\ UNCHANGED <<tables, sandbox, call, loaded, entity, copy, draft>>

FlushReport(r) ==
    /\ pc[r] = "report_flush"
    /\ ~Waits(r)
    /\ ~ReportMoved(r)
    /\ tx' = [tx EXCEPT ![r].report = write[r]]
    /\ write' = [write EXCEPT ![r] = NoStatement]
    /\ Goto(r, "commit")
    /\ UNCHANGED <<tables, sandbox, call, loaded, entity, copy, draft>>

\* A unique key is taken, or an UPDATE meets no row (StaleDataError).
IntegrityError(r) ==
    /\ ~Waits(r)
    /\ \/ pc[r] = "grant" /\ Completed(call[r].user)
       \/ pc[r] = "report_flush" /\ ReportMoved(r)
    /\ Close(r)
    /\ UNCHANGED <<tables, sandbox>>

-----------------------------------------------------------------------------
(* POST .../reset *)

ResetRuntime(r) ==
    /\ pc[r] = "wipe"
    /\ sandbox' = [sandbox EXCEPT ![call[r].session] = "clean"]
    /\ Goto(r, "clear")
    /\ UNCHANGED <<tables, call, loaded, entity, copy, draft, write, tx>>

\* clear_runtime_state: the deletes up to the report's, of rows left out here,
\* and the report's.
ClearRuns(r) ==
    /\ pc[r] = "clear"
    /\ Goto(r, "clear_report")
    /\ UNCHANGED <<tables, sandbox, call, loaded, entity, copy, draft, write, tx>>

ClearReport(r) ==
    /\ pc[r] = "clear_report"
    /\ ~Waits(r)
    /\ tx' = [tx EXCEPT ![r].doomed = CurrentReport(r).id]
    /\ entity' = [entity EXCEPT ![r] =
           [@ EXCEPT !.status = "active", !.tried = FALSE, !.completed = FALSE]]
    /\ Goto(r, "session_flush")
    /\ UNCHANGED <<tables, sandbox, call, loaded, copy, draft, write>>

-----------------------------------------------------------------------------
FlushSession(r) ==
    /\ pc[r] = "session_flush"
    /\ ~Waits(r)
    /\ tx' = [tx EXCEPT ![r].cols = SessionDirty(r)]
    /\ entity' = [entity EXCEPT ![r] = Merged(NoSession, @, SessionDirty(r))]
    /\ loaded' = [loaded EXCEPT ![r] = NoSession]
    /\ Goto(r, IF call[r].op = "submit" THEN "upsert" ELSE "commit")
    /\ UNCHANGED <<tables, sandbox, call, copy, draft, write>>

\* The report table once the transaction of r is committed.
ReportAfter(r, row) ==
    LET sent == tx[r].report
    IN  IF sent.kind = "insert" THEN [draft[r] EXCEPT !.id = sent.id]
        ELSE IF tx[r].doomed # 0 /\ tx[r].doomed = row.id THEN NoReport
        ELSE Merged(row, draft[r], sent.cols)

Commit(r) ==
    LET s == call[r].session
    IN  /\ pc[r] = "commit"
        /\ sessions' = [sessions EXCEPT ![s] =
               IF tx[r].opened THEN entity[r] ELSE Merged(@, entity[r], tx[r].cols)]
        /\ reports' = [reports EXCEPT ![s] = ReportAfter(r, @)]
        /\ completions' = completions \cup (IF tx[r].granted THEN {<<call[r].user, s>>} ELSE {})
        /\ Close(r)
        /\ UNCHANGED sandbox

Arrive(r) ==
    \/ \E u \in Users : CreateSession(r, u)
    \/ \E s \in SessionIds :
          \/ BeginTransact(r, s) \/ BeginVerify(r, s) \/ BeginDraft(r, s)
          \/ BeginSubmit(r, s) \/ BeginReset(r, s)

\* The steps a running request takes by itself.
Proceed(r) ==
    \/ ExecuteTransaction(r) \/ VerifyObjective(r) \/ SaveReportDraft(r) \/ SubmitReport(r)
    \/ AwardXpOnce(r) \/ CreateCompletion(r) \/ UpsertReport(r) \/ FlushReport(r)
    \/ RefuseDraft(r) \/ IntegrityError(r) \/ ResetRuntime(r) \/ ClearRuns(r)
    \/ ClearReport(r) \/ FlushSession(r) \/ Commit(r)

Next == \E r \in Requests : Arrive(r) \/ Proceed(r) \/ Abort(r)

Spec == Init /\ [][Next]_vars

-----------------------------------------------------------------------------
(* Properties. *)

TypeOK ==
    /\ sessions \in [SessionIds -> SessionRow]
    /\ reports \in [SessionIds -> ReportRow]
    /\ completions \in SUBSET (Users \X SessionIds)
    /\ sandbox \in [SessionIds -> {"clean", "drained"}]
    /\ pc \in [Requests -> PCs]
    /\ call \in [Requests -> Call]
    /\ loaded \in [Requests -> SessionRow]
    /\ entity \in [Requests -> SessionRow]
    /\ copy \in [Requests -> ReportRow]
    /\ draft \in [Requests -> ReportRow]
    /\ write \in [Requests -> Statement]
    /\ tx \in [Requests -> Transaction]

\* The reward of the lab is paid to a user through one session at most, the
\* one its completion names, and that session shows it for good: resets,
\* repeated submissions and sessions side by side included.
PaidThroughOneSession ==
    \A u \in Users, s \in SessionIds :
        /\ <<u, s>> \in completions <=> sessions[s].owner = u /\ sessions[s].xp
        /\ <<u, s>> \in completions => \A t \in SessionIds : <<u, t>> \in completions => t = s

\* An accepted report and a completed session belong to a user who has been
\* paid: none of the three rows is committed without the others.
CompletedIsAwarded ==
    \A s \in SessionIds :
        sessions[s].completed \/ reports[s].status = "accepted" => Completed(sessions[s].owner)

\* The report of a session opens only by a verification: a request that
\* loaded the session while it was passed never carries that status back over
\* a reset.
VerificationOpensReport ==
    [][\A s \in SessionIds :
          sessions[s].status = "active" /\ sessions'[s].status = "passed" =>
              \E r \in Requests :
                 pc[r] = "commit" /\ pc'[r] = "idle" /\ call[r].session = s /\ tx[r].verified]_vars

\* Requests wait for each other in a circle in one case only: a submission locks
\* the session and then the report, a reset of this session the report and then
\* the session.  No set of other requests is ever stuck.
CirclesAreSubmitAndReset ==
    \A circle \in (SUBSET Requests) \ {{}} :
        (\A r \in circle : \E q \in circle : WaitsFor(r, q)) =>
            \E r, q \in circle :
                call[r].op = "submit" /\ call[q].op = "reset" /\ SameSession(r, q)

\* What the code says and the interleavings break (see the findings).

\* research_labs.py refuses to save over an accepted report ("Research lab
\* report is already accepted"): what is accepted is what passed validation.
AcceptedReportIsSound ==
    \A s \in SessionIds : reports[s].status = "accepted" => reports[s].fields = "sound"
=============================================================================
