------------------------- MODULE LabSandboxProofs -------------------------
(***************************************************************************)
(* Theorems about LabSandbox, for every number of users, sessions,         *)
(* requests and rows.  It implements ResearchLab, and rests on what        *)
(* ResearchLabProofs shows of the requests and their sessions.             *)
(***************************************************************************)
EXTENDS LabSandbox, FiniteSetTheorems, TLAPS

LP == INSTANCE ResearchLabProofs WITH sandbox <- Verdicts

Step(r) == Arrive(r) \/ Proceed(r) \/ Abort(r)

-----------------------------------------------------------------------------
(* The inductive invariant. *)

SandboxFile ==
    [treasury : Int, reward : Nat, credit : Nat, deposited : BOOLEAN, logs : SUBSET Refs]

Gone == [made : SUBSET Refs, passes : 0 .. MaxRows]
RunRows == [made : SUBSET Refs, passes : 0 .. 1, gone : Gone]

RowsTyped ==
    /\ file \in [SessionIds -> SandboxFile]
    /\ transactions \in [SessionIds -> SUBSET Refs]
    /\ passes \in [SessionIds -> 0 .. MaxRows]
    /\ rows \in [Requests -> RunRows]
    /\ trust \in [SessionIds -> {"whole", "healing", "torn"}]

\* The points of each operation.
PointOK(r) ==
    /\ call[r].op \in {"none", "create", "transact", "verify", "reset"}
    /\ call[r].op = "none" <=> pc[r] = "idle"
    /\ call[r].op = "create" => pc[r] = "commit"
    /\ call[r].op = "transact" => pc[r] \in {"execute", "session_flush", "commit"}
    /\ call[r].op = "verify" => pc[r] \in {"verify", "session_flush", "commit"}
    /\ call[r].op = "reset" =>
          pc[r] \in {"wipe", "clear", "clear_report", "session_flush", "commit"}

\* Which rows a request has written by then.
WrittenOK(r) ==
    /\ rows[r].passes = IF tx[r].verified THEN 1 ELSE 0
    /\ tx[r].verified => call[r].op = "verify" /\ pc[r] # "verify"
    /\ rows[r].made # {} => call[r].op = "transact" /\ pc[r] # "execute"
    /\ rows[r].gone # NoRows.gone =>
          call[r].op = "reset" /\ pc[r] \in {"clear_report", "session_flush", "commit"}

\* The status that it carries back to its session.
CarriedOK(r) ==
    /\ call[r].op \in {"transact", "verify"} /\ pc[r] # "commit" => loaded[r].status = "active"
    /\ call[r].op = "transact" /\ pc[r] # "commit" => entity[r].status = "active"
    /\ call[r].op = "verify" /\ pc[r] = "session_flush" =>
          tx[r].verified /\ entity[r].status = "passed"
    /\ call[r].op \in {"transact", "verify"} /\ pc[r] = "commit" =>
          ("status" \in tx[r].cols <=> tx[r].verified)
    /\ tx[r].verified /\ pc[r] = "commit" => entity[r].status = "passed"
    /\ call[r].op = "reset" /\ pc[r] = "session_flush" => entity[r].status = "active"
    /\ call[r].op = "reset" /\ pc[r] = "commit" /\ "status" \in tx[r].cols =>
          entity[r].status = "active"

\* Two resets do not delete the same verifications.
GoneOK(r) ==
    pc[r] # "idle" =>
        /\ rows[r].gone.passes <= passes[Own(r)]
        /\ \A q \in Open(Own(r)) \ {r} : rows[r].gone.passes = 0 \/ rows[q].gone.passes = 0

(* The bounds of the rows keep room for the requests under way. *)

Executing(s) == {r \in Open(s) : pc[r] = "execute"}
Verifying(s) == {r \in Open(s) : call[r].op = "verify"}

RoomOK(s) ==
    /\ Cardinality(UsedRefs(s)) + Cardinality(Executing(s)) <= MaxRows
    /\ passes[s] + Cardinality(Verifying(s)) <= MaxRows

(* The story of the tables and the file. *)

Exists(s) == sessions[s].status # "absent"

AbsentOK(s) == ~Exists(s) => transactions[s] = {} /\ passes[s] = 0

WholeOK(s) ==
    trust[s] = "whole" =>
        /\ sessions[s].status = "passed" <=> passes[s] > 0
        /\ sessions[s].status = "passed" => Proves(file[s])
        /\ transactions[s] \subseteq file[s].logs
        /\ \A r \in Open(s) : /\ call[r].op # "reset"
                              /\ rows[r].made \subseteq file[s].logs
                              /\ tx[r].verified => Proves(file[s])

\* What a reset that is alone will leave behind.
Healing(r, s) ==
    /\ call[r].op = "reset"
    /\ pc[r] # "commit" => loaded[r].status = sessions[s].status
    /\ pc[r] = "commit" /\ "status" \notin tx[r].cols => sessions[s].status = "active"
    /\ pc[r] \in {"clear_report", "session_flush", "commit"} =>
          rows[r].gone = [made |-> transactions[s], passes |-> passes[s]]

HealingOK(s) ==
    trust[s] = "healing" => \E r \in Requests : Open(s) = {r} /\ Healing(r, s)

RequestInv == \A r \in Requests : PointOK(r) /\ WrittenOK(r) /\ CarriedOK(r) /\ GoneOK(r)
StoryInv == \A s \in SessionIds : AbsentOK(s) /\ WholeOK(s) /\ HealingOK(s)
RoomInv == \A s \in SessionIds : RoomOK(s)

TypeInv == LP!TypeInv /\ RowsTyped
IInv == TypeInv /\ RequestInv /\ RoomInv /\ StoryInv

-----------------------------------------------------------------------------
(* The actions of ResearchLab are read through two instances, that of        *)
(* LabSandbox and that of the proofs about them: they are the same.          *)

LEMMA SameAssumptions == LP!RequestsAssumption /\ LP!NoneAssumption
  BY RequestsAssumption, NoneAssumption
     DEF LP!RequestsAssumption, LP!NoneAssumption, IsFiniteSet, LP!IsFiniteSet

LEMMA SameRows ==
    /\ Lab!NoSession = LP!NoSession /\ Lab!NoReport = LP!NoReport
    /\ Lab!NoStatement = LP!NoStatement /\ Lab!NoCall = LP!NoCall
  BY DEF Lab!NoSession, LP!NoSession, Lab!NoReport, LP!NoReport, Lab!NoStatement,
         LP!NoStatement, Lab!NoCall, LP!NoCall

LEMMA SameWrites == Lab!NoWrites = LP!NoWrites
  BY SameRows DEF Lab!NoWrites, LP!NoWrites

LEMMA SameMerged ==
    ASSUME NEW row, NEW e, NEW cols
    PROVE  Lab!Merged(row, e, cols) = LP!Merged(row, e, cols)
  BY DEF Lab!Merged, LP!Merged

LEMMA SameClose ==
    ASSUME NEW r, Lab!Close(r)
    PROVE  LP!Close(r)
  BY SameRows, SameWrites DEF Lab!Close, LP!Close

LEMMA SameReportAfter ==
    ASSUME NEW r, NEW row
    PROVE  Lab!ReportAfter(r, row) = LP!ReportAfter(r, row)
  BY SameRows, SameMerged DEF Lab!ReportAfter, LP!ReportAfter

LEMMA SameDirty ==
    ASSUME NEW r
    PROVE  Lab!SessionDirty(r) = LP!SessionDirty(r)
  BY DEF Lab!SessionDirty, LP!SessionDirty, Lab!Changed, LP!Changed

LEMMA SameWaits ==
    ASSUME NEW r
    PROVE  Lab!Waits(r) <=> LP!Waits(r)
  BY SameDirty
     DEF Lab!Waits, LP!Waits, Lab!WaitsFor, LP!WaitsFor, Lab!GrantWaits, LP!GrantWaits,
         Lab!SessionWaits, LP!SessionWaits, Lab!ClearReportWaits, LP!ClearReportWaits,
         Lab!ReportWaits, LP!ReportWaits, Lab!SameSession, LP!SameSession,
         Lab!CurrentReport, LP!CurrentReport

LEMMA SameInit == Lab!Init => LP!Init
  BY SameRows, SameWrites DEF Lab!Init, LP!Init

LEMMA SameCreate ==
    ASSUME NEW r, NEW u, Lab!CreateSession(r, u)
    PROVE  LP!CreateSession(r, u)
  BY SameRows
     DEF Lab!CreateSession, LP!CreateSession, Lab!UsedSessionIds, LP!UsedSessionIds,
         Lab!NewCall, LP!NewCall, Lab!NewSession, LP!NewSession, Lab!Goto, LP!Goto,
         Lab!tables, LP!tables

LEMMA SameLoad ==
    ASSUME NEW r, NEW s, NEW op, NEW label, Lab!LoadSession(r, s, op, label)
    PROVE  LP!LoadSession(r, s, op, label)
  BY DEF Lab!LoadSession, LP!LoadSession, Lab!NewCall, LP!NewCall, Lab!Goto, LP!Goto,
         Lab!tables, LP!tables

LEMMA SameBegin ==
    ASSUME NEW r, NEW s
    PROVE  /\ Lab!BeginTransact(r, s) => LP!BeginTransact(r, s)
           /\ Lab!BeginVerify(r, s) => LP!BeginVerify(r, s)
           /\ Lab!BeginReset(r, s) => LP!BeginReset(r, s)
  BY SameLoad DEF Lab!BeginTransact, LP!BeginTransact, Lab!BeginVerify, LP!BeginVerify,
                  Lab!BeginReset, LP!BeginReset

LEMMA SameVerify ==
    ASSUME NEW r, Lab!VerifyObjective(r)
    PROVE  LP!VerifyObjective(r)
  BY DEF Lab!VerifyObjective, LP!VerifyObjective, Lab!Goto, LP!Goto, Lab!tables, LP!tables

LEMMA SameResetSteps ==
    ASSUME NEW r
    PROVE  /\ Lab!ResetRuntime(r) => LP!ResetRuntime(r)
           /\ Lab!ClearRuns(r) => LP!ClearRuns(r)
           /\ Lab!ClearReport(r) => LP!ClearReport(r)
  BY SameWaits
     DEF Lab!ResetRuntime, LP!ResetRuntime, Lab!ClearRuns, LP!ClearRuns, Lab!ClearReport,
         LP!ClearReport, Lab!CurrentReport, LP!CurrentReport, Lab!Goto, LP!Goto,
         Lab!tables, LP!tables

LEMMA SameFlush ==
    ASSUME NEW r, Lab!FlushSession(r)
    PROVE  LP!FlushSession(r)
  BY SameWaits, SameDirty, SameMerged, SameRows
     DEF Lab!FlushSession, LP!FlushSession, Lab!Goto, LP!Goto, Lab!tables, LP!tables

LEMMA SameCommit ==
    ASSUME NEW r, Lab!Commit(r)
    PROVE  LP!Commit(r)
  BY SameClose, SameReportAfter, SameMerged DEF Lab!Commit, LP!Commit

LEMMA SameAbort ==
    ASSUME NEW r, Lab!Abort(r)
    PROVE  LP!Abort(r)
  BY SameClose DEF Lab!Abort, LP!Abort, Lab!tables, LP!tables

LEMMA SameExecute ==
    ASSUME NEW r, Lab!ExecuteTransaction(r)
    PROVE  LP!ExecuteTransaction(r)
  BY DEF Lab!ExecuteTransaction, LP!ExecuteTransaction, Lab!Goto, LP!Goto, Lab!tables,
         LP!tables

-----------------------------------------------------------------------------
(* The state file. *)

LEMMA InitialFileTyped ==
    InitialFile \in SandboxFile /\ ~Proves(InitialFile) /\ InitialFile.logs = {}
  BY DEF InitialFile, SandboxFile, Proves, TREASURY

\* A file that proves the impact does so after another deposit or withdrawal.
LEMMA EffectKeepsProof ==
    ASSUME NEW old \in SandboxFile, NEW f \in {old, Deposit(old), Withdraw(old)}
    PROVE  /\ f \in SandboxFile /\ f.logs = old.logs
           /\ Proves(old) => Proves(f)
  <1>1. CASE f = old
    BY <1>1
  <1>0. /\ old.treasury \in Int /\ old.reward \in Nat /\ old.credit \in Nat
        /\ old.deposited \in BOOLEAN /\ old.logs \in SUBSET Refs
    BY DEF SandboxFile
  <1>2. CASE f = Deposit(old)
    <2>1. PICK b \in BOOLEAN : b = TRUE
      OBVIOUS
    <2>2. PICK c \in Nat : c = old.credit + COLLATERAL /\ c > 0
      BY <1>0 DEF COLLATERAL
    <2>3. PICK g \in SandboxFile :
             /\ g = [old EXCEPT !.credit = c] /\ g.credit = c /\ g.deposited = old.deposited
             /\ g.treasury = old.treasury /\ g.reward = old.reward /\ g.logs = old.logs
      <3> DEFINE h == [old EXCEPT !.credit = c]
      <3>1. /\ h \in SandboxFile /\ h.credit = c /\ h.deposited = old.deposited
            /\ h.treasury = old.treasury /\ h.reward = old.reward /\ h.logs = old.logs
        BY DEF SandboxFile
      <3>2. QED  BY <3>1
    <2>4. f = [g EXCEPT !.deposited = b]
      BY <1>2, <2>1, <2>2, <2>3 DEF Deposit
    <2>5. /\ f \in SandboxFile /\ f.deposited = b /\ f.credit = g.credit
          /\ f.treasury = g.treasury /\ f.reward = g.reward /\ f.logs = g.logs
      BY <2>4 DEF SandboxFile
    <2>6. QED  BY <2>1, <2>2, <2>3, <2>5 DEF Proves
  <1>3. CASE f = Withdraw(old) /\ old.credit > 0
    <2>1. PICK t \in Int : t = old.treasury - AMOUNT /\ t < old.treasury
      BY <1>0 DEF AMOUNT
    <2>2. PICK w \in Nat : w = old.reward + AMOUNT /\ w > 0
      BY <1>0 DEF AMOUNT
    <2>3. PICK g \in SandboxFile :
             /\ g = [old EXCEPT !.treasury = t] /\ g.treasury = t /\ g.reward = old.reward
             /\ g.credit = old.credit /\ g.deposited = old.deposited /\ g.logs = old.logs
      <3> DEFINE h == [old EXCEPT !.treasury = t]
      <3>1. /\ h \in SandboxFile /\ h.treasury = t /\ h.reward = old.reward
            /\ h.credit = old.credit /\ h.deposited = old.deposited /\ h.logs = old.logs
        BY DEF SandboxFile
      <3>2. QED  BY <3>1
    <2>4. f = [g EXCEPT !.reward = w]
      BY <1>0, <1>3, <2>1, <2>2, <2>3 DEF Withdraw
    <2>5. /\ f \in SandboxFile /\ f.reward = w /\ f.treasury = g.treasury
          /\ f.credit = g.credit /\ f.deposited = g.deposited /\ f.logs = g.logs
      BY <2>4 DEF SandboxFile
    <2>6. QED  BY <1>0, <2>1, <2>2, <2>3, <2>5 DEF Proves, TREASURY
  <1>4. CASE f = Withdraw(old) /\ ~(old.credit > 0)
    BY <1>0, <1>4 DEF Withdraw
  <1>5. QED  BY <1>1, <1>2, <1>3, <1>4

LEMMA LoggedFile ==
    ASSUME NEW f \in SandboxFile, NEW ref
    PROVE  /\ [f EXCEPT !.logs = @ \cup {ref}].logs = f.logs \cup {ref}
           /\ ref \in Refs => [f EXCEPT !.logs = @ \cup {ref}] \in SandboxFile
           /\ Proves([f EXCEPT !.logs = @ \cup {ref}]) <=> Proves(f)
  BY DEF SandboxFile, Proves

LEMMA ExecuteRefines ==
    ASSUME RowsTyped, NEW r \in Requests, Own(r) \in SessionIds, ExecuteTransaction(r)
    PROVE  Lab!ExecuteTransaction(r)
  <1> DEFINE s == Own(r)
  <1>1. file \in [SessionIds -> SandboxFile] /\ s \in SessionIds
    BY DEF RowsTyped
  <1>a. PICK f \in {file[s], Deposit(file[s]), Withdraw(file[s])} :
           \E ref : file' = [file EXCEPT ![s] = [f EXCEPT !.logs = @ \cup {ref}]]
    BY DEF ExecuteTransaction
  <1>2. PICK ref : file' = [file EXCEPT ![s] = [f EXCEPT !.logs = @ \cup {ref}]]
    BY <1>a
  <1>3. f \in SandboxFile /\ (Proves(file[s]) => Proves(f))
    BY <1>1, EffectKeepsProof
  <1>4. Proves(file'[s]) <=> Proves(f)
    BY <1>1, <1>2, <1>3, LoggedFile
  <1>5. \A t \in SessionIds \ {s} : file'[t] = file[t]
    BY <1>1, <1>2
  <1> DEFINE verdict == IF Proves(f) THEN "drained" ELSE "clean"
  <1>6. Verdicts' = [Verdicts EXCEPT ![s] = verdict]
    BY <1>1, <1>4, <1>5 DEF Verdicts
  <1>7. verdict \in {Verdicts[s], "drained"}
    BY <1>1, <1>3 DEF Verdicts
  <1>8. QED
    BY <1>6, <1>7 DEF ExecuteTransaction, Lab!ExecuteTransaction, Lab!Goto, Lab!tables, Own

-----------------------------------------------------------------------------
(* The steps of LabSandbox are steps of ResearchLab. *)

LabStep(r) == Lab!Arrive(r) \/ Lab!Proceed(r) \/ Lab!Abort(r)

LEMMA SessionOfCall ==
    ASSUME LP!TypeInv, NEW r \in Requests, pc[r] # "idle"
    PROVE  /\ Own(r) \in SessionIds
           /\ ~tx[r].opened => Exists(Own(r))
           /\ tx[r].opened <=> call[r].op = "create"
           /\ tx[r].opened => ~Exists(Own(r)) /\ pc[r] = "commit"
  BY DEF LP!TypeInv, LP!CallOK, LP!Exists, Exists, Own

LEMMA ArriveRefines ==
    ASSUME NEW r \in Requests, Arrive(r)
    PROVE  Lab!Arrive(r) /\ LP!Arrive(r)
  <1>1. CASE \E u \in Users : CreateSession(r, u)
    <2>1. PICK u \in Users : Lab!CreateSession(r, u)
      BY <1>1 DEF CreateSession
    <2>2. QED  BY <2>1, SameCreate DEF Lab!Arrive, LP!Arrive
  <1>2. CASE \E s \in SessionIds : Begin(r, s)
    <2>1. PICK s \in SessionIds :
             Lab!BeginTransact(r, s) \/ Lab!BeginVerify(r, s) \/ Lab!BeginReset(r, s)
      BY <1>2 DEF Begin, BeginTransact, BeginVerify
    <2>2. QED  BY <2>1, SameBegin DEF Lab!Arrive, LP!Arrive
  <1>3. QED  BY <1>1, <1>2 DEF Arrive

LEMMA StepRefines ==
    ASSUME LP!TypeInv, RowsTyped, NEW r \in Requests, Step(r)
    PROVE  LabStep(r) /\ LP!Step(r)
  <1>1. CASE Arrive(r)
    BY <1>1, ArriveRefines DEF LabStep, LP!Step
  <1>2. CASE ExecuteTransaction(r)
    <2>1. Own(r) \in SessionIds
      BY <1>2, SessionOfCall DEF ExecuteTransaction
    <2>2. Lab!ExecuteTransaction(r)
      BY <1>2, <2>1, ExecuteRefines
    <2>3. QED  BY <2>2, SameExecute DEF LabStep, Lab!Proceed, LP!Step, LP!Proceed
  <1>3. CASE VerifyObjective(r)
    BY <1>3, SameVerify
       DEF VerifyObjective, LabStep, Lab!Proceed, LP!Step, LP!Proceed
  <1>4. CASE ResetRuntime(r) \/ ClearRuns(r) \/ Lab!ClearReport(r)
    BY <1>4, SameResetSteps
       DEF ResetRuntime, ClearRuns, LabStep, Lab!Proceed, LP!Step, LP!Proceed
  <1>5. CASE Lab!FlushSession(r) \/ Commit(r)
    BY <1>5, SameFlush, SameCommit DEF Commit, LabStep, Lab!Proceed, LP!Step, LP!Proceed
  <1>6. CASE Abort(r)
    BY <1>6, SameAbort DEF Abort, LabStep, LP!Step
  <1>7. QED
    BY <1>1, <1>2, <1>3, <1>4, <1>5, <1>6 DEF Step, Proceed

LEMMA StepTyped ==
    ASSUME LP!TypeInv, RowsTyped, NEW r \in Requests, Step(r)
    PROVE  LP!TypeInv'
  <1>1. LP!Step(r)
    BY StepRefines
  <1>2. QED
    BY <1>1, LP!StepTyped, SameAssumptions

-----------------------------------------------------------------------------
(* What each step does to its request and to its session. *)

LEMMA Typed ==
    ASSUME TypeInv
    PROVE  /\ LP!TypeOK
           /\ sessions \in [SessionIds -> LP!SessionRow]
           /\ pc \in [Requests -> LP!PCs] /\ call \in [Requests -> LP!Call]
           /\ loaded \in [Requests -> LP!SessionRow] /\ entity \in [Requests -> LP!SessionRow]
           /\ tx \in [Requests -> LP!Transaction]
           /\ file \in [SessionIds -> SandboxFile]
           /\ transactions \in [SessionIds -> SUBSET Refs]
           /\ passes \in [SessionIds -> 0 .. MaxRows]
           /\ rows \in [Requests -> RunRows]
           /\ trust \in [SessionIds -> {"whole", "healing", "torn"}]
  BY DEF TypeInv, RowsTyped, LP!TypeInv, LP!TypeOK

LEMMA NoRowsTyped ==
    /\ NoRows \in RunRows
    /\ NoRows.made = {} /\ NoRows.passes = 0
    /\ NoRows.gone.made = {} /\ NoRows.gone.passes = 0
  BY MaxRowsAssumption DEF NoRows, RunRows, Gone

\* A request that is idle has written nothing.
LEMMA IdleWrites ==
    ASSUME IInv, NEW r \in Requests, pc[r] = "idle"
    PROVE  /\ rows[r] = NoRows /\ tx[r] = LP!NoWrites
           /\ ~tx[r].verified /\ ~tx[r].opened /\ tx[r].cols = {}
  <1>1. PointOK(r) /\ WrittenOK(r) /\ LP!IdleOK(r)
    BY DEF IInv, RequestInv, TypeInv, LP!TypeInv
  <1>2. call[r].op = "none" /\ tx[r] = LP!NoWrites
    BY <1>1 DEF PointOK, LP!IdleOK
  <1>3. ~tx[r].verified /\ ~tx[r].opened /\ tx[r].cols = {}
    BY <1>2 DEF LP!NoWrites
  <1>4. rows[r].passes = 0 /\ rows[r].made = {} /\ rows[r].gone = NoRows.gone
    BY <1>1, <1>2, <1>3 DEF WrittenOK
  <1>5. rows[r] \in RunRows
    BY Typed DEF IInv
  <1>6. rows[r] = NoRows
    BY <1>4, <1>5, NoRowsTyped DEF RunRows
  <1>7. QED  BY <1>2, <1>3, <1>6

LEMMA OthersKept ==
    ASSUME IInv, NEW r \in Requests, Step(r), NEW q \in Requests \ {r}
    PROVE  /\ pc'[q] = pc[q] /\ call'[q] = call[q] /\ tx'[q] = tx[q]
           /\ loaded'[q] = loaded[q] /\ entity'[q] = entity[q] /\ rows'[q] = rows[q]
  <1>1. LP!TypeOK /\ LP!Step(r)
    BY StepRefines, Typed DEF IInv, TypeInv
  <1>2. /\ pc'[q] = pc[q] /\ call'[q] = call[q] /\ tx'[q] = tx[q]
        /\ loaded'[q] = loaded[q] /\ entity'[q] = entity[q]
    BY <1>1, LP!OthersUntouched, SameAssumptions
  <1>3. rows \in [Requests -> RunRows]
    BY Typed DEF IInv
  <1>4. CASE Arrive(r)
    BY <1>2, <1>4 DEF Arrive, CreateSession, Begin
  <1>5. CASE ExecuteTransaction(r) \/ VerifyObjective(r) \/ ResetRuntime(r) \/ ClearRuns(r)
    BY <1>2, <1>3, <1>5 DEF ExecuteTransaction, VerifyObjective, ResetRuntime, ClearRuns
  <1>6. CASE (Lab!ClearReport(r) \/ Lab!FlushSession(r)) /\ rows' = rows
    BY <1>2, <1>6
  <1>7. CASE Commit(r) \/ Abort(r)
    BY <1>2, <1>3, <1>7 DEF Commit, Abort
  <1>8. QED  BY <1>4, <1>5, <1>6, <1>7 DEF Step, Proceed

LEMMA CreateEffect ==
    ASSUME IInv, NEW r \in Requests, NEW u \in Users, CreateSession(r, u)
    PROVE  /\ pc[r] = "idle" /\ pc'[r] = "commit" /\ call'[r].op = "create"
           /\ call'[r].session \in SessionIds /\ ~Exists(call'[r].session)
           /\ Open(call'[r].session) = {}
           /\ file' = [file EXCEPT ![call'[r].session] = InitialFile]
           /\ UNCHANGED <<sessions, transactions, passes, rows, trust>>
           /\ ~tx'[r].verified /\ tx'[r].cols = {}
  <1>1. /\ LP!CreateSession(r, u)
        /\ file' = [file EXCEPT ![call'[r].session] = InitialFile]
        /\ UNCHANGED <<transactions, passes, rows, trust>>
    BY SameCreate DEF CreateSession, committed
  <1>2. pc[r] = "idle"
    BY <1>1 DEF LP!CreateSession
  <1>3. /\ UNCHANGED sessions /\ pc'[r] = "commit" /\ call'[r].op = "create"
        /\ call'[r].session \in SessionIds \ LP!UsedSessionIds
        /\ ~tx'[r].verified /\ tx'[r].cols = {}
    BY <1>1, <1>2, IdleWrites, Typed, LP!CreateEffect, SameAssumptions DEF IInv, LP!tables
  <1>4. ~Exists(call'[r].session)
    BY <1>3 DEF LP!UsedSessionIds, Exists
  <1>5. ASSUME NEW q \in Requests, pc[q] # "idle", call[q].session = call'[r].session
        PROVE  FALSE
    <2>1. ~tx[q].opened
      BY <1>3, <1>5 DEF LP!UsedSessionIds
    <2>2. QED  BY <1>4, <1>5, <2>1, SessionOfCall DEF IInv, TypeInv, Own
  <1>6. QED  BY <1>1, <1>2, <1>3, <1>4, <1>5 DEF Open

LEMMA BeginEffect ==
    ASSUME IInv, NEW r \in Requests, NEW s \in SessionIds, Begin(r, s)
    PROVE  /\ pc[r] = "idle" /\ Exists(s) /\ call'[r].session = s
           /\ UNCHANGED <<sessions, file, transactions, passes, rows, tx>>
           /\ loaded'[r] = sessions[s] /\ entity'[r] = sessions[s]
           /\ \/ /\ call'[r].op = "transact" /\ pc'[r] = "execute" /\ sessions[s].status = "active"
                 /\ Cardinality(UsedRefs(s)) + Cardinality(Open(s)) < MaxRows
              \/ /\ call'[r].op = "verify" /\ pc'[r] = "verify" /\ sessions[s].status = "active"
                 /\ passes[s] + Cardinality(Open(s)) < MaxRows
              \/ call'[r].op = "reset" /\ pc'[r] = "wipe"
           /\ trust' = [trust EXCEPT ![s] = TrustAfter(call'[r].op, s)]
  <1>0. LP!TypeOK /\ sessions[s] \in LP!SessionRow
    BY Typed DEF IInv
  <1>1. /\ UNCHANGED <<file, transactions, passes, rows>>
        /\ trust' = [trust EXCEPT ![s] = TrustAfter(call'[r].op, s)]
    BY DEF Begin, committed
  <1>2. ASSUME NEW op \in {"transact", "verify", "reset"},
               NEW label \in {"execute", "verify", "wipe"}, LP!LoadSession(r, s, op, label)
        PROVE  /\ pc[r] = "idle" /\ Exists(s) /\ call'[r].session = s
               /\ UNCHANGED <<sessions, tx>>
               /\ loaded'[r] = sessions[s] /\ entity'[r] = sessions[s]
               /\ call'[r].op = op /\ pc'[r] = label
    BY <1>0, <1>2, LP!LoadEffect, SameAssumptions DEF LP!LoadedOps, LP!tables, LP!Exists, Exists
  <1>3. sessions[s].status # "passed" /\ Exists(s) => sessions[s].status = "active"
    BY <1>0 DEF LP!SessionRow, Exists
  <1>4. CASE BeginTransact(r, s)
    <2>1. /\ sessions[s].status # "passed" /\ LP!LoadSession(r, s, "transact", "execute")
          /\ Cardinality(UsedRefs(s)) + Cardinality(Open(s)) < MaxRows
      BY <1>4, SameBegin DEF BeginTransact, LP!BeginTransact
    <2>2. QED  BY <1>1, <1>2, <1>3, <2>1
  <1>5. CASE BeginVerify(r, s)
    <2>1. /\ sessions[s].status # "passed" /\ LP!LoadSession(r, s, "verify", "verify")
          /\ passes[s] + Cardinality(Open(s)) < MaxRows
      BY <1>5, SameBegin DEF BeginVerify, LP!BeginVerify
    <2>2. QED  BY <1>1, <1>2, <1>3, <2>1
  <1>6. CASE Lab!BeginReset(r, s)
    <2>1. LP!LoadSession(r, s, "reset", "wipe")
      BY <1>6, SameBegin DEF LP!BeginReset
    <2>2. QED  BY <1>1, <1>2, <2>1
  <1>7. QED  BY <1>4, <1>5, <1>6 DEF Begin

\* RoomOK leaves a reference for every transaction that is to be executed.
LEMMA RoomForReference ==
    ASSUME IInv, NEW r \in Requests, pc[r] = "execute"
    PROVE  /\ Own(r) \in SessionIds
           /\ (CHOOSE i \in Refs \ UsedRefs(Own(r)) : TRUE) \in Refs \ UsedRefs(Own(r))
  <1> DEFINE s == Own(r)
  <1>1. s \in SessionIds /\ RoomOK(s)
    BY SessionOfCall DEF IInv, TypeInv, RoomInv
  <1>2. IsFiniteSet(Refs) /\ Cardinality(Refs) = MaxRows
    BY MaxRowsAssumption, FS_Interval DEF Refs
  <1>3. r \in Executing(s) /\ Executing(s) \subseteq Requests
    BY DEF Executing, Open, Own
  <1>4. Cardinality(Executing(s)) \in Nat /\ Cardinality(Executing(s)) > 0
    <2>1. IsFiniteSet(Executing(s))
      BY <1>3, RequestsAssumption, FS_Subset
    <2>2. Cardinality(Executing(s)) \in Nat /\ Cardinality(Executing(s)) # 0
      BY <1>3, <2>1, FS_CardinalityType, FS_EmptySet
    <2>3. QED  BY <2>2
  <1>5. ASSUME Refs \subseteq UsedRefs(s)
        PROVE  FALSE
    <2>1. UsedRefs(s) \subseteq Refs
      <3>1. file[s].logs \subseteq Refs /\ transactions[s] \subseteq Refs
        BY <1>1, Typed DEF IInv, SandboxFile
      <3>2. \A q \in Requests : rows[q].made \subseteq Refs
        BY Typed DEF IInv, RunRows
      <3>3. QED  BY <3>1, <3>2 DEF UsedRefs, Open
    <2>2. UsedRefs(s) = Refs
      BY <1>5, <2>1
    <2>3. QED  BY <1>1, <1>2, <1>4, <2>2, MaxRowsAssumption DEF RoomOK
  <1>6. QED  BY <1>1, <1>5

LEMMA ExecuteEffect ==
    ASSUME IInv, NEW r \in Requests, ExecuteTransaction(r)
    PROVE  /\ pc[r] = "execute" /\ pc'[r] = "session_flush"
           /\ UNCHANGED <<sessions, call, loaded, tx, transactions, passes, trust>>
           /\ entity'[r].status = entity[r].status
           /\ \E ref \in Refs \ UsedRefs(Own(r)) :
                 /\ rows' = [rows EXCEPT ![r].made = {ref}]
                 /\ file' \in [SessionIds -> SandboxFile]
                 /\ \A t \in SessionIds \ {Own(r)} : file'[t] = file[t]
                 /\ file'[Own(r)].logs = file[Own(r)].logs \cup {ref}
                 /\ Proves(file[Own(r)]) => Proves(file'[Own(r)])
  <1> DEFINE s == Own(r)
  <1>1. pc[r] = "execute"
    BY DEF ExecuteTransaction
  <1>2. PICK ref \in Refs \ UsedRefs(s) : ref = CHOOSE i \in Refs \ UsedRefs(s) : TRUE
    BY <1>1, RoomForReference
  <1>3. s \in SessionIds /\ file \in [SessionIds -> SandboxFile]
    BY <1>1, RoomForReference, Typed DEF IInv
  <1>4. PICK f \in {file[s], Deposit(file[s]), Withdraw(file[s])} :
           file' = [file EXCEPT ![s] = [f EXCEPT !.logs = @ \cup {ref}]]
    BY <1>2 DEF ExecuteTransaction
  <1>5. f \in SandboxFile /\ f.logs = file[s].logs /\ (Proves(file[s]) => Proves(f))
    BY <1>3, EffectKeepsProof
  <1> DEFINE g == [f EXCEPT !.logs = @ \cup {ref}]
  <1>6. /\ g \in SandboxFile /\ g.logs = f.logs \cup {ref} /\ (Proves(g) <=> Proves(f))
    BY <1>5, LoggedFile
  <1> HIDE DEF g
  <1>7. /\ file' \in [SessionIds -> SandboxFile] /\ file'[s] = g
        /\ \A t \in SessionIds \ {s} : file'[t] = file[t]
    BY <1>3, <1>4, <1>6 DEF g
  <1>8. rows' = [rows EXCEPT ![r].made = {ref}]
    BY <1>2 DEF ExecuteTransaction
  <1>9. /\ pc'[r] = "session_flush"
        /\ UNCHANGED <<sessions, call, loaded, tx, transactions, passes, trust>>
        /\ entity'[r].status = entity[r].status
    <2>1. pc \in [Requests -> LP!PCs] /\ entity \in [Requests -> LP!SessionRow]
      BY Typed DEF IInv
    <2>2. Lab!ExecuteTransaction(r)
      BY <1>3, ExecuteRefines DEF IInv, TypeInv
    <2>3. entity'[r].status = entity[r].status
      BY <1>3, <2>2, SameExecute, LP!ExecuteEffect, Typed, SameAssumptions DEF IInv, Own
    <2>4. QED  BY <2>1, <2>3 DEF ExecuteTransaction, committed
  <1>10. QED  BY <1>1, <1>5, <1>6, <1>7, <1>8, <1>9

LEMMA VerifyEffect ==
    ASSUME IInv, NEW r \in Requests, VerifyObjective(r)
    PROVE  /\ pc[r] = "verify" /\ pc'[r] = IF tx'[r].verified THEN "session_flush" ELSE "commit"
           /\ UNCHANGED <<sessions, call, loaded, file, transactions, passes, trust>>
           /\ tx'[r].cols = tx[r].cols
           /\ entity'[r].status = IF tx'[r].verified THEN "passed" ELSE entity[r].status
           /\ tx'[r].verified <=> Proves(file[Own(r)])
           /\ tx'[r].verified \in BOOLEAN
           /\ rows' = [rows EXCEPT ![r].passes = IF tx'[r].verified THEN 1 ELSE 0]
  <1>1. /\ LP!VerifyObjective(r) /\ UNCHANGED <<file, transactions, passes, trust>>
        /\ rows' = [rows EXCEPT ![r].passes = IF tx'[r].verified THEN 1 ELSE 0]
    BY SameVerify DEF VerifyObjective, committed
  <1>2. /\ pc[r] = "verify" /\ pc'[r] = IF tx'[r].verified THEN "session_flush" ELSE "commit"
        /\ UNCHANGED <<sessions, call, loaded>> /\ tx'[r].cols = tx[r].cols
        /\ entity'[r].status = IF tx'[r].verified THEN "passed" ELSE entity[r].status
    BY <1>1, LP!VerifyEffect, Typed, SameAssumptions DEF IInv, LP!tables
  <1>3. Own(r) \in SessionIds
    BY <1>2, SessionOfCall DEF IInv, TypeInv
  <1>4. PICK passed \in BOOLEAN :
           /\ passed <=> Proves(file[Own(r)])
           /\ tx' = [tx EXCEPT ![r].verified = passed]
    <2>1. Verdicts[Own(r)] = "drained" <=> Proves(file[Own(r)])
      BY <1>3 DEF Verdicts
    <2>2. (Verdicts[Own(r)] = "drained") \in BOOLEAN
      OBVIOUS
    <2>3. tx' = [tx EXCEPT ![r].verified = (Verdicts[Own(r)] = "drained")]
      BY <1>1 DEF LP!VerifyObjective, Own
    <2>4. QED  BY <2>1, <2>2, <2>3
  <1>5. tx'[r].verified = passed
    BY <1>4, Typed DEF IInv, LP!Transaction
  <1>6. QED  BY <1>1, <1>2, <1>4, <1>5

LEMMA WipeEffect ==
    ASSUME IInv, NEW r \in Requests, ResetRuntime(r)
    PROVE  /\ pc[r] = "wipe" /\ pc'[r] = "clear"
           /\ UNCHANGED <<sessions, call, loaded, entity, tx, transactions, passes, rows, trust>>
           /\ file' = [file EXCEPT ![Own(r)] = InitialFile]
  BY SameResetSteps, Typed DEF IInv, ResetRuntime, committed, LP!ResetRuntime, LP!Goto, LP!tables

LEMMA ClearRunsEffect ==
    ASSUME IInv, NEW r \in Requests, ClearRuns(r)
    PROVE  /\ pc[r] = "clear" /\ pc'[r] = "clear_report" /\ ~Held(r)
           /\ UNCHANGED <<sessions, call, loaded, entity, tx, file, transactions, passes, trust>>
           /\ rows' = [rows EXCEPT ![r].gone = ClearedRows(r)]
  BY SameResetSteps, Typed DEF IInv, ClearRuns, committed, LP!ClearRuns, LP!Goto, LP!tables

LEMMA ClearReportEffect ==
    ASSUME IInv, NEW r \in Requests, Lab!ClearReport(r)
    PROVE  /\ pc[r] = "clear_report" /\ pc'[r] = "session_flush"
           /\ UNCHANGED <<sessions, call, loaded>>
           /\ tx'[r].cols = tx[r].cols /\ tx'[r].verified = tx[r].verified
           /\ entity'[r].status = "active"
  <1>1. LP!ClearReport(r)
    BY SameResetSteps
  <1>2. call[r].session \in SessionIds
    BY <1>1, SessionOfCall DEF IInv, TypeInv, LP!ClearReport, Own
  <1>3. QED  BY <1>1, <1>2, LP!ClearReportEffect, Typed, SameAssumptions DEF IInv, LP!tables

LEMMA FlushEffect ==
    ASSUME IInv, NEW r \in Requests, Lab!FlushSession(r)
    PROVE  /\ pc[r] = "session_flush" /\ pc'[r] = "commit"
           /\ UNCHANGED <<sessions, call>>
           /\ tx'[r].verified = tx[r].verified
           /\ "status" \in tx'[r].cols <=> entity[r].status # loaded[r].status
           /\ "status" \in tx'[r].cols => entity'[r].status = entity[r].status
  <1>1. LP!FlushSession(r) /\ pc[r] = "session_flush"
    BY SameFlush DEF LP!FlushSession
  <1>2. call[r].op # "submit" /\ call[r].op # "draft"
    BY DEF IInv, RequestInv, PointOK
  <1>3. loaded[r].owner = entity[r].owner
    BY <1>1, <1>2 DEF IInv, TypeInv, LP!TypeInv, LP!MemoryOK, LP!HasLoaded, LP!InMemory
  <1>4. pc'[r] = "commit"
    BY <1>1, <1>2, Typed DEF IInv, LP!FlushSession, LP!Goto
  <1>5. QED
    BY <1>1, <1>3, <1>4, LP!FlushSessionEffect, Typed, SameAssumptions DEF IInv, LP!tables

LEMMA CloseEffect ==
    ASSUME IInv, NEW r \in Requests, LP!Close(r)
    PROVE  pc'[r] = "idle" /\ call'[r].op = "none" /\ ~tx'[r].verified /\ tx'[r].cols = {}
  BY LP!CloseEffect, Typed, SameAssumptions DEF IInv, LP!NoCall, LP!NoWrites

LEMMA AbortEffect ==
    ASSUME IInv, NEW r \in Requests, Abort(r)
    PROVE  /\ pc[r] # "idle"
           /\ pc'[r] = "idle" /\ call'[r].op = "none" /\ ~tx'[r].verified /\ tx'[r].cols = {}
           /\ UNCHANGED <<sessions, file, transactions, passes>>
           /\ rows' = [rows EXCEPT ![r] = NoRows]
           /\ trust' = IF call[r].op = "reset"
                       THEN [trust EXCEPT ![Own(r)] = "torn"] ELSE trust
  BY SameAbort, CloseEffect DEF Abort, committed, LP!Abort, LP!tables

LEMMA CommitEffect ==
    ASSUME IInv, NEW r \in Requests, Commit(r)
    PROVE  /\ pc[r] = "commit" /\ Own(r) \in SessionIds
           /\ pc'[r] = "idle" /\ call'[r].op = "none" /\ ~tx'[r].verified /\ tx'[r].cols = {}
           /\ UNCHANGED file
           /\ \A t \in SessionIds \ {Own(r)} : sessions'[t] = sessions[t]
           /\ tx[r].opened => sessions'[Own(r)].status = "active"
           /\ ~tx[r].opened =>
                 sessions'[Own(r)].status = IF "status" \in tx[r].cols THEN entity[r].status
                                            ELSE sessions[Own(r)].status
           /\ transactions' = [transactions EXCEPT ![Own(r)] =
                                  (@ \ rows[r].gone.made) \cup rows[r].made]
           /\ passes' = [passes EXCEPT ![Own(r)] = @ - rows[r].gone.passes + rows[r].passes]
           /\ rows' = [rows EXCEPT ![r] = NoRows]
           /\ trust' = IF call[r].op = "reset" /\ trust[Own(r)] = "healing"
                       THEN [trust EXCEPT ![Own(r)] = "whole"] ELSE trust
  <1>1. LP!Commit(r) /\ LP!Close(r)
    BY SameCommit DEF Commit, LP!Commit
  <1>2. /\ pc[r] = "commit" /\ call[r].session \in SessionIds /\ call[r].user \in Users
        /\ \A t \in SessionIds \ {call[r].session} : sessions'[t] = sessions[t]
        /\ tx[r].opened => sessions'[call[r].session] = LP!NewSession(call[r].user)
        /\ ~tx[r].opened =>
              sessions'[call[r].session] =
                  LP!Merged(sessions[call[r].session], entity[r], tx[r].cols)
    BY <1>1, LP!CommitEffect, SameAssumptions DEF IInv, TypeInv
  <1>3. tx[r].opened => sessions'[Own(r)].status = "active"
    BY <1>2, LP!NewSessionTyped, SameAssumptions DEF Own
  <1>4. ~tx[r].opened =>
           sessions'[Own(r)].status = IF "status" \in tx[r].cols THEN entity[r].status
                                      ELSE sessions[Own(r)].status
    <2>1. /\ sessions[call[r].session] \in LP!SessionRow /\ entity[r] \in LP!SessionRow
          /\ tx[r].cols \in SUBSET LP!SessionCols
      BY <1>2, Typed DEF IInv, LP!Transaction
    <2>2. QED  BY <1>2, <2>1, LP!MergedSession, SameAssumptions DEF Own
  <1>5. QED
    BY <1>1, <1>2, <1>3, <1>4, CloseEffect DEF Commit, Own

-----------------------------------------------------------------------------
(* The rows keep their types. *)

LEMMA OpenFinite ==
    ASSUME NEW s
    PROVE  /\ IsFiniteSet(Open(s)) /\ IsFiniteSet(Executing(s)) /\ IsFiniteSet(Verifying(s))
           /\ Cardinality(Open(s)) \in Nat /\ Cardinality(Executing(s)) \in Nat
           /\ Cardinality(Verifying(s)) \in Nat
           /\ Cardinality(Executing(s)) <= Cardinality(Open(s))
           /\ Cardinality(Verifying(s)) <= Cardinality(Open(s))
  <1>1. Open(s) \subseteq Requests
    BY DEF Open
  <1>2. Executing(s) \subseteq Open(s) /\ Verifying(s) \subseteq Open(s)
    BY DEF Executing, Verifying
  <1>3. IsFiniteSet(Open(s))
    BY <1>1, RequestsAssumption, FS_Subset
  <1>4. QED  BY <1>2, <1>3, FS_Subset, FS_CardinalityType

\* RoomOK leaves room for every verification that is to be committed.
LEMMA RoomForPass ==
    ASSUME IInv, NEW r \in Requests, pc[r] # "idle", rows[r].passes = 1
    PROVE  passes[Own(r)] + 1 <= MaxRows
  <1>1. Own(r) \in SessionIds /\ RoomOK(Own(r))
    BY SessionOfCall DEF IInv, TypeInv, RoomInv
  <1>2. r \in Verifying(Own(r))
    BY DEF IInv, RequestInv, WrittenOK, Verifying, Open, Own
  <1>3. Cardinality(Verifying(Own(r))) # 0
    BY <1>2, OpenFinite, FS_EmptySet
  <1>4. passes[Own(r)] \in Nat
    BY <1>1, Typed DEF IInv
  <1>5. QED  BY <1>1, <1>3, <1>4, OpenFinite, MaxRowsAssumption DEF RoomOK

LEMMA WrittenTyped ==
    ASSUME IInv, NEW r \in Requests
    PROVE  /\ rows[r] \in RunRows
           /\ \A ref \in Refs : [rows[r] EXCEPT !.made = {ref}] \in RunRows
           /\ \A n \in 0 .. 1 : [rows[r] EXCEPT !.passes = n] \in RunRows
           /\ \A g \in Gone : [rows[r] EXCEPT !.gone = g] \in RunRows
  <1>1. rows[r] \in RunRows
    BY Typed DEF IInv
  <1>2. QED  BY <1>1 DEF RunRows

LEMMA StepRowsTyped ==
    ASSUME IInv, NEW r \in Requests, Step(r)
    PROVE  RowsTyped'
  <1>0. /\ file \in [SessionIds -> SandboxFile]
        /\ transactions \in [SessionIds -> SUBSET Refs]
        /\ passes \in [SessionIds -> 0 .. MaxRows]
        /\ rows \in [Requests -> RunRows]
        /\ trust \in [SessionIds -> {"whole", "healing", "torn"}]
    BY Typed DEF IInv
  <1>1. CASE \E u \in Users : CreateSession(r, u)
    BY <1>0, <1>1, CreateEffect, InitialFileTyped DEF RowsTyped
  <1>2. CASE \E s \in SessionIds : Begin(r, s)
    <2>1. PICK s \in SessionIds : Begin(r, s)
      BY <1>2
    <2>2. /\ UNCHANGED <<file, transactions, passes, rows>>
          /\ trust' = [trust EXCEPT ![s] = TrustAfter(call'[r].op, s)]
      BY <2>1, BeginEffect
    <2>3. TrustAfter(call'[r].op, s) \in {"whole", "healing", "torn"}
      BY <1>0 DEF TrustAfter
    <2>4. QED  BY <1>0, <2>2, <2>3 DEF RowsTyped
  <1>3. CASE ExecuteTransaction(r)
    <2>1. PICK ref \in Refs : rows' = [rows EXCEPT ![r].made = {ref}]
      BY <1>3, ExecuteEffect
    <2>2. rows' \in [Requests -> RunRows]
      BY <1>0, <2>1, WrittenTyped
    <2>3. QED  BY <1>0, <1>3, <2>2, ExecuteEffect DEF RowsTyped
  <1>4. CASE VerifyObjective(r)
    <2>1. rows' \in [Requests -> RunRows]
      <3>1. PICK n \in 0 .. 1 : rows' = [rows EXCEPT ![r].passes = n]
        BY <1>4, VerifyEffect
      <3>2. QED  BY <1>0, <3>1, WrittenTyped
    <2>2. QED  BY <1>0, <1>4, <2>1, VerifyEffect DEF RowsTyped
  <1>5. CASE ResetRuntime(r)
    BY <1>0, <1>5, WipeEffect, InitialFileTyped DEF RowsTyped
  <1>6. CASE ClearRuns(r)
    <2>1. Own(r) \in SessionIds
      BY <1>6, ClearRunsEffect, SessionOfCall DEF IInv, TypeInv
    <2>2. ClearedRows(r) \in Gone
      BY <1>0, <2>1 DEF ClearedRows, Gone
    <2>3. rows' \in [Requests -> RunRows]
      BY <1>0, <1>6, <2>2, ClearRunsEffect, WrittenTyped
    <2>4. QED  BY <1>0, <1>6, <2>3, ClearRunsEffect DEF RowsTyped
  <1>7. CASE (Lab!ClearReport(r) \/ Lab!FlushSession(r))
             /\ UNCHANGED <<file, committed, rows, trust>>
    BY <1>0, <1>7 DEF RowsTyped, committed
  <1>8. CASE Commit(r)
    <2> DEFINE s == Own(r)
    <2>1. s \in SessionIds /\ pc[r] = "commit"
      BY <1>8, CommitEffect
    <2>2. /\ rows[r].made \in SUBSET Refs /\ rows[r].passes \in 0 .. 1
          /\ rows[r].gone.made \in SUBSET Refs /\ rows[r].gone.passes \in 0 .. MaxRows
      BY <1>0 DEF RunRows, Gone
    <2>3. (transactions[s] \ rows[r].gone.made) \cup rows[r].made \in SUBSET Refs
      BY <1>0, <2>1, <2>2
    <2>4. passes[s] - rows[r].gone.passes + rows[r].passes \in 0 .. MaxRows
      <3>1. rows[r].gone.passes <= passes[s]
        BY <2>1 DEF IInv, RequestInv, GoneOK
      <3>2. rows[r].passes = 1 => passes[s] + 1 <= MaxRows
        BY <2>1, RoomForPass
      <3>3. passes[s] \in 0 .. MaxRows
        BY <1>0, <2>1
      <3>4. QED  BY <2>2, <3>1, <3>2, <3>3, MaxRowsAssumption
    <2>5. transactions' \in [SessionIds -> SUBSET Refs] /\ passes' \in [SessionIds -> 0 .. MaxRows]
      BY <1>0, <1>8, <2>3, <2>4, CommitEffect
    <2>6. /\ UNCHANGED file /\ rows' \in [Requests -> RunRows]
          /\ trust' \in [SessionIds -> {"whole", "healing", "torn"}]
      <3>1. /\ UNCHANGED file /\ rows' = [rows EXCEPT ![r] = NoRows]
            /\ trust' = trust \/ trust' = [trust EXCEPT ![s] = "whole"]
        BY <1>8, CommitEffect
      <3>2. QED  BY <1>0, <3>1, NoRowsTyped
    <2>7. QED  BY <1>0, <2>5, <2>6 DEF RowsTyped
  <1>9. CASE Abort(r)
    BY <1>0, <1>9, AbortEffect, NoRowsTyped DEF RowsTyped
  <1>10. QED
    BY <1>1, <1>2, <1>3, <1>4, <1>5, <1>6, <1>7, <1>8, <1>9 DEF Step, Arrive, Proceed

-----------------------------------------------------------------------------
(* The requests keep to their points, and carry back what they may. *)

LEMMA RequestFacts ==
    ASSUME IInv, NEW r \in Requests
    PROVE  /\ PointOK(r) /\ WrittenOK(r) /\ CarriedOK(r) /\ GoneOK(r)
           /\ pc[r] \notin {"idle", "commit", "upsert", "report_flush"}
                 => tx[r].cols = {} /\ entity[r].status # "absent"
           /\ rows[r] \in RunRows
  <1>1. PointOK(r) /\ WrittenOK(r) /\ CarriedOK(r) /\ GoneOK(r)
    BY DEF IInv, RequestInv
  <1>2. LP!MemoryOK(r) /\ pc[r] \in LP!PCs
    BY Typed DEF IInv, TypeInv, LP!TypeInv
  <1>3. call[r].op # "draft"
    BY <1>1 DEF PointOK
  <1>4. QED
    BY <1>1, <1>2, <1>3, Typed DEF IInv, LP!MemoryOK, LP!HasLoaded, LP!InMemory, LP!PCs

LEMMA WrittenFields ==
    ASSUME IInv, NEW r \in Requests
    PROVE  /\ \A ref : rows' = [rows EXCEPT ![r].made = {ref}] =>
                 rows'[r].passes = rows[r].passes /\ rows'[r].gone = rows[r].gone
                 /\ rows'[r].made = {ref}
           /\ \A n : rows' = [rows EXCEPT ![r].passes = n] =>
                 rows'[r].passes = n /\ rows'[r].gone = rows[r].gone
                 /\ rows'[r].made = rows[r].made
           /\ \A g : rows' = [rows EXCEPT ![r].gone = g] =>
                 rows'[r].passes = rows[r].passes /\ rows'[r].gone = g
                 /\ rows'[r].made = rows[r].made
           /\ \A w : rows' = [rows EXCEPT ![r] = w] => rows'[r] = w
  BY Typed DEF IInv, RunRows

LEMMA StepRequest ==
    ASSUME IInv, NEW r \in Requests, Step(r)
    PROVE  PointOK(r)' /\ WrittenOK(r)' /\ CarriedOK(r)'
  <1>0. PointOK(r) /\ WrittenOK(r) /\ CarriedOK(r)
    BY RequestFacts
  <1>1. CASE \E u \in Users : CreateSession(r, u)
    <2>1. /\ pc[r] = "idle" /\ pc'[r] = "commit" /\ call'[r].op = "create"
          /\ ~tx'[r].verified /\ UNCHANGED rows
      BY <1>1, CreateEffect
    <2>2. QED  BY <2>1, IdleWrites, NoRowsTyped DEF PointOK, WrittenOK, CarriedOK
  <1>2. CASE \E s \in SessionIds : Begin(r, s)
    <2>1. PICK s \in SessionIds : Begin(r, s)
      BY <1>2
    <2>2. pc[r] = "idle" /\ UNCHANGED <<rows, tx>>
      BY <2>1, BeginEffect
    <2>3. ~tx'[r].verified /\ rows'[r] = NoRows
      BY <2>2, IdleWrites
    <2>4. PointOK(r)' /\ WrittenOK(r)'
      BY <2>1, <2>3, BeginEffect, NoRowsTyped DEF PointOK, WrittenOK
    <2>5. CarriedOK(r)'
      BY <2>1, <2>3, BeginEffect DEF CarriedOK
    <2>6. QED  BY <2>4, <2>5
  <1>3. CASE ExecuteTransaction(r)
    <2>1. /\ pc[r] = "execute" /\ pc'[r] = "session_flush"
          /\ UNCHANGED <<call, loaded, tx>> /\ entity'[r].status = entity[r].status
      BY <1>3, ExecuteEffect
    <2>2. PICK ref : rows' = [rows EXCEPT ![r].made = {ref}]
      BY <1>3, ExecuteEffect
    <2>3. call[r].op = "transact"
      BY <1>0, <2>1 DEF PointOK
    <2>4. PointOK(r)' /\ CarriedOK(r)'
      BY <1>0, <2>1, <2>3 DEF PointOK, CarriedOK
    <2>5. WrittenOK(r)'
      BY <1>0, <2>1, <2>2, <2>3, WrittenFields DEF WrittenOK
    <2>6. QED  BY <2>4, <2>5
  <1>4. CASE VerifyObjective(r)
    <2>1. /\ pc[r] = "verify" /\ pc'[r] = IF tx'[r].verified THEN "session_flush" ELSE "commit"
          /\ UNCHANGED <<call, loaded>> /\ tx'[r].cols = tx[r].cols
          /\ entity'[r].status = IF tx'[r].verified THEN "passed" ELSE entity[r].status
      BY <1>4, VerifyEffect
    <2>2. PICK n : /\ n = IF tx'[r].verified THEN 1 ELSE 0
                   /\ rows' = [rows EXCEPT ![r].passes = n]
      BY <1>4, VerifyEffect
    <2>3. call[r].op = "verify" /\ tx[r].cols = {}
      BY <1>0, <2>1, RequestFacts DEF PointOK
    <2>4. PointOK(r)' /\ CarriedOK(r)'
      BY <1>0, <2>1, <2>3 DEF PointOK, CarriedOK
    <2>5. WrittenOK(r)'
      <3>1. /\ rows'[r].passes = n /\ rows'[r].gone = rows[r].gone
            /\ rows'[r].made = rows[r].made
        <4>1. rows \in [Requests -> RunRows]
          BY Typed DEF IInv
        <4>2. QED  BY <2>2, <4>1 DEF RunRows
      <3>2. rows[r].made = {} /\ rows[r].gone = NoRows.gone
        BY <1>0, <2>3 DEF WrittenOK
      <3>3. call'[r].op = "verify" /\ pc'[r] # "verify"
        BY <2>1, <2>3
      <3>4. QED  BY <2>2, <3>1, <3>2, <3>3 DEF WrittenOK
    <2>6. QED  BY <2>4, <2>5
  <1>5. CASE ResetRuntime(r)
    <2>1. /\ pc[r] = "wipe" /\ pc'[r] = "clear" /\ UNCHANGED <<call, loaded, entity, tx, rows>>
      BY <1>5, WipeEffect
    <2>2. QED  BY <1>0, <2>1 DEF PointOK, WrittenOK, CarriedOK
  <1>6. CASE ClearRuns(r)
    <2>1. /\ pc[r] = "clear" /\ pc'[r] = "clear_report"
          /\ UNCHANGED <<call, loaded, entity, tx>>
          /\ rows' = [rows EXCEPT ![r].gone = ClearedRows(r)]
      BY <1>6, ClearRunsEffect
    <2>2. call[r].op = "reset"
      BY <1>0, <2>1 DEF PointOK
    <2>3. PointOK(r)' /\ CarriedOK(r)'
      BY <1>0, <2>1, <2>2 DEF PointOK, CarriedOK
    <2>4. WrittenOK(r)'
      BY <1>0, <2>1, <2>2, WrittenFields DEF WrittenOK
    <2>5. QED  BY <2>3, <2>4
  <1>7. CASE Lab!ClearReport(r) /\ UNCHANGED <<file, committed, rows, trust>>
    <2>1. /\ pc[r] = "clear_report" /\ pc'[r] = "session_flush" /\ UNCHANGED <<call, loaded>>
          /\ tx'[r].cols = tx[r].cols /\ tx'[r].verified = tx[r].verified
          /\ entity'[r].status = "active" /\ UNCHANGED rows
      BY <1>7, ClearReportEffect
    <2>2. call[r].op = "reset"
      BY <1>0, <2>1 DEF PointOK
    <2>3. QED  BY <1>0, <2>1, <2>2 DEF PointOK, WrittenOK, CarriedOK
  <1>8. CASE Lab!FlushSession(r) /\ UNCHANGED <<file, committed, rows, trust>>
    <2>1. /\ pc[r] = "session_flush" /\ pc'[r] = "commit" /\ UNCHANGED call
          /\ tx'[r].verified = tx[r].verified
          /\ "status" \in tx'[r].cols <=> entity[r].status # loaded[r].status
          /\ "status" \in tx'[r].cols => entity'[r].status = entity[r].status
          /\ UNCHANGED rows
      BY <1>8, FlushEffect
    <2>2. PointOK(r)' /\ WrittenOK(r)'
      BY <1>0, <2>1 DEF PointOK, WrittenOK
    <2>3. CarriedOK(r)'
      BY <1>0, <2>1 DEF PointOK, WrittenOK, CarriedOK
    <2>4. QED  BY <2>2, <2>3
  <1>9. CASE Commit(r) \/ Abort(r)
    <2>1. /\ pc'[r] = "idle" /\ call'[r].op = "none" /\ ~tx'[r].verified
          /\ rows' = [rows EXCEPT ![r] = NoRows]
      BY <1>9, CommitEffect, AbortEffect
    <2>2. QED  BY <2>1, WrittenFields, NoRowsTyped DEF PointOK, WrittenOK, CarriedOK
  <1>10. QED
    BY <1>1, <1>2, <1>3, <1>4, <1>5, <1>6, <1>7, <1>8, <1>9 DEF Step, Arrive, Proceed

-----------------------------------------------------------------------------
(* A step concerns one session. *)

Site(r) == IF pc[r] = "idle" THEN call'[r].session ELSE Own(r)

\* Between the arrival and the end of a request its call stays.
LEMMA ProceedCall ==
    ASSUME IInv, NEW r \in Requests, Proceed(r), ~Commit(r)
    PROVE  UNCHANGED call /\ pc[r] # "idle" /\ pc'[r] # "idle"
  <1>1. CASE ExecuteTransaction(r) \/ VerifyObjective(r)
    BY <1>1, ExecuteEffect, VerifyEffect
  <1>2. CASE ResetRuntime(r) \/ ClearRuns(r)
    BY <1>2, WipeEffect, ClearRunsEffect
  <1>3. CASE Lab!ClearReport(r) \/ Lab!FlushSession(r)
    BY <1>3, ClearReportEffect, FlushEffect
  <1>4. QED  BY <1>1, <1>2, <1>3 DEF Proceed

LEMMA ArriveCall ==
    ASSUME IInv, NEW r \in Requests, Arrive(r)
    PROVE  /\ pc[r] = "idle" /\ pc'[r] # "idle" /\ call'[r].session \in SessionIds
           /\ rows' = rows /\ UNCHANGED <<sessions, transactions, passes>>
           /\ Site(r) = call'[r].session
  <1>1. CASE \E u \in Users : CreateSession(r, u)
    BY <1>1, CreateEffect DEF Site
  <1>2. CASE \E s \in SessionIds : Begin(r, s)
    BY <1>2, BeginEffect DEF Site
  <1>3. QED  BY <1>1, <1>2 DEF Arrive

LEMMA EndCall ==
    ASSUME IInv, NEW r \in Requests, Commit(r) \/ Abort(r)
    PROVE  /\ pc[r] # "idle" /\ pc'[r] = "idle"
           /\ rows' = [rows EXCEPT ![r] = NoRows]
  BY CommitEffect, AbortEffect

LEMMA OpenAfter ==
    ASSUME IInv, NEW r \in Requests, Step(r), NEW s
    PROVE  /\ \A q \in Requests \ {r} : q \in Open(s)' <=> q \in Open(s)
           /\ r \in Open(s)' <=> pc'[r] # "idle" /\ call'[r].session = s
  BY OthersKept DEF Open

LEMMA SiteOpen ==
    ASSUME IInv, NEW r \in Requests, Step(r)
    PROVE  /\ Site(r) \in SessionIds
           /\ \A s : r \in Open(s) => s = Site(r)
           /\ \A s : r \in Open(s)' => s = Site(r)
           /\ pc[r] # "idle" => Site(r) = Own(r)
  <1>1. CASE Arrive(r)
    BY <1>1, ArriveCall, OpenAfter DEF Open
  <1>2. CASE Proceed(r) /\ ~Commit(r)
    <2>1. UNCHANGED call /\ pc[r] # "idle"
      BY <1>2, ProceedCall
    <2>2. Own(r) \in SessionIds
      BY <2>1, SessionOfCall DEF IInv, TypeInv
    <2>3. QED  BY <2>1, <2>2, OpenAfter DEF Site, Own, Open
  <1>3. CASE Commit(r) \/ Abort(r)
    <2>1. pc[r] # "idle" /\ pc'[r] = "idle"
      BY <1>3, EndCall
    <2>2. Own(r) \in SessionIds
      BY <2>1, SessionOfCall DEF IInv, TypeInv
    <2>3. QED  BY <2>1, <2>2, OpenAfter DEF Site, Own, Open
  <1>4. QED  BY <1>1, <1>2, <1>3 DEF Step

LEMMA OtherSession ==
    ASSUME IInv, NEW r \in Requests, Step(r), NEW s \in SessionIds \ {Site(r)}
    PROVE  /\ sessions'[s] = sessions[s] /\ file'[s] = file[s]
           /\ transactions'[s] = transactions[s] /\ passes'[s] = passes[s]
           /\ trust'[s] = trust[s]
           /\ r \notin Open(s) /\ Open(s)' = Open(s)
  <1>0. /\ file \in [SessionIds -> SandboxFile]
        /\ transactions \in [SessionIds -> SUBSET Refs]
        /\ passes \in [SessionIds -> 0 .. MaxRows]
        /\ trust \in [SessionIds -> {"whole", "healing", "torn"}]
    BY Typed DEF IInv
  <1>1. r \notin Open(s) /\ Open(s)' = Open(s)
    BY SiteOpen, OpenAfter DEF Open
  <1>2. CASE \E u \in Users : CreateSession(r, u)
    <2>1. /\ file' = [file EXCEPT ![Site(r)] = InitialFile]
          /\ UNCHANGED <<sessions, transactions, passes, trust>>
      BY <1>2, CreateEffect DEF Site
    <2>2. QED  BY <1>0, <1>1, <2>1
  <1>3. CASE \E t \in SessionIds : Begin(r, t)
    <2>1. PICK t \in SessionIds : Begin(r, t)
      BY <1>3
    <2>2. /\ t = Site(r) /\ UNCHANGED <<sessions, file, transactions, passes>>
          /\ trust' = [trust EXCEPT ![t] = TrustAfter(call'[r].op, t)]
      BY <2>1, BeginEffect DEF Site
    <2>3. QED  BY <1>0, <1>1, <2>2
  <1>4. CASE Proceed(r) \/ Abort(r)
    <2>0. Site(r) = Own(r)
      <3>1. pc[r] # "idle"
        BY <1>4, ProceedCall, EndCall
      <3>2. QED  BY <3>1, SiteOpen
    <2>1. CASE ExecuteTransaction(r)
      BY <1>1, <2>0, <2>1, ExecuteEffect
    <2>2. CASE VerifyObjective(r) \/ ClearRuns(r)
      BY <1>1, <2>2, VerifyEffect, ClearRunsEffect
    <2>3. CASE ResetRuntime(r)
      BY <1>0, <1>1, <2>0, <2>3, WipeEffect
    <2>4. CASE (Lab!ClearReport(r) \/ Lab!FlushSession(r))
               /\ UNCHANGED <<file, committed, rows, trust>>
      BY <1>1, <2>4, ClearReportEffect, FlushEffect DEF committed
    <2>5. CASE Commit(r)
      <3>1. /\ UNCHANGED file /\ sessions'[s] = sessions[s]
            /\ trust' = trust \/ trust' = [trust EXCEPT ![Own(r)] = "whole"]
            /\ transactions' = [transactions EXCEPT ![Own(r)] =
                                   (@ \ rows[r].gone.made) \cup rows[r].made]
            /\ passes' = [passes EXCEPT ![Own(r)] = @ - rows[r].gone.passes + rows[r].passes]
        BY <2>0, <2>5, CommitEffect
      <3>2. QED  BY <1>0, <1>1, <2>0, <3>1
    <2>6. CASE Abort(r)
      <3>1. /\ UNCHANGED <<sessions, file, transactions, passes>>
            /\ trust' = trust \/ trust' = [trust EXCEPT ![Own(r)] = "torn"]
        BY <2>6, AbortEffect
      <3>2. QED  BY <1>0, <1>1, <2>0, <3>1
    <2>7. QED
      BY <1>4, <2>1, <2>2, <2>3, <2>4, <2>5, <2>6 DEF Proceed
  <1>5. QED  BY <1>2, <1>3, <1>4 DEF Step, Arrive

-----------------------------------------------------------------------------
(* Two resets never delete the same verifications. *)

LEMMA GoneAfter ==
    ASSUME IInv, NEW r \in Requests, Step(r)
    PROVE  \/ rows'[r].gone.passes = 0
           \/ /\ rows'[r].gone = rows[r].gone /\ pc[r] # "idle"
              /\ UNCHANGED <<call, passes>>
           \/ ClearRuns(r)
  <1>1. CASE Arrive(r)
    <2>1. rows'[r] = NoRows
      BY <1>1, ArriveCall, IdleWrites
    <2>2. QED  BY <2>1, NoRowsTyped
  <1>2. CASE Commit(r) \/ Abort(r)
    <2>1. rows'[r] = NoRows
      BY <1>2, EndCall, WrittenFields
    <2>2. QED  BY <2>1, NoRowsTyped
  <1>3. CASE Proceed(r) /\ ~Commit(r) /\ ~ClearRuns(r)
    <2>1. UNCHANGED call /\ pc[r] # "idle"
      BY <1>3, ProceedCall
    <2>2. UNCHANGED passes /\ rows'[r].gone = rows[r].gone
      <3>1. CASE ExecuteTransaction(r)
        BY <3>1, ExecuteEffect, WrittenFields
      <3>2. CASE VerifyObjective(r)
        <4>1. PICK n : UNCHANGED passes /\ rows' = [rows EXCEPT ![r].passes = n]
          BY <3>2, VerifyEffect
        <4>2. rows \in [Requests -> RunRows]
          BY Typed DEF IInv
        <4>3. QED  BY <4>1, <4>2 DEF RunRows
      <3>3. CASE ResetRuntime(r)
        BY <3>3, WipeEffect
      <3>4. CASE UNCHANGED <<file, committed, rows, trust>>
        BY <3>4 DEF committed
      <3>5. QED  BY <1>3, <3>1, <3>2, <3>3, <3>4 DEF Proceed
    <2>3. QED  BY <2>1, <2>2
  <1>4. QED  BY <1>1, <1>2, <1>3 DEF Step

LEMMA StepGonePairs ==
    ASSUME IInv, NEW r \in Requests, Step(r), NEW q \in Requests \ {r},
           pc'[r] # "idle", pc[q] # "idle", call[q].session = call'[r].session
    PROVE  rows'[r].gone.passes = 0 \/ rows[q].gone.passes = 0
  <1>1. CASE pc[r] # "idle" /\ rows'[r].gone = rows[r].gone /\ UNCHANGED call
    <2>1. q \in Open(Own(r)) \ {r}
      BY <1>1 DEF Open, Own
    <2>2. QED  BY <1>1, <2>1, RequestFacts DEF GoneOK
  <1>2. CASE ClearRuns(r)
    <2>1. /\ pc[r] # "idle" /\ ~Held(r) /\ UNCHANGED call
          /\ rows' = [rows EXCEPT ![r].gone = ClearedRows(r)]
      BY <1>2, ClearRunsEffect
    <2>2. rows'[r].gone = ClearedRows(r)
      BY <2>1, WrittenFields
    <2>3. q \in Open(Own(r)) \ {r}
      BY <2>1 DEF Open, Own
    <2>4. ~(rows[q].gone.passes > 0 /\ ClearedRows(r).passes > 0)
      BY <2>1, <2>3 DEF Held
    <2>5. rows[q].gone.passes \in Nat /\ ClearedRows(r).passes \in Nat
      <3>1. rows[q].gone.passes \in Nat
        BY Typed DEF IInv, RunRows, Gone
      <3>2. Own(r) \in SessionIds
        BY <2>1, SessionOfCall DEF IInv, TypeInv
      <3>3. passes[Own(r)] \in Nat
        BY <3>2, Typed DEF IInv
      <3>4. QED  BY <3>1, <3>3 DEF ClearedRows
    <2>6. QED  BY <2>2, <2>4, <2>5
  <1>3. QED  BY <1>1, <1>2, GoneAfter

LEMMA StepGoneBound ==
    ASSUME IInv, NEW r \in Requests, Step(r), NEW q \in Requests, pc'[q] # "idle"
    PROVE  rows'[q].gone.passes <= passes'[call'[q].session]
  <1>0. RowsTyped' /\ Site(r) \in SessionIds
    BY StepRowsTyped, SiteOpen
  <1>1. CASE q = r
    <2>1. call'[r].session \in SessionIds
      BY <1>1, SiteOpen, OpenAfter
    <2>2. CASE rows'[r].gone.passes = 0
      BY <1>0, <1>1, <2>1, <2>2 DEF RowsTyped
    <2>3. CASE rows'[r].gone = rows[r].gone /\ pc[r] # "idle" /\ UNCHANGED <<call, passes>>
      BY <1>1, <2>3, RequestFacts DEF GoneOK, Own
    <2>4. CASE ClearRuns(r)
      <3>1. UNCHANGED <<call, passes>> /\ rows' = [rows EXCEPT ![r].gone = ClearedRows(r)]
        BY <2>4, ClearRunsEffect
      <3>2. rows'[r].gone.passes = passes[Own(r)]
        <4>1. rows'[r].gone = ClearedRows(r)
          BY <3>1, WrittenFields
        <4>2. QED  BY <4>1 DEF ClearedRows
      <3>3. passes'[call'[r].session] \in Nat
        BY <1>0, <2>1 DEF RowsTyped
      <3>4. passes'[call'[r].session] = passes[Own(r)]
        BY <3>1 DEF Own
      <3>5. QED  BY <1>1, <3>2, <3>3, <3>4
    <2>5. QED  BY <2>2, <2>3, <2>4, GoneAfter
  <1>2. CASE q # r
    <2>1. pc[q] # "idle" /\ call'[q] = call[q] /\ rows'[q] = rows[q]
      BY <1>2, OthersKept
    <2>2. Own(q) \in SessionIds /\ rows[q].gone.passes <= passes[Own(q)]
      BY <2>1, SessionOfCall, RequestFacts DEF IInv, TypeInv, GoneOK
    <2>3. CASE passes'[Own(q)] = passes[Own(q)]
      BY <2>1, <2>2, <2>3 DEF Own
    <2>4. CASE Commit(r) /\ Own(q) = Own(r)
      <3>1. /\ pc[r] # "idle"
            /\ passes' = [passes EXCEPT ![Own(r)] = @ - rows[r].gone.passes + rows[r].passes]
        BY <2>4, CommitEffect
      <3>2. /\ rows[r].gone.passes \in Nat /\ rows[r].passes \in Nat /\ passes[Own(q)] \in Nat
            /\ rows[q].gone.passes \in Nat /\ passes'[Own(q)] \in Nat
        <4>1. rows[r] \in RunRows /\ rows[q] \in RunRows
          BY RequestFacts
        <4>2. passes \in [SessionIds -> 0 .. MaxRows] /\ passes' \in [SessionIds -> 0 .. MaxRows]
          BY <1>0, Typed DEF IInv, RowsTyped
        <4>3. QED  BY <2>2, <4>1, <4>2 DEF RunRows, Gone
      <3>3. passes'[Own(q)] = passes[Own(q)] - rows[r].gone.passes + rows[r].passes
        <4>1. passes \in [SessionIds -> 0 .. MaxRows]
          BY Typed DEF IInv
        <4>2. QED  BY <2>2, <2>4, <3>1, <4>1
      <3>4. rows[r].gone.passes = 0 \/ rows[q].gone.passes = 0
        <4>1. q \in Open(Own(r)) \ {r}
          BY <1>2, <2>1, <2>4 DEF Open, Own
        <4>2. QED  BY <3>1, <4>1, RequestFacts DEF GoneOK
      <3>5. QED  BY <2>1, <2>2, <3>2, <3>3, <3>4 DEF Own
    <2>5. passes'[Own(q)] = passes[Own(q)] \/ (Commit(r) /\ Own(q) = Own(r))
      <3>1. CASE Own(q) # Site(r)
        BY <2>2, <3>1, OtherSession
      <3>2. CASE Commit(r)
        BY <3>1, <3>2, CommitEffect, SiteOpen
      <3>3. CASE ~Commit(r)
        BY <3>3, ArriveCall, AbortEffect, ExecuteEffect, VerifyEffect, WipeEffect,
           ClearRunsEffect DEF Step, Proceed, committed
      <3>4. QED  BY <3>2, <3>3
    <2>6. QED  BY <2>3, <2>4, <2>5
  <1>3. QED  BY <1>1, <1>2

LEMMA StepGone ==
    ASSUME IInv, NEW r \in Requests, Step(r), NEW q \in Requests
    PROVE  GoneOK(q)'
  <1>1. CASE pc'[q] = "idle"
    BY <1>1 DEF GoneOK
  <1>2. ASSUME pc'[q] # "idle", NEW p \in Requests \ {q}, pc'[p] # "idle", call'[p].session = call'[q].session
        PROVE  rows'[q].gone.passes = 0 \/ rows'[p].gone.passes = 0
    <2>1. CASE q = r
      BY <1>2, <2>1, OthersKept, StepGonePairs
    <2>2. CASE p = r
      BY <1>2, <2>2, OthersKept, StepGonePairs
    <2>3. CASE q # r /\ p # r
      <3>1. /\ pc[q] # "idle" /\ pc[p] # "idle" /\ call[p].session = call[q].session
            /\ rows'[q] = rows[q] /\ rows'[p] = rows[p]
        BY <1>2, <2>3, OthersKept
      <3>2. p \in Open(Own(q)) \ {q}
        BY <1>2, <3>1 DEF Open, Own
      <3>3. QED  BY <3>1, <3>2, RequestFacts DEF GoneOK
    <2>4. QED  BY <2>1, <2>2, <2>3
  <1>3. CASE pc'[q] # "idle"
    <2>1. rows'[q].gone.passes <= passes'[call'[q].session]
      BY <1>3, StepGoneBound
    <2>2. \A p \in Requests \ {q} :
             pc'[p] # "idle" /\ call'[p].session = call'[q].session =>
                 rows'[q].gone.passes = 0 \/ rows'[p].gone.passes = 0
      BY <1>2, <1>3
    <2>3. QED  BY <2>1, <2>2 DEF GoneOK, Own, Open
  <1>4. QED  BY <1>1, <1>3

-----------------------------------------------------------------------------
(* The room is kept.  Only the execution of a transaction uses a reference,  *)
(* and only its arrival adds one to the transactions to be executed.         *)

LEMMA UsedFinite ==
    ASSUME IInv, NEW s \in SessionIds
    PROVE  /\ UsedRefs(s) \subseteq Refs
           /\ IsFiniteSet(UsedRefs(s)) /\ Cardinality(UsedRefs(s)) \in Nat
  <1>1. UsedRefs(s) \subseteq Refs
    <2>1. file[s].logs \subseteq Refs /\ transactions[s] \subseteq Refs
      BY Typed DEF IInv, SandboxFile
    <2>2. \A q \in Requests : rows[q].made \subseteq Refs
      BY Typed DEF IInv, RunRows
    <2>3. QED  BY <2>1, <2>2 DEF UsedRefs, Open
  <1>2. IsFiniteSet(Refs)
    BY MaxRowsAssumption, FS_Interval DEF Refs
  <1>3. QED  BY <1>1, <1>2, FS_Subset, FS_CardinalityType

\* What is used after a step, but for what it writes itself.
LEMMA UsedAfter ==
    ASSUME IInv, NEW r \in Requests, Step(r), NEW s \in SessionIds, NEW more,
           file'[s].logs \subseteq UsedRefs(s) \cup more,
           transactions'[s] \subseteq UsedRefs(s) \cup more,
           r \in Open(s)' => rows'[r].made \subseteq UsedRefs(s) \cup more
    PROVE  UsedRefs(s)' \subseteq UsedRefs(s) \cup more
  <1>1. ASSUME NEW q \in Open(s)'
        PROVE  rows'[q].made \subseteq UsedRefs(s) \cup more
    <2>1. CASE q = r
      BY <1>1, <2>1
    <2>2. CASE q # r
      <3>1. q \in Requests
        BY <1>1 DEF Open
      <3>2. q \in Open(s) /\ rows'[q] = rows[q]
        BY <1>1, <2>2, <3>1, OpenAfter, OthersKept
      <3>3. QED  BY <3>2 DEF UsedRefs
    <2>3. QED  BY <2>1, <2>2
  <1>2. UsedRefs(s)' = file'[s].logs \cup transactions'[s]
                          \cup UNION {rows'[q].made : q \in Open(s)'}
    BY DEF UsedRefs
  <1>3. QED  BY <1>1, <1>2

LEMMA UsedShrinks ==
    ASSUME IInv, NEW r \in Requests, Step(r), ~ExecuteTransaction(r), NEW s \in SessionIds
    PROVE  UsedRefs(s)' \subseteq UsedRefs(s)
  <1>0. /\ file \in [SessionIds -> SandboxFile]
        /\ transactions \in [SessionIds -> SUBSET Refs]
        /\ rows \in [Requests -> RunRows]
    BY Typed DEF IInv
  <1>a. /\ file[s].logs \subseteq UsedRefs(s) /\ transactions[s] \subseteq UsedRefs(s)
        /\ r \in Open(s) => rows[r].made \subseteq UsedRefs(s)
    BY DEF UsedRefs
  <1>b. SUFFICES /\ file'[s].logs \subseteq UsedRefs(s)
                 /\ transactions'[s] \subseteq UsedRefs(s)
                 /\ r \in Open(s)' => rows'[r].made \subseteq UsedRefs(s)
    <2>1. ASSUME /\ file'[s].logs \subseteq UsedRefs(s)
                 /\ transactions'[s] \subseteq UsedRefs(s)
                 /\ r \in Open(s)' => rows'[r].made \subseteq UsedRefs(s)
          PROVE  UsedRefs(s)' \subseteq UsedRefs(s) \cup {}
      <3>1. UsedRefs(s) \cup {} = UsedRefs(s)
        OBVIOUS
      <3>2. QED  BY <2>1, <3>1, UsedAfter
    <2>2. QED  BY <2>1
  <1>1. CASE Arrive(r)
    <2>1. rows'[r].made = {} /\ UNCHANGED transactions
      BY <1>1, ArriveCall, IdleWrites, NoRowsTyped
    <2>2. file'[s].logs = file[s].logs \/ file'[s].logs = {}
      <3>1. CASE \E u \in Users : CreateSession(r, u)
        <4>1. file' = [file EXCEPT ![call'[r].session] = InitialFile]
          BY <3>1, CreateEffect
        <4>2. QED  BY <1>0, <4>1, InitialFileTyped
      <3>2. CASE \E t \in SessionIds : Begin(r, t)
        BY <3>2, BeginEffect
      <3>3. QED  BY <1>1, <3>1, <3>2 DEF Arrive
    <2>3. QED  BY <1>a, <2>1, <2>2
  <1>2. CASE Commit(r)
    <2>1. /\ pc[r] = "commit" /\ UNCHANGED file
          /\ transactions' = [transactions EXCEPT ![Own(r)] =
                                 (@ \ rows[r].gone.made) \cup rows[r].made]
          /\ pc'[r] = "idle"
      BY <1>2, CommitEffect
    <2>2. r \notin Open(s)'
      BY <2>1 DEF Open
    <2>3. Own(r) = s => r \in Open(s)
      BY <2>1 DEF Open, Own
    <2>4. transactions'[s] \subseteq UsedRefs(s)
      BY <1>0, <1>a, <2>1, <2>3
    <2>5. QED  BY <1>a, <2>1, <2>2, <2>4
  <1>3. CASE Abort(r)
    BY <1>3, <1>a, AbortEffect DEF Open
  <1>4. CASE Proceed(r) /\ ~Commit(r)
    <2>1. Open(s)' = Open(s)
      BY <1>4, ProceedCall, OpenAfter DEF Open
    <2>2. CASE VerifyObjective(r)
      <3>1. PICK n : /\ UNCHANGED <<file, transactions>>
                     /\ rows' = [rows EXCEPT ![r].passes = n]
        BY <2>2, VerifyEffect
      <3>2. rows'[r].made = rows[r].made
        BY <1>0, <3>1 DEF RunRows
      <3>3. QED  BY <1>a, <2>1, <3>1, <3>2
    <2>3. CASE ResetRuntime(r)
      <3>1. /\ UNCHANGED <<transactions, rows>>
            /\ file' = [file EXCEPT ![Own(r)] = InitialFile]
        BY <2>3, WipeEffect
      <3>2. file'[s].logs = file[s].logs \/ file'[s].logs = {}
        BY <1>0, <3>1, InitialFileTyped
      <3>3. QED  BY <1>a, <2>1, <3>1, <3>2
    <2>4. CASE ClearRuns(r)
      <3>1. UNCHANGED <<file, transactions>> /\ rows'[r].made = rows[r].made
        BY <2>4, ClearRunsEffect, WrittenFields
      <3>2. QED  BY <1>a, <2>1, <3>1
    <2>5. CASE UNCHANGED <<file, committed, rows, trust>>
      BY <1>a, <2>1, <2>5 DEF committed
    <2>6. QED  BY <1>4, <2>2, <2>3, <2>4, <2>5 DEF Proceed
  <1>5. QED  BY <1>1, <1>2, <1>3, <1>4 DEF Step

\* Requests join those that execute or verify only when they arrive.
LEMMA JoinedOnArrival ==
    ASSUME IInv, NEW r \in Requests, Step(r), ~Arrive(r)
    PROVE  /\ pc'[r] # "execute"
           /\ call'[r].op = "verify" => call'[r] = call[r] /\ pc[r] # "idle" /\ ~Commit(r)
  <1>1. CASE Commit(r) \/ Abort(r)
    BY <1>1, CommitEffect, AbortEffect
  <1>2. CASE Proceed(r) /\ ~Commit(r)
    <2>1. UNCHANGED call /\ pc[r] # "idle"
      BY <1>2, ProceedCall
    <2>2. pc'[r] # "execute"
      BY <1>2, ExecuteEffect, VerifyEffect, WipeEffect, ClearRunsEffect, ClearReportEffect,
         FlushEffect DEF Proceed
    <2>3. QED  BY <1>2, <2>1, <2>2
  <1>3. QED  BY <1>1, <1>2 DEF Step

LEMMA CountedAfter ==
    ASSUME IInv, NEW r \in Requests, Step(r), NEW s \in SessionIds
    PROVE  /\ Executing(s)' \subseteq Executing(s) \cup {r}
           /\ Verifying(s)' \subseteq Verifying(s) \cup {r}
           /\ ~Arrive(r) => /\ Executing(s)' \subseteq Executing(s)
                            /\ Verifying(s)' \subseteq Verifying(s)
           /\ Commit(r) => Verifying(s)' \subseteq Verifying(s) \ {r}
           /\ ExecuteTransaction(r) => Executing(s)' \subseteq Executing(s) \ {r}
  <1>1. \A q \in Requests \ {r} :
           /\ q \in Executing(s)' <=> q \in Executing(s)
           /\ q \in Verifying(s)' <=> q \in Verifying(s)
    BY OthersKept DEF Executing, Verifying, Open
  <1>2. Executing(s)' \subseteq Requests /\ Verifying(s)' \subseteq Requests
    BY DEF Executing, Verifying, Open
  <1>3. ~Arrive(r) => r \notin Executing(s)'
    BY JoinedOnArrival DEF Executing
  <1>4. ~Arrive(r) /\ r \in Verifying(s)' => r \in Verifying(s) /\ ~Commit(r)
    BY JoinedOnArrival DEF Verifying, Open
  <1>5. (Commit(r) => r \notin Verifying(s)') /\ (ExecuteTransaction(r) => r \notin Executing(s)')
    BY EndCall, ExecuteEffect DEF Verifying, Executing, Open
  <1>6. QED  BY <1>1, <1>2, <1>3, <1>4, <1>5

LEMMA GrowByOne ==
    ASSUME NEW S, NEW x, NEW T, IsFiniteSet(S), T \subseteq S \cup {x}
    PROVE  Cardinality(T) \in Nat /\ Cardinality(T) <= Cardinality(S) + 1
  <1> DEFINE n == Cardinality(S)
             S1 == S \cup {x}
  <1>1. IsFiniteSet(S1) /\ Cardinality(S1) = IF x \in S THEN n ELSE n + 1
    BY FS_AddElement
  <1>2. n \in Nat /\ Cardinality(S1) \in Nat
    BY <1>1, FS_CardinalityType
  <1>3. Cardinality(S1) <= n + 1
    BY <1>1, <1>2
  <1>4. T \subseteq S1
    OBVIOUS
  <1> HIDE DEF S1
  <1>5. IsFiniteSet(T) /\ Cardinality(T) <= Cardinality(S1)
    BY <1>1, <1>4, FS_Subset
  <1>6. Cardinality(T) \in Nat
    BY <1>5, FS_CardinalityType
  <1>7. QED  BY <1>2, <1>3, <1>5, <1>6

LEMMA StepReferenceRoom ==
    ASSUME IInv, NEW r \in Requests, Step(r), NEW s \in SessionIds
    PROVE  (Cardinality(UsedRefs(s)) + Cardinality(Executing(s)) <= MaxRows)'
  <1> DEFINE U == UsedRefs(s)'
             X == Executing(s)'
  <1>0. /\ Cardinality(UsedRefs(s)) + Cardinality(Executing(s)) <= MaxRows
        /\ IsFiniteSet(UsedRefs(s)) /\ Cardinality(UsedRefs(s)) \in Nat
        /\ IsFiniteSet(Executing(s)) /\ Cardinality(Executing(s)) \in Nat
    BY UsedFinite, OpenFinite DEF IInv, RoomInv, RoomOK
  <1>1. CASE U \subseteq UsedRefs(s) /\ X \subseteq Executing(s)
    <2>1. Cardinality(U) \in Nat /\ Cardinality(U) <= Cardinality(UsedRefs(s))
      BY <1>0, <1>1, FS_Subset, FS_CardinalityType
    <2>2. Cardinality(X) \in Nat /\ Cardinality(X) <= Cardinality(Executing(s))
      BY <1>0, <1>1, FS_Subset, FS_CardinalityType
    <2>3. QED  BY <1>0, <2>1, <2>2, MaxRowsAssumption
  <1>2. CASE ExecuteTransaction(r) /\ s = Own(r)
    <2>1. PICK ref : /\ rows' = [rows EXCEPT ![r].made = {ref}]
                     /\ file'[s].logs = file[s].logs \cup {ref}
                     /\ UNCHANGED transactions /\ pc[r] = "execute"
      BY <1>2, ExecuteEffect
    <2>2. U \subseteq UsedRefs(s) \cup {ref}
      <3>1. file'[s].logs \subseteq UsedRefs(s) \cup {ref}
        BY <2>1 DEF UsedRefs
      <3>2. transactions'[s] \subseteq UsedRefs(s) \cup {ref}
        BY <2>1 DEF UsedRefs
      <3>3. rows'[r].made \subseteq UsedRefs(s) \cup {ref}
        BY <2>1, WrittenFields
      <3>4. QED  BY <3>1, <3>2, <3>3, UsedAfter
    <2>3. Cardinality(U) \in Nat /\ Cardinality(U) <= Cardinality(UsedRefs(s)) + 1
      BY <1>0, <2>2, GrowByOne
    <2>4. r \in Executing(s) /\ X \subseteq Executing(s) \ {r}
      BY <1>2, <2>1, CountedAfter DEF Executing, Open, Own
    <2>5. Cardinality(X) \in Nat /\ Cardinality(X) <= Cardinality(Executing(s)) - 1
      <3>1. /\ IsFiniteSet(Executing(s) \ {r})
            /\ Cardinality(Executing(s) \ {r}) = Cardinality(Executing(s)) - 1
        BY <1>0, <2>4, FS_RemoveElement
      <3>2. QED  BY <2>4, <3>1, FS_Subset, FS_CardinalityType
    <2>6. QED  BY <1>0, <2>3, <2>5, MaxRowsAssumption
  <1>3. CASE Arrive(r)
    <2>1. U \subseteq UsedRefs(s)
      <3>1. ~ExecuteTransaction(r)
        BY <1>3, ArriveCall DEF ExecuteTransaction
      <3>2. QED  BY <3>1, UsedShrinks
    <2>2. CASE r \in X
      <3>1. r \in Open(s)' /\ pc'[r] = "execute"
        BY <2>2 DEF Executing
      <3>2. call'[r].session = s
        BY <3>1, OpenAfter
      <3>3. PICK t \in SessionIds : Begin(r, t)
        BY <1>3, <3>1, CreateEffect DEF Arrive
      <3>4. Cardinality(UsedRefs(s)) + Cardinality(Open(s)) < MaxRows
        BY <3>1, <3>2, <3>3, BeginEffect
      <3>5. Cardinality(X) \in Nat /\ Cardinality(X) <= Cardinality(Executing(s)) + 1
        BY <1>0, CountedAfter, GrowByOne
      <3>6. Cardinality(U) \in Nat /\ Cardinality(U) <= Cardinality(UsedRefs(s))
        BY <1>0, <2>1, FS_Subset, FS_CardinalityType
      <3>7. Cardinality(Open(s)) \in Nat /\ Cardinality(Executing(s)) <= Cardinality(Open(s))
        BY OpenFinite
      <3>8. QED  BY <1>0, <3>4, <3>5, <3>6, <3>7, MaxRowsAssumption
    <2>3. CASE r \notin X
      BY <1>1, <2>1, <2>3, CountedAfter
    <2>4. QED  BY <2>2, <2>3
  <1>4. CASE ~Arrive(r) /\ ~ExecuteTransaction(r)
    BY <1>1, <1>4, UsedShrinks, CountedAfter
  <1>5. CASE ~Arrive(r) /\ ExecuteTransaction(r) /\ s # Own(r)
    <2>1. s \in SessionIds \ {Site(r)}
      BY <1>5, ExecuteEffect, SiteOpen
    <2>2. file'[s] = file[s] /\ transactions'[s] = transactions[s] /\ r \notin Open(s)'
      BY <2>1, OtherSession
    <2>3. U \subseteq UsedRefs(s) \cup {}
      BY <2>2, UsedAfter DEF UsedRefs
    <2>4. U \subseteq UsedRefs(s)
      BY <2>3
    <2>5. QED  BY <1>1, <1>5, <2>4, CountedAfter
  <1>6. QED  BY <1>2, <1>3, <1>4, <1>5

LEMMA StepPassRoom ==
    ASSUME IInv, NEW r \in Requests, Step(r), NEW s \in SessionIds
    PROVE  (passes[s] + Cardinality(Verifying(s)) <= MaxRows)'
  <1> DEFINE V == Verifying(s)'
  <1>0. /\ passes[s] + Cardinality(Verifying(s)) <= MaxRows
        /\ IsFiniteSet(Verifying(s)) /\ Cardinality(Verifying(s)) \in Nat
        /\ passes[s] \in Nat /\ passes'[s] \in Nat
    <2>1. RowsTyped'
      BY StepRowsTyped
    <2>2. passes \in [SessionIds -> 0 .. MaxRows] /\ passes' \in [SessionIds -> 0 .. MaxRows]
      BY <2>1, Typed DEF IInv, RowsTyped
    <2>3. QED  BY <2>2, OpenFinite DEF IInv, RoomInv, RoomOK
  <1>1. CASE V \subseteq Verifying(s) /\ passes'[s] <= passes[s]
    <2>1. Cardinality(V) \in Nat /\ Cardinality(V) <= Cardinality(Verifying(s))
      BY <1>0, <1>1, FS_Subset, FS_CardinalityType
    <2>2. QED  BY <1>0, <1>1, <2>1, MaxRowsAssumption
  <1>2. CASE Arrive(r)
    <2>1. passes'[s] = passes[s]
      BY <1>2, ArriveCall
    <2>2. CASE r \in V
      <3>1. r \in Open(s)' /\ call'[r].op = "verify"
        BY <2>2 DEF Verifying
      <3>2. call'[r].session = s
        BY <3>1, OpenAfter
      <3>3. PICK t \in SessionIds : Begin(r, t)
        BY <1>2, <3>1, CreateEffect DEF Arrive
      <3>4. passes[s] + Cardinality(Open(s)) < MaxRows
        BY <3>1, <3>2, <3>3, BeginEffect
      <3>5. Cardinality(V) \in Nat /\ Cardinality(V) <= Cardinality(Verifying(s)) + 1
        BY <1>0, CountedAfter, GrowByOne
      <3>6. Cardinality(Open(s)) \in Nat /\ Cardinality(Verifying(s)) <= Cardinality(Open(s))
        BY OpenFinite
      <3>7. QED  BY <1>0, <2>1, <3>4, <3>5, <3>6, MaxRowsAssumption
    <2>3. CASE r \notin V
      BY <1>0, <1>1, <2>1, <2>3, CountedAfter
    <2>4. QED  BY <2>2, <2>3
  <1>3. CASE Commit(r) /\ s = Own(r)
    <2>1. /\ pc[r] # "idle"
          /\ passes' = [passes EXCEPT ![Own(r)] = @ - rows[r].gone.passes + rows[r].passes]
      BY <1>3, CommitEffect
    <2>2. passes'[s] = passes[s] - rows[r].gone.passes + rows[r].passes
      <3>1. passes \in [SessionIds -> 0 .. MaxRows]
        BY Typed DEF IInv
      <3>2. QED  BY <1>3, <2>1, <3>1
    <2>3. rows[r].gone.passes \in Nat /\ rows[r].passes \in 0 .. 1
      BY RequestFacts DEF RunRows, Gone
    <2>4. CASE rows[r].passes = 0
      BY <1>0, <1>1, <1>3, <2>2, <2>3, <2>4, CountedAfter
    <2>5. CASE rows[r].passes = 1
      <3>1. call[r].op = "verify"
        BY <2>5, RequestFacts DEF WrittenOK
      <3>2. r \in Verifying(s) /\ V \subseteq Verifying(s) \ {r}
        BY <1>3, <2>1, <3>1, CountedAfter DEF Verifying, Open, Own
      <3>3. Cardinality(V) \in Nat /\ Cardinality(V) <= Cardinality(Verifying(s)) - 1
        <4>1. /\ IsFiniteSet(Verifying(s) \ {r})
              /\ Cardinality(Verifying(s) \ {r}) = Cardinality(Verifying(s)) - 1
          BY <1>0, <3>2, FS_RemoveElement
        <4>2. QED  BY <3>2, <4>1, FS_Subset, FS_CardinalityType
      <3>4. QED  BY <1>0, <2>2, <2>3, <2>5, <3>3, MaxRowsAssumption
    <2>6. QED  BY <2>3, <2>4, <2>5
  <1>4. CASE ~Arrive(r) /\ ~(Commit(r) /\ s = Own(r))
    <2>1. passes'[s] = passes[s]
      <3>1. CASE s # Site(r)
        BY <3>1, OtherSession
      <3>2. CASE Commit(r)
        BY <1>4, <3>1, <3>2, CommitEffect, SiteOpen
      <3>3. CASE ~Commit(r)
        BY <1>4, <3>3, AbortEffect, ExecuteEffect, VerifyEffect, WipeEffect, ClearRunsEffect
           DEF Step, Proceed, committed
      <3>4. QED  BY <3>2, <3>3
    <2>2. QED  BY <1>0, <1>1, <1>4, <2>1, CountedAfter
  <1>5. QED  BY <1>2, <1>3, <1>4

LEMMA StepRoom ==
    ASSUME IInv, NEW r \in Requests, Step(r)
    PROVE  RoomInv'
  BY StepReferenceRoom, StepPassRoom DEF RoomInv, RoomOK

-----------------------------------------------------------------------------
(* The story of the tables and the file. *)

LEMMA StoryFacts ==
    ASSUME IInv, NEW s \in SessionIds
    PROVE  AbsentOK(s) /\ WholeOK(s) /\ HealingOK(s)
  BY DEF IInv, StoryInv

LEMMA StoryElsewhere ==
    ASSUME IInv, NEW r \in Requests, Step(r), NEW s \in SessionIds \ {Site(r)}
    PROVE  AbsentOK(s)' /\ WholeOK(s)' /\ HealingOK(s)'
  <1>0. /\ sessions'[s] = sessions[s] /\ file'[s] = file[s]
        /\ transactions'[s] = transactions[s] /\ passes'[s] = passes[s]
        /\ trust'[s] = trust[s]
        /\ r \notin Open(s) /\ Open(s)' = Open(s)
    BY OtherSession
  <1>1. \A q \in Open(s) :
           /\ pc'[q] = pc[q] /\ call'[q] = call[q] /\ tx'[q] = tx[q]
           /\ loaded'[q] = loaded[q] /\ rows'[q] = rows[q]
    BY <1>0, OthersKept DEF Open
  <1>2. AbsentOK(s)'
    BY <1>0, StoryFacts DEF AbsentOK, Exists
  <1>3. WholeOK(s)'
    BY <1>0, <1>1, StoryFacts DEF WholeOK
  <1>4. HealingOK(s)'
    <2>1. SUFFICES ASSUME trust[s] = "healing"
                   PROVE  \E p \in Requests : Open(s)' = {p} /\ Healing(p, s)'
      BY <1>0 DEF HealingOK
    <2>2. PICK p \in Requests : Open(s) = {p} /\ Healing(p, s)
      BY <2>1, StoryFacts DEF HealingOK
    <2>3. Healing(p, s)'
      BY <1>0, <1>1, <2>2 DEF Healing
    <2>4. QED  BY <1>0, <2>2, <2>3
  <1>5. QED  BY <1>2, <1>3, <1>4

LEMMA AbsentAfter ==
    ASSUME IInv, NEW r \in Requests, Step(r), NEW s \in SessionIds
    PROVE  AbsentOK(s)'
  <1>1. CASE Commit(r) /\ s = Own(r)
    <2>1. /\ pc[r] # "idle"
          /\ tx[r].opened => sessions'[s].status = "active"
      BY <1>1, CommitEffect
    <2>2. ~tx[r].opened => Exists(s)'
      <3>1. LP!TypeInv /\ LP!Step(r)
        BY StepRefines DEF IInv, TypeInv
      <3>2. \A t \in SessionIds : LP!Exists(t) => LP!Exists(t)'
        BY <3>1, LP!RowsKept, SameAssumptions
      <3>3. Exists(s) => Exists(s)'
        BY <3>2 DEF LP!Exists, Exists
      <3>4. QED  BY <1>1, <2>1, <3>3, SessionOfCall DEF IInv, TypeInv
    <2>3. Exists(s)'
      BY <2>1, <2>2 DEF Exists
    <2>4. QED  BY <2>3 DEF AbsentOK
  <1>2. CASE Commit(r) /\ s # Own(r)
    <2>1. s # Site(r)
      BY <1>2, CommitEffect, SiteOpen
    <2>2. QED  BY <2>1, StoryElsewhere
  <1>3. CASE ~Commit(r)
    <2>1. UNCHANGED <<sessions, transactions, passes>>
      BY <1>3, ArriveCall, AbortEffect, ExecuteEffect, VerifyEffect, WipeEffect,
         ClearRunsEffect, ClearReportEffect, FlushEffect DEF Step, Proceed, committed
    <2>2. QED  BY <2>1, StoryFacts DEF AbsentOK, Exists
  <1>4. QED  BY <1>1, <1>2, <1>3

\* An arrival leaves a session whole only when no reset is open.
LEMMA WholeAfterArrive ==
    ASSUME IInv, NEW r \in Requests, Arrive(r), NEW s \in SessionIds, s = Site(r)
    PROVE  WholeOK(s)'
  <1>0. /\ file \in [SessionIds -> SandboxFile]
        /\ trust \in [SessionIds -> {"whole", "healing", "torn"}]
    BY Typed DEF IInv
  <1>1. Step(r) /\ s = call'[r].session
    BY ArriveCall DEF Step
  <1>2. rows'[r].made = {}
    BY ArriveCall, IdleWrites, NoRowsTyped
  <1>3. CASE \E u \in Users : CreateSession(r, u)
    <2>1. /\ call'[r].op = "create" /\ ~Exists(s) /\ Open(s) = {}
          /\ file' = [file EXCEPT ![s] = InitialFile]
          /\ UNCHANGED <<sessions, transactions, passes, rows, trust>>
          /\ ~tx'[r].verified
      BY <1>1, <1>3, CreateEffect
    <2>2. \A q \in Open(s)' : q = r
      BY <1>1, <2>1, OpenAfter DEF Open
    <2>3. transactions'[s] = {} /\ passes'[s] = 0 /\ sessions'[s].status = "absent"
      BY <2>1, StoryFacts DEF AbsentOK, Exists
    <2>4. QED  BY <1>2, <2>1, <2>2, <2>3 DEF WholeOK
  <1>4. CASE \E t \in SessionIds : Begin(r, t)
    <2>1. Begin(r, s)
      BY <1>1, <1>4, BeginEffect
    <2>2. /\ UNCHANGED <<sessions, file, transactions, passes, rows, tx>>
          /\ trust'[s] = TrustAfter(call'[r].op, s)
          /\ pc[r] = "idle"
      BY <1>0, <2>1, BeginEffect
    <2>3. SUFFICES ASSUME trust'[s] = "whole"
                   PROVE  WholeOK(s)'
      BY DEF WholeOK
    <2>4. trust[s] = "whole" /\ call'[r].op # "reset"
      BY <2>2, <2>3 DEF TrustAfter
    <2>5. \A q \in Open(s)' : q = r \/ (q \in Open(s) /\ call'[q] = call[q])
      BY <1>1, OpenAfter, OthersKept DEF Open
    <2>6. ~tx'[r].verified
      BY <2>2, IdleWrites
    <2>7. QED  BY <1>2, <2>2, <2>4, <2>5, <2>6, StoryFacts DEF WholeOK
  <1>5. QED  BY <1>3, <1>4 DEF Arrive

\* A request other than a reset, in a session that is whole.
LEMMA WholeAfterProceed ==
    ASSUME IInv, NEW r \in Requests, Proceed(r), ~Commit(r), NEW s \in SessionIds, s = Site(r)
    PROVE  WholeOK(s)'
  <1>0. Step(r) /\ UNCHANGED call /\ pc[r] # "idle" /\ pc'[r] # "idle" /\ s = Own(r)
    BY ProceedCall, SiteOpen DEF Step
  <1>1. UNCHANGED <<sessions, transactions, passes, trust>>
    BY ExecuteEffect, VerifyEffect, WipeEffect, ClearRunsEffect, ClearReportEffect,
       FlushEffect DEF Proceed, committed
  <1>2. SUFFICES ASSUME trust[s] = "whole"
                 PROVE  WholeOK(s)'
    BY <1>1 DEF WholeOK
  <1>3. r \in Open(s) /\ Open(s)' = Open(s)
    BY <1>0, OpenAfter DEF Open, Own
  <1>4. call[r].op # "reset" /\ pc[r] \notin {"wipe", "clear", "clear_report"}
    BY <1>0, <1>2, <1>3, StoryFacts, RequestFacts DEF WholeOK, PointOK
  <1>5. \A q \in Open(s) \ {r} : tx'[q] = tx[q] /\ rows'[q] = rows[q]
    BY <1>0, OthersKept DEF Open
  <1>6. CASE ExecuteTransaction(r)
    <2>1. PICK ref : /\ rows' = [rows EXCEPT ![r].made = {ref}]
                     /\ file'[s].logs = file[s].logs \cup {ref}
                     /\ Proves(file[s]) => Proves(file'[s])
                     /\ UNCHANGED tx
      BY <1>0, <1>6, ExecuteEffect
    <2>2. rows'[r].made = {ref}
      BY <2>1, WrittenFields
    <2>3. QED
      BY <1>0, <1>1, <1>2, <1>3, <1>4, <1>5, <2>1, <2>2, StoryFacts DEF WholeOK
  <1>7. CASE VerifyObjective(r)
    <2>1. PICK n : /\ rows' = [rows EXCEPT ![r].passes = n] /\ UNCHANGED file
                   /\ tx'[r].verified <=> Proves(file[s])
      BY <1>0, <1>7, VerifyEffect
    <2>2. rows'[r].made = rows[r].made
      <3>1. rows \in [Requests -> RunRows]
        BY Typed DEF IInv
      <3>2. QED  BY <2>1, <3>1 DEF RunRows
    <2>3. QED
      BY <1>0, <1>1, <1>2, <1>3, <1>4, <1>5, <2>1, <2>2, StoryFacts DEF WholeOK
  <1>8. CASE Lab!FlushSession(r) /\ UNCHANGED <<file, committed, rows, trust>>
    <2>1. tx'[r].verified = tx[r].verified /\ UNCHANGED <<file, rows>>
      BY <1>8, FlushEffect
    <2>2. QED
      BY <1>0, <1>1, <1>2, <1>3, <1>4, <1>5, <2>1, StoryFacts DEF WholeOK
  <1>9. QED
    BY <1>4, <1>6, <1>7, <1>8, WipeEffect, ClearRunsEffect, ClearReportEffect DEF Proceed

LEMMA OpenAfterEnd ==
    ASSUME IInv, NEW r \in Requests, Commit(r) \/ Abort(r), NEW s \in SessionIds, s = Own(r)
    PROVE  /\ Step(r) /\ s = Site(r) /\ r \in Open(s)
           /\ Open(s)' = Open(s) \ {r}
           /\ \A q \in Open(s) \ {r} :
                 call'[q] = call[q] /\ tx'[q] = tx[q] /\ rows'[q] = rows[q]
  <1>1. pc[r] # "idle" /\ pc'[r] = "idle" /\ Step(r)
    BY EndCall DEF Step, Proceed
  <1>2. s = Site(r) /\ r \in Open(s)
    BY <1>1, SiteOpen DEF Open, Own
  <1>3. Open(s)' = Open(s) \ {r}
    <2>1. r \notin Open(s)'
      BY <1>1, OpenAfter
    <2>2. \A q \in Requests \ {r} : q \in Open(s)' <=> q \in Open(s)
      BY <1>1, OpenAfter
    <2>3. Open(s) \subseteq Requests /\ Open(s)' \subseteq Requests
      BY DEF Open
    <2>4. QED  BY <2>1, <2>2, <2>3
  <1>4. \A q \in Open(s) \ {r} : call'[q] = call[q] /\ tx'[q] = tx[q] /\ rows'[q] = rows[q]
    BY <1>1, OthersKept DEF Open
  <1>5. QED  BY <1>1, <1>2, <1>3, <1>4

\* What a commit makes of the rows of its session.
LEMMA CommittedRows ==
    ASSUME IInv, NEW r \in Requests, Commit(r), NEW s \in SessionIds, s = Own(r)
    PROVE  /\ transactions'[s] = (transactions[s] \ rows[r].gone.made) \cup rows[r].made
           /\ passes'[s] = passes[s] - rows[r].gone.passes + rows[r].passes
           /\ passes[s] \in Nat
  <1>1. transactions \in [SessionIds -> SUBSET Refs] /\ passes \in [SessionIds -> 0 .. MaxRows]
    BY Typed DEF IInv
  <1>2. /\ transactions' = [transactions EXCEPT ![s] =
                               (@ \ rows[r].gone.made) \cup rows[r].made]
        /\ passes' = [passes EXCEPT ![s] = @ - rows[r].gone.passes + rows[r].passes]
    BY CommitEffect
  <1>3. QED  BY <1>1, <1>2

\* The reset that was alone makes its session whole.
LEMMA WholeAfterHealing ==
    ASSUME IInv, NEW r \in Requests, Commit(r), NEW s \in SessionIds, s = Own(r),
           call[r].op = "reset", trust[s] = "healing"
    PROVE  WholeOK(s)'
  <1>1. Open(s) = {r} /\ Healing(r, s)
    <2>1. PICK p \in Requests : Open(s) = {p} /\ Healing(p, s)
      BY StoryFacts DEF HealingOK
    <2>2. QED  BY <2>1, OpenAfterEnd
  <1>2. pc[r] = "commit"
    BY CommitEffect
  <1>3. rows[r].gone.made = transactions[s] /\ rows[r].gone.passes = passes[s]
    BY <1>1, <1>2 DEF Healing
  <1>4. rows[r].made = {} /\ rows[r].passes = 0
    BY RequestFacts DEF WrittenOK
  <1>5. transactions'[s] = {} /\ passes'[s] = 0
    BY <1>3, <1>4, CommittedRows
  <1>6. sessions'[s].status = "active"
    <2>1. ~tx[r].opened
      BY <1>2, SessionOfCall DEF IInv, TypeInv
    <2>2. sessions'[s].status = IF "status" \in tx[r].cols THEN entity[r].status
                                ELSE sessions[s].status
      BY <2>1, CommitEffect
    <2>3. "status" \in tx[r].cols => entity[r].status = "active"
      BY <1>2, RequestFacts DEF CarriedOK
    <2>4. "status" \notin tx[r].cols => sessions[s].status = "active"
      BY <1>1, <1>2 DEF Healing
    <2>5. QED  BY <2>2, <2>3, <2>4
  <1>7. Open(s)' = {}
    BY <1>1, OpenAfterEnd
  <1>8. QED  BY <1>5, <1>6, <1>7 DEF WholeOK

LEMMA WholeAfterCommit ==
    ASSUME IInv, NEW r \in Requests, Commit(r), NEW s \in SessionIds, s = Own(r),
           trust[s] = "whole"
    PROVE  WholeOK(s)'
  <1>1. /\ pc[r] = "commit" /\ UNCHANGED file
        /\ tx[r].opened => sessions'[s].status = "active"
        /\ ~tx[r].opened => sessions'[s].status = IF "status" \in tx[r].cols
                                                  THEN entity[r].status
                                                  ELSE sessions[s].status
    BY CommitEffect
  <1>2. /\ sessions[s].status = "passed" <=> passes[s] > 0
        /\ sessions[s].status = "passed" => Proves(file[s])
        /\ transactions[s] \subseteq file[s].logs
        /\ \A q \in Open(s) : /\ call[q].op # "reset"
                              /\ rows[q].made \subseteq file[s].logs
                              /\ tx[q].verified => Proves(file[s])
    BY StoryFacts DEF WholeOK
  <1>3. /\ call[r].op # "reset" /\ rows[r].made \subseteq file[s].logs
        /\ tx[r].verified => Proves(file[s])
    BY <1>2, OpenAfterEnd
  <1>4. rows[r].gone.made = {} /\ rows[r].gone.passes = 0
    BY <1>3, RequestFacts, NoRowsTyped DEF WrittenOK
  <1>5. /\ transactions'[s] \subseteq file'[s].logs
        /\ passes'[s] = passes[s] + (IF tx[r].verified THEN 1 ELSE 0) /\ passes[s] \in Nat
    <2>1. rows[r].passes = IF tx[r].verified THEN 1 ELSE 0
      BY RequestFacts DEF WrittenOK
    <2>2. QED  BY <1>1, <1>2, <1>3, <1>4, <2>1, CommittedRows
  <1>6. /\ sessions'[s].status = "passed" <=> passes'[s] > 0
        /\ sessions'[s].status = "passed" => Proves(file'[s])
    <2>1. CASE tx[r].opened
      <3>1. ~Exists(s) /\ call[r].op = "create"
        BY <1>1, <2>1, SessionOfCall DEF IInv, TypeInv
      <3>2. passes[s] = 0 /\ ~tx[r].verified
        BY <3>1, StoryFacts, RequestFacts DEF AbsentOK, WrittenOK
      <3>3. QED  BY <1>1, <1>5, <2>1, <3>2
    <2>2. CASE ~tx[r].opened
      <3>1. call[r].op \in {"transact", "verify"}
        <4>1. call[r].op # "create" /\ call[r].op # "none"
          BY <1>1, <2>2, SessionOfCall, RequestFacts DEF IInv, TypeInv, PointOK
        <4>2. QED  BY <1>3, <4>1, RequestFacts DEF PointOK
      <3>2. /\ "status" \in tx[r].cols <=> tx[r].verified
            /\ tx[r].verified => entity[r].status = "passed"
        BY <1>1, <3>1, RequestFacts DEF CarriedOK
      <3>3. QED  BY <1>1, <1>2, <1>3, <1>5, <2>2, <3>2
    <2>3. QED  BY <2>1, <2>2
  <1>7. \A q \in Open(s)' : /\ call'[q].op # "reset"
                            /\ rows'[q].made \subseteq file'[s].logs
                            /\ tx'[q].verified => Proves(file'[s])
    BY <1>1, <1>2, OpenAfterEnd
  <1>8. QED  BY <1>5, <1>6, <1>7 DEF WholeOK

LEMMA WholeAfterEnd ==
    ASSUME IInv, NEW r \in Requests, Commit(r) \/ Abort(r), NEW s \in SessionIds, s = Own(r)
    PROVE  WholeOK(s)'
  <1>1. CASE Commit(r) /\ call[r].op = "reset" /\ trust[s] = "healing"
    BY <1>1, WholeAfterHealing
  <1>2. CASE Commit(r) /\ ~(call[r].op = "reset" /\ trust[s] = "healing")
    <2>1. UNCHANGED trust
      BY <1>2, CommitEffect
    <2>2. QED  BY <1>2, <2>1, WholeAfterCommit DEF WholeOK
  <1>3. CASE Abort(r)
    <2>1. /\ UNCHANGED <<sessions, file, transactions, passes>>
          /\ trust' = IF call[r].op = "reset" THEN [trust EXCEPT ![s] = "torn"] ELSE trust
      BY <1>3, AbortEffect
    <2>2. trust'[s] = "whole" => trust[s] = "whole"
      <3>1. trust \in [SessionIds -> {"whole", "healing", "torn"}]
        BY Typed DEF IInv
      <3>2. trust' = trust \/ trust' = [trust EXCEPT ![s] = "torn"]
        BY <2>1
      <3>3. QED  BY <3>1, <3>2
    <2>3. \A q \in Open(s)' :
             q \in Open(s) /\ call'[q] = call[q] /\ tx'[q] = tx[q] /\ rows'[q] = rows[q]
      BY OpenAfterEnd
    <2>4. QED  BY <2>1, <2>2, <2>3, StoryFacts DEF WholeOK
  <1>4. QED  BY <1>1, <1>2, <1>3

LEMMA WholeAfter ==
    ASSUME IInv, NEW r \in Requests, Step(r), NEW s \in SessionIds, s = Site(r)
    PROVE  WholeOK(s)'
  <1>1. CASE Arrive(r)
    BY <1>1, WholeAfterArrive
  <1>2. CASE Proceed(r) /\ ~Commit(r)
    BY <1>2, WholeAfterProceed
  <1>3. CASE Commit(r) \/ Abort(r)
    <2>1. s = Own(r)
      BY <1>3, EndCall, SiteOpen
    <2>2. QED  BY <1>3, <2>1, WholeAfterEnd
  <1>4. QED  BY <1>1, <1>2, <1>3 DEF Step

\* The request that is open in a session that a reset is repairing is this reset.
LEMMA HealingFacts ==
    ASSUME IInv, NEW s \in SessionIds, trust[s] = "healing", NEW r \in Open(s)
    PROVE  Open(s) = {r} /\ Healing(r, s) /\ call[r].op = "reset"
  <1>1. PICK p \in Requests : Open(s) = {p} /\ Healing(p, s)
    BY StoryFacts DEF HealingOK
  <1>2. p = r
    BY <1>1
  <1>3. QED  BY <1>1, <1>2 DEF Healing

LEMMA HealingAfterArrive ==
    ASSUME IInv, NEW r \in Requests, Arrive(r), NEW s \in SessionIds, s = Site(r)
    PROVE  HealingOK(s)'
  <1>0. trust \in [SessionIds -> {"whole", "healing", "torn"}]
    BY Typed DEF IInv
  <1>1. Step(r) /\ s = call'[r].session /\ UNCHANGED sessions
    BY ArriveCall DEF Step
  <1>2. CASE \E u \in Users : CreateSession(r, u)
    <2>1. Open(s) = {} /\ UNCHANGED trust
      BY <1>1, <1>2, CreateEffect
    <2>2. trust[s] # "healing"
      BY <2>1, StoryFacts DEF HealingOK
    <2>3. QED  BY <2>1, <2>2 DEF HealingOK
  <1>3. CASE \E t \in SessionIds : Begin(r, t)
    <2>1. Begin(r, s)
      BY <1>1, <1>3, BeginEffect
    <2>2. /\ trust'[s] = TrustAfter(call'[r].op, s)
          /\ pc[r] = "idle" /\ loaded'[r] = sessions[s]
          /\ call'[r].op = "reset" => pc'[r] = "wipe"
      BY <1>0, <2>1, BeginEffect
    <2>3. CASE call'[r].op = "reset" /\ Open(s) = {}
      <3>1. Open(s)' = {r}
        <4>1. r \in Open(s)'
          BY <1>1, <2>2, <2>3, OpenAfter
        <4>2. \A q \in Open(s)' : q = r
          BY <1>1, <2>3, OpenAfter DEF Open
        <4>3. QED  BY <4>1, <4>2
      <3>2. Healing(r, s)'
        BY <1>1, <2>2, <2>3 DEF Healing
      <3>3. QED  BY <3>1, <3>2 DEF HealingOK
    <2>4. CASE ~(call'[r].op = "reset" /\ Open(s) = {})
      <3>1. trust[s] = "healing" => \E q \in Open(s) : call[q].op = "reset"
        BY StoryFacts DEF HealingOK, Healing
      <3>2. trust'[s] # "healing"
        BY <2>2, <2>4, <3>1 DEF TrustAfter
      <3>3. QED  BY <3>2 DEF HealingOK
    <2>5. QED  BY <2>3, <2>4
  <1>4. QED  BY <1>2, <1>3 DEF Arrive

LEMMA HealingAfterProceed ==
    ASSUME IInv, NEW r \in Requests, Proceed(r), ~Commit(r), NEW s \in SessionIds, s = Site(r)
    PROVE  HealingOK(s)'
  <1>0. Step(r) /\ UNCHANGED call /\ pc[r] # "idle" /\ pc'[r] # "idle" /\ s = Own(r)
    BY ProceedCall, SiteOpen DEF Step
  <1>1. UNCHANGED <<sessions, transactions, passes, trust>>
    BY ExecuteEffect, VerifyEffect, WipeEffect, ClearRunsEffect, ClearReportEffect,
       FlushEffect DEF Proceed, committed
  <1>2. SUFFICES ASSUME trust[s] = "healing"
                 PROVE  HealingOK(s)'
    BY <1>1 DEF HealingOK
  <1>3. r \in Open(s) /\ Open(s)' = Open(s)
    BY <1>0, OpenAfter DEF Open, Own
  <1>4. Open(s) = {r} /\ Healing(r, s) /\ call[r].op = "reset"
    BY <1>2, <1>3, HealingFacts
  <1>5. pc[r] \notin {"execute", "verify"}
    BY <1>4, RequestFacts DEF PointOK
  <1>6. Healing(r, s)'
    <2>1. CASE ResetRuntime(r)
      BY <1>0, <1>1, <1>4, <2>1, WipeEffect DEF Healing
    <2>2. CASE ClearRuns(r)
      <3>1. /\ pc[r] = "clear" /\ pc'[r] = "clear_report" /\ UNCHANGED loaded
            /\ rows' = [rows EXCEPT ![r].gone = ClearedRows(r)]
        BY <2>2, ClearRunsEffect
      <3>2. rows'[r].gone = ClearedRows(r)
        BY <3>1, WrittenFields
      <3>3. QED  BY <1>0, <1>1, <1>4, <3>1, <3>2 DEF Healing, ClearedRows
    <2>3. CASE Lab!ClearReport(r) /\ UNCHANGED <<file, committed, rows, trust>>
      BY <1>0, <1>1, <1>4, <2>3, ClearReportEffect DEF Healing
    <2>4. CASE Lab!FlushSession(r) /\ UNCHANGED <<file, committed, rows, trust>>
      <3>1. /\ pc[r] = "session_flush" /\ pc'[r] = "commit" /\ UNCHANGED rows
            /\ "status" \in tx'[r].cols <=> entity[r].status # loaded[r].status
        BY <2>4, FlushEffect
      <3>2. entity[r].status = "active"
        BY <1>4, <3>1, RequestFacts DEF CarriedOK
      <3>3. QED  BY <1>0, <1>1, <1>4, <3>1, <3>2 DEF Healing
    <2>5. QED
      BY <1>5, <2>1, <2>2, <2>3, <2>4, ExecuteEffect, VerifyEffect DEF Proceed
  <1>7. QED  BY <1>3, <1>4, <1>6 DEF HealingOK

LEMMA HealingAfterEnd ==
    ASSUME IInv, NEW r \in Requests, Commit(r) \/ Abort(r), NEW s \in SessionIds, s = Own(r)
    PROVE  HealingOK(s)'
  <1>0. trust \in [SessionIds -> {"whole", "healing", "torn"}]
    BY Typed DEF IInv
  <1>1. trust[s] = "healing" => call[r].op = "reset"
    BY OpenAfterEnd, HealingFacts
  <1>2. \/ trust' = [trust EXCEPT ![s] = "whole"]
        \/ trust' = [trust EXCEPT ![s] = "torn"]
        \/ trust' = trust /\ trust[s] # "healing"
    BY <1>1, CommitEffect, AbortEffect
  <1>3. trust'[s] # "healing"
    BY <1>0, <1>2
  <1>4. QED  BY <1>3 DEF HealingOK

LEMMA StepStory ==
    ASSUME IInv, NEW r \in Requests, Step(r)
    PROVE  StoryInv'
  <1>1. ASSUME NEW s \in SessionIds
        PROVE  AbsentOK(s)' /\ WholeOK(s)' /\ HealingOK(s)'
    <2>1. CASE s # Site(r)
      BY <2>1, StoryElsewhere
    <2>2. CASE s = Site(r)
      <3>1. HealingOK(s)'
        <4>1. CASE Arrive(r)
          BY <2>2, <4>1, HealingAfterArrive
        <4>2. CASE Proceed(r) /\ ~Commit(r)
          BY <2>2, <4>2, HealingAfterProceed
        <4>3. CASE Commit(r) \/ Abort(r)
          <5>1. s = Own(r)
            BY <2>2, <4>3, EndCall, SiteOpen
          <5>2. QED  BY <4>3, <5>1, HealingAfterEnd
        <4>4. QED  BY <4>1, <4>2, <4>3 DEF Step
      <3>2. QED  BY <2>2, <3>1, AbsentAfter, WholeAfter
    <2>3. QED  BY <2>1, <2>2
  <1>2. QED  BY <1>1 DEF StoryInv

-----------------------------------------------------------------------------
(* The invariant holds in every state. *)

LEMMA StepInv ==
    ASSUME IInv, NEW r \in Requests, Step(r)
    PROVE  IInv'
  <1>1. TypeInv'
    BY StepTyped, StepRowsTyped DEF IInv, TypeInv
  <1>2. RequestInv'
    <2>1. ASSUME NEW q \in Requests
          PROVE  PointOK(q)' /\ WrittenOK(q)' /\ CarriedOK(q)'
      <3>1. CASE q = r
        BY <3>1, StepRequest
      <3>2. CASE q # r
        BY <3>2, OthersKept, RequestFacts DEF PointOK, WrittenOK, CarriedOK
      <3>3. QED  BY <3>1, <3>2
    <2>2. QED  BY <2>1, StepGone DEF RequestInv
  <1>3. QED  BY <1>1, <1>2, StepRoom, StepStory DEF IInv

LEMMA InitInv == Init => IInv
  <1> SUFFICES ASSUME Init PROVE IInv
    OBVIOUS
  <1>1. /\ \A r \in Requests : pc[r] = "idle" /\ rows[r] = NoRows
        /\ \A r \in Requests : call[r] = LP!NoCall /\ tx[r] = LP!NoWrites
        /\ \A s \in SessionIds : sessions[s] = LP!NoSession /\ file[s] = InitialFile
        /\ \A s \in SessionIds : transactions[s] = {} /\ passes[s] = 0 /\ trust[s] = "whole"
    BY SameRows, SameWrites DEF Init, Lab!Init
  <1>2. TypeInv
    <2>1. LP!TypeInv
      BY SameInit, LP!InitTyped, SameAssumptions DEF Init
    <2>2. RowsTyped
      BY InitialFileTyped, NoRowsTyped, MaxRowsAssumption DEF Init, RowsTyped
    <2>3. QED  BY <2>1, <2>2 DEF TypeInv
  <1>3. \A s : Open(s) = {}
    BY <1>1 DEF Open
  <1>4. RequestInv
    <2>1. \A r \in Requests : call[r].op = "none" /\ ~tx[r].verified
      BY <1>1 DEF LP!NoCall, LP!NoWrites
    <2>2. QED
      BY <1>1, <2>1, NoRowsTyped DEF RequestInv, PointOK, WrittenOK, CarriedOK, GoneOK
  <1>5. RoomInv
    <2>1. ASSUME NEW s \in SessionIds
          PROVE  UsedRefs(s) = {} /\ Executing(s) = {} /\ Verifying(s) = {} /\ passes[s] = 0
      BY <1>1, <1>3, InitialFileTyped DEF UsedRefs, Executing, Verifying
    <2>2. QED  BY <2>1, FS_EmptySet, MaxRowsAssumption DEF RoomInv, RoomOK
  <1>6. StoryInv
    <2>1. \A s \in SessionIds : sessions[s].status = "absent"
      BY <1>1 DEF LP!NoSession
    <2>2. QED
      BY <1>1, <1>3, <2>1 DEF StoryInv, AbsentOK, WholeOK, HealingOK
  <1>7. QED  BY <1>2, <1>4, <1>5, <1>6 DEF IInv

LEMMA StutterInv ==
    ASSUME IInv, UNCHANGED vars
    PROVE  IInv'
  <1>0. /\ UNCHANGED <<sessions, reports, completions, pc, call, loaded, entity, copy, draft>>
        /\ UNCHANGED <<write, tx, file, transactions, passes, rows, trust>>
    BY DEF vars, labvars, committed
  <1>1. TypeInv'
    <2>1. Verdicts' = Verdicts
      BY <1>0 DEF Verdicts
    <2>2. UNCHANGED LP!vars
      BY <1>0, <2>1 DEF LP!vars, LP!tables, LP!locals
    <2>3. LP!TypeInv'
      BY <2>2, LP!NextTyped, SameAssumptions DEF IInv, TypeInv
    <2>4. QED  BY <1>0, <2>3 DEF IInv, TypeInv, RowsTyped
  <1>2. RequestInv'
    BY <1>0 DEF IInv, RequestInv, PointOK, WrittenOK, CarriedOK, GoneOK, Open, Own
  <1>3. RoomInv'
    BY <1>0 DEF IInv, RoomInv, RoomOK, UsedRefs, Executing, Verifying, Open
  <1>4. StoryInv'
    BY <1>0 DEF IInv, StoryInv, AbsentOK, WholeOK, HealingOK, Healing, Exists, Open
  <1>5. QED  BY <1>1, <1>2, <1>3, <1>4 DEF IInv

LEMMA NextInv == IInv /\ [Next]_vars => IInv'
  BY StepInv, StutterInv DEF Next, Step

\* The state file, the rows and the history have their types, and no session
\* outgrows the bound of its rows.
THEOREM TypeCorrect == Spec => []TypeOK
  <1>1. IInv => TypeOK
    <2> SUFFICES ASSUME IInv PROVE TypeOK
      OBVIOUS
    <2>1. \A s \in SessionIds :
             /\ file[s] \in SandboxFile /\ transactions[s] \in SUBSET Refs
             /\ passes[s] \in 0 .. MaxRows /\ trust[s] \in {"whole", "healing", "torn"}
      BY DEF IInv, TypeInv, RowsTyped
    <2>2. \A r \in Requests : rows[r].made \in SUBSET Refs /\ rows[r].passes \in 0 .. 1
      BY DEF IInv, TypeInv, RowsTyped, RunRows
    <2>3. QED  BY <2>1, <2>2 DEF TypeOK, SandboxFile
  <1>2. QED  BY <1>1, InitInv, NextInv, PTL DEF Spec

\* Outside the reach of a reset that overlapped another request or failed, a
\* session is passed exactly when a passed verification of it is on record, its
\* file proves the impact then, and the file has the logs of its transactions.
THEOREM TablesMatchFileHolds == Spec => []TablesMatchFile
  <1>1. IInv => TablesMatchFile
    BY DEF IInv, StoryInv, WholeOK, TablesMatchFile
  <1>2. QED  BY <1>1, InitInv, NextInv, PTL DEF Spec

\* What the sandbox does to the state files is what ResearchLab allows of the
\* verdicts: every step is one of its steps, or leaves all that it knows alone.
THEOREM ResearchLabImplemented == Spec => ImplementsResearchLab
  <1>1. Init => Lab!Init
    BY DEF Init
  <1>2. IInv /\ [Next]_vars => [Lab!Next]_(Lab!vars)
    <2> SUFFICES ASSUME IInv, [Next]_vars PROVE [Lab!Next]_(Lab!vars)
      OBVIOUS
    <2>1. ASSUME NEW r \in Requests, Step(r)
          PROVE  Lab!Next
      BY <2>1, StepRefines DEF IInv, TypeInv, LabStep, Lab!Next
    <2>2. CASE UNCHANGED vars
      <3>1. /\ UNCHANGED <<sessions, reports, completions, pc, call, loaded, entity>>
            /\ UNCHANGED <<copy, draft, write, tx, file>>
        BY <2>2 DEF vars, labvars
      <3>2. Verdicts' = Verdicts
        BY <3>1 DEF Verdicts
      <3>3. QED  BY <3>1, <3>2 DEF Lab!vars, Lab!tables, Lab!locals
    <2>3. QED  BY <2>1, <2>2 DEF Next, Step
  <1>3. QED  BY <1>1, <1>2, InitInv, NextInv, PTL DEF Spec, ImplementsResearchLab, Lab!Spec

\* What ResearchLabProofs shows of the requests holds with the treasury in the
\* file: a session that is active becomes passed by the commit of a verification.
THEOREM VerificationOpensReportKept == Spec => LP!VerificationOpensReport
  <1>1. Init => LP!Init
    BY SameInit DEF Init
  <1>2. IInv /\ [Next]_vars => [LP!Next]_(LP!vars)
    <2> SUFFICES ASSUME IInv, [Next]_vars PROVE [LP!Next]_(LP!vars)
      OBVIOUS
    <2>1. ASSUME NEW r \in Requests, Step(r)
          PROVE  LP!Next
      BY <2>1, StepRefines DEF IInv, TypeInv, LP!Step, LP!Next
    <2>2. CASE UNCHANGED vars
      <3>1. /\ UNCHANGED <<sessions, reports, completions, pc, call, loaded, entity>>
            /\ UNCHANGED <<copy, draft, write, tx, file>>
        BY <2>2 DEF vars, labvars
      <3>2. Verdicts' = Verdicts
        BY <3>1 DEF Verdicts
      <3>3. QED  BY <3>1, <3>2 DEF LP!vars, LP!tables, LP!locals
    <2>3. QED  BY <2>1, <2>2 DEF Next, Step
  <1>3. LP!Spec => LP!VerificationOpensReport
    BY LP!VerificationOpensReportHolds, SameAssumptions
  <1>4. QED  BY <1>1, <1>2, <1>3, InitInv, NextInv, PTL DEF Spec, LP!Spec

=============================================================================
