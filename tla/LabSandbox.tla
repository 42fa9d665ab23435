----------------------------- MODULE LabSandbox -----------------------------
(***************************************************************************)
(* The sandbox of a research lab session: the treasury in its state file,  *)
(* and the rows that its requests write beside it and ResearchLab leaves   *)
(* out: the transactions and the passed verifications.  The file decides   *)
(* what ResearchLab leaves open, the verdict; this module implements it    *)
(* with sandbox <- Verdicts.                                               *)
(*                                                                         *)
(* The routes of the report touch none of this and are ResearchLab's.  The *)
(* deletes of one reset are one step.  trust is history: whether a reset   *)
(* has overlapped another request of the session, or failed, since the     *)
(* last reset that ran alone to its end.                                   *)
(***************************************************************************)
EXTENDS Integers, FiniteSets

CONSTANTS
    Users, Requests, SessionIds, None,
    MaxRows          \* bound on the transactions and on the passed verifications of a session

ASSUME MaxRowsAssumption == MaxRows \in Nat
ASSUME RequestsAssumption == IsFiniteSet(Requests)
ASSUME NoneAssumption == None \notin Users \cup SessionIds

VARIABLES
    sessions, reports, completions, pc, call, loaded, entity, copy, draft, write, tx,
    file,            \* the state file of each session
    transactions,    \* committed: the transaction references of each session
    passes,          \* committed: the number of its passed verifications
    rows,            \* per request: what its transaction does to these two
    trust

labvars == <<sessions, reports, completions, pc, call, loaded, entity, copy, draft, write, tx>>
committed == <<transactions, passes>>
vars == <<labvars, file, committed, rows, trust>>

-----------------------------------------------------------------------------
(* The state file of treasury-mirage. *)

TREASURY == 1000000
COLLATERAL == 500000
AMOUNT == 250000
Refs == 1 .. MaxRows

InitialFile ==
    [treasury |-> TREASURY, reward |-> 0, credit |-> 0, deposited |-> FALSE, logs |-> {}]

Deposit(f) == [f EXCEPT !.credit = @ + COLLATERAL, !.deposited = TRUE]

\* Mutant: a withdrawal uses up the credit.
WithdrawSpending(f) ==
    IF f.credit <= 0 THEN f
    ELSE [f EXCEPT !.treasury = @ - AMOUNT, !.reward = @ + AMOUNT, !.credit = @ - AMOUNT]

\* Whatever the treasury holds; the credit stays.
Withdraw(f) ==
    IF f.credit <= 0 THEN f
    ELSE [f EXCEPT !.treasury = @ - AMOUNT, !.reward = @ + AMOUNT]

\* verify_objective of the runtime
Proves(f) == f.deposited /\ f.credit > 0 /\ f.treasury < TREASURY /\ f.reward > 0

Verdicts == [s \in SessionIds |-> IF Proves(file[s]) THEN "drained" ELSE "clean"]

Lab == INSTANCE ResearchLab WITH sandbox <- Verdicts

-----------------------------------------------------------------------------
NoRows == [made |-> {}, passes |-> 0, gone |-> [made |-> {}, passes |-> 0]]

Init ==
    /\ file = [s \in SessionIds |-> InitialFile]
    /\ Lab!Init
    /\ transactions = [s \in SessionIds |-> {}]
    /\ passes = [s \in SessionIds |-> 0]
    /\ rows = [r \in Requests |-> NoRows]
    /\ trust = [s \in SessionIds |-> "whole"]

Open(s) == {r \in Requests : pc[r] # "idle" /\ call[r].session = s}
Own(r) == call[r].session
UsedRefs(s) == file[s].logs \cup transactions[s] \cup UNION {rows[r].made : r \in Open(s)}

\* What becomes of the trust in s when a request arrives.
TrustAfter(op, s) ==
    IF op = "reset" THEN IF Open(s) = {} THEN "healing" ELSE "torn"
    ELSE IF \E r \in Open(s) : call[r].op = "reset" THEN "torn" ELSE trust[s]

CreateSession(r, u) ==
    \E s \in SessionIds :
        /\ file' = [file EXCEPT ![s] = InitialFile]
        /\ Lab!CreateSession(r, u)
        /\ call'[r].session = s
        /\ UNCHANGED <<committed, rows, trust>>

BeginTransact(r, s) == Cardinality(UsedRefs(s)) + Cardinality(Open(s)) < MaxRows /\ Lab!BeginTransact(r, s)
BeginVerify(r, s) == passes[s] + Cardinality(Open(s)) < MaxRows /\ Lab!BeginVerify(r, s)

Begin(r, s) ==
    /\ UNCHANGED file
    /\ BeginTransact(r, s) \/ BeginVerify(r, s) \/ Lab!BeginReset(r, s)
    /\ trust' = [trust EXCEPT ![s] = TrustAfter(call'[r].op, s)]
    /\ UNCHANGED <<committed, rows>>

-----------------------------------------------------------------------------
\* The file is written with the effect and the log of the transaction, of which
\* a deposit of another account, a withdrawal without credit and an action that
\* is not supported have no effect; its row is not committed yet.
ExecuteTransaction(r) ==
    LET s == Own(r)
        ref == CHOOSE i \in Refs \ UsedRefs(s) : TRUE
    IN  /\ pc[r] = "execute"
        /\ \E f \in {file[s], Deposit(file[s]), Withdraw(file[s])} :
              file' = [file EXCEPT ![s] = [f EXCEPT !.logs = @ \cup {ref}]]
        /\ rows' = [rows EXCEPT ![r].made = {ref}]
        /\ entity' = [entity EXCEPT ![r].tried = TRUE]
        /\ pc' = [pc EXCEPT ![r] = "session_flush"]
        /\ UNCHANGED <<sessions, reports, completions, call, loaded, copy, draft, write, tx,
                       committed, trust>>

VerifyObjective(r) ==
    /\ UNCHANGED file
    /\ Lab!VerifyObjective(r)
    /\ rows' = [rows EXCEPT ![r].passes = IF tx'[r].verified THEN 1 ELSE 0]
    /\ UNCHANGED <<committed, trust>>

-----------------------------------------------------------------------------
(* Reset. *)

ResetRuntime(r) ==
    /\ pc[r] = "wipe"
    /\ file' = [file EXCEPT ![Own(r)] = InitialFile]
    /\ Lab!ResetRuntime(r)
    /\ UNCHANGED <<committed, rows, trust>>

\* Mutant: the verifications are kept.
ClearedRowsOfRuns(r) == [made |-> transactions[Own(r)], passes |-> 0]

\* What clear_runtime_state deletes: the rows that are committed.
ClearedRows(r) == [made |-> transactions[Own(r)], passes |-> passes[Own(r)]]

\* Mutant: two resets delete the same rows.
HeldNever(r) == FALSE

\* Another reset is deleting some of the rows.
Held(r) ==
    \E q \in Open(Own(r)) \ {r} :
        LET gone == rows[q].gone
        IN  \/ gone.made \cap ClearedRows(r).made # {}
            \/ gone.passes > 0 /\ ClearedRows(r).passes > 0

ClearRuns(r) ==
    /\ UNCHANGED file
    /\ Lab!ClearRuns(r)
    /\ ~Held(r)
    /\ rows' = [rows EXCEPT ![r].gone = ClearedRows(r)]
    /\ UNCHANGED <<committed, trust>>

Commit(r) ==
    LET s == Own(r)
        mine == rows[r]
    IN  /\ UNCHANGED file
        /\ Lab!Commit(r)
        /\ transactions' = [transactions EXCEPT ![s] = (@ \ mine.gone.made) \cup mine.made]
        /\ passes' = [passes EXCEPT ![s] = @ - mine.gone.passes + mine.passes]
        /\ rows' = [rows EXCEPT ![r] = NoRows]
        /\ trust' = IF call[r].op = "reset" /\ trust[s] = "healing"
                    THEN [trust EXCEPT ![s] = "whole"] ELSE trust

Abort(r) ==
    /\ UNCHANGED file
    /\ Lab!Abort(r)
    /\ rows' = [rows EXCEPT ![r] = NoRows]
    /\ trust' = IF call[r].op = "reset" THEN [trust EXCEPT ![Own(r)] = "torn"] ELSE trust
    /\ UNCHANGED committed

Arrive(r) == (\E u \in Users : CreateSession(r, u)) \/ (\E s \in SessionIds : Begin(r, s))

Proceed(r) ==
    \/ ExecuteTransaction(r) \/ VerifyObjective(r)
    \/ ResetRuntime(r) \/ ClearRuns(r)
    \/ UNCHANGED <<file, committed, rows, trust>> /\ (Lab!ClearReport(r) \/ Lab!FlushSession(r))
    \/ Commit(r)

Next == \E r \in Requests : Arrive(r) \/ Proceed(r) \/ Abort(r)

Spec == Init /\ [][Next]_vars

\* The event loop resumes a request whose statement has returned, and the
\* database serves in turn those that wait for a row.
FairSpec == Spec /\ \A r \in Requests : SF_vars(Proceed(r))

-----------------------------------------------------------------------------
(* Properties. *)

TypeOK ==
    /\ \A s \in SessionIds :
          /\ file[s] \in [treasury : Int, reward : Nat, credit : Nat, deposited : BOOLEAN,
                          logs : SUBSET Refs]
          /\ transactions[s] \in SUBSET Refs /\ passes[s] \in 0 .. MaxRows
          /\ trust[s] \in {"whole", "healing", "torn"}
    /\ \A r \in Requests : rows[r].made \in SUBSET Refs /\ rows[r].passes \in 0 .. 1

\* What the sandbox does to its file is all that ResearchLab says of it: a file
\* that proves the impact goes on proving it until a reset, whatever further
\* deposits and withdrawals come, and nothing but a transaction proves it.
ImplementsResearchLab == Lab!Spec

\* The tables and the file tell one story: a session is passed when it has a
\* passed verification, over a file that still proves it, and the logs of every
\* transaction listed are in the file.  Only a reset that overlapped another
\* request of the session, or failed, breaks this, and one that runs alone to
\* its end repairs it: no other request does, failed ones included.
TablesMatchFile ==
    \A s \in SessionIds : trust[s] = "whole" =>
        /\ sessions[s].status = "passed" <=> passes[s] > 0
        /\ sessions[s].status = "passed" => Proves(file[s])
        /\ transactions[s] \subseteq file[s].logs

\* A request on a session ends, also one that waits for another reset to delete
\* its rows or for the session's row.
EveryRequestEnds == \A r \in Requests : pc[r] # "idle" ~> pc[r] = "idle"
=============================================================================
