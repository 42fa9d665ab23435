------------------------- MODULE UserLedgerProofs -------------------------
(***************************************************************************)
(* Theorems about UserLedger, for every number of users, awards, wallets   *)
(* and requests.                                                           *)
(***************************************************************************)
EXTENDS UserLedger, FiniteSetTheorems, TLAPS

-----------------------------------------------------------------------------
(* The operators the model is built from. *)

\* The columns a flush writes are columns of the table, and an UPDATE of some
\* columns of a row yields a row.
LEMMA RowsTyped ==
    ASSUME NEW row \in UserRow, NEW copy \in UserRow, NEW cols
    PROVE  /\ Changed(row, copy) \subseteq UserCols
           /\ Merged(row, copy, cols) \in UserRow
           /\ Merged(row, copy, cols).xp \in {row.xp, copy.xp}
           /\ Merged(row, copy, cols).completed_levels
                 \in {row.completed_levels, copy.completed_levels}
           /\ Merged(row, copy, cols).wallet =
                 IF "wallet" \in cols THEN copy.wallet ELSE row.wallet
  BY DEF Changed, Merged, UserRow, UserCols

\* The account and the call a request begins and ends with.
LEMMA EmptyRows ==
    /\ NoAccount \in UserRow /\ NoAccount.xp = 0 /\ NoAccount.completed_levels = 0
    /\ NoAccount.wallet = None
    /\ NoCall \in Call /\ NoCall.award = None
    /\ NoWrites \in Transaction /\ NoWrites.granted = FALSE /\ NoWrites.userCols = {}
  BY DEF NoAccount, NoCall, NoWrites, UserRow, Call, Transaction

\* The awards paid to a user are awards.
LEMMA PaidToTyped == \A u : PaidTo(u) \subseteq Awards
  BY DEF PaidTo

\* One more award adds its reward to the total.
LEMMA TotalGrows ==
    ASSUME NEW paid \in SUBSET Awards, NEW a \in Awards
    PROVE  /\ TotalReward[paid] \in Nat
           /\ Reward[a] \in Nat
           /\ TotalReward[paid] <= TotalReward[paid \cup {a}]
           /\ a \notin paid => TotalReward[paid \cup {a}] = TotalReward[paid] + Reward[a]
  <1>1. TotalReward[paid] \in Nat /\ Reward[a] \in Nat
    BY AwardsAssumption
  <1>2. a \notin paid => TotalReward[paid \cup {a}] = TotalReward[paid] + Reward[a]
    BY AwardsAssumption
  <1>3. CASE a \in paid
    <2>1. paid \cup {a} = paid
      BY <1>3
    <2>2. TotalReward[paid \cup {a}] = TotalReward[paid]
      BY <2>1
    <2>3. QED  BY <1>1, <1>3, <2>2
  <1>4. CASE a \notin paid
    BY <1>1, <1>2, <1>4
  <1>5. QED  BY <1>3, <1>4

\* One more award adds one to the number of levels among them, if it is one.
LEMMA LevelsGrow ==
    ASSUME NEW paid \in SUBSET Awards, NEW a \in Awards
    PROVE  /\ Cardinality(paid \cap Levels) \in Nat
           /\ Cardinality(paid \cap Levels) <= Cardinality((paid \cup {a}) \cap Levels)
           /\ a \in Levels /\ a \notin paid =>
                 Cardinality((paid \cup {a}) \cap Levels) = Cardinality(paid \cap Levels) + 1
  <1>1. IsFiniteSet(paid \cap Levels)
    BY AwardsAssumption, FS_Subset DEF Awards
  <1>2. Cardinality(paid \cap Levels) \in Nat
    BY <1>1, FS_CardinalityType
  <1>3. CASE a \in Levels /\ a \notin paid
    <2>1. (paid \cup {a}) \cap Levels = (paid \cap Levels) \cup {a}
      BY <1>3
    <2>2. Cardinality((paid \cap Levels) \cup {a}) = Cardinality(paid \cap Levels) + 1
      BY <1>1, <1>3, FS_AddElement
    <2>3. QED  BY <1>2, <2>1, <2>2
  <1>4. CASE ~(a \in Levels /\ a \notin paid)
    <2>1. (paid \cup {a}) \cap Levels = paid \cap Levels
      BY <1>4
    <2>2. QED  BY <1>2, <1>4, <2>1
  <1>5. QED  BY <1>3, <1>4

-----------------------------------------------------------------------------
(* Who may touch what: a step of a request changes its own locals only, and *)
(* only its commit changes the tables.                                      *)

Step(r) == Arrive(r) \/ Proceed(r) \/ Abort(r)

LEMMA OthersUntouched ==
    ASSUME TypeOK, NEW r \in Requests, Step(r), NEW q \in Requests \ {r}
    PROVE  /\ pc'[q] = pc[q] /\ call'[q] = call[q] /\ account'[q] = account[q]
           /\ dirty'[q] = dirty[q] /\ tx'[q] = tx[q]
  <1>1. CASE Arrive(r)
    BY <1>1 DEF Arrive, BeginLevel, BeginReport, BeginLink, Goto, TypeOK
  <1>2. CASE Proceed(r)
    BY <1>2 DEF Proceed, CompleteLevel, AwardLab, LinkWallet, InsertAward, MergeAccount,
                FlushAccount, IntegrityError, Commit, Close, Goto, TypeOK
  <1>3. CASE Abort(r)
    BY <1>3 DEF Abort, Close, TypeOK
  <1>4. QED  BY <1>1, <1>2, <1>3 DEF Step

LEMMA OnlyCommitsWrite ==
    ASSUME NEW r \in Requests, Step(r)
    PROVE  UNCHANGED tables \/ Commit(r)
  BY DEF Step, Arrive, Proceed, Abort, BeginLevel, BeginReport, BeginLink, CompleteLevel,
         AwardLab, LinkWallet, InsertAward, MergeAccount, FlushAccount, IntegrityError

-----------------------------------------------------------------------------
(* Type correctness.  TypeOK is not inductive: a commit writes rows keyed by *)
(* the user and the award of its call, which exist while it runs.            *)

CallOK(r) ==
    /\ pc[r] # "idle" => call[r].user \in Users
    /\ pc[r] \in {"complete", "award", "grant"} => call[r].award \in Awards
    /\ pc[r] = "complete" => call[r].award \in Levels
    /\ pc[r] = "award" => call[r].award \in Labs
    /\ pc[r] = "link" => call[r].wallet \in Wallets /\ call[r].award = None
    /\ tx[r].granted => call[r].award \in Awards /\ pc[r] \in {"merge", "flush", "commit"}

TypeInv == TypeOK /\ \A r \in Requests : CallOK(r)

LEMMA InitTyped == Init => TypeInv
  <1> SUFFICES ASSUME Init PROVE TypeInv
    OBVIOUS
  <1>1. TypeOK
    BY EmptyRows DEF Init, TypeOK, PCs
  <1>2. \A r \in Requests : CallOK(r)
    BY EmptyRows DEF Init, CallOK
  <1>3. QED  BY <1>1, <1>2 DEF TypeInv

\* The award of a verified level or of an accepted report is worked out on an
\* account that is, and stays, a row.
LEMMA CreditTyped ==
    ASSUME NEW row \in UserRow, NEW a \in Awards
    PROVE  /\ [row EXCEPT !.xp = @ + Reward[a], !.completed_levels = @ + 1] \in UserRow
           /\ [row EXCEPT !.xp = @ + Reward[a]] \in UserRow
  <1>1. Reward[a] \in Nat
    BY AwardsAssumption
  <1>2. row.xp + Reward[a] \in Nat /\ row.completed_levels + 1 \in Nat
    BY <1>1 DEF UserRow
  <1>3. [row EXCEPT !.xp = @ + Reward[a], !.completed_levels = @ + 1] \in UserRow
    BY <1>2 DEF UserRow
  <1>4. [row EXCEPT !.xp = @ + Reward[a]] \in UserRow
    BY <1>2 DEF UserRow
  <1>5. QED  BY <1>3, <1>4

LEMMA CloseTyped ==
    ASSUME TypeInv, NEW r \in Requests, Close(r)
    PROVE  /\ pc' \in [Requests -> PCs] /\ call' \in [Requests -> Call]
           /\ account' \in [Requests -> UserRow] /\ dirty' \in [Requests -> SUBSET UserCols]
           /\ tx' \in [Requests -> Transaction]
           /\ pc'[r] = "idle" /\ call'[r] = NoCall /\ tx'[r] = NoWrites
           /\ CallOK(r)'
  <1>1. /\ pc' \in [Requests -> PCs] /\ call' \in [Requests -> Call]
        /\ account' \in [Requests -> UserRow] /\ dirty' \in [Requests -> SUBSET UserCols]
        /\ tx' \in [Requests -> Transaction]
        /\ pc'[r] = "idle" /\ call'[r] = NoCall /\ tx'[r] = NoWrites
    BY EmptyRows DEF Close, TypeInv, TypeOK, PCs
  <1>2. QED  BY <1>1, EmptyRows DEF CallOK

LEMMA ArriveTyped ==
    ASSUME TypeInv, NEW r \in Requests, Arrive(r)
    PROVE  TypeOK' /\ CallOK(r)'
  <1> USE DEF TypeInv
  <1>0. pc[r] = "idle" /\ CallOK(r)
    BY DEF Arrive, BeginLevel, BeginReport, BeginLink
  <1>1. ASSUME NEW u \in Users, NEW l \in Levels, BeginLevel(r, u, l)
        PROVE  TypeOK' /\ CallOK(r)'
    <2>1. NewCall("level", u, l, None) \in Call
      BY DEF NewCall, Call, Awards
    <2>2. TypeOK'
      BY <1>1, <2>1 DEF BeginLevel, Goto, TypeOK, PCs, tables
    <2>3. CallOK(r)'
      BY <1>0, <1>1 DEF BeginLevel, Goto, TypeOK, CallOK, NewCall, Awards
    <2>4. QED  BY <2>2, <2>3
  <1>2. ASSUME NEW u \in Users, NEW b \in Labs, BeginReport(r, u, b)
        PROVE  TypeOK' /\ CallOK(r)'
    <2>1. NewCall("report", u, b, None) \in Call
      BY DEF NewCall, Call, Awards
    <2>2. TypeOK'
      BY <1>2, <2>1 DEF BeginReport, Goto, TypeOK, PCs, tables
    <2>3. CallOK(r)'
      BY <1>0, <1>2 DEF BeginReport, Goto, TypeOK, CallOK, NewCall, Awards
    <2>4. QED  BY <2>2, <2>3
  <1>3. ASSUME NEW u \in Users, NEW w \in Wallets, BeginLink(r, u, w)
        PROVE  TypeOK' /\ CallOK(r)'
    <2>1. NewCall("link", u, None, w) \in Call
      BY DEF NewCall, Call
    <2>2. TypeOK'
      BY <1>3, <2>1 DEF BeginLink, Goto, TypeOK, PCs, tables
    <2>3. CallOK(r)'
      BY <1>3, <1>0 DEF BeginLink, Goto, TypeOK, CallOK, NewCall, Awards
    <2>4. QED  BY <2>2, <2>3
  <1>4. QED  BY <1>1, <1>2, <1>3 DEF Arrive

LEMMA ProceedTyped ==
    ASSUME TypeInv, NEW r \in Requests, Proceed(r)
    PROVE  TypeOK' /\ CallOK(r)'
  <1> USE DEF TypeInv
  <1>0. CallOK(r) /\ account[r] \in UserRow /\ call[r] \in Call
    BY DEF TypeOK
  <1>1. CASE CompleteLevel(r)
    <2>1. call[r].user \in Users /\ call[r].award \in Awards
      BY <1>0, <1>1 DEF CompleteLevel, CallOK
    <2>2. users[call[r].user] \in UserRow
      BY <2>1 DEF TypeOK
    <2>3. account' \in [Requests -> UserRow]
      <3>1. [users[call[r].user] EXCEPT !.xp = @ + Reward[call[r].award],
                                        !.completed_levels = @ + 1] \in UserRow
        BY <2>1, <2>2, CreditTyped
      <3>2. QED  BY <1>1, <3>1 DEF CompleteLevel, TypeOK
    <2>4. TypeOK'
      BY <1>1, <2>3 DEF CompleteLevel, Goto, TypeOK, PCs, tables
    <2>5. CallOK(r)'
      BY <1>0, <1>1 DEF CompleteLevel, Goto, TypeOK, CallOK
    <2>6. QED  BY <2>4, <2>5
  <1>2. CASE AwardLab(r)
    <2>1. call[r].user \in Users /\ call[r].award \in Awards
      BY <1>0, <1>2 DEF AwardLab, CallOK
    <2>2. account' \in [Requests -> UserRow]
      <3>1. [account[r] EXCEPT !.xp = @ + Reward[call[r].award]] \in UserRow
        BY <1>0, <2>1, CreditTyped
      <3>2. QED  BY <1>2, <3>1 DEF AwardLab, TypeOK
    <2>3. TypeOK'
      BY <1>2, <2>2 DEF AwardLab, Goto, TypeOK, PCs, tables
    <2>4. CallOK(r)'
      BY <1>0, <1>2 DEF AwardLab, Goto, TypeOK, CallOK
    <2>5. QED  BY <2>3, <2>4
  <1>3. CASE LinkWallet(r)
    <2>1. call[r].wallet \in Wallets
      BY <1>0, <1>3 DEF LinkWallet, CallOK
    <2>2. [account[r] EXCEPT !.wallet = call[r].wallet] \in UserRow
      BY <1>0, <2>1 DEF UserRow
    <2>3. TypeOK'
      BY <1>3, <2>2 DEF LinkWallet, Goto, TypeOK, PCs, tables
    <2>4. CallOK(r)'
      BY <1>0, <1>3 DEF LinkWallet, Goto, TypeOK, CallOK
    <2>5. QED  BY <2>3, <2>4
  <1>4. CASE InsertAward(r)
    <2>1. TypeOK'
      BY <1>4 DEF InsertAward, Goto, TypeOK, PCs, Transaction, tables
    <2>2. CallOK(r)'
      BY <1>0, <1>4 DEF InsertAward, Goto, TypeOK, CallOK
    <2>3. QED  BY <2>1, <2>2
  <1>5. CASE MergeAccount(r)
    <2>1. Changed(users[call[r].user], account[r]) \in SUBSET UserCols
      BY <1>0 DEF Changed, UserRow, UserCols
    <2>2. TypeOK'
      BY <1>5, <2>1 DEF MergeAccount, Goto, TypeOK, PCs, tables
    <2>3. CallOK(r)'
      BY <1>0, <1>5 DEF MergeAccount, Goto, TypeOK, CallOK
    <2>4. QED  BY <2>2, <2>3
  <1>6. CASE FlushAccount(r)
    <2>1. TypeOK'
      BY <1>6 DEF FlushAccount, Goto, TypeOK, PCs, Transaction, tables
    <2>2. CallOK(r)'
      BY <1>0, <1>6 DEF FlushAccount, Goto, TypeOK, CallOK, Transaction
    <2>3. QED  BY <2>1, <2>2
  <1>7. CASE IntegrityError(r)
    <2>1. Close(r) /\ UNCHANGED tables
      BY <1>7 DEF IntegrityError
    <2>2. QED  BY <2>1, CloseTyped DEF TypeOK, tables
  <1>8. CASE Commit(r)
    <2>1. Close(r)
      BY <1>8 DEF Commit
    <2>2. call[r].user \in Users /\ (tx[r].granted => call[r].award \in Awards)
      BY <1>0, <1>8 DEF Commit, CallOK
    <2>3. awarded' \in SUBSET (Users \X Awards)
      BY <1>8, <2>2 DEF Commit, TypeOK
    <2>4. users[call[r].user] \in UserRow
      BY <2>2 DEF TypeOK
    <2>5. Merged(users[call[r].user], account[r], tx[r].userCols) \in UserRow
      BY <1>0, <2>4, RowsTyped
    <2>6. users' \in [Users -> UserRow]
      BY <1>8, <2>2, <2>5 DEF Commit, TypeOK
    <2>7. QED  BY <2>1, <2>3, <2>6, CloseTyped DEF TypeOK
  <1>9. QED
    BY <1>1, <1>2, <1>3, <1>4, <1>5, <1>6, <1>7, <1>8 DEF Proceed

LEMMA StepTyped ==
    ASSUME TypeInv, NEW r \in Requests, Step(r)
    PROVE  TypeInv'
  <1>1. TypeOK' /\ CallOK(r)'
    <2>1. CASE Abort(r)
      BY <2>1, CloseTyped DEF Abort, TypeInv, TypeOK, tables
    <2>2. QED  BY <2>1, ArriveTyped, ProceedTyped DEF Step
  <1>2. ASSUME NEW q \in Requests \ {r}
        PROVE  CallOK(q)'
    BY OthersUntouched DEF TypeInv, CallOK
  <1>3. QED  BY <1>1, <1>2 DEF TypeInv

LEMMA NextTyped == TypeInv /\ [Next]_vars => TypeInv'
  <1> SUFFICES ASSUME TypeInv, [Next]_vars PROVE TypeInv'
    OBVIOUS
  <1>1. CASE Next
    <2>1. PICK r \in Requests : Step(r)
      BY <1>1 DEF Next, Step
    <2>2. QED  BY <2>1, StepTyped
  <1>2. CASE UNCHANGED vars
    BY <1>2 DEF vars, tables, locals, TypeInv, TypeOK, CallOK
  <1>3. QED  BY <1>1, <1>2

\* Every committed row and every local of a request has its type.
THEOREM TypeInvariant == Spec => []TypeOK
  <1>1. TypeInv => TypeOK
    BY DEF TypeInv
  <1>2. QED  BY <1>1, InitTyped, NextTyped, PTL DEF Spec

-----------------------------------------------------------------------------
(* NeverOverpaid is not inductive: an account in a request's memory may      *)
(* already hold the award the request is about to record.  What is inductive *)
(* is that every account, stale or not, holds at most the awards on record   *)
(* for its user and the award its request has claimed, and that a request    *)
(* past the INSERT has its award on record or among its own writes.          *)

Within(row, paid) ==
    /\ row.xp <= TotalReward[paid]
    /\ row.completed_levels <= Cardinality(paid \cap Levels)

Credited == {"grant", "merge", "flush", "commit"}

Claim(r) == IF pc[r] \in Credited /\ call[r].award \in Awards THEN {call[r].award} ELSE {}

CreditOK(r) ==
    /\ pc[r] \in {"idle", "complete"} => account[r] = NoAccount
    /\ pc[r] # "idle" => Within(account[r], PaidTo(call[r].user) \cup Claim(r))
    /\ pc[r] \in Credited \ {"grant"} /\ call[r].award \in Awards =>
          tx[r].granted \/ call[r].award \in PaidTo(call[r].user)

CreditInv == NeverOverpaid /\ \A r \in Requests : CreditOK(r)

LEMMA NeverOverpaidRows == NeverOverpaid <=> \A u \in Users : Within(users[u], PaidTo(u))
  BY DEF NeverOverpaid, Within

\* An account that holds nothing.
LEMMA WithinNothing ==
    ASSUME NEW paid \in SUBSET Awards
    PROVE  Within(NoAccount, paid)
  <1>1. TotalReward[paid] \in Nat
    BY AwardsAssumption
  <1>2. IsFiniteSet(paid \cap Levels)
    BY AwardsAssumption, FS_Subset DEF Awards
  <1>3. Cardinality(paid \cap Levels) \in Nat
    BY <1>2, FS_CardinalityType
  <1>4. QED  BY <1>1, <1>3, EmptyRows DEF Within

LEMMA WithinGrows ==
    ASSUME NEW row \in UserRow, NEW paid \in SUBSET Awards, NEW a \in Awards,
           Within(row, paid)
    PROVE  Within(row, paid \cup {a})
  <1>1. TotalReward[paid] \in Nat /\ TotalReward[paid \cup {a}] \in Nat
    BY AwardsAssumption
  <1>2. TotalReward[paid] <= TotalReward[paid \cup {a}]
    BY TotalGrows
  <1>3. row.xp <= TotalReward[paid \cup {a}]
    BY <1>1, <1>2 DEF Within, UserRow
  <1>4. Cardinality(paid \cap Levels) \in Nat
    BY LevelsGrow
  <1>5. Cardinality((paid \cup {a}) \cap Levels) \in Nat
    BY LevelsGrow
  <1>6. Cardinality(paid \cap Levels) <= Cardinality((paid \cup {a}) \cap Levels)
    BY LevelsGrow
  <1>7. row.completed_levels <= Cardinality((paid \cup {a}) \cap Levels)
    BY <1>4, <1>5, <1>6 DEF Within, UserRow
  <1>8. QED  BY <1>3, <1>7 DEF Within

\* A credit that goes with a claim keeps an account within its awards.
LEMMA WithinCredit ==
    ASSUME NEW row \in UserRow, NEW paid \in SUBSET Awards, NEW a \in Awards \ paid,
           Within(row, paid)
    PROVE  /\ a \in Levels => Within([row EXCEPT !.xp = @ + Reward[a],
                                                 !.completed_levels = @ + 1], paid \cup {a})
           /\ Within([row EXCEPT !.xp = @ + Reward[a]], paid \cup {a})
  <1>1. TotalReward[paid] \in Nat /\ Reward[a] \in Nat
    BY TotalGrows
  <1>2. TotalReward[paid \cup {a}] = TotalReward[paid] + Reward[a]
    BY TotalGrows
  <1>3. row.xp + Reward[a] <= TotalReward[paid \cup {a}]
    BY <1>1, <1>2 DEF Within, UserRow
  <1>4. row.completed_levels <= Cardinality((paid \cup {a}) \cap Levels)
    BY WithinGrows DEF Within
  <1>5. a \in Levels => row.completed_levels + 1 <= Cardinality((paid \cup {a}) \cap Levels)
    <2>1. Cardinality(paid \cap Levels) \in Nat
      BY LevelsGrow
    <2>2. a \in Levels =>
             Cardinality((paid \cup {a}) \cap Levels) = Cardinality(paid \cap Levels) + 1
      BY LevelsGrow
    <2>3. QED  BY <2>1, <2>2 DEF Within, UserRow
  <1>6. QED  BY <1>3, <1>4, <1>5 DEF Within, UserRow

\* Whatever columns of a stale account are written back.
LEMMA WithinMerged ==
    ASSUME NEW row \in UserRow, NEW copy \in UserRow, NEW cols, NEW paid,
           Within(row, paid), Within(copy, paid)
    PROVE  Within(Merged(row, copy, cols), paid)
  BY RowsTyped DEF Within

LEMMA InitCredit == Init => CreditInv
  <1> SUFFICES ASSUME Init PROVE CreditInv
    OBVIOUS
  <1>1. ASSUME NEW u \in Users
        PROVE  Within(users[u], PaidTo(u))
    <2>1. PaidTo(u) = {}
      BY DEF Init, PaidTo
    <2>2. TotalReward[{}] = 0 /\ Cardinality({} \cap Levels) = 0
      <3>1. {} \cap Levels = {}
        OBVIOUS
      <3>2. QED  BY <3>1, AwardsAssumption, FS_EmptySet
    <2>3. users[u] = NoAccount
      BY DEF Init
    <2>4. QED  BY <2>1, <2>2, <2>3, EmptyRows DEF Within
  <1>2. \A r \in Requests : CreditOK(r)
    BY DEF Init, CreditOK, Credited
  <1>3. QED  BY <1>1, <1>2, NeverOverpaidRows DEF CreditInv

\* A step that leaves the tables alone keeps the credit of its own request.
LEMMA OwnCredit ==
    ASSUME TypeInv, CreditInv, NEW r \in Requests, Step(r), UNCHANGED tables
    PROVE  CreditOK(r)'
  <1>0. CallOK(r) /\ CreditOK(r) /\ account[r] \in UserRow /\ TypeOK
    BY DEF TypeInv, TypeOK, CreditInv
  <1>a. \A u : PaidTo(u)' = PaidTo(u) /\ PaidTo(u) \in SUBSET Awards
    BY DEF PaidTo, tables
  <1>b. \A u \in Users : Within(users[u], PaidTo(u))
    BY NeverOverpaidRows DEF CreditInv
  <1>c. \A paid \in SUBSET Awards : Within(NoAccount, paid)
    BY WithinNothing
  <1>1. CASE Arrive(r)
    <2>1. ASSUME NEW u \in Users, NEW l \in Levels, BeginLevel(r, u, l)
          PROVE  CreditOK(r)'
      <3>1. /\ pc'[r] = "complete" /\ account'[r] = NoAccount /\ call'[r].user = u
        BY <1>0, <2>1 DEF BeginLevel, Goto, TypeOK, CreditOK, NewCall
      <3>2. Claim(r)' = {}
        BY <3>1 DEF Claim, Credited
      <3>3. QED  BY <1>a, <1>c, <3>1, <3>2 DEF CreditOK, Credited
    <2>2. ASSUME NEW u \in Users, NEW b \in Labs, BeginReport(r, u, b)
          PROVE  CreditOK(r)'
      <3>1. /\ pc'[r] = "award" /\ account'[r] = users[u] /\ call'[r].user = u
        BY <1>0, <2>2 DEF BeginReport, Goto, TypeOK, NewCall
      <3>2. Claim(r)' = {}
        BY <3>1 DEF Claim, Credited
      <3>3. QED  BY <1>a, <1>b, <3>1, <3>2 DEF CreditOK, Credited
    <2>3. ASSUME NEW u \in Users, NEW w \in Wallets, BeginLink(r, u, w)
          PROVE  CreditOK(r)'
      <3>1. /\ pc'[r] = "link" /\ account'[r] = users[u] /\ call'[r].user = u
        BY <1>0, <2>3 DEF BeginLink, Goto, TypeOK, NewCall
      <3>2. Claim(r)' = {}
        BY <3>1 DEF Claim, Credited
      <3>3. QED  BY <1>a, <1>b, <3>1, <3>2 DEF CreditOK, Credited
    <2>4. QED  BY <1>1, <2>1, <2>2, <2>3 DEF Arrive
  <1>2. CASE CompleteLevel(r)
    <2>1. /\ call'[r] = call[r] /\ call[r].user \in Users /\ call[r].award \in Levels
          /\ call[r].award \in Awards /\ pc[r] = "complete"
      BY <1>0, <1>2 DEF CompleteLevel, CallOK
    <2>2. CASE <<call[r].user, call[r].award>> \in awarded
      <3>1. pc'[r] = "commit" /\ account'[r] = NoAccount
        BY <1>0, <1>2, <2>1, <2>2 DEF CompleteLevel, Goto, TypeOK, CreditOK
      <3>2. call[r].award \in PaidTo(call[r].user) /\ Claim(r)' = {call[r].award}
        BY <2>1, <2>2, <3>1 DEF PaidTo, Claim, Credited
      <3>3. PaidTo(call[r].user)' \cup Claim(r)' \in SUBSET Awards
        BY <1>a, <2>1, <3>2
      <3>4. QED  BY <1>a, <1>c, <2>1, <3>1, <3>2, <3>3 DEF CreditOK, Credited
    <2>3. CASE <<call[r].user, call[r].award>> \notin awarded
      <3>1. /\ pc'[r] = "grant"
            /\ account'[r] = [users[call[r].user] EXCEPT !.xp = @ + Reward[call[r].award],
                                                       !.completed_levels = @ + 1]
        BY <1>0, <1>2, <2>1, <2>3 DEF CompleteLevel, Goto, TypeOK
      <3>2. call[r].award \notin PaidTo(call[r].user) /\ Claim(r)' = {call[r].award}
        BY <2>1, <2>3, <3>1 DEF PaidTo, Claim, Credited
      <3>3. users[call[r].user] \in UserRow
        BY <1>0, <2>1 DEF TypeOK
      <3>4. Within(account'[r], PaidTo(call[r].user) \cup {call[r].award})
        <4>1. /\ PaidTo(call[r].user) \in SUBSET Awards
              /\ call[r].award \in Awards \ PaidTo(call[r].user)
              /\ Within(users[call[r].user], PaidTo(call[r].user))
          BY <1>a, <1>b, <2>1, <3>2
        <4>2. call[r].award \in Levels =>
                 Within([users[call[r].user] EXCEPT !.xp = @ + Reward[call[r].award],
                                                    !.completed_levels = @ + 1],
                        PaidTo(call[r].user) \cup {call[r].award})
          BY <3>3, <4>1, WithinCredit
        <4>3. QED  BY <2>1, <3>1, <4>2
      <3>5. QED  BY <1>a, <2>1, <3>1, <3>2, <3>4 DEF CreditOK, Credited
    <2>4. QED  BY <2>2, <2>3
  <1>3. CASE AwardLab(r)
    <2>1. /\ call'[r] = call[r] /\ call[r].user \in Users
          /\ call[r].award \in Awards /\ pc[r] = "award"
      BY <1>0, <1>3 DEF AwardLab, CallOK
    <2>2. Within(account[r], PaidTo(call[r].user))
      BY <1>0, <2>1 DEF CreditOK, Claim, Credited
    <2>3. CASE <<call[r].user, call[r].award>> \in awarded
      <3>1. pc'[r] = "commit" /\ account'[r] = account[r]
        BY <1>0, <1>3, <2>1, <2>3 DEF AwardLab, Goto, TypeOK
      <3>2. call[r].award \in PaidTo(call[r].user) /\ Claim(r)' = {call[r].award}
        BY <2>1, <2>3, <3>1 DEF PaidTo, Claim, Credited
      <3>3. PaidTo(call[r].user) \cup Claim(r)' = PaidTo(call[r].user)
        BY <3>2
      <3>4. QED  BY <1>a, <2>1, <2>2, <3>1, <3>2, <3>3 DEF CreditOK, Credited
    <2>4. CASE <<call[r].user, call[r].award>> \notin awarded
      <3>1. /\ pc'[r] = "grant"
            /\ account'[r] = [account[r] EXCEPT !.xp = @ + Reward[call[r].award]]
        BY <1>0, <1>3, <2>1, <2>4 DEF AwardLab, Goto, TypeOK
      <3>2. call[r].award \notin PaidTo(call[r].user) /\ Claim(r)' = {call[r].award}
        BY <2>1, <2>4, <3>1 DEF PaidTo, Claim, Credited
      <3>3. Within(account'[r], PaidTo(call[r].user) \cup {call[r].award})
        <4>1. /\ PaidTo(call[r].user) \in SUBSET Awards
              /\ call[r].award \in Awards \ PaidTo(call[r].user)
          BY <1>a, <2>1, <3>2
        <4>2. Within([account[r] EXCEPT !.xp = @ + Reward[call[r].award]],
                     PaidTo(call[r].user) \cup {call[r].award})
          BY <1>0, <2>2, <4>1, WithinCredit
        <4>3. QED  BY <3>1, <4>2
      <3>4. QED  BY <1>a, <2>1, <3>1, <3>2, <3>3 DEF CreditOK, Credited
    <2>5. QED  BY <2>3, <2>4
  <1>4. CASE LinkWallet(r)
    <2>1. /\ call'[r] = call[r] /\ call[r].award = None /\ pc[r] = "link" /\ pc'[r] = "merge"
          /\ account'[r] = [account[r] EXCEPT !.wallet = call[r].wallet]
      BY <1>0, <1>4 DEF LinkWallet, CallOK, Goto, TypeOK
    <2>2. Claim(r) = {} /\ Claim(r)' = {} /\ call'[r].award \notin Awards
      BY <2>1, WalletsAssumption DEF Claim, Credited
    <2>3. account'[r].xp = account[r].xp /\ account'[r].completed_levels = account[r].completed_levels
      BY <1>0, <2>1 DEF UserRow
    <2>4. QED  BY <1>0, <1>a, <2>1, <2>2, <2>3 DEF CreditOK, Credited, Within
  <1>5. CASE InsertAward(r)
    <2>1. /\ call'[r] = call[r] /\ account'[r] = account[r] /\ tx'[r].granted
          /\ pc[r] = "grant" /\ pc'[r] = "merge"
      BY <1>0, <1>5 DEF InsertAward, Goto, TypeOK, Transaction
    <2>2. Claim(r)' = Claim(r)
      BY <2>1 DEF Claim, Credited
    <2>3. QED  BY <1>0, <1>a, <2>1, <2>2 DEF CreditOK, Credited
  <1>6. CASE MergeAccount(r)
    <2>1. /\ call'[r] = call[r] /\ account'[r] = account[r] /\ tx'[r] = tx[r]
          /\ pc[r] = "merge" /\ pc'[r] \in {"commit", "flush"}
      BY <1>0, <1>6 DEF MergeAccount, Goto, TypeOK
    <2>2. Claim(r)' = Claim(r)
      BY <2>1 DEF Claim, Credited
    <2>3. QED  BY <1>0, <1>a, <2>1, <2>2 DEF CreditOK, Credited
  <1>7. CASE FlushAccount(r)
    <2>1. /\ call'[r] = call[r] /\ account'[r] = account[r] /\ tx'[r].granted = tx[r].granted
          /\ pc[r] = "flush" /\ pc'[r] = "commit"
      BY <1>0, <1>7 DEF FlushAccount, Goto, TypeOK, Transaction
    <2>2. Claim(r)' = Claim(r)
      BY <2>1 DEF Claim, Credited
    <2>3. QED  BY <1>0, <1>a, <2>1, <2>2 DEF CreditOK, Credited
  <1>8. CASE IntegrityError(r) \/ Commit(r) \/ Abort(r)
    <2>1. pc'[r] = "idle" /\ account'[r] = NoAccount
      BY <1>0, <1>8 DEF IntegrityError, Commit, Abort, Close, TypeOK
    <2>2. QED  BY <2>1 DEF CreditOK, Credited
  <1>9. QED
    BY <1>1, <1>2, <1>3, <1>4, <1>5, <1>6, <1>7, <1>8 DEF Step, Proceed

\* A commit records at most the award of its call, and only for its user.
LEMMA CommitRecords ==
    ASSUME NEW r \in Requests, Commit(r)
    PROVE  \A u \in Users :
              PaidTo(u)' = IF u = call[r].user /\ tx[r].granted /\ call[r].award \in Awards
                           THEN PaidTo(u) \cup {call[r].award} ELSE PaidTo(u)
  BY DEF Commit, PaidTo

\* More awards on record leave an account within them.
LEMMA RecordsKeep ==
    ASSUME TypeInv, NEW r \in Requests, Commit(r), NEW u \in Users,
           NEW row \in UserRow, NEW claim \in SUBSET Awards,
           Within(row, PaidTo(u) \cup claim)
    PROVE  Within(row, PaidTo(u)' \cup claim)
  <1>1. PaidTo(u) \cup claim \in SUBSET Awards
    BY PaidToTyped
  <1>2. CASE PaidTo(u)' = PaidTo(u)
    BY <1>2
  <1>3. CASE call[r].award \in Awards /\ PaidTo(u)' = PaidTo(u) \cup {call[r].award}
    <2>1. PaidTo(u)' \cup claim = (PaidTo(u) \cup claim) \cup {call[r].award}
      BY <1>3
    <2>2. Within(row, (PaidTo(u) \cup claim) \cup {call[r].award})
      BY <1>1, <1>3, WithinGrows
    <2>3. QED  BY <2>1, <2>2
  <1>4. QED  BY <1>2, <1>3, CommitRecords

LEMMA CommitCredit ==
    ASSUME TypeInv, CreditInv, NEW r \in Requests, Commit(r)
    PROVE  CreditInv'
  <1>0. /\ TypeOK /\ CallOK(r) /\ CreditOK(r) /\ pc[r] = "commit"
        /\ call[r].user \in Users /\ account[r] \in UserRow
    BY DEF TypeInv, TypeOK, CreditInv, Commit, CallOK
  <1>1. ASSUME NEW u \in Users
        PROVE  Within(users'[u], PaidTo(u)')
    <2>1. users[u] \in UserRow /\ Within(users[u], PaidTo(u))
      BY <1>0, NeverOverpaidRows DEF TypeOK, CreditInv
    <2>2. Within(users[u], PaidTo(u)')
      <3>1. PaidTo(u) \cup {} = PaidTo(u) /\ PaidTo(u)' \cup {} = PaidTo(u)'
        OBVIOUS
      <3>2. Within(users[u], PaidTo(u)' \cup {})
        BY <2>1, <3>1, RecordsKeep
      <3>3. QED  BY <3>1, <3>2
    <2>3. CASE u # call[r].user
      <3>1. users'[u] = users[u]
        BY <1>0, <2>3 DEF Commit, TypeOK
      <3>2. QED  BY <2>2, <3>1
    <2>4. CASE u = call[r].user
      <3>1. Within(account[r], PaidTo(u) \cup Claim(r)) /\ Claim(r) \in SUBSET Awards
        BY <1>0, <2>4 DEF CreditOK, Claim
      <3>2. Within(account[r], PaidTo(u)' \cup Claim(r))
        BY <1>0, <3>1, RecordsKeep
      <3>3. Claim(r) \subseteq PaidTo(u)'
        BY <1>0, <2>4, CommitRecords DEF CreditOK, Claim, Credited
      <3>4. Within(account[r], PaidTo(u)')
        <4>1. PaidTo(u)' \cup Claim(r) = PaidTo(u)'
          BY <3>3
        <4>2. QED  BY <3>2, <4>1
      <3>5. users'[u] = Merged(users[u], account[r], tx[r].userCols)
        BY <1>0, <2>4 DEF Commit, TypeOK
      <3>6. QED  BY <1>0, <2>1, <2>2, <3>4, <3>5, WithinMerged
    <2>5. QED  BY <2>3, <2>4
  <1>2. ASSUME NEW q \in Requests
        PROVE  CreditOK(q)'
    <2>1. CASE q = r
      <3>1. pc'[q] = "idle" /\ account'[q] = NoAccount
        BY <1>0, <2>1 DEF Commit, Close, TypeOK
      <3>2. QED  BY <3>1 DEF CreditOK, Credited
    <2>2. CASE q # r
      <3>1. /\ pc'[q] = pc[q] /\ call'[q] = call[q] /\ account'[q] = account[q]
            /\ tx'[q] = tx[q]
        BY <1>0, <2>2, OthersUntouched DEF Step, Proceed
      <3>2. CreditOK(q) /\ CallOK(q) /\ account[q] \in UserRow
        BY DEF CreditInv, TypeInv, TypeOK
      <3>3. Claim(q)' = Claim(q) /\ Claim(q) \in SUBSET Awards
        BY <3>1 DEF Claim
      <3>4. CASE pc[q] = "idle"
        BY <3>1, <3>2, <3>4 DEF CreditOK, Credited
      <3>5. CASE pc[q] # "idle"
        <4>1. PICK v \in Users : v = call[q].user
          BY <3>2, <3>5 DEF CallOK
        <4>2. Within(account[q], PaidTo(v) \cup Claim(q))
          BY <3>2, <3>5, <4>1 DEF CreditOK
        <4>3. Within(account[q], PaidTo(v)' \cup Claim(q))
          BY <3>2, <3>3, <4>2, RecordsKeep
        <4>4. PaidTo(v) \subseteq PaidTo(v)'
          BY CommitRecords
        <4>5. PaidTo(call[q].user)' = PaidTo(v)'
          BY <3>1, <4>1 DEF PaidTo
        <4>6. QED  BY <3>1, <3>2, <3>3, <3>5, <4>1, <4>3, <4>4, <4>5 DEF CreditOK, Within, Credited
      <3>6. QED  BY <3>4, <3>5
    <2>3. QED  BY <2>1, <2>2
  <1>3. NeverOverpaid'
    BY <1>1, NeverOverpaidRows DEF NeverOverpaid, Within
  <1>4. QED  BY <1>2, <1>3 DEF CreditInv

LEMMA NextCredit == TypeInv /\ CreditInv /\ [Next]_vars => CreditInv'
  <1> SUFFICES ASSUME TypeInv, CreditInv, [Next]_vars PROVE CreditInv'
    OBVIOUS
  <1>1. ASSUME NEW r \in Requests, Step(r), UNCHANGED tables
        PROVE  CreditInv'
    <2>1. CreditOK(r)'
      BY <1>1, OwnCredit
    <2>2. ASSUME NEW q \in Requests \ {r}
          PROVE  CreditOK(q)'
      <3>1. /\ pc'[q] = pc[q] /\ call'[q] = call[q] /\ account'[q] = account[q]
            /\ tx'[q] = tx[q]
        BY <1>1, OthersUntouched DEF TypeInv
      <3>2. CreditOK(q)
        BY DEF CreditInv
      <3>3. awarded' = awarded
        BY <1>1 DEF tables
      <3>4. QED  BY <3>1, <3>2, <3>3 DEF CreditOK, Within, Claim, PaidTo
    <2>3. NeverOverpaid'
      BY <1>1 DEF CreditInv, NeverOverpaid, PaidTo, tables
    <2>4. QED  BY <2>1, <2>2, <2>3 DEF CreditInv
  <1>2. CASE Next
    <2>1. PICK r \in Requests : Step(r)
      BY <1>2 DEF Next, Step
    <2>2. QED  BY <1>1, <2>1, OnlyCommitsWrite, CommitCredit
  <1>3. CASE UNCHANGED vars
    BY <1>3 DEF vars, tables, locals, CreditInv, NeverOverpaid, CreditOK, Within, Claim, PaidTo
  <1>4. QED  BY <1>2, <1>3

\* No interleaving of awards and stale write-backs pays an award twice.
THEOREM NeverOverpaidHolds == Spec => []NeverOverpaid
  <1>1. Init => TypeInv /\ CreditInv
    BY InitTyped, InitCredit
  <1>2. TypeInv /\ CreditInv /\ [Next]_vars => (TypeInv /\ CreditInv)'
    BY NextTyped, NextCredit
  <1>3. TypeInv /\ CreditInv => NeverOverpaid
    BY DEF CreditInv
  <1>4. QED  BY <1>1, <1>2, <1>3, PTL DEF Spec

-----------------------------------------------------------------------------
(* WalletHasOneUser needs to know of the wallets set and not yet committed:  *)
(* none is another user's on record, and no two requests set one wallet for  *)
(* different users, because the index check of the second waits.             *)

Sets(r) == SetsWallet(r) /\ account[r].wallet # None

WalletOK(r) ==
    /\ tx[r].userCols # {} => pc[r] = "commit"
    /\ Sets(r) => \A v \in Users \ {call[r].user} : users[v].wallet # account[r].wallet

SetForOne(r, q) ==
    Sets(r) /\ Sets(q) /\ account[r].wallet = account[q].wallet => call[r].user = call[q].user

WalletInv ==
    /\ WalletHasOneUser
    /\ \A r \in Requests : WalletOK(r)
    /\ \A r, q \in Requests : SetForOne(r, q)

LEMMA InitWallets == Init => WalletInv
  BY EmptyRows DEF Init, WalletInv, WalletHasOneUser, WalletOK, SetForOne, Sets, SetsWallet

\* Only a flush leaves a request with columns written.
LEMMA OnlyFlushSets ==
    ASSUME TypeInv, WalletInv, NEW r \in Requests, Step(r), ~FlushAccount(r)
    PROVE  tx'[r].userCols = {}
  <1>1. WalletOK(r) /\ TypeOK
    BY DEF WalletInv, TypeInv
  <1>2. CASE Arrive(r)
    <2>1. tx'[r] = tx[r] /\ pc[r] = "idle"
      BY <1>2 DEF Arrive, BeginLevel, BeginReport, BeginLink
    <2>2. QED  BY <1>1, <2>1 DEF WalletOK
  <1>3. CASE CompleteLevel(r) \/ AwardLab(r) \/ LinkWallet(r) \/ MergeAccount(r)
    <2>1. tx'[r] = tx[r] /\ pc[r] # "commit"
      BY <1>3 DEF CompleteLevel, AwardLab, LinkWallet, MergeAccount
    <2>2. QED  BY <1>1, <2>1 DEF WalletOK
  <1>4. CASE InsertAward(r)
    <2>1. tx'[r].userCols = tx[r].userCols /\ pc[r] = "grant"
      BY <1>1, <1>4 DEF InsertAward, TypeOK, Transaction
    <2>2. QED  BY <1>1, <2>1 DEF WalletOK
  <1>5. CASE IntegrityError(r) \/ Commit(r) \/ Abort(r)
    BY <1>1, EmptyRows, <1>5 DEF IntegrityError, Commit, Abort, Close, TypeOK
  <1>6. QED  BY <1>2, <1>3, <1>4, <1>5 DEF Step, Proceed

LEMMA FlushWallets ==
    ASSUME TypeInv, WalletInv, NEW r \in Requests, FlushAccount(r)
    PROVE  WalletInv'
  <1>0. /\ WalletOK(r) /\ TypeOK /\ tx[r].userCols = {} /\ dirty[r] \subseteq UserCols
        /\ pc[r] = "flush"
    BY DEF WalletInv, TypeInv, TypeOK, FlushAccount, WalletOK
  <1>1. /\ pc'[r] = "commit" /\ tx'[r].userCols = dirty[r] /\ users' = users
        /\ account' = account /\ call' = call
    BY <1>0 DEF FlushAccount, Goto, TypeOK, Transaction, tables
  <1>2. \A q \in Requests \ {r} : tx'[q] = tx[q] /\ pc'[q] = pc[q]
    BY <1>0, OthersUntouched DEF Step, Proceed
  <1>3. WalletOK(r)'
    BY <1>0, <1>1 DEF WalletOK, Sets, SetsWallet, FlushAccount, WalletTaken
  <1>4. ASSUME NEW q \in Requests \ {r}
        PROVE  WalletOK(q)' /\ SetForOne(r, q)' /\ SetForOne(q, r)'
    <2>1. WalletOK(q)
      BY DEF WalletInv
    <2>2. WalletOK(q)'
      BY <1>1, <1>2, <2>1 DEF WalletOK, Sets, SetsWallet
    <2>3. ~FlushWaits(r, q)
      BY DEF FlushAccount, Waits, WaitsFor
    <2>4. QED
      BY <1>0, <1>1, <1>2, <2>2, <2>3 DEF SetForOne, Sets, SetsWallet, FlushWaits
  <1>5. ASSUME NEW p \in Requests \ {r}, NEW q \in Requests \ {r}
        PROVE  SetForOne(p, q)'
    BY <1>1, <1>2 DEF SetForOne, Sets, SetsWallet, WalletInv
  <1>6. SetForOne(r, r)'
    BY DEF SetForOne
  <1>7. WalletHasOneUser'
    BY <1>1 DEF WalletInv, WalletHasOneUser
  <1>8. QED  BY <1>3, <1>4, <1>5, <1>6, <1>7 DEF WalletInv

\* The wallet a committed row ends up with is its own, the one set, or none.
LEMMA CommittedWallet ==
    ASSUME TypeInv, WalletInv, NEW r \in Requests, Commit(r)
    PROVE  /\ call[r].user \in Users
           /\ \A v \in Users \ {call[r].user} : users'[v] = users[v]
           /\ \/ users'[call[r].user].wallet \in {users[call[r].user].wallet, None}
              \/ Sets(r) /\ users'[call[r].user].wallet = account[r].wallet
  <1>1. call[r].user \in Users /\ account[r] \in UserRow /\ users \in [Users -> UserRow]
    BY DEF TypeInv, TypeOK, CallOK, Commit
  <1>2. users' = [users EXCEPT ![call[r].user] = Merged(@, account[r], tx[r].userCols)]
    BY DEF Commit
  <1>3. users'[call[r].user].wallet =
           IF "wallet" \in tx[r].userCols THEN account[r].wallet ELSE users[call[r].user].wallet
    BY <1>1, <1>2, RowsTyped
  <1>4. QED  BY <1>1, <1>2, <1>3 DEF Sets, SetsWallet

LEMMA NextWallets == TypeInv /\ WalletInv /\ [Next]_vars => WalletInv'
  <1> SUFFICES ASSUME TypeInv, WalletInv, [Next]_vars PROVE WalletInv'
    OBVIOUS
  <1>1. ASSUME NEW r \in Requests, Step(r), ~FlushAccount(r)
        PROVE  WalletInv'
    <2>1. tx'[r].userCols = {}
      BY <1>1, OnlyFlushSets
    <2>2. \A q \in Requests \ {r} : /\ tx'[q] = tx[q] /\ pc'[q] = pc[q]
                                    /\ account'[q] = account[q] /\ call'[q] = call[q]
      BY <1>1, OthersUntouched DEF TypeInv
    <2>3. \A p, q \in Requests : SetForOne(p, q)'
      BY <2>1, <2>2 DEF SetForOne, Sets, SetsWallet, WalletInv
    <2>4. CASE UNCHANGED tables
      <3>1. users' = users
        BY <2>4 DEF tables
      <3>2. WalletHasOneUser'
        BY <3>1 DEF WalletInv, WalletHasOneUser
      <3>3. \A q \in Requests : WalletOK(q)'
        BY <2>1, <2>2, <3>1 DEF WalletInv, WalletOK, Sets, SetsWallet
      <3>4. QED  BY <2>3, <3>2, <3>3 DEF WalletInv
    <2>5. CASE Commit(r)
      <3>1. PICK u \in Users : u = call[r].user
        BY <2>5, CommittedWallet
      <3>2. /\ \A v \in Users \ {u} : users'[v] = users[v]
            /\ \/ users'[u].wallet \in {users[u].wallet, None}
               \/ Sets(r) /\ users'[u].wallet = account[r].wallet
        BY <2>5, <3>1, CommittedWallet
      <3>3. Sets(r) => \A v \in Users \ {u} : users[v].wallet # account[r].wallet
        BY <3>1 DEF WalletInv, WalletOK
      <3>4. WalletHasOneUser'
        BY <3>2, <3>3 DEF WalletInv, WalletHasOneUser
      <3>5. ASSUME NEW q \in Requests
            PROVE  WalletOK(q)'
        <4>1. CASE q = r
          BY <2>1, <4>1 DEF WalletOK, Sets, SetsWallet
        <4>2. CASE q # r
          <5>1. WalletOK(q) /\ SetForOne(r, q)
            BY DEF WalletInv
          <5>2. Sets(q)' <=> Sets(q)
            BY <2>2, <4>2 DEF Sets, SetsWallet
          <5>3. ASSUME Sets(q), NEW v \in Users \ {call[q].user}
                PROVE  users'[v].wallet # account[q].wallet
            <6>1. users[v].wallet # account[q].wallet /\ account[q].wallet # None
              BY <5>1, <5>3 DEF WalletOK, Sets, SetsWallet
            <6>2. Sets(r) /\ v = u => account[r].wallet # account[q].wallet
              BY <3>1, <5>1, <5>3 DEF SetForOne
            <6>3. QED  BY <3>2, <6>1, <6>2
          <5>4. QED  BY <2>2, <4>2, <5>1, <5>2, <5>3 DEF WalletOK
        <4>3. QED  BY <4>1, <4>2
      <3>6. QED  BY <2>3, <3>4, <3>5 DEF WalletInv
    <2>6. QED  BY <1>1, <2>4, <2>5, OnlyCommitsWrite
  <1>2. CASE Next
    <2>1. PICK r \in Requests : Step(r)
      BY <1>2 DEF Next, Step
    <2>2. QED  BY <1>1, <2>1, FlushWallets
  <1>3. CASE UNCHANGED vars
    BY <1>3 DEF vars, tables, locals, WalletInv, WalletHasOneUser, WalletOK, SetForOne, Sets,
                SetsWallet
  <1>4. QED  BY <1>2, <1>3

\* Two links of one wallet, or a stale account carrying it back, never give it
\* to two users.
THEOREM WalletHasOneUserHolds == Spec => []WalletHasOneUser
  <1>1. Init => TypeInv /\ WalletInv
    BY InitTyped, InitWallets
  <1>2. TypeInv /\ WalletInv /\ [Next]_vars => (TypeInv /\ WalletInv)'
    BY NextTyped, NextWallets
  <1>3. TypeInv /\ WalletInv => WalletHasOneUser
    BY DEF WalletInv
  <1>4. QED  BY <1>1, <1>2, <1>3, PTL DEF Spec
-----------------------------------------------------------------------------
(* NoCircularWait needs to know where each request is, that the account of a *)
(* level award never carries a stale wallet back, because a reference to the *)
(* row keeps its key from the time the award begins, and that an award is    *)
(* inserted by one open transaction at a time.                               *)

PointOK(r) ==
    /\ call[r].op \in {"none", "level", "report", "link"}
    /\ call[r].op = "none" => pc[r] = "idle"
    /\ call[r].op = "level" =>
          /\ pc[r] \in {"complete", "grant", "merge", "flush", "commit"}
          /\ call[r].award \in Levels
    /\ call[r].op = "report" =>
          /\ pc[r] \in {"award", "grant", "merge", "flush", "commit"}
          /\ call[r].award \in Labs
    /\ call[r].op = "link" => pc[r] \in {"link", "merge", "flush", "commit"} /\ ~tx[r].granted
    /\ call[r].op # "link" /\ pc[r] \in {"merge", "flush"} => tx[r].granted

FreshOK(r) ==
    call[r].op = "level" =>
        /\ pc[r] \in {"grant", "merge"} => account[r].wallet = users[call[r].user].wallet
        /\ pc[r] = "flush" => "wallet" \notin dirty[r]
        /\ \A q \in Requests : SetsWallet(q) => call[q].user # call[r].user

GrantedOnce(r, q) ==
    tx[r].granted /\ tx[q].granted /\ call[r].user = call[q].user
        => call[r].award # call[q].award

WaitInv ==
    /\ \A r \in Requests : PointOK(r) /\ FreshOK(r)
    /\ \A r \in Requests : \A q \in Requests \ {r} : GrantedOnce(r, q)

LedgerInv == TypeInv /\ WalletInv /\ WaitInv

LEMMA InitWaits == Init => WaitInv
  <1> SUFFICES ASSUME Init PROVE WaitInv
    OBVIOUS
  <1>1. \A r \in Requests : call[r] = NoCall /\ tx[r] = NoWrites /\ pc[r] = "idle"
    BY DEF Init
  <1>2. NoCall.op = "none"
    BY DEF NoCall
  <1>3. QED  BY <1>1, <1>2, EmptyRows DEF WaitInv, PointOK, FreshOK, GrantedOnce

LEMMA StepPoint ==
    ASSUME LedgerInv, NEW r \in Requests, Step(r)
    PROVE  PointOK(r)'
  <1>0. PointOK(r) /\ CallOK(r) /\ TypeOK /\ tx[r] \in Transaction
    BY DEF LedgerInv, WaitInv, TypeInv, TypeOK
  <1>1. CASE Arrive(r)
    <2>0. pc[r] = "idle" /\ ~tx[r].granted /\ UNCHANGED tx
      BY <1>0, <1>1 DEF Arrive, BeginLevel, BeginReport, BeginLink, CallOK, TypeOK, Transaction
    <2>1. CASE \E u \in Users, l \in Levels : BeginLevel(r, u, l)
      BY <1>0, <2>0, <2>1 DEF BeginLevel, NewCall, Goto, TypeOK, PointOK
    <2>2. CASE \E u \in Users, b \in Labs : BeginReport(r, u, b)
      BY <1>0, <2>0, <2>2 DEF BeginReport, NewCall, Goto, TypeOK, PointOK
    <2>3. CASE \E u \in Users, w \in Wallets : BeginLink(r, u, w)
      BY <1>0, <2>0, <2>3 DEF BeginLink, NewCall, Goto, TypeOK, PointOK
    <2>4. QED  BY <1>1, <2>1, <2>2, <2>3 DEF Arrive
  <1>2. CASE CompleteLevel(r) \/ AwardLab(r) \/ LinkWallet(r) \/ MergeAccount(r)
    <2>1. UNCHANGED <<call, tx>>
      BY <1>2 DEF CompleteLevel, AwardLab, LinkWallet, MergeAccount
    <2>2. \/ pc[r] \in {"complete", "award"} /\ pc'[r] \in {"grant", "commit"}
          \/ pc[r] = "link" /\ pc'[r] = "merge"
          \/ pc[r] = "merge" /\ pc'[r] \in {"flush", "commit"}
      BY <1>0, <1>2 DEF CompleteLevel, AwardLab, LinkWallet, MergeAccount, Goto, TypeOK
    <2>3. QED  BY <1>0, <2>1, <2>2 DEF PointOK
  <1>3. CASE InsertAward(r)
    <2>1. UNCHANGED call /\ pc[r] = "grant" /\ pc'[r] = "merge" /\ tx'[r].granted
      BY <1>0, <1>3 DEF InsertAward, Goto, TypeOK, Transaction
    <2>2. QED  BY <1>0, <2>1 DEF PointOK
  <1>4. CASE FlushAccount(r)
    <2>1. /\ UNCHANGED call /\ pc[r] = "flush" /\ pc'[r] = "commit"
          /\ tx'[r].granted = tx[r].granted
      BY <1>0, <1>4 DEF FlushAccount, Goto, TypeOK, Transaction
    <2>2. QED  BY <1>0, <2>1 DEF PointOK
  <1>5. CASE Close(r)
    <2>1. pc'[r] = "idle" /\ call'[r] = NoCall
      BY <1>5, CloseTyped DEF LedgerInv
    <2>2. QED  BY <2>1 DEF NoCall, PointOK
  <1>6. QED
    BY <1>1, <1>2, <1>3, <1>4, <1>5 DEF Step, Proceed, Abort, IntegrityError, Commit

\* Only an INSERT leaves an award in an open transaction that had none.
LEMMA OnlyInsertsGrant ==
    ASSUME LedgerInv, NEW r \in Requests, Step(r), ~InsertAward(r), tx'[r].granted
    PROVE  tx[r].granted /\ call'[r] = call[r]
  <1>0. CallOK(r) /\ TypeOK /\ tx[r] \in Transaction
    BY DEF LedgerInv, TypeInv, TypeOK
  <1>1. CASE Arrive(r)
    BY <1>0, <1>1 DEF Arrive, BeginLevel, BeginReport, BeginLink, CallOK
  <1>2. CASE CompleteLevel(r) \/ AwardLab(r) \/ LinkWallet(r) \/ MergeAccount(r)
    BY <1>2 DEF CompleteLevel, AwardLab, LinkWallet, MergeAccount
  <1>3. CASE FlushAccount(r)
    BY <1>0, <1>3 DEF FlushAccount, TypeOK, Transaction
  <1>4. CASE Close(r)
    BY <1>4, CloseTyped, EmptyRows DEF LedgerInv
  <1>5. QED
    BY <1>1, <1>2, <1>3, <1>4 DEF Step, Proceed, Abort, IntegrityError, Commit

LEMMA StepGranted ==
    ASSUME LedgerInv, NEW r \in Requests, Step(r), NEW p \in Requests, NEW q \in Requests \ {p}
    PROVE  GrantedOnce(p, q)'
  <1>0. TypeOK /\ GrantedOnce(p, q)
    BY DEF LedgerInv, WaitInv, TypeInv
  <1>1. ASSUME NEW k \in Requests \ {r}
        PROVE  tx'[k] = tx[k] /\ call'[k] = call[k]
    BY <1>0, OthersUntouched
  <1>2. CASE InsertAward(r)
    <2>1. UNCHANGED call /\ pc[r] = "grant" /\ ~Waits(r)
      BY <1>2 DEF InsertAward
    <2>2. ASSUME NEW k \in Requests \ {r}, tx[k].granted, call[k].user = call[r].user
          PROVE  call[k].award # call[r].award
      BY <2>1, <2>2 DEF Waits, WaitsFor, GrantWaits
    <2>3. QED  BY <1>0, <1>1, <2>1, <2>2 DEF GrantedOnce
  <1>3. CASE ~InsertAward(r)
    BY <1>0, <1>1, <1>3, OnlyInsertsGrant DEF GrantedOnce
  <1>4. QED  BY <1>2, <1>3

\* The wallet of an account on record changes by a request that has set it.
LEMMA WalletsKept ==
    ASSUME LedgerInv, NEW r \in Requests, Step(r), NEW u \in Users,
           users'[u].wallet # users[u].wallet
    PROVE  SetsWallet(r) /\ call[r].user = u
  <1>1. Commit(r)
    BY OnlyCommitsWrite DEF tables
  <1>2. call[r].user \in Users /\ account[r] \in UserRow /\ users \in [Users -> UserRow]
    BY <1>1 DEF LedgerInv, TypeInv, TypeOK, CallOK, Commit
  <1>3. users' = [users EXCEPT ![call[r].user] = Merged(@, account[r], tx[r].userCols)]
    BY <1>1 DEF Commit
  <1>4. QED  BY <1>2, <1>3, RowsTyped DEF SetsWallet

LEMMA StepFresh ==
    ASSUME LedgerInv, NEW r \in Requests, Step(r), NEW q \in Requests
    PROVE  FreshOK(q)'
  <1>0. /\ TypeOK /\ CallOK(q) /\ PointOK(q) /\ FreshOK(q) /\ PointOK(r) /\ FreshOK(r)
        /\ WalletOK(r)
    BY DEF LedgerInv, WaitInv, TypeInv, WalletInv
  <1>1. ASSUME NEW k \in Requests \ {r}
        PROVE  /\ pc'[k] = pc[k] /\ call'[k] = call[k] /\ account'[k] = account[k]
               /\ dirty'[k] = dirty[k] /\ tx'[k] = tx[k]
    BY <1>0, OthersUntouched
  <1>2. SUFFICES ASSUME call'[q].op = "level"
                 PROVE  FreshOK(q)'
    BY DEF FreshOK
  <1>3. CASE q = r /\ Arrive(r)
    <2>1. PICK u \in Users, l \in Levels : BeginLevel(r, u, l)
      BY <1>0, <1>2, <1>3 DEF Arrive, BeginReport, BeginLink, NewCall, TypeOK
    <2>2. /\ UNCHANGED tx /\ pc'[r] = "complete" /\ call'[r].user = u
          /\ \A k \in Requests : SetsWallet(k) => call[k].user # u
          /\ pc[r] = "idle"
      BY <1>0, <2>1 DEF BeginLevel, NewCall, Goto, TypeOK
    <2>3. ~SetsWallet(r)
      BY <1>0, <2>2 DEF WalletOK, SetsWallet
    <2>4. QED  BY <1>1, <1>3, <2>2, <2>3 DEF FreshOK, SetsWallet
  <1>4. CASE call[q].op = "level" /\ call'[q] = call[q]
    <2>1. call[q].user \in Users
      BY <1>0, <1>4 DEF CallOK, PointOK
    <2>2. \A k \in Requests : SetsWallet(k) => call[k].user # call[q].user
      BY <1>0, <1>4 DEF FreshOK
    <2>3. users'[call[q].user].wallet = users[call[q].user].wallet
      BY <2>1, <2>2, WalletsKept
    <2>4. \A k \in Requests : SetsWallet(k)' => call'[k].user # call[q].user
      <3>1. CASE FlushAccount(r)
        <4>1. UNCHANGED call /\ tx'[r].userCols = dirty[r] /\ pc[r] = "flush" /\ ~Waits(r)
          BY <1>0, <3>1 DEF FlushAccount, TypeOK, Transaction
        <4>2. "wallet" \in dirty[r] => call[r].user # call[q].user
          <5>1. CASE q = r
            BY <1>0, <1>4, <4>1, <5>1 DEF FreshOK
          <5>2. CASE q # r
            BY <1>4, <4>1, <5>2 DEF Waits, WaitsFor, FlushWaits, HoldsKey
          <5>3. QED  BY <5>1, <5>2
        <4>3. QED  BY <1>1, <2>2, <4>1, <4>2 DEF SetsWallet
      <3>2. CASE ~FlushAccount(r)
        <4>1. ~SetsWallet(r)'
          BY <3>2, OnlyFlushSets DEF SetsWallet, LedgerInv
        <4>2. QED  BY <1>1, <2>2, <4>1 DEF SetsWallet
      <3>3. QED  BY <3>1, <3>2
    <2>5. pc'[q] \in {"grant", "merge"} => account'[q].wallet = users[call[q].user].wallet
      <3>1. CASE q # r
        BY <1>0, <1>1, <1>4, <3>1 DEF FreshOK
      <3>2. CASE q = r /\ CompleteLevel(r)
        <4>1. users[call[r].user] \in UserRow
          BY <2>1, <3>2, <1>0 DEF TypeOK
        <4>2. pc'[r] # "commit" =>
                 account' = [account EXCEPT ![r] =
                     [users[call[r].user] EXCEPT !.xp = @ + Reward[call[r].award],
                                                 !.completed_levels = @ + 1]]
          BY <1>0, <3>2 DEF CompleteLevel, Goto, TypeOK
        <4>3. [users[call[r].user] EXCEPT !.xp = @ + Reward[call[r].award],
                                          !.completed_levels = @ + 1].wallet
                 = users[call[r].user].wallet
          BY <4>1 DEF UserRow
        <4>4. account \in [Requests -> UserRow]
          BY <1>0 DEF TypeOK
        <4>5. QED  BY <3>2, <4>2, <4>3, <4>4
      <3>3. CASE q = r /\ InsertAward(r)
        BY <1>0, <1>4, <3>3 DEF InsertAward, FreshOK
      <3>4. CASE q = r /\ (MergeAccount(r) \/ FlushAccount(r) \/ Close(r))
        <4>1. pc'[r] \in {"commit", "flush", "idle"}
          BY <1>0, <3>4 DEF MergeAccount, FlushAccount, Close, Goto, TypeOK
        <4>2. QED  BY <3>4, <4>1
      <3>5. CASE q = r /\ (AwardLab(r) \/ LinkWallet(r) \/ Arrive(r))
        BY <1>0, <1>4, <3>5
           DEF AwardLab, LinkWallet, Arrive, BeginLevel, BeginReport, BeginLink, PointOK
      <3>6. QED
        BY <3>1, <3>2, <3>3, <3>4, <3>5 DEF Step, Proceed, Abort, IntegrityError, Commit
    <2>6. pc'[q] = "flush" => "wallet" \notin dirty'[q]
      <3>1. CASE q # r
        BY <1>0, <1>1, <1>4, <3>1 DEF FreshOK
      <3>2. CASE q = r /\ MergeAccount(r)
        <4>1. /\ pc[r] = "merge" /\ account[r].wallet = users[call[r].user].wallet
              /\ dirty'[r] = Changed(users[call[r].user], account[r])
          BY <1>0, <1>4, <3>2 DEF MergeAccount, FreshOK, TypeOK
        <4>2. QED  BY <3>2, <4>1 DEF Changed
      <3>3. CASE q = r /\ ~MergeAccount(r)
        <4>1. pc'[r] # "flush"
          BY <1>0, <1>4, <3>3
             DEF Step, Arrive, Proceed, Abort, BeginLevel, BeginReport, BeginLink, CompleteLevel,
                 AwardLab, LinkWallet, InsertAward, FlushAccount, IntegrityError, Commit, Close,
                 Goto, TypeOK
        <4>2. QED  BY <3>3, <4>1
      <3>4. QED  BY <3>1, <3>2, <3>3
    <2>7. QED  BY <1>4, <2>3, <2>4, <2>5, <2>6 DEF FreshOK
  <1>5. CASE q = r /\ ~Arrive(r)
    <2>1. CASE Close(r)
      <3>1. call'[r].op = "none"
        BY <2>1, CloseTyped DEF LedgerInv, NoCall
      <3>2. QED  BY <1>2, <1>5, <3>1
    <2>2. CASE ~Close(r)
      <3>1. UNCHANGED call
        BY <1>5, <2>2
           DEF Step, Proceed, Abort, CompleteLevel, AwardLab, LinkWallet, InsertAward,
               MergeAccount, FlushAccount, IntegrityError, Commit
      <3>2. QED  BY <1>2, <1>4, <3>1
    <2>3. QED  BY <2>1, <2>2
  <1>6. CASE q # r
    BY <1>1, <1>2, <1>4, <1>6
  <1>7. QED  BY <1>3, <1>5, <1>6

LEMMA NextLedger == LedgerInv /\ [Next]_vars => LedgerInv'
  <1> SUFFICES ASSUME LedgerInv, [Next]_vars PROVE LedgerInv'
    OBVIOUS
  <1>1. TypeInv' /\ WalletInv'
    BY NextTyped, NextWallets DEF LedgerInv
  <1>2. ASSUME NEW r \in Requests, Step(r)
        PROVE  WaitInv'
    <2>1. ASSUME NEW q \in Requests
          PROVE  PointOK(q)'
      <3>1. CASE q = r
        BY <1>2, <3>1, StepPoint
      <3>2. CASE q # r
        BY <1>2, <3>2, OthersUntouched DEF LedgerInv, TypeInv, WaitInv, PointOK
      <3>3. QED  BY <3>1, <3>2
    <2>2. QED  BY <1>2, <2>1, StepFresh, StepGranted DEF WaitInv
  <1>3. ASSUME UNCHANGED vars
        PROVE  WaitInv'
    <2>1. UNCHANGED <<users, pc, call, account, dirty, tx>>
      BY <1>3 DEF vars, tables, locals
    <2>2. ASSUME NEW r \in Requests
          PROVE  PointOK(r)' /\ FreshOK(r)'
      BY <2>1 DEF LedgerInv, WaitInv, PointOK, FreshOK, SetsWallet
    <2>3. ASSUME NEW r \in Requests, NEW q \in Requests \ {r}
          PROVE  GrantedOnce(r, q)'
      BY <2>1 DEF LedgerInv, WaitInv, GrantedOnce
    <2>4. QED  BY <2>2, <2>3 DEF WaitInv
  <1>4. QED  BY <1>1, <1>2, <1>3 DEF Next, Step, LedgerInv

\* How long the chain of requests can be that waits behind a request.
Rank(r) ==
    IF pc[r] \notin {"grant", "flush"} THEN 0
    ELSE IF pc[r] = "flush" /\ "wallet" \notin dirty[r] THEN 1
    ELSE IF call[r].op = "level" THEN 2
    ELSE IF call[r].op = "report" /\ pc[r] = "flush" THEN 3
    ELSE 4

LEMMA WaitsAreOrdered ==
    ASSUME LedgerInv, \A a, b \in Labs : a = b,
           NEW r \in Requests, NEW q \in Requests, WaitsFor(r, q)
    PROVE  Rank(q) < Rank(r)
  <1>0. /\ PointOK(r) /\ PointOK(q) /\ FreshOK(r) /\ FreshOK(q) /\ CallOK(q)
        /\ tx[q].userCols # {} => pc[q] = "commit"
        /\ q # r => GrantedOnce(r, q)
    BY DEF LedgerInv, TypeInv, WaitInv, WalletInv, WalletOK
  <1>1. q # r
    BY DEF WaitsFor
  <1>2. CASE tx[q].userCols # {}
    <2>1. Rank(q) = 0
      BY <1>0, <1>2 DEF Rank
    <2>2. Rank(r) # 0 /\ Rank(r) \in 0 .. 4
      BY DEF WaitsFor, GrantWaits, FlushWaits, Rank
    <2>3. QED  BY <2>1, <2>2
  <1>3. CASE tx[q].userCols = {} /\ pc[r] = "grant"
    <2>1. tx[q].granted /\ call[q].award = call[r].award
      BY <1>3 DEF WaitsFor, GrantWaits, FlushWaits, SetsWallet
    <2>2. pc[q] # "grant"
      BY <1>0, <2>1 DEF CallOK
    <2>3. CASE call[r].op = "level"
      <3>1. call[q].op = "level"
        BY <1>0, <2>1, <2>2, <2>3, AwardsAssumption DEF PointOK, CallOK
      <3>2. QED  BY <1>0, <1>3, <2>2, <2>3, <3>1 DEF Rank, FreshOK
    <2>4. CASE call[r].op # "level"
      <3>1. Rank(r) = 4
        BY <1>0, <1>3, <2>4 DEF Rank
      <3>2. call[q].op = "report" \/ call[q].op = "level"
        BY <1>0, <2>1 DEF PointOK, CallOK
      <3>3. QED  BY <2>2, <3>1, <3>2 DEF Rank
    <2>5. QED  BY <2>3, <2>4
  <1>4. CASE tx[q].userCols = {} /\ pc[r] # "grant"
    <2>1. /\ pc[r] = "flush" /\ "wallet" \in dirty[r]
          /\ call[q].user = call[r].user /\ HoldsKey(q)
      BY <1>4 DEF WaitsFor, GrantWaits, FlushWaits, SetsWallet
    <2>2. call[r].op \in {"report", "link"}
      BY <1>0, <2>1 DEF PointOK, FreshOK
    <2>3. Rank(r) = IF call[r].op = "report" THEN 3 ELSE 4
      BY <2>1, <2>2 DEF Rank
    <2>4. CASE call[q].op = "level"
      <3>1. Rank(q) \in 0 .. 2
        BY <2>4 DEF Rank
      <3>2. QED  BY <2>3, <3>1
    <2>5. CASE call[q].op # "level"
      <3>1. tx[q].granted /\ call[q].op = "report" /\ call[q].award \in Labs /\ pc[q] # "grant"
        BY <1>0, <2>1, <2>5 DEF HoldsKey, PointOK, CallOK
      <3>2. call[r].op # "report"
        <4>1. SUFFICES ASSUME call[r].op = "report" PROVE FALSE
          OBVIOUS
        <4>2. tx[r].granted /\ call[r].award \in Labs
          BY <1>0, <2>1, <4>1 DEF PointOK
        <4>3. QED  BY <1>0, <1>1, <2>1, <3>1, <4>2 DEF GrantedOnce
      <3>3. QED  BY <2>3, <3>1, <3>2 DEF Rank
    <2>6. QED  BY <2>4, <2>5
  <1>5. QED  BY <1>2, <1>3, <1>4

\* However many awards and links wait for rows, keys and references at once,
\* they never wait in a circle, as long as there is one lab.
THEOREM NoCircularWaitHolds == Spec => []NoCircularWait
  <1>1. Init => LedgerInv
    BY InitTyped, InitWallets, InitWaits DEF LedgerInv
  <1>2. LedgerInv => NoCircularWait
    <2> SUFFICES ASSUME LedgerInv, \A a, b \in Labs : a = b,
                        NEW circle \in (SUBSET Requests) \ {{}}
                 PROVE  \E r \in circle : \A q \in circle : ~WaitsFor(r, q)
      BY DEF NoCircularWait
    <2>1. \A r, q \in circle : WaitsFor(r, q) => Rank(q) < Rank(r)
      BY WaitsAreOrdered
    <2>2. \A r \in circle : Rank(r) \in 0 .. 4
      BY DEF Rank
    <2>3. PICK r \in circle : \A q \in circle : Rank(r) <= Rank(q)
      <3>1. CASE \E r \in circle : Rank(r) = 0
        BY <2>2, <3>1
      <3>2. CASE (\E r \in circle : Rank(r) = 1) /\ \A q \in circle : Rank(q) >= 1
        BY <2>2, <3>2
      <3>3. CASE (\E r \in circle : Rank(r) = 2) /\ \A q \in circle : Rank(q) >= 2
        BY <2>2, <3>3
      <3>4. CASE (\E r \in circle : Rank(r) = 3) /\ \A q \in circle : Rank(q) >= 3
        BY <2>2, <3>4
      <3>5. CASE \A q \in circle : Rank(q) = 4
        BY <3>5
      <3>6. QED  BY <2>2, <3>1, <3>2, <3>3, <3>4, <3>5
    <2>4. QED
      <3>1. \A q \in circle : ~WaitsFor(r, q)
        BY <2>1, <2>2, <2>3
      <3>2. QED  BY <3>1
  <1>3. QED  BY <1>1, <1>2, NextLedger, PTL DEF Spec

=============================================================================
