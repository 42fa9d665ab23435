------------------------- MODULE WalletAuthProofs -------------------------
(***************************************************************************)
(* Theorems about WalletAuth, for every number of wallets, nonces, names   *)
(* and requests.                                                           *)
(***************************************************************************)
EXTENDS WalletAuth, TLAPS

Step(r) == Arrive(r) \/ Proceed(r) \/ Abort(r)

-----------------------------------------------------------------------------
(* TypeOK is not inductive: a commit writes the row and the event of the     *)
(* name and the wallet of its call.  What is inductive is that the point a   *)
(* request has reached tells which call it runs and what it has written, and *)
(* that the nonce of a call was issued to its wallet.                        *)

Signed(r) == call[r].op \in {"login", "link"}

CallOK(r) ==
    /\ pc[r] = "idle" <=> call[r].op = "none"
    /\ pc[r] = "check" => call[r].op = "link"
    /\ pc[r] \in {"merge", "flush"} => call[r].op \in {"link", "award"}
    /\ pc[r] = "find" => call[r].op = "login"
    /\ pc[r] = "insert" => call[r].op \in {"register", "login"}
    /\ pc[r] = "grant" => call[r].op = "award"
    /\ call[r].op = "register" => pc[r] \in {"insert", "commit"} /\ call[r].wallet = None
    /\ call[r].op = "award" => pc[r] \in {"grant", "merge", "flush", "commit"}
    /\ call[r].op \in {"register", "link", "award"} \/ pc[r] \in {"insert", "record", "commit"} =>
          call[r].name \in Names
    /\ Signed(r) =>
          /\ call[r].wallet \in Wallets /\ call[r].nonce \in Nonces
          /\ nonces[call[r].nonce].wallet = call[r].wallet

WritesOK(r) ==
    /\ tx[r].spent <=> Signed(r) /\ pc[r] \notin {"check", "consume"}
    /\ tx[r].logged <=> Signed(r) /\ pc[r] = "commit"
    /\ tx[r].wrote => pc[r] \in {"record", "commit"}
    /\ tx[r].granted <=> call[r].op = "award" /\ pc[r] \in {"merge", "flush", "commit"}

TypeInv == TypeOK /\ \A r \in Requests : CallOK(r) /\ WritesOK(r)

(* An open transaction that has inserted or changed an account keeps its     *)
(* keys to itself: nobody else has written that name or that wallet, no      *)
(* other account on record holds the wallet, and a new name is still free.   *)

KeysOK(r) ==
    tx[r].wrote =>
        /\ \A q \in Requests \ {r} : tx[q].wrote =>
              /\ call[q].name # call[r].name
              /\ call[r].wallet # None => call[q].wallet # call[r].wallet
        /\ call[r].wallet # None =>
              \A m \in Names \ {call[r].name} : users[m] # call[r].wallet
        /\ call[r].op \notin {"link", "award"} => users[call[r].name] = Absent

KeysInv == \A r \in Requests : KeysOK(r)

(* One open transaction pays an account for the lab, and what it gives the   *)
(* account back is no wallet or one that an event of the account tells of.   *)

GrantsInv ==
    \A r \in Requests : tx[r].granted =>
        \A q \in Requests \ {r} : tx[q].granted => call[q].name # call[r].name

AwardOK(r) ==
    call[r].op = "award" /\ call[r].wallet # None =>
        \E e \in events : e.name = call[r].name /\ e.wallet = call[r].wallet

AwardsInv == \A r \in Requests : AwardOK(r)

IInv ==
    /\ TypeInv /\ KeysInv /\ GrantsInv /\ AwardsInv
    /\ WalletIsProven /\ WalletHasOneAccount /\ WalletsAreLogged

-----------------------------------------------------------------------------
(* The operators the model is built from. *)

\* The call a request begins and ends with.
LEMMA EmptyRows ==
    /\ NoCall \in Call /\ NoCall.op = "none"
    /\ NoWrites \in Transaction
    /\ NoWrites.spent = FALSE /\ NoWrites.wrote = FALSE
    /\ NoWrites.logged = FALSE /\ NoWrites.granted = FALSE
  BY DEF NoCall, NoWrites, Call, Transaction

LEMMA CallsTyped ==
    ASSUME NEW op \in {"register", "login", "link", "award"}, NEW m \in Names \cup {None},
           NEW w \in Wallets \cup {None}, NEW n \in Nonces \cup {None}
    PROVE  NewCall(op, m, w, n) \in Call
  BY DEF NewCall, Call

\* Neither marker is a wallet.
LEMMA Markers == None \notin Wallets /\ Absent \notin Wallets /\ None # Absent
  BY MarkersAssumption

\* A step of a request changes its own locals only.
LEMMA OthersUntouched ==
    ASSUME TypeOK, NEW r \in Requests, Step(r), NEW q \in Requests \ {r}
    PROVE  pc'[q] = pc[q] /\ call'[q] = call[q] /\ tx'[q] = tx[q]
  <1>1. CASE Arrive(r)
    BY <1>1 DEF Arrive, BeginRegister, BeginAward, BeginLogin, BeginLink, Goto, TypeOK
  <1>2. CASE Proceed(r)
    BY <1>2 DEF Proceed, CheckHolder, Consume, FindHolder, Insert, Grant, Merge,
                Flush, IntegrityError, Record, Commit, Close, Goto, TypeOK
  <1>3. CASE Abort(r)
    BY <1>3 DEF Abort, Close, Goto, TypeOK
  <1>4. QED  BY <1>1, <1>2, <1>3 DEF Step

LEMMA OnlyCommitsWrite ==
    ASSUME NEW r \in Requests, Step(r)
    PROVE  UNCHANGED tables \/ Commit(r)
  BY DEF Step, Arrive, Proceed, Abort, BeginRegister, BeginAward, BeginLogin, BeginLink,
         CheckHolder, Consume, FindHolder, Insert, Grant, Merge, Flush, IntegrityError, Record

\* What a commit does to the nonces: no wallet of theirs changes, and one that
\* is consumed stays so.
LEMMA CommitNonces ==
    ASSUME TypeOK, NEW r \in Requests, Commit(r)
    PROVE  /\ nonces' \in [Nonces -> NonceRow]
           /\ \A n \in Nonces :
                 /\ nonces'[n].wallet = nonces[n].wallet
                 /\ nonces[n].spent => nonces'[n].spent
                 /\ tx[r].spent /\ n = call[r].nonce => nonces'[n].spent
  <1>1. tx[r].spent \in BOOLEAN
    BY DEF TypeOK, Transaction
  <1>2. ASSUME NEW n \in Nonces
        PROVE  /\ nonces'[n] \in NonceRow
               /\ nonces'[n].wallet = nonces[n].wallet
               /\ nonces'[n].spent = (nonces[n].spent \/ (tx[r].spent /\ n = call[r].nonce))
    <2>1. nonces'[n] = [nonces[n] EXCEPT !.spent =
                           nonces[n].spent \/ (tx[r].spent /\ n = call[r].nonce)]
      BY DEF Commit
    <2>2. nonces[n] \in NonceRow
      BY DEF TypeOK
    <2>3. \A b \in BOOLEAN : /\ [nonces[n] EXCEPT !.spent = b] \in NonceRow
                             /\ [nonces[n] EXCEPT !.spent = b].wallet = nonces[n].wallet
                             /\ [nonces[n] EXCEPT !.spent = b].spent = b
      BY <2>2 DEF NonceRow
    <2>4. (nonces[n].spent \/ (tx[r].spent /\ n = call[r].nonce)) \in BOOLEAN
      OBVIOUS
    <2>5. QED  BY <2>1, <2>3, <2>4
  <1>3. nonces' = [n \in Nonces |-> nonces'[n]]
    BY DEF Commit
  <1>4. QED  BY <1>2, <1>3

\* What a commit does to the accounts and the events.
LEMMA CommitRows ==
    ASSUME TypeOK, NEW r \in Requests, CallOK(r), WritesOK(r), Commit(r)
    PROVE  /\ Close(r) /\ call[r].name \in Names
           /\ \A m \in Names : users'[m] = IF tx[r].wrote /\ m = call[r].name
                                           THEN call[r].wallet ELSE users[m]
           /\ users' \in [Names -> Wallets \cup {None, Absent}]
           /\ events \subseteq events' /\ events' \in SUBSET Event
           /\ completions' \in SUBSET Names
           /\ \A e \in events' \ events :
                 e.wallet = call[r].wallet /\ tx[r].logged
           /\ tx[r].logged => \E e \in events' :
                 e.name = call[r].name /\ e.wallet = call[r].wallet
  <1>1. call[r].name \in Names /\ call[r].wallet \in Wallets \cup {None} /\ Close(r)
    BY DEF CallOK, Commit, TypeOK, Call
  <1>2. \A m \in Names : users'[m] = IF tx[r].wrote /\ m = call[r].name
                                     THEN call[r].wallet ELSE users[m]
    BY DEF Commit
  <1>3. users' \in [Names -> Wallets \cup {None, Absent}]
    BY <1>1 DEF Commit, TypeOK
  <1>4. events' = events \cup {e \in Event : tx[r].logged /\
                                   e = [type |-> call[r].op, name |-> call[r].name,
                                        wallet |-> call[r].wallet]}
    BY DEF Commit
  <1>5. events \subseteq events' /\ events' \in SUBSET Event
    BY <1>4 DEF TypeOK
  <1>6. \A e \in events' \ events : e.wallet = call[r].wallet /\ tx[r].logged
    BY <1>4
  <1>7. ASSUME tx[r].logged
        PROVE  \E e \in events' : e.name = call[r].name /\ e.wallet = call[r].wallet
    <2>1. Signed(r) /\ call[r].wallet \in Wallets
      BY <1>7 DEF WritesOK, CallOK
    <2>2. [type |-> call[r].op, name |-> call[r].name, wallet |-> call[r].wallet] \in Event
      BY <1>1, <2>1 DEF Event, Signed
    <2>3. [type |-> call[r].op, name |-> call[r].name, wallet |-> call[r].wallet] \in events'
      BY <1>4, <1>7, <2>2
    <2>4. QED  BY <2>3
  <1>8. completions' \in SUBSET Names
    BY DEF Commit, TypeOK
  <1>9. QED  BY <1>1, <1>2, <1>3, <1>5, <1>6, <1>7, <1>8

-----------------------------------------------------------------------------
(* Type correctness. *)

LEMMA InitTyped == Init => TypeInv
  <1> SUFFICES ASSUME Init PROVE TypeInv
    OBVIOUS
  <1>1. TypeOK
    <2>1. [wallet |-> None, spent |-> FALSE, expired |-> FALSE] \in NonceRow
      BY DEF NonceRow
    <2>2. QED  BY <2>1, EmptyRows DEF Init, TypeOK, PCs
  <1>2. \A r \in Requests : CallOK(r) /\ WritesOK(r)
    BY EmptyRows DEF Init, CallOK, WritesOK, Signed
  <1>3. QED  BY <1>1, <1>2 DEF TypeInv

LEMMA CloseTyped ==
    ASSUME TypeInv, NEW r \in Requests, Close(r)
    PROVE  /\ pc' \in [Requests -> PCs] /\ call' \in [Requests -> Call]
           /\ tx' \in [Requests -> Transaction] /\ ~tx'[r].wrote
           /\ CallOK(r)' /\ WritesOK(r)'
  <1>1. /\ pc' \in [Requests -> PCs] /\ call' \in [Requests -> Call]
        /\ tx' \in [Requests -> Transaction]
        /\ pc'[r] = "idle" /\ call'[r] = NoCall /\ tx'[r] = NoWrites
    BY EmptyRows DEF Close, Goto, TypeInv, TypeOK, PCs
  <1>2. QED  BY <1>1, EmptyRows DEF CallOK, WritesOK, Signed

LEMMA ArriveTyped ==
    ASSUME TypeInv, NEW r \in Requests, Arrive(r)
    PROVE  TypeOK' /\ CallOK(r)' /\ WritesOK(r)'
  <1> USE DEF TypeInv
  <1>0. pc[r] = "idle" /\ CallOK(r) /\ WritesOK(r) /\ tx[r] \in Transaction
    BY DEF Arrive, BeginRegister, BeginAward, BeginLogin, BeginLink, TypeOK
  <1>1. ~tx[r].spent /\ ~tx[r].logged /\ ~tx[r].wrote /\ ~tx[r].granted
    BY <1>0 DEF CallOK, WritesOK, Signed
  <1>2. ASSUME NEW m \in Names, BeginRegister(r, m)
        PROVE  TypeOK' /\ CallOK(r)' /\ WritesOK(r)'
    <2>1. NewCall("register", m, None, None) \in Call
      BY CallsTyped
    <2>2. TypeOK'
      BY <1>2, <2>1 DEF BeginRegister, Goto, TypeOK, PCs, tables
    <2>3. CallOK(r)' /\ WritesOK(r)'
      BY <1>1, <1>2 DEF BeginRegister, Goto, TypeOK, CallOK, WritesOK, Signed, NewCall
    <2>4. QED  BY <2>2, <2>3
  <1>3. ASSUME NEW n \in Nonces, NEW w \in Wallets, BeginLogin(r, w, n)
        PROVE  TypeOK' /\ CallOK(r)' /\ WritesOK(r)'
    <2>1. NewCall("login", None, w, n) \in Call
      BY CallsTyped
    <2>2. TypeOK'
      BY <1>3, <2>1 DEF BeginLogin, Goto, TypeOK, PCs, tables
    <2>3. pc'[r] = "consume" /\ call'[r] = NewCall("login", None, w, n) /\ tx'[r] = tx[r]
      BY <1>3 DEF BeginLogin, Goto, TypeOK
    <2>4. nonces' = nonces /\ nonces[n].wallet = w
      BY <1>3 DEF BeginLogin, Active, tables
    <2>5. CallOK(r)' /\ WritesOK(r)'
      BY <1>1, <2>3, <2>4 DEF CallOK, WritesOK, Signed, NewCall
    <2>6. QED  BY <2>2, <2>5
  <1>4. ASSUME NEW n \in Nonces, NEW w \in Wallets, NEW m \in Names, BeginLink(r, m, w, n)
        PROVE  TypeOK' /\ CallOK(r)' /\ WritesOK(r)'
    <2>1. NewCall("link", m, w, n) \in Call
      BY CallsTyped
    <2>2. TypeOK'
      BY <1>4, <2>1 DEF BeginLink, Goto, TypeOK, PCs, tables
    <2>3. pc'[r] = "check" /\ call'[r] = NewCall("link", m, w, n) /\ tx'[r] = tx[r]
      BY <1>4 DEF BeginLink, Goto, TypeOK
    <2>4. nonces' = nonces /\ nonces[n].wallet = w
      BY <1>4 DEF BeginLink, Active, tables
    <2>5. CallOK(r)' /\ WritesOK(r)'
      BY <1>1, <2>3, <2>4 DEF CallOK, WritesOK, Signed, NewCall
    <2>6. QED  BY <2>2, <2>5
  <1>5. ASSUME NEW m \in Names, BeginAward(r, m)
        PROVE  TypeOK' /\ CallOK(r)' /\ WritesOK(r)'
    <2>1. NewCall("award", m, users[m], None) \in Call
      BY <1>5, CallsTyped DEF BeginAward, TypeOK
    <2>2. TypeOK'
      BY <1>5, <2>1 DEF BeginAward, Goto, TypeOK, PCs, tables
    <2>3. /\ pc'[r] = "grant" /\ call'[r] = NewCall("award", m, users[m], None)
          /\ tx'[r] = tx[r]
      BY <1>5 DEF BeginAward, Goto, TypeOK
    <2>4. CallOK(r)' /\ WritesOK(r)'
      BY <1>1, <2>3 DEF CallOK, WritesOK, Signed, NewCall
    <2>5. QED  BY <2>2, <2>4
  <1>6. QED  BY <1>2, <1>3, <1>4, <1>5 DEF Arrive

\* A step that writes: one field of what the transaction has written is set.
LEMMA WriteFields ==
    ASSUME NEW t \in Transaction, NEW b \in BOOLEAN
    PROVE  /\ [t EXCEPT !.spent = b]
                = [spent |-> b, wrote |-> t.wrote, logged |-> t.logged, granted |-> t.granted]
           /\ [t EXCEPT !.wrote = b]
                = [spent |-> t.spent, wrote |-> b, logged |-> t.logged, granted |-> t.granted]
           /\ [t EXCEPT !.logged = b]
                = [spent |-> t.spent, wrote |-> t.wrote, logged |-> b, granted |-> t.granted]
           /\ [t EXCEPT !.granted = b]
                = [spent |-> t.spent, wrote |-> t.wrote, logged |-> t.logged, granted |-> b]
  BY DEF Transaction

LEMMA WriteTyped ==
    ASSUME TypeOK, NEW r \in Requests
    PROVE  /\ tx' = [tx EXCEPT ![r].spent = TRUE] =>
                 /\ tx' \in [Requests -> Transaction]
                 /\ tx'[r] = [spent |-> TRUE, wrote |-> tx[r].wrote, logged |-> tx[r].logged, granted |-> tx[r].granted]
           /\ tx' = [tx EXCEPT ![r].wrote = TRUE] =>
                 /\ tx' \in [Requests -> Transaction]
                 /\ tx'[r] = [spent |-> tx[r].spent, wrote |-> TRUE, logged |-> tx[r].logged, granted |-> tx[r].granted]
           /\ tx' = [tx EXCEPT ![r].logged = TRUE] =>
                 /\ tx' \in [Requests -> Transaction]
                 /\ tx'[r] = [spent |-> tx[r].spent, wrote |-> tx[r].wrote, logged |-> TRUE, granted |-> tx[r].granted]
           /\ tx' = [tx EXCEPT ![r].granted = TRUE] =>
                 /\ tx' \in [Requests -> Transaction]
                 /\ tx'[r] = [spent |-> tx[r].spent, wrote |-> tx[r].wrote, logged |-> tx[r].logged,
                              granted |-> TRUE]
  <1>1. tx \in [Requests -> Transaction] /\ tx[r] \in Transaction
    BY DEF TypeOK
  <1>2. \A a, b, c, d \in BOOLEAN :
           [spent |-> a, wrote |-> b, logged |-> c, granted |-> d] \in Transaction
    BY DEF Transaction
  <1>3. /\ tx[r].spent \in BOOLEAN /\ tx[r].wrote \in BOOLEAN
        /\ tx[r].logged \in BOOLEAN /\ tx[r].granted \in BOOLEAN
    BY <1>1 DEF Transaction
  <1>4. \A t \in Transaction : /\ [tx EXCEPT ![r] = t] \in [Requests -> Transaction]
                              /\ [tx EXCEPT ![r] = t][r] = t
    BY <1>1
  <1>5. PICK b \in BOOLEAN : b = TRUE
    OBVIOUS
  <1>6. ASSUME tx' = [tx EXCEPT ![r].spent = b]
        PROVE  /\ tx' \in [Requests -> Transaction]
               /\ tx'[r] = [spent |-> b, wrote |-> tx[r].wrote, logged |-> tx[r].logged, granted |-> tx[r].granted]
    <2>1. tx' = [tx EXCEPT ![r] = [tx[r] EXCEPT !.spent = b]]
      BY <1>6
    <2>2. [tx[r] EXCEPT !.spent = b]
             = [spent |-> b, wrote |-> tx[r].wrote, logged |-> tx[r].logged, granted |-> tx[r].granted]
      BY <1>1, WriteFields
    <2>3. [spent |-> b, wrote |-> tx[r].wrote, logged |-> tx[r].logged, granted |-> tx[r].granted] \in Transaction
      BY <1>2, <1>3
    <2>4. QED  BY <1>4, <2>1, <2>2, <2>3
  <1>7. ASSUME tx' = [tx EXCEPT ![r].wrote = b]
        PROVE  /\ tx' \in [Requests -> Transaction]
               /\ tx'[r] = [spent |-> tx[r].spent, wrote |-> b, logged |-> tx[r].logged, granted |-> tx[r].granted]
    <2>1. tx' = [tx EXCEPT ![r] = [tx[r] EXCEPT !.wrote = b]]
      BY <1>7
    <2>2. [tx[r] EXCEPT !.wrote = b]
             = [spent |-> tx[r].spent, wrote |-> b, logged |-> tx[r].logged, granted |-> tx[r].granted]
      BY <1>1, WriteFields
    <2>3. [spent |-> tx[r].spent, wrote |-> b, logged |-> tx[r].logged, granted |-> tx[r].granted] \in Transaction
      BY <1>2, <1>3
    <2>4. QED  BY <1>4, <2>1, <2>2, <2>3
  <1>8. ASSUME tx' = [tx EXCEPT ![r].logged = b]
        PROVE  /\ tx' \in [Requests -> Transaction]
               /\ tx'[r] = [spent |-> tx[r].spent, wrote |-> tx[r].wrote, logged |-> b, granted |-> tx[r].granted]
    <2>1. tx' = [tx EXCEPT ![r] = [tx[r] EXCEPT !.logged = b]]
      BY <1>8
    <2>2. [tx[r] EXCEPT !.logged = b]
             = [spent |-> tx[r].spent, wrote |-> tx[r].wrote, logged |-> b, granted |-> tx[r].granted]
      BY <1>1, WriteFields
    <2>3. [spent |-> tx[r].spent, wrote |-> tx[r].wrote, logged |-> b, granted |-> tx[r].granted] \in Transaction
      BY <1>2, <1>3
    <2>4. QED  BY <1>4, <2>1, <2>2, <2>3
  <1>9. ASSUME tx' = [tx EXCEPT ![r].granted = b]
        PROVE  /\ tx' \in [Requests -> Transaction]
               /\ tx'[r] = [spent |-> tx[r].spent, wrote |-> tx[r].wrote, logged |-> tx[r].logged,
                            granted |-> b]
    <2>1. tx' = [tx EXCEPT ![r] = [tx[r] EXCEPT !.granted = b]]
      BY <1>9
    <2>2. [tx[r] EXCEPT !.granted = b]
             = [spent |-> tx[r].spent, wrote |-> tx[r].wrote, logged |-> tx[r].logged,
                granted |-> b]
      BY <1>1, WriteFields
    <2>3. [spent |-> tx[r].spent, wrote |-> tx[r].wrote, logged |-> tx[r].logged,
           granted |-> b] \in Transaction
      BY <1>2, <1>3
    <2>4. QED  BY <1>4, <2>1, <2>2, <2>3
  <1>10. QED  BY <1>5, <1>6, <1>7, <1>8, <1>9

LEMMA ProceedTyped ==
    ASSUME TypeInv, NEW r \in Requests, Proceed(r)
    PROVE  TypeOK' /\ CallOK(r)' /\ WritesOK(r)'
  <1> USE DEF TypeInv
  <1>0. CallOK(r) /\ WritesOK(r) /\ call[r] \in Call
    BY DEF TypeOK
  <1>1. CASE CheckHolder(r)
    <2>1. CASE WalletTaken(r) /\ Close(r)
      BY <1>1, <2>1, CloseTyped DEF CheckHolder, TypeOK, tables
    <2>2. CASE ~WalletTaken(r) /\ Goto(r, "consume") /\ UNCHANGED <<call, tx>>
      <3>1. TypeOK'
        BY <1>1, <2>2 DEF CheckHolder, Goto, TypeOK, PCs, tables
      <3>2. CallOK(r)' /\ WritesOK(r)'
        BY <1>0, <1>1, <2>2 DEF CheckHolder, Goto, TypeOK, tables, CallOK, WritesOK, Signed
      <3>3. QED  BY <3>1, <3>2
    <2>3. QED  BY <1>1, <2>1, <2>2 DEF CheckHolder
  <1>2. CASE Consume(r)
    <2>1. /\ pc[r] = "consume" /\ UNCHANGED <<tables, call>>
          /\ tx' = [tx EXCEPT ![r].spent = TRUE]
          /\ pc' = [pc EXCEPT ![r] = IF call[r].op = "login" THEN "find" ELSE "merge"]
      BY <1>2 DEF Consume, Goto
    <2>2. TypeOK'
      BY <2>1, WriteTyped DEF TypeOK, PCs, tables
    <2>3. CallOK(r)' /\ WritesOK(r)'
      BY <1>0, <2>1, WriteTyped DEF TypeOK, tables, CallOK, WritesOK, Signed, Call
    <2>4. QED  BY <2>2, <2>3
  <1>3. CASE FindHolder(r)
    <2>1. PICK m \in Names : /\ call' = [call EXCEPT ![r].name = m]
                             /\ Goto(r, "record") \/ Goto(r, "insert")
      <3>1. call[r].wallet \in Wallets
        BY <1>0, <1>3 DEF FindHolder, CallOK, Signed
      <3>2. WalletName[call[r].wallet] \in Names
        BY <3>1, NamesAssumption
      <3>3. QED  BY <1>3, <3>2 DEF FindHolder
    <2>2. /\ call'[r] = [call[r] EXCEPT !.name = m]
          /\ [call[r] EXCEPT !.name = m]
               = [op |-> call[r].op, name |-> m, wallet |-> call[r].wallet,
                  nonce |-> call[r].nonce]
          /\ [call[r] EXCEPT !.name = m] \in Call
      BY <1>0, <2>1 DEF TypeOK, Call
    <2>3. TypeOK'
      BY <1>3, <2>1, <2>2 DEF FindHolder, Goto, TypeOK, PCs, tables
    <2>4. CallOK(r)' /\ WritesOK(r)'
      BY <1>0, <1>3, <2>1, <2>2 DEF FindHolder, Goto, TypeOK, tables, CallOK, WritesOK, Signed
    <2>5. QED  BY <2>3, <2>4
  <1>4. CASE Insert(r)
    <2>1. /\ pc[r] = "insert" /\ UNCHANGED <<tables, call>>
          /\ tx' = [tx EXCEPT ![r].wrote = TRUE]
          /\ pc' = [pc EXCEPT ![r] = IF call[r].op = "login" THEN "record" ELSE "commit"]
      BY <1>4 DEF Insert, Goto
    <2>2. TypeOK'
      BY <2>1, WriteTyped DEF TypeOK, PCs, tables
    <2>3. CallOK(r)' /\ WritesOK(r)'
      BY <1>0, <2>1, WriteTyped DEF TypeOK, tables, CallOK, WritesOK, Signed, Call
    <2>4. QED  BY <2>2, <2>3
  <1>5. CASE Merge(r)
    <2>1. TypeOK'
      BY <1>5 DEF Merge, Goto, AfterUpdate, TypeOK, PCs, tables
    <2>2. CallOK(r)' /\ WritesOK(r)'
      BY <1>0, <1>5 DEF Merge, Goto, AfterUpdate, TypeOK, tables, CallOK, WritesOK, Signed
    <2>3. QED  BY <2>1, <2>2
  <1>6. CASE Flush(r)
    <2>1. /\ pc[r] = "flush" /\ UNCHANGED <<tables, call>>
          /\ tx' = [tx EXCEPT ![r].wrote = TRUE]
          /\ pc' = [pc EXCEPT ![r] = IF call[r].op = "link" THEN "record" ELSE "commit"]
      BY <1>6 DEF Flush, Goto, AfterUpdate
    <2>2. TypeOK'
      BY <2>1, WriteTyped DEF TypeOK, PCs, tables
    <2>3. /\ pc'[r] = IF call[r].op = "link" THEN "record" ELSE "commit"
          /\ call'[r] = call[r] /\ nonces' = nonces /\ tx'[r].spent = tx[r].spent
          /\ tx'[r].logged = tx[r].logged /\ tx'[r].granted = tx[r].granted
      BY <2>1, WriteTyped DEF TypeOK, tables
    <2>4. CallOK(r)'
      BY <1>0, <2>1, <2>3 DEF CallOK, Signed
    <2>5. WritesOK(r)'
      BY <1>0, <2>1, <2>3 DEF CallOK, WritesOK, Signed
    <2>6. QED  BY <2>2, <2>4, <2>5
  <1>7. CASE IntegrityError(r)
    BY <1>7, CloseTyped DEF IntegrityError, TypeOK, tables
  <1>8. CASE Record(r)
    <2>1. /\ pc[r] = "record" /\ UNCHANGED <<tables, call>>
          /\ tx' = [tx EXCEPT ![r].logged = TRUE]
          /\ pc' = [pc EXCEPT ![r] = "commit"]
      BY <1>8 DEF Record, Goto
    <2>2. TypeOK'
      BY <2>1, WriteTyped DEF TypeOK, PCs, tables
    <2>3. /\ pc'[r] = "commit" /\ call'[r] = call[r] /\ nonces' = nonces
          /\ tx'[r].spent = tx[r].spent /\ tx'[r].wrote = tx[r].wrote
          /\ tx'[r].logged = TRUE /\ tx'[r].granted = tx[r].granted
      BY <2>1, WriteTyped DEF TypeOK, tables
    <2>4. Signed(r) /\ call[r].op \notin {"award", "register", "none"}
      BY <1>0, <2>1 DEF CallOK, Call, Signed
    <2>5. CallOK(r)'
      BY <1>0, <2>1, <2>3, <2>4 DEF CallOK, Signed
    <2>6. WritesOK(r)'
      BY <1>0, <2>1, <2>3, <2>4 DEF WritesOK, Signed
    <2>7. QED  BY <2>2, <2>5, <2>6
  <1>9. CASE Commit(r)
    BY <1>0, <1>9, CommitNonces, CommitRows, CloseTyped DEF TypeOK
  <1>10. CASE Grant(r)
    <2>1. CASE Close(r)
      BY <1>10, <2>1, CloseTyped DEF Grant, TypeOK, tables
    <2>2. CASE tx' = [tx EXCEPT ![r].granted = TRUE] /\ Goto(r, "merge") /\ UNCHANGED call
      <3>1. pc[r] = "grant" /\ UNCHANGED tables /\ pc' = [pc EXCEPT ![r] = "merge"]
        BY <1>10, <2>2 DEF Grant, Goto
      <3>2. TypeOK'
        BY <2>2, <3>1, WriteTyped DEF TypeOK, PCs, tables
      <3>3. CallOK(r)' /\ WritesOK(r)'
        BY <1>0, <2>2, <3>1, WriteTyped DEF TypeOK, tables, CallOK, WritesOK, Signed, Call
      <3>4. QED  BY <3>2, <3>3
    <2>3. QED  BY <1>10, <2>1, <2>2 DEF Grant
  <1>11. QED
    BY <1>1, <1>2, <1>3, <1>4, <1>5, <1>6, <1>7, <1>8, <1>9, <1>10 DEF Proceed

LEMMA StepTyped ==
    ASSUME TypeInv, NEW r \in Requests, Step(r)
    PROVE  TypeInv'
  <1>1. TypeOK' /\ CallOK(r)' /\ WritesOK(r)'
    <2>1. CASE Abort(r)
      BY <2>1, CloseTyped DEF Abort, TypeInv, TypeOK, tables
    <2>2. QED  BY <2>1, ArriveTyped, ProceedTyped DEF Step
  <1>2. \A n \in Nonces : nonces'[n].wallet = nonces[n].wallet
    BY OnlyCommitsWrite, CommitNonces DEF TypeInv, tables
  <1>3. ASSUME NEW q \in Requests \ {r}
        PROVE  CallOK(q)' /\ WritesOK(q)'
    <2>1. pc'[q] = pc[q] /\ call'[q] = call[q] /\ tx'[q] = tx[q]
      BY OthersUntouched DEF TypeInv
    <2>2. QED  BY <1>2, <2>1 DEF TypeInv, CallOK, WritesOK, Signed
  <1>4. QED  BY <1>1, <1>3 DEF TypeInv

\* The life of a nonce: it is issued to a wallet for good, and expires.
NonceStep == \E n \in Nonces : Expire(n) \/ \E w \in Wallets : CreateNonce(n, w)

LEMMA NonceSteps ==
    ASSUME TypeOK, NonceStep
    PROVE  /\ UNCHANGED <<users, events, completions, pc, call, tx>>
           /\ nonces' \in [Nonces -> NonceRow]
           /\ \A k \in Nonces :
                 /\ nonces[k].wallet # None => nonces'[k].wallet = nonces[k].wallet
                 /\ nonces'[k].spent = nonces[k].spent
  <1>1. PICK n \in Nonces : Expire(n) \/ \E w \in Wallets : CreateNonce(n, w)
    BY DEF NonceStep
  <1>2. nonces[n] \in NonceRow
    BY DEF TypeOK
  <1>3. /\ \A b \in BOOLEAN : /\ [nonces[n] EXCEPT !.expired = b] \in NonceRow
                              /\ [nonces[n] EXCEPT !.expired = b].wallet = nonces[n].wallet
                              /\ [nonces[n] EXCEPT !.expired = b].spent = nonces[n].spent
        /\ \A w \in Wallets : /\ [nonces[n] EXCEPT !.wallet = w] \in NonceRow
                              /\ [nonces[n] EXCEPT !.wallet = w].spent = nonces[n].spent
    BY <1>2 DEF NonceRow
  <1>4. PICK row \in NonceRow :
           /\ nonces' = [nonces EXCEPT ![n] = row]
           /\ nonces[n].wallet # None => row.wallet = nonces[n].wallet
           /\ row.spent = nonces[n].spent
    BY <1>1, <1>3 DEF Expire, CreateNonce
  <1>5. UNCHANGED <<users, events, completions, pc, call, tx>>
    BY <1>1 DEF Expire, CreateNonce
  <1>6. QED  BY <1>4, <1>5 DEF TypeOK

LEMMA NextTyped == TypeInv /\ [Next]_vars => TypeInv'
  <1> SUFFICES ASSUME TypeInv, [Next]_vars PROVE TypeInv'
    OBVIOUS
  <1>1. CASE NonceStep
    <2>1. TypeOK'
      BY <1>1, NonceSteps DEF TypeInv, TypeOK
    <2>2. ASSUME NEW r \in Requests
          PROVE  CallOK(r)' /\ WritesOK(r)'
      BY <1>1, NonceSteps, Markers DEF TypeInv, CallOK, WritesOK, Signed
    <2>3. QED  BY <2>1, <2>2 DEF TypeInv
  <1>2. ASSUME NEW r \in Requests, Step(r)
        PROVE  TypeInv'
    BY <1>2, StepTyped
  <1>3. CASE UNCHANGED vars
    BY <1>3 DEF vars, tables, TypeInv, TypeOK, CallOK, WritesOK, Signed
  <1>4. QED  BY <1>1, <1>2, <1>3 DEF Next, NonceStep, Step

\* Every committed row and every local of a request has its type.
THEOREM TypeCorrect == Spec => []TypeOK
  <1>1. TypeInv => TypeOK
    BY DEF TypeInv
  <1>2. QED  BY <1>1, InitTyped, NextTyped, PTL DEF Spec

-----------------------------------------------------------------------------
(* The keys of users. *)

\* What keeps two writers apart: an INSERT or an UPDATE waits for every open
\* transaction that has written the same name or wallet, and looks at the rows
\* on record.
LEMMA WriterKeys ==
    ASSUME TypeInv, KeysInv, NEW r \in Requests, Insert(r) \/ Flush(r)
    PROVE  KeysOK(r)' /\ \A q \in Requests \ {r} : KeysOK(q)'
  <1>1. /\ pc[r] \in {"insert", "flush"} /\ ~Waits(r) /\ ~Taken(r)
        /\ UNCHANGED <<tables, call>>
        /\ tx' = [tx EXCEPT ![r].wrote = TRUE]
    BY DEF Insert, Flush
  <1>2. /\ ~WalletTaken(r)
        /\ pc[r] = "insert" => users[call[r].name] = Absent
    BY <1>1 DEF Taken
  <1>3. CallOK(r)
    BY DEF TypeInv
  <1>4. \A q \in Requests \ {r} : tx'[q] = tx[q]
    BY <1>1 DEF TypeInv, TypeOK
  <1>5. ASSUME NEW q \in Requests \ {r}, tx[q].wrote
        PROVE  /\ call[q].name # call[r].name
               /\ call[r].wallet # None => call[q].wallet # call[r].wallet
    <2>1. ~KeyWaits(r, q)
      BY <1>1 DEF Waits, WaitsFor
    <2>2. QED  BY <1>5, <2>1 DEF KeyWaits
  <1>6. call[r].wallet # None => \A m \in Names \ {call[r].name} : users[m] # call[r].wallet
    BY <1>2 DEF WalletTaken, Holds
  <1>7. call[r].op \notin {"link", "award"} => users[call[r].name] = Absent
    BY <1>1, <1>2, <1>3 DEF CallOK
  <1>8. KeysOK(r)'
    BY <1>1, <1>4, <1>5, <1>6, <1>7 DEF KeysOK, tables
  <1>9. ASSUME NEW q \in Requests \ {r}
        PROVE  KeysOK(q)'
    <2>1. KeysOK(q)
      BY DEF KeysInv
    <2>2. SUFFICES ASSUME tx[q].wrote
                   PROVE  /\ call[r].name # call[q].name
                          /\ call[q].wallet # None => call[r].wallet # call[q].wallet
      BY <1>1, <1>4, <2>1 DEF KeysOK, tables
    <2>3. QED  BY <1>5, <2>2
  <1>10. QED  BY <1>8, <1>9

\* A commit takes nothing that another open transaction has written.
LEMMA CommitKeys ==
    ASSUME TypeInv, KeysInv, NEW r \in Requests, Commit(r)
    PROVE  KeysInv'
  <1>0. TypeOK /\ CallOK(r) /\ WritesOK(r) /\ KeysOK(r)
    BY DEF TypeInv, KeysInv
  <1>1. /\ ~tx'[r].wrote
        /\ \A q \in Requests \ {r} : call'[q] = call[q] /\ tx'[q] = tx[q]
    <2>1. Close(r) /\ Step(r)
      BY DEF Commit, Step, Proceed
    <2>2. QED  BY <1>0, <2>1, CloseTyped, OthersUntouched
  <1>2. \A m \in Names : users'[m] = IF tx[r].wrote /\ m = call[r].name
                                     THEN call[r].wallet ELSE users[m]
    BY <1>0, CommitRows
  <1>3. KeysOK(r)'
    BY <1>1 DEF KeysOK
  <1>4. ASSUME NEW q \in Requests \ {r}
        PROVE  KeysOK(q)'
    <2>1. KeysOK(q) /\ CallOK(q) /\ WritesOK(q)
      BY DEF KeysInv, TypeInv
    <2>2. SUFFICES ASSUME tx[q].wrote
                   PROVE  KeysOK(q)'
      BY <1>1 DEF KeysOK
    <2>3. call[q].name \in Names
      BY <2>1, <2>2 DEF WritesOK, CallOK
    <2>4. tx[r].wrote => /\ call[r].name # call[q].name
                         /\ call[q].wallet # None => call[r].wallet # call[q].wallet
      BY <2>1, <2>2 DEF KeysOK
    <2>5. \A k \in Requests \ {q} : tx'[k].wrote => k # r /\ tx[k].wrote
      BY <1>1
    <2>6. call[q].wallet # None =>
             \A m \in Names \ {call[q].name} : users'[m] # call[q].wallet
      BY <1>2, <2>1, <2>2, <2>4 DEF KeysOK
    <2>7. call[q].op \notin {"link", "award"} => users'[call[q].name] = Absent
      BY <1>2, <2>1, <2>2, <2>3, <2>4 DEF KeysOK
    <2>8. QED  BY <1>1, <2>1, <2>2, <2>5, <2>6, <2>7 DEF KeysOK
  <1>5. QED  BY <1>3, <1>4 DEF KeysInv

\* Every other step leaves the rows, the calls of the writers and their writes.
LEMMA StepKeys ==
    ASSUME TypeInv, KeysInv, NEW r \in Requests, Step(r)
    PROVE  KeysInv'
  <1>1. CASE Insert(r) \/ Flush(r)
    BY <1>1, WriterKeys DEF KeysInv
  <1>2. CASE Commit(r)
    BY <1>2, CommitKeys
  <1>3. CASE ~Insert(r) /\ ~Flush(r) /\ ~Commit(r)
    <2>1. UNCHANGED users
      BY <1>3, OnlyCommitsWrite DEF tables
    <2>2. tx'[r].wrote => tx[r].wrote /\ call'[r] = call[r]
      <3>1. TypeOK /\ CallOK(r) /\ WritesOK(r)
        BY DEF TypeInv
      <3>2. CASE Close(r)
        BY <3>2, CloseTyped
      <3>3. CASE Arrive(r)
        BY <3>1, <3>3 DEF Arrive, BeginRegister, BeginAward, BeginLogin, BeginLink, WritesOK
      <3>4. CASE Consume(r) \/ Record(r) \/ (Grant(r) /\ ~Close(r))
        <4>1. call' = call /\ tx'[r].wrote = tx[r].wrote
          BY <3>1, <3>4, WriteTyped DEF Consume, Record, Grant
        <4>2. QED  BY <4>1
      <3>5. CASE FindHolder(r)
        BY <3>1, <3>5 DEF FindHolder, WritesOK
      <3>6. CASE Merge(r) \/ (CheckHolder(r) /\ ~Close(r))
        BY <3>6 DEF Merge, CheckHolder
      <3>7. QED
        BY <1>3, <3>2, <3>3, <3>4, <3>5, <3>6
           DEF Step, Proceed, Abort, CheckHolder, Grant, IntegrityError
    <2>3. \A q \in Requests \ {r} : call'[q] = call[q] /\ tx'[q] = tx[q]
      BY OthersUntouched DEF TypeInv
    <2>4. \A q \in Requests : tx'[q].wrote => tx[q].wrote /\ call'[q] = call[q]
      BY <2>2, <2>3
    <2>5. ASSUME NEW q \in Requests
          PROVE  KeysOK(q)'
      BY <2>1, <2>4 DEF KeysOK, KeysInv
    <2>6. QED  BY <2>5 DEF KeysInv
  <1>4. QED  BY <1>1, <1>2, <1>3

-----------------------------------------------------------------------------
(* The awards. *)

\* A completion waits for every open one of the same account.
LEMMA StepGrants ==
    ASSUME TypeInv, GrantsInv, NEW r \in Requests, Step(r)
    PROVE  GrantsInv'
  <1>1. \A q \in Requests \ {r} : call'[q] = call[q] /\ tx'[q] = tx[q]
    BY OthersUntouched DEF TypeInv
  <1>2. TypeOK /\ CallOK(r) /\ WritesOK(r)
    BY DEF TypeInv
  <1>3. CASE Grant(r) /\ ~Close(r)
    <2>1. ~Waits(r) /\ pc[r] = "grant" /\ call'[r] = call[r]
      BY <1>3 DEF Grant
    <2>2. ASSUME NEW q \in Requests \ {r}, tx[q].granted
          PROVE  call[q].name # call[r].name
      BY <2>1, <2>2 DEF Waits, WaitsFor
    <2>3. QED  BY <1>1, <2>1, <2>2 DEF GrantsInv
  <1>4. CASE Close(r)
    <2>1. ~tx'[r].granted
      BY <1>4, EmptyRows DEF Close, TypeInv, TypeOK
    <2>2. QED  BY <1>1, <2>1 DEF GrantsInv
  <1>5. CASE ~Close(r) /\ ~Grant(r)
    <2>1. tx'[r].granted => tx[r].granted /\ call'[r].name = call[r].name
      <3>1. CASE Arrive(r)
        BY <1>2, <3>1
           DEF Arrive, BeginRegister, BeginAward, BeginLogin, BeginLink, WritesOK
      <3>2. CASE Consume(r) \/ Insert(r) \/ Flush(r) \/ Record(r)
        <4>1. call' = call /\ tx'[r].granted = tx[r].granted
          BY <1>2, <3>2, WriteTyped DEF Consume, Insert, Flush, Record
        <4>2. QED  BY <4>1
      <3>3. CASE FindHolder(r)
        BY <1>2, <3>3 DEF FindHolder, WritesOK
      <3>4. CASE Merge(r) \/ CheckHolder(r)
        BY <1>5, <3>4 DEF Merge, CheckHolder
      <3>5. QED
        BY <1>5, <3>1, <3>2, <3>3, <3>4 DEF Step, Proceed, Abort, IntegrityError, Commit
    <2>2. QED  BY <1>1, <2>1 DEF GrantsInv
  <1>6. QED  BY <1>3, <1>4, <1>5

\* What an award loads is what an event tells of, and no event is forgotten.
LEMMA StepAwards ==
    ASSUME TypeInv, AwardsInv, WalletsAreLogged, NEW r \in Requests, Step(r)
    PROVE  AwardsInv'
  <1>1. \A q \in Requests \ {r} : call'[q] = call[q]
    BY OthersUntouched DEF TypeInv
  <1>2. TypeOK /\ CallOK(r) /\ WritesOK(r) /\ AwardOK(r)
    BY DEF TypeInv, AwardsInv
  <1>3. events \subseteq events'
    BY <1>2, OnlyCommitsWrite, CommitRows DEF tables
  <1>4. ASSUME NEW q \in Requests \ {r}
        PROVE  AwardOK(q)'
    BY <1>1, <1>3 DEF AwardsInv, AwardOK
  <1>5. AwardOK(r)'
    <2>1. CASE Close(r)
      <3>1. call'[r].op = "none"
        BY <1>2, <2>1, EmptyRows DEF Close, TypeOK
      <3>2. QED  BY <3>1 DEF AwardOK
    <2>2. CASE call'[r] = call[r]
      BY <1>2, <1>3, <2>2 DEF AwardOK
    <2>3. CASE FindHolder(r)
      <3>1. call'[r].op = "login"
        BY <1>2, <2>3 DEF FindHolder, CallOK, TypeOK, Call
      <3>2. QED  BY <3>1 DEF AwardOK
    <2>4. ASSUME NEW m \in Names, BeginAward(r, m)
          PROVE  AwardOK(r)'
      <3>1. /\ users[m] \in Wallets \cup {None} /\ UNCHANGED events
            /\ call'[r].name = m /\ call'[r].wallet = users[m]
        BY <1>2, <2>4 DEF BeginAward, NewCall, TypeOK, tables
      <3>2. QED  BY <3>1 DEF AwardOK, WalletsAreLogged
    <2>5. CASE Arrive(r) /\ \A m \in Names : ~BeginAward(r, m)
      <3>1. call'[r].op \in {"register", "login", "link"}
        BY <1>2, <2>5 DEF Arrive, BeginRegister, BeginLogin, BeginLink, NewCall, TypeOK
      <3>2. QED  BY <3>1 DEF AwardOK
    <2>6. QED
      BY <2>1, <2>2, <2>3, <2>4, <2>5
         DEF Step, Proceed, Abort, CheckHolder, Consume, Insert, Grant, Merge, Flush,
             IntegrityError, Record, Commit
  <1>6. QED  BY <1>4, <1>5 DEF AwardsInv

-----------------------------------------------------------------------------
(* The properties. *)

\* A wallet comes into an account and into an event with its nonce.
LEMMA StepProven ==
    ASSUME TypeInv, AwardsInv, WalletIsProven, NEW r \in Requests, Commit(r)
    PROVE  WalletIsProven'
  <1>0. TypeOK /\ CallOK(r) /\ WritesOK(r) /\ AwardOK(r)
    BY DEF TypeInv, AwardsInv
  <1>1. SUFFICES ASSUME NEW w \in {e.wallet : e \in events'}
                                     \cup ({users'[m] : m \in Names} \cap Wallets)
                 PROVE  \E n \in Nonces : nonces'[n].wallet = w /\ nonces'[n].spent
    BY DEF WalletIsProven
  <1>2. CASE w \in {e.wallet : e \in events} \cup ({users[m] : m \in Names} \cap Wallets)
    <2>1. PICK n \in Nonces : nonces[n].wallet = w /\ nonces[n].spent
      BY <1>2 DEF WalletIsProven
    <2>2. QED  BY <1>0, <2>1, CommitNonces
  <1>3. CASE w \notin {e.wallet : e \in events} \cup ({users[m] : m \in Names} \cap Wallets)
    <2>1. w = call[r].wallet /\ (tx[r].logged \/ call[r].wallet \in Wallets)
      BY <1>0, <1>1, <1>3, CommitRows
    <2>2. Signed(r) /\ pc[r] = "commit"
      <3>1. call[r].op # "award"
        BY <1>0, <1>3, <2>1, Markers DEF AwardOK, WritesOK, Signed
      <3>2. QED  BY <1>0, <2>1, <3>1, Markers DEF WritesOK, CallOK, Signed, Commit, TypeOK, Call
    <2>3. call[r].nonce \in Nonces /\ nonces[call[r].nonce].wallet = w /\ tx[r].spent
      BY <1>0, <2>1, <2>2 DEF CallOK, WritesOK
    <2>4. QED  BY <1>0, <2>3, CommitNonces
  <1>4. QED  BY <1>2, <1>3

LEMMA StepOneAccount ==
    ASSUME TypeInv, KeysInv, WalletHasOneAccount, NEW r \in Requests, Commit(r)
    PROVE  WalletHasOneAccount'
  <1>0. TypeOK /\ CallOK(r) /\ WritesOK(r) /\ KeysOK(r)
    BY DEF TypeInv, KeysInv
  <1>1. \A m \in Names : users'[m] = IF tx[r].wrote /\ m = call[r].name
                                     THEN call[r].wallet ELSE users[m]
    BY <1>0, CommitRows
  <1>2. tx[r].wrote /\ call[r].wallet \in Wallets =>
           \A m \in Names \ {call[r].name} : users[m] # call[r].wallet
    BY <1>0, Markers DEF KeysOK
  <1>3. QED  BY <1>1, <1>2 DEF WalletHasOneAccount

LEMMA StepLogged ==
    ASSUME TypeInv, AwardsInv, WalletsAreLogged, NEW r \in Requests, Commit(r)
    PROVE  WalletsAreLogged'
  <1>0. TypeOK /\ CallOK(r) /\ WritesOK(r) /\ AwardOK(r)
    BY DEF TypeInv, AwardsInv
  <1>1. SUFFICES ASSUME NEW m \in Names, users'[m] \in Wallets
                 PROVE  \E e \in events' : e.name = m /\ e.wallet = users'[m]
    BY DEF WalletsAreLogged
  <1>2. users'[m] = IF tx[r].wrote /\ m = call[r].name THEN call[r].wallet ELSE users[m]
    BY <1>0, CommitRows
  <1>3. CASE tx[r].wrote /\ m = call[r].name /\ call[r].op = "award"
    <2>1. PICK e \in events : e.name = m /\ e.wallet = users'[m]
      BY <1>0, <1>1, <1>2, <1>3, Markers DEF AwardOK
    <2>2. QED  BY <1>0, <2>1, CommitRows
  <1>4. CASE tx[r].wrote /\ m = call[r].name /\ call[r].op # "award"
    <2>1. Signed(r) /\ pc[r] = "commit"
      BY <1>0, <1>1, <1>2, <1>4, Markers DEF CallOK, Signed, Commit, TypeOK, Call
    <2>2. tx[r].logged
      BY <1>0, <2>1 DEF WritesOK
    <2>3. QED  BY <1>0, <1>2, <1>4, <2>2, CommitRows
  <1>5. CASE ~(tx[r].wrote /\ m = call[r].name)
    <2>1. users'[m] = users[m]
      BY <1>2, <1>5
    <2>2. PICK e \in events : e.name = m /\ e.wallet = users[m]
      BY <1>1, <2>1 DEF WalletsAreLogged
    <2>3. QED  BY <1>0, <2>1, <2>2, CommitRows
  <1>6. QED  BY <1>3, <1>4, <1>5

LEMMA InitInv == Init => IInv
  <1> SUFFICES ASSUME Init PROVE IInv
    OBVIOUS
  <1>1. KeysInv /\ GrantsInv /\ AwardsInv
    BY EmptyRows DEF Init, KeysInv, KeysOK, GrantsInv, AwardsInv, AwardOK
  <1>2. WalletIsProven /\ WalletHasOneAccount /\ WalletsAreLogged
    BY Markers DEF Init, WalletIsProven, WalletHasOneAccount, WalletsAreLogged
  <1>3. QED  BY <1>1, <1>2, InitTyped DEF IInv

LEMMA NextInv == IInv /\ [Next]_vars => IInv'
  <1> SUFFICES ASSUME IInv, [Next]_vars PROVE IInv'
    OBVIOUS
  <1> USE DEF IInv
  <1>1. TypeInv'
    BY NextTyped
  <1>2. CASE NonceStep
    <2>0. /\ UNCHANGED <<users, events, completions, pc, call, tx>>
          /\ \A k \in Nonces :
                /\ nonces[k].wallet # None => nonces'[k].wallet = nonces[k].wallet
                /\ nonces'[k].spent = nonces[k].spent
      BY <1>2, NonceSteps DEF TypeInv
    <2>1. KeysInv' /\ GrantsInv' /\ AwardsInv'
      BY <2>0 DEF KeysInv, KeysOK, GrantsInv, AwardsInv, AwardOK
    <2>2. WalletHasOneAccount' /\ WalletsAreLogged'
      BY <2>0 DEF WalletHasOneAccount, WalletsAreLogged
    <2>3. WalletIsProven'
      <3>1. ASSUME NEW w \in {e.wallet : e \in events} \cup ({users[m] : m \in Names} \cap Wallets)
            PROVE  \E n \in Nonces : nonces'[n].wallet = w /\ nonces'[n].spent
        <4>1. PICK n \in Nonces : nonces[n].wallet = w /\ nonces[n].spent
          BY DEF WalletIsProven
        <4>2. w # None
          BY <3>1, Markers DEF TypeInv, TypeOK, Event
        <4>3. QED  BY <2>0, <4>1, <4>2
      <3>2. QED  BY <2>0, <3>1 DEF WalletIsProven
    <2>4. QED  BY <1>1, <2>1, <2>2, <2>3
  <1>3. ASSUME NEW r \in Requests, Step(r)
        PROVE  IInv'
    <2>1. KeysInv' /\ GrantsInv' /\ AwardsInv'
      BY <1>3, StepKeys, StepGrants, StepAwards
    <2>2. CASE Commit(r)
      BY <1>1, <2>1, <2>2, StepProven, StepOneAccount, StepLogged
    <2>3. CASE UNCHANGED tables
      BY <1>1, <2>1, <2>3
         DEF tables, WalletIsProven, WalletHasOneAccount, WalletsAreLogged
    <2>4. QED  BY <1>3, <2>2, <2>3, OnlyCommitsWrite
  <1>4. CASE UNCHANGED vars
    BY <1>1, <1>4
       DEF vars, tables, KeysInv, KeysOK, GrantsInv, AwardsInv, AwardOK, WalletIsProven,
           WalletHasOneAccount, WalletsAreLogged
  <1>5. QED  BY <1>2, <1>3, <1>4 DEF Next, NonceStep, Step

\* Nobody signs in with a wallet, or has one, that no consumed nonce proves.
THEOREM WalletIsProvenHolds == Spec => []WalletIsProven
  <1>1. IInv => WalletIsProven
    BY DEF IInv
  <1>2. QED  BY <1>1, InitInv, NextInv, PTL DEF Spec

\* First sign-ins and links that race for a wallet leave it with one account.
THEOREM WalletHasOneAccountHolds == Spec => []WalletHasOneAccount
  <1>1. IInv => WalletHasOneAccount
    BY DEF IInv
  <1>2. QED  BY <1>1, InitInv, NextInv, PTL DEF Spec

\* Each account that has a wallet has the event that says how it came by it.
THEOREM WalletsAreLoggedHolds == Spec => []WalletsAreLogged
  <1>1. IInv => WalletsAreLogged
    BY DEF IInv
  <1>2. QED  BY <1>1, InitInv, NextInv, PTL DEF Spec

\* The row of an account on record changes by the commit of a link or of an
\* award: what inserts an account does so under a name that is free until then.
LEMMA StepMoves ==
    ASSUME TypeInv, KeysInv, AwardsInv, NEW r \in Requests, Commit(r),
           NEW m \in Names, users[m] # Absent, users'[m] # users[m]
    PROVE  LinksWallet(m) \/ RevertsWallet(m)
  <1>0. /\ TypeOK /\ CallOK(r) /\ WritesOK(r) /\ KeysOK(r) /\ AwardOK(r)
        /\ pc[r] = "commit"
    BY DEF TypeInv, KeysInv, AwardsInv, Commit
  <1>1. tx[r].wrote /\ m = call[r].name /\ users'[m] = call[r].wallet
    BY <1>0, CommitRows
  <1>2. CASE call[r].op = "link"
    <2>1. /\ call[r].nonce \in Nonces /\ tx[r].spent
          /\ nonces[call[r].nonce].wallet = call[r].wallet
      BY <1>0, <1>2 DEF CallOK, WritesOK, Signed
    <2>2. nonces'[call[r].nonce].spent
      BY <1>0, <2>1, CommitNonces
    <2>3. QED  BY <1>1, <1>2, <2>1, <2>2 DEF LinksWallet
  <1>3. CASE call[r].op = "award"
    BY <1>0, <1>1, <1>3 DEF AwardOK, RevertsWallet
  <1>4. QED  BY <1>0, <1>1, <1>2, <1>3 DEF KeysOK

\* The wallet of an account on record changes by a link, signed by the new
\* wallet with a nonce that the same commit consumes, or by an award of the
\* same user, back to none or to one that the account has proven before.
THEOREM WalletIsNotTakenOverHolds == Spec => WalletIsNotTakenOver
  <1> DEFINE Moves ==
        \A m \in Names : users[m] # Absent /\ users'[m] # users[m] =>
            LinksWallet(m) \/ RevertsWallet(m)
  <1>1. IInv /\ [Next]_vars => [Moves]_users
    <2> SUFFICES ASSUME IInv, [Next]_vars, users' # users PROVE Moves
      OBVIOUS
    <2>1. PICK r \in Requests : Commit(r)
      <3>1. PICK r \in Requests : Step(r)
        BY NonceSteps DEF Next, NonceStep, Step, vars, tables, IInv, TypeInv
      <3>2. QED  BY <3>1, OnlyCommitsWrite DEF tables
    <2>2. QED  BY <2>1, StepMoves DEF IInv
  <1>2. [][Moves]_users => WalletIsNotTakenOver
    BY DEF WalletIsNotTakenOver
  <1>3. QED  BY <1>1, <1>2, InitInv, NextInv, PTL DEF Spec

-----------------------------------------------------------------------------
(* Who can wait for whom: those who have locked nothing yet, for those who   *)
(* have their nonce; these for those who have recorded a completion; these   *)
(* for those who have written an account or recorded an event; and these for *)
(* nobody.                                                                   *)

Settled(r) == tx[r].wrote \/ pc[r] = "commit"

LEMMA WaitsAreOrdered ==
    ASSUME TypeInv, KeysInv, GrantsInv, NEW r \in Requests, NEW q \in Requests, WaitsFor(r, q)
    PROVE  /\ ~Settled(r)
           /\ pc[q] # "consume"
           /\ pc[r] # "consume" => Settled(q) \/ (tx[q].granted /\ ~tx[r].granted)
  <1>0. /\ WritesOK(r) /\ WritesOK(q) /\ KeysOK(r) /\ q # r
        /\ pc[r] \in {"consume", "insert", "grant", "flush", "record"}
    BY DEF TypeInv, KeysInv, WaitsFor
  <1>1. ~Settled(r)
    <2>1. SUFFICES ASSUME tx[r].wrote PROVE FALSE
      BY <1>0 DEF Settled
    <2>2. pc[r] = "record" /\ tx[q].wrote /\ call[q].name = call[r].name
      BY <1>0, <2>1 DEF WritesOK, WaitsFor, Changes
    <2>3. QED  BY <1>0, <2>1, <2>2 DEF KeysOK
  <1>2. CASE pc[r] = "consume"
    BY <1>0, <1>1, <1>2 DEF WaitsFor, WritesOK
  <1>3. CASE pc[r] # "consume"
    <2>1. CASE tx[q].wrote \/ tx[q].logged
      BY <1>0, <1>1, <2>1 DEF WritesOK, Settled
    <2>2. CASE ~tx[q].wrote /\ ~tx[q].logged
      <3>1. tx[q].granted /\ call[q].name = call[r].name
        BY <1>3, <2>2 DEF WaitsFor, KeyWaits, Changes, Refers
      <3>2. ~tx[r].granted
        BY <1>0, <3>1 DEF GrantsInv
      <3>3. QED  BY <1>0, <1>1, <3>1, <3>2 DEF WritesOK
    <2>3. QED  BY <2>1, <2>2
  <1>4. QED  BY <1>2, <1>3

\* However many sign-ins, links, registrations and awards wait for nonces, keys, rows
\* and references at once, they never wait in a circle.
THEOREM NoCircularWaitHolds == Spec => []NoCircularWait
  <1>1. IInv => NoCircularWait
    <2> SUFFICES ASSUME IInv, NEW circle \in (SUBSET Requests) \ {{}}
                 PROVE  \E r \in circle : \A q \in circle : ~WaitsFor(r, q)
      BY DEF NoCircularWait
    <2>1. \A r, q \in circle : WaitsFor(r, q) =>
             /\ ~Settled(r) /\ pc[q] # "consume"
             /\ pc[r] # "consume" => Settled(q) \/ (tx[q].granted /\ ~tx[r].granted)
      BY WaitsAreOrdered DEF IInv
    <2>2. CASE \E r \in circle : Settled(r)
      BY <2>1, <2>2
    <2>3. CASE (\A r \in circle : ~Settled(r)) /\ \E r \in circle : tx[r].granted
      <3>1. PICK r \in circle : tx[r].granted
        BY <2>3
      <3>2. pc[r] # "consume"
        BY <3>1 DEF IInv, TypeInv, WritesOK
      <3>3. \A q \in circle : ~WaitsFor(r, q)
        BY <2>1, <2>3, <3>1, <3>2
      <3>4. QED  BY <3>3
    <2>4. CASE /\ \A r \in circle : ~Settled(r) /\ ~tx[r].granted
               /\ \E r \in circle : pc[r] # "consume"
      <3>1. PICK r \in circle : pc[r] # "consume"
        BY <2>4
      <3>2. \A q \in circle : ~WaitsFor(r, q)
        BY <2>1, <2>4, <3>1
      <3>3. QED  BY <3>2
    <2>5. CASE \A r \in circle : pc[r] = "consume"
      <3>1. \A r, q \in circle : ~WaitsFor(r, q)
        BY <2>1, <2>5
      <3>2. QED  BY <3>1
    <2>6. QED  BY <2>2, <2>3, <2>4, <2>5
  <1>2. QED  BY <1>1, InitInv, NextInv, PTL DEF Spec

=============================================================================
