-------------------- MODULE TransferConfirmation_proofs --------------------
(***************************************************************************)
(* Proofs of the safety properties of TransferConfirmation, for any number *)
(* of users, requests and workers.                                         *)
(***************************************************************************)
EXTENDS TransferConfirmation, FiniteSetTheorems, TLAPS

USE RequestAssumption, WorldAssumption

-----------------------------------------------------------------------------
(* Types.                                                                   *)

LEMMA MoneyClosed ==
    ASSUME NEW w \in [Users -> Money], NEW u \in Users, NEW n \in Int
    PROVE  /\ Debited(w, u, n) \in [Users -> Money]
           /\ Credited(w, u, n) \in [Users -> Money]
           /\ [w EXCEPT ![u] = Empty] \in [Users -> Money]
BY DEF Debited, Credited, Empty, Money

LEMMA TypeInit == Init => TypeOK
BY DEF Init, TypeOK, Money, States, Screens, PCs

LEMMA GotoType ==
    ASSUME TypeOK, NEW w \in Workers, NEW label \in PCs, Goto(w, label),
           pc[w] # "idle"
    PROVE  /\ pc' \in [Workers -> PCs]
           /\ tok' \in [Workers -> Tokens \cup {None}]
           /\ \A v \in Workers : pc'[v] = "idle" <=> tok'[v] = None
BY DEF TypeOK, Goto

LEMMA TakeUpType ==
    ASSUME TypeOK, NEW w \in Workers, NEW t \in Tokens, NEW label \in PCs,
           pc[w] = "idle", TakeUp(w, t, label)
    PROVE  /\ pc' \in [Workers -> PCs]
           /\ tok' \in [Workers -> Tokens \cup {None}]
           /\ \A v \in Workers : pc'[v] = "idle" <=> tok'[v] = None
BY DEF TypeOK, TakeUp

\* a busy worker has a token, and the request has two different users
LEMMA BusyHasToken ==
    ASSUME TypeOK, NEW w \in Workers, pc[w] # "idle"
    PROVE  /\ tok[w] \in Tokens
           /\ From[tok[w]] \in Users /\ To[tok[w]] \in Users
           /\ From[tok[w]] # To[tok[w]]
           /\ Amount[tok[w]] \in Nat \ {0}
BY DEF TypeOK

LEMMA LocksType ==
    ASSUME TypeOK, NEW w \in Workers, ReleaseLocks(w)
    PROVE  /\ confLock' \in [Tokens -> Workers \cup {None}]
           /\ rowLock' \in [Users -> Workers \cup {None}]
BY DEF TypeOK, ReleaseLocks

LEMMA RollBackType ==
    ASSUME TypeOK, NEW w \in Workers, pc[w] # "idle", RollBack(w)
    PROVE  TypeOK'
<1>1. "show_failed" \in PCs /\ Goto(w, "show_failed")
  BY DEF RollBack, PCs, Editing
<1>2. QED
  BY <1>1, GotoType, LocksType DEF RollBack, TypeOK, dialogue, db

\* a balance row that is prepared
LEMMA Ensures ==
    ASSUME TypeOK, NEW w \in Workers, EnsureSender(w) \/ EnsureRecipient(w)
    PROVE  \E label \in {"ensure_to", "lock_from"} : \E u \in Users :
              /\ EnsureRow(w, u, label)
              /\ \/ pc[w] = "ensure_from" /\ label = "ensure_to" /\ u = From[tok[w]]
                 \/ pc[w] = "ensure_to" /\ label = "lock_from" /\ u = To[tok[w]]
<1>1. pc[w] # "idle" => From[tok[w]] \in Users /\ To[tok[w]] \in Users
  BY BusyHasToken
<1>2. QED
  BY <1>1 DEF EnsureSender, EnsureRecipient, At

\* a worker that waits for a lock is inside a handler
LEMMA VictimIsBusy ==
    ASSUME TypeOK, NEW w \in Workers, DeadlockVictim(w)
    PROVE  pc[w] # "idle"
<1>1. SUFFICES ASSUME pc[w] = "idle" PROVE FALSE
  OBVIOUS
<1>2. Blocker(w) = None
  BY <1>1 DEF Blocker
<1>3. Blocker(w) \in Workers
  BY DEF DeadlockVictim, OnRing, Ring
<1>4. QED
  BY <1>2, <1>3

LEMMA BeginType ==
    ASSUME TypeOK, NEW w \in Workers, Begin(w)
    PROVE  TypeOK'
<1>1. ASSUME NEW t \in Tokens, StartTransfer(w, t)
      PROVE  TypeOK'
  <2>1. pc[w] = "idle" /\ TakeUp(w, t, "persist") /\ "persist" \in PCs
    BY <1>1 DEF StartTransfer, At, PCs, Statements
  <2>2. QED
    BY <1>1, <2>1, TakeUpType DEF StartTransfer, TypeOK, db, locks, Screens
<1>2. ASSUME NEW t \in Tokens, NEW u \in Active, NEW answer \in {"yes", "no"},
             Click(w, t, u, answer)
      PROVE  TypeOK'
  <2>1. AfterPrepare(t, u, answer) \in PCs
    BY DEF AfterPrepare, PCs, Statements, Editing
  <2>2. pc[w] = "idle" /\ TakeUp(w, t, AfterPrepare(t, u, answer))
    BY <1>2 DEF Click, At
  <2>3. members' \subseteq Users
    BY <1>2 DEF Click, TypeOK
  <2>4. yes' \in [Tokens -> 0..2]
    <3>1. YesTo(t, u, answer) \in 0..2 /\ yes[t] \in 0..2
      BY DEF YesTo, TypeOK
    <3>2. QED
      BY <1>2, <3>1 DEF Click, TypeOK
  <2>5. QED
    BY <1>2, <2>1, <2>2, <2>3, <2>4, TakeUpType DEF Click, TypeOK, locks
<1>3. QED
  BY <1>1, <1>2 DEF Begin

\* where the statements on a row that nobody has locked lead to
LEMMA DialogueGoes ==
    ASSUME NEW w \in Workers, MarkExpired(w) \/ Cancel(w) \/ FirstYes(w)
    PROVE  /\ pc[w] \in {"mark_expired", "cancel", "first"}
           /\ \E label \in {"show_expired", "show_canceled", "show_second", "idle", "reload"} :
                 Goto(w, label)
<1> DEFINE labels == {"show_expired", "show_canceled", "show_second", "idle", "reload"}
           Goes == \E label \in labels : Goto(w, label)
<1>1. CASE MarkExpired(w)
  <2>1. pc[w] = "mark_expired" /\ Goto(w, "show_expired")
    BY <1>1 DEF MarkExpired, Transition, At
  <2>2. QED
    BY <2>1
<1>2. CASE Cancel(w)
  <2>1. pc[w] = "cancel" /\ (Goto(w, "show_canceled") \/ Goto(w, "idle"))
    BY <1>2 DEF Cancel, Transition, At
  <2>2. QED
    BY <2>1
<1>3. CASE FirstYes(w)
  <2>1. pc[w] = "first" /\ (Goto(w, "show_second") \/ Goto(w, "idle") \/ Goto(w, "reload"))
    BY <1>3 DEF FirstYes, Transition, At
  <2>2. QED
    BY <2>1
<1>4. QED
  BY <1>1, <1>2, <1>3

LEMMA StepType ==
    ASSUME TypeOK, NEW w \in Workers, Step(w)
    PROVE  TypeOK'
<1> USE DEF At
<1>1. CASE Persist(w)
  <2>1. PICK label \in PCs : pc[w] # "idle" /\ Goto(w, label)
    BY <1>1 DEF Persist, PCs, Editing
  <2>2. tok[w] \in Tokens
    BY <2>1, BusyHasToken
  <2>3. QED
    BY <1>1, <2>1, <2>2, GotoType
    DEF Persist, TypeOK, dialogue, db, locks, States, Awaiting
<1>2. CASE MarkExpired(w) \/ Cancel(w) \/ FirstYes(w)
  <2>1. PICK label \in PCs \ {"absent"} :
          pc[w] # "idle" /\ Goto(w, label) /\ conf' \in [Tokens -> States]
    <3>1. pc[w] # "idle" /\ tok[w] \in Tokens /\ conf \in [Tokens -> States]
      BY <1>2, BusyHasToken DEF MarkExpired, Cancel, FirstYes, TypeOK
    <3>2. QED
      BY <1>2, <3>1
      DEF MarkExpired, Cancel, FirstYes, Transition, PCs, Statements, Editing,
          States, Awaiting, Final
  <2>2. UNCHANGED <<consumed, dialogue, db, locks, paid>>
    BY <1>2 DEF MarkExpired, Cancel, FirstYes, Transition
  <2>3. QED
    BY <2>1, <2>2, GotoType DEF TypeOK, dialogue, db, locks
<1>3. CASE Reload(w) \/ BeginExecution(w) \/ ExecuteConflict(w)
  <2>1. PICK label \in PCs : pc[w] # "idle" /\ Goto(w, label)
    BY <1>3 DEF Reload, BeginExecution, ExecuteConflict, PCs, Statements, Editing
  <2>2. UNCHANGED <<conf, consumed, dialogue, db, locks, paid>>
    BY <1>3 DEF Reload, BeginExecution, ExecuteConflict
  <2>3. QED
    BY <2>1, <2>2, GotoType DEF TypeOK, dialogue, db, locks
<1>4. CASE EditMessage(w)
  <2>1. "idle" \in PCs /\ pc[w] # "idle" /\ Goto(w, "idle")
    BY <1>4 DEF EditMessage, PCs, Editing
  <2>2. tok[w] \in Tokens
    BY <2>1, BusyHasToken
  <2>3. Screen(pc[w]) \in Screens
    BY <1>4 DEF EditMessage, Editing, Screen, Screens
  <2>4. shown' \in [Tokens -> Screens]
    BY <1>4, <2>2, <2>3 DEF EditMessage, TypeOK
  <2>5. QED
    BY <1>4, <2>1, <2>4, GotoType DEF EditMessage, TypeOK, db, locks
<1>5. CASE ExecuteExpired(w)
  <2>1. PICK label \in PCs : pc[w] # "idle" /\ Goto(w, label)
    BY <1>5 DEF ExecuteExpired, PCs, Editing
  <2>2. tok[w] \in Tokens
    BY <2>1, BusyHasToken
  <2>3. QED
    BY <1>5, <2>1, <2>2, GotoType
    DEF ExecuteExpired, TypeOK, dialogue, db, locks, States, Final
<1>6. CASE ExecuteLock(w) \/ LockSender(w) \/ CreditRecipient(w)
  <2>1. PICK label \in PCs : pc[w] # "idle" /\ Goto(w, label)
    BY <1>6
    DEF ExecuteLock, LockSender, CreditRecipient, PCs, InTx
  <2>2. /\ confLock' \in [Tokens -> Workers \cup {None}]
        /\ rowLock' \in [Users -> Workers \cup {None}]
    BY <1>6, <2>1, BusyHasToken
    DEF ExecuteLock, LockSender, CreditRecipient, TypeOK
  <2>3. UNCHANGED <<conf, consumed, dialogue, db, paid>>
    BY <1>6 DEF ExecuteLock, LockSender, CreditRecipient
  <2>4. QED
    BY <2>1, <2>2, <2>3, GotoType DEF TypeOK, dialogue, db
<1>11. CASE EnsureSender(w) \/ EnsureRecipient(w)
  <2>1. PICK label \in {"ensure_to", "lock_from"}, u \in Users :
          EnsureRow(w, u, label) /\ pc[w] # "idle"
    BY <1>11, Ensures
  <2>2. label \in PCs /\ Goto(w, label)
    BY <2>1 DEF EnsureRow, PCs, InTx
  <2>3. rowLock' \in [Users -> Workers \cup {None}]
    BY <2>1 DEF EnsureRow, TypeOK
  <2>4. UNCHANGED <<conf, consumed, dialogue, db, confLock, paid>>
    BY <2>1 DEF EnsureRow
  <2>5. QED
    BY <2>1, <2>2, <2>3, <2>4, GotoType DEF TypeOK, dialogue, db
<1>7. CASE CommitTransfer(w)
  <2>1. pc[w] # "idle" /\ tok[w] \in Tokens
    BY <1>7, BusyHasToken DEF CommitTransfer
  <2>2. PICK label \in PCs : Goto(w, label)
    BY <1>7 DEF CommitTransfer, PCs, Editing
  <2>3. wallet' \in [Users -> Money]
    <3>1. Debited(wallet, From[tok[w]], Amount[tok[w]]) \in [Users -> Money]
      <4>1. /\ wallet \in [Users -> Money] /\ From[tok[w]] \in Users
            /\ Amount[tok[w]] \in Int
        BY <2>1, BusyHasToken DEF TypeOK
      <4>2. QED
        BY <4>1, MoneyClosed
    <3>2. Credited(Debited(wallet, From[tok[w]], Amount[tok[w]]), To[tok[w]],
                   Amount[tok[w]]) \in [Users -> Money]
      <4>1. To[tok[w]] \in Users /\ Amount[tok[w]] \in Int
        BY <2>1, BusyHasToken
      <4>2. QED
        BY <3>1, <4>1, MoneyClosed
    <3>3. QED
      BY <1>7, <3>1, <3>2 DEF CommitTransfer
  <2>4. rows' \subseteq Users
    BY <1>7 DEF CommitTransfer, TypeOK, Held
  <2>5. QED
    BY <1>7, <2>1, <2>2, <2>3, <2>4, GotoType, LocksType
    DEF CommitTransfer, TypeOK, dialogue, States, Final
<1>8. CASE CommitFailure(w)
  <2>1. pc[w] # "idle" /\ tok[w] \in Tokens
    BY <1>8, BusyHasToken DEF CommitFailure
  <2>2. "show_failed" \in PCs /\ Goto(w, "show_failed")
    BY <1>8 DEF CommitFailure, PCs, Editing
  <2>3. rows' \subseteq Users
    BY <1>8 DEF CommitFailure, TypeOK, Held
  <2>4. QED
    BY <1>8, <2>1, <2>2, <2>3, GotoType, LocksType
    DEF CommitFailure, TypeOK, dialogue, States, Final
<1>9. CASE ForeignKeyRefuses(w)
  <2>1. pc[w] # "idle" /\ RollBack(w)
    BY <1>9 DEF ForeignKeyRefuses
  <2>2. QED
    BY <2>1, RollBackType
<1>10. QED
  BY <1>1, <1>2, <1>3, <1>4, <1>5, <1>6, <1>11, <1>7, <1>8, <1>9 DEF Step, Execution

LEMMA FailureType ==
    ASSUME TypeOK, NEW w \in Workers, Failure(w)
    PROVE  TypeOK'
<1>1. CASE StatementFails(w)
  <2>1. PICK label \in PCs : pc[w] # "idle" /\ Goto(w, label)
    BY <1>1 DEF StatementFails, At, PCs, Editing
  <2>2. QED
    BY <1>1, <2>1, GotoType DEF StatementFails, TypeOK, dialogue, db, locks
<1>2. CASE TransactionFails(w)
  <2>1. pc[w] # "idle" /\ RollBack(w)
    BY <1>2 DEF TransactionFails, InTx
  <2>2. QED
    BY <2>1, RollBackType
<1>3. CASE DeadlockVictim(w)
  <2>1. pc[w] # "idle" /\ RollBack(w)
    BY <1>3, VictimIsBusy DEF DeadlockVictim
  <2>2. QED
    BY <2>1, RollBackType
<1>4. QED
  BY <1>1, <1>2, <1>3 DEF Failure

LEMMA CrashType == ASSUME TypeOK, Crash PROVE TypeOK'
BY DEF Crash, TypeOK, PCs, dialogue, db

LEMMA WorldType == ASSUME TypeOK, World PROVE TypeOK'
<1>1. ASSUME NEW t \in Tokens, TimePasses(t) PROVE TypeOK'
  BY <1>1 DEF TimePasses, TypeOK, db, locks
<1>2. ASSUME NEW u \in Users, NEW n \in Sums, Award(u, n) \/ Charge(u, n)
      PROVE  TypeOK'
  <2>1. wallet' \in [Users -> Money]
    <3>1. wallet \in [Users -> Money] /\ n \in Int
      BY DEF TypeOK
    <3>2. wallet' = Credited(wallet, u, n) \/ wallet' = Debited(wallet, u, n)
      BY <1>2 DEF Award, Charge
    <3>3. Credited(wallet, u, n) \in [Users -> Money] /\ Debited(wallet, u, n) \in [Users -> Money]
      BY <3>1, MoneyClosed
    <3>4. QED
      BY <3>2, <3>3
  <2>2. rows' \subseteq Users
    BY <1>2 DEF Award, Charge, TypeOK
  <2>3. UNCHANGED <<conf, consumed, dialogue, members, locks, pc, tok, paid>>
    BY <1>2 DEF Award, Charge
  <2>4. QED
    BY <2>1, <2>2, <2>3 DEF TypeOK, dialogue, locks
<1>3. ASSUME NEW u \in Users, Seen(u) \/ CreateBalance(u) PROVE TypeOK'
  BY <1>3 DEF Seen, CreateBalance, TypeOK, dialogue, locks
<1>4. ASSUME NEW u \in Users, Purge(u) PROVE TypeOK'
  <2>1. wallet' \in [Users -> Money]
    <3>1. wallet \in [Users -> Money] /\ wallet' = [wallet EXCEPT ![u] = Empty]
      BY <1>4 DEF Purge, TypeOK
    <3>2. Empty \in Money
      BY DEF Empty, Money
    <3>3. QED
      BY <3>1, <3>2
  <2>2. /\ rows' \subseteq Users /\ members' \subseteq Users
        /\ UNCHANGED <<conf, consumed, dialogue, locks, pc, tok, paid>>
    BY <1>4 DEF Purge, TypeOK
  <2>3. QED
    BY <2>1, <2>2 DEF TypeOK, dialogue, locks
<1>5. QED
  BY <1>1, <1>2, <1>3, <1>4 DEF World

LEMMA TypeNext == TypeOK /\ [Next]_vars => TypeOK'
<1> SUFFICES ASSUME TypeOK, [Next]_vars PROVE TypeOK'
  OBVIOUS
<1>1. CASE UNCHANGED vars
  BY <1>1 DEF TypeOK, vars, dialogue, db, locks
<1>2. CASE Next
  BY <1>2, BeginType, StepType, FailureType, CrashType, WorldType DEF Next
<1>3. QED
  BY <1>1, <1>2

\* Every variable keeps to its domain, whatever the constants.
THEOREM TypeCorrect == Spec => []TypeOK
<1>1. Init => TypeOK
  BY TypeInit
<1>2. TypeOK /\ [Next]_vars => TypeOK'
  BY TypeNext
<1>3. QED
  BY <1>1, <1>2, PTL DEF Spec
-----------------------------------------------------------------------------
(* A step of a worker moves this worker only.                               *)

OthersStay(w) == \A v \in Workers \ {w} : pc'[v] = pc[v] /\ tok'[v] = tok[v]

LEMMA GotoMoves ==
    ASSUME TypeOK, NEW w \in Workers, NEW label, Goto(w, label)
    PROVE  /\ OthersStay(w) /\ pc'[w] = label
           /\ label # "idle" => tok'[w] = tok[w]
BY DEF TypeOK, Goto, OthersStay

LEMMA TakeUpMoves ==
    ASSUME TypeOK, NEW w \in Workers, NEW t \in Tokens, NEW label, TakeUp(w, t, label)
    PROVE  /\ OthersStay(w) /\ pc'[w] = label
           /\ label # "idle" => tok'[w] = t
BY DEF TypeOK, TakeUp, OthersStay

\* a step that leaves the row locks of the other workers alone
Unlocking(w) ==
    \A u \in Users : rowLock[u] \in Workers \ {w} => rowLock'[u] = rowLock[u]

\* which steps touch neither a wallet nor a row lock
Quiet(w) ==
    \/ \E t \in Tokens : StartTransfer(w, t)
    \/ \E t \in Tokens, u \in Active, answer \in {"yes", "no"} : Click(w, t, u, answer)
    \/ Persist(w) \/ MarkExpired(w) \/ Cancel(w) \/ FirstYes(w) \/ Reload(w)
    \/ EditMessage(w) \/ BeginExecution(w) \/ ExecuteExpired(w)
    \/ ExecuteConflict(w) \/ ExecuteLock(w) \/ StatementFails(w)

LEMMA QuietMoves ==
    ASSUME TypeOK, NEW w \in Workers, Quiet(w)
    PROVE  /\ UNCHANGED <<wallet, rowLock>>
           /\ OthersStay(w) /\ pc'[w] \notin {"lock_from", "credit", "commit"}
<1>1. ASSUME NEW t \in Tokens, StartTransfer(w, t)
      PROVE  /\ UNCHANGED <<wallet, rowLock>>
             /\ OthersStay(w) /\ pc'[w] \notin {"lock_from", "credit", "commit"}
  BY <1>1, TakeUpMoves DEF StartTransfer, db, locks
<1>2. ASSUME NEW t \in Tokens, NEW u \in Active, NEW answer \in {"yes", "no"},
             Click(w, t, u, answer)
      PROVE  /\ UNCHANGED <<wallet, rowLock>>
             /\ OthersStay(w) /\ pc'[w] \notin {"lock_from", "credit", "commit"}
  <2>1. AfterPrepare(t, u, answer) \notin {"lock_from", "credit", "commit"}
    BY DEF AfterPrepare
  <2>2. QED
    BY <1>2, <2>1, TakeUpMoves DEF Click, locks
<1>3. CASE Persist(w) \/ Reload(w) \/ BeginExecution(w) \/ ExecuteExpired(w)
           \/ ExecuteConflict(w) \/ ExecuteLock(w) \/ StatementFails(w)
  <2>1. PICK label \in PCs : Goto(w, label) /\ label \notin {"lock_from", "credit", "commit"}
    BY <1>3
    DEF Persist, Reload, BeginExecution, ExecuteExpired, ExecuteConflict,
        ExecuteLock, StatementFails, PCs, Statements, Editing, InTx
  <2>2. UNCHANGED <<wallet, rowLock>>
    BY <1>3
    DEF Persist, Reload, BeginExecution, ExecuteExpired, ExecuteConflict,
        ExecuteLock, StatementFails, db, locks
  <2>3. QED
    BY <2>1, <2>2, GotoMoves
<1>4. CASE MarkExpired(w) \/ Cancel(w) \/ FirstYes(w)
  <2>1. PICK label \in {"show_expired", "show_canceled", "show_second", "idle", "reload"} :
          Goto(w, label)
    BY <1>4, DialogueGoes
  <2>2. UNCHANGED <<wallet, rowLock>>
    BY <1>4 DEF MarkExpired, Cancel, FirstYes, Transition, db, locks
  <2>3. QED
    BY <2>1, <2>2, GotoMoves
<1>5. CASE EditMessage(w)
  BY <1>5, GotoMoves DEF EditMessage, db, locks
<1>6. QED
  BY <1>1, <1>2, <1>3, <1>4, <1>5 DEF Quiet

\* the steps that end a transaction without a payment
LEMMA RollBackMoves ==
    ASSUME TypeOK, NEW w \in Workers, RollBack(w) \/ CommitFailure(w)
    PROVE  /\ UNCHANGED wallet /\ Unlocking(w)
           /\ OthersStay(w) /\ pc'[w] \notin {"credit", "commit"}
<1>1. Goto(w, "show_failed") /\ ReleaseLocks(w) /\ UNCHANGED wallet
  BY DEF RollBack, CommitFailure, db
<1>2. Unlocking(w)
  BY <1>1 DEF ReleaseLocks, Unlocking, TypeOK
<1>3. QED
  BY <1>1, <1>2, GotoMoves

\* every step of a worker is one of these
LEMMA WorkerCases ==
    ASSUME NEW w \in Workers, Begin(w) \/ Step(w) \/ Failure(w)
    PROVE  \/ Quiet(w) \/ EnsureSender(w) \/ EnsureRecipient(w) \/ LockSender(w)
           \/ CreditRecipient(w)
           \/ CommitTransfer(w) \/ CommitFailure(w) \/ RollBack(w)
BY DEF Begin, Step, Failure, Execution, ForeignKeyRefuses, TransactionFails,
       DeadlockVictim, Quiet
-----------------------------------------------------------------------------
(* The books.  A transfer that passed the test of the balance holds the row  *)
(* lock under which it made it, so that the test still holds at the COMMIT.  *)

CoveredBy(w) ==
    pc[w] \in {"credit", "commit"} =>
        /\ rowLock[From[tok[w]]] = w
        /\ wallet[From[tok[w]]].balance >= Amount[tok[w]]

Covered == \A w \in Workers : CoveredBy(w)

BooksInv == BooksBalance /\ Covered

LEMMA OtherCovered ==
    ASSUME TypeOK, Covered, NEW w \in Workers, NEW v \in Workers \ {w},
           OthersStay(w), Unlocking(w),
           \A u \in Users : rowLock[u] = v => wallet'[u].balance = wallet[u].balance
    PROVE  CoveredBy(v)'
<1> SUFFICES ASSUME pc'[v] \in {"credit", "commit"}
             PROVE  /\ rowLock'[From[tok'[v]]] = v
                    /\ wallet'[From[tok'[v]]].balance >= Amount[tok'[v]]
  BY DEF CoveredBy
<1>1. pc[v] \in {"credit", "commit"} /\ tok'[v] = tok[v]
  BY DEF OthersStay
<1>2. From[tok[v]] \in Users
  BY <1>1, BusyHasToken
<1>3. rowLock[From[tok[v]]] = v /\ wallet[From[tok[v]]].balance >= Amount[tok[v]]
  BY <1>1 DEF Covered, CoveredBy
<1>4. QED
  BY <1>1, <1>2, <1>3 DEF Unlocking

LEMMA BooksInit == Init => BooksInv
BY DEF Init, BooksInv, BooksBalance, Covered, CoveredBy

LEMMA BooksWorker ==
    ASSUME TypeOK, BooksInv, NEW w \in Workers, Begin(w) \/ Step(w) \/ Failure(w)
    PROVE  BooksInv'
<1> USE DEF BooksInv
<1>1. ASSUME UNCHANGED wallet, Unlocking(w), OthersStay(w), CoveredBy(w)'
      PROVE  BooksInv'
  <2>1. BooksBalance'
    BY <1>1 DEF BooksBalance
  <2>2. ASSUME NEW v \in Workers \ {w} PROVE CoveredBy(v)'
    BY <1>1, <2>2, OtherCovered
  <2>3. QED
    BY <1>1, <2>1, <2>2 DEF Covered
<1>2. CASE Quiet(w)
  <2>1. Unlocking(w) /\ CoveredBy(w)'
    BY <1>2, QuietMoves DEF Unlocking, CoveredBy
  <2>2. QED
    BY <1>1, <1>2, <2>1, QuietMoves
<1>3. CASE RollBack(w) \/ CommitFailure(w)
  BY <1>1, <1>3, RollBackMoves DEF CoveredBy
<1>4. CASE EnsureSender(w) \/ EnsureRecipient(w)
  <2>1. PICK label \in {"ensure_to", "lock_from"}, u \in Users : EnsureRow(w, u, label)
    BY <1>4, Ensures
  <2>2. Goto(w, label) /\ UNCHANGED wallet
    BY <2>1 DEF EnsureRow, db
  <2>3. Unlocking(w)
    BY <2>1 DEF EnsureRow, Unlocking, TypeOK
  <2>4. QED
    BY <1>1, <2>2, <2>3, GotoMoves DEF CoveredBy
<1>5. CASE LockSender(w)
  <2>1. PICK label : Goto(w, label) /\ label # "idle"
                     /\ (label = "credit" => wallet[From[tok[w]]].balance >= Amount[tok[w]])
                     /\ label # "commit"
    <3>1. /\ wallet \in [Users -> Money] /\ From[tok[w]] \in Users
          /\ Amount[tok[w]] \in Nat
      BY <1>5, BusyHasToken DEF LockSender, At, TypeOK
    <3>2. wallet[From[tok[w]]].balance \in Int
      BY <3>1 DEF Money
    <3>3. QED
      BY <1>5, <3>1, <3>2 DEF LockSender
  <2>2. UNCHANGED wallet /\ rowLock'[From[tok[w]]] = w /\ Unlocking(w)
    <3>1. From[tok[w]] \in Users
      BY <1>5, BusyHasToken DEF LockSender, At
    <3>2. QED
      BY <1>5, <3>1 DEF LockSender, db, Unlocking, TypeOK
  <2>3. OthersStay(w) /\ pc'[w] = label /\ tok'[w] = tok[w]
    BY <2>1, GotoMoves
  <2>4. CoveredBy(w)'
    BY <2>1, <2>2, <2>3 DEF CoveredBy
  <2>5. QED
    BY <1>1, <2>2, <2>3, <2>4
<1>6. CASE CreditRecipient(w)
  <2>1. /\ pc[w] = "credit" /\ Goto(w, "commit") /\ UNCHANGED wallet
        /\ \/ rowLock[To[tok[w]]] \in {None, w}
              /\ rowLock' = [rowLock EXCEPT ![To[tok[w]]] = w]
           \/ UNCHANGED rowLock
    BY <1>6 DEF CreditRecipient, At, db
  <2>2. OthersStay(w) /\ tok'[w] = tok[w]
    BY <2>1, GotoMoves
  <2>3. From[tok[w]] \in Users /\ To[tok[w]] \in Users
    BY <2>1, BusyHasToken
  <2>4. Unlocking(w) /\ rowLock'[From[tok[w]]] = w
    BY <2>1, <2>3 DEF Covered, CoveredBy, Unlocking, TypeOK
  <2>5. CoveredBy(w)'
    BY <2>1, <2>2, <2>4 DEF Covered, CoveredBy
  <2>6. QED
    BY <1>1, <2>1, <2>2, <2>4, <2>5
<1>7. CASE CommitTransfer(w)
  <2> DEFINE f == From[tok[w]]
             r == To[tok[w]]
             n == Amount[tok[w]]
  <2>1. f \in Users /\ r \in Users /\ f # r /\ n \in Nat
    BY <1>7, BusyHasToken DEF CommitTransfer, At
  <2>2. rowLock[f] = w /\ wallet[f].balance >= n
    BY <1>7 DEF CommitTransfer, At, Covered, CoveredBy
  <2>3. PICK label : Goto(w, label) /\ label \in {"show_done", "show_failed"}
    BY <1>7 DEF CommitTransfer
  <2>4. OthersStay(w) /\ CoveredBy(w)'
    BY <2>3, GotoMoves DEF CoveredBy
  <2>5. Unlocking(w)
    BY <1>7 DEF CommitTransfer, ReleaseLocks, Unlocking, TypeOK
  <2>6. wallet \in [Users -> Money]
    BY DEF TypeOK
  <2>7. /\ \A u \in Users \ {f, r} : wallet'[u] = wallet[u]
        /\ wallet'[f].balance = wallet[f].balance - n
        /\ wallet'[f].earned = wallet[f].earned
        /\ wallet'[f].spent = wallet[f].spent + n
        /\ \/ wallet'[r] = wallet[r]
           \/ /\ rowLock[r] = w
              /\ wallet'[r].balance = wallet[r].balance + n
              /\ wallet'[r].earned = wallet[r].earned + n
              /\ wallet'[r].spent = wallet[r].spent
    BY <1>7, <2>1, <2>6 DEF CommitTransfer, Debited, Credited
  <2>8. BooksBalance'
    <3>1. SUFFICES ASSUME NEW u \in Users
                   PROVE  /\ wallet'[u].balance = wallet'[u].earned - wallet'[u].spent
                          /\ wallet'[u].balance >= 0
      BY DEF BooksBalance
    <3>2. wallet[u] \in Money /\ wallet[u].balance = wallet[u].earned - wallet[u].spent
          /\ wallet[u].balance >= 0
      BY <2>6 DEF BooksBalance
    <3>3. /\ wallet[u].balance \in Int /\ wallet[u].earned \in Int /\ wallet[u].spent \in Int
          /\ n \in Int /\ n >= 0
      BY <2>1, <3>2 DEF Money
    <3> HIDE DEF f, r, n
    <3>4. CASE u = f
      <4>1. /\ wallet'[u].balance = wallet[u].balance - n
            /\ wallet'[u].earned = wallet[u].earned
            /\ wallet'[u].spent = wallet[u].spent + n
            /\ wallet[u].balance >= n
        BY <2>2, <2>7, <3>4
      <4>2. QED
        BY <3>2, <3>3, <4>1
    <3>5. CASE u = r /\ wallet'[r] # wallet[r]
      <4>1. /\ wallet'[u].balance = wallet[u].balance + n
            /\ wallet'[u].earned = wallet[u].earned + n
            /\ wallet'[u].spent = wallet[u].spent
        BY <2>7, <3>5
      <4>2. QED
        BY <3>2, <3>3, <4>1
    <3>6. CASE u # f /\ (u = r => wallet'[r] = wallet[r])
      <4>1. wallet'[u] = wallet[u]
        BY <2>7, <3>6
      <4>2. QED
        BY <3>2, <4>1
    <3>7. QED
      BY <3>4, <3>5, <3>6
  <2>9. ASSUME NEW v \in Workers \ {w} PROVE CoveredBy(v)'
    <3>1. \A u \in Users : rowLock[u] = v => wallet'[u].balance = wallet[u].balance
      BY <2>1, <2>2, <2>7, <2>9
    <3>2. QED
      BY <2>4, <2>5, <3>1, OtherCovered
  <2>10. QED
    BY <2>4, <2>8, <2>9 DEF Covered
<1>8. QED
  BY <1>2, <1>3, <1>4, <1>5, <1>6, <1>7, WorkerCases

\* the other features and the purge never touch a locked wallet
LEMMA BooksWorld == ASSUME TypeOK, BooksInv, World PROVE BooksInv'
<1> USE DEF BooksInv
<1>1. wallet \in [Users -> Money]
  BY DEF TypeOK
<1>2. ASSUME NEW u \in Users, rowLock[u] = None, UNCHANGED <<rowLock, pc, tok>>,
             \A x \in Users \ {u} : wallet'[x] = wallet[x],
             /\ wallet'[u].balance = wallet'[u].earned - wallet'[u].spent
             /\ wallet'[u].balance >= 0
      PROVE  BooksInv'
  <2>1. BooksBalance'
    BY <1>2 DEF BooksBalance
  <2>2. ASSUME NEW w \in Workers PROVE CoveredBy(w)'
    <3>1. SUFFICES ASSUME pc[w] \in {"credit", "commit"}
                   PROVE  /\ rowLock[From[tok[w]]] = w
                          /\ wallet'[From[tok[w]]].balance >= Amount[tok[w]]
      BY <1>2 DEF CoveredBy
    <3>2. From[tok[w]] \in Users /\ rowLock[From[tok[w]]] = w
          /\ wallet[From[tok[w]]].balance >= Amount[tok[w]]
      BY <3>1, BusyHasToken DEF Covered, CoveredBy
    <3>3. From[tok[w]] # u
      BY <1>2, <3>2
    <3>4. QED
      BY <1>2, <3>2, <3>3
  <2>3. QED
    BY <2>1, <2>2 DEF Covered
<1>3. ASSUME NEW u \in Users, NEW n \in Sums, Award(u, n) \/ Charge(u, n)
      PROVE  BooksInv'
  <2>1. n \in Nat /\ wallet[u] \in Money /\ wallet[u].balance >= 0
        /\ wallet[u].balance = wallet[u].earned - wallet[u].spent
    BY <1>1 DEF BooksBalance
  <2>2. \A x \in Users \ {u} : wallet'[x] = wallet[x]
    BY <1>1, <1>3 DEF Award, Charge, Credited, Debited
  <2>3. /\ wallet'[u].balance = wallet'[u].earned - wallet'[u].spent
        /\ wallet'[u].balance >= 0
    <3>1. CASE Award(u, n)
      BY <1>1, <2>1, <3>1 DEF Award, Credited, Money
    <3>2. CASE Charge(u, n)
      BY <1>1, <2>1, <3>2 DEF Charge, Debited, Money
    <3>3. QED
      BY <1>3, <3>1, <3>2
  <2>4. QED
    BY <1>2, <1>3, <2>2, <2>3 DEF Award, Charge, locks
<1>4. ASSUME NEW u \in Users, Purge(u) PROVE BooksInv'
  <2>1. /\ \A x \in Users \ {u} : wallet'[x] = wallet[x]
        /\ wallet'[u] = Empty
    BY <1>1, <1>4 DEF Purge
  <2>2. QED
    BY <1>2, <1>4, <2>1 DEF Purge, Empty, locks
<1>5. ASSUME UNCHANGED <<wallet, rowLock, pc, tok>> PROVE BooksInv'
  BY <1>5 DEF BooksBalance, Covered, CoveredBy
<1>6. ASSUME NEW t \in Tokens, TimePasses(t) PROVE BooksInv'
  BY <1>5, <1>6 DEF TimePasses, db, locks
<1>7. ASSUME NEW u \in Users, Seen(u) \/ CreateBalance(u) PROVE BooksInv'
  BY <1>5, <1>7 DEF Seen, CreateBalance, locks
<1>8. QED
  BY <1>3, <1>4, <1>6, <1>7 DEF World

LEMMA BooksNext == TypeOK /\ BooksInv /\ [Next]_vars => BooksInv'
<1> SUFFICES ASSUME TypeOK, BooksInv, [Next]_vars PROVE BooksInv'
  OBVIOUS
<1>1. CASE Crash
  BY <1>1 DEF Crash, BooksInv, BooksBalance, Covered, CoveredBy, db
<1>2. CASE UNCHANGED vars
  BY <1>2 DEF vars, db, locks, BooksInv, BooksBalance, Covered, CoveredBy
<1>3. QED
  BY <1>1, <1>2, BooksWorker, BooksWorld DEF Next

\* Every wallet is covered by its books, and none is ever overdrawn.
THEOREM BooksCorrect == Spec => []BooksBalance
<1>1. Init => TypeOK /\ BooksInv
  BY TypeInit, BooksInit
<1>2. TypeOK /\ BooksInv /\ [Next]_vars => (TypeOK /\ BooksInv)'
  BY TypeNext, BooksNext
<1>3. BooksInv => BooksBalance
  BY DEF BooksInv
<1>4. QED
  BY <1>1, <1>2, <1>3, PTL DEF Spec
-----------------------------------------------------------------------------
(* Locks.  A lock is held by a worker inside the transaction, and a row that *)
(* a transaction has inserted is not in the table for anybody else: before   *)
(* its balance row is locked a sender holds only what it inserted.           *)

HoldsRows(w) ==
    \A u \in Users : rowLock[u] = w =>
        /\ pc[w] \in {"ensure_to", "lock_from", "credit", "commit", "fail"}
        /\ pc[w] \in {"ensure_to", "lock_from"} => u \notin rows
        /\ pc[w] = "ensure_to" => u = From[tok[w]]
        /\ pc[w] = "credit" => u = From[tok[w]] \/ u \notin rows

HoldsRequest(w) == \A t \in Tokens : confLock[t] = w => pc[w] \in InTx

\* the sender's row is there, or w inserted it
Prepared(w) ==
    pc[w] \in {"ensure_to", "lock_from"} =>
        From[tok[w]] \in rows \/ rowLock[From[tok[w]]] = w

LocksOK(w) == HoldsRows(w) /\ HoldsRequest(w) /\ Prepared(w)

LockInv == \A w \in Workers : LocksOK(w)

LEMMA LockInit == Init => LockInv
BY DEF Init, LockInv, LocksOK, HoldsRows, HoldsRequest, Prepared

\* what a step of w leaves of the locks and the rows of the others
Gentle(w) ==
    /\ \A u \in Users : \A v \in Workers \ {w} : rowLock'[u] = v <=> rowLock[u] = v
    /\ \A t \in Tokens : \A v \in Workers \ {w} : confLock'[t] = v => confLock[t] = v
    /\ rows \subseteq rows' /\ rows' \subseteq rows \cup Held(w)

LEMMA OthersLocks ==
    ASSUME TypeOK, LockInv, NEW w \in Workers, OthersStay(w), Gentle(w),
           NEW v \in Workers \ {w}
    PROVE  LocksOK(v)'
<1>1. pc'[v] = pc[v] /\ tok'[v] = tok[v] /\ LocksOK(v)
  BY DEF OthersStay, LockInv
<1>2. HoldsRows(v)'
  <2> SUFFICES ASSUME NEW u \in Users, rowLock'[u] = v
               PROVE  /\ pc[v] \in {"ensure_to", "lock_from", "credit", "commit", "fail"}
                      /\ pc[v] \in {"ensure_to", "lock_from"} => u \notin rows'
                      /\ pc[v] = "ensure_to" => u = From[tok[v]]
                      /\ pc[v] = "credit" => u = From[tok[v]] \/ u \notin rows'
    BY <1>1 DEF HoldsRows
  <2>1. rowLock[u] = v
    BY DEF Gentle
  <2>2. u \notin rows => u \notin rows'
    BY <2>1 DEF Gentle, Held
  <2>3. QED
    BY <1>1, <2>1, <2>2 DEF LocksOK, HoldsRows
<1>3. HoldsRequest(v)'
  BY <1>1 DEF LocksOK, HoldsRequest, Gentle
<1>4. Prepared(v)'
  <2> SUFFICES ASSUME pc[v] \in {"ensure_to", "lock_from"}
               PROVE  From[tok[v]] \in rows' \/ rowLock'[From[tok[v]]] = v
    BY <1>1 DEF Prepared
  <2>1. From[tok[v]] \in Users
    BY BusyHasToken
  <2>2. From[tok[v]] \in rows \/ rowLock[From[tok[v]]] = v
    BY <1>1 DEF LocksOK, Prepared
  <2>3. QED
    BY <2>1, <2>2 DEF Gentle
<1>5. QED
  BY <1>2, <1>3, <1>4 DEF LocksOK

\* a worker outside the transaction holds nothing
LEMMA OutsideHoldsNothing ==
    ASSUME LockInv, NEW w \in Workers, pc[w] \notin InTx
    PROVE  /\ \A u \in Users : rowLock[u] # w
           /\ \A t \in Tokens : confLock[t] # w
<1>1. LocksOK(w)
  BY DEF LockInv
<1>2. QED
  BY <1>1 DEF LocksOK, HoldsRows, HoldsRequest, InTx

LEMMA QuietLocks ==
    ASSUME TypeOK, NEW w \in Workers, Quiet(w)
    PROVE  /\ pc[w] \notin InTx /\ pc'[w] \notin InTx \ {"ensure_from"} /\ UNCHANGED rows
           /\ \/ UNCHANGED confLock
              \/ pc'[w] = "ensure_from" /\ \E t \in Tokens : confLock' = [confLock EXCEPT ![t] = w]
<1> USE DEF InTx, At
<1>1. ASSUME NEW t \in Tokens, StartTransfer(w, t)
      PROVE  /\ pc[w] = "idle" /\ pc'[w] = "persist" /\ UNCHANGED <<rows, confLock>>
  BY <1>1, TakeUpMoves DEF StartTransfer, db, locks
<1>2. ASSUME NEW t \in Tokens, NEW u \in Active, NEW answer \in {"yes", "no"},
             Click(w, t, u, answer)
      PROVE  /\ pc[w] = "idle" /\ pc'[w] = AfterPrepare(t, u, answer)
             /\ AfterPrepare(t, u, answer) \notin InTx
             /\ UNCHANGED <<rows, confLock>>
  <2>1. AfterPrepare(t, u, answer) \notin InTx
    BY DEF AfterPrepare
  <2>2. pc'[w] = AfterPrepare(t, u, answer)
    BY <1>2, TakeUpMoves DEF Click
  <2>3. QED
    BY <1>2, <2>1, <2>2 DEF Click, locks
<1>3. CASE Persist(w) \/ Reload(w) \/ BeginExecution(w) \/ ExecuteExpired(w)
           \/ ExecuteConflict(w) \/ StatementFails(w)
  <2>1. PICK label : Goto(w, label) /\ label \notin InTx /\ pc[w] \notin InTx
    BY <1>3
    DEF Persist, Reload, BeginExecution, ExecuteExpired, ExecuteConflict, StatementFails
  <2>2. UNCHANGED <<rows, confLock>>
    BY <1>3
    DEF Persist, Reload, BeginExecution, ExecuteExpired, ExecuteConflict, StatementFails,
        db, locks
  <2>3. QED
    BY <2>1, <2>2, GotoMoves
<1>4. CASE MarkExpired(w) \/ Cancel(w) \/ FirstYes(w)
  <2>1. PICK label \in {"show_expired", "show_canceled", "show_second", "idle", "reload"} :
          Goto(w, label) /\ pc[w] \notin InTx
    BY <1>4, DialogueGoes
  <2>2. UNCHANGED <<rows, confLock>>
    BY <1>4 DEF MarkExpired, Cancel, FirstYes, Transition, db, locks
  <2>3. QED
    BY <2>1, <2>2, GotoMoves
<1>5. CASE EditMessage(w)
  <2>1. Goto(w, "idle") /\ pc[w] \notin InTx /\ UNCHANGED <<rows, confLock>>
    BY <1>5 DEF EditMessage, Editing, db, locks
  <2>2. QED
    BY <2>1, GotoMoves
<1>6. CASE ExecuteLock(w)
  <2>1. /\ pc[w] = "lock_conf" /\ Goto(w, "ensure_from") /\ UNCHANGED rows
        /\ confLock' = [confLock EXCEPT ![tok[w]] = w]
    BY <1>6 DEF ExecuteLock, db
  <2>2. tok[w] \in Tokens
    BY <2>1, BusyHasToken
  <2>3. QED
    BY <2>1, <2>2, GotoMoves
<1>7. QED
  BY <1>1, <1>2, <1>3, <1>4, <1>5, <1>6 DEF Quiet

\* a step of w keeps the invariant if it leaves the others alone
LEMMA LockStep ==
    ASSUME TypeOK, LockInv, NEW w \in Workers, OthersStay(w), Gentle(w), LocksOK(w)'
    PROVE  LockInv'
<1>1. ASSUME NEW v \in Workers \ {w} PROVE LocksOK(v)'
  BY OthersLocks
<1>2. QED
  BY <1>1 DEF LockInv

\* the end of a transaction
LEMMA LockRelease ==
    ASSUME TypeOK, LockInv, NEW w \in Workers, ReleaseLocks(w), OthersStay(w),
           pc'[w] \notin InTx, rows \subseteq rows', rows' \subseteq rows \cup Held(w)
    PROVE  LockInv'
<1>1. Gentle(w)
  BY DEF Gentle, ReleaseLocks, TypeOK
<1>2. /\ \A u \in Users : rowLock'[u] # w
      /\ \A t \in Tokens : confLock'[t] # w
  BY DEF ReleaseLocks, TypeOK
<1>3. LocksOK(w)'
  BY <1>2 DEF LocksOK, HoldsRows, HoldsRequest, Prepared, InTx
<1>4. QED
  BY <1>1, <1>3, LockStep

LEMMA LockQuiet ==
    ASSUME TypeOK, LockInv, NEW w \in Workers, Quiet(w)
    PROVE  LockInv'
<1>1. /\ OthersStay(w) /\ UNCHANGED rowLock
  BY QuietMoves
<1>2. /\ pc[w] \notin InTx /\ pc'[w] \notin InTx \ {"ensure_from"} /\ UNCHANGED rows
      /\ \/ UNCHANGED confLock
         \/ pc'[w] = "ensure_from" /\ \E t \in Tokens : confLock' = [confLock EXCEPT ![t] = w]
  BY QuietLocks
<1>3. /\ \A u \in Users : rowLock[u] # w
      /\ \A t \in Tokens : confLock[t] # w
  BY <1>2, OutsideHoldsNothing
<1>4. \A t \in Tokens : \A v \in Workers \ {w} : confLock'[t] = v => confLock[t] = v
  BY <1>2 DEF TypeOK
<1>5. Gentle(w)
  BY <1>1, <1>2, <1>4 DEF Gentle
<1>6. HoldsRequest(w)'
  BY <1>2, <1>3 DEF HoldsRequest, InTx
<1>7. HoldsRows(w)' /\ Prepared(w)'
  BY <1>1, <1>2, <1>3 DEF HoldsRows, Prepared, InTx
<1>8. QED
  BY <1>1, <1>5, <1>6, <1>7, LockStep DEF LocksOK

LEMMA LockEnsure ==
    ASSUME TypeOK, LockInv, NEW w \in Workers, EnsureSender(w) \/ EnsureRecipient(w)
    PROVE  LockInv'
<1>1. PICK label \in {"ensure_to", "lock_from"}, u \in Users :
         /\ EnsureRow(w, u, label)
         /\ \/ pc[w] = "ensure_from" /\ label = "ensure_to" /\ u = From[tok[w]]
            \/ pc[w] = "ensure_to" /\ label = "lock_from" /\ u = To[tok[w]]
  BY Ensures
<1>2. /\ u \notin rows => rowLock[u] \in {None, w}
      /\ rowLock' = IF u \in rows THEN rowLock ELSE [rowLock EXCEPT ![u] = w]
      /\ UNCHANGED <<rows, confLock>> /\ Goto(w, label)
  BY <1>1 DEF EnsureRow, db
<1>3. OthersStay(w) /\ pc'[w] = label /\ tok'[w] = tok[w]
  BY <1>1, <1>2, GotoMoves
<1>4. LocksOK(w)
  BY DEF LockInv
<1>5. Gentle(w)
  BY <1>2 DEF Gentle, TypeOK
<1>6. \A x \in Users : rowLock'[x] = w => (x = u /\ u \notin rows) \/ rowLock[x] = w
  BY <1>2 DEF TypeOK
<1>7. HoldsRequest(w)'
  BY <1>1, <1>2, <1>3, <1>4 DEF LocksOK, HoldsRequest, InTx
<1>8. HoldsRows(w)'
  <2> SUFFICES ASSUME NEW x \in Users, rowLock'[x] = w
               PROVE  x \notin rows /\ (label = "ensure_to" => x = From[tok[w]])
    BY <1>1, <1>2, <1>3 DEF HoldsRows
  <2>1. CASE rowLock[x] = w
    BY <1>1, <1>4, <2>1 DEF LocksOK, HoldsRows
  <2>2. CASE rowLock[x] # w
    BY <1>1, <1>6, <2>2
  <2>3. QED
    BY <2>1, <2>2
<1>9. Prepared(w)'
  <2>1. CASE label = "ensure_to"
    <3>1. u = From[tok[w]] /\ (u \in rows \/ rowLock'[u] = w)
      BY <1>1, <1>2, <2>1 DEF TypeOK
    <3>2. QED
      BY <1>2, <1>3, <3>1 DEF Prepared
  <2>2. CASE label = "lock_from"
    <3>1. From[tok[w]] \in rows \/ rowLock[From[tok[w]]] = w
      BY <1>1, <1>4, <2>2 DEF LocksOK, Prepared
    <3>2. From[tok[w]] \in Users
      BY <1>1, BusyHasToken
    <3>3. \A x \in Users : rowLock[x] = w => rowLock'[x] = w
      BY <1>2 DEF TypeOK
    <3>4. QED
      BY <1>2, <1>3, <3>1, <3>2, <3>3 DEF Prepared
  <2>3. QED
    BY <1>1, <2>1, <2>2
<1>10. QED
  BY <1>3, <1>5, <1>7, <1>8, <1>9, LockStep DEF LocksOK

LEMMA LockWorker ==
    ASSUME TypeOK, LockInv, NEW w \in Workers, Begin(w) \/ Step(w) \/ Failure(w)
    PROVE  LockInv'
<1>1. CASE RollBack(w)
  <2>1. Goto(w, "show_failed") /\ ReleaseLocks(w) /\ UNCHANGED rows
    BY <1>1 DEF RollBack, db
  <2>2. OthersStay(w) /\ pc'[w] \notin InTx
    BY <2>1, GotoMoves DEF InTx
  <2>3. QED
    BY <2>1, <2>2, LockRelease
<1>2. CASE CommitTransfer(w) \/ CommitFailure(w)
  <2>1. PICK label \in {"show_done", "show_failed"} : Goto(w, label)
    BY <1>2 DEF CommitTransfer, CommitFailure
  <2>2. ReleaseLocks(w) /\ rows' = rows \cup Held(w)
    BY <1>2 DEF CommitTransfer, CommitFailure
  <2>3. OthersStay(w) /\ pc'[w] \notin InTx
    BY <2>1, GotoMoves DEF InTx
  <2>4. QED
    BY <2>2, <2>3, LockRelease
<1>3. CASE LockSender(w)
  <2>1. PICK label \in {"fail", "credit"} : Goto(w, label)
    BY <1>3 DEF LockSender
  <2>2. /\ pc[w] = "lock_from" /\ rowLock[From[tok[w]]] \in {None, w}
        /\ rowLock' = [rowLock EXCEPT ![From[tok[w]]] = w]
        /\ UNCHANGED <<rows, confLock>>
    BY <1>3 DEF LockSender, At, db
  <2>3. OthersStay(w) /\ pc'[w] = label /\ tok'[w] = tok[w]
    BY <2>1, GotoMoves
  <2>4. LocksOK(w)
    BY DEF LockInv
  <2>5. Gentle(w)
    BY <2>2 DEF Gentle, TypeOK
  <2>6. \A x \in Users : rowLock'[x] = w => x = From[tok[w]] \/ x \notin rows
    BY <2>2, <2>4 DEF TypeOK, LocksOK, HoldsRows
  <2>7. LocksOK(w)'
    BY <2>1, <2>2, <2>3, <2>4, <2>6 DEF LocksOK, HoldsRows, HoldsRequest, Prepared, InTx
  <2>8. QED
    BY <2>3, <2>5, <2>7, LockStep
<1>4. CASE CreditRecipient(w)
  <2>1. Goto(w, "commit") /\ pc[w] = "credit" /\ UNCHANGED <<rows, confLock>>
    BY <1>4 DEF CreditRecipient, At, db
  <2>2. OthersStay(w) /\ pc'[w] = "commit" /\ tok'[w] = tok[w]
    BY <2>1, GotoMoves
  <2>3. LocksOK(w)
    BY DEF LockInv
  <2>4. \/ UNCHANGED rowLock
        \/ /\ rowLock[To[tok[w]]] \in {None, w}
           /\ rowLock' = [rowLock EXCEPT ![To[tok[w]]] = w]
    BY <1>4 DEF CreditRecipient
  <2>5. Gentle(w)
    BY <2>1, <2>4 DEF Gentle, TypeOK
  <2>6. LocksOK(w)'
    BY <2>1, <2>2, <2>3 DEF LocksOK, HoldsRows, HoldsRequest, Prepared, InTx
  <2>7. QED
    BY <2>2, <2>5, <2>6, LockStep
<1>5. QED
  BY <1>1, <1>2, <1>3, <1>4, LockQuiet, LockEnsure, WorkerCases

LEMMA LockWorld == ASSUME TypeOK, LockInv, World PROVE LockInv'
<1>1. UNCHANGED <<locks, pc, tok>>
  BY DEF World, TimePasses, Award, Charge, Seen, CreateBalance, Purge
<1>2. \A u \in Users : rowLock[u] # None => (u \in rows' <=> u \in rows)
  BY DEF World, TimePasses, Award, Charge, Seen, CreateBalance, Purge, db
<1>3. ASSUME NEW w \in Workers, pc[w] # "idle" PROVE From[tok[w]] \in rows => From[tok[w]] \in rows'
  BY <1>3 DEF World, TimePasses, Award, Charge, Seen, CreateBalance, Purge, db
<1>4. ASSUME NEW w \in Workers PROVE LocksOK(w)'
  <2>1. LocksOK(w)
    BY DEF LockInv
  <2>2. HoldsRows(w)'
    BY <1>1, <1>2, <2>1 DEF LocksOK, HoldsRows, locks
  <2>3. HoldsRequest(w)'
    BY <1>1, <2>1 DEF LocksOK, HoldsRequest, locks
  <2>4. Prepared(w)'
    BY <1>1, <1>3, <2>1 DEF LocksOK, Prepared, locks
  <2>5. QED
    BY <2>2, <2>3, <2>4 DEF LocksOK
<1>5. QED
  BY <1>4 DEF LockInv

LEMMA LockNext == TypeOK /\ LockInv /\ [Next]_vars => LockInv'
<1> SUFFICES ASSUME TypeOK, LockInv, [Next]_vars PROVE LockInv'
  OBVIOUS
<1>1. ASSUME NEW w \in Workers, Begin(w) \/ Step(w) \/ Failure(w) PROVE LockInv'
  BY <1>1, LockWorker
<1>2. CASE Crash
  BY <1>2 DEF Crash, LockInv, LocksOK, HoldsRows, HoldsRequest, Prepared
<1>3. CASE World
  BY <1>3, LockWorld
<1>4. CASE UNCHANGED vars
  <2>1. UNCHANGED <<conf, consumed, rows, locks, pc, tok>>
    BY <1>4 DEF vars, db
  <2>2. ASSUME NEW w \in Workers PROVE LocksOK(w)'
    <3>1. LocksOK(w)
      BY DEF LockInv
    <3>2. HoldsRows(w)'
      BY <2>1, <3>1 DEF LocksOK, HoldsRows, locks
    <3>3. HoldsRequest(w)'
      BY <2>1, <3>1 DEF LocksOK, HoldsRequest, locks
    <3>4. Prepared(w)'
      BY <2>1, <3>1 DEF LocksOK, Prepared, locks
    <3>5. QED
      BY <3>2, <3>3, <3>4 DEF LocksOK
  <2>3. QED
    BY <2>2 DEF LockInv
<1>5. QED
  BY <1>1, <1>2, <1>3, <1>4 DEF Next

LEMMA LocksHeld == Spec => [](TypeOK /\ LockInv)
<1>1. Init => TypeOK /\ LockInv
  BY TypeInit, LockInit
<1>2. TypeOK /\ LockInv /\ [Next]_vars => (TypeOK /\ LockInv)'
  BY TypeNext, LockNext
<1>3. QED
  BY <1>1, <1>2, PTL DEF Spec

-----------------------------------------------------------------------------
(* Deadlocks.  Each transaction on a ring holds what another one on it waits *)
(* for.  One that waits for a confirmation holds nothing, one that waits for *)
(* a row that exists waits for a transaction that waits to credit; so those  *)
(* that wait to insert a row only have one another to wait for.              *)

\* what a transaction waits for
AwaitsRow(y, u) ==
    \/ pc[y] = "ensure_from" /\ u = From[tok[y]] /\ u \notin rows
    \/ pc[y] = "ensure_to" /\ u = To[tok[y]] /\ u \notin rows
    \/ pc[y] = "lock_from" /\ u = From[tok[y]]
    \/ pc[y] = "credit" /\ u = To[tok[y]] /\ u \in rows

LEMMA BlockerHolds ==
    ASSUME TypeOK, NEW y \in Workers, Blocker(y) \in Workers
    PROVE  \/ pc[y] \in {"lock_conf", "lock_late"} /\ \E t \in Tokens : confLock[t] = Blocker(y)
           \/ \E u \in Users : AwaitsRow(y, u) /\ rowLock[u] = Blocker(y) /\ rowLock[u] # y
<1>1. Blocker(y) # None
  OBVIOUS
<1>2. pc[y] # "idle"
  BY <1>1 DEF Blocker
<1>3. tok[y] \in Tokens /\ From[tok[y]] \in Users /\ To[tok[y]] \in Users
  BY <1>2, BusyHasToken
<1>4. CASE pc[y] \in {"lock_conf", "lock_late"}
  BY <1>3, <1>4 DEF Blocker
<1>5. CASE pc[y] = "ensure_from"
  BY <1>1, <1>3, <1>5 DEF Blocker, AwaitsRow
<1>6. CASE pc[y] = "ensure_to"
  BY <1>1, <1>3, <1>6 DEF Blocker, AwaitsRow
<1>7. CASE pc[y] = "lock_from"
  BY <1>1, <1>3, <1>7 DEF Blocker, AwaitsRow
<1>8. CASE pc[y] = "credit"
  BY <1>1, <1>3, <1>8 DEF Blocker, AwaitsRow
<1>9. QED
  BY <1>1, <1>4, <1>5, <1>6, <1>7, <1>8 DEF Blocker

\* the holder of a lock is inside the transaction
LEMMA BlockerInTx ==
    ASSUME TypeOK, LockInv, NEW y \in Workers, Blocker(y) \in Workers
    PROVE  pc[Blocker(y)] \in InTx
<1>1. LocksOK(Blocker(y))
  BY DEF LockInv
<1>2. (\E t \in Tokens : confLock[t] = Blocker(y)) \/ \E u \in Users : rowLock[u] = Blocker(y)
  BY BlockerHolds
<1>3. QED
  BY <1>1, <1>2 DEF LocksOK, HoldsRequest, HoldsRows, InTx

LEMMA RingMembers ==
    ASSUME TypeOK, LockInv, NEW S \in SUBSET Workers, Ring(S), NEW x \in S
    PROVE  /\ Blocker(x) \in S /\ pc[x] \in {"ensure_to", "lock_from", "credit"}
           /\ \E u \in Users : AwaitsRow(x, u) /\ rowLock[u] = Blocker(x)
           /\ \E y \in S : Blocker(y) = x
<1>1. ASSUME NEW z \in S
      PROVE  /\ Blocker(z) \in S /\ pc[z] \in InTx /\ (\E y \in S : Blocker(y) = z)
             /\ \E u \in Users : AwaitsRow(z, u) /\ rowLock[u] = Blocker(z)
  <2>1. Blocker(z) \in S /\ \E y \in S : Blocker(y) = z
    BY DEF Ring
  <2>2. pc[z] \in InTx
    BY <2>1, BlockerInTx
  <2>3. QED
    BY <2>1, <2>2, BlockerHolds DEF InTx
<1>2. PICK y \in S : Blocker(y) = x
  BY <1>1
<1>3. PICK u \in Users : rowLock[u] = x
  BY <1>1, <1>2
<1>4. pc[x] \in {"ensure_to", "lock_from", "credit", "commit", "fail"}
  BY <1>3 DEF LockInv, LocksOK, HoldsRows
<1>5. pc[x] \notin {"commit", "fail"}
  BY <1>1 DEF AwaitsRow
<1>6. QED
  BY <1>1, <1>4, <1>5

\* who waits for a row that exists waits for a sender about to credit
LEMMA RingFollows ==
    ASSUME TypeOK, LockInv, NEW S \in SUBSET Workers, Ring(S), NEW x \in S
    PROVE  /\ pc[x] \in {"lock_from", "credit"} => pc[Blocker(x)] = "credit"
           /\ pc[x] = "credit" => To[tok[x]] = From[tok[Blocker(x)]]
           /\ pc[x] = "ensure_to" /\ pc[Blocker(x)] = "ensure_to"
                 => To[tok[x]] = From[tok[Blocker(x)]]
<1> DEFINE b == Blocker(x)
<1>1. /\ b \in S /\ pc[b] \in {"ensure_to", "lock_from", "credit"}
      /\ \E u \in Users : AwaitsRow(x, u) /\ rowLock[u] = b /\ rowLock[u] # x
  <2>1. b \in S /\ pc[x] \in {"ensure_to", "lock_from", "credit"}
    BY RingMembers
  <2>2. pc[b] \in {"ensure_to", "lock_from", "credit"}
    BY <2>1, RingMembers
  <2>3. QED
    BY <2>1, <2>2, BlockerHolds
<1>2. PICK u \in Users : AwaitsRow(x, u) /\ rowLock[u] = b /\ rowLock[u] # x
  BY <1>1
<1>3. HoldsRows(b) /\ LocksOK(x)
  BY <1>1 DEF LockInv, LocksOK
<1> HIDE DEF b
<1>4. /\ pc[b] \in {"ensure_to", "lock_from"} => u \notin rows
      /\ pc[b] = "ensure_to" => u = From[tok[b]]
      /\ pc[b] = "credit" => u = From[tok[b]] \/ u \notin rows
  BY <1>2, <1>3 DEF HoldsRows
<1>5. CASE pc[x] = "lock_from"
  <2>1. u = From[tok[x]] /\ (u \in rows \/ rowLock[u] = x)
    BY <1>2, <1>3, <1>5 DEF AwaitsRow, LocksOK, Prepared
  <2>2. QED
    BY <1>1, <1>2, <1>4, <1>5, <2>1 DEF b
<1>6. CASE pc[x] = "credit"
  <2>1. u = To[tok[x]] /\ u \in rows
    BY <1>2, <1>6 DEF AwaitsRow
  <2>2. QED
    BY <1>1, <1>4, <1>6, <2>1 DEF b
<1>7. CASE pc[x] = "ensure_to"
  <2>1. u = To[tok[x]]
    BY <1>2, <1>7 DEF AwaitsRow
  <2>2. QED
    BY <1>4, <1>7, <2>1 DEF b
<1>8. QED
  BY <1>5, <1>6, <1>7, RingMembers

\* A finite set whose image covers a set around it is its own image.
LEMMA ImageCovers ==
    ASSUME NEW E, IsFiniteSet(E), NEW N, E \subseteq N, NEW W, NEW f \in [E -> W],
           \A n \in N : \E x \in E : f[x] = n
    PROVE  N = E /\ \A x \in E : f[x] \in E
<1> DEFINE T == {f[x] : x \in E}
<1>1. f \in Surjection(E, T)
  BY DEF Surjection
<1>2. IsFiniteSet(T) /\ Cardinality(T) <= Cardinality(E)
  BY <1>1, FS_Surjection
<1> HIDE DEF T
<1>3. E \in SUBSET T /\ N \in SUBSET T
  BY DEF T
<1>4. /\ Cardinality(E) <= Cardinality(T)
      /\ Cardinality(T) = Cardinality(E) => T = E
  BY <1>2, <1>3, FS_Subset
<1>5. Cardinality(E) \in Nat /\ Cardinality(T) \in Nat
  BY <1>2, FS_CardinalityType
<1>6. T = E
  <2>1. Cardinality(T) = Cardinality(E)
    BY <1>2, <1>4, <1>5
  <2>2. QED
    BY <1>4, <2>1
<1>7. QED
  BY <1>3, <1>6 DEF T

LEMMA RingsCross == TypeOK /\ LockInv => DeadlocksCross
<1> SUFFICES ASSUME TypeOK, LockInv, NEW S \in SUBSET Workers, Ring(S), NEW v \in S
             PROVE  /\ pc[v] \in {"ensure_to", "credit"}
                    /\ To[tok[v]] = From[tok[Blocker(v)]]
  BY DEF DeadlocksCross
<1> DEFINE E == {x \in S : pc[x] = "ensure_to"}
           N == {x \in S : pc[x] # "credit"}
           f == [x \in E |-> Blocker(x)]
<1>1. IsFiniteSet(E)
  BY FS_Subset
<1>2. ASSUME NEW x \in N PROVE \E y \in E : f[y] = x
  <2>1. PICK y \in S : Blocker(y) = x
    BY RingMembers
  <2>2. pc[y] \in {"ensure_to", "lock_from", "credit"}
    BY RingMembers
  <2>3. pc[y] = "ensure_to"
    BY <2>1, <2>2, RingFollows
  <2>4. QED
    BY <2>1, <2>3
<1>3. N = E /\ \A x \in E : f[x] \in E
  <2>1. f \in [E -> S] /\ E \subseteq N
    BY RingMembers
  <2> HIDE DEF E, N, f
  <2>2. QED
    BY <1>1, <1>2, <2>1, ImageCovers
<1>4. CASE pc[v] = "credit"
  BY <1>4, RingFollows
<1>5. CASE pc[v] # "credit"
  <2>1. v \in E
    BY <1>3, <1>5
  <2>2. f[v] \in E /\ f[v] = Blocker(v)
    <3>1. f[v] = Blocker(v)
      BY <2>1
    <3>2. QED
      BY <1>3, <2>1, <3>1
  <2>3. pc[v] = "ensure_to" /\ pc[Blocker(v)] = "ensure_to"
    BY <2>1, <2>2
  <2>4. QED
    BY <2>3, RingFollows
<1>6. QED
  BY <1>4, <1>5

\* However many transfers are in flight, they deadlock only in a ring of senders
\* each of whom pays the next (transferTx locks the sender first).
THEOREM DeadlocksCrossCorrect == Spec => []DeadlocksCross
<1>1. TypeOK /\ LockInv => DeadlocksCross
  BY RingsCross
<1>2. QED
  BY <1>1, LocksHeld, PTL
-----------------------------------------------------------------------------
(* Waiting.  Whoever is waited for is inside the transaction; from a handler *)
(* that waits, the holders lead on within the set, so either one of them can *)
(* go on or, the set being finite, some of them stand on a ring.             *)

LEMMA WaitsForHolder ==
    ASSUME TypeOK, LockInv, NEW v \in Workers, WaitsFor(v) \in Workers
    PROVE  pc[WaitsFor(v)] \in InTx
<1>1. CASE pc[v] \in {"mark_expired", "cancel", "first"}
  <2>1. tok[v] \in Tokens
    BY <1>1, BusyHasToken
  <2>2. confLock[tok[v]] = WaitsFor(v)
    BY <1>1 DEF WaitsFor
  <2>3. HoldsRequest(WaitsFor(v))
    BY DEF LockInv, LocksOK
  <2>4. QED
    BY <2>1, <2>2, <2>3 DEF HoldsRequest
<1>2. CASE pc[v] \notin {"mark_expired", "cancel", "first"}
  <2>1. WaitsFor(v) = Blocker(v)
    BY <1>2 DEF WaitsFor
  <2>2. QED
    BY <2>1, BlockerInTx
<1>3. QED
  BY <1>1, <1>2

\* f, a function of B to itself, permutes some part of it
Cycles(f, B) ==
    \E T \in SUBSET B : /\ T # {}
                        /\ \A v \in T : f[v] \in T
                        /\ \A x \in T : \E v \in T : f[v] = x

Endless(f, B) == \A v \in B : f[v] \in B

\* Within a finite set one does not go on for ever without coming back.
LEMMA EndlessCycles ==
    ASSUME NEW B, IsFiniteSet(B), B # {}, NEW f, Endless(f, B)
    PROVE  Cycles(f, B)
<1> DEFINE Closed == {T \in SUBSET B : T # {} /\ \A v \in T : f[v] \in T}
<1>1. IsWellFoundedOn(StrictSubsetOrdering(B), SUBSET B)
  <2>1. IsWellFoundedOn(StrictSubsetOrdering(B), FiniteSubsetsOf(B))
    BY FS_StrictSubsetOrderingWellFounded
  <2>2. FiniteSubsetsOf(B) = SUBSET B
    BY FS_FiniteSubsetsOfFinite
  <2>3. QED
    BY <2>1, <2>2
<1>2. Closed \subseteq SUBSET B /\ B \in Closed
  BY DEF Endless
<1> HIDE DEF Closed
<1>3. PICK T \in Closed : \A U \in Closed : <<U, T>> \notin StrictSubsetOrdering(B)
  BY <1>1, <1>2, WFMin
<1>4. T \in SUBSET B /\ T # {} /\ \A v \in T : f[v] \in T
  BY <1>3 DEF Closed
<1> DEFINE U == {x \in T : \E v \in T : f[v] = x}
<1>5. U \in Closed
  BY <1>4 DEF Closed
<1>6. U = T
  <2>1. U \in SUBSET B /\ U \subseteq T
    BY <1>4
  <2> HIDE DEF U
  <2>2. U # T => <<U, T>> \in StrictSubsetOrdering(B)
    BY <1>4, <2>1 DEF StrictSubsetOrdering
  <2>3. QED
    BY <1>3, <1>5, <2>2
<1>7. QED
  BY <1>4, <1>6 DEF Cycles

LEMMA WaitersLead == TypeOK /\ LockInv => WaitersLeadOn
<1> SUFFICES ASSUME TypeOK, LockInv, NEW S \in SUBSET Workers,
                    \E w \in S : pc[w] # "idle",
                    \A v \in S : WaitsFor(v) \in S \cup {None},
                    \A v \in S : pc[v] # "idle" => WaitsFor(v) # None
             PROVE  \E v \in S : OnRing(v)
  BY DEF WaitersLeadOn
<1> DEFINE B == {v \in S : pc[v] # "idle"}
           f == [v \in B |-> WaitsFor(v)]
<1>1. ASSUME NEW v \in B PROVE /\ v \in Workers /\ f[v] = WaitsFor(v)
                              /\ WaitsFor(v) \in B /\ pc[WaitsFor(v)] \in InTx
  <2>1. v \in S /\ v \in Workers /\ f[v] = WaitsFor(v) /\ WaitsFor(v) \in S
    OBVIOUS
  <2>2. pc[WaitsFor(v)] \in InTx
    BY <2>1, WaitsForHolder
  <2>3. QED
    BY <2>1, <2>2 DEF InTx
<1>2. B \subseteq S /\ B # {}
  OBVIOUS
<1> HIDE DEF B, f
<1>3. IsFiniteSet(B)
  BY <1>2, WorldAssumption, FS_Subset
<1>4. Cycles(f, B)
  BY <1>1, <1>2, <1>3, EndlessCycles DEF Endless
<1>5. PICK T \in SUBSET B : /\ T # {}
                            /\ \A v \in T : f[v] \in T
                            /\ \A x \in T : \E v \in T : f[v] = x
  BY <1>4 DEF Cycles
<1>6. ASSUME NEW x \in T PROVE pc[x] \in InTx
  BY <1>1, <1>5
<1>7. ASSUME NEW v \in T PROVE Blocker(v) = f[v]
  BY <1>1, <1>6, <1>7 DEF WaitsFor, InTx
<1>8. Ring(T)
  <2>1. \A v \in T : Blocker(v) \in T
    BY <1>5, <1>7
  <2>2. \A x \in T : \E v \in T : Blocker(v) = x
    BY <1>5, <1>7
  <2>3. QED
    BY <1>5, <2>1, <2>2 DEF Ring
<1>9. T \in SUBSET Workers /\ T \subseteq S
  BY <1>2
<1>10. QED
  BY <1>5, <1>8, <1>9 DEF OnRing

\* No handler waits for a lock nobody will give up: the holders it waits for lead
\* to one that can go on or to a deadlock (transferTx, the row locks).
THEOREM WaitersLeadOnCorrect == Spec => []WaitersLeadOn
<1>1. TypeOK /\ LockInv => WaitersLeadOn
  BY WaitersLead
<1>2. QED
  BY <1>1, LocksHeld, PTL
-----------------------------------------------------------------------------
(* Progress of a handler.                                                    *)

\* who waits for a lock is in the transaction or about to be
LEMMA VictimInTx ==
    ASSUME TypeOK, NEW w \in Workers, DeadlockVictim(w)
    PROVE  pc[w] \in InTx \cup {"lock_conf", "lock_late"}
<1>1. SUFFICES ASSUME pc[w] \notin InTx \cup {"lock_conf", "lock_late"} PROVE FALSE
  OBVIOUS
<1>2. Blocker(w) = None
  BY <1>1 DEF Blocker, InTx
<1>3. Blocker(w) \in Workers
  BY DEF DeadlockVictim, OnRing, Ring
<1>4. QED
  BY <1>2, <1>3

\* what HandlersAdvance says of one worker
Advances(w) ==
    pc[w] # "idle" =>
        \/ pc'[w] = pc[w] /\ tok'[w] = tok[w]
        \/ Rank(pc'[w]) < Rank(pc[w]) /\ (pc'[w] = "idle" \/ tok'[w] = tok[w])

LEMMA Ranks ==
    /\ Rank("idle") = 0
    /\ \A label \in Editing : Rank(label) = 1
    /\ \A label \in {"persist", "mark_expired", "cancel", "reload", "commit", "fail"} :
          Rank(label) = 2
    /\ \A label \in {"first", "credit"} : Rank(label) = 3
    /\ Rank("lock_from") = 4
    /\ Rank("ensure_to") = 5
    /\ Rank("ensure_from") = 6
    /\ \A label \in {"lock_conf", "lock_late"} : Rank(label) = 7
    /\ Rank("execute") = 8
BY DEF Rank, Editing

LEMMA GotoAdvances ==
    ASSUME TypeOK, NEW w \in Workers, NEW label, Goto(w, label), Rank(label) < Rank(pc[w])
    PROVE  Advances(w)
BY GotoMoves DEF Advances

LEMMA AdvanceStatement ==
    ASSUME TypeOK, NEW w \in Workers,
           Persist(w) \/ MarkExpired(w) \/ Cancel(w) \/ FirstYes(w) \/ Reload(w)
           \/ EditMessage(w) \/ StatementFails(w)
    PROVE  Advances(w)
<1>1. PICK label : Goto(w, label) /\ Rank(label) < Rank(pc[w])
  <2>1. CASE Persist(w)
    BY <2>1, Ranks DEF Persist, At, Editing
  <2>2. CASE MarkExpired(w)
    BY <2>2, Ranks DEF MarkExpired, Transition, At, Editing
  <2>3. CASE Cancel(w)
    BY <2>3, Ranks DEF Cancel, Transition, At, Editing
  <2>4. CASE FirstYes(w)
    BY <2>4, Ranks DEF FirstYes, Transition, At, Editing
  <2>5. CASE Reload(w)
    BY <2>5, Ranks DEF Reload, At, Editing
  <2>6. CASE EditMessage(w)
    BY <2>6, Ranks DEF EditMessage
  <2>7. CASE StatementFails(w)
    BY <2>7, Ranks DEF StatementFails, At, Editing
  <2>8. QED
    BY <2>1, <2>2, <2>3, <2>4, <2>5, <2>6, <2>7
<1>2. QED
  BY <1>1, GotoAdvances

LEMMA AdvanceTransaction ==
    ASSUME TypeOK, NEW w \in Workers,
           Execution(w) \/ TransactionFails(w) \/ DeadlockVictim(w)
    PROVE  Advances(w)
<1>1. PICK label : Goto(w, label) /\ Rank(label) < Rank(pc[w])
  <2>1. CASE BeginExecution(w)
    BY <2>1, Ranks DEF BeginExecution, At, Editing
  <2>2. CASE ExecuteExpired(w)
    BY <2>2, Ranks DEF ExecuteExpired, At, Editing
  <2>3. CASE ExecuteConflict(w)
    BY <2>3, Ranks DEF ExecuteConflict, At, Editing
  <2>4. CASE ExecuteLock(w)
    BY <2>4, Ranks DEF ExecuteLock, At, Editing
  <2>5. CASE EnsureSender(w)
    BY <2>5, Ranks DEF EnsureSender, EnsureRow, At, Editing
  <2>6. CASE EnsureRecipient(w)
    BY <2>6, Ranks DEF EnsureRecipient, EnsureRow, At, Editing
  <2>7. CASE LockSender(w)
    BY <2>7, Ranks DEF LockSender, At, Editing
  <2>8. CASE CreditRecipient(w)
    BY <2>8, Ranks DEF CreditRecipient, At, Editing
  <2>9. CASE CommitTransfer(w)
    BY <2>9, Ranks DEF CommitTransfer, At, Editing
  <2>10. CASE CommitFailure(w)
    BY <2>10, Ranks DEF CommitFailure, At, Editing
  <2>11. CASE ForeignKeyRefuses(w) \/ TransactionFails(w) \/ DeadlockVictim(w)
    <3>1. RollBack(w) /\ pc[w] \in InTx \cup {"lock_conf", "lock_late"}
      BY <2>11, VictimInTx
      DEF ForeignKeyRefuses, TransactionFails, DeadlockVictim, At, InTx
    <3>2. Goto(w, "show_failed") /\ Rank("show_failed") < Rank(pc[w])
      BY <3>1, Ranks DEF RollBack, InTx, Editing
    <3>3. QED
      BY <3>2
  <2>12. QED
    BY <2>1, <2>2, <2>3, <2>4, <2>5, <2>6, <2>7, <2>8, <2>9, <2>10, <2>11 DEF Execution
<1>2. QED
  BY <1>1, GotoAdvances

LEMMA WorkerMovesAlone ==
    ASSUME TypeOK, NEW w \in Workers, Begin(w) \/ Step(w) \/ Failure(w)
    PROVE  OthersStay(w)
<1>1. CASE Quiet(w)
  BY <1>1, QuietMoves
<1>2. CASE EnsureSender(w) \/ EnsureRecipient(w)
  <2>1. \E label : Goto(w, label)
    BY <1>2 DEF EnsureSender, EnsureRecipient, EnsureRow
  <2>2. QED
    BY <2>1, GotoMoves
<1>3. CASE LockSender(w)
  <2>1. \E label : Goto(w, label)
    BY <1>3 DEF LockSender
  <2>2. QED
    BY <2>1, GotoMoves
<1>4. CASE CreditRecipient(w)
  BY <1>4, GotoMoves DEF CreditRecipient
<1>5. CASE CommitTransfer(w) \/ CommitFailure(w) \/ RollBack(w)
  <2>1. \E label : Goto(w, label)
    BY <1>5 DEF CommitTransfer, CommitFailure, RollBack
  <2>2. QED
    BY <2>1, GotoMoves
<1>6. QED
  BY <1>1, <1>2, <1>3, <1>4, <1>5, WorkerCases

LEMMA AdvanceNext ==
    ASSUME TypeOK, [Next]_vars, NEW w \in Workers
    PROVE  Advances(w)
<1>1. CASE UNCHANGED <<pc, tok>>
  BY <1>1 DEF Advances
<1>2. CASE Crash
  <2>1. pc'[w] = "idle" /\ pc[w] \in PCs
    BY <1>2 DEF Crash, TypeOK
  <2>2. pc[w] # "idle" => Rank(pc[w]) > 0
    BY <2>1, Ranks DEF PCs, Statements, InTx
  <2>3. QED
    BY <2>1, <2>2, Ranks DEF Advances
<1>3. ASSUME NEW v \in Workers, Begin(v) \/ Step(v) \/ Failure(v) PROVE Advances(w)
  <2>1. CASE v # w
    BY <1>3, <2>1, WorkerMovesAlone DEF Advances, OthersStay
  <2>2. CASE v = w /\ Begin(w)
    BY <2>2 DEF Begin, StartTransfer, Click, At, Advances
  <2>3. CASE v = w /\ (Step(w) \/ Failure(w))
    BY <2>3, AdvanceStatement, AdvanceTransaction DEF Step, Failure
  <2>4. QED
    BY <1>3, <2>1, <2>2, <2>3
<1>4. CASE World
  BY <1>1, <1>4 DEF World, TimePasses, Award, Charge, Seen, CreateBalance, Purge
<1>5. CASE UNCHANGED vars
  BY <1>1, <1>5 DEF vars
<1>6. QED
  BY <1>2, <1>3, <1>4, <1>5 DEF Next

\* A handler runs each of its statements at most once, for one request, and so
\* comes to its end if it is not left waiting (handlers.go and repository.go).
THEOREM HandlersAdvanceCorrect == Spec => HandlersAdvance
<1>1. TypeOK /\ [Next]_vars =>
        \A w \in Workers : pc[w] # "idle" =>
          \/ pc'[w] = pc[w] /\ tok'[w] = tok[w]
          \/ Rank(pc'[w]) < Rank(pc[w]) /\ (pc'[w] = "idle" \/ tok'[w] = tok[w])
  BY AdvanceNext DEF Advances
<1>2. QED
  BY <1>1, TypeCorrect, PTL DEF Spec, HandlersAdvance
=============================================================================
