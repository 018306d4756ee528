----------------------- MODULE TransferConfirmation -----------------------
(***************************************************************************)
(* The transfer dialogue of internal/features/economy: a command posts a   *)
(* message with the buttons Yes and No, two clicks on Yes by the sender    *)
(* pay, a click on No cancels, 15 minutes expire it.                       *)
(*                                                                         *)
(* A worker is a goroutine of the update pool: it handles one update to    *)
(* the end, and pc says before which statement of its handler it stands.   *)
(* A statement sent to PostgreSQL on its own is one step.  Inside the      *)
(* transaction of ExecuteTransferConfirmation every statement that may     *)
(* wait for another transaction is a step; what the transaction wrote is   *)
(* applied at its COMMIT, before which no other session can read it, and   *)
(* the row locks it holds until then are confLock and rowLock.             *)
(*                                                                         *)
(* The columns of a confirmation that never change after the INSERT are    *)
(* the constants From, To, Amount and ChatOf of its token.                 *)
(***************************************************************************)
EXTENDS Wallets, FiniteSets

CONSTANTS
    Users,           \* Telegram users
    Tokens,          \* transfer requests, one confirmation row each
    Workers,         \* update pool workers, of every instance of the bot
    None,            \* the holder of a free row lock; the token of an idle worker
    From, To,        \* sender (= owner) and recipient of a request
    Amount,          \* amount of a request
    ChatOf,          \* chat the request was made in
    PerChat,         \* TRUE: one instance of the bot, whose pool runs the
                     \* updates of a chat one at a time; FALSE: also two
                     \* instances on one database (a restart that overlaps)
    Sums,            \* amounts other features award or charge
    EarnLimit,       \* bound: no award takes total_earned above it
    InitialBalance,  \* balances at the start
    InitialMembers,  \* rows of the table members at the start
    Active,          \* users who write, click or join while the model runs
    Leavers          \* users whose purge may fall due while the model runs

ASSUME RequestAssumption ==
    /\ From \in [Tokens -> Active]
    /\ To \in [Tokens -> Users]
    /\ Amount \in [Tokens -> Nat \ {0}]
    /\ \A t \in Tokens : From[t] # To[t]

ASSUME WorldAssumption ==
    /\ None \notin Workers \cup Tokens
    /\ IsFiniteSet(Workers)
    /\ PerChat \in BOOLEAN
    /\ Active \subseteq Users
    /\ Leavers \subseteq Users
    /\ Sums \subseteq Nat \ {0}
    /\ InitialBalance \in [Users -> Nat]
    /\ InitialMembers \subseteq Users
    /\ \A u \in Users \ InitialMembers : InitialBalance[u] = 0

VARIABLES
    conf,      \* column "state" of the confirmation, "absent" without a row
    consumed,  \* whether its column consumed_at is set
    timeUp,    \* whether its expires_at has passed
    shown,     \* what the message with the buttons says
    wallet,    \* table balances: balance, total_earned, total_spent
    rows,      \* users with a row in balances
    members,   \* users with a row in members
    confLock,  \* holder of the row lock of a confirmation
    rowLock,   \* holder of the row lock of a balance
    pc, tok,   \* the statement a worker is about to run, and for which token
    yes,       \* history: how many of the two questions the owner said Yes to
    paid       \* history: committed transfers of the token

db == <<wallet, rows, members>>
locks == <<confLock, rowLock>>
dialogue == <<timeUp, shown, yes>>
vars == <<conf, consumed, dialogue, db, locks, pc, tok, paid>>
-----------------------------------------------------------------------------
Awaiting == {"await_first", "await_second"}
Final == {"completed", "canceled", "expired", "failed"}
States == {"absent"} \cup Awaiting \cup Final

\* the text of the message; "unsaved" and "none" have no live buttons
Screens == {"none", "unsaved", "first", "second", "done",
            "canceled", "expired", "failed"}

InTx == {"ensure_from", "ensure_to", "lock_from", "credit", "commit", "fail"}
Editing == {"show_unsaved", "show_second", "show_done", "show_canceled",
            "show_expired", "show_failed"}
Statements == {"persist", "mark_expired", "cancel", "first", "reload",
               "execute", "lock_conf", "lock_late"}
PCs == {"idle"} \cup Statements \cup InTx \cup Editing

Screen(label) ==
    CASE label = "show_unsaved"  -> "unsaved"
      [] label = "show_second"   -> "second"
      [] label = "show_done"     -> "done"
      [] label = "show_canceled" -> "canceled"
      [] label = "show_expired"  -> "expired"
      [] label = "show_failed"   -> "failed"

Goto(w, label) ==
    /\ pc' = [pc EXCEPT ![w] = label]
    /\ tok' = IF label = "idle" THEN [tok EXCEPT ![w] = None] ELSE tok

\* an idle worker takes up an update about t
TakeUp(w, t, label) ==
    /\ pc' = [pc EXCEPT ![w] = label]
    /\ tok' = IF label = "idle" THEN tok ELSE [tok EXCEPT ![w] = t]

At(w, label) == pc[w] = label

\* Mutant: the pool without its chat locks.
ChatFreeUnlocked(w, t) == w \in Workers /\ t \in Tokens

\* The mutex of the chat: no other worker is inside a handler for it.
ChatFree(w, t) ==
    PerChat => \A v \in Workers \ {w} : pc[v] # "idle" => ChatOf[tok[v]] # ChatOf[t]

Init ==
    /\ conf = [t \in Tokens |-> "absent"]
    /\ consumed = [t \in Tokens |-> FALSE]
    /\ timeUp = [t \in Tokens |-> FALSE]
    /\ shown = [t \in Tokens |-> "none"]
    /\ wallet = [u \in Users |-> [balance |-> InitialBalance[u],
                                  earned  |-> InitialBalance[u],
                                  spent   |-> 0]]
    /\ rows = InitialMembers
    /\ members = InitialMembers
    /\ confLock = [t \in Tokens |-> None]
    /\ rowLock = [u \in Users |-> None]
    /\ pc = [w \in Workers |-> "idle"]
    /\ tok = [w \in Workers |-> None]
    /\ yes = [t \in Tokens |-> 0]
    /\ paid = [t \in Tokens |-> 0]
-----------------------------------------------------------------------------
(* The command: the balance is read once, the message is sent, and only     *)
(* then the confirmation is saved.                                          *)

CanAfford(t) == wallet[From[t]].balance >= Amount[t]

StartTransfer(w, t) ==
    /\ At(w, "idle") /\ ChatFree(w, t)
    /\ shown[t] = "none" /\ CanAfford(t)
    /\ shown' = [shown EXCEPT ![t] = "first"]
    /\ TakeUp(w, t, "persist")
    /\ UNCHANGED <<conf, consumed, timeUp, yes, db, locks, paid>>

\* The answer to a statement that took effect may be lost, here and below: the
\* handler goes on as if it had failed.
Persist(w) ==
    /\ At(w, "persist")
    /\ conf' = [conf EXCEPT ![tok[w]] = "await_first"]
    /\ \E reply \in {"idle", "show_unsaved"} : Goto(w, reply)
    /\ UNCHANGED <<consumed, dialogue, db, locks, paid>>

-----------------------------------------------------------------------------
(* The callback: what prepareTransferCallback answers to a click, and the   *)
(* statement the handler runs next.                                         *)

\* Mutant: anybody may answer.
AfterPrepareAnybody(t, u, answer) ==
    IF conf[t] = "absent" \/ u \notin Users THEN "idle"
    ELSE IF timeUp[t] THEN "mark_expired"
    ELSE IF conf[t] = "expired" THEN "show_expired"
    ELSE IF conf[t] \in Final THEN "idle"
    ELSE IF answer = "no" THEN "cancel"
    ELSE IF conf[t] = "await_first" THEN "first"
    ELSE "execute"

AfterPrepare(t, u, answer) ==
    IF conf[t] = "absent" THEN "idle"
    ELSE IF u # From[t] THEN IF conf[t] = "expired" THEN "show_expired" ELSE "idle"
    ELSE IF timeUp[t] THEN "mark_expired"
    ELSE IF conf[t] = "expired" THEN "show_expired"
    ELSE IF conf[t] \in Final THEN "idle"
    ELSE IF answer = "no" THEN "cancel"
    ELSE IF conf[t] = "await_first" THEN "first"
    ELSE "execute"

\* Which question this click says Yes to for the owner, 0 if to none
YesTo(t, u, answer) ==
    IF u # From[t] \/ answer # "yes" \/ timeUp[t] THEN 0
    ELSE CASE conf[t] = "await_first" -> 1 [] conf[t] = "await_second" -> 2 [] OTHER -> 0

\* A click on a button of the message of t.  The buttons of both questions carry
\* the same data, and clicks queue: an old one, or a second delivery of one, may
\* be handled long after the message was edited.  In the source chat the update
\* handler marks the clicking user as a member first; an error is only logged.
Click(w, t, u, answer) ==
    /\ At(w, "idle") /\ ChatFree(w, t)
    /\ shown[t] # "none"
    /\ members' \in {members, members \cup {u}}
    /\ yes' = [yes EXCEPT ![t] = IF YesTo(t, u, answer) = @ + 1 THEN @ + 1 ELSE @]
    /\ TakeUp(w, t, AfterPrepare(t, u, answer))
    /\ UNCHANGED <<conf, consumed, timeUp, shown, wallet, rows, locks, paid>>

\* UPDATE ... SET state = new WHERE token = t AND state = ANY(from)
Transition(w, from, new, yesLabels, noLabel) ==
    LET t == tok[w] IN
    /\ confLock[t] = None
    /\ IF conf[t] \in from
       THEN conf' = [conf EXCEPT ![t] = new] /\ \E label \in yesLabels : Goto(w, label)
       ELSE UNCHANGED conf /\ Goto(w, noLabel)
    /\ UNCHANGED <<consumed, dialogue, db, locks, paid>>

MarkExpired(w) ==
    /\ At(w, "mark_expired")
    /\ Transition(w, Awaiting, "expired", {"show_expired"}, "show_expired")

\* Mutant: the result of the update is not looked at.
CancelUnchecked(w) ==
    /\ At(w, "cancel")
    /\ Transition(w, Awaiting, "canceled", {"show_canceled"}, "show_canceled")

Cancel(w) ==
    /\ At(w, "cancel")
    /\ Transition(w, Awaiting, "canceled", {"show_canceled", "idle"}, "idle")

FirstYes(w) ==
    /\ At(w, "first")
    /\ Transition(w, {"await_first"}, "await_second", {"show_second", "idle"}, "reload")

\* Mutant: whoever finds the row moved on executes.
ReloadExecutes(w) ==
    /\ At(w, "reload")
    /\ Goto(w, IF conf[tok[w]] = "await_second" THEN "execute" ELSE "idle")
    /\ UNCHANGED <<conf, consumed, dialogue, db, locks, paid>>

\* somebody else moved the row: go on only if it waits for the second click
Reload(w) ==
    /\ At(w, "reload")
    /\ Goto(w, IF conf[tok[w]] = "await_second" THEN "show_second" ELSE "idle")
    /\ UNCHANGED <<conf, consumed, dialogue, db, locks, paid>>

\* finishTransferMessage and the other edits; an edit may fail
EditMessage(w) ==
    /\ pc[w] \in Editing
    /\ \/ shown' = [shown EXCEPT ![tok[w]] = Screen(pc[w])]
       \/ UNCHANGED shown
    /\ Goto(w, "idle")
    /\ UNCHANGED <<conf, consumed, timeUp, yes, db, locks, paid>>
-----------------------------------------------------------------------------
(* ExecuteTransferConfirmation.  A transaction that ends gives up its row   *)
(* locks; the balance rows it inserted exist from its COMMIT on.            *)

Held(w) == {u \in Users : rowLock[u] = w}

\* Mutant: the row locks of the balances outlive the transaction.
ReleaseLocksPartly(w) ==
    /\ confLock' = [t \in Tokens |-> IF confLock[t] = w THEN None ELSE confLock[t]]
    /\ UNCHANGED rowLock

ReleaseLocks(w) ==
    /\ confLock' = [t \in Tokens |-> IF confLock[t] = w THEN None ELSE confLock[t]]
    /\ rowLock' = [u \in Users |-> IF rowLock[u] = w THEN None ELSE rowLock[u]]

\* h.now() is read before the transaction begins
BeginExecution(w) ==
    /\ At(w, "execute")
    /\ Goto(w, IF timeUp[tok[w]] THEN "lock_late" ELSE "lock_conf")
    /\ UNCHANGED <<conf, consumed, dialogue, db, locks, paid>>

\* SELECT ... FOR UPDATE answered a row that expired: it is overwritten
\* whatever its state, and the caller is told of a conflict.
ExecuteExpired(w) ==
    LET t == tok[w] IN
    /\ At(w, "lock_late") /\ confLock[t] = None
    /\ conf' = [conf EXCEPT ![t] = "expired"]
    /\ \E reply \in {"idle", "show_failed"} : Goto(w, reply)
    /\ UNCHANGED <<consumed, dialogue, db, locks, paid>>

\* ... a row in another state: rollback, the caller is told of a conflict
ExecuteConflict(w) ==
    LET t == tok[w] IN
    /\ At(w, "lock_conf") /\ confLock[t] = None
    /\ conf[t] # "await_second" \/ consumed[t]
    /\ Goto(w, "idle")
    /\ UNCHANGED <<conf, consumed, dialogue, db, locks, paid>>

\* Mutant: the state of the locked row is not tested.
ExecuteLockAnyState(w) ==
    LET t == tok[w] IN
    /\ At(w, "lock_conf") /\ confLock[t] = None
    /\ confLock' = [confLock EXCEPT ![t] = w]
    /\ Goto(w, "ensure_from")
    /\ UNCHANGED <<conf, consumed, dialogue, db, rowLock, paid>>

\* ... the row it wanted: it stays locked, and "executing" is written to it,
\* a state nobody else ever reads
ExecuteLock(w) ==
    LET t == tok[w] IN
    /\ At(w, "lock_conf") /\ confLock[t] = None
    /\ conf[t] = "await_second" /\ ~consumed[t]
    /\ confLock' = [confLock EXCEPT ![t] = w]
    /\ Goto(w, "ensure_from")
    /\ UNCHANGED <<conf, consumed, dialogue, db, rowLock, paid>>

\* INSERT INTO balances ... ON CONFLICT DO NOTHING.  A row that is missing is
\* inserted, and locked, if the foreign key allows it; a row that another
\* transaction has just inserted is waited for.
EnsureRow(w, u, label) ==
    /\ u \notin rows => rowLock[u] \in {None, w} /\ u \in members
    /\ rowLock' = IF u \in rows THEN rowLock ELSE [rowLock EXCEPT ![u] = w]
    /\ Goto(w, label)
    /\ UNCHANGED <<conf, consumed, dialogue, db, confLock, paid>>

EnsureSender(w) == At(w, "ensure_from") /\ EnsureRow(w, From[tok[w]], "ensure_to")

\* Mutant: the recipient's row is not inserted.
EnsureRecipientForgotten(w) ==
    /\ At(w, "ensure_to")
    /\ Goto(w, "lock_from")
    /\ UNCHANGED <<conf, consumed, dialogue, db, locks, paid>>

\* Mutant: ON CONFLICT DO UPDATE, which locks a row that is there.
EnsureRecipientUpserts(w) ==
    /\ At(w, "ensure_to")
    /\ rowLock[To[tok[w]]] \in {None, w} /\ To[tok[w]] \in rows \cup members
    /\ rowLock' = [rowLock EXCEPT ![To[tok[w]]] = w]
    /\ Goto(w, "lock_from")
    /\ UNCHANGED <<conf, consumed, dialogue, db, confLock, paid>>

EnsureRecipient(w) == At(w, "ensure_to") /\ EnsureRow(w, To[tok[w]], "lock_from")

\* Mutant: the balance is read without FOR UPDATE.
LockSenderUnlocked(w) ==
    /\ At(w, "lock_from")
    /\ Goto(w, IF wallet[From[tok[w]]].balance < Amount[tok[w]] THEN "fail" ELSE "credit")
    /\ UNCHANGED <<conf, consumed, dialogue, db, locks, paid>>

\* SELECT balance ... FOR UPDATE, and the test of the balance it read
LockSender(w) ==
    LET t == tok[w] IN
    /\ At(w, "lock_from")
    /\ rowLock[From[t]] \in {None, w}
    /\ rowLock' = [rowLock EXCEPT ![From[t]] = w]
    /\ Goto(w, IF wallet[From[t]].balance < Amount[t] THEN "fail" ELSE "credit")
    /\ UNCHANGED <<conf, consumed, dialogue, db, confLock, paid>>

\* UPDATE of the recipient's row.  It waits for the row's lock; if the row is
\* gone it updates nothing and reports no error.
CreditRecipient(w) ==
    LET r == To[tok[w]] IN
    /\ At(w, "credit")
    /\ \/ /\ r \in rows \/ rowLock[r] = w
          /\ rowLock[r] \in {None, w}
          /\ rowLock' = [rowLock EXCEPT ![r] = w]
       \/ /\ r \notin rows /\ rowLock[r] # w
          /\ UNCHANGED rowLock
    /\ Goto(w, "commit")
    /\ UNCHANGED <<conf, consumed, dialogue, db, confLock, paid>>

\* INSERT INTO transactions (both sides must be members), state completed,
\* COMMIT.  The answer to COMMIT may be lost: the handler reports a failure.
CommitTransfer(w) ==
    LET t == tok[w]
        debited == Debited(wallet, From[t], Amount[t])
    IN
    /\ At(w, "commit")
    /\ {From[t], To[t]} \subseteq members
    /\ wallet' = IF rowLock[To[t]] = w THEN Credited(debited, To[t], Amount[t])
                 ELSE debited
    /\ conf' = [conf EXCEPT ![t] = "completed"]
    /\ consumed' = [consumed EXCEPT ![t] = TRUE]
    /\ rows' = rows \cup Held(w)
    /\ paid' = [paid EXCEPT ![t] = @ + 1]
    /\ ReleaseLocks(w)
    /\ \E reply \in {"show_done", "show_failed"} : Goto(w, reply)
    /\ UNCHANGED <<dialogue, members>>

\* insufficient funds: the failure is committed
CommitFailure(w) ==
    LET t == tok[w] IN
    /\ At(w, "fail")
    /\ conf' = [conf EXCEPT ![t] = "failed"]
    /\ consumed' = [consumed EXCEPT ![t] = TRUE]
    /\ rows' = rows \cup Held(w)
    /\ ReleaseLocks(w)
    /\ Goto(w, "show_failed")
    /\ UNCHANGED <<dialogue, wallet, members, paid>>

\* Mutant: the connection goes back to the pool with its transaction open.
RollBackForgotten(w) ==
    /\ Goto(w, "show_failed")
    /\ UNCHANGED <<conf, consumed, dialogue, db, locks, paid>>

\* The transaction rolls back and the handler reports a failure; the row
\* keeps the state it had.
RollBack(w) ==
    /\ ReleaseLocks(w)
    /\ Goto(w, "show_failed")
    /\ UNCHANGED <<conf, consumed, dialogue, db, paid>>

\* a foreign key refuses the balance row or the ledger row of a user who is
\* not a member; marking the confirmation failed fails too, in the aborted
\* transaction
ForeignKeyRefuses(w) ==
    /\ \/ At(w, "ensure_from") /\ From[tok[w]] \notin rows \cup members
       \/ At(w, "ensure_to") /\ To[tok[w]] \notin rows \cup members
       \/ At(w, "commit") /\ ~({From[tok[w]], To[tok[w]]} \subseteq members)
    /\ RollBack(w)
-----------------------------------------------------------------------------
(* Failures: an error of the database or of the connection, the deadlock    *)
(* detector of PostgreSQL, and the end of the process.                      *)

\* the handlers log the error and return; a failed mark is ignored
StatementFails(w) ==
    /\ \/ pc[w] \in {"cancel", "first", "reload"} /\ Goto(w, "idle")
       \/ At(w, "mark_expired") /\ Goto(w, "show_expired")
       \/ At(w, "persist") /\ Goto(w, "show_unsaved")
    /\ UNCHANGED <<conf, consumed, dialogue, db, locks, paid>>

TransactionFails(w) ==
    /\ pc[w] \in InTx \cup {"lock_conf", "lock_late"}
    /\ RollBack(w)

\* the worker whose transaction the transaction of w waits for, or None
Blocker(w) ==
    LET Other(u) == IF rowLock[u] = w THEN None ELSE rowLock[u]
        s == From[tok[w]]
        r == To[tok[w]]
    IN CASE pc[w] \in {"lock_conf", "lock_late"} -> confLock[tok[w]]
         [] pc[w] = "ensure_from" /\ s \notin rows -> Other(s)
         [] pc[w] = "ensure_to" /\ r \notin rows -> Other(r)
         [] pc[w] = "lock_from" -> Other(s)
         [] pc[w] = "credit" /\ r \in rows -> Other(r)
         [] OTHER -> None

\* a set of transactions each of which waits for one of the set and is waited
\* for by one of it: a deadlock
Ring(S) == S # {} /\ {Blocker(v) : v \in S} = S

OnRing(w) == \E S \in SUBSET Workers : w \in S /\ Ring(S)

DeadlockVictim(w) == OnRing(w) /\ RollBack(w)

\* the process ends; open transactions of its connections roll back
Crash ==
    /\ \E w \in Workers : pc[w] # "idle"
    /\ pc' = [w \in Workers |-> "idle"]
    /\ confLock' = [t \in Tokens |-> None]
    /\ rowLock' = [u \in Users |-> None]
    /\ tok' = [w \in Workers |-> None]
    /\ UNCHANGED <<conf, consumed, dialogue, db, paid>>
-----------------------------------------------------------------------------
(* The world around the dialogue.                                           *)

TimePasses(t) ==
    /\ shown[t] # "none" /\ ~timeUp[t]
    /\ timeUp' = [timeUp EXCEPT ![t] = TRUE]
    /\ UNCHANGED <<conf, consumed, shown, yes, db, locks, pc, tok, paid>>

\* AddBalance of another feature, a transaction that locks one row
Award(u, n) ==
    /\ u \in members /\ rowLock[u] = None
    /\ wallet[u].earned + n <= EarnLimit
    /\ wallet' = Credited(wallet, u, n)
    /\ rows' = rows \cup {u}
    /\ UNCHANGED <<conf, consumed, dialogue, members, locks, pc, tok, paid>>

\* DeductBalance of another feature
Charge(u, n) ==
    /\ u \in members /\ rowLock[u] = None
    /\ wallet[u].balance >= n
    /\ wallet' = Debited(wallet, u, n)
    /\ UNCHANGED <<conf, consumed, dialogue, rows, members, locks, pc, tok, paid>>

\* a message, a click or a join event of u
Seen(u) ==
    /\ u \in Active \ members
    /\ members' = members \cup {u}
    /\ UNCHANGED <<conf, consumed, dialogue, wallet, rows, locks, pc, tok, paid>>

\* CreateBalance of a new member
CreateBalance(u) ==
    /\ u \in members \ rows /\ rowLock[u] = None
    /\ rows' = rows \cup {u}
    /\ UNCHANGED <<conf, consumed, dialogue, wallet, members, locks, pc, tok, paid>>

\* The purge transaction.  It falls due five days after the user left, long after
\* every request of his has expired; it waits for the locks.
Purge(u) ==
    /\ u \in Leavers \cap members
    /\ rowLock[u] = None
    /\ \A w \in Workers : pc[w] # "idle" => From[tok[w]] # u
    /\ wallet' = [wallet EXCEPT ![u] = Empty]
    /\ rows' = rows \ {u}
    /\ members' = members \ {u}
    /\ UNCHANGED <<conf, consumed, dialogue, locks, pc, tok, paid>>
-----------------------------------------------------------------------------
Execution(w) ==
    \/ BeginExecution(w) \/ ExecuteExpired(w) \/ ExecuteConflict(w) \/ ExecuteLock(w)
    \/ EnsureSender(w) \/ EnsureRecipient(w) \/ LockSender(w) \/ CreditRecipient(w)
    \/ CommitTransfer(w) \/ CommitFailure(w) \/ ForeignKeyRefuses(w)

\* the next statement of the handler w is in
Step(w) ==
    \/ Persist(w) \/ MarkExpired(w) \/ Cancel(w) \/ FirstYes(w) \/ Reload(w)
    \/ EditMessage(w) \/ Execution(w)

Failure(w) == StatementFails(w) \/ TransactionFails(w) \/ DeadlockVictim(w)

Begin(w) ==
    \E t \in Tokens :
        \/ StartTransfer(w, t)
        \/ \E u \in Active, answer \in {"yes", "no"} : Click(w, t, u, answer)

World ==
    \/ \E t \in Tokens : TimePasses(t)
    \/ \E u \in Users :
        \/ \E n \in Sums : Award(u, n) \/ Charge(u, n)
        \/ Seen(u) \/ CreateBalance(u) \/ Purge(u)

Next ==
    \/ \E w \in Workers : Begin(w) \/ Step(w) \/ Failure(w)
    \/ Crash
    \/ World

Spec == Init /\ [][Next]_vars

\* A started handler goes on.  PostgreSQL grants a row lock in the order it
\* was asked for, so a waiter is not overtaken for ever, and it breaks every
\* deadlock after deadlock_timeout.
Fairness ==
    \A w \in Workers : SF_vars(Step(w)) /\ WF_vars(DeadlockVictim(w))

FairSpec == Spec /\ Fairness
-----------------------------------------------------------------------------
(* Properties.                                                              *)

Money == [balance : Int, earned : Int, spent : Int]

\* The values every variable may take (repository.go and handlers.go state
\* constants, columns of balances and economy_transfer_confirmations).
TypeOK ==
    /\ conf \in [Tokens -> States]
    /\ consumed \in [Tokens -> BOOLEAN]
    /\ timeUp \in [Tokens -> BOOLEAN]
    /\ shown \in [Tokens -> Screens]
    /\ wallet \in [Users -> Money]
    /\ rows \subseteq Users
    /\ members \subseteq Users
    /\ confLock \in [Tokens -> Workers \cup {None}]
    /\ rowLock \in [Users -> Workers \cup {None}]
    /\ pc \in [Workers -> PCs]
    /\ tok \in [Workers -> Tokens \cup {None}]
    /\ \A w \in Workers : pc[w] = "idle" <=> tok[w] = None
    /\ yes \in [Tokens -> 0..2]
    /\ paid \in [Tokens -> Nat]

\* The books of every user balance, and no interleaving of transfers, bets,
\* awards and purges overdraws a wallet: the balance tested under FOR UPDATE
\* is still there when the debit is committed.
BooksBalance ==
    \A u \in Users :
        /\ wallet[u].balance = wallet[u].earned - wallet[u].spent
        /\ wallet[u].balance >= 0

\* However the clicks are duplicated, delayed or handled by two instances of
\* the bot, a request moves money at most once, and a request whose money
\* moved stays consumed.
PaidAtMostOnce ==
    \A t \in Tokens :
        /\ paid[t] <= 1
        /\ paid[t] = 1 => consumed[t] /\ conf[t] \in {"completed", "expired"}
        /\ conf[t] = "completed" => paid[t] = 1

\* Money moves only after a Yes of the owner was handled while the request waited
\* for the first answer, and another while it waited for the second: a foreign
\* click never counts, nor do two deliveries handled side by side, which both
\* answer the first question.  (Two deliveries one after the other do answer both.)
PaidAfterTwoYes == \A t \in Tokens : paid[t] > 0 => yes[t] = 2

\* What the last edit told the chat is true: "sent" only of a payment that was
\* committed, "cancelled" only of one that never was and never will be.
MessageIsTrue ==
    \A t \in Tokens :
        /\ shown[t] = "done" => paid[t] = 1
        /\ shown[t] = "canceled" => paid[t] = 0

\* The step that pays takes the amount from the sender, gives all of it to the
\* recipient and touches no other wallet (transferTx is one transaction).
TransferMovesAmount ==
    [][\A t \in Tokens : paid'[t] # paid[t] =>
          /\ wallet[From[t]].balance >= Amount[t]
          /\ wallet' = Moved(wallet, From[t], To[t], Amount[t])]_vars

\* A request that was completed, cancelled, failed or expired keeps that state
\* for ever.  ExecuteTransferConfirmation overwrites any state with "expired",
\* so this rests on the chat lock of the one instance (PerChat).
FinalIsFinal ==
    [][\A t \in Tokens : conf[t] \in Final => conf'[t] = conf[t]]_vars

\* Every update a worker took up is finished: transfers that cross lock the
\* same two rows in opposite orders, and the victim of the deadlock lets the
\* other one through.
HandlersReturn ==
    \A w \in Workers : pc[w] # "idle" ~> pc[w] = "idle"

\* The worker a handler waits for: a statement sent on its own waits for the
\* lock of a confirmation too.
WaitsFor(w) ==
    IF pc[w] \in {"mark_expired", "cancel", "first"} THEN confLock[tok[w]] ELSE Blocker(w)

\* Whoever waits for a row lock is led, from holder to holder, to a handler
\* that can go on or to a deadlock that PostgreSQL breaks: no lock is left
\* behind with a transaction that ended or a connection nobody uses.
WaitersLeadOn ==
    \A S \in SUBSET Workers :
        (\E w \in S : pc[w] # "idle") /\ (\A v \in S : WaitsFor(v) \in S \cup {None})
        => \E v \in S : OnRing(v) \/ (pc[v] # "idle" /\ WaitsFor(v) = None)

\* Transfers deadlock with each other only if they cross: each transaction on
\* the ring waits for the row of its recipient, who is the sender of the next.
\* Neither the lock of a confirmation, nor two transfers of one sender, nor
\* two to one recipient ever close a ring (transferTx locks the sender first).
DeadlocksCross ==
    \A S \in SUBSET Workers :
        Ring(S) => \A v \in S : /\ pc[v] \in {"ensure_to", "credit"}
                               /\ To[tok[v]] = From[tok[Blocker(v)]]

\* How many statements a handler may still have before it.
Rank(label) ==
    CASE label = "idle" -> 0
      [] label \in Editing -> 1
      [] label \in {"persist", "mark_expired", "cancel", "reload", "commit", "fail"} -> 2
      [] label \in {"first", "credit"} -> 3
      [] label = "lock_from" -> 4
      [] label = "ensure_to" -> 5
      [] label = "ensure_from" -> 6
      [] label \in {"lock_conf", "lock_late"} -> 7
      [] label = "execute" -> 8

\* A handler never repeats a statement: whatever fails, whatever it reads, it
\* stays with its request and gets nearer to its return with every statement.
HandlersAdvance ==
    [][\A w \in Workers : pc[w] # "idle" =>
          \/ pc'[w] = pc[w] /\ tok'[w] = tok[w]
          \/ Rank(pc'[w]) < Rank(pc[w]) /\ (pc'[w] = "idle" \/ tok'[w] = tok[w])]_vars

\* The requests that have been paid, for the abstract specification.
Settled == {t \in Tokens : paid[t] > 0}

Abstract == INSTANCE AtomicPayments WITH Requests <- Tokens, settled <- Settled

\* The dialogue implements the payments that happen at once and at most once.
RefinesAtomicPayments == Abstract!Spec
=============================================================================
