---------------------- MODULE TransferPayment_proofs ----------------------
(***************************************************************************)
(* A request is paid at most once, after a Yes to either question, and is  *)
(* called sent or cancelled only if it was, for any number of users,       *)
(* requests, workers and instances.                                        *)
(*                                                                         *)
(* The invariant says of each request which states go with a payment, and  *)
(* of each worker what the statement it stands before has established.  A  *)
(* worker inside the transaction holds the row lock of the confirmation,   *)
(* so what it read there stays true until it commits.                      *)
(*                                                                         *)
(* Two results need more than the statements give.  Final states stay      *)
(* final if one instance of the bot handles the updates of a chat in turn  *)
(* (PerChat), and the dialogue implements AtomicPayments if nobody who is  *)
(* purged comes back (no Leaver is Active); both are false without.        *)
(***************************************************************************)
EXTENDS TransferConfirmation_proofs

USE RequestAssumption, WorldAssumption

\* a state that will never be paid any more
Dead == {"canceled", "expired"}

RequestOK(t) ==
    /\ paid[t] \in {0, 1}
    /\ paid[t] = 1 => consumed[t] /\ conf[t] \in {"completed", "expired"} /\ yes[t] = 2
    /\ conf[t] = "completed" => paid[t] = 1
    /\ conf[t] = "await_second" => yes[t] # 0
    /\ shown[t] = "none" => conf[t] = "absent"
    /\ shown[t] = "done" => paid[t] = 1
    /\ shown[t] = "canceled" => conf[t] \in Dead /\ paid[t] = 0

HandlerOK(w) ==
    /\ pc[w] # "idle" => shown[tok[w]] # "none"
    /\ pc[w] = "persist" => conf[tok[w]] = "absent"
    /\ pc[w] \notin {"idle", "persist", "show_unsaved"} => conf[tok[w]] # "absent"
    /\ pc[w] = "first" => yes[tok[w]] # 0
    /\ pc[w] \in {"execute", "lock_conf", "lock_late"} \cup InTx => yes[tok[w]] = 2
    /\ pc[w] \in InTx => /\ confLock[tok[w]] = w
                         /\ conf[tok[w]] = "await_second" /\ ~consumed[tok[w]]
    /\ pc[w] = "show_done" => paid[tok[w]] = 1
    /\ pc[w] = "show_canceled" => conf[tok[w]] \in Dead /\ paid[tok[w]] = 0

\* one worker at most is about to save a confirmation
OnePersister ==
    \A v, w \in Workers :
        pc[v] = "persist" /\ pc[w] = "persist" /\ tok[v] = tok[w] => v = w

RequestsOK == \A t \in Tokens : RequestOK(t)
HandlersOK == \A w \in Workers : HandlerOK(w)

PayInv == RequestsOK /\ HandlersOK /\ OnePersister

LEMMA PayInit == Init => PayInv
BY DEF Init, PayInv, RequestsOK, RequestOK, HandlersOK, HandlerOK, OnePersister, InTx

-----------------------------------------------------------------------------
(* What a step of worker w may do to a request another worker is handling.  *)

Grows(w) ==
    \A t \in Tokens :
        /\ shown[t] # "none" => shown'[t] # "none"
        /\ yes[t] # 0 => yes'[t] # 0
        /\ yes[t] = 2 => yes'[t] = 2
        /\ conf[t] # "absent" => conf'[t] # "absent"
        /\ conf[t] = "absent" /\ conf'[t] # "absent" => pc[w] = "persist" /\ tok[w] = t
        /\ paid[t] = 1 => paid'[t] = 1
        /\ conf[t] \in Dead => conf'[t] \in Dead /\ paid'[t] = paid[t]
        /\ conf[t] = "await_second" /\ confLock[t] \notin {None, w} =>
               /\ conf'[t] = conf[t] /\ (consumed'[t] <=> consumed[t])
               /\ confLock'[t] = confLock[t]

\* ... leaves that worker where it was
LEMMA OtherHandlerOK ==
    ASSUME TypeOK, PayInv, NEW w \in Workers, OthersStay(w), Grows(w),
           NEW v \in Workers \ {w}
    PROVE  HandlerOK(v)'
<1>1. pc'[v] = pc[v] /\ tok'[v] = tok[v] /\ HandlerOK(v)
  BY DEF OthersStay, PayInv, HandlersOK
<1>2. CASE pc[v] = "idle"
  BY <1>1, <1>2 DEF HandlerOK, InTx
<1>3. CASE pc[v] # "idle"
  <2>1. tok[v] \in Tokens
    BY <1>3, BusyHasToken
  <2>2. pc[v] = "persist" => conf'[tok[v]] = "absent"
    <3>1. SUFFICES ASSUME pc[v] = "persist", conf'[tok[v]] # "absent" PROVE FALSE
      OBVIOUS
    <3>2. pc[w] = "persist" /\ tok[w] = tok[v]
      BY <1>1, <2>1, <3>1 DEF Grows, HandlerOK
    <3>3. QED
      BY <3>1, <3>2 DEF PayInv, OnePersister
  <2>3. pc[v] \in InTx => /\ confLock'[tok[v]] = v
                          /\ conf'[tok[v]] = "await_second" /\ ~consumed'[tok[v]]
    <3>1. SUFFICES ASSUME pc[v] \in InTx
                   PROVE  /\ confLock'[tok[v]] = v
                          /\ conf'[tok[v]] = "await_second" /\ ~consumed'[tok[v]]
      OBVIOUS
    <3>2. confLock[tok[v]] = v /\ conf[tok[v]] = "await_second" /\ ~consumed[tok[v]]
      BY <1>1, <3>1 DEF HandlerOK
    <3>3. v \notin {None, w}
      OBVIOUS
    <3>4. /\ conf'[tok[v]] = conf[tok[v]] /\ (consumed'[tok[v]] <=> consumed[tok[v]])
          /\ confLock'[tok[v]] = confLock[tok[v]]
      BY <2>1, <3>2, <3>3 DEF Grows
    <3>5. QED
      BY <3>2, <3>4
  <2>4. /\ shown'[tok[v]] # "none"
        /\ pc[v] \notin {"idle", "persist", "show_unsaved"} => conf'[tok[v]] # "absent"
        /\ pc[v] = "first" => yes'[tok[v]] # 0
        /\ pc[v] \in {"execute", "lock_conf", "lock_late"} \cup InTx => yes'[tok[v]] = 2
    BY <1>1, <1>3, <2>1 DEF Grows, HandlerOK
  <2>5. /\ pc[v] = "show_done" => paid'[tok[v]] = 1
        /\ pc[v] = "show_canceled" => conf'[tok[v]] \in Dead /\ paid'[tok[v]] = 0
    BY <1>1, <2>1 DEF Grows, HandlerOK
  <2>6. pc'[v] = pc[v] /\ tok'[v] = tok[v]
    BY <1>1
  <2>7. QED
    BY <2>2, <2>3, <2>4, <2>5, <2>6 DEF HandlerOK
<1>4. QED
  BY <1>2, <1>3

\* so a step has to be looked at for its own request and its own worker
LEMMA PayStep ==
    ASSUME TypeOK, PayInv, NEW w \in Workers, OthersStay(w), Grows(w),
           RequestsOK', HandlerOK(w)', pc'[w] # "persist"
    PROVE  PayInv'
<1>1. HandlersOK'
  BY OtherHandlerOK DEF HandlersOK
<1>2. OnePersister'
  BY DEF PayInv, OnePersister, OthersStay
<1>3. QED
  BY <1>1, <1>2 DEF PayInv

LEMMA MyHandler ==
    ASSUME TypeOK, PayInv, NEW w \in Workers, pc[w] # "idle"
    PROVE  tok[w] \in Tokens /\ HandlerOK(w) /\ RequestOK(tok[w])
BY BusyHasToken DEF PayInv, HandlersOK, RequestsOK

\* a step that only moves w
LEMMA PayMoveOnly ==
    ASSUME TypeOK, PayInv, NEW w \in Workers, OthersStay(w),
           UNCHANGED <<conf, consumed, shown, yes, confLock, paid>>,
           HandlerOK(w)', pc'[w] # "persist"
    PROVE  PayInv'
<1>1. Grows(w)
  BY DEF Grows
<1>2. RequestsOK'
  BY DEF PayInv, RequestsOK, RequestOK
<1>3. QED
  BY <1>1, <1>2, PayStep
-----------------------------------------------------------------------------
(* The command and the click.                                               *)

LEMMA PayStart ==
    ASSUME TypeOK, PayInv, NEW w \in Workers, NEW t \in Tokens, StartTransfer(w, t)
    PROVE  PayInv'
<1>1. /\ shown[t] = "none" /\ shown' = [shown EXCEPT ![t] = "first"]
      /\ TakeUp(w, t, "persist")
      /\ UNCHANGED <<conf, consumed, yes, confLock, paid>>
  BY DEF StartTransfer, locks
<1>2. OthersStay(w) /\ pc'[w] = "persist" /\ tok'[w] = t
  BY <1>1, TakeUpMoves
<1>3. conf[t] = "absent" /\ paid[t] = 0
  BY <1>1 DEF PayInv, RequestsOK, RequestOK
<1>4. shown' \in [Tokens -> Screens] /\ shown'[t] = "first"
      /\ \A x \in Tokens \ {t} : shown'[x] = shown[x]
  BY <1>1 DEF TypeOK, Screens
<1>5. Grows(w)
  BY <1>1, <1>4 DEF Grows
<1>6. RequestsOK'
  BY <1>1, <1>3, <1>4 DEF PayInv, RequestsOK, RequestOK
<1>7. HandlerOK(w)'
  BY <1>1, <1>2, <1>3, <1>4 DEF HandlerOK, InTx
<1>8. HandlersOK'
  BY <1>2, <1>5, <1>7, OtherHandlerOK DEF HandlersOK
<1>9. \A v \in Workers \ {w} : pc'[v] = "persist" => tok'[v] # t
  BY <1>1, <1>2 DEF PayInv, HandlersOK, HandlerOK, OthersStay
<1>10. OnePersister'
  BY <1>2, <1>9 DEF PayInv, OnePersister, OthersStay
<1>11. QED
  BY <1>6, <1>8, <1>10 DEF PayInv

LEMMA PayClick ==
    ASSUME TypeOK, PayInv, NEW w \in Workers, NEW t \in Tokens,
           NEW u \in Active, NEW answer \in {"yes", "no"}, Click(w, t, u, answer)
    PROVE  PayInv'
<1> DEFINE label == AfterPrepare(t, u, answer)
           to == YesTo(t, u, answer)
<1>1. /\ shown[t] # "none" /\ TakeUp(w, t, label)
      /\ yes' = [yes EXCEPT ![t] = IF to = @ + 1 THEN @ + 1 ELSE @]
      /\ UNCHANGED <<conf, consumed, shown, confLock, paid>>
  BY DEF Click, locks
<1>2. OthersStay(w) /\ pc'[w] = label /\ (label # "idle" => tok'[w] = t)
  BY <1>1, TakeUpMoves
<1>3. /\ \A x \in Tokens \ {t} : yes'[x] = yes[x]
      /\ yes'[t] = IF to = yes[t] + 1 THEN yes[t] + 1 ELSE yes[t]
      /\ yes[t] \in 0..2 /\ to \in 0..2
  BY <1>1 DEF TypeOK, YesTo
<1>4. /\ yes[t] # 0 => yes'[t] # 0
      /\ yes[t] = 2 => yes'[t] = 2
      /\ to = 1 => yes'[t] # 0
      /\ to = 2 /\ yes[t] # 0 => yes'[t] = 2
  BY <1>3
<1>5. Grows(w)
  BY <1>1, <1>3, <1>4 DEF Grows
<1>6. RequestsOK'
  BY <1>1, <1>3, <1>4 DEF PayInv, RequestsOK, RequestOK
<1>7. RequestOK(t) /\ conf[t] \in States
  BY DEF PayInv, RequestsOK, TypeOK
<1>8. /\ label \in {"idle", "mark_expired", "show_expired", "cancel", "first", "execute"}
      /\ label # "idle" => conf[t] # "absent"
      /\ label = "first" => to = 1
      /\ label = "execute" => to = 2 /\ conf[t] = "await_second"
  BY <1>7 DEF AfterPrepare, YesTo, States, Awaiting, Final
<1>9. HandlerOK(w)'
  <2>1. CASE label = "idle"
    BY <1>2, <2>1 DEF HandlerOK, InTx
  <2>2. CASE label # "idle"
    <3>1. label = "execute" => yes'[t] = 2
      BY <1>4, <1>7, <1>8 DEF RequestOK
    <3>2. label \notin InTx \cup {"persist", "lock_conf", "lock_late", "show_done", "show_canceled"}
      BY <1>8 DEF InTx
    <3>3. QED
      BY <1>1, <1>2, <1>4, <1>8, <2>2, <3>1, <3>2 DEF HandlerOK
  <2>3. QED
    BY <2>1, <2>2
<1>10. QED
  BY <1>2, <1>5, <1>6, <1>8, <1>9, PayStep
-----------------------------------------------------------------------------
(* The statements of the handlers.                                          *)

LEMMA PayPersist ==
    ASSUME TypeOK, PayInv, NEW w \in Workers, Persist(w)
    PROVE  PayInv'
<1> DEFINE t == tok[w]
<1> PICK reply \in {"idle", "show_unsaved"} : Goto(w, reply)
  BY DEF Persist
<1>1. /\ pc[w] = "persist"
      /\ conf' = [conf EXCEPT ![t] = "await_first"]
      /\ UNCHANGED <<consumed, shown, yes, confLock, paid>>
  BY DEF Persist, At, dialogue, locks
<1>2. t \in Tokens /\ HandlerOK(w) /\ RequestOK(t)
  BY <1>1, MyHandler
<1>3. conf[t] = "absent" /\ shown[t] # "none" /\ paid[t] = 0
  BY <1>1, <1>2 DEF HandlerOK, RequestOK
<1>4. conf'[t] = "await_first" /\ \A x \in Tokens \ {t} : conf'[x] = conf[x]
  BY <1>1, <1>2 DEF TypeOK
<1>5. OthersStay(w) /\ pc'[w] = reply /\ (reply # "idle" => tok'[w] = t)
  BY GotoMoves
<1>6. Grows(w)
  BY <1>1, <1>3, <1>4 DEF Grows, Dead
<1>7. shown[t] # "canceled" /\ shown[t] # "done"
  BY <1>2, <1>3 DEF RequestOK, Dead
<1>8. RequestsOK'
  BY <1>1, <1>3, <1>4, <1>7 DEF PayInv, RequestsOK, RequestOK, Dead
<1>9. HandlerOK(w)'
  BY <1>1, <1>3, <1>5 DEF HandlerOK, InTx
<1>10. QED
  BY <1>5, <1>6, <1>8, <1>9, PayStep

\* the four statements that move a row that nobody has locked, and that was
\* not paid: where the worker goes must fit the new state
LEMMA PayTransition ==
    ASSUME TypeOK, PayInv, NEW w \in Workers, NEW label \in PCs,
           pc[w] \notin {"idle", "persist", "show_unsaved"}, confLock[tok[w]] = None,
           Goto(w, label), label \notin InTx \cup {"persist", "show_done"},
           UNCHANGED <<consumed, shown, yes, confLock, paid>>,
           NEW new \in {"expired", "canceled", "await_second"},
           conf' = [conf EXCEPT ![tok[w]] = new],
           new = "await_second" => conf[tok[w]] = "await_first" /\ yes[tok[w]] # 0,
           new = "canceled" => conf[tok[w]] \in Awaiting,
           label \in {"first", "execute", "lock_conf", "lock_late"} => FALSE,
           label = "show_canceled" => new = "canceled"
    PROVE  PayInv'
<1> DEFINE t == tok[w]
<1>1. t \in Tokens /\ HandlerOK(w) /\ RequestOK(t) /\ pc[w] # "idle"
  BY MyHandler
<1>2. conf'[t] = new /\ \A x \in Tokens \ {t} : conf'[x] = conf[x]
  BY <1>1 DEF TypeOK
<1>3. OthersStay(w) /\ pc'[w] = label /\ (label # "idle" => tok'[w] = t)
  BY GotoMoves
<1>4. paid[t] = 1 => new = "expired"
  BY <1>1 DEF RequestOK, Awaiting
<1>5. shown[t] = "canceled" => new = "expired"
  BY <1>1 DEF RequestOK, Awaiting, Dead
<1>6. conf[t] \in Dead => new = "expired"
  BY DEF Awaiting, Dead
<1>7. Grows(w)
  BY <1>1, <1>2, <1>6 DEF Grows, Dead, HandlerOK
<1>8. shown[t] # "none" /\ conf[t] # "absent"
  BY <1>1 DEF HandlerOK
<1>9. ASSUME NEW x \in Tokens, x = t PROVE RequestOK(x)'
  BY <1>1, <1>2, <1>4, <1>5, <1>8, <1>9 DEF RequestOK, Dead
<1>10. RequestsOK'
  <2>1. ASSUME NEW x \in Tokens \ {t} PROVE RequestOK(x)'
    BY <1>2, <2>1 DEF PayInv, RequestsOK, RequestOK
  <2>2. QED
    BY <1>9, <2>1 DEF RequestsOK
<1>11. new = "canceled" => paid[t] = 0
  BY <1>1, <1>4 DEF RequestOK
<1>12. HandlerOK(w)'
  <2>1. CASE label = "idle"
    BY <1>3, <2>1 DEF HandlerOK, InTx
  <2>2. CASE label # "idle"
    BY <1>2, <1>3, <1>8, <1>11, <2>2 DEF HandlerOK, Dead
  <2>3. QED
    BY <2>1, <2>2
<1>13. QED
  BY <1>3, <1>7, <1>10, <1>12, PayStep

\* a worker that goes on to the next statement about the same request
LEMMA PayGoto ==
    ASSUME TypeOK, PayInv, NEW w \in Workers, NEW label \in PCs, pc[w] # "idle",
           Goto(w, label), UNCHANGED <<conf, consumed, shown, yes, confLock, paid>>,
           label \notin {"persist", "first", "show_done", "show_canceled"},
           label \in {"execute", "lock_conf", "lock_late"} \cup InTx =>
               pc[w] \in {"execute", "lock_conf", "lock_late"} \cup InTx,
           label \in InTx => pc[w] \in InTx,
           pc[w] \in {"persist", "show_unsaved"} => label \in {"idle", "show_unsaved"}
    PROVE  PayInv'
<1>1. tok[w] \in Tokens /\ HandlerOK(w)
  BY MyHandler
<1>2. OthersStay(w) /\ pc'[w] = label /\ (label # "idle" => tok'[w] = tok[w])
  BY GotoMoves
<1>3. HandlerOK(w)'
  <2>1. CASE label = "idle"
    BY <1>2, <2>1 DEF HandlerOK, InTx
  <2>2. CASE label # "idle"
    BY <1>1, <1>2, <2>2 DEF HandlerOK
  <2>3. QED
    BY <2>1, <2>2
<1>4. QED
  BY <1>2, <1>3, PayMoveOnly

LEMMA PayDialogue ==
    ASSUME TypeOK, PayInv, NEW w \in Workers,
           MarkExpired(w) \/ Cancel(w) \/ FirstYes(w)
    PROVE  PayInv'
<1> USE DEF At, dialogue, locks
<1>1. /\ pc[w] \in {"mark_expired", "cancel", "first"}
      /\ confLock[tok[w]] = None
      /\ UNCHANGED <<consumed, shown, yes, confLock, paid>>
  BY DEF MarkExpired, Cancel, FirstYes, Transition
<1>2. tok[w] \in Tokens /\ HandlerOK(w)
  BY <1>1, MyHandler
<1>3. CASE UNCHANGED conf
  <2>1. PICK label \in {"show_expired", "idle", "reload"} : Goto(w, label)
    <3>1. MarkExpired(w) => Goto(w, "show_expired")
      BY DEF MarkExpired, Transition
    <3>2. Cancel(w) => Goto(w, "idle")
      BY <1>2, <1>3 DEF Cancel, Transition, TypeOK, Awaiting
    <3>3. FirstYes(w) => Goto(w, "reload")
      BY <1>2, <1>3 DEF FirstYes, Transition, TypeOK
    <3>4. QED
      BY <3>1, <3>2, <3>3
  <2>2. label \in PCs /\ label \notin InTx
    BY DEF PCs, Editing, Statements, InTx
  <2>3. QED
    BY <1>1, <1>3, <2>1, <2>2, PayGoto
<1>4. CASE ~UNCHANGED conf
  <2>1. PICK new \in {"expired", "canceled", "await_second"},
             label \in {"show_expired", "show_canceled", "show_second", "idle"} :
          /\ Goto(w, label) /\ conf' = [conf EXCEPT ![tok[w]] = new]
          /\ new = "await_second" => conf[tok[w]] = "await_first" /\ pc[w] = "first"
          /\ new = "canceled" => conf[tok[w]] \in Awaiting
          /\ label = "show_canceled" => new = "canceled"
    BY <1>4 DEF MarkExpired, Cancel, FirstYes, Transition
  <2>2. label \in PCs /\ label \notin InTx \cup {"persist", "show_done"}
    BY DEF PCs, Editing, InTx
  <2>3. new = "await_second" => yes[tok[w]] # 0
    BY <1>2, <2>1 DEF HandlerOK
  <2>4. QED
    BY <1>1, <2>1, <2>2, <2>3, PayTransition
<1>5. QED
  BY <1>3, <1>4

LEMMA PayOnward ==
    ASSUME TypeOK, PayInv, NEW w \in Workers,
           Reload(w) \/ BeginExecution(w) \/ ExecuteConflict(w) \/ StatementFails(w)
           \/ EnsureSender(w) \/ EnsureRecipient(w) \/ LockSender(w) \/ CreditRecipient(w)
    PROVE  PayInv'
<1> USE DEF At, dialogue, locks, db
<1>1. UNCHANGED <<conf, consumed, shown, yes, confLock, paid>>
  BY DEF Reload, BeginExecution, ExecuteConflict, StatementFails, EnsureSender,
         EnsureRecipient, EnsureRow, LockSender, CreditRecipient
<1>2. CASE Reload(w) \/ ExecuteConflict(w) \/ StatementFails(w)
  <2>1. PICK label \in {"show_second", "idle", "show_expired", "show_unsaved"} :
          /\ Goto(w, label) /\ pc[w] # "idle"
          /\ pc[w] \in {"persist", "show_unsaved"} => label \in {"idle", "show_unsaved"}
    BY <1>2 DEF Reload, ExecuteConflict, StatementFails
  <2>2. label \in PCs /\ label \notin InTx
    BY DEF PCs, Editing, InTx
  <2>3. QED
    BY <1>1, <2>1, <2>2, PayGoto
<1>3. CASE BeginExecution(w)
  <2>1. PICK label \in {"lock_conf", "lock_late"} : Goto(w, label) /\ pc[w] = "execute"
    BY <1>3 DEF BeginExecution
  <2>2. label \in PCs /\ label \notin InTx
    BY DEF PCs, Statements, InTx
  <2>3. QED
    BY <1>1, <2>1, <2>2, PayGoto
<1>4. CASE EnsureSender(w) \/ EnsureRecipient(w) \/ LockSender(w) \/ CreditRecipient(w)
  <2>1. PICK label \in {"ensure_to", "lock_from", "fail", "credit", "commit"} :
          Goto(w, label) /\ pc[w] \in {"ensure_from", "ensure_to", "lock_from", "credit"}
    BY <1>4 DEF EnsureSender, EnsureRecipient, EnsureRow, LockSender, CreditRecipient
  <2>2. label \in PCs /\ label \in InTx /\ pc[w] \in InTx
    BY <2>1 DEF PCs, InTx
  <2>3. QED
    BY <1>1, <2>1, <2>2, PayGoto
<1>5. QED
  BY <1>2, <1>3, <1>4

LEMMA PayLate ==
    ASSUME TypeOK, PayInv, NEW w \in Workers, ExecuteExpired(w)
    PROVE  PayInv'
<1> PICK reply \in {"idle", "show_failed"} : Goto(w, reply)
  BY DEF ExecuteExpired
<1>1. /\ pc[w] = "lock_late" /\ confLock[tok[w]] = None
      /\ conf' = [conf EXCEPT ![tok[w]] = "expired"]
      /\ UNCHANGED <<consumed, shown, yes, confLock, paid>>
  BY DEF ExecuteExpired, At, dialogue, locks
<1>2. reply \in PCs /\ reply \notin InTx
  BY DEF PCs, Editing, InTx
<1>3. QED
  BY <1>1, <1>2, PayTransition

LEMMA PayEdit ==
    ASSUME TypeOK, PayInv, NEW w \in Workers, EditMessage(w)
    PROVE  PayInv'
<1> DEFINE t == tok[w]
<1>1. /\ pc[w] \in Editing /\ Goto(w, "idle")
      /\ UNCHANGED <<conf, consumed, yes, confLock, paid>>
      /\ shown' \in {shown, [shown EXCEPT ![t] = Screen(pc[w])]}
  BY DEF EditMessage, locks
<1>2. OthersStay(w) /\ pc'[w] = "idle"
  BY <1>1, GotoMoves
<1>3. t \in Tokens /\ HandlerOK(w) /\ RequestOK(t) /\ pc[w] # "idle"
  BY <1>1, MyHandler DEF Editing
<1>4. /\ Screen(pc[w]) # "none"
      /\ Screen(pc[w]) = "done" => paid[t] = 1
      /\ Screen(pc[w]) = "canceled" => conf[t] \in Dead /\ paid[t] = 0
  BY <1>1, <1>3 DEF Screen, Editing, HandlerOK
<1>5. \A x \in Tokens : shown'[x] = shown[x] \/ (x = t /\ shown'[x] = Screen(pc[w]))
  BY <1>1, <1>3 DEF TypeOK
<1>6. Grows(w)
  BY <1>1, <1>4, <1>5 DEF Grows
<1>7. RequestsOK'
  <2>1. ASSUME NEW x \in Tokens PROVE RequestOK(x)'
    <3>1. RequestOK(x)
      BY DEF PayInv, RequestsOK
    <3>2. CASE shown'[x] = shown[x]
      BY <1>1, <3>1, <3>2 DEF RequestOK
    <3>3. CASE x = t /\ shown'[x] = Screen(pc[w])
      BY <1>1, <1>4, <3>1, <3>3 DEF RequestOK
    <3>4. QED
      BY <1>5, <3>2, <3>3
  <2>2. QED
    BY <2>1 DEF RequestsOK
<1>8. HandlerOK(w)'
  BY <1>2 DEF HandlerOK, InTx
<1>9. QED
  BY <1>2, <1>6, <1>7, <1>8, PayStep
-----------------------------------------------------------------------------
(* The transaction.                                                         *)

LEMMA PayLock ==
    ASSUME TypeOK, PayInv, NEW w \in Workers, ExecuteLock(w)
    PROVE  PayInv'
<1> DEFINE t == tok[w]
<1>1. /\ pc[w] = "lock_conf" /\ confLock[t] = None /\ Goto(w, "ensure_from")
      /\ conf[t] = "await_second" /\ ~consumed[t]
      /\ confLock' = [confLock EXCEPT ![t] = w]
      /\ UNCHANGED <<conf, consumed, shown, yes, paid>>
  BY DEF ExecuteLock, At, dialogue
<1>2. t \in Tokens /\ HandlerOK(w)
  BY <1>1, MyHandler
<1>3. OthersStay(w) /\ pc'[w] = "ensure_from" /\ tok'[w] = t
  BY <1>1, GotoMoves
<1>4. confLock'[t] = w /\ \A x \in Tokens \ {t} : confLock'[x] = confLock[x]
  BY <1>1, <1>2 DEF TypeOK
<1>5. Grows(w)
  BY <1>1, <1>4 DEF Grows
<1>6. RequestsOK'
  BY <1>1 DEF PayInv, RequestsOK, RequestOK
<1>7. shown[t] # "none" /\ yes[t] = 2
  BY <1>1, <1>2 DEF HandlerOK
<1>8. HandlerOK(w)'
  BY <1>1, <1>3, <1>4, <1>7 DEF HandlerOK
<1>9. QED
  BY <1>3, <1>5, <1>6, <1>8, PayStep

LEMMA ReleaseKeeps ==
    ASSUME TypeOK, NEW w \in Workers, ReleaseLocks(w), NEW t \in Tokens,
           confLock[t] \notin {None, w}
    PROVE  confLock'[t] = confLock[t]
BY DEF ReleaseLocks, TypeOK

LEMMA PayRollBack ==
    ASSUME TypeOK, PayInv, NEW w \in Workers, RollBack(w),
           pc[w] \in InTx \cup {"lock_conf", "lock_late"}
    PROVE  PayInv'
<1>1. /\ ReleaseLocks(w) /\ Goto(w, "show_failed")
      /\ UNCHANGED <<conf, consumed, shown, yes, paid>>
  BY DEF RollBack, dialogue
<1>2. tok[w] \in Tokens /\ HandlerOK(w) /\ pc[w] \notin {"idle", "persist", "show_unsaved"}
  BY MyHandler DEF InTx
<1>3. OthersStay(w) /\ pc'[w] = "show_failed" /\ tok'[w] = tok[w]
  BY <1>1, GotoMoves
<1>4. Grows(w)
  BY <1>1, ReleaseKeeps DEF Grows
<1>5. RequestsOK'
  BY <1>1 DEF PayInv, RequestsOK, RequestOK
<1>6. HandlerOK(w)'
  BY <1>1, <1>2, <1>3 DEF HandlerOK, InTx
<1>7. QED
  BY <1>3, <1>4, <1>5, <1>6, PayStep

\* the request that commits was neither paid nor shown as finished
LEMMA PayCommit ==
    ASSUME TypeOK, PayInv, NEW w \in Workers, CommitTransfer(w) \/ CommitFailure(w)
    PROVE  PayInv'
<1> DEFINE t == tok[w]
<1>1. pc[w] \in {"commit", "fail"} /\ ReleaseLocks(w) /\ UNCHANGED <<shown, yes>>
      /\ consumed' = [consumed EXCEPT ![t] = TRUE]
  BY DEF CommitTransfer, CommitFailure, At, dialogue
<1>2. t \in Tokens /\ HandlerOK(w) /\ RequestOK(t)
  BY <1>1, MyHandler
<1>3. /\ confLock[t] = w /\ conf[t] = "await_second" /\ ~consumed[t]
      /\ yes[t] = 2 /\ shown[t] # "none"
  BY <1>1, <1>2 DEF HandlerOK, InTx
<1>4. paid[t] = 0 /\ shown[t] # "done" /\ shown[t] # "canceled"
  BY <1>2, <1>3 DEF RequestOK, Dead
<1>5. PICK new \in {"completed", "failed"}, label \in {"show_done", "show_failed"} :
        /\ conf' = [conf EXCEPT ![t] = new] /\ Goto(w, label)
        /\ paid' = [paid EXCEPT ![t] = IF new = "completed" THEN 1 ELSE 0]
        /\ label = "show_done" => new = "completed"
  <2>1. CASE CommitTransfer(w)
    <3>1. paid' = [paid EXCEPT ![t] = 1]
      BY <1>2, <1>4, <2>1 DEF CommitTransfer, TypeOK
    <3>2. QED
      BY <2>1, <3>1 DEF CommitTransfer
  <2>2. CASE CommitFailure(w)
    <3>1. paid' = [paid EXCEPT ![t] = 0]
      BY <1>2, <1>4, <2>2 DEF CommitFailure, TypeOK
    <3>2. QED
      BY <2>2, <3>1 DEF CommitFailure
  <2>3. QED
    BY <2>1, <2>2
<1>6. OthersStay(w) /\ pc'[w] = label /\ tok'[w] = t
  BY <1>5, GotoMoves
<1>7. /\ conf'[t] = new /\ consumed'[t] = TRUE
      /\ paid'[t] = IF new = "completed" THEN 1 ELSE 0
      /\ \A x \in Tokens \ {t} : /\ conf'[x] = conf[x] /\ paid'[x] = paid[x]
                                 /\ consumed'[x] <=> consumed[x]
  BY <1>1, <1>2, <1>5 DEF TypeOK
<1>8. Grows(w)
  <2>1. ASSUME NEW x \in Tokens, conf[x] = "await_second", confLock[x] \notin {None, w}
        PROVE  /\ conf'[x] = conf[x] /\ (consumed'[x] <=> consumed[x])
               /\ confLock'[x] = confLock[x]
    BY <1>1, <1>3, <1>7, <2>1, ReleaseKeeps
  <2>2. QED
    BY <1>1, <1>3, <1>4, <1>7, <2>1 DEF Grows, Dead
<1>9. RequestsOK'
  <2>1. ASSUME NEW x \in Tokens, x = t PROVE RequestOK(x)'
    <3>1. /\ shown'[x] \notin {"none", "done", "canceled"} /\ yes'[x] = 2
          /\ consumed'[x] /\ conf'[x] = new
      BY <1>1, <1>3, <1>4, <1>7, <2>1
    <3>2. paid'[x] = IF new = "completed" THEN 1 ELSE 0
      BY <1>7, <2>1
    <3>3. QED
      BY <3>1, <3>2 DEF RequestOK
  <2>2. ASSUME NEW x \in Tokens \ {t} PROVE RequestOK(x)'
    <3>1. RequestOK(x)
      BY DEF PayInv, RequestsOK
    <3>2. /\ conf'[x] = conf[x] /\ paid'[x] = paid[x] /\ yes' = yes /\ shown' = shown
          /\ consumed'[x] <=> consumed[x]
      BY <1>1, <1>7, <2>2
    <3>3. QED
      BY <3>1, <3>2 DEF RequestOK
  <2>3. QED
    BY <2>1, <2>2 DEF RequestsOK
<1>10. HandlerOK(w)'
  BY <1>1, <1>3, <1>5, <1>6, <1>7 DEF HandlerOK, InTx
<1>11. QED
  BY <1>5, <1>6, <1>8, <1>9, <1>10, PayStep
-----------------------------------------------------------------------------
LEMMA PayWorker ==
    ASSUME TypeOK, PayInv, NEW w \in Workers, Begin(w) \/ Step(w) \/ Failure(w)
    PROVE  PayInv'
<1>1. CASE Begin(w)
  BY <1>1, PayStart, PayClick DEF Begin
<1>2. CASE ForeignKeyRefuses(w) \/ TransactionFails(w) \/ DeadlockVictim(w)
  <2>1. RollBack(w) /\ pc[w] \in InTx \cup {"lock_conf", "lock_late"}
    BY <1>2, VictimInTx
    DEF ForeignKeyRefuses, TransactionFails, DeadlockVictim, At, InTx
  <2>2. QED
    BY <2>1, PayRollBack
<1>3. QED
  BY <1>1, <1>2, PayPersist, PayDialogue, PayOnward, PayLate, PayEdit, PayLock,
     PayCommit
  DEF Step, Execution, Failure

LEMMA PayNext == TypeOK /\ PayInv /\ [Next]_vars => PayInv'
<1> SUFFICES ASSUME TypeOK, PayInv, [Next]_vars PROVE PayInv'
  OBVIOUS
<1>1. ASSUME UNCHANGED <<conf, consumed, shown, yes, confLock, pc, tok, paid>>
      PROVE  PayInv'
  BY <1>1
  DEF PayInv, RequestsOK, RequestOK, HandlersOK, HandlerOK, OnePersister
<1>2. CASE Crash
  <2>1. \A w \in Workers : pc'[w] = "idle"
    BY <1>2 DEF Crash
  <2>2. UNCHANGED <<conf, consumed, shown, yes, paid>>
    BY <1>2 DEF Crash, dialogue
  <2>3. RequestsOK'
    BY <2>2 DEF PayInv, RequestsOK, RequestOK
  <2>4. HandlersOK' /\ OnePersister'
    BY <2>1 DEF HandlersOK, HandlerOK, OnePersister, InTx
  <2>5. QED
    BY <2>3, <2>4 DEF PayInv
<1>3. CASE World
  BY <1>1, <1>3
  DEF World, TimePasses, Award, Charge, Seen, CreateBalance, Purge, dialogue, locks
<1>4. CASE UNCHANGED vars
  BY <1>1, <1>4 DEF vars, dialogue, locks
<1>5. QED
  BY <1>2, <1>3, <1>4, PayWorker DEF Next

\* A request is paid at most once, and a paid one stays consumed.
THEOREM PaidAtMostOnceCorrect == Spec => []PaidAtMostOnce
<1>1. Init => TypeOK /\ PayInv
  BY TypeInit, PayInit
<1>2. TypeOK /\ PayInv /\ [Next]_vars => (TypeOK /\ PayInv)'
  BY TypeNext, PayNext
<1>3. PayInv => PaidAtMostOnce
  BY DEF PayInv, RequestsOK, RequestOK, PaidAtMostOnce
<1>4. QED
  BY <1>1, <1>2, <1>3, PTL DEF Spec

\* Money moves only after a Yes of the owner to each question, the second one
\* handled after the row had moved on to it.
THEOREM PaidAfterTwoYesCorrect == Spec => []PaidAfterTwoYes
<1>1. Init => TypeOK /\ PayInv
  BY TypeInit, PayInit
<1>2. TypeOK /\ PayInv /\ [Next]_vars => (TypeOK /\ PayInv)'
  BY TypeNext, PayNext
<1>3. PayInv => PaidAfterTwoYes
  BY DEF PayInv, RequestsOK, RequestOK, PaidAfterTwoYes
<1>4. QED
  BY <1>1, <1>2, <1>3, PTL DEF Spec

\* A message says "sent" only of a payment that was committed and "cancelled" only
\* of one that was not.  ("failed" is said of both when an answer is lost.)
THEOREM MessageIsTrueCorrect == Spec => []MessageIsTrue
<1>1. Init => TypeOK /\ PayInv
  BY TypeInit, PayInit
<1>2. TypeOK /\ PayInv /\ [Next]_vars => (TypeOK /\ PayInv)'
  BY TypeNext, PayNext
<1>3. PayInv => MessageIsTrue
  BY DEF PayInv, RequestsOK, RequestOK, MessageIsTrue
<1>4. QED
  BY <1>1, <1>2, <1>3, PTL DEF Spec
-----------------------------------------------------------------------------
(* Final states stay final in one instance of the bot.  What overwrites any *)
(* state is the test of the expiry inside the transaction; while the worker *)
(* goes from the callback to that test nobody else handles its chat, so the *)
(* row still waits for the second click when it is overwritten.             *)

OnePerChat ==
    \A v, w \in Workers :
        v # w /\ pc[v] # "idle" /\ pc[w] # "idle" => ChatOf[tok[v]] # ChatOf[tok[w]]

WaitsForSecond(w) == pc[w] \in {"execute", "lock_late"} => conf[tok[w]] = "await_second"

ChatInv == OnePerChat /\ \A w \in Workers : WaitsForSecond(w)

\* An update that is taken up finds its chat free; only a click on a request that
\* waits for the second one leads to the transaction.
LEMMA TakesUp ==
    ASSUME TypeOK, NEW w \in Workers, Begin(w)
    PROVE  /\ OthersStay(w) /\ UNCHANGED conf
           /\ pc'[w] # "idle" =>
                \E t \in Tokens : /\ tok'[w] = t /\ ChatFree(w, t)
                                  /\ pc'[w] # "lock_late"
                                  /\ pc'[w] = "execute" => conf[t] = "await_second"
<1>1. PICK t \in Tokens : \/ StartTransfer(w, t)
                          \/ \E u \in Active, answer \in {"yes", "no"} : Click(w, t, u, answer)
  BY DEF Begin
<1>2. CASE StartTransfer(w, t)
  BY <1>2, TakeUpMoves DEF StartTransfer
<1>3. ASSUME NEW u \in Active, NEW answer \in {"yes", "no"}, Click(w, t, u, answer)
      PROVE  /\ OthersStay(w) /\ UNCHANGED conf
             /\ pc'[w] # "idle" =>
                /\ tok'[w] = t /\ ChatFree(w, t) /\ pc'[w] # "lock_late"
                /\ pc'[w] = "execute" => conf[t] = "await_second"
  <2> DEFINE label == AfterPrepare(t, u, answer)
  <2>1. conf[t] \in States
    BY DEF TypeOK
  <2>2. label # "lock_late" /\ (label = "execute" => conf[t] = "await_second")
    BY <2>1 DEF AfterPrepare, States, Awaiting, Final
  <2>3. OthersStay(w) /\ pc'[w] = label /\ (label # "idle" => tok'[w] = t)
    BY <1>3, TakeUpMoves DEF Click
  <2>4. QED
    BY <1>3, <2>2, <2>3 DEF Click
<1>4. QED
  BY <1>1, <1>2, <1>3

\* A handler keeps to its request and writes to no other row.
LEMMA KeepsToRequest ==
    ASSUME TypeOK, NEW w \in Workers, Step(w) \/ Failure(w)
    PROVE  /\ OthersStay(w) /\ pc[w] # "idle"
           /\ pc'[w] # "idle" => tok'[w] = tok[w]
           /\ pc'[w] # "execute"
           /\ pc'[w] = "lock_late" => pc[w] = "execute" /\ UNCHANGED conf
           /\ \A t \in Tokens \ {tok[w]} : conf'[t] = conf[t]
<1> DEFINE Written == \/ UNCHANGED conf
                      \/ \E s \in States : conf' = [conf EXCEPT ![tok[w]] = s]
<1>1. SUFFICES \E label : /\ Goto(w, label) /\ label # "execute" /\ pc[w] # "idle" /\ Written
                          /\ label = "lock_late" => pc[w] = "execute" /\ UNCHANGED conf
  <2>1. Written => \A t \in Tokens \ {tok[w]} : conf'[t] = conf[t]
    BY DEF TypeOK
  <2>2. QED
    BY <2>1, GotoMoves
<1>2. CASE Persist(w) \/ Reload(w) \/ EditMessage(w) \/ StatementFails(w)
  <2>1. pc[w] # "idle" /\ Written
    BY <1>2 DEF Persist, Reload, EditMessage, StatementFails, At, Editing, States, Awaiting
  <2>2. \E label \in {"idle", "show_second", "show_expired", "show_unsaved"} : Goto(w, label)
    BY <1>2 DEF Persist, Reload, EditMessage, StatementFails
  <2> HIDE DEF Written
  <2>3. QED
    BY <2>1, <2>2
<1>3. CASE MarkExpired(w) \/ Cancel(w) \/ FirstYes(w)
  <2>1. pc[w] # "idle" /\ Written
    BY <1>3 DEF MarkExpired, Cancel, FirstYes, Transition, At, States, Awaiting, Final
  <2>2. \E label \in {"show_expired", "show_canceled", "show_second", "reload", "idle"} :
          Goto(w, label)
    BY <1>3 DEF MarkExpired, Cancel, FirstYes, Transition
  <2> HIDE DEF Written
  <2>3. QED
    BY <2>1, <2>2
<1>4. CASE BeginExecution(w) \/ ExecuteExpired(w) \/ ExecuteConflict(w) \/ ExecuteLock(w)
  <2>1. CASE BeginExecution(w)
    BY <2>1 DEF BeginExecution, At
  <2>2. CASE ExecuteExpired(w)
    <3>1. /\ Goto(w, "idle") \/ Goto(w, "show_failed")
          /\ pc[w] # "idle" /\ conf' = [conf EXCEPT ![tok[w]] = "expired"]
      BY <2>2 DEF ExecuteExpired, At
    <3>2. Written
      BY <3>1 DEF States, Final
    <3> HIDE DEF Written
    <3>3. QED
      BY <3>1, <3>2
  <2>3. CASE ExecuteConflict(w) \/ ExecuteLock(w)
    BY <2>3 DEF ExecuteConflict, ExecuteLock, At
  <2>4. QED
    BY <1>4, <2>1, <2>2, <2>3
<1>5. CASE EnsureSender(w) \/ EnsureRecipient(w) \/ LockSender(w) \/ CreditRecipient(w)
  <2>1. CASE EnsureSender(w)
    BY <2>1 DEF EnsureSender, EnsureRow, At
  <2>2. CASE EnsureRecipient(w)
    BY <2>2 DEF EnsureRecipient, EnsureRow, At
  <2>3. CASE LockSender(w)
    <3>1. /\ pc[w] = "lock_from" /\ UNCHANGED conf
          /\ Goto(w, "credit") \/ Goto(w, "fail")
      BY <2>3 DEF LockSender, At
    <3> HIDE DEF Written
    <3>2. Written
      BY <3>1 DEF Written
    <3>3. QED
      BY <3>1, <3>2
  <2>4. CASE CreditRecipient(w)
    BY <2>4 DEF CreditRecipient, At
  <2>5. QED
    BY <1>5, <2>1, <2>2, <2>3, <2>4
<1>6. CASE CommitTransfer(w) \/ CommitFailure(w)
  <2>1. \E label \in {"show_done", "show_failed"} : Goto(w, label)
    BY <1>6 DEF CommitTransfer, CommitFailure
  <2>2. pc[w] # "idle" /\ \E s \in {"completed", "failed"} : conf' = [conf EXCEPT ![tok[w]] = s]
    BY <1>6 DEF CommitTransfer, CommitFailure, At
  <2>3. Written
    BY <2>2 DEF States, Final
  <2> HIDE DEF Written
  <2>4. QED
    BY <2>1, <2>2, <2>3
<1>7. CASE ForeignKeyRefuses(w) \/ TransactionFails(w) \/ DeadlockVictim(w)
  <2>1. RollBack(w) /\ pc[w] # "idle"
    BY <1>7, VictimInTx
    DEF ForeignKeyRefuses, TransactionFails, DeadlockVictim, At, InTx
  <2>2. QED
    BY <2>1 DEF RollBack
<1>8. QED
  BY <1>2, <1>3, <1>4, <1>5, <1>6, <1>7 DEF Step, Execution, Failure

LEMMA ChatInit == Init => ChatInv
BY DEF Init, ChatInv, OnePerChat, WaitsForSecond

LEMMA ChatNext ==
    ASSUME PerChat, TypeOK, ChatInv, [Next]_vars
    PROVE  ChatInv'
<1>1. ASSUME NEW w \in Workers, Begin(w) PROVE ChatInv'
  <2>1. OthersStay(w) /\ UNCHANGED conf
    BY <1>1, TakesUp
  <2>2. pc'[w] # "idle" =>
          \A v \in Workers \ {w} : pc[v] # "idle" => ChatOf[tok[v]] # ChatOf[tok'[w]]
    BY <1>1, TakesUp DEF ChatFree
  <2>3. OnePerChat'
    BY <2>1, <2>2 DEF ChatInv, OnePerChat, OthersStay
  <2>4. WaitsForSecond(w)'
    BY <1>1, <2>1, TakesUp DEF WaitsForSecond
  <2>5. ASSUME NEW v \in Workers \ {w} PROVE WaitsForSecond(v)'
    BY <2>1 DEF ChatInv, WaitsForSecond, OthersStay
  <2>6. QED
    BY <2>3, <2>4, <2>5 DEF ChatInv
<1>2. ASSUME NEW w \in Workers, Step(w) \/ Failure(w) PROVE ChatInv'
  <2>1. /\ OthersStay(w) /\ pc[w] # "idle" /\ (pc'[w] # "idle" => tok'[w] = tok[w])
        /\ \A t \in Tokens \ {tok[w]} : conf'[t] = conf[t]
    BY <1>2, KeepsToRequest
  <2>2. OnePerChat'
    BY <2>1 DEF ChatInv, OnePerChat, OthersStay
  <2>3. WaitsForSecond(w)'
    BY <1>2, KeepsToRequest DEF ChatInv, WaitsForSecond
  <2>4. ASSUME NEW v \in Workers \ {w} PROVE WaitsForSecond(v)'
    <3>1. pc'[v] = pc[v] /\ tok'[v] = tok[v]
      BY <2>1 DEF OthersStay
    <3>2. pc[v] # "idle" => tok[v] \in Tokens \ {tok[w]}
      BY <2>1, BusyHasToken DEF ChatInv, OnePerChat
    <3>3. QED
      BY <2>1, <3>1, <3>2 DEF ChatInv, WaitsForSecond
  <2>5. QED
    BY <2>2, <2>3, <2>4 DEF ChatInv
<1>3. CASE Crash
  BY <1>3 DEF Crash, ChatInv, OnePerChat, WaitsForSecond
<1>4. CASE World
  <2>1. UNCHANGED <<conf, pc, tok>>
    BY <1>4 DEF World, TimePasses, Award, Charge, Seen, CreateBalance, Purge
  <2>2. QED
    BY <2>1 DEF ChatInv, OnePerChat, WaitsForSecond
<1>5. CASE UNCHANGED vars
  BY <1>5 DEF vars, ChatInv, OnePerChat, WaitsForSecond
<1>6. QED
  BY <1>1, <1>2, <1>3, <1>4, <1>5 DEF Next

\* what a step finds in the row it writes
LEMMA FinalStep ==
    ASSUME TypeOK, PayInv, ChatInv, [Next]_vars, NEW t \in Tokens, conf[t] \in Final
    PROVE  conf'[t] = conf[t]
<1>1. SUFFICES ASSUME NEW w \in Workers, Step(w) \/ Failure(w), tok[w] = t
               PROVE  conf'[t] = conf[t]
  <2>1. CASE \E w \in Workers : Begin(w)
    BY <2>1, TakesUp
  <2>2. CASE \E w \in Workers : Step(w) \/ Failure(w)
    BY <1>1, <2>2, KeepsToRequest
  <2>3. CASE Crash \/ World \/ UNCHANGED vars
    BY <2>3 DEF Crash, World, TimePasses, Award, Charge, Seen, CreateBalance, Purge, vars
  <2>4. QED
    BY <2>1, <2>2, <2>3 DEF Next
<1>2. conf[t] # "absent" /\ conf[t] \notin Awaiting
  BY DEF Final, Awaiting
<1>3. ~Persist(w) /\ ~ExecuteExpired(w) /\ ~CommitTransfer(w) /\ ~CommitFailure(w)
  <2>1. HandlerOK(w) /\ WaitsForSecond(w)
    BY DEF PayInv, HandlersOK, ChatInv
  <2>2. QED
    BY <1>1, <1>2, <2>1
    DEF Persist, ExecuteExpired, CommitTransfer, CommitFailure, At, HandlerOK,
        WaitsForSecond, InTx, Awaiting
<1>4. CASE MarkExpired(w) \/ Cancel(w) \/ FirstYes(w)
  BY <1>1, <1>2, <1>4 DEF MarkExpired, Cancel, FirstYes, Transition, Awaiting
<1>5. CASE Reload(w) \/ EditMessage(w) \/ Failure(w) \/ ForeignKeyRefuses(w)
  BY <1>5 DEF Reload, EditMessage, Failure, StatementFails, TransactionFails,
              DeadlockVictim, ForeignKeyRefuses, RollBack
<1>6. CASE \/ BeginExecution(w) \/ ExecuteConflict(w) \/ ExecuteLock(w)
           \/ EnsureSender(w) \/ EnsureRecipient(w) \/ LockSender(w) \/ CreditRecipient(w)
  BY <1>6 DEF BeginExecution, ExecuteConflict, ExecuteLock, EnsureSender, EnsureRecipient, EnsureRow, LockSender,
              CreditRecipient
<1>7. QED
  BY <1>1, <1>3, <1>4, <1>5, <1>6 DEF Step, Execution

\* With one instance of the bot, a request that was completed, cancelled,
\* failed or expired keeps that state for ever (FinalIsFinal).
THEOREM FinalIsFinalCorrect == ASSUME PerChat PROVE Spec => FinalIsFinal
<1>1. Init => TypeOK /\ PayInv /\ ChatInv
  BY TypeInit, PayInit, ChatInit
<1>2. TypeOK /\ PayInv /\ ChatInv /\ [Next]_vars => (TypeOK /\ PayInv /\ ChatInv)'
  BY TypeNext, PayNext, ChatNext
<1>3. TypeOK /\ PayInv /\ ChatInv /\ [Next]_vars =>
        [\A t \in Tokens : conf[t] \in Final => conf'[t] = conf[t]]_vars
  BY FinalStep
<1>4. QED
  BY <1>1, <1>2, <1>3, PTL DEF Spec, FinalIsFinal
-----------------------------------------------------------------------------
(* The refinement.  A transaction that has inserted the missing rows finds  *)
(* the recipient's row when it credits it, or the recipient was purged; and *)
(* if somebody purged never comes back, no COMMIT finds him a member: the   *)
(* foreign key of the ledger refuses the half of a payment.                 *)

Gone(u) == u \in Leavers \ (Active \cup members)

Delivers(w) ==
    /\ pc[w] \in {"lock_from", "credit"} =>
         To[tok[w]] \in rows \/ rowLock[To[tok[w]]] = w \/ Gone(To[tok[w]])
    /\ pc[w] = "commit" => rowLock[To[tok[w]]] = w \/ Gone(To[tok[w]])

DeliveryInv == \A w \in Workers : Delivers(w)

LEMMA DeliveryInit == Init => DeliveryInv
BY DEF Init, DeliveryInv, Delivers

\* what every step of the others leaves
Leaves(w) ==
    /\ \A u \in Users : rowLock[u] = w => rowLock'[u] = w
    /\ \A u \in Users : Gone(u) => Gone(u)'
    /\ \A u \in rows : u \in rows' \/ Gone(u)'

LEMMA DeliversStill ==
    ASSUME TypeOK, NEW w \in Workers, Delivers(w), Leaves(w),
           pc'[w] = pc[w], tok'[w] = tok[w]
    PROVE  Delivers(w)'
<1>1. CASE pc[w] \in {"lock_from", "credit", "commit"}
  <2>1. To[tok[w]] \in Users
    BY <1>1, BusyHasToken
  <2>2. QED
    BY <2>1 DEF Delivers, Leaves, Gone
<1>2. CASE pc[w] \notin {"lock_from", "credit", "commit"}
  BY <1>2 DEF Delivers
<1>3. QED
  BY <1>1, <1>2

LEMMA DeliveryWorker ==
    ASSUME Leavers \cap Active = {}, TypeOK, DeliveryInv,
           NEW w \in Workers, Begin(w) \/ Step(w) \/ Failure(w)
    PROVE  DeliveryInv'
<1>1. ASSUME OthersStay(w), Unlocking(w), rows \subseteq rows',
             members' = members \/ \E u \in Active : members' = members \cup {u},
             Delivers(w)'
      PROVE  DeliveryInv'
  <2>1. ASSUME NEW v \in Workers \ {w} PROVE Delivers(v)'
    <3>1. \A u \in Users : rowLock[u] = v => rowLock'[u] = v
      BY <1>1 DEF Unlocking
    <3>2. Leaves(v)
      BY <1>1, <3>1 DEF Leaves, Gone
    <3>3. QED
      BY <1>1, <3>2, DeliversStill DEF DeliveryInv, OthersStay
  <2>2. QED
    BY <1>1, <2>1 DEF DeliveryInv
<1>2. CASE Quiet(w)
  <2>1. UNCHANGED rowLock /\ OthersStay(w) /\ pc'[w] \notin {"lock_from", "credit", "commit"}
    BY <1>2, QuietMoves
  <2>2. rows' = rows /\ (members' = members \/ \E u \in Active : members' = members \cup {u})
    BY <1>2 DEF Quiet, StartTransfer, Click, Persist, MarkExpired, Cancel, FirstYes, Transition,
                Reload, EditMessage, BeginExecution, ExecuteExpired, ExecuteConflict,
                ExecuteLock, StatementFails, db
  <2>3. QED
    BY <1>1, <2>1, <2>2 DEF Delivers, Unlocking
<1>3. CASE RollBack(w) \/ CommitFailure(w)
  <2>1. Unlocking(w) /\ OthersStay(w) /\ pc'[w] \notin {"credit", "commit"}
    BY <1>3, RollBackMoves
  <2>2. pc'[w] = "show_failed"
    BY <1>3, GotoMoves DEF RollBack, CommitFailure
  <2>3. rows \subseteq rows' /\ members' = members
    BY <1>3 DEF RollBack, CommitFailure, db
  <2>4. QED
    BY <1>1, <2>1, <2>2, <2>3 DEF Delivers
<1>4. CASE EnsureSender(w) \/ EnsureRecipient(w)
  <2>1. PICK label \in {"ensure_to", "lock_from"}, u \in Users :
          EnsureRow(w, u, label) /\ pc[w] # "idle" /\ (label = "lock_from" => u = To[tok[w]])
    BY <1>4, Ensures
  <2>2. /\ rows' = rows /\ members' = members /\ (u \notin rows => rowLock[u] \in {None, w})
        /\ rowLock' = IF u \in rows THEN rowLock ELSE [rowLock EXCEPT ![u] = w]
    BY <2>1 DEF EnsureRow, db
  <2>3. OthersStay(w) /\ pc'[w] = label /\ tok'[w] = tok[w]
    BY <2>1, GotoMoves DEF EnsureRow
  <2>4. Unlocking(w)
    BY <2>2 DEF Unlocking, TypeOK
  <2>5. u \in rows \/ rowLock'[u] = w
    BY <2>2 DEF TypeOK
  <2>6. Delivers(w)'
    BY <2>1, <2>2, <2>3, <2>5 DEF Delivers
  <2>7. QED
    BY <1>1, <2>2, <2>3, <2>4, <2>6
<1>5. CASE LockSender(w)
  <2>1. PICK label \in {"fail", "credit"} : Goto(w, label)
    BY <1>5 DEF LockSender
  <2>2. /\ pc[w] = "lock_from" /\ rows' = rows /\ members' = members
        /\ rowLock[From[tok[w]]] \in {None, w}
        /\ rowLock' = [rowLock EXCEPT ![From[tok[w]]] = w]
    BY <1>5 DEF LockSender, At, db
  <2>3. From[tok[w]] \in Users /\ To[tok[w]] \in Users /\ From[tok[w]] # To[tok[w]]
    BY <2>2, BusyHasToken
  <2>4. Unlocking(w) /\ rowLock'[To[tok[w]]] = rowLock[To[tok[w]]]
    BY <2>2, <2>3 DEF Unlocking, TypeOK
  <2>5. OthersStay(w) /\ pc'[w] = label /\ (label # "idle" => tok'[w] = tok[w])
    BY <2>1, GotoMoves
  <2>6. Delivers(w)
    BY DEF DeliveryInv
  <2>7. Delivers(w)'
    BY <2>2, <2>4, <2>5, <2>6 DEF Delivers, Gone
  <2>8. QED
    BY <1>1, <2>2, <2>4, <2>5, <2>7
<1>6. CASE CreditRecipient(w)
  <2> DEFINE r == To[tok[w]]
  <2>1. /\ pc[w] = "credit" /\ Goto(w, "commit") /\ rows' = rows /\ members' = members
        /\ \/ /\ rowLock[r] \in {None, w}
              /\ rowLock' = [rowLock EXCEPT ![r] = w]
           \/ /\ r \notin rows /\ rowLock[r] # w
              /\ UNCHANGED rowLock
    BY <1>6 DEF CreditRecipient, At, db
  <2>2. r \in Users
    BY <2>1, BusyHasToken
  <2>3. Unlocking(w) /\ (rowLock'[r] = w \/ (r \notin rows /\ rowLock[r] # w))
    BY <2>1, <2>2 DEF Unlocking, TypeOK
  <2>4. OthersStay(w) /\ pc'[w] = "commit" /\ tok'[w] = tok[w]
    BY <2>1, GotoMoves
  <2>5. rowLock'[r] = w \/ Gone(r)
    BY <2>1, <2>3 DEF DeliveryInv, Delivers
  <2>6. Delivers(w)'
    BY <2>1, <2>4, <2>5 DEF Delivers, Gone
  <2>7. QED
    BY <1>1, <2>1, <2>3, <2>4, <2>6
<1>7. CASE CommitTransfer(w)
  <2>1. PICK label \in {"show_done", "show_failed"} : Goto(w, label)
    BY <1>7 DEF CommitTransfer
  <2>2. OthersStay(w) /\ pc'[w] = label
    BY <2>1, GotoMoves
  <2>3. Unlocking(w)
    BY <1>7 DEF CommitTransfer, ReleaseLocks, Unlocking, TypeOK
  <2>4. rows \subseteq rows' /\ members' = members
    BY <1>7 DEF CommitTransfer
  <2>5. QED
    BY <1>1, <2>2, <2>3, <2>4 DEF Delivers
<1>8. QED
  BY <1>2, <1>3, <1>4, <1>5, <1>6, <1>7, WorkerCases

LEMMA DeliveryWorld ==
    ASSUME Leavers \cap Active = {}, TypeOK, DeliveryInv, World
    PROVE  DeliveryInv'
<1>1. UNCHANGED <<rowLock, pc, tok>>
  BY DEF World, TimePasses, Award, Charge, Seen, CreateBalance, Purge, locks
<1>2. SUFFICES ASSUME NEW w \in Workers PROVE Leaves(w)
  BY <1>1, DeliversStill DEF DeliveryInv
<1>3. ASSUME rows \subseteq rows',
             members' = members \/ \E u \in Active : members' = members \cup {u}
      PROVE  Leaves(w)
  BY <1>1, <1>3 DEF Leaves, Gone
<1>4. CASE \E t \in Tokens : TimePasses(t)
  BY <1>3, <1>4 DEF TimePasses, db
<1>5. ASSUME NEW u \in Users, NEW n \in Sums, Award(u, n) \/ Charge(u, n) PROVE Leaves(w)
  BY <1>3, <1>5 DEF Award, Charge
<1>6. ASSUME NEW u \in Users, Seen(u) \/ CreateBalance(u) PROVE Leaves(w)
  BY <1>3, <1>6 DEF Seen, CreateBalance
<1>7. ASSUME NEW u \in Users, Purge(u) PROVE Leaves(w)
  <2>1. u \in Leavers /\ rows' = rows \ {u} /\ members' = members \ {u}
    BY <1>7 DEF Purge
  <2>2. u \notin Active
    BY <2>1
  <2>3. QED
    BY <1>1, <2>1, <2>2 DEF Leaves, Gone
<1>8. QED
  BY <1>4, <1>5, <1>6, <1>7 DEF World

LEMMA DeliveryNext ==
    ASSUME Leavers \cap Active = {}, TypeOK, DeliveryInv, [Next]_vars
    PROVE  DeliveryInv'
<1>1. CASE Crash
  BY <1>1 DEF Crash, DeliveryInv, Delivers
<1>2. CASE UNCHANGED vars
  BY <1>2 DEF vars, db, locks, DeliveryInv, Delivers, Gone
<1>3. QED
  BY <1>1, <1>2, DeliveryWorker, DeliveryWorld DEF Next

\* a COMMIT is the payment of the abstract specification
LEMMA CommitPays ==
    ASSUME TypeOK, PayInv, BooksInv, DeliveryInv, NEW w \in Workers, CommitTransfer(w)
    PROVE  \E t \in Tokens : Abstract!Pay(t)
<1> DEFINE t == tok[w]
<1>1. pc[w] = "commit" /\ {From[t], To[t]} \subseteq members
  BY DEF CommitTransfer, At
<1>2. t \in Tokens /\ HandlerOK(w) /\ RequestOK(t)
  BY <1>1, MyHandler
<1>3. paid[t] = 0
  BY <1>1, <1>2 DEF HandlerOK, RequestOK, InTx
<1>4. rowLock[To[t]] = w
  BY <1>1 DEF DeliveryInv, Delivers, Gone
<1>5. wallet[From[t]].balance >= Amount[t]
  BY <1>1 DEF BooksInv, Covered, CoveredBy
<1>6. wallet' = Moved(wallet, From[t], To[t], Amount[t])
  BY <1>4 DEF CommitTransfer, Moved
<1>7. paid' = [paid EXCEPT ![t] = 1]
  BY <1>2, <1>3 DEF CommitTransfer, TypeOK
<1>8. paid'[t] = 1 /\ \A x \in Tokens \ {t} : paid'[x] = paid[x]
  BY <1>2, <1>7 DEF TypeOK
<1>9. t \notin Settled /\ Settled' = Settled \cup {t}
  BY <1>2, <1>3, <1>8 DEF Settled
<1>10. QED
  BY <1>2, <1>5, <1>6, <1>9
  DEF Abstract!Pay, Abstract!Moved, Abstract!Credited, Abstract!Debited, Moved, Credited, Debited

\* it moves the whole amount of the one request it pays
LEMMA CommitMoves ==
    ASSUME TypeOK, PayInv, BooksInv, DeliveryInv, NEW w \in Workers, CommitTransfer(w),
           NEW t \in Tokens, paid'[t] # paid[t]
    PROVE  /\ wallet[From[t]].balance >= Amount[t]
           /\ wallet' = Moved(wallet, From[t], To[t], Amount[t])
<1>1. pc[w] = "commit" /\ {From[tok[w]], To[tok[w]]} \subseteq members
  BY DEF CommitTransfer, At
<1>2. t = tok[w]
  BY DEF CommitTransfer, TypeOK
<1>3. rowLock[To[t]] = w
  BY <1>1, <1>2 DEF DeliveryInv, Delivers, Gone
<1>4. wallet[From[t]].balance >= Amount[t]
  BY <1>1, <1>2 DEF BooksInv, Covered, CoveredBy
<1>5. wallet' = Moved(wallet, From[t], To[t], Amount[t])
  BY <1>2, <1>3 DEF CommitTransfer, Moved
<1>6. QED
  BY <1>4, <1>5

\* every other step of a worker moves no money
LEMMA OthersPayNothing ==
    ASSUME TypeOK, NEW w \in Workers, Begin(w) \/ Step(w) \/ Failure(w), ~CommitTransfer(w)
    PROVE  UNCHANGED <<wallet, paid>>
BY DEF Begin, Step, Failure, Execution, StartTransfer, Click, Persist, MarkExpired, Cancel,
       FirstYes, Transition, Reload, EditMessage, BeginExecution, ExecuteExpired,
       ExecuteConflict, ExecuteLock, EnsureSender, EnsureRecipient, EnsureRow, LockSender, CreditRecipient, CommitFailure,
       ForeignKeyRefuses, StatementFails, TransactionFails, DeadlockVictim, RollBack, db

LEMMA RefinedNext ==
    ASSUME TypeOK, PayInv, BooksInv, DeliveryInv, [Next]_vars
    PROVE  [Abstract!Next]_(Abstract!vars)
<1>1. ASSUME UNCHANGED <<wallet, paid>> PROVE UNCHANGED Abstract!vars
  BY <1>1 DEF Abstract!vars, Settled
<1>2. CASE \E w \in Workers : CommitTransfer(w)
  BY <1>2, CommitPays DEF Abstract!Next
<1>3. CASE \E w \in Workers : (Begin(w) \/ Step(w) \/ Failure(w)) /\ ~CommitTransfer(w)
  BY <1>1, <1>3, OthersPayNothing
<1>4. CASE World
  <2>1. paid' = paid
    BY <1>4 DEF World, TimePasses, Award, Charge, Seen, CreateBalance, Purge
  <2>2. Settled' = Settled
    BY <2>1 DEF Settled
  <2>3. ASSUME NEW u \in Users, NEW n \in Sums, Award(u, n) PROVE Abstract!Award(u, n)
    BY <2>2, <2>3 DEF Award, Abstract!Award, Credited, Abstract!Credited
  <2>4. ASSUME NEW u \in Users, NEW n \in Sums, Charge(u, n) PROVE Abstract!Charge(u, n)
    BY <2>2, <2>4 DEF Charge, Abstract!Charge, Debited, Abstract!Debited
  <2>5. ASSUME NEW u \in Users, Purge(u) PROVE Abstract!Forget(u)
    BY <2>2, <2>5 DEF Purge, Abstract!Forget, Empty, Abstract!Empty
  <2>6. ASSUME NEW u \in Users, Seen(u) \/ CreateBalance(u) PROVE UNCHANGED Abstract!vars
    BY <1>1, <2>1, <2>6 DEF Seen, CreateBalance
  <2>7. ASSUME NEW t \in Tokens, TimePasses(t) PROVE UNCHANGED Abstract!vars
    BY <1>1, <2>1, <2>7 DEF TimePasses, db
  <2>8. QED
    BY <1>4, <2>3, <2>4, <2>5, <2>6, <2>7 DEF World, Abstract!Next
<1>5. CASE Crash
  BY <1>1, <1>5 DEF Crash, db
<1>6. CASE UNCHANGED vars
  BY <1>1, <1>6 DEF vars, db
<1>7. QED
  BY <1>2, <1>3, <1>4, <1>5, <1>6 DEF Next

\* Where a member who can be purged does not come back while a payment to him
\* is under way, the dialogue implements payments that happen at once, whole
\* and at most once (RefinesAtomicPayments).
THEOREM Refinement == ASSUME Leavers \cap Active = {} PROVE Spec => RefinesAtomicPayments
<1>1. Init => TypeOK /\ PayInv /\ BooksInv /\ DeliveryInv
  BY TypeInit, PayInit, BooksInit, DeliveryInit
<1>2. TypeOK /\ PayInv /\ BooksInv /\ DeliveryInv /\ [Next]_vars =>
        (TypeOK /\ PayInv /\ BooksInv /\ DeliveryInv)'
  BY TypeNext, PayNext, BooksNext, DeliveryNext
<1>3. Init => Abstract!Init
  BY DEF Init, Abstract!Init, Settled
<1>4. TypeOK /\ PayInv /\ BooksInv /\ DeliveryInv /\ [Next]_vars =>
        [Abstract!Next]_(Abstract!vars)
  BY RefinedNext
<1>5. QED
  BY <1>1, <1>2, <1>3, <1>4, PTL DEF Spec, RefinesAtomicPayments, Abstract!Spec

\* Under the same condition the step that pays gives the recipient all that it
\* takes from the sender, who has it (TransferMovesAmount).
THEOREM TransferMovesAmountCorrect ==
    ASSUME Leavers \cap Active = {} PROVE Spec => TransferMovesAmount
<1>1. Init => TypeOK /\ PayInv /\ BooksInv /\ DeliveryInv
  BY TypeInit, PayInit, BooksInit, DeliveryInit
<1>2. TypeOK /\ PayInv /\ BooksInv /\ DeliveryInv /\ [Next]_vars =>
        (TypeOK /\ PayInv /\ BooksInv /\ DeliveryInv)'
  BY TypeNext, PayNext, BooksNext, DeliveryNext
<1>3. TypeOK /\ PayInv /\ BooksInv /\ DeliveryInv /\ [Next]_vars =>
        [\A t \in Tokens : paid'[t] # paid[t] =>
            /\ wallet[From[t]].balance >= Amount[t]
            /\ wallet' = Moved(wallet, From[t], To[t], Amount[t])]_vars
  <2> SUFFICES ASSUME TypeOK, PayInv, BooksInv, DeliveryInv, Next,
                      NEW t \in Tokens, paid'[t] # paid[t]
               PROVE  /\ wallet[From[t]].balance >= Amount[t]
                      /\ wallet' = Moved(wallet, From[t], To[t], Amount[t])
    OBVIOUS
  <2>1. ~World /\ ~Crash
    BY DEF World, TimePasses, Award, Charge, Seen, CreateBalance, Purge, Crash
  <2>2. PICK w \in Workers : Begin(w) \/ Step(w) \/ Failure(w)
    BY <2>1 DEF Next
  <2>3. CommitTransfer(w)
    BY <2>2, OthersPayNothing
  <2>4. QED
    BY <2>3, CommitMoves
<1>4. QED
  BY <1>1, <1>2, <1>3, PTL DEF Spec, TransferMovesAmount
=============================================================================
