---------------------------- MODULE AdminBalance ----------------------------
(***************************************************************************)
(* Changing the balance of several members at once (mode, members, amount, *)
(* confirmation), undoing it, and the admin's list of ready amounts        *)
(* ("deltas").  Each member is paid or charged in a transaction of his     *)
(* own; after a failure the ones already changed are rolled back the same  *)
(* way.  Meanwhile the members spend.                                      *)
(***************************************************************************)
EXTENDS AdminRoles

CONSTANTS
    Amounts,       \* amounts typed and stored as deltas; 0 is not a valid one
    MaxBalance,    \* a run pays nobody above it
    MaxDeltas,     \* deltas a run creates
    UndoTTL        \* undoTTL

ASSUME BalanceAssumption ==
    /\ Users \subseteq Nat /\ Amounts \subseteq Nat
    /\ MaxBalance \in Nat

\* What a behaviour finds in the tables is what their columns can hold.
ASSUME AgendaAssumption ==
    \A g \in Agendas :
        /\ g.who \subseteq Staff /\ g.until \in Nat /\ g.budget \in Nat
        /\ g.role \in [Users -> {"null", ""} \cup RoleNames]
        /\ g.balance \in [Users -> 0 .. MaxBalance]

VARIABLES
    balance,   \* column balance of balances
    deltas,    \* table admin_balance_deltas of an admin's chat, by id
    net,       \* history: what an operation of an admin and its undo moved
    told       \* history: what the admin was told of it

money == <<balance, deltas, net, told>>

NoOperation == [users |-> <<>>, sign |-> 0, amount |-> 0, at |-> 0]
Nothing == [u \in Users |-> 0]
Silence == [kind |-> "none", change |-> Nothing]

InitBalance ==
    /\ balance = agenda.balance
    /\ deltas = [a \in Staff |-> <<>>]
    /\ net = [a \in Staff |-> Nothing]
    /\ told = [a \in Staff |-> Silence]

\* sign is +1 for adding and -1 for deducting, 0 before the choice; shown is
\* UsersSnapshot, last is LastOperation; for a flow that came from the menu of
\* deltas menu is TRUE (ReturnScreen).
NewFlow(menu) ==
    [sign |-> 0, shown |-> {}, chosen |-> {}, amount |-> 0, manual |-> FALSE,
     menu |-> menu, last |-> NoOperation]

ValidAmount(n) == n > 0
SelectionReady(d) == d.sign # 0 /\ d.chosen # {}
ReadyToConfirm(d) == SelectionReady(d) /\ ValidAmount(d.amount)

Mode == "admin:balance_adjust_mode"
Picker == "admin:balance_adjust_picker"
Amount == "admin:balance_adjust_amount"
Confirm == "admin:balance_adjust_confirm"
DeltaName == "admin:balance_delta_name"
DeltaAmount == "admin:balance_delta_amount"
BalanceStates == {Mode, Picker, Amount, Confirm, DeltaName, DeltaAmount}

\* ensureBalanceState accepts the row for these screens
Showable(s, d) ==
    /\ s = Picker => d.shown # {}
    /\ s = Amount => SelectionReady(d)
    /\ s = Confirm => ReadyToConfirm(d)

To(a, s, d) == ShowState(a, s, d, Showable(s, d))

\* The buttons of a balance screen; one for another state drops the row
Button(a) == agenda.does = "balance" /\ Admitted(a, "balance") /\ CanManageBalance(a)
Tap(a, s, step) == /\ Button(a)
                   /\ IF In(a, {s}) THEN step ELSE ClearState(a)
                   /\ Stays /\ UNCHANGED <<job, breach, roles, money>>

Data(a) == flow[a].data

StartBalanceAdjustMode(a) ==
    /\ Button(a)
    /\ SetState(a, Mode, NewFlow(FALSE))
    /\ Stays /\ UNCHANGED <<job, breach, roles, money>>

\* Without members to choose from the mode is not saved
ChooseMode(a, sign) ==
    Tap(a, Mode, IF GetUsersWithRole = {} THEN Kept /\ Fine
                 ELSE To(a, Picker, [Data(a) EXCEPT !.sign = sign, !.shown = GetUsersWithRole]))

\* Also of a member who is not on the list: the button may be of an older one
Toggle(a, u) ==
    Tap(a, Picker, To(a, Picker, [Data(a) EXCEPT !.chosen =
            IF u \in @ THEN @ \ {u} ELSE @ \cup {u}]))

\* Previous and next page renew the row's life and show another part of it
PickerPage(a) == Tap(a, Picker, To(a, Picker, Data(a)))

PickerClear(a) == Tap(a, Picker, To(a, Picker, [Data(a) EXCEPT !.chosen = {}]))

PickerDone(a) ==
    Tap(a, Picker, IF SelectionReady(Data(a)) THEN To(a, Amount, Data(a)) ELSE Kept /\ Fine)

PickerBack(a) == Tap(a, Picker, SetState(a, Mode, NewFlow(FALSE)))

\* The buttons of the amount screen do nothing in another state
OnAmount(a) ==
    /\ Admitted(a, agenda.does) /\ agenda.does \in {"balance", "deltas"}
    /\ CanManageBalance(a)
    /\ In(a, {Amount})

ChooseDelta(a, n) ==
    /\ OnAmount(a)
    /\ IF ValidAmount(n)
       THEN To(a, Confirm, [Data(a) EXCEPT !.amount = n, !.manual = FALSE])
       ELSE Kept /\ Fine
    /\ Stays /\ UNCHANGED <<job, breach, roles, money>>

ChooseManual(a) ==
    /\ OnAmount(a)
    /\ SetState(a, Amount, [Data(a) EXCEPT !.manual = TRUE])
    /\ Stays /\ UNCHANGED <<job, breach, roles, money>>

\* From the menu of deltas back means its menu, which drops the row
AmountBack(a) ==
    /\ Admitted(a, agenda.does) /\ CanManageBalance(a)
    /\ In(a, {Amount, DeltaName, DeltaAmount})
    /\ IF Data(a).menu THEN ClearState(a)
       ELSE To(a, IF In(a, {Amount}) THEN Picker ELSE Amount, Data(a))
    /\ Stays /\ UNCHANGED <<job, breach, roles, money>>

\* A text while the amount screen shows buttons resets the dialogue
ManualAmount(a, n) ==
    /\ Admitted(a, agenda.does) /\ In(a, {Amount})
    /\ IF ~CanManageBalance(a) THEN Denied(a)
       ELSE /\ NoDeed
            /\ IF ~Data(a).manual \/ ~SelectionReady(Data(a)) THEN ClearState(a)
               ELSE IF ~ValidAmount(n) THEN Kept /\ Fine
               ELSE To(a, Confirm, [Data(a) EXCEPT !.amount = n, !.manual = FALSE])
    /\ Stays /\ UNCHANGED <<job, roles, money>>

-----------------------------------------------------------------------------
(* Deltas.                                                                  *)

DeltaButton(a) == Admitted(a, "deltas") /\ CanManageBalance(a)

StartDelta(a, s) ==
    /\ DeltaButton(a)
    /\ SetState(a, s, NewFlow(TRUE))
    /\ Stays /\ UNCHANGED <<job, breach, roles, money>>

TypeDeltaName(a, valid) ==
    /\ Admitted(a, "deltas") /\ In(a, {DeltaName})
    /\ IF ~CanManageBalance(a) THEN Denied(a)
       ELSE NoDeed /\ (IF valid THEN SetState(a, DeltaAmount, Data(a)) ELSE Kept /\ Fine)
    /\ Stays /\ UNCHANGED <<job, roles, money>>

\* After the delta is made the menu is shown
CreateDelta(a, n) ==
    /\ deltas' = [deltas EXCEPT ![a] = Append(@, n)]
    /\ Deed(a, "deltas")
    /\ IF Data(a).menu THEN ClearState(a) ELSE To(a, Amount, Data(a))

TypeDeltaAmount(a, n) ==
    /\ Admitted(a, "deltas") /\ In(a, {DeltaAmount}) /\ Len(deltas[a]) < MaxDeltas
    /\ IF ~CanManageBalance(a) THEN Denied(a) /\ UNCHANGED deltas
       ELSE IF ValidAmount(n)
       THEN \/ CreateDelta(a, n)
            \/ Happens("refused") /\ Kept /\ NoDeed /\ UNCHANGED deltas
       ELSE Kept /\ Fine /\ NoDeed /\ UNCHANGED deltas
    /\ Stays /\ UNCHANGED <<job, roles, balance, net, told>>

\* Ids are not given twice, so a button of a deleted delta finds nothing; 0
\* stands for a deleted row.
DeleteDelta(a, id) ==
    /\ OnAmount(a) /\ DeltaButton(a)
    /\ id \in DOMAIN deltas[a] /\ deltas[a][id] # 0
    /\ \/ /\ deltas' = [deltas EXCEPT ![a][id] = 0]
          /\ Deed(a, "deltas")
          /\ IF Data(a).menu THEN ClearState(a) ELSE To(a, Amount, Data(a))
       \/ Happens("refused") /\ Kept /\ NoDeed /\ UNCHANGED deltas
    /\ Stays /\ UNCHANGED <<job, roles, balance, net, told>>

-----------------------------------------------------------------------------
(* Confirmation, application and undo.                                      *)

ConfirmBack(a) ==
    Tap(a, Confirm, IF ReadyToConfirm(Data(a)) THEN To(a, Amount, Data(a)) ELSE ClearState(a))

\* The members are looked up again; one who has no role any more stops it
InvalidUsers(d) == {u \in d.chosen : ~RoleSet(u)}

ChooseLowest(S) == CHOOSE u \in S : \A v \in S : u <= v

Begin(a, users, handler) ==
    /\ \A u \in users : balance[u] + handler.sign * handler.amount <= MaxBalance
    /\ job' = [job EXCEPT ![a] = handler]
    /\ Deed(a, "balance")
    /\ Kept /\ Fine

ConfirmApply(a) ==
    /\ Button(a)
    /\ IF In(a, {Confirm}) /\ ReadyToConfirm(Data(a)) /\ InvalidUsers(Data(a)) = {}
       THEN /\ Begin(a, Data(a).chosen,
                     [step |-> "apply", todo |-> Data(a).chosen, done |-> <<>>,
                      users |-> Data(a).chosen, sign |-> Data(a).sign,
                      amount |-> Data(a).amount, data |-> Data(a)])
            /\ net' = [net EXCEPT ![a] = Nothing]
            /\ told' = [told EXCEPT ![a] = Silence]
       ELSE /\ IF In(a, {Confirm}) /\ ReadyToConfirm(Data(a)) THEN To(a, Picker, Data(a))
               ELSE ClearState(a)
            /\ UNCHANGED <<job, breach, net, told>>
    /\ Stays /\ UNCHANGED <<roles, balance, deltas>>

\* AddBalance or DeductBalance for one member
Move(a, u, n) ==
    /\ balance[u] + n \in 0 .. MaxBalance
    /\ balance' = [balance EXCEPT ![u] = @ + n]
    /\ net' = [net EXCEPT ![a][u] = @ + n]

\* A deduction from too small a balance is refused, anything may be
Rejected(u, n) == \/ balance[u] + n < 0 /\ Fine
                  \/ Happens("refused")

Works(a, step) == job[a].step = step

Tell(a, kind) ==
    told' = [told EXCEPT ![a] =
        [kind |-> kind,
         change |-> [u \in Users |-> IF u \in job[a].users
                                     THEN job[a].sign * job[a].amount ELSE 0]]]

ApplyNext(a) ==
    /\ Works(a, "apply") /\ job[a].todo # {}
    /\ LET u == ChooseLowest(job[a].todo)
           n == job[a].sign * job[a].amount
       IN  \/ /\ Move(a, u, n) /\ Fine
              /\ job' = [job EXCEPT ![a].todo = @ \ {u}, ![a].done = Append(@, u)]
           \/ /\ Rejected(u, n)
              /\ job' = [job EXCEPT ![a].step = "rollback", ![a].todo = {}]
              /\ UNCHANGED <<balance, net>>
    /\ Stays /\ UNCHANGED <<flow, breach, roles, deltas, told>>

\* The record of the operation is saved with the data the handler began with,
\* if it can be.
ApplyDone(a) ==
    /\ Works(a, "apply") /\ job[a].todo = {}
    /\ \/ /\ Saved(a, Confirm, [job[a].data EXCEPT !.last =
              [users |-> job[a].done, sign |-> job[a].sign, amount |-> job[a].amount, at |-> now]])
          /\ Fine /\ Tell(a, "done")
       \/ Kept /\ Happens("refused") /\ Tell(a, "done, not recorded")
    /\ job' = [job EXCEPT ![a] = Idle]
    /\ Stays /\ UNCHANGED <<breach, roles, balance, deltas, net>>

\* Mutant: after an error nobody is rolled back.
RollbackSkipping(a) ==
    /\ Works(a, "rollback") /\ job[a].done # <<>>
    /\ job' = [job EXCEPT ![a].done = <<>>]
    /\ Fine
    /\ Stays /\ UNCHANGED <<flow, breach, roles, balance, deltas, net, told>>

\* Backwards; todo collects the members whose rollback failed
RollbackNext(a) ==
    /\ Works(a, "rollback") /\ job[a].done # <<>>
    /\ LET u == job[a].done[Len(job[a].done)]
           n == 0 - job[a].sign * job[a].amount
           rest == SubSeq(job[a].done, 1, Len(job[a].done) - 1)
       IN  \/ /\ Move(a, u, n) /\ Fine
              /\ job' = [job EXCEPT ![a].done = rest]
           \/ /\ Rejected(u, n)
              /\ job' = [job EXCEPT ![a].done = rest, ![a].todo = @ \cup {u}]
              /\ UNCHANGED <<balance, net>>
    /\ Stays /\ UNCHANGED <<flow, breach, roles, deltas, told>>

RollbackDone(a) ==
    /\ Works(a, "rollback") /\ job[a].done = <<>>
    /\ Tell(a, IF job[a].todo = {} THEN "nothing done" ELSE "partly done")
    /\ job' = [job EXCEPT ![a] = Idle]
    /\ Fine
    /\ Stays /\ UNCHANGED <<flow, breach, roles, balance, deltas, net>>

\* The undo button works in every state of the flow that still has the record,
\* within undoTTL.  It belongs to the operation the admin was told of last when
\* that was done and recorded; of an older one nothing is promised.
BalanceUndo(a) ==
    /\ Button(a) /\ In(a, BalanceStates)
    /\ Data(a).last # NoOperation /\ now - Data(a).last.at <= UndoTTL
    /\ LET last == Data(a).last
           users == {last.users[i] : i \in DOMAIN last.users}
       IN  Begin(a, users, [step |-> "undo", todo |-> last.users, users |-> users,
                            sign |-> 0 - last.sign, amount |-> last.amount])
    /\ told' = [told EXCEPT ![a] = IF @.kind = "done" THEN @ ELSE Silence]
    /\ Stays /\ UNCHANGED <<roles, balance, deltas, net>>

\* It stops at the first error and leaves the record as it was: what a second
\* try reverses then is not said.
UndoNext(a) ==
    /\ Works(a, "undo") /\ job[a].todo # <<>>
    /\ LET u == job[a].todo[Len(job[a].todo)]
           n == job[a].sign * job[a].amount
       IN  \/ /\ Move(a, u, n) /\ Fine
              /\ job' = [job EXCEPT ![a].todo = SubSeq(@, 1, Len(@) - 1)]
              /\ UNCHANGED told
           \/ /\ Rejected(u, n)
              /\ Tell(a, "undo failed")
              /\ job' = [job EXCEPT ![a] = Idle]
              /\ UNCHANGED <<balance, net>>
    /\ Stays /\ UNCHANGED <<flow, breach, roles, deltas>>

UndoDone(a) ==
    /\ Works(a, "undo") /\ job[a].todo = <<>>
    /\ IF told[a].kind = "done" THEN Tell(a, "nothing done") ELSE UNCHANGED told
    /\ ClearState(a)
    /\ job' = [job EXCEPT ![a] = Idle]
    /\ Stays /\ UNCHANGED <<breach, roles, balance, deltas, net>>

\* A member spends, in a transaction of another feature
Spend(u) ==
    /\ agenda.does = "balance" /\ balance[u] > 0
    /\ balance' = [balance EXCEPT ![u] = @ - 1]
    /\ UNCHANGED <<panel, roles, deltas, net, told>>

\* ... or loses the role he was chosen for
LosesRole(u) ==
    /\ agenda.does = "balance" /\ RoleSet(u)
    /\ role' = [role EXCEPT ![u] = ""]
    /\ UNCHANGED <<panel, active, undo, changes, undone, money>>

BalanceNext ==
    \/ \E a \in Staff :
          \/ StartBalanceAdjustMode(a)
          \/ \E sign \in {-1, 1} : ChooseMode(a, sign)
          \/ \E u \in Users : Toggle(a, u)
          \/ PickerPage(a) \/ PickerClear(a) \/ PickerDone(a) \/ PickerBack(a)
          \/ ChooseManual(a) \/ AmountBack(a)
          \/ \E n \in Amounts : ChooseDelta(a, n) \/ ManualAmount(a, n) \/ TypeDeltaAmount(a, n)
          \/ \E s \in {DeltaName, Amount} : StartDelta(a, s)
          \/ \E valid \in BOOLEAN : TypeDeltaName(a, valid)
          \/ \E id \in 1 .. MaxDeltas : DeleteDelta(a, id)
          \/ ConfirmBack(a) \/ ConfirmApply(a) \/ BalanceUndo(a)
          \/ ApplyNext(a) \/ ApplyDone(a)
          \/ RollbackNext(a) \/ RollbackDone(a)
          \/ UndoNext(a) \/ UndoDone(a)
    \/ \E u \in Users : Spend(u) \/ LosesRole(u)

-----------------------------------------------------------------------------
\* What an admin is told of an operation on several balances is what happened,
\* while members spend and the database refuses: "done" means each chosen
\* member moved by the whole amount and nobody else moved, an error without a
\* word on the rollback and a finished undo mean that nothing moved.  (After
\* "partly done" and "undo failed" the bot promises nothing.)
OperationIsWhole ==
    \A a \in Staff : job[a] = Idle =>
        /\ told[a].kind \in {"done", "done, not recorded"} => net[a] = told[a].change
        /\ told[a].kind = "nothing done" => net[a] = Nothing
=============================================================================
