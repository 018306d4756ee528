---------------------------- MODULE Admin_proofs ----------------------------
(***************************************************************************)
(* The invariants of the admin panel for any staff, members, life times    *)
(* and faults.                                                             *)
(*                                                                         *)
(* Domains, the invariant everything rests on, gives every row of a        *)
(* dialogue the data of its state and every handler under way the data it  *)
(* began with; each handler writes at most the row of its own admin        *)
(* (RowWritten).  Over it, one invariant for each property says what the   *)
(* tables know of the past:                                                *)
(*   - a record for the undo of a role is a change not taken back;         *)
(*   - the parts of a draft in a row are of the admin's last dialogue;     *)
(*   - a session ends at most SessionTTL after the password;               *)
(*   - a wrong password that still counts has a row or was not written;    *)
(*   - what an operation on several balances has moved so far is told by   *)
(*     its handler, and afterwards by the answer and by the record.        *)
(* The two about times hold for every Zone by which the bot's clock is     *)
(* ahead of the database's: a session lives that much longer than it is    *)
(* meant to, and the window of the failures is that much shorter.          *)
(***************************************************************************)
EXTENDS Admin, FiniteSetTheorems, WellFoundedInduction, TLAPS

\* The life times as numbers.
LEMMA Lives ==
    Zone \in Nat /\ SessionTTL \in Nat /\ FlowTTL \in Nat /\ Window \in Nat /\ Retention \in Nat
  BY AdminAssumption

-----------------------------------------------------------------------------
(* The domains.                                                            *)

RoleValues == {"null", ""} \cup RoleNames
UndoRecords == [user : Users \cup {0}, old : RoleValues]
Signs == {-1, 0, 1}
Operation == [users : Seq(Users), sign : Signs, amount : Nat, at : Nat]

\* What the row of a dialogue may carry.
Pickers == UNION {[shown -> RoleValues] : shown \in (SUBSET Users) \ {{}}}
Texts == [user : Users, picker : Pickers]
Flows == [sign : Signs, shown : SUBSET Users, chosen : SUBSET Users, amount : Nat,
          manual : BOOLEAN, menu : BOOLEAN, last : Operation]
DraftData == [text : 0 .. MaxDrafts, answers : 0 .. MaxDrafts,
              reward : 0 .. MaxDrafts]

RoleStates == {m.select : m \in Dialogues} \cup {m.text : m \in Dialogues}
EntryStates == {"none", "awaiting_password"}
States == EntryStates \cup RoleStates \cup BalanceStates \cup DraftStates
Payloads == {<<>>} \cup Pickers \cup Texts \cup Flows \cup DraftData
Rows == [state : States, data : Payloads, until : Nat]

\* The data is the data of the state.
Fits(s, d) ==
    /\ s \in EntryStates => d = <<>>
    /\ \A m \in Dialogues :
          /\ s = m.select => d \in Pickers
          /\ s = m.text => d \in Texts /\ d.user \in DOMAIN d.picker
    /\ s \in BalanceStates => d \in Flows /\ (Showable(s, d) \/ d.menu)
    /\ s \in DraftStates => d \in DraftData

\* A row of the table: one that fits and is in its life.
FlowOK ==
    /\ flow \in [Staff -> Rows]
    /\ \A a \in Staff :
          /\ Fits(flow[a].state, flow[a].data)
          /\ flow[a].state # "none" => flow[a].until \in now .. now + Zone + FlowTTL

Renamings == [step : {"role"}, user : Users, old : RoleValues, new : RoleNames]
Payments == [step : {"apply", "rollback"}, todo : SUBSET Users, done : Seq(Users),
             users : SUBSET Users, sign : Signs, amount : Nat,
             data : {d \in Flows : ReadyToConfirm(d)}]
Reversals == [step : {"undo"}, todo : Seq(Users), users : SUBSET Users, sign : Signs,
              amount : Nat]
Jobs == {Idle} \cup Renamings \cup Payments \cup Reversals

Failures == [id : Nat, at : Nat]

ClockOK == agenda \in Agendas /\ now \in Nat /\ now <= agenda.until

AuthOK ==
    /\ flagged \subseteq Staff
    /\ session \in [Staff -> Nat]
    /\ \A a \in Staff : session[a] <= now + Zone + SessionTTL
    /\ attempts \in [Staff -> SUBSET Failures]
    /\ entered \in [Staff -> Int]
    /\ guessed \in [Staff -> Seq(Nat)]
    /\ unlogged \in [Staff -> Nat]

RolesOK ==
    /\ role \in [Users -> RoleValues]
    /\ active \subseteq Users
    /\ undo \in [Staff -> UndoRecords]
    /\ changes \in [Staff -> Nat]
    /\ undone \in [Staff -> Nat]

Kinds == {"none", "done", "done, not recorded", "nothing done", "partly done", "undo failed"}

MoneyOK ==
    /\ balance \in [Users -> 0 .. MaxBalance]
    /\ deltas \in [Staff -> Seq(Nat)]
    /\ net \in [Staff -> [Users -> Int]]
    /\ told \in [Staff -> [kind : Kinds, change : [Users -> Int]]]

WritingOK ==
    /\ drafts \in [Staff -> 0 .. MaxDrafts]
    /\ posted \in DraftData

\* TypeOK with the data of every dialogue and of every handler under way.
Domains == /\ ClockOK /\ AuthOK /\ FlowOK /\ job \in [Staff -> Jobs]
           /\ RolesOK /\ MoneyOK /\ WritingOK

LEMMA DomainsType == Domains => TypeOK
<1> SUFFICES ASSUME Domains PROVE TypeOK
  OBVIOUS
<1>1. ASSUME NEW a \in Staff PROVE RowIsReadable(a)
  <2> DEFINE d == flow[a].data
             s == flow[a].state
  <2>1. Fits(s, d) /\ (s # "none" => flow[a].until \in now .. now + Zone + FlowTTL)
    BY DEF Domains, FlowOK
  <2> HIDE DEF d, s
  <2>2. s \in EntryStates => d = <<>>
    BY <2>1 DEF Fits
  <2>3. ASSUME NEW m \in Dialogues
        PROVE  /\ s = m.select => DOMAIN d \in (SUBSET Users) \ {{}}
               /\ s = m.text => d.user \in DOMAIN d.picker
    BY <2>1 DEF Fits, Pickers
  <2>4. s \in BalanceStates => /\ d.sign \in {-1, 0, 1} /\ d.chosen \subseteq Users
                               /\ Showable(s, d) \/ d.menu
    BY <2>1 DEF Fits, Flows, Signs
  <2>5. s \in DraftStates => {d.text, d.answers, d.reward} \subseteq 0 .. MaxDrafts
    BY <2>1 DEF Fits, DraftData
  <2> QED
    BY <2>1, <2>2, <2>3, <2>4, <2>5 DEF RowIsReadable, EntryStates, s, d
<1>2. /\ now \in 0 .. agenda.until /\ flagged \subseteq Staff /\ active \subseteq Users
      /\ role \in [Users -> {"null", ""} \cup RoleNames]
      /\ balance \in [Users -> 0 .. MaxBalance]
  <2>1. agenda \in Agendas /\ now \in Nat /\ now <= agenda.until
    BY DEF Domains, ClockOK
  <2>2. agenda.until \in Nat
    BY <2>1, AgendaAssumption
  <2>3. now \in 0 .. agenda.until
    BY <2>1, <2>2
  <2>4. flagged \subseteq Staff
    BY DEF Domains, AuthOK
  <2>5. active \subseteq Users /\ role \in [Users -> {"null", ""} \cup RoleNames]
    BY DEF Domains, RolesOK, RoleValues
  <2>6. balance \in [Users -> 0 .. MaxBalance]
    BY DEF Domains, MoneyOK
  <2> QED
    BY <2>3, <2>4, <2>5, <2>6
<1>3. session \in [Staff -> 0 .. now + Zone + SessionTTL]
  BY Lives DEF Domains, ClockOK, AuthOK
<1> QED
  BY <1>1, <1>2, <1>3 DEF TypeOK

LEMMA NoRowFits ==
    /\ NoRow \in Rows /\ NoRow.state = "none"
    /\ \A s, d : s = "none" /\ d = <<>> => Fits(s, d)
  BY DEF NoRow, Rows, States, EntryStates, Payloads, Fits, Dialogues, Assign, Change,
         BalanceStates, DraftStates, Mode, Picker, Amount, Confirm, DeltaName, DeltaAmount,
         RiddleText, RiddleAnswers, RiddleReward, RiddleConfirm

LEMMA InitDomains == Init => Domains
<1> SUFFICES ASSUME Init PROVE Domains
  OBVIOUS
<1>0. agenda \in Agendas
  BY DEF Init, InitSession
<1>1. /\ agenda.until \in Nat
      /\ agenda.role \in [Users -> RoleValues]
      /\ agenda.balance \in [Users -> 0 .. MaxBalance]
  BY <1>0, AgendaAssumption DEF RoleValues
<1>2. ClockOK /\ AuthOK
  <2>1. ASSUME NEW a \in Staff PROVE session[a] \in Nat /\ session[a] <= 0 + Zone + SessionTTL
    BY Lives DEF Init, InitSession
  <2>2. DOMAIN session = Staff /\ session = [a \in Staff |-> session[a]]
    BY DEF Init, InitSession
  <2>3. session \in [Staff -> Nat]
    BY <2>1, <2>2
  <2>4. entered \in [Staff -> Int]
    BY Lives DEF Init, InitSession, Never
  <2> QED
    <3>1. now = 0 /\ ClockOK
      <4>1. now = 0
        BY DEF Init, InitSession
      <4> QED
        BY <1>0, <1>1, <4>1 DEF ClockOK
    <3>2. /\ flagged \subseteq Staff /\ attempts \in [Staff -> SUBSET Failures]
          /\ guessed \in [Staff -> Seq(Nat)] /\ unlogged \in [Staff -> Nat]
      BY AdminAssumption DEF Init, InitSession
    <3> QED
      BY <2>1, <2>3, <2>4, <3>1, <3>2 DEF AuthOK
<1>3. FlowOK
  <2>1. flow = [a \in Staff |-> NoRow]
    BY DEF Init, InitSession
  <2>2. NoRow.data = <<>>
    BY DEF NoRow
  <2> QED
    BY <2>1, <2>2, NoRowFits DEF FlowOK
<1>4. job \in [Staff -> Jobs]
  BY DEF Init, InitSession, Jobs
<1>5. RolesOK
  BY <1>1 DEF Init, InitRoles, RolesOK, RoleValues, NoUndo, UndoRecords
<1>6. MoneyOK
  <2>1. Nothing \in [Users -> Int]
    BY DEF Nothing
  <2>2. Silence \in [kind : Kinds, change : [Users -> Int]]
    BY <2>1 DEF Silence, Kinds
  <2>3. balance \in [Users -> 0 .. MaxBalance] /\ deltas \in [Staff -> Seq(Nat)]
    <3>1. balance = agenda.balance /\ deltas = [a \in Staff |-> <<>>]
      BY DEF Init, InitBalance
    <3>2. <<>> \in Seq(Nat)
      OBVIOUS
    <3> QED
      BY <1>1, <3>1, <3>2
  <2> QED
    BY <2>1, <2>2, <2>3 DEF Init, InitBalance, MoneyOK
<1>7. WritingOK
  BY DraftAssumption DEF Init, InitDraft, WritingOK, EmptyDraft, DraftData
<1> QED
  BY <1>2, <1>3, <1>4, <1>5, <1>6, <1>7 DEF Domains

-----------------------------------------------------------------------------
(* The rows the handlers write.                                            *)

\* The payloads of the dialogues, state by state.
LEMMA EntryFits == \A s \in EntryStates : s \in States /\ Fits(s, <<>>) /\ <<>> \in Payloads
  BY DEF EntryStates, States, Payloads, Fits, Dialogues, Assign, Change, BalanceStates,
         DraftStates, Mode, Picker, Amount, Confirm, DeltaName, DeltaAmount, RiddleText,
         RiddleAnswers, RiddleReward, RiddleConfirm

LEMMA PickerFits ==
    ASSUME NEW m \in Dialogues, NEW d \in Pickers
    PROVE  m.select \in RoleStates /\ m.select \in States /\ d \in Payloads /\ Fits(m.select, d)
  BY DEF EntryStates, RoleStates, States, Payloads, Fits, Dialogues, Assign, Change,
         BalanceStates, DraftStates, Mode, Picker, Amount, Confirm, DeltaName, DeltaAmount,
         RiddleText, RiddleAnswers, RiddleReward, RiddleConfirm

LEMMA TextFits ==
    ASSUME NEW m \in Dialogues, NEW d \in Texts, d.user \in DOMAIN d.picker
    PROVE  m.text \in RoleStates /\ m.text \in States /\ d \in Payloads /\ Fits(m.text, d)
  BY DEF EntryStates, RoleStates, States, Payloads, Fits, Dialogues, Assign, Change,
         BalanceStates, DraftStates, Mode, Picker, Amount, Confirm, DeltaName, DeltaAmount,
         RiddleText, RiddleAnswers, RiddleReward, RiddleConfirm

LEMMA FlowFits ==
    ASSUME NEW s \in BalanceStates, NEW d \in Flows, Showable(s, d) \/ d.menu
    PROVE  s \in States /\ d \in Payloads /\ Fits(s, d)
  BY DEF EntryStates, RoleStates, States, Payloads, Fits, Dialogues, Assign, Change,
         BalanceStates, DraftStates, Mode, Picker, Amount, Confirm, DeltaName, DeltaAmount,
         RiddleText, RiddleAnswers, RiddleReward, RiddleConfirm

LEMMA DraftFits ==
    ASSUME NEW s \in DraftStates, NEW d \in DraftData
    PROVE  s \in States /\ d \in Payloads /\ Fits(s, d)
  BY DEF EntryStates, RoleStates, States, Payloads, Fits, Dialogues, Assign, Change,
         BalanceStates, DraftStates, Mode, Picker, Amount, Confirm, DeltaName, DeltaAmount,
         RiddleText, RiddleAnswers, RiddleReward, RiddleConfirm

\* No dialogue uses a state of another one.
LEMMA StatesApart ==
    /\ EntryStates \cap (RoleStates \cup BalanceStates \cup DraftStates) = {}
    /\ RoleStates \cap (BalanceStates \cup DraftStates) = {}
    /\ BalanceStates \cap DraftStates = {}
  BY DEF EntryStates, RoleStates, States, Dialogues, Assign, Change, BalanceStates, DraftStates,
         Mode, Picker, Amount, Confirm, DeltaName, DeltaAmount, RiddleText, RiddleAnswers,
         RiddleReward, RiddleConfirm

\* A handler leaves the row of a, drops it or writes one of the states S.
RowWritten(a, S) ==
    \/ flow' = flow
    \/ flow' = [flow EXCEPT ![a] = NoRow]
    \/ \E s \in S, d \in Payloads : Fits(s, d) /\ flow' = [flow EXCEPT ![a] = Row(s, d)]

LEMMA SetWrites ==
    ASSUME NEW a \in Staff, NEW S, NEW s \in S, NEW d \in Payloads, Fits(s, d),
           SetState(a, s, d) \/ Saved(a, s, d)
    PROVE  RowWritten(a, S)
  BY DEF SetState, Saved, Kept, RowWritten

LEMMA ShowWrites ==
    ASSUME NEW a \in Staff, NEW S, NEW s \in S, NEW d, NEW b,
           b => d \in Payloads /\ Fits(s, d), ShowState(a, s, d, b)
    PROVE  RowWritten(a, S)
  BY DEF ShowState, Saved, Cleared, Kept, RowWritten

LEMMA ClearWrites ==
    ASSUME NEW a \in Staff, NEW S, ClearState(a) \/ Cleared(a) \/ Kept \/ Denied(a)
    PROVE  RowWritten(a, S)
  BY DEF ClearState, Cleared, Kept, Denied, RowWritten

LEMMA RowWrittenFits ==
    ASSUME ClockOK, FlowOK, now' = now, NEW a \in Staff, NEW S \in SUBSET States, RowWritten(a, S)
    PROVE  FlowOK'
<1>1. now + Zone + FlowTTL \in Nat /\ now <= now + Zone + FlowTTL
  BY Lives DEF ClockOK
<1>2. ASSUME NEW s \in S, NEW d \in Payloads
      PROVE  /\ Row(s, d) \in Rows /\ Row(s, d).state = s /\ Row(s, d).data = d
             /\ Row(s, d).until \in now .. now + Zone + FlowTTL
  BY <1>1 DEF Row, Rows, ClockOK
<1>3. ASSUME NEW r \in Rows, flow' = [flow EXCEPT ![a] = r], Fits(r.state, r.data),
             r.state # "none" => r.until \in now .. now + Zone + FlowTTL
      PROVE  FlowOK'
  BY <1>3 DEF FlowOK
<1>4. CASE flow' = flow
  BY <1>4 DEF FlowOK
<1>5. CASE flow' = [flow EXCEPT ![a] = NoRow]
  <2>1. NoRow.data = <<>>
    BY DEF NoRow
  <2> QED
    BY <1>3, <1>5, <2>1, NoRowFits
<1>6. CASE \E s \in S, d \in Payloads : Fits(s, d) /\ flow' = [flow EXCEPT ![a] = Row(s, d)]
  <2>1. PICK s \in S, d \in Payloads : Fits(s, d) /\ flow' = [flow EXCEPT ![a] = Row(s, d)]
    BY <1>6
  <2> QED
    BY <1>2, <1>3, <2>1
<1> QED
  BY <1>4, <1>5, <1>6 DEF RowWritten

-----------------------------------------------------------------------------
(* Roles.                                                                  *)

\* A snapshot of somebody is a picker.
LEMMA SnapshotPicks ==
    ASSUME RolesOK, NEW users \in SUBSET Users, users # {}
    PROVE  Snapshot(users) \in Pickers
<1>1. Snapshot(users) \in [users -> RoleValues]
  BY DEF Snapshot, RolesOK
<1> QED
  BY <1>1 DEF Pickers

LEMMA CandidatesAreMembers ==
    ASSUME RolesOK
    PROVE  /\ GetUsersWithoutRole \in SUBSET Users /\ GetUsersWithRole \in SUBSET Users
           /\ \A m : Candidates(m) \in SUBSET Users
  BY DEF RolesOK, GetUsersWithoutRole, GetUsersWithRole, Candidates

\* What a row of the roles carries.
LEMMA RoleRow ==
    ASSUME FlowOK, NEW a \in Staff, NEW m \in Dialogues
    PROVE  /\ In(a, {m.select}) => flow[a].data \in Pickers
           /\ In(a, {m.text}) => /\ flow[a].data \in Texts
                                 /\ flow[a].data.user \in DOMAIN flow[a].data.picker
                                 /\ flow[a].data.user \in Users
                                 /\ flow[a].data.picker \in Pickers
                                 /\ flow[a].data.picker[flow[a].data.user] \in RoleValues
<1> DEFINE d == flow[a].data
<1>1. Fits(flow[a].state, d)
  BY DEF FlowOK
<1>2. In(a, {m.select}) => d \in Pickers
  BY <1>1 DEF In, Fits
<1>3. In(a, {m.text}) => d \in Texts /\ d.user \in DOMAIN d.picker
  BY <1>1 DEF In, Fits
<1> HIDE DEF d
<1>4. d \in Texts => d.user \in Users /\ d.picker \in Pickers
  BY DEF Texts
<1>5. ASSUME d.picker \in Pickers, d.user \in DOMAIN d.picker
      PROVE  d.picker[d.user] \in RoleValues
  BY <1>5 DEF Pickers
<1> QED
  BY <1>2, <1>3, <1>4, <1>5 DEF d

LEMMA StartPickerWrites ==
    ASSUME FlowOK, RolesOK, NEW a \in Staff, NEW m \in Dialogues, StartPicker(a, m)
    PROVE  RowWritten(a, RoleStates)
<1>1. CASE Candidates(m) = {}
  BY <1>1, ClearWrites DEF StartPicker
<1>2. CASE Candidates(m) # {}
  <2>1. Snapshot(Candidates(m)) \in Pickers
    BY <1>2, SnapshotPicks, CandidatesAreMembers
  <2>2. ShowState(a, m.select, Snapshot(Candidates(m)), TRUE)
    BY <1>2 DEF StartPicker
  <2> QED
    BY <2>1, <2>2, PickerFits, ShowWrites
<1> QED
  BY <1>1, <1>2

LEMMA RefreshAssignWrites ==
    ASSUME FlowOK, RolesOK, NEW a \in Staff, RefreshAssign(a)
    PROVE  RowWritten(a, RoleStates)
<1>1. CASE Cleared(a)
  BY <1>1, ClearWrites
<1>2. CASE Saved(a, Assign.select, Snapshot(GetUsersWithoutRole)) /\ GetUsersWithoutRole # {}
  <2>1. Snapshot(GetUsersWithoutRole) \in Pickers /\ Assign \in Dialogues
    BY <1>2, SnapshotPicks, CandidatesAreMembers DEF Dialogues
  <2> QED
    BY <1>2, <2>1, PickerFits, SetWrites
<1> QED
  BY <1>1, <1>2 DEF RefreshAssign

LEMMA TurnPageWrites ==
    ASSUME FlowOK, RolesOK, NEW a \in Staff, NEW m \in Dialogues, TurnPage(a, m)
    PROVE  RowWritten(a, RoleStates)
<1>1. CASE ~In(a, {m.select})
  BY <1>1, ClearWrites DEF TurnPage
<1>2. CASE In(a, {m.select})
  <2>1. flow[a].data \in Pickers
    BY <1>2, RoleRow
  <2>2. ShowState(a, m.select, flow[a].data, TRUE)
    BY <1>2 DEF TurnPage
  <2> QED
    BY <2>1, <2>2, PickerFits, ShowWrites
<1> QED
  BY <1>1, <1>2

LEMMA PickUserWrites ==
    ASSUME FlowOK, RolesOK, NEW a \in Staff, NEW m \in Dialogues, NEW u \in Users, PickUser(a, m, u)
    PROVE  RowWritten(a, RoleStates)
<1> DEFINE d == [user |-> u, picker |-> flow[a].data]
<1>1. CASE In(a, {m.select}) /\ u \in DOMAIN flow[a].data
  <2>1. flow[a].data \in Pickers
    BY <1>1, RoleRow
  <2>2. d \in Texts /\ d.user \in DOMAIN d.picker
    BY <1>1, <2>1 DEF Texts
  <2>3. SetState(a, m.text, d)
    BY <1>1 DEF PickUser
  <2> HIDE DEF d
  <2> QED
    BY <2>2, <2>3, TextFits, SetWrites
<1>2. CASE ~(In(a, {m.select}) /\ u \in DOMAIN flow[a].data)
  BY <1>2, ClearWrites DEF PickUser
<1> QED
  BY <1>1, <1>2

LEMMA RoleInputBackWrites ==
    ASSUME FlowOK, RolesOK, NEW a \in Staff, RoleInputBack(a)
    PROVE  RowWritten(a, RoleStates)
<1>1. PICK m \in Dialogues : In(a, {m.text}) /\ ShowState(a, m.select, flow[a].data.picker, TRUE)
  BY DEF RoleInputBack
<1>2. flow[a].data.picker \in Pickers
  BY <1>1, RoleRow
<1> QED
  BY <1>1, <1>2, PickerFits, ShowWrites

\* The roles after a role was written, or was not.
LEMMA UpdateRoleType ==
    ASSUME RolesOK, NEW u, NEW r \in RoleValues, UpdateRole(u, r)
    PROVE  role' \in [Users -> RoleValues]
<1>1. CASE u \in active
  <2>1. u \in Users
    BY <1>1 DEF RolesOK
  <2> QED
    BY <1>1, <2>1 DEF RolesOK, UpdateRole
<1>2. CASE u \notin active
  BY <1>2 DEF RolesOK, UpdateRole
<1> QED
  BY <1>1, <1>2

LEMMA ReportedType ==
    ASSUME RolesOK, NEW a \in Staff, NEW u \in Users, NEW old \in RoleValues, NEW r \in RoleNames,
           Reported(a, u, old, r), active' = active, undone' = undone
    PROVE  RolesOK' /\ RowWritten(a, RoleStates)
<1>1. r \in RoleValues
  BY DEF RoleValues
<1>2. CASE UpdateRole(u, r) /\ undo' = [undo EXCEPT ![a] = [user |-> u, old |-> old]]
           /\ changes' = [changes EXCEPT ![a] = @ + 1] /\ ClearState(a)
  <2>1. role' \in [Users -> RoleValues]
    BY <1>1, <1>2, UpdateRoleType
  <2>2. undo' \in [Staff -> UndoRecords]
    BY <1>2 DEF RolesOK, UndoRecords
  <2>3. changes' \in [Staff -> Nat]
    BY <1>2 DEF RolesOK
  <2> QED
    BY <1>2, <2>1, <2>2, <2>3, ClearWrites DEF RolesOK
<1>3. CASE Cleared(a) /\ UNCHANGED <<role, undo, changes>>
  BY <1>3, ClearWrites DEF RolesOK
<1> QED
  BY <1>2, <1>3 DEF Reported
\* What stays outside the clock and the rows of the dialogues.
Handling == UNCHANGED <<agenda, now, auth>>

LEMMA HandlingKeeps ==
    ASSUME ClockOK, AuthOK, Handling PROVE ClockOK' /\ AuthOK'
  BY DEF Handling, auth, ClockOK, AuthOK

LEMMA AssignRoleTextStep ==
    ASSUME FlowOK, RolesOK, NEW a \in Staff, NEW r \in RoleNames, AssignRoleText(a, r)
    PROVE  RowWritten(a, RoleStates) /\ RolesOK' /\ job' = job
<1>1. Assign \in Dialogues /\ "" \in RoleValues
  BY DEF Dialogues, RoleValues
<1>2. flow[a].data.user \in Users
  BY <1>1, RoleRow DEF AssignRoleText
<1>3. CASE CanManageRoles(a)
  BY <1>1, <1>2, <1>3, ReportedType DEF AssignRoleText
<1>4. CASE ~CanManageRoles(a)
  BY <1>4, ClearWrites DEF AssignRoleText, RolesOK
<1>5. job' = job
  BY DEF AssignRoleText
<1> QED
  BY <1>3, <1>4, <1>5

LEMMA ChangeRoleTextStep ==
    ASSUME FlowOK, RolesOK, job \in [Staff -> Jobs], NEW a \in Staff, NEW r \in RoleNames,
           ChangeRoleText(a, r)
    PROVE  /\ RowWritten(a, RoleStates) /\ RolesOK' /\ job' \in [Staff -> Jobs]
           /\ job' = job \/ (job[a] = Idle /\ \E j : j.step = "role" /\ job' = [job EXCEPT ![a] = j])
<1>1. Change \in Dialogues
  BY DEF Dialogues
<1> DEFINE u == flow[a].data.user
           listed == flow[a].data.picker[u]
<1>2. u \in Users /\ listed \in RoleValues
  BY <1>1, RoleRow DEF ChangeRoleText
<1>3. OldRole(u, listed) \in RoleValues
  BY <1>2 DEF OldRole, RolesOK
<1>4. RolesOK'
  BY DEF ChangeRoleText, roles, RolesOK
<1>5. RowWritten(a, RoleStates)
  BY ClearWrites DEF ChangeRoleText
<1>6. CASE CanManageRoles(a)
  <2>1. PICK old \in {OldRole(u, listed), listed} :
          job' = [job EXCEPT ![a] = [step |-> "role", user |-> u, old |-> old, new |-> r]]
    BY <1>6 DEF ChangeRoleText
  <2> DEFINE j == [step |-> "role", user |-> u, old |-> old, new |-> r]
  <2>2. j \in Jobs /\ j.step = "role"
    BY <1>2, <1>3 DEF Jobs, Renamings
  <2>3. job[a] = Idle
    BY DEF ChangeRoleText, Admitted, Enters
  <2>4. job' = [job EXCEPT ![a] = j]
    BY <2>1
  <2> HIDE DEF j
  <2> QED
    BY <1>4, <1>5, <2>2, <2>3, <2>4
<1>7. CASE ~CanManageRoles(a)
  BY <1>4, <1>5, <1>7 DEF ChangeRoleText
<1> QED
  BY <1>6, <1>7

LEMMA ChangeRoleWriteStep ==
    ASSUME FlowOK, RolesOK, job \in [Staff -> Jobs], NEW a \in Staff, ChangeRoleWrite(a)
    PROVE  /\ RowWritten(a, RoleStates) /\ RolesOK' /\ job' \in [Staff -> Jobs]
           /\ job' = [job EXCEPT ![a] = Idle]
<1>1. job[a] \in Jobs /\ job[a].step = "role"
  BY DEF ChangeRoleWrite
<1>2. /\ job[a].user \in Users /\ job[a].old \in RoleValues /\ job[a].new \in RoleNames
  BY <1>1 DEF Jobs, Renamings, Payments, Reversals, Idle
<1>3. RowWritten(a, RoleStates) /\ RolesOK'
  BY <1>2, ReportedType DEF ChangeRoleWrite
<1>4. Idle \in Jobs
  BY DEF Jobs
<1> QED
  BY <1>3, <1>4 DEF ChangeRoleWrite

LEMMA UndoLastRoleStep ==
    ASSUME FlowOK, RolesOK, NEW a \in Staff, UndoLastRole(a)
    PROVE  RowWritten(a, RoleStates) /\ RolesOK' /\ job' = job
<1>1. undo[a] \in UndoRecords /\ undo[a].old \in RoleValues
  BY DEF RolesOK, UndoRecords
<1>2. NoUndo \in UndoRecords
  BY DEF NoUndo, UndoRecords, RoleValues
<1>3. undo' \in [Staff -> UndoRecords]
  BY <1>2 DEF UndoLastRole, PopUndo, RolesOK
<1>4. RowWritten(a, RoleStates)
  BY ClearWrites DEF UndoLastRole
<1>5. role' \in [Users -> RoleValues] /\ undone' \in [Staff -> Nat]
  <2>1. CASE UpdateRole(undo[a].user, undo[a].old) /\ undone' = [undone EXCEPT ![a] = @ + 1]
    BY <1>1, <2>1, UpdateRoleType DEF RolesOK
  <2>2. CASE UNCHANGED <<role, undone>>
    BY <2>2 DEF RolesOK
  <2> QED
    BY <2>1, <2>2 DEF UndoLastRole
<1> QED
  BY <1>3, <1>4, <1>5 DEF UndoLastRole, RolesOK

LEMMA MembershipStep ==
    ASSUME RolesOK, NEW u \in Users, Leaves(u) \/ Returns(u)
    PROVE  RolesOK' /\ flow' = flow /\ job' = job /\ UNCHANGED <<undo, changes, undone>>
<1>1. CASE Leaves(u)
  BY <1>1 DEF Leaves, panel, RolesOK
<1>2. CASE Returns(u)
  <2>1. \A r \in {role[u], "null"} : r \in RoleValues
    BY DEF RolesOK, RoleValues
  <2>2. role' \in [Users -> RoleValues]
    BY <1>2, <2>1 DEF Returns, RolesOK
  <2> QED
    BY <1>2, <2>2 DEF Returns, panel, RolesOK
<1> QED
  BY <1>1, <1>2

\* A step of the roles: one handler at most, of one admin.
LEMMA RolesStep ==
    ASSUME ClockOK, FlowOK, RolesOK, job \in [Staff -> Jobs], RolesNext
    PROVE  /\ Handling /\ RolesOK' /\ job' \in [Staff -> Jobs]
           /\ flow' = flow \/ \E a \in Staff : RowWritten(a, RoleStates)
           /\ \A a \in Staff :
                 \/ job'[a] = job[a]
                 \/ job[a] = Idle /\ job'[a].step = "role"
                 \/ job[a].step = "role" /\ job'[a] = Idle
<1>1. Handling
  BY DEF RolesNext, StartPicker, TurnPage, PickUser, RefreshAssign, RoleInputBack, AssignRoleText,
         ChangeRoleText, ChangeRoleWrite, UndoLastRole, Leaves, Returns, Stays, panel, Handling
<1>2. ASSUME NEW a \in Staff, NEW m \in Dialogues, StartPicker(a, m) \/ TurnPage(a, m)
      PROVE  RowWritten(a, RoleStates) /\ RolesOK' /\ job' = job
  BY <1>2, StartPickerWrites, TurnPageWrites DEF StartPicker, TurnPage, roles, RolesOK
<1>3. ASSUME NEW a \in Staff, NEW m \in Dialogues, NEW u \in Users, PickUser(a, m, u)
      PROVE  RowWritten(a, RoleStates) /\ RolesOK' /\ job' = job
  BY <1>3, PickUserWrites DEF PickUser, roles, RolesOK
<1>4. ASSUME NEW a \in Staff, RefreshAssign(a) \/ RoleInputBack(a)
      PROVE  RowWritten(a, RoleStates) /\ RolesOK' /\ job' = job
  BY <1>4, RefreshAssignWrites, RoleInputBackWrites DEF RefreshAssign, RoleInputBack, roles, RolesOK
<1>5. ASSUME NEW a \in Staff, NEW r \in RoleNames, ChangeRoleText(a, r)
      PROVE  /\ RowWritten(a, RoleStates) /\ RolesOK' /\ job' \in [Staff -> Jobs]
             /\ \A b \in Staff : job'[b] = job[b] \/ (job[b] = Idle /\ job'[b].step = "role")
  BY <1>5, ChangeRoleTextStep
<1>6. ASSUME NEW a \in Staff, ChangeRoleWrite(a)
      PROVE  /\ RowWritten(a, RoleStates) /\ RolesOK' /\ job' \in [Staff -> Jobs]
             /\ \A b \in Staff : job'[b] = job[b] \/ (job[b].step = "role" /\ job'[b] = Idle)
  BY <1>6, ChangeRoleWriteStep DEF ChangeRoleWrite
<1> QED
  BY <1>1, <1>2, <1>3, <1>4, <1>5, <1>6, AssignRoleTextStep, UndoLastRoleStep, MembershipStep
  DEF RolesNext

-----------------------------------------------------------------------------
(* The dialogue about balances.                                            *)

\* A handler leaves the row of a, drops it or writes a flow; the record of the
\* last operation is the one of the row, or none.
FlowWritten(a) ==
    \/ flow' = flow
    \/ flow' = [flow EXCEPT ![a] = NoRow]
    \/ \E s \in BalanceStates, d \in Flows :
          /\ Fits(s, d)
          /\ d.last = NoOperation \/ (flow[a].state \in BalanceStates /\ d.last = Data(a).last)
          /\ flow' = [flow EXCEPT ![a] = Row(s, d)]

\* d may be written by a handler of a.
MayWrite(a, d) ==
    /\ d \in Flows
    /\ d.last = NoOperation \/ (flow[a].state \in BalanceStates /\ d.last = Data(a).last)

LEMMA FlowSet ==
    ASSUME NEW a \in Staff, NEW s \in BalanceStates, NEW d, MayWrite(a, d),
           Showable(s, d) \/ d.menu, SetState(a, s, d)
    PROVE  FlowWritten(a)
<1>1. Fits(s, d)
  BY FlowFits DEF MayWrite
<1> QED
  BY <1>1 DEF SetState, Saved, Kept, FlowWritten, MayWrite

LEMMA FlowTo ==
    ASSUME NEW a \in Staff, NEW s \in BalanceStates, NEW d, MayWrite(a, d), To(a, s, d)
    PROVE  FlowWritten(a)
<1>1. Showable(s, d) => Fits(s, d)
  BY FlowFits DEF MayWrite
<1> QED
  BY <1>1 DEF To, ShowState, Saved, Cleared, Kept, FlowWritten, MayWrite

LEMMA FlowClear ==
    ASSUME NEW a \in Staff, ClearState(a) \/ Cleared(a) \/ Kept \/ Denied(a)
    PROVE  FlowWritten(a)
  BY DEF ClearState, Cleared, Kept, Denied, FlowWritten

LEMMA FlowWrittenRow ==
    ASSUME NEW a \in Staff, FlowWritten(a) PROVE RowWritten(a, BalanceStates)
  BY DEF FlowWritten, RowWritten, Payloads

LEMMA BalanceNames ==
    /\ Mode \in BalanceStates /\ Picker \in BalanceStates /\ Amount \in BalanceStates
    /\ Confirm \in BalanceStates /\ DeltaName \in BalanceStates /\ DeltaAmount \in BalanceStates
    /\ \A d : /\ Showable(Mode, d) /\ Showable(DeltaName, d) /\ Showable(DeltaAmount, d)
              /\ Showable(Amount, d) <=> SelectionReady(d)
              /\ Showable(Confirm, d) <=> ReadyToConfirm(d)
  BY DEF BalanceStates, Mode, Picker, Amount, Confirm, DeltaName, DeltaAmount, Showable

\* The row of a balance screen.
LEMMA FlowRow ==
    ASSUME FlowOK, NEW a \in Staff, NEW s \in BalanceStates, In(a, {s})
    PROVE  /\ MayWrite(a, Data(a)) /\ Data(a) \in Flows
           /\ Showable(s, Data(a)) \/ Data(a).menu
<1>1. Fits(flow[a].state, flow[a].data) /\ flow[a].state = s
  BY DEF FlowOK, In
<1> QED
  BY <1>1 DEF Fits, Data, MayWrite

\* Another sign and list, choice, or amount leave the record.
LEMMA FlowEdits ==
    ASSUME NEW a \in Staff, NEW d, MayWrite(a, d)
    PROVE  /\ \A sign \in Signs, S \in SUBSET Users :
                 MayWrite(a, [d EXCEPT !.sign = sign, !.shown = S])
           /\ \A S \in SUBSET Users : MayWrite(a, [d EXCEPT !.chosen = S])
           /\ \A n \in Nat : MayWrite(a, [d EXCEPT !.amount = n, !.manual = FALSE])
           /\ MayWrite(a, [d EXCEPT !.manual = TRUE])
<1>1. d \in Flows
  BY DEF MayWrite
<1>2. ASSUME NEW sign \in Signs, NEW S \in SUBSET Users
      PROVE  MayWrite(a, [d EXCEPT !.sign = sign, !.shown = S])
  <2>1. [d EXCEPT !.sign = sign, !.shown = S] \in Flows
        /\ [d EXCEPT !.sign = sign, !.shown = S].last = d.last
    BY <1>1 DEF Flows
  <2> QED
    BY <2>1 DEF MayWrite
<1>3. ASSUME NEW S \in SUBSET Users PROVE MayWrite(a, [d EXCEPT !.chosen = S])
  <2>1. [d EXCEPT !.chosen = S] \in Flows /\ [d EXCEPT !.chosen = S].last = d.last
    BY <1>1 DEF Flows
  <2> QED
    BY <2>1 DEF MayWrite
<1>4. ASSUME NEW n \in Nat PROVE MayWrite(a, [d EXCEPT !.amount = n, !.manual = FALSE])
  <2>1. [d EXCEPT !.amount = n, !.manual = FALSE] \in Flows
        /\ [d EXCEPT !.amount = n, !.manual = FALSE].last = d.last
    BY <1>1 DEF Flows
  <2> QED
    BY <2>1 DEF MayWrite
<1>5. MayWrite(a, [d EXCEPT !.manual = TRUE])
  <2>1. [d EXCEPT !.manual = TRUE] \in Flows /\ [d EXCEPT !.manual = TRUE].last = d.last
    BY <1>1 DEF Flows
  <2> QED
    BY <2>1 DEF MayWrite
<1> QED
  BY <1>2, <1>3, <1>4, <1>5

LEMMA NewFlowFits ==
    ASSUME NEW a \in Staff, NEW menu \in BOOLEAN
    PROVE  MayWrite(a, NewFlow(menu)) /\ NewFlow(menu).menu = menu
<1>1. NoOperation \in Operation
  BY DEF NoOperation, Operation, Signs
<1> QED
  BY <1>1 DEF NewFlow, MayWrite, Flows, Signs

\* The buttons before the confirmation.
LEMMA ButtonsWrite ==
    ASSUME FlowOK, RolesOK, NEW a \in Staff
    PROVE  /\ StartBalanceAdjustMode(a) => FlowWritten(a)
           /\ \A sign \in {-1, 1} : ChooseMode(a, sign) => FlowWritten(a)
           /\ \A u \in Users : Toggle(a, u) => FlowWritten(a)
           /\ PickerPage(a) => FlowWritten(a)
           /\ PickerClear(a) => FlowWritten(a)
           /\ PickerDone(a) => FlowWritten(a)
           /\ PickerBack(a) => FlowWritten(a)
           /\ ConfirmBack(a) => FlowWritten(a)
<1>0. ASSUME SetState(a, Mode, NewFlow(FALSE)) PROVE FlowWritten(a)
  BY <1>0, NewFlowFits, BalanceNames, FlowSet
<1>1. StartBalanceAdjustMode(a) => FlowWritten(a)
  BY <1>0 DEF StartBalanceAdjustMode
<1>2. ASSUME NEW s \in BalanceStates, NEW step, Tap(a, s, step)
      PROVE  FlowWritten(a) \/ (In(a, {s}) /\ step)
  BY <1>2, FlowClear DEF Tap
<1>3. ASSUME NEW sign \in {-1, 1}, ChooseMode(a, sign) PROVE FlowWritten(a)
  <2> DEFINE d == [Data(a) EXCEPT !.sign = sign, !.shown = GetUsersWithRole]
  <2>1. FlowWritten(a) \/ (In(a, {Mode}) /\ (Kept \/ To(a, Picker, d)))
    BY <1>3, FlowClear DEF ChooseMode, Tap
  <2>2. ASSUME In(a, {Mode}) PROVE MayWrite(a, d)
    <3>1. MayWrite(a, Data(a)) /\ sign \in Signs
      BY <2>2, BalanceNames, FlowRow DEF Signs
    <3> QED
      BY <3>1, CandidatesAreMembers, FlowEdits
  <2> HIDE DEF d
  <2> QED
    BY <2>1, <2>2, BalanceNames, FlowTo, FlowClear
<1>4. ASSUME NEW u \in Users, Toggle(a, u) PROVE FlowWritten(a)
  <2> DEFINE c == IF u \in Data(a).chosen THEN Data(a).chosen \ {u} ELSE Data(a).chosen \cup {u}
  <2>1. FlowWritten(a) \/ (In(a, {Picker}) /\ To(a, Picker, [Data(a) EXCEPT !.chosen = c]))
    BY <1>4, FlowClear DEF Toggle, Tap
  <2>2. ASSUME In(a, {Picker}) PROVE MayWrite(a, [Data(a) EXCEPT !.chosen = c])
    <3>1. MayWrite(a, Data(a)) /\ Data(a) \in Flows
      BY <2>2, BalanceNames, FlowRow
    <3>2. c \in SUBSET Users
      BY <3>1 DEF Flows
    <3> QED
      BY <3>1, <3>2, FlowEdits
  <2> HIDE DEF c
  <2> QED
    BY <2>1, <2>2, BalanceNames, FlowTo
<1>5. ASSUME PickerClear(a) PROVE FlowWritten(a)
  <2>1. FlowWritten(a) \/ (In(a, {Picker}) /\ To(a, Picker, [Data(a) EXCEPT !.chosen = {}]))
    BY <1>5, FlowClear DEF PickerClear, Tap
  <2>2. ASSUME In(a, {Picker}) PROVE MayWrite(a, [Data(a) EXCEPT !.chosen = {}])
    BY <2>2, BalanceNames, FlowRow, FlowEdits
  <2> QED
    BY <2>1, <2>2, BalanceNames, FlowTo
<1>6. ASSUME PickerPage(a) \/ PickerDone(a) PROVE FlowWritten(a)
  <2>1. \/ FlowWritten(a)
        \/ In(a, {Picker}) /\ (To(a, Picker, Data(a)) \/ To(a, Amount, Data(a)))
    BY <1>6, FlowClear DEF PickerPage, PickerDone, Tap
  <2> QED
    BY <2>1, BalanceNames, FlowRow, FlowTo
<1>7. ASSUME PickerBack(a) PROVE FlowWritten(a)
  BY <1>0, <1>7, FlowClear DEF PickerBack, Tap
<1>8. ASSUME ConfirmBack(a) PROVE FlowWritten(a)
  <2>1. FlowWritten(a) \/ (In(a, {Confirm}) /\ To(a, Amount, Data(a)))
    BY <1>8, FlowClear DEF ConfirmBack, Tap
  <2> QED
    BY <2>1, BalanceNames, FlowRow, FlowTo
<1> QED
  BY <1>1, <1>3, <1>4, <1>5, <1>6, <1>7, <1>8
\* The amount is one of the ready ones or typed.
LEMMA AmountWrites ==
    ASSUME FlowOK, NEW a \in Staff
    PROVE  /\ \A n \in Nat : ChooseDelta(a, n) => FlowWritten(a)
           /\ ChooseManual(a) => FlowWritten(a)
           /\ AmountBack(a) => FlowWritten(a)
           /\ \A n \in Nat : ManualAmount(a, n) => FlowWritten(a)
<1>1. ASSUME NEW n \in Nat, In(a, {Amount})
      PROVE  /\ MayWrite(a, [Data(a) EXCEPT !.amount = n, !.manual = FALSE])
             /\ MayWrite(a, [Data(a) EXCEPT !.manual = TRUE])
             /\ Showable(Amount, Data(a)) \/ Data(a).menu
  BY <1>1, BalanceNames, FlowRow, FlowEdits
<1>2. ASSUME NEW n \in Nat, ChooseDelta(a, n) PROVE FlowWritten(a)
  <2> DEFINE d == [Data(a) EXCEPT !.amount = n, !.manual = FALSE]
  <2>1. In(a, {Amount}) /\ (To(a, Confirm, d) \/ Kept)
    BY <1>2 DEF ChooseDelta, OnAmount
  <2>2. MayWrite(a, d)
    BY <1>1, <2>1
  <2> HIDE DEF d
  <2> QED
    BY <2>1, <2>2, BalanceNames, FlowTo, FlowClear
<1>3. ASSUME ChooseManual(a) PROVE FlowWritten(a)
  <2> DEFINE d == [Data(a) EXCEPT !.manual = TRUE]
  <2>1. In(a, {Amount}) /\ SetState(a, Amount, d)
    BY <1>3 DEF ChooseManual, OnAmount
  <2>2. MayWrite(a, d) /\ Data(a) \in Flows /\ (Showable(Amount, Data(a)) \/ Data(a).menu)
    BY <1>1, <2>1, BalanceNames, FlowRow
  <2>3. d.sign = Data(a).sign /\ d.chosen = Data(a).chosen /\ d.menu = Data(a).menu
    BY <2>2 DEF Flows
  <2>4. Showable(Amount, d) \/ d.menu
    BY <2>2, <2>3, BalanceNames DEF SelectionReady
  <2> HIDE DEF d
  <2> QED
    BY <2>1, <2>2, <2>4, BalanceNames, FlowSet
<1>4. ASSUME AmountBack(a) PROVE FlowWritten(a)
  <2>1. \/ FlowWritten(a)
        \/ /\ In(a, {Amount}) \/ In(a, {DeltaName}) \/ In(a, {DeltaAmount})
           /\ To(a, Picker, Data(a)) \/ To(a, Amount, Data(a))
    BY <1>4, FlowClear DEF AmountBack, In
  <2> QED
    BY <2>1, BalanceNames, FlowRow, FlowTo
<1>5. ASSUME NEW n \in Nat, ManualAmount(a, n) PROVE FlowWritten(a)
  <2> DEFINE d == [Data(a) EXCEPT !.amount = n, !.manual = FALSE]
  <2>1. FlowWritten(a) \/ (In(a, {Amount}) /\ To(a, Confirm, d))
    BY <1>5, FlowClear DEF ManualAmount
  <2>2. In(a, {Amount}) => MayWrite(a, d)
    BY <1>1
  <2> HIDE DEF d
  <2> QED
    BY <2>1, <2>2, BalanceNames, FlowTo
<1> QED
  BY <1>2, <1>3, <1>4, <1>5

\* The dialogue about the ready amounts.
LEMMA DeltasWrite ==
    ASSUME FlowOK, deltas \in [Staff -> Seq(Nat)], NEW a \in Staff
    PROVE  /\ \A s \in {DeltaName, Amount} : StartDelta(a, s) => FlowWritten(a)
           /\ \A valid \in BOOLEAN : TypeDeltaName(a, valid) => FlowWritten(a)
           /\ \A n \in Nat :
                 TypeDeltaAmount(a, n) => FlowWritten(a) /\ deltas' \in [Staff -> Seq(Nat)]
           /\ \A id \in Nat :
                 DeleteDelta(a, id) => FlowWritten(a) /\ deltas' \in [Staff -> Seq(Nat)]
<1>1. ASSUME NEW s \in {DeltaName, Amount}, StartDelta(a, s) PROVE FlowWritten(a)
  <2>1. s \in BalanceStates /\ SetState(a, s, NewFlow(TRUE))
    BY <1>1, BalanceNames DEF StartDelta
  <2>2. MayWrite(a, NewFlow(TRUE)) /\ NewFlow(TRUE).menu
    BY NewFlowFits
  <2> QED
    BY <2>1, <2>2, FlowSet
<1>2. ASSUME NEW valid \in BOOLEAN, TypeDeltaName(a, valid) PROVE FlowWritten(a)
  <2>1. FlowWritten(a) \/ (In(a, {DeltaName}) /\ SetState(a, DeltaAmount, Data(a)))
    BY <1>2, FlowClear DEF TypeDeltaName
  <2> QED
    BY <2>1, BalanceNames, FlowRow, FlowSet
<1>3. ASSUME NEW n \in Nat, TypeDeltaAmount(a, n)
      PROVE  FlowWritten(a) /\ deltas' \in [Staff -> Seq(Nat)]
  <2>1. FlowWritten(a) \/ (In(a, {DeltaAmount}) /\ To(a, Amount, Data(a)))
    BY <1>3, FlowClear DEF TypeDeltaAmount, CreateDelta
  <2>2. FlowWritten(a)
    BY <2>1, BalanceNames, FlowRow, FlowTo
  <2>3. deltas' = deltas \/ deltas' = [deltas EXCEPT ![a] = Append(@, n)]
    BY <1>3 DEF TypeDeltaAmount, CreateDelta
  <2>4. Append(deltas[a], n) \in Seq(Nat)
    OBVIOUS
  <2> QED
    BY <2>2, <2>3, <2>4
<1>4. ASSUME NEW id \in Nat, DeleteDelta(a, id)
      PROVE  FlowWritten(a) /\ deltas' \in [Staff -> Seq(Nat)]
  <2>1. FlowWritten(a) \/ (In(a, {Amount}) /\ To(a, Amount, Data(a)))
    BY <1>4, FlowClear DEF DeleteDelta, OnAmount
  <2>2. FlowWritten(a)
    BY <2>1, BalanceNames, FlowRow, FlowTo
  <2>3. deltas' = deltas \/ deltas' = [deltas EXCEPT ![a][id] = 0]
    BY <1>4 DEF DeleteDelta
  <2>4. id \in DOMAIN deltas[a] /\ deltas[a] \in Seq(Nat)
    BY <1>4 DEF DeleteDelta
  <2>5. [deltas[a] EXCEPT ![id] = 0] \in Seq(Nat)
    BY <2>4
  <2> QED
    BY <2>2, <2>3, <2>5
<1> QED
  BY <1>1, <1>2, <1>3, <1>4

-----------------------------------------------------------------------------
(* The operation on several balances.                                      *)

LEMMA JobKinds ==
    ASSUME job \in [Staff -> Jobs], NEW a \in Staff
    PROVE  /\ Works(a, "apply") => job[a] \in Payments
           /\ Works(a, "rollback") => job[a] \in Payments
           /\ Works(a, "undo") => job[a] \in Reversals
           /\ Works(a, "apply") \/ Works(a, "rollback") \/ Works(a, "undo") => job[a] # Idle
<1>1. job[a] \in Jobs
  OBVIOUS
<1> QED
  BY <1>1 DEF Jobs, Idle, Renamings, Payments, Reversals, Works

\* What one member is paid or charged.
LEMMA Products ==
    \A s \in Signs, m \in Nat :
       /\ s * m \in Int /\ (0 - s) \in Signs /\ (0 - s) * m = 0 - s * m
<1> SUFFICES ASSUME NEW s \in Signs, NEW m \in Nat
             PROVE  s * m \in Int /\ (0 - s) \in Signs /\ (0 - s) * m = 0 - s * m
  OBVIOUS
<1>1. CASE s = -1
  BY <1>1 DEF Signs
<1>2. CASE s = 0
  BY <1>2 DEF Signs
<1>3. CASE s = 1
  BY <1>3 DEF Signs
<1> QED
  BY <1>1, <1>2, <1>3 DEF Signs

\* The lowest id of several is one of them.
LEMMA LowestIsOne ==
    ASSUME NEW S \in SUBSET Users, S # {} PROVE ChooseLowest(S) \in S
<1> DEFINE R == {p \in Nat \X Nat : p[1] < p[2]}
<1>1. IsWellFoundedOn(R, Nat) /\ S \subseteq Nat
  BY NatLessThanWellFounded, BalanceAssumption DEF OpToRel
<1>2. PICK u \in S : \A v \in S : ~(<<v, u>> \in R)
  <2> HIDE DEF R
  <2> QED
    BY <1>1, WFMin
<1>3. ASSUME NEW v \in S PROVE u <= v
  <2>1. u \in Nat /\ v \in Nat /\ ~(<<v, u>> \in R)
    BY <1>1, <1>2
  <2>2. v < u => <<v, u>> \in R
    BY <2>1
  <2> HIDE DEF R
  <2> QED
    BY <2>1, <2>2
<1> QED
  BY <1>3 DEF ChooseLowest
Told == [kind : Kinds, change : [Users -> Int]]

LEMMA MoveTypes ==
    ASSUME MoneyOK, NEW a \in Staff, NEW u \in Users, NEW n \in Int, Move(a, u, n)
    PROVE  balance' \in [Users -> 0 .. MaxBalance] /\ net' \in [Staff -> [Users -> Int]]
<1>1. balance' \in [Users -> 0 .. MaxBalance]
  BY DEF Move, MoneyOK
<1>2. net[a] \in [Users -> Int] /\ net \in [Staff -> [Users -> Int]]
  BY DEF MoneyOK
<1>3. [net[a] EXCEPT ![u] = @ + n] \in [Users -> Int]
  <2>1. net[a][u] + n \in Int
    BY <1>2
  <2> QED
    BY <1>2, <2>1
<1>4. net' = [net EXCEPT ![a] = [net[a] EXCEPT ![u] = @ + n]]
  BY <1>2 DEF Move
<1> QED
  BY <1>1, <1>2, <1>3, <1>4

LEMMA TellTypes ==
    ASSUME MoneyOK, NEW a \in Staff, NEW kind \in Kinds, Tell(a, kind),
           job[a].sign \in Signs, job[a].amount \in Nat
    PROVE  told' \in [Staff -> Told]
<1> DEFINE n == job[a].sign * job[a].amount
           c == [u \in Users |-> IF u \in job[a].users THEN n ELSE 0]
<1>0. n \in Int
  BY Products
<1>1. c \in [Users -> Int]
  <2> HIDE DEF n
  <2> QED
    BY <1>0
<1>2. told' = [told EXCEPT ![a] = [kind |-> kind, change |-> c]]
  BY DEF Tell
<1> HIDE DEF n, c
<1>3. [kind |-> kind, change |-> c] \in Told
  BY <1>1 DEF Told
<1> QED
  BY <1>2, <1>3 DEF MoneyOK, Told

\* What the handlers of the operation leave behind.
Operates(a) ==
    /\ RowWritten(a, BalanceStates)
    /\ job' \in [Staff -> Jobs]
    /\ MoneyOK'

LEMMA QuietTypes ==
    Nothing \in [Users -> Int] /\ Silence \in Told /\ Idle \in Jobs
<1>1. Nothing \in [Users -> Int]
  BY DEF Nothing
<1> QED
  BY <1>1 DEF Silence, Told, Kinds, Jobs

LEMMA ConfirmApplyTypes ==
    ASSUME FlowOK, MoneyOK, job \in [Staff -> Jobs], NEW a \in Staff, ConfirmApply(a)
    PROVE  Operates(a)
<1>1. CASE In(a, {Confirm}) /\ ReadyToConfirm(Data(a)) /\ InvalidUsers(Data(a)) = {}
  <2> DEFINE j == [step |-> "apply", todo |-> Data(a).chosen, done |-> <<>>,
                   users |-> Data(a).chosen, sign |-> Data(a).sign,
                   amount |-> Data(a).amount, data |-> Data(a)]
  <2>1. job' = [job EXCEPT ![a] = j] /\ Kept /\ net' = [net EXCEPT ![a] = Nothing]
        /\ told' = [told EXCEPT ![a] = Silence] /\ UNCHANGED <<balance, deltas>>
    BY <1>1 DEF ConfirmApply, Begin
  <2>2. Data(a) \in Flows
    BY <1>1, BalanceNames, FlowRow
  <2>3. j \in Payments
    <3>1. Data(a).chosen \in SUBSET Users /\ Data(a).sign \in Signs /\ Data(a).amount \in Nat
      BY <2>2 DEF Flows
    <3> QED
      BY <1>1, <2>2, <3>1 DEF Payments
  <2> HIDE DEF j
  <2>4. job' \in [Staff -> Jobs]
    BY <2>1, <2>3 DEF Jobs
  <2>5. MoneyOK'
    BY <2>1, QuietTypes DEF MoneyOK, Told
  <2> QED
    BY <2>1, <2>4, <2>5, ClearWrites DEF Operates
<1>2. CASE ~(In(a, {Confirm}) /\ ReadyToConfirm(Data(a)) /\ InvalidUsers(Data(a)) = {})
  <2>1. UNCHANGED <<job, balance, deltas, net, told>>
    BY <1>2 DEF ConfirmApply
  <2>2. ClearState(a) \/ (In(a, {Confirm}) /\ To(a, Picker, Data(a)))
    BY <1>2 DEF ConfirmApply
  <2>3. RowWritten(a, BalanceStates)
    BY <2>2, BalanceNames, FlowRow, FlowTo, FlowClear, FlowWrittenRow
  <2> QED
    BY <2>1, <2>3 DEF Operates, MoneyOK
<1> QED
  BY <1>1, <1>2

LEMMA ApplyNextTypes ==
    ASSUME FlowOK, MoneyOK, job \in [Staff -> Jobs], NEW a \in Staff, ApplyNext(a)
    PROVE  Operates(a)
<1> DEFINE u == ChooseLowest(job[a].todo)
           n == job[a].sign * job[a].amount
<1>1. job[a] \in Payments /\ job[a].todo \in SUBSET Users /\ job[a].done \in Seq(Users)
      /\ n \in Int
  BY JobKinds, Products DEF ApplyNext, Payments
<1>2. u \in Users
  BY <1>1, LowestIsOne DEF ApplyNext
<1>3. /\ UNCHANGED <<flow, deltas, told>>
      /\ \/ /\ Move(a, u, n)
            /\ job' = [job EXCEPT ![a].todo = @ \ {u}, ![a].done = Append(@, u)]
         \/ /\ job' = [job EXCEPT ![a].step = "rollback", ![a].todo = {}]
            /\ UNCHANGED <<balance, net>>
  BY DEF ApplyNext
<1>4. RowWritten(a, BalanceStates)
  BY <1>3 DEF RowWritten
<1>5. job[a].todo \ {u} \in SUBSET Users /\ Append(job[a].done, u) \in Seq(Users)
  BY <1>1, <1>2
<1> HIDE DEF u, n
<1>6. CASE Move(a, u, n) /\ job' = [job EXCEPT ![a].todo = @ \ {u}, ![a].done = Append(@, u)]
  <2> DEFINE j == [job[a] EXCEPT !.todo = job[a].todo \ {u}, !.done = Append(job[a].done, u)]
  <2>1. j \in Payments
    BY <1>1, <1>5 DEF Payments
  <2>2. job' = [job EXCEPT ![a] = j]
    BY <1>6, <1>1 DEF Payments
  <2> HIDE DEF j
  <2>3. job' \in [Staff -> Jobs]
    BY <2>1, <2>2 DEF Jobs
  <2>4. MoneyOK'
    BY <1>1, <1>2, <1>3, <1>6, MoveTypes DEF MoneyOK
  <2> QED
    BY <1>4, <2>3, <2>4 DEF Operates
<1>7. CASE /\ job' = [job EXCEPT ![a].step = "rollback", ![a].todo = {}]
           /\ UNCHANGED <<balance, net>>
  <2> DEFINE j == [job[a] EXCEPT !.step = "rollback", !.todo = {}]
  <2>1. j \in Payments
    BY <1>1 DEF Payments
  <2>2. job' = [job EXCEPT ![a] = j]
    BY <1>7
  <2> HIDE DEF j
  <2>3. job' \in [Staff -> Jobs]
    BY <2>1, <2>2 DEF Jobs
  <2> QED
    BY <1>3, <1>4, <1>7, <2>3 DEF Operates, MoneyOK
<1> QED
  BY <1>3, <1>6, <1>7
\* The record of an operation fits where its data came from.
LEMMA ApplyDoneTypes ==
    ASSUME ClockOK, FlowOK, MoneyOK, job \in [Staff -> Jobs], NEW a \in Staff, ApplyDone(a)
    PROVE  Operates(a)
<1> DEFINE last == [users |-> job[a].done, sign |-> job[a].sign, amount |-> job[a].amount,
                    at |-> now]
           d == [job[a].data EXCEPT !.last = last]
<1>1. /\ job[a] \in Payments /\ ReadyToConfirm(job[a].data) /\ job[a].data \in Flows
      /\ job[a].done \in Seq(Users) /\ job[a].sign \in Signs /\ job[a].amount \in Nat
  BY JobKinds DEF ApplyDone, Payments
<1>2. last \in Operation
  BY <1>1 DEF Operation, ClockOK
<1>3. /\ d \in Flows /\ d.sign = job[a].data.sign /\ d.chosen = job[a].data.chosen
      /\ d.amount = job[a].data.amount
  <2> HIDE DEF last
  <2> QED
    BY <1>1, <1>2 DEF Flows
<1>4. /\ Saved(a, Confirm, d) \/ Kept
      /\ Tell(a, "done") \/ Tell(a, "done, not recorded")
      /\ job' = [job EXCEPT ![a] = Idle]
      /\ UNCHANGED <<balance, deltas, net>>
  BY DEF ApplyDone
<1> HIDE DEF last, d
<1>5. Showable(Confirm, d)
  BY <1>1, <1>3, BalanceNames DEF ReadyToConfirm, SelectionReady
<1>6. RowWritten(a, BalanceStates)
  BY <1>3, <1>4, <1>5, BalanceNames, FlowFits, SetWrites, ClearWrites
<1>7. job' \in [Staff -> Jobs]
  BY <1>4, QuietTypes
<1>8. told' \in [Staff -> Told]
  BY <1>1, <1>4, TellTypes DEF Kinds
<1> QED
  BY <1>4, <1>6, <1>7, <1>8 DEF Operates, MoneyOK, Told

LEMMA RollbackTypes ==
    ASSUME FlowOK, MoneyOK, job \in [Staff -> Jobs], NEW a \in Staff,
           RollbackNext(a) \/ RollbackDone(a)
    PROVE  Operates(a)
<1>1. /\ job[a] \in Payments /\ job[a].done \in Seq(Users) /\ job[a].todo \in SUBSET Users
      /\ job[a].sign \in Signs /\ job[a].amount \in Nat
  BY JobKinds DEF RollbackNext, RollbackDone, Payments
<1>2. CASE RollbackNext(a)
  <2> DEFINE u == job[a].done[Len(job[a].done)]
             n == 0 - job[a].sign * job[a].amount
             rest == SubSeq(job[a].done, 1, Len(job[a].done) - 1)
  <2>1. job[a].done # <<>>
    BY <1>2 DEF RollbackNext
  <2>2. u \in Users /\ rest \in Seq(Users)
    BY <1>1, <2>1
  <2>3. n \in Int
    BY <1>1, Products
  <2>4. /\ UNCHANGED <<flow, deltas, told>>
        /\ \/ Move(a, u, n) /\ job' = [job EXCEPT ![a].done = rest]
           \/ /\ job' = [job EXCEPT ![a].done = rest, ![a].todo = @ \cup {u}]
              /\ UNCHANGED <<balance, net>>
    BY <1>2 DEF RollbackNext
  <2> HIDE DEF u, n, rest
  <2>5. MoneyOK'
    BY <2>2, <2>3, <2>4, MoveTypes DEF MoneyOK
  <2>6. [job[a] EXCEPT !.done = rest] \in Jobs
    BY <1>1, <2>2 DEF Payments, Jobs
  <2>7. [job[a] EXCEPT !.done = rest, !.todo = @ \cup {u}] \in Jobs
    BY <1>1, <2>2 DEF Payments, Jobs
  <2>8. job' \in [Staff -> Jobs]
    BY <2>4, <2>6, <2>7
  <2> QED
    BY <2>4, <2>5, <2>8 DEF Operates, RowWritten
<1>3. CASE RollbackDone(a)
  <2>1. /\ Tell(a, "nothing done") \/ Tell(a, "partly done")
        /\ job' = [job EXCEPT ![a] = Idle]
        /\ UNCHANGED <<flow, balance, deltas, net>>
    BY <1>3 DEF RollbackDone
  <2>2. job' \in [Staff -> Jobs]
    BY <2>1, QuietTypes
  <2>3. told' \in [Staff -> Told]
    BY <1>1, <2>1, TellTypes DEF Kinds
  <2> QED
    BY <2>1, <2>2, <2>3 DEF Operates, RowWritten, MoneyOK, Told
<1> QED
  BY <1>2, <1>3

LEMMA BalanceUndoTypes ==
    ASSUME FlowOK, MoneyOK, job \in [Staff -> Jobs], NEW a \in Staff, BalanceUndo(a)
    PROVE  Operates(a)
<1> DEFINE last == Data(a).last
           users == {last.users[i] : i \in DOMAIN last.users}
           j == [step |-> "undo", todo |-> last.users, users |-> users,
                 sign |-> 0 - last.sign, amount |-> last.amount]
<1>1. /\ job' = [job EXCEPT ![a] = j] /\ Kept
      /\ told' = [told EXCEPT ![a] = IF @.kind = "done" THEN @ ELSE Silence]
      /\ UNCHANGED <<balance, deltas, net>>
  BY DEF BalanceUndo, Begin
<1>2. Data(a) \in Flows
  BY FlowRow DEF BalanceUndo, In
<1>3. last.users \in Seq(Users) /\ last.sign \in Signs /\ last.amount \in Nat
  BY <1>2 DEF Flows, Operation
<1>4. users \in SUBSET Users
  BY <1>3
<1>5. 0 - last.sign \in Signs
  BY <1>3, Products
<1>6. j \in Jobs
  <2> HIDE DEF last, users
  <2> QED
    BY <1>3, <1>4, <1>5 DEF Reversals, Jobs
<1> HIDE DEF j
<1>7. job' \in [Staff -> Jobs]
  BY <1>1, <1>6
<1>8. told' \in [Staff -> Told]
  BY <1>1, QuietTypes DEF MoneyOK, Told
<1> QED
  BY <1>1, <1>7, <1>8, ClearWrites DEF Operates, MoneyOK, Told

LEMMA UndoTypes ==
    ASSUME FlowOK, MoneyOK, job \in [Staff -> Jobs], NEW a \in Staff, UndoNext(a) \/ UndoDone(a)
    PROVE  Operates(a)
<1>1. /\ job[a] \in Reversals /\ job[a].todo \in Seq(Users)
      /\ job[a].sign \in Signs /\ job[a].amount \in Nat
  BY JobKinds DEF UndoNext, UndoDone, Reversals
<1>2. CASE UndoNext(a)
  <2> DEFINE u == job[a].todo[Len(job[a].todo)]
             n == job[a].sign * job[a].amount
             rest == SubSeq(job[a].todo, 1, Len(job[a].todo) - 1)
  <2>1. job[a].todo # <<>>
    BY <1>2 DEF UndoNext
  <2>2. u \in Users /\ rest \in Seq(Users)
    BY <1>1, <2>1
  <2>3. n \in Int
    BY <1>1, Products
  <2>4. /\ UNCHANGED <<flow, deltas>>
        /\ \/ Move(a, u, n) /\ job' = [job EXCEPT ![a].todo = rest] /\ UNCHANGED told
           \/ /\ Tell(a, "undo failed") /\ job' = [job EXCEPT ![a] = Idle]
              /\ UNCHANGED <<balance, net>>
    BY <1>2 DEF UndoNext
  <2> HIDE DEF u, n, rest
  <2>5. told' \in [Staff -> Told]
    BY <1>1, <2>4, TellTypes DEF Kinds, MoneyOK, Told
  <2>6. MoneyOK'
    BY <2>2, <2>3, <2>4, <2>5, MoveTypes DEF MoneyOK, Told
  <2>7. [job[a] EXCEPT !.todo = rest] \in Jobs
    BY <1>1, <2>2 DEF Reversals, Jobs
  <2>8. job' \in [Staff -> Jobs]
    BY <2>4, <2>7, QuietTypes
  <2> QED
    BY <2>4, <2>6, <2>8 DEF Operates, RowWritten
<1>3. CASE UndoDone(a)
  <2>1. /\ Tell(a, "nothing done") \/ UNCHANGED told
        /\ ClearState(a) /\ job' = [job EXCEPT ![a] = Idle]
        /\ UNCHANGED <<balance, deltas, net>>
    BY <1>3 DEF UndoDone
  <2>2. job' \in [Staff -> Jobs]
    BY <2>1, QuietTypes
  <2>3. told' \in [Staff -> Told]
    BY <1>1, <2>1, TellTypes DEF Kinds, MoneyOK, Told
  <2> QED
    BY <2>1, <2>2, <2>3, ClearWrites DEF Operates, MoneyOK, Told
<1> QED
  BY <1>2, <1>3
\* A step of the balances and deltas: one handler at most, of one admin.
LEMMA BalanceStep ==
    ASSUME ClockOK, FlowOK, RolesOK, MoneyOK, job \in [Staff -> Jobs], BalanceNext
    PROVE  /\ Handling /\ RolesOK' /\ MoneyOK' /\ job' \in [Staff -> Jobs]
           /\ UNCHANGED <<undo, changes, undone>>
           /\ flow' = flow \/ \E a \in Staff : RowWritten(a, BalanceStates)
<1>1. ASSUME NEW a \in Staff,
             \/ StartBalanceAdjustMode(a) \/ \E sign \in {-1, 1} : ChooseMode(a, sign)
             \/ \E u \in Users : Toggle(a, u)
             \/ PickerPage(a) \/ PickerClear(a) \/ PickerDone(a) \/ PickerBack(a) \/ ConfirmBack(a)
      PROVE  RowWritten(a, BalanceStates) /\ Stays /\ UNCHANGED <<job, roles, money>>
  <2>1. RowWritten(a, BalanceStates)
    BY <1>1, ButtonsWrite, FlowWrittenRow
  <2> QED
    BY <1>1, <2>1 DEF StartBalanceAdjustMode, ChooseMode, Toggle, PickerPage, PickerClear,
         PickerDone, PickerBack, ConfirmBack, Tap
<1>2. ASSUME NEW a \in Staff,
             ChooseManual(a) \/ AmountBack(a) \/ \E n \in Nat : ChooseDelta(a, n) \/ ManualAmount(a, n)
      PROVE  RowWritten(a, BalanceStates) /\ Stays /\ UNCHANGED <<job, roles, money>>
  <2>1. RowWritten(a, BalanceStates)
    BY <1>2, AmountWrites, FlowWrittenRow
  <2> QED
    BY <1>2, <2>1 DEF ChooseManual, AmountBack, ChooseDelta, ManualAmount
<1>3. ASSUME NEW a \in Staff,
             \/ \E s \in {DeltaName, Amount} : StartDelta(a, s)
             \/ \E valid \in BOOLEAN : TypeDeltaName(a, valid)
      PROVE  RowWritten(a, BalanceStates) /\ Stays /\ UNCHANGED <<job, roles, money>>
  <2>1. RowWritten(a, BalanceStates)
    BY <1>3, DeltasWrite, FlowWrittenRow DEF MoneyOK
  <2> QED
    BY <1>3, <2>1 DEF StartDelta, TypeDeltaName
<1>4. ASSUME NEW a \in Staff,
             \E n \in Nat : TypeDeltaAmount(a, n) \/ DeleteDelta(a, n)
      PROVE  /\ RowWritten(a, BalanceStates) /\ Stays /\ deltas' \in [Staff -> Seq(Nat)]
             /\ UNCHANGED <<job, roles, balance, net, told>>
  <2>1. RowWritten(a, BalanceStates) /\ deltas' \in [Staff -> Seq(Nat)]
    BY <1>4, DeltasWrite, FlowWrittenRow DEF MoneyOK
  <2> QED
    BY <1>4, <2>1 DEF TypeDeltaAmount, DeleteDelta
<1>5. ASSUME NEW a \in Staff,
             \/ ConfirmApply(a) \/ BalanceUndo(a) \/ ApplyNext(a) \/ ApplyDone(a)
             \/ RollbackNext(a) \/ RollbackDone(a) \/ UndoNext(a) \/ UndoDone(a)
      PROVE  Operates(a) /\ Stays /\ UNCHANGED roles
  <2>1. Operates(a)
    BY <1>5, ConfirmApplyTypes, BalanceUndoTypes, ApplyNextTypes, ApplyDoneTypes, RollbackTypes,
       UndoTypes
  <2> QED
    BY <1>5, <2>1 DEF ConfirmApply, BalanceUndo, ApplyNext, ApplyDone, RollbackNext, RollbackDone,
         UndoNext, UndoDone
<1>6. ASSUME NEW u \in Users, Spend(u)
      PROVE  MoneyOK' /\ UNCHANGED <<panel, roles>>
  <2>1. balance[u] - 1 \in 0 .. MaxBalance
    BY <1>6, BalanceAssumption DEF Spend, MoneyOK
  <2> QED
    BY <1>6, <2>1 DEF Spend, MoneyOK
<1>7. ASSUME NEW u \in Users, LosesRole(u)
      PROVE  RolesOK' /\ UNCHANGED <<panel, undo, changes, undone, money>>
  BY <1>7 DEF LosesRole, RolesOK, RoleValues
<1>8. UNCHANGED roles => RolesOK' /\ UNCHANGED <<undo, changes, undone>>
  BY DEF roles, RolesOK
<1>9. UNCHANGED money => MoneyOK'
  BY DEF money, MoneyOK
<1>10. UNCHANGED <<balance, net, told>> /\ deltas' \in [Staff -> Seq(Nat)] => MoneyOK'
  BY DEF MoneyOK
<1>11. Stays \/ UNCHANGED panel => Handling
  BY DEF Stays, panel, Handling
<1>12. \/ \E a \in Staff :
             /\ RowWritten(a, BalanceStates) /\ Stays /\ UNCHANGED roles
             /\ MoneyOK' /\ job' \in [Staff -> Jobs]
       \/ UNCHANGED <<panel, undo, changes, undone>> /\ RolesOK' /\ MoneyOK'
  BY <1>1, <1>2, <1>3, <1>4, <1>5, <1>6, <1>7, <1>8, <1>9, <1>10, BalanceAssumption
  DEF BalanceNext, Operates
<1> QED
  BY <1>8, <1>11, <1>12 DEF panel

-----------------------------------------------------------------------------
(* The draft of a riddle.                                                  *)

LEMMA DraftRow ==
    ASSUME FlowOK, NEW a \in Staff, In(a, DraftStates) PROVE flow[a].data \in DraftData
  BY DEF FlowOK, Fits, In

LEMMA StepWrites ==
    ASSUME FlowOK, WritingOK, NEW a \in Staff, NEW from \in DraftStates, NEW to \in DraftStates,
           NEW part \in {"text", "answers", "reward"}, Step(a, from, to, part)
    PROVE  RowWritten(a, DraftStates)
<1> DEFINE W(d) == [d EXCEPT ![part] = drafts[a]]
<1>1. ASSUME NEW d \in DraftData PROVE W(d) \in DraftData
  BY DEF DraftData, WritingOK
<1>2. EmptyDraft \in DraftData
  BY DraftAssumption DEF EmptyDraft, DraftData
<1>3. flow[a].data \in DraftData
  BY DraftRow DEF Step, In
<1>4. SetState(a, to, W(flow[a].data)) \/ Saved(a, to, W(EmptyDraft))
  BY DEF Step
<1> QED
  BY <1>1, <1>2, <1>3, <1>4, DraftFits, SetWrites

LEMMA DraftStep ==
    ASSUME FlowOK, WritingOK, DraftNext
    PROVE  /\ Handling /\ job' = job /\ WritingOK'
           /\ \E a \in Staff : RowWritten(a, DraftStates)
<1>1. RiddleText \in DraftStates /\ RiddleAnswers \in DraftStates
      /\ RiddleReward \in DraftStates /\ RiddleConfirm \in DraftStates
  BY DEF DraftStates
<1>2. EmptyDraft \in DraftData
  BY DraftAssumption DEF EmptyDraft, DraftData
<1>3. ASSUME NEW a \in Staff, StartRiddleCreate(a)
      PROVE  Rest /\ WritingOK' /\ RowWritten(a, DraftStates)
  <2>1. Saved(a, RiddleText, EmptyDraft) \/ Kept
    BY <1>3 DEF StartRiddleCreate
  <2>2. RowWritten(a, DraftStates)
    BY <1>1, <1>2, <2>1, DraftFits, SetWrites, ClearWrites
  <2>3. drafts' = drafts \/ (drafts[a] < MaxDrafts /\ drafts' = [drafts EXCEPT ![a] = @ + 1])
    BY <1>3 DEF StartRiddleCreate
  <2>4. drafts' \in [Staff -> 0 .. MaxDrafts]
    <3>1. drafts[a] \in 0 .. MaxDrafts
      BY DEF WritingOK
    <3>2. drafts[a] < MaxDrafts => drafts[a] + 1 \in 0 .. MaxDrafts
      BY <3>1, DraftAssumption
    <3> QED
      BY <2>3, <3>2 DEF WritingOK
  <2> QED
    BY <1>3, <2>2, <2>4 DEF StartRiddleCreate, WritingOK
<1>4. ASSUME NEW a \in Staff, TextStep(a) \/ AnswersStep(a) \/ RewardStep(a)
      PROVE  Rest /\ WritingOK' /\ RowWritten(a, DraftStates)
  <2>1. RowWritten(a, DraftStates)
    BY <1>1, <1>4, StepWrites DEF TextStep, AnswersStep, RewardStep
  <2>2. Rest /\ UNCHANGED writing
    BY <1>4 DEF TextStep, AnswersStep, RewardStep, Step
  <2> QED
    BY <2>1, <2>2 DEF writing, WritingOK
<1>5. ASSUME NEW a \in Staff, RiddlePublish(a)
      PROVE  Rest /\ WritingOK' /\ RowWritten(a, DraftStates)
  <2>1. RowWritten(a, DraftStates)
    BY <1>5, ClearWrites DEF RiddlePublish
  <2>2. posted' = posted \/ (In(a, DraftStates) /\ posted' = flow[a].data)
    BY <1>5 DEF RiddlePublish
  <2> QED
    BY <1>5, <2>1, <2>2, DraftRow DEF RiddlePublish, WritingOK
<1> QED
  BY <1>3, <1>4, <1>5 DEF DraftNext, Rest, Handling

-----------------------------------------------------------------------------
(* Entering, the surroundings and the restart.                             *)

LEMMA EntryHandlers ==
    ASSUME ClockOK, AuthOK, NEW a \in Staff,
           AskPassword(a) \/ ReturnPanel(a) \/ \E right \in BOOLEAN : TryPassword(a, right)
    PROVE  ClockOK' /\ AuthOK' /\ now' = now /\ job' = job /\ RowWritten(a, EntryStates)
<1>1. CASE AskPassword(a)
  <2>1. \/ SetState(a, "awaiting_password", <<>>)
        \/ Saved(a, "awaiting_password", <<>>)
    BY <1>1 DEF AskPassword
  <2>2. RowWritten(a, EntryStates)
    BY <2>1, EntryFits, SetWrites DEF EntryStates
  <2>3. UNCHANGED <<agenda, now, auth, job>>
    BY <1>1 DEF AskPassword
  <2> QED
    BY <2>2, <2>3, HandlingKeeps DEF Handling
<1>2. CASE ReturnPanel(a)
  <2>1. RowWritten(a, EntryStates)
    BY <1>2, ClearWrites DEF ReturnPanel
  <2>2. UNCHANGED <<agenda, now, auth, job>>
    BY <1>2 DEF ReturnPanel
  <2> QED
    BY <2>1, <2>2, HandlingKeeps DEF Handling
<1>3. ASSUME NEW right \in BOOLEAN, TryPassword(a, right)
      PROVE  ClockOK' /\ AuthOK' /\ now' = now /\ job' = job /\ RowWritten(a, EntryStates)
  <2>1. UNCHANGED <<agenda, now, job>> /\ VerifyPassword(a, right)
    BY <1>3 DEF TryPassword
  <2>2. RowWritten(a, EntryStates)
    BY <2>1, ClearWrites DEF VerifyPassword
  <2>3. flagged' = flagged
    BY <2>1 DEF VerifyPassword, auth
  <2>4. session' = session \/ session' = [session EXCEPT ![a] = now + Zone + SessionTTL]
    BY <2>1 DEF VerifyPassword, OpenSession, auth
  <2>5. entered' = entered \/ entered' = [entered EXCEPT ![a] = now]
    BY <2>1 DEF VerifyPassword, OpenSession, auth
  <2>6. \/ attempts' = attempts
        \/ attempts' = [attempts EXCEPT ![a] =
                          @ \cup {[id |-> Len(guessed[a]) + 1, at |-> now]}]
    BY <2>1 DEF VerifyPassword, LogFailure, auth
  <2>7. guessed' = guessed \/ guessed' = [guessed EXCEPT ![a] = Append(@, now)]
    BY <2>1 DEF VerifyPassword, LogFailure, auth
  <2>8. unlogged' = unlogged \/ unlogged' = [unlogged EXCEPT ![a] = @ + 1]
    BY <2>1 DEF VerifyPassword, LogFailure, auth
  <2>9. now \in Nat /\ now + Zone + SessionTTL \in Nat
    BY Lives DEF ClockOK
  <2>10. session' \in [Staff -> Nat] /\ \A b \in Staff : session'[b] <= now' + Zone + SessionTTL
    <3>1. session \in [Staff -> Nat] /\ \A b \in Staff : session[b] <= now + Zone + SessionTTL
      BY DEF AuthOK
    <3> QED
      BY <2>1, <2>4, <2>9, <3>1
  <2>11. attempts' \in [Staff -> SUBSET Failures]
    <3>1. guessed[a] \in Seq(Nat) /\ attempts \in [Staff -> SUBSET Failures]
      BY DEF AuthOK
    <3>2. Len(guessed[a]) + 1 \in Nat
      BY <3>1
    <3>3. [id |-> Len(guessed[a]) + 1, at |-> now] \in Failures
      BY <2>9, <3>2 DEF Failures
    <3> QED
      BY <2>6, <3>1, <3>3
  <2>12. guessed' \in [Staff -> Seq(Nat)]
    <3>1. guessed \in [Staff -> Seq(Nat)]
      BY DEF AuthOK
    <3>2. Append(guessed[a], now) \in Seq(Nat)
      BY <2>9, <3>1
    <3> QED
      BY <2>7, <3>1, <3>2
  <2>13. entered' \in [Staff -> Int]
    <3>1. entered \in [Staff -> Int]
      BY DEF AuthOK
    <3> QED
      BY <2>5, <2>9, <3>1
  <2>14. unlogged' \in [Staff -> Nat]
    <3>1. unlogged \in [Staff -> Nat] /\ unlogged[a] + 1 \in Nat
      BY DEF AuthOK
    <3> QED
      BY <2>8, <3>1
  <2> QED
    BY <2>1, <2>2, <2>3, <2>10, <2>11, <2>12, <2>13, <2>14 DEF AuthOK, ClockOK
<1> QED
  BY <1>1, <1>2, <1>3

LEMMA Surroundings ==
    ASSUME ClockOK, AuthOK, FlowOK, CleanupStaleAuthState \/ TimePasses \/ \E a \in Staff : Dismiss(a)
    PROVE  ClockOK' /\ AuthOK' /\ FlowOK' /\ job' = job
<1>1. CASE CleanupStaleAuthState
  <2>1. UNCHANGED <<agenda, now, flagged, entered, guessed, unlogged, flow, job>>
    BY <1>1 DEF CleanupStaleAuthState
  <2>2. /\ session' = [a \in Staff |-> IF session[a] < now THEN 0 ELSE session[a]]
        /\ attempts' = [a \in Staff |-> {failure \in attempts[a] : ~OldAttempt(failure.at)}]
    BY <1>1 DEF CleanupStaleAuthState
  <2>3. session' \in [Staff -> Nat] /\ \A a \in Staff : session'[a] <= now + Zone + SessionTTL
    BY <2>2, Lives DEF AuthOK, ClockOK
  <2>4. attempts' \in [Staff -> SUBSET Failures]
    BY <2>2 DEF AuthOK
  <2> QED
    BY <2>1, <2>3, <2>4 DEF AuthOK, ClockOK, FlowOK
<1>2. CASE TimePasses
  <2>1. /\ now < agenda.until /\ now' = now + 1 /\ UNCHANGED <<agenda, auth, job>>
        /\ flow' = [a \in Staff |-> Live(flow[a], now + 1)]
    BY <1>2 DEF TimePasses
  <2>2. agenda.until \in Nat /\ now \in Nat
    BY AgendaAssumption DEF ClockOK
  <2>3. ClockOK'
    BY <2>1, <2>2 DEF ClockOK
  <2>4. AuthOK'
    BY <2>1, <2>2, Lives DEF AuthOK, auth
  <2>5. ASSUME NEW a \in Staff
        PROVE  /\ flow'[a] \in Rows /\ Fits(flow'[a].state, flow'[a].data)
               /\ flow'[a].state # "none" => flow'[a].until \in now' .. now' + Zone + FlowTTL
    <3>1. flow'[a] = Live(flow[a], now + 1)
      BY <2>1
    <3>2. CASE now + 1 > flow[a].until
      <4>1. flow'[a] = NoRow /\ NoRow.data = <<>>
        BY <3>1, <3>2 DEF Live, NoRow
      <4> QED
        BY <4>1, NoRowFits
    <3>3. CASE ~(now + 1 > flow[a].until)
      <4>1. flow'[a] = flow[a] /\ flow[a] \in Rows /\ flow[a].until \in Nat
        BY <3>1, <3>3 DEF Live, FlowOK, Rows
      <4>2. flow[a].state # "none" => flow[a].until \in now .. now + Zone + FlowTTL
        BY DEF FlowOK
      <4>3. flow'[a].state # "none" => flow'[a].until \in now' .. now' + Zone + FlowTTL
        BY <2>1, <2>2, <3>3, <4>1, <4>2, Lives
      <4> QED
        BY <4>1, <4>3 DEF FlowOK
    <3> QED
      BY <3>2, <3>3
  <2>6. flow' \in [Staff -> Rows]
    BY <2>1, <2>5
  <2> QED
    BY <2>1, <2>3, <2>4, <2>5, <2>6 DEF FlowOK
<1>3. ASSUME NEW a \in Staff, Dismiss(a) PROVE ClockOK' /\ AuthOK' /\ FlowOK' /\ job' = job
  BY <1>3 DEF Dismiss, ClockOK, AuthOK, FlowOK
<1> QED
  BY <1>1, <1>2, <1>3

LEMMA CrashDomains ==
    ASSUME Domains, Crash PROVE Domains'
<1>1. /\ job' = [a \in Staff |-> Idle] /\ undo' = [a \in Staff |-> NoUndo]
      /\ told' = [a \in Staff |-> IF job[a] = Idle THEN told[a] ELSE Silence]
      /\ UNCHANGED <<agenda, now, auth, flow, breach, role, active, changes, undone,
                     balance, deltas, net, writing>>
  BY DEF Crash
<1>2. ClockOK' /\ AuthOK'
  BY <1>1, HandlingKeeps DEF Domains, Handling
<1>3. FlowOK'
  BY <1>1 DEF Domains, FlowOK
<1>4. job' \in [Staff -> Jobs]
  BY <1>1, QuietTypes
<1>5. RolesOK'
  <2>1. NoUndo \in UndoRecords
    BY DEF NoUndo, UndoRecords, RoleValues
  <2> QED
    BY <1>1, <2>1 DEF Domains, RolesOK
<1>6. MoneyOK'
  <2>1. told' \in [Staff -> Told]
    BY <1>1, QuietTypes DEF Domains, MoneyOK, Told
  <2> QED
    BY <1>1, <2>1 DEF Domains, MoneyOK, Told
<1>7. WritingOK'
  BY <1>1 DEF Domains, WritingOK, writing
<1> QED
  BY <1>2, <1>3, <1>4, <1>5, <1>6, <1>7 DEF Domains

LEMMA NextDomains == Domains /\ [Next]_vars => Domains'
<1> SUFFICES ASSUME Domains, [Next]_vars PROVE Domains'
  OBVIOUS
<1>0. /\ ClockOK /\ AuthOK /\ FlowOK /\ job \in [Staff -> Jobs]
      /\ RolesOK /\ MoneyOK /\ WritingOK
  BY DEF Domains
<1>1. /\ UNCHANGED roles => RolesOK'
      /\ UNCHANGED money => MoneyOK'
      /\ UNCHANGED writing => WritingOK'
  BY <1>0 DEF roles, RolesOK, money, MoneyOK, writing, WritingOK
<1>2. ASSUME NEW S \in SUBSET States, Handling, flow' = flow \/ \E a \in Staff : RowWritten(a, S)
      PROVE  ClockOK' /\ AuthOK' /\ FlowOK'
  <2>1. CASE flow' = flow
    BY <1>0, <1>2, <2>1, HandlingKeeps DEF Handling, FlowOK
  <2>2. CASE \E a \in Staff : RowWritten(a, S)
    BY <1>0, <1>2, <2>2, HandlingKeeps, RowWrittenFits DEF Handling
  <2> QED
    BY <1>2, <2>1, <2>2
<1>3. /\ EntryStates \in SUBSET States /\ RoleStates \in SUBSET States
      /\ BalanceStates \in SUBSET States /\ DraftStates \in SUBSET States
  BY DEF States
<1>4. CASE Entry
  <2>1. RolesOK' /\ MoneyOK' /\ WritingOK'
    BY <1>1, <1>4 DEF Entry
  <2>2. ClockOK' /\ AuthOK' /\ FlowOK' /\ job' = job
    <3>1. ASSUME NEW a \in Staff,
                 AskPassword(a) \/ ReturnPanel(a) \/ \E right \in BOOLEAN : TryPassword(a, right)
          PROVE  ClockOK' /\ AuthOK' /\ FlowOK' /\ job' = job
      <4>1. ClockOK' /\ AuthOK' /\ now' = now /\ job' = job /\ RowWritten(a, EntryStates)
        BY <1>0, <3>1, EntryHandlers
      <4> QED
        BY <1>0, <1>3, <4>1, RowWrittenFits
    <3> QED
      BY <1>0, <1>4, <3>1, Surroundings DEF Entry
  <2> QED
    BY <1>0, <2>1, <2>2 DEF Domains
<1>5. CASE RolesNext /\ UNCHANGED <<money, writing>>
  BY <1>0, <1>1, <1>2, <1>3, <1>5, RolesStep DEF Domains
<1>6. CASE BalanceNext /\ UNCHANGED writing
  BY <1>0, <1>1, <1>2, <1>3, <1>6, BalanceStep DEF Domains
<1>7. CASE DraftNext /\ UNCHANGED <<roles, money>>
  BY <1>0, <1>1, <1>2, <1>3, <1>7, DraftStep DEF Domains
<1>8. CASE Crash
  BY <1>8, CrashDomains
<1>9. CASE UNCHANGED vars
  BY <1>0, <1>1, <1>2, <1>3, <1>9 DEF vars, panel, Handling, Domains
<1> QED
  BY <1>4, <1>5, <1>6, <1>7, <1>8, <1>9 DEF Next

LEMMA AlwaysDomains == Spec => []Domains
  BY InitDomains, NextDomains, PTL DEF Spec

\* Every column keeps to its domain; the row of a dialogue that a handler meets
\* carries the data its state needs and is in its life.
THEOREM TypeCorrect == Spec => []TypeOK
  BY AlwaysDomains, DomainsType, PTL

-----------------------------------------------------------------------------
(* Changes of roles and their undo.                                        *)

\* A record in memory is a change not yet taken back.
UndoIsLeft ==
    \A a \in Staff : /\ undone[a] <= changes[a]
                     /\ undo[a] # NoUndo => undone[a] < changes[a]

LEMMA ReportedLeaves ==
    ASSUME RolesOK, UndoIsLeft, NEW a \in Staff, NEW u, NEW old, NEW r,
           Reported(a, u, old, r), undone' = undone
    PROVE  UndoIsLeft'
<1>1. CASE undo' = [undo EXCEPT ![a] = [user |-> u, old |-> old]]
           /\ changes' = [changes EXCEPT ![a] = @ + 1]
  BY <1>1 DEF RolesOK, UndoIsLeft
<1>2. CASE UNCHANGED <<undo, changes>>
  BY <1>2 DEF RolesOK, UndoIsLeft
<1> QED
  BY <1>1, <1>2 DEF Reported

LEMMA UndoLeaves ==
    ASSUME RolesOK, UndoIsLeft, NEW a \in Staff, UndoLastRole(a)
    PROVE  UndoIsLeft'
<1>1. /\ undo[a] # NoUndo /\ undo' = [undo EXCEPT ![a] = NoUndo] /\ changes' = changes
      /\ undone' = undone \/ undone' = [undone EXCEPT ![a] = @ + 1]
  BY DEF UndoLastRole, PopUndo
<1>2. undone \in [Staff -> Nat] /\ changes \in [Staff -> Nat] /\ undo \in [Staff -> UndoRecords]
  BY DEF RolesOK
<1>3. undone[a] + 1 <= changes[a]
  BY <1>1, <1>2 DEF UndoIsLeft
<1>4. ASSUME NEW b \in Staff
      PROVE  undone'[b] <= changes'[b] /\ (undo'[b] # NoUndo => undone'[b] < changes'[b])
  BY <1>1, <1>2, <1>3 DEF UndoIsLeft
<1> QED
  BY <1>4 DEF UndoIsLeft

LEMMA NextUndo == Domains /\ UndoIsLeft /\ [Next]_vars => UndoIsLeft'
<1> SUFFICES ASSUME Domains, UndoIsLeft, [Next]_vars PROVE UndoIsLeft'
  OBVIOUS
<1>0. RolesOK
  BY DEF Domains
<1>1. UNCHANGED <<undo, changes, undone>> => UndoIsLeft'
  BY DEF UndoIsLeft
<1>2. CASE RolesNext
  <2>1. ASSUME NEW a \in Staff, NEW r \in RoleNames, AssignRoleText(a, r) PROVE UndoIsLeft'
    BY <1>0, <1>1, <2>1, ReportedLeaves DEF AssignRoleText
  <2>2. ASSUME NEW a \in Staff, ChangeRoleWrite(a) PROVE UndoIsLeft'
    BY <1>0, <2>2, ReportedLeaves DEF ChangeRoleWrite
  <2>3. ASSUME NEW a \in Staff, UndoLastRole(a) PROVE UndoIsLeft'
    BY <1>0, <2>3, UndoLeaves
  <2>4. ASSUME NEW a \in Staff, NEW m \in Dialogues, NEW u \in Users, PickUser(a, m, u)
        PROVE  UndoIsLeft'
    BY <1>1, <2>4 DEF PickUser, roles
  <2>5. ASSUME NEW a \in Staff, NEW m \in Dialogues, StartPicker(a, m) \/ TurnPage(a, m)
        PROVE  UndoIsLeft'
    BY <1>1, <2>5 DEF StartPicker, TurnPage, roles
  <2>6. ASSUME NEW a \in Staff, NEW r \in RoleNames, ChangeRoleText(a, r) PROVE UndoIsLeft'
    BY <1>1, <2>6 DEF ChangeRoleText, roles
  <2>7. ASSUME NEW a \in Staff, RefreshAssign(a) \/ RoleInputBack(a) PROVE UndoIsLeft'
    BY <1>1, <2>7 DEF RefreshAssign, RoleInputBack, roles
  <2>8. ASSUME NEW u \in Users, Leaves(u) \/ Returns(u) PROVE UndoIsLeft'
    BY <1>1, <2>8 DEF Leaves, Returns
  <2> QED
    BY <1>2, <2>1, <2>2, <2>3, <2>4, <2>5, <2>6, <2>7, <2>8 DEF RolesNext
<1>3. CASE BalanceNext
  BY <1>0, <1>1, <1>3, BalanceStep DEF Domains
<1>4. CASE Crash
  <2>1. undo' = [a \in Staff |-> NoUndo] /\ UNCHANGED <<changes, undone>>
    BY <1>4 DEF Crash
  <2> QED
    BY <2>1 DEF UndoIsLeft
<1> QED
  BY <1>1, <1>2, <1>3, <1>4 DEF Next, Entry, roles, vars

\* No undo takes back a change that was not made or was taken back before.
THEOREM UndoneOnceCorrect == Spec => []UndoneOnce
<1>1. Init => UndoIsLeft
  BY DEF Init, InitRoles, UndoIsLeft
<1>2. UndoIsLeft => UndoneOnce
  BY DEF UndoIsLeft, UndoneOnce
<1> QED
  BY <1>1, <1>2, NextUndo, AlwaysDomains, PTL DEF Spec

-----------------------------------------------------------------------------
(* Drafts.                                                                 *)

\* What a draft in the row of a holds was written in his last dialogue.
DraftIsOne ==
    \A a \in Staff : flow[a].state \in DraftStates =>
        {flow[a].data.text, flow[a].data.answers, flow[a].data.reward} \subseteq {0, drafts[a]}

DraftIsWhole == DraftIsOne /\ PostedIsWhole

LEMMA OtherRowsKeepDrafts ==
    ASSUME FlowOK, DraftIsOne, drafts' = drafts, NEW a \in Staff, NEW S,
           S \cap DraftStates = {}, RowWritten(a, S)
    PROVE  DraftIsOne'
<1>1. NoRow.state \notin DraftStates
  BY NoRowFits, StatesApart DEF EntryStates
<1>2. ASSUME NEW s \in S, NEW d PROVE Row(s, d).state \notin DraftStates
  BY DEF Row
<1> QED
  BY <1>1, <1>2 DEF RowWritten, FlowOK, DraftIsOne

LEMMA StepKeepsDraft ==
    ASSUME FlowOK, WritingOK, DraftIsOne, NEW a \in Staff, NEW from \in DraftStates, NEW to,
           NEW part \in {"text", "answers", "reward"}, Step(a, from, to, part)
    PROVE  DraftIsOne'
<1> DEFINE W(d) == [d EXCEPT ![part] = drafts[a]]
           Own(d) == d \in DraftData /\ {d.text, d.answers, d.reward} \subseteq {0, drafts[a]}
<1>1. ASSUME NEW d, Own(d) PROVE {W(d).text, W(d).answers, W(d).reward} \subseteq {0, drafts[a]}
  BY <1>1 DEF DraftData
<1>2. Own(EmptyDraft)
  BY DraftAssumption DEF EmptyDraft, DraftData
<1>3. Own(flow[a].data)
  <2>1. flow[a].state \in DraftStates
    BY DEF Step, In
  <2> QED
    BY <2>1, DraftRow DEF DraftIsOne, In
<1>4. PICK d : Own(d) /\ (flow' = flow \/ flow' = [flow EXCEPT ![a] = Row(to, W(d))])
  BY <1>2, <1>3 DEF Step, SetState, Saved, Kept
<1>5. {W(d).text, W(d).answers, W(d).reward} \subseteq {0, drafts[a]}
  BY <1>1, <1>4
<1>6. drafts' = drafts
  BY DEF Step, writing
<1> HIDE DEF W, Own
<1>7. Row(to, W(d)).data = W(d)
  BY DEF Row
<1> QED
  BY <1>4, <1>5, <1>6, <1>7 DEF FlowOK, DraftIsOne

LEMMA NextDraft == Domains /\ DraftIsWhole /\ [Next]_vars => DraftIsWhole'
<1> SUFFICES ASSUME Domains, DraftIsWhole, [Next]_vars PROVE DraftIsWhole'
  OBVIOUS
<1>0. /\ ClockOK /\ AuthOK /\ FlowOK /\ job \in [Staff -> Jobs]
      /\ RolesOK /\ MoneyOK /\ WritingOK /\ DraftIsOne /\ PostedIsWhole
  BY DEF Domains, DraftIsWhole
<1>1. UNCHANGED posted => PostedIsWhole'
  BY <1>0 DEF PostedIsWhole
<1>2. ASSUME NEW S, S \cap DraftStates = {}, UNCHANGED writing,
             flow' = flow \/ \E a \in Staff : RowWritten(a, S)
      PROVE  DraftIsWhole'
  <2>1. flow' = flow => DraftIsOne'
    BY <1>0, <1>2 DEF DraftIsOne, writing
  <2> QED
    BY <1>0, <1>1, <1>2, <2>1, OtherRowsKeepDrafts DEF DraftIsWhole, writing
<1>3. CASE Entry
  <2>1. ASSUME NEW a \in Staff,
               AskPassword(a) \/ ReturnPanel(a) \/ \E right \in BOOLEAN : TryPassword(a, right)
        PROVE  DraftIsWhole'
    BY <1>0, <1>2, <1>3, <2>1, EntryHandlers, StatesApart DEF Entry
  <2>2. CASE TimePasses
    <3>1. flow' = [a \in Staff |-> Live(flow[a], now + 1)]
      BY <2>2 DEF TimePasses
    <3>2. NoRow.state \notin DraftStates
      BY NoRowFits, StatesApart DEF EntryStates
    <3>3. DraftIsOne'
      BY <1>0, <1>3, <3>1, <3>2 DEF Entry, writing, Live, DraftIsOne
    <3> QED
      BY <1>1, <1>3, <3>3 DEF Entry, writing, DraftIsWhole
  <2>3. CleanupStaleAuthState \/ (\E a \in Staff : Dismiss(a)) => flow' = flow
    BY DEF CleanupStaleAuthState, Dismiss
  <2>4. flow' = flow => DraftIsWhole'
    BY <1>2, <1>3, StatesApart DEF Entry
  <2> QED
    BY <1>3, <2>1, <2>2, <2>3, <2>4 DEF Entry
<1>4. CASE RolesNext /\ UNCHANGED <<money, writing>>
  BY <1>0, <1>2, <1>4, RolesStep, StatesApart
<1>5. CASE BalanceNext /\ UNCHANGED writing
  BY <1>0, <1>2, <1>5, BalanceStep, StatesApart
<1>6. CASE DraftNext
  <2>1. ASSUME NEW a \in Staff, StartRiddleCreate(a) PROVE DraftIsWhole'
    <3>1. \/ flow' = flow /\ drafts' = drafts
          \/ flow' = [flow EXCEPT ![a] = Row(RiddleText, EmptyDraft)]
             /\ drafts' = [drafts EXCEPT ![a] = @ + 1]
      BY <2>1 DEF StartRiddleCreate, Saved, Kept
    <3>2. Row(RiddleText, EmptyDraft).data = EmptyDraft
      BY DEF Row
    <3>3. EmptyDraft.text = 0 /\ EmptyDraft.answers = 0 /\ EmptyDraft.reward = 0
      BY DEF EmptyDraft
    <3>4. DraftIsOne'
      BY <1>0, <3>1, <3>2, <3>3 DEF DraftIsOne, FlowOK, WritingOK
    <3> QED
      BY <1>1, <2>1, <3>4 DEF StartRiddleCreate, DraftIsWhole
  <2>2. ASSUME NEW a \in Staff, TextStep(a) \/ AnswersStep(a) \/ RewardStep(a)
        PROVE  DraftIsWhole'
    <3>1. RiddleText \in DraftStates /\ RiddleAnswers \in DraftStates /\ RiddleReward \in DraftStates
      BY DEF DraftStates
    <3>2. DraftIsOne'
      BY <1>0, <2>2, <3>1, StepKeepsDraft DEF TextStep, AnswersStep, RewardStep
    <3>3. posted' = posted
      BY <2>2 DEF TextStep, AnswersStep, RewardStep, Step, writing
    <3> QED
      BY <1>1, <3>2, <3>3 DEF DraftIsWhole
  <2>3. ASSUME NEW a \in Staff, RiddlePublish(a) PROVE DraftIsWhole'
    <3>1. RowWritten(a, {}) /\ drafts' = drafts
      BY <2>3, ClearWrites DEF RiddlePublish
    <3>2. DraftIsOne'
      BY <1>0, <3>1, OtherRowsKeepDrafts
    <3>3. \/ posted' = posted
          \/ /\ flow[a].state \in DraftStates /\ Complete(flow[a].data)
             /\ posted' = flow[a].data
      BY <2>3 DEF RiddlePublish, In
    <3>4. PostedIsWhole'
      BY <1>0, <1>1, <3>3 DEF DraftIsOne, PostedIsWhole, Complete
    <3> QED
      BY <3>2, <3>4 DEF DraftIsWhole
  <2> QED
    BY <1>6, <2>1, <2>2, <2>3 DEF DraftNext
<1>7. CASE Crash
  BY <1>2, <1>7, StatesApart DEF Crash
<1>8. CASE UNCHANGED vars
  BY <1>2, <1>8, StatesApart DEF vars, panel
<1> QED
  BY <1>3, <1>4, <1>5, <1>6, <1>7, <1>8 DEF Next

\* The parts of a published riddle come from one dialogue.
THEOREM PostedIsWholeCorrect == Spec => []PostedIsWhole
<1>1. Init => DraftIsWhole
  <2> SUFFICES ASSUME Init PROVE DraftIsWhole
    OBVIOUS
  <2>1. flow = [a \in Staff |-> NoRow] /\ posted = EmptyDraft
    BY DEF Init, InitSession, InitDraft
  <2>2. NoRow.state \notin DraftStates
    BY NoRowFits, StatesApart DEF EntryStates
  <2> QED
    BY <2>1, <2>2 DEF DraftIsWhole, DraftIsOne, PostedIsWhole
<1>2. DraftIsWhole => PostedIsWhole
  BY DEF DraftIsWhole
<1> QED
  BY <1>1, <1>2, NextDraft, AlwaysDomains, PTL DEF Spec

-----------------------------------------------------------------------------
(* Sessions and rights.                                                    *)

\* A session ends SessionTTL after the password, by the clock of the database.
SessionLife ==
    \A a \in Staff : entered[a] >= Never /\ session[a] <= entered[a] + Zone + SessionTTL

LEMMA InitSessionLife == Init => SessionLife
<1> SUFFICES ASSUME Init PROVE SessionLife
  OBVIOUS
<1>1. ASSUME NEW a \in Staff
      PROVE  entered[a] >= Never /\ session[a] <= entered[a] + Zone + SessionTTL
  <2>1. CASE agenda.does = "login"
    <3>1. session[a] = 0 /\ entered[a] = Never
      BY <2>1 DEF Init, InitSession
    <3> QED
      BY <3>1, Lives DEF Never
  <2>2. CASE agenda.does # "login"
    <3>1. session[a] = Zone + SessionTTL /\ entered[a] = 0
      BY <2>2 DEF Init, InitSession
    <3> QED
      BY <3>1, Lives DEF Never
  <2> QED
    BY <2>1, <2>2
<1> QED
  BY <1>1 DEF SessionLife

LEMMA NextSessionLife == Domains /\ SessionLife /\ [Next]_vars => SessionLife'
<1> SUFFICES ASSUME Domains, SessionLife, [Next]_vars PROVE SessionLife'
  OBVIOUS
<1>0. /\ ClockOK /\ AuthOK /\ FlowOK /\ RolesOK /\ MoneyOK /\ WritingOK
      /\ job \in [Staff -> Jobs]
  BY DEF Domains
<1>1. UNCHANGED <<session, entered>> => SessionLife'
  BY DEF SessionLife
<1>2. Handling => SessionLife'
  BY <1>1 DEF Handling, auth
<1>3. CASE Entry
  <2>1. ASSUME NEW a \in Staff, NEW right \in BOOLEAN, TryPassword(a, right) PROVE SessionLife'
    <3>1. \/ UNCHANGED <<session, entered>>
          \/ /\ session' = [session EXCEPT ![a] = now + Zone + SessionTTL]
             /\ entered' = [entered EXCEPT ![a] = now]
      BY <2>1 DEF TryPassword, VerifyPassword, OpenSession, auth
    <3>2. now \in Nat /\ now >= Never
      BY <1>0, Lives DEF ClockOK, Never
    <3>3. session \in [Staff -> Nat] /\ entered \in [Staff -> Int]
      BY <1>0 DEF AuthOK
    <3>4. CASE /\ session' = [session EXCEPT ![a] = now + Zone + SessionTTL]
               /\ entered' = [entered EXCEPT ![a] = now]
      <4>1. ASSUME NEW b \in Staff
            PROVE  entered'[b] >= Never /\ session'[b] <= entered'[b] + Zone + SessionTTL
        <5>1. CASE b = a
          BY <3>2, <3>3, <3>4, <5>1, Lives
        <5>2. CASE b # a
          <6>1. entered'[b] = entered[b] /\ session'[b] = session[b]
            BY <3>3, <3>4, <5>2
          <6> QED
            BY <6>1 DEF SessionLife
        <5> QED
          BY <5>1, <5>2
      <4> QED
        BY <4>1 DEF SessionLife
    <3> QED
      BY <1>1, <3>1, <3>4
  <2>2. ASSUME CleanupStaleAuthState PROVE SessionLife'
    <3>1. /\ session' = [a \in Staff |-> IF session[a] < now THEN 0 ELSE session[a]]
          /\ entered' = entered
      BY <2>2 DEF CleanupStaleAuthState
    <3>2. \A a \in Staff : entered[a] \in Int /\ entered[a] >= Never
      BY <1>0 DEF AuthOK, SessionLife
    <3>3. \A a \in Staff : 0 <= entered[a] + Zone + SessionTTL
      BY <3>2, Lives DEF Never
    <3> QED
      BY <3>1, <3>3 DEF SessionLife
  <2>3. ASSUME NEW a \in Staff, AskPassword(a) \/ ReturnPanel(a) \/ Dismiss(a) PROVE SessionLife'
    BY <1>1, <2>3 DEF AskPassword, ReturnPanel, Dismiss, auth
  <2>4. ASSUME TimePasses PROVE SessionLife'
    BY <1>1, <2>4 DEF TimePasses, auth
  <2> QED
    BY <1>3, <2>1, <2>2, <2>3, <2>4 DEF Entry
<1>4. CASE RolesNext
  BY <1>0, <1>2, <1>4, RolesStep
<1>5. CASE BalanceNext
  BY <1>0, <1>2, <1>5, BalanceStep
<1>6. CASE DraftNext
  BY <1>0, <1>2, <1>6, DraftStep
<1>7. CASE Crash \/ UNCHANGED vars
  BY <1>1, <1>7 DEF Crash, vars, panel, auth
<1> QED
  BY <1>3, <1>4, <1>5, <1>6, <1>7 DEF Next

\* However the clocks are set apart, the right to act that a password gave is
\* gone Zone + SessionTTL later.
THEOREM SessionLifeCorrect == Spec => []SessionLife
  BY InitSessionLife, NextSessionLife, AlwaysDomains, PTL DEF Spec

\* Who was admitted with the right for the feature is entitled to it.
LEMMA DeedIsRightful ==
    ASSUME ClockOK, AuthOK, SessionLife, NEW a \in Staff, NEW f, Deed(a, f),
           HasActiveSession(a), IF f = "draft" THEN IsModerator(a) ELSE IsAdmin(a)
    PROVE  breach' = breach
<1>1. now < session[a] /\ session[a] <= entered[a] + Zone + SessionTTL
  BY DEF HasActiveSession, SessionLife
<1>2. /\ now \in Nat /\ session[a] \in Nat /\ entered[a] \in Int
      /\ Zone \in Nat /\ SessionTTL \in Nat
  BY Lives DEF ClockOK, AuthOK
<1>3. now < entered[a] + Zone + SessionTTL
  BY <1>1, <1>2
<1> QED
  BY <1>3 DEF Entitled, Deed

LEMMA RolesDeeds ==
    ASSUME ClockOK, AuthOK, SessionLife, RolesNext
    PROVE  breach' = breach
<1>1. ASSUME NEW a \in Staff, NEW r \in RoleNames, AssignRoleText(a, r) PROVE breach' = breach
  <2>1. HasActiveSession(a) /\ (NoDeed \/ (Deed(a, "roles") /\ CanManageRoles(a)))
    BY <1>1 DEF AssignRoleText, Denied, Admitted
  <2> QED
    BY <2>1, DeedIsRightful DEF CanManageRoles, NoDeed
<1>2. ASSUME NEW a \in Staff, NEW r \in RoleNames, ChangeRoleText(a, r) PROVE breach' = breach
  <2>1. HasActiveSession(a) /\ (NoDeed \/ (Deed(a, "roles") /\ CanManageRoles(a)))
    BY <1>2 DEF ChangeRoleText, Denied, Admitted
  <2> QED
    BY <2>1, DeedIsRightful DEF CanManageRoles, NoDeed
<1>3. ASSUME NEW a \in Staff, UndoLastRole(a) PROVE breach' = breach
  <2>1. HasActiveSession(a) /\ Deed(a, "roles") /\ CanManageRoles(a)
    BY <1>3 DEF UndoLastRole, Admitted
  <2> QED
    BY <2>1, DeedIsRightful DEF CanManageRoles
<1>4. ASSUME NEW a \in Staff, NEW m \in Dialogues, NEW u \in Users,
             StartPicker(a, m) \/ TurnPage(a, m) \/ PickUser(a, m, u)
      PROVE  breach' = breach
  BY <1>4 DEF StartPicker, TurnPage, PickUser
<1>5. ASSUME NEW a \in Staff, NEW m \in Dialogues, StartPicker(a, m) \/ TurnPage(a, m)
      PROVE  breach' = breach
  BY <1>5 DEF StartPicker, TurnPage
<1>6. ASSUME NEW a \in Staff, RefreshAssign(a) \/ RoleInputBack(a) \/ ChangeRoleWrite(a)
      PROVE  breach' = breach
  BY <1>6 DEF RefreshAssign, RoleInputBack, ChangeRoleWrite
<1>7. ASSUME NEW u \in Users, Leaves(u) \/ Returns(u) PROVE breach' = breach
  BY <1>7 DEF Leaves, Returns, panel
<1> QED
  BY <1>1, <1>2, <1>3, <1>4, <1>5, <1>6, <1>7 DEF RolesNext

LEMMA BalanceDeeds ==
    ASSUME ClockOK, AuthOK, SessionLife, BalanceNext
    PROVE  breach' = breach
<1>1. ASSUME NEW a \in Staff, ConfirmApply(a) \/ BalanceUndo(a) PROVE breach' = breach
  <2>1. HasActiveSession(a) /\ CanManageBalance(a) /\ (breach' = breach \/ Deed(a, "balance"))
    BY <1>1 DEF ConfirmApply, BalanceUndo, Begin, Button, Admitted
  <2> QED
    BY <2>1, DeedIsRightful DEF CanManageBalance
<1>2. ASSUME NEW a \in Staff, NEW n, TypeDeltaAmount(a, n) PROVE breach' = breach
  <2>1. HasActiveSession(a) /\ (NoDeed \/ (Deed(a, "deltas") /\ CanManageBalance(a)))
    BY <1>2 DEF TypeDeltaAmount, CreateDelta, Denied, Admitted
  <2> QED
    BY <2>1, DeedIsRightful DEF CanManageBalance, NoDeed
<1>3. ASSUME NEW a \in Staff, NEW id, DeleteDelta(a, id) PROVE breach' = breach
  <2>1. HasActiveSession(a) /\ CanManageBalance(a) /\ (NoDeed \/ Deed(a, "deltas"))
    BY <1>3 DEF DeleteDelta, DeltaButton, Admitted
  <2> QED
    BY <2>1, DeedIsRightful DEF CanManageBalance, NoDeed
<1>4. ASSUME NEW a \in Staff,
             \/ StartBalanceAdjustMode(a) \/ \E sign \in {-1, 1} : ChooseMode(a, sign)
             \/ \E u \in Users : Toggle(a, u)
             \/ PickerPage(a) \/ PickerClear(a) \/ PickerDone(a) \/ PickerBack(a) \/ ConfirmBack(a)
      PROVE  breach' = breach
  BY <1>4 DEF StartBalanceAdjustMode, ChooseMode, Toggle, PickerPage, PickerClear, PickerDone,
     PickerBack, ConfirmBack, Tap
<1>5. ASSUME NEW a \in Staff,
             \/ ChooseManual(a) \/ AmountBack(a)
             \/ \E n \in Amounts : ChooseDelta(a, n) \/ ManualAmount(a, n)
             \/ \E s \in {DeltaName, Amount} : StartDelta(a, s)
             \/ \E valid \in BOOLEAN : TypeDeltaName(a, valid)
      PROVE  breach' = breach
  BY <1>5 DEF ChooseManual, AmountBack, ChooseDelta, ManualAmount, StartDelta, TypeDeltaName,
     Denied, NoDeed
<1>6. ASSUME NEW a \in Staff,
             \/ ApplyNext(a) \/ ApplyDone(a) \/ RollbackNext(a) \/ RollbackDone(a)
             \/ UndoNext(a) \/ UndoDone(a)
      PROVE  breach' = breach
  BY <1>6 DEF ApplyNext, ApplyDone, RollbackNext, RollbackDone, UndoNext, UndoDone
<1>7. ASSUME NEW u \in Users, Spend(u) \/ LosesRole(u) PROVE breach' = breach
  BY <1>7 DEF Spend, LosesRole, panel
<1> QED
  BY <1>1, <1>2, <1>3, <1>4, <1>5, <1>6, <1>7 DEF BalanceNext

LEMMA OtherDeeds ==
    ASSUME ClockOK, AuthOK, SessionLife, Entry \/ DraftNext \/ Crash
    PROVE  breach' = breach
<1>1. ASSUME NEW a \in Staff, RiddlePublish(a) PROVE breach' = breach
  <2>1. HasActiveSession(a) /\ CanManageRiddles(a) /\ (breach' = breach \/ Deed(a, "draft"))
    BY <1>1 DEF RiddlePublish, Writes, Admitted
  <2> QED
    BY <2>1, DeedIsRightful DEF CanManageRiddles
<1>2. DraftNext => breach' = breach
  BY <1>1 DEF DraftNext, StartRiddleCreate, TextStep, AnswersStep, RewardStep, Step
<1>3. Entry => breach' = breach
  BY DEF Entry, AskPassword, ReturnPanel, Dismiss, TryPassword, CleanupStaleAuthState, TimePasses
<1>4. Crash => breach' = breach
  BY DEF Crash
<1> QED
  BY <1>2, <1>3, <1>4

\* However far the bot's clock is ahead of the database's, nothing is done
\* without the right, and nothing later than SessionTTL + Zone after the password.
THEOREM NothingForbiddenCorrect == Spec => []NothingForbidden
<1>1. Init => NothingForbidden
  BY DEF Init, InitSession, NothingForbidden
<1>2. Domains /\ SessionLife /\ NothingForbidden /\ [Next]_vars => NothingForbidden'
  <2> SUFFICES ASSUME Domains, SessionLife, NothingForbidden, [Next]_vars PROVE breach' = breach
    BY DEF NothingForbidden
  <2>1. ClockOK /\ AuthOK
    BY DEF Domains
  <2> QED
    BY <2>1, RolesDeeds, BalanceDeeds, OtherDeeds DEF Next, vars, panel
<1> QED
  BY <1>1, <1>2, SessionLifeCorrect, AlwaysDomains, PTL DEF Spec

-----------------------------------------------------------------------------
(* Wrong passwords.                                                        *)

\* The guesses g of one admin, his rows and the number of the failures without
\* a row, at time t: a guess that still counts has a row, is one of those, or
\* is too old to keep.
Missing(g, rows, t) == {i \in DOMAIN g : g[i] >= t - Retention /\ \A r \in rows : r.id # i}
InWindow(g, s) == {i \in DOMAIN g : g[i] \in (s + Zone - Window) .. s}

Counted(g, rows, u, t) ==
    /\ IsFiniteSet(rows)
    /\ \A r \in rows : r.id \in DOMAIN g /\ r.at = g[r.id]
    /\ \A i \in DOMAIN g : g[i] <= t
    /\ Cardinality(Missing(g, rows, t)) <= u
    /\ \A s \in 0 .. t : Cardinality(InWindow(g, s)) <= MaxAttempts + u

LEMMA FiniteGuesses ==
    ASSUME NEW g \in Seq(Nat), NEW S \in SUBSET DOMAIN g
    PROVE  IsFiniteSet(S) /\ Cardinality(S) \in Nat
<1>1. DOMAIN g = 1 .. Len(g) /\ Len(g) \in Nat
  OBVIOUS
<1>2. IsFiniteSet(DOMAIN g)
  BY <1>1, FS_Interval
<1> QED
  BY <1>2, FS_Subset, FS_CardinalityType

\* Fewer guesses, fewer in number.
LEMMA FewerGuesses ==
    ASSUME NEW g \in Seq(Nat), NEW S \in SUBSET DOMAIN g, NEW T \in SUBSET S
    PROVE  Cardinality(T) <= Cardinality(S)
  BY FiniteGuesses, FS_Subset

LEMMA CountedLater ==
    ASSUME NEW g \in Seq(Nat), NEW rows, NEW u \in Nat, NEW t \in Nat, Counted(g, rows, u, t)
    PROVE  Counted(g, rows, u, t + 1)
<1>1. Missing(g, rows, t + 1) \in SUBSET Missing(g, rows, t)
      /\ Missing(g, rows, t) \in SUBSET DOMAIN g
  BY Lives DEF Missing
<1>2. Cardinality(Missing(g, rows, t + 1)) <= u
  BY <1>1, FewerGuesses, FiniteGuesses DEF Counted
<1>3. ASSUME NEW s \in 0 .. t + 1 PROVE Cardinality(InWindow(g, s)) <= MaxAttempts + u
  <2>1. CASE s \in 0 .. t
    BY <2>1 DEF Counted
  <2>2. CASE s = t + 1
    <3>1. \A i \in DOMAIN g : g[i] \in Nat /\ g[i] <= t
      BY DEF Counted
    <3>2. InWindow(g, t + 1) \in SUBSET InWindow(g, t) /\ InWindow(g, t) \in SUBSET DOMAIN g
      BY <3>1, Lives DEF InWindow
    <3>3. Cardinality(InWindow(g, t)) <= MaxAttempts + u
      BY DEF Counted
    <3>4. Cardinality(InWindow(g, t + 1)) <= Cardinality(InWindow(g, t))
      BY <3>2, FewerGuesses
    <3>5. Cardinality(InWindow(g, t + 1)) \in Nat /\ Cardinality(InWindow(g, t)) \in Nat
      BY FiniteGuesses DEF InWindow
    <3> QED
      BY <2>2, <3>3, <3>4, <3>5, AdminAssumption
  <2> QED
    BY <2>1, <2>2
<1> QED
  BY <1>2, <1>3 DEF Counted

\* Rows too old to matter may go.
LEMMA CountedCleaned ==
    ASSUME NEW g \in Seq(Nat), NEW rows, NEW u \in Nat, NEW t \in Nat, Counted(g, rows, u, t)
    PROVE  Counted(g, {r \in rows : ~(r.at < t - Retention)}, u, t)
<1> DEFINE kept == {r \in rows : ~(r.at < t - Retention)}
<1>1. IsFiniteSet(kept)
  BY FS_Subset DEF Counted
<1>2. Missing(g, kept, t) = Missing(g, rows, t)
  <2>1. ASSUME NEW i \in DOMAIN g, g[i] >= t - Retention, NEW r \in rows, r.id = i
        PROVE  r \in kept
    <3>1. r.at = g[i] /\ g[i] \in Nat
      BY <2>1 DEF Counted
    <3> QED
      BY <2>1, <3>1, Lives
  <2> QED
    BY <2>1 DEF Missing
<1> QED
  BY <1>1, <1>2 DEF Counted

\* One more guess, after fewer than MaxAttempts rows were found.
LEMMA WindowGrows ==
    ASSUME NEW g \in Seq(Nat), NEW rows \in SUBSET Failures, NEW u \in Nat, NEW t \in Nat,
           Counted(g, rows, u, t), Cardinality({r \in rows : r.at >= t + Zone - Window}) < MaxAttempts
    PROVE  /\ Cardinality(InWindow(g, t)) <= MaxAttempts - 1 + u
           /\ \A v \in {u, u + 1} : \A s \in 0 .. t :
                 Cardinality(InWindow(Append(g, t), s)) <= MaxAttempts + v
<1> DEFINE recent == {r \in rows : r.at >= t + Zone - Window}
           found == {i \in InWindow(g, t) : [id |-> i, at |-> g[i]] \in recent}
           f == [i \in found |-> [id |-> i, at |-> g[i]]]
           h == Append(g, t)
<1>1. IsFiniteSet(recent)
  BY FS_Subset DEF Counted
<1>2. f \in Injection(found, recent)
  BY DEF Injection, IsInjective
<1>3. IsFiniteSet(found) /\ Cardinality(found) <= Cardinality(recent)
  <2> HIDE DEF found, recent, f
  <2> QED
    BY <1>1, <1>2, FS_Injection
<1>4. InWindow(g, t) \subseteq found \cup Missing(g, rows, t)
  <2>1. ASSUME NEW i \in InWindow(g, t), NEW r \in rows, r.id = i PROVE i \in found
    <3>1. i \in DOMAIN g /\ g[i] \in Nat /\ g[i] >= t + Zone - Window
      BY Lives DEF InWindow
    <3>2. r = [id |-> i, at |-> g[i]]
      BY <2>1 DEF Counted, Failures
    <3>3. r \in recent
      BY <3>1, <3>2
    <3> QED
      BY <3>2, <3>3
  <2>2. ASSUME NEW i \in InWindow(g, t), \A r \in rows : r.id # i PROVE i \in Missing(g, rows, t)
    BY <2>2, AdminAssumption, Lives DEF InWindow, Missing
  <2> HIDE DEF found
  <2> QED
    BY <2>1, <2>2
<1>5. Missing(g, rows, t) \in SUBSET DOMAIN g /\ InWindow(g, t) \in SUBSET DOMAIN g
  BY DEF Missing, InWindow
<1>6. /\ Cardinality(InWindow(g, t)) \in Nat
      /\ Cardinality(InWindow(g, t)) <= Cardinality(found) + Cardinality(Missing(g, rows, t))
  <2> DEFINE m == Missing(g, rows, t)
  <2>1. IsFiniteSet(m) /\ Cardinality(m) \in Nat
    BY <1>5, FiniteGuesses
  <2>2. /\ IsFiniteSet(found \cup m)
        /\ Cardinality(found \cup m) = Cardinality(found) + Cardinality(m) - Cardinality(found \cap m)
    <3> HIDE DEF found, m
    <3> QED
      BY <1>3, <2>1, FS_Union
  <2>3. Cardinality(found \cap m) \in Nat /\ Cardinality(found) \in Nat
    <3> HIDE DEF found, m
    <3>1. IsFiniteSet(found \cap m)
      BY <2>1, FS_Subset
    <3> QED
      BY <1>3, <3>1, FS_CardinalityType
  <2>4. Cardinality(InWindow(g, t)) <= Cardinality(found \cup m)
    <3> HIDE DEF found
    <3> QED
      BY <1>4, <2>2, FS_Subset
  <2>5. Cardinality(InWindow(g, t)) \in Nat
    BY <1>5, FiniteGuesses
  <2>6. Cardinality(found \cup m) \in Nat
    <3> HIDE DEF found, m
    <3> QED
      BY <2>2, FS_CardinalityType
  <2> HIDE DEF found, m
  <2> QED
    BY <2>1, <2>2, <2>3, <2>4, <2>5, <2>6 DEF m
<1>7. Cardinality(InWindow(g, t)) <= MaxAttempts - 1 + u
  <2>1. Cardinality(Missing(g, rows, t)) \in Nat /\ Cardinality(Missing(g, rows, t)) <= u
    BY <1>5, FiniteGuesses DEF Counted
  <2>2. Cardinality(recent) \in Nat /\ Cardinality(recent) < MaxAttempts
        /\ Cardinality(found) \in Nat
    <3> HIDE DEF found
    <3> QED
      BY <1>1, <1>3, FS_CardinalityType
  <2> HIDE DEF recent, found
  <2> QED
    BY <1>3, <1>6, <2>1, <2>2, AdminAssumption
<1>8. DOMAIN h = DOMAIN g \cup {Len(g) + 1} /\ Len(g) + 1 \notin DOMAIN g
      /\ h[Len(g) + 1] = t /\ \A i \in DOMAIN g : h[i] = g[i]
  OBVIOUS
<1>9. ASSUME NEW s \in 0 .. t, s < t PROVE InWindow(h, s) = InWindow(g, s)
  <2> HIDE DEF h
  <2> QED
    BY <1>8, <1>9 DEF InWindow
<1>10. /\ InWindow(h, t) \in SUBSET (InWindow(g, t) \cup {Len(g) + 1})
       /\ Len(g) + 1 \notin InWindow(g, t)
  <2> HIDE DEF h
  <2> QED
    BY <1>8 DEF InWindow
<1>11. /\ Cardinality(InWindow(h, t)) \in Nat
       /\ Cardinality(InWindow(h, t)) <= Cardinality(InWindow(g, t)) + 1
  <2> HIDE DEF h
  <2> DEFINE more == InWindow(g, t) \cup {Len(g) + 1}
  <2>1. IsFiniteSet(InWindow(g, t))
    BY <1>5, FiniteGuesses
  <2>2. IsFiniteSet(more) /\ Cardinality(more) = Cardinality(InWindow(g, t)) + 1
    BY <1>10, <2>1, FS_AddElement
  <2> HIDE DEF more
  <2>3. IsFiniteSet(InWindow(h, t)) /\ Cardinality(InWindow(h, t)) <= Cardinality(more)
    BY <1>10, <2>2, FS_Subset DEF more
  <2> QED
    BY <2>2, <2>3, FS_CardinalityType
<1>12. ASSUME NEW v \in {u, u + 1}, NEW s \in 0 .. t
       PROVE  Cardinality(InWindow(h, s)) <= MaxAttempts + v
  <2> HIDE DEF h
  <2>1. CASE s < t
    <3>1. Cardinality(InWindow(g, s)) <= MaxAttempts + u
      BY DEF Counted
    <3>2. Cardinality(InWindow(g, s)) \in Nat
      BY FiniteGuesses DEF InWindow
    <3> QED
      BY <1>9, <2>1, <3>1, <3>2, AdminAssumption
  <2>2. CASE s = t
    BY <1>6, <1>7, <1>11, <2>2, AdminAssumption
  <2> QED
    BY <2>1, <2>2
<1> QED
  BY <1>7, <1>12
LEMMA CountedGuess ==
    ASSUME NEW g \in Seq(Nat), NEW rows \in SUBSET Failures, NEW u \in Nat, NEW t \in Nat,
           Counted(g, rows, u, t), Cardinality({r \in rows : r.at >= t + Zone - Window}) < MaxAttempts
    PROVE  /\ Counted(Append(g, t), rows \cup {[id |-> Len(g) + 1, at |-> t]}, u, t)
           /\ Counted(Append(g, t), rows, u + 1, t)
<1> DEFINE h == Append(g, t)
           row == [id |-> Len(g) + 1, at |-> t]
<1>1. /\ DOMAIN h = DOMAIN g \cup {Len(g) + 1} /\ Len(g) + 1 \notin DOMAIN g
      /\ h[Len(g) + 1] = t /\ \A i \in DOMAIN g : h[i] = g[i]
  OBVIOUS
<1>2. \A i \in DOMAIN h : h[i] <= t
  <2> HIDE DEF h
  <2> QED
    BY <1>1 DEF Counted
<1>3. \A v \in {u, u + 1} : \A s \in 0 .. t : Cardinality(InWindow(h, s)) <= MaxAttempts + v
  BY WindowGrows
<1>4. IsFiniteSet(Missing(g, rows, t)) /\ Cardinality(Missing(g, rows, t)) \in Nat
      /\ Cardinality(Missing(g, rows, t)) <= u
  BY FiniteGuesses DEF Missing, Counted
<1>5. Counted(h, rows \cup {row}, u, t)
  <2>1. IsFiniteSet(rows \cup {row})
    BY FS_AddElement DEF Counted
  <2>2. \A r \in rows \cup {row} : r.id \in DOMAIN h /\ r.at = h[r.id]
    <3> HIDE DEF h
    <3> QED
      BY <1>1 DEF Counted
  <2>3. Missing(h, rows \cup {row}, t) = Missing(g, rows, t)
    <3>1. row.id = Len(g) + 1
      OBVIOUS
    <3> HIDE DEF h, row
    <3> QED
      BY <1>1, <3>1 DEF Missing
  <2> HIDE DEF h, row
  <2> QED
    BY <1>2, <1>3, <1>4, <2>1, <2>2, <2>3 DEF Counted
<1>6. Counted(h, rows, u + 1, t)
  <2>1. \A r \in rows : r.id \in DOMAIN h /\ r.at = h[r.id]
    <3> HIDE DEF h
    <3> QED
      BY <1>1 DEF Counted
  <2>2. Missing(h, rows, t) = Missing(g, rows, t) \cup {Len(g) + 1}
        /\ Len(g) + 1 \notin Missing(g, rows, t)
    <3>1. \A r \in rows : r.id # Len(g) + 1
      BY <1>1 DEF Counted
    <3>2. t >= t - Retention
      BY Lives
    <3> HIDE DEF h
    <3> QED
      BY <1>1, <3>1, <3>2 DEF Missing
  <2>3. Cardinality(Missing(h, rows, t)) = Cardinality(Missing(g, rows, t)) + 1
    BY <1>4, <2>2, FS_AddElement
  <2>4. Cardinality(Missing(h, rows, t)) <= u + 1
    BY <1>4, <2>3
  <2> HIDE DEF h
  <2> QED
    BY <1>2, <1>3, <2>1, <2>4 DEF Counted
<1> QED
  BY <1>5, <1>6

GuessesAreCounted ==
    \A a \in Staff : Counted(guessed[a], attempts[a], unlogged[a], now)

LEMMA GuessesImply == Domains /\ GuessesAreCounted => GuessesAreLimited
  BY DEF GuessesAreCounted, Counted, InWindow, GuessesAreLimited

LEMMA InitGuesses == Init => GuessesAreCounted
<1> SUFFICES ASSUME Init, NEW a \in Staff PROVE Counted(guessed[a], attempts[a], unlogged[a], now)
  BY DEF GuessesAreCounted
<1>1. guessed[a] = <<>> /\ attempts[a] = {} /\ unlogged[a] = 0 /\ now = 0
  BY DEF Init, InitSession
<1>2. Missing(<<>>, {}, 0) = {} /\ \A s \in 0 .. 0 : InWindow(<<>>, s) = {}
  BY DEF Missing, InWindow
<1>3. Cardinality({}) = 0 /\ IsFiniteSet({}) /\ MaxAttempts \in Nat
  BY FS_EmptySet, AdminAssumption
<1>4. Counted(<<>>, {}, 0, 0)
  <2>1. Cardinality(Missing(<<>>, {}, 0)) <= 0
    <3>1. Missing(<<>>, {}, 0) = {}
      BY <1>2
    <3>2. Cardinality(Missing(<<>>, {}, 0)) = 0
      BY <1>3, <3>1
    <3>3. 0 <= 0
      OBVIOUS
    <3> QED
      BY <3>2, <3>3
  <2>2. ASSUME NEW s \in 0 .. 0 PROVE Cardinality(InWindow(<<>>, s)) <= MaxAttempts + 0
    <3>1. InWindow(<<>>, s) = {}
      BY <1>2
    <3>2. Cardinality(InWindow(<<>>, s)) = 0
      BY <1>3, <3>1
    <3> QED
      BY <1>3, <3>2
  <2>3. DOMAIN <<>> = {}
    OBVIOUS
  <2> QED
    BY <1>3, <2>1, <2>2, <2>3 DEF Counted
<1> QED
  BY <1>1, <1>4

LEMMA TryPasswordCounts ==
    ASSUME Domains, GuessesAreCounted, NEW a \in Staff, NEW right \in BOOLEAN,
           TryPassword(a, right)
    PROVE  GuessesAreCounted'
<1> DEFINE g == guessed[a]
           rows == attempts[a]
           u == unlogged[a]
<1>1. /\ guessed \in [Staff -> Seq(Nat)] /\ attempts \in [Staff -> SUBSET Failures]
      /\ unlogged \in [Staff -> Nat] /\ now \in Nat
  BY DEF Domains, AuthOK, ClockOK
<1>2. now' = now /\ VerifyPassword(a, right)
  BY DEF TryPassword
<1>3. CASE UNCHANGED <<attempts, guessed, unlogged>>
  BY <1>2, <1>3 DEF GuessesAreCounted
<1>4. CASE Cardinality(Recent(a)) < MaxAttempts /\ LogFailure(a)
  <2>1. Counted(g, rows, u, now) /\ Cardinality({r \in rows : r.at >= now + Zone - Window}) < MaxAttempts
    BY <1>4 DEF Recent, GuessesAreCounted
  <2>2. /\ Counted(Append(g, now), rows \cup {[id |-> Len(g) + 1, at |-> now]}, u, now)
        /\ Counted(Append(g, now), rows, u + 1, now)
    BY <1>1, <2>1, CountedGuess
  <2>3. /\ guessed' = [guessed EXCEPT ![a] = Append(g, now)]
        /\ \/ /\ attempts' = [attempts EXCEPT ![a] = rows \cup {[id |-> Len(g) + 1, at |-> now]}]
              /\ unlogged' = unlogged
           \/ /\ attempts' = attempts
              /\ unlogged' = [unlogged EXCEPT ![a] = u + 1]
    BY <1>4 DEF LogFailure
  <2>4. ASSUME NEW b \in Staff PROVE Counted(guessed'[b], attempts'[b], unlogged'[b], now)
    <3>1. CASE b = a
      BY <1>1, <2>2, <2>3, <3>1
    <3>2. CASE b # a
      <4>1. guessed'[b] = guessed[b] /\ attempts'[b] = attempts[b] /\ unlogged'[b] = unlogged[b]
        BY <1>1, <2>3, <3>2
      <4> QED
        BY <4>1 DEF GuessesAreCounted
    <3> QED
      BY <3>1, <3>2
  <2> QED
    BY <1>2, <2>4 DEF GuessesAreCounted
<1>5. UNCHANGED <<attempts, guessed, unlogged>>
      \/ (Cardinality(Recent(a)) < MaxAttempts /\ LogFailure(a))
  BY <1>2 DEF VerifyPassword, auth
<1> QED
  BY <1>3, <1>4, <1>5

LEMMA NextGuesses ==
    Domains /\ GuessesAreCounted /\ [Next]_vars => GuessesAreCounted'
<1> SUFFICES ASSUME Domains, GuessesAreCounted, [Next]_vars PROVE GuessesAreCounted'
  OBVIOUS
<1>0. /\ ClockOK /\ AuthOK /\ FlowOK /\ RolesOK /\ MoneyOK /\ WritingOK
      /\ job \in [Staff -> Jobs]
  BY DEF Domains
<1>1. UNCHANGED <<now, attempts, guessed, unlogged>> => GuessesAreCounted'
  BY DEF GuessesAreCounted
<1>2. Handling => GuessesAreCounted'
  BY <1>1 DEF Handling, auth
<1>3. CASE Entry
  <2>1. ASSUME CleanupStaleAuthState PROVE GuessesAreCounted'
    <3>1. /\ attempts' = [a \in Staff |-> {r \in attempts[a] : ~(r.at < now - Retention)}]
          /\ UNCHANGED <<now, guessed, unlogged>>
      BY <2>1 DEF CleanupStaleAuthState, OldAttempt
    <3>2. ASSUME NEW a \in Staff PROVE Counted(guessed[a], attempts'[a], unlogged[a], now)
      <4>1. /\ guessed[a] \in Seq(Nat) /\ unlogged[a] \in Nat /\ now \in Nat
            /\ Counted(guessed[a], attempts[a], unlogged[a], now)
        BY <1>0 DEF AuthOK, ClockOK, GuessesAreCounted
      <4>2. Counted(guessed[a], {r \in attempts[a] : ~(r.at < now - Retention)}, unlogged[a], now)
        BY <4>1, CountedCleaned
      <4> QED
        BY <3>1, <4>2
    <3> QED
      BY <3>1, <3>2 DEF GuessesAreCounted
  <2>2. ASSUME TimePasses PROVE GuessesAreCounted'
    <3>1. now' = now + 1 /\ UNCHANGED <<attempts, guessed, unlogged>>
      BY <2>2 DEF TimePasses, auth
    <3>2. ASSUME NEW a \in Staff PROVE Counted(guessed[a], attempts[a], unlogged[a], now + 1)
      BY <1>0, CountedLater DEF AuthOK, ClockOK, GuessesAreCounted
    <3> QED
      BY <3>1, <3>2 DEF GuessesAreCounted
  <2>3. ASSUME NEW a \in Staff, AskPassword(a) \/ ReturnPanel(a) \/ Dismiss(a)
        PROVE  GuessesAreCounted'
    BY <1>1, <2>3 DEF AskPassword, ReturnPanel, Dismiss, auth
  <2> QED
    BY <1>3, <2>1, <2>2, <2>3, TryPasswordCounts DEF Entry
<1>4. CASE RolesNext
  BY <1>0, <1>2, <1>4, RolesStep
<1>5. CASE BalanceNext
  BY <1>0, <1>2, <1>5, BalanceStep
<1>6. CASE DraftNext
  BY <1>0, <1>2, <1>6, DraftStep
<1>7. CASE Crash \/ UNCHANGED vars
  BY <1>1, <1>7 DEF Crash, vars, panel, auth
<1> QED
  BY <1>3, <1>4, <1>5, <1>6, <1>7 DEF Next

\* No window of Window - Zone sees more wrong passwords compared than MaxAttempts
\* and those that left no row; the statement is empty where Zone >= Window.
THEOREM GuessesAreLimitedCorrect == Spec => []GuessesAreLimited
  BY InitGuesses, NextGuesses, GuessesImply, AlwaysDomains, PTL DEF Spec

-----------------------------------------------------------------------------
(* Operations on several balances.                                         *)

\* Every member of S moved by m, nobody else.
By(S, m) == [u \in Users |-> IF u \in S THEN m ELSE 0]
Listed(s) == {s[i] : i \in DOMAIN s}
OneEach(s) == \A i, k \in DOMAIN s : s[i] = s[k] => i = k
Operations == {"apply", "rollback", "undo"}

\* What the operation of an admin has moved, n, is told by the handler j, by
\* what he was told last, t, and by the record in his row.
Whole(j, n, t, row) ==
    /\ j.step = "apply" =>
          /\ OneEach(j.done) /\ Listed(j.done) \cap j.todo = {}
          /\ Listed(j.done) \cup j.todo = j.users
          /\ n = By(Listed(j.done), j.sign * j.amount)
    /\ j.step = "rollback" =>
          /\ OneEach(j.done) /\ Listed(j.done) \cap j.todo = {}
          /\ n = By(Listed(j.done) \cup j.todo, j.sign * j.amount)
    /\ j.step = "undo" =>
          /\ t.kind \in {"none", "done"}
          /\ t.kind = "done" =>
                OneEach(j.todo) /\ n = By(Listed(j.todo), 0 - j.sign * j.amount)
    /\ j.step \notin Operations =>
          /\ t.kind \in {"done", "done, not recorded"} => n = t.change
          /\ t.kind = "nothing done" => n = Nothing
          /\ t.kind = "done" /\ row.state \in BalanceStates /\ row.data.last # NoOperation =>
                LET last == row.data.last IN
                OneEach(last.users) /\ n = By(Listed(last.users), last.sign * last.amount)

OperationsAreWhole == \A a \in Staff : Whole(job[a], net[a], told[a], flow[a])

\* A member moves by k, which takes m back.
Add(n, u, k) == [n EXCEPT ![u] = @ + k]
Opposite(k, m) == k + m = 0

LEMMA ByMoves ==
    ASSUME NEW S \in SUBSET Users, NEW u \in Users \ S, NEW m \in Int
    PROVE  Add(By(S, m), u, m) = By(S \cup {u}, m)
<1>1. \A v \in Users : Add(By(S, m), u, m)[v] = By(S \cup {u}, m)[v]
  BY DEF Add, By
<1> QED
  BY <1>1 DEF Add, By

LEMMA ByMovesBack ==
    ASSUME NEW S \in SUBSET Users, NEW u \in S, NEW m \in Int, NEW k \in Int, Opposite(k, m)
    PROVE  Add(By(S, m), u, k) = By(S \ {u}, m)
<1>1. m + k = 0
  BY DEF Opposite
<1>2. \A v \in Users : Add(By(S, m), u, k)[v] = By(S \ {u}, m)[v]
  BY <1>1 DEF Add, By
<1> QED
  BY <1>2 DEF Add, By

\* A list without repetitions, one longer and one shorter.
LEMMA ListGrows ==
    ASSUME NEW s \in Seq(Users), OneEach(s), NEW u \in Users \ Listed(s)
    PROVE  OneEach(Append(s, u)) /\ Listed(Append(s, u)) = Listed(s) \cup {u}
<1> DEFINE g == Append(s, u)
<1>1. /\ DOMAIN g = DOMAIN s \cup {Len(s) + 1} /\ Len(s) + 1 \notin DOMAIN s
      /\ g[Len(s) + 1] = u /\ \A i \in DOMAIN s : g[i] = s[i]
  OBVIOUS
<1> HIDE DEF g
<1>2. Listed(g) = Listed(s) \cup {u}
  BY <1>1 DEF Listed
<1>3. OneEach(g)
  BY <1>1 DEF OneEach, Listed
<1> QED
  BY <1>2, <1>3 DEF g

LEMMA ListShrinks ==
    ASSUME NEW s \in Seq(Users), OneEach(s), s # <<>>
    PROVE  LET u == s[Len(s)]
               rest == SubSeq(s, 1, Len(s) - 1)
           IN  /\ u \in Listed(s) /\ rest \in Seq(Users)
               /\ OneEach(rest) /\ Listed(rest) = Listed(s) \ {u}
<1> DEFINE u == s[Len(s)]
           rest == SubSeq(s, 1, Len(s) - 1)
<1>1. /\ Len(s) \in DOMAIN s /\ rest \in Seq(Users)
      /\ DOMAIN rest = DOMAIN s \ {Len(s)} /\ \A i \in DOMAIN rest : rest[i] = s[i]
  OBVIOUS
<1> HIDE DEF rest
<1>2. u \in Listed(s)
  BY <1>1 DEF Listed
<1>3. OneEach(rest)
  BY <1>1 DEF OneEach
<1>4. Listed(rest) = Listed(s) \ {u}
  BY <1>1 DEF OneEach, Listed
<1> QED
  BY <1>1, <1>2, <1>3, <1>4 DEF rest

LEMMA ListedUsers == ASSUME NEW s \in Seq(Users) PROVE Listed(s) \in SUBSET Users
  BY DEF Listed
\* The row r2 of an admin holds no record but the one of r.
Carries(r2, r) ==
    r2.state \in BalanceStates =>
        r2.data.last = NoOperation \/ (r.state \in BalanceStates /\ r2.data.last = r.data.last)

LEMMA WholeCarries ==
    ASSUME NEW j, NEW n, NEW t, NEW r, NEW r2, Whole(j, n, t, r), Carries(r2, r)
    PROVE  Whole(j, n, t, r2)
<1>1. \A last : r2.state \in BalanceStates /\ r2.data.last = last /\ last # NoOperation =>
                r.state \in BalanceStates /\ r.data.last = last
  BY DEF Carries
<1>2. j.step \notin Operations /\ t.kind = "done" /\ r2.state \in BalanceStates
      /\ r2.data.last # NoOperation =>
        LET last == r2.data.last IN
        OneEach(last.users) /\ n = By(Listed(last.users), last.sign * last.amount)
  BY <1>1 DEF Whole
<1> QED
  BY <1>2 DEF Whole

LEMMA WrittenCarries ==
    ASSUME FlowOK, NEW a \in Staff, NEW S,
           FlowWritten(a) \/ (RowWritten(a, S) /\ S \cap BalanceStates = {})
    PROVE  \A b \in Staff : Carries(flow'[b], flow[b])
<1>1. flow \in [Staff -> Rows] /\ NoRow.state \notin BalanceStates
  BY NoRowFits, StatesApart DEF FlowOK, EntryStates
<1>2. CASE flow' = flow
  BY <1>2 DEF Carries
<1>3. CASE flow' = [flow EXCEPT ![a] = NoRow]
  BY <1>1, <1>3 DEF Carries
<1>4. ASSUME NEW s, NEW d, flow' = [flow EXCEPT ![a] = Row(s, d)],
             \/ s \notin BalanceStates
             \/ d.last = NoOperation
             \/ flow[a].state \in BalanceStates /\ d.last = Data(a).last
      PROVE  \A b \in Staff : Carries(flow'[b], flow[b])
  <2>1. Row(s, d).state = s /\ Row(s, d).data = d
    BY DEF Row
  <2> QED
    BY <1>1, <1>4, <2>1 DEF Carries, Data
<1> QED
  BY <1>2, <1>3, <1>4 DEF FlowWritten, RowWritten

\* A handler of a leaves the others alone.
Aside(a) ==
    \A b \in Staff \ {a} :
        job'[b] = job[b] /\ net'[b] = net[b] /\ told'[b] = told[b] /\ flow'[b] = flow[b]
WholeFor(a) == Whole(job'[a], net'[a], told'[a], flow'[a])

LEMMA WholeForAll ==
    ASSUME OperationsAreWhole, NEW a \in Staff, Aside(a), WholeFor(a)
    PROVE  OperationsAreWhole'
  BY DEF OperationsAreWhole, Aside, WholeFor

\* What the handlers of the operation know of their own records.
LEMMA OperationTypes ==
    ASSUME Domains, NEW a \in Staff
    PROVE  /\ Works(a, "apply") \/ Works(a, "rollback") =>
                 /\ job[a] \in Payments /\ job[a].done \in Seq(Users)
                 /\ job[a].todo \in SUBSET Users /\ job[a].users \in SUBSET Users
                 /\ job[a].sign * job[a].amount \in Int
           /\ Works(a, "undo") =>
                 /\ job[a] \in Reversals /\ job[a].todo \in Seq(Users)
                 /\ job[a].users \in SUBSET Users
                 /\ job[a].sign * job[a].amount \in Int
           /\ job \in [Staff -> Jobs] /\ flow \in [Staff -> Rows]
           /\ net \in [Staff -> [Users -> Int]] /\ told \in [Staff -> Told]
<1>1. job \in [Staff -> Jobs] /\ flow \in [Staff -> Rows]
      /\ net \in [Staff -> [Users -> Int]] /\ told \in [Staff -> Told]
  BY DEF Domains, FlowOK, MoneyOK, Told
<1>2. Works(a, "apply") \/ Works(a, "rollback") =>
        /\ job[a] \in Payments /\ job[a].done \in Seq(Users)
        /\ job[a].todo \in SUBSET Users /\ job[a].users \in SUBSET Users
        /\ job[a].sign \in Signs /\ job[a].amount \in Nat
  BY <1>1, JobKinds DEF Payments
<1>3. Works(a, "undo") =>
        /\ job[a] \in Reversals /\ job[a].todo \in Seq(Users)
        /\ job[a].users \in SUBSET Users
        /\ job[a].sign \in Signs /\ job[a].amount \in Nat
  BY <1>1, JobKinds DEF Reversals
<1> QED
  BY <1>1, <1>2, <1>3, Products

LEMMA MoveMoves ==
    ASSUME MoneyOK, NEW a \in Staff, NEW u \in Users, NEW n, Move(a, u, n)
    PROVE  /\ net'[a] = Add(net[a], u, n)
           /\ \A b \in Staff \ {a} : net'[b] = net[b]
<1>1. net[a] \in [Users -> Int] /\ net \in [Staff -> [Users -> Int]]
  BY DEF MoneyOK
<1> QED
  BY <1>1 DEF Move, Add

LEMMA TellTells ==
    ASSUME MoneyOK, NEW a \in Staff, NEW kind, Tell(a, kind), job[a].users \in SUBSET Users
    PROVE  /\ told'[a].kind = kind
           /\ told'[a].change = By(job[a].users, job[a].sign * job[a].amount)
           /\ \A b \in Staff \ {a} : told'[b] = told[b]
  BY DEF MoneyOK, Tell, By
LEMMA ConfirmApplyWhole ==
    ASSUME Domains, OperationsAreWhole, NEW a \in Staff, ConfirmApply(a)
    PROVE  OperationsAreWhole'
<1>0. FlowOK /\ MoneyOK /\ job \in [Staff -> Jobs]
  BY DEF Domains
<1>1. CASE In(a, {Confirm}) /\ ReadyToConfirm(Data(a)) /\ InvalidUsers(Data(a)) = {}
  <2> DEFINE j == [step |-> "apply", todo |-> Data(a).chosen, done |-> <<>>,
                   users |-> Data(a).chosen, sign |-> Data(a).sign,
                   amount |-> Data(a).amount, data |-> Data(a)]
  <2>1. job' = [job EXCEPT ![a] = j] /\ flow' = flow /\ net' = [net EXCEPT ![a] = Nothing]
        /\ told' = [told EXCEPT ![a] = Silence]
    BY <1>1 DEF ConfirmApply, Begin, Kept
  <2>2. Data(a) \in Flows
    BY <1>0, <1>1, BalanceNames, FlowRow
  <2>3. /\ j.step = "apply" /\ OneEach(j.done) /\ Listed(j.done) = {}
        /\ j.todo = j.users
    BY DEF OneEach, Listed
  <2>4. j.sign * j.amount \in Int
    BY <2>2, Products DEF Flows
  <2> HIDE DEF j
  <2>5. By({}, j.sign * j.amount) = Nothing
    BY DEF By, Nothing
  <2>6. Whole(j, Nothing, Silence, flow[a])
    BY <2>3, <2>5 DEF Whole, Operations
  <2>7. WholeFor(a) /\ Aside(a)
    BY <1>0, <2>1, <2>6 DEF WholeFor, Aside, MoneyOK
  <2> QED
    BY <2>7, WholeForAll
<1>2. CASE ~(In(a, {Confirm}) /\ ReadyToConfirm(Data(a)) /\ InvalidUsers(Data(a)) = {})
  <2>1. UNCHANGED <<job, net, told>>
    BY <1>2 DEF ConfirmApply
  <2>2. ClearState(a) \/ (In(a, {Confirm}) /\ To(a, Picker, Data(a)))
    BY <1>2 DEF ConfirmApply
  <2>3. FlowWritten(a)
    BY <1>0, <2>2, BalanceNames, FlowRow, FlowTo, FlowClear
  <2>4. \A b \in Staff : Carries(flow'[b], flow[b])
    BY <1>0, <2>3, WrittenCarries
  <2> QED
    BY <2>1, <2>4, WholeCarries DEF OperationsAreWhole
<1> QED
  BY <1>1, <1>2

LEMMA ApplyNextWhole ==
    ASSUME Domains, OperationsAreWhole, NEW a \in Staff, ApplyNext(a)
    PROVE  OperationsAreWhole'
<1> DEFINE u == ChooseLowest(job[a].todo)
           m == job[a].sign * job[a].amount
           s == job[a].done
           todo == job[a].todo
<1>0. /\ MoneyOK /\ job \in [Staff -> Jobs] /\ job[a] \in Payments /\ s \in Seq(Users)
      /\ todo \in SUBSET Users /\ m \in Int /\ job[a].step = "apply"
  BY OperationTypes DEF Domains, ApplyNext, Works
<1>1. u \in todo /\ u \in Users
  BY <1>0, LowestIsOne DEF ApplyNext
<1>2. /\ OneEach(s) /\ Listed(s) \cap todo = {} /\ Listed(s) \cup todo = job[a].users
      /\ net[a] = By(Listed(s), m)
  BY <1>0 DEF OperationsAreWhole, Whole
<1>3. Listed(s) \in SUBSET Users
  BY <1>0, ListedUsers
<1>4. /\ flow' = flow /\ told' = told
      /\ \/ /\ Move(a, u, m)
            /\ job' = [job EXCEPT ![a].todo = @ \ {u}, ![a].done = Append(@, u)]
         \/ /\ job' = [job EXCEPT ![a].step = "rollback", ![a].todo = {}]
            /\ net' = net
  BY DEF ApplyNext
<1> HIDE DEF u, m
<1>5. CASE Move(a, u, m) /\ job' = [job EXCEPT ![a].todo = @ \ {u}, ![a].done = Append(@, u)]
  <2> DEFINE j == [job[a] EXCEPT !.todo = todo \ {u}, !.done = Append(s, u)]
  <2>1. job' = [job EXCEPT ![a] = j]
    BY <1>0, <1>5 DEF Payments
  <2>2. /\ j.step = "apply" /\ j.done = Append(s, u) /\ j.todo = todo \ {u}
        /\ j.users = job[a].users /\ j.sign * j.amount = m
    BY <1>0 DEF Payments, m
  <2>3. net'[a] = Add(net[a], u, m) /\ \A b \in Staff \ {a} : net'[b] = net[b]
    BY <1>0, <1>1, <1>5, MoveMoves
  <2>4. u \notin Listed(s)
    BY <1>1, <1>2
  <2>5. net'[a] = By(Listed(s) \cup {u}, m)
    <3>1. Add(By(Listed(s), m), u, m) = By(Listed(s) \cup {u}, m)
      BY <1>0, <1>1, <1>3, <2>4, ByMoves
    <3> QED
      BY <1>2, <2>3, <3>1
  <2>6. OneEach(Append(s, u)) /\ Listed(Append(s, u)) = Listed(s) \cup {u}
    BY <1>0, <1>1, <1>2, <2>4, ListGrows
  <2> HIDE DEF j, s, todo
  <2>7. Whole(j, net'[a], told[a], flow[a])
    BY <1>1, <1>2, <2>2, <2>4, <2>5, <2>6 DEF Whole, Operations
  <2>8. WholeFor(a) /\ Aside(a)
    BY <1>0, <1>4, <2>1, <2>3, <2>7 DEF WholeFor, Aside
  <2> QED
    BY <2>8, WholeForAll
<1>6. CASE job' = [job EXCEPT ![a].step = "rollback", ![a].todo = {}] /\ net' = net
  <2> DEFINE j == [job[a] EXCEPT !.step = "rollback", !.todo = {}]
  <2>1. job' = [job EXCEPT ![a] = j]
    BY <1>6
  <2>2. j.step = "rollback" /\ j.done = s /\ j.todo = {} /\ j.sign * j.amount = m
    BY <1>0 DEF Payments, m
  <2> HIDE DEF j, s, todo
  <2>3. Whole(j, net[a], told[a], flow[a])
    BY <1>2, <2>2 DEF Whole, Operations
  <2>4. WholeFor(a) /\ Aside(a)
    BY <1>0, <1>4, <1>6, <2>1, <2>3 DEF WholeFor, Aside
  <2> QED
    BY <2>4, WholeForAll
<1> QED
  BY <1>4, <1>5, <1>6

LEMMA ApplyDoneWhole ==
    ASSUME Domains, OperationsAreWhole, NEW a \in Staff, ApplyDone(a)
    PROVE  OperationsAreWhole'
<1> DEFINE s == job[a].done
           m == job[a].sign * job[a].amount
           last == [users |-> s, sign |-> job[a].sign, amount |-> job[a].amount, at |-> now]
           d == [job[a].data EXCEPT !.last = last]
<1>0. /\ MoneyOK /\ FlowOK /\ job \in [Staff -> Jobs] /\ job[a] \in Payments /\ s \in Seq(Users)
      /\ job[a].todo = {} /\ job[a].step = "apply" /\ job[a].users \in SUBSET Users
  BY OperationTypes DEF Domains, ApplyDone, Works
<1>1. OneEach(s) /\ Listed(s) = job[a].users /\ net[a] = By(Listed(s), m)
  BY <1>0 DEF OperationsAreWhole, Whole
<1>2. /\ job' = [job EXCEPT ![a] = Idle] /\ net' = net
      /\ \/ Saved(a, Confirm, d) /\ Tell(a, "done")
         \/ Kept /\ Tell(a, "done, not recorded")
  BY DEF ApplyDone
<1>3. d.last = last
  BY <1>0 DEF Payments, Flows
<1>4. Idle.step \notin Operations
  BY DEF Idle, Operations
<1>5. CASE Saved(a, Confirm, d) /\ Tell(a, "done")
  <2>1. /\ told'[a].kind = "done" /\ told'[a].change = By(Listed(s), m)
        /\ \A b \in Staff \ {a} : told'[b] = told[b]
    BY <1>0, <1>1, <1>5, TellTells
  <2> HIDE DEF d
  <2>2. flow'[a].data = d /\ \A b \in Staff \ {a} : flow'[b] = flow[b]
    BY <1>0, <1>5 DEF Saved, Row, FlowOK
  <2>3. flow'[a].data.last = last
    BY <1>3, <2>2
  <2>4. last.users = s /\ last.sign * last.amount = m
    OBVIOUS
  <2>5. job'[a] = Idle
    BY <1>0, <1>2
  <2> HIDE DEF last, m, s
  <2>6. WholeFor(a)
    BY <1>1, <1>2, <1>4, <2>1, <2>3, <2>4, <2>5 DEF WholeFor, Whole, Operations
  <2>7. Aside(a)
    BY <1>0, <1>2, <2>1, <2>2 DEF Aside
  <2> QED
    BY <2>6, <2>7, WholeForAll
<1>6. CASE Kept /\ Tell(a, "done, not recorded")
  <2>1. /\ told'[a].kind = "done, not recorded" /\ told'[a].change = By(Listed(s), m)
        /\ \A b \in Staff \ {a} : told'[b] = told[b]
    BY <1>0, <1>1, <1>6, TellTells
  <2>2. job'[a] = Idle
    BY <1>0, <1>2
  <2> HIDE DEF m, s
  <2>3. WholeFor(a)
    BY <1>1, <1>2, <1>4, <2>1, <2>2 DEF WholeFor, Whole, Operations
  <2>4. Aside(a)
    BY <1>0, <1>2, <1>6, <2>1 DEF Aside, Kept
  <2> QED
    BY <2>3, <2>4, WholeForAll
<1> QED
  BY <1>2, <1>5, <1>6
LEMMA RollbackWhole ==
    ASSUME Domains, OperationsAreWhole, NEW a \in Staff, RollbackNext(a) \/ RollbackDone(a)
    PROVE  OperationsAreWhole'
<1> DEFINE s == job[a].done
           m == job[a].sign * job[a].amount
           todo == job[a].todo
           moved == Listed(s) \cup todo
<1>0. /\ MoneyOK /\ job \in [Staff -> Jobs] /\ job[a] \in Payments /\ s \in Seq(Users)
      /\ todo \in SUBSET Users /\ m \in Int /\ job[a].step = "rollback"
      /\ job[a].users \in SUBSET Users
  BY OperationTypes DEF Domains, RollbackNext, RollbackDone, Works
<1>1. OneEach(s) /\ Listed(s) \cap todo = {} /\ net[a] = By(moved, m)
  BY <1>0 DEF OperationsAreWhole, Whole
<1>2. CASE RollbackNext(a)
  <2> DEFINE u == s[Len(s)]
             n == 0 - job[a].sign * job[a].amount
             rest == SubSeq(s, 1, Len(s) - 1)
  <2>1. s # <<>>
    BY <1>2 DEF RollbackNext
  <2>2. /\ u \in Listed(s) /\ rest \in Seq(Users)
        /\ OneEach(rest) /\ Listed(rest) = Listed(s) \ {u}
    BY <1>0, <1>1, <2>1, ListShrinks
  <2>3. u \in Users /\ moved \in SUBSET Users
    BY <1>0, <2>2, ListedUsers
  <2>4. n \in Int /\ Opposite(n, m)
    BY <1>0 DEF Opposite
  <2>5. /\ flow' = flow /\ told' = told
        /\ \/ Move(a, u, n) /\ job' = [job EXCEPT ![a].done = rest]
           \/ /\ job' = [job EXCEPT ![a].done = rest, ![a].todo = @ \cup {u}]
              /\ net' = net
    BY <1>2 DEF RollbackNext
  <2>6. CASE Move(a, u, n) /\ job' = [job EXCEPT ![a].done = rest]
    <3> DEFINE j == [job[a] EXCEPT !.done = rest]
    <3>1. job' = [job EXCEPT ![a] = j]
      BY <2>6
    <3>2. j.step = "rollback" /\ j.done = rest /\ j.todo = todo /\ j.sign * j.amount = m
      BY <1>0 DEF Payments
    <3> HIDE DEF u, n, rest, m
    <3>3. net'[a] = Add(net[a], u, n) /\ \A b \in Staff \ {a} : net'[b] = net[b]
      BY <1>0, <2>3, <2>6, MoveMoves
    <3>4. moved \ {u} = Listed(rest) \cup todo /\ u \in moved
      BY <1>1, <2>2
    <3> HIDE DEF moved, s, todo, j
    <3>5. Add(By(moved, m), u, n) = By(moved \ {u}, m)
      BY <1>0, <2>3, <2>4, <3>4, ByMovesBack
    <3>6. net'[a] = By(Listed(rest) \cup todo, m)
      BY <1>1, <3>3, <3>4, <3>5
    <3>7. Listed(rest) \cap todo = {}
      BY <1>1, <2>2
    <3>8. Whole(j, net'[a], told[a], flow[a])
      BY <2>2, <3>2, <3>6, <3>7 DEF Whole, Operations
    <3>9. WholeFor(a) /\ Aside(a)
      BY <1>0, <2>5, <3>1, <3>3, <3>8 DEF WholeFor, Aside
    <3> QED
      BY <3>9, WholeForAll
  <2>7. CASE job' = [job EXCEPT ![a].done = rest, ![a].todo = @ \cup {u}] /\ net' = net
    <3> DEFINE j == [job[a] EXCEPT !.done = rest, !.todo = todo \cup {u}]
    <3>1. job' = [job EXCEPT ![a] = j]
      BY <1>0, <2>7 DEF Payments
    <3>2. j.step = "rollback" /\ j.done = rest /\ j.todo = todo \cup {u}
          /\ j.sign * j.amount = m
      BY <1>0 DEF Payments
    <3> HIDE DEF u, n, rest, m
    <3>3. moved = Listed(rest) \cup (todo \cup {u}) /\ Listed(rest) \cap (todo \cup {u}) = {}
      BY <1>1, <2>2
    <3> HIDE DEF moved, s, todo, j
    <3>4. Whole(j, net[a], told[a], flow[a])
      BY <1>1, <2>2, <3>2, <3>3 DEF Whole, Operations
    <3>5. WholeFor(a) /\ Aside(a)
      BY <1>0, <2>5, <2>7, <3>1, <3>4 DEF WholeFor, Aside
    <3> QED
      BY <3>5, WholeForAll
  <2> QED
    BY <2>5, <2>6, <2>7
<1>3. CASE RollbackDone(a)
  <2>1. /\ s = <<>> /\ job' = [job EXCEPT ![a] = Idle] /\ UNCHANGED <<flow, net>>
        /\ Tell(a, IF todo = {} THEN "nothing done" ELSE "partly done")
    BY <1>3 DEF RollbackDone
  <2>2. /\ told'[a].kind = IF todo = {} THEN "nothing done" ELSE "partly done"
        /\ \A b \in Staff \ {a} : told'[b] = told[b]
    BY <1>0, <2>1, TellTells
  <2>3. Listed(<<>>) = {}
    BY DEF Listed
  <2>4. todo = {} => net[a] = Nothing
    BY <1>1, <2>1, <2>3 DEF By, Nothing
  <2>5. job'[a] = Idle /\ Idle.step \notin Operations
    BY <1>0, <2>1 DEF Idle, Operations
  <2> HIDE DEF todo
  <2>6. WholeFor(a)
    BY <2>1, <2>2, <2>4, <2>5 DEF WholeFor, Whole, Operations
  <2>7. Aside(a)
    BY <1>0, <2>1, <2>2 DEF Aside
  <2> QED
    BY <2>6, <2>7, WholeForAll
<1> QED
  BY <1>2, <1>3

LEMMA BalanceUndoWhole ==
    ASSUME Domains, OperationsAreWhole, NEW a \in Staff, BalanceUndo(a)
    PROVE  OperationsAreWhole'
<1> DEFINE last == Data(a).last
           users == {last.users[i] : i \in DOMAIN last.users}
           j == [step |-> "undo", todo |-> last.users, users |-> users,
                 sign |-> 0 - last.sign, amount |-> last.amount]
<1>0. FlowOK /\ MoneyOK /\ job \in [Staff -> Jobs] /\ told \in [Staff -> Told]
  BY OperationTypes DEF Domains
<1>1. /\ job[a] = Idle /\ flow[a].state \in BalanceStates /\ last # NoOperation
      /\ job' = [job EXCEPT ![a] = j] /\ flow' = flow /\ net' = net
      /\ told' = [told EXCEPT ![a] = IF @.kind = "done" THEN @ ELSE Silence]
  BY DEF BalanceUndo, Begin, Kept, Button, Admitted, Enters, In
<1>2. last.sign \in Signs /\ last.amount \in Nat
  <2>1. Data(a) \in Flows
    BY <1>0, <1>1, FlowRow DEF In
  <2> QED
    BY <2>1 DEF Flows, Operation
<1>3. Idle.step \notin Operations
  BY DEF Idle, Operations
<1>4. told[a].kind = "done" =>
        OneEach(last.users) /\ net[a] = By(Listed(last.users), last.sign * last.amount)
  <2>1. Whole(Idle, net[a], told[a], flow[a])
    BY <1>1 DEF OperationsAreWhole
  <2> QED
    BY <1>1, <1>3, <2>1 DEF Whole, Data
<1>5. j.step = "undo" /\ j.todo = last.users /\ 0 - j.sign * j.amount = last.sign * last.amount
  <2> HIDE DEF last, users
  <2>1. (0 - last.sign) * last.amount = 0 - last.sign * last.amount
        /\ last.sign * last.amount \in Int
    BY <1>2, Products
  <2> QED
    BY <2>1
<1> HIDE DEF j, last, users
<1>6. told'[a].kind \in {"none", "done"} /\ (told'[a].kind = "done" => told[a].kind = "done")
      /\ \A b \in Staff \ {a} : told'[b] = told[b]
  BY <1>0, <1>1 DEF Silence
<1>7. Whole(j, net[a], told'[a], flow[a])
  BY <1>4, <1>5, <1>6 DEF Whole, Operations
<1>8. WholeFor(a) /\ Aside(a)
  BY <1>0, <1>1, <1>6, <1>7 DEF WholeFor, Aside
<1> QED
  BY <1>8, WholeForAll

LEMMA UndoWhole ==
    ASSUME Domains, OperationsAreWhole, NEW a \in Staff, UndoNext(a) \/ UndoDone(a)
    PROVE  OperationsAreWhole'
<1> DEFINE s == job[a].todo
           m == job[a].sign * job[a].amount
<1>0. /\ MoneyOK /\ FlowOK /\ job \in [Staff -> Jobs] /\ job[a] \in Reversals
      /\ s \in Seq(Users) /\ m \in Int /\ job[a].step = "undo" /\ job[a].users \in SUBSET Users
  BY OperationTypes DEF Domains, UndoNext, UndoDone, Works
<1>1. /\ told[a].kind \in {"none", "done"}
      /\ told[a].kind = "done" => OneEach(s) /\ net[a] = By(Listed(s), 0 - m)
  BY <1>0 DEF OperationsAreWhole, Whole
<1>2. Idle.step \notin Operations
  BY DEF Idle, Operations
<1>3. CASE UndoNext(a)
  <2> DEFINE u == s[Len(s)]
             rest == SubSeq(s, 1, Len(s) - 1)
  <2>1. s # <<>>
    BY <1>3 DEF UndoNext
  <2>2. u \in Users /\ rest \in Seq(Users)
    BY <1>0, <2>1
  <2>3. \/ Move(a, u, m) /\ job' = [job EXCEPT ![a].todo = rest] /\ told' = told /\ flow' = flow
        \/ /\ Tell(a, "undo failed") /\ job' = [job EXCEPT ![a] = Idle]
           /\ net' = net /\ flow' = flow
    BY <1>3 DEF UndoNext
  <2>4. CASE Move(a, u, m) /\ job' = [job EXCEPT ![a].todo = rest] /\ told' = told /\ flow' = flow
    <3> DEFINE j == [job[a] EXCEPT !.todo = rest]
    <3>1. job' = [job EXCEPT ![a] = j]
      BY <2>4
    <3>2. j.step = "undo" /\ j.todo = rest /\ j.sign * j.amount = m
      BY <1>0 DEF Reversals
    <3>3. OneEach(s) => u \in Listed(s) /\ OneEach(rest) /\ Listed(rest) = Listed(s) \ {u}
      BY <1>0, <2>1, ListShrinks
    <3> HIDE DEF u, rest, m
    <3>4. net'[a] = Add(net[a], u, m) /\ \A b \in Staff \ {a} : net'[b] = net[b]
      BY <1>0, <2>2, <2>4, MoveMoves
    <3>5. ASSUME told[a].kind = "done" PROVE OneEach(rest) /\ net'[a] = By(Listed(rest), 0 - m)
      <4> DEFINE k == 0 - m
      <4>1. Listed(s) \in SUBSET Users /\ k \in Int /\ Opposite(m, k)
        BY <1>0, ListedUsers DEF Opposite
      <4>2. u \in Listed(s) /\ net[a] = By(Listed(s), k)
        BY <1>1, <3>3, <3>5
      <4> HIDE DEF k
      <4>3. Add(By(Listed(s), k), u, m) = By(Listed(s) \ {u}, k)
        BY <1>0, <4>1, <4>2, ByMovesBack
      <4>4. net'[a] = By(Listed(rest), k)
        BY <1>1, <3>3, <3>4, <3>5, <4>2, <4>3
      <4> QED
        BY <1>1, <3>3, <3>5, <4>4 DEF k
    <3> HIDE DEF j, s
    <3>6. Whole(j, net'[a], told[a], flow[a])
      BY <1>1, <3>2, <3>5 DEF Whole, Operations
    <3>7. WholeFor(a) /\ Aside(a)
      BY <1>0, <2>4, <3>1, <3>4, <3>6 DEF WholeFor, Aside
    <3> QED
      BY <3>7, WholeForAll
  <2>5. CASE /\ Tell(a, "undo failed") /\ job' = [job EXCEPT ![a] = Idle]
             /\ net' = net /\ flow' = flow
    <3>1. told'[a].kind = "undo failed" /\ \A b \in Staff \ {a} : told'[b] = told[b]
      BY <1>0, <2>5, TellTells
    <3>2. job'[a] = Idle
      BY <1>0, <2>5
    <3>3. WholeFor(a)
      BY <1>2, <3>1, <3>2 DEF WholeFor, Whole, Operations
    <3>4. Aside(a)
      BY <1>0, <2>5, <3>1 DEF Aside
    <3> QED
      BY <3>3, <3>4, WholeForAll
  <2> QED
    BY <2>3, <2>4, <2>5
<1>4. CASE UndoDone(a)
  <2>1. /\ s = <<>> /\ ClearState(a) /\ job' = [job EXCEPT ![a] = Idle] /\ net' = net
        /\ IF told[a].kind = "done" THEN Tell(a, "nothing done") ELSE UNCHANGED told
    BY <1>4 DEF UndoDone
  <2>2. /\ told'[a].kind = "nothing done" \/ told'[a] = told[a]
        /\ \A b \in Staff \ {a} : told'[b] = told[b]
    BY <1>0, <2>1, TellTells
  <2>3. told'[a].kind \in {"none", "nothing done"}
        /\ (told'[a].kind = "nothing done" => told[a].kind = "done")
    BY <1>0, <1>1, <2>1, TellTells
  <2>4. told[a].kind = "done" => net[a] = Nothing
    <3>1. Listed(<<>>) = {} /\ \A k : By({}, k) = Nothing
      BY DEF By, Nothing, Listed
    <3> HIDE DEF s, m
    <3> QED
      BY <1>1, <2>1, <3>1
  <2>5. job'[a] = Idle
    BY <1>0, <2>1
  <2>6. WholeFor(a)
    BY <1>2, <2>1, <2>3, <2>4, <2>5 DEF WholeFor, Whole, Operations
  <2>7. Aside(a)
    BY <1>0, <2>1, <2>2 DEF Aside, ClearState, Cleared, Kept, FlowOK
  <2> QED
    BY <2>6, <2>7, WholeForAll
<1> QED
  BY <1>3, <1>4
LEMMA NextOperations == Domains /\ OperationsAreWhole /\ [Next]_vars => OperationsAreWhole'
<1> SUFFICES ASSUME Domains, OperationsAreWhole, [Next]_vars PROVE OperationsAreWhole'
  OBVIOUS
<1>0. /\ ClockOK /\ AuthOK /\ FlowOK /\ RolesOK /\ MoneyOK /\ WritingOK
      /\ job \in [Staff -> Jobs]
  BY DEF Domains
<1>1. ASSUME UNCHANGED <<job, net, told>>, \A b \in Staff : Carries(flow'[b], flow[b])
      PROVE  OperationsAreWhole'
  BY <1>1, WholeCarries DEF OperationsAreWhole
<1>2. ASSUME flow' = flow PROVE \A b \in Staff : Carries(flow'[b], flow[b])
  BY <1>2 DEF Carries
<1>3. ASSUME NEW S, S \cap BalanceStates = {}, flow' = flow \/ \E a \in Staff : RowWritten(a, S)
      PROVE  \A b \in Staff : Carries(flow'[b], flow[b])
  BY <1>0, <1>2, <1>3, WrittenCarries
<1>4. /\ EntryStates \cap BalanceStates = {} /\ RoleStates \cap BalanceStates = {}
      /\ DraftStates \cap BalanceStates = {}
  BY StatesApart
<1>5. CASE Entry
  <2>1. ASSUME NEW a \in Staff,
               AskPassword(a) \/ ReturnPanel(a) \/ \E right \in BOOLEAN : TryPassword(a, right)
        PROVE  OperationsAreWhole'
    BY <1>0, <1>1, <1>3, <1>4, <1>5, <2>1, EntryHandlers DEF Entry, money
  <2>2. CASE TimePasses
    <3>1. flow' = [a \in Staff |-> Live(flow[a], now + 1)]
      BY <2>2 DEF TimePasses
    <3>2. NoRow.state \notin BalanceStates
      BY <1>4, NoRowFits DEF EntryStates
    <3>3. \A b \in Staff : Carries(flow'[b], flow[b])
      BY <3>1, <3>2 DEF Live, Carries
    <3>4. UNCHANGED <<job, net, told>>
      BY <1>5, <2>2 DEF Entry, TimePasses, money
    <3> QED
      BY <1>1, <3>3, <3>4
  <2>3. CASE CleanupStaleAuthState \/ \E a \in Staff : Dismiss(a)
    BY <1>1, <1>2, <1>5, <2>3 DEF Entry, CleanupStaleAuthState, Dismiss, money
  <2> QED
    BY <1>5, <2>1, <2>2, <2>3 DEF Entry
<1>6. CASE RolesNext /\ UNCHANGED <<money, writing>>
  <2>1. /\ flow' = flow \/ \E a \in Staff : RowWritten(a, RoleStates)
        /\ \A a \in Staff : \/ job'[a] = job[a]
                            \/ job[a] = Idle /\ job'[a].step = "role"
                            \/ job[a].step = "role" /\ job'[a] = Idle
    BY <1>0, <1>6, RolesStep
  <2>2. \A b \in Staff : Carries(flow'[b], flow[b])
    BY <1>3, <1>4, <2>1
  <2>3. UNCHANGED <<net, told>>
    BY <1>6 DEF money
  <2>4. Idle.step \notin Operations /\ "role" \notin Operations
    BY DEF Idle, Operations
  <2>5. ASSUME NEW a \in Staff PROVE Whole(job'[a], net[a], told[a], flow[a])
    <3>1. Whole(job[a], net[a], told[a], flow[a])
      BY DEF OperationsAreWhole
    <3>2. CASE job'[a] = job[a]
      BY <3>1, <3>2
    <3>3. CASE job[a].step \notin Operations /\ job'[a].step \notin Operations
      BY <3>1, <3>3 DEF Whole, Operations
    <3> QED
      BY <2>1, <2>4, <3>2, <3>3
  <2> QED
    BY <2>2, <2>3, <2>5, WholeCarries DEF OperationsAreWhole
<1>7. CASE BalanceNext /\ UNCHANGED writing
  <2>1. ASSUME NEW a \in Staff,
               \/ StartBalanceAdjustMode(a) \/ \E sign \in {-1, 1} : ChooseMode(a, sign)
               \/ \E u \in Users : Toggle(a, u)
               \/ PickerPage(a) \/ PickerClear(a) \/ PickerDone(a) \/ PickerBack(a)
               \/ ConfirmBack(a)
        PROVE  OperationsAreWhole'
    <3>1. FlowWritten(a)
      BY <1>0, <2>1, ButtonsWrite
    <3>2. UNCHANGED <<job, net, told>>
      BY <2>1 DEF StartBalanceAdjustMode, ChooseMode, Toggle, PickerPage, PickerClear, PickerDone,
         PickerBack, ConfirmBack, Tap, money
    <3> QED
      BY <1>0, <1>1, <3>1, <3>2, WrittenCarries
  <2>2. ASSUME NEW a \in Staff,
               \/ ChooseManual(a) \/ AmountBack(a)
               \/ \E n \in Nat : ChooseDelta(a, n) \/ ManualAmount(a, n)
        PROVE  OperationsAreWhole'
    <3>1. FlowWritten(a)
      BY <1>0, <2>2, AmountWrites
    <3>2. UNCHANGED <<job, net, told>>
      BY <2>2 DEF ChooseManual, AmountBack, ChooseDelta, ManualAmount, money
    <3> QED
      BY <1>0, <1>1, <3>1, <3>2, WrittenCarries
  <2>3. ASSUME NEW a \in Staff,
               \/ \E s \in {DeltaName, Amount} : StartDelta(a, s)
               \/ \E valid \in BOOLEAN : TypeDeltaName(a, valid)
               \/ \E n \in Nat : TypeDeltaAmount(a, n) \/ DeleteDelta(a, n)
        PROVE  OperationsAreWhole'
    <3>1. FlowWritten(a)
      BY <1>0, <2>3, DeltasWrite DEF MoneyOK
    <3>2. UNCHANGED <<job, net, told>>
      BY <2>3 DEF StartDelta, TypeDeltaName, TypeDeltaAmount, DeleteDelta, money
    <3> QED
      BY <1>0, <1>1, <3>1, <3>2, WrittenCarries
  <2>4. ASSUME NEW u \in Users, Spend(u) \/ LosesRole(u) PROVE OperationsAreWhole'
    BY <1>1, <1>2, <2>4 DEF Spend, LosesRole, panel, money
  <2> QED
    BY <1>7, <2>1, <2>2, <2>3, <2>4, ConfirmApplyWhole, ApplyNextWhole, ApplyDoneWhole,
       RollbackWhole, BalanceUndoWhole, UndoWhole, BalanceAssumption DEF BalanceNext
<1>8. CASE DraftNext /\ UNCHANGED <<roles, money>>
  BY <1>0, <1>1, <1>3, <1>4, <1>8, DraftStep DEF money
<1>9. CASE Crash
  <2>1. /\ job' = [a \in Staff |-> Idle] /\ UNCHANGED <<flow, net>>
        /\ told' = [a \in Staff |-> IF job[a] = Idle THEN told[a] ELSE Silence]
    BY <1>9 DEF Crash
  <2>2. ASSUME NEW a \in Staff PROVE Whole(job'[a], net'[a], told'[a], flow'[a])
    <3>1. CASE job[a] = Idle
      <4>1. job'[a] = job[a] /\ told'[a] = told[a]
        BY <2>1, <3>1
      <4> QED
        BY <2>1, <4>1 DEF OperationsAreWhole
    <3>2. CASE job[a] # Idle
      <4>1. job'[a].step \notin Operations /\ told'[a].kind = "none"
        BY <2>1, <3>2 DEF Idle, Silence, Operations
      <4> QED
        BY <4>1 DEF Whole, Operations
    <3> QED
      BY <3>1, <3>2
  <2> QED
    BY <2>2 DEF OperationsAreWhole
<1>10. CASE UNCHANGED vars
  BY <1>1, <1>2, <1>10 DEF vars, panel, money
<1> QED
  BY <1>5, <1>6, <1>7, <1>8, <1>9, <1>10 DEF Next

\* What an admin is told of an operation on several balances is what happened.
THEOREM OperationIsWholeCorrect == Spec => []OperationIsWhole
<1>1. Init => OperationsAreWhole
  <2> SUFFICES ASSUME Init, NEW a \in Staff PROVE Whole(job[a], net[a], told[a], flow[a])
    BY DEF OperationsAreWhole
  <2>1. job[a].step \notin Operations /\ told[a].kind = "none"
    BY DEF Init, InitSession, InitBalance, Idle, Silence, Operations
  <2> QED
    BY <2>1 DEF Whole, Operations
<1>2. OperationsAreWhole => OperationIsWhole
  <2>1. Idle.step \notin Operations
    BY DEF Idle, Operations
  <2>2. ASSUME OperationsAreWhole, NEW a \in Staff, job[a] = Idle
        PROVE  /\ told[a].kind \in {"done", "done, not recorded"} => net[a] = told[a].change
               /\ told[a].kind = "nothing done" => net[a] = Nothing
    <3>1. Whole(Idle, net[a], told[a], flow[a])
      BY <2>2 DEF OperationsAreWhole
    <3> QED
      BY <2>1, <3>1 DEF Whole
  <2> QED
    BY <2>2 DEF OperationIsWhole
<1> QED
  BY <1>1, <1>2, NextOperations, AlwaysDomains, PTL DEF Spec

=============================================================================
