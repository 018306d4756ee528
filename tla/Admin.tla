------------------------------- MODULE Admin -------------------------------
(***************************************************************************)
(* The admin panel: the session and its dialogues together.                *)
(***************************************************************************)
EXTENDS AdminBalance, AdminDraft

vars == <<panel, roles, money, writing>>

Init == InitSession /\ InitRoles /\ InitBalance /\ InitDraft

\* The process stops and starts again: handlers end where they are and the undo
\* records of the roles are gone.
Crash ==
    /\ Happens("crash")
    /\ job' = [a \in Staff |-> Idle]
    /\ undo' = [a \in Staff |-> NoUndo]
    /\ told' = [a \in Staff |-> IF job[a] = Idle THEN told[a] ELSE Silence]
    /\ UNCHANGED <<agenda, now, auth, flow, breach, role, active, changes, undone,
                   balance, deltas, net, writing>>

Entry ==
    /\ \/ \E a \in Staff :
             \/ AskPassword(a) \/ ReturnPanel(a) \/ Dismiss(a)
             \/ \E right \in BOOLEAN : TryPassword(a, right)
       \/ CleanupStaleAuthState
       \/ TimePasses
    /\ UNCHANGED <<roles, money, writing>>

Next ==
    \/ Entry
    \/ RolesNext /\ UNCHANGED <<money, writing>>
    \/ BalanceNext /\ UNCHANGED writing
    \/ DraftNext /\ UNCHANGED <<roles, money>>
    \/ Crash

Spec == Init /\ [][Next]_vars

-----------------------------------------------------------------------------
\* A row of a dialogue carries the data its state needs and is not out of date,
\* so that no handler meets a payload it cannot use.
RowIsReadable(a) ==
    LET d == flow[a].data
        s == flow[a].state
    IN  /\ s # "none" => flow[a].until \in now .. now + Zone + FlowTTL
        /\ s \in {"none", "awaiting_password"} => d = <<>>
        /\ \A m \in Dialogues :
              /\ s = m.select => DOMAIN d \in (SUBSET Users) \ {{}}
              /\ s = m.text => d.user \in DOMAIN d.picker
        /\ s \in BalanceStates =>
              /\ d.sign \in {-1, 0, 1} /\ d.chosen \subseteq Users
              /\ Showable(s, d) \/ d.menu
        /\ s \in DraftStates => {d.text, d.answers, d.reward} \subseteq 0 .. MaxDrafts

\* Every column keeps to its domain and every row of a dialogue is readable.
TypeOK ==
    /\ now \in 0 .. agenda.until /\ flagged \subseteq Staff /\ active \subseteq Users
    /\ session \in [Staff -> 0 .. now + Zone + SessionTTL]
    /\ role \in [Users -> {"null", ""} \cup RoleNames]
    /\ balance \in [Users -> 0 .. MaxBalance]
    /\ \A a \in Staff : RowIsReadable(a)
=============================================================================
