----------------------------- MODULE AdminRoles -----------------------------
(***************************************************************************)
(* Assigning and changing the role of a member in three screens (pick,     *)
(* type, done) and taking the last change back.  The undo record is kept   *)
(* in the memory of the process, one for each admin.                       *)
(***************************************************************************)
EXTENDS AdminSession

CONSTANTS
    Users,       \* members of the group
    RoleNames,   \* texts given as roles
    MaxChanges   \* how many changes a run looks at, for each admin

VARIABLES
    role,      \* column role of members: "null", "" or a text
    active,    \* members with status active
    undo,      \* lastRoleUndo
    changes,   \* history: changes of roles an admin was told of
    undone     \* history: changes taken back

roles == <<role, active, undo, changes, undone>>

NoUndo == [user |-> 0, old |-> ""]

InitRoles ==
    /\ role = agenda.role
    /\ active = Users
    /\ undo = [a \in Staff |-> NoUndo]
    /\ changes = [a \in Staff |-> 0]
    /\ undone = [a \in Staff |-> 0]

GetUsersWithoutRole == {u \in active : role[u] = "null"}
GetUsersWithRole == {u \in active : role[u] # "null"}
RoleSet(u) == role[u] \notin {"null", ""}

\* The update names active members only and its row count is not read
UpdateRole(u, r) == role' = IF u \in active THEN [role EXCEPT ![u] = r] ELSE role

Assign == [select |-> "assign_role_select", text |-> "assign_role_text"]
Change == [select |-> "change_role_select", text |-> "change_role_text"]
Dialogues == {Assign, Change}
Candidates(m) == IF m = Assign THEN GetUsersWithoutRole ELSE GetUsersWithRole

\* UsersSnapshot keeps the roles as they were
Snapshot(users) == [u \in users |-> role[u]]

Stays == UNCHANGED <<agenda, now, auth>>

\* Nobody to choose: the dialogue of the assignment is dropped, the one of the
\* change left as it is.
StartPicker(a, m) ==
    /\ Admitted(a, "roles") /\ CanManageRoles(a)
    /\ IF Candidates(m) = {} THEN IF m = Assign THEN ClearState(a) ELSE Kept /\ Fine
       ELSE ShowState(a, m.select, Snapshot(Candidates(m)), TRUE)
    /\ Stays /\ UNCHANGED <<job, breach, roles>>

\* The list is read again after the row was dropped and the tags were scanned
RefreshAssign(a) ==
    /\ Admitted(a, "roles") /\ CanManageRoles(a)
    /\ IF GetUsersWithoutRole = {} THEN Cleared(a) /\ Fine
       ELSE \/ Saved(a, Assign.select, Snapshot(GetUsersWithoutRole)) /\ Fine
            \/ Cleared(a) /\ Happens("refused")
    /\ Stays /\ UNCHANGED <<job, breach, roles>>

\* A button of a picker is for the state of its own list; in any other state it
\* drops the row.  Turning a page renews the row's life.
TurnPage(a, m) ==
    /\ Admitted(a, "roles") /\ CanManageRoles(a)
    /\ IF In(a, {m.select}) THEN ShowState(a, m.select, flow[a].data, TRUE) ELSE ClearState(a)
    /\ Stays /\ UNCHANGED <<job, breach, roles>>

PickUser(a, m, u) ==
    /\ Admitted(a, "roles") /\ CanManageRoles(a)
    /\ IF ~In(a, {m.select}) THEN ClearState(a)
       ELSE IF u \in DOMAIN flow[a].data
       THEN SetState(a, m.text, [user |-> u, picker |-> flow[a].data])
       ELSE Kept /\ Fine
    /\ Stays /\ UNCHANGED <<job, breach, roles>>

\* The button asks for no right, the text does
RoleInputBack(a) ==
    /\ Admitted(a, "roles")
    /\ \E m \in Dialogues :
          In(a, {m.text}) /\ ShowState(a, m.select, flow[a].data.picker, TRUE)
    /\ Stays /\ UNCHANGED <<job, breach, roles>>

\* What follows a role that was written, or not
Reported(a, u, old, r) ==
    \/ /\ UpdateRole(u, r)
       /\ undo' = [undo EXCEPT ![a] = [user |-> u, old |-> old]]
       /\ changes' = [changes EXCEPT ![a] = @ + 1]
       /\ ClearState(a)
    \/ /\ Happens("refused")
       /\ Cleared(a)
       /\ UNCHANGED <<role, undo, changes>>

\* Mutant: the text of a role asks for no right.
AssignRoleTextUnasked(a, r) ==
    /\ Admitted(a, "roles") /\ In(a, {Assign.text}) /\ changes[a] < MaxChanges
    /\ Reported(a, flow[a].data.user, "", r) /\ Deed(a, "roles")
    /\ Stays /\ UNCHANGED <<job, active, undone>>

AssignRoleText(a, r) ==
    /\ Admitted(a, "roles") /\ In(a, {Assign.text}) /\ changes[a] < MaxChanges
    /\ IF CanManageRoles(a)
       THEN Reported(a, flow[a].data.user, "", r) /\ Deed(a, "roles")
       ELSE Denied(a) /\ UNCHANGED <<role, undo, changes>>
    /\ Stays /\ UNCHANGED <<job, active, undone>>

\* A change reads the role once more before it writes; when there is none, or
\* the read fails, the role of the list does.
OldRole(u, listed) == IF role[u] = "null" THEN listed ELSE role[u]

ChangeRoleText(a, r) ==
    /\ Admitted(a, "roles") /\ In(a, {Change.text}) /\ changes[a] < MaxChanges
    /\ IF CanManageRoles(a)
       THEN LET u == flow[a].data.user
                listed == flow[a].data.picker[u]
            IN  \E old \in {OldRole(u, listed), listed} :
                   /\ IF old = OldRole(u, listed) THEN Fine ELSE Happens("refused")
                   /\ job' = [job EXCEPT ![a] =
                                 [step |-> "role", user |-> u, old |-> old, new |-> r]]
                   /\ Deed(a, "roles") /\ Kept
       ELSE Denied(a) /\ UNCHANGED job
    /\ Stays /\ UNCHANGED roles

ChangeRoleWrite(a) ==
    /\ job[a].step = "role"
    /\ Reported(a, job[a].user, job[a].old, job[a].new)
    /\ job' = [job EXCEPT ![a] = Idle]
    /\ Stays /\ UNCHANGED <<active, undone, breach>>

\* Mutant: the undo record is used without being taken out.
PopUndoLate(a) == undo' = undo

\* The record is taken out before it is used
PopUndo(a) == undo' = [undo EXCEPT ![a] = NoUndo]

UndoLastRole(a) ==
    /\ Admitted(a, "roles") /\ CanManageRoles(a) /\ undo[a] # NoUndo
    /\ PopUndo(a) /\ Deed(a, "roles")
    /\ \/ /\ UpdateRole(undo[a].user, undo[a].old)
          /\ undone' = [undone EXCEPT ![a] = @ + 1]
          /\ ClearState(a)
       \/ Happens("refused") /\ Kept /\ UNCHANGED <<role, undone>>
    /\ Stays /\ UNCHANGED <<job, active, changes>>

\* A member leaves and is back later, with his role or, after a purge, without
Leaves(u) ==
    /\ agenda.does = "roles" /\ u \in active
    /\ active' = active \ {u}
    /\ UNCHANGED <<panel, role, undo, changes, undone>>

Returns(u) ==
    /\ u \notin active
    /\ active' = active \cup {u}
    /\ \E r \in {role[u], "null"} : role' = [role EXCEPT ![u] = r]
    /\ UNCHANGED <<panel, undo, changes, undone>>

RolesNext ==
    \/ \E a \in Staff :
          \/ \E m \in Dialogues :
                \/ StartPicker(a, m)
                \/ TurnPage(a, m)
                \/ \E u \in Users : PickUser(a, m, u)
          \/ RefreshAssign(a) \/ RoleInputBack(a)
          \/ \E r \in RoleNames : AssignRoleText(a, r) \/ ChangeRoleText(a, r)
          \/ ChangeRoleWrite(a) \/ UndoLastRole(a)
    \/ \E u \in Users : Leaves(u) \/ Returns(u)

-----------------------------------------------------------------------------
\* Each change of a role is taken back at most once, by the admin who made it:
\* two taps of the undo button, a tap after a restart or an undo that failed
\* never take back more than was changed.
UndoneOnce == \A a \in Staff : undone[a] <= changes[a]
=============================================================================
