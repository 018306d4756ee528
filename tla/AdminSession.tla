---------------------------- MODULE AdminSession ----------------------------
(***************************************************************************)
(* What every handler of the admin panel goes through first: the right to  *)
(* enter, the session that a password opens, and the one row of            *)
(* admin_flow_states in which an admin's dialogue is kept between updates. *)
(*                                                                         *)
(* The updates of an admin come from his private chat, whose handlers run  *)
(* one after the other, so a handler that makes one change is one step.    *)
(* job holds the handlers that make several.  Any button may be tapped at  *)
(* any time: old messages of the chat keep theirs.                         *)
(*                                                                         *)
(* The columns of time have no zone: a time the bot sends is cut down to   *)
(* its wall clock, NOW() is rendered in the zone of the database.          *)
(***************************************************************************)
EXTENDS Integers, Sequences, FiniteSets

CONSTANTS
    Staff,         \* who opens the panel
    EnvAdmins,     \* ADMIN_IDS
    Moderators,    \* MODERATOR_IDS
    Flagged,       \* members with is_admin at the start
    Agendas,       \* what the staff of a behaviour is up to, what it finds, how long
                   \* it is watched and how often something goes wrong
    MaxAttempts,   \* failures after which a password is not looked at
    Window,        \* the hour for which failures count
    Retention,     \* adminLoginAttemptRetention
    SessionTTL,    \* life of a session
    FlowTTL,       \* life of the state of a dialogue
    Zone,          \* how far the bot's wall clock is ahead of the database's
    Faults         \* what may go wrong: "refused", "late", "crash"

ASSUME AdminAssumption ==
    /\ EnvAdmins \subseteq Staff /\ Moderators \subseteq Staff /\ Flagged \subseteq Staff
    /\ MaxAttempts \in Nat \ {0}
    /\ {Window, Retention, SessionTTL, FlowTTL, Zone} \subseteq Nat
    /\ Window <= Retention

VARIABLES
    agenda,     \* who is at work in this behaviour, and on what
    now,        \* the clock
    flagged,    \* column is_admin of members
    session,    \* when the session of an admin ends
    attempts,   \* table admin_login_attempts: the failures, with their times
    flow,       \* table admin_flow_states: state, data, when they lapse
    job,        \* the handler under way
    spent,      \* faults so far
    entered,    \* history: when the right password opened the session
    guessed,    \* history: when a wrong password was compared
    unlogged,   \* history: failures that could not be written down
    breach      \* history: what was done without the right to do it

auth == <<flagged, session, attempts, entered, guessed, unlogged>>
panel == <<agenda, now, auth, flow, job, spent, breach>>

NoRow == [state |-> "none", data |-> <<>>, until |-> 0]
Idle == [step |-> "idle"]
Never == 0 - (Zone + SessionTTL)

\* A behaviour about the panel itself begins before the login.
InitSession ==
    /\ agenda \in Agendas
    /\ now = 0
    /\ flagged = Flagged
    /\ session = [a \in Staff |-> IF agenda.does = "login" THEN 0 ELSE Zone + SessionTTL]
    /\ attempts = [a \in Staff |-> {}]
    /\ flow = [a \in Staff |-> NoRow]
    /\ job = [a \in Staff |-> Idle]
    /\ spent = 0
    /\ entered = [a \in Staff |-> IF agenda.does = "login" THEN Never ELSE 0]
    /\ guessed = [a \in Staff |-> <<>>]
    /\ unlogged = [a \in Staff |-> 0]
    /\ breach = {}

Happens(f) == f \in Faults /\ spent < agenda.budget /\ spent' = spent + 1
Fine == spent' = spent

-----------------------------------------------------------------------------
(* Rights.                                                                  *)

IsAdmin(a) == a \in EnvAdmins \/ a \in flagged
IsModerator(a) == IsAdmin(a) \/ a \in Moderators
CanManageRiddles(a) == IsModerator(a)
CanManageRoles(a) == IsAdmin(a)
CanManageBalance(a) == IsAdmin(a)

HasActiveSession(a) == now < session[a]

\* An update of a is at the head of his chat and passes the first gate
Enters(a) == a \in agenda.who /\ job[a] = Idle /\ IsModerator(a)
\* ... and the second, on the way to the feature f
Admitted(a, f) == Enters(a) /\ HasActiveSession(a) /\ f = agenda.does

\* A deed is rightful when its doer has the right and entered the password no
\* longer ago than a session lives, which is Zone more than it was meant to.
Entitled(a, f) ==
    /\ now < entered[a] + Zone + SessionTTL
    /\ IF f = "draft" THEN IsModerator(a) ELSE IsAdmin(a)
Deed(a, f) == breach' = IF Entitled(a, f) THEN breach ELSE breach \cup {f}
NoDeed == breach' = breach

-----------------------------------------------------------------------------
(* The row of a dialogue.  A statement the database refuses is only logged. *)

Row(s, d) == [state |-> s, data |-> d, until |-> now + Zone + FlowTTL]

Live(row, t) == IF t > row.until THEN NoRow ELSE row
In(a, states) == flow[a].state \in states

Saved(a, s, d) == flow' = [flow EXCEPT ![a] = Row(s, d)]
Cleared(a) == flow' = [flow EXCEPT ![a] = NoRow]
Kept == flow' = flow

SetState(a, s, d) == \/ Saved(a, s, d) /\ Fine
                     \/ Kept /\ Happens("refused")
ClearState(a) == \/ Cleared(a) /\ Fine
                 \/ Kept /\ Happens("refused")

\* SetState followed by a screen that reads the row again and resets the
\* dialogue when it finds another state than it wants, or data it cannot show
ShowState(a, s, d, showable) ==
    IF showable
    THEN \/ Saved(a, s, d) /\ Fine
         \/ Happens("refused") /\ (IF In(a, {s}) THEN Kept ELSE Cleared(a))
    ELSE Cleared(a) /\ Fine

\* A denial by the permission tests of a text ends the dialogue
Denied(a) == ClearState(a) /\ NoDeed

-----------------------------------------------------------------------------
(* Entering.                                                                *)

Recent(a) == {failure \in attempts[a] : failure.at >= now + Zone - Window}

\* Without a session any message or button asks for the password; the row of a
\* dialogue is overwritten.  A session that cannot be read is no session.
AskPassword(a) ==
    /\ Enters(a)
    /\ \/ ~HasActiveSession(a) /\ SetState(a, "awaiting_password", <<>>)
       \/ HasActiveSession(a) /\ Happens("refused") /\ Saved(a, "awaiting_password", <<>>)
    /\ UNCHANGED <<agenda, now, auth, job, breach>>

\* LogAttempt failing is only logged
LogFailure(a) ==
    /\ guessed' = [guessed EXCEPT ![a] = Append(@, now)]
    /\ \/ /\ attempts' = [attempts EXCEPT ![a] =
                             @ \cup {[id |-> Len(guessed[a]) + 1, at |-> now]}]
          /\ Fine
          /\ UNCHANGED unlogged
       \/ /\ Happens("refused")
          /\ unlogged' = [unlogged EXCEPT ![a] = @ + 1]
          /\ UNCHANGED attempts

OpenSession(a) ==
    \/ /\ session' = [session EXCEPT ![a] = now + Zone + SessionTTL]
       /\ entered' = [entered EXCEPT ![a] = now]
       /\ Fine
    \/ /\ Happens("refused")
       /\ UNCHANGED <<session, entered>>
\* Attempts that cannot be counted refuse the password like too many of them do
VerifyPassword(a, right) ==
    /\ \/ Cardinality(Recent(a)) >= MaxAttempts /\ Fine /\ UNCHANGED auth
       \/ Happens("refused") /\ UNCHANGED auth
       \/ /\ Cardinality(Recent(a)) < MaxAttempts
          /\ UNCHANGED flagged
          /\ IF right THEN OpenSession(a) /\ UNCHANGED <<attempts, guessed, unlogged>>
             ELSE LogFailure(a) /\ UNCHANGED <<session, entered>>
    /\ Cleared(a)

\* The text after the question, or /login with the password
TryPassword(a, right) ==
    /\ Enters(a) /\ ~HasActiveSession(a)
    /\ VerifyPassword(a, right)
    /\ UNCHANGED <<agenda, now, job, breach>>

\* /login within a session, the return and the cancel button, and the buttons
\* of pickers of other dialogues, all of which drop the row
ReturnPanel(a) ==
    /\ Enters(a) /\ HasActiveSession(a) /\ flow[a] # NoRow
    /\ ClearState(a)
    /\ UNCHANGED <<agenda, now, auth, job, breach>>

-----------------------------------------------------------------------------
(* The surroundings.                                                        *)
\* Mutant: the cleanup deletes attempts that still count.
OldAttemptHasty(t) == t <= now

OldAttempt(t) == t < now - Retention

\* The cleanup deletes sessions and rows whose time is up and old attempts
CleanupStaleAuthState ==
    /\ \E a \in Staff : attempts[a] # {} \/ session[a] \in 1 .. now
    /\ session' = [a \in Staff |-> IF session[a] < now THEN 0 ELSE session[a]]
    /\ attempts' = [a \in Staff |-> {failure \in attempts[a] : ~OldAttempt(failure.at)}]
    /\ UNCHANGED <<agenda, now, flagged, entered, guessed, unlogged, flow, job, spent, breach>>

\* is_admin is taken from a, or his row is purged
Dismiss(a) ==
    /\ a \in flagged \ EnvAdmins
    /\ flagged' = flagged \ {a}
    /\ UNCHANGED <<agenda, now, session, attempts, entered, guessed, unlogged,
                   flow, job, spent, breach>>

\* GetState drops a row it finds out of date, so no handler sees one
TimePasses ==
    /\ now < agenda.until
    /\ now' = now + 1
    /\ flow' = [a \in Staff |-> Live(flow[a], now + 1)]
    /\ UNCHANGED <<agenda, auth, job, spent, breach>>

-----------------------------------------------------------------------------
\* However the attempts are timed, whatever the cleanup deletes and whatever
\* fails, no window sees more than MaxAttempts wrong passwords of one admin
\* compared with the hash, but for the ones the database refused to record.
\* The window is what the clocks leave of the hour: Zone less, and nothing at
\* all once Zone is more than Window.
GuessesAreLimited ==
    \A a \in Staff : \A t \in 0 .. now :
        Cardinality({i \in DOMAIN guessed[a] : guessed[a][i] \in (t + Zone - Window) .. t})
            <= MaxAttempts + unlogged[a]

\* Roles, balances, deltas and riddles change only by a handler that began with
\* the right for it and within SessionTTL + Zone of the password that opened the
\* session, also when right or session end in the middle of a dialogue.
NothingForbidden == breach = {}
=============================================================================
