------------------------------- MODULE Thanks -------------------------------
(***************************************************************************)
(* Thanking a member: the daily limit and the cooldown for thanks returned *)
(* are looked up first, the reward and the row of karma_logs are written   *)
(* in one transaction afterwards.  Thanks are taken in the source chat     *)
(* only, by command or as a reply, and the handlers of a chat run in turn. *)
(*                                                                         *)
(* created_at is a TIMESTAMP without zone and NOW() is rendered in the     *)
(* zone of the database; a time the bot sends is cut down to its wall      *)
(* clock, which is Zone ahead.                                             *)
(***************************************************************************)
EXTENDS Casino

CONSTANTS
    SourceChat,     \* cfg.MemberSourceChatID
    ThanksReward,
    Limit,          \* THANKS_DAILY_LIMIT
    Cooldown,       \* ThanksReciprocalCooldown
    Day,            \* ticks of a day
    Zone,           \* how far the bot's clock is ahead of the database's
    Horizon,        \* the last moment a run looks at
    MaxThanks       \* thanks a run looks at

ASSUME ThanksAssumption ==
    /\ SourceChat \in Chats
    /\ {ThanksReward, Limit, Cooldown, Zone, Horizon, MaxThanks} \subseteq Nat
    /\ Day \in Nat \ {0}

VARIABLES
    now,   \* the clock of the database
    log    \* table karma_logs

thanks == <<now, log>>

InitThanks == now = 0 /\ log = <<>>

WallClock == now + Zone

\* Mutant: the day begins now.
dayStartRolling(t) == t
dayStart(t) == (t \div Day) * Day

CountSentSince(u, since) ==
    Cardinality({i \in DOMAIN log : log[i].from = u /\ log[i].at >= since})

\* Mutant: thanks of the other direction are looked for.
HasSentSince(from, to, since) ==
    \E i \in DOMAIN log : log[i].from = to /\ log[i].to = from /\ log[i].at >= since
HasReciprocalSince(from, to, since) ==
    \E i \in DOMAIN log : log[i].from = from /\ log[i].to = to /\ log[i].at >= since

\* The three steps of GiveThanks.  A refusal ends the handler.
GiveThanks(from, to) ==
    /\ play = "thanks" /\ job[SourceChat] = Idle /\ from # to
    /\ Len(log) < MaxThanks
    /\ CountSentSince(from, dayStart(WallClock)) < Limit
    /\ job' = [job EXCEPT ![SourceChat] = [step |-> "thanks", from |-> from, to |-> to]]
    /\ Fine
    /\ UNCHANGED <<play, balance, casino, thanks>>

Reciprocal ==
    /\ At(SourceChat, "thanks")
    /\ LET j == job[SourceChat]
       IN  IF HasReciprocalSince(j.to, j.from, WallClock - Cooldown)
           THEN Return(SourceChat) ELSE Goto(SourceChat, "reward")
    /\ Fine
    /\ UNCHANGED <<play, balance, casino, thanks>>

\* AddBalanceWithHook: both or neither
AddReward ==
    /\ At(SourceChat, "reward")
    /\ LET j == job[SourceChat]
       IN  \/ /\ balance' = [balance EXCEPT ![j.to] = @ + ThanksReward]
              /\ log' = Append(log, [from |-> j.from, to |-> j.to, at |-> now])
              /\ Fine
           \/ /\ Happens("refused")
              /\ UNCHANGED <<balance, log>>
    /\ Return(SourceChat)
    /\ UNCHANGED <<play, casino, now>>

ThanksNext == (\E from, to \in Users : GiveThanks(from, to)) \/ Reciprocal \/ AddReward

-----------------------------------------------------------------------------
\* The day of a row in the configured zone
LocalDay(t) == (t + Zone) \div Day

Given(u, day) == {i \in DOMAIN log : log[i].from = u /\ LocalDay(log[i].at) = day}

\* In one day of the configured zone a member gives at most Limit thanks (the
\* test that the day starts in that zone).
ThanksWithinLimit ==
    \A u \in Users : \A i \in DOMAIN log :
        Cardinality(Given(u, LocalDay(log[i].at))) <= Limit

\* What is left of that when Zone is not 0: the limit holds of the thanks whose row
\* the database dates to the day they were given on, since the query misses the
\* others; although the limit is looked up before and outside the transaction that
\* uses it up, and midnight may come in between.
DatedThanksWithinLimit ==
    \A u \in Users : \A i \in DOMAIN log :
        LET day == LocalDay(log[i].at)
        IN  Cardinality({j \in Given(u, day) : log[j].at \div Day = day}) <= Limit

\* No thanks is returned before what the clocks leave of the cooldown is over: it
\* is shorter by Zone, and nothing is left of it when Zone is not less.
CooldownHolds ==
    \A i, j \in DOMAIN log :
        i < j /\ log[i].from = log[j].to /\ log[i].to = log[j].from
            => log[j].at - log[i].at > Cooldown - Zone
=============================================================================
