------------------------------ MODULE Members ------------------------------
(***************************************************************************)
(* Who is a member: the table `members` and the rows that hang on it.      *)
(*                                                                         *)
(* Updates of the source chat are handled one at a time (the chat lock of  *)
(* UpdatePool), in an order the workers may disturb.  Beside them run a    *)
(* handler of a private message, which asks Telegram first and writes      *)
(* afterwards; the tag scan, which does the same for every active member;  *)
(* the hourly purge of those who left; and a payment by another feature,   *)
(* whose locks meet those of the purge.  A single SQL statement outside a  *)
(* transaction is one step; the locks of the two transactions are derived  *)
(* from where they stand.                                                  *)
(*                                                                         *)
(* Abstracted: names and tags, and with them the statement UpdateMemberTag *)
(* of the scan, which writes a column nothing here reads.                  *)
(***************************************************************************)
EXTENDS Naturals, Sequences, FiniteSets, SequencesExt

CONSTANTS Users,          \* people Telegram knows
          Grace,          \* five days, in units of time
          BatchLimit,     \* purgeBatchLimit
          MaxIterations,  \* purgeMaxIterations
          Workers,        \* how far the pool can disturb the order of updates
          Faults,         \* which failures happen: "crash", "refused", "lost"
          Budget,         \* bound on what the world outside does
          Horizon         \* bound on time

ASSUME MembersAssumption ==
  /\ Grace \in Nat \ {0} /\ BatchLimit \in Nat \ {0} /\ MaxIterations \in Nat \ {0}
  /\ Workers \in Nat \ {0} /\ Budget \in Nat /\ Horizon \in Nat
  /\ Faults \subseteq {"crash", "refused", "lost"}

VARIABLES
  inChat,    \* who is in the source chat, according to Telegram
  news,      \* updates of the source chat not taken up yet, oldest first
  member,    \* member[u]: status and delete_after of the row, if there is one
  owned,     \* owned[t]: who has committed rows in table t
  group,     \* the handler of an update of the source chat
  private,   \* the handler of a private message: filter and its answer
  scan,      \* the tag scan: who is left to ask, and the answer in hand
  purge,     \* the purge: its tick, the locked batch, the round
  payer,     \* a transaction of another feature on somebody's balance
  now,
  spent,     \* how much of Budget is used
  welcomed,  \* history: whose joining was handled without a failure
  doubt      \* history: whose row was written out of order, late or not at all

vars == <<inChat, news, member, owned, group, private, scan, purge, payer, now,
          spent, welcomed, doubt>>

Tables == {"balances", "streaks", "karma", "transactions"}
\* Mutant: the purge forgets the rows of karma.
PurgedTablesButKarma == Tables \ {"karma"}
PurgedTables == Tables

NoRow == [status |-> "none", due |-> 0]
ActiveRow == [status |-> "active", due |-> 0]
LeftRow(at) == [status |-> "left", due |-> at + Grace]

Known(u) == member[u].status # "none"

Joining == {"joined", "promoted"}
Leaving == {"left", "banned"}
Update(u, what) == [user |-> u, what |-> what, late |-> FALSE]

GroupIdle == [pc |-> "idle"]
PrivateIdle == [pc |-> "idle"]
ScanIdle == [pc |-> "idle"]
PurgeIdle == [pc |-> "idle"]
PayerIdle == [pc |-> "idle"]

Init ==
  /\ inChat \in SUBSET Users
  /\ news = <<>>
  /\ member \in [Users -> {NoRow, ActiveRow, LeftRow(0)}]
  /\ \A u \in Users : /\ member[u].status = "active" => u \in inChat
                      /\ member[u].status = "left" => u \notin inChat
  /\ owned = [t \in Tables |-> {u \in Users : Known(u)}]
  /\ group = GroupIdle /\ private = PrivateIdle /\ scan = ScanIdle
  /\ purge = PurgeIdle /\ payer = PayerIdle
  /\ now = 0 /\ spent = 0
  /\ welcomed = {u \in Users : Known(u)} /\ doubt = {}

-----------------------------------------------------------------------------
(* Locks.  The purge holds the member rows of its batch FOR UPDATE until it *)
(* ends; a payment holds the balance row it has changed, and the member row *)
(* FOR KEY SHARE once it has inserted a row that refers to it.              *)

\* Mutant: the purge selects its batch without FOR UPDATE.
PurgeLocksNone == {}
PurgeLocks == IF purge.pc \in {"delete", "commit"} THEN purge.batch ELSE {}
WalletLocks == IF payer.pc \in {"ledger", "commit"} THEN {payer.user} ELSE {}
ShareLocks == IF payer.pc \in {"ledger", "commit"} /\ payer.shared
              THEN {payer.user} ELSE {}

Spend == spent < Budget /\ spent' = spent + 1

-----------------------------------------------------------------------------
(* Telegram: people come and go, are promoted or banned, and write.         *)

Post(u, what) == news' = Append(news, Update(u, what))

Outside == <<member, owned, group, private, scan, purge, payer, now, welcomed,
             doubt>>

Join(u) == /\ u \notin inChat /\ Spend
           /\ inChat' = inChat \cup {u} /\ Post(u, "joined")
           /\ UNCHANGED Outside

Leave(u) == /\ u \in inChat /\ Spend
            /\ inChat' = inChat \ {u} /\ Post(u, "left")
            /\ UNCHANGED Outside

Touch(u, what) ==
  /\ what \in {"promoted", "message"} => u \in inChat
  /\ what = "banned" => u \notin inChat
  /\ Spend /\ Post(u, what)
  /\ UNCHANGED <<inChat, Outside>>

-----------------------------------------------------------------------------
(* Statements on `members`.                                                  *)

\* Mutant: ON CONFLICT leaves the status of the row as it is.
UpsertKeepsStatus(u) ==
  u \notin PurgeLocks /\ member' = [member EXCEPT ![u] = IF Known(u) THEN @ ELSE ActiveRow]
UpsertActiveMember(u) ==
  u \notin PurgeLocks /\ member' = [member EXCEPT ![u] = ActiveRow]

EnsureActiveMemberSeen(u) ==
  u \notin PurgeLocks /\ member' = [member EXCEPT ![u] = ActiveRow]

MarkMemberLeft(u, at) ==
  /\ u \notin PurgeLocks
  /\ member' = [member EXCEPT ![u] = IF Known(u) THEN LeftRow(at) ELSE NoRow]

(* A write about u made with an update that a later one has overtaken, or    *)
(* with an answer that is no longer true, leaves his row in doubt; an update *)
(* handled in its turn settles it.                                           *)
Settle(u) == doubt' = IF group.late THEN doubt \cup {u} ELSE doubt \ {u}
Doubtful(u) == doubt' = IF u \in inChat THEN doubt ELSE doubt \cup {u}

-----------------------------------------------------------------------------
(* The handler of the source chat.                                           *)

GroupNext(pc) == group' = [group EXCEPT !.pc = pc]

(* Two workers may lock the chat in the other order than they received:      *)
(* the i-th update overtakes those of the same person before it.             *)
Overtaken(i) == [j \in 1..Len(news) |->
  IF j < i /\ news[j].user = news[i].user THEN [news[j] EXCEPT !.late = TRUE] ELSE news[j]]

TakeUpdate(i) ==
  /\ group.pc = "idle" /\ i <= Workers
  /\ LET up == news[i]
     IN group' = [pc |-> CASE up.what \in Joining -> "upsert"
                           [] up.what \in Leaving -> "leave"
                           [] OTHER -> "seen",
                  user |-> up.user, what |-> up.what, at |-> now,
                  late |-> up.late, missed |-> FALSE]
  /\ news' = RemoveAt(Overtaken(i), i)
  /\ UNCHANGED <<inChat, member, owned, private, scan, purge, payer, now, spent,
                 welcomed, doubt>>

GroupRest == <<inChat, news, private, scan, purge, payer, now>>

(* UpsertActiveMember of handleMembershipUpdate; only somebody who was not   *)
(* active before gets the rows of a new member.                              *)
MemberActive ==
  /\ group.pc = "upsert"
  /\ UpsertActiveMember(group.user) /\ Settle(group.user)
  /\ IF group.what = "joined" THEN GroupNext("again") ELSE group' = GroupIdle
  /\ UNCHANGED <<GroupRest, owned, spent, welcomed>>

MemberLeft ==
  /\ group.pc = "leave"
  /\ MarkMemberLeft(group.user, group.at) /\ Settle(group.user)
  /\ group' = GroupIdle
  /\ UNCHANGED <<GroupRest, owned, spent, welcomed>>

(* EnsureActiveMemberSeen before a message or a callback of the source chat  *)
(* is given to the features.                                                 *)
MemberSeen ==
  /\ group.pc = "seen"
  /\ EnsureActiveMemberSeen(group.user)
  /\ doubt' = IF group.late THEN doubt \cup {group.user} ELSE doubt
  /\ group' = GroupIdle
  /\ UNCHANGED <<GroupRest, owned, spent, welcomed>>

(* handleNewMembers: HandleNewMember writes the row again, then come the     *)
(* balance, the streak and the karma, each in a statement of its own.        *)
HandleNewMember ==
  /\ group.pc = "again"
  /\ UpsertActiveMember(group.user)
  /\ GroupNext("balances")
  /\ UNCHANGED <<GroupRest, owned, spent, welcomed, doubt>>

\* Mutant: a new member gets no streak row.
AfterSkippingStreak(table) == "karma"
After(table) == IF table = "balances" THEN "streaks" ELSE "karma"

(* INSERT ... ON CONFLICT DO NOTHING; the foreign key wants the member row.  *)
CreateRow(table) ==
  /\ group.pc = table /\ group.user \notin PurgeLocks
  /\ LET u == group.user
         missed == group.missed \/ ~Known(u)
     IN /\ owned' = IF Known(u) THEN [owned EXCEPT ![table] = @ \cup {u}] ELSE owned
        /\ IF table = "karma"
           THEN /\ group' = GroupIdle
                /\ welcomed' = IF missed THEN welcomed ELSE welcomed \cup {u}
           ELSE /\ group' = [group EXCEPT !.pc = After(table), !.missed = missed]
                /\ UNCHANGED welcomed
  /\ UNCHANGED <<GroupRest, member, spent, doubt>>

(* A statement fails.  Of the first one the handler returns; a failure in    *)
(* handleNewMembers is logged and the next statement runs all the same.      *)
GroupFails ==
  /\ "refused" \in Faults /\ group.pc # "idle" /\ Spend
  /\ \/ /\ group.pc \in {"upsert", "leave", "seen"}
        /\ group' = GroupIdle /\ doubt' = doubt \cup {group.user}
     \/ /\ group.pc \in {"again", "balances", "streaks"}
        /\ group' = [group EXCEPT !.missed = TRUE,
                       !.pc = IF @ = "again" THEN "balances" ELSE After(@)]
        /\ UNCHANGED doubt
     \/ group.pc = "karma" /\ group' = GroupIdle /\ UNCHANGED doubt
  /\ UNCHANGED <<GroupRest, member, owned, welcomed>>

-----------------------------------------------------------------------------
(* A private message: CheckAccess asks Telegram, then writes the member      *)
(* seen.  A failed write does not deny the access.                           *)

PrivateRest == <<inChat, news, owned, group, scan, purge, payer, now, welcomed>>

AskAccess(u) ==
  /\ private.pc = "idle" /\ Spend
  /\ private' = IF u \in inChat THEN [pc |-> "write", user |-> u] ELSE PrivateIdle
  /\ UNCHANGED <<PrivateRest, member, doubt>>

PrivateSeen ==
  /\ private.pc = "write"
  /\ EnsureActiveMemberSeen(private.user) /\ Doubtful(private.user)
  /\ private' = PrivateIdle
  /\ UNCHANGED <<PrivateRest, spent>>

PrivateFails ==
  /\ "refused" \in Faults /\ private.pc = "write" /\ Spend
  /\ private' = PrivateIdle
  /\ UNCHANGED <<PrivateRest, member, doubt>>

-----------------------------------------------------------------------------
(* The tag scan.                                                             *)

ScanRest == <<inChat, news, owned, group, private, purge, payer, now, welcomed>>

ScanBegins ==
  /\ scan.pc = "idle" /\ Spend
  /\ \E u \in Users : member[u].status = "active"
  /\ scan' = [pc |-> "ask", todo |-> {u \in Users : member[u].status = "active"}]
  /\ UNCHANGED <<ScanRest, member, doubt>>

ScanGoesOn(todo) == IF todo = {} THEN ScanIdle ELSE [pc |-> "ask", todo |-> todo]

(* GetChatMember: somebody who is not there, or about whom Telegram fails,   *)
(* is passed over.  Nobody is ever marked left by the scan.                  *)
ScanAsks(u) ==
  /\ scan.pc = "ask" /\ u \in scan.todo
  /\ \/ u \in inChat /\ scan' = [pc |-> "write", user |-> u, todo |-> scan.todo \ {u}]
     \/ u \notin inChat /\ scan' = ScanGoesOn(scan.todo \ {u})
  /\ UNCHANGED <<ScanRest, member, spent, doubt>>

ScanWrites ==
  /\ scan.pc = "write"
  /\ UpsertActiveMember(scan.user) /\ Doubtful(scan.user)
  /\ scan' = ScanGoesOn(scan.todo)
  /\ UNCHANGED <<ScanRest, spent>>

ScanFails ==
  /\ "refused" \in Faults /\ scan.pc = "write" /\ Spend
  /\ scan' = ScanGoesOn(scan.todo)
  /\ UNCHANGED <<ScanRest, member, doubt>>

-----------------------------------------------------------------------------
(* The purge.                                                                *)

PurgeRest == <<inChat, news, group, private, scan, payer, now, doubt>>

Due(at) == {u \in Users : member[u].status = "left" /\ member[u].due <= at}

PurgeTick ==
  /\ purge.pc \in {"idle", "refused"} /\ Due(now) # {}
  /\ purge' = [pc |-> "select", at |-> now, round |-> 1, batch |-> {}]
  /\ UNCHANGED <<PurgeRest, member, owned, spent, welcomed>>

(* SELECT ... ORDER BY delete_after LIMIT ... FOR UPDATE SKIP LOCKED.        *)
IsBatch(S, D) ==
  /\ S \subseteq D
  /\ Cardinality(S) = IF Cardinality(D) < BatchLimit THEN Cardinality(D) ELSE BatchLimit
  /\ \A u \in S, v \in D \ S : member[u].due <= member[v].due

PurgeSelect ==
  /\ purge.pc = "select"
  /\ \E S \in SUBSET Users :
       /\ IsBatch(S, Due(purge.at) \ ShareLocks)
       /\ purge' = IF S = {} THEN PurgeIdle
                   ELSE [purge EXCEPT !.pc = "delete", !.batch = S]
  /\ UNCHANGED <<PurgeRest, member, owned, spent, welcomed>>

(* The deletes of the rows that refer to the batch wait for a payment that   *)
(* has changed one of its balances.                                          *)
PurgeDelete ==
  /\ purge.pc = "delete" /\ purge.batch \cap WalletLocks = {}
  /\ purge' = [purge EXCEPT !.pc = "commit"]
  /\ UNCHANGED <<PurgeRest, member, owned, spent, welcomed>>

Dependents(S) == \E t \in Tables \ PurgedTables : owned[t] \cap S # {}

(* DELETE FROM members, and COMMIT; the next batch follows at once, unless   *)
(* the answer to COMMIT is lost.  A row that still refers to a member would  *)
(* make the foreign key refuse the delete, and every later one.              *)
PurgeCommit ==
  /\ purge.pc = "commit"
  /\ IF Dependents(purge.batch)
     THEN purge' = [purge EXCEPT !.pc = "refused"] /\ UNCHANGED <<member, owned, welcomed>>
     ELSE /\ member' = [u \in Users |-> IF u \in purge.batch THEN NoRow ELSE member[u]]
          /\ owned' = [t \in Tables |-> owned[t] \ purge.batch]
          /\ welcomed' = welcomed \ purge.batch
          /\ \/ /\ purge.round < MaxIterations
                /\ purge' = [purge EXCEPT !.pc = "select", !.round = @ + 1, !.batch = {}]
             \/ /\ purge.round >= MaxIterations \/ "lost" \in Faults
                /\ purge' = PurgeIdle
  /\ UNCHANGED <<PurgeRest, spent>>

PurgeFails ==
  /\ "refused" \in Faults /\ purge.pc \in {"select", "delete", "commit"} /\ Spend
  /\ purge' = PurgeIdle
  /\ UNCHANGED <<PurgeRest, member, owned, welcomed>>

-----------------------------------------------------------------------------
(* A payment to u by another feature: its balance row, then the ledger row   *)
(* that refers to the member.                                                *)

PayerRest == <<inChat, news, member, group, private, scan, purge, now, welcomed,
               doubt>>

PayBalance(u) ==
  /\ payer.pc = "idle" /\ Spend
  /\ LET missing == u \notin owned["balances"]
     IN /\ missing => Known(u) /\ u \notin PurgeLocks
        /\ purge.pc = "commit" => u \notin purge.batch
        /\ payer' = [pc |-> "ledger", user |-> u, shared |-> missing]
  /\ UNCHANGED <<PayerRest, owned>>

PayLedger ==
  /\ payer.pc = "ledger" /\ payer.user \notin PurgeLocks
  /\ payer' = IF Known(payer.user)
              THEN [payer EXCEPT !.pc = "commit", !.shared = TRUE] ELSE PayerIdle
  /\ UNCHANGED <<PayerRest, owned, spent>>

PayCommit ==
  /\ payer.pc = "commit"
  /\ owned' = [t \in Tables |-> IF t \in {"balances", "transactions"}
                                THEN owned[t] \cup {payer.user} ELSE owned[t]]
  /\ payer' = PayerIdle
  /\ UNCHANGED <<PayerRest, spent>>

(* The purge waits for the balance row and the payment for the member row:   *)
(* PostgreSQL ends one of the two transactions.                              *)
DeadlockVictim ==
  /\ purge.pc = "delete" /\ payer.pc = "ledger" /\ payer.user \in purge.batch
  /\ \/ purge' = PurgeIdle /\ UNCHANGED payer
     \/ payer' = PayerIdle /\ UNCHANGED purge
  /\ UNCHANGED <<inChat, news, member, owned, group, private, scan, now, spent,
                 welcomed, doubt>>

-----------------------------------------------------------------------------
TimePasses ==
  /\ now < Horizon /\ now' = now + 1
  /\ UNCHANGED <<inChat, news, member, owned, group, private, scan, purge, payer,
                 spent, welcomed, doubt>>

(* The process ends: transactions roll back, the update in hand and those in *)
(* the channel are lost, the next start reads on behind them.                *)
Crash ==
  /\ "crash" \in Faults /\ Spend
  /\ \E k \in 0..Len(news) :
       /\ news' = SubSeq(news, k + 1, Len(news))
       /\ doubt' = doubt \cup {news[i].user : i \in 1..k}
                         \cup IF group.pc \in {"upsert", "leave", "seen"}
                              THEN {group.user} ELSE {}
  /\ group' = GroupIdle /\ private' = PrivateIdle /\ scan' = ScanIdle
  /\ purge' = PurgeIdle /\ payer' = PayerIdle
  /\ UNCHANGED <<inChat, member, owned, now, welcomed>>

Telegram == \E u \in Users :
  Join(u) \/ Leave(u) \/ \E what \in {"promoted", "banned", "message"} : Touch(u, what)

Group == \/ \E i \in 1..Len(news) : TakeUpdate(i)
         \/ MemberActive \/ MemberLeft \/ MemberSeen \/ HandleNewMember
         \/ \E t \in {"balances", "streaks", "karma"} : CreateRow(t)
Private == \E u \in Users : AskAccess(u) \/ PrivateSeen
Scan == ScanBegins \/ (\E u \in Users : ScanAsks(u)) \/ ScanWrites
Purge == PurgeTick \/ PurgeSelect \/ PurgeDelete \/ PurgeCommit
Payment == (\E u \in Users : PayBalance(u)) \/ PayLedger \/ PayCommit

Fails == GroupFails \/ PrivateFails \/ ScanFails \/ PurgeFails \/ Crash

Next == Telegram \/ Group \/ Private \/ Scan \/ Purge \/ Payment \/ DeadlockVictim
        \/ TimePasses \/ Fails

(* Workers take up what is queued and finish what they have begun, the timer *)
(* of the purge fires, time passes; PostgreSQL ends every deadlock.  The     *)
(* ticks are an hour apart, so a payment that is blocked by the purge again  *)
(* and again gets on in between: strong fairness.                            *)
Fairness ==
  /\ WF_vars(Group) /\ WF_vars(PrivateSeen) /\ WF_vars(ScanWrites)
  /\ WF_vars(Purge) /\ SF_vars(PayLedger) /\ WF_vars(PayCommit)
  /\ WF_vars(DeadlockVictim) /\ WF_vars(TimePasses)

Spec == Init /\ [][Next]_vars /\ Fairness

-----------------------------------------------------------------------------
(* Rows, queued updates and clocks keep to their domains, and every row of   *)
(* another table refers to a member.                                         *)
TypeOK ==
  /\ inChat \subseteq Users /\ welcomed \subseteq Users /\ doubt \subseteq Users
  /\ \A i \in 1..Len(news) :
       news[i] \in [user : Users, what : Joining \cup Leaving \cup {"message"},
                   late : BOOLEAN]
  /\ member \in [Users -> [status : {"none", "active", "left"}, due : 0..(Horizon + Grace)]]
  /\ owned \in [Tables -> SUBSET {u \in Users : Known(u)}]
  /\ now \in 0..Horizon /\ spent \in 0..Budget

(* A member row goes only if its owner has left and his days of grace are    *)
(* over at that moment: someone who comes back while the purge is at work    *)
(* keeps his row, his balance and his role.                                  *)
PurgeIsDue ==
  [][\A u \in Users : Known(u) /\ member'[u].status = "none" =>
       member[u].status = "left" /\ member[u].due <= now]_vars

(* Someone whose joining was handled without a failed statement has a        *)
(* balance, a streak and a karma row for as long as he has a member row.     *)
WelcomedIsComplete ==
  \A u \in welcomed : Known(u) /\ \A t \in {"balances", "streaks", "karma"} : u \in owned[t]

(* Nothing about u is on its way, and no write about him is in doubt.        *)
Mentions(queue, u) == \E i \in 1..Len(queue) : queue[i].user = u
Settled(u) == u \notin doubt /\ ~Mentions(news, u) /\ ~(group.pc # "idle" /\ group.user = u)
(* Where every update was handled in its turn and no late answer was         *)
(* written, the table says of everybody in it what Telegram says.            *)
AgreesWithChat ==
  \A u \in Users : Settled(u) => /\ member[u].status = "active" => u \in inChat
                                 /\ member[u].status = "left" => u \notin inChat

(* Someone marked left is purged when his time has come, or is active again: *)
(* neither the limit of a batch nor locked rows keep him for ever.           *)
GoneInTheEnd ==
  \A u \in Users : (member[u].status = "left" /\ member[u].due <= Horizon)
                     ~> (member[u].status # "left" \/ member[u].due > Horizon)
=============================================================================
