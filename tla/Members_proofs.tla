--------------------------- MODULE Members_proofs ---------------------------
(***************************************************************************)
(* The table of members, for any number of people, updates, rounds of the  *)
(* purge and payments, in every order the workers can bring about: nobody  *)
(* is purged who has come back, whoever was welcomed keeps all his rows,   *)
(* and the table agrees with the chat where no write was out of order.     *)
(*                                                                         *)
(* The invariant follows an update from the queue to the row.  The updates *)
(* about one person that were overtaken stand before those that were not,  *)
(* the last one that was not overtaken says where the person is now, and   *)
(* so does the one in the handler's hand when none is left in the queue.   *)
(* For the purge it says that the rows of a locked batch are due; for a    *)
(* payment, that the member row it has share-locked is in no batch.        *)
(***************************************************************************)
EXTENDS Members, SequenceTheorems, TLAPS

USE MembersAssumption

UpdateType == [user : Users, what : Joining \cup Leaving \cup {"message"}, late : BOOLEAN]
Rows == [status : {"none", "active", "left"}, due : 0..(Horizon + Grace)]

\* the statements of the handler before and after his row is written
Writing == {"upsert", "leave", "seen"}
Greeting == {"again", "balances", "streaks", "karma"}
GroupTask == [pc : Writing \cup Greeting, user : Users,
              what : Joining \cup Leaving \cup {"message"}, at : Nat,
              late : BOOLEAN, missed : BOOLEAN]

\* The last update about a person says where he is, unless it was overtaken.
NewsOK ==
  /\ news \in Seq(UpdateType)
  /\ \A i, j \in 1..Len(news) :
       i < j /\ news[i].user = news[j].user /\ news[j].late => news[i].late
  /\ \A i \in 1..Len(news) :
       ~news[i].late /\ (\A j \in 1..Len(news) : j > i => news[j].user # news[i].user) =>
         (news[i].what \in Leaving <=> news[i].user \notin inChat)

Pending(queue, u) == \E i \in 1..Len(queue) : queue[i].user = u /\ ~queue[i].late

GroupOK ==
  /\ group = GroupIdle \/ group \in GroupTask
  /\ group.pc # "idle" => group.at <= now
  /\ group.pc = "upsert" => group.what \in Joining
  /\ group.pc = "leave" => group.what \in Leaving
  /\ group.pc = "seen" => group.what = "message"
  /\ group.pc \in Greeting => member[group.user].status = "active"
  /\ group.pc \in {"streaks", "karma"} /\ ~group.missed => group.user \in owned["balances"]
  /\ group.pc = "karma" /\ ~group.missed => group.user \in owned["streaks"]
  /\ group.pc \in Writing /\ ~group.late /\ ~Pending(news, group.user) =>
       (group.what \in Leaving <=> group.user \notin inChat)

\* The rows of a locked batch are due.
PurgeOK ==
  /\ purge = PurgeIdle \/ purge \in [pc : {"select", "delete", "commit"}, at : Nat,
                                     round : 1..MaxIterations, batch : SUBSET Users]
  /\ purge.pc # "idle" => purge.at <= now
  /\ \A u \in PurgeLocks : member[u].status = "left" /\ member[u].due <= now

\* A member row that a payment has share-locked exists and is in no batch.
PayerOK ==
  /\ payer = PayerIdle \/ payer \in [pc : {"ledger", "commit"}, user : Users, shared : BOOLEAN]
  /\ payer.pc = "commit" => payer.shared
  /\ ShareLocks \cap PurgeLocks = {}
  /\ \A u \in ShareLocks : Known(u)

AskersOK ==
  /\ private = PrivateIdle \/ private \in [pc : {"write"}, user : Users]
  /\ \/ scan = ScanIdle \/ scan \in [pc : {"ask"}, todo : SUBSET Users]
     \/ scan \in [pc : {"write"}, user : Users, todo : SUBSET Users]

\* Nothing about u is in the queue or about to be written, and no write about
\* him is in doubt; unlike Settled it holds while a new member gets his rows.
Trusted(u) == /\ u \notin doubt /\ ~Mentions(news, u)
              /\ ~(group.pc \in Writing /\ group.user = u)
Agrees(u) == /\ member[u].status = "active" => u \in inChat
             /\ member[u].status = "left" => u \notin inChat
TableOK == \A u \in Users : Trusted(u) => Agrees(u)

Inv == /\ TypeOK /\ NewsOK /\ GroupOK /\ PurgeOK /\ PayerOK /\ AskersOK
       /\ WelcomedIsComplete /\ TableOK

-----------------------------------------------------------------------------
(* Queues.                                                                   *)

LEMMA RemoveAtElements ==
  ASSUME NEW S, NEW s \in Seq(S), NEW i \in 1..Len(s)
  PROVE  /\ RemoveAt(s, i) \in Seq(S) /\ Len(RemoveAt(s, i)) = Len(s) - 1
         /\ \A j \in 1..(Len(s) - 1) : RemoveAt(s, i)[j] = IF j < i THEN s[j] ELSE s[j + 1]
<1> DEFINE a == SubSeq(s, 1, i - 1)
           b == SubSeq(s, i + 1, Len(s))
<1>1. a \in Seq(S) /\ Len(a) = i - 1 /\ \A j \in 1..(i - 1) : a[j] = s[j]
  OBVIOUS
<1>2. b \in Seq(S) /\ Len(b) = Len(s) - i /\ \A j \in 1..(Len(s) - i) : b[j] = s[(i + 1) + j - 1]
  <2>1. \A j \in (i + 1)..Len(s) : s[j] \in S
    OBVIOUS
  <2>2. /\ b \in Seq(S)
        /\ Len(b) = IF i + 1 <= Len(s) THEN Len(s) - (i + 1) + 1 ELSE 0
        /\ \A j \in 1..(Len(s) - (i + 1) + 1) : b[j] = s[(i + 1) + j - 1]
    BY <2>1, SubSeqProperties
  <2>3. Len(s) - (i + 1) + 1 = Len(s) - i /\ (i + 1 <= Len(s) \/ Len(s) - i = 0)
    OBVIOUS
  <2>4. QED
    BY <2>2, <2>3
<1>3. RemoveAt(s, i) = a \o b
  BY DEF RemoveAt
<1> HIDE DEF a, b
<1>4. a \o b \in Seq(S) /\ Len(a \o b) = Len(s) - 1
  <2>1. a \o b \in Seq(S) /\ Len(a \o b) = Len(a) + Len(b)
    BY <1>1, <1>2, ConcatProperties
  <2>2. (i - 1) + (Len(s) - i) = Len(s) - 1
    OBVIOUS
  <2>3. QED
    BY <1>1, <1>2, <2>1, <2>2
<1>5. ASSUME NEW j \in 1..(Len(s) - 1)
      PROVE  (a \o b)[j] = IF j < i THEN s[j] ELSE s[j + 1]
  <2>1. CASE j < i
    BY <1>1, <1>2, <2>1, ConcatProperties
  <2>2. CASE ~(j < i)
    <3>1. (a \o b)[j] = b[j - (i - 1)]
      BY <1>1, <1>2, <2>2, ConcatProperties
    <3>2. j - (i - 1) \in 1..(Len(s) - i) /\ (i + 1) + (j - (i - 1)) - 1 = j + 1
      BY <2>2
    <3>3. b[j - (i - 1)] = s[j + 1]
      BY <1>2, <3>2
    <3>4. QED
      BY <2>2, <3>1, <3>3
  <2>3. QED
    BY <2>1, <2>2
<1>6. QED
  BY <1>3, <1>4, <1>5

LEMMA TailElements ==
  ASSUME NEW S, NEW s \in Seq(S), NEW k \in 0..Len(s)
  PROVE  /\ SubSeq(s, k + 1, Len(s)) \in Seq(S)
         /\ Len(SubSeq(s, k + 1, Len(s))) = Len(s) - k
         /\ \A j \in 1..(Len(s) - k) : SubSeq(s, k + 1, Len(s))[j] = s[k + j]
<1>1. \A j \in (k + 1)..Len(s) : s[j] \in S
  OBVIOUS
<1>2. \A j \in 1..(Len(s) - k) : (k + 1) + j - 1 = k + j
  OBVIOUS
<1>3. QED
  BY <1>1, <1>2, SubSeqProperties

-----------------------------------------------------------------------------
LEMMA InvInit == Init => Inv
<1>1. SUFFICES ASSUME Init PROVE Inv
  OBVIOUS
<1>2. TypeOK /\ NewsOK
  BY <1>1 DEF Init, TypeOK, NewsOK, UpdateType, Known, NoRow, ActiveRow, LeftRow
<1>3. GroupOK /\ PurgeOK /\ PayerOK /\ AskersOK
  BY <1>1 DEF Init, GroupOK, PurgeOK, PayerOK, AskersOK, GroupIdle, PurgeIdle, PayerIdle,
              PrivateIdle, ScanIdle, PurgeLocks, ShareLocks, Writing, Greeting
<1>4. WelcomedIsComplete /\ TableOK
  BY <1>1 DEF Init, WelcomedIsComplete, TableOK, Agrees, Tables
<1>5. QED
  BY <1>2, <1>3, <1>4 DEF Inv

-----------------------------------------------------------------------------
(* Updates arrive.                                                           *)

LEMMA PostInv ==
  ASSUME Inv, NEW u \in Users, NEW what \in Joining \cup Leaving \cup {"message"},
         Post(u, what), Spend, inChat' \subseteq Users,
         what \in Leaving <=> u \notin inChat',
         \A v \in Users \ {u} : v \in inChat' <=> v \in inChat,
         UNCHANGED Outside
  PROVE  Inv'
<1> DEFINE n == Len(news)
<1>1. /\ news \in Seq(UpdateType) /\ n \in Nat /\ Update(u, what) \in UpdateType
      /\ Update(u, what).user = u /\ Update(u, what).what = what /\ ~Update(u, what).late
  BY DEF Inv, NewsOK, Update, UpdateType
<1>2. /\ news' \in Seq(UpdateType) /\ Len(news') = n + 1 /\ news'[n + 1] = Update(u, what)
      /\ \A i \in 1..n : news'[i] = news[i]
  BY <1>1 DEF Post
<1>3. TypeOK'
  <2>1. \A i \in 1..Len(news') : news'[i] \in UpdateType
    BY <1>2
  <2>2. spent' \in 0..Budget
    BY DEF Inv, TypeOK, Spend
  <2>3. owned' \in [Tables -> SUBSET {v \in Users : Known(v)'}]
    BY DEF Inv, TypeOK, Outside, Known
  <2>4. /\ welcomed' \subseteq Users /\ doubt' \subseteq Users /\ now' \in 0..Horizon
        /\ member' \in [Users -> [status : {"none", "active", "left"}, due : 0..(Horizon + Grace)]]
    BY DEF Inv, TypeOK, Outside
  <2>5. QED
    BY <2>1, <2>2, <2>3, <2>4 DEF TypeOK, UpdateType
<1>4. NewsOK'
  <2>1. \A i, j \in 1..(n + 1) :
          i < j /\ news'[i].user = news'[j].user /\ news'[j].late => news'[i].late
    <3>1. SUFFICES ASSUME NEW i \in 1..(n + 1), NEW j \in 1..(n + 1), i < j,
                          news'[i].user = news'[j].user, news'[j].late
                   PROVE  news'[i].late
      OBVIOUS
    <3>2. j # n + 1
      BY <1>1, <1>2, <3>1
    <3>3. i \in 1..n /\ j \in 1..n
      BY <1>1, <3>1, <3>2
    <3>4. news'[i] = news[i] /\ news'[j] = news[j]
      BY <1>2, <3>3
    <3>5. QED
      BY <3>1, <3>3, <3>4 DEF Inv, NewsOK
  <2>2. ASSUME NEW i \in 1..(n + 1), ~news'[i].late,
               \A j \in 1..(n + 1) : j > i => news'[j].user # news'[i].user
        PROVE  news'[i].what \in Leaving <=> news'[i].user \notin inChat'
    <3>1. CASE i = n + 1
      BY <1>1, <1>2, <3>1
    <3>2. CASE i # n + 1
      <4>1. i \in 1..n /\ n + 1 > i /\ n + 1 \in 1..(n + 1)
        BY <1>1, <3>2
      <4>2. news[i].user # u /\ news[i].user \in Users /\ news'[i] = news[i]
        <5>1. news'[n + 1].user # news'[i].user /\ news'[n + 1].user = u /\ news'[i] = news[i]
          BY <1>1, <1>2, <2>2, <4>1
        <5>2. news[i] \in UpdateType
          BY <1>1, <4>1
        <5>3. QED
          BY <5>1, <5>2 DEF UpdateType
      <4>3. \A j \in 1..n : j > i => news[j].user # news[i].user
        BY <1>1, <1>2, <2>2, <4>1
      <4>4. news[i].what \in Leaving <=> news[i].user \notin inChat
        BY <2>2, <4>1, <4>2, <4>3 DEF Inv, NewsOK
      <4>5. QED
        BY <4>2, <4>4
    <3>3. QED
      BY <3>1, <3>2
  <2>3. QED
    BY <1>2, <2>1, <2>2 DEF NewsOK
<1>5. \A v : v = u \/ Pending(news, v) => Pending(news', v)
  BY <1>1, <1>2 DEF Pending
<1>6. \A v : v = u \/ Mentions(news, v) => Mentions(news', v)
  BY <1>1, <1>2 DEF Mentions
<1>7. GroupOK'
  <2>1. group.pc \in Writing => group.user \in Users
    BY DEF Inv, GroupOK, GroupTask, GroupIdle, Writing
  <2>2. group.pc \in Writing /\ ~group.late /\ ~Pending(news', group.user) =>
          (group.what \in Leaving <=> group.user \notin inChat')
    BY <1>5, <2>1 DEF Inv, GroupOK
  <2>3. QED
    BY <2>2 DEF Inv, GroupOK, Outside
<1>8. PurgeOK' /\ PayerOK' /\ AskersOK' /\ WelcomedIsComplete'
  BY DEF Inv, PurgeOK, PayerOK, AskersOK, WelcomedIsComplete, Outside, PurgeLocks, ShareLocks, Known
<1>9. TableOK'
  BY <1>6 DEF Inv, TableOK, Trusted, Agrees, Outside
<1>10. QED
  BY <1>3, <1>4, <1>7, <1>8, <1>9 DEF Inv

LEMMA TelegramInv == ASSUME Inv, Telegram PROVE Inv'
<1>1. PICK u \in Users :
        Join(u) \/ Leave(u) \/ \E what \in {"promoted", "banned", "message"} : Touch(u, what)
  BY DEF Telegram
<1>2. inChat \subseteq Users
  BY DEF Inv, TypeOK
<1>3. CASE Join(u)
  BY <1>2, <1>3, PostInv DEF Join, Joining, Leaving
<1>4. CASE Leave(u)
  BY <1>2, <1>4, PostInv DEF Leave, Joining, Leaving
<1>5. ASSUME NEW what \in {"promoted", "banned", "message"}, Touch(u, what)
      PROVE  Inv'
  BY <1>2, <1>5, PostInv DEF Touch, Joining, Leaving
<1>6. QED
  BY <1>1, <1>3, <1>4, <1>5

\* Taking up an update removes it and marks those it has overtaken.
LEMMA TakeUpdateInv ==
  ASSUME Inv, NEW i \in 1..Len(news), TakeUpdate(i)
  PROVE  Inv'
<1> DEFINE n == Len(news)
           up == news[i]
           old(j) == IF j < i THEN j ELSE j + 1
<1>1. /\ news \in Seq(UpdateType) /\ n \in Nat /\ i \in 1..n /\ up \in UpdateType
      /\ now \in Nat /\ group.pc = "idle"
  BY DEF Inv, NewsOK, TakeUpdate, TypeOK
<1>2. /\ Overtaken(i) \in Seq(UpdateType) /\ Len(Overtaken(i)) = n
      /\ \A j \in 1..n : /\ Overtaken(i)[j].user = news[j].user
                         /\ Overtaken(i)[j].what = news[j].what
                         /\ Overtaken(i)[j].late <=>
                              news[j].late \/ (j < i /\ news[j].user = up.user)
  <2>1. ASSUME NEW j \in 1..n
        PROVE  /\ Overtaken(i)[j] \in UpdateType
               /\ Overtaken(i)[j].user = news[j].user /\ Overtaken(i)[j].what = news[j].what
               /\ Overtaken(i)[j].late <=> news[j].late \/ (j < i /\ news[j].user = up.user)
    <3>1. news[j] \in UpdateType
      BY <1>1
    <3>2. Overtaken(i)[j] = IF j < i /\ news[j].user = up.user
                            THEN [news[j] EXCEPT !.late = TRUE] ELSE news[j]
      BY DEF Overtaken
    <3>3. QED
      BY <3>1, <3>2 DEF UpdateType
  <2>2. Overtaken(i) = [j \in 1..n |-> Overtaken(i)[j]]
    BY DEF Overtaken
  <2>3. Overtaken(i) \in Seq(UpdateType) /\ Len(Overtaken(i)) = n
    BY <1>1, <2>1, <2>2
  <2>4. QED
    BY <2>1, <2>3
<1>3. news' = RemoveAt(Overtaken(i), i)
  BY DEF TakeUpdate
<1>4. /\ news' \in Seq(UpdateType) /\ Len(news') = n - 1
      /\ \A j \in 1..(n - 1) : news'[j] = Overtaken(i)[old(j)]
  <2> DEFINE s == Overtaken(i)
  <2>1. s \in Seq(UpdateType) /\ i \in 1..Len(s) /\ Len(s) = n /\ news' = RemoveAt(s, i)
    BY <1>1, <1>2, <1>3
  <2> HIDE DEF s
  <2>2. /\ RemoveAt(s, i) \in Seq(UpdateType) /\ Len(RemoveAt(s, i)) = Len(s) - 1
        /\ \A j \in 1..(Len(s) - 1) : RemoveAt(s, i)[j] = IF j < i THEN s[j] ELSE s[j + 1]
    BY <2>1, RemoveAtElements
  <2>3. QED
    BY <2>1, <2>2 DEF s
<1>5. \A j \in 1..(n - 1) : /\ old(j) \in 1..n /\ old(j) # i /\ (j < i <=> old(j) < i)
                            /\ \A k \in 1..(n - 1) : j < k <=> old(j) < old(k)
  BY <1>1
<1>6. \A k \in 1..n : k # i => \E j \in 1..(n - 1) : old(j) = k
  <2>1. ASSUME NEW k \in 1..n, k # i
        PROVE  \E j \in 1..(n - 1) : old(j) = k
    <3>1. CASE k < i
      <4>1. k \in 1..(n - 1) /\ old(k) = k
        BY <1>1, <2>1, <3>1
      <4>2. QED
        BY <4>1
    <3>2. CASE ~(k < i)
      <4>1. k - 1 \in 1..(n - 1) /\ old(k - 1) = k
        BY <1>1, <2>1, <3>2
      <4>2. QED
        BY <4>1
    <3>3. QED
      BY <3>1, <3>2
  <2>2. QED
    BY <2>1
<1> HIDE DEF old
<1>7. \A j \in 1..(n - 1) : /\ news'[j].user = news[old(j)].user
                            /\ news'[j].what = news[old(j)].what
                            /\ news'[j].late <=> news[old(j)].late
                                                 \/ (old(j) < i /\ news[old(j)].user = up.user)
  BY <1>2, <1>4, <1>5
<1>8. \A j, k \in 1..n : j < k /\ news[j].user = news[k].user /\ news[k].late => news[j].late
  BY DEF Inv, NewsOK
<1>9. NewsOK'
  <2>1. \A j, k \in 1..(n - 1) :
          j < k /\ news'[j].user = news'[k].user /\ news'[k].late => news'[j].late
    <3>1. SUFFICES ASSUME NEW j \in 1..(n - 1), NEW k \in 1..(n - 1), j < k,
                          news'[j].user = news'[k].user, news'[k].late
                   PROVE  news'[j].late
      OBVIOUS
    <3>2. old(j) < old(k) /\ news[old(j)].user = news[old(k)].user /\ old(j) \in 1..n /\ old(k) \in 1..n
      BY <1>5, <1>7, <3>1
    <3>3. CASE news[old(k)].late
      BY <1>7, <1>8, <3>2, <3>3
    <3>4. CASE old(k) < i /\ news[old(k)].user = up.user
      <4>1. old(j) < i
        BY <1>1, <3>2, <3>4
      <4>2. QED
        BY <1>7, <3>2, <3>4, <4>1
    <3>5. QED
      BY <1>7, <3>1, <3>3, <3>4
  <2>2. ASSUME NEW j \in 1..(n - 1), ~news'[j].late,
               \A k \in 1..(n - 1) : k > j => news'[k].user # news'[j].user
        PROVE  news'[j].what \in Leaving <=> news'[j].user \notin inChat'
    <3>1. ~news[old(j)].late /\ old(j) \in 1..n /\ ~(old(j) < i /\ news[old(j)].user = up.user)
      BY <1>5, <1>7, <2>2
    <3>2. ASSUME NEW k \in 1..n, k > old(j)
          PROVE  news[k].user # news[old(j)].user
      <4>1. CASE k = i
        BY <3>1, <3>2, <4>1
      <4>2. CASE k # i
        <5>1. PICK l \in 1..(n - 1) : old(l) = k
          BY <1>6, <4>2
        <5>2. j < l
          BY <1>5, <3>1, <3>2, <5>1
        <5>3. QED
          BY <1>7, <2>2, <5>1, <5>2
      <4>3. QED
        BY <4>1, <4>2
    <3>3. news[old(j)].what \in Leaving <=> news[old(j)].user \notin inChat
      BY <3>1, <3>2 DEF Inv, NewsOK
    <3>4. QED
      BY <1>7, <3>3 DEF TakeUpdate
  <2>3. QED
    BY <1>4, <2>1, <2>2 DEF NewsOK
<1>10. /\ group' \in GroupTask /\ group'.pc \in Writing /\ group'.user = up.user
       /\ group'.what = up.what /\ group'.at = now /\ group'.late = up.late
       /\ group'.pc = "upsert" => up.what \in Joining
       /\ group'.pc = "leave" => up.what \in Leaving
       /\ group'.pc = "seen" => up.what = "message"
  <2> DEFINE pc == CASE up.what \in Joining -> "upsert"
                     [] up.what \in Leaving -> "leave"
                     [] OTHER -> "seen"
  <2>1. group' = [pc |-> pc, user |-> up.user, what |-> up.what, at |-> now,
                  late |-> up.late, missed |-> FALSE]
    BY DEF TakeUpdate
  <2>2. /\ pc \in Writing /\ (pc = "upsert" => up.what \in Joining)
        /\ pc = "leave" => up.what \in Leaving
        /\ pc = "seen" => up.what = "message"
    BY <1>1 DEF UpdateType, Joining, Leaving, Writing
  <2> HIDE DEF pc
  <2>3. QED
    BY <1>1, <2>1, <2>2 DEF GroupTask, UpdateType
<1>11. GroupOK'
  <2>1. ASSUME ~up.late, ~Pending(news', up.user)
        PROVE  up.what \in Leaving <=> up.user \notin inChat
    <3>1. ASSUME NEW k \in 1..n, k > i, news[k].user = up.user
          PROVE  FALSE
      <4>1. PICK l \in 1..(n - 1) : old(l) = k
        BY <1>1, <1>6, <3>1
      <4>2. ~news[k].late
        BY <1>1, <1>8, <2>1, <3>1
      <4>3. news'[l].user = up.user /\ ~news'[l].late
        BY <1>1, <1>7, <3>1, <4>1, <4>2
      <4>4. QED
        BY <1>4, <2>1, <4>3 DEF Pending
    <3>2. QED
      BY <1>1, <2>1, <3>1 DEF Inv, NewsOK
  <2>2. group'.at <= now' /\ inChat' = inChat
    BY <1>1, <1>10 DEF TakeUpdate
  <2>3. QED
    BY <1>10, <2>1, <2>2 DEF GroupOK, Writing, Greeting
<1>12. TableOK'
  <2>1. ASSUME NEW u \in Users, Trusted(u)'
        PROVE  Agrees(u)'
    <3>1. u # up.user /\ u \notin doubt
      BY <1>10, <2>1 DEF Trusted, TakeUpdate
    <3>2. ASSUME NEW k \in 1..n, news[k].user = u
          PROVE  FALSE
      <4>1. PICK l \in 1..(n - 1) : old(l) = k
        BY <1>6, <3>1, <3>2
      <4>2. news'[l].user = u
        BY <1>7, <3>2, <4>1
      <4>3. QED
        BY <1>4, <2>1, <4>2 DEF Trusted, Mentions
    <3>3. Trusted(u)
      BY <1>1, <3>1, <3>2 DEF Trusted, Mentions, Writing
    <3>4. QED
      BY <3>3 DEF Inv, TableOK, Agrees, TakeUpdate
  <2>2. QED
    BY <2>1 DEF TableOK
<1>13. TypeOK'
  <2>1. \A j \in 1..Len(news') : news'[j] \in UpdateType
    BY <1>4
  <2>2. QED
    BY <2>1 DEF Inv, TypeOK, UpdateType, TakeUpdate, Known
<1>14. PurgeOK' /\ PayerOK' /\ AskersOK' /\ WelcomedIsComplete'
  BY DEF Inv, PurgeOK, PayerOK, AskersOK, WelcomedIsComplete, TakeUpdate, PurgeLocks, ShareLocks, Known
<1>15. QED
  BY <1>9, <1>11, <1>12, <1>13, <1>14 DEF Inv

-----------------------------------------------------------------------------
(* Writes of a member row.                                                   *)

\* A row that is not in the batch of the purge is written, and not deleted.
LEMMA RowWrite ==
  ASSUME Inv, NEW u \in Users, u \notin PurgeLocks, NEW r \in Rows,
         r.status # "none" \/ ~Known(u), member' = [member EXCEPT ![u] = r],
         UNCHANGED <<inChat, news, owned, purge, payer, now>>,
         spent' \in 0..Budget, doubt' \subseteq Users, welcomed' \subseteq Users
  PROVE  /\ TypeOK' /\ NewsOK' /\ PurgeOK' /\ PayerOK'
         /\ \A v : Known(v) => Known(v)'
         /\ member'[u] = r /\ \A v \in Users \ {u} : member'[v] = member[v]
<1>1. member \in [Users -> Rows]
  BY DEF Inv, TypeOK, Rows
<1>2. /\ member' \in [Users -> Rows] /\ member'[u] = r
      /\ \A v \in Users \ {u} : member'[v] = member[v]
      /\ \A v : Known(v) => Known(v)'
  BY <1>1 DEF Known
<1>3. TypeOK'
  <2>1. \A t \in Tables : owned[t] \subseteq {v \in Users : Known(v)}
    BY DEF Inv, TypeOK
  <2>2. owned' \in [Tables -> SUBSET {v \in Users : Known(v)'}]
    BY <1>2, <2>1 DEF Inv, TypeOK
  <2>3. QED
    BY <1>2, <2>2 DEF Inv, TypeOK, Rows
<1>4. PurgeOK'
  <2>1. PurgeLocks' = PurgeLocks /\ PurgeLocks \subseteq Users
    BY DEF Inv, PurgeOK, PurgeLocks, PurgeIdle
  <2>2. QED
    BY <1>2, <2>1 DEF Inv, PurgeOK
<1>5. PayerOK'
  BY <1>2 DEF Inv, PayerOK, ShareLocks, PurgeLocks
<1>6. QED
  BY <1>2, <1>3, <1>4, <1>5 DEF Inv, NewsOK

\* The rows that are written.
LEMMA RowTypes ==
  /\ ActiveRow \in Rows /\ ActiveRow.status = "active" /\ NoRow \in Rows /\ NoRow.status = "none"
  /\ \A at \in 0..Horizon : LeftRow(at) \in Rows /\ LeftRow(at).status = "left"
<1>1. ActiveRow \in Rows /\ ActiveRow.status = "active" /\ NoRow \in Rows /\ NoRow.status = "none"
  BY DEF ActiveRow, NoRow, Rows
<1>2. ASSUME NEW at \in 0..Horizon
      PROVE  LeftRow(at) \in Rows /\ LeftRow(at).status = "left"
  <2>1. at + Grace \in 0..(Horizon + Grace)
    OBVIOUS
  <2>2. QED
    BY <2>1 DEF LeftRow, Rows
<1>3. QED
  BY <1>1, <1>2

\* What the handler holds.
LEMMA GroupBusy ==
  ASSUME Inv, group.pc # "idle"
  PROVE  group \in GroupTask /\ group.user \in Users /\ group.at \in 0..Horizon
BY DEF Inv, GroupOK, GroupIdle, GroupTask, TypeOK

LEMMA WelcomedStays ==
  ASSUME Inv, UNCHANGED <<welcomed, owned>>, \A v : Known(v) => Known(v)'
  PROVE  WelcomedIsComplete'
BY DEF Inv, WelcomedIsComplete

\* The row agrees with an update that was handled in its turn; whatever was not
\* is in doubt.
LEMMA SettledAgrees ==
  ASSUME Inv, group.pc \in Writing, group'.pc = "idle" \/ group'.pc \in Greeting,
         UNCHANGED <<inChat, news>>,
         \A v \in Users \ {group.user} : member'[v] = member[v] /\ (v \in doubt => v \in doubt'),
         group.late => group.user \in doubt',
         group.user \in doubt' \/ (member'[group.user].status = "active" /\ group.what \notin Leaving)
           \/ (member'[group.user].status # "active" /\ group.what \in Leaving)
  PROVE  TableOK'
<1>1. SUFFICES ASSUME NEW v \in Users, Trusted(v)' PROVE Agrees(v)'
  BY DEF TableOK
<1>2. v \notin doubt' /\ ~Mentions(news, v)
  BY <1>1 DEF Trusted
<1>3. CASE v = group.user
  <2>1. ~group.late /\ ~Pending(news, v)
    BY <1>2, <1>3 DEF Mentions, Pending
  <2>2. group.what \in Leaving <=> v \notin inChat
    BY <1>3, <2>1 DEF Inv, GroupOK
  <2>3. QED
    BY <1>2, <1>3, <2>2 DEF Agrees
<1>4. CASE v # group.user
  BY <1>1, <1>2, <1>4 DEF Inv, TableOK, Trusted, Agrees
<1>5. QED
  BY <1>3, <1>4

LEMMA MemberActiveInv ==
  ASSUME Inv, MemberActive
  PROVE  Inv'
<1> DEFINE u == group.user
<1>1. /\ group.pc = "upsert" /\ group \in GroupTask /\ u \in Users /\ u \notin PurgeLocks
      /\ group.what \in Joining /\ now \in Nat /\ doubt \subseteq Users
      /\ member' = [member EXCEPT ![u] = ActiveRow] /\ Settle(u)
      /\ UNCHANGED <<GroupRest, owned, spent, welcomed>>
  BY GroupBusy DEF MemberActive, UpsertActiveMember, Inv, GroupOK, TypeOK
<1>2. doubt' \subseteq Users
        /\ UNCHANGED <<inChat, news, owned, purge, payer, now, spent, welcomed, private, scan>>
  BY <1>1 DEF Settle, GroupRest
<1>3. /\ TypeOK' /\ NewsOK' /\ PurgeOK' /\ PayerOK' /\ (\A v : Known(v) => Known(v)')
      /\ member'[u] = ActiveRow /\ \A v \in Users \ {u} : member'[v] = member[v]
  <2>1. ActiveRow \in Rows /\ ActiveRow.status # "none"
    BY RowTypes
  <2>2. spent' \in 0..Budget /\ doubt' \subseteq Users /\ welcomed' \subseteq Users
    BY <1>1, <1>2 DEF Inv, TypeOK
  <2>3. QED
    BY <1>1, <1>2, <2>1, <2>2, RowWrite
<1>4. \/ group' = GroupIdle
      \/ /\ group' \in GroupTask /\ group'.pc = "again" /\ group'.user = u /\ group'.at = group.at
         /\ group'.what = group.what
  BY <1>1 DEF MemberActive, GroupNext, GroupTask, Greeting
<1>5. GroupOK'
  <2>1. group'.pc = "again" => member'[group'.user].status = "active"
    BY <1>3, <1>4, RowTypes DEF GroupIdle
  <2>2. group.at <= now
    BY <1>1 DEF Inv, GroupOK
  <2>3. CASE group' = GroupIdle
    BY <2>3 DEF GroupOK, GroupIdle, Writing, Greeting
  <2>4. CASE group'.pc = "again" /\ group' \in GroupTask /\ group'.at = group.at
    BY <1>2, <2>1, <2>2, <2>4 DEF GroupOK, Writing, Greeting
  <2>5. QED
    BY <1>4, <2>3, <2>4
<1>6. TableOK'
  <2>1. group'.pc \in Greeting \/ group'.pc = "idle"
    BY <1>4 DEF GroupIdle, Greeting
  <2>2. group.what \notin Leaving
    BY <1>1 DEF Joining, Leaving
  <2>3. \A v \in Users \ {u} : v \in doubt => v \in doubt'
    BY <1>1 DEF Settle
  <2>4. group.late => u \in doubt'
    BY <1>1 DEF Settle
  <2>5. QED
    BY <1>1, <1>2, <1>3, <2>1, <2>2, <2>3, <2>4, SettledAgrees, RowTypes DEF Writing
<1>7. WelcomedIsComplete' /\ AskersOK'
  BY <1>2, <1>3, WelcomedStays DEF Inv, AskersOK
<1>8. QED
  BY <1>3, <1>5, <1>6, <1>7 DEF Inv

LEMMA MemberLeftInv ==
  ASSUME Inv, MemberLeft
  PROVE  Inv'
<1> DEFINE u == group.user
           r == IF Known(u) THEN LeftRow(group.at) ELSE NoRow
<1>1. /\ group.pc = "leave" /\ group \in GroupTask /\ u \in Users /\ u \notin PurgeLocks
      /\ group.what \in Leaving /\ doubt \subseteq Users /\ group' = GroupIdle
      /\ member' = [member EXCEPT ![u] = r] /\ Settle(u)
      /\ UNCHANGED <<GroupRest, owned, spent, welcomed>>
  BY GroupBusy DEF MemberLeft, MarkMemberLeft, Inv, GroupOK, TypeOK
<1>2. doubt' \subseteq Users
        /\ UNCHANGED <<inChat, news, owned, purge, payer, now, spent, welcomed, private, scan>>
  BY <1>1 DEF Settle, GroupRest
<1>3. r \in Rows /\ r.status # "active" /\ (r.status # "none" \/ ~Known(u))
  BY <1>1, GroupBusy, RowTypes
<1> HIDE DEF r
<1>4. /\ TypeOK' /\ NewsOK' /\ PurgeOK' /\ PayerOK' /\ (\A v : Known(v) => Known(v)')
      /\ member'[u] = r /\ \A v \in Users \ {u} : member'[v] = member[v]
  <2>1. spent' \in 0..Budget /\ doubt' \subseteq Users /\ welcomed' \subseteq Users
    BY <1>1, <1>2 DEF Inv, TypeOK
  <2>2. QED
    BY <1>1, <1>2, <1>3, <2>1, RowWrite
<1>5. GroupOK'
  BY <1>1 DEF GroupOK, GroupIdle, Writing, Greeting
<1>6. TableOK'
  <2>1. group'.pc = "idle"
    BY <1>1 DEF GroupIdle
  <2>2. /\ \A v \in Users \ {u} : v \in doubt => v \in doubt'
        /\ group.late => u \in doubt'
    BY <1>1 DEF Settle
  <2>3. QED
    BY <1>1, <1>2, <1>3, <1>4, <2>1, <2>2, SettledAgrees DEF Writing
<1>7. WelcomedIsComplete' /\ AskersOK'
  BY <1>2, <1>4, WelcomedStays DEF Inv, AskersOK
<1>8. QED
  BY <1>4, <1>5, <1>6, <1>7 DEF Inv

LEMMA MemberSeenInv ==
  ASSUME Inv, MemberSeen
  PROVE  Inv'
<1> DEFINE u == group.user
<1>1. /\ group.pc = "seen" /\ group \in GroupTask /\ u \in Users /\ u \notin PurgeLocks
      /\ group.what = "message" /\ doubt \subseteq Users /\ group' = GroupIdle
      /\ member' = [member EXCEPT ![u] = ActiveRow]
      /\ doubt' = IF group.late THEN doubt \cup {u} ELSE doubt
      /\ UNCHANGED <<GroupRest, owned, spent, welcomed>>
  BY GroupBusy DEF MemberSeen, EnsureActiveMemberSeen, Inv, GroupOK, TypeOK
<1>2. doubt' \subseteq Users
        /\ UNCHANGED <<inChat, news, owned, purge, payer, now, spent, welcomed, private, scan>>
  BY <1>1 DEF GroupRest
<1>3. /\ TypeOK' /\ NewsOK' /\ PurgeOK' /\ PayerOK' /\ (\A v : Known(v) => Known(v)')
      /\ member'[u] = ActiveRow /\ \A v \in Users \ {u} : member'[v] = member[v]
  <2>1. ActiveRow \in Rows /\ ActiveRow.status # "none"
    BY RowTypes
  <2>2. spent' \in 0..Budget /\ doubt' \subseteq Users /\ welcomed' \subseteq Users
    BY <1>1, <1>2 DEF Inv, TypeOK
  <2>3. QED
    BY <1>1, <1>2, <2>1, <2>2, RowWrite
<1>4. GroupOK'
  BY <1>1 DEF GroupOK, GroupIdle, Writing, Greeting
<1>5. TableOK'
  <2>1. group'.pc = "idle" /\ group.what \notin Leaving
    BY <1>1 DEF GroupIdle, Leaving
  <2>2. QED
    BY <1>1, <1>2, <1>3, <2>1, SettledAgrees, RowTypes DEF Writing
<1>6. WelcomedIsComplete' /\ AskersOK'
  BY <1>2, <1>3, WelcomedStays DEF Inv, AskersOK
<1>7. QED
  BY <1>3, <1>4, <1>5, <1>6 DEF Inv

\* A step that touches neither the queue, nor the chat, nor the table, and
\* lifts no doubt.
LEMMA TableStays ==
  ASSUME Inv, UNCHANGED <<inChat, news, member>>, doubt \subseteq doubt',
         \A u \in Users : group.pc \in Writing /\ group.user = u =>
             u \in doubt' \/ (group'.pc \in Writing /\ group'.user = u)
  PROVE  TableOK'
BY DEF Inv, TableOK, Trusted, Agrees

LEMMA HandleNewMemberInv ==
  ASSUME Inv, HandleNewMember
  PROVE  Inv'
<1> DEFINE u == group.user
<1>1. /\ group.pc = "again" /\ group \in GroupTask /\ u \in Users /\ u \notin PurgeLocks
      /\ group' = [group EXCEPT !.pc = "balances"] /\ group.at <= now
      /\ member[u].status = "active"
      /\ member' = [member EXCEPT ![u] = ActiveRow]
      /\ UNCHANGED <<GroupRest, owned, spent, welcomed, doubt>>
  BY GroupBusy DEF HandleNewMember, UpsertActiveMember, GroupNext, Inv, GroupOK, Greeting
<1>2. UNCHANGED <<inChat, news, owned, purge, payer, now, spent, welcomed, private, scan>>
  BY <1>1 DEF GroupRest
<1>3. /\ TypeOK' /\ NewsOK' /\ PurgeOK' /\ PayerOK' /\ (\A v : Known(v) => Known(v)')
      /\ member'[u] = ActiveRow /\ \A v \in Users \ {u} : member'[v] = member[v]
  <2>1. ActiveRow \in Rows /\ ActiveRow.status # "none"
    BY RowTypes
  <2>2. spent' \in 0..Budget /\ doubt' \subseteq Users /\ welcomed' \subseteq Users
    BY <1>1, <1>2 DEF Inv, TypeOK
  <2>3. QED
    BY <1>1, <1>2, <2>1, <2>2, RowWrite
<1>4. /\ group' \in GroupTask /\ group'.pc = "balances" /\ group'.user = u
      /\ group'.at = group.at
  BY <1>1 DEF GroupTask, Greeting
<1>5. GroupOK'
  BY <1>1, <1>2, <1>3, <1>4, RowTypes DEF GroupOK, Writing, Greeting
<1>6. TableOK'
  BY <1>1, <1>2, <1>3, <1>4, RowTypes DEF Inv, TableOK, Trusted, Agrees, Writing
<1>7. WelcomedIsComplete' /\ AskersOK'
  BY <1>2, <1>3, WelcomedStays DEF Inv, AskersOK
<1>8. QED
  BY <1>3, <1>5, <1>6, <1>7 DEF Inv

\* A handler that greets moves on: to the next table or to its end.
LEMMA CreateRowInv ==
  ASSUME Inv, NEW table \in {"balances", "streaks", "karma"}, CreateRow(table)
  PROVE  Inv'
<1> DEFINE u == group.user
<1>1. /\ group.pc = table /\ group \in GroupTask /\ u \in Users /\ group.at <= now
      /\ member[u].status = "active" /\ Known(u) /\ table \in Tables
      /\ owned \in [Tables -> SUBSET {v \in Users : Known(v)}]
      /\ UNCHANGED <<GroupRest, member, spent, doubt>>
  BY GroupBusy DEF CreateRow, Inv, GroupOK, Greeting, Known, Tables, TypeOK
<1>2. /\ owned' = [owned EXCEPT ![table] = @ \cup {u}]
      /\ IF table = "karma"
         THEN /\ group' = GroupIdle
              /\ welcomed' = IF group.missed THEN welcomed ELSE welcomed \cup {u}
         ELSE /\ group' = [group EXCEPT !.pc = After(table), !.missed = group.missed]
              /\ UNCHANGED welcomed
  <2>1. group.missed \in BOOLEAN
    BY <1>1 DEF GroupTask
  <2>2. (group.missed \/ ~Known(u)) = group.missed
    BY <1>1, <2>1
  <2>3. QED
    BY <1>1, <2>2 DEF CreateRow
<1>3. /\ owned' \in [Tables -> SUBSET {v \in Users : Known(v)}]
      /\ u \in owned'[table] /\ \A t \in Tables : owned[t] \subseteq owned'[t]
  BY <1>1, <1>2
<1>4. UNCHANGED <<inChat, news, member, private, scan, purge, payer, now, spent, doubt>>
  BY <1>1 DEF GroupRest
<1>5. TypeOK'
  BY <1>1, <1>2, <1>3, <1>4 DEF Inv, TypeOK, Known
<1>6. NewsOK' /\ PurgeOK' /\ PayerOK' /\ AskersOK'
  BY <1>4 DEF Inv, NewsOK, PurgeOK, PayerOK, AskersOK, PurgeLocks, ShareLocks, Known
<1>7. TableOK'
  <2>1. group.pc \notin Writing
    BY <1>1 DEF Writing
  <2>2. QED
    BY <1>4, <2>1, TableStays
<1>8. CASE table = "karma"
  <2>1. GroupOK'
    BY <1>2, <1>8 DEF GroupOK, GroupIdle, Writing, Greeting
  <2>2. ~group.missed => u \in owned["balances"] /\ u \in owned["streaks"]
    BY <1>1, <1>8 DEF Inv, GroupOK
  <2>3. WelcomedIsComplete'
    BY <1>1, <1>2, <1>3, <1>4, <1>8, <2>2 DEF Inv, WelcomedIsComplete, Known, Tables
  <2>4. QED
    BY <1>5, <1>6, <1>7, <2>1, <2>3 DEF Inv
<1>9. CASE table # "karma"
  <2>1. /\ group' \in GroupTask /\ group'.pc = (IF table = "balances" THEN "streaks" ELSE "karma")
        /\ group'.user = u /\ group'.at = group.at /\ group'.missed = group.missed
    <3>1. group' = [group EXCEPT !.pc = After(table), !.missed = group.missed]
      BY <1>2, <1>9
    <3>2. After(table) = IF table = "balances" THEN "streaks" ELSE "karma"
      BY DEF After
    <3>3. After(table) \in Greeting
      BY <3>2 DEF Greeting
    <3>4. QED
      BY <1>1, <3>1, <3>2, <3>3 DEF GroupTask
  <2>2. ~group.missed /\ table = "streaks" => u \in owned["balances"]
    BY <1>1 DEF Inv, GroupOK
  <2>3. GroupOK'
    BY <1>1, <1>3, <1>4, <1>9, <2>1, <2>2 DEF GroupOK, Writing, Greeting, Tables
  <2>4. WelcomedIsComplete'
    BY <1>2, <1>3, <1>4, <1>9 DEF Inv, WelcomedIsComplete, Known, Tables
  <2>5. QED
    BY <1>5, <1>6, <1>7, <2>3, <2>4 DEF Inv
<1>10. QED
  BY <1>8, <1>9

LEMMA GroupFailsInv ==
  ASSUME Inv, GroupFails
  PROVE  Inv'
<1> DEFINE u == group.user
<1>1. /\ group \in GroupTask /\ u \in Users /\ group.at <= now
      /\ spent' \in 0..Budget /\ doubt \subseteq Users
      /\ UNCHANGED <<inChat, news, member, private, scan, purge, payer, now, owned, welcomed>>
  BY GroupBusy DEF GroupFails, GroupRest, Spend, Inv, GroupOK, TypeOK
<1>2. \/ /\ group.pc \in Writing /\ group' = GroupIdle /\ doubt' = doubt \cup {u}
      \/ /\ group.pc \in {"again", "balances", "streaks"} /\ doubt' = doubt
         /\ group' = [group EXCEPT !.missed = TRUE,
                        !.pc = IF @ = "again" THEN "balances" ELSE After(@)]
      \/ group.pc = "karma" /\ group' = GroupIdle /\ doubt' = doubt
  BY DEF GroupFails, Writing
<1>3. doubt \subseteq doubt' /\ doubt' \subseteq Users
  BY <1>1, <1>2
<1>4. TypeOK' /\ NewsOK' /\ PurgeOK' /\ PayerOK' /\ AskersOK' /\ WelcomedIsComplete'
  BY <1>1, <1>3 DEF Inv, TypeOK, NewsOK, PurgeOK, PayerOK, AskersOK, WelcomedIsComplete,
                    PurgeLocks, ShareLocks, Known
<1>5. TableOK'
  <2>1. \A v \in Users : group.pc \in Writing /\ group.user = v => v \in doubt'
    BY <1>2 DEF Writing
  <2>2. QED
    BY <1>1, <1>3, <2>1, TableStays
<1>6. GroupOK'
  <2>1. CASE group' = GroupIdle
    BY <2>1 DEF GroupOK, GroupIdle, Writing, Greeting
  <2>2. CASE /\ group.pc \in {"again", "balances", "streaks"}
             /\ group' = [group EXCEPT !.missed = TRUE,
                            !.pc = IF @ = "again" THEN "balances" ELSE After(@)]
    <3>1. /\ group' \in GroupTask /\ group'.pc \in {"balances", "streaks", "karma"}
          /\ group'.missed /\ group'.user = u /\ group'.at = group.at
      BY <1>1, <2>2 DEF GroupTask, After, Greeting
    <3>2. member[u].status = "active"
      BY <2>2 DEF Inv, GroupOK, Greeting
    <3>3. QED
      BY <1>1, <3>1, <3>2 DEF GroupOK, Writing, Greeting
  <2>3. QED
    BY <1>2, <2>1, <2>2
<1>7. QED
  BY <1>4, <1>5, <1>6 DEF Inv

\* Somebody about whom Telegram was asked is written, perhaps too late.
LEMMA LateWrite ==
  ASSUME Inv, NEW u \in Users, u \notin PurgeLocks,
         member' = [member EXCEPT ![u] = ActiveRow], Doubtful(u),
         UNCHANGED <<inChat, news, owned, group, purge, payer, now, spent, welcomed>>,
         AskersOK'
  PROVE  Inv'
<1>1. doubt' \subseteq Users /\ doubt \subseteq doubt' /\ (u \notin inChat => u \in doubt')
  BY DEF Doubtful, Inv, TypeOK
<1>2. /\ TypeOK' /\ NewsOK' /\ PurgeOK' /\ PayerOK' /\ (\A v : Known(v) => Known(v)')
      /\ member'[u] = ActiveRow /\ \A v \in Users \ {u} : member'[v] = member[v]
  BY <1>1, RowWrite, RowTypes DEF Inv, TypeOK
<1>3. GroupOK'
  <2>1. group.pc \in Greeting => member'[group.user].status = "active"
    <3>1. group.pc \in Greeting => group.user \in Users
      BY GroupBusy DEF Greeting
    <3>2. QED
      BY <1>2, <3>1, RowTypes DEF Inv, GroupOK
  <2>2. QED
    BY <2>1 DEF Inv, GroupOK
<1>4. TableOK'
  BY <1>1, <1>2, RowTypes DEF Inv, TableOK, Trusted, Agrees
<1>5. WelcomedIsComplete'
  BY <1>2, WelcomedStays
<1>6. QED
  BY <1>2, <1>3, <1>4, <1>5 DEF Inv

\* Only the askers move.
LEMMA AskersMove ==
  ASSUME Inv, UNCHANGED <<inChat, news, member, owned, group, purge, payer, now, welcomed, doubt>>,
         spent' \in 0..Budget, AskersOK'
  PROVE  Inv'
<1>1. TypeOK' /\ NewsOK' /\ GroupOK' /\ PurgeOK' /\ PayerOK' /\ WelcomedIsComplete'
  BY DEF Inv, TypeOK, NewsOK, GroupOK, PurgeOK, PayerOK, WelcomedIsComplete,
         PurgeLocks, ShareLocks, Known
<1>2. TableOK'
  BY DEF Inv, TableOK, Trusted, Agrees
<1>3. QED
  BY <1>1, <1>2 DEF Inv

LEMMA PrivateInv ==
  ASSUME Inv, Private \/ PrivateFails
  PROVE  Inv'
<1>0. spent \in 0..Budget /\ (Spend => spent' \in 0..Budget)
  BY DEF Inv, TypeOK, Spend
<1>1. ASSUME NEW u \in Users, AskAccess(u)
      PROVE  Inv'
  <2>1. AskersOK'
    BY <1>1 DEF AskAccess, PrivateRest, Inv, AskersOK
  <2>2. QED
    BY <1>0, <1>1, <2>1, AskersMove DEF AskAccess, PrivateRest
<1>2. CASE PrivateSeen
  <2>1. private.user \in Users
    BY <1>2 DEF PrivateSeen, Inv, AskersOK, PrivateIdle
  <2>2. AskersOK'
    BY <1>2 DEF PrivateSeen, PrivateRest, Inv, AskersOK
  <2>3. QED
    BY <1>2, <2>1, <2>2, LateWrite DEF PrivateSeen, EnsureActiveMemberSeen, PrivateRest
<1>3. CASE PrivateFails
  <2>1. AskersOK'
    BY <1>3 DEF PrivateFails, PrivateRest, Inv, AskersOK
  <2>2. QED
    BY <1>0, <1>3, <2>1, AskersMove DEF PrivateFails, PrivateRest
<1>4. QED
  BY <1>1, <1>2, <1>3 DEF Private

LEMMA ScanInv ==
  ASSUME Inv, Scan \/ ScanFails
  PROVE  Inv'
<1>0. spent \in 0..Budget /\ (Spend => spent' \in 0..Budget)
  BY DEF Inv, TypeOK, Spend
<1>1. \A S \in SUBSET Users : ScanGoesOn(S) = ScanIdle
                                 \/ ScanGoesOn(S) \in [pc : {"ask"}, todo : SUBSET Users]
  BY DEF ScanGoesOn
<1>2. CASE ScanBegins
  <2>1. scan' = [pc |-> "ask", todo |-> {u \in Users : member[u].status = "active"}]
           /\ private' = private
    BY <1>2 DEF ScanBegins, ScanRest
  <2>2. AskersOK'
    BY <2>1 DEF Inv, AskersOK
  <2>3. QED
    BY <1>0, <1>2, <2>2, AskersMove DEF ScanBegins, ScanRest
<1>3. ASSUME NEW u \in Users, ScanAsks(u)
      PROVE  Inv'
  <2>1. scan.todo \in SUBSET Users /\ private' = private
    BY <1>3 DEF ScanAsks, ScanRest, Inv, AskersOK, ScanIdle
  <2>2. \/ scan' = [pc |-> "write", user |-> u, todo |-> scan.todo \ {u}]
        \/ scan' = ScanGoesOn(scan.todo \ {u})
    BY <1>3 DEF ScanAsks
  <2>3. AskersOK'
    BY <1>1, <2>1, <2>2 DEF Inv, AskersOK
  <2>4. QED
    BY <1>0, <1>3, <2>3, AskersMove DEF ScanAsks, ScanRest
<1>4. CASE ScanWrites \/ ScanFails
  <2>1. scan.todo \in SUBSET Users /\ scan.user \in Users /\ private' = private
    BY <1>4 DEF ScanWrites, ScanFails, ScanRest, Inv, AskersOK, ScanIdle
  <2>2. AskersOK'
    BY <1>1, <1>4, <2>1 DEF ScanWrites, ScanFails, Inv, AskersOK
  <2>3. CASE ScanWrites
    BY <2>1, <2>2, <2>3, LateWrite DEF ScanWrites, UpsertActiveMember, ScanRest
  <2>4. CASE ScanFails
    BY <1>0, <2>2, <2>4, AskersMove DEF ScanFails, ScanRest
  <2>5. QED
    BY <1>4, <2>3, <2>4
<1>5. QED
  BY <1>2, <1>3, <1>4 DEF Scan

-----------------------------------------------------------------------------
(* The purge and a payment.                                                  *)

PurgeType == [pc : {"select", "delete", "commit"}, at : Nat, round : 1..MaxIterations,
              batch : SUBSET Users]
PayerType == [pc : {"ledger", "commit"}, user : Users, shared : BOOLEAN]

\* Only the purge or the payment moves.
LEMMA LocksMove ==
  ASSUME Inv, UNCHANGED <<inChat, news, member, group, private, scan, now, welcomed, doubt>>,
         spent' \in 0..Budget, PurgeOK', PayerOK',
         owned' \in [Tables -> SUBSET {u \in Users : Known(u)}],
         \A t \in Tables : owned[t] \subseteq owned'[t]
  PROVE  Inv'
<1>1. TypeOK' /\ NewsOK' /\ AskersOK'
  BY DEF Inv, TypeOK, NewsOK, AskersOK, Known
<1>2. GroupOK' /\ WelcomedIsComplete'
  BY DEF Inv, GroupOK, WelcomedIsComplete, Known, Tables
<1>3. TableOK'
  BY DEF Inv, TableOK, Trusted, Agrees
<1>4. QED
  BY <1>1, <1>2, <1>3 DEF Inv

LEMMA OwnedStays ==
  ASSUME Inv, UNCHANGED owned
  PROVE  /\ owned' \in [Tables -> SUBSET {u \in Users : Known(u)}]
         /\ \A t \in Tables : owned[t] \subseteq owned'[t]
BY DEF Inv, TypeOK

\* The purge gives its batch up.
LEMMA PurgeEnds ==
  ASSUME Inv, purge' = PurgeIdle, UNCHANGED <<member, payer>>
  PROVE  PurgeOK' /\ PayerOK'
BY DEF Inv, PurgeOK, PayerOK, PurgeIdle, PurgeLocks, ShareLocks, Known

LEMMA PurgeInv ==
  ASSUME Inv, PurgeTick \/ PurgeSelect \/ PurgeDelete \/ PurgeFails
  PROVE  Inv'
<1>0. /\ UNCHANGED <<inChat, news, member, owned, group, private, scan, payer, now, welcomed, doubt>>
      /\ spent' \in 0..Budget /\ now \in Nat
  <2>1. now \in Nat /\ spent \in 0..Budget
    BY DEF Inv, TypeOK
  <2>2. CASE PurgeTick \/ PurgeSelect \/ PurgeDelete
    BY <2>1, <2>2 DEF PurgeTick, PurgeSelect, PurgeDelete, PurgeRest
  <2>3. CASE PurgeFails
    BY <2>1, <2>3 DEF PurgeFails, PurgeRest, Spend
  <2>4. QED
    BY <2>2, <2>3
<1>1. CASE PurgeTick
  <2>1. purge' = [pc |-> "select", at |-> now, round |-> 1, batch |-> {}]
    BY <1>1 DEF PurgeTick
  <2>2. purge' \in PurgeType /\ purge'.at = now /\ PurgeLocks' = {}
    BY <1>0, <2>1 DEF PurgeType, PurgeLocks
  <2>3. PurgeOK' /\ PayerOK'
    BY <1>0, <2>2 DEF Inv, PurgeOK, PayerOK, ShareLocks, Known, PurgeType
  <2>4. QED
    BY <1>0, <2>3, LocksMove, OwnedStays
<1>2. CASE PurgeSelect
  <2>1. PICK S \in SUBSET Users :
          /\ S \subseteq Due(purge.at) \ ShareLocks
          /\ purge' = IF S = {} THEN PurgeIdle
                      ELSE [purge EXCEPT !.pc = "delete", !.batch = S]
    BY <1>2 DEF PurgeSelect, IsBatch
  <2>2. CASE S = {}
    BY <1>0, <2>1, <2>2, PurgeEnds, LocksMove, OwnedStays
  <2>3. CASE S # {}
    <3>1. purge \in PurgeType /\ purge.at <= now
      <4>1. purge.pc = "select"
        BY <1>2 DEF PurgeSelect
      <4>2. QED
        BY <4>1 DEF Inv, PurgeOK, PurgeIdle, PurgeType
    <3>2. purge' \in PurgeType /\ purge'.at = purge.at /\ PurgeLocks' = S
      BY <2>1, <2>3, <3>1 DEF PurgeType, PurgeLocks
    <3>3. \A u \in S : member[u].status = "left" /\ member[u].due <= now /\ u \notin ShareLocks
      <4>1. \A u \in S : member[u].due \in Nat /\ member[u].status = "left" /\ member[u].due <= purge.at
        BY <2>1 DEF Due, Inv, TypeOK
      <4>2. QED
        BY <1>0, <2>1, <3>1, <4>1 DEF PurgeType
    <3>4. PurgeOK'
      BY <1>0, <3>1, <3>2, <3>3 DEF PurgeOK, PurgeType
    <3>5. PayerOK'
      BY <1>0, <3>2, <3>3 DEF Inv, PayerOK, ShareLocks, Known
    <3>6. QED
      BY <1>0, <3>4, <3>5, LocksMove, OwnedStays
  <2>4. QED
    BY <2>2, <2>3
<1>3. CASE PurgeDelete
  <2>1. purge.pc = "delete" /\ purge' = [purge EXCEPT !.pc = "commit"]
    BY <1>3 DEF PurgeDelete
  <2>2. purge \in PurgeType /\ purge.at <= now
    BY <2>1 DEF Inv, PurgeOK, PurgeIdle, PurgeType
  <2>3. purge' \in PurgeType /\ purge'.at = purge.at /\ PurgeLocks' = PurgeLocks
    BY <2>1, <2>2 DEF PurgeType, PurgeLocks
  <2>4. PurgeOK' /\ PayerOK'
    BY <1>0, <2>2, <2>3 DEF Inv, PurgeOK, PayerOK, ShareLocks, Known, PurgeType
  <2>5. QED
    BY <1>0, <2>4, LocksMove, OwnedStays
<1>4. CASE PurgeFails
  <2>1. purge' = PurgeIdle
    BY <1>4 DEF PurgeFails
  <2>2. QED
    BY <1>0, <2>1, PurgeEnds, LocksMove, OwnedStays
<1>5. QED
  BY <1>1, <1>2, <1>3, <1>4

\* The batch is deleted with all rows that refer to it.
LEMMA PurgeCommitInv ==
  ASSUME Inv, PurgeCommit
  PROVE  Inv'
<1> DEFINE B == purge.batch
<1>1. /\ purge.pc = "commit" /\ purge \in PurgeType /\ purge.at <= now /\ PurgeLocks = B
      /\ B \subseteq Users
      /\ \A u \in B : member[u].status = "left" /\ u \notin ShareLocks
  BY DEF PurgeCommit, Inv, PurgeOK, PayerOK, PurgeIdle, PurgeType, PurgeLocks
<1>2. ~Dependents(B)
  BY DEF Dependents, PurgedTables
<1>3. /\ member' = [u \in Users |-> IF u \in B THEN NoRow ELSE member[u]]
      /\ owned' = [t \in Tables |-> owned[t] \ B]
      /\ welcomed' = welcomed \ B
      /\ \/ /\ purge.round < MaxIterations
            /\ purge' = [purge EXCEPT !.pc = "select", !.round = @ + 1, !.batch = {}]
         \/ purge' = PurgeIdle
      /\ UNCHANGED <<inChat, news, group, private, scan, payer, now, doubt, spent>>
  BY <1>2 DEF PurgeCommit, PurgeRest
<1>4. \A u \in Users : /\ u \in B => ~Known(u)' /\ member'[u].status = "none"
                       /\ u \notin B => member'[u] = member[u] /\ (Known(u)' <=> Known(u))
  BY <1>3, RowTypes DEF Known
<1>5. TypeOK'
  <2>1. member' \in [Users -> Rows]
    BY <1>3, RowTypes DEF Inv, TypeOK, Rows
  <2>2. owned' \in [Tables -> SUBSET {u \in Users : Known(u)'}]
    BY <1>3, <1>4 DEF Inv, TypeOK
  <2>3. QED
    BY <1>3, <2>1, <2>2 DEF Inv, TypeOK, Rows
<1>6. NewsOK' /\ AskersOK'
  BY <1>3 DEF Inv, NewsOK, AskersOK
<1>7. GroupOK'
  <2>1. group.pc \in Greeting => group.user \in Users /\ member[group.user].status = "active"
    BY GroupBusy DEF Inv, GroupOK, Greeting
  <2>2. group.pc \in Greeting => group.user \notin B
    BY <1>1, <2>1
  <2>3. group.pc \in Greeting => member'[group.user].status = "active"
    BY <1>4, <2>1, <2>2
  <2>4. \A t \in Tables, u \in Users : u \in owned[t] /\ u \notin B => u \in owned'[t]
    BY <1>3
  <2>5. QED
    BY <1>3, <2>1, <2>2, <2>3, <2>4 DEF Inv, GroupOK, Greeting, Tables
<1>8. PurgeOK' /\ PurgeLocks' = {}
  <2>1. CASE purge' = PurgeIdle
    BY <2>1 DEF PurgeOK, PurgeIdle, PurgeLocks
  <2>2. CASE /\ purge.round < MaxIterations
             /\ purge' = [purge EXCEPT !.pc = "select", !.round = @ + 1, !.batch = {}]
    <3>1. purge.round + 1 \in 1..MaxIterations
      BY <1>1, <2>2 DEF PurgeType
    <3>2. purge' \in PurgeType /\ purge'.at = purge.at /\ purge'.pc = "select"
      BY <1>1, <2>2, <3>1 DEF PurgeType
    <3>3. QED
      BY <1>1, <1>3, <3>2 DEF PurgeOK, PurgeLocks, PurgeType
  <2>3. QED
    BY <1>3, <2>1, <2>2
<1>9. PayerOK'
  <2>1. ShareLocks' = ShareLocks /\ ShareLocks \subseteq Users
    BY <1>3 DEF ShareLocks, Inv, PayerOK, PayerIdle
  <2>2. \A u \in ShareLocks : Known(u)'
    BY <1>1, <1>4, <2>1 DEF Inv, PayerOK
  <2>3. QED
    BY <1>3, <1>8, <2>1, <2>2 DEF Inv, PayerOK
<1>10. WelcomedIsComplete'
  BY <1>3, <1>4 DEF Inv, WelcomedIsComplete, Tables, TypeOK
<1>11. TableOK'
  BY <1>3, <1>4 DEF Inv, TableOK, Trusted, Agrees
<1>12. QED
  BY <1>5, <1>6, <1>7, <1>8, <1>9, <1>10, <1>11 DEF Inv

LEMMA PaymentInv ==
  ASSUME Inv, Payment
  PROVE  Inv'
<1>0. /\ UNCHANGED <<inChat, news, member, group, private, scan, purge, now, welcomed, doubt>>
      /\ spent' \in 0..Budget
  BY DEF Payment, PayBalance, PayLedger, PayCommit, PayerRest, Spend, Inv, TypeOK
<1>1. PurgeOK'
  BY <1>0 DEF Inv, PurgeOK, PurgeLocks
<1>2. ASSUME NEW u \in Users, PayBalance(u)
      PROVE  Inv'
  <2> DEFINE missing == u \notin owned["balances"]
  <2>1. /\ missing => Known(u) /\ u \notin PurgeLocks
        /\ payer' = [pc |-> "ledger", user |-> u, shared |-> missing] /\ UNCHANGED owned
    BY <1>2 DEF PayBalance
  <2>2. payer' \in PayerType /\ payer'.pc = "ledger" /\ ShareLocks' = IF missing THEN {u} ELSE {}
    BY <2>1 DEF PayerType, ShareLocks
  <2>3. PayerOK'
    BY <1>0, <2>1, <2>2 DEF PayerOK, PayerType, PurgeLocks, Known
  <2>4. QED
    BY <1>0, <1>1, <2>1, <2>3, LocksMove, OwnedStays
<1>3. CASE PayLedger
  <2>1. payer.pc = "ledger" /\ payer \in PayerType /\ payer.user \notin PurgeLocks /\ UNCHANGED owned
    BY <1>3 DEF PayLedger, Inv, PayerOK, PayerIdle, PayerType
  <2>2. CASE Known(payer.user)
    <3>1. payer' = [payer EXCEPT !.pc = "commit", !.shared = TRUE]
      BY <1>3, <2>2 DEF PayLedger
    <3>2. /\ payer' \in PayerType /\ payer'.pc = "commit" /\ payer'.shared
          /\ ShareLocks' = {payer.user}
      BY <2>1, <3>1 DEF PayerType, ShareLocks
    <3>3. PayerOK'
      BY <1>0, <2>1, <2>2, <3>2 DEF PayerOK, PayerType, PurgeLocks, Known
    <3>4. QED
      BY <1>0, <1>1, <2>1, <3>3, LocksMove, OwnedStays
  <2>3. CASE ~Known(payer.user)
    <3>1. payer' = PayerIdle
      BY <1>3, <2>3 DEF PayLedger
    <3>2. PayerOK'
      BY <1>0, <3>1 DEF PayerOK, PayerIdle, ShareLocks
    <3>3. QED
      BY <1>0, <1>1, <2>1, <3>2, LocksMove, OwnedStays
  <2>4. QED
    BY <2>2, <2>3
<1>4. CASE PayCommit
  <2>1. /\ payer.pc = "commit" /\ payer.user \in Users /\ Known(payer.user)
    BY <1>4 DEF PayCommit, Inv, PayerOK, PayerIdle, ShareLocks
  <2>2. /\ payer' = PayerIdle
        /\ owned' = [t \in Tables |-> IF t \in {"balances", "transactions"}
                                      THEN owned[t] \cup {payer.user} ELSE owned[t]]
    BY <1>4 DEF PayCommit
  <2>3. /\ owned' \in [Tables -> SUBSET {u \in Users : Known(u)}]
        /\ \A t \in Tables : owned[t] \subseteq owned'[t]
    BY <2>1, <2>2 DEF Inv, TypeOK
  <2>4. PayerOK'
    BY <2>2 DEF PayerOK, PayerIdle, ShareLocks
  <2>5. QED
    BY <1>0, <1>1, <2>3, <2>4, LocksMove
<1>5. QED
  BY <1>2, <1>3, <1>4 DEF Payment

LEMMA VictimInv ==
  ASSUME Inv, DeadlockVictim
  PROVE  Inv'
<1>0. /\ UNCHANGED <<inChat, news, member, owned, group, private, scan, now, welcomed, doubt>>
      /\ spent' \in 0..Budget
  BY DEF DeadlockVictim, Inv, TypeOK
<1>1. CASE purge' = PurgeIdle /\ UNCHANGED payer
  BY <1>0, <1>1, PurgeEnds, LocksMove, OwnedStays
<1>2. CASE payer' = PayerIdle /\ UNCHANGED purge
  <2>1. PurgeOK' /\ PayerOK'
    BY <1>0, <1>2 DEF Inv, PurgeOK, PayerOK, PayerIdle, ShareLocks, PurgeLocks
  <2>2. QED
    BY <1>0, <2>1, LocksMove, OwnedStays
<1>3. QED
  BY <1>1, <1>2 DEF DeadlockVictim

LEMMA TimePassesInv ==
  ASSUME Inv, TimePasses
  PROVE  Inv'
<1>1. /\ UNCHANGED <<inChat, news, member, owned, group, private, scan, purge, payer, spent, welcomed, doubt>>
      /\ now \in Nat /\ now' = now + 1 /\ now' \in 0..Horizon
  BY DEF TimePasses, Inv, TypeOK
<1>2. TypeOK' /\ NewsOK' /\ PayerOK' /\ AskersOK' /\ WelcomedIsComplete'
  BY <1>1 DEF Inv, TypeOK, NewsOK, PayerOK, AskersOK, WelcomedIsComplete, PurgeLocks, ShareLocks, Known
<1>3. GroupOK'
  <2>1. group.pc # "idle" => group.at <= now'
    BY <1>1, GroupBusy DEF Inv, GroupOK
  <2>2. QED
    BY <1>1, <2>1 DEF Inv, GroupOK
<1>4. PurgeOK'
  <2>1. purge.pc # "idle" => purge.at <= now'
    BY <1>1 DEF Inv, PurgeOK, PurgeIdle
  <2>2. \A u \in PurgeLocks : member[u].status = "left" /\ member[u].due <= now'
    <3>1. \A u \in PurgeLocks : u \in Users /\ member[u].due \in Nat
      BY DEF PurgeLocks, Inv, PurgeOK, PurgeIdle, TypeOK
    <3>2. QED
      BY <1>1, <3>1 DEF Inv, PurgeOK
  <2>3. QED
    BY <1>1, <2>1, <2>2 DEF Inv, PurgeOK, PurgeLocks
<1>5. TableOK'
  BY <1>1 DEF Inv, TableOK, Trusted, Agrees
<1>6. QED
  BY <1>2, <1>3, <1>4, <1>5 DEF Inv

\* Whoever an update that is lost was about is in doubt.
LEMMA CrashInv ==
  ASSUME Inv, Crash
  PROVE  Inv'
<1> DEFINE n == Len(news)
<1>1. PICK k \in 0..n :
        /\ news' = SubSeq(news, k + 1, n)
        /\ doubt' = doubt \cup {news[i].user : i \in 1..k}
                          \cup IF group.pc \in {"upsert", "leave", "seen"}
                               THEN {group.user} ELSE {}
  BY DEF Crash
<1>2. /\ group' = GroupIdle /\ private' = PrivateIdle /\ scan' = ScanIdle
      /\ purge' = PurgeIdle /\ payer' = PayerIdle
      /\ UNCHANGED <<inChat, member, owned, now, welcomed>> /\ spent' \in 0..Budget
  BY DEF Crash, Spend, Inv, TypeOK
<1>3. news \in Seq(UpdateType) /\ n \in Nat
  BY DEF Inv, NewsOK
<1>4. /\ news' \in Seq(UpdateType) /\ Len(news') = n - k
      /\ \A j \in 1..(n - k) : news'[j] = news[k + j]
  <2>1. /\ SubSeq(news, k + 1, n) \in Seq(UpdateType) /\ Len(SubSeq(news, k + 1, n)) = n - k
        /\ \A j \in 1..(n - k) : SubSeq(news, k + 1, n)[j] = news[k + j]
    BY <1>3, TailElements
  <2>2. QED
    BY <1>1, <2>1
<1>5. \A j \in 1..(n - k) : /\ k + j \in 1..n
                            /\ \A i \in 1..(n - k) : j < i <=> k + j < k + i
  BY <1>3
<1>6. NewsOK'
  <2>1. \A i, j \in 1..(n - k) :
          i < j /\ news'[i].user = news'[j].user /\ news'[j].late => news'[i].late
    <3>1. TAKE i, j \in 1..(n - k)
    <3>2. /\ k + i \in 1..n /\ k + j \in 1..n /\ (i < j => k + i < k + j)
          /\ news'[i] = news[k + i] /\ news'[j] = news[k + j]
      BY <1>4, <1>5
    <3>3. k + i < k + j /\ news[k + i].user = news[k + j].user /\ news[k + j].late
          => news[k + i].late
      BY <3>2 DEF Inv, NewsOK
    <3>4. QED
      BY <3>2, <3>3
  <2>2. ASSUME NEW i \in 1..(n - k), ~news'[i].late,
               \A j \in 1..(n - k) : j > i => news'[j].user # news'[i].user
        PROVE  news'[i].what \in Leaving <=> news'[i].user \notin inChat
    <3>1. ASSUME NEW j \in 1..n, j > k + i
          PROVE  news[j].user # news[k + i].user
      <4>1. j - k \in 1..(n - k) /\ j - k > i /\ k + (j - k) = j
        BY <1>3, <3>1
      <4>2. QED
        BY <1>4, <2>2, <4>1
    <3>2. k + i \in 1..n /\ ~news[k + i].late /\ news'[i] = news[k + i]
      BY <1>4, <1>5, <2>2
    <3>3. QED
      BY <3>1, <3>2 DEF Inv, NewsOK
  <2>3. QED
    BY <1>2, <1>4, <2>1, <2>2 DEF NewsOK
<1>7. TypeOK'
  <2>1. \A j \in 1..Len(news') : news'[j] \in UpdateType
    BY <1>4
  <2>2. \A i \in 1..k : news[i].user \in Users
    <3>1. \A i \in 1..k : news[i] \in UpdateType
      BY <1>3
    <3>2. QED
      BY <3>1 DEF UpdateType
  <2>3. group.pc \in {"upsert", "leave", "seen"} => group.user \in Users
    BY GroupBusy
  <2>4. doubt' \subseteq Users
    BY <1>1, <2>2, <2>3 DEF Inv, TypeOK
  <2>5. QED
    BY <1>2, <2>1, <2>4 DEF Inv, TypeOK, UpdateType, Known
<1>8. GroupOK' /\ PurgeOK' /\ PayerOK' /\ AskersOK'
  BY <1>2 DEF GroupOK, PurgeOK, PayerOK, AskersOK, GroupIdle, PurgeIdle, PayerIdle,
              PrivateIdle, ScanIdle, PurgeLocks, ShareLocks, Writing, Greeting
<1>9. WelcomedIsComplete'
  BY <1>2, WelcomedStays DEF Known
<1>10. TableOK'
  <2>1. ASSUME NEW u \in Users, Trusted(u)'
        PROVE  Agrees(u)'
    <3>1. u \notin doubt' /\ ~Mentions(news', u)
      BY <2>1 DEF Trusted
    <3>2. ASSUME NEW i \in 1..n, news[i].user = u
          PROVE  FALSE
      <4>1. CASE i \in 1..k
        BY <1>1, <3>1, <3>2, <4>1
      <4>2. CASE i \notin 1..k
        <5>1. i - k \in 1..(n - k) /\ k + (i - k) = i
          BY <1>3, <4>2
        <5>2. QED
          BY <1>4, <3>1, <3>2, <5>1 DEF Mentions
      <4>3. QED
        BY <4>1, <4>2
    <3>3. Trusted(u)
      BY <1>1, <3>1, <3>2 DEF Trusted, Mentions, Writing
    <3>4. QED
      BY <1>2, <3>3 DEF Inv, TableOK, Agrees
  <2>2. QED
    BY <2>1 DEF TableOK
<1>11. QED
  BY <1>6, <1>7, <1>8, <1>9, <1>10 DEF Inv

-----------------------------------------------------------------------------
(* The theorems.                                                             *)

LEMMA InvNext == ASSUME Inv, [Next]_vars PROVE Inv'
<1>1. CASE Telegram
  BY <1>1, TelegramInv
<1>2. CASE Group
  BY <1>2, TakeUpdateInv, MemberActiveInv, MemberLeftInv, MemberSeenInv, HandleNewMemberInv,
     CreateRowInv DEF Group
<1>3. CASE Private \/ PrivateFails
  BY <1>3, PrivateInv
<1>4. CASE Scan \/ ScanFails
  BY <1>4, ScanInv
<1>5. CASE Purge \/ PurgeFails
  BY <1>5, PurgeInv, PurgeCommitInv DEF Purge
<1>6. CASE Payment \/ DeadlockVictim
  BY <1>6, PaymentInv, VictimInv
<1>7. CASE TimePasses
  BY <1>7, TimePassesInv
<1>8. CASE GroupFails \/ Crash
  BY <1>8, GroupFailsInv, CrashInv
<1>9. CASE UNCHANGED vars
  BY <1>9 DEF vars, Inv, TypeOK, NewsOK, GroupOK, PurgeOK, PayerOK, AskersOK, WelcomedIsComplete,
              TableOK, Trusted, Agrees, PurgeLocks, ShareLocks, Known
<1>10. QED
  BY <1>1, <1>2, <1>3, <1>4, <1>5, <1>6, <1>7, <1>8, <1>9 DEF Next, Fails

LEMMA Invariance == Spec => []Inv
BY InvInit, InvNext, PTL DEF Spec

\* Rows, queued updates and clocks keep to their domains, and every row of
\* another table refers to a member.
THEOREM TypeCorrect == Spec => []TypeOK
<1>1. Inv => TypeOK
  BY DEF Inv
<1>2. QED
  BY <1>1, Invariance, PTL

\* handleNewMembers: someone whose joining was handled without a failed
\* statement keeps his balance, streak and karma rows as long as his member row.
THEOREM WelcomedIsCompleteCorrect == Spec => []WelcomedIsComplete
<1>1. Inv => WelcomedIsComplete
  BY DEF Inv
<1>2. QED
  BY <1>1, Invariance, PTL

\* Where every update was handled in its turn and no late answer was written,
\* the table of members says of everybody in it what Telegram says.
THEOREM AgreesWithChatCorrect == Spec => []AgreesWithChat
<1>1. Inv => AgreesWithChat
  BY DEF Inv, TableOK, Trusted, Agrees, AgreesWithChat, Settled, Writing
<1>2. QED
  BY <1>1, Invariance, PTL

\* PurgeLeftMembers deletes only who has left and whose days of grace are over
\* at that moment.
THEOREM PurgeIsDueCorrect == Spec => PurgeIsDue
<1>1. ASSUME Inv, [Next]_vars, NEW u \in Users, Known(u), member'[u].status = "none"
      PROVE  member[u].status = "left" /\ member[u].due <= now
  <2>1. CASE PurgeCommit
    <3>1. u \in PurgeLocks
      BY <1>1, <2>1 DEF PurgeCommit, PurgeLocks, Known
    <3>2. QED
      BY <1>1, <3>1 DEF Inv, PurgeOK
  <2>2. CASE UNCHANGED member
    BY <1>1, <2>2 DEF Known
  <2>3. ASSUME NEW v, NEW r, r.status # "none" \/ ~Known(v), member' = [member EXCEPT ![v] = r]
        PROVE  FALSE
    BY <1>1, <2>3 DEF Known, Inv, TypeOK
  <2>4. UNCHANGED member \/ PurgeCommit
          \/ \E v : UpsertActiveMember(v) \/ EnsureActiveMemberSeen(v)
                    \/ \E at \in 0..Horizon : MarkMemberLeft(v, at)
    BY <1>1, GroupBusy DEF Next, Telegram, Join, Leave, Touch, Outside, Group, TakeUpdate, MemberActive,
       MemberLeft, MemberSeen, HandleNewMember, CreateRow, Private, AskAccess, PrivateSeen, PrivateRest,
       Scan, ScanBegins, ScanAsks, ScanWrites, ScanRest, Purge, PurgeTick, PurgeSelect, PurgeDelete,
       PurgeRest, Payment, PayBalance, PayLedger, PayCommit, PayerRest, DeadlockVictim, TimePasses,
       Fails, GroupFails, PrivateFails, ScanFails, PurgeFails, Crash, GroupRest, vars
  <2>5. ASSUME NEW v, UpsertActiveMember(v) \/ EnsureActiveMemberSeen(v)
        PROVE  FALSE
    BY <2>3, <2>5, RowTypes DEF UpsertActiveMember, EnsureActiveMemberSeen
  <2>6. ASSUME NEW v, NEW at \in 0..Horizon, MarkMemberLeft(v, at)
        PROVE  FALSE
    BY <2>3, <2>6, RowTypes DEF MarkMemberLeft
  <2>7. QED
    BY <2>1, <2>2, <2>4, <2>5, <2>6
<1>2. Inv /\ [Next]_vars =>
        [\A u \in Users : Known(u) /\ member'[u].status = "none" =>
           member[u].status = "left" /\ member[u].due <= now]_vars
  BY <1>1
<1>3. QED
  BY <1>2, Invariance, PTL DEF Spec, PurgeIsDue
=============================================================================
