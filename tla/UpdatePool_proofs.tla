------------------------- MODULE UpdatePool_proofs -------------------------
(***************************************************************************)
(* Proofs of the safety properties of UpdatePool, and that it implements   *)
(* SerialExecutor, for any number of updates, chats, producers and workers *)
(* and any capacity of the channel.                                        *)
(***************************************************************************)
EXTENDS UpdatePool, FiniteSetTheorems, TLAPS

USE PoolAssumption

\* An action that changes nothing a formula mentions keeps it; these are the
\* actions in groups that touch the same state.
Flags == StopPool \/ Stopped \/ Cancel \/ Exit

LEMMA NextCases ==
    ASSUME Next
    PROVE  \/ \E p \in Producers, u \in Updates : Enqueue(p, u)
           \/ \E p \in Producers : Register(p) \/ Recheck(p) \/ Send(p)
                                   \/ GiveUp(p) \/ Leave(p)
           \/ \E w \in Workers : Receive(w) \/ Begin(w) \/ Finish(w) \/ RangeEnds(w)
           \/ Close \/ Flags
BY DEF Next, Produce, Work, Flags
-----------------------------------------------------------------------------
(* Types.                                                                   *)

\* a producer inside Enqueue has an update, and a busy worker has one
ItemsOK ==
    /\ \A p \in Producers : prod[p] # "out" => offer[p] \in Updates
    /\ \A w \in Workers : work[w] \in {"lock", "handle"} => item[w] \in Updates

\* the counter is not negative because it counts the registered producers
CounterOK == producing = Cardinality(Registered)

TypeInv == TypeOK /\ ItemsOK /\ CounterOK

LEMMA RegisteredFinite ==
    IsFiniteSet(Registered) /\ Cardinality(Registered) \in Nat
<1>1. Registered \subseteq Producers
  BY DEF Registered
<1>2. IsFiniteSet(Registered)
  BY <1>1, FS_Subset
<1>3. QED
  BY <1>2, FS_CardinalityType

\* Done is called by a producer that was counted
LEMMA CounterDrops ==
    ASSUME TypeInv, NEW p \in Producers, prod[p] \in {"recheck", "send", "leave"}
    PROVE  /\ producing - 1 \in Nat
           /\ Cardinality(Registered \ {p}) = producing - 1
<1>1. p \in Registered
  BY DEF Registered
<1>2. Cardinality(Registered \ {p}) = Cardinality(Registered) - 1
  BY <1>1, RegisteredFinite, FS_RemoveElement
<1>3. Cardinality(Registered \ {p}) \in Nat
  BY RegisteredFinite, FS_RemoveElement, FS_CardinalityType
<1>4. QED
  BY <1>2, <1>3 DEF TypeInv, CounterOK

LEMMA TypeInit == Init => TypeInv
<1> SUFFICES ASSUME Init PROVE TypeInv
  OBVIOUS
<1>1. Registered = {}
  BY DEF Init, Registered
<1>2. producing = Cardinality(Registered)
  BY <1>1, FS_EmptySet DEF Init
<1>3. /\ sent \in Seq(Updates)
      /\ taken \in 0..Len(sent) /\ Len(sent) - taken <= QueueSize
  BY DEF Init
<1>4. /\ closed \in BOOLEAN /\ stopping \in BOOLEAN /\ broken \in BOOLEAN
      /\ cancelled \in BOOLEAN /\ exited \in BOOLEAN
  BY DEF Init
<1>5. CounterOK /\ ItemsOK
  BY <1>2 DEF Init, ItemsOK, CounterOK
<1>6. TypeOK
  BY <1>3, <1>4 DEF Init, TypeOK
<1>7. QED
  BY <1>5, <1>6 DEF TypeInv

LEMMA TypeNext == TypeInv /\ [Next]_vars => TypeInv'
<1> SUFFICES ASSUME TypeInv, [Next]_vars PROVE TypeInv'
  OBVIOUS
<1> USE DEF TypeInv, channel, producers, workers, process
<1>1. ASSUME NEW p \in Producers, NEW u \in Updates, Enqueue(p, u)
      PROVE  TypeInv'
  <2>1. Registered' = Registered
    BY <1>1 DEF Enqueue, Registered, TypeOK
  <2>2. QED
    BY <1>1, <2>1 DEF Enqueue, TypeOK, ItemsOK, CounterOK
<1>2. ASSUME NEW p \in Producers, Register(p) PROVE TypeInv'
  <2>1. Registered' = Registered \cup {p} /\ p \notin Registered
    BY <1>2 DEF Register, Become, Registered, TypeOK
  <2>2. producing' = Cardinality(Registered')
    <3>1. Cardinality(Registered') = Cardinality(Registered) + 1
      BY <2>1, RegisteredFinite, FS_AddElement
    <3>2. QED
      BY <1>2, <3>1 DEF Register, CounterOK
  <2>3. QED
    BY <1>2, <2>2 DEF Register, Become, TypeOK, ItemsOK, CounterOK
<1>3. ASSUME NEW p \in Producers, Recheck(p) \/ GiveUp(p) PROVE TypeInv'
  <2>1. Registered' = Registered
    BY <1>3 DEF Recheck, GiveUp, Become, Registered, TypeOK
  <2>2. QED
    <3>1. TypeOK'
      <4>1. PICK label \in {"leave", "send"} : Become(p, label)
        BY <1>3 DEF Recheck, GiveUp
      <4>2. UNCHANGED <<channel, called, producing, workers, stopping, stop, broken, process>>
        BY <1>3 DEF Recheck, GiveUp
      <4>3. QED
        BY <4>1, <4>2 DEF Become, TypeOK, channel, workers, process
    <3>2. ItemsOK'
      BY <1>3 DEF Recheck, GiveUp, Become, TypeOK, ItemsOK
    <3>3. CounterOK'
      BY <1>3, <2>1 DEF Recheck, GiveUp, CounterOK
    <3>4. QED
      BY <3>1, <3>2, <3>3
<1>4. ASSUME NEW p \in Producers, Send(p) PROVE TypeInv'
  <2>1. Registered' = Registered
    BY <1>4 DEF Send, Become, Registered, TypeOK
  <2>2. offer[p] \in Updates
    BY <1>4 DEF Send, ItemsOK
  <2>3. prod[p] = "send"
        /\ prod' = [prod EXCEPT ![p] = "leave"] /\ offer' = offer
        /\ UNCHANGED <<called, producing, taken, closed, work, item, chatLocks,
                      begun, stopping, stop, cancelled, exited>>
    BY <1>4 DEF Send, Become
  <2>4. /\ sent' \in Seq(Updates)
        /\ taken' \in 0..Len(sent') /\ Len(sent') - taken' <= QueueSize
    <3>1. CASE sent' = sent
      BY <2>3, <3>1 DEF TypeOK
    <3>2. CASE Len(sent) - taken < QueueSize /\ sent' = Append(sent, offer[p])
      <4>1. sent' \in Seq(Updates) /\ Len(sent') = Len(sent) + 1
        BY <2>2, <3>2 DEF TypeOK
      <4>2. QED
        BY <2>3, <3>2, <4>1 DEF TypeOK
    <3>3. QED
      BY <1>4, <3>1, <3>2 DEF Send
  <2>5. broken' \in BOOLEAN
    BY <1>4 DEF Send, TypeOK
  <2>6. CounterOK' /\ ItemsOK'
    BY <2>1, <2>3 DEF TypeOK, ItemsOK, CounterOK
  <2>7. TypeOK'
    BY <2>3, <2>4, <2>5 DEF TypeOK
  <2>8. QED
    BY <2>6, <2>7
<1>5. ASSUME NEW p \in Producers, Leave(p) PROVE TypeInv'
  <2>1. Registered' = Registered \ {p}
    BY <1>5 DEF Leave, Become, Registered, TypeOK
  <2>2. producing' = Cardinality(Registered') /\ producing' \in Nat
    BY <1>5, <2>1, CounterDrops DEF Leave
  <2>3. QED
    BY <1>5, <2>2 DEF Leave, Become, TypeOK, ItemsOK, CounterOK
<1>6. ASSUME NEW w \in Workers, Receive(w) PROVE TypeInv'
  <2>1. Registered' = Registered
    BY <1>6 DEF Receive, Registered
  <2>2. sent[taken + 1] \in Updates /\ taken' \in 0..Len(sent')
        /\ Len(sent') - taken' <= QueueSize
    BY <1>6 DEF Receive, TypeOK
  <2>3. QED
    BY <1>6, <2>1, <2>2 DEF Receive, TypeOK, ItemsOK, CounterOK
<1>7. ASSUME NEW w \in Workers, Begin(w) PROVE TypeInv'
  <2>1. Registered' = Registered
    BY <1>7 DEF Begin, Registered
  <2>2. item[w] \in Updates
    BY <1>7 DEF Begin, ItemsOK
  <2>3. chatLocks' \in [Chats -> Workers \cup {None}]
    BY <1>7 DEF Begin, TypeOK
  <2>4. QED
    BY <1>7, <2>1, <2>2, <2>3 DEF Begin, TypeOK, ItemsOK, CounterOK
<1>8. ASSUME NEW w \in Workers, Finish(w) \/ RangeEnds(w) PROVE TypeInv'
  <2>1. Registered' = Registered
    BY <1>8 DEF Finish, RangeEnds, Registered
  <2>2. QED
    <3>1. TypeOK'
      <4>1. CASE Finish(w)
        BY <4>1 DEF Finish, TypeOK
      <4>2. CASE RangeEnds(w)
        BY <4>2 DEF RangeEnds, TypeOK
      <4>3. QED
        BY <1>8, <4>1, <4>2
    <3>2. ItemsOK'
      <4>1. CASE Finish(w)
        BY <4>1 DEF Finish, TypeOK, ItemsOK
      <4>2. CASE RangeEnds(w)
        BY <4>2 DEF RangeEnds, TypeOK, ItemsOK
      <4>3. QED
        BY <1>8, <4>1, <4>2
    <3>3. CounterOK'
      BY <1>8, <2>1 DEF Finish, RangeEnds, CounterOK
    <3>4. QED
      BY <3>1, <3>2, <3>3
<1>9. ASSUME Close \/ Flags \/ UNCHANGED vars PROVE TypeInv'
  <2>1. UNCHANGED <<sent, taken, producers, workers>>
    <3>1. CASE Close
      BY <3>1 DEF Close
    <3>2. CASE Flags
      BY <3>2 DEF Flags, StopPool, Stopped, Cancel, Exit, channel
    <3>3. CASE UNCHANGED vars
      BY <3>3 DEF vars, channel
    <3>4. QED
      BY <1>9, <3>1, <3>2, <3>3
  <2>2. /\ closed' \in BOOLEAN /\ stopping' \in BOOLEAN /\ broken' \in BOOLEAN
        /\ cancelled' \in BOOLEAN /\ exited' \in BOOLEAN
        /\ stop' \in {"running", "close", "drain", "stopped"}
    <3>1. CASE Close
      BY <3>1 DEF Close, process, TypeOK
    <3>2. CASE Flags
      BY <3>2 DEF Flags, StopPool, Stopped, Cancel, Exit, process, channel, TypeOK
    <3>3. CASE UNCHANGED vars
      BY <3>3 DEF vars, process, channel, TypeOK
    <3>4. QED
      BY <1>9, <3>1, <3>2, <3>3
  <2>3. TypeOK'
    BY <2>1, <2>2 DEF producers, workers, TypeOK
  <2>4. ItemsOK' /\ CounterOK'
    BY <2>1 DEF producers, workers, ItemsOK, CounterOK, Registered
  <2>5. QED
    BY <2>3, <2>4
<1>10. QED
  BY <1>1, <1>2, <1>3, <1>4, <1>5, <1>6, <1>7, <1>8, <1>9, NextCases

\* Every variable keeps to its domain, and the channel to its capacity.
THEOREM TypeCorrect == Spec => []TypeOK
<1>1. Init => TypeInv
  BY TypeInit
<1>2. TypeInv /\ [Next]_vars => TypeInv'
  BY TypeNext
<1>3. TypeInv => TypeOK
  BY DEF TypeInv
<1>4. QED
  BY <1>1, <1>2, <1>3, PTL DEF Spec
-----------------------------------------------------------------------------
(* Stop and the channel.                                                    *)

LEMMA StopNext == TypeInv /\ StopInv /\ [Next]_vars => StopInv'
<1> SUFFICES ASSUME TypeInv, StopInv, [Next]_vars PROVE StopInv'
  OBVIOUS
<1>1. producing' = Cardinality(Registered')
  BY TypeNext DEF TypeInv, CounterOK
<1>2. ASSUME NEW p \in Producers, NEW u \in Updates, Enqueue(p, u)
      PROVE  StopInv'
  BY <1>1, <1>2
  DEF Enqueue, StopInv, NoSendOnClosedChannel, TypeInv, TypeOK, channel
<1>3. ASSUME NEW p \in Producers, Register(p) \/ GiveUp(p) \/ Leave(p)
      PROVE  StopInv'
  BY <1>1, <1>3
  DEF Register, GiveUp, Leave, Become, StopInv, NoSendOnClosedChannel, TypeInv,
      TypeOK, channel
<1>4. ASSUME NEW p \in Producers, Recheck(p) PROVE StopInv'
  <2>1. closed => stopping
    BY DEF StopInv, TypeInv, TypeOK
  <2>2. QED
    BY <1>1, <1>4, <2>1
    DEF Recheck, Become, StopInv, NoSendOnClosedChannel, TypeInv, TypeOK, channel
<1>5. ASSUME NEW p \in Producers, Send(p) PROVE StopInv'
  <2>1. ~closed
    BY <1>5 DEF Send, StopInv, NoSendOnClosedChannel
  <2>2. QED
    BY <1>1, <1>5, <2>1
    DEF Send, Become, StopInv, NoSendOnClosedChannel, TypeInv, TypeOK, channel
<1>6. ASSUME NEW w \in Workers, Receive(w) \/ Begin(w) \/ Finish(w) \/ RangeEnds(w)
      PROVE  StopInv'
  BY <1>1, <1>6
  DEF Receive, Begin, Finish, RangeEnds, StopInv, NoSendOnClosedChannel,
      channel, producers
<1>7. ASSUME Close PROVE StopInv'
  <2>1. Registered = {}
    <3>1. Cardinality(Registered) = 0
      BY <1>7 DEF Close, StopInv
    <3>2. QED
      BY <3>1, RegisteredFinite, FS_EmptySet
  <2>2. \A p \in Producers : prod[p] # "send"
    BY <2>1 DEF Registered
  <2>3. QED
    BY <1>1, <1>7, <2>2 DEF Close, StopInv, NoSendOnClosedChannel, producers
<1>8. ASSUME Flags \/ UNCHANGED vars PROVE StopInv'
  BY <1>1, <1>8
  DEF Flags, StopPool, Stopped, Cancel, Exit, vars, StopInv,
      NoSendOnClosedChannel, channel, producers
<1>9. QED
  BY <1>2, <1>3, <1>4, <1>5, <1>6, <1>7, <1>8, NextCases

LEMMA StopInit == Init => StopInv
BY TypeInit DEF TypeInv, CounterOK, Init, StopInv, NoSendOnClosedChannel

\* The channel is never closed under a producer that sends.
THEOREM NoSendCorrect == Spec => []NoSendOnClosedChannel
<1>1. Init => TypeInv /\ StopInv
  BY TypeInit, StopInit
<1>2. TypeInv /\ StopInv /\ [Next]_vars => (TypeInv /\ StopInv)'
  BY TypeNext, StopNext
<1>3. StopInv => NoSendOnClosedChannel
  BY DEF StopInv
<1>4. QED
  BY <1>1, <1>2, <1>3, PTL DEF Spec
-----------------------------------------------------------------------------
(* The mutexes of the chats.                                                *)

LEMMA ChatType ==
    ASSUME TypeInv, NEW w \in Workers, work[w] \in {"lock", "handle"}
    PROVE  item[w] \in Updates /\ Chat(w) \in Chats \cup {NoChat}
BY DEF TypeInv, ItemsOK, Chat

LEMMA LockNext == TypeInv /\ LockInv /\ [Next]_vars => LockInv'
<1> SUFFICES ASSUME TypeInv, LockInv, [Next]_vars,
                    NEW v \in Workers, work'[v] = "handle", Chat(v)' # NoChat
             PROVE  chatLocks'[Chat(v)'] = v
  BY DEF LockInv
<1>1. ASSUME NEW w \in Workers, Receive(w)
      PROVE  chatLocks'[Chat(v)'] = v
  <2>1. work[v] = "handle" /\ item'[v] = item[v]
    BY <1>1 DEF Receive, TypeInv, TypeOK
  <2>2. QED
    BY <1>1, <2>1 DEF Receive, LockInv, Chat
<1>2. ASSUME NEW w \in Workers, Begin(w)
      PROVE  chatLocks'[Chat(v)'] = v
  <2>1. Chat(v)' = Chat(v)
    BY <1>2 DEF Begin, Chat
  <2>2. CASE v = w
    <3>1. Chat(w) \in Chats
      BY <1>2, <2>1, <2>2, ChatType DEF Begin
    <3>2. QED
      BY <1>2, <2>1, <2>2, <3>1 DEF Begin, TypeInv, TypeOK
  <2>3. CASE v # w
    <3>1. work[v] = "handle"
      BY <1>2, <2>3 DEF Begin, TypeInv, TypeOK
    <3>2. chatLocks[Chat(v)] = v /\ v # None /\ Chat(v) \in Chats
      BY <2>1, <3>1, ChatType DEF LockInv
    <3>3. CASE Chat(w) = NoChat
      BY <1>2, <2>1, <3>2, <3>3 DEF Begin
    <3>4. CASE Chat(w) # NoChat
      <4>1. chatLocks[Chat(w)] = None
            /\ chatLocks' = [chatLocks EXCEPT ![Chat(w)] = w]
        BY <1>2, <3>4 DEF Begin
      <4>2. Chat(v) # Chat(w)
        BY <3>2, <4>1
      <4>3. QED
        BY <2>1, <3>2, <4>1, <4>2 DEF TypeInv, TypeOK
    <3>5. QED
      BY <3>3, <3>4
  <2>4. QED
    BY <2>2, <2>3
<1>3. ASSUME NEW w \in Workers, Finish(w)
      PROVE  chatLocks'[Chat(v)'] = v
  <2>1. v # w /\ work[v] = "handle" /\ item'[v] = item[v]
    BY <1>3 DEF Finish, TypeInv, TypeOK
  <2>2. Chat(v)' = Chat(v) /\ Chat(v) \in Chats
    BY <2>1, ChatType DEF Chat
  <2>3. QED
    BY <1>3, <2>1, <2>2 DEF Finish, LockInv
<1>4. ASSUME UNCHANGED <<work, item, chatLocks>>
      PROVE  chatLocks'[Chat(v)'] = v
  BY <1>4 DEF LockInv, Chat
<1>5. ASSUME NEW w \in Workers, RangeEnds(w)
      PROVE  chatLocks'[Chat(v)'] = v
  <2>1. work[v] = "handle"
    BY <1>5 DEF RangeEnds, TypeInv, TypeOK
  <2>2. QED
    BY <1>5, <2>1 DEF RangeEnds, LockInv, Chat
<1>6. ASSUME NEW p \in Producers,
             (\E u \in Updates : Enqueue(p, u)) \/ Register(p) \/ Recheck(p)
             \/ Send(p) \/ GiveUp(p) \/ Leave(p)
      PROVE  chatLocks'[Chat(v)'] = v
  BY <1>4, <1>6 DEF Enqueue, Register, Recheck, Send, GiveUp, Leave, workers
<1>7. ASSUME Close \/ Flags \/ UNCHANGED vars
      PROVE  chatLocks'[Chat(v)'] = v
  BY <1>4, <1>7 DEF Close, Flags, StopPool, Stopped, Cancel, Exit, vars, workers
<1>8. QED
  BY <1>1, <1>2, <1>3, <1>5, <1>6, <1>7, NextCases

\* who runs a handler holds the mutex of its chat, and a mutex has one holder
LEMMA LockExcludes == ASSUME LockInv PROVE OneHandlerPerChat
BY DEF LockInv, OneHandlerPerChat

LEMMA LockInit == Init => LockInv
BY DEF Init, LockInv

\* Two updates of one chat are never handled at the same time.
THEOREM OneHandlerCorrect == Spec => []OneHandlerPerChat
<1>1. Init => TypeInv /\ LockInv
  BY TypeInit, LockInit
<1>2. TypeInv /\ LockInv /\ [Next]_vars => (TypeInv /\ LockInv)'
  BY TypeNext, LockNext
<1>3. LockInv => OneHandlerPerChat
  BY LockExcludes
<1>4. QED
  BY <1>1, <1>2, <1>3, PTL DEF Spec

\* a mutex that is held is held by a handler of its chat
HeldBy(c, w) == chatLocks[c] = w => work[w] = "handle" /\ Chat(w) = c

HeldInv == \A c \in Chats, w \in Workers : HeldBy(c, w)

LEMMA HeldInit == Init => HeldInv
BY DEF Init, HeldInv, HeldBy

LEMMA HeldNext == TypeInv /\ HeldInv /\ [Next]_vars => HeldInv'
<1> SUFFICES ASSUME TypeInv, HeldInv, [Next]_vars,
                    NEW c \in Chats, NEW v \in Workers, chatLocks'[c] = v
             PROVE  work'[v] = "handle" /\ Chat(v)' = c
  BY DEF HeldInv, HeldBy
<1>1. HeldBy(c, v)
  BY DEF HeldInv
<1>2. ASSUME chatLocks[c] = v, work'[v] = work[v], item'[v] = item[v]
      PROVE  work'[v] = "handle" /\ Chat(v)' = c
  BY <1>1, <1>2 DEF HeldBy, Chat
<1>3. ASSUME NEW w \in Workers, Receive(w) \/ RangeEnds(w)
      PROVE  work'[v] = "handle" /\ Chat(v)' = c
  <2>1. chatLocks[c] = v /\ work[w] = "receive"
    BY <1>3 DEF Receive, RangeEnds
  <2>2. v # w
    BY <1>1, <2>1 DEF HeldBy
  <2>3. work'[v] = work[v] /\ item'[v] = item[v]
    BY <1>3, <2>2 DEF Receive, RangeEnds, TypeInv, TypeOK
  <2>4. QED
    BY <1>2, <2>1, <2>3
<1>4. ASSUME NEW w \in Workers, Begin(w)
      PROVE  work'[v] = "handle" /\ Chat(v)' = c
  <2>1. work[w] = "lock" /\ work'[w] = "handle" /\ UNCHANGED item
    BY <1>4 DEF Begin, TypeInv, TypeOK
  <2>2. chatLocks[c] = v \/ (v = w /\ c = Chat(w))
    <3>1. CASE Chat(w) = NoChat
      BY <1>4, <3>1 DEF Begin
    <3>2. CASE Chat(w) # NoChat
      <4>1. chatLocks' = [chatLocks EXCEPT ![Chat(w)] = w]
        BY <1>4, <3>2 DEF Begin
      <4>2. QED
        BY <4>1 DEF TypeInv, TypeOK
    <3>3. QED
      BY <3>1, <3>2
  <2>3. CASE chatLocks[c] = v
    <3>1. v # w
      BY <1>1, <2>1, <2>3 DEF HeldBy
    <3>2. work'[v] = work[v]
      BY <1>4, <3>1 DEF Begin, TypeInv, TypeOK
    <3>3. QED
      BY <1>2, <2>1, <2>3, <3>2
  <2>4. CASE v = w /\ c = Chat(w)
    BY <2>1, <2>4 DEF Chat
  <2>5. QED
    BY <2>2, <2>3, <2>4
<1>5. ASSUME NEW w \in Workers, Finish(w)
      PROVE  work'[v] = "handle" /\ Chat(v)' = c
  <2>1. chatLocks[c] = v /\ v # w
    BY <1>5 DEF Finish
  <2>2. work'[v] = work[v] /\ item'[v] = item[v]
    BY <1>5, <2>1 DEF Finish, TypeInv, TypeOK
  <2>3. QED
    BY <1>2, <2>1, <2>2
<1>6. ASSUME UNCHANGED <<work, item, chatLocks>>
      PROVE  work'[v] = "handle" /\ Chat(v)' = c
  BY <1>2, <1>6
<1>7. ASSUME NEW p \in Producers,
             (\E u \in Updates : Enqueue(p, u)) \/ Register(p) \/ Recheck(p)
             \/ Send(p) \/ GiveUp(p) \/ Leave(p)
      PROVE  UNCHANGED <<work, item, chatLocks>>
  BY <1>7 DEF Enqueue, Register, Recheck, Send, GiveUp, Leave, workers
<1>8. ASSUME Close \/ Flags \/ UNCHANGED vars
      PROVE  UNCHANGED <<work, item, chatLocks>>
  BY <1>8 DEF Close, Flags, StopPool, Stopped, Cancel, Exit, vars, workers
<1>9. QED
  BY <1>3, <1>4, <1>5, <1>6, <1>7, <1>8, NextCases
-----------------------------------------------------------------------------
(* An update is in one place at a time.                                     *)

\* what the updates on the channel, with the producers and with the workers
\* say, apart
SentOnce ==
    /\ SentUpdates \subseteq called
    /\ \A i, j \in 1..Len(sent) : sent[i] = sent[j] => i = j

OfferedOnce ==
    /\ \A p \in Offering : offer[p] \in called \ SentUpdates
    /\ \A p, q \in Offering : offer[p] = offer[q] => p = q

HandledOnce ==
    /\ \A w \in Busy : \E i \in 1..taken : item[w] = sent[i]
    /\ \A v, w \in Busy : item[v] = item[w] => v = w
    /\ \A u \in begun : \E i \in 1..taken : u = sent[i]
    /\ \A w \in Busy : item[w] \in begun <=> work[w] = "handle"

LEMMA OnceParts == OnceInv <=> SentOnce /\ OfferedOnce /\ HandledOnce
BY DEF OnceInv, SentOnce, OfferedOnce, HandledOnce

LEMMA OnceInit == Init => OnceInv
<1> SUFFICES ASSUME Init PROVE OnceInv
  OBVIOUS
<1>1. sent = <<>> /\ Len(sent) = 0 /\ SentUpdates = {}
  BY DEF Init, SentUpdates
<1>2. Offering = {} /\ Busy = {}
  BY DEF Init, Offering, Busy
<1>3. QED
  BY <1>1, <1>2 DEF Init, OnceInv

\* nothing new is offered
LEMMA OffersShrink ==
    ASSUME OnceInv, Offering' \subseteq Offering,
           \A p \in Offering' : offer'[p] = offer[p],
           UNCHANGED <<called, sent, taken, work, item, begun>>
    PROVE  OnceInv'
<1>1. SentUpdates' = SentUpdates /\ Busy' = Busy
  BY DEF SentUpdates, Busy
<1>2. QED
  BY <1>1 DEF OnceInv

LEMMA OnceEnqueue ==
    ASSUME TypeInv, OnceInv, NEW p \in Producers, NEW u \in Updates, Enqueue(p, u)
    PROVE  OnceInv'
<1>1. /\ prod[p] = "out" /\ u \notin called /\ called' = called \cup {u}
      /\ UNCHANGED <<sent, taken, work, item, begun>>
  BY DEF Enqueue, channel, workers
<1>2. SentUpdates' = SentUpdates /\ Busy' = Busy
  BY <1>1 DEF SentUpdates, Busy
<1>3. SentOnce' /\ HandledOnce'
  BY <1>1, <1>2, OnceParts DEF SentOnce, HandledOnce
<1>4. \A q \in Offering' : \/ q \in Offering /\ offer'[q] = offer[q]
                           \/ q = p /\ offer'[q] = u
  <2>1. \A q \in Producers \ {p} : prod'[q] = prod[q] /\ offer'[q] = offer[q]
    BY DEF Enqueue, TypeInv, TypeOK
  <2>2. prod'[p] \in {"add", "recheck", "send"} => offer'[p] = u
    BY DEF Enqueue, TypeInv, TypeOK
  <2>3. QED
    BY <2>1, <2>2 DEF Offering
<1>5. SentUpdates \subseteq called /\ OfferedOnce
  BY OnceParts DEF SentOnce
<1>6. OfferedOnce'
  BY <1>1, <1>2, <1>4, <1>5 DEF OfferedOnce
<1>7. QED
  BY <1>3, <1>6, OnceParts DEF OnceInv, SentOnce, OfferedOnce, HandledOnce

LEMMA OnceSend ==
    ASSUME TypeInv, StopInv, OnceInv, NEW p \in Producers, Send(p)
    PROVE  OnceInv'
<1>1. /\ prod[p] = "send" /\ ~closed
      /\ sent' = Append(sent, offer[p])
      /\ prod' = [prod EXCEPT ![p] = "leave"] /\ offer' = offer
      /\ UNCHANGED <<called, taken, work, item, begun>>
  BY DEF Send, Become, StopInv, NoSendOnClosedChannel, workers
<1>2. /\ offer[p] \in Updates /\ sent \in Seq(Updates) /\ Len(sent) \in Nat
      /\ taken \in 0..Len(sent)
  BY <1>1 DEF TypeInv, TypeOK, ItemsOK
<1>3. Len(sent') = Len(sent) + 1 /\ sent'[Len(sent) + 1] = offer[p]
  BY <1>1, <1>2
<1>4. \A i \in 1..Len(sent) : sent'[i] = sent[i]
  BY <1>1, <1>2
<1>5. SentUpdates' = SentUpdates \cup {offer[p]}
  BY <1>2, <1>3, <1>4 DEF SentUpdates
<1>6. Offering' = Offering \ {p} /\ p \in Offering /\ Busy' = Busy
  BY <1>1 DEF Offering, Busy, TypeInv, TypeOK
<1>7. offer[p] \in called \ SentUpdates
  BY <1>6 DEF OnceInv
<1>8. SentOnce'
  <2>1. SentUpdates' \subseteq called'
    BY <1>1, <1>5, <1>7 DEF OnceInv
  <2>2. ASSUME NEW i \in 1..Len(sent'), NEW j \in 1..Len(sent'), sent'[i] = sent'[j]
        PROVE  i = j
    <3>1. CASE i \in 1..Len(sent) /\ j \in 1..Len(sent)
      BY <1>4, <2>2, <3>1 DEF OnceInv
    <3>2. CASE i = Len(sent) + 1 /\ j \in 1..Len(sent)
      BY <1>3, <1>4, <1>7, <2>2, <3>2 DEF SentUpdates
    <3>3. CASE j = Len(sent) + 1 /\ i \in 1..Len(sent)
      BY <1>3, <1>4, <1>7, <2>2, <3>3 DEF SentUpdates
    <3>4. QED
      BY <1>2, <1>3, <3>1, <3>2, <3>3
  <2>3. QED
    BY <2>1, <2>2 DEF SentOnce
<1>9. OfferedOnce'
  BY <1>1, <1>5, <1>6 DEF OnceInv, OfferedOnce
<1>10. HandledOnce'
  <2>1. \A i \in 1..taken : sent'[i] = sent[i]
    <3>1. taken \in 0..Len(sent)
      BY <1>2
    <3>2. \A i \in 1..taken : i \in 1..Len(sent)
      BY <1>3, <3>1
    <3>3. QED
      BY <1>4, <3>2
  <2>2. /\ \A w \in Busy' : \E i \in 1..taken : item[w] = sent'[i]
        /\ \A u \in begun : \E i \in 1..taken : u = sent'[i]
    BY <1>6, <2>1 DEF OnceInv
  <2>3. UNCHANGED <<taken, begun, work, item>>
    BY <1>1
  <2>4. QED
    BY <1>6, <2>2, <2>3, OnceParts DEF HandledOnce
<1>11. QED
  BY <1>8, <1>9, <1>10, OnceParts DEF OnceInv, SentOnce, OfferedOnce, HandledOnce

\* a step of a worker leaves the channel and the producers alone
LEMMA WorkerKeeps ==
    ASSUME OnceInv, UNCHANGED <<sent, producers>>, HandledOnce'
    PROVE  OnceInv'
<1>1. SentUpdates' = SentUpdates /\ Offering' = Offering
  BY DEF SentUpdates, Offering, producers
<1>2. QED
  BY <1>1 DEF OnceInv, HandledOnce, producers

LEMMA OnceReceive ==
    ASSUME TypeInv, OnceInv, NEW w \in Workers, Receive(w)
    PROVE  OnceInv'
<1>1. /\ work[w] = "receive" /\ taken < Len(sent) /\ taken' = taken + 1
      /\ item' = [item EXCEPT ![w] = sent[taken + 1]]
      /\ work' = [work EXCEPT ![w] = "lock"]
      /\ UNCHANGED <<sent, begun>>
  BY DEF Receive
<1>2. taken \in Nat /\ Len(sent) \in Nat
  BY DEF TypeInv, TypeOK
<1>3. Busy' = Busy \cup {w} /\ w \notin Busy
  BY <1>1 DEF Busy, TypeInv, TypeOK
<1>4. \A v \in Busy : item'[v] = item[v] /\ work'[v] = work[v]
  BY <1>1, <1>3 DEF Busy, TypeInv, TypeOK
<1>5. item'[w] = sent[taken + 1] /\ work'[w] = "lock"
  BY <1>1 DEF TypeInv, TypeOK
<1>6. \A i \in 1..taken : sent[i] # sent[taken + 1] /\ i \in 1..taken'
  BY <1>1, <1>2 DEF OnceInv
<1>7. sent[taken + 1] \notin begun /\ \A v \in Busy : item[v] # sent[taken + 1]
  BY <1>6 DEF OnceInv
<1>8. taken + 1 \in 1..taken'
  BY <1>1, <1>2
<1>9. /\ \A v \in Busy' : \E i \in 1..taken' : item'[v] = sent'[i]
      /\ \A u \in begun' : \E i \in 1..taken' : u = sent'[i]
  BY <1>1, <1>3, <1>4, <1>5, <1>6, <1>8 DEF OnceInv
<1>10. /\ \A v, x \in Busy' : item'[v] = item'[x] => v = x
       /\ \A v \in Busy' : item'[v] \in begun' <=> work'[v] = "handle"
  BY <1>1, <1>3, <1>4, <1>5, <1>7 DEF OnceInv
<1>11. HandledOnce'
  BY <1>9, <1>10 DEF HandledOnce
<1>12. QED
  BY <1>11, WorkerKeeps DEF Receive

LEMMA OnceBegin ==
    ASSUME TypeInv, OnceInv, NEW w \in Workers, Begin(w)
    PROVE  OnceInv'
<1>1. /\ work[w] = "lock" /\ work' = [work EXCEPT ![w] = "handle"]
      /\ begun' = begun \cup {item[w]}
      /\ UNCHANGED <<sent, taken, item>>
  BY DEF Begin, channel
<1>2. Busy' = Busy /\ w \in Busy
  BY <1>1 DEF Busy, TypeInv, TypeOK
<1>3. \A v \in Busy : work'[v] = IF v = w THEN "handle" ELSE work[v]
  BY <1>1 DEF Busy, TypeInv, TypeOK
<1>4. HandledOnce'
  BY <1>1, <1>2, <1>3 DEF OnceInv, HandledOnce
<1>5. QED
  BY <1>4, WorkerKeeps DEF Begin, channel

LEMMA OnceFinish ==
    ASSUME TypeInv, OnceInv, NEW w \in Workers, Finish(w) \/ RangeEnds(w)
    PROVE  OnceInv'
<1>1. Busy' \subseteq Busy /\ UNCHANGED <<sent, taken, begun>>
  BY DEF Finish, RangeEnds, Busy, channel, TypeInv, TypeOK
<1>2. \A v \in Busy' : item'[v] = item[v] /\ work'[v] = work[v]
  BY DEF Finish, RangeEnds, Busy, TypeInv, TypeOK
<1>3. HandledOnce'
  BY <1>1, <1>2 DEF OnceInv, HandledOnce
<1>4. QED
  BY <1>3, WorkerKeeps DEF Finish, RangeEnds, channel

LEMMA OnceNext == TypeInv /\ StopInv /\ OnceInv /\ [Next]_vars => OnceInv'
<1> SUFFICES ASSUME TypeInv, StopInv, OnceInv, [Next]_vars PROVE OnceInv'
  OBVIOUS
<1>1. ASSUME NEW p \in Producers, Register(p) \/ Recheck(p) \/ GiveUp(p) \/ Leave(p)
      PROVE  OnceInv'
  <2>1. /\ Offering' \subseteq Offering
        /\ \A q \in Offering' : offer'[q] = offer[q]
    BY <1>1
    DEF Register, Recheck, GiveUp, Leave, Become, Offering, TypeInv, TypeOK
  <2>2. QED
    BY <1>1, <2>1, OffersShrink
    DEF Register, Recheck, GiveUp, Leave, channel, workers
<1>2. ASSUME Close \/ Flags \/ UNCHANGED vars PROVE OnceInv'
  <2>1. UNCHANGED <<called, sent, taken, work, item, begun, prod, offer>>
    BY <1>2
    DEF Close, Flags, StopPool, Stopped, Cancel, Exit, vars, channel, workers,
        producers
  <2>2. Offering' = Offering
    BY <2>1 DEF Offering
  <2>3. QED
    BY <2>1, <2>2, OffersShrink
<1>3. QED
  BY <1>1, <1>2, OnceEnqueue, OnceSend, OnceReceive, OnceBegin, OnceFinish, NextCases
-----------------------------------------------------------------------------
(* Nothing that was taken off the channel is forgotten.                     *)

LEMMA DrainInit == Init => DrainInv
BY DEF Init, DrainInv

LEMMA DrainNext ==
    TypeInv /\ StopInv /\ OnceInv /\ DrainInv /\ [Next]_vars => DrainInv'
<1> SUFFICES ASSUME TypeInv, StopInv, OnceInv, DrainInv, [Next]_vars
             PROVE  DrainInv'
  OBVIOUS
<1>1. ASSUME UNCHANGED <<sent, taken, closed, work, item, begun, stop>>
      PROVE  DrainInv'
  BY <1>1 DEF DrainInv, Busy
<1>2. ASSUME NEW p \in Producers, Send(p) PROVE DrainInv'
  <2>1. /\ ~closed /\ sent' = Append(sent, offer[p])
        /\ UNCHANGED <<taken, closed, work, item, begun, stop>>
    BY <1>2 DEF Send, StopInv, NoSendOnClosedChannel, workers
  <2>2. /\ offer[p] \in Updates /\ sent \in Seq(Updates)
        /\ taken \in 0..Len(sent) /\ Len(sent) \in Nat
    BY <1>2 DEF Send, TypeInv, TypeOK, ItemsOK
  <2>3. \A i \in 1..taken : sent'[i] = sent[i]
    BY <2>1, <2>2
  <2>4. Busy' = Busy
    BY <2>1 DEF Busy
  <2>5. \A w \in Workers : work[w] # "done"
    BY <2>1 DEF DrainInv
  <2>6. ASSUME NEW i \in 1..taken'
        PROVE  sent'[i] \in begun' \/ \E w \in Busy' : item'[w] = sent'[i]
    <3>1. sent[i] \in begun \/ \E w \in Busy : item[w] = sent[i]
      BY <2>1, <2>6 DEF DrainInv
    <3>2. QED
      BY <2>1, <2>3, <2>4, <2>6, <3>1
  <2>7. ~(stop = "stopped")
    BY <2>5, PoolAssumption DEF DrainInv
  <2>8. QED
    BY <2>1, <2>5, <2>6, <2>7 DEF DrainInv
<1>3. ASSUME NEW w \in Workers, Receive(w) PROVE DrainInv'
  <2>1. /\ work[w] = "receive" /\ taken < Len(sent) /\ taken' = taken + 1
        /\ item' = [item EXCEPT ![w] = sent[taken + 1]]
        /\ work' = [work EXCEPT ![w] = "lock"]
        /\ UNCHANGED <<sent, closed, begun, stop>>
    BY <1>3 DEF Receive
  <2>2. taken \in Nat /\ Len(sent) \in Nat
    BY DEF TypeInv, TypeOK
  <2>3. Busy' = Busy \cup {w} /\ item'[w] = sent[taken + 1]
    BY <2>1 DEF Busy, TypeInv, TypeOK
  <2>4. \A v \in Busy : item'[v] = item[v]
    BY <2>1 DEF Busy, TypeInv, TypeOK
  <2>5. \A v \in Workers : work[v] # "done" /\ work'[v] # "done"
    BY <2>1, <2>2 DEF DrainInv, TypeInv, TypeOK
  <2>6. \A i \in 1..taken' : i \in 1..taken \/ i = taken + 1
    BY <2>1, <2>2
  <2>7. stop # "stopped"
    BY <2>5 DEF DrainInv
  <2>8. QED
    BY <2>1, <2>3, <2>4, <2>5, <2>6, <2>7 DEF DrainInv
<1>4. ASSUME NEW w \in Workers, Begin(w) PROVE DrainInv'
  <2>1. /\ work[w] = "lock" /\ work' = [work EXCEPT ![w] = "handle"]
        /\ begun' = begun \cup {item[w]}
        /\ UNCHANGED <<sent, taken, closed, item, stop>>
    BY <1>4 DEF Begin, channel
  <2>2. Busy' = Busy
    BY <2>1 DEF Busy, TypeInv, TypeOK
  <2>3. \A v \in Workers : work'[v] = "done" <=> work[v] = "done"
    BY <2>1 DEF TypeInv, TypeOK
  <2>4. QED
    BY <2>1, <2>2, <2>3 DEF DrainInv
<1>5. ASSUME NEW w \in Workers, Finish(w) PROVE DrainInv'
  <2>1. /\ work[w] = "handle" /\ work' = [work EXCEPT ![w] = "receive"]
        /\ item' = [item EXCEPT ![w] = None]
        /\ UNCHANGED <<sent, taken, closed, begun, stop>>
    BY <1>5 DEF Finish, channel
  <2>2. Busy' = Busy \ {w} /\ w \in Busy
    BY <2>1 DEF Busy, TypeInv, TypeOK
  <2>3. \A v \in Busy' : item'[v] = item[v]
    BY <2>1, <2>2 DEF Busy, TypeInv, TypeOK
  <2>4. item[w] \in begun
    BY <2>1, <2>2 DEF OnceInv
  <2>5. \A v \in Workers : work'[v] = "done" <=> work[v] = "done"
    BY <2>1 DEF TypeInv, TypeOK
  <2>6. QED
    BY <2>1, <2>2, <2>3, <2>4, <2>5 DEF DrainInv
<1>6. ASSUME NEW w \in Workers, RangeEnds(w) PROVE DrainInv'
  <2>1. /\ work[w] = "receive" /\ closed /\ taken = Len(sent)
        /\ work' = [work EXCEPT ![w] = "done"]
        /\ UNCHANGED <<sent, taken, closed, item, begun, stop>>
    BY <1>6 DEF RangeEnds, channel
  <2>2. Busy' = Busy
    BY <2>1 DEF Busy, TypeInv, TypeOK
  <2>3. QED
    BY <2>1, <2>2 DEF DrainInv, TypeInv, TypeOK
<1>7. ASSUME Stopped PROVE DrainInv'
  BY <1>7 DEF Stopped, DrainInv, Busy, channel, workers
<1>8. ASSUME Close \/ StopPool PROVE DrainInv'
  BY <1>8 DEF Close, StopPool, DrainInv, Busy, channel, workers
<1>9. ASSUME Cancel \/ Exit \/ UNCHANGED vars PROVE DrainInv'
  BY <1>1, <1>9 DEF Cancel, Exit, vars, channel, workers
<1>10. ASSUME NEW p \in Producers,
              (\E u \in Updates : Enqueue(p, u)) \/ Register(p) \/ Recheck(p)
              \/ GiveUp(p) \/ Leave(p)
       PROVE  DrainInv'
  BY <1>1, <1>10 DEF Enqueue, Register, Recheck, GiveUp, Leave, channel, workers
<1>11. QED
  BY <1>2, <1>3, <1>4, <1>5, <1>6, <1>7, <1>8, <1>9, <1>10, NextCases DEF Flags

LEMMA DrainIsDrained == ASSUME TypeInv, DrainInv PROVE StopDrains
<1> SUFFICES ASSUME stop = "stopped" PROVE SentUpdates \subseteq Finished
  BY DEF StopDrains
<1>1. \A w \in Workers : work[w] = "done"
  BY DEF DrainInv
<1>2. taken = Len(sent)
  BY <1>1 DEF DrainInv
<1>3. Busy = {} /\ Running = {}
  BY <1>1 DEF Busy, Running
<1>4. SentUpdates \subseteq begun
  BY <1>2, <1>3 DEF DrainInv, SentUpdates
<1>5. QED
  BY <1>3, <1>4 DEF Finished
-----------------------------------------------------------------------------
(* The invariant as a whole.                                                *)

LEMMA PoolInit == Init => TypeInv /\ PoolInv
BY TypeInit, StopInit, OnceInit, LockInit, DrainInit DEF PoolInv

LEMMA PoolNext == TypeInv /\ PoolInv /\ [Next]_vars => (TypeInv /\ PoolInv)'
BY TypeNext, StopNext, OnceNext, LockNext, DrainNext DEF PoolInv

\* When Stop returns, everything that was put on the channel was handled.
THEOREM StopDrainsCorrect == Spec => []StopDrains
<1>1. TypeInv /\ PoolInv => StopDrains
  BY DrainIsDrained DEF PoolInv
<1>2. QED
  BY PoolInit, PoolNext, <1>1, PTL DEF Spec
-----------------------------------------------------------------------------
(* Progress.  A worker that waits for a mutex waits for a running handler, so *)
(* while one worker has not left, one of them can go on; a producer waits for *)
(* nothing but room in the channel.                                          *)

LEMMA WaitsForHandler ==
    ASSUME TypeInv, HeldInv, NEW w \in Workers, work[w] = "lock", ~CanWork(w)
    PROVE  /\ chatLocks[Chat(w)] \in Workers
           /\ work[chatLocks[Chat(w)]] = "handle"
<1>1. Chat(w) \in Chats /\ chatLocks[Chat(w)] # None
  BY ChatType DEF CanWork
<1>2. chatLocks[Chat(w)] \in Workers
  BY <1>1 DEF TypeInv, TypeOK
<1>3. HeldBy(Chat(w), chatLocks[Chat(w)])
  BY <1>1, <1>2 DEF HeldInv
<1>4. QED
  BY <1>2, <1>3 DEF HeldBy

LEMMA SomebodyWorks ==
    ASSUME TypeInv, HeldInv, NEW w \in Workers, work[w] # "done",
           taken < Len(sent) \/ closed
    PROVE  \E v \in Workers : CanWork(v)
<1>1. CASE work[w] \in {"receive", "handle"}
  BY <1>1 DEF CanWork
<1>2. CASE work[w] = "lock" /\ ~CanWork(w)
  <2>1. PICK v \in Workers : work[v] = "handle"
    BY <1>2, WaitsForHandler
  <2>2. QED
    BY <2>1 DEF CanWork
<1>3. QED
  BY <1>1, <1>2 DEF TypeInv, TypeOK

LEMMA Unstuck == ASSUME TypeInv, StopInv, DrainInv, HeldInv PROVE NobodyStuck
<1> DEFINE Working == \E w \in Workers : CanWork(w)
           Producing == \E p \in Producers : CanProduce(p)
<1>1. taken < Len(sent) => Working
  <2> SUFFICES ASSUME taken < Len(sent) PROVE Working
    OBVIOUS
  <2>1. PICK w \in Workers : TRUE
    OBVIOUS
  <2>2. taken # Len(sent)
    BY DEF TypeInv, TypeOK
  <2>3. work[w] # "done"
    BY <2>2 DEF DrainInv
  <2>4. QED
    BY <2>3, SomebodyWorks
<1>2. ASSUME NEW w \in Workers, work[w] = "lock", ~CanWork(w)
      PROVE  work[chatLocks[Chat(w)]] = "handle"
  BY <1>2, WaitsForHandler
<1>3. ASSUME NEW p \in Producers, prod[p] # "out", ~CanProduce(p) PROVE Working
  <2>1. ~(Len(sent) - taken < QueueSize)
    BY <1>3 DEF CanProduce, TypeInv, TypeOK
  <2>2. Len(sent) \in Nat /\ taken \in Nat
    BY DEF TypeInv, TypeOK
  <2>3. taken < Len(sent)
    BY <2>1, <2>2
  <2>4. QED
    BY <1>1, <2>3
<1>4. ASSUME stop = "close", producing # 0, ~Producing PROVE Working
  <2>1. Registered # {}
    <3>1. producing = Cardinality(Registered)
      BY DEF StopInv
    <3>2. QED
      BY <1>4, <3>1, FS_EmptySet
  <2>2. PICK p \in Producers : prod[p] # "out"
    BY <2>1 DEF Registered
  <2>3. QED
    BY <1>3, <1>4, <2>2
<1>5. ASSUME stop = "drain", NEW w \in Workers, work[w] # "done" PROVE Working
  <2>1. closed
    BY <1>5 DEF StopInv
  <2>2. QED
    BY <1>5, <2>1, SomebodyWorks
<1>6. QED
  BY <1>1, <1>2, <1>3, <1>4, <1>5 DEF NobodyStuck

\* At any moment everybody who waits for the channel, for the mutex of a chat or
\* for the end of the pool waits for somebody who can go on (update_pool.go).
THEOREM NobodyStuckCorrect == Spec => []NobodyStuck
<1>1. Init => TypeInv /\ PoolInv /\ HeldInv
  BY PoolInit, HeldInit
<1>2. TypeInv /\ PoolInv /\ HeldInv /\ [Next]_vars => (TypeInv /\ PoolInv /\ HeldInv)'
  BY PoolNext, HeldNext
<1>3. TypeInv /\ PoolInv /\ HeldInv => NobodyStuck
  BY Unstuck DEF PoolInv
<1>4. QED
  BY <1>1, <1>2, <1>3, PTL DEF Spec
-----------------------------------------------------------------------------
(* The pool implements the serial executor.                                 *)

LEMMA RefinementInit == Init => Abstract!Init
<1> SUFFICES ASSUME Init PROVE Abstract!Init
  OBVIOUS
<1>1. Len(sent) = 0 /\ begun = {}
  BY DEF Init
<1>2. QED
  BY <1>1 DEF Abstract!Init, SentUpdates, Finished

\* what the executor sees of the pool
LEMMA AbstractStutter ==
    ASSUME UNCHANGED <<SentUpdates, begun, Running>>
    PROVE  UNCHANGED Abstract!vars
BY DEF Abstract!vars, Finished

LEMMA SendAccepts ==
    ASSUME TypeInv, StopInv, OnceInv, NEW p \in Producers, Send(p)
    PROVE  Abstract!Next
<1>1. /\ prod[p] = "send" /\ ~closed /\ sent' = Append(sent, offer[p])
      /\ UNCHANGED <<work, item, begun>>
  BY DEF Send, StopInv, NoSendOnClosedChannel, workers
<1>2. offer[p] \in Updates /\ sent \in Seq(Updates)
  BY <1>1 DEF TypeInv, TypeOK, ItemsOK
<1>3. /\ Len(sent') = Len(sent) + 1 /\ sent'[Len(sent) + 1] = offer[p]
      /\ \A i \in 1..Len(sent) : sent'[i] = sent[i]
      /\ Len(sent) \in Nat
  BY <1>1, <1>2
<1>4. SentUpdates' = SentUpdates \cup {offer[p]}
  BY <1>3 DEF SentUpdates
<1>5. offer[p] \notin SentUpdates
  BY <1>1 DEF OnceInv, Offering
<1>6. begun' = begun /\ Finished' = Finished
  BY <1>1 DEF Finished, Running
<1>7. Abstract!Accept(offer[p])
  BY <1>4, <1>5, <1>6 DEF Abstract!Accept
<1>8. QED
  BY <1>2, <1>7 DEF Abstract!Next

LEMMA BeginStarts ==
    ASSUME TypeInv, OnceInv, LockInv, NEW w \in Workers, Begin(w)
    PROVE  Abstract!Next
<1>1. /\ work[w] = "lock" /\ work' = [work EXCEPT ![w] = "handle"]
      /\ begun' = begun \cup {item[w]}
      /\ UNCHANGED <<sent, item>>
  BY DEF Begin, channel
<1>2. w \in Busy /\ item[w] \in Updates
  BY <1>1, ChatType DEF Busy
<1>3. item[w] \notin begun
  BY <1>1, <1>2 DEF OnceInv
<1>4. item[w] \in SentUpdates
  <2>1. PICK i \in 1..taken : item[w] = sent[i]
    BY <1>2 DEF OnceInv
  <2>2. i \in 1..Len(sent)
    BY DEF TypeInv, TypeOK
  <2>3. QED
    BY <2>1, <2>2 DEF SentUpdates
<1>5. Running' = Running \cup {item[w]}
  BY <1>1 DEF Running, TypeInv, TypeOK
<1>6. Finished' = Finished
  BY <1>1, <1>3, <1>5 DEF Finished
<1>7. ASSUME NEW u \in begun \ Finished
      PROVE  ChatOf[item[w]] = NoChat \/ ChatOf[u] # ChatOf[item[w]]
  <2>1. PICK v \in Workers : work[v] = "handle" /\ item[v] = u
    BY DEF Finished, Running
  <2>2. CASE Chat(w) = NoChat
    BY <2>2 DEF Chat
  <2>3. CASE Chat(w) # NoChat
    <3>1. chatLocks[Chat(w)] = None
      BY <2>3 DEF Begin
    <3>2. Chat(v) # Chat(w)
      BY <2>1, <2>3, <3>1 DEF LockInv
    <3>3. QED
      BY <2>1, <3>2 DEF Chat
  <2>4. QED
    BY <2>2, <2>3
<1>8. SentUpdates' = SentUpdates
  BY <1>1 DEF SentUpdates
<1>9. Abstract!Start(item[w])
  BY <1>1, <1>3, <1>4, <1>6, <1>7, <1>8 DEF Abstract!Start
<1>10. QED
  BY <1>2, <1>9 DEF Abstract!Next

LEMMA FinishFinishes ==
    ASSUME TypeInv, OnceInv, NEW w \in Workers, Finish(w)
    PROVE  Abstract!Next
<1>1. /\ work[w] = "handle" /\ work' = [work EXCEPT ![w] = "receive"]
      /\ item' = [item EXCEPT ![w] = None]
      /\ UNCHANGED <<sent, begun>>
  BY DEF Finish, channel
<1>2. w \in Busy /\ item[w] \in Updates
  BY <1>1, ChatType DEF Busy
<1>3. item[w] \in begun /\ item[w] \in Running
  BY <1>1, <1>2 DEF OnceInv, Running
<1>4. \A v \in Workers : work[v] = "handle" /\ v # w => item[v] # item[w]
  BY <1>2 DEF OnceInv, Busy
<1>5. \A v \in Workers \ {w} : work'[v] = work[v] /\ item'[v] = item[v]
  BY <1>1 DEF TypeInv, TypeOK
<1>6. work'[w] # "handle"
  BY <1>1 DEF TypeInv, TypeOK
<1>7. Running' = Running \ {item[w]}
  BY <1>4, <1>5, <1>6 DEF Running
<1>8. Finished' = Finished \cup {item[w]}
  BY <1>1, <1>3, <1>7 DEF Finished
<1>9. item[w] \in begun \ Finished /\ SentUpdates' = SentUpdates
  BY <1>1, <1>3 DEF Finished, SentUpdates
<1>10. Abstract!Finish(item[w])
  BY <1>1, <1>8, <1>9 DEF Abstract!Finish
<1>11. QED
  BY <1>2, <1>10 DEF Abstract!Next

LEMMA RefinementNext ==
    TypeInv /\ PoolInv /\ [Next]_vars => [Abstract!Next]_(Abstract!vars)
<1> SUFFICES ASSUME TypeInv, PoolInv, [Next]_vars
             PROVE  Abstract!Next \/ UNCHANGED Abstract!vars
  OBVIOUS
<1> USE DEF PoolInv
<1>1. ASSUME UNCHANGED <<sent, work, item, begun>>
      PROVE  UNCHANGED Abstract!vars
  BY <1>1, AbstractStutter DEF SentUpdates, Running
<1>2. ASSUME NEW w \in Workers, Receive(w) \/ RangeEnds(w)
      PROVE  UNCHANGED Abstract!vars
  <2>1. UNCHANGED <<sent, begun>>
    BY <1>2 DEF Receive, RangeEnds, channel
  <2>2. \A v \in Workers : /\ work'[v] = "handle" <=> work[v] = "handle"
                           /\ work[v] = "handle" => item'[v] = item[v]
    BY <1>2 DEF Receive, RangeEnds, TypeInv, TypeOK
  <2>3. Running' = Running /\ SentUpdates' = SentUpdates
    BY <2>1, <2>2 DEF Running, SentUpdates
  <2>4. QED
    BY <2>1, <2>3, AbstractStutter
<1>3. ASSUME NEW p \in Producers,
             (\E u \in Updates : Enqueue(p, u)) \/ Register(p) \/ Recheck(p)
             \/ GiveUp(p) \/ Leave(p)
      PROVE  UNCHANGED Abstract!vars
  BY <1>1, <1>3 DEF Enqueue, Register, Recheck, GiveUp, Leave, channel, workers
<1>4. ASSUME Close \/ Flags \/ UNCHANGED vars
      PROVE  UNCHANGED Abstract!vars
  BY <1>1, <1>4
  DEF Close, Flags, StopPool, Stopped, Cancel, Exit, vars, channel, workers
<1>5. QED
  BY <1>2, <1>3, <1>4, SendAccepts, BeginStarts, FinishFinishes, NextCases

\* The pool implements the executor the features rely on: at most once, and
\* one at a time for a chat.
THEOREM Refinement == Spec => RefinesSerialExecutor
<1>1. Init => Abstract!Init
  BY RefinementInit
<1>2. TypeInv /\ PoolInv /\ [Next]_vars => [Abstract!Next]_(Abstract!vars)
  BY RefinementNext
<1>3. QED
  BY <1>1, <1>2, PoolInit, PoolNext, PTL DEF Spec, RefinesSerialExecutor, Abstract!Spec
=============================================================================
