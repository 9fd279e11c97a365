--------------------------- MODULE RouteRingProofs ---------------------------
(***************************************************************************)
(* Proofs about RouteRing for every number of slots, readers and           *)
(* connection bits.                                                        *)
(***************************************************************************)
EXTENDS RouteRing, RingArith

\* index_of yields a slot.
LEMMA SlotOfType == \A k \in Nat : SlotOf(k) \in Slots
BY NAssumption, DivMod DEF SlotOf, Slots

\* Every action of the route ring keeps the types of its state.
LEMMA TypeStep == TypeOK /\ PopInv /\ [Next]_vars => TypeOK'
<1> SUFFICES ASSUME TypeOK, PopInv, [Next]_vars PROVE TypeOK'
  OBVIOUS
<1> USE NAssumption, BoundAssumption, SlotOfType DEF TypeOK, Claiming, ring, writer, reader, DropLocals
<1>1. CASE Send
  BY <1>1 DEF Send
<1>2. CASE TryPush
  <2>1. CASE PushLoad BY <2>1 DEF PushLoad
  <2>2. CASE PushFails BY <2>2 DEF PushFails
  <2>3. CASE PushCheck BY <2>3 DEF PushCheck
  <2>4. CASE Claim("cas") BY <2>4 DEF Claim
  <2>5. CASE Retry("cas", "load") BY <2>5 DEF Retry
  <2> QED BY <1>2, <2>1, <2>2, <2>3, <2>4, <2>5 DEF TryPush
<1>3. CASE Fill BY <1>3 DEF Fill
<1>4. CASE Publish BY <1>4 DEF Publish
<1>5. CASE TryAgain BY <1>5 DEF TryAgain
<1>6. CASE GiveUp BY <1>6 DEF GiveUp
<1>7. CASE ForcePush
  <2>1. CASE ForceBegin BY <2>1 DEF ForceBegin
  <2>2. CASE ForceLoad BY <2>2 DEF ForceLoad
  <2>3. CASE ForceCheck BY <2>3 DEF ForceCheck
  <2>4. CASE Kick BY <2>4 DEF Kick
  <2>5. CASE Claim("fcas") BY <2>5 DEF Claim
  <2>6. CASE Retry("fcas", "fload") BY <2>6 DEF Retry
  <2> QED BY <1>7, <2>1, <2>2, <2>3, <2>4, <2>5, <2>6 DEF ForcePush
<1>8. ASSUME NEW r \in Readers,
             Connect(r) \/ ConnectFull(r) \/ Join(r) \/ Disconnect(r) \/ Reading(r)
      PROVE  TypeOK'
  <2>1. CASE Connect(r) BY <2>1 DEF Connect
  <2>2. CASE ConnectFull(r) BY <2>2 DEF ConnectFull
  <2>3. CASE Join(r)
    <3>1. (Live(r) /\ Counted(r) /\ SoleHolder(r)) \in BOOLEAN
      BY Zenon
    <3> QED BY <2>3, <3>1 DEF Join
  <2>4. CASE Disconnect(r) BY <2>4 DEF Disconnect
  <2>5. CASE Recv(r) BY <2>5 DEF Recv
  <2>6. CASE RecvCheck(r) BY <2>6 DEF RecvCheck
  <2>7. CASE ConnectTwice(r) BY <2>7 DEF ConnectTwice
  <2>8. CASE PopEmpty(r) BY <2>8 DEF PopEmpty
  <2>9. CASE Pop(r) BY <2>9 DEF Pop
  <2>10. CASE Copy(r)
    <3>1. data[SlotOf(cursor[r] - 1)] \in Nat \cup {NoMsg}
      BY <2>10 DEF Copy, PopInv
    <3> QED BY <2>10, <3>1 DEF Copy
  <2>11. CASE Ack(r) BY <2>11 DEF Ack
  <2> QED BY <1>8, <2>1, <2>2, <2>3, <2>4, <2>5, <2>6, <2>7, <2>8, <2>9, <2>10, <2>11
         DEF Reading
<1>9. CASE UNCHANGED vars BY <1>9 DEF vars
<1> QED BY <1>1, <1>2, <1>3, <1>4, <1>5, <1>6, <1>7, <1>8, <1>9 DEF Next

\* Every action keeps what holds in the middle of a pop.
LEMMA PopStep == TypeOK /\ PopInv /\ [Next]_vars => PopInv'
<1> SUFFICES ASSUME TypeOK, PopInv, [Next]_vars PROVE PopInv'
  OBVIOUS
<1> USE DEF TypeOK, PopInv, ring, writer, reader
<1>1. ASSUME NEW r \in Readers,
             Connect(r) \/ ConnectFull(r) \/ Join(r) \/ Disconnect(r) \/ Reading(r)
      PROVE  PopInv'
  BY <1>1 DEF Connect, ConnectFull, Join, Disconnect, Reading, Recv, RecvCheck,
              ConnectTwice, PopEmpty, Pop, Copy, Ack
<1>2. CASE UNCHANGED <<rpc, cursor, item>>
  BY <1>2
<1> QED
  BY <1>1, <1>2 DEF Next, vars, TryPush, ForcePush, Send, PushLoad, PushFails, PushCheck,
     Claim, Retry, Fill, Publish, TryAgain, GiveUp, ForceBegin, ForceLoad, ForceCheck, Kick

\* Every action keeps what the writer knows of the slot it claims.
LEMMA PushStep == TypeOK /\ PushInv /\ [Next]_vars => PushInv'
<1> SUFFICES ASSUME TypeOK, PushInv, [Next]_vars PROVE PushInv'
  OBVIOUS
<1> USE NAssumption, SlotOfType DEF TypeOK, PushInv, ring, writer, reader, DropLocals
<1>1. CASE TryPush
  BY <1>1 DEF TryPush, PushLoad, PushFails, PushCheck, Claim, Retry, Unfinished
<1>2. CASE ForcePush
  BY <1>2 DEF ForcePush, ForceBegin, ForceLoad, ForceCheck, Kick, Claim, Retry
<1>3. CASE Send \/ Fill \/ Publish \/ TryAgain \/ GiveUp
  BY <1>3 DEF Send, Fill, Publish, TryAgain, GiveUp
<1>4. CASE UNCHANGED <<wt, epoch, data, ep, wpc, wcc, wrc, wep>>
  BY <1>4
<1> QED
  BY <1>1, <1>2, <1>3, <1>4 DEF Next, vars, Connect, ConnectFull, Join, Disconnect,
     Reading, Recv, RecvCheck, ConnectTwice, PopEmpty, Pop, Copy, Ack

\* Two unread positions, or one and the write index, are in different slots
\* as long as they are less than a round apart.
LEMMA Apart == \A a, b \in Nat : a < b /\ b < a + N => SlotOf(a) # SlotOf(b)
BY NAssumption, OtherSlot DEF SlotOf

\* The write index a round ahead of a position is back in its slot.
LEMMA Round == \A a \in Nat : SlotOf(a + N) = SlotOf(a)
BY NAssumption, SameSlot DEF SlotOf

\* The positions a reader has to finish with are natural numbers.
LEMMA LowType == TypeOK /\ PopInv => \A r \in Readers : Low(r) \in Nat
BY DEF TypeOK, PopInv, Low

\* A claim never touches a slot a reader in step still has to finish with:
\* in push because that slot carries the reader's bit in this epoch, in
\* force_push because the reader joined after it began.
LEMMA ClaimRoom ==
  ASSUME RouteInv, NEW pc \in {"cas", "fcas"}, Claim(pc), NEW r \in Readers, synced[r]
  PROVE  wt < Low(r) + N
<1> USE DEF RouteInv
<1>1. Low(r) \in Nat /\ wt \in Nat /\ N \in Nat \ {0}
  BY LowType, NAssumption DEF TypeOK
<1>2. wt <= Low(r) + N /\ InStep(r)
  BY DEF InStep
<1>3. CASE pc = "fcas"
  BY <1>1, <1>2, <1>3 DEF InStep, Claim
<1>4. CASE pc = "cas"
  <2> SUFFICES ASSUME wt = Low(r) + N PROVE FALSE
    BY <1>1, <1>2
  <2>1. Low(r) \in Low(r) .. wt - 1
    BY <1>1
  <2>2. connected[r] \in rc[SlotOf(Low(r))] /\ ep[SlotOf(Low(r))] = epoch
    BY <1>2, <2>1 DEF InStep
  <2>3. SlotOf(wt) = SlotOf(Low(r))
    BY <1>1, Round
  <2>4. connected[r] \in wrc /\ wep = epoch
    BY <1>4, <2>2, <2>3 DEF Claim
  <2>5. connected[r] \in wcc
    BY <1>2, <1>4 DEF InStep, Counted, Claiming, Claim
  <2> QED BY <1>4, <2>4, <2>5 DEF PushInv, Claim
<1> QED BY <1>3, <1>4

\* A step that changes only the writer's own state keeps a reader in step if
\* the writer counts it and is not in the middle of force_push.
LEMMA QuietStep ==
  ASSUME RouteInv, NEW r \in Readers, synced[r], UNCHANGED <<ring, reader>>,
         wpc' \in Claiming => connected[r] \in wcc',
         wpc' \notin {"fill", "publish"},
         wpc' \in {"fload", "fcheck", "kick", "fcas"} => Low(r) = wt
  PROVE  InStep(r)'
<1>1. InStep(r) /\ Low(r)' = Low(r) /\ Live(r)' /\ SoleHolder(r)' /\ Counted(r)'
  BY DEF RouteInv, InStep, reader, ring, Low, Live, SoleHolder, Counted
<1> QED BY <1>1 DEF InStep, ring, reader

\* The steps of send, push and force_push keep a reader in step.
LEMMA WriterKeepsStep ==
  ASSUME RouteInv, NEW r \in Readers, synced'[r],
         Send \/ TryPush \/ Fill \/ Publish \/ TryAgain \/ GiveUp \/ ForcePush
  PROVE  InStep(r)'
<1> USE DEF RouteInv
<1>1. Low(r) \in Nat /\ wt \in Nat /\ N \in Nat \ {0} /\ cursor[r] \in Nat
  BY LowType, NAssumption DEF TypeOK
<1>2. CASE Send \/ TryAgain \/ GiveUp
  BY <1>2, QuietStep DEF Send, TryAgain, GiveUp, Claiming, reader
<1>3. CASE PushLoad
  <2>1. InStep(r) /\ UNCHANGED <<ring, reader>> /\ synced[r]
    BY <1>3 DEF PushLoad, reader
  <2>2. connected[r] \in wcc'
    BY <1>3, <2>1 DEF PushLoad, InStep, Live
  <2> QED BY <1>3, <2>1, <2>2, QuietStep DEF PushLoad, Claiming
<1>4. CASE PushFails \/ PushCheck \/ Retry("cas", "load")
  <2>1. InStep(r) /\ UNCHANGED <<ring, reader>> /\ synced[r]
    BY <1>4 DEF PushFails, PushCheck, Retry, reader
  <2> QED BY <1>4, <2>1, QuietStep DEF PushFails, PushCheck, Retry, Claiming, InStep, Counted
<1>5. CASE Claim("cas") \/ Claim("fcas")
  <2>1. PICK pc \in {"cas", "fcas"} : Claim(pc)
    BY <1>5
  <2>2. InStep(r) /\ synced[r] /\ UNCHANGED reader
    BY <2>1 DEF Claim, reader
  <2>3. wt < Low(r) + N
    BY <2>1, <2>2, ClaimRoom
  <2>4. Low(r)' = Low(r) /\ Live(r)' /\ SoleHolder(r)'
    BY <2>1, <2>2 DEF Claim, InStep, reader, Low, Live, SoleHolder
  <2>5. Counted(r)'
    BY <2>1, <2>2, SlotOfType DEF Claim, InStep, Counted, Claiming, TypeOK, reader
  <2>6. ASSUME NEW k \in Low(r) .. wt - 1
        PROVE  connected[r] \in rc'[SlotOf(k)] /\ ep'[SlotOf(k)] = epoch /\ data[SlotOf(k)] = k
    <3>1. SlotOf(k) # SlotOf(wt)
      BY <1>1, <2>3, Apart
    <3> QED BY <2>1, <2>2, <3>1 DEF InStep, Claim
  <2> QED BY <2>1, <2>2, <2>3, <2>4, <2>5, <2>6 DEF InStep, Claim, reader
<1>6. CASE Fill
  <2>1. InStep(r) /\ synced[r] /\ UNCHANGED reader
    BY <1>6 DEF Fill, reader
  <2>2. Low(r)' = Low(r) /\ Live(r)' /\ SoleHolder(r)' /\ Counted(r)' /\ wt < Low(r) + N
    BY <1>6, <2>1 DEF Fill, InStep, reader, Low, Live, SoleHolder, Counted, Claiming
  <2>3. ASSUME NEW k \in Low(r) .. wt - 1
        PROVE  data'[SlotOf(k)] = k
    <3>1. SlotOf(k) # SlotOf(wt)
      BY <1>1, <2>2, Apart
    <3> QED BY <1>6, <2>1, <3>1 DEF InStep, Fill
  <2> QED BY <1>6, <2>1, <2>2, <2>3 DEF InStep, Fill, reader
<1>7. CASE Publish
  <2>1. InStep(r) /\ synced[r] /\ UNCHANGED reader
    BY <1>7 DEF Publish, reader
  <2>2. Low(r)' = Low(r) /\ Live(r)' /\ SoleHolder(r)' /\ Counted(r)' /\ wt < Low(r) + N
    BY <1>7, <2>1 DEF Publish, InStep, reader, Low, Live, SoleHolder, Counted, Claiming
  <2>3. ASSUME NEW k \in Low(r) .. wt
        PROVE  connected[r] \in rc[SlotOf(k)] /\ ep[SlotOf(k)] = epoch /\ data[SlotOf(k)] = k
    <3>1. CASE k = wt
      BY <1>7, <2>1, <3>1 DEF InStep, Counted, PushInv, Publish
    <3>2. CASE k # wt
      BY <1>1, <2>1, <3>2 DEF InStep
    <3> QED BY <3>1, <3>2
  <2>4. cursor'[r] <= wt' /\ wt' <= Low(r)' + N /\ wt' - 1 = wt
    BY <1>1, <1>7, <2>1, <2>2 DEF InStep, Publish, reader
  <2> QED BY <1>7, <2>1, <2>2, <2>3, <2>4 DEF InStep, Publish, reader
<1>8. CASE ForceBegin
  BY <1>8 DEF ForceBegin
<1>9. CASE ForceLoad
  <2>1. InStep(r) /\ UNCHANGED <<ring, reader>> /\ synced[r]
    BY <1>9 DEF ForceLoad, reader
  <2>2. connected[r] \in wcc' /\ Low(r) = wt
    BY <1>9, <2>1 DEF ForceLoad, InStep, Live
  <2> QED BY <1>9, <2>1, <2>2, QuietStep DEF ForceLoad, Claiming
<1>10. CASE ForceCheck \/ Retry("fcas", "fload")
  <2>1. InStep(r) /\ UNCHANGED <<ring, reader>> /\ synced[r]
    BY <1>10 DEF ForceCheck, Retry, reader
  <2> QED BY <1>10, <2>1, QuietStep DEF ForceCheck, Retry, Claiming, InStep, Counted
<1>11. CASE Kick
  <2>1. InStep(r) /\ synced[r] /\ connected[r] \notin wrc
    BY <1>11 DEF Kick, TypeOK
  <2>2. connected[r] \in cc' /\ wpc' = "fcas" /\ wcc' = cc'
    BY <1>11, <2>1 DEF Kick, InStep, Live
  <2>3. Low(r)' = Low(r) /\ Live(r)' /\ SoleHolder(r)' /\ Counted(r)' /\ Low(r) = wt
    BY <1>11, <2>1, <2>2 DEF Kick, InStep, Low, Live, SoleHolder, Counted
  <2> QED BY <1>11, <2>1, <2>2, <2>3 DEF InStep, Kick
<1> QED BY <1>2, <1>3, <1>4, <1>5, <1>6, <1>7, <1>8, <1>9, <1>10, <1>11 DEF TryPush, ForcePush

\* The steps of a reader keep it, and every other reader, in step.
LEMMA ReadersKeepStep ==
  ASSUME RouteInv, NEW r \in Readers, synced'[r], NEW q \in Readers,
         Connect(q) \/ ConnectFull(q) \/ Join(q) \/ Disconnect(q) \/ Reading(q)
  PROVE  InStep(r)'
<1> USE DEF RouteInv
<1>1. Low(r) \in Nat /\ wt \in Nat /\ N \in Nat \ {0} /\ cursor[r] \in Nat
      /\ cc \subseteq Ids /\ NoId \notin Ids
  BY LowType, NAssumption DEF TypeOK, Ids, NoId
<1>2. CASE Connect(q)
  <2>1. InStep(r) /\ synced[r]
    BY <1>2 DEF Connect
  <2>2. r # q
    BY <1>2, <2>1 DEF Connect, InStep
  <2>3. PICK i \in Ids : i \notin cc /\ connected' = [connected EXCEPT ![q] = i] /\ cc' = cc \cup {i}
    BY <1>2 DEF Connect, FirstFree
  <2>4. connected'[r] = connected[r] /\ Live(r)' /\ SoleHolder(r)'
    BY <2>1, <2>2, <2>3 DEF InStep, Live, SoleHolder, TypeOK
  <2>5. Low(r)' = Low(r) /\ Counted(r)'
    BY <1>2, <2>1, <2>2, <2>4 DEF Connect, InStep, Low, Counted, TypeOK, writer
  <2> QED BY <1>2, <2>1, <2>2, <2>4, <2>5 DEF InStep, Connect, TypeOK, writer
<1>3. CASE ConnectFull(q)
  <2>1. InStep(r) /\ synced[r]
    BY <1>3 DEF ConnectFull
  <2>2. r # q
    BY <1>3, <2>1 DEF ConnectFull, InStep
  <2>3. connected'[r] = connected[r] /\ Live(r)' /\ SoleHolder(r)'
    BY <1>1, <1>3, <2>1, <2>2 DEF ConnectFull, ring, InStep, Live, SoleHolder, TypeOK
  <2>4. Low(r)' = Low(r) /\ Counted(r)'
    BY <1>3, <2>1, <2>2, <2>3 DEF ConnectFull, ring, InStep, Low, Counted, TypeOK, writer
  <2> QED BY <1>3, <2>1, <2>2, <2>3, <2>4 DEF InStep, ConnectFull, TypeOK, writer, ring
<1>4. CASE Join(q)
  <2>1. UNCHANGED <<ring, writer, connected, item>>
    BY <1>4 DEF Join
  <2>2. CASE q = r
    <3>1. Live(r) /\ Counted(r) /\ SoleHolder(r)
      BY <1>4, <2>2 DEF Join, TypeOK
    <3>2. Live(r)' /\ Counted(r)' /\ SoleHolder(r)'
      BY <2>1, <3>1 DEF ring, writer, Live, Counted, SoleHolder
    <3>3. cursor'[r] = wt /\ rpc'[r] \in {"idle", "pop"} /\ wt' = wt
      BY <1>4, <2>1, <2>2, <3>1 DEF Join, TypeOK, ring
    <3>4. Low(r)' = wt
      BY <3>3 DEF Low
    <3> QED BY <1>1, <3>2, <3>3, <3>4 DEF InStep
  <2>3. CASE q # r
    <3>1. InStep(r) /\ rpc'[r] = rpc[r] /\ cursor'[r] = cursor[r] /\ Low(r)' = Low(r)
      BY <1>4, <2>3 DEF Join, TypeOK, Low
    <3>2. Live(r)' /\ Counted(r)' /\ SoleHolder(r)'
      BY <2>1, <3>1 DEF ring, writer, InStep, Live, Counted, SoleHolder
    <3> QED BY <2>1, <3>1, <3>2 DEF InStep, ring, writer
  <2> QED BY <2>2, <2>3
<1>5. CASE Disconnect(q)
  <2>1. InStep(r) /\ synced[r] /\ connected[q] # connected[r]
    BY <1>5 DEF Disconnect
  <2>2. connected'[r] = connected[r] /\ Live(r)' /\ SoleHolder(r)'
    BY <1>1, <1>5, <2>1 DEF Disconnect, InStep, Live, SoleHolder, TypeOK
  <2>3. Low(r)' = Low(r) /\ Counted(r)'
    BY <1>5, <2>1, <2>2 DEF Disconnect, InStep, Low, Counted, writer
  <2> QED BY <1>5, <2>1, <2>2, <2>3 DEF InStep, Disconnect, writer
<1>6. CASE Recv(q) \/ RecvCheck(q) \/ ConnectTwice(q) \/ PopEmpty(q)
  <2>1. InStep(r) /\ UNCHANGED <<ring, writer, connected, cursor, item, synced>>
    BY <1>6 DEF Recv, RecvCheck, ConnectTwice, PopEmpty
  <2>2. \/ Low(r)' = Low(r) /\ rpc'[r] \notin {"join", "rejoin", "reconnect", "ack"}
        \/ rpc'[r] = rpc[r]
    BY <1>6, <2>1 DEF Recv, RecvCheck, ConnectTwice, PopEmpty, InStep, TypeOK, Low
  <2>3. Low(r)' = Low(r) /\ Live(r)' /\ Counted(r)' /\ SoleHolder(r)'
    BY <2>1, <2>2 DEF ring, writer, InStep, Live, Counted, SoleHolder, Low
  <2> QED BY <2>1, <2>2, <2>3 DEF InStep, ring, writer
<1>7. CASE Pop(q)
  <2>1. InStep(r) /\ UNCHANGED <<ring, writer, connected, item, synced>>
    BY <1>7 DEF Pop
  <2>2. Low(r)' = Low(r) /\ Live(r)' /\ Counted(r)' /\ SoleHolder(r)'
    BY <1>1, <1>7, <2>1 DEF Pop, ring, writer, InStep, Live, Counted, SoleHolder, Low, TypeOK
  <2>3. cursor'[r] <= wt
    <3>1. cursor[r] <= wt /\ (q = r => cursor[r] # wt)
      BY <1>7, <2>1 DEF Pop, InStep
    <3>2. cursor'[r] = IF q = r THEN cursor[r] + 1 ELSE cursor[r]
      BY <1>7 DEF Pop, TypeOK
    <3> QED BY <1>1, <3>1, <3>2, SMTT(30)
  <2>4. rpc'[r] \notin {"join", "rejoin", "reconnect"} /\ (rpc'[r] = "ack" => rpc[r] = "ack" /\ cursor'[r] = cursor[r])
    BY <1>7, <2>1 DEF Pop, InStep, TypeOK
  <2> QED BY <2>1, <2>2, <2>3, <2>4 DEF InStep, ring, writer
<1>8. CASE Copy(q)
  <2>1. InStep(r) /\ UNCHANGED <<ring, writer, connected, cursor, synced>>
    BY <1>8 DEF Copy
  <2>2. Low(r)' = Low(r) /\ Live(r)' /\ Counted(r)' /\ SoleHolder(r)'
    BY <1>8, <2>1 DEF Copy, ring, writer, InStep, Live, Counted, SoleHolder, Low, TypeOK
  <2>3. rpc'[r] = "ack" => item'[r] = cursor[r] - 1
    <3>1. CASE q = r
      <4>1. Low(r) = cursor[r] - 1 /\ Low(r) \in Low(r) .. wt - 1
        BY <1>1, <1>8, <2>1, <3>1 DEF Copy, Low, InStep
      <4>2. data[SlotOf(cursor[r] - 1)] = cursor[r] - 1
        BY <2>1, <4>1 DEF InStep
      <4> QED BY <1>8, <3>1, <4>2 DEF Copy, TypeOK
    <3>2. CASE q # r
      BY <1>8, <2>1, <3>2 DEF Copy, TypeOK, InStep
    <3> QED BY <3>1, <3>2
  <2>4. rpc'[r] \notin {"join", "rejoin", "reconnect"}
    BY <1>8, <2>1 DEF Copy, InStep, TypeOK
  <2> QED BY <2>1, <2>2, <2>3, <2>4 DEF InStep, ring, writer
<1>9. CASE Ack(q)
  <2>1. InStep(r) /\ UNCHANGED <<cc, wt, epoch, data, ep, writer, connected, cursor, synced>>
    BY <1>9 DEF Ack
  <2>2. Live(r)' /\ SoleHolder(r)'
    BY <2>1 DEF InStep, Live, SoleHolder
  <2>3. CASE q # r
    <3>1. rpc'[r] = rpc[r] /\ item'[r] = item[r] /\ Low(r)' = Low(r)
      BY <1>9, <2>1, <2>3 DEF Ack, Low, TypeOK
    <3>2. connected[q] # connected[r]
      BY <2>1, <2>3 DEF InStep, SoleHolder
    <3>3. \A s \in Slots : connected[r] \in rc[s] => connected[r] \in rc'[s]
      BY <1>9, <3>2 DEF Ack, TypeOK
    <3>4. Counted(r)'
      BY <1>1, <2>1, <3>3, SlotOfType DEF InStep, Counted, writer
    <3>5. ASSUME NEW k \in Low(r) .. wt - 1 PROVE connected[r] \in rc'[SlotOf(k)]
      BY <1>1, <2>1, <3>3, SlotOfType DEF InStep
    <3> QED BY <2>1, <2>2, <3>1, <3>4, <3>5 DEF InStep, writer
  <2>4. CASE q = r
    <3>1. Low(r) = cursor[r] - 1 /\ Low(r)' = cursor[r] /\ Low(r) < wt
          /\ rpc'[r] \notin {"join", "rejoin", "reconnect", "ack"}
      BY <1>1, <1>9, <2>1, <2>4 DEF Ack, Low, InStep, TypeOK
    <3>2. ASSUME NEW s \in Slots, s # SlotOf(Low(r)) PROVE rc'[s] = rc[s]
      BY <1>9, <2>4, <3>1, <3>2 DEF Ack, TypeOK
    <3>3. Counted(r)'
      <4>1. wpc \in {"fill", "publish"} => SlotOf(wt) # SlotOf(Low(r))
        BY <1>1, <2>1, <3>1, Apart DEF InStep
      <4> QED BY <1>1, <2>1, <3>2, <4>1, SlotOfType DEF InStep, Counted, writer
    <3>4. ASSUME NEW k \in Low(r)' .. wt - 1 PROVE connected[r] \in rc'[SlotOf(k)]
      <4>1. k \in Nat /\ k \in Low(r) .. wt - 1 /\ Low(r) < k /\ k < Low(r) + N
        BY <1>1, <2>1, <3>1 DEF InStep
      <4>2. SlotOf(k) # SlotOf(Low(r))
        BY <1>1, <4>1, Apart
      <4> QED BY <2>1, <3>2, <4>1, <4>2, SlotOfType DEF InStep
    <3>5. ASSUME NEW k \in Low(r)' .. wt - 1 PROVE ep[SlotOf(k)] = epoch /\ data[SlotOf(k)] = k
      BY <1>1, <2>1, <3>1 DEF InStep
    <3>6. wt <= Low(r)' + N /\ wpc \notin {"fload", "fcheck", "kick", "fcas"}
          /\ (wpc \in {"fill", "publish"} => wt < Low(r)' + N)
      BY <1>1, <2>1, <3>1 DEF InStep
    <3> QED BY <2>1, <2>2, <3>1, <3>3, <3>4, <3>5, <3>6 DEF InStep, writer
  <2> QED BY <2>3, <2>4
<1> QED BY <1>2, <1>3, <1>4, <1>5, <1>6, <1>7, <1>8, <1>9 DEF Reading

-----------------------------------------------------------------------------
\* The inductive invariant holds at first and is kept by every step, hence
\* always: whatever a reader in step has not finished with is guarded by its
\* bit and the current epoch.
THEOREM RouteInvariance == Spec => []RouteInv
<1>1. Init => RouteInv
  <2> SUFFICES ASSUME Init PROVE RouteInv
    OBVIOUS
  <2>1. TypeOK
    BY DEF Init, TypeOK, Slots, Ids, NoId, NoMsg
  <2>2. PushInv /\ PopInv /\ \A r \in Readers : ~synced[r]
    BY DEF Init, PushInv, PopInv
  <2> QED BY <2>1, <2>2 DEF RouteInv
<1>2. RouteInv /\ [Next]_vars => RouteInv'
  <2> SUFFICES ASSUME RouteInv, [Next]_vars PROVE RouteInv'
    OBVIOUS
  <2>1. TypeOK' /\ PopInv' /\ PushInv'
    BY TypeStep, PopStep, PushStep DEF RouteInv
  <2>2. ASSUME NEW r \in Readers, synced'[r] PROVE InStep(r)'
    <3>1. CASE UNCHANGED vars
      <4>1. InStep(r)
        BY <2>2, <3>1 DEF RouteInv, vars
      <4> QED
        BY <3>1, <4>1 DEF vars, InStep, Live, SoleHolder, Counted, Low
    <3>2. CASE Send \/ TryPush \/ Fill \/ Publish \/ TryAgain \/ GiveUp \/ ForcePush
      BY <2>2, <3>2, WriterKeepsStep
    <3>3. ASSUME NEW q \in Readers,
                 Connect(q) \/ ConnectFull(q) \/ Join(q) \/ Disconnect(q) \/ Reading(q)
          PROVE  InStep(r)'
      BY <2>2, <3>3, ReadersKeepStep
    <3> QED BY <3>1, <3>2, <3>3 DEF Next
  <2> QED BY <2>1, <2>2 DEF RouteInv
<1> QED BY <1>1, <1>2, PTL DEF Spec

\* The state of the ring, the writer and the readers keeps its types.
THEOREM RouteTypes == Spec => []TypeOK
<1>1. RouteInv => TypeOK
  BY DEF RouteInv
<1> QED BY <1>1, RouteInvariance, PTL

\* pop hands a reader in step exactly the message at its cursor.
THEOREM RouteInOrder == Spec => []InOrder
<1>1. RouteInv => InOrder
  BY DEF RouteInv, InOrder, InStep
<1> QED BY <1>1, RouteInvariance, PTL

\* Whatever a reader in step has not finished with is still in the ring.
THEOREM RouteUnreadKept == Spec => []UnreadKept
<1>1. RouteInv => UnreadKept
  <2> SUFFICES ASSUME RouteInv, NEW r \in Readers, synced[r]
               PROVE  /\ wt - Low(r) \in 0 .. N
                      /\ \A k \in Low(r) .. wt - 1 : data[SlotOf(k)] = k
    BY DEF UnreadKept
  <2>1. Low(r) \in Nat /\ wt \in Nat /\ N \in Nat /\ cursor[r] \in Nat
    BY LowType, NAssumption DEF RouteInv, TypeOK
  <2>2. Low(r) <= cursor[r]
    BY <2>1 DEF Low
  <2> QED BY <2>1, <2>2 DEF RouteInv, InStep
<1> QED BY <1>1, RouteInvariance, PTL

\* push never constructs a message in the slot a reader in step is copying.
THEOREM RouteNoDataRace == Spec => []NoDataRace
<1>1. RouteInv => NoDataRace
  <2> SUFFICES ASSUME RouteInv, NEW r \in Readers, synced[r], rpc[r] = "copy", wpc = "fill"
               PROVE  SlotOf(cursor[r] - 1) # SlotOf(wt)
    BY DEF NoDataRace
  <2>1. Low(r) = cursor[r] - 1 /\ Low(r) \in Nat /\ wt \in Nat /\ cursor[r] \in Nat
    BY LowType DEF RouteInv, TypeOK, Low
  <2>2. Low(r) < wt /\ wt < Low(r) + N
    BY <2>1 DEF RouteInv, InStep
  <2> QED BY <2>1, <2>2, Apart
<1> QED BY <1>1, RouteInvariance, PTL

-----------------------------------------------------------------------------
\* No reader, overrun or not, is handed a message older than its cursor.
THEOREM RouteNeverStale == Spec => []NeverStale
<1> DEFINE Inv == NoneOlder /\ NeverStale
<1>1. Init => Inv
  BY DEF Init, NoneOlder, NeverStale
<1>2. RouteInv /\ Inv /\ [Next]_vars => Inv'
  <2> SUFFICES ASSUME RouteInv, Inv, [Next]_vars PROVE Inv'
    OBVIOUS
  <2> USE SlotOfType DEF RouteInv, TypeOK, NoneOlder, NeverStale, ring, writer, reader, NoMsg
  <2>1. CASE Fill
    BY <2>1 DEF Fill
  <2>2. CASE Publish
    <3>1. data[SlotOf(wt)] = wt
      BY <2>2 DEF Publish, PushInv
    <3> QED BY <2>2, <3>1 DEF Publish
  <2>3. CASE UNCHANGED <<wt, data, rpc, cursor, item>>
    BY <2>3
  <2>4. ASSUME NEW r \in Readers, Join(r) PROVE Inv'
    BY <2>4 DEF Join
  <2>5. ASSUME NEW r \in Readers, Pop(r) PROVE Inv'
    <3>1. UNCHANGED <<wt, data, item>> /\ \A q \in Readers : cursor'[q] <= wt
      <4>1. UNCHANGED <<wt, data, item>> /\ cursor[r] # wt
        BY <2>5 DEF Pop
      <4>2. \A q \in Readers : cursor'[q] = IF q = r THEN cursor[q] + 1 ELSE cursor[q]
        BY <2>5 DEF Pop
      <4>3. wt \in Nat /\ \A q \in Readers : cursor[q] \in Nat /\ cursor[q] <= wt
        OBVIOUS
      <4> HIDE DEF RouteInv, TypeOK, NoneOlder, NeverStale, Inv
      <4> QED BY <2>5, <4>1, <4>2, <4>3
    <3>2. \A q \in Readers : rpc'[q] = "ack" => rpc[q] = "ack" /\ cursor'[q] = cursor[q]
      BY <2>5 DEF Pop
    <3> QED BY <3>1, <3>2
  <2>6. ASSUME NEW r \in Readers, Copy(r) PROVE Inv'
    <3>1. cursor[r] - 1 \in 0 .. wt - 1
      BY <2>6 DEF Copy, PopInv
    <3>2. data[SlotOf(cursor[r] - 1)] >= cursor[r] - 1
      BY <3>1
    <3> QED BY <2>6, <3>2 DEF Copy
  <2>7. ASSUME NEW r \in Readers,
               Connect(r) \/ ConnectFull(r) \/ Recv(r) \/ RecvCheck(r)
               \/ ConnectTwice(r) \/ PopEmpty(r) \/ Ack(r)
        PROVE  Inv'
    <3>1. UNCHANGED <<wt, data, cursor>>
      BY <2>7 DEF Connect, ConnectFull, Recv, RecvCheck, ConnectTwice, PopEmpty, Ack
    <3>2. \A q \in Readers : rpc'[q] = "ack" => rpc[q] = "ack" /\ item'[q] = item[q]
      BY <2>7 DEF Connect, ConnectFull, Recv, RecvCheck, ConnectTwice, PopEmpty, Ack
    <3> QED BY <3>1, <3>2
  <2>8. CASE UNCHANGED vars \/ Send \/ TryPush \/ TryAgain \/ GiveUp \/ ForcePush
    <3>1. UNCHANGED <<wt, data, rpc, cursor, item>>
      BY <2>8 DEF vars, TryPush, ForcePush, Send, PushLoad, PushFails, PushCheck, Claim, Retry,
         TryAgain, GiveUp, ForceBegin, ForceLoad, ForceCheck, Kick
    <3> QED BY <3>1, <2>3
  <2>9. ASSUME NEW r \in Readers, Disconnect(r) PROVE Inv'
    BY <2>9 DEF Disconnect
  <2> QED BY <2>1, <2>2, <2>4, <2>5, <2>6, <2>7, <2>8, <2>9 DEF Next, Reading
<1>3. Inv => NeverStale
  OBVIOUS
<1> QED BY <1>1, <1>2, <1>3, RouteInvariance, PTL DEF Spec

-----------------------------------------------------------------------------
\* Until force_push begins, an id a handle holds is set in cc_ and held by no
\* other handle: force_push alone clears the bit of a handle that keeps its id.
Held ==
  /\ wpc \in {"fload", "fcheck", "kick", "fcas"} => epoch > 0
  /\ epoch = 0 => \A r \in Readers : connected[r] # NoId => Live(r) /\ SoleHolder(r)

\* As long as send was never driven to force_push, no two connected handles
\* share an id, so one cannot acknowledge a message for the other.
THEOREM RouteIdsUnique == Spec => []IdsUnique
<1>1. Init => Held
  BY DEF Init, Held
<1>2. RouteInv /\ Held /\ [Next]_vars => Held'
  <2> SUFFICES ASSUME RouteInv, Held, [Next]_vars PROVE Held'
    OBVIOUS
  <2>0. /\ epoch \in Nat /\ cc \subseteq Ids /\ NoId \notin Ids
        /\ connected \in [Readers -> Ids \cup {NoId}]
    BY DEF RouteInv, TypeOK, Ids, NoId
  <2>1. CASE Kick
    BY <2>0, <2>1 DEF Kick, Held
  <2>2. CASE ForceBegin
    BY <2>0, <2>2 DEF ForceBegin, Held
  <2>3. CASE /\ UNCHANGED <<cc, epoch, connected>>
             /\ wpc' \in {"fload", "fcheck", "kick", "fcas"} => wpc \in {"fload", "fcheck", "kick", "fcas"}
    BY <2>3 DEF Held, Live, SoleHolder
  <2>4. CASE UNCHANGED vars \/ Send \/ TryPush \/ Fill \/ Publish \/ TryAgain \/ GiveUp
    BY <2>3, <2>4 DEF vars, Send, TryPush, PushLoad, PushFails, PushCheck, Claim, Retry, Fill, Publish,
                      TryAgain, GiveUp, ring, reader
  <2>5. CASE ForceLoad \/ ForceCheck \/ Claim("fcas") \/ Retry("fcas", "fload")
    BY <2>3, <2>5 DEF ForceLoad, ForceCheck, Claim, Retry, ring, reader
  <2>6. ASSUME NEW r \in Readers, Connect(r) PROVE Held'
    <3>1. PICK i \in Ids : /\ FirstFree(i) /\ cc' = cc \cup {i}
                           /\ connected' = [connected EXCEPT ![r] = i]
      BY <2>6 DEF Connect
    <3>2. UNCHANGED <<epoch, wpc>> /\ ~Live(r)
      BY <2>6 DEF Connect, writer
    <3>3. ASSUME epoch = 0, NEW q \in Readers, connected'[q] # NoId
          PROVE  Live(q)' /\ SoleHolder(q)'
      <4>1. \A u \in Readers : connected[u] # NoId => connected[u] \in cc
        BY <3>3 DEF Held, Live
      <4>2. \A u \in Readers \ {r} : connected'[u] = connected[u] /\ connected[u] # i
        BY <2>0, <3>1, <4>1 DEF FirstFree
      <4>3. connected'[r] = i
        BY <2>0, <3>1
      <4>4. CASE q = r
        BY <3>1, <4>2, <4>3, <4>4 DEF Live, SoleHolder
      <4>5. CASE q # r
        <5>1. connected[q] # NoId /\ Live(q) /\ SoleHolder(q)
          BY <3>3, <4>2, <4>5 DEF Held
        <5> QED BY <3>1, <4>2, <4>3, <4>5, <5>1 DEF Live, SoleHolder
      <4> QED BY <4>4, <4>5
    <3> QED BY <3>2, <3>3 DEF Held
  <2>7. ASSUME NEW r \in Readers, ConnectFull(r) PROVE Held'
    BY <2>0, <2>7 DEF ConnectFull, Held, Live, SoleHolder, ring, writer
  <2>8. ASSUME NEW r \in Readers, Disconnect(r) PROVE Held'
    BY <2>0, <2>8 DEF Disconnect, Held, Live, SoleHolder, writer
  <2>9. ASSUME NEW r \in Readers, Join(r) \/ Reading(r) PROVE Held'
    BY <2>3, <2>9 DEF Join, Reading, Recv, RecvCheck, ConnectTwice, PopEmpty, Pop, Copy, Ack, ring, writer
  <2> QED BY <2>1, <2>2, <2>4, <2>5, <2>6, <2>7, <2>8, <2>9 DEF Next, ForcePush
<1>3. RouteInv /\ Held => IdsUnique
  BY DEF RouteInv, TypeOK, Held, IdsUnique, Live, Ids, NoId
<1> QED BY <1>1, <1>2, <1>3, RouteInvariance, PTL DEF Spec

-----------------------------------------------------------------------------
\* The state of the log that RouteRing implements.
AtOf   == [r \in Readers |-> IF synced[r] THEN Low(r) ELSE 0]
HandOf == [r \in Readers |-> IF synced[r] THEN item[r] ELSE NoMsg]

\* The log sees nothing of a step that leaves the write index, the readers in
\* step and their positions alone.
LEMMA Unseen ==
  ASSUME RouteInv, UNCHANGED <<wt, synced>>,
         \A r \in Readers : synced[r] => Low(r)' = Low(r) /\ item'[r] = item[r]
  PROVE  UNCHANGED Log!logVars
<1>1. AtOf' = AtOf /\ HandOf' = HandOf
  BY DEF AtOf, HandOf
<1> QED BY <1>1 DEF Log!logVars, AtOf, HandOf

\* force_push and a disconnect drop the readers that fall out of step.
LEMMA Dropped ==
  ASSUME RouteInv, NEW S \in SUBSET Readers, UNCHANGED <<wt, rpc, cursor, item>>,
         synced' = [r \in Readers |-> synced[r] /\ r \notin S]
  PROVE  Log!Drop(S)
<1>1. \A r \in Readers : Low(r)' = Low(r)
  BY DEF Low
<1>2. AtOf' = [r \in Readers |-> IF r \in S THEN 0 ELSE AtOf[r]]
  BY <1>1 DEF AtOf
<1>3. HandOf' = [r \in Readers |-> IF r \in S THEN NoMsg ELSE HandOf[r]]
  BY DEF HandOf
<1> QED BY <1>2, <1>3 DEF Log!Drop, Log!Nothing, NoMsg, AtOf, HandOf

\* The writer's steps as steps of the log: publishing appends.
LEMMA WriterRefines ==
  ASSUME RouteInv,
         Send \/ TryPush \/ Fill \/ Publish \/ TryAgain \/ GiveUp \/ ForcePush
  PROVE  [Log!Next]_(Log!logVars)
<1>1. CASE Publish
  <2>1. UNCHANGED <<synced, rpc, cursor, item>> /\ wt' = wt + 1
    BY <1>1 DEF Publish, reader
  <2>2. AtOf' = AtOf /\ HandOf' = HandOf
    BY <2>1 DEF AtOf, HandOf, Low
  <2>3. \A r \in Readers : synced[r] => wt < AtOf[r] + N
    BY <1>1 DEF RouteInv, InStep, Publish, AtOf
  <2>4. Log!Append
    BY <2>1, <2>2, <2>3 DEF Log!Append, AtOf, HandOf
  <2> QED BY <2>4 DEF Log!Next
<1>2. CASE ForceBegin
  <2>1. synced' = [r \in Readers |-> synced[r] /\ r \notin Readers]
        /\ UNCHANGED <<wt, rpc, cursor, item>>
    BY <1>2 DEF ForceBegin
  <2>2. Log!Drop(Readers)
    BY <2>1, Dropped
  <2> QED BY <2>2 DEF Log!Next
<1>3. CASE Kick
  <2>1. PICK S \in SUBSET Readers : S = {r \in Readers : connected[r] \in wrc}
    OBVIOUS
  <2>2. synced' = [r \in Readers |-> synced[r] /\ r \notin S]
        /\ UNCHANGED <<wt, rpc, cursor, item>>
    BY <1>3, <2>1 DEF Kick
  <2>3. Log!Drop(S)
    BY <2>2, Dropped
  <2> QED BY <2>3 DEF Log!Next
<1>4. CASE UNCHANGED <<wt, synced, rpc, cursor, item>>
  <2>1. UNCHANGED Log!logVars
    BY <1>4, Unseen DEF Low
  <2> QED BY <2>1
<1> QED
  BY <1>1, <1>2, <1>3, <1>4 DEF TryPush, ForcePush, Send, PushLoad, PushFails, PushCheck,
     Claim, Retry, Fill, TryAgain, GiveUp, ForceLoad, ForceCheck, reader, ring

\* The readers' steps as steps of the log: a join subscribes, a disconnect
\* drops, a copy takes the next message and an acknowledgement finishes it.
LEMMA ReaderRefines ==
  ASSUME RouteInv, RouteInv', NEW r \in Readers,
         Connect(r) \/ ConnectFull(r) \/ Join(r) \/ Disconnect(r) \/ Reading(r)
  PROVE  [Log!Next]_(Log!logVars)
<1> USE DEF ring, writer
<1>1. TypeOK /\ PopInv
  BY DEF RouteInv
<1>2. CASE Connect(r) \/ ConnectFull(r) \/ Recv(r) \/ RecvCheck(r)
           \/ ConnectTwice(r) \/ PopEmpty(r) \/ Pop(r)
  <2>1. UNCHANGED <<wt, synced, item>>
    BY <1>2 DEF Connect, ConnectFull, Recv, RecvCheck, ConnectTwice, PopEmpty, Pop
  <2>2. \A q \in Readers : Low(q)' = Low(q)
    BY <1>1, <1>2 DEF Connect, ConnectFull, Recv, RecvCheck, ConnectTwice, PopEmpty, Pop,
                      Low, TypeOK
  <2>3. UNCHANGED Log!logVars
    BY <2>1, <2>2, Unseen
  <2> QED BY <2>3
<1>3. CASE Join(r)
  <2>1. UNCHANGED <<wt, item>> /\ ~synced[r] /\ item[r] = NoMsg
        /\ \A q \in Readers \ {r} : Low(q)' = Low(q) /\ synced'[q] = synced[q]
    BY <1>1, <1>3 DEF Join, RouteInv, InStep, TypeOK, PopInv, Low
  <2>2. CASE synced'[r]
    <3>1. Low(r)' = wt
      BY <1>1, <1>3, <2>2 DEF Join, TypeOK, Low
    <3>2. synced' = [synced EXCEPT ![r] = TRUE]
      BY <1>1, <1>3, <2>2 DEF Join, TypeOK
    <3>3. AtOf' = [AtOf EXCEPT ![r] = wt]
      BY <2>1, <2>2, <3>1 DEF AtOf
    <3>4. HandOf' = HandOf
      BY <2>1, <2>2 DEF HandOf
    <3>5. Log!Subscribe(r)
      BY <2>1, <3>2, <3>3, <3>4 DEF Log!Subscribe, AtOf, HandOf
    <3> QED BY <3>5 DEF Log!Next
  <2>3. CASE ~synced'[r]
    <3>1. synced' = synced
      BY <1>1, <1>3, <2>1, <2>3 DEF Join, TypeOK
    <3>2. UNCHANGED Log!logVars
      BY <2>1, <3>1, Unseen
    <3> QED BY <3>2
  <2> QED BY <2>2, <2>3
<1>4. CASE Disconnect(r)
  <2>1. PICK S \in SUBSET Readers : S = {q \in Readers : connected[q] = connected[r]}
    OBVIOUS
  <2>2. synced' = [q \in Readers |-> synced[q] /\ q \notin S]
        /\ UNCHANGED <<wt, rpc, cursor, item>>
    BY <1>4, <2>1 DEF Disconnect
  <2>3. Log!Drop(S)
    BY <2>2, Dropped
  <2> QED BY <2>3 DEF Log!Next
<1>5. CASE Copy(r)
  <2>1. UNCHANGED <<wt, synced>> /\ \A q \in Readers : Low(q)' = Low(q)
    BY <1>1, <1>5 DEF Copy, TypeOK, Low
  <2>2. \A q \in Readers \ {r} : item'[q] = item[q]
    BY <1>1, <1>5 DEF Copy, TypeOK
  <2>3. CASE synced[r]
    <3>1. item'[r] = Low(r) /\ item[r] = NoMsg /\ Low(r) < wt
      BY <1>1, <1>5, <2>1, <2>3 DEF Copy, RouteInv, InStep, PopInv, Low, TypeOK
    <3>2. AtOf' = AtOf
      BY <2>1 DEF AtOf
    <3>3. HandOf' = [HandOf EXCEPT ![r] = AtOf[r]]
      BY <2>1, <2>2, <2>3, <3>1 DEF HandOf, AtOf
    <3>4. Log!Take(r)
      BY <2>1, <2>3, <3>1, <3>2, <3>3 DEF Log!Take, Log!Nothing, NoMsg, AtOf, HandOf
    <3> QED BY <3>4 DEF Log!Next
  <2>4. CASE ~synced[r]
    <3>1. UNCHANGED Log!logVars
      BY <2>1, <2>2, <2>4, Unseen
    <3> QED BY <3>1
  <2> QED BY <2>3, <2>4
<1>6. CASE Ack(r)
  <2>1. UNCHANGED <<wt, synced>>
        /\ \A q \in Readers \ {r} : Low(q)' = Low(q) /\ item'[q] = item[q]
    BY <1>1, <1>6 DEF Ack, TypeOK, Low
  <2>2. CASE synced[r]
    <3>1. Low(r)' = Low(r) + 1 /\ item'[r] = NoMsg /\ item[r] # NoMsg
      BY <1>1, <1>6, <2>2 DEF Ack, RouteInv, InStep, PopInv, Low, TypeOK, NoMsg
    <3>2. AtOf' = [AtOf EXCEPT ![r] = @ + 1]
      BY <2>1, <2>2, <3>1 DEF AtOf
    <3>3. HandOf' = [HandOf EXCEPT ![r] = NoMsg]
      BY <2>1, <2>2, <3>1 DEF HandOf
    <3>4. Log!Finish(r)
      BY <2>1, <2>2, <3>1, <3>2, <3>3 DEF Log!Finish, Log!Nothing, NoMsg, AtOf, HandOf
    <3> QED BY <3>4 DEF Log!Next
  <2>3. CASE ~synced[r]
    <3>1. UNCHANGED Log!logVars
      BY <2>1, <2>3, Unseen
    <3> QED BY <3>1
  <2> QED BY <2>2, <2>3
<1> QED BY <1>2, <1>3, <1>4, <1>5, <1>6 DEF Reading

\* The route ring implements the broadcast log for its readers in step.
THEOREM RouteRefinesLog == Spec => LogSpec
<1>1. Init => Log!Init
  BY DEF Init, Log!Init, NoMsg, Log!Nothing
<1>2. RouteInv /\ RouteInv' /\ [Next]_vars => [Log!Next]_(Log!logVars)
  <2> SUFFICES ASSUME RouteInv, RouteInv', [Next]_vars PROVE [Log!Next]_(Log!logVars)
    OBVIOUS
  <2>1. CASE UNCHANGED vars
    <3>1. UNCHANGED Log!logVars
      BY <2>1, Unseen DEF vars, Low
    <3> QED BY <3>1
  <2> QED BY <2>1, WriterRefines, ReaderRefines DEF Next
<1> QED BY <1>1, <1>2, RouteInvariance, PTL DEF Spec, LogSpec, Log!Spec
=============================================================================
