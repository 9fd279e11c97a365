--------------------------- MODULE MessageProofs ---------------------------
(***************************************************************************)
(* What one sender and one receiver of a channel can rely on.              *)
(*                                                                         *)
(* The ring of one writer and one reader hands out every message once and  *)
(* in order, for any number of slots and of handles, whatever the          *)
(* connections do, as long as two handles do not meet in pop.  PairInv is  *)
(* inductive.  The writer fills slot wt % N only after it has seen         *)
(* wt - rd # N - 1, and rd only grows, so that slot is none of those       *)
(* between the indices: OtherSlot of RingArith says that positions less    *)
(* than a round apart do not meet.                                         *)
(*                                                                         *)
(* Messages in fragments are put together right, for any sizes of pieces,  *)
(* messages, ring and cache and any number of senders, when the receiving  *)
(* thread reads from one channel.  FragInv is inductive: of a message that *)
(* the receiver misses nothing of, a piece is in the ring exactly when it  *)
(* is pushed and not received, the pieces in the ring are in order, and    *)
(* the cache holds what lies before the first piece that is not received.  *)
(***************************************************************************)
EXTENDS PairRing, Fragments, RingArith, FiniteSetTheorems

\* A write index has a slot.
LEMMA SlotType == \A k \in Nat : SlotOf(k) \in Slots
  BY PairAssumption, DivMod DEF SlotOf, Slots

\* The tests for full and empty tell the only two cases in which the slots
\* of the indices meet from all others.
LEMMA FullAndEmpty ==
  ASSUME PairInv, ~met
  PROVE  /\ ~Full => wt - rd < N - 1
         /\ SlotOf(rd) # SlotOf(wt) => rd < wt
  <1> USE PairAssumption
  <1>1. wt \in Nat /\ rd \in Nat /\ rd <= wt /\ wt - rd <= N - 1
    BY DEF PairInv, PairTypeOK, UnreadKept
  <1>2. wt - rd = N - 1 => Full
    <2> SUFFICES ASSUME wt - rd = N - 1 PROVE Full
      OBVIOUS
    <2>1. wt + 1 = rd + N
      BY <1>1
    <2>2. (rd + N) % N = rd % N
      BY <1>1, SameSlot
    <2> QED BY <2>1, <2>2 DEF Full, SlotOf
  <1> QED BY <1>1, <1>2 DEF SlotOf

\* The ring starts empty.
LEMMA PairInvInit == PairInit => PairInv
  <1> SUFFICES ASSUME PairInit PROVE PairInv
    OBVIOUS
  <1>f. flag \in BOOLEAN /\ met \in BOOLEAN
    BY Zenon DEF PairInit
  <1>1. PairTypeOK
    BY <1>f, PairAssumption DEF PairInit, PairTypeOK, NoMsg
  <1> QED BY <1>1, PairAssumption DEF PairInit, PairInv, UnreadKept, InOrder, InPop

\* Steps that leave the ring alone and take nobody into or out of pop or the
\* middle of push.
LEMMA Elsewhere ==
  ASSUME PairInv, PairTypeOK', UNCHANGED <<ring, item, met>>,
         wpc' = wpc \/ wpc' \notin {"fill", "publish"},
         \A r \in Readers : cur'[r] = cur[r] /\ (rpc'[r] = rpc[r] \/ rpc'[r] \notin {"copy", "release"})
  PROVE  PairInv'
  BY DEF PairInv, UnreadKept, InOrder, InPop, ring

\* Every step of the writer and of the readers keeps the invariant.
LEMMA PairInvStep == PairInv /\ [PairNext]_pairVars => PairInv'
  <1> SUFFICES ASSUME PairInv, [PairNext]_pairVars PROVE PairInv'
    OBVIOUS
  <1> USE PairAssumption
  <1>t. PairTypeOK
    BY DEF PairInv
  <1>f. flag' \in BOOLEAN /\ met' \in BOOLEAN
    <2>1. flag' \in {flag, TRUE, FALSE} /\ (met' = met \/ met' \in BOOLEAN)
      BY Zenon DEF PairNext, pairVars, Send, Writing, PushFull, PushCheck, Fill, Publish, AfterFailure, KickFlag, KickAll,
         Connecting, Connect, ConnectTaken, Count, Disconnect, Uncount, Reading, Recv, RecvCheck, ConnectTwice,
         PopEmpty, Pop, Copy, Release, conns, reader
    <2> QED BY <1>t, <2>1, Zenon DEF PairTypeOK
  <1>1. CASE Send \/ PushFull \/ AfterFailure \/ KickFlag \/ KickAll
    <2>1. PairTypeOK'
      BY <1>1, <1>t, <1>f DEF PairTypeOK, Send, PushFull, AfterFailure, KickFlag, KickAll, conns, ring, reader
    <2>2. wpc' \notin {"fill", "publish"} /\ UNCHANGED <<wt, rd, data, rpc, cur, item, met>>
      BY <1>1 DEF Send, PushFull, AfterFailure, KickFlag, KickAll, ring, reader
    <2> QED BY <2>1, <2>2, Elsewhere DEF ring
  <1>2. CASE PushCheck
    <2>1. PairTypeOK'
      BY <1>2, <1>t DEF PairTypeOK, PushCheck, conns, ring, reader
    <2>2. ~met => wt - rd < N - 1
      BY <1>2, FullAndEmpty DEF PushCheck
    <2> QED BY <1>2, <2>1, <2>2 DEF PushCheck, PairInv, UnreadKept, InOrder, InPop, conns, ring, reader
  <1>3. CASE Fill
    <2>1. SlotOf(wt) \in Slots
      BY <1>t, SlotType DEF PairTypeOK
    <2>2. PairTypeOK'
      BY <1>3, <1>t, <2>1 DEF PairTypeOK, Fill, conns, reader
    <2>3. ~met => \A k \in rd .. wt - 1 : k \in Nat /\ k % N # wt % N
      <3> HAVE ~met
      <3> TAKE k \in rd .. wt - 1
      <3>1. k \in Nat /\ wt \in Nat /\ k < wt /\ wt < k + N
        BY <1>t DEF PairTypeOK, PairInv, UnreadKept
      <3> QED BY <3>1, OtherSlot
    <2>4. ~met => \A k \in rd .. wt - 1 : data'[SlotOf(k)] = k
      BY <1>3, <1>t, <2>3, SlotType DEF Fill, PairTypeOK, PairInv, UnreadKept, SlotOf
    <2>5. data'[SlotOf(wt)] = wt
      BY <1>3, <1>t, <2>1 DEF Fill, PairTypeOK
    <2> QED BY <1>3, <2>2, <2>4, <2>5 DEF Fill, PairInv, UnreadKept, InOrder, InPop, conns, reader
  <1>4. CASE Publish
    <2>1. PairTypeOK'
      BY <1>4, <1>t DEF PairTypeOK, Publish, conns, reader
    <2>2. UnreadKept'
      <3> SUFFICES ASSUME ~met PROVE UnreadKept'
        BY <1>4 DEF Publish, UnreadKept, reader
      <3>1. wt' - rd' \in 0 .. N - 1
        BY <1>4, <1>t DEF Publish, PairInv, UnreadKept, PairTypeOK
      <3>2. \A k \in rd' .. wt' - 1 : k \in rd .. wt - 1 \/ k = wt
        BY <1>4, <1>t DEF Publish, PairTypeOK
      <3> QED BY <1>4, <3>1, <3>2 DEF Publish, PairInv, UnreadKept
    <2> QED BY <1>4, <1>t, <2>1, <2>2 DEF Publish, PairInv, InOrder, InPop, PairTypeOK, conns, reader
  <1>5. ASSUME NEW r \in Readers,
               \/ Connecting(r) \/ Disconnect(r) \/ Uncount(r)
               \/ Recv(r) \/ RecvCheck(r) \/ ConnectTwice(r) \/ PopEmpty(r)
        PROVE  PairInv'
    <2>1. (cc + 1) % CountMod \in 0 .. CountMod - 1 /\ (cc + CountMod - 1) % CountMod \in 0 .. CountMod - 1
      <3>1. cc + 1 \in Nat /\ cc + CountMod - 1 \in Nat /\ CountMod \in Nat \ {0}
        BY <1>t DEF PairTypeOK
      <3> QED BY <3>1, DivMod
    <2>2. PairTypeOK'
      <3>1. CASE Connect(r) \/ ConnectTaken(r)
        BY <3>1, <1>t, <1>f DEF PairTypeOK, Connect, ConnectTaken, Goto, conns, ring, writer
      <3>2. CASE Count(r) \/ Uncount(r)
        BY <3>2, <1>t, <2>1 DEF PairTypeOK, Count, Uncount, Goto, ring, writer
      <3>3. CASE Disconnect(r)
        BY <3>3, <1>t, <1>f DEF PairTypeOK, Disconnect, Goto, ring, writer
      <3>4. CASE Recv(r) \/ RecvCheck(r) \/ ConnectTwice(r) \/ PopEmpty(r)
        BY <3>4, <1>t DEF PairTypeOK, Recv, RecvCheck, ConnectTwice, PopEmpty, Goto, conns, ring, writer
      <3> QED BY <1>5, <3>1, <3>2, <3>3, <3>4 DEF Connecting
    <2>3. /\ UNCHANGED <<ring, item, wpc, cur, met>>
          /\ \A q \in Readers : rpc'[q] = rpc[q] \/ rpc'[q] \notin {"copy", "release"}
      BY <1>5, <1>t DEF PairTypeOK, Connecting, Connect, ConnectTaken, Count, Disconnect, Uncount, Recv,
                        RecvCheck, ConnectTwice, PopEmpty, Goto, conns, ring, writer
    <2> QED BY <2>2, <2>3, Elsewhere
  <1>6. ASSUME NEW r \in Readers, Pop(r) PROVE PairInv'
    <2>1. PairTypeOK'
      BY <1>6, <1>t, <1>f DEF PairTypeOK, Pop, Goto, conns, ring, writer
    <2> SUFFICES ASSUME ~met' PROVE PairInv'
      BY <2>1 DEF PairInv, UnreadKept, InOrder
    <2>2. ~met /\ \A q \in Readers : InPop(q) => q = r
      BY <1>6 DEF Pop
    <2>3. rd < wt
      BY <1>6, <2>2, FullAndEmpty DEF Pop
    <2> QED BY <1>6, <1>t, <2>1, <2>2, <2>3 DEF PairTypeOK, Pop, Goto, PairInv, UnreadKept, InOrder, InPop, conns, ring, writer
  <1>7. ASSUME NEW r \in Readers, Copy(r) PROVE PairInv'
    <2>1. SlotOf(cur[r]) \in Slots
      BY <1>7, <1>t, SlotType DEF PairTypeOK
    <2>2. ~met => data[SlotOf(cur[r])] = rd
      <3> HAVE ~met
      <3>1. cur[r] = rd /\ rd \in rd .. wt - 1
        BY <1>7, <1>t DEF Copy, PairInv, PairTypeOK, InPop
      <3> QED BY <3>1 DEF PairInv, UnreadKept
    <2>3. PairTypeOK'
      BY <1>7, <1>t, <2>1, <2>2 DEF PairTypeOK, Copy, Goto, conns, ring, writer
    <2> QED BY <1>7, <1>t, <2>2, <2>3 DEF PairTypeOK, Copy, Goto, PairInv, UnreadKept, InOrder, InPop, conns, ring, writer
  <1>8. ASSUME NEW r \in Readers, Release(r) PROVE PairInv'
    <2>1. PairTypeOK'
      BY <1>8, <1>t DEF PairTypeOK, Release, Goto, conns, writer
    <2> SUFFICES ASSUME ~met PROVE PairInv'
      BY <1>8, <2>1 DEF Release, PairInv, UnreadKept, InOrder
    <2>2. rd < wt /\ rd' = rd + 1
      BY <1>8 DEF Release, PairInv, InPop
    <2>3. UnreadKept'
      <3>1. wt' - rd' \in 0 .. N - 1
        BY <1>8, <1>t, <2>2 DEF Release, PairInv, UnreadKept, PairTypeOK
      <3>2. \A k \in rd' .. wt' - 1 : k \in rd .. wt - 1
        BY <1>8, <1>t, <2>2 DEF Release, PairTypeOK
      <3> QED BY <1>8, <3>1, <3>2 DEF Release, PairInv, UnreadKept
    <2>4. \A q \in Readers : rpc'[q] \notin {"copy", "release"}
      BY <1>8, <1>t DEF Release, Goto, PairTypeOK, PairInv, InPop
    <2>5. wpc' \in {"fill", "publish"} => wt' - rd' < N - 1
      BY <1>8, <1>t, <2>2 DEF Release, PairInv, PairTypeOK, writer
    <2> QED BY <1>8, <2>1, <2>3, <2>4, <2>5 DEF Release, PairInv, InOrder, InPop, writer
  <1>9. CASE UNCHANGED pairVars
    <2>1. PairTypeOK'
      BY <1>9, <1>t DEF PairTypeOK, pairVars
    <2> QED BY <1>9, <2>1, Elsewhere DEF pairVars, ring
  <1> QED BY <1>1, <1>2, <1>3, <1>4, <1>5, <1>6, <1>7, <1>8, <1>9 DEF PairNext, Writing, Reading

\* The invariant holds.
THEOREM PairInvariance == PairSpec => []PairInv
  BY PairInvInit, PairInvStep, PTL DEF PairSpec

\* The readers of chan<single, single, unicast> get every message once and in
\* order, however often force_push disconnects one or another takes over, as
\* long as two do not meet in pop.
THEOREM PairInOrder == PairSpec => []InOrder
  <1>1. PairInv => InOrder
    BY DEF PairInv
  <1> QED BY <1>1, PairInvariance, PTL

\* Nothing unread is overwritten, and one slot stays empty.
THEOREM PairUnreadKept == PairSpec => []UnreadKept
  <1>1. PairInv => UnreadKept
    BY DEF PairInv
  <1> QED BY <1>1, PairInvariance, PTL

\* Writer and reader are never in the same slot.
THEOREM PairNoDataRace == PairSpec => []NoDataRace
  <1>1. PairInv => NoDataRace
    <2> SUFFICES ASSUME PairInv, ~met, NEW r \in Readers, rpc[r] = "copy", wpc = "fill"
                 PROVE  cur[r] % N # wt % N
      BY DEF NoDataRace, SlotOf
    <2>1. cur[r] \in Nat /\ wt \in Nat /\ cur[r] < wt /\ wt < cur[r] + N
      BY PairAssumption DEF PairInv, PairTypeOK, InPop
    <2> QED BY <2>1, PairAssumption, OtherSlot
  <1> QED BY <1>1, PairInvariance, PTL

-----------------------------------------------------------------------------
\* The handles that cc_ counts, and the handles the flag is set for.
Counted == {r \in Readers : connected[r] # 0 \/ rpc[r] = "uncount"}
HasFlag(r) == connected[r] # 0 \/ rpc[r] = "count"

\* As long as force_push has thrown nobody out, the flag has one owner, cc_ is
\* the number of handles between count and uncount, and only the owner of the
\* flag is in recv, which never finds that it has been disconnected.
Admitted ==
  /\ wpc \notin {"kick", "kickall"}
  /\ cc = Cardinality(Counted)
  /\ \A r \in Readers : HasFlag(r) => flag
  /\ \A r, q \in Readers : HasFlag(r) /\ HasFlag(q) => r = q
  /\ \A r \in Readers : /\ rpc[r] \notin {"reconnect", "recount"}
                        /\ rpc[r] \in {"recv", "pop", "copy", "release"} => connected[r] # 0
                        /\ rpc[r] \in {"count", "uncount"} => connected[r] = 0

\* The set of counted handles is finite and smaller than the range of cc_.
LEMMA CountedFinite ==
  /\ IsFiniteSet(Counted) /\ Cardinality(Counted) \in Nat /\ Cardinality(Counted) < CountMod
  /\ Cardinality(Counted) = 0 <=> Counted = {}
  <1>1. Counted \in SUBSET Readers
    BY DEF Counted
  <1>2. IsFiniteSet(Counted) /\ Cardinality(Counted) <= Cardinality(Readers)
    BY <1>1, PairHandles, FS_Subset
  <1>3. Cardinality(Counted) \in Nat /\ Cardinality(Readers) \in Nat
    BY <1>2, PairHandles, FS_CardinalityType
  <1>4. Cardinality(Counted) = 0 <=> Counted = {}
    BY <1>2, FS_EmptySet
  <1> QED BY <1>2, <1>3, <1>4, PairHandles, PairAssumption

\* A step of one handle that leaves cc_, the flag and the ids alone.
LEMMA AdmittedQuiet ==
  ASSUME Admitted, UNCHANGED <<cc, flag, connected>>, wpc' \notin {"kick", "kickall"},
         \A r \in Readers : \/ rpc'[r] = rpc[r]
                            \/ /\ rpc[r] \notin {"count", "uncount"}
                               /\ rpc'[r] \in {"recv", "pop", "copy", "release", "idle"}
                               /\ rpc'[r] # "idle" => connected[r] # 0
  PROVE  Admitted'
  <1>1. Counted' = Counted
    BY DEF Counted
  <1>2. \A r \in Readers : HasFlag(r)' <=> HasFlag(r)
    BY DEF HasFlag
  <1> QED BY <1>1, <1>2 DEF Admitted

\* receiver_checker admits one handle at a time.
LEMMA AdmittedStep ==
  PairTypeOK /\ PairTypeOK' /\ (forced = 0 => Admitted) /\ [PairNext]_pairVars => (forced' = 0 => Admitted')
  <1> SUFFICES ASSUME PairTypeOK, PairTypeOK', forced = 0 => Admitted, [PairNext]_pairVars, forced' = 0
               PROVE  Admitted'
    OBVIOUS
  <1>0. forced = 0 /\ Admitted
    <2>1. forced \in Nat /\ (forced' = forced \/ forced' = forced + 1)
      BY DEF PairTypeOK, PairNext, pairVars, Send, Writing, PushFull, PushCheck, Fill, Publish, AfterFailure,
             KickFlag, KickAll, Connecting, Connect, ConnectTaken, Count, Disconnect, Uncount, Reading, Recv,
             RecvCheck, ConnectTwice, PopEmpty, Pop, Copy, Release, writer
    <2> QED BY <2>1
  <1>l. \A r \in Readers : connected[r] # 0 => Live(r)
    <2> SUFFICES ASSUME NEW r \in Readers, connected[r] # 0 PROVE cc # 0
      BY DEF Live
    <2>1. r \in Counted
      BY DEF Counted
    <2> QED BY <1>0, <2>1, CountedFinite DEF Admitted
  <1>1. CASE Send \/ PushFull \/ PushCheck \/ Fill \/ Publish \/ AfterFailure
    <2>1. /\ UNCHANGED <<cc, flag, connected, rpc>>
      BY <1>1 DEF Send, PushFull, PushCheck, Fill, Publish, AfterFailure, conns, reader
    <2>2. wpc' \notin {"kick", "kickall"}
      BY <1>0, <1>1 DEF Admitted, Send, PushFull, PushCheck, Fill, Publish, AfterFailure
    <2> QED BY <1>0, <2>1, <2>2, AdmittedQuiet
  <1>2. CASE KickFlag \/ KickAll
    BY <1>0, <1>2 DEF Admitted, KickFlag, KickAll
  <1>3. ASSUME NEW r \in Readers, Connect(r) PROVE Admitted'
    <2>1. /\ rpc[r] = "idle" /\ connected[r] = 0 /\ ~flag /\ flag'
          /\ rpc' = [rpc EXCEPT ![r] = "count"] /\ UNCHANGED <<cc, connected, wpc>>
      BY <1>0, <1>3, <1>l DEF Connect, Goto, writer, Admitted
    <2>2. \A q \in Readers : rpc'[q] = IF q = r THEN "count" ELSE rpc[q]
      BY <2>1 DEF PairTypeOK
    <2>3. Counted' = Counted
      BY <2>1, <2>2 DEF Counted
    <2>4. \A q \in Readers : HasFlag(q)' => q = r
      BY <1>0, <2>1, <2>2 DEF HasFlag, Admitted
    <2> QED BY <1>0, <2>1, <2>2, <2>3, <2>4 DEF Admitted
  <1>4. ASSUME NEW r \in Readers, ConnectTaken(r) PROVE Admitted'
    <2>1. rpc[r] = "idle" /\ connected[r] = 0
      BY <1>0, <1>4, <1>l DEF ConnectTaken, Admitted
    <2>2. UNCHANGED <<cc, flag, wpc, connected>> /\ \A q \in Readers : rpc'[q] = rpc[q]
      BY <1>4, <2>1 DEF ConnectTaken, Goto, conns, writer, PairTypeOK
    <2> QED BY <1>0, <2>2, AdmittedQuiet DEF Admitted
  <1>5. ASSUME NEW r \in Readers, Count(r) PROVE Admitted'
    <2>1. /\ rpc[r] = "count" /\ connected[r] = 0 /\ cc' = (cc + 1) % CountMod
          /\ connected' = [connected EXCEPT ![r] = cc'] /\ rpc' = [rpc EXCEPT ![r] = "idle"]
          /\ UNCHANGED <<flag, wpc>>
      BY <1>0, <1>5 DEF Count, Goto, writer, Admitted
    <2>2. /\ \A q \in Readers : rpc'[q] = IF q = r THEN "idle" ELSE rpc[q]
          /\ \A q \in Readers : connected'[q] = IF q = r THEN cc' ELSE connected[q]
      BY <2>1 DEF PairTypeOK
    <2>3. r \notin Counted
      BY <2>1 DEF Counted
    <2>4. /\ IsFiniteSet(Counted \cup {r})
          /\ Cardinality(Counted \cup {r}) = Cardinality(Counted) + 1
          /\ Cardinality(Counted \cup {r}) < CountMod
      <3>1. IsFiniteSet(Counted \cup {r}) /\ Cardinality(Counted \cup {r}) = Cardinality(Counted) + 1
        BY <2>3, CountedFinite, FS_AddElement
      <3>2. Counted \cup {r} \in SUBSET Readers
        BY DEF Counted
      <3>3. Cardinality(Counted \cup {r}) <= Cardinality(Readers) /\ Cardinality(Readers) \in Nat
        BY <3>2, PairHandles, FS_Subset, FS_CardinalityType
      <3> QED BY <3>1, <3>3, PairHandles, PairAssumption, CountedFinite
    <2>5. cc' = Cardinality(Counted) + 1 /\ cc' # 0
      <3>1. cc + 1 \in Nat /\ cc + 1 < CountMod /\ cc = Cardinality(Counted)
        BY <1>0, <2>4, CountedFinite DEF Admitted
      <3>2. (cc + 1) % CountMod = cc + 1
        BY <3>1, PairAssumption
      <3> QED BY <2>1, <3>1, <3>2, CountedFinite
    <2>6. Counted' = Counted \cup {r}
      BY <2>1, <2>2, <2>5 DEF Counted
    <2>7. \A q \in Readers : HasFlag(q)' <=> HasFlag(q)
      BY <2>1, <2>2, <2>5 DEF HasFlag
    <2> QED BY <1>0, <2>1, <2>2, <2>4, <2>5, <2>6, <2>7 DEF Admitted
  <1>6. ASSUME NEW r \in Readers, Disconnect(r) PROVE Admitted'
    <2>1. /\ connected[r] # 0 /\ connected' = [connected EXCEPT ![r] = 0]
          /\ rpc' = [rpc EXCEPT ![r] = "uncount"] /\ UNCHANGED <<cc, wpc>>
      BY <1>6 DEF Disconnect, Live, Goto, writer
    <2>2. /\ \A q \in Readers : rpc'[q] = IF q = r THEN "uncount" ELSE rpc[q]
          /\ \A q \in Readers : connected'[q] = IF q = r THEN 0 ELSE connected[q]
      BY <2>1 DEF PairTypeOK
    <2>3. Counted' = Counted
      BY <2>1, <2>2 DEF Counted
    <2>4. \A q \in Readers : ~HasFlag(q)'
      BY <1>0, <2>1, <2>2 DEF HasFlag, Admitted
    <2> QED BY <1>0, <2>1, <2>2, <2>3, <2>4 DEF Admitted
  <1>7. ASSUME NEW r \in Readers, Uncount(r) PROVE Admitted'
    <2>1. /\ rpc[r] = "uncount" /\ connected[r] = 0 /\ cc' = (cc + CountMod - 1) % CountMod
          /\ rpc' = [rpc EXCEPT ![r] = "idle"] /\ UNCHANGED <<flag, wpc, connected>>
      BY <1>0, <1>7 DEF Uncount, Goto, writer, Admitted
    <2>2. \A q \in Readers : rpc'[q] = IF q = r THEN "idle" ELSE rpc[q]
      BY <2>1 DEF PairTypeOK
    <2>3. r \in Counted /\ Counted' = Counted \ {r}
      BY <2>1, <2>2 DEF Counted
    <2>4. cc \in Nat \ {0} /\ cc < CountMod /\ Cardinality(Counted \ {r}) = cc - 1
      BY <1>0, <2>3, CountedFinite, FS_RemoveElement DEF Admitted
    <2>5. cc' = cc - 1
      <3>1. cc - 1 \in Nat /\ CountMod \in Nat \ {0} /\ cc + CountMod - 1 = (cc - 1) + CountMod
        BY <2>4, PairAssumption
      <3>2. ((cc - 1) + CountMod) % CountMod = (cc - 1) % CountMod
        BY <3>1, SameSlot
      <3>3. (cc - 1) % CountMod = cc - 1
        BY <2>4, <3>1
      <3> QED BY <2>1, <3>1, <3>2, <3>3
    <2>6. \A q \in Readers : HasFlag(q)' <=> HasFlag(q)
      BY <2>1, <2>2 DEF HasFlag
    <2> QED BY <1>0, <2>1, <2>2, <2>3, <2>4, <2>5, <2>6 DEF Admitted
  <1>8. ASSUME NEW r \in Readers, Reading(r) PROVE Admitted'
    <2>1. UNCHANGED <<cc, flag, connected, wpc>>
      BY <1>8 DEF Reading, Recv, RecvCheck, ConnectTwice, PopEmpty, Pop, Copy, Release, conns, writer
    <2>2. /\ \A q \in Readers : q # r => rpc'[q] = rpc[q]
          /\ rpc[r] \notin {"count", "uncount"}
          /\ rpc'[r] \in {"recv", "pop", "copy", "release", "idle"}
          /\ rpc'[r] # "idle" => connected[r] # 0
      BY <1>0, <1>8, <1>l DEF Admitted, PairTypeOK, Reading, Recv, RecvCheck, ConnectTwice, PopEmpty, Pop, Copy,
                              Release, Goto, Live
    <2> QED BY <1>0, <2>1, <2>2, AdmittedQuiet DEF Admitted
  <1>9. CASE UNCHANGED pairVars
    BY <1>0, <1>9, AdmittedQuiet DEF pairVars, Admitted
  <1> QED BY <1>1, <1>2, <1>3, <1>4, <1>5, <1>6, <1>7, <1>8, <1>9 DEF PairNext, Writing, Connecting

\* receiver_checker does its work, for any number of handles that cc_ can
\* count: until force_push throws a reader out, two handles are never in pop at
\* the same time, and when nobody is left cc_ is 0 again, so that send fails.
THEOREM PairOneReader == PairSpec => []OneReader
  <1>1. PairInit => (forced = 0 => Admitted)
    <2> SUFFICES ASSUME PairInit PROVE Admitted
      OBVIOUS
    <2>1. Counted = {} /\ \A r \in Readers : ~HasFlag(r)
      BY DEF PairInit, Counted, HasFlag
    <2> QED BY <2>1, FS_EmptySet DEF PairInit, Admitted
  <1>2. PairInv => PairTypeOK
    BY DEF PairInv
  <1>3. PairInv /\ PairInv' /\ (forced = 0 => Admitted) /\ [PairNext]_pairVars => (forced = 0 => Admitted)'
    BY AdmittedStep DEF PairInv
  <1>4. (forced = 0 => Admitted) => OneReader
    <2> SUFFICES ASSUME Admitted PROVE OneReader
      BY DEF OneReader
    <2>1. \A r, q \in Readers : InPop(r) /\ InPop(q) => r = q
      BY DEF Admitted, InPop, HasFlag
    <2>2. ASSUME \A r \in Readers : rpc[r] = "idle" /\ connected[r] = 0 PROVE cc = 0
      <3>1. Counted = {}
        BY <2>2 DEF Counted
      <3> QED BY <3>1, FS_EmptySet DEF Admitted
    <2> QED BY <2>1, <2>2 DEF OneReader
  <1> QED BY <1>1, <1>3, <1>4, PairInvariance, PTL DEF PairSpec

-----------------------------------------------------------------------------
(* Messages in fragments. *)

\* The receiver's thread reads from one channel.
OneChannel == \E c : Channels = {c}
Chan == CHOOSE c \in Channels : TRUE
Q == queue[Chan]
Msg(i) == <<Chan, i>>
Bytes(i) == size[Msg(i)]

\* Where the pieces of a message of n bytes begin.
Aligned(o) == \E x \in Nat : o = DataLength * x
Offsets(n) == {o \in 0 .. n - 1 : Aligned(o)}

PieceAt(i, o) ==
  LET n == Bytes(i)
      k == IF n - o < DataLength THEN n - o ELSE DataLength
  IN  [id |-> i, remain |-> n - o - DataLength, data |-> [x \in 1 .. k |-> Byte(Msg(i), o + x)]]

Begun == 0 .. acc[Chan] - 1
Busy(s, i) == out[s] # Idle /\ out[s].id = i
Returned(i) == \E k \in DOMAIN ret : ret[k].id = i

\* The piece at o is pushed; it is received.
Sent(i, o) == \A s \in Senders : Busy(s, i) => o < out[s].offset
Recd(i, o) == IF i \in DOMAIN rc THEN o < rc[i].fill ELSE Returned(i)

InQ(i, o) == \E k \in DOMAIN Q : Q[k] = PieceAt(i, o)

\* A sequence, whatever it is made of.
IsSeq(q) == \E S : q \in Seq(S)

FragTypeOK ==
  /\ acc \in [Channels -> Nat] /\ joined \subseteq Channels
  /\ size \in [Channels \X MsgId -> Nat] /\ acc[Chan] <= MaxMsg
  /\ out \in [Senders -> [chan : Channels \cup {"none"}, id : Nat, offset : Nat]]
  /\ \A i \in Begun : Bytes(i) > 0
  /\ DOMAIN rc \subseteq Begun /\ IsSeq(Q) /\ IsSeq(ret) /\ DOMAIN queue = Channels

\* A sender is at the next piece of a message that is its own.
SenderOK(s) == out[s] # Idle =>
  /\ out[s].chan = Chan /\ out[s].id \in Begun
  /\ out[s].offset \in Offsets(Bytes(out[s].id))
  /\ \A t \in Senders : Busy(t, out[s].id) => t = s

\* What is in the ring are pieces, those of a message in order, and the last
\* one only when its sender is done.
QueueOK ==
  /\ \A k \in DOMAIN Q : Q[k].id \in Begun /\ \E o \in Offsets(Bytes(Q[k].id)) : Q[k] = PieceAt(Q[k].id, o)
  /\ \A j, k \in DOMAIN Q : j < k /\ Q[j].id = Q[k].id => Q[j].remain > Q[k].remain /\ Q[j].remain > 0
  /\ \A k \in DOMAIN Q : \A s \in Senders : Busy(s, Q[k].id) =>
       Q[k].remain > 0 /\ Q[k].remain > Bytes(Q[k].id) - out[s].offset - DataLength

RetOK ==
  /\ \A k \in DOMAIN ret : ret[k].chan = Chan /\ ret[k].id \in Begun
  /\ \A k \in DOMAIN ret : Msg(ret[k].id) \notin missed => ret[k].buff = Whole(Msg(ret[k].id))
  /\ \A j, k \in DOMAIN ret : ret[j].id = ret[k].id => j = k
  /\ \A k \in DOMAIN ret : /\ \A s \in Senders : ~Busy(s, ret[k].id)
                           /\ \A j \in DOMAIN Q : Q[j].id = ret[k].id => Q[j].remain > 0

\* Of a message that is not missed, the ring has the pieces that are pushed
\* and not received, and the cache what is received.
MsgOK(i) ==
  /\ \A o \in Offsets(Bytes(i)) :
       /\ (Sent(i, o) /\ ~Recd(i, o)) <=> InQ(i, o)
       /\ Recd(i, o) => Sent(i, o)
  /\ i \in DOMAIN rc =>
       /\ rc[i].fill \in Offsets(Bytes(i)) /\ rc[i].fill > 0
       /\ Len(rc[i].buff) = Bytes(i)
       /\ \A x \in 1 .. rc[i].fill : rc[i].buff[x] = Byte(Msg(i), x)

FragInv ==
  /\ FragTypeOK /\ QueueOK /\ RetOK
  /\ \A s \in Senders : SenderOK(s)
  /\ \A i \in Begun : Msg(i) \notin missed => MsgOK(i)

\* Pieces begin at 0, each DataLength after the one before it.
LEMMA Pieces ==
  /\ Aligned(0)
  /\ \A o \in Nat : Aligned(o) => Aligned(o + DataLength)
  /\ \A o, p \in Nat : Aligned(o) /\ Aligned(p) /\ o < p => o + DataLength <= p
<1>0. DataLength \in Nat \ {0}
  BY FragmentsAssumption
<1>1. Aligned(0)
  <2>1. 0 = DataLength * 0
    BY <1>0, Z3
  <2> QED BY <2>1 DEF Aligned
<1>2. ASSUME NEW o \in Nat, Aligned(o) PROVE Aligned(o + DataLength)
  <2>1. PICK x \in Nat : o = DataLength * x
    BY <1>2 DEF Aligned
  <2>2. o + DataLength = DataLength * (x + 1) /\ x + 1 \in Nat
    BY <1>0, <2>1, Z3
  <2> QED BY <2>2 DEF Aligned
<1>3. ASSUME NEW o \in Nat, NEW p \in Nat, Aligned(o), Aligned(p), o < p PROVE o + DataLength <= p
  <2>1. PICK x \in Nat : o = DataLength * x
    BY <1>3 DEF Aligned
  <2>2. PICK y \in Nat : p = DataLength * y
    BY <1>3 DEF Aligned
  <2>3. x < y
    <3> SUFFICES ASSUME y <= x PROVE FALSE
      BY SMT
    <3>1. DataLength * y <= DataLength * x
      BY <1>0, Z3
    <3> QED BY <1>3, <2>1, <2>2, <3>1
  <2>4. DataLength * (x + 1) <= DataLength * y
    BY <1>0, <2>3, Z3
  <2>5. DataLength * (x + 1) = DataLength * x + DataLength
    BY <1>0, Z3
  <2> QED BY <2>1, <2>2, <2>4, <2>5
<1> QED BY <1>1, <1>2, <1>3

\* A queue that grows at the end.
LEMMA AppendIs ==
  ASSUME NEW q, IsSeq(q), NEW e
  PROVE  /\ Len(q) \in Nat /\ DOMAIN q = 1 .. Len(q) /\ IsSeq(Append(q, e))
         /\ DOMAIN Append(q, e) = 1 .. Len(q) + 1 /\ Append(q, e)[Len(q) + 1] = e
         /\ \A k \in 1 .. Len(q) : Append(q, e)[k] = q[k]
<1>1. PICK S : q \in Seq(S)
  BY DEF IsSeq
<1>2. q \in Seq(S \cup {e}) /\ Append(q, e) \in Seq(S \cup {e})
  BY <1>1
<1> QED BY <1>1, <1>2 DEF IsSeq

\* A queue that loses its head.
LEMMA TailIs ==
  ASSUME NEW q, IsSeq(q), q # <<>>
  PROVE  /\ Len(q) \in Nat \ {0} /\ DOMAIN q = 1 .. Len(q) /\ IsSeq(Tail(q)) /\ Head(q) = q[1]
         /\ DOMAIN Tail(q) = 1 .. Len(q) - 1
         /\ \A k \in 1 .. Len(q) - 1 : Tail(q)[k] = q[k + 1]
<1>1. PICK S : q \in Seq(S)
  BY DEF IsSeq
<1>2. Len(q) \in Nat \ {0} /\ Tail(q) \in Seq(S) /\ Len(Tail(q)) = Len(q) - 1
  BY <1>1
<1> QED BY <1>1, <1>2 DEF IsSeq

\* The empty queue.
LEMMA EmptyIs == IsSeq(<<>>) /\ DOMAIN <<>> = {}
<1>1. <<>> \in Seq({})
  OBVIOUS
<1> QED BY <1>1 DEF IsSeq

\* The channel.
LEMMA ChanIs ==
  ASSUME OneChannel
  PROVE  Channels = {Chan} /\ Chan \in Channels /\ Chan # "none"
BY FragmentsAssumption DEF OneChannel, Chan

\* The fields of a piece, and which piece it is.
LEMMA PieceIs ==
  ASSUME NEW i, NEW o \in Nat, Bytes(i) \in Nat, o < Bytes(i)
  PROVE  LET m == PieceAt(i, o)
             k == IF Bytes(i) - o < DataLength THEN Bytes(i) - o ELSE DataLength IN
         /\ m.id = i /\ m.remain = Bytes(i) - o - DataLength
         /\ Len(m.data) = k /\ k \in Nat /\ \A x \in 1 .. k : m.data[x] = Byte(Msg(i), o + x)
<1> DEFINE k == IF Bytes(i) - o < DataLength THEN Bytes(i) - o ELSE DataLength
<1>0. DataLength \in Nat \ {0}
  BY FragmentsAssumption
<1>1. k \in Nat
  BY <1>0
<1> DEFINE d == [x \in 1 .. k |-> Byte(Msg(i), o + x)]
<1> HIDE DEF k
<1>2. Len(d) = k
  BY <1>1
<1>3. \A x \in 1 .. k : d[x] = Byte(Msg(i), o + x)
  OBVIOUS
<1>4. PieceAt(i, o) = [id |-> i, remain |-> Bytes(i) - o - DataLength, data |-> d]
  BY DEF PieceAt, k
<1> HIDE DEF d
<1> QED BY <1>1, <1>2, <1>3, <1>4 DEF k

\* The fields alone.
LEMMA PieceHead ==
  ASSUME NEW i, NEW o \in Nat, Bytes(i) \in Nat, o < Bytes(i)
  PROVE  PieceAt(i, o).id = i /\ PieceAt(i, o).remain = Bytes(i) - o - DataLength
BY PieceIs

\* Two pieces that are the same begin at the same place.
LEMMA SamePiece ==
  ASSUME NEW i, NEW j, NEW o \in Nat, NEW p \in Nat, Bytes(i) \in Nat, Bytes(j) \in Nat,
         o < Bytes(i), p < Bytes(j), PieceAt(i, o) = PieceAt(j, p)
  PROVE  i = j /\ o = p
<1>1. PieceAt(i, o).id = i /\ PieceAt(i, o).remain = Bytes(i) - o - DataLength
  BY PieceIs
<1>2. PieceAt(j, p).id = j /\ PieceAt(j, p).remain = Bytes(j) - p - DataLength
  BY PieceIs
<1> QED BY <1>1, <1>2, FragmentsAssumption

\* Numbers that the invariant gives.
LEMMA FragFacts ==
  ASSUME OneChannel, FragInv
  PROVE  /\ acc[Chan] \in Nat /\ Begun \subseteq MsgId /\ DataLength \in Nat \ {0}
         /\ \A i \in Begun : i \in Nat /\ Bytes(i) \in Nat \ {0} /\ 0 \in Offsets(Bytes(i))
         /\ IsSeq(Q) /\ Len(Q) \in Nat /\ DOMAIN Q = 1 .. Len(Q)
         /\ IsSeq(ret) /\ Len(ret) \in Nat /\ DOMAIN ret = 1 .. Len(ret)
         /\ \A n : \A o \in Offsets(n) : o \in Nat
<1>1. acc[Chan] \in Nat /\ acc[Chan] <= MaxMsg /\ MaxMsg \in Nat /\ DataLength \in Nat \ {0} /\ Chan \in Channels
  BY ChanIs, FragmentsAssumption DEF FragInv, FragTypeOK
<1>2. Begun \subseteq MsgId /\ \A i \in Begun : i \in Nat
  BY <1>1 DEF Begun, MsgId
<1>3. ASSUME NEW i \in Begun PROVE Bytes(i) \in Nat \ {0} /\ 0 \in Offsets(Bytes(i))
  <2>1. Msg(i) \in Channels \X MsgId
    BY <1>1, <1>2 DEF Msg
  <2>2. Bytes(i) \in Nat /\ Bytes(i) > 0
    BY <2>1 DEF FragInv, FragTypeOK, Bytes
  <2> QED BY <2>2, Pieces DEF Offsets
<1>4. IsSeq(Q) /\ IsSeq(ret)
  BY DEF FragInv, FragTypeOK
<1>5. \A n : \A o \in Offsets(n) : o \in Nat
  BY DEF Offsets
<1> QED BY <1>1, <1>2, <1>3, <1>4, <1>5, AppendIs

\* What the head of the ring is, for the message it belongs to.
LEMMA HeadIs ==
  ASSUME OneChannel, FragInv, Q # <<>>, NEW i, i = Q[1].id, NEW o \in Offsets(Bytes(i)), Q[1] = PieceAt(i, o),
         Msg(i) \notin missed
  PROVE  /\ i \in DOMAIN rc => o = rc[i].fill
         /\ i \notin DOMAIN rc => o = 0 /\ ~Returned(i)
         /\ Sent(i, o) /\ ~Recd(i, o) /\ MsgOK(i)
<1>f. /\ Len(Q) \in Nat \ {0} /\ DOMAIN Q = 1 .. Len(Q) /\ 1 \in DOMAIN Q
  <2>1. Len(Q) \in Nat \ {0} /\ DOMAIN Q = 1 .. Len(Q)
    BY FragFacts, TailIs
  <2> QED BY <2>1
<1>1. i \in Begun /\ MsgOK(i)
  <2>1. i \in Begun
    BY <1>f DEF FragInv, QueueOK
  <2> QED BY <2>1 DEF FragInv
<1>2. Bytes(i) \in Nat \ {0} /\ 0 \in Offsets(Bytes(i)) /\ o \in Nat /\ o < Bytes(i) /\ DataLength \in Nat \ {0}
  BY <1>1, FragFacts DEF Offsets
<1>3. InQ(i, o)
  BY <1>f DEF InQ
<1>4. Sent(i, o) /\ ~Recd(i, o)
  BY <1>1, <1>3 DEF MsgOK
<1>5. ASSUME NEW f \in Offsets(Bytes(i)), f <= o, ~Recd(i, f) PROVE f = o
  <2>1. f \in Nat /\ f < Bytes(i)
    BY <1>2 DEF Offsets
  <2>2. Sent(i, f)
    <3> SUFFICES ASSUME NEW s \in Senders, Busy(s, i) PROVE f < out[s].offset
      BY DEF Sent
    <3>1. o < out[s].offset /\ out[s].offset \in Nat
      BY <1>4 DEF Sent, FragInv, FragTypeOK
    <3> QED BY <1>2, <1>5, <2>1, <3>1
  <2>3. PICK k \in DOMAIN Q : Q[k] = PieceAt(i, f)
    BY <1>1, <1>5, <2>2 DEF MsgOK, InQ
  <2>4. Q[k].id = i /\ Q[k].remain = Bytes(i) - f - DataLength
    <3>1. PieceAt(i, f).id = i /\ PieceAt(i, f).remain = Bytes(i) - f - DataLength
      BY <1>2, <2>1, PieceHead
    <3> QED BY <2>3, <3>1
  <2>5. Q[1].remain = Bytes(i) - o - DataLength
    BY <1>2, PieceHead
  <2>6. CASE k = 1
    <3>1. Bytes(i) - f - DataLength = Bytes(i) - o - DataLength
      BY <2>4, <2>5, <2>6
    <3> QED BY <1>2, <2>1, <3>1
  <2>7. CASE k # 1
    <3>1. 1 < k /\ 1 \in DOMAIN Q
      BY <1>f, <2>7
    <3>2. Q[1].remain > Q[k].remain
      BY <2>4, <3>1 DEF FragInv, QueueOK
    <3>3. Bytes(i) - o - DataLength > Bytes(i) - f - DataLength
      BY <2>4, <2>5, <3>2
    <3> QED BY <1>2, <1>5, <2>1, <3>3
  <2> QED BY <2>6, <2>7
<1>6. ASSUME i \in DOMAIN rc PROVE o = rc[i].fill
  <2>1. rc[i].fill \in Offsets(Bytes(i)) /\ rc[i].fill \in Nat
    BY <1>1, <1>6, FragFacts DEF MsgOK
  <2>2. rc[i].fill <= o /\ ~Recd(i, rc[i].fill)
    BY <1>2, <1>4, <1>6, <2>1 DEF Recd
  <2> QED BY <1>5, <2>1, <2>2
<1>7. ASSUME i \notin DOMAIN rc PROVE o = 0 /\ ~Returned(i)
  <2>1. ~Returned(i)
    BY <1>4, <1>7 DEF Recd
  <2>2. ~Recd(i, 0)
    BY <1>7, <2>1 DEF Recd
  <2> QED BY <1>2, <1>5, <2>1, <2>2
<1> QED BY <1>1, <1>4, <1>6, <1>7

\* The ring without its head.
LEMMA RecvQueue ==
  ASSUME OneChannel, FragInv, Q # <<>>, queue' = [queue EXCEPT ![Chan] = Tail(@)],
         UNCHANGED <<acc, out, size>>,
         NEW i, i = Q[1].id, NEW o \in Offsets(Bytes(i)), Q[1] = PieceAt(i, o)
  PROVE  /\ Q' = Tail(Q) /\ IsSeq(Q)' /\ QueueOK' /\ DOMAIN queue' = Channels
         /\ \A s \in Senders : SenderOK(s)'
         /\ \A j \in Begun : \A p \in Offsets(Bytes(j)) : InQ(j, p)' <=> InQ(j, p) /\ ~(j = i /\ p = o)
         /\ \A k \in DOMAIN Q' : \E l \in DOMAIN Q : l > 1 /\ Q'[k] = Q[l]
<1>f. /\ Len(Q) \in Nat \ {0} /\ DOMAIN Q = 1 .. Len(Q) /\ IsSeq(Tail(Q))
      /\ DOMAIN Tail(Q) = 1 .. Len(Q) - 1 /\ \A k \in 1 .. Len(Q) - 1 : Tail(Q)[k] = Q[k + 1]
  BY FragFacts, TailIs
<1>h. 1 \in DOMAIN Q
  BY <1>f
<1>1. Q' = Tail(Q) /\ DOMAIN queue' = Channels
  BY ChanIs DEF FragInv, FragTypeOK, Q
<1>2. IsSeq(Q')
  BY <1>f, <1>1
<1>3. \A k \in DOMAIN Q' : k + 1 \in DOMAIN Q /\ k + 1 > 1 /\ Q'[k] = Q[k + 1] /\ k \in Nat
  BY <1>f, <1>1
<1>4. \A l \in DOMAIN Q : l > 1 => l - 1 \in DOMAIN Q' /\ Q'[l - 1] = Q[l]
  <2> SUFFICES ASSUME NEW l \in DOMAIN Q, l > 1 PROVE l - 1 \in DOMAIN Q' /\ Q'[l - 1] = Q[l]
    OBVIOUS
  <2>1. l - 1 \in 1 .. Len(Q) - 1 /\ (l - 1) + 1 = l
    BY <1>f
  <2> QED BY <1>f, <1>1, <2>1
<1>5. /\ Begun' = Begun /\ (\A j : Bytes(j)' = Bytes(j)) /\ \A s, j : Busy(s, j)' <=> Busy(s, j)
  BY DEF Begun, Bytes, Busy, Msg
<1>6. \A j, p : PieceAt(j, p)' = PieceAt(j, p)
  BY <1>5 DEF PieceAt, Msg, Byte
<1>7. QueueOK'
  <2>1. \A k \in DOMAIN Q' : Q'[k].id \in Begun /\ \E p \in Offsets(Bytes(Q'[k].id)) : Q'[k] = PieceAt(Q'[k].id, p)
    BY <1>3 DEF FragInv, QueueOK
  <2>2. \A j, k \in DOMAIN Q' : j < k /\ Q'[j].id = Q'[k].id => Q'[j].remain > Q'[k].remain /\ Q'[j].remain > 0
    <3> SUFFICES ASSUME NEW j \in DOMAIN Q', NEW k \in DOMAIN Q', j < k, Q'[j].id = Q'[k].id
                 PROVE  Q'[j].remain > Q'[k].remain /\ Q'[j].remain > 0
      OBVIOUS
    <3>1. j + 1 < k + 1
      BY <1>3
    <3> QED BY <1>3, <3>1 DEF FragInv, QueueOK
  <2>3. \A k \in DOMAIN Q' : \A s \in Senders : Busy(s, Q'[k].id) =>
          Q'[k].remain > 0 /\ Q'[k].remain > Bytes(Q'[k].id) - out[s].offset - DataLength
    BY <1>3 DEF FragInv, QueueOK
  <2> QED BY <1>5, <1>6, <2>1, <2>2, <2>3 DEF QueueOK
<1>8. ASSUME NEW s \in Senders PROVE SenderOK(s)'
  BY <1>5 DEF FragInv, SenderOK
<1>9. ASSUME NEW j \in Begun, NEW p \in Offsets(Bytes(j))
      PROVE  InQ(j, p)' <=> InQ(j, p) /\ ~(j = i /\ p = o)
  <2>0. /\ Bytes(j) \in Nat /\ p \in Nat /\ p < Bytes(j) /\ DataLength \in Nat
        /\ Bytes(i) \in Nat /\ o \in Nat /\ o < Bytes(i)
    <3>1. i \in Begun
      BY <1>h DEF FragInv, QueueOK
    <3> QED BY <3>1, FragFacts DEF Offsets
  <2>1. ASSUME NEW k \in DOMAIN Q', Q'[k] = PieceAt(j, p) PROVE InQ(j, p) /\ ~(j = i /\ p = o)
    <3>1. InQ(j, p)
      BY <1>3, <2>1 DEF InQ
    <3>2. ASSUME j = i, p = o PROVE FALSE
      <4>1. Q[k + 1] = Q[1] /\ 1 < k + 1 /\ 1 \in DOMAIN Q /\ k + 1 \in DOMAIN Q
        BY <1>f, <1>3, <2>1, <3>2
      <4>2. Q[1].remain > Q[1].remain
        BY <4>1 DEF FragInv, QueueOK
      <4>3. Q[1].remain = Bytes(i) - o - DataLength
        BY <2>0, PieceHead
      <4>4. Bytes(i) - o - DataLength > Bytes(i) - o - DataLength
        BY <4>2, <4>3
      <4> QED BY <2>0, <4>4
    <3> QED BY <3>1, <3>2
  <2>2. ASSUME NEW l \in DOMAIN Q, Q[l] = PieceAt(j, p), ~(j = i /\ p = o) PROVE InQ(j, p)'
    <3>1. l # 1
      BY <2>0, <2>2, SamePiece
    <3>2. l > 1
      BY <1>f, <3>1
    <3> QED BY <1>4, <1>6, <2>2, <3>2 DEF InQ
  <2> QED BY <1>6, <2>1, <2>2 DEF InQ
<1> QED BY <1>1, <1>2, <1>3, <1>7, <1>8, <1>9

\* What recv returns joins the others.
LEMMA RecvRet ==
  ASSUME OneChannel, FragInv, Q # <<>>, queue' = [queue EXCEPT ![Chan] = Tail(@)],
         UNCHANGED <<acc, out, size>>, missed \subseteq missed',
         NEW i, i = Q[1].id, NEW o \in Offsets(Bytes(i)), Q[1] = PieceAt(i, o),
         Q[1].remain <= 0, NEW b, Msg(i) \notin missed => b = Whole(Msg(i)),
         ret' = Append(ret, [chan |-> Chan, id |-> i, buff |-> b])
  PROVE  /\ RetOK' /\ IsSeq(ret') /\ \A j : Returned(j)' <=> Returned(j) \/ j = i
         /\ ~Returned(i) /\ \A s \in Senders : ~Busy(s, i)
<1> DEFINE e == [chan |-> Chan, id |-> i, buff |-> b]
<1>f. Len(Q) \in Nat \ {0} /\ DOMAIN Q = 1 .. Len(Q)
  BY FragFacts, TailIs
<1>h. 1 \in DOMAIN Q
  BY <1>f
<1>r. /\ Len(ret) \in Nat /\ DOMAIN ret = 1 .. Len(ret) /\ IsSeq(ret')
      /\ DOMAIN ret' = 1 .. Len(ret) + 1 /\ ret'[Len(ret) + 1] = e
      /\ \A k \in 1 .. Len(ret) : ret'[k] = ret[k]
  <2>1. IsSeq(ret)
    BY FragFacts
  <2>2. /\ Len(ret) \in Nat /\ DOMAIN ret = 1 .. Len(ret) /\ IsSeq(Append(ret, e))
        /\ DOMAIN Append(ret, e) = 1 .. Len(ret) + 1 /\ Append(ret, e)[Len(ret) + 1] = e
        /\ \A k \in 1 .. Len(ret) : Append(ret, e)[k] = ret[k]
    <3> HIDE DEF e
    <3> QED BY <2>1, AppendIs
  <2>3. ret' = Append(ret, e)
    OBVIOUS
  <2> HIDE DEF e
  <2> QED BY <2>2, <2>3
<1>e. e.chan = Chan /\ e.id = i /\ e.buff = b
  OBVIOUS
<1> HIDE DEF e
<1>q. \A k \in DOMAIN Q' : \E l \in DOMAIN Q : l > 1 /\ Q'[k] = Q[l]
  BY RecvQueue
<1>m. Q[1].remain \in Int
  <2>1. i \in Begun
    BY <1>h DEF FragInv, QueueOK
  <2>2. Bytes(i) \in Nat /\ o \in Nat /\ o < Bytes(i) /\ DataLength \in Nat
    BY <2>1, FragFacts DEF Offsets
  <2>3. Q[1].remain = Bytes(i) - o - DataLength
    BY <2>2, PieceHead
  <2>4. Bytes(i) - o - DataLength \in Int
    BY <2>2
  <2> QED BY <2>3, <2>4
<1>z. ~(Q[1].remain > 0)
  BY <1>m
<1>1. i \in Begun /\ \A s \in Senders : ~Busy(s, i)
  BY <1>h, <1>z DEF FragInv, QueueOK
<1>2. \A k \in DOMAIN ret : ret[k].id # i
  BY <1>h, <1>z DEF FragInv, RetOK
<1>3. \A l \in DOMAIN Q : l > 1 => Q[l].id # i
  BY <1>h, <1>z DEF FragInv, QueueOK
<1>4. \A k \in DOMAIN ret' : k \in DOMAIN ret \/ k = Len(ret) + 1
  BY <1>r
<1>5. Begun' = Begun /\ Whole(Msg(i))' = Whole(Msg(i)) /\ \A s, j : Busy(s, j)' <=> Busy(s, j)
  BY DEF Begun, Whole, Busy, Msg
<1>w. \A m : Whole(m)' = Whole(m)
  BY DEF Whole
<1>6. \A k \in DOMAIN ret' : ret'[k].chan = Chan /\ ret'[k].id \in Begun
  BY <1>r, <1>e, <1>1, <1>4 DEF FragInv, RetOK
<1>7. \A k \in DOMAIN ret' : Msg(ret'[k].id) \notin missed' => ret'[k].buff = Whole(Msg(ret'[k].id))
  BY <1>r, <1>e, <1>4 DEF FragInv, RetOK
<1>8. \A j, k \in DOMAIN ret' : ret'[j].id = ret'[k].id => j = k
  <2> SUFFICES ASSUME NEW j \in DOMAIN ret', NEW k \in DOMAIN ret', ret'[j].id = ret'[k].id PROVE j = k
    OBVIOUS
  <2>1. CASE j \in DOMAIN ret /\ k \in DOMAIN ret
    <3>1. ret[j].id = ret[k].id
      BY <1>r, <2>1
    <3> QED BY <2>1, <3>1 DEF FragInv, RetOK
  <2>2. CASE j \in DOMAIN ret /\ k = Len(ret) + 1
    BY <1>r, <1>e, <1>2, <2>2
  <2>3. CASE k \in DOMAIN ret /\ j = Len(ret) + 1
    BY <1>r, <1>e, <1>2, <2>3
  <2> QED BY <1>4, <2>1, <2>2, <2>3
<1>9. \A k \in DOMAIN ret' : /\ \A s \in Senders : ~Busy(s, ret'[k].id)
                             /\ \A j \in DOMAIN Q' : Q'[j].id = ret'[k].id => Q'[j].remain > 0
  <2> SUFFICES ASSUME NEW k \in DOMAIN ret'
               PROVE  /\ \A s \in Senders : ~Busy(s, ret'[k].id)
                      /\ \A j \in DOMAIN Q' : Q'[j].id = ret'[k].id => Q'[j].remain > 0
    OBVIOUS
  <2>1. CASE k \in DOMAIN ret
    <3>1. ret'[k] = ret[k]
      BY <1>r, <2>1
    <3> QED BY <1>q, <2>1, <3>1 DEF FragInv, RetOK
  <2>2. CASE k = Len(ret) + 1
    BY <1>r, <1>e, <1>q, <1>1, <1>3, <2>2
  <2> QED BY <1>4, <2>1, <2>2
<1>10. RetOK'
  <2>1. (\A k \in DOMAIN ret : \A s \in Senders : ~Busy(s, ret[k].id))'
    BY <1>9 DEF Busy
  <2>2. (\A k \in DOMAIN ret : Msg(ret[k].id) \notin missed => ret[k].buff = Whole(Msg(ret[k].id)))'
    BY <1>7 DEF Whole, Msg
  <2> QED BY <1>5, <1>6, <1>8, <1>9, <2>1, <2>2 DEF RetOK
<1>11. \A j : Returned(j)' <=> Returned(j) \/ j = i
  <2> SUFFICES ASSUME NEW j PROVE Returned(j)' <=> Returned(j) \/ j = i
    OBVIOUS
  <2>1. ASSUME NEW k \in DOMAIN ret', ret'[k].id = j PROVE Returned(j) \/ j = i
    BY <1>r, <1>e, <1>4, <2>1 DEF Returned
  <2>2. ASSUME NEW k \in DOMAIN ret, ret[k].id = j PROVE Returned(j)'
    <3>1. k \in DOMAIN ret' /\ ret'[k] = ret[k]
      BY <1>r
    <3> QED BY <2>2, <3>1 DEF Returned
  <2>3. Len(ret) + 1 \in DOMAIN ret' /\ ret'[Len(ret) + 1].id = i
    BY <1>r, <1>e
  <2> QED BY <2>1, <2>2, <2>3 DEF Returned
<1> QED BY <1>r, <1>1, <1>2, <1>10, <1>11 DEF Returned

\* The messages, when recv has taken the piece of i at o.
LEMMA RecvMsgs ==
  ASSUME OneChannel, FragInv, Q # <<>>, queue' = [queue EXCEPT ![Chan] = Tail(@)],
         UNCHANGED <<acc, out, size>>, missed \subseteq missed',
         NEW i, i = Q[1].id, NEW o \in Offsets(Bytes(i)), Q[1] = PieceAt(i, o),
         \A j \in Begun : j # i /\ Msg(j) \notin missed' =>
           /\ j \in DOMAIN rc' <=> j \in DOMAIN rc
           /\ j \in DOMAIN rc => rc'[j] = rc[j],
         \A j : j # i => (Returned(j)' <=> Returned(j)),
         Msg(i) \notin missed =>
           /\ \A p \in Offsets(Bytes(i)) : Recd(i, p)' <=> Recd(i, p) \/ p = o
           /\ i \in DOMAIN rc' =>
                /\ rc'[i].fill \in Offsets(Bytes(i)) /\ rc'[i].fill > 0
                /\ Len(rc'[i].buff) = Bytes(i)
                /\ \A x \in 1 .. rc'[i].fill : rc'[i].buff[x] = Byte(Msg(i), x)
  PROVE  \A j \in Begun' : Msg(j) \notin missed' => MsgOK(j)'
<1>5. /\ Begun' = Begun /\ \A j : (Bytes(j)' = Bytes(j)) /\ \A p : Sent(j, p)' <=> Sent(j, p)
  BY DEF Begun, Bytes, Sent, Busy, Msg
<1>q. \A j \in Begun : \A p \in Offsets(Bytes(j)) : InQ(j, p)' <=> InQ(j, p) /\ ~(j = i /\ p = o)
  BY RecvQueue
<1> SUFFICES ASSUME NEW j \in Begun, Msg(j) \notin missed' PROVE MsgOK(j)'
  BY <1>5 DEF Msg
<1>1. MsgOK(j)
  BY DEF FragInv
<1>2. CASE j # i
  <2>1. \A p \in Offsets(Bytes(j)) : InQ(j, p)' <=> InQ(j, p)
    BY <1>2, <1>q
  <2>2. \A p : Recd(j, p)' <=> Recd(j, p)
    BY <1>2 DEF Recd
  <2>3. \A p \in Offsets(Bytes(j)) : /\ (Sent(j, p) /\ ~Recd(j, p))' <=> InQ(j, p)'
                                     /\ Recd(j, p)' => Sent(j, p)'
    BY <1>1, <1>5, <2>1, <2>2 DEF MsgOK
  <2>4. j \in DOMAIN rc' =>
          /\ rc'[j].fill \in Offsets(Bytes(j)) /\ rc'[j].fill > 0
          /\ Len(rc'[j].buff) = Bytes(j)
          /\ \A x \in 1 .. rc'[j].fill : rc'[j].buff[x] = Byte(Msg(j), x)
    BY <1>1, <1>2 DEF MsgOK
  <2>5. Offsets(Bytes(j))' = Offsets(Bytes(j))
    BY <1>5 DEF Offsets, Aligned
  <2> QED BY <1>5, <2>3, <2>4, <2>5 DEF MsgOK, Byte, Msg
<1>3. CASE j = i
  <2>1. Msg(i) \notin missed
    BY <1>3
  <2>2. Sent(i, o) /\ ~Recd(i, o)
    BY <2>1, HeadIs
  <2>3. \A p \in Offsets(Bytes(i)) : /\ (Sent(i, p) /\ ~Recd(i, p))' <=> InQ(i, p)'
                                     /\ Recd(i, p)' => Sent(i, p)'
    BY <1>1, <1>3, <1>5, <1>q, <2>1, <2>2 DEF MsgOK
  <2>4. i \in DOMAIN rc' =>
          /\ rc'[i].fill \in Offsets(Bytes(i)) /\ rc'[i].fill > 0
          /\ Len(rc'[i].buff) = Bytes(i)
          /\ \A x \in 1 .. rc'[i].fill : rc'[i].buff[x] = Byte(Msg(i), x)
    BY <2>1
  <2>5. Offsets(Bytes(j))' = Offsets(Bytes(j))
    BY <1>5 DEF Offsets, Aligned
  <2> QED BY <1>3, <1>5, <2>3, <2>4, <2>5 DEF MsgOK, Byte, Msg
<1> QED BY <1>2, <1>3

\* The buffer that MakeCache makes.
LEMMA MakeIs ==
  ASSUME NEW d, NEW n \in Nat
  PROVE  /\ Len(MakeCache(d, n)) = n /\ DOMAIN MakeCache(d, n) = 1 .. n
         /\ \A x \in 1 .. n : x <= Len(d) => MakeCache(d, n)[x] = d[x]
<1>1. MakeCache(d, n) = [x \in 1 .. n |-> IF x <= Len(d) THEN d[x] ELSE Junk]
  BY DEF MakeCache
<1> QED BY <1>1

\* The bytes of d behind the first f of cache, which are g bytes then.
Filled(new, cache, d, f, z, g) ==
  /\ new.fill = g /\ Len(new.buff) = z /\ DOMAIN new.buff = 1 .. z
  /\ \A x \in 1 .. f : new.buff[x] = cache.buff[x]
  /\ \A x \in f + 1 .. g : new.buff[x] = d[x - f]

\* A piece that goes where the last one ended.
LEMMA AppendToIs ==
  ASSUME NEW cache, NEW d, NEW n \in Nat, NEW f \in Nat, NEW z \in Nat, f = cache.fill, z = Len(cache.buff),
         f < z, NEW g \in Nat, g = IF f + n < z THEN f + n ELSE z, g - f <= Len(d), Len(d) \in Nat
  PROVE  Filled(AppendTo(cache, d, n), cache, d, f, z, g)
<1> DEFINE b == [x \in 1 .. z |-> IF x \in f + 1 .. g /\ x - f <= Len(d) THEN d[x - f] ELSE cache.buff[x]]
<1>1. AppendTo(cache, d, n) = [fill |-> g, buff |-> b]
  BY DEF AppendTo
<1>2. Len(b) = z /\ DOMAIN b = 1 .. z
  OBVIOUS
<1>3. g <= z
  OBVIOUS
<1>4. \A x \in 1 .. f : b[x] = cache.buff[x]
  OBVIOUS
<1>5. ASSUME NEW x \in f + 1 .. g PROVE b[x] = d[x - f]
  <2>1. x \in Int /\ f + 1 <= x /\ x <= g
    OBVIOUS
  <2>2. g <= z /\ g - f <= Len(d) /\ Len(d) \in Nat
    BY <1>3
  <2> HIDE DEF b
  <2>3. 1 <= x /\ x <= z
    <3>1. f \in Nat /\ g \in Nat /\ z \in Nat
      OBVIOUS
    <3> QED BY ONLY <2>1, <2>2, <3>1
  <2>4. x - f <= g - f
    BY <2>1
  <2>5. x - f <= Len(d)
    BY <2>1, <2>2, <2>4
  <2>6. x \in 1 .. z /\ x \in f + 1 .. g
    BY <2>1, <2>3
  <2> QED BY <2>5, <2>6 DEF b
<1> HIDE DEF b
<1> QED BY <1>1, <1>2, <1>4, <1>5 DEF Filled

\* A whole message, byte by byte.
LEMMA WholeIs ==
  ASSUME NEW i, NEW n \in Nat, n = Bytes(i), NEW b, b = [x \in 1 .. n |-> b[x]],
         \A x \in 1 .. n : b[x] = Byte(Msg(i), x)
  PROVE  b = Whole(Msg(i))
<1>1. Whole(Msg(i)) = [x \in 1 .. n |-> Byte(Msg(i), x)]
  BY DEF Whole, Bytes
<1> QED BY <1>1

\* One turn of recv.
LEMMA RecvFrag ==
  ASSUME OneChannel, FragInv, FragRecv(Chan)
  PROVE  FragInv'
<1>0. /\ Q # <<>> /\ queue' = [queue EXCEPT ![Chan] = Tail(@)]
      /\ UNCHANGED <<acc, joined, out, size, left>>
      /\ Head(Q) = Q[1] /\ Len(Q) \in Nat \ {0} /\ DOMAIN Q = 1 .. Len(Q)
  BY FragFacts, TailIs DEF FragRecv, Q
<1>h. 1 \in DOMAIN Q
  BY <1>0
<1> DEFINE m == Q[1]
<1>1. PICK i \in Begun : i = m.id
  BY <1>h DEF FragInv, QueueOK
<1>2. PICK o \in Offsets(Bytes(i)) : m = PieceAt(i, o)
  BY <1>h, <1>1 DEF FragInv, QueueOK
<1> DEFINE n == Bytes(i)
           d == m.data
           k == IF n - o < DataLength THEN n - o ELSE DataLength
<1>3. /\ n \in Nat \ {0} /\ o \in Nat /\ o < n /\ Aligned(o) /\ DataLength \in Nat \ {0}
      /\ \A p \in Offsets(n) : p \in Nat /\ p < n /\ Aligned(p)
  BY FragFacts DEF Offsets
<1>4. /\ m.remain = n - o - DataLength /\ Len(d) = k /\ k \in Nat
      /\ \A x \in 1 .. k : d[x] = Byte(Msg(i), o + x)
  BY <1>2, <1>3, PieceIs
<1>5. /\ IsSeq(Q)' /\ QueueOK' /\ DOMAIN queue' = Channels /\ (\A s \in Senders : SenderOK(s)')
      /\ \A l \in DOMAIN Q' : \E e \in DOMAIN Q : e > 1 /\ Q'[l] = Q[e]
  BY <1>0, <1>1, <1>2, RecvQueue
<1>6. /\ Begun' = Begun /\ (\A j : Bytes(j)' = Bytes(j)) /\ \A s, j : Busy(s, j)' <=> Busy(s, j)
  BY <1>0 DEF Begun, Bytes, Busy, Msg
<1>7. ASSUME DOMAIN rc' \subseteq Begun, IsSeq(ret'), RetOK',
             \A j \in Begun' : Msg(j) \notin missed' => MsgOK(j)'
      PROVE  FragInv'
  <2>1. FragTypeOK'
    BY <1>0, <1>5, <1>6, <1>7 DEF FragInv, FragTypeOK
  <2> QED BY <1>5, <1>7, <2>1 DEF FragInv, Msg
<1>8. ASSUME UNCHANGED ret, missed \subseteq missed' PROVE RetOK' /\ IsSeq(ret') /\ \A j : Returned(j)' <=> Returned(j)
  <2>1. IsSeq(ret') /\ \A j : Returned(j)' <=> Returned(j)
    BY <1>8, FragFacts DEF Returned
  <2>2. \A e \in DOMAIN ret : \A j \in DOMAIN Q' : Q'[j].id = ret[e].id => Q'[j].remain > 0
    BY <1>5 DEF FragInv, RetOK
  <2>3. (\A e \in DOMAIN ret : Msg(ret[e].id) \notin missed => ret[e].buff = Whole(Msg(ret[e].id)))'
    BY <1>0, <1>8 DEF FragInv, RetOK, Whole, Msg
  <2>4. (\A e \in DOMAIN ret : \A s \in Senders : ~Busy(s, ret[e].id))'
    BY <1>0, <1>8 DEF FragInv, RetOK, Busy
  <2>5. (\A e \in DOMAIN ret : ret[e].chan = Chan /\ ret[e].id \in Begun)'
    BY <1>6, <1>8 DEF FragInv, RetOK
  <2>6. (\A j, e \in DOMAIN ret : ret[j].id = ret[e].id => j = e)'
    BY <1>8 DEF FragInv, RetOK
  <2>7. (\A e \in DOMAIN ret : \A j \in DOMAIN Q : Q[j].id = ret[e].id => Q[j].remain > 0)'
    BY <1>8, <2>2
  <2> QED BY <2>1, <2>3, <2>4, <2>5, <2>6, <2>7 DEF RetOK
<1>9. /\ Msg(i) \notin missed /\ i \in DOMAIN rc => o = rc[i].fill
      /\ Msg(i) \notin missed /\ i \notin DOMAIN rc => o = 0 /\ ~Returned(i)
      /\ Msg(i) \notin missed => MsgOK(i)
  BY <1>0, <1>1, <1>2, HeadIs
<1>10. RecvShort(Chan, m) \/ RecvFirst(Chan, m) \/ RecvMiddle(Chan, m) \/ RecvLast(Chan, m)
  BY <1>0 DEF FragRecv, Q
<1> HIDE DEF m, n, d, k
<1>g. DOMAIN rc \subseteq Begun
  BY DEF FragInv, FragTypeOK
<1>11. CASE RecvShort(Chan, m)
  <2> DEFINE b == MakeCache(d, DataLength + m.remain)
  <2>1. /\ i \notin DOMAIN rc /\ m.remain <= 0 /\ rc' = rc /\ missed' = missed
        /\ ret' = Append(ret, [chan |-> Chan, id |-> i, buff |-> b])
    BY <1>1, <1>11 DEF RecvShort, Return, d
  <2>2. n - o <= DataLength /\ DataLength + m.remain = n - o /\ k = n - o
    BY <1>3, <1>4, <2>1 DEF k
  <2>3. ASSUME Msg(i) \notin missed PROVE b = Whole(Msg(i)) /\ o = 0
    <3>1. o = 0 /\ DataLength + m.remain = n /\ Len(d) = n
      BY <1>3, <1>4, <1>9, <2>1, <2>2, <2>3
    <3>2. DOMAIN b = 1 .. n /\ \A x \in 1 .. n : x <= n => b[x] = d[x]
      BY <1>3, <3>1, MakeIs
    <3>3. \A x \in 1 .. n : d[x] = Byte(Msg(i), x)
      <4> SUFFICES ASSUME NEW x \in 1 .. n PROVE d[x] = Byte(Msg(i), x)
        OBVIOUS
      <4>1. x \in 1 .. k /\ o + x = x
        BY <1>3, <2>2, <3>1
      <4> QED BY <1>4, <4>1
    <3>4. b = [x \in 1 .. n |-> b[x]]
      BY <3>1, <3>2 DEF MakeCache
    <3>5. \A x \in 1 .. n : b[x] = Byte(Msg(i), x)
      BY <1>3, <3>2, <3>3
    <3> HIDE DEF b
    <3>6. b = Whole(Msg(i))
      BY <1>3, <3>4, <3>5, WholeIs DEF n
    <3> QED BY <3>1, <3>6
  <2> HIDE DEF b
  <2>4. RetOK' /\ IsSeq(ret') /\ \A j : Returned(j)' <=> Returned(j) \/ j = i
    BY <1>0, <1>1, <1>2, <2>1, <2>3, RecvRet DEF m
  <2>5. ASSUME Msg(i) \notin missed, NEW p \in Offsets(Bytes(i)) PROVE Recd(i, p)' <=> Recd(i, p) \/ p = o
    <3>1. p = o
      <4>1. p \in Nat /\ p < n /\ Aligned(p) /\ o = 0 /\ n <= DataLength
        BY <1>3, <2>2, <2>3, <2>5 DEF n
      <4>2. ~(0 < p)
        BY <1>3, <4>1, Pieces
      <4> QED BY <4>1, <4>2
    <3>2. Recd(i, p)'
      BY <2>1, <2>4 DEF Recd
    <3> QED BY <3>1, <3>2
  <2>6. \A j \in Begun' : Msg(j) \notin missed' => MsgOK(j)'
    BY <1>0, <1>1, <1>2, <2>1, <2>4, <2>5, RecvMsgs DEF m
  <2> QED BY <1>7, <1>g, <2>1, <2>4, <2>6
<1>12. CASE RecvFirst(Chan, m)
  <2> DEFINE b == MakeCache(d, DataLength + m.remain)
             entry == [fill |-> DataLength, buff |-> b]
  <2>1. /\ i \notin DOMAIN rc /\ m.remain > 0 /\ ret' = ret
        /\ rc' = CacheWith(Gc(i), i, entry)
        /\ missed' = missed \cup {<<Chan, j>> : j \in DOMAIN rc \ Gc(i)}
    BY <1>1, <1>12 DEF RecvFirst, d
  <2>2. DOMAIN rc' = Gc(i) \cup {i} /\ rc'[i] = entry /\ \A j \in Gc(i) : j # i => rc'[j] = rc[j]
    BY <2>1 DEF CacheWith
  <2>3. Gc(i) \subseteq DOMAIN rc
    BY DEF Gc
  <2>4. RetOK' /\ IsSeq(ret') /\ \A j : Returned(j)' <=> Returned(j)
    BY <1>8, <2>1
  <2>5. \A j \in Begun : j # i /\ Msg(j) \notin missed' =>
           /\ j \in DOMAIN rc' <=> j \in DOMAIN rc
           /\ j \in DOMAIN rc => rc'[j] = rc[j]
    BY <2>1, <2>2, <2>3 DEF Msg
  <2>6. ASSUME Msg(i) \notin missed
        PROVE  /\ rc'[i].fill \in Offsets(Bytes(i)) /\ rc'[i].fill > 0
               /\ Len(rc'[i].buff) = Bytes(i)
               /\ \A x \in 1 .. rc'[i].fill : rc'[i].buff[x] = Byte(Msg(i), x)
    <3>1. o = 0 /\ DataLength + m.remain = n /\ DataLength < n /\ k = DataLength
      BY <1>3, <1>4, <1>9, <2>1, <2>6 DEF k
    <3>2. rc'[i].fill = DataLength /\ rc'[i].buff = b
      BY <2>2
    <3>3. Len(b) = n /\ \A x \in 1 .. n : x <= Len(d) => b[x] = d[x]
      BY <1>3, <3>1, MakeIs
    <3> HIDE DEF b
    <3>4. DataLength \in Offsets(n)
      <4>1. Aligned(0 + DataLength) /\ 0 + DataLength = DataLength
        BY <1>3, Pieces
      <4> QED BY <1>3, <3>1, <4>1 DEF Offsets
    <3>5. ASSUME NEW x \in 1 .. DataLength PROVE b[x] = Byte(Msg(i), x)
      <4>1. x \in 1 .. n /\ x <= Len(d) /\ x \in 1 .. k /\ o + x = x
        BY <1>3, <1>4, <3>1
      <4> QED BY <1>4, <3>3, <4>1
    <3> QED BY <1>3, <3>2, <3>3, <3>4, <3>5 DEF n
  <2> HIDE DEF b
  <2>7. ASSUME Msg(i) \notin missed, NEW p \in Offsets(Bytes(i)) PROVE Recd(i, p)' <=> Recd(i, p) \/ p = o
    <3>1. p \in Nat /\ Aligned(p) /\ o = 0 /\ ~Returned(i)
      BY <1>3, <1>9, <2>1, <2>7 DEF n
    <3>2. p < DataLength <=> p = 0
      BY <1>3, <3>1, Pieces
    <3>3. Recd(i, p)' <=> p < DataLength
      BY <2>2 DEF Recd
    <3>4. ~Recd(i, p)
      BY <2>1, <3>1 DEF Recd
    <3> QED BY <3>1, <3>2, <3>3, <3>4
  <2>8. \A j \in Begun' : Msg(j) \notin missed' => MsgOK(j)'
    <3>1. missed \subseteq missed' /\ \A j : j # i => (Returned(j)' <=> Returned(j))
      BY <2>1, <2>4
    <3>2. \A j \in Begun : j # i /\ Msg(j) \notin missed' =>
             /\ j \in DOMAIN rc' <=> j \in DOMAIN rc
             /\ j \in DOMAIN rc => rc'[j] = rc[j]
      BY <2>5, Zenon
    <3>3. Msg(i) \notin missed =>
             /\ \A p \in Offsets(Bytes(i)) : Recd(i, p)' <=> Recd(i, p) \/ p = o
             /\ i \in DOMAIN rc' =>
                  /\ rc'[i].fill \in Offsets(Bytes(i)) /\ rc'[i].fill > 0
                  /\ Len(rc'[i].buff) = Bytes(i)
                  /\ \A x \in 1 .. rc'[i].fill : rc'[i].buff[x] = Byte(Msg(i), x)
      BY <2>6, <2>7, Zenon
    <3> QED BY <1>0, <1>1, <1>2, <3>1, <3>2, <3>3, RecvMsgs, ZenonT(40) DEF m
  <2> QED BY <1>7, <1>g, <2>2, <2>3, <2>4, <2>8
<1>13. CASE RecvMiddle(Chan, m)
  <2>1. /\ i \in DOMAIN rc /\ m.remain > 0 /\ ret' = ret /\ missed' = missed
        /\ rc' = [rc EXCEPT ![i] = AppendTo(rc[i], d, DataLength)]
    BY <1>1, <1>13 DEF RecvMiddle, d
  <2>2. DOMAIN rc' = DOMAIN rc /\ rc'[i] = AppendTo(rc[i], d, DataLength) /\ \A j \in DOMAIN rc : j # i => rc'[j] = rc[j]
    BY <2>1
  <2>4. RetOK' /\ IsSeq(ret') /\ \A j : Returned(j)' <=> Returned(j)
    BY <1>8, <2>1
  <2>5. ASSUME Msg(i) \notin missed
        PROVE  /\ rc'[i].fill = o + DataLength
               /\ rc'[i].fill \in Offsets(Bytes(i)) /\ rc'[i].fill > 0
               /\ Len(rc'[i].buff) = Bytes(i)
               /\ \A x \in 1 .. rc'[i].fill : rc'[i].buff[x] = Byte(Msg(i), x)
    <3> DEFINE g == o + DataLength
    <3>1. g \in Nat /\ g < n /\ k = DataLength /\ g - o <= Len(d) /\ Len(d) \in Nat
      BY <1>3, <1>4, <2>1 DEF k
    <3>2. /\ rc[i].fill = o /\ Len(rc[i].buff) = n
          /\ \A x \in 1 .. o : rc[i].buff[x] = Byte(Msg(i), x)
      BY <1>9, <2>1, <2>5 DEF MsgOK, n
    <3>3. g = IF o + DataLength < n THEN o + DataLength ELSE n
      BY <3>1
    <3> HIDE DEF g
    <3>4. /\ rc'[i].fill = g /\ Len(rc'[i].buff) = n
          /\ \A x \in 1 .. o : rc'[i].buff[x] = rc[i].buff[x]
          /\ \A x \in o + 1 .. g : rc'[i].buff[x] = d[x - o]
      <4>1. o < n /\ DataLength \in Nat /\ n \in Nat /\ o \in Nat /\ g \in Nat /\ Len(d) \in Nat
        BY <1>3, <3>1
      <4>3. o = rc[i].fill /\ n = Len(rc[i].buff) /\ g - o <= Len(d)
        BY <3>1, <3>2
      <4>2. Filled(AppendTo(rc[i], d, DataLength), rc[i], d, o, n, g)
        BY <3>3, <4>1, <4>3, AppendToIs
      <4> QED BY <2>2, <4>2 DEF Filled
    <3>5. ASSUME NEW x \in 1 .. g PROVE rc'[i].buff[x] = Byte(Msg(i), x)
      <4>1. CASE x \in 1 .. o
        BY <3>2, <3>4, <4>1
      <4>2. CASE x \in o + 1 .. g
        <5>1. x - o \in 1 .. k /\ o + (x - o) = x
          BY <1>3, <3>1, <4>2 DEF g
        <5> QED BY <1>4, <3>4, <4>2, <5>1
      <4> QED BY <1>3, <3>1, <4>1, <4>2
    <3>6. g \in Offsets(n)
      BY <1>3, <3>1, Pieces DEF Offsets, g
    <3>7. g > 0
      BY <1>3 DEF g
    <3> QED BY <3>4, <3>5, <3>6, <3>7 DEF n, g
  <2>6. ASSUME Msg(i) \notin missed, NEW p \in Offsets(Bytes(i)) PROVE Recd(i, p)' <=> Recd(i, p) \/ p = o
    <3>1. p \in Nat /\ Aligned(p) /\ o = rc[i].fill
      BY <1>3, <1>9, <2>1, <2>6 DEF n
    <3>2. p < o + DataLength <=> p < o \/ p = o
      <4>1. ~(o < p /\ p < o + DataLength)
        BY <1>3, <3>1, Pieces
      <4> QED BY <1>3, <3>1, <4>1
    <3>3. Recd(i, p)' <=> p < o + DataLength
      BY <2>1, <2>2, <2>5, <2>6 DEF Recd
    <3>4. Recd(i, p) <=> p < o
      BY <2>1, <3>1 DEF Recd
    <3> QED BY <3>2, <3>3, <3>4
  <2>7. \A j \in Begun' : Msg(j) \notin missed' => MsgOK(j)'
    <3>1. missed \subseteq missed' /\ \A j : j # i => (Returned(j)' <=> Returned(j))
      BY <2>1, <2>4
    <3>2. \A j \in Begun : j # i /\ Msg(j) \notin missed' =>
             /\ j \in DOMAIN rc' <=> j \in DOMAIN rc
             /\ j \in DOMAIN rc => rc'[j] = rc[j]
      BY <2>2, Zenon
    <3>3. Msg(i) \notin missed =>
             /\ \A p \in Offsets(Bytes(i)) : Recd(i, p)' <=> Recd(i, p) \/ p = o
             /\ i \in DOMAIN rc' =>
                  /\ rc'[i].fill \in Offsets(Bytes(i)) /\ rc'[i].fill > 0
                  /\ Len(rc'[i].buff) = Bytes(i)
                  /\ \A x \in 1 .. rc'[i].fill : rc'[i].buff[x] = Byte(Msg(i), x)
      BY <2>5, <2>6, Zenon
    <3> QED BY <1>0, <1>1, <1>2, <3>1, <3>2, <3>3, RecvMsgs, ZenonT(40) DEF m
  <2> QED BY <1>7, <1>g, <2>2, <2>4, <2>7
<1>14. CASE RecvLast(Chan, m)
  <2> DEFINE w == AppendTo(rc[i], d, DataLength + m.remain)
             b == w.buff
  <2>1. /\ i \in DOMAIN rc /\ m.remain <= 0 /\ missed' = missed
        /\ ret' = Append(ret, [chan |-> Chan, id |-> i, buff |-> b])
        /\ rc' = [j \in DOMAIN rc \ {i} |-> rc[j]]
    BY <1>1, <1>14 DEF RecvLast, Return, d
  <2>2. n - o <= DataLength /\ DataLength + m.remain = n - o /\ k = n - o /\ n - o \in Nat
    BY <1>3, <1>4, <2>1 DEF k
  <2>3. ASSUME Msg(i) \notin missed PROVE b = Whole(Msg(i))
    <3>2. /\ rc[i].fill = o /\ Len(rc[i].buff) = n
          /\ \A x \in 1 .. o : rc[i].buff[x] = Byte(Msg(i), x)
      BY <1>9, <2>1, <2>3 DEF MsgOK, n
    <3>3. n = (IF o + (n - o) < n THEN o + (n - o) ELSE n) /\ n - o <= Len(d) /\ Len(d) \in Nat
      BY <1>3, <1>4, <2>2
    <3>4. /\ DOMAIN b = 1 .. n /\ \A x \in 1 .. o : b[x] = rc[i].buff[x]
          /\ \A x \in o + 1 .. n : b[x] = d[x - o]
      <4>1. o = rc[i].fill /\ n = Len(rc[i].buff) /\ o < n /\ o \in Nat /\ n \in Nat
        BY <1>3, <3>2
      <4>2. Filled(AppendTo(rc[i], d, n - o), rc[i], d, o, n, n)
        BY <2>2, <3>3, <4>1, AppendToIs
      <4> QED BY <2>2, <4>2 DEF Filled
    <3>5. ASSUME NEW x \in 1 .. n PROVE b[x] = Byte(Msg(i), x)
      <4> HIDE DEF b
      <4>1. CASE x \in 1 .. o
        BY <3>2, <3>4, <4>1
      <4>2. CASE x \in o + 1 .. n
        <5>1. x - o \in 1 .. k /\ o + (x - o) = x
          BY <1>3, <2>2, <4>2
        <5> QED BY <1>4, <3>4, <4>2, <5>1
      <4> QED BY <1>3, <4>1, <4>2
    <3>6. b = [x \in 1 .. n |-> b[x]]
      <4>1. ~(rc[i].fill >= Len(rc[i].buff))
        BY <1>3, <3>2
      <4>2. \E g : b = [x \in 1 .. n |-> IF x \in o + 1 .. g /\ x - o <= Len(d) THEN d[x - o] ELSE rc[i].buff[x]]
        BY <3>2, <4>1 DEF AppendTo
      <4> HIDE DEF b
      <4> QED BY <4>2
    <3> HIDE DEF b
    <3> QED BY <1>3, <3>5, <3>6, WholeIs DEF n
  <2> HIDE DEF b
  <2>4. RetOK' /\ IsSeq(ret') /\ \A j : Returned(j)' <=> Returned(j) \/ j = i
    BY <1>0, <1>1, <1>2, <2>1, <2>3, RecvRet DEF m
  <2>5. DOMAIN rc' = DOMAIN rc \ {i} /\ \A j \in DOMAIN rc : j # i => rc'[j] = rc[j]
    BY <2>1
  <2>6. ASSUME Msg(i) \notin missed, NEW p \in Offsets(Bytes(i)) PROVE Recd(i, p)' <=> Recd(i, p) \/ p = o
    <3>1. p \in Nat /\ Aligned(p) /\ p < n /\ o = rc[i].fill
      BY <1>3, <1>9, <2>1, <2>6 DEF n
    <3>2. p < o \/ p = o
      <4>1. ~(o < p)
        BY <1>3, <2>2, <3>1, Pieces
      <4> QED BY <1>3, <3>1, <4>1
    <3>3. Recd(i, p)'
      BY <2>4, <2>5 DEF Recd
    <3>4. Recd(i, p) <=> p < o
      BY <2>1, <3>1 DEF Recd
    <3> QED BY <3>2, <3>3, <3>4
  <2>7. \A j \in Begun' : Msg(j) \notin missed' => MsgOK(j)'
    BY <1>0, <1>1, <1>2, <2>1, <2>4, <2>5, <2>6, RecvMsgs, ZenonT(40) DEF m
  <2> QED BY <1>7, <1>g, <2>4, <2>5, <2>7
<1> QED BY <1>10, <1>11, <1>12, <1>13, <1>14

\* A sender that is at a piece.
LEMMA SenderIs ==
  ASSUME OneChannel, FragInv, NEW s \in Senders, out[s] # Idle
  PROVE  LET i == out[s].id
             o == out[s].offset IN
         /\ out[s].chan = Chan /\ i \in Begun /\ Sending(s) = Msg(i) /\ Piece(s) = PieceAt(i, o)
         /\ Bytes(i) \in Nat \ {0} /\ o \in Nat /\ o < Bytes(i) /\ Aligned(o) /\ o \in Offsets(Bytes(i))
         /\ out[s] = [chan |-> Chan, id |-> i, offset |-> o]
         /\ \A t \in Senders : Busy(t, i) => t = s
<1>1. /\ out[s].chan = Chan /\ out[s].id \in Begun /\ out[s].offset \in Offsets(Bytes(out[s].id))
      /\ \A t \in Senders : Busy(t, out[s].id) => t = s
  BY DEF FragInv, SenderOK
<1>2. Bytes(out[s].id) \in Nat \ {0}
  BY <1>1, FragFacts
<1>3. Sending(s) = Msg(out[s].id) /\ Piece(s) = PieceAt(out[s].id, out[s].offset)
  BY <1>1 DEF Sending, Msg, Piece, PieceAt, Bytes
<1>4. out[s] \in [chan : Channels \cup {"none"}, id : Nat, offset : Nat]
  BY DEF FragInv, FragTypeOK
<1>5. out[s] = [chan |-> Chan, id |-> out[s].id, offset |-> out[s].offset]
  BY <1>1, <1>4
<1> QED BY <1>1, <1>2, <1>3, <1>5 DEF Offsets

\* How a sender goes on: it is done with the message, or it is at the next piece.
Moves(s) ==
  LET i == out[s].id
      o == out[s].offset IN
  \/ out' = [out EXCEPT ![s] = Idle]
  \/ /\ o + DataLength < Bytes(i)
     /\ out' = [out EXCEPT ![s] = [chan |-> Chan, id |-> i, offset |-> o + DataLength]]

\* Advance is such a step.
LEMMA AdvanceMoves ==
  ASSUME OneChannel, FragInv, NEW s \in Senders, out[s] # Idle, Advance(s)
  PROVE  /\ Moves(s)
         /\ LET i == out[s].id
                o == out[s].offset IN
            out' = [out EXCEPT ![s] = IF o + DataLength >= Bytes(i) THEN Idle
                                      ELSE [chan |-> Chan, id |-> i, offset |-> o + DataLength]]
<1> DEFINE i == out[s].id
           o == out[s].offset
<1>1. /\ out[s].chan = Chan /\ Bytes(i) \in Nat /\ o \in Nat
      /\ out[s] = [chan |-> Chan, id |-> i, offset |-> o]
  BY SenderIs
<1>2. DataLength \in Nat
  BY FragmentsAssumption
<1>3. [out[s] EXCEPT !.offset = @ + DataLength] = [chan |-> Chan, id |-> i, offset |-> o + DataLength]
  <2> HIDE DEF i, o
  <2> QED BY <1>1
<1>4. size[<<out[s].chan, out[s].id>>] = Bytes(i)
  BY <1>1 DEF Bytes, Msg
<1>5. out' = [out EXCEPT ![s] = IF o + DataLength >= Bytes(i) THEN Idle
                                ELSE [chan |-> Chan, id |-> i, offset |-> o + DataLength]]
  <2> DEFINE nxt == [out[s] EXCEPT !.offset = @ + DataLength]
             n == size[<<out[s].chan, out[s].id>>]
  <2>1. out' = [out EXCEPT ![s] = IF out[s].offset + DataLength >= n THEN Idle ELSE nxt]
    BY DEF Advance
  <2>2. nxt = [chan |-> Chan, id |-> i, offset |-> o + DataLength] /\ n = Bytes(i)
    BY <1>3, <1>4
  <2> HIDE DEF nxt, n
  <2> QED BY <2>1, <2>2
<1> HIDE DEF i, o
<1>6. ASSUME o + DataLength >= Bytes(i) PROVE Moves(s)
  BY <1>5, <1>6 DEF Moves, i, o
<1>7. ASSUME ~(o + DataLength >= Bytes(i)) PROVE Moves(s)
  <2>1. o + DataLength < Bytes(i)
    BY <1>1, <1>2, <1>7
  <2>2. out' = [out EXCEPT ![s] = [chan |-> Chan, id |-> i, offset |-> o + DataLength]]
    BY <1>5, <1>7
  <2> USE DEF i, o
  <2>3. /\ out[s].offset + DataLength < Bytes(out[s].id)
        /\ out' = [out EXCEPT ![s] = [chan |-> Chan, id |-> out[s].id, offset |-> out[s].offset + DataLength]]
    BY <2>1, <2>2
  <2> QED BY <2>3 DEF Moves
<1>8. Moves(s)
  BY <1>6, <1>7
<1> QED BY <1>5, <1>8 DEF i, o

\* The senders, when one of them goes on.
LEMMA MovesKeep ==
  ASSUME OneChannel, FragInv, NEW s \in Senders, out[s] # Idle, Moves(s), UNCHANGED <<acc, size>>,
         NEW i, i = out[s].id, NEW o, o = out[s].offset
  PROVE  /\ out' \in [Senders -> [chan : Channels \cup {"none"}, id : Nat, offset : Nat]]
         /\ \A t \in Senders : SenderOK(t)'
         /\ \A t \in Senders : t # s => out'[t] = out[t]
         /\ \A t \in Senders : \A j : Busy(t, j)' => Busy(t, j) /\ out[t].offset <= out'[t].offset
         /\ (out'[s] = Idle \/ (o + DataLength < Bytes(i) /\ out'[s].offset = o + DataLength))
         /\ (out'[s] # Idle => out'[s].id = i)
         /\ \A j : j # i => \A p : Sent(j, p)' <=> Sent(j, p)
         /\ Begun' = Begun /\ (\A j : Bytes(j)' = Bytes(j)) /\ (\A j, p : PieceAt(j, p)' = PieceAt(j, p))
<1>1. /\ out[s].chan = Chan /\ i \in Begun /\ Bytes(i) \in Nat \ {0} /\ o \in Nat /\ o < Bytes(i) /\ Aligned(o)
      /\ i \in Nat /\ \A t \in Senders : Busy(t, i) => t = s
  BY SenderIs, FragFacts
<1>2. DataLength \in Nat \ {0} /\ Chan \in Channels
  BY FragmentsAssumption, ChanIs
<1>3. out \in [Senders -> [chan : Channels \cup {"none"}, id : Nat, offset : Nat]]
  BY DEF FragInv, FragTypeOK
<1>i. Idle \in [chan : Channels \cup {"none"}, id : Nat, offset : Nat]
  BY DEF Idle
<1>4. \/ out'[s] = Idle
      \/ o + DataLength < Bytes(i) /\ out'[s] = [chan |-> Chan, id |-> i, offset |-> o + DataLength]
  BY <1>3 DEF Moves
<1>5. (\A t \in Senders : t # s => out'[t] = out[t]) /\ DOMAIN out' = Senders /\ out' = [t \in Senders |-> out'[t]]
  BY <1>3 DEF Moves
<1>6. out'[s] \in [chan : Channels \cup {"none"}, id : Nat, offset : Nat]
  BY <1>1, <1>2, <1>4, <1>i
<1>7. out' \in [Senders -> [chan : Channels \cup {"none"}, id : Nat, offset : Nat]]
  BY <1>3, <1>5, <1>6
<1>8. out'[s] # Idle => out'[s].id = i /\ out'[s].chan = Chan /\ out'[s].offset = o + DataLength /\ o + DataLength < Bytes(i)
  BY <1>4
<1>9. Begun' = Begun /\ (\A j : Bytes(j)' = Bytes(j)) /\ (\A j, p : PieceAt(j, p)' = PieceAt(j, p))
  BY DEF Begun, Bytes, Msg, PieceAt, Byte
<1>10. \A t \in Senders : \A j : Busy(t, j)' => Busy(t, j) /\ out[t].offset <= out'[t].offset
  <2> SUFFICES ASSUME NEW t \in Senders, NEW j, Busy(t, j)' PROVE Busy(t, j) /\ out[t].offset <= out'[t].offset
    OBVIOUS
  <2>1. out'[t] # Idle /\ out'[t].id = j /\ out[t].offset \in Nat
    BY <1>3 DEF Busy
  <2>2. CASE t = s
    <3>1. j = i /\ out'[t].offset = o + DataLength /\ out[t].offset = o
      BY <1>8, <2>1, <2>2
    <3>2. o <= o + DataLength
      BY <1>1, <1>2
    <3> QED BY <2>2, <3>1, <3>2 DEF Busy
  <2>3. CASE t # s
    <3>1. out'[t] = out[t] /\ out[t].offset <= out[t].offset
      BY <1>5, <2>1, <2>3
    <3> QED BY <2>1, <3>1 DEF Busy
  <2> QED BY <2>2, <2>3
<1>11. ASSUME NEW t \in Senders PROVE SenderOK(t)'
  <2> SUFFICES ASSUME out'[t] # Idle
               PROVE  /\ out'[t].chan = Chan /\ out'[t].id \in Begun
                      /\ out'[t].offset \in Offsets(Bytes(out'[t].id))
                      /\ \A u \in Senders : Busy(u, out[t].id)' => u = t
    BY <1>9 DEF SenderOK
  <2>1. CASE t = s
    <3>1. out'[t].id = i /\ out'[t].chan = Chan /\ out'[t].offset = o + DataLength /\ o + DataLength < Bytes(i)
      BY <1>8, <2>1
    <3>2. o + DataLength \in Offsets(Bytes(i))
      BY <1>1, <1>2, <3>1, Pieces DEF Offsets
    <3>3. \A u \in Senders : Busy(u, out[t].id)' => Busy(u, i)
      <4> SUFFICES ASSUME NEW u \in Senders, Busy(u, out[t].id)' PROVE Busy(u, i)
        OBVIOUS
      <4>1. Busy(u, i)'
        BY <3>1 DEF Busy
      <4> QED BY <1>10, <4>1
    <3> QED BY <1>1, <2>1, <3>1, <3>2, <3>3
  <2>2. CASE t # s
    <3>1. out'[t] = out[t] /\ SenderOK(t)
      BY <1>5, <2>2 DEF FragInv
    <3>2. ASSUME NEW u \in Senders, Busy(u, out[t].id)' PROVE u = t
      <4> DEFINE j == out[t].id
      <4>1. out'[u] # Idle /\ out'[u].id = j
        BY <3>1, <3>2 DEF Busy
      <4>2. Busy(u, j)
        <5> HIDE DEF j
        <5>1. CASE u = s
          <6>1. j = i
            BY <1>8, <4>1, <5>1
          <6> QED BY <5>1, <6>1 DEF Busy
        <5>2. CASE u # s
          BY <1>5, <4>1, <5>2 DEF Busy
        <5> QED BY <5>1, <5>2
      <4> QED BY <3>1, <4>2 DEF SenderOK
    <3> QED BY <3>1, <3>2 DEF SenderOK
  <2> QED BY <2>1, <2>2
<1>12. ASSUME NEW j, j # i, NEW p PROVE Sent(j, p)' <=> Sent(j, p)
  <2>1. ASSUME NEW t \in Senders PROVE /\ Busy(t, j)' <=> Busy(t, j)
                                       /\ Busy(t, j) => out'[t].offset = out[t].offset
    <3>1. CASE t = s
      <4>1. ~Busy(t, j)
        BY <1>12, <3>1 DEF Busy
      <4> QED BY <1>10, <4>1
    <3>2. CASE t # s
      <4>1. out'[t] = out[t]
        BY <1>5, <3>2
      <4> QED BY <4>1 DEF Busy
    <3> QED BY <3>1, <3>2
  <2> QED BY <2>1 DEF Sent
<1> QED BY <1>1, <1>4, <1>5, <1>7, <1>8, <1>9, <1>10, <1>11, <1>12

\* A message that a step leaves alone.
LEMMA MsgKeeps ==
  ASSUME NEW j, MsgOK(j), Bytes(j)' = Bytes(j),
         \A p \in Offsets(Bytes(j)) : (Sent(j, p)' <=> Sent(j, p)) /\ (InQ(j, p)' <=> InQ(j, p)),
         j \in DOMAIN rc' <=> j \in DOMAIN rc, j \in DOMAIN rc => rc'[j] = rc[j],
         Returned(j)' <=> Returned(j)
  PROVE  MsgOK(j)'
<1>1. \A p : Recd(j, p)' <=> Recd(j, p)
  BY DEF Recd
<1>2. \A p \in Offsets(Bytes(j)) : /\ (Sent(j, p) /\ ~Recd(j, p))' <=> InQ(j, p)'
                                   /\ Recd(j, p)' => Sent(j, p)'
  BY <1>1 DEF MsgOK
<1>3. j \in DOMAIN rc' =>
        /\ rc'[j].fill \in Offsets(Bytes(j)) /\ rc'[j].fill > 0
        /\ Len(rc'[j].buff) = Bytes(j)
        /\ \A x \in 1 .. rc'[j].fill : rc'[j].buff[x] = Byte(Msg(j), x)
  BY DEF MsgOK
<1>4. Offsets(Bytes(j))' = Offsets(Bytes(j))
  BY DEF Offsets, Aligned
<1> QED BY <1>2, <1>3, <1>4 DEF MsgOK, Byte, Msg

\* What was returned stays, and no sender takes a message that was returned.
LEMMA RetKeeps ==
  ASSUME FragInv, UNCHANGED <<acc, size, ret>>, missed \subseteq missed',
         \A t \in Senders : \A j : Busy(t, j)' => Busy(t, j),
         \A k \in DOMAIN Q' : (\E l \in DOMAIN Q : Q'[k] = Q[l]) \/ \E s \in Senders : Busy(s, Q'[k].id)
  PROVE  RetOK' /\ IsSeq(ret') /\ \A j : Returned(j)' <=> Returned(j)
<1>1. IsSeq(ret') /\ \A j : Returned(j)' <=> Returned(j)
  BY DEF Returned, FragInv, FragTypeOK
<1>2. ASSUME NEW e \in DOMAIN ret, NEW j \in DOMAIN Q', Q'[j].id = ret[e].id PROVE Q'[j].remain > 0
  <2>1. \A s \in Senders : ~Busy(s, Q'[j].id)
    BY <1>2 DEF FragInv, RetOK
  <2> QED BY <1>2, <2>1 DEF FragInv, RetOK
<1>3. (\A e \in DOMAIN ret : Msg(ret[e].id) \notin missed => ret[e].buff = Whole(Msg(ret[e].id)))'
  BY DEF FragInv, RetOK, Whole, Msg
<1>4. (\A e \in DOMAIN ret : \A s \in Senders : ~Busy(s, ret[e].id))'
  <2> SUFFICES ASSUME NEW e \in DOMAIN ret', NEW s \in Senders PROVE ~Busy(s, ret[e].id)'
    OBVIOUS
  <2> DEFINE j == ret[e].id
  <2>1. ~Busy(s, j) /\ j' = j
    BY DEF FragInv, RetOK
  <2>2. Busy(s, ret[e].id)' <=> out'[s] # Idle /\ out'[s].id = j
    BY <2>1 DEF Busy
  <2> HIDE DEF j
  <2>3. out'[s] # Idle /\ out'[s].id = j => Busy(s, j)
    <3>1. \A y : out'[s] # Idle /\ out'[s].id = y => Busy(s, y)
      BY DEF Busy
    <3> QED BY <3>1
  <2> QED BY <2>1, <2>2, <2>3
<1>5. (\A e \in DOMAIN ret : ret[e].chan = Chan /\ ret[e].id \in Begun)'
  BY DEF FragInv, RetOK, Begun
<1>6. (\A j, e \in DOMAIN ret : ret[j].id = ret[e].id => j = e)'
  BY DEF FragInv, RetOK
<1>7. (\A e \in DOMAIN ret : \A j \in DOMAIN Q : Q[j].id = ret[e].id => Q[j].remain > 0)'
  BY <1>2
<1> QED BY <1>1, <1>3, <1>4, <1>5, <1>6, <1>7 DEF RetOK

\* The ring as it was, when a sender goes on or is done.
LEMMA QueueKeeps ==
  ASSUME OneChannel, FragInv, UNCHANGED <<acc, size>>, Q' = Q, NEW s \in Senders, out[s] # Idle, Moves(s)
  PROVE  QueueOK'
<1> DEFINE i == out[s].id
           o == out[s].offset
<1>m. /\ \A t \in Senders : \A j : Busy(t, j)' => Busy(t, j) /\ out[t].offset <= out'[t].offset
      /\ Begun' = Begun /\ (\A j : Bytes(j)' = Bytes(j)) /\ (\A j, p : PieceAt(j, p)' = PieceAt(j, p))
      /\ out' \in [Senders -> [chan : Channels \cup {"none"}, id : Nat, offset : Nat]]
  BY MovesKeep
<1>1. (\A k \in DOMAIN Q : Q[k].id \in Begun /\ \E p \in Offsets(Bytes(Q[k].id)) : Q[k] = PieceAt(Q[k].id, p))'
  BY <1>m DEF FragInv, QueueOK
<1>2. (\A j, k \in DOMAIN Q : j < k /\ Q[j].id = Q[k].id => Q[j].remain > Q[k].remain /\ Q[j].remain > 0)'
  BY DEF FragInv, QueueOK
<1>3. ASSUME NEW k \in DOMAIN Q, NEW t \in Senders, Busy(t, Q[k].id)'
      PROVE  Q'[k].remain > 0 /\ Q'[k].remain > Bytes(Q'[k].id) - out'[t].offset - DataLength
  <2>1. PICK j \in Begun : j = Q[k].id
    BY DEF FragInv, QueueOK
  <2>2. Busy(t, j)'
    BY <1>3, <2>1 DEF Busy
  <2>3. Busy(t, j) /\ out[t].offset <= out'[t].offset
    BY <1>m, <2>2
  <2>4. Q[k].remain > 0 /\ Q[k].remain > Bytes(j) - out[t].offset - DataLength
    BY <2>1, <2>3 DEF FragInv, QueueOK
  <2>5. out[t].offset \in Nat /\ out'[t].offset \in Nat /\ Bytes(j) \in Nat /\ DataLength \in Nat
    BY <1>m, <2>1, FragFacts DEF FragInv, FragTypeOK
  <2>6. PICK p \in Offsets(Bytes(j)) : Q[k] = PieceAt(j, p)
    BY <2>1 DEF FragInv, QueueOK
  <2>7. Q[k].remain = Bytes(j) - p - DataLength /\ p \in Nat
    <3>1. p \in Nat /\ p < Bytes(j)
      BY <2>5 DEF Offsets
    <3>2. PieceAt(j, p).remain = Bytes(j) - p - DataLength
      BY <2>5, <3>1, PieceHead
    <3> QED BY <2>6, <3>1, <3>2
  <2>8. Bytes(j) - p - DataLength > Bytes(j) - out'[t].offset - DataLength
    <3>1. Bytes(j) - p - DataLength > Bytes(j) - out[t].offset - DataLength
      BY <2>4, <2>7
    <3> QED BY <2>3, <2>5, <2>7, <3>1
  <2> QED BY <2>1, <2>4, <2>7, <2>8
<1>4. (\A k \in DOMAIN Q : \A t \in Senders : Busy(t, Q[k].id) =>
       Q[k].remain > 0 /\ Q[k].remain > Bytes(Q[k].id) - out[t].offset - DataLength)'
  <2> SUFFICES ASSUME NEW k \in DOMAIN Q, NEW t \in Senders, Busy(t, Q[k].id)'
               PROVE  (Q[k].remain > 0 /\ Q[k].remain > Bytes(Q[k].id) - out[t].offset - DataLength)'
    OBVIOUS
  <2>1. Bytes(Q[k].id)' = Bytes(Q'[k].id)
    BY DEF Bytes, Msg
  <2> QED BY <1>3, <2>1
<1> QED BY <1>1, <1>2, <1>4 DEF QueueOK

\* The parts of FragInv' that are left when the sequences and the senders are right.
LEMMA FragKeeps ==
  ASSUME FragInv, DOMAIN queue' = Channels, joined' \subseteq Channels, UNCHANGED <<acc, size>>,
         out' \in [Senders -> [chan : Channels \cup {"none"}, id : Nat, offset : Nat]],
         DOMAIN rc' \subseteq Begun, IsSeq(Q'), IsSeq(ret')
  PROVE  FragTypeOK'
BY DEF FragInv, FragTypeOK, Begun, Bytes, Msg

\* A sender goes on without a piece in the ring: the message is missed.
LEMMA MissFrag ==
  ASSUME OneChannel, FragInv, NEW s \in Senders, out[s] # Idle, Moves(s),
         missed' = missed \cup {Sending(s)}, UNCHANGED <<acc, queue, joined, rc, size, ret>>
  PROVE  FragInv'
<1>1. PICK i : i = out[s].id
  OBVIOUS
<1>2. Sending(s) = Msg(i) /\ i \in Begun
  BY <1>1, SenderIs
<1>3. /\ out' \in [Senders -> [chan : Channels \cup {"none"}, id : Nat, offset : Nat]]
      /\ \A t \in Senders : SenderOK(t)'
      /\ \A t \in Senders : \A j : Busy(t, j)' => Busy(t, j)
      /\ \A j : j # i => \A p : Sent(j, p)' <=> Sent(j, p)
      /\ Begun' = Begun /\ (\A j : Bytes(j)' = Bytes(j)) /\ (\A j, p : PieceAt(j, p)' = PieceAt(j, p))
  BY <1>1, MovesKeep
<1>4. Q' = Q
  BY DEF Q
<1>5. QueueOK' /\ RetOK' /\ IsSeq(ret') /\ \A j : Returned(j)' <=> Returned(j)
  BY <1>3, <1>4, QueueKeeps, RetKeeps
<1>6. ASSUME NEW j \in Begun, Msg(j) \notin missed' PROVE MsgOK(j)'
  <2>1. j # i /\ Msg(j) \notin missed /\ MsgOK(j)
    BY <1>2, <1>6 DEF FragInv
  <2>2. \A p : InQ(j, p)' <=> InQ(j, p)
    BY <1>3, <1>4 DEF InQ
  <2> QED BY <1>3, <1>5, <2>1, <2>2, MsgKeeps
<1>7. FragTypeOK'
  BY <1>3, <1>4, <1>5, FragKeeps DEF FragInv, FragTypeOK
<1> QED BY <1>3, <1>5, <1>6, <1>7 DEF FragInv, Msg

\* A ring that is emptied: what was in it is missed, and what the cache loses.
LEMMA EmptyFrag ==
  ASSUME OneChannel, FragInv, queue' = [queue EXCEPT ![Chan] = <<>>], joined' \subseteq Channels,
         missed \cup Queued(Chan) \subseteq missed', UNCHANGED <<acc, size, ret>>,
         out' \in [Senders -> [chan : Channels \cup {"none"}, id : Nat, offset : Nat]],
         \A t \in Senders : SenderOK(t)',
         \A t \in Senders : \A j : Busy(t, j)' => Busy(t, j),
         DOMAIN rc' \subseteq Begun,
         \A j \in Begun : Msg(j) \notin missed' =>
           /\ \A p : Sent(j, p)' <=> Sent(j, p)
           /\ j \in DOMAIN rc' <=> j \in DOMAIN rc
           /\ j \in DOMAIN rc => rc'[j] = rc[j]
  PROVE  FragInv'
<1>1. Q' = <<>> /\ DOMAIN queue' = Channels
  BY ChanIs DEF Q, FragInv, FragTypeOK
<1>2. IsSeq(Q') /\ DOMAIN Q' = {}
  BY <1>1, EmptyIs
<1>3. Begun' = Begun /\ \A j : Bytes(j)' = Bytes(j)
  BY DEF Begun, Bytes, Msg
<1>4. QueueOK'
  BY <1>2 DEF QueueOK
<1>5. RetOK' /\ IsSeq(ret') /\ \A j : Returned(j)' <=> Returned(j)
  BY <1>2, RetKeeps
<1>6. ASSUME NEW j \in Begun, Msg(j) \notin missed' PROVE MsgOK(j)'
  <2>1. Msg(j) \notin missed /\ Msg(j) \notin Queued(Chan) /\ MsgOK(j)
    BY <1>6 DEF FragInv
  <2>2. \A k \in DOMAIN Q : Q[k].id # j
    BY <2>1 DEF Queued, Q, Msg
  <2>3. ASSUME NEW p \in Offsets(Bytes(j)) PROVE InQ(j, p)' <=> InQ(j, p)
    <3>1. p \in Nat /\ Bytes(j) \in Nat /\ p < Bytes(j)
      BY FragFacts DEF Offsets
    <3>2. PieceAt(j, p).id = j
      BY <3>1, PieceHead
    <3>3. ~InQ(j, p)
      BY <2>2, <3>2 DEF InQ
    <3>4. ~InQ(j, p)'
      BY <1>2 DEF InQ
    <3> QED BY <3>3, <3>4
  <2> QED BY <1>3, <1>5, <1>6, <2>1, <2>3, MsgKeeps
<1>7. FragTypeOK'
  BY <1>1, <1>2, <1>5, FragKeeps
<1> QED BY <1>3, <1>4, <1>5, <1>6, <1>7 DEF FragInv, Msg

\* force_push.
LEMMA ForceFrag ==
  ASSUME OneChannel, FragInv, NEW s \in Senders, ForcePush(s)
  PROVE  FragInv'
<1>1. PICK i : i = out[s].id
  OBVIOUS
<1>2. out[s] # Idle /\ Sending(s) = Msg(i) /\ i \in Begun /\ out[s].chan = Chan
  BY <1>1, SenderIs DEF ForcePush
<1>3. /\ queue' = [queue EXCEPT ![Chan] = <<>>] /\ joined' \subseteq joined
      /\ missed' = missed \cup Queued(Chan) \cup {Msg(i)}
      /\ UNCHANGED <<acc, rc, size, ret>> /\ Moves(s)
  BY <1>2, AdvanceMoves DEF ForcePush
<1>4. /\ out' \in [Senders -> [chan : Channels \cup {"none"}, id : Nat, offset : Nat]]
      /\ \A t \in Senders : SenderOK(t)'
      /\ \A t \in Senders : \A j : Busy(t, j)' => Busy(t, j)
      /\ \A j : j # i => \A p : Sent(j, p)' <=> Sent(j, p)
  BY <1>1, <1>2, <1>3, MovesKeep
<1>5. joined' \subseteq Channels /\ DOMAIN rc' \subseteq Begun
  BY <1>3 DEF FragInv, FragTypeOK
<1> QED BY <1>3, <1>4, <1>5, EmptyFrag

\* disconnect.
LEMMA DisconnectFrag ==
  ASSUME OneChannel, FragInv, FragDisconnect(Chan)
  PROVE  FragInv'
<1>1. /\ queue' = [queue EXCEPT ![Chan] = <<>>] /\ joined' \subseteq Channels /\ rc' = <<>>
      /\ missed' = missed \cup Queued(Chan) \cup {<<Chan, i>> : i \in DOMAIN rc}
      /\ UNCHANGED <<acc, out, size, ret>>
  BY DEF FragDisconnect, FragInv, FragTypeOK
<1>2. DOMAIN rc' = {}
  BY <1>1, EmptyIs
<1>3. \A t \in Senders : \A j : Busy(t, j)' => Busy(t, j)
  BY <1>1 DEF Busy
<1>4. \A j, p : Sent(j, p)' <=> Sent(j, p)
  BY <1>1 DEF Sent, Busy
<1>5. ASSUME NEW t \in Senders PROVE SenderOK(t)'
  BY <1>1 DEF FragInv, SenderOK, Busy, Begun, Bytes, Msg
<1>6. \A j \in Begun : Msg(j) \notin missed' => j \notin DOMAIN rc
  BY <1>1 DEF Msg
<1>7. out' \in [Senders -> [chan : Channels \cup {"none"}, id : Nat, offset : Nat]]
  BY <1>1 DEF FragInv, FragTypeOK
<1> QED BY <1>1, <1>2, <1>3, <1>4, <1>5, <1>6, <1>7, EmptyFrag

\* A step that changes neither the ring nor the senders nor the cache.
LEMMA ConnectFrag ==
  ASSUME FragInv, joined' \subseteq Channels, UNCHANGED <<acc, queue, out, rc, size, ret, missed>>
  PROVE  FragInv'
<1>1. FragTypeOK'
  BY DEF FragInv, FragTypeOK, Begun, Bytes, Msg, Q
<1>2. Q' = Q /\ Begun' = Begun /\ (\A j : Bytes(j)' = Bytes(j)) /\ (\A j, p : PieceAt(j, p)' = PieceAt(j, p))
  BY DEF Q, Begun, Bytes, Msg, PieceAt, Byte
<1>3. \A t, j : Busy(t, j)' <=> Busy(t, j)
  BY DEF Busy
<1>4. QueueOK'
  BY <1>2, <1>3 DEF FragInv, QueueOK
<1>5. RetOK' /\ \A j : Returned(j)' <=> Returned(j)
  BY <1>2, <1>3, RetKeeps
<1>6. \A s \in Senders : SenderOK(s)'
  BY <1>2, <1>3 DEF FragInv, SenderOK
<1>7. \A j, p : (Sent(j, p)' <=> Sent(j, p)) /\ (InQ(j, p)' <=> InQ(j, p))
  BY <1>2, <1>3 DEF Sent, InQ
<1>8. \A j \in Begun : Msg(j) \notin missed => MsgOK(j)'
  BY <1>2, <1>5, <1>7, MsgKeeps DEF FragInv
<1> QED BY <1>1, <1>2, <1>4, <1>5, <1>6, <1>8 DEF FragInv, Msg

\* A piece goes to the end of the ring.
LEMMA PushFrag ==
  ASSUME OneChannel, FragInv, NEW s \in Senders, out[s] # Idle, Advance(s),
         queue' = [queue EXCEPT ![Chan] = Append(@, Piece(s))],
         UNCHANGED <<acc, joined, rc, size, ret, missed>>
  PROVE  FragInv'
<1>1. PICK i, o : i = out[s].id /\ o = out[s].offset
  OBVIOUS
<1> DEFINE n == Bytes(i)
           m == PieceAt(i, o)
           z == Len(Q) + 1
<1>2. /\ i \in Begun /\ Piece(s) = m /\ n \in Nat \ {0} /\ o \in Nat /\ o < n /\ Aligned(o) /\ o \in Offsets(n)
      /\ \A t \in Senders : Busy(t, i) => t = s
  BY <1>1, SenderIs
<1>b. Busy(s, i) /\ DataLength \in Nat \ {0}
  BY <1>1, FragmentsAssumption DEF Busy
<1>3. /\ out' \in [Senders -> [chan : Channels \cup {"none"}, id : Nat, offset : Nat]]
      /\ \A t \in Senders : SenderOK(t)'
      /\ \A t \in Senders : \A j : Busy(t, j)' => Busy(t, j) /\ out[t].offset <= out'[t].offset
      /\ \A j : j # i => \A p : Sent(j, p)' <=> Sent(j, p)
      /\ Begun' = Begun /\ (\A j : Bytes(j)' = Bytes(j)) /\ (\A j, p : PieceAt(j, p)' = PieceAt(j, p))
      /\ (out'[s] = Idle \/ (o + DataLength < n /\ out'[s].offset = o + DataLength))
      /\ (out'[s] # Idle => out'[s].id = i)
  BY <1>1, AdvanceMoves, MovesKeep
<1>e. o + DataLength < n => out'[s] # Idle
  <2> SUFFICES ASSUME o + DataLength < n PROVE out'[s] # Idle
    OBVIOUS
  <2>1. out' = [out EXCEPT ![s] = IF o + DataLength >= n THEN Idle
                                  ELSE [chan |-> Chan, id |-> i, offset |-> o + DataLength]]
    BY <1>1, AdvanceMoves
  <2>2. ~(o + DataLength >= n)
    BY <1>2, <1>b
  <2>3. out'[s] = [chan |-> Chan, id |-> i, offset |-> o + DataLength]
    BY <2>1, <2>2 DEF FragInv, FragTypeOK
  <2> QED BY <2>3, ChanIs DEF Idle
<1>4. m.id = i /\ m.remain = n - o - DataLength
  BY <1>2, PieceHead
<1>5. /\ Q' = Append(Q, m) /\ DOMAIN queue' = Channels
  BY <1>2, ChanIs DEF FragInv, FragTypeOK, Q
<1>6. /\ Len(Q) \in Nat /\ DOMAIN Q = 1 .. Len(Q) /\ IsSeq(Q')
      /\ DOMAIN Q' = 1 .. Len(Q) + 1 /\ Q'[z] = m /\ \A k \in 1 .. Len(Q) : Q'[k] = Q[k]
  <2> HIDE DEF m
  <2>1. /\ Len(Q) \in Nat /\ DOMAIN Q = 1 .. Len(Q) /\ IsSeq(Append(Q, m))
        /\ DOMAIN Append(Q, m) = 1 .. Len(Q) + 1 /\ Append(Q, m)[Len(Q) + 1] = m
        /\ \A k \in 1 .. Len(Q) : Append(Q, m)[k] = Q[k]
    BY FragFacts, AppendIs
  <2> QED BY <1>5, <2>1
<1> HIDE DEF m, z
<1>7. \A k \in DOMAIN Q' : (k \in DOMAIN Q /\ k < z /\ Q'[k] = Q[k]) \/ (k = z /\ Q'[k] = m)
  BY <1>6 DEF z
<1>z. z \in DOMAIN Q' /\ \A k \in DOMAIN Q : k \in DOMAIN Q' /\ Q'[k] = Q[k]
  BY <1>6 DEF z
<1>8. ASSUME NEW k \in DOMAIN Q, Q[k].id = i
      PROVE  /\ Q[k].remain > 0 /\ Q[k].remain > n - o - DataLength
  BY <1>1, <1>8, <1>b DEF FragInv, QueueOK
<1>r. \A k \in DOMAIN Q : Q[k].remain \in Int
  <2> SUFFICES ASSUME NEW k \in DOMAIN Q PROVE Q[k].remain \in Int
    OBVIOUS
  <2>1. PICK j \in Begun : j = Q[k].id
    BY DEF FragInv, QueueOK
  <2>2. PICK p \in Offsets(Bytes(j)) : Q[k] = PieceAt(j, p)
    BY <2>1 DEF FragInv, QueueOK
  <2>3. Bytes(j) \in Nat /\ p \in Nat /\ p < Bytes(j)
    BY <2>1, FragFacts DEF Offsets
  <2>4. PieceAt(j, p).remain = Bytes(j) - p - DataLength /\ Bytes(j) - p - DataLength \in Int
    BY <1>b, <2>3, PieceHead
  <2> QED BY <2>2, <2>4
<1>9. QueueOK'
  <2>1. (\A k \in DOMAIN Q : Q[k].id \in Begun /\ \E p \in Offsets(Bytes(Q[k].id)) : Q[k] = PieceAt(Q[k].id, p))'
    <3> SUFFICES ASSUME NEW k \in DOMAIN Q'
                 PROVE  Q'[k].id \in Begun /\ \E p \in Offsets(Bytes(Q'[k].id)) : Q'[k] = PieceAt(Q'[k].id, p)
      BY <1>3 DEF PieceAt, Bytes, Msg, Byte
    <3>1. CASE k \in DOMAIN Q /\ Q'[k] = Q[k]
      BY <3>1 DEF FragInv, QueueOK
    <3>2. CASE Q'[k] = m
      BY <1>2, <1>4, <3>2 DEF m
    <3> QED BY <1>7, <3>1, <3>2
  <2>2. (\A j, k \in DOMAIN Q : j < k /\ Q[j].id = Q[k].id => Q[j].remain > Q[k].remain /\ Q[j].remain > 0)'
    <3> SUFFICES ASSUME NEW j \in DOMAIN Q', NEW k \in DOMAIN Q', j < k, Q'[j].id = Q'[k].id
                 PROVE  Q'[j].remain > Q'[k].remain /\ Q'[j].remain > 0
      OBVIOUS
    <3>1. j \in DOMAIN Q /\ Q'[j] = Q[j]
      <4>1. j # z
        BY <1>6 DEF z
      <4> QED BY <1>7, <4>1
    <3>2. CASE k \in DOMAIN Q /\ Q'[k] = Q[k]
      BY <3>1, <3>2 DEF FragInv, QueueOK
    <3>3. CASE Q'[k] = m
      BY <1>4, <1>8, <3>1, <3>3
    <3> QED BY <1>7, <3>2, <3>3
  <2>3. ASSUME NEW k \in DOMAIN Q', NEW t \in Senders, NEW j, j = Q'[k].id, Busy(t, j)'
        PROVE  Q'[k].remain > 0 /\ Q'[k].remain > Bytes(j) - out'[t].offset - DataLength
    <3>1. Busy(t, j) /\ out[t].offset <= out'[t].offset
      BY <1>3, <2>3
    <3>2. out[t].offset \in Nat /\ out'[t].offset \in Nat
      BY <1>3 DEF FragInv, FragTypeOK
    <3>3. CASE k \in DOMAIN Q /\ Q'[k] = Q[k]
      <4>1. j \in Begun /\ Q[k].remain > 0 /\ Q[k].remain > Bytes(j) - out[t].offset - DataLength
        BY <2>3, <3>1, <3>3 DEF FragInv, QueueOK
      <4>2. Bytes(j) \in Nat /\ Q[k].remain \in Int
        BY <1>r, <3>3, <4>1, FragFacts
      <4>3. Q[k].remain > Bytes(j) - out'[t].offset - DataLength
        BY <1>b, <3>1, <3>2, <4>1, <4>2
      <4> QED BY <3>3, <4>1, <4>3
    <3>4. CASE Q'[k] = m
      <4>1. j = i /\ t = s
        BY <1>2, <1>4, <2>3, <3>1, <3>4
      <4>2. o + DataLength < n /\ out'[s].offset = o + DataLength
        BY <1>3, <2>3, <4>1 DEF Busy
      <4>3. n - o - DataLength > 0 /\ n - o - DataLength > n - (o + DataLength) - DataLength
        BY <1>2, <1>b, <4>2
      <4> QED BY <1>4, <3>4, <4>1, <4>2, <4>3
    <3> QED BY <1>7, <3>3, <3>4
  <2>4. (\A k \in DOMAIN Q : \A t \in Senders : Busy(t, Q[k].id) =>
         Q[k].remain > 0 /\ Q[k].remain > Bytes(Q[k].id) - out[t].offset - DataLength)'
    <3> SUFFICES ASSUME NEW k \in DOMAIN Q', NEW t \in Senders, Busy(t, Q[k].id)'
                 PROVE  (Q[k].remain > 0 /\ Q[k].remain > Bytes(Q[k].id) - out[t].offset - DataLength)'
      OBVIOUS
    <3>1. PICK j : j = Q'[k].id
      OBVIOUS
    <3>2. Busy(t, j)' /\ Bytes(Q[k].id)' = Bytes(j)
      BY <3>1 DEF Busy, Bytes, Msg
    <3> QED BY <2>3, <3>1, <3>2
  <2> QED BY <2>1, <2>2, <2>4 DEF QueueOK
<1>10. RetOK' /\ IsSeq(ret') /\ \A j : Returned(j)' <=> Returned(j)
  <2>1. \A k \in DOMAIN Q' : (\E l \in DOMAIN Q : Q'[k] = Q[l]) \/ \E t \in Senders : Busy(t, Q'[k].id)
    BY <1>4, <1>7, <1>b
  <2> QED BY <1>3, <2>1, RetKeeps
<1>11. \A j \in Begun : \A p \in Offsets(Bytes(j)) : InQ(j, p)' <=> InQ(j, p) \/ (j = i /\ p = o)
  <2> SUFFICES ASSUME NEW j \in Begun, NEW p \in Offsets(Bytes(j))
               PROVE  InQ(j, p)' <=> InQ(j, p) \/ (j = i /\ p = o)
    OBVIOUS
  <2>1. Bytes(j) \in Nat /\ p \in Nat /\ p < Bytes(j)
    BY FragFacts DEF Offsets
  <2>2. ASSUME NEW k \in DOMAIN Q', Q'[k] = PieceAt(j, p) PROVE InQ(j, p) \/ (j = i /\ p = o)
    <3>1. CASE k \in DOMAIN Q /\ Q'[k] = Q[k]
      BY <2>2, <3>1 DEF InQ
    <3>2. CASE Q'[k] = m
      BY <1>2, <2>1, <2>2, <3>2, SamePiece DEF m, n
    <3> QED BY <1>7, <3>1, <3>2
  <2>3. InQ(j, p) => InQ(j, p)'
    BY <1>3, <1>z DEF InQ
  <2>4. j = i /\ p = o => InQ(j, p)'
    BY <1>3, <1>6, <1>z DEF InQ, m
  <2> QED BY <1>3, <2>2, <2>3, <2>4 DEF InQ
<1>12. \A p \in Offsets(n) : Sent(i, p)' <=> Sent(i, p) \/ p = o
  <2> SUFFICES ASSUME NEW p \in Offsets(n) PROVE Sent(i, p)' <=> Sent(i, p) \/ p = o
    OBVIOUS
  <2>1. p \in Nat /\ p < n /\ Aligned(p)
    BY <1>2 DEF Offsets
  <2>2. Sent(i, p) <=> p < o
    BY <1>1, <1>2, <1>b DEF Sent
  <2>3. ~(o < p /\ p < o + DataLength)
    BY <1>2, <1>b, <2>1, Pieces
  <2>4. CASE out'[s] = Idle
    <3>1. \A t \in Senders : ~Busy(t, i)'
      BY <1>2, <1>3, <2>4 DEF Busy
    <3>2. Sent(i, p)'
      BY <3>1 DEF Sent
    <3>3. o + DataLength >= n
      BY <1>2, <1>b, <1>e, <2>4
    <3>4. p < o \/ p = o
      BY <1>2, <1>b, <2>1, <2>3, <3>3
    <3> QED BY <2>2, <3>2, <3>4
  <2>5. CASE out'[s] # Idle
    <3>1. out'[s].offset = o + DataLength /\ Busy(s, i)'
      BY <1>3, <2>5 DEF Busy
    <3>2. \A t \in Senders : Busy(t, i)' => t = s
      BY <1>2, <1>3
    <3>3. Sent(i, p)' <=> p < o + DataLength
      BY <3>1, <3>2 DEF Sent
    <3>4. p < o + DataLength <=> p < o \/ p = o
      BY <1>2, <1>b, <2>1, <2>3
    <3> QED BY <2>2, <3>3, <3>4
  <2> QED BY <2>4, <2>5
<1>13. ASSUME NEW j \in Begun, Msg(j) \notin missed PROVE MsgOK(j)'
  <2>1. MsgOK(j)
    BY <1>13 DEF FragInv
  <2>2. CASE j # i
    <3>1. \A p \in Offsets(Bytes(j)) : (Sent(j, p)' <=> Sent(j, p)) /\ (InQ(j, p)' <=> InQ(j, p))
      BY <1>3, <1>11, <2>2
    <3> QED BY <1>3, <1>10, <2>1, <3>1, MsgKeeps
  <2>3. CASE j = i
    <3>0. MsgOK(i)
      BY <2>1, <2>3
    <3>1. \A p : Recd(i, p)' <=> Recd(i, p)
      BY <1>10 DEF Recd
    <3>2. ~Sent(i, o)
      BY <1>1, <1>2, <1>b DEF Sent
    <3>3. ~Recd(i, o)
      BY <1>2, <3>0, <3>2 DEF MsgOK, n
    <3>4. \A p \in Offsets(n) : (Sent(i, p) /\ ~Recd(i, p) <=> InQ(i, p)) /\ (Recd(i, p) => Sent(i, p))
      BY <3>0 DEF MsgOK, n
    <3>5. \A p \in Offsets(n) : InQ(i, p)' <=> InQ(i, p) \/ p = o
      BY <1>2, <1>11 DEF n
    <3>6. \A p \in Offsets(n) : (Sent(i, p)' /\ ~Recd(i, p)' <=> InQ(i, p)') /\ (Recd(i, p)' => Sent(i, p)')
      BY <1>12, <3>1, <3>3, <3>4, <3>5
    <3>7. Bytes(i)' = n /\ Offsets(Bytes(i))' = Offsets(n)
      BY <1>3 DEF Offsets, Aligned, n
    <3>8. i \in DOMAIN rc =>
            /\ rc[i].fill \in Offsets(n) /\ rc[i].fill > 0
            /\ Len(rc[i].buff) = n
            /\ \A x \in 1 .. rc[i].fill : rc[i].buff[x] = Byte(Msg(i), x)
      BY <3>0 DEF MsgOK, n
    <3> HIDE DEF n
    <3> QED BY <2>3, <3>6, <3>7, <3>8 DEF MsgOK, Byte, Msg
  <2> QED BY <2>2, <2>3
<1>14. FragTypeOK'
  BY <1>3, <1>5, <1>6, <1>10, FragKeeps DEF FragInv, FragTypeOK
<1> QED BY <1>3, <1>9, <1>10, <1>13, <1>14 DEF FragInv, Msg

\* A message is begun: nothing of it is anywhere yet.
LEMMA SendFrag ==
  ASSUME OneChannel, FragInv, NEW s \in Senders, NEW n \in Sizes, FragSend(s, Chan, n)
  PROVE  FragInv'
<1>1. PICK i : i = acc[Chan]
  OBVIOUS
<1> DEFINE new == [chan |-> Chan, id |-> i, offset |-> 0]
<1>2. /\ i \in Nat /\ i < MaxMsg /\ MaxMsg \in Nat /\ i \in MsgId /\ i \notin Begun /\ n \in Nat \ {0}
      /\ Chan \in Channels /\ Chan # "none"
  BY <1>1, ChanIs, FragFacts, FragmentsAssumption DEF FragSend, MsgId, Begun
<1>3. /\ acc' = [acc EXCEPT ![Chan] = i + 1] /\ out[s] = Idle
      /\ size' = [size EXCEPT ![Msg(i)] = n]
      /\ out' = [out EXCEPT ![s] = new]
      /\ UNCHANGED <<queue, joined, rc, ret, missed>>
  BY <1>1 DEF FragSend, Msg
<1>4. new # Idle /\ new.chan = Chan /\ new.id = i /\ new.offset = 0
  BY <1>2 DEF Idle
<1>t. /\ acc \in [Channels -> Nat] /\ size \in [Channels \X MsgId -> Nat]
      /\ out \in [Senders -> [chan : Channels \cup {"none"}, id : Nat, offset : Nat]]
  BY DEF FragInv, FragTypeOK
<1>5. /\ acc' \in [Channels -> Nat] /\ acc'[Chan] = i + 1 /\ acc'[Chan] <= MaxMsg
      /\ size' \in [Channels \X MsgId -> Nat]
      /\ out' \in [Senders -> [chan : Channels \cup {"none"}, id : Nat, offset : Nat]]
  BY <1>2, <1>3, <1>t DEF Msg
<1> HIDE DEF new
<1>6. out'[s] = new /\ \A t \in Senders : t # s => out'[t] = out[t]
  BY <1>3, <1>t
<1>7. Begun' = Begun \cup {i}
  BY <1>1, <1>2, <1>5 DEF Begun
<1>8. Bytes(i)' = n /\ \A j \in Begun : j # i /\ Bytes(j)' = Bytes(j) /\ Whole(Msg(j))' = Whole(Msg(j))
  <2>1. Msg(i) \in Channels \X MsgId
    BY <1>2 DEF Msg
  <2>2. Bytes(i)' = n
    BY <1>3, <1>t, <2>1 DEF Bytes, Msg
  <2>3. ASSUME NEW j \in Begun PROVE j # i /\ Bytes(j)' = Bytes(j) /\ Whole(Msg(j))' = Whole(Msg(j))
    <3>1. j # i /\ Msg(j) # Msg(i)
      BY <1>2 DEF Msg
    <3>2. size'[Msg(j)] = size[Msg(j)]
      <4>1. Msg(j) \in Channels \X MsgId
        BY <1>2, FragFacts DEF Msg
      <4> QED BY <1>3, <1>t, <3>1, <4>1
    <3> QED BY <3>1, <3>2 DEF Bytes, Whole, Msg
  <2> QED BY <2>2, <2>3
<1>9. \A j \in Begun : \A p : PieceAt(j, p)' = PieceAt(j, p)
  BY <1>8 DEF PieceAt, Msg, Byte
<1>10. \A j \in Begun : \A t \in Senders : /\ Busy(t, j)' <=> Busy(t, j)
                                           /\ Busy(t, j) => t # s /\ out'[t] = out[t]
  <2> SUFFICES ASSUME NEW j \in Begun, NEW t \in Senders
               PROVE  /\ Busy(t, j)' <=> Busy(t, j)
                      /\ Busy(t, j) => t # s /\ out'[t] = out[t]
    OBVIOUS
  <2>1. CASE t = s
    BY <1>3, <1>4, <1>6, <1>8, <2>1 DEF Busy
  <2>2. CASE t # s
    BY <1>6, <2>2 DEF Busy
  <2> QED BY <2>1, <2>2
<1>11. \A t \in Senders : Busy(t, i)' <=> t = s
  <2> SUFFICES ASSUME NEW t \in Senders PROVE Busy(t, i)' <=> t = s
    OBVIOUS
  <2>1. CASE t = s
    BY <1>4, <1>6, <2>1 DEF Busy
  <2>2. CASE t # s
    <3>1. out[t] # Idle => out[t].id \in Begun
      BY DEF FragInv, SenderOK
    <3>2. ~Busy(t, i)'
      BY <1>2, <1>6, <2>2, <3>1 DEF Busy
    <3> QED BY <2>2, <3>2
  <2> QED BY <2>1, <2>2
<1>12. Q' = Q
  BY <1>3 DEF Q
<1>13. FragTypeOK'
  <2>1. (\A j \in Begun : Bytes(j) > 0)'
    <3> SUFFICES ASSUME NEW j \in Begun' PROVE Bytes(j)' > 0
      OBVIOUS
    <3>1. CASE j \in Begun
      BY <1>8, <3>1, FragFacts
    <3>2. CASE j = i
      BY <1>2, <1>8, <3>2
    <3> QED BY <1>7, <3>1, <3>2
  <2>2. joined' \subseteq Channels /\ DOMAIN rc' \subseteq Begun' /\ IsSeq(Q') /\ IsSeq(ret') /\ DOMAIN queue' = Channels
    BY <1>3, <1>7, <1>12 DEF FragInv, FragTypeOK
  <2> QED BY <1>5, <2>1, <2>2 DEF FragTypeOK
<1>14. QueueOK'
  <2>0. \A k \in DOMAIN Q : Q[k].id \in Begun
    BY DEF FragInv, QueueOK
  <2>1. (\A k \in DOMAIN Q : Q[k].id \in Begun /\ \E p \in Offsets(Bytes(Q[k].id)) : Q[k] = PieceAt(Q[k].id, p))'
    <3> SUFFICES ASSUME NEW k \in DOMAIN Q
                 PROVE  (Q[k].id \in Begun /\ \E p \in Offsets(Bytes(Q[k].id)) : Q[k] = PieceAt(Q[k].id, p))'
      BY <1>12
    <3>1. PICK j \in Begun : j = Q[k].id
      BY <2>0
    <3>2. PICK p \in Offsets(Bytes(j)) : Q[k] = PieceAt(j, p)
      BY <3>1 DEF FragInv, QueueOK
    <3>3. Bytes(Q[k].id)' = Bytes(j) /\ PieceAt(Q[k].id, p)' = PieceAt(j, p) /\ Q'[k].id = j
      BY <1>8, <1>9, <1>12, <3>1 DEF Bytes, PieceAt, Msg, Byte
    <3>4. Offsets(Bytes(Q[k].id))' = Offsets(Bytes(j))
      BY <3>3 DEF Offsets, Aligned
    <3> QED BY <1>7, <1>12, <3>1, <3>2, <3>3, <3>4
  <2>2. (\A j, k \in DOMAIN Q : j < k /\ Q[j].id = Q[k].id => Q[j].remain > Q[k].remain /\ Q[j].remain > 0)'
    BY <1>12 DEF FragInv, QueueOK
  <2>3. (\A k \in DOMAIN Q : \A t \in Senders : Busy(t, Q[k].id) =>
         Q[k].remain > 0 /\ Q[k].remain > Bytes(Q[k].id) - out[t].offset - DataLength)'
    <3> SUFFICES ASSUME NEW k \in DOMAIN Q, NEW t \in Senders, Busy(t, Q[k].id)'
                 PROVE  (Q[k].remain > 0 /\ Q[k].remain > Bytes(Q[k].id) - out[t].offset - DataLength)'
      BY <1>12
    <3>1. PICK j \in Begun : j = Q[k].id
      BY <2>0
    <3>2. Busy(t, j)' /\ Bytes(Q[k].id)' = Bytes(j) /\ Q'[k] = Q[k]
      BY <1>8, <1>12, <3>1 DEF Busy, Bytes, Msg
    <3>3. Busy(t, j) /\ out'[t] = out[t]
      BY <1>10, <3>2
    <3>4. Q[k].remain > 0 /\ Q[k].remain > Bytes(j) - out[t].offset - DataLength
      BY <3>1, <3>3 DEF FragInv, QueueOK
    <3> QED BY <3>2, <3>3, <3>4
  <2> QED BY <2>1, <2>2, <2>3 DEF QueueOK
<1>15. RetOK'
  <2>0. \A e \in DOMAIN ret : ret[e].id \in Begun
    BY DEF FragInv, RetOK
  <2>1. (\A e \in DOMAIN ret : ret[e].chan = Chan /\ ret[e].id \in Begun)'
    BY <1>3, <1>7 DEF FragInv, RetOK
  <2>2. (\A e \in DOMAIN ret : Msg(ret[e].id) \notin missed => ret[e].buff = Whole(Msg(ret[e].id)))'
    <3> SUFFICES ASSUME NEW e \in DOMAIN ret, (Msg(ret[e].id) \notin missed)' PROVE (ret[e].buff = Whole(Msg(ret[e].id)))'
      BY <1>3
    <3>1. PICK j \in Begun : j = ret[e].id
      BY <2>0
    <3>2. Whole(Msg(ret[e].id))' = Whole(Msg(j)) /\ Msg(j) \notin missed
      BY <1>3, <1>8, <3>1 DEF Whole, Msg
    <3> QED BY <1>3, <3>1, <3>2 DEF FragInv, RetOK
  <2>3. (\A j, e \in DOMAIN ret : ret[j].id = ret[e].id => j = e)'
    BY <1>3 DEF FragInv, RetOK
  <2>4. (\A e \in DOMAIN ret : /\ \A t \in Senders : ~Busy(t, ret[e].id)
                               /\ \A j \in DOMAIN Q : Q[j].id = ret[e].id => Q[j].remain > 0)'
    <3> SUFFICES ASSUME NEW e \in DOMAIN ret
                 PROVE  (/\ \A t \in Senders : ~Busy(t, ret[e].id)
                         /\ \A j \in DOMAIN Q : Q[j].id = ret[e].id => Q[j].remain > 0)'
      BY <1>3
    <3>1. PICK j \in Begun : j = ret[e].id
      BY <2>0
    <3>2. \A t \in Senders : ~Busy(t, j)
      BY <3>1 DEF FragInv, RetOK
    <3>3. \A t \in Senders : ~Busy(t, j)'
      BY <1>10, <3>2
    <3>4. (\A t \in Senders : ~Busy(t, ret[e].id))'
      BY <1>3, <3>1, <3>3 DEF Busy
    <3>5. (\A x \in DOMAIN Q : Q[x].id = ret[e].id => Q[x].remain > 0)'
      BY <1>3, <1>12 DEF FragInv, RetOK
    <3> QED BY <3>4, <3>5
  <2> QED BY <2>1, <2>2, <2>3, <2>4 DEF RetOK
<1>16. ASSUME NEW t \in Senders PROVE SenderOK(t)'
  <2> SUFFICES ASSUME out'[t] # Idle
               PROVE  (/\ out[t].chan = Chan /\ out[t].id \in Begun
                       /\ out[t].offset \in Offsets(Bytes(out[t].id))
                       /\ \A u \in Senders : Busy(u, out[t].id) => u = t)'
    BY DEF SenderOK
  <2>1. CASE t = s
    <3>1. out'[t].chan = Chan /\ out'[t].id = i /\ out'[t].offset = 0
      BY <1>4, <1>6, <2>1
    <3>2. Bytes(out[t].id)' = n /\ 0 \in Offsets(n)
      BY <1>2, <1>8, <3>1, Pieces DEF Bytes, Msg, Offsets
    <3>3. \A u \in Senders : Busy(u, out[t].id)' => u = s
      <4> SUFFICES ASSUME NEW u \in Senders, Busy(u, out[t].id)' PROVE u = s
        OBVIOUS
      <4>1. Busy(u, i)'
        BY <3>1 DEF Busy
      <4> QED BY <1>11, <4>1
    <3>4. Offsets(Bytes(out[t].id))' = Offsets(n)
      BY <3>2 DEF Offsets, Aligned
    <3> QED BY <1>7, <2>1, <3>1, <3>2, <3>3, <3>4
  <2>2. CASE t # s
    <3>1. out'[t] = out[t] /\ SenderOK(t)
      BY <1>6, <2>2 DEF FragInv
    <3>2. PICK j \in Begun : j = out[t].id
      BY <3>1 DEF SenderOK
    <3>3. Bytes(out[t].id)' = Bytes(j)
      BY <1>8, <3>1, <3>2 DEF Bytes, Msg
    <3>4. Offsets(Bytes(out[t].id))' = Offsets(Bytes(j))
      BY <3>3 DEF Offsets, Aligned
    <3>5. ASSUME NEW u \in Senders, Busy(u, out[t].id)' PROVE u = t
      <4>1. Busy(u, j)'
        BY <3>1, <3>2, <3>5 DEF Busy
      <4>2. Busy(u, j)
        BY <1>10, <4>1
      <4> QED BY <3>1, <3>2, <4>2 DEF SenderOK
    <3>6. out[t].chan = Chan /\ out[t].offset \in Offsets(Bytes(j))
      BY <3>1, <3>2 DEF SenderOK
    <3> QED BY <1>7, <3>1, <3>2, <3>4, <3>5, <3>6
  <2> QED BY <2>1, <2>2
<1>17. \A j : Returned(j)' <=> Returned(j)
  BY <1>3 DEF Returned
<1>18. ASSUME NEW j \in Begun, Msg(j) \notin missed PROVE MsgOK(j)'
  <2>1. MsgOK(j)
    BY <1>18 DEF FragInv
  <2>2. \A p : Sent(j, p)' <=> Sent(j, p)
    BY <1>10 DEF Sent
  <2>3. \A p : InQ(j, p)' <=> InQ(j, p)
    BY <1>9, <1>12 DEF InQ
  <2>4. (j \in DOMAIN rc' <=> j \in DOMAIN rc) /\ (j \in DOMAIN rc => rc'[j] = rc[j])
    BY <1>3
  <2> QED BY <1>8, <1>17, <2>1, <2>2, <2>3, <2>4, MsgKeeps
<1>19. MsgOK(i)'
  <2>1. i \notin DOMAIN rc' /\ ~Returned(i)
    BY <1>2, <1>3 DEF FragInv, FragTypeOK, RetOK, Returned
  <2>2. \A p \in Nat : ~Sent(i, p)'
    <3> SUFFICES ASSUME NEW p \in Nat, Sent(i, p)' PROVE FALSE
      OBVIOUS
    <3>1. p < out'[s].offset
      BY <1>11 DEF Sent
    <3>2. out'[s].offset = 0
      BY <1>4, <1>6
    <3> QED BY <3>1, <3>2
  <2>3. \A p : ~Recd(i, p)'
    BY <1>17, <2>1 DEF Recd
  <2>4. \A p : ~InQ(i, p)'
    <3> SUFFICES ASSUME NEW p, NEW k \in DOMAIN Q', Q'[k] = PieceAt(i, p)' PROVE FALSE
      BY DEF InQ
    <3>1. PieceAt(i, p)'.id = i
      BY DEF PieceAt
    <3>2. Q[k].id \in Begun
      BY <1>12 DEF FragInv, QueueOK
    <3> QED BY <1>2, <1>12, <3>1, <3>2
  <2>5. \A p \in Offsets(Bytes(i))' : p \in Nat
    BY DEF Offsets
  <2> QED BY <2>1, <2>2, <2>3, <2>4, <2>5 DEF MsgOK
<1>20. \A j \in Begun' : Msg(j) \notin missed' => MsgOK(j)'
  BY <1>3, <1>7, <1>18, <1>19 DEF Msg
<1> QED BY <1>13, <1>14, <1>15, <1>16, <1>20 DEF FragInv, Msg

\* No message has been sent.
LEMMA FragStarts == ASSUME OneChannel, FragInit PROVE FragInv
<1>1. Chan \in Channels /\ MaxMsg \in Nat /\ Channels = {Chan}
  BY ChanIs, FragmentsAssumption
<1>2. Q = <<>> /\ ret = <<>> /\ rc = <<>> /\ acc[Chan] = 0 /\ DOMAIN queue = Channels
  BY <1>1 DEF FragInit, Q
<1>3. IsSeq(Q) /\ IsSeq(ret) /\ DOMAIN Q = {} /\ DOMAIN ret = {} /\ DOMAIN rc = {} /\ Begun = {}
  BY <1>2, EmptyIs DEF Begun
<1>4. Idle \in [chan : Channels \cup {"none"}, id : Nat, offset : Nat]
  BY DEF Idle
<1>5. out \in [Senders -> [chan : Channels \cup {"none"}, id : Nat, offset : Nat]]
  BY <1>4 DEF FragInit
<1>6. acc \in [Channels -> Nat] /\ joined \subseteq Channels /\ size \in [Channels \X MsgId -> Nat]
  BY DEF FragInit
<1>7. FragTypeOK
  BY <1>1, <1>2, <1>3, <1>5, <1>6 DEF FragTypeOK
<1>8. QueueOK /\ RetOK
  BY <1>3 DEF QueueOK, RetOK
<1>9. \A s \in Senders : SenderOK(s)
  BY DEF FragInit, SenderOK
<1> QED BY <1>3, <1>7, <1>8, <1>9 DEF FragInv

\* Every step keeps the invariant.
LEMMA FragStep == ASSUME OneChannel, FragInv, [FragNext]_fragVars PROVE FragInv'
<1>1. CASE UNCHANGED fragVars
  <2>1. joined' \subseteq Channels
    BY <1>1 DEF fragVars, FragInv, FragTypeOK
  <2> QED BY <1>1, <2>1, ConnectFrag DEF fragVars
<1>2. ASSUME NEW s \in Senders, FragWriting(s) PROVE FragInv'
  <2>1. CASE \E c \in Channels, n \in Sizes : FragSend(s, c, n)
    <3>1. PICK c \in Channels, n \in Sizes : FragSend(s, c, n)
      BY <2>1
    <3>2. c = Chan
      BY ChanIs
    <3> QED BY <3>1, <3>2, SendFrag
  <2>2. CASE Push(s)
    <3>1. /\ out[s] # Idle /\ Advance(s) /\ out[s].chan = Chan /\ UNCHANGED <<acc, joined, rc, size, ret>>
      BY <2>2, SenderIs DEF Push
    <3>2. CASE Chan \in joined
      <4>1. queue' = [queue EXCEPT ![Chan] = Append(@, Piece(s))] /\ missed' = missed
        BY <2>2, <3>1, <3>2 DEF Push
      <4> QED BY <3>1, <4>1, PushFrag
    <3>3. CASE Chan \notin joined
      <4>1. missed' = missed \cup {Sending(s)} /\ queue' = queue
        BY <2>2, <3>1, <3>3 DEF Push
      <4> QED BY <3>1, <4>1, AdvanceMoves, MissFrag
    <3> QED BY <3>2, <3>3
  <2>3. CASE GiveUp(s)
    BY <2>3, MissFrag DEF GiveUp, Moves
  <2>4. CASE ForcePush(s)
    BY <2>4, ForceFrag
  <2> QED BY <1>2, <2>1, <2>2, <2>3, <2>4 DEF FragWriting
<1>3. ASSUME NEW c \in Channels, FragConnect(c) \/ FragDisconnect(c) \/ FragRecv(c) PROVE FragInv'
  <2>0. c = Chan
    BY ChanIs
  <2>1. CASE FragConnect(c)
    <3>1. joined' \subseteq Channels
      BY <2>1 DEF FragConnect, FragInv, FragTypeOK
    <3> QED BY <2>1, <3>1, ConnectFrag DEF FragConnect
  <2>2. CASE FragDisconnect(c)
    BY <2>0, <2>2, DisconnectFrag
  <2>3. CASE FragRecv(c)
    BY <2>0, <2>3, RecvFrag
  <2> QED BY <1>3, <2>1, <2>2, <2>3
<1> QED BY <1>1, <1>2, <1>3 DEF FragNext

\* The pieces of every message that the receiver missed nothing of are where they belong.
THEOREM FragInvariance == OneChannel /\ FragSpec => []FragInv
<1> SUFFICES ASSUME OneChannel PROVE FragSpec => []FragInv
  OBVIOUS
<1>1. FragInit => FragInv
  BY FragStarts
<1>2. FragInv /\ [FragNext]_fragVars => FragInv'
  BY FragStep
<1> QED BY <1>1, <1>2, PTL DEF FragSpec

\* On one channel recv returns whole messages only, each once, unless a piece was missed.
THEOREM FragReassembled == OneChannel /\ FragSpec => []Reassembled
<1> SUFFICES ASSUME OneChannel PROVE FragSpec => []Reassembled
  OBVIOUS
<1>1. FragInv => Reassembled
  <2> SUFFICES ASSUME FragInv PROVE Reassembled
    OBVIOUS
  <2>1. \A k \in DOMAIN ret : ret[k].chan = Chan
    BY DEF FragInv, RetOK
  <2> QED BY <2>1 DEF FragInv, RetOK, Reassembled, Msg
<1>2. FragSpec => []FragInv
  BY FragInvariance
<1> QED BY <1>1, <1>2, PTL

\* The ids of ids that are far from another of them.
Far(ids) == {i \in ids : \E j \in ids : Distance(i, j) > CacheAge}

\* The cache is finite, and few of its entries are far from another.
FarOK == IsFiniteSet(DOMAIN rc) /\ Cardinality(Far(DOMAIN rc)) <= CacheSize + 1

\* Of fewer entries fewer are far apart.
LEMMA FarFewer ==
  ASSUME FarOK, NEW T, IsFiniteSet(T), Far(T) \subseteq Far(DOMAIN rc)
  PROVE  Cardinality(Far(T)) <= CacheSize + 1
<1>1. IsFiniteSet(Far(DOMAIN rc))
  BY FS_Subset DEF FarOK, Far
<1>2. Cardinality(Far(T)) <= Cardinality(Far(DOMAIN rc)) /\ IsFiniteSet(Far(T))
  BY <1>1, FS_Subset
<1>3. Cardinality(Far(T)) \in Nat /\ Cardinality(Far(DOMAIN rc)) \in Nat /\ CacheSize \in Nat
  BY <1>1, <1>2, FS_CardinalityType, FragmentsAssumption
<1> QED BY <1>2, <1>3 DEF FarOK

\* An entry for id, after the gc.
LEMMA FarAdded ==
  ASSUME FarOK, NEW id \in Nat, DOMAIN rc \subseteq Nat, NEW T, T = Gc(id) \cup {id}
  PROVE  IsFiniteSet(T) /\ Cardinality(Far(T)) <= CacheSize + 1
<1> DEFINE D == DOMAIN rc
<1>1. IsFiniteSet(D) /\ Cardinality(D) \in Nat /\ CacheSize \in Nat /\ CacheAge \in Nat
  BY FS_CardinalityType, FragmentsAssumption DEF FarOK
<1>2. Gc(id) \subseteq D
  BY DEF Gc
<1>3. IsFiniteSet(Gc(id)) /\ Cardinality(Gc(id)) <= Cardinality(D) /\ Cardinality(Gc(id)) \in Nat
  BY <1>1, <1>2, FS_Subset, FS_CardinalityType
<1>4. IsFiniteSet(T) /\ Cardinality(T) <= Cardinality(Gc(id)) + 1 /\ Cardinality(T) \in Nat
  <2>1. IsFiniteSet(T) /\ (Cardinality(T) = Cardinality(Gc(id)) \/ Cardinality(T) = Cardinality(Gc(id)) + 1)
    BY <1>3, FS_AddElement
  <2> QED BY <1>3, <2>1
<1>5. CASE Cardinality(D) > CacheSize
  <2>1. Gc(id) = {i \in D : Distance(i, id) <= CacheAge}
    BY <1>5 DEF Gc
  <2>2. Far(T) \subseteq Far(D)
    <3> SUFFICES ASSUME NEW i \in T, NEW j \in T, Distance(i, j) > CacheAge PROVE i \in Far(D)
      BY DEF Far
    <3>1. i \in Nat /\ j \in Nat
      BY <1>2
    <3>2. Distance(i, j) = Distance(j, i) /\ Distance(id, id) = 0 /\ Distance(i, j) \in Nat
      BY <3>1 DEF Distance
    <3>3. i # id
      <4> SUFFICES ASSUME i = id PROVE FALSE
        OBVIOUS
      <4>1. CASE j = id
        BY <1>1, <3>2, <4>1
      <4>2. CASE j # id
        <5>1. Distance(j, id) <= CacheAge
          BY <2>1, <4>2
        <5> QED BY <1>1, <3>2, <5>1
      <4> QED BY <4>1, <4>2
    <3>4. i \in D /\ Distance(i, id) <= CacheAge
      BY <2>1, <3>3
    <3>5. j # id
      <4> SUFFICES ASSUME j = id PROVE FALSE
        OBVIOUS
      <4> QED BY <1>1, <3>2, <3>4
    <3>6. j \in D
      BY <2>1, <3>5
    <3> QED BY <3>4, <3>6 DEF Far
  <2> QED BY <1>4, <2>2, FarFewer
<1>6. CASE ~(Cardinality(D) > CacheSize)
  <2>1. Cardinality(T) <= CacheSize + 1
    BY <1>1, <1>3, <1>4, <1>6
  <2>2. Far(T) \subseteq T
    BY DEF Far
  <2>3. Cardinality(Far(T)) <= Cardinality(T) /\ Cardinality(Far(T)) \in Nat
    BY <1>4, <2>2, FS_Subset, FS_CardinalityType
  <2> QED BY <1>1, <1>4, <2>1, <2>3
<1> QED BY <1>5, <1>6

\* A step adds an entry after the gc, or removes entries.
LEMMA FarStep == ASSUME OneChannel, FragInv, FarOK, [FragNext]_fragVars PROVE FarOK'
<1>1. ASSUME DOMAIN rc' \subseteq DOMAIN rc PROVE FarOK'
  <2>1. IsFiniteSet(DOMAIN rc') /\ Far(DOMAIN rc') \subseteq Far(DOMAIN rc)
    BY <1>1, FS_Subset DEF FarOK, Far
  <2>2. Cardinality(Far(DOMAIN rc')) <= CacheSize + 1
    BY <2>1, FarFewer
  <2> QED BY <2>1, <2>2 DEF FarOK, Far, Distance
<1>2. CASE UNCHANGED fragVars
  BY <1>1, <1>2 DEF fragVars
<1>3. ASSUME NEW s \in Senders, FragWriting(s) PROVE FarOK'
  <2>1. rc' = rc
    BY <1>3 DEF FragWriting, FragSend, Push, GiveUp, ForcePush
  <2> QED BY <1>1, <2>1
<1>4. ASSUME NEW c \in Channels, FragConnect(c) PROVE FarOK'
  BY <1>1, <1>4 DEF FragConnect
<1>5. ASSUME NEW c \in Channels, FragDisconnect(c) PROVE FarOK'
  <2>1. DOMAIN rc' = {}
    BY <1>5, EmptyIs DEF FragDisconnect
  <2> QED BY <1>1, <2>1
<1>6. ASSUME NEW c \in Channels, FragRecv(c) PROVE FarOK'
  <2>0. c = Chan
    BY ChanIs
  <2>1. Q # <<>> /\ Head(Q) = Q[1] /\ Len(Q) \in Nat \ {0} /\ DOMAIN Q = 1 .. Len(Q)
    BY <1>6, <2>0, FragFacts, TailIs DEF FragRecv, Q
  <2>2. PICK m : m = Head(queue[c]) /\ (RecvShort(c, m) \/ RecvFirst(c, m) \/ RecvMiddle(c, m) \/ RecvLast(c, m))
    BY <1>6 DEF FragRecv
  <2>3. m.id \in Nat
    <3>1. 1 \in DOMAIN Q /\ m = Q[1]
      BY <2>0, <2>1, <2>2 DEF Q
    <3> QED BY <3>1, FragFacts DEF FragInv, QueueOK
  <2>4. CASE RecvFirst(c, m)
    <3>1. DOMAIN rc' = Gc(m.id) \cup {m.id}
      BY <2>4 DEF RecvFirst, CacheWith
    <3>2. DOMAIN rc \subseteq Nat
      BY FragFacts DEF FragInv, FragTypeOK
    <3>3. IsFiniteSet(DOMAIN rc') /\ Cardinality(Far(DOMAIN rc')) <= CacheSize + 1
      BY <2>3, <3>1, <3>2, FarAdded
    <3> QED BY <3>3 DEF FarOK, Far, Distance
  <2>5. CASE RecvShort(c, m) \/ RecvMiddle(c, m) \/ RecvLast(c, m)
    <3>1. DOMAIN rc' \subseteq DOMAIN rc
      BY <2>5 DEF RecvShort, RecvMiddle, RecvLast
    <3> QED BY <1>1, <3>1
  <2> QED BY <2>2, <2>4, <2>5
<1> QED BY <1>2, <1>3, <1>4, <1>5, <1>6 DEF FragNext

\* With senders that are done and an empty ring, whatever is in the cache was missed.
LEMMA CacheMissed ==
  ASSUME OneChannel, FragInv, \A s \in Senders : out[s] = Idle, Q = <<>>, NEW i \in DOMAIN rc
  PROVE  Msg(i) \in missed
<1> SUFFICES ASSUME Msg(i) \notin missed PROVE FALSE
  OBVIOUS
<1>1. i \in Begun
  BY DEF FragInv, FragTypeOK
<1>2. MsgOK(i)
  BY <1>1 DEF FragInv
<1>3. PICK f \in Offsets(Bytes(i)) : f = rc[i].fill
  BY <1>2 DEF MsgOK
<1>4. ~Recd(i, f)
  <2>1. f \in Nat
    BY <1>3 DEF Offsets
  <2> QED BY <1>3, <2>1 DEF Recd
<1>5. Sent(i, f)
  BY DEF Sent, Busy
<1>6. InQ(i, f)
  BY <1>2, <1>4, <1>5 DEF MsgOK
<1> QED BY <1>6, EmptyIs DEF InQ

\* The cache drains, and the gc bounds what cannot.
THEOREM FragCacheDrains == OneChannel /\ FragSpec => []CacheDrains
<1> SUFFICES ASSUME OneChannel PROVE FragSpec => []CacheDrains
  OBVIOUS
<1>1. FragInv /\ FarOK => CacheDrains
  <2> SUFFICES ASSUME FragInv, FarOK PROVE CacheDrains
    OBVIOUS
  <2>1. ASSUME \A s \in Senders : out[s] = Idle, \A c \in Channels : queue[c] = <<>>, NEW i \in DOMAIN rc
        PROVE  \E c \in Channels : <<c, i>> \in missed
    <3>1. Q = <<>> /\ Chan \in Channels
      BY <2>1, ChanIs DEF Q
    <3>2. Msg(i) \in missed
      BY <2>1, <3>1, CacheMissed
    <3> QED BY <3>1, <3>2 DEF Msg
  <2>2. Cardinality({i \in DOMAIN rc : \E j \in DOMAIN rc : Distance(i, j) > CacheAge}) <= CacheSize + 1
    BY DEF FarOK, Far
  <2> QED BY <2>1, <2>2 DEF CacheDrains
<1>2. FragInit => FarOK
  <2> SUFFICES ASSUME FragInit PROVE FarOK
    OBVIOUS
  <2>1. DOMAIN rc = {} /\ Far({}) = {}
    BY EmptyIs DEF FragInit, Far
  <2> QED BY <2>1, FS_EmptySet, FragmentsAssumption DEF FarOK
<1>3. FragInv /\ FarOK /\ [FragNext]_fragVars => FarOK'
  BY FarStep
<1>4. FragSpec => []FragInv
  BY FragInvariance
<1> QED BY <1>1, <1>2, <1>3, <1>4, PTL DEF FragSpec
=============================================================================
