------------------------- MODULE ChannelRingProofs -------------------------
(***************************************************************************)
(* The ring of ipc::channel for any number of slots, producers and         *)
(* readers, while nobody connects, disconnects or forces a push (Settled)  *)
(* and the 32-bit index has not come round (NoWrap): past either point the *)
(* properties fail or have no meaning.                                     *)
(*                                                                         *)
(* ChanInv is inductive.  Published says of each of the last N positions   *)
(* which readers rc_ still names, who fills it and what its flag may be;   *)
(* ProducerOk why a compare-exchange on a word read before the flag can    *)
(* only succeed at the position of ct_; ReaderOk why the last bit of rc_   *)
(* is never cleared before the flag names the next round.                  *)
(*                                                                         *)
(* With one producer, force_push and readers that come and go are allowed  *)
(* for NeverStale: what a slot holds only grows, and its flag never says   *)
(* more than what it holds (SoleInv).                                      *)
(***************************************************************************)
EXTENDS ChannelRing, RingArith

Settled == Churn = FALSE /\ MaxEpoch = 0
NoWrap  == ct < Wrap - 1

Words == [cc : SUBSET Ids, ep : {0}, ic : Nat]
ProdPlaces == {"idle", "push", "conns", "index", "rc", "flag", "cas", "epoch",
               "store", "fill", "commit", "failed"}
ReadPlaces == {"idle", "recv", "pop", "copy", "ack", "last", "ackcas"}

ChanType ==
  /\ ct \in Nat /\ epoch = 0
  /\ connected \in [Readers -> Ids]
  /\ \A r, q \in Readers : connected[r] = connected[q] => r = q
  /\ cc = {connected[r] : r \in Readers}
  /\ data \in [Slots -> Int] /\ fl \in [Slots -> Int]
  /\ rc \in [Slots -> Words] /\ \A s \in Slots : rc[s].cc \subseteq cc
  /\ ppc \in [Producers -> ProdPlaces] /\ inForce = [p \in Producers |-> FALSE]
  /\ pep = [p \in Producers |-> 0] /\ pcc \in [Producers -> SUBSET Ids]
  /\ pct \in [Producers -> Nat] /\ prc \in [Producers -> Words]
  /\ rpc \in [Readers -> ReadPlaces] /\ cursor \in [Readers -> Nat]
  /\ item \in [Readers -> Int] /\ rrc \in [Readers -> Words]

\* A producer whose claim is not yet in ct_; one whose position readers can
\* already see in ct_; a reader that has seen the flag of its message.
Ahead(p)   == ppc[p] \in {"epoch", "store"}
Filling(p) == ppc[p] \in {"fill", "commit"}
Acks(r)    == rpc[r] \in {"ack", "last", "ackcas"}
Holds(r)   == rpc[r] = "copy" \/ Acks(r)

\* Every reader has finished with the position a round before ct_.
RoundRead == \A r \in Readers : cursor[r] > ct - N

ProducerOk(p) ==
  /\ ppc[p] # "idle" => cc # {}
  /\ ppc[p] \in {"index", "rc", "flag", "cas"} => pcc[p] = cc
  /\ ppc[p] \in {"rc", "flag", "cas"} => pct[p] <= ct
  /\ ppc[p] \in {"flag", "cas"} => prc[p].cc = {} /\ prc[p].ic <= rc[SlotOf(pct[p])].ic
  /\ ppc[p] = "cas" => (prc[p] = rc[SlotOf(pct[p])] => pct[p] = ct)
  /\ Ahead(p) => pct[p] = ct /\ rc[SlotOf(ct)].cc = cc /\ RoundRead
  /\ Filling(p) =>
       /\ ct - N <= pct[p] /\ pct[p] < ct
       /\ fl[SlotOf(pct[p])] = 0 \/ fl[SlotOf(pct[p])] = pct[p]
       /\ \A r \in Readers : cursor[r] <= pct[p] /\ (Holds(r) => cursor[r] # pct[p])
  /\ ppc[p] = "commit" => data[SlotOf(pct[p])] = pct[p]

OwnersApart == \A p, q \in Producers :
  /\ Ahead(p) /\ Ahead(q) => p = q
  /\ Filling(p) /\ Filling(q) /\ pct[p] = pct[q] => p = q

ReaderOk(r) ==
  /\ ct - N <= cursor[r] /\ cursor[r] <= ct
  /\ Holds(r) => cursor[r] < ct
  /\ Acks(r) => item[r] = cursor[r]
  /\ rpc[r] = "last" => rc[SlotOf(cursor[r])].cc \subseteq {connected[r]}
  /\ rpc[r] = "ackcas" =>
       (rrc[r].cc \subseteq {connected[r]} => fl[SlotOf(cursor[r])] = cursor[r] + N)

\* rc_ names the readers of position k that have not acknowledged it.
Names(k) == \A r \in Readers : connected[r] \in rc[SlotOf(k)].cc <=> cursor[r] <= k
ReadByAll(k) == \A r \in Readers : cursor[r] > k
LastReader(r, k) == /\ cursor[r] = k /\ Acks(r)
                    /\ \A q \in Readers : q # r => cursor[q] > k

\* The slot of a position in ct - N .. ct - 1.
Published(k) ==
  /\ \/ Names(k)
     \/ k = ct - N /\ ReadByAll(k) /\ rc[SlotOf(k)].cc = cc
  /\ ReadByAll(k) => fl[SlotOf(k)] = k + N
  /\ \/ ReadByAll(k)
     \/ \E p \in Producers : Filling(p) /\ pct[p] = k
     \/ data[SlotOf(k)] = k /\ fl[SlotOf(k)] = Commit(k)
     \/ /\ data[SlotOf(k)] = k /\ fl[SlotOf(k)] = k + N
        /\ \E r \in Readers : LastReader(r, k)

\* The slot of a position of the first round that ct_ has not passed.
Fresh(k) ==
  /\ fl[SlotOf(k)] = 0
  /\ \/ rc[SlotOf(k)].cc = {}
     \/ k = ct /\ rc[SlotOf(k)].cc = cc

ChanInv ==
  /\ ChanType
  /\ \A p \in Producers : ProducerOk(p)
  /\ OwnersApart
  /\ \A r \in Readers : ReaderOk(r)
  /\ \A k \in Nat : ct - N <= k /\ k < ct => Published(k)
  /\ \A k \in Nat : ct <= k /\ k < N => Fresh(k)
-----------------------------------------------------------------------------
(* Slots and positions. *)

\* index_of yields a slot.
LEMMA SlotType == \A k \in Nat : SlotOf(k) \in Slots
BY RingAssumption, DivMod DEF SlotOf, Slots

\* Positions less than a round apart share no slot.
LEMMA Near ==
  ASSUME NEW j \in Nat, NEW k \in Nat, j < k + N, k < j + N, SlotOf(j) = SlotOf(k)
  PROVE  j = k
<1>1. CASE j < k
  BY <1>1, OtherSlot, RingAssumption DEF SlotOf
<1>2. CASE k < j
  BY <1>2, OtherSlot, RingAssumption DEF SlotOf
<1> QED BY <1>1, <1>2, SMT

\* A position and the one a round before it share their slot.
LEMMA RoundBefore ==
  ASSUME NEW k \in Nat, k >= N
  PROVE  k - N \in Nat /\ SlotOf(k - N) = SlotOf(k)
<1>1. k - N \in Nat /\ (k - N) + N = k
  BY RingAssumption, SMT
<1>2. ((k - N) + N) % N = (k - N) % N
  BY <1>1, SameSlot, RingAssumption
<1> QED BY <1>1, <1>2 DEF SlotOf

\* Before the index comes round, Succ adds one.
LEMMA SuccIs ==
  ASSUME NEW k \in Nat, k + 1 < Wrap
  PROVE  Succ(k) = k + 1
BY Small, RingAssumption DEF Succ

-----------------------------------------------------------------------------
(* Steps that change only what one producer or one reader knows. *)

\* A step of a producer that leaves the ring alone and takes no position.
LEMMA QuietProducer ==
  ASSUME ChanInv, NEW p \in Producers, UNCHANGED <<ring, reader>>, ChanType',
         \A q \in Producers : q # p => ppc'[q] = ppc[q] /\ pcc'[q] = pcc[q]
                                       /\ pct'[q] = pct[q] /\ prc'[q] = prc[q],
         ~Filling(p), ~Filling(p)', Ahead(p)' => Ahead(p), ProducerOk(p)'
  PROVE  ChanInv'
<1>u. /\ cc' = cc /\ ct' = ct /\ epoch' = epoch /\ data' = data /\ rc' = rc /\ fl' = fl
      /\ rpc' = rpc /\ connected' = connected /\ cursor' = cursor /\ item' = item /\ rrc' = rrc
  BY DEF ring, reader
<1>1. ASSUME NEW q \in Producers PROVE ProducerOk(q)'
  <2>1. CASE q = p
    BY <2>1
  <2>2. CASE q # p
    <3>1. ProducerOk(q)
      BY DEF ChanInv
    <3> QED BY <3>1, <2>2, <1>u DEF ProducerOk, Ahead, Filling, RoundRead, Holds, Acks
  <2> QED BY <2>1, <2>2
<1>2. OwnersApart'
  BY DEF ChanInv, OwnersApart, Ahead, Filling
<1>3. ASSUME NEW r \in Readers PROVE ReaderOk(r)'
  BY <1>u DEF ChanInv, ReaderOk, Holds, Acks
<1>4. ASSUME NEW k \in Nat, ct' - N <= k /\ k < ct' PROVE Published(k)'
  <2>1. Published(k)
    BY <1>4, <1>u DEF ChanInv
  <2>2. (\E q \in Producers : Filling(q) /\ pct[q] = k)
          => (\E q \in Producers : Filling(q) /\ pct[q] = k)'
    BY DEF Filling
  <2> QED BY <2>1, <2>2, <1>u DEF Published, Names, ReadByAll, LastReader, Acks
<1>5. ASSUME NEW k \in Nat, ct' <= k /\ k < N PROVE Fresh(k)'
  BY <1>5, <1>u DEF ChanInv, Fresh
<1> QED BY <1>1, <1>2, <1>3, <1>4, <1>5 DEF ChanInv

\* A step of a reader that leaves the ring alone.
LEMMA QuietReader ==
  ASSUME ChanInv, NEW r \in Readers, UNCHANGED <<ring, producer, connected, cursor>>, ChanType',
         \A q \in Readers : q # r => rpc'[q] = rpc[q] /\ item'[q] = item[q] /\ rrc'[q] = rrc[q],
         Acks(r) => Acks(r)',
         Holds(r)' => Holds(r) \/ (\A p \in Producers : Filling(p) => pct[p] # cursor[r]),
         ReaderOk(r)'
  PROVE  ChanInv'
<1>u. /\ cc' = cc /\ ct' = ct /\ epoch' = epoch /\ data' = data /\ rc' = rc /\ fl' = fl
      /\ ppc' = ppc /\ inForce' = inForce /\ pep' = pep /\ pcc' = pcc /\ pct' = pct /\ prc' = prc
      /\ connected' = connected /\ cursor' = cursor
  BY DEF ring, producer
<1>h. \A q \in Readers : q # r => (Holds(q)' <=> Holds(q)) /\ (Acks(q)' <=> Acks(q))
  BY DEF Holds, Acks
<1>1. ASSUME NEW p \in Producers PROVE ProducerOk(p)'
  <2>1. ProducerOk(p)
    BY DEF ChanInv
  <2>2. (Filling(p)' <=> Filling(p)) /\ (Ahead(p)' <=> Ahead(p)) /\ (RoundRead' <=> RoundRead)
    BY <1>u DEF Filling, Ahead, RoundRead
  <2>3. Filling(p) => \A q \in Readers : cursor'[q] <= pct'[p] /\ (Holds(q)' => cursor'[q] # pct'[p])
    <3> SUFFICES ASSUME Filling(p), NEW q \in Readers
                 PROVE  cursor'[q] <= pct'[p] /\ (Holds(q)' => cursor'[q] # pct'[p])
      OBVIOUS
    <3>1. cursor[q] <= pct[p] /\ (Holds(q) => cursor[q] # pct[p])
      BY <2>1 DEF ProducerOk
    <3> QED BY <3>1, <1>h, <1>u
  <2>4. ProducerOk(p) /\ ~Filling(p) => ProducerOk(p)'
    BY <2>2, <1>u DEF ProducerOk, Filling
  <2>5. CASE Filling(p)
    BY <2>1, <2>2, <2>3, <2>5, <1>u DEF ProducerOk, Filling
  <2> QED BY <2>1, <2>4, <2>5
<1>2. OwnersApart'
  BY <1>u DEF ChanInv, OwnersApart, Ahead, Filling
<1>3. ASSUME NEW q \in Readers PROVE ReaderOk(q)'
  BY <1>u, <1>h DEF ChanInv, ReaderOk
<1>4. ASSUME NEW k \in Nat, ct' - N <= k /\ k < ct' PROVE Published(k)'
  <2>1. Published(k)
    BY <1>4, <1>u DEF ChanInv
  <2>2. \A q \in Readers : LastReader(q, k) => LastReader(q, k)'
    BY <1>h, <1>u DEF LastReader
  <2> QED BY <2>1, <2>2, <1>u DEF Published, Names, ReadByAll, Filling
<1>5. ASSUME NEW k \in Nat, ct' <= k /\ k < N PROVE Fresh(k)'
  BY <1>5, <1>u DEF ChanInv, Fresh
<1> QED BY <1>1, <1>2, <1>3, <1>4, <1>5 DEF ChanInv
-----------------------------------------------------------------------------
(* The initial states. *)

\* With the readers connected and nothing sent, the invariant holds.
LEMMA ChanInvInit ==
  ASSUME Settled, Init
  PROVE  ChanInv
<1>1. PICK ids \in [Readers -> Ids] :
        /\ \A r, q \in Readers : ids[r] = ids[q] => r = q
        /\ connected = ids /\ cc = {ids[r] : r \in Readers} \ {NoId}
  BY DEF Init, Settled
<1>2. cc = {connected[r] : r \in Readers} /\ connected \in [Readers -> Ids]
  BY <1>1 DEF Ids, NoId
<1>w. NoWord \in Words /\ NoWord.cc = {}
  BY DEF NoWord, Word, Words
<1>3. /\ ct = 0 /\ epoch = 0
      /\ data = [s \in Slots |-> NoMsg]
      /\ rc = [s \in Slots |-> NoWord]
      /\ fl = [s \in Slots |-> 0]
      /\ ppc = [p \in Producers |-> "idle"]
      /\ inForce = [p \in Producers |-> FALSE]
      /\ pep = [p \in Producers |-> 0] /\ pcc = [p \in Producers |-> {}]
      /\ pct = [p \in Producers |-> 0] /\ prc = [p \in Producers |-> NoWord]
      /\ rpc = [r \in Readers |-> "idle"]
      /\ cursor = [r \in Readers |-> 0]
      /\ item = [r \in Readers |-> NoMsg]
      /\ rrc = [r \in Readers |-> NoWord]
  BY DEF Init
<1>4. ChanType
  <2>1. /\ data \in [Slots -> Int] /\ fl \in [Slots -> Int] /\ ct \in Nat
        /\ rc \in [Slots -> Words] /\ \A s \in Slots : rc[s].cc \subseteq cc
    BY <1>3, <1>w DEF NoMsg
  <2>2. /\ ppc \in [Producers -> ProdPlaces] /\ pcc \in [Producers -> SUBSET Ids]
        /\ pct \in [Producers -> Nat] /\ prc \in [Producers -> Words]
    BY <1>3, <1>w DEF ProdPlaces
  <2>3. /\ rpc \in [Readers -> ReadPlaces] /\ cursor \in [Readers -> Nat]
        /\ item \in [Readers -> Int] /\ rrc \in [Readers -> Words]
    BY <1>3, <1>w DEF ReadPlaces, NoMsg
  <2> QED BY <1>1, <1>2, <1>3, <2>1, <2>2, <2>3 DEF ChanType
<1>5. \A p \in Producers : ProducerOk(p)
  BY <1>3 DEF ProducerOk, Ahead, Filling
<1>6. OwnersApart
  BY <1>3 DEF OwnersApart, Ahead, Filling
<1>7. \A r \in Readers : ReaderOk(r)
  BY <1>3, RingAssumption DEF ReaderOk, Holds, Acks
<1>8. \A k \in Nat : ct <= k /\ k < N => Fresh(k)
  BY <1>3, <1>w, SlotType DEF Fresh
<1>9. \A k \in Nat : ct - N <= k /\ k < ct => Published(k)
  BY <1>3
<1> QED BY <1>4, <1>5, <1>6, <1>7, <1>8, <1>9 DEF ChanInv

-----------------------------------------------------------------------------
(* The steps of push that change only its locals. *)

\* The flag of a slot whose word names nobody gives away whether the slot is
\* free for this very position.
LEMMA FlagTells ==
  ASSUME ChanInv, NEW k \in Nat, k <= ct, rc[SlotOf(k)].cc = {}, cc # {},
         fl[SlotOf(k)] = k \/ fl[SlotOf(k)] = 0
  PROVE  k = ct
<1> SUFFICES ASSUME k < ct PROVE FALSE
  BY DEF ChanInv, ChanType
<1>1. PICK j \in Nat : ct - N <= j /\ j < ct /\ k <= j /\ j % N = k % N
  BY LatestRound, RingAssumption DEF ChanInv, ChanType
<1>2. Published(j) /\ SlotOf(j) = SlotOf(k)
  BY <1>1 DEF ChanInv, SlotOf
<1>3. ReadByAll(j)
  BY <1>2 DEF Published, Names, ReadByAll, ChanInv, ChanType
<1>4. fl[SlotOf(k)] = j + N
  BY <1>2, <1>3 DEF Published
<1> QED BY <1>1, <1>4, RingAssumption
\* A producer goes to place pc with the locals c, k and w.
LEMMA PushStep ==
  ASSUME ChanInv, NEW p \in Producers, UNCHANGED <<ring, reader>>,
         NEW pc \in ProdPlaces, NEW c \in SUBSET Ids, NEW k \in Nat, NEW w \in Words,
         ppc' = [ppc EXCEPT ![p] = pc], pcc' = [pcc EXCEPT ![p] = c],
         pct' = [pct EXCEPT ![p] = k], prc' = [prc EXCEPT ![p] = w],
         inForce' = inForce, pep' = pep,
         ~Filling(p), pc \notin {"fill", "commit"}, pc \in {"epoch", "store"} => Ahead(p),
         ProducerOk(p)'
  PROVE  ChanInv'
<1>u. /\ cc' = cc /\ ct' = ct /\ epoch' = epoch /\ data' = data /\ rc' = rc /\ fl' = fl
      /\ rpc' = rpc /\ connected' = connected /\ cursor' = cursor /\ item' = item /\ rrc' = rrc
  BY DEF ring, reader
<1>1. /\ ppc \in [Producers -> ProdPlaces] /\ pcc \in [Producers -> SUBSET Ids]
      /\ pct \in [Producers -> Nat] /\ prc \in [Producers -> Words]
  BY DEF ChanInv, ChanType
<1>2. /\ ppc' \in [Producers -> ProdPlaces] /\ pcc' \in [Producers -> SUBSET Ids]
      /\ pct' \in [Producers -> Nat] /\ prc' \in [Producers -> Words]
  BY <1>1
<1>3. ChanType'
  BY <1>2, <1>u DEF ChanInv, ChanType
<1>4. \A q \in Producers : q # p => ppc'[q] = ppc[q] /\ pcc'[q] = pcc[q]
                                    /\ pct'[q] = pct[q] /\ prc'[q] = prc[q]
  BY <1>1
<1>5. ppc'[p] = pc
  BY <1>1
<1>6. ~Filling(p)' /\ (Ahead(p)' => Ahead(p))
  BY <1>5 DEF Filling, Ahead
<1> QED BY <1>3, <1>4, <1>6, QuietProducer

\* The same where the producer's locals stay.
LEMMA PlaceStep ==
  ASSUME ChanInv, NEW p \in Producers, UNCHANGED <<ring, reader>>,
         NEW pc \in ProdPlaces, ppc' = [ppc EXCEPT ![p] = pc],
         pcc' = pcc, pct' = pct, prc' = prc, inForce' = inForce, pep' = pep,
         ~Filling(p), pc \notin {"fill", "commit"}, pc \in {"epoch", "store"} => Ahead(p),
         ProducerOk(p)'
  PROVE  ChanInv'
<1>1. /\ pcc' = [pcc EXCEPT ![p] = pcc[p]] /\ pct' = [pct EXCEPT ![p] = pct[p]]
      /\ prc' = [prc EXCEPT ![p] = prc[p]]
      /\ pcc[p] \in SUBSET Ids /\ pct[p] \in Nat /\ prc[p] \in Words
  BY DEF ChanInv, ChanType
<1> QED BY <1>1, PushStep, Zenon

\* Without force_push, push that fails returns to wait_for.
LEMMA PushFailsKeeps ==
  ASSUME ChanInv, NEW p \in Producers, PushFails(p), UNCHANGED <<ring, reader>>,
         ppc[p] # "idle", ~Filling(p)
  PROVE  ChanInv'
<1>1. Return(p, "failed")
  BY DEF PushFails, ChanInv, ChanType
<1>2. /\ ppc' = [ppc EXCEPT ![p] = "failed"] /\ pcc' = [pcc EXCEPT ![p] = {}]
      /\ pct' = [pct EXCEPT ![p] = 0] /\ prc' = [prc EXCEPT ![p] = NoWord]
      /\ inForce' = inForce /\ pep' = pep
  BY <1>1 DEF Return, Goto, ChanInv, ChanType
<1>3. NoWord \in Words /\ "failed" \in ProdPlaces
  BY DEF NoWord, Word, Words, ProdPlaces
<1>4. ppc'[p] = "failed"
  BY <1>2 DEF ChanInv, ChanType
<1>5. ProducerOk(p)'
  BY <1>4 DEF ProducerOk, Filling, Ahead, ring, ChanInv
<1> QED BY <1>2, <1>3, <1>5, PushStep, Zenon

\* What the steps below need of a producer.
LEMMA ProducerFacts ==
  ASSUME ChanInv, NEW p \in Producers
  PROVE  /\ ProducerOk(p) /\ ppc[p] \in ProdPlaces /\ pcc[p] \in SUBSET Ids
         /\ pct[p] \in Nat /\ prc[p] \in Words /\ cc \in SUBSET Ids /\ ct \in Nat
         /\ rc[SlotOf(pct[p])] \in Words /\ rc[SlotOf(pct[p])].cc \subseteq cc
         /\ pcc = [pcc EXCEPT ![p] = pcc[p]]
         /\ pct = [pct EXCEPT ![p] = pct[p]]
         /\ prc = [prc EXCEPT ![p] = prc[p]]
         /\ pep[p] = 0 /\ epoch = 0
<1>1. ProducerOk(p)
  BY DEF ChanInv
<1>2. /\ ppc[p] \in ProdPlaces /\ pcc[p] \in SUBSET Ids
      /\ pct[p] \in Nat /\ prc[p] \in Words /\ ct \in Nat /\ pep[p] = 0 /\ epoch = 0
  BY DEF ChanInv, ChanType
<1>3. cc \in SUBSET Ids
  BY DEF ChanInv, ChanType
<1>4. rc[SlotOf(pct[p])] \in Words /\ rc[SlotOf(pct[p])].cc \subseteq cc
  BY <1>2, SlotType DEF ChanInv, ChanType
<1>5. /\ pcc = [pcc EXCEPT ![p] = pcc[p]]
      /\ pct = [pct EXCEPT ![p] = pct[p]]
      /\ prc = [prc EXCEPT ![p] = prc[p]]
  BY DEF ChanInv, ChanType
<1> QED BY <1>1, <1>2, <1>3, <1>4, <1>5
\* The steps of push, up to the claim and between it and the store of ct_,
\* keep the invariant.
LEMMA LocalsKeep ==
  ASSUME Settled, ChanInv, NEW p \in Producers,
         \/ Send(p) \/ LoadEpoch(p) \/ LoadConns(p) \/ LoadIndex(p) \/ LoadRcFails(p)
         \/ LoadRc(p) \/ LoadFlag(p) \/ ClaimFails(p) \/ SameEpoch(p) \/ OtherEpoch(p)
         \/ AfterFailure(p)
  PROVE  ChanInv'
<1> DEFINE w == rc[SlotOf(pct[p])]
<1>t. /\ ProducerOk(p) /\ ppc[p] \in ProdPlaces /\ pcc[p] \in SUBSET Ids
      /\ pct[p] \in Nat /\ prc[p] \in Words /\ cc \in SUBSET Ids /\ ct \in Nat
      /\ w \in Words /\ w.cc \subseteq cc
      /\ pcc = [pcc EXCEPT ![p] = pcc[p]]
      /\ pct = [pct EXCEPT ![p] = pct[p]]
      /\ prc = [prc EXCEPT ![p] = prc[p]]
      /\ pep[p] = 0 /\ epoch = 0
  BY ProducerFacts
<1>f. ppc \in [Producers -> ProdPlaces] /\ pep \in [Producers -> {0}]
      /\ pcc \in [Producers -> SUBSET Ids] /\ pct \in [Producers -> Nat]
      /\ prc \in [Producers -> Words]
  BY DEF ChanInv, ChanType
<1>e. [pep EXCEPT ![p] = epoch] = pep
  BY <1>t, <1>f
<1> HIDE DEF w
<1>1. CASE Send(p)
  <2>1. /\ ppc' = [ppc EXCEPT ![p] = "push"] /\ pcc' = pcc /\ pct' = pct /\ prc' = prc
        /\ inForce' = inForce /\ pep' = pep /\ UNCHANGED <<ring, reader>>
        /\ ppc[p] = "idle" /\ cc # {}
    BY <1>1 DEF Send, Goto
  <2>2. ppc'[p] = "push" /\ cc' # {}
    BY <2>1, <1>f DEF ring
  <2>3. ProducerOk(p)' /\ ~Filling(p)
    BY <2>1, <2>2 DEF ProducerOk, Filling, Ahead
  <2>4. "push" \in ProdPlaces
    BY DEF ProdPlaces
  <2> QED BY <2>1, <2>3, <2>4, PlaceStep
<1>2. CASE LoadEpoch(p)
  <2>1. /\ ppc' = [ppc EXCEPT ![p] = "conns"] /\ pcc' = pcc /\ pct' = pct /\ prc' = prc
        /\ inForce' = inForce /\ pep' = pep /\ UNCHANGED <<ring, reader>>
        /\ ppc[p] = "push"
    BY <1>2, <1>e DEF LoadEpoch, Goto
  <2>2. ppc'[p] = "conns" /\ cc' # {}
    BY <2>1, <1>f, <1>t DEF ring, ProducerOk
  <2>3. ProducerOk(p)' /\ ~Filling(p)
    BY <2>1, <2>2 DEF ProducerOk, Filling, Ahead
  <2>4. "conns" \in ProdPlaces
    BY DEF ProdPlaces
  <2> QED BY <2>1, <2>3, <2>4, PlaceStep
<1>3. CASE LoadConns(p)
  <2>1. ppc[p] = "conns" /\ cc # {}
    BY <1>3, <1>t DEF LoadConns, ProdPlaces, ProducerOk
  <2>2. /\ ppc' = [ppc EXCEPT ![p] = "index"] /\ pcc' = [pcc EXCEPT ![p] = cc]
        /\ pct' = pct /\ prc' = prc
        /\ inForce' = inForce /\ pep' = pep /\ UNCHANGED <<ring, reader>>
    BY <1>3, <2>1 DEF LoadConns, Goto
  <2>3. ppc'[p] = "index" /\ pcc'[p] = cc /\ cc' = cc
    BY <2>2, <1>f DEF ring
  <2>4. ProducerOk(p)' /\ ~Filling(p)
    BY <2>1, <2>3 DEF ProducerOk, Filling, Ahead
  <2>5. "index" \in ProdPlaces
    BY DEF ProdPlaces
  <2>6. pct' = [pct EXCEPT ![p] = pct[p]] /\ prc' = [prc EXCEPT ![p] = prc[p]]
    BY <2>2, <1>t
  <2> QED BY <2>2, <2>4, <2>5, <2>6, <1>t, PushStep, Zenon
<1>4. CASE LoadIndex(p)
  <2>1. ppc[p] = "index"
    BY <1>4, <1>t DEF LoadIndex, ProdPlaces
  <2>2. /\ ppc' = [ppc EXCEPT ![p] = "rc"] /\ pct' = [pct EXCEPT ![p] = ct]
        /\ pcc' = pcc /\ prc' = prc
        /\ inForce' = inForce /\ pep' = pep /\ UNCHANGED <<ring, reader>>
    BY <1>4, <2>1 DEF LoadIndex, Goto
  <2>3. ppc'[p] = "rc" /\ pct'[p] = ct /\ cc' = cc /\ ct' = ct /\ pcc'[p] = pcc[p]
    BY <2>2, <1>f DEF ring
  <2>4. ProducerOk(p)' /\ ~Filling(p)
    BY <2>1, <2>3, <1>t DEF ProducerOk, Filling, Ahead
  <2>5. "rc" \in ProdPlaces
    BY DEF ProdPlaces
  <2>6. pcc' = [pcc EXCEPT ![p] = pcc[p]] /\ prc' = [prc EXCEPT ![p] = prc[p]]
    BY <2>2, <1>t
  <2> QED BY <2>2, <2>4, <2>5, <2>6, <1>t, PushStep, Zenon
<1>5. CASE LoadRcFails(p)
  <2>1. ppc[p] = "rc" /\ PushFails(p) /\ UNCHANGED <<ring, reader>>
    BY <1>5 DEF LoadRcFails
  <2>2. ~Filling(p) /\ ppc[p] # "idle"
    BY <2>1 DEF Filling
  <2> QED BY <2>1, <2>2, PushFailsKeeps
<1>6. CASE LoadRc(p)
  <2>1. /\ ppc[p] = "rc" /\ ~Unfinished(p) /\ prc' = [prc EXCEPT ![p] = w]
        /\ ppc' = [ppc EXCEPT ![p] = IF w.cc = {} THEN "flag" ELSE "cas"]
        /\ pcc' = pcc /\ pct' = pct
        /\ inForce' = inForce /\ pep' = pep /\ UNCHANGED <<ring, reader>>
    BY <1>6 DEF LoadRc, Goto, w
  <2>2. w.cc = {}
    <3>1. pcc[p] = cc /\ w.ep = 0
      BY <1>t, <2>1 DEF ProducerOk, Words
    <3>2. pcc[p] \cap w.cc = {}
      BY <2>1, <3>1, <1>t DEF Unfinished, w
    <3> QED BY <3>1, <3>2, <1>t
  <2>3. ppc' = [ppc EXCEPT ![p] = "flag"]
    BY <2>1, <2>2
  <2>4. /\ ppc'[p] = "flag" /\ prc'[p] = w /\ pcc'[p] = pcc[p] /\ pct'[p] = pct[p]
        /\ cc' = cc /\ ct' = ct /\ rc' = rc
    BY <2>1, <2>3, <1>f DEF ring
  <2>5. w.ic <= w.ic
    BY <1>t DEF Words
  <2>6. ProducerOk(p)' /\ ~Filling(p)
    BY <2>1, <2>2, <2>4, <2>5, <1>t DEF ProducerOk, Filling, Ahead, w
  <2>7. "flag" \in ProdPlaces
    BY DEF ProdPlaces
  <2>8. /\ pcc' = [pcc EXCEPT ![p] = pcc[p]] /\ pct' = [pct EXCEPT ![p] = pct[p]]
        /\ prc' = [prc EXCEPT ![p] = w]
        /\ inForce' = inForce /\ pep' = pep /\ UNCHANGED <<ring, reader>>
    BY <2>1, <1>t
  <2>9. pcc[p] \in SUBSET Ids /\ pct[p] \in Nat /\ w \in Words
    BY <1>t
  <2> QED BY <2>3, <2>6, <2>7, <2>8, <2>9, PushStep, Zenon
<1>7. CASE LoadFlag(p)
  <2>1. ppc[p] = "flag" /\ UNCHANGED <<ring, reader>> /\ ~Filling(p) /\ ppc[p] # "idle"
    BY <1>7 DEF LoadFlag, Filling
  <2>2. CASE fl[SlotOf(pct[p])] # pct[p] /\ fl[SlotOf(pct[p])] # 0
    <3>1. PushFails(p)
      BY <1>7, <2>2 DEF LoadFlag
    <3> QED BY <2>1, <3>1, PushFailsKeeps
  <2>3. CASE ~(fl[SlotOf(pct[p])] # pct[p] /\ fl[SlotOf(pct[p])] # 0)
    <3>1. /\ ppc' = [ppc EXCEPT ![p] = "cas"] /\ pcc' = pcc /\ pct' = pct /\ prc' = prc
          /\ inForce' = inForce /\ pep' = pep
      BY <1>7, <2>3 DEF LoadFlag, Goto
    <3>2. /\ ppc'[p] = "cas" /\ cc' = cc /\ ct' = ct /\ rc' = rc
      BY <2>1, <3>1, <1>f DEF ring
    <3>3. /\ cc # {} /\ pcc[p] = cc /\ pct[p] <= ct /\ prc[p].cc = {}
          /\ prc[p].ic <= rc[SlotOf(pct[p])].ic
      BY <1>t, <2>1 DEF ProducerOk
    <3>4. prc[p] = rc[SlotOf(pct[p])] => pct[p] = ct
      BY <1>t, <2>3, <3>3, FlagTells
    <3>5. ProducerOk(p)'
      BY <3>1, <3>2, <3>3, <3>4 DEF ProducerOk, Filling, Ahead
    <3>6. "cas" \in ProdPlaces
      BY DEF ProdPlaces
    <3> QED BY <2>1, <3>1, <3>5, <3>6, PlaceStep
  <2> QED BY <2>2, <2>3
<1>8. CASE ClaimFails(p)
  <2>1. ppc[p] = "cas"
    BY <1>8, <1>t DEF ClaimFails, ProdPlaces
  <2>2. /\ ppc' = [ppc EXCEPT ![p] = "conns"] /\ pcc' = pcc /\ pct' = pct /\ prc' = prc
        /\ inForce' = inForce /\ pep' = pep /\ UNCHANGED <<ring, reader>>
    BY <1>8, <2>1 DEF ClaimFails, Goto
  <2>3. ppc'[p] = "conns" /\ cc' # {}
    BY <2>1, <2>2, <1>f, <1>t DEF ring, ProducerOk
  <2>4. ProducerOk(p)' /\ ~Filling(p)
    BY <2>1, <2>3 DEF ProducerOk, Filling, Ahead
  <2>5. "conns" \in ProdPlaces
    BY DEF ProdPlaces
  <2> QED BY <2>2, <2>4, <2>5, PlaceStep
<1>9. CASE SameEpoch(p)
  <2>1. ppc[p] = "epoch"
    BY <1>9, <1>t DEF SameEpoch, ProdPlaces
  <2>2. /\ ppc' = [ppc EXCEPT ![p] = "store"] /\ pcc' = pcc /\ pct' = pct /\ prc' = prc
        /\ inForce' = inForce /\ pep' = pep /\ UNCHANGED <<ring, reader>>
    BY <1>9, <2>1 DEF SameEpoch, Goto
  <2>3. /\ ppc'[p] = "store" /\ cc' = cc /\ ct' = ct /\ rc' = rc /\ cursor' = cursor
    BY <2>2, <1>f DEF ring, reader
  <2>4. /\ cc # {} /\ pct[p] = ct /\ rc[SlotOf(ct)].cc = cc /\ RoundRead
    BY <1>t, <2>1 DEF ProducerOk, Ahead
  <2>5. ProducerOk(p)' /\ ~Filling(p) /\ Ahead(p)
    BY <2>1, <2>2, <2>3, <2>4 DEF ProducerOk, Filling, Ahead, RoundRead
  <2>6. "store" \in ProdPlaces
    BY DEF ProdPlaces
  <2> QED BY <2>2, <2>5, <2>6, PlaceStep
<1>10. CASE OtherEpoch(p)
  <2>1. /\ ppc' = [ppc EXCEPT ![p] = "conns"] /\ pcc' = pcc /\ pct' = pct /\ prc' = prc
        /\ inForce' = inForce /\ pep' = pep /\ UNCHANGED <<ring, reader>>
        /\ ppc[p] = "epoch"
    BY <1>10, <1>e DEF OtherEpoch, Goto
  <2>2. ppc'[p] = "conns" /\ cc' # {}
    BY <2>1, <1>f, <1>t DEF ring, ProducerOk
  <2>3. ProducerOk(p)' /\ ~Filling(p)
    BY <2>1, <2>2 DEF ProducerOk, Filling, Ahead
  <2>4. "conns" \in ProdPlaces
    BY DEF ProdPlaces
  <2> QED BY <2>1, <2>3, <2>4, PlaceStep
<1>11. CASE AfterFailure(p)
  <2>0. ~(epoch < MaxEpoch)
    BY <1>t DEF Settled
  <2>1. PICK pc \in {"push", "idle"} : ppc' = [ppc EXCEPT ![p] = pc]
    BY <1>11, <2>0 DEF AfterFailure, Goto
  <2>2. /\ pcc' = pcc /\ pct' = pct /\ prc' = prc
        /\ inForce' = inForce /\ pep' = pep /\ UNCHANGED <<ring, reader>>
        /\ ppc[p] = "failed"
    BY <1>11 DEF AfterFailure
  <2>3. ppc'[p] = pc /\ cc' # {}
    BY <2>1, <2>2, <1>f, <1>t DEF ring, ProducerOk
  <2>4. ProducerOk(p)' /\ ~Filling(p)
    BY <2>2, <2>3 DEF ProducerOk, Filling, Ahead
  <2>5. pc \in ProdPlaces
    BY DEF ProdPlaces
  <2> QED BY <2>1, <2>2, <2>4, <2>5, PlaceStep
<1> QED BY <1>1, <1>2, <1>3, <1>4, <1>5, <1>6, <1>7, <1>8, <1>9, <1>10, <1>11
-----------------------------------------------------------------------------
(* The claim. *)

\* A word that names nobody at ct_: the round before has been read.
LEMMA EmptyMeansRead ==
  ASSUME ChanInv, rc[SlotOf(ct)].cc = {}
  PROVE  RoundRead
<1>t. ct \in Nat /\ cursor \in [Readers -> Nat]
  BY DEF ChanInv, ChanType
<1>1. CASE ct < N
  BY <1>1, <1>t, RingAssumption DEF RoundRead
<1>2. CASE ct >= N
  <2>1. ct - N \in Nat /\ SlotOf(ct - N) = SlotOf(ct)
    BY <1>2, <1>t, RoundBefore
  <2>2. Published(ct - N)
    BY <2>1, <1>t, RingAssumption DEF ChanInv
  <2> QED BY <2>1, <2>2, <1>t, RingAssumption DEF Published, Names, ReadByAll, RoundRead
<1> QED BY <1>1, <1>2, <1>t, RingAssumption

\* The claim only succeeds at the position of ct_, on a slot that everybody
\* has finished with, and only for one producer.
LEMMA ClaimKeeps ==
  ASSUME ChanInv, NEW p \in Producers, Claim(p)
  PROVE  ChanInv'
<1>t. /\ ProducerOk(p) /\ ppc[p] \in ProdPlaces
      /\ pct[p] \in Nat /\ prc[p] \in Words /\ cc \in SUBSET Ids /\ ct \in Nat
      /\ pep[p] = 0
  BY ProducerFacts
<1>1. ppc[p] = "cas" /\ rc[SlotOf(pct[p])] = prc[p]
  BY <1>t DEF Claim, ProdPlaces
<1>2. pct[p] = ct /\ cc # {} /\ pcc[p] = cc /\ rc[SlotOf(ct)].cc = {}
  BY <1>t, <1>1 DEF ProducerOk
<1> DEFINE s == SlotOf(ct)
           w == Word(cc, 0, rc[s].ic + 1)
<1>3. rc' = [rc EXCEPT ![s] = w] /\ ppc' = [ppc EXCEPT ![p] = "epoch"]
  BY <1>1, <1>2, <1>t DEF Claim, Goto
<1>u. /\ cc' = cc /\ ct' = ct /\ epoch' = epoch /\ data' = data /\ fl' = fl
      /\ inForce' = inForce /\ pep' = pep /\ pcc' = pcc /\ pct' = pct /\ prc' = prc
      /\ rpc' = rpc /\ connected' = connected /\ cursor' = cursor /\ item' = item /\ rrc' = rrc
  BY DEF Claim, reader
<1>4. RoundRead
  BY <1>2, EmptyMeansRead
<1>f. /\ ppc \in [Producers -> ProdPlaces] /\ rc \in [Slots -> Words] /\ s \in Slots
      /\ pct \in [Producers -> Nat] /\ prc \in [Producers -> Words]
      /\ cursor \in [Readers -> Nat]
  BY <1>t, SlotType DEF ChanInv, ChanType
<1>5. w \in Words /\ w.cc = cc /\ w.ic = rc[s].ic + 1 /\ rc[s].ic \in Nat
  BY <1>f, <1>t DEF Word, Words
<1> HIDE DEF s, w
<1>6. /\ rc'[s] = w /\ rc' \in [Slots -> Words]
      /\ \A x \in Slots : x # s => rc'[x] = rc[x]
  BY <1>3, <1>5, <1>f
<1>7. /\ ppc'[p] = "epoch" /\ ppc' \in [Producers -> ProdPlaces]
      /\ \A q \in Producers : q # p => ppc'[q] = ppc[q]
  BY <1>3, <1>f DEF ProdPlaces
<1>8. ChanType'
  <2>1. \A x \in Slots : rc'[x].cc \subseteq cc
    BY <1>5, <1>6 DEF ChanInv, ChanType
  <2> QED BY <2>1, <1>6, <1>7, <1>u DEF ChanInv, ChanType
<1>9. \A q \in Producers : ~Ahead(q)
  BY <1>2 DEF ChanInv, ProducerOk
<1>10. ASSUME NEW q \in Producers PROVE ProducerOk(q)'
  <2>1. CASE q = p
    BY <2>1, <1>2, <1>4, <1>5, <1>6, <1>7, <1>u DEF ProducerOk, Ahead, Filling, RoundRead, s
  <2>2. CASE q # p
    <3>1. ProducerOk(q) /\ ~Ahead(q) /\ SlotOf(pct[q]) \in Slots
      BY <1>9, <1>f, SlotType DEF ChanInv
    <3>2. (Filling(q)' <=> Filling(q)) /\ ~Ahead(q)'
      BY <3>1, <2>2, <1>7 DEF Filling, Ahead
    <3>3. CASE SlotOf(pct[q]) # s
      <4>1. rc'[SlotOf(pct[q])] = rc[SlotOf(pct[q])]
        BY <1>6, <3>1, <3>3
      <4> QED BY <4>1, <3>1, <3>2, <2>2, <1>7, <1>u DEF ProducerOk, Holds, Acks
    <3>4. CASE SlotOf(pct[q]) = s
      <4>1. ppc[q] \in {"flag", "cas"} =>
              /\ prc[q].ic <= rc'[SlotOf(pct[q])].ic
              /\ prc[q] # rc'[SlotOf(pct[q])]
        <5>1. ppc[q] \in {"flag", "cas"} => prc[q].ic <= rc[s].ic
          BY <3>1, <3>4 DEF ProducerOk
        <5>2. prc[q].ic \in Nat
          BY <1>f DEF Words
        <5> QED BY <5>1, <5>2, <3>4, <1>5, <1>6
      <4> QED BY <4>1, <3>1, <3>2, <2>2, <1>7, <1>u DEF ProducerOk, Holds, Acks
    <3> QED BY <3>3, <3>4
  <2> QED BY <2>1, <2>2
<1>11. OwnersApart'
  <2>1. \A q \in Producers : (Ahead(q)' => q = p) /\ (Filling(q)' => Filling(q))
    BY <1>7, <1>9 DEF Ahead, Filling
  <2> QED BY <2>1, <1>u DEF ChanInv, OwnersApart
<1>12. \A k \in Nat : (ct - N < k /\ k < ct) \/ (ct <= k /\ k < N /\ k # ct) => SlotOf(k) # s
  <2> SUFFICES ASSUME NEW k \in Nat, (ct - N < k /\ k < ct) \/ (ct <= k /\ k < N /\ k # ct),
                      SlotOf(k) = s
               PROVE  FALSE
    OBVIOUS
  <2>1. k < ct + N /\ ct < k + N /\ k # ct
    BY <1>t, RingAssumption
  <2> QED BY <2>1, <1>t, Near DEF s
<1>13. ASSUME NEW r \in Readers PROVE ReaderOk(r)'
  <2>1. ReaderOk(r) /\ cursor[r] \in Nat /\ cursor[r] > ct - N
    BY <1>4, <1>f DEF ChanInv, RoundRead
  <2>2. cursor[r] < ct => SlotOf(cursor[r]) # s
    BY <2>1, <1>12
  <2>3. cursor[r] < ct => rc'[SlotOf(cursor[r])] = rc[SlotOf(cursor[r])]
    BY <2>1, <2>2, <1>6, SlotType
  <2> QED BY <2>1, <2>3, <1>u DEF ReaderOk, Holds, Acks
<1>14. ASSUME NEW k \in Nat, ct - N <= k /\ k < ct PROVE Published(k)'
  <2>1. Published(k)
    BY <1>14 DEF ChanInv
  <2>2. (\E q \in Producers : Filling(q) /\ pct[q] = k)
          => (\E q \in Producers : Filling(q) /\ pct[q] = k)'
    <3> SUFFICES ASSUME NEW q \in Producers, Filling(q), pct[q] = k
                 PROVE  (\E x \in Producers : Filling(x) /\ pct[x] = k)'
      OBVIOUS
    <3>1. q # p
      BY <1>1 DEF Filling
    <3> QED BY <3>1, <1>7, <1>u DEF Filling
  <2>3. CASE k = ct - N
    <3>1. SlotOf(k) = s
      BY <2>3, <1>t, RoundBefore, RingAssumption DEF s
    <3>2. ReadByAll(k)'
      BY <2>3, <1>4, <1>u DEF RoundRead, ReadByAll
    <3> QED BY <2>1, <2>3, <3>1, <3>2, <1>5, <1>6, <1>u DEF Published, ReadByAll
  <2>4. CASE k # ct - N
    <3>1. SlotOf(k) # s
      BY <2>4, <1>12, <1>14, <1>t, RingAssumption
    <3>2. rc'[SlotOf(k)] = rc[SlotOf(k)]
      BY <3>1, <1>6, SlotType
    <3> QED BY <2>1, <2>2, <2>4, <3>2, <1>u DEF Published, Names, ReadByAll, LastReader, Acks
  <2> QED BY <2>3, <2>4
<1>15. ASSUME NEW k \in Nat, ct <= k /\ k < N PROVE Fresh(k)'
  <2>1. Fresh(k)
    BY <1>15 DEF ChanInv
  <2>2. CASE k = ct
    BY <2>1, <2>2, <1>5, <1>6, <1>u DEF Fresh, s
  <2>3. CASE k # ct
    <3>1. rc'[SlotOf(k)] = rc[SlotOf(k)]
      BY <2>3, <1>6, <1>12, <1>15, SlotType
    <3> QED BY <2>1, <2>3, <3>1, <1>u DEF Fresh
  <2> QED BY <2>2, <2>3
<1> QED BY <1>8, <1>10, <1>11, <1>13, <1>14, <1>15, <1>u DEF ChanInv
-----------------------------------------------------------------------------
(* Publishing a message. *)

\* The store of ct_ moves it on by one: the position becomes visible, and the
\* oldest one of the last N leaves the window with all its readers done.
LEMMA StoreIndexKeeps ==
  ASSUME ChanInv, NoWrap, NEW p \in Producers, StoreIndex(p)
  PROVE  ChanInv'
<1>t. /\ ProducerOk(p) /\ pct[p] \in Nat /\ ct \in Nat
  BY ProducerFacts
<1>1. ppc[p] = "store" /\ cc # {} /\ pct[p] = ct /\ rc[SlotOf(ct)].cc = cc /\ RoundRead
  BY <1>t DEF StoreIndex, ProducerOk, Ahead
<1>2. ct' = ct + 1 /\ ppc' = [ppc EXCEPT ![p] = "fill"]
  BY <1>1, <1>t, SuccIs, RingAssumption DEF StoreIndex, Goto, NoWrap
<1>u. /\ cc' = cc /\ epoch' = epoch /\ data' = data /\ rc' = rc /\ fl' = fl
      /\ inForce' = inForce /\ pep' = pep /\ pcc' = pcc /\ pct' = pct /\ prc' = prc
      /\ rpc' = rpc /\ connected' = connected /\ cursor' = cursor /\ item' = item /\ rrc' = rrc
  BY DEF StoreIndex, reader
<1>f. /\ ppc \in [Producers -> ProdPlaces] /\ rc \in [Slots -> Words]
      /\ pct \in [Producers -> Nat] /\ prc \in [Producers -> Words]
      /\ cursor \in [Readers -> Nat] /\ N \in Nat
  BY RingAssumption DEF ChanInv, ChanType
<1>7. /\ ppc'[p] = "fill" /\ ppc' \in [Producers -> ProdPlaces]
      /\ \A q \in Producers : q # p => ppc'[q] = ppc[q]
  BY <1>2, <1>f DEF ProdPlaces
<1>8. ChanType'
  BY <1>2, <1>7, <1>u, <1>t DEF ChanInv, ChanType
<1>9. \A q \in Producers : Ahead(q) => q = p
  BY <1>1 DEF ChanInv, OwnersApart, Ahead
<1>r. PICK r0 \in Readers : TRUE
  BY <1>1 DEF ChanInv, ChanType
<1>h. \A r \in Readers : (Holds(r)' <=> Holds(r)) /\ (Acks(r)' <=> Acks(r))
  BY <1>u DEF Holds, Acks
<1>3. fl[SlotOf(ct)] = 0 \/ fl[SlotOf(ct)] = ct
  <2>1. CASE ct < N
    <3>1. Fresh(ct)
      BY <2>1, <1>t DEF ChanInv
    <3> QED BY <3>1 DEF Fresh
  <2>2. CASE ct >= N
    <3>1. ct - N \in Nat /\ SlotOf(ct - N) = SlotOf(ct)
      BY <2>2, <1>t, RoundBefore
    <3>2. Published(ct - N) /\ ReadByAll(ct - N)
      BY <3>1, <1>t, <1>1, RingAssumption DEF ChanInv, RoundRead, ReadByAll
    <3> QED BY <3>1, <3>2, <1>t, <1>f DEF Published
  <2> QED BY <2>1, <2>2, <1>t, <1>f
<1>10. ASSUME NEW q \in Producers PROVE ProducerOk(q)'
  <2>1. CASE q = p
    <3>1. Filling(p)' /\ ~Ahead(p)'
      BY <1>7 DEF Filling, Ahead
    <3>2. \A r \in Readers : cursor'[r] <= pct'[p] /\ (Holds(r)' => cursor'[r] # pct'[p])
      BY <1>1, <1>h, <1>u, <1>f, <1>t DEF ChanInv, ReaderOk
    <3>3. ct' - N <= pct'[p] /\ pct'[p] < ct'
      BY <1>1, <1>2, <1>t, <1>f, <1>u, RingAssumption
    <3> QED BY <2>1, <3>1, <3>2, <3>3, <1>1, <1>3, <1>7, <1>u DEF ProducerOk
  <2>2. CASE q # p
    <3>1. ProducerOk(q) /\ ~Ahead(q)
      BY <1>9, <2>2 DEF ChanInv
    <3>2. (Filling(q)' <=> Filling(q)) /\ ~Ahead(q)' /\ ppc'[q] = ppc[q]
      BY <3>1, <2>2, <1>7 DEF Filling, Ahead
    <3>3. ppc[q] = "cas" => prc[q] # rc[SlotOf(pct[q])]
      BY <3>1, <1>1 DEF ProducerOk
    <3>4. Filling(q) => ct' - N <= pct'[q] /\ pct'[q] < ct'
      <4>1. Filling(q) => cursor[r0] <= pct[q] /\ ct - N <= pct[q] /\ pct[q] < ct
        BY <3>1 DEF ProducerOk
      <4>2. cursor[r0] > ct - N
        BY <1>1 DEF RoundRead
      <4> QED BY <4>1, <4>2, <1>2, <1>u, <1>f, <1>t
    <3>5. ppc[q] \in {"rc", "flag", "cas"} => pct'[q] <= ct'
      BY <3>1, <1>2, <1>u, <1>f, <1>t DEF ProducerOk
    <3> QED BY <3>1, <3>2, <3>3, <3>4, <3>5, <1>h, <1>u DEF ProducerOk
  <2> QED BY <2>1, <2>2
<1>11. OwnersApart'
  <2>1. \A q \in Producers : ~Ahead(q)'
    BY <1>7, <1>9 DEF Ahead
  <2>2. \A q \in Producers : q # p => (Filling(q)' <=> Filling(q))
    BY <1>7 DEF Filling
  <2>3. \A q \in Producers : Filling(q) => pct[q] # pct[p]
    BY <1>1, <1>f, <1>t DEF ChanInv, ProducerOk
  <2> QED BY <2>1, <2>2, <2>3, <1>u DEF ChanInv, OwnersApart
<1>13. ASSUME NEW r \in Readers PROVE ReaderOk(r)'
  <2>1. ReaderOk(r) /\ cursor[r] \in Nat /\ cursor[r] > ct - N
    BY <1>1, <1>f DEF ChanInv, RoundRead
  <2>2. ct' - N <= cursor'[r] /\ cursor'[r] <= ct' /\ (Holds(r)' => cursor'[r] < ct')
    BY <2>1, <1>2, <1>u, <1>h, <1>f, <1>t DEF ReaderOk
  <2> QED BY <2>1, <2>2, <1>h, <1>u DEF ReaderOk
<1>14. ASSUME NEW k \in Nat, ct' - N <= k /\ k < ct' PROVE Published(k)'
  <2>1. CASE k = ct
    <3>1. (\E q \in Producers : Filling(q) /\ pct[q] = k)'
      BY <2>1, <1>1, <1>7, <1>u DEF Filling
    <3>2. Names(k)'
      BY <2>1, <1>1, <1>u DEF Names, ChanInv, ChanType, ReaderOk
    <3>3. ~ReadByAll(k)'
      BY <2>1, <1>r, <1>u, <1>f, <1>t DEF ReadByAll, ChanInv, ReaderOk
    <3> QED BY <3>1, <3>2, <3>3 DEF Published
  <2>2. CASE k # ct
    <3>1. Published(k) /\ k # ct - N
      BY <2>2, <1>14, <1>2, <1>t, <1>f DEF ChanInv
    <3>2. (\E q \in Producers : Filling(q) /\ pct[q] = k)
            => (\E q \in Producers : Filling(q) /\ pct[q] = k)'
      <4> SUFFICES ASSUME NEW q \in Producers, Filling(q), pct[q] = k
                   PROVE  (\E x \in Producers : Filling(x) /\ pct[x] = k)'
        OBVIOUS
      <4>1. q # p
        BY <1>1 DEF Filling
      <4> QED BY <4>1, <1>7, <1>u DEF Filling
    <3> QED BY <3>1, <3>2, <1>u DEF Published, Names, ReadByAll, LastReader, Acks
  <2> QED BY <2>1, <2>2
<1>15. ASSUME NEW k \in Nat, ct' <= k /\ k < N PROVE Fresh(k)'
  <2>1. Fresh(k) /\ k # ct
    BY <1>15, <1>2, <1>t DEF ChanInv
  <2> QED BY <2>1, <1>u DEF Fresh
<1> QED BY <1>8, <1>10, <1>11, <1>13, <1>14, <1>15 DEF ChanInv

\* Two producers at work on published positions have different slots.
LEMMA FillingApart ==
  ASSUME ChanInv, NEW p \in Producers, NEW q \in Producers, q # p, Filling(p), Filling(q)
  PROVE  SlotOf(pct[q]) # SlotOf(pct[p])
<1>1. pct[p] \in Nat /\ pct[q] \in Nat /\ ct \in Nat /\ N \in Nat
  BY RingAssumption DEF ChanInv, ChanType
<1>2. /\ ct - N <= pct[p] /\ pct[p] < ct
      /\ ct - N <= pct[q] /\ pct[q] < ct
  BY DEF ChanInv, ProducerOk
<1>3. pct[p] # pct[q]
  BY DEF ChanInv, OwnersApart
<1>4. pct[p] < pct[q] + N /\ pct[q] < pct[p] + N
  BY <1>1, <1>2
<1> QED BY <1>1, <1>3, <1>4, Near

\* The copy into the slot touches no other position of the window.
LEMMA FillKeeps ==
  ASSUME ChanInv, NEW p \in Producers, Fill(p)
  PROVE  ChanInv'
<1> DEFINE s == SlotOf(pct[p])
<1>t. /\ ProducerOk(p) /\ pct[p] \in Nat /\ ct \in Nat /\ s \in Slots
  BY ProducerFacts, SlotType
<1>1. /\ ppc[p] = "fill" /\ Filling(p)
      /\ data' = [data EXCEPT ![s] = pct[p]] /\ ppc' = [ppc EXCEPT ![p] = "commit"]
  BY DEF Fill, Goto, Filling
<1>u. /\ cc' = cc /\ ct' = ct /\ epoch' = epoch /\ rc' = rc /\ fl' = fl
      /\ inForce' = inForce /\ pep' = pep /\ pcc' = pcc /\ pct' = pct /\ prc' = prc
      /\ rpc' = rpc /\ connected' = connected /\ cursor' = cursor /\ item' = item /\ rrc' = rrc
  BY DEF Fill, reader
<1>f. /\ ppc \in [Producers -> ProdPlaces] /\ data \in [Slots -> Int]
      /\ pct \in [Producers -> Nat] /\ cursor \in [Readers -> Nat] /\ N \in Nat
  BY RingAssumption DEF ChanInv, ChanType
<1>6. /\ data'[s] = pct[p] /\ data' \in [Slots -> Int]
      /\ \A x \in Slots : x # s => data'[x] = data[x]
  BY <1>1, <1>t, <1>f
<1>7. /\ ppc'[p] = "commit" /\ ppc' \in [Producers -> ProdPlaces]
      /\ \A q \in Producers : q # p => ppc'[q] = ppc[q]
  BY <1>1, <1>f DEF ProdPlaces
<1>8. ChanType'
  BY <1>6, <1>7, <1>u DEF ChanInv, ChanType
<1>9. \A q \in Producers : (Filling(q)' <=> Filling(q)) /\ (Ahead(q)' <=> Ahead(q))
  BY <1>1, <1>7 DEF Filling, Ahead
<1>h. \A r \in Readers : (Holds(r)' <=> Holds(r)) /\ (Acks(r)' <=> Acks(r))
  BY <1>u DEF Holds, Acks
<1>10. ASSUME NEW q \in Producers PROVE ProducerOk(q)'
  <2>1. CASE q = p
    <3>1. ~Ahead(p)'
      BY <1>7 DEF Ahead
    <3> QED BY <2>1, <3>1, <1>t, <1>1, <1>6, <1>7, <1>9, <1>h, <1>u DEF ProducerOk
  <2>2. CASE q # p
    <3>1. Filling(q) => data'[SlotOf(pct[q])] = data[SlotOf(pct[q])]
      BY <2>2, <1>1, <1>6, <1>f, FillingApart, SlotType
    <3>2. ppc[q] = "commit" => Filling(q)
      BY DEF Filling
    <3>3. RoundRead' <=> RoundRead
      BY <1>u DEF RoundRead
    <3> QED BY <2>2, <3>1, <3>2, <3>3, <1>7, <1>9, <1>h, <1>u DEF ChanInv, ProducerOk
  <2> QED BY <2>1, <2>2
<1>11. OwnersApart'
  BY <1>9, <1>u DEF ChanInv, OwnersApart
<1>13. ASSUME NEW r \in Readers PROVE ReaderOk(r)'
  BY <1>h, <1>u DEF ChanInv, ReaderOk
<1>14. ASSUME NEW k \in Nat, ct - N <= k /\ k < ct PROVE Published(k)'
  <2>1. Published(k)
    BY <1>14 DEF ChanInv
  <2>2. (\E q \in Producers : Filling(q) /\ pct[q] = k)
          <=> (\E q \in Producers : Filling(q) /\ pct[q] = k)'
    BY <1>9, <1>u
  <2>3. CASE k = pct[p]
    BY <2>1, <2>2, <2>3, <1>1, <1>u DEF Published, Names, ReadByAll
  <2>4. CASE k # pct[p]
    <3>1. k < pct[p] + N /\ pct[p] < k + N
      BY <1>14, <1>t, <1>1, <1>f DEF ProducerOk
    <3>2. SlotOf(k) # s
      BY <3>1, <2>4, <1>t, Near
    <3>3. data'[SlotOf(k)] = data[SlotOf(k)]
      BY <3>2, <1>6, SlotType
    <3> QED BY <2>1, <2>2, <3>3, <1>u, <1>h DEF Published, Names, ReadByAll, LastReader
  <2> QED BY <2>3, <2>4
<1>15. ASSUME NEW k \in Nat, ct <= k /\ k < N PROVE Fresh(k)'
  BY <1>15, <1>u DEF ChanInv, Fresh
<1> QED BY <1>8, <1>10, <1>11, <1>13, <1>14, <1>15, <1>u DEF ChanInv
\* The commit makes the message visible to every reader; nobody holds the
\* slot in which it is set.
LEMMA StoreFlagKeeps ==
  ASSUME ChanInv, NEW p \in Producers, StoreFlag(p)
  PROVE  ChanInv'
<1> DEFINE s == SlotOf(pct[p])
<1>t. /\ ProducerOk(p) /\ pct[p] \in Nat /\ ct \in Nat /\ s \in Slots
  BY ProducerFacts, SlotType
<1>1. /\ ppc[p] = "commit" /\ Filling(p)
      /\ fl' = [fl EXCEPT ![s] = Commit(pct[p])] /\ ppc' = [ppc EXCEPT ![p] = "idle"]
      /\ pcc' = [pcc EXCEPT ![p] = {}] /\ pct' = [pct EXCEPT ![p] = 0]
      /\ prc' = [prc EXCEPT ![p] = NoWord]
      /\ inForce' = inForce /\ pep' = pep
  BY DEF StoreFlag, Return, Goto, Filling, ChanInv, ChanType
<1>u. /\ cc' = cc /\ ct' = ct /\ epoch' = epoch /\ data' = data /\ rc' = rc
      /\ rpc' = rpc /\ connected' = connected /\ cursor' = cursor /\ item' = item /\ rrc' = rrc
  BY DEF StoreFlag, reader
<1>f. /\ ppc \in [Producers -> ProdPlaces] /\ fl \in [Slots -> Int]
      /\ pcc \in [Producers -> SUBSET Ids] /\ prc \in [Producers -> Words]
      /\ pct \in [Producers -> Nat] /\ cursor \in [Readers -> Nat] /\ N \in Nat
  BY RingAssumption DEF ChanInv, ChanType
<1>2. /\ cc # {} /\ ct - N <= pct[p] /\ pct[p] < ct /\ data[s] = pct[p]
      /\ \A r \in Readers : cursor[r] <= pct[p] /\ (Holds(r) => cursor[r] # pct[p])
  BY <1>t, <1>1 DEF ProducerOk
<1>r. PICK r0 \in Readers : TRUE
  BY <1>2 DEF ChanInv, ChanType
<1>6. /\ fl'[s] = Commit(pct[p]) /\ fl' \in [Slots -> Int]
      /\ \A x \in Slots : x # s => fl'[x] = fl[x]
  <2>1. Commit(pct[p]) \in Int
    BY <1>t DEF Commit
  <2> QED BY <2>1, <1>1, <1>t, <1>f
<1>7. /\ ppc'[p] = "idle" /\ ppc' \in [Producers -> ProdPlaces]
      /\ pcc' \in [Producers -> SUBSET Ids] /\ pct' \in [Producers -> Nat]
      /\ prc' \in [Producers -> Words]
      /\ \A q \in Producers : q # p =>
           ppc'[q] = ppc[q] /\ pcc'[q] = pcc[q] /\ pct'[q] = pct[q] /\ prc'[q] = prc[q]
  <2>1. NoWord \in Words /\ "idle" \in ProdPlaces
    BY DEF NoWord, Word, Words, ProdPlaces
  <2> QED BY <2>1, <1>1, <1>f
<1>8. ChanType'
  BY <1>1, <1>6, <1>7, <1>u DEF ChanInv, ChanType
<1>9. /\ ~Filling(p)' /\ ~Ahead(p)'
      /\ \A q \in Producers : q # p => (Filling(q)' <=> Filling(q)) /\ (Ahead(q)' <=> Ahead(q))
  BY <1>7 DEF Filling, Ahead
<1>h. \A r \in Readers : (Holds(r)' <=> Holds(r)) /\ (Acks(r)' <=> Acks(r))
  BY <1>u DEF Holds, Acks
<1>10. ASSUME NEW q \in Producers PROVE ProducerOk(q)'
  <2>1. CASE q = p
    BY <2>1, <1>7, <1>9 DEF ProducerOk
  <2>2. CASE q # p
    <3>1. Filling(q) => fl'[SlotOf(pct[q])] = fl[SlotOf(pct[q])]
      BY <2>2, <1>1, <1>6, <1>f, FillingApart, SlotType
    <3>2. RoundRead' <=> RoundRead
      BY <1>u DEF RoundRead
    <3> QED BY <2>2, <3>1, <3>2, <1>7, <1>9, <1>h, <1>u DEF ChanInv, ProducerOk
  <2> QED BY <2>1, <2>2
<1>11. OwnersApart'
  BY <1>7, <1>9 DEF ChanInv, OwnersApart
<1>12. ASSUME NEW k \in Nat, ct - N <= k, k # pct[p], k < ct PROVE fl'[SlotOf(k)] = fl[SlotOf(k)]
  <2>1. k < pct[p] + N /\ pct[p] < k + N
    BY <1>12, <1>t, <1>2, <1>f
  <2>2. SlotOf(k) # s
    BY <2>1, <1>12, <1>t, Near
  <2> QED BY <2>2, <1>6, SlotType
<1>13. ASSUME NEW r \in Readers PROVE ReaderOk(r)'
  <2>1. ReaderOk(r) /\ cursor[r] \in Nat
    BY <1>f DEF ChanInv
  <2>2. Holds(r) => fl'[SlotOf(cursor[r])] = fl[SlotOf(cursor[r])]
    BY <2>1, <1>2, <1>12 DEF ReaderOk
  <2>3. rpc[r] = "ackcas" => Holds(r)
    BY DEF Holds, Acks
  <2> QED BY <2>1, <2>2, <2>3, <1>h, <1>u DEF ReaderOk
<1>14. ASSUME NEW k \in Nat, ct - N <= k /\ k < ct PROVE Published(k)'
  <2>1. Published(k)
    BY <1>14 DEF ChanInv
  <2>2. CASE k = pct[p]
    <3>1. ~ReadByAll(k) /\ ~ReadByAll(k)'
      BY <2>2, <1>2, <1>r, <1>u, <1>f DEF ReadByAll
    <3>2. Names(k)'
      BY <2>1, <3>1, <1>u DEF Published, Names
    <3> QED BY <2>2, <3>1, <3>2, <1>2, <1>6, <1>u DEF Published
  <2>3. CASE k # pct[p]
    <3>1. fl'[SlotOf(k)] = fl[SlotOf(k)]
      BY <2>3, <1>12, <1>14
    <3>2. (\E q \in Producers : Filling(q) /\ pct[q] = k)
            => (\E q \in Producers : Filling(q) /\ pct[q] = k)'
      BY <2>3, <1>7, <1>9
    <3> QED BY <2>1, <3>1, <3>2, <1>u, <1>h DEF Published, Names, ReadByAll, LastReader
  <2> QED BY <2>2, <2>3
<1>15. ASSUME NEW k \in Nat, ct <= k /\ k < N PROVE Fresh(k)'
  <2>1. k < pct[p] + N /\ pct[p] < k + N /\ k # pct[p]
    BY <1>15, <1>t, <1>2, <1>f
  <2>2. SlotOf(k) # s
    BY <2>1, <1>t, Near
  <2>3. fl'[SlotOf(k)] = fl[SlotOf(k)]
    BY <2>2, <1>6, SlotType
  <2> QED BY <2>3, <1>15, <1>u DEF ChanInv, Fresh
<1> QED BY <1>8, <1>10, <1>11, <1>13, <1>14, <1>15, <1>u DEF ChanInv

-----------------------------------------------------------------------------
(* The readers. *)

\* What the steps below need of a reader.
LEMMA ReaderFacts ==
  ASSUME ChanInv, NEW r \in Readers
  PROVE  /\ ReaderOk(r) /\ rpc[r] \in ReadPlaces /\ cursor[r] \in Nat /\ ct \in Nat
         /\ N \in Nat /\ N > 0 /\ SlotOf(cursor[r]) \in Slots /\ Live(r)
         /\ rc[SlotOf(cursor[r])] \in Words /\ data[SlotOf(cursor[r])] \in Int
         /\ rpc \in [Readers -> ReadPlaces] /\ cursor \in [Readers -> Nat]
         /\ item \in [Readers -> Int] /\ rrc \in [Readers -> Words]
<1>1. ReaderOk(r) /\ rpc[r] \in ReadPlaces /\ cursor[r] \in Nat /\ ct \in Nat /\ Live(r)
  BY DEF ChanInv, ChanType, Live
<1>2. N \in Nat /\ N > 0
  BY RingAssumption
<1>3. SlotOf(cursor[r]) \in Slots
  BY <1>1, SlotType
<1>4. /\ rpc \in [Readers -> ReadPlaces] /\ cursor \in [Readers -> Nat]
      /\ item \in [Readers -> Int] /\ rrc \in [Readers -> Words]
      /\ rc[SlotOf(cursor[r])] \in Words /\ data[SlotOf(cursor[r])] \in Int
  BY <1>3 DEF ChanInv, ChanType
<1> QED BY <1>1, <1>2, <1>3, <1>4

\* The flag of the position at ct_ is not yet that of a committed message.
LEMMA CommittedIsPublished ==
  ASSUME ChanInv, NEW r \in Readers, fl[SlotOf(cursor[r])] = Commit(cursor[r])
  PROVE  /\ cursor[r] < ct
         /\ \A p \in Producers : Filling(p) => pct[p] # cursor[r]
<1>t. ReaderOk(r) /\ cursor[r] \in Nat /\ ct \in Nat /\ N \in Nat /\ N > 0
  BY ReaderFacts
<1>c. \A k \in Nat : Commit(k) \in Int /\ Commit(k) < 0 /\ \A j \in Nat : Commit(k) = Commit(j) => k = j
  BY DEF Commit
<1>1. \A p \in Producers : Filling(p) => pct[p] \in Nat /\ fl[SlotOf(pct[p])] >= 0
  BY DEF ChanInv, ProducerOk, ChanType
<1>2. \A p \in Producers : Filling(p) => pct[p] # cursor[r]
  BY <1>1, <1>c, <1>t
<1>3. ASSUME cursor[r] = ct PROVE FALSE
  <2>1. CASE ct < N
    <3>1. Fresh(ct)
      BY <2>1, <1>t DEF ChanInv
    <3> QED BY <3>1, <1>3, <1>c, <1>t DEF Fresh
  <2>2. CASE ct >= N
    <3>1. ct - N \in Nat /\ SlotOf(ct - N) = SlotOf(ct)
      BY <2>2, <1>t, RoundBefore
    <3>2. Published(ct - N)
      BY <3>1, <1>t DEF ChanInv
    <3>3. CASE fl[SlotOf(ct)] = (ct - N) + N
      BY <3>3, <1>3, <1>c, <1>t
    <3>4. CASE fl[SlotOf(ct)] = Commit(ct - N)
      BY <3>4, <3>1, <1>3, <1>c, <1>t
    <3>5. CASE \E p \in Producers : Filling(p) /\ pct[p] = ct - N
      BY <3>5, <3>1, <1>1, <1>3, <1>c, <1>t
    <3> QED BY <3>1, <3>2, <3>3, <3>4, <3>5 DEF Published
  <2> QED BY <2>1, <2>2, <1>t
<1> QED BY <1>2, <1>3, <1>t DEF ReaderOk
\* A reader that has seen the flag finds its message in the slot and its bit
\* in the word until it acknowledges.
LEMMA HeldSlot ==
  ASSUME ChanInv, NEW r \in Readers, Holds(r)
  PROVE  /\ ct - N <= cursor[r] /\ cursor[r] < ct /\ Published(cursor[r])
         /\ data[SlotOf(cursor[r])] = cursor[r]
         /\ Names(cursor[r]) /\ connected[r] \in rc[SlotOf(cursor[r])].cc
<1>t. ReaderOk(r) /\ cursor[r] \in Nat /\ ct \in Nat
  BY ReaderFacts
<1>1. ct - N <= cursor[r] /\ cursor[r] < ct
  BY <1>t DEF ReaderOk
<1>2. Published(cursor[r])
  BY <1>1, <1>t DEF ChanInv
<1>3. ~ReadByAll(cursor[r])
  BY <1>t DEF ReadByAll
<1>4. \A p \in Producers : Filling(p) => pct[p] # cursor[r]
  BY DEF ChanInv, ProducerOk
<1>5. Names(cursor[r])
  BY <1>2, <1>3 DEF Published
<1>6. data[SlotOf(cursor[r])] = cursor[r]
  BY <1>2, <1>3, <1>4 DEF Published
<1>7. connected[r] \in rc[SlotOf(cursor[r])].cc
  BY <1>5, <1>t DEF Names
<1> QED BY <1>1, <1>2, <1>5, <1>6, <1>7

\* A reader goes to place pc with the locals i and w.
LEMMA ReadStep ==
  ASSUME ChanInv, NEW r \in Readers, UNCHANGED <<ring, producer, connected, cursor>>,
         NEW pc \in ReadPlaces, NEW i \in Int, NEW w \in Words,
         rpc' = [rpc EXCEPT ![r] = pc], item' = [item EXCEPT ![r] = i],
         rrc' = [rrc EXCEPT ![r] = w],
         Acks(r) => pc \in {"ack", "last", "ackcas"},
         pc \in {"copy", "ack", "last", "ackcas"} =>
           cursor[r] < ct /\ (Holds(r) \/ (\A p \in Producers : Filling(p) => pct[p] # cursor[r])),
         pc \in {"ack", "last", "ackcas"} => i = cursor[r],
         pc = "last" => rc[SlotOf(cursor[r])].cc \subseteq {connected[r]},
         pc = "ackcas" => (w.cc \subseteq {connected[r]} => fl[SlotOf(cursor[r])] = cursor[r] + N)
  PROVE  ChanInv'
<1>u. /\ cc' = cc /\ ct' = ct /\ epoch' = epoch /\ data' = data /\ rc' = rc /\ fl' = fl
      /\ ppc' = ppc /\ inForce' = inForce /\ pep' = pep /\ pcc' = pcc /\ pct' = pct /\ prc' = prc
      /\ connected' = connected /\ cursor' = cursor
  BY DEF ring, producer
<1>t. /\ ReaderOk(r) /\ rpc \in [Readers -> ReadPlaces]
      /\ item \in [Readers -> Int] /\ rrc \in [Readers -> Words]
  BY ReaderFacts
<1>1. /\ rpc' \in [Readers -> ReadPlaces] /\ item' \in [Readers -> Int]
      /\ rrc' \in [Readers -> Words]
      /\ rpc'[r] = pc /\ item'[r] = i /\ rrc'[r] = w
      /\ \A q \in Readers : q # r => rpc'[q] = rpc[q] /\ item'[q] = item[q] /\ rrc'[q] = rrc[q]
  BY <1>t
<1>2. ChanType'
  BY <1>1, <1>u DEF ChanInv, ChanType
<1>3. (Acks(r) => Acks(r)')
  BY <1>1 DEF Acks
<1>4. Holds(r)' => pc \in {"copy", "ack", "last", "ackcas"}
  BY <1>1 DEF Holds, Acks
<1>5. ReaderOk(r)'
  BY <1>1, <1>4, <1>t, <1>u DEF ReaderOk, Acks
<1>6. Holds(r)' => Holds(r) \/ (\A p \in Producers : Filling(p) => pct[p] # cursor[r])
  BY <1>4
<1> QED BY <1>1, <1>2, <1>3, <1>5, <1>6, QuietReader

\* The same where the reader's locals stay.
LEMMA ResumeStep ==
  ASSUME ChanInv, NEW r \in Readers, UNCHANGED <<ring, producer, connected, cursor, item, rrc>>,
         NEW pc \in {"idle", "recv", "pop", "copy"}, Resume(r, pc), ~Acks(r),
         pc = "copy" =>
           cursor[r] < ct /\ (\A p \in Producers : Filling(p) => pct[p] # cursor[r])
  PROVE  ChanInv'
<1>1. /\ item' = [item EXCEPT ![r] = item[r]] /\ item[r] \in Int
      /\ rrc' = [rrc EXCEPT ![r] = rrc[r]] /\ rrc[r] \in Words
      /\ rpc' = [rpc EXCEPT ![r] = pc]
  BY DEF ChanInv, ChanType, Resume
<1>2. pc \in ReadPlaces
  BY DEF ReadPlaces
<1>3. pc \notin {"ack", "last", "ackcas"}
  OBVIOUS
<1> QED BY <1>1, <1>2, <1>3, ReadStep

\* Looking for a message, copying it and reading rc_ keep the invariant.
LEMMA ReadingKeeps ==
  ASSUME ChanInv, NEW r \in Readers,
         \/ Recv(r) \/ RecvCheck(r) \/ ConnectTwice(r) \/ PopEmpty(r) \/ Pop(r) \/ Copy(r)
         \/ AckLoad(r) \/ AckFails(r)
  PROVE  ChanInv'
<1> DEFINE w == rc[SlotOf(cursor[r])]
<1>t. /\ ReaderOk(r) /\ rpc[r] \in ReadPlaces /\ cursor[r] \in Nat /\ Live(r)
      /\ w \in Words /\ data[SlotOf(cursor[r])] \in Int
  BY ReaderFacts
<1>f. /\ item \in [Readers -> Int] /\ rrc \in [Readers -> Words]
  BY ReaderFacts
<1> HIDE DEF w
<1>1. CASE Recv(r)
  BY <1>1, ResumeStep DEF Recv, Acks
<1>2. CASE RecvCheck(r)
  BY <1>2, <1>t, ResumeStep DEF RecvCheck, Acks
<1>3. CASE ConnectTwice(r)
  BY <1>3, <1>t DEF ConnectTwice, ReadPlaces
<1>4. CASE PopEmpty(r)
  <2>1. PICK pc \in {"recv", "idle"} : Resume(r, pc)
    BY <1>4 DEF PopEmpty
  <2>2. UNCHANGED <<ring, producer, connected, cursor, item, rrc>> /\ ~Acks(r)
    BY <1>4 DEF PopEmpty, Acks
  <2>3. pc \in {"idle", "recv", "pop", "copy"} /\ pc # "copy"
    OBVIOUS
  <2> QED BY <2>1, <2>2, <2>3, ResumeStep
<1>5. CASE Pop(r)
  <2>1. cursor[r] < ct /\ (\A p \in Producers : Filling(p) => pct[p] # cursor[r])
    BY <1>5, CommittedIsPublished DEF Pop
  <2> QED BY <1>5, <2>1, ResumeStep DEF Pop, Acks
<1>6. CASE Copy(r)
  <2>1. Holds(r) /\ rpc[r] = "copy" /\ ~Acks(r)
    BY <1>6 DEF Copy, Holds, Acks
  <2>2. data[SlotOf(cursor[r])] = cursor[r] /\ cursor[r] < ct
    BY <2>1, HeldSlot
  <2>3. /\ rpc' = [rpc EXCEPT ![r] = "ack"] /\ item' = [item EXCEPT ![r] = cursor[r]]
        /\ rrc' = [rrc EXCEPT ![r] = rrc[r]] /\ rrc[r] \in Words
        /\ UNCHANGED <<ring, producer, connected, cursor>>
    BY <1>6, <1>f, <2>2 DEF Copy, Resume
  <2>4. "ack" \in ReadPlaces /\ cursor[r] \in Int
    BY <1>t DEF ReadPlaces
  <2> QED BY <2>1, <2>2, <2>3, <2>4, ReadStep
<1>7. CASE AckLoad(r)
  <2>1. Holds(r) /\ Acks(r)
    BY <1>7 DEF AckLoad, Holds, Acks
  <2>2. connected[r] \in w.cc /\ cursor[r] < ct /\ item[r] = cursor[r]
    BY <2>1, <1>t, HeldSlot DEF ReaderOk, w
  <2> DEFINE pc == IF w.cc \subseteq {connected[r]} THEN "last" ELSE "ackcas"
  <2>3. /\ rpc' = [rpc EXCEPT ![r] = pc] /\ rrc' = [rrc EXCEPT ![r] = w]
        /\ UNCHANGED <<ring, producer, connected, cursor>>
    BY <1>7, <2>2 DEF AckLoad, Resume, w
  <2>4. item' = [item EXCEPT ![r] = item[r]] /\ item[r] \in Int
    BY <1>7, <1>f DEF AckLoad
  <2>5. pc \in ReadPlaces /\ pc \in {"ack", "last", "ackcas"}
    BY DEF ReadPlaces
  <2>6. (pc = "last" => w.cc \subseteq {connected[r]})
        /\ (pc = "ackcas" => ~(w.cc \subseteq {connected[r]}))
    OBVIOUS
  <2> HIDE DEF pc
  <2> QED BY <2>1, <2>2, <2>3, <2>4, <2>5, <2>6, <1>t, ReadStep DEF w
<1>8. CASE AckFails(r)
  <2>1. Holds(r) /\ Acks(r)
    BY <1>8 DEF AckFails, Holds, Acks
  <2>2. cursor[r] < ct /\ item[r] = cursor[r]
    BY <2>1, <1>t DEF ReaderOk
  <2>3. /\ rpc' = [rpc EXCEPT ![r] = "ack"]
        /\ rrc' = [rrc EXCEPT ![r] = rrc[r]] /\ rrc[r] \in Words
        /\ item' = [item EXCEPT ![r] = item[r]] /\ item[r] \in Int
        /\ UNCHANGED <<ring, producer, connected, cursor>>
    BY <1>8, <1>f DEF AckFails, Resume
  <2>4. "ack" \in ReadPlaces
    BY DEF ReadPlaces
  <2> QED BY <2>1, <2>2, <2>3, <2>4, ReadStep
<1> QED BY <1>1, <1>2, <1>3, <1>4, <1>5, <1>6, <1>7, <1>8
\* The last reader's flag names the next round while its bit still keeps
\* every producer away from the slot.
LEMMA AckLastKeeps ==
  ASSUME ChanInv, NoWrap, NEW r \in Readers, AckLast(r)
  PROVE  ChanInv'
<1> DEFINE c == cursor[r]
           s == SlotOf(c)
<1>t. /\ ReaderOk(r) /\ c \in Nat /\ ct \in Nat /\ N \in Nat /\ N > 0 /\ s \in Slots
      /\ rpc \in [Readers -> ReadPlaces] /\ cursor \in [Readers -> Nat]
  BY ReaderFacts
<1>1. rpc[r] = "last" /\ Holds(r) /\ Acks(r)
  BY DEF AckLast, Holds, Acks
<1>2. /\ ct - N <= c /\ c < ct /\ Published(c) /\ data[s] = c /\ Names(c)
      /\ rc[s].cc \subseteq {connected[r]}
  BY <1>1, <1>t, HeldSlot DEF ReaderOk
<1>3. NextRound(r) = c + N
  BY <1>2, <1>t, SuccIs, RingAssumption DEF NextRound, NoWrap
<1>u. /\ cc' = cc /\ ct' = ct /\ epoch' = epoch /\ data' = data /\ rc' = rc
      /\ ppc' = ppc /\ inForce' = inForce /\ pep' = pep /\ pcc' = pcc /\ pct' = pct /\ prc' = prc
      /\ connected' = connected /\ cursor' = cursor /\ item' = item /\ rrc' = rrc
  BY DEF AckLast, producer
<1>4. fl' = [fl EXCEPT ![s] = c + N] /\ rpc' = [rpc EXCEPT ![r] = "ackcas"]
  BY <1>3 DEF AckLast, Resume
<1>5. fl \in [Slots -> Int] /\ pct \in [Producers -> Nat]
  BY DEF ChanInv, ChanType
<1>o. \A q \in Readers : q # r => cursor[q] > c
  <2> SUFFICES ASSUME NEW q \in Readers, q # r PROVE cursor[q] > c
    OBVIOUS
  <2>1. connected[q] # connected[r]
    BY DEF ChanInv, ChanType
  <2>2. ~(cursor[q] <= c)
    BY <2>1, <1>2 DEF Names
  <2> QED BY <2>2, <1>t
<1> HIDE DEF c, s
<1>6. /\ fl'[s] = c + N /\ fl' \in [Slots -> Int]
      /\ \A x \in Slots : x # s => fl'[x] = fl[x]
  BY <1>4, <1>5, <1>t
<1>7. /\ rpc'[r] = "ackcas" /\ rpc' \in [Readers -> ReadPlaces]
      /\ \A q \in Readers : q # r => rpc'[q] = rpc[q]
  BY <1>4, <1>t DEF ReadPlaces
<1>8. ChanType'
  BY <1>6, <1>7, <1>u DEF ChanInv, ChanType
<1>h. \A q \in Readers : (Holds(q)' <=> Holds(q)) /\ (Acks(q)' <=> Acks(q))
  BY <1>1, <1>7 DEF Holds, Acks
<1>9. ASSUME NEW k \in Nat, k < c + N, c < k + N, k # c PROVE fl'[SlotOf(k)] = fl[SlotOf(k)]
  <2>1. SlotOf(k) # s
    BY <1>9, <1>t, Near DEF s
  <2> QED BY <2>1, <1>6, SlotType
<1>10. ASSUME NEW p \in Producers PROVE ProducerOk(p)'
  <2>1. ProducerOk(p) /\ pct[p] \in Nat
    BY <1>5 DEF ChanInv
  <2>2. Filling(p) => fl'[SlotOf(pct[p])] = fl[SlotOf(pct[p])]
    <3> SUFFICES ASSUME Filling(p) PROVE fl'[SlotOf(pct[p])] = fl[SlotOf(pct[p])]
      OBVIOUS
    <3>1. ct - N <= pct[p] /\ pct[p] < ct /\ c # pct[p]
      BY <2>1, <1>1 DEF ProducerOk, c
    <3>2. pct[p] < c + N /\ c < pct[p] + N
      BY <3>1, <2>1, <1>2, <1>t
    <3> QED BY <3>1, <3>2, <2>1, <1>9
  <2>3. (Filling(p)' <=> Filling(p)) /\ (Ahead(p)' <=> Ahead(p)) /\ (RoundRead' <=> RoundRead)
    BY <1>u DEF Filling, Ahead, RoundRead
  <2> QED BY <2>1, <2>2, <2>3, <1>h, <1>u DEF ProducerOk
<1>11. OwnersApart'
  BY <1>u DEF ChanInv, OwnersApart, Ahead, Filling
<1>13. ASSUME NEW q \in Readers PROVE ReaderOk(q)'
  <2>1. ReaderOk(q) /\ cursor[q] \in Nat
    BY <1>t DEF ChanInv
  <2>2. CASE q = r
    BY <2>1, <2>2, <1>6, <1>7, <1>h, <1>u DEF ReaderOk, s, c
  <2>3. CASE q # r
    <3>1. rpc[q] = "ackcas" => fl'[SlotOf(cursor[q])] = fl[SlotOf(cursor[q])]
      <4> SUFFICES ASSUME rpc[q] = "ackcas" PROVE fl'[SlotOf(cursor[q])] = fl[SlotOf(cursor[q])]
        OBVIOUS
      <4>1. cursor[q] < ct /\ ct - N <= cursor[q]
        BY <2>1 DEF ReaderOk, Holds, Acks
      <4>2. cursor[q] < c + N /\ c < cursor[q] + N /\ cursor[q] # c
        BY <4>1, <2>1, <2>3, <1>2, <1>o, <1>t
      <4> QED BY <4>2, <2>1, <1>9
    <3> QED BY <2>1, <2>3, <3>1, <1>7, <1>h, <1>u DEF ReaderOk
  <2> QED BY <2>2, <2>3
<1>14. ASSUME NEW k \in Nat, ct - N <= k /\ k < ct PROVE Published(k)'
  <2>1. Published(k)
    BY <1>14 DEF ChanInv
  <2>2. CASE k = c
    <3>1. LastReader(r, k)'
      BY <2>2, <1>o, <1>1, <1>h, <1>u DEF LastReader, c
    <3>2. data'[SlotOf(k)] = k /\ fl'[SlotOf(k)] = k + N
      BY <2>2, <1>2, <1>6, <1>u DEF s
    <3>3. Names(k)'
      BY <2>2, <1>2, <1>u DEF Names
    <3> QED BY <3>1, <3>2, <3>3 DEF Published
  <2>3. CASE k # c
    <3>1. k < c + N /\ c < k + N
      BY <1>14, <1>2, <1>t
    <3>2. fl'[SlotOf(k)] = fl[SlotOf(k)]
      BY <2>3, <3>1, <1>9
    <3>3. \A q \in Readers : LastReader(q, k) => LastReader(q, k)'
      BY <1>h, <1>u DEF LastReader
    <3> QED BY <2>1, <3>2, <3>3, <1>u DEF Published, Names, ReadByAll, Filling
  <2> QED BY <2>2, <2>3
<1>15. ASSUME NEW k \in Nat, ct <= k /\ k < N PROVE Fresh(k)'
  <2>1. k < c + N /\ c < k + N /\ k # c
    BY <1>15, <1>2, <1>t
  <2>2. fl'[SlotOf(k)] = fl[SlotOf(k)]
    BY <2>1, <1>9
  <2> QED BY <2>2, <1>15, <1>u DEF ChanInv, Fresh
<1> QED BY <1>8, <1>10, <1>11, <1>13, <1>14, <1>15, <1>u DEF ChanInv

\* The acknowledgement takes one reader's bit off its position; when it was
\* the last one, the flag already names the next round.
LEMMA AckKeeps ==
  ASSUME ChanInv, NoWrap, NEW r \in Readers, Ack(r)
  PROVE  ChanInv'
<1> DEFINE c == cursor[r]
           s == SlotOf(c)
           w == Word(rc[s].cc \ {connected[r]}, rc[s].ep, rc[s].ic + 1)
<1>t. /\ ReaderOk(r) /\ c \in Nat /\ ct \in Nat /\ N \in Nat /\ N > 0 /\ s \in Slots
      /\ rpc \in [Readers -> ReadPlaces] /\ cursor \in [Readers -> Nat]
      /\ item \in [Readers -> Int] /\ rrc \in [Readers -> Words]
  BY ReaderFacts
<1>1. rpc[r] = "ackcas" /\ Holds(r) /\ Acks(r) /\ rc[s] = rrc[r]
  BY DEF Ack, Holds, Acks
<1>2. /\ ct - N <= c /\ c < ct /\ Published(c) /\ Names(c)
      /\ (rc[s].cc \subseteq {connected[r]} => fl[s] = c + N)
  BY <1>1, <1>t, HeldSlot DEF ReaderOk
<1>3. PICK pc \in {"recv", "idle"} : rpc' = [rpc EXCEPT ![r] = pc]
  BY DEF Ack, PopDone, Resume
<1>4. /\ rc' = [rc EXCEPT ![s] = w] /\ cursor' = [cursor EXCEPT ![r] = c + 1]
      /\ item' = [item EXCEPT ![r] = NoMsg] /\ rrc' = [rrc EXCEPT ![r] = NoWord]
  <2>1. Succ(c) = c + 1
    BY <1>2, <1>t, SuccIs, RingAssumption DEF NoWrap
  <2> QED BY <2>1 DEF Ack, PopDone
<1>u. /\ cc' = cc /\ ct' = ct /\ epoch' = epoch /\ data' = data /\ fl' = fl
      /\ ppc' = ppc /\ inForce' = inForce /\ pep' = pep /\ pcc' = pcc /\ pct' = pct /\ prc' = prc
      /\ connected' = connected
  BY DEF Ack, producer
<1>5. /\ rc \in [Slots -> Words] /\ pct \in [Producers -> Nat] /\ prc \in [Producers -> Words]
      /\ \A x \in Slots : rc[x].cc \subseteq cc
      /\ \A q, x \in Readers : connected[q] = connected[x] => q = x
      /\ cc = {connected[q] : q \in Readers}
  BY DEF ChanInv, ChanType
<1>w. w \in Words /\ w.cc = rc[s].cc \ {connected[r]} /\ w.ic = rc[s].ic + 1 /\ rc[s].ic \in Nat
  BY <1>t, <1>5 DEF Word, Words
<1> HIDE DEF c, s, w
<1>6. /\ rc'[s] = w /\ rc' \in [Slots -> Words]
      /\ \A x \in Slots : x # s => rc'[x] = rc[x]
  BY <1>4, <1>5, <1>w, <1>t
<1>7. /\ rpc'[r] = pc /\ rpc' \in [Readers -> ReadPlaces] /\ cursor' \in [Readers -> Nat]
      /\ cursor'[r] = c + 1 /\ item' \in [Readers -> Int] /\ rrc' \in [Readers -> Words]
      /\ \A q \in Readers : q # r =>
           rpc'[q] = rpc[q] /\ cursor'[q] = cursor[q] /\ item'[q] = item[q] /\ rrc'[q] = rrc[q]
  <2>1. NoWord \in Words /\ pc \in ReadPlaces /\ NoMsg \in Int
    BY DEF NoWord, Word, Words, ReadPlaces, NoMsg
  <2> QED BY <2>1, <1>3, <1>4, <1>t
<1>8. ChanType'
  <2>1. \A x \in Slots : rc'[x].cc \subseteq cc
    BY <1>5, <1>6, <1>w
  <2> QED BY <2>1, <1>6, <1>7, <1>u DEF ChanInv, ChanType
<1>h. /\ ~Holds(r)' /\ ~Acks(r)'
      /\ \A q \in Readers : q # r => (Holds(q)' <=> Holds(q)) /\ (Acks(q)' <=> Acks(q))
  BY <1>7 DEF Holds, Acks
<1>9. ASSUME NEW k \in Nat, k < c + N, c < k + N, k # c PROVE rc'[SlotOf(k)] = rc[SlotOf(k)]
  <2>1. SlotOf(k) # s
    BY <1>9, <1>t, Near DEF s
  <2> QED BY <2>1, <1>6, SlotType
<1>10. ASSUME NEW p \in Producers PROVE ProducerOk(p)'
  <2>1. ProducerOk(p) /\ pct[p] \in Nat /\ SlotOf(pct[p]) \in Slots
    BY <1>5, SlotType DEF ChanInv
  <2>2. (Filling(p)' <=> Filling(p)) /\ (Ahead(p)' <=> Ahead(p)) /\ ppc'[p] = ppc[p]
    BY <1>u DEF Filling, Ahead
  <2>3. Ahead(p) => rc'[SlotOf(ct)].cc = cc /\ RoundRead'
    <3> SUFFICES ASSUME Ahead(p) PROVE rc'[SlotOf(ct)].cc = cc /\ RoundRead'
      OBVIOUS
    <3>1. rc[SlotOf(ct)].cc = cc /\ \A q \in Readers : cursor[q] > ct - N
      BY <2>1 DEF ProducerOk, RoundRead
    <3>2. ct < c + N /\ c < ct + N /\ ct # c
      BY <3>1, <1>2, <1>t DEF c
    <3>3. rc'[SlotOf(ct)] = rc[SlotOf(ct)]
      BY <3>2, <1>9, <1>t
    <3>4. RoundRead'
      BY <3>1, <3>2, <1>7, <1>u, <1>t DEF RoundRead
    <3> QED BY <3>1, <3>3, <3>4
  <2>4. Filling(p) => \A q \in Readers : cursor'[q] <= pct[p] /\ (Holds(q)' => cursor'[q] # pct[p])
    <3> SUFFICES ASSUME Filling(p), NEW q \in Readers
                 PROVE  cursor'[q] <= pct[p] /\ (Holds(q)' => cursor'[q] # pct[p])
      OBVIOUS
    <3>1. cursor[q] <= pct[p] /\ (Holds(q) => cursor[q] # pct[p])
      BY <2>1 DEF ProducerOk
    <3>2. CASE q = r
      BY <3>1, <3>2, <2>1, <1>1, <1>7, <1>h, <1>t DEF c
    <3>3. CASE q # r
      BY <3>1, <3>3, <1>7, <1>h
    <3> QED BY <3>2, <3>3
  <2>5. ppc[p] \in {"flag", "cas"} => prc[p].ic <= rc'[SlotOf(pct[p])].ic
    <3>1. prc[p].ic \in Nat
      BY <1>5 DEF Words
    <3>2. ppc[p] \in {"flag", "cas"} => prc[p].ic <= rc[SlotOf(pct[p])].ic
      BY <2>1 DEF ProducerOk
    <3> QED BY <3>1, <3>2, <2>1, <1>6, <1>w
  <2>6. ppc[p] = "cas" => (prc[p] = rc'[SlotOf(pct[p])] => pct[p] = ct)
    <3> SUFFICES ASSUME ppc[p] = "cas", prc[p] = rc'[SlotOf(pct[p])] PROVE pct[p] = ct
      OBVIOUS
    <3>1. /\ prc[p].ic <= rc[SlotOf(pct[p])].ic
          /\ (prc[p] = rc[SlotOf(pct[p])] => pct[p] = ct)
      BY <2>1 DEF ProducerOk
    <3>2. SlotOf(pct[p]) # s
      BY <3>1, <1>6, <1>w
    <3> QED BY <3>1, <3>2, <2>1, <1>6
  <2> QED BY <2>1, <2>2, <2>3, <2>4, <2>5, <2>6, <1>u DEF ProducerOk
<1>11. OwnersApart'
  BY <1>u DEF ChanInv, OwnersApart, Ahead, Filling
<1>13. ASSUME NEW q \in Readers PROVE ReaderOk(q)'
  <2>1. ReaderOk(q) /\ cursor[q] \in Nat
    BY <1>t DEF ChanInv
  <2>2. CASE q = r
    <3>1. ct' - N <= cursor'[r] /\ cursor'[r] <= ct'
      BY <1>2, <1>7, <1>u, <1>t
    <3>2. rpc'[r] # "last" /\ rpc'[r] # "ackcas"
      BY <1>7
    <3> QED BY <2>2, <3>1, <3>2, <1>h DEF ReaderOk
  <2>3. CASE q # r
    <3>1. SlotOf(cursor[q]) \in Slots
      BY <2>1, SlotType
    <3>2. rc'[SlotOf(cursor[q])].cc \subseteq rc[SlotOf(cursor[q])].cc
      BY <3>1, <1>6, <1>w
    <3> QED BY <2>1, <2>3, <3>2, <1>7, <1>h, <1>u DEF ReaderOk
  <2> QED BY <2>2, <2>3
<1>14. ASSUME NEW k \in Nat, ct - N <= k /\ k < ct PROVE Published(k)'
  <2>1. Published(k)
    BY <1>14 DEF ChanInv
  <2>f. \A p \in Producers : Filling(p)' <=> Filling(p)
    BY <1>u DEF Filling
  <2>2. CASE k = c
    <3>1. Names(k)'
      <4> SUFFICES ASSUME NEW q \in Readers
                   PROVE  connected[q] \in rc'[s].cc <=> cursor'[q] <= k
        BY <2>2, <1>u DEF Names, s
      <4>1. connected[q] \in rc[s].cc <=> cursor[q] <= k
        BY <2>2, <1>2 DEF Names, s
      <4>2. CASE q = r
        BY <4>2, <2>2, <1>6, <1>w, <1>7, <1>t
      <4>3. CASE q # r
        <5>1. connected[q] # connected[r]
          BY <4>3, <1>5
        <5> QED BY <4>1, <4>3, <5>1, <1>6, <1>w, <1>7
      <4> QED BY <4>2, <4>3
    <3>2. ReadByAll(k)' => fl[s] = c + N
      <4> SUFFICES ASSUME ReadByAll(k)' PROVE rc[s].cc \subseteq {connected[r]}
        BY <1>2
      <4>1. \A q \in Readers : q # r => ~(cursor[q] <= c)
        BY <2>2, <1>7, <1>t DEF ReadByAll
      <4>2. \A q \in Readers : q # r => connected[q] \notin rc[s].cc
        BY <4>1, <1>2 DEF Names, s
      <4> QED BY <4>2, <1>5, <1>t
    <3>3. ReadByAll(k)' \/ (data[s] = c /\ fl[s] = Commit(c))
      <4> SUFFICES ASSUME ~ReadByAll(k)' PROVE data[s] = c /\ fl[s] = Commit(c)
        OBVIOUS
      <4>1. PICK q \in Readers : ~(cursor'[q] > k)
        BY DEF ReadByAll
      <4>2. q # r /\ ~(cursor[q] > c)
        BY <4>1, <2>2, <1>7, <1>t
      <4>3. ~ReadByAll(c)
        BY <4>2 DEF ReadByAll
      <4>4. \A p \in Producers : Filling(p) => pct[p] # c
        BY <1>1 DEF ChanInv, ProducerOk, c
      <4>5. \A x \in Readers : ~LastReader(x, c)
        BY <4>2, <1>t DEF LastReader, c
      <4> QED BY <4>3, <4>4, <4>5, <1>2 DEF Published, s
    <3> QED BY <2>2, <3>1, <3>2, <3>3, <1>u DEF Published, s
  <2>3. CASE k # c
    <3>1. k < c + N /\ c < k + N
      BY <1>14, <1>2, <1>t
    <3>2. rc'[SlotOf(k)] = rc[SlotOf(k)]
      BY <2>3, <3>1, <1>9
    <3>3. \A q \in Readers : (cursor'[q] <= k <=> cursor[q] <= k) /\ (cursor'[q] > k <=> cursor[q] > k)
      BY <2>3, <1>7, <1>t DEF c
    <3>4. (Names(k)' <=> Names(k)) /\ (ReadByAll(k)' <=> ReadByAll(k))
      BY <3>2, <3>3, <1>u DEF Names, ReadByAll
    <3>5. \A q \in Readers : LastReader(q, k) => LastReader(q, k)'
      BY <2>3, <3>3, <1>7, <1>h DEF LastReader, c
    <3> QED BY <2>1, <2>f, <3>2, <3>4, <3>5, <1>u DEF Published
  <2> QED BY <2>2, <2>3
<1>15. ASSUME NEW k \in Nat, ct <= k /\ k < N PROVE Fresh(k)'
  <2>1. k < c + N /\ c < k + N /\ k # c
    BY <1>15, <1>2, <1>t
  <2>2. rc'[SlotOf(k)] = rc[SlotOf(k)]
    BY <2>1, <1>9
  <2> QED BY <2>2, <1>15, <1>u DEF ChanInv, Fresh
<1> QED BY <1>8, <1>10, <1>11, <1>13, <1>14, <1>15, <1>u DEF ChanInv
-----------------------------------------------------------------------------
(* The theorems. *)

\* Every step of a settled channel keeps the invariant: no connect,
\* disconnect or force_push is enabled, and every other step is above.
LEMMA ChanInvNext ==
  ASSUME Settled, ChanInv, NoWrap, [Next]_vars
  PROVE  ChanInv'
<1>1. ASSUME NEW p \in Producers, Forcing(p) PROVE FALSE
  <2>1. ppc[p] \in ProdPlaces
    BY DEF ChanInv, ChanType
  <2> QED BY <1>1, <2>1 DEF Forcing, ForceBegin, ForceLoadRc, Kick, ForceAgain, ProdPlaces
<1>2. ASSUME NEW p \in Producers, Send(p) \/ Pushing(p) \/ AfterFailure(p) PROVE ChanInv'
  <2>1. CASE Claim(p)
    BY <2>1, ClaimKeeps
  <2>2. CASE StoreIndex(p)
    BY <2>2, StoreIndexKeeps
  <2>3. CASE Fill(p)
    BY <2>3, FillKeeps
  <2>4. CASE StoreFlag(p)
    BY <2>4, StoreFlagKeeps
  <2>5. CASE ~(Claim(p) \/ StoreIndex(p) \/ Fill(p) \/ StoreFlag(p))
    BY <1>2, <2>5, LocalsKeep DEF Pushing
  <2> QED BY <2>1, <2>2, <2>3, <2>4, <2>5
<1>3. ASSUME NEW r \in Readers, Connect(r) \/ Join(r) \/ Disconnect(r) PROVE FALSE
  <2>1. rpc[r] \in ReadPlaces /\ Live(r)
    BY ReaderFacts
  <2> QED BY <1>3, <2>1 DEF Settled, Connect, Join, Disconnect, ReadPlaces
<1>4. ASSUME NEW r \in Readers, Reading(r) PROVE ChanInv'
  <2>1. CASE AckFree(r)
    <3>1. rpc[r] \in ReadPlaces
      BY ReaderFacts
    <3> QED BY <2>1, <3>1 DEF AckFree, ReadPlaces
  <2>2. CASE AckLast(r)
    BY <2>2, AckLastKeeps
  <2>3. CASE Ack(r)
    BY <2>3, AckKeeps
  <2>4. CASE ~(AckFree(r) \/ AckLast(r) \/ Ack(r))
    BY <1>4, <2>4, ReadingKeeps DEF Reading
  <2> QED BY <2>1, <2>2, <2>3, <2>4
<1>5. CASE UNCHANGED vars
  <2>1. /\ cc' = cc /\ ct' = ct /\ epoch' = epoch /\ data' = data /\ rc' = rc /\ fl' = fl
        /\ ppc' = ppc /\ inForce' = inForce /\ pep' = pep /\ pcc' = pcc /\ pct' = pct /\ prc' = prc
        /\ rpc' = rpc /\ connected' = connected /\ cursor' = cursor /\ item' = item /\ rrc' = rrc
    BY <1>5 DEF vars, ring, producer, reader
  <2>2. ChanType' /\ OwnersApart'
    BY <2>1 DEF ChanInv, ChanType, OwnersApart, Ahead, Filling
  <2>3. (\A p \in Producers : ProducerOk(p)') /\ (\A r \in Readers : ReaderOk(r)')
    BY <2>1 DEF ChanInv, ProducerOk, ReaderOk, Ahead, Filling, RoundRead, Holds, Acks
  <2>4. \A k \in Nat : ct - N <= k /\ k < ct => Published(k)'
    BY <2>1 DEF ChanInv, Published, Names, ReadByAll, LastReader, Acks, Filling
  <2>5. \A k \in Nat : ct <= k /\ k < N => Fresh(k)'
    BY <2>1 DEF ChanInv, Fresh
  <2> QED BY <2>1, <2>2, <2>3, <2>4, <2>5 DEF ChanInv
<1> QED BY <1>1, <1>2, <1>3, <1>4, <1>5 DEF Next

\* A settled channel keeps the invariant as long as ct_ has not come round.
THEOREM ChannelInvariance ==
  ASSUME Settled
  PROVE  Spec /\ []NoWrap => []ChanInv
<1>1. Init => ChanInv
  BY ChanInvInit
<1>2. ChanInv /\ NoWrap /\ [Next]_vars => ChanInv'
  BY ChanInvNext
<1> QED BY <1>1, <1>2, PTL DEF Spec

\* "only one thread/process would touch here at one time": with its readers
\* settled, no two producers of ipc::channel own the same position, whatever
\* the weak compare-exchanges do.
THEOREM ChannelOneOwner ==
  ASSUME Settled
  PROVE  Spec /\ []NoWrap => []OneOwner
<1>1. ChanInv => OneOwner
  <2> SUFFICES ASSUME ChanInv, NEW p \in Producers, NEW q \in Producers,
                      Owns(p), Owns(q), pct[p] = pct[q]
               PROVE  p = q
    BY DEF OneOwner
  <2>t. pct[p] \in Nat /\ pct[q] \in Nat /\ ct \in Nat
    BY DEF ChanInv, ChanType
  <2>1. (Ahead(p) \/ Filling(p)) /\ (Ahead(q) \/ Filling(q))
    BY DEF Owns, Ahead, Filling
  <2>2. \A x \in Producers : (Ahead(x) => pct[x] = ct) /\ (Filling(x) => pct[x] < ct)
    BY DEF ChanInv, ProducerOk
  <2>3. (Ahead(p) /\ Ahead(q)) \/ (Filling(p) /\ Filling(q))
    BY <2>t, <2>1, <2>2
  <2> QED BY <2>3 DEF ChanInv, OwnersApart
<1> QED BY <1>1, ChannelInvariance, PTL

\* pop of ipc::channel hands every settled reader exactly the message at its
\* cursor.
THEOREM ChannelInOrder ==
  ASSUME Settled
  PROVE  Spec /\ []NoWrap => []InOrder
<1>1. ChanInv => InOrder
  <2> SUFFICES ASSUME ChanInv, NEW r \in Readers, rpc[r] \in Acking PROVE item[r] = cursor[r]
    BY DEF InOrder
  <2>1. rpc[r] \in ReadPlaces /\ ReaderOk(r)
    BY ReaderFacts
  <2>2. Acks(r)
    BY <2>1 DEF Acks, Acking, ReadPlaces
  <2> QED BY <2>1, <2>2 DEF ReaderOk
<1> QED BY <1>1, ChannelInvariance, PTL

\* Every message a settled reader has still to read is in the ring, whatever
\* the producers and the acknowledgements of the other readers do, and no
\* slot is filled while it is being copied.
THEOREM ChannelUnreadKept ==
  ASSUME Settled
  PROVE  Spec /\ []NoWrap => []UnreadKept
<1>1. ChanInv => UnreadKept
  <2> SUFFICES ASSUME ChanInv PROVE UnreadKept
    OBVIOUS
  <2>1. \A s \in Slots : rc[s].ep <= epoch
    BY DEF ChanInv, ChanType, Words
  <2>2. ASSUME NEW r \in Readers
        PROVE  LET next == IF rpc[r] \in Acking THEN cursor[r] + 1 ELSE cursor[r] IN
               /\ ct - cursor[r] \in 0 .. N
               /\ \A k \in next .. ct - 1 :
                    \/ \E p \in Producers : Owns(p) /\ pct[p] = k
                    \/ fl[SlotOf(k)] = Commit(k) /\ data[SlotOf(k)] = k
               /\ \A p \in Producers :
                    ppc[p] = "fill" /\ rpc[r] = "copy" => SlotOf(pct[p]) # SlotOf(cursor[r])
    <3>t. ReaderOk(r) /\ cursor[r] \in Nat /\ ct \in Nat /\ N \in Nat /\ N > 0
          /\ cursor \in [Readers -> Nat]
      BY ReaderFacts
    <3>1. ct - cursor[r] \in 0 .. N
      BY <3>t DEF ReaderOk
    <3>2. ASSUME NEW k \in (IF rpc[r] \in Acking THEN cursor[r] + 1 ELSE cursor[r]) .. ct - 1
          PROVE  \/ \E p \in Producers : Owns(p) /\ pct[p] = k
                 \/ fl[SlotOf(k)] = Commit(k) /\ data[SlotOf(k)] = k
      <4>1. k \in Nat /\ cursor[r] <= k /\ k < ct /\ (rpc[r] \in Acking => cursor[r] # k)
        BY <3>2, <3>t
      <4>2. Published(k)
        BY <4>1, <3>t DEF ChanInv, ReaderOk
      <4>3. ~ReadByAll(k)
        BY <4>1, <3>t DEF ReadByAll
      <4>4. \A q \in Readers : ~LastReader(q, k)
        BY <4>1, <3>t DEF LastReader, Acks, Acking
      <4>5. \A p \in Producers : Filling(p) => Owns(p)
        BY DEF Filling, Owns
      <4> QED BY <4>2, <4>3, <4>4, <4>5 DEF Published
    <3>3. ASSUME NEW p \in Producers, ppc[p] = "fill", rpc[r] = "copy"
          PROVE  SlotOf(pct[p]) # SlotOf(cursor[r])
      <4>1. Filling(p) /\ Holds(r) /\ pct[p] \in Nat
        BY <3>3 DEF Filling, Holds, ChanInv, ChanType
      <4>2. /\ ct - N <= pct[p] /\ pct[p] < ct /\ cursor[r] # pct[p]
            /\ ct - N <= cursor[r] /\ cursor[r] < ct
        BY <4>1, <3>t DEF ChanInv, ProducerOk, ReaderOk
      <4>3. pct[p] < cursor[r] + N /\ cursor[r] < pct[p] + N
        BY <4>1, <4>2, <3>t
      <4> QED BY <4>1, <4>2, <4>3, <3>t, Near
    <3> QED BY <3>1, <3>2, <3>3
  <2> QED BY <2>1, <2>2 DEF UnreadKept
<1> QED BY <1>1, ChannelInvariance, PTL

-----------------------------------------------------------------------------
(* A single producer, with force_push and with readers that come and go. *)

\* A producer between its load of ct_ and its store, and after it.
AtIndex == {"rc", "flag", "cas", "epoch", "store", "frc", "kick", "fcas", "fepoch"}
Before  == {"idle", "push", "conns", "index", "failed", "force", "fconns", "findex"}
AnyPlace == AtIndex \cup Before \cup {"fill", "commit"}
AnyStop  == {"idle", "join", "rejoin", "reconnect", "recv", "pop", "copy"} \cup Acking

SoleType ==
  /\ ct \in Nat /\ data \in [Slots -> Int] /\ fl \in [Slots -> Int]
  /\ ppc \in [Producers -> AnyPlace] /\ pct \in [Producers -> Nat] /\ sent \in [Producers -> Nat]
  /\ rpc \in [Readers -> AnyStop] /\ cursor \in [Readers -> Nat] /\ item \in [Readers -> Int]

Only(p) == \A q \in Producers : q # p => sent[q] = 0
Unsent == \A p \in Producers : sent[p] = 0 => ppc[p] = "idle"

\* The only producer is at ct_, or one behind it; what a slot holds only
\* grows and is not behind the flag.
IndexOk(p) ==
  /\ ppc[p] \in AtIndex => pct[p] = ct
  /\ ppc[p] \in {"fill", "commit"} => pct[p] = ct - 1
  /\ ppc[p] = "commit" => data[SlotOf(pct[p])] = pct[p]
SlotsOk ==
  /\ \A s \in Slots : data[s] <= ct - 1
  /\ \A s \in Slots : fl[s] < 0 => -fl[s] - 1 <= data[s]
StopOk(r) ==
  /\ rpc[r] = "copy" => cursor[r] <= data[SlotOf(cursor[r])]
  /\ rpc[r] \in Acking => cursor[r] <= item[r]
SoleOk(p) == IndexOk(p) /\ SlotsOk /\ \A r \in Readers : StopOk(r)

SoleInv == SoleType /\ Unsent /\ \A p \in Producers : Only(p) => SoleOk(p)

\* Init satisfies the invariant.
LEMMA SoleStarts == Init => SoleInv
<1> SUFFICES ASSUME Init PROVE SoleInv
  OBVIOUS
<1>1. SoleType
  BY DEF Init, SoleType, AnyPlace, Before, AnyStop, NoMsg
<1>2. \A s \in Slots : data[s] = -1 /\ fl[s] = 0
  BY DEF Init, NoMsg
<1>3. Unsent /\ \A p \in Producers : ppc[p] = "idle"
  BY DEF Init, Unsent
<1>4. \A p \in Producers : IndexOk(p)
  BY <1>3 DEF IndexOk, AtIndex
<1>5. SlotsOk
  BY <1>2 DEF Init, SlotsOk
<1>6. \A r \in Readers : StopOk(r)
  BY DEF Init, StopOk, Acking
<1> QED BY <1>1, <1>3, <1>4, <1>5, <1>6 DEF SoleInv, SoleOk

\* What a step of p leaves alone.
Mine(p) ==
  /\ \A q \in Producers : q # p => sent'[q] = sent[q] /\ ppc'[q] = ppc[q]
  /\ sent'[p] >= sent[p] /\ (sent'[p] = 0 => sent[p] # 0)
  /\ UNCHANGED <<rpc, cursor, item>>

\* A step of p concerns p as the only producer.
LEMMA SoleStep ==
  ASSUME SoleInv, SoleType', NEW p \in Producers, Mine(p), Only(p) => SoleOk(p)'
  PROVE  SoleInv'
<1>t. sent \in [Producers -> Nat] /\ sent' \in [Producers -> Nat]
  BY DEF SoleInv, SoleType
<1>1. sent'[p] > 0
  <2>1. sent[p] \in Nat /\ sent'[p] \in Nat
    BY <1>t
  <2> QED BY <2>1 DEF Mine
<1>2. Unsent'
  BY <1>1 DEF SoleInv, Unsent, Mine
<1>3. ASSUME NEW o \in Producers, Only(o)' PROVE SoleOk(o)'
  <2>1. o = p
    BY <1>1, <1>3 DEF Only
  <2>2. Only(p)
    BY <1>3, <2>1 DEF Only, Mine
  <2> QED BY <2>1, <2>2
<1> QED BY <1>2, <1>3 DEF SoleInv

\* Steps that store neither the index nor a message nor a flag.
LEMMA SoleQuiet ==
  ASSUME SoleInv, NEW p \in Producers, UNCHANGED <<ct, data, fl>>, Mine(p),
         ppc' \in [Producers -> AnyPlace], pct' \in [Producers -> Nat], sent' \in [Producers -> Nat],
         ppc'[p] \in AtIndex => pct'[p] = ct \/ (ppc[p] \in AtIndex /\ pct'[p] = pct[p]),
         ppc'[p] \notin {"fill", "commit"}
  PROVE  SoleInv'
<1>1. SoleType'
  BY DEF SoleInv, SoleType, Mine
<1>2. ASSUME Only(p) PROVE SoleOk(p)'
  <2>1. SoleOk(p)
    BY <1>2 DEF SoleInv
  <2>2. IndexOk(p)'
    BY <2>1 DEF SoleOk, IndexOk
  <2>3. SlotsOk'
    BY <2>1 DEF SoleOk, SlotsOk
  <2>4. \A r \in Readers : StopOk(r)'
    BY <2>1 DEF SoleOk, StopOk, Mine, SlotOf
  <2> QED BY <2>2, <2>3, <2>4 DEF SoleOk
<1> QED BY <1>1, <1>2, SoleStep

\* A producer's steps before and after its three stores.
LEMMA SoleProducer ==
  ASSUME SoleInv, NoWrap, NEW p \in Producers,
         Send(p) \/ Pushing(p) \/ AfterFailure(p) \/ Forcing(p)
  PROVE  SoleInv'
<1>t. /\ ct \in Nat /\ data \in [Slots -> Int] /\ fl \in [Slots -> Int]
      /\ ppc \in [Producers -> AnyPlace] /\ pct \in [Producers -> Nat] /\ sent \in [Producers -> Nat]
      /\ rpc \in [Readers -> AnyStop] /\ cursor \in [Readers -> Nat] /\ item \in [Readers -> Int]
  BY DEF SoleInv, SoleType
<1>u. ppc[p] # "idle" => sent[p] # 0
  BY DEF SoleInv, Unsent
<1>s. sent[p] \in Nat /\ sent[p] >= sent[p] /\ pct[p] \in Nat
  BY <1>t
<1>p. AnyPlace = {"rc", "flag", "cas", "epoch", "store", "frc", "kick", "fcas", "fepoch", "idle",
        "push", "conns", "index", "failed", "force", "fconns", "findex", "fill", "commit"}
  BY DEF AnyPlace, AtIndex, Before
<1>1. CASE Send(p)
  <2>1. /\ sent' = [sent EXCEPT ![p] = @ + 1] /\ ppc' = [ppc EXCEPT ![p] = "push"] /\ ppc[p] = "idle"
        /\ UNCHANGED <<ct, data, fl, pct, rpc, cursor, item>>
    BY <1>1 DEF Send, Goto, ring, reader
  <2>2. sent[p] + 1 \in Nat /\ sent[p] + 1 >= sent[p] /\ sent[p] + 1 # 0
    BY <1>s
  <2>3. sent' \in [Producers -> Nat] /\ ppc' \in [Producers -> AnyPlace]
    BY <1>t, <1>p, <2>1, <2>2
  <2>4. Mine(p)
    BY <1>t, <2>1, <2>2 DEF Mine
  <2>5. ppc'[p] = "push"
    BY <1>t, <2>1
  <2> QED BY <1>t, <2>1, <2>3, <2>4, <2>5, SoleQuiet DEF AtIndex
<1>2. ASSUME NEW to \in AnyPlace, ppc' = [ppc EXCEPT ![p] = to], to \notin {"fill", "commit"},
             to \in AtIndex => ppc[p] \in AtIndex, ppc[p] # "idle",
             UNCHANGED <<ct, data, fl, pct, sent, rpc, cursor, item>>
      PROVE  SoleInv'
  <2>1. Mine(p) /\ ppc' \in [Producers -> AnyPlace] /\ ppc'[p] = to
    BY <1>t, <1>u, <1>s, <1>2 DEF Mine
  <2> QED BY <1>t, <1>2, <2>1, SoleQuiet
<1>3. ASSUME NEW to \in Before, Return(p, to), ppc[p] # "idle",
             UNCHANGED <<ct, data, fl, sent, rpc, cursor, item>>
      PROVE  SoleInv'
  <2>1. ppc' = [ppc EXCEPT ![p] = to] /\ pct' = [pct EXCEPT ![p] = 0]
    BY <1>3 DEF Return, Goto
  <2>2. Mine(p) /\ ppc' \in [Producers -> AnyPlace] /\ pct' \in [Producers -> Nat] /\ ppc'[p] = to
    BY <1>t, <1>u, <1>s, <1>3, <2>1 DEF Mine, AnyPlace
  <2>3. to \notin AtIndex /\ to \notin {"fill", "commit"}
    BY DEF Before, AtIndex
  <2> QED BY <1>t, <1>3, <2>2, <2>3, SoleQuiet
<1>4. CASE LoadEpoch(p)
  <2>1. /\ ppc' = [ppc EXCEPT ![p] = "conns"] /\ ppc[p] = "push"
        /\ UNCHANGED <<ct, data, fl, pct, sent, rpc, cursor, item>>
    BY <1>4 DEF LoadEpoch, Goto, ring, reader
  <2> QED BY <1>2, <1>p, <2>1 DEF AtIndex
<1>5. CASE LoadConns(p)
  <2>1. ppc[p] \in {"conns", "fconns"} /\ UNCHANGED <<ct, data, fl, sent, rpc, cursor, item>>
    BY <1>5 DEF LoadConns, ring, reader
  <2>2. CASE cc # {}
    <3>1. PICK to \in {"index", "findex"} : ppc' = [ppc EXCEPT ![p] = to] /\ UNCHANGED pct
      BY <1>5, <2>2 DEF LoadConns, Goto
    <3> QED BY <1>2, <1>p, <2>1, <3>1 DEF AtIndex
  <2>3. CASE cc = {}
    <3>1. \E to \in {"force", "failed", "idle"} : Return(p, to)
      BY <1>5, <2>3 DEF LoadConns, PushFails
    <3> QED BY <1>3, <2>1, <3>1 DEF Before
  <2> QED BY <2>2, <2>3
<1>6. CASE LoadIndex(p)
  <2>1. PICK to \in {"rc", "frc"} :
          /\ ppc' = [ppc EXCEPT ![p] = to] /\ pct' = [pct EXCEPT ![p] = ct] /\ ppc[p] # "idle"
          /\ UNCHANGED <<ct, data, fl, sent, rpc, cursor, item>>
    BY <1>6 DEF LoadIndex, Goto, ring, reader
  <2>2. /\ Mine(p) /\ ppc' \in [Producers -> AnyPlace] /\ pct' \in [Producers -> Nat]
        /\ ppc'[p] = to /\ pct'[p] = ct
    BY <1>t, <1>u, <1>s, <1>p, <2>1 DEF Mine
  <2> QED BY <1>t, <2>1, <2>2, SoleQuiet
<1>7. CASE LoadRcFails(p) \/ LoadFlag(p)
  <2>1. ppc[p] \in {"rc", "flag"} /\ UNCHANGED <<ct, data, fl, sent, rpc, cursor, item>>
    BY <1>7 DEF LoadRcFails, LoadFlag, ring, reader
  <2>2. CASE PushFails(p)
    BY <1>3, <2>1, <2>2 DEF PushFails, Before
  <2>3. CASE ppc' = [ppc EXCEPT ![p] = "cas"] /\ UNCHANGED pct
    BY <1>2, <1>p, <2>1, <2>3 DEF AtIndex
  <2> QED BY <1>7, <2>2, <2>3 DEF LoadRcFails, LoadFlag, Goto
<1>8. CASE LoadRc(p) \/ Claim(p) \/ ClaimFails(p) \/ SameEpoch(p) \/ OtherEpoch(p) \/ ForceLoadRc(p)
  <2>1. PICK to \in AnyPlace :
          /\ ppc' = [ppc EXCEPT ![p] = to] /\ to \notin {"fill", "commit"} /\ ppc[p] \in AtIndex
          /\ UNCHANGED <<ct, data, fl, pct, sent, rpc, cursor, item>>
    <3>1. CASE LoadRc(p)
      BY <3>1, <1>p DEF LoadRc, Goto, ring, reader, AtIndex
    <3>2. CASE Claim(p)
      BY <3>2, <1>p DEF Claim, Goto, ring, reader, AtIndex
    <3>3. CASE ClaimFails(p)
      BY <3>3, <1>p DEF ClaimFails, Goto, ring, reader, AtIndex
    <3>4. CASE SameEpoch(p)
      BY <3>4, <1>p DEF SameEpoch, Goto, ring, reader, AtIndex
    <3>5. CASE OtherEpoch(p)
      BY <3>5, <1>p DEF OtherEpoch, Goto, ring, reader, AtIndex
    <3>6. CASE ForceLoadRc(p)
      BY <3>6, <1>p DEF ForceLoadRc, Goto, ring, reader, AtIndex
    <3> QED BY <1>8, <3>1, <3>2, <3>3, <3>4, <3>5, <3>6
  <2>2. ppc[p] # "idle"
    BY <2>1 DEF AtIndex
  <2> QED BY <1>2, <2>1, <2>2
<1>9. CASE StoreIndex(p)
  <2>1. /\ ct' = Succ(pct[p]) /\ ppc' = [ppc EXCEPT ![p] = "fill"] /\ ppc[p] = "store"
        /\ UNCHANGED <<data, fl, pct, sent, rpc, cursor, item>>
    BY <1>9 DEF StoreIndex, Goto, reader
  <2>2. /\ Mine(p) /\ ppc' \in [Producers -> AnyPlace] /\ ppc'[p] = "fill"
    BY <1>t, <1>u, <1>s, <1>p, <2>1 DEF Mine
  <2>3. ct' \in Nat
    BY <1>s, <2>1, RingAssumption, DivMod DEF Succ
  <2>4. SoleType'
    BY <1>t, <2>1, <2>2, <2>3 DEF SoleType
  <2>5. ASSUME Only(p) PROVE SoleOk(p)'
    <3>1. SoleOk(p) /\ pct[p] = ct
      BY <2>1, <2>5 DEF SoleInv, SoleOk, IndexOk, AtIndex
    <3>2. ct' = ct + 1
      <4>1. ct + 1 \in Nat /\ ct + 1 < Wrap /\ Wrap \in Nat \ {0}
        BY <1>t, RingAssumption DEF NoWrap
      <4>2. (ct + 1) % Wrap = ct + 1
        BY <4>1, Small
      <4> QED BY <2>1, <3>1, <4>2 DEF Succ
    <3>3. IndexOk(p)'
      BY <1>t, <2>1, <2>2, <3>1, <3>2 DEF IndexOk, AtIndex
    <3>4. SlotsOk'
      BY <1>t, <2>1, <3>1, <3>2 DEF SoleOk, SlotsOk
    <3>5. \A r \in Readers : StopOk(r)'
      BY <2>1, <3>1 DEF SoleOk, StopOk, SlotOf
    <3> QED BY <3>3, <3>4, <3>5 DEF SoleOk
  <2> QED BY <2>2, <2>4, <2>5, SoleStep
<1>10. CASE Fill(p)
  <2> DEFINE s == SlotOf(pct[p])
  <2>1. /\ data' = [data EXCEPT ![s] = pct[p]] /\ ppc' = [ppc EXCEPT ![p] = "commit"] /\ ppc[p] = "fill"
        /\ UNCHANGED <<ct, fl, pct, sent, rpc, cursor, item>>
    BY <1>10 DEF Fill, Goto, reader
  <2>0. s \in Slots
    BY <1>s, SlotType
  <2>2. /\ Mine(p) /\ ppc' \in [Producers -> AnyPlace] /\ ppc'[p] = "commit"
    BY <1>t, <1>u, <1>s, <1>p, <2>1 DEF Mine
  <2>3. SoleType'
    BY <1>t, <1>s, <2>0, <2>1, <2>2 DEF SoleType
  <2>4. ASSUME Only(p) PROVE SoleOk(p)'
    <3>1. SoleOk(p) /\ pct[p] = ct - 1
      BY <2>1, <2>4 DEF SoleInv, SoleOk, IndexOk, AtIndex
    <3>2. data'[s] = pct[p] /\ \A x \in Slots : data[x] <= data'[x] /\ data'[x] <= ct - 1
      BY <1>t, <1>s, <2>0, <2>1, <3>1 DEF SoleOk, SlotsOk
    <3>3. \A x \in Slots : data[x] \in Int /\ data'[x] \in Int /\ fl[x] \in Int
      BY <1>t, <2>3 DEF SoleType
    <3>4. IndexOk(p)'
      BY <1>t, <2>1, <2>2, <3>1, <3>2 DEF IndexOk, AtIndex, SlotOf
    <3>5. SlotsOk'
      BY <2>1, <3>1, <3>2, <3>3 DEF SoleOk, SlotsOk
    <3>6. ASSUME NEW r \in Readers PROVE StopOk(r)'
      <4>1. cursor[r] \in Nat /\ SlotOf(cursor[r]) \in Slots /\ StopOk(r)
        BY <1>t, <3>1, SlotType DEF SoleOk
      <4> QED BY <2>1, <3>2, <3>3, <4>1 DEF StopOk, SlotOf
    <3> QED BY <3>4, <3>5, <3>6 DEF SoleOk
  <2> QED BY <2>2, <2>3, <2>4, SoleStep
<1>11. CASE StoreFlag(p)
  <2> DEFINE s == SlotOf(pct[p])
  <2>1. /\ fl' = [fl EXCEPT ![s] = -pct[p] - 1] /\ ppc' = [ppc EXCEPT ![p] = "idle"] /\ ppc[p] = "commit"
        /\ pct' = [pct EXCEPT ![p] = 0]
        /\ UNCHANGED <<ct, data, sent, rpc, cursor, item>>
    BY <1>11 DEF StoreFlag, Return, Goto, Commit, reader
  <2>0. s \in Slots
    BY <1>s, SlotType
  <2>2. /\ Mine(p) /\ ppc' \in [Producers -> AnyPlace] /\ ppc'[p] = "idle"
    BY <1>t, <1>u, <1>s, <1>p, <2>1 DEF Mine
  <2>3. SoleType'
    BY <1>t, <1>s, <2>0, <2>1, <2>2 DEF SoleType
  <2>4. ASSUME Only(p) PROVE SoleOk(p)'
    <3>1. SoleOk(p) /\ data[s] = pct[p]
      BY <2>1, <2>4 DEF SoleInv, SoleOk, IndexOk, AtIndex
    <3>2. IndexOk(p)'
      BY <2>2 DEF IndexOk, AtIndex
    <3>3. \A x \in Slots : fl'[x] < 0 => -fl'[x] - 1 <= data[x]
      BY <1>t, <1>s, <2>0, <2>1, <3>1 DEF SoleOk, SlotsOk
    <3>5. SlotsOk'
      BY <2>1, <3>1, <3>3 DEF SoleOk, SlotsOk
    <3>6. \A r \in Readers : StopOk(r)'
      BY <2>1, <3>1 DEF SoleOk, StopOk, SlotOf
    <3> QED BY <3>2, <3>5, <3>6 DEF SoleOk
  <2> QED BY <2>2, <2>3, <2>4, SoleStep
<1>12. CASE AfterFailure(p)
  <2>1. /\ \E to \in {"push", "idle", "force"} : ppc' = [ppc EXCEPT ![p] = to]
        /\ ppc[p] = "failed" /\ UNCHANGED <<ct, data, fl, pct, sent, rpc, cursor, item>>
    BY <1>12 DEF AfterFailure, Goto, ring, reader
  <2> QED BY <1>2, <1>p, <2>1 DEF AtIndex
<1>13. CASE ForceBegin(p)
  <2>1. /\ ppc' = [ppc EXCEPT ![p] = "fconns"] /\ ppc[p] = "force"
        /\ UNCHANGED <<ct, data, fl, pct, sent, rpc, cursor, item>>
    BY <1>13 DEF ForceBegin, Goto, reader
  <2> QED BY <1>2, <1>p, <2>1 DEF AtIndex
<1>14. CASE Kick(p)
  <2>1. ppc[p] = "kick" /\ UNCHANGED <<ct, data, fl, sent, rpc, cursor, item>>
    BY <1>14 DEF Kick, reader
  <2>2. CASE Return(p, "idle")
    BY <1>3, <2>1, <2>2 DEF Before
  <2>3. CASE ppc' = [ppc EXCEPT ![p] = "fcas"] /\ UNCHANGED pct
    BY <1>2, <1>p, <2>1, <2>3 DEF AtIndex
  <2> QED BY <1>14, <2>2, <2>3 DEF Kick, Goto
<1>15. CASE ForceAgain(p)
  <2>1. /\ ppc' = [ppc EXCEPT ![p] = "push"] /\ ppc[p] = "fepoch"
        /\ UNCHANGED <<ct, data, fl, pct, sent, rpc, cursor, item>>
    BY <1>15 DEF ForceAgain, Goto, ring, reader
  <2> QED BY <1>2, <1>p, <2>1 DEF AtIndex
<1> QED BY <1>1, <1>4, <1>5, <1>6, <1>7, <1>8, <1>9, <1>10, <1>11, <1>12, <1>13, <1>14, <1>15
        DEF Pushing, Forcing
\* A step of reader r: flags only become those of a next round.
LEMMA SoleRead ==
  ASSUME SoleInv, NEW r \in Readers, UNCHANGED <<ct, data, ppc, pct, sent>>,
         fl' \in [Slots -> Int], \A s \in Slots : fl'[s] = fl[s] \/ fl'[s] >= 0,
         rpc' \in [Readers -> AnyStop], cursor' \in [Readers -> Nat], item' \in [Readers -> Int],
         \A q \in Readers : q # r => rpc'[q] = rpc[q] /\ cursor'[q] = cursor[q] /\ item'[q] = item[q],
         (SlotsOk /\ StopOk(r)) => StopOk(r)'
  PROVE  SoleInv'
<1>1. SoleType' /\ Unsent'
  BY DEF SoleInv, SoleType, Unsent
<1>2. ASSUME NEW p \in Producers, Only(p)' PROVE SoleOk(p)'
  <2>1. SoleOk(p)
    BY <1>2 DEF SoleInv, Only
  <2>2. IndexOk(p)'
    BY <2>1 DEF SoleOk, IndexOk, SlotOf
  <2>3. SlotsOk'
    <3>1. \A s \in Slots : fl[s] \in Int /\ fl'[s] \in Int
      BY DEF SoleInv, SoleType
    <3> QED BY <2>1, <3>1 DEF SoleOk, SlotsOk
  <2>4. ASSUME NEW q \in Readers PROVE StopOk(q)'
    <3>1. CASE q = r
      BY <2>1, <3>1 DEF SoleOk
    <3>2. CASE q # r
      BY <2>1, <3>2 DEF SoleOk, StopOk, SlotOf
    <3> QED BY <3>1, <3>2
  <2> QED BY <2>2, <2>3, <2>4 DEF SoleOk
<1> QED BY <1>1, <1>2 DEF SoleInv

\* The readers' steps.
LEMMA SoleReader ==
  ASSUME SoleInv, NEW r \in Readers, Connect(r) \/ Join(r) \/ Disconnect(r) \/ Reading(r)
  PROVE  SoleInv'
<1>t. /\ ct \in Nat /\ data \in [Slots -> Int] /\ fl \in [Slots -> Int]
      /\ rpc \in [Readers -> AnyStop] /\ cursor \in [Readers -> Nat] /\ item \in [Readers -> Int]
      /\ cursor[r] \in Nat /\ item[r] \in Int
  BY DEF SoleInv, SoleType
<1>p. AnyStop = {"idle", "join", "rejoin", "reconnect", "recv", "pop", "copy", "ack", "free", "last", "ackcas"}
  BY DEF AnyStop, Acking
<1>s. SlotOf(cursor[r]) \in Slots
  BY <1>t, SlotType
<1>n. Succ(cursor[r]) \in Nat /\ NextRound(r) \in Nat
  <2>1. cursor[r] + 1 \in Nat /\ Wrap \in Nat \ {0} /\ N \in Nat \ {0}
    BY <1>t, RingAssumption
  <2>2. Succ(cursor[r]) \in Nat
    BY <2>1, DivMod DEF Succ
  <2> QED BY <2>1, <2>2 DEF NextRound
<1>1. ASSUME NEW to \in AnyStop, rpc' = [rpc EXCEPT ![r] = to],
             UNCHANGED <<ct, data, fl, ppc, pct, sent, cursor, item>>,
             to \in Acking => rpc[r] \in Acking,
             to = "copy" => fl[SlotOf(cursor[r])] = Commit(cursor[r])
      PROVE  SoleInv'
  <2>1. rpc' \in [Readers -> AnyStop] /\ rpc'[r] = to /\ \A q \in Readers : q # r => rpc'[q] = rpc[q]
    BY <1>t, <1>1
  <2>2. ASSUME SlotsOk, StopOk(r) PROVE StopOk(r)'
    <3>1. to = "copy" => cursor[r] <= data[SlotOf(cursor[r])]
      <4> SUFFICES ASSUME to = "copy" PROVE cursor[r] <= data[SlotOf(cursor[r])]
        OBVIOUS
      <4>1. fl[SlotOf(cursor[r])] = -cursor[r] - 1
        BY <1>1 DEF Commit
      <4>2. -(-cursor[r] - 1) - 1 = cursor[r] /\ -cursor[r] - 1 < 0
        BY <1>t
      <4> QED BY <1>s, <2>2, <4>1, <4>2 DEF SlotsOk
    <3> QED BY <1>1, <2>1, <2>2, <3>1 DEF StopOk, SlotOf
  <2>3. \A s \in Slots : fl'[s] = fl[s]
    BY <1>1
  <2> QED BY <1>t, <1>1, <2>1, <2>2, <2>3, SoleRead
<1>2. ASSUME NEW to \in {"idle", "recv", "pop", "join", "rejoin"}, rpc' = [rpc EXCEPT ![r] = to],
             UNCHANGED <<ct, data, ppc, pct, sent>>,
             \/ UNCHANGED fl
             \/ fl' = [fl EXCEPT ![SlotOf(cursor[r])] = NextRound(r)],
             NEW c \in Nat, cursor' = [cursor EXCEPT ![r] = c],
             NEW i \in Int, item' = [item EXCEPT ![r] = i]
      PROVE  SoleInv'
  <2>1. rpc' \in [Readers -> AnyStop] /\ rpc'[r] = to /\ \A q \in Readers : q # r => rpc'[q] = rpc[q]
    BY <1>t, <1>p, <1>2
  <2>2. /\ cursor' \in [Readers -> Nat] /\ item' \in [Readers -> Int]
        /\ \A q \in Readers : q # r => cursor'[q] = cursor[q] /\ item'[q] = item[q]
    BY <1>t, <1>2
  <2>3. StopOk(r)'
    BY <2>1 DEF StopOk, Acking
  <2>4. fl' \in [Slots -> Int] /\ \A s \in Slots : fl'[s] = fl[s] \/ fl'[s] >= 0
    BY <1>t, <1>s, <1>n, <1>2
  <2> QED BY <1>2, <2>1, <2>2, <2>3, <2>4, SoleRead
<1>e. cursor = [cursor EXCEPT ![r] = cursor[r]] /\ item = [item EXCEPT ![r] = item[r]]
  BY <1>t
<1>3. CASE Connect(r)
  <2>1. PICK to \in {"join", "rejoin"} :
          rpc' = [rpc EXCEPT ![r] = to] /\ UNCHANGED <<ct, data, fl, ppc, pct, sent, cursor, item>>
    BY <1>3 DEF Connect, Resume, producer
  <2> QED BY <1>1, <1>p, <2>1 DEF Acking
<1>4. CASE Join(r)
  <2>1. PICK to \in {"idle", "pop"}, c \in Nat :
          /\ rpc' = [rpc EXCEPT ![r] = to] /\ cursor' = [cursor EXCEPT ![r] = c]
          /\ UNCHANGED <<ct, data, fl, ppc, pct, sent, item>>
    BY <1>4, <1>t DEF Join, Resume, ring, producer
  <2> QED BY <1>2, <1>t, <1>e, <2>1
<1>5. CASE Disconnect(r)
  <2>1. UNCHANGED <<ct, data, fl, ppc, pct, sent, rpc, cursor, item>> /\ rpc[r] = "idle"
    BY <1>5 DEF Disconnect, producer
  <2>2. rpc' = [rpc EXCEPT ![r] = "idle"]
    BY <1>t, <2>1
  <2> QED BY <1>1, <1>p, <2>1, <2>2 DEF Acking
<1>6. CASE Recv(r) \/ RecvCheck(r) \/ ConnectTwice(r) \/ PopEmpty(r) \/ Pop(r) \/ AckLoad(r) \/ AckFails(r)
  <2>1. UNCHANGED <<ct, data, fl, ppc, pct, sent, cursor, item>>
    BY <1>6 DEF Recv, RecvCheck, ConnectTwice, PopEmpty, Pop, AckLoad, AckFails, ring, producer
  <2>2. PICK to \in AnyStop :
          /\ rpc' = [rpc EXCEPT ![r] = to] /\ (to \in Acking => rpc[r] \in Acking)
          /\ to = "copy" => fl[SlotOf(cursor[r])] = Commit(cursor[r])
    <3>1. CASE Recv(r) \/ RecvCheck(r) \/ ConnectTwice(r) \/ PopEmpty(r)
      BY <1>p, <3>1 DEF Recv, RecvCheck, ConnectTwice, PopEmpty, Resume, Acking
    <3>2. CASE Pop(r)
      BY <1>p, <3>2 DEF Pop, Resume, Acking
    <3>3. CASE AckLoad(r) \/ AckFails(r)
      BY <1>p, <3>3 DEF AckLoad, AckFails, Resume, Acking
    <3> QED BY <1>6, <3>1, <3>2, <3>3
  <2> QED BY <1>1, <2>1, <2>2
<1>7. CASE Copy(r)
  <2>1. /\ rpc[r] = "copy" /\ rpc' = [rpc EXCEPT ![r] = "ack"]
        /\ item' = [item EXCEPT ![r] = data[SlotOf(cursor[r])]]
        /\ UNCHANGED <<ct, data, fl, ppc, pct, sent, cursor>>
    BY <1>7 DEF Copy, Resume, ring, producer
  <2>2. /\ rpc' \in [Readers -> AnyStop] /\ rpc'[r] = "ack" /\ item'[r] = data[SlotOf(cursor[r])]
        /\ item' \in [Readers -> Int]
        /\ \A q \in Readers : q # r => rpc'[q] = rpc[q] /\ item'[q] = item[q]
    BY <1>t, <1>p, <1>s, <2>1
  <2>3. StopOk(r) => StopOk(r)'
    BY <2>1, <2>2 DEF StopOk
  <2>4. \A s \in Slots : fl'[s] = fl[s]
    BY <2>1
  <2> QED BY <1>t, <2>1, <2>2, <2>3, <2>4, SoleRead
<1>8. CASE AckFree(r) \/ Ack(r)
  <2>1. /\ PopDone(r) /\ UNCHANGED <<ct, data, ppc, pct, sent>>
        /\ \/ UNCHANGED fl
           \/ fl' = [fl EXCEPT ![SlotOf(cursor[r])] = NextRound(r)]
    BY <1>8 DEF AckFree, Ack, producer
  <2>2. PICK to \in {"idle", "recv"} : rpc' = [rpc EXCEPT ![r] = to]
    BY <2>1 DEF PopDone, Resume
  <2>3. cursor' = [cursor EXCEPT ![r] = Succ(cursor[r])] /\ item' = [item EXCEPT ![r] = -1]
    BY <2>1 DEF PopDone, NoMsg
  <2>4. -1 \in Int
    OBVIOUS
  <2> QED BY <1>2, <1>n, <2>1, <2>2, <2>3, <2>4
<1>9. CASE AckLast(r)
  <2>1. /\ rpc[r] = "last" /\ rpc' = [rpc EXCEPT ![r] = "ackcas"]
        /\ fl' = [fl EXCEPT ![SlotOf(cursor[r])] = NextRound(r)]
        /\ UNCHANGED <<ct, data, ppc, pct, sent, cursor, item>>
    BY <1>9 DEF AckLast, Resume, producer
  <2>2. /\ rpc' \in [Readers -> AnyStop] /\ rpc'[r] = "ackcas"
        /\ \A q \in Readers : q # r => rpc'[q] = rpc[q]
    BY <1>t, <1>p, <2>1
  <2>3. fl' \in [Slots -> Int] /\ \A s \in Slots : fl'[s] = fl[s] \/ fl'[s] >= 0
    BY <1>t, <1>s, <1>n, <2>1
  <2>4. StopOk(r) => StopOk(r)'
    BY <2>1, <2>2 DEF StopOk, Acking
  <2> QED BY <1>t, <2>1, <2>2, <2>3, <2>4, SoleRead
<1> QED BY <1>3, <1>4, <1>5, <1>6, <1>7, <1>8, <1>9 DEF Reading

\* A reader never copies a message older than its cursor while one producer
\* has the channel, whoever force_push throws out and whoever connects; the
\* index has not come round.
THEOREM ChannelNeverStale == Spec /\ []NoWrap => []NeverStale
<1>1. Init => SoleInv
  BY SoleStarts
<1>2. ASSUME SoleInv, NoWrap, [Next]_vars PROVE SoleInv'
  <2>1. CASE Next
    BY <1>2, <2>1, SoleProducer, SoleReader DEF Next
  <2>2. CASE UNCHANGED vars
    <3>1. UNCHANGED <<ct, data, fl, ppc, pct, sent, rpc, cursor, item>>
      BY <2>2 DEF vars, ring, producer, reader
    <3>2. SoleType' /\ Unsent'
      BY <1>2, <3>1 DEF SoleInv, SoleType, Unsent
    <3>3. ASSUME NEW p \in Producers, Only(p)' PROVE SoleOk(p)'
      <4>1. SoleOk(p)
        BY <1>2, <3>1, <3>3 DEF SoleInv, Only
      <4> QED BY <3>1, <4>1 DEF SoleOk, IndexOk, SlotsOk, StopOk, SlotOf
    <3> QED BY <3>2, <3>3 DEF SoleInv
  <2> QED BY <1>2, <2>1, <2>2
<1>3. SoleInv => NeverStale
  <2> SUFFICES ASSUME SoleInv, NEW p \in Producers, \A q \in Producers \ {p} : sent[q] = 0,
                      NEW r \in Readers, rpc[r] \in Acking
               PROVE  item[r] >= cursor[r]
    BY DEF NeverStale, Alone
  <2>1. StopOk(r)
    BY DEF SoleInv, Only, SoleOk
  <2>2. cursor[r] \in Nat /\ item[r] \in Int
    BY DEF SoleInv, SoleType
  <2> QED BY <2>1, <2>2 DEF StopOk
<1> QED BY <1>1, <1>2, <1>3, PTL DEF Spec

=============================================================================
