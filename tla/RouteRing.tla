------------------------------ MODULE RouteRing ------------------------------
(***************************************************************************)
(* The ring of ipc::route, prod_cons_impl<wr<single, multi, broadcast>>:   *)
(* one writer, many readers, every message for every reader.  A slot       *)
(* carries in one atomic word rc_ the ids of the readers that still have   *)
(* to read it and the epoch of the push that filled it; the connections    *)
(* cc_ are a bit per reader.  Every atomic access of the code is a step of *)
(* its own, except that a CAS loop whose only input is the word it         *)
(* exchanges (conn_head::connect, the end of pop) is one step.             *)
(*                                                                         *)
(* wt_ and the readers' cursors are unbounded here and 32 bits wide in the *)
(* code, which only compares them for equality and takes their low bits.   *)
(* The payload of a message is its write index.                            *)
(***************************************************************************)
EXTENDS Integers, FiniteSets

CONSTANTS
  N,        \* number of slots (elem_max, 256 in the code)
  Readers,  \* the receiving handles
  MaxConn,  \* number of connection bits (32 in the code)
  MaxPush,  \* bound on the messages pushed
  MaxEpoch  \* bound on the calls of force_push

ASSUME NAssumption == N \in Nat \ {0}
ASSUME BoundAssumption == MaxConn \in Nat /\ MaxPush \in Nat /\ MaxEpoch \in Nat

Slots == 0 .. N - 1
Ids   == 0 .. MaxConn - 1   \* the bit numbers of a cc_t
NoId  == -1                 \* connected_ == 0: no bit at all
NoMsg == -1                 \* the slot was never filled

VARIABLES
  cc,        \* conn_head_base::cc_, the set of connected ids
  wt,        \* wt_, the write index
  epoch,     \* epoch_
  data,      \* elem_t::data_ of each slot
  rc, ep,    \* elem_t::rc_ of each slot: reader bits and epoch part
  wpc,       \* where the writer is in send, push and force_push
  wcc,       \* the local cc of push and force_push
  wrc, wep,  \* the local cur_rc of push and force_push
  rpc,       \* where each reader is in connect and recv
  connected, \* queue_conn::connected_ of each reader
  cursor,    \* queue_base::cursor_ of each reader
  item,      \* the message each reader's pop has copied out
  synced     \* auxiliary, see Join

ring   == <<cc, wt, epoch, data, rc, ep>>
writer == <<wpc, wcc, wrc, wep>>
reader == <<rpc, connected, cursor, item, synced>>
vars   == <<cc, wt, epoch, data, rc, ep, wpc, wcc, wrc, wep,
            rpc, connected, cursor, item, synced>>

\* The writer has read cc_ for a message and not yet claimed its slot.
Claiming == {"check", "cas", "fcheck", "kick", "fcas"}

\* circ::index_of: the slot of a write index.
SlotOf(k) == k % N

\* queue_conn::connected: the id a reader holds is set in cc_.
Live(r) == connected[r] \in cc

Init ==
  /\ cc = {} /\ wt = 0 /\ epoch = 0
  /\ data = [s \in Slots |-> NoMsg]
  /\ rc = [s \in Slots |-> {}]
  /\ ep = [s \in Slots |-> 0]
  /\ wpc = "idle" /\ wcc = {} /\ wrc = {} /\ wep = 0
  /\ rpc = [r \in Readers |-> "idle"]
  /\ connected = [r \in Readers |-> NoId]
  /\ cursor = [r \in Readers |-> 0]
  /\ item = [r \in Readers |-> NoMsg]
  /\ synced = [r \in Readers |-> FALSE]

-----------------------------------------------------------------------------
(* The writer. *)

\* The locals of push and force_push go out of scope or are read anew.
DropLocals == wcc' = {} /\ wrc' = {} /\ wep' = 0

\* send and try_send give up at once when nobody is connected.
Send ==
  /\ wpc = "idle" /\ wt < MaxPush
  /\ cc # {}
  /\ wpc' = "load"
  /\ UNCHANGED <<ring, wcc, wrc, wep, reader>>

\* push reads the connections; none is a failed push.
PushLoad ==
  /\ wpc = "load"
  /\ wcc' = cc
  /\ wpc' = IF cc = {} THEN "failed" ELSE "check"
  /\ UNCHANGED <<ring, wrc, wep, reader>>

\* Slip: waiting only while nobody has finished yet.
UnfinishedIfAll == wcc \subseteq rc[SlotOf(wt)] /\ ep[SlotOf(wt)] = epoch

\* Connected readers whose bits were set in this epoch have not finished.
Unfinished == wcc \cap rc[SlotOf(wt)] # {} /\ ep[SlotOf(wt)] = epoch

\* Slip: waiting inside push instead of returning to wait_for.
PushSpins ==
  /\ wpc = "check"
  /\ Unfinished
  /\ wpc' = "load"
  /\ DropLocals
  /\ UNCHANGED <<ring, reader>>

\* push reads rc_ and returns false if a reader has not finished yet.
PushFails ==
  /\ wpc = "check"
  /\ Unfinished
  /\ wpc' = "failed"
  /\ DropLocals
  /\ UNCHANGED <<ring, reader>>

\* push reads rc_ and goes on to its compare-exchange.
PushCheck ==
  /\ wpc = "check"
  /\ ~Unfinished
  /\ wrc' = rc[SlotOf(wt)] /\ wep' = ep[SlotOf(wt)]
  /\ wpc' = "cas"
  /\ UNCHANGED <<ring, wcc, reader>>

\* Slip: the slot keeps the bits it had.
ClaimKeepsBits(pc) ==
  LET s == SlotOf(wt) IN
  /\ wpc = pc
  /\ rc[s] = wrc /\ ep[s] = wep
  /\ ep' = [ep EXCEPT ![s] = epoch]
  /\ wpc' = "fill"
  /\ wrc' = {} /\ wep' = 0
  /\ UNCHANGED <<cc, wt, epoch, data, rc, wcc, reader>>

\* The compare-exchange of push and force_push claims the slot.
Claim(pc) ==
  LET s == SlotOf(wt) IN
  /\ wpc = pc
  /\ rc[s] = wrc /\ ep[s] = wep
  /\ rc' = [rc EXCEPT ![s] = wcc]
  /\ ep' = [ep EXCEPT ![s] = epoch]
  /\ wpc' = "fill"
  /\ wrc' = {} /\ wep' = 0
  /\ UNCHANGED <<cc, wt, epoch, data, wcc, reader>>

\* It fails when rc_ has changed, and may fail when it has not (the weak form).
Retry(pc, back) ==
  /\ wpc = pc
  /\ wpc' = back
  /\ DropLocals
  /\ UNCHANGED <<ring, reader>>

\* The message is constructed in the slot, not yet visible to a reader.
Fill ==
  /\ wpc = "fill"
  /\ data' = [data EXCEPT ![SlotOf(wt)] = wt]
  /\ wpc' = "publish"
  /\ UNCHANGED <<cc, wt, epoch, rc, ep, wcc, wrc, wep, reader>>

\* wt_.fetch_add: the message is published and push returns true.
Publish ==
  /\ wpc = "publish"
  /\ wt' = wt + 1
  /\ wpc' = "idle"
  /\ DropLocals
  /\ UNCHANGED <<cc, epoch, data, rc, ep, reader>>

\* wait_for calls push again until its time is up.
TryAgain ==
  /\ wpc = "failed"
  /\ wpc' = "load"
  /\ UNCHANGED <<ring, wcc, wrc, wep, reader>>

\* The time is up: try_send returns false.
GiveUp ==
  /\ wpc = "failed"
  /\ wpc' = "idle"
  /\ UNCHANGED <<ring, wcc, wrc, wep, reader>>

\* The time is up: send calls force_push, which starts a new epoch.  From
\* here on push ignores the bits older messages carry, so no reader's unread
\* messages are protected any more.
ForceBegin ==
  /\ wpc = "failed" /\ epoch < MaxEpoch
  /\ epoch' = epoch + 1
  /\ wpc' = "fload"
  /\ synced' = [r \in Readers |-> FALSE]
  /\ UNCHANGED <<cc, wt, data, rc, ep, wcc, wrc, wep, rpc, connected, cursor, item>>

\* force_push reads the connections; none makes it (and send) return false.
ForceLoad ==
  /\ wpc = "fload"
  /\ wcc' = cc
  /\ wpc' = IF cc = {} THEN "idle" ELSE "fcheck"
  /\ UNCHANGED <<ring, wrc, wep, reader>>

\* force_push reads rc_ and looks for readers that have not finished.
ForceCheck ==
  LET s == SlotOf(wt) IN
  /\ wpc = "fcheck"
  /\ wrc' = rc[s] /\ wep' = ep[s]
  /\ wpc' = IF wcc \cap rc[s] # {} THEN "kick" ELSE "fcas"
  /\ UNCHANGED <<ring, wcc, reader>>

\* force_push disconnects them and goes on with whoever is left.
Kick ==
  /\ wpc = "kick"
  /\ cc' = cc \ wrc
  /\ IF cc' # {}
       THEN wpc' = "fcas" /\ wcc' = cc' /\ UNCHANGED <<wrc, wep>>
       ELSE wpc' = "idle" /\ DropLocals
  /\ synced' = [r \in Readers |-> synced[r] /\ connected[r] \notin wrc]
  /\ UNCHANGED <<wt, epoch, data, rc, ep, rpc, connected, cursor, item>>

TryPush == \/ PushLoad \/ PushFails \/ PushCheck \/ Claim("cas") \/ Retry("cas", "load")
ForcePush ==
  \/ ForceBegin \/ ForceLoad \/ ForceCheck \/ Kick
  \/ Claim("fcas") \/ Retry("fcas", "fload")

-----------------------------------------------------------------------------
(* The readers. *)

\* Slip: not looking whether somebody else has set the bit meanwhile.
FirstFreeBlind(i) == 0 .. i - 1 \subseteq cc

\* conn_head::connect: curr | (curr + 1) sets the first bit that is clear.
FirstFree(i) == i \notin cc /\ 0 .. i - 1 \subseteq cc

\* queue_conn::connect up to the CAS on cc_, from reconnect and from recv.
Connect(r) ==
  /\ rpc[r] \in {"idle", "reconnect"}
  /\ ~Live(r)
  /\ \E i \in Ids :
       /\ FirstFree(i)
       /\ connected' = [connected EXCEPT ![r] = i]
       /\ cc' = cc \cup {i}
  /\ rpc' = [rpc EXCEPT ![r] = IF @ = "idle" THEN "join" ELSE "rejoin"]
  /\ UNCHANGED <<wt, epoch, data, rc, ep, writer, cursor, item, synced>>

\* The same with every bit taken: the reader is left without an id, and recv
\* goes on to pop all the same.
ConnectFull(r) ==
  /\ rpc[r] \in {"idle", "reconnect"}
  /\ ~Live(r)
  /\ Ids \subseteq cc
  /\ connected' = [connected EXCEPT ![r] = NoId]
  /\ rpc' = [rpc EXCEPT ![r] = IF @ = "idle" THEN "join" ELSE "rejoin"]
  /\ UNCHANGED <<ring, writer, cursor, item, synced>>

\* In recv, connect may find the reader connected after all.
ConnectTwice(r) ==
  /\ rpc[r] = "reconnect"
  /\ Live(r)
  /\ rpc' = [rpc EXCEPT ![r] = "pop"]
  /\ UNCHANGED <<ring, writer, connected, cursor, item, synced>>

\* No other handle holds the same id; a handle disconnected by force_push
\* holds its old id until it connects again.
SoleHolder(r) == \A q \in Readers \ {r} : connected[q] # connected[r]

\* The message the writer is pushing, if any, carries or will carry the
\* reader's bit.
Counted(r) ==
  /\ wpc \in Claiming => connected[r] \in wcc
  /\ wpc \in {"fill", "publish"} => connected[r] \in rc[SlotOf(wt)]

\* queue_base::connect then reads wt_ into the cursor.  From here on the
\* reader is in step with the writer, if it is connected, alone under its
\* id, and counted by a push in flight: push may have read cc_ before the
\* reader set its bit there.
Join(r) ==
  /\ rpc[r] \in {"join", "rejoin"}
  /\ cursor' = [cursor EXCEPT ![r] = IF Live(r) THEN wt ELSE @]
  /\ synced' = [synced EXCEPT ![r] = Live(r) /\ Counted(r) /\ SoleHolder(r)]
  /\ rpc' = [rpc EXCEPT ![r] = IF @ = "join" THEN "idle" ELSE "pop"]
  /\ UNCHANGED <<ring, writer, connected, item>>

\* queue_conn::disconnect.
Disconnect(r) ==
  /\ rpc[r] = "idle"
  /\ Live(r)
  /\ cc' = cc \ {connected[r]}
  /\ connected' = [connected EXCEPT ![r] = NoId]
  /\ synced' = [q \in Readers |-> synced[q] /\ connected[q] # connected[r]]
  /\ UNCHANGED <<wt, epoch, data, rc, ep, writer, rpc, cursor, item>>

\* recv returns at once unless the reader is connected.
Recv(r) ==
  /\ rpc[r] = "idle"
  /\ Live(r)
  /\ rpc' = [rpc EXCEPT ![r] = "recv"]
  /\ UNCHANGED <<ring, writer, connected, cursor, item, synced>>

\* Before each pop, recv looks whether it has been disconnected meanwhile.
RecvCheck(r) ==
  /\ rpc[r] = "recv"
  /\ rpc' = [rpc EXCEPT ![r] = IF Live(r) THEN "pop" ELSE "reconnect"]
  /\ UNCHANGED <<ring, writer, connected, cursor, item, synced>>

\* Slip: taking a cached write index for the current one.
PopEmptyStale(r) ==
  /\ rpc[r] = "pop"
  /\ \E next \in {"recv", "idle"} : rpc' = [rpc EXCEPT ![r] = next]
  /\ UNCHANGED <<ring, writer, connected, cursor, item, synced>>

\* pop finds nothing: recv tries again or returns on its timeout.
PopEmpty(r) ==
  /\ rpc[r] = "pop"
  /\ cursor[r] = wt
  /\ \E next \in {"recv", "idle"} : rpc' = [rpc EXCEPT ![r] = next]
  /\ UNCHANGED <<ring, writer, connected, cursor, item, synced>>

\* Slip: not looking whether there is an element.
PopUnchecked(r) ==
  /\ rpc[r] = "pop"
  /\ cursor' = [cursor EXCEPT ![r] = @ + 1]
  /\ rpc' = [rpc EXCEPT ![r] = "copy"]
  /\ UNCHANGED <<ring, writer, connected, item, synced>>

\* pop takes the element at the cursor and advances the cursor.
Pop(r) ==
  /\ rpc[r] = "pop"
  /\ cursor[r] # wt
  /\ cursor' = [cursor EXCEPT ![r] = @ + 1]
  /\ rpc' = [rpc EXCEPT ![r] = "copy"]
  /\ UNCHANGED <<ring, writer, connected, item, synced>>

\* pop moves the message out of the slot.
Copy(r) ==
  /\ rpc[r] = "copy"
  /\ item' = [item EXCEPT ![r] = data[SlotOf(cursor[r] - 1)]]
  /\ rpc' = [rpc EXCEPT ![r] = "ack"]
  /\ UNCHANGED <<ring, writer, connected, cursor, synced>>

\* Slip: clearing every reader's bit.
AckForAll(r) ==
  LET s == SlotOf(cursor[r] - 1) IN
  /\ rpc[r] = "ack"
  /\ rc' = [rc EXCEPT ![s] = {}]
  /\ item' = [item EXCEPT ![r] = NoMsg]
  /\ \E next \in {"recv", "idle"} : rpc' = [rpc EXCEPT ![r] = next]
  /\ UNCHANGED <<cc, wt, epoch, data, ep, writer, connected, cursor, synced>>

\* pop clears the reader's bit; recv returns, or goes on with the next
\* fragment.
Ack(r) ==
  LET s == SlotOf(cursor[r] - 1) IN
  /\ rpc[r] = "ack"
  /\ rc' = [rc EXCEPT ![s] = @ \ {connected[r]}]
  /\ item' = [item EXCEPT ![r] = NoMsg]
  /\ \E next \in {"recv", "idle"} : rpc' = [rpc EXCEPT ![r] = next]
  /\ UNCHANGED <<cc, wt, epoch, data, ep, writer, connected, cursor, synced>>

Reading(r) == \/ Recv(r) \/ RecvCheck(r) \/ ConnectTwice(r) \/ PopEmpty(r)
              \/ Pop(r) \/ Copy(r) \/ Ack(r)

-----------------------------------------------------------------------------
Next ==
  \/ Send \/ TryPush \/ Fill \/ Publish \/ TryAgain \/ GiveUp \/ ForcePush
  \/ \E r \in Readers : Connect(r) \/ ConnectFull(r) \/ Join(r) \/ Disconnect(r) \/ Reading(r)

Spec == Init /\ [][Next]_vars

\* Nobody waits for a reader: the writer's own steps are weakly fair, a
\* compare-exchange does not fail for ever, and wait_for's time runs out.
FairWriter ==
  /\ WF_vars(TryPush \/ Fill \/ Publish \/ TryAgain \/ ForcePush)
  /\ SF_vars(Claim("cas")) /\ SF_vars(Claim("fcas"))
  /\ SF_vars(GiveUp \/ ForceBegin)

\* A reader that is in recv, or whose program calls recv again and again.
FairReaders == \A r \in Readers : WF_vars(Reading(r) \/ Connect(r) \/ ConnectFull(r) \/ Join(r))

-----------------------------------------------------------------------------
(* Properties. *)

\* The ring, the words of its elements and where the writer and each reader are
\* keep their types.
TypeOK ==
  /\ cc \subseteq Ids /\ wt \in Nat /\ epoch \in Nat
  /\ data \in [Slots -> Nat \cup {NoMsg}]
  /\ rc \in [Slots -> SUBSET Ids] /\ ep \in [Slots -> Nat]
  /\ wpc \in Claiming \cup {"idle", "load", "failed", "fload", "fill", "publish"}
  /\ wcc \subseteq Ids /\ wrc \subseteq Ids /\ wep \in Nat
  /\ rpc \in [Readers -> {"idle", "join", "rejoin", "reconnect", "recv",
                          "pop", "copy", "ack"}]
  /\ connected \in [Readers -> Ids \cup {NoId}]
  /\ cursor \in [Readers -> Nat]
  /\ item \in [Readers -> Nat \cup {NoMsg}]
  /\ synced \in [Readers -> BOOLEAN]

\* The first message a reader has not finished with.
Low(r) == IF rpc[r] \in {"copy", "ack"} THEN cursor[r] - 1 ELSE cursor[r]

\* pop hands a reader in step exactly the message at its cursor: nothing is
\* skipped, repeated or overwritten, however push, connect, disconnect,
\* force_push and the other readers' pops interleave.
InOrder == \A r \in Readers : synced[r] /\ rpc[r] = "ack" => item[r] = cursor[r] - 1

\* push never constructs a message in the slot a reader in step is copying.
NoDataRace == \A r \in Readers :
  synced[r] /\ rpc[r] = "copy" /\ wpc = "fill" => SlotOf(cursor[r] - 1) # SlotOf(wt)

\* Whatever a reader in step has not finished with is still in the ring.
UnreadKept == \A r \in Readers : synced[r] =>
  /\ wt - Low(r) \in 0 .. N
  /\ \A k \in Low(r) .. wt - 1 : data[SlotOf(k)] = k

\* No reader, not even one that was overrun or disconnected by force_push,
\* is handed a message older than its cursor or a slot never filled.
NeverStale == \A r \in Readers : rpc[r] = "ack" => item[r] >= cursor[r] - 1

\* Why: a slot never holds a message older than a published one it is for.
NoneOlder ==
  /\ \A r \in Readers : cursor[r] <= wt
  /\ \A k \in 0 .. wt - 1 : data[SlotOf(k)] >= k

\* As long as send was never driven to force_push, two connected handles do
\* not share an id, so one cannot acknowledge a message for the other.
IdsUnique == epoch = 0 => \A r \in Readers : Live(r) => SoleHolder(r)

\* What keeps a reader in step.
InStep(r) ==
  /\ Live(r) /\ SoleHolder(r) /\ Counted(r)
  /\ rpc[r] \notin {"join", "rejoin", "reconnect"}
  /\ cursor[r] <= wt /\ wt <= Low(r) + N
  /\ \A k \in Low(r) .. wt - 1 :
       connected[r] \in rc[SlotOf(k)] /\ ep[SlotOf(k)] = epoch /\ data[SlotOf(k)] = k
  /\ wpc \in {"fload", "fcheck", "kick", "fcas"} => Low(r) = wt
  /\ wpc \in {"fill", "publish"} => wt < Low(r) + N
  /\ rpc[r] = "ack" => item[r] = cursor[r] - 1

\* What the writer knows of the slot it is about to claim or has claimed.
PushInv ==
  /\ wpc = "cas" => wrc \cap wcc = {} \/ wep # epoch
  /\ wpc \in {"fill", "publish"} => ep[SlotOf(wt)] = epoch
  /\ wpc = "publish" => data[SlotOf(wt)] = wt

\* What holds in the middle of any pop.
PopInv == \A r \in Readers :
  /\ rpc[r] \in {"copy", "ack"} => cursor[r] > 0
  /\ rpc[r] # "ack" => item[r] = NoMsg

\* The inductive invariant behind InOrder, NoDataRace and UnreadKept: the
\* slots of its unread messages carry the bit of a reader in step and the
\* current epoch, so the compare-exchange of push cannot claim one of them.
RouteInv ==
  /\ TypeOK /\ PushInv /\ PopInv
  /\ \A r \in Readers : synced[r] => InStep(r)

\* For its readers in step the ring is a log: messages appended between two
\* of their reads are read in order, each once, and push waits for them.
Log == INSTANCE BroadcastLog WITH
  len  <- wt,
  on   <- synced,
  at   <- [r \in Readers |-> IF synced[r] THEN Low(r) ELSE 0],
  hand <- [r \in Readers |-> IF synced[r] THEN item[r] ELSE NoMsg]

LogSpec == Log!Spec

\* A reader in step that keeps calling recv gets every message published,
\* unless it is disconnected.
Delivered == FairReaders => \A r \in Readers : \A k \in 0 .. MaxPush - 1 :
  (synced[r] /\ wt > k) ~> (cursor[r] > k \/ ~synced[r])

\* send and try_send return, whatever the readers do or fail to do.
SendReturns == FairWriter => ((wpc # "idle") ~> (wpc = "idle"))
=============================================================================
