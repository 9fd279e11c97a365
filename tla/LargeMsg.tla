------------------------------ MODULE LargeMsg ------------------------------
(***************************************************************************)
(* Large messages.  send puts the payload in a chunk of shared memory,     *)
(* together with the set conns of the receivers that are to release it,    *)
(* and pushes the chunk's id through the ring; recv returns a buffer that  *)
(* is the chunk itself.  Destroying the buffer takes the receiver out of   *)
(* conns, and whoever empties conns gives the chunk back to the id_pool.   *)
(* force_push gives back the chunk of the element it overwrites.           *)
(*                                                                         *)
(* push, pop and force_push of the ring are single steps here; RouteRing   *)
(* and ChannelRing take them apart.  A receiver's connection bit is the    *)
(* receiver itself.                                                        *)
(***************************************************************************)
EXTENDS Naturals, FiniteSets

CONSTANTS
  N,         \* number of ring slots
  Chunks,    \* number of chunks in the pool (large_msg_cache)
  Senders,   \* endpoints that send
  Readers,   \* endpoints that receive; a channel's endpoint may do both
  MaxSend,   \* bound on the messages sent
  MaxForce,  \* bound on the calls of force_push
  MaxLeave   \* bound on the disconnections

ASSUME LargeAssumption ==
  N \in Nat \ {0} /\ {Chunks, MaxSend, MaxForce, MaxLeave} \subseteq Nat

Ids == 0 .. Chunks - 1
None == Chunks       \* the end of the free list
NoElem == [id |-> None, msg |-> 0, from |-> None, bits |-> {}, ep |-> 0]

VARIABLES
  next, first,       \* id_pool::next_ and cursor_: the free list
  conns, content,    \* of each chunk: conns() and the message in data()
  cc,                \* the connected receivers
  elem, wt, epoch,   \* the ring's elements, write index and epoch
  sent,              \* number of messages sent
  spc, sconns, sid, smsg,  \* of each sender: where it is, and its locals
  cursor,            \* each receiver's cursor
  buf,               \* the buffer each receiver holds: [id, msg, mask] or NoBuf
  rpc,
  left,              \* number of disconnections
  calm, whole        \* auxiliary, see Connect and Disconnect

pool   == <<next, first>>
chunk  == <<conns, content>>
ring   == <<cc, elem, wt, epoch>>
sender == <<sent, spc, sconns, sid, smsg>>
reader == <<cursor, buf, rpc, left>>
aux    == <<calm, whole>>
largeVars   == <<pool, chunk, ring, sender, reader, aux>>

NoBuf == [id |-> None, msg |-> 0, mask |-> {}]
SlotOf(k) == k % N

\* The pool as id_pool::init leaves it.
LargeInit ==
  /\ next = [i \in Ids |-> i + 1] /\ first = 0
  /\ conns = [i \in Ids |-> {}] /\ content = [i \in Ids |-> 0]
  /\ cc = {}
  /\ elem = [s \in 0 .. N - 1 |-> NoElem] /\ wt = 0 /\ epoch = 0
  /\ sent = 0
  /\ spc = [s \in Senders |-> "idle"] /\ sconns = [s \in Senders |-> {}]
  /\ sid = [s \in Senders |-> None] /\ smsg = [s \in Senders |-> 0]
  /\ cursor = [r \in Readers |-> 0]
  /\ buf = [r \in Readers |-> NoBuf]
  /\ rpc = [r \in Readers |-> "idle"]
  /\ left = 0
  /\ calm = TRUE /\ whole = TRUE

\* Slip: linking to the element after the head, as init does.
GiveBackPast(i) ==
  /\ next' = [next EXCEPT ![i] = first + 1]
  /\ first' = i

\* id_pool::release, under the spin lock of chunk_info_t.
GiveBack(i) ==
  /\ next' = [next EXCEPT ![i] = first]
  /\ first' = i

-----------------------------------------------------------------------------
(* A sender. *)

Goto(s, from, to) == spc[s] = from /\ spc' = [spc EXCEPT ![s] = to]

\* send reads the connections and numbers the message.
Send(s) ==
  /\ Goto(s, "idle", "acquire")
  /\ sent < MaxSend
  /\ cc # {}
  /\ sent' = sent + 1
  /\ smsg' = [smsg EXCEPT ![s] = sent']
  /\ sconns' = [sconns EXCEPT ![s] = cc]
  /\ whole' = (whole /\ s \notin cc)
  /\ UNCHANGED <<pool, chunk, ring, sid, reader, calm>>

\* Slip: forgetting to take the id off the list.
AcquireStorageLeaves(s) ==
  /\ Goto(s, "acquire", "fill")
  /\ first # None
  /\ sid' = [sid EXCEPT ![s] = first]
  /\ UNCHANGED <<pool, chunk, ring, sent, sconns, smsg, reader, aux>>

\* acquire_storage, the id: the head of the free list, under the spin lock.
AcquireStorage(s) ==
  /\ Goto(s, "acquire", "fill")
  /\ first # None
  /\ sid' = [sid EXCEPT ![s] = first]
  /\ first' = next[first]
  /\ UNCHANGED <<next, chunk, ring, sent, sconns, smsg, reader, aux>>

\* No chunk left: send falls back on fragments, and the element carries no id.
PoolEmpty(s) ==
  /\ Goto(s, "acquire", "push")
  /\ first = None
  /\ UNCHANGED <<pool, chunk, ring, sent, sconns, sid, smsg, reader, aux>>

\* The chunk gets its receivers and its contents.
FillChunk(s) ==
  /\ Goto(s, "fill", "push")
  /\ conns' = [conns EXCEPT ![sid[s]] = sconns[s]]
  /\ content' = [content EXCEPT ![sid[s]] = smsg[s]]
  /\ UNCHANGED <<pool, ring, sent, sconns, sid, smsg, reader, aux>>

\* Receivers still to read the element at wt_, as far as push cares: after a
\* force_push it ignores the bits of older elements.
Unfinished == LET e == elem[SlotOf(wt)] IN e.bits \cap cc # {} /\ e.ep = epoch

\* The element that carries the id, for the receivers connected now.
Place(s, bits, e) ==
  /\ elem' = [elem EXCEPT ![SlotOf(wt)] =
                [id |-> sid[s], msg |-> smsg[s], from |-> s, bits |-> bits,
                 ep |-> e]]
  /\ wt' = wt + 1

\* send returns, and its locals are gone.
Finish(s) ==
  /\ sid' = [sid EXCEPT ![s] = None]
  /\ sconns' = [sconns EXCEPT ![s] = {}]
  /\ smsg' = [smsg EXCEPT ![s] = 0]

\* push finds the element free of connected receivers.
Push(s) ==
  /\ Goto(s, "push", "idle")
  /\ cc # {} /\ ~Unfinished
  /\ Place(s, cc, epoch)
  /\ Finish(s)
  /\ UNCHANGED <<pool, chunk, cc, epoch, sent, reader, aux>>

\* push fails until wait_for runs out of time.
TimeOut(s) ==
  /\ Goto(s, "push", "late")
  /\ cc = {} \/ Unfinished
  /\ UNCHANGED <<pool, chunk, ring, sent, sconns, sid, smsg, reader, aux>>

\* try_send returns false, and nobody gives its chunk back.
TrySendFails(s) ==
  /\ Goto(s, "late", "idle")
  /\ Finish(s)
  /\ whole' = (whole /\ sid[s] = None)
  /\ UNCHANGED <<pool, chunk, ring, sent, reader, calm>>

\* send goes on to force_push.  It starts an epoch and disconnects whoever
\* has not read the element by now; clear_message gives the chunk of the old
\* element back.
ForcePush(s) ==
  LET old == elem[SlotOf(wt)] IN
  /\ epoch < MaxForce
  /\ Goto(s, "late", "idle")
  /\ epoch' = epoch + 1
  /\ cc' = cc \ old.bits
  /\ IF cc' = {}
       THEN UNCHANGED <<pool, elem, wt>>
       ELSE /\ IF old.id = None THEN UNCHANGED pool ELSE GiveBack(old.id)
            /\ Place(s, cc', epoch')
  /\ Finish(s)
  /\ calm' = FALSE /\ whole' = FALSE
  /\ UNCHANGED <<chunk, sent, reader>>

Sending(s) == \/ Send(s) \/ AcquireStorage(s) \/ PoolEmpty(s) \/ FillChunk(s)
              \/ Push(s) \/ TimeOut(s) \/ TrySendFails(s) \/ ForcePush(s)

-----------------------------------------------------------------------------
(* A receiver. *)

\* A sender is between its load of the connections and the end of push.
MidSend == \E s \in Senders : spc[s] # "idle"

\* The chunk of a message whose sender has read the connections already does
\* not count the newcomer, which gets the message all the same: from here on
\* two owners may part with one chunk.
Connect(r) ==
  /\ rpc[r] = "idle" /\ r \notin cc
  /\ cc' = cc \cup {r}
  /\ cursor' = [cursor EXCEPT ![r] = wt]
  /\ calm' = (calm /\ ~MidSend)
  /\ UNCHANGED <<pool, chunk, elem, wt, epoch, sender, buf, rpc, left, whole>>

\* The positions a receiver has still to read.
Unread(r) == {k \in cursor[r] .. wt - 1 : r \in cc /\ r \in elem[SlotOf(k)].bits}

\* Others may release the chunk of a receiver that leaves with a buffer in
\* its hands; what is on its way to a receiver that leaves is lost.
Disconnect(r) ==
  /\ rpc[r] = "idle" /\ r \in cc
  /\ left < MaxLeave
  /\ left' = left + 1
  /\ cc' = cc \ {r}
  /\ calm' = (calm /\ buf[r] = NoBuf)
  /\ whole' = (whole /\ Unread(r) = {} /\ ~MidSend)
  /\ UNCHANGED <<pool, chunk, elem, wt, epoch, sender, cursor, buf, rpc>>

\* recv pops an element: what the buffer's destructor will need is noted now.
Pop(r) ==
  /\ rpc[r] = "idle" /\ r \in cc
  /\ cursor[r] # wt
  /\ buf[r] = NoBuf
  /\ elem' = [elem EXCEPT ![SlotOf(cursor[r])].bits = @ \ {r}]
  /\ cursor' = [cursor EXCEPT ![r] = @ + 1]
  /\ UNCHANGED <<pool, chunk, cc, wt, epoch, sender, rpc, left, aux>>

Popped(r) == elem[SlotOf(cursor[r])]

\* A chunk's id: find_storage.
RecvChunk(r) ==
  /\ Popped(r).id # None /\ Popped(r).from # r
  /\ Pop(r)
  /\ buf' = [buf EXCEPT ![r] =
               [id |-> Popped(r).id, msg |-> Popped(r).msg, mask |-> cc \ {r}]]

\* A fragment, copied out; or "ignore message to self".
RecvOther(r) ==
  /\ Popped(r).id = None \/ Popped(r).from = r
  /\ Pop(r)
  /\ UNCHANGED buf

\* Slip: releasing whatever the others do.
SubRcAlways(r) ==
  LET i == buf[r].id IN
  /\ rpc[r] = "idle" /\ buf[r] # NoBuf
  /\ conns' = [conns EXCEPT ![i] = @ \cap buf[r].mask]
  /\ rpc' = [rpc EXCEPT ![r] = "release"]
  /\ UNCHANGED <<pool, content, ring, sender, cursor, buf, left, aux>>

\* The buffer is destroyed: recycle_storage, sub_rc with the receivers that
\* were connected at recv, but this one.
SubRc(r) ==
  LET i == buf[r].id IN
  /\ rpc[r] = "idle" /\ buf[r] # NoBuf
  /\ conns' = [conns EXCEPT ![i] = @ \cap buf[r].mask]
  /\ IF conns'[i] = {}
       THEN rpc' = [rpc EXCEPT ![r] = "release"] /\ UNCHANGED buf
       ELSE buf' = [buf EXCEPT ![r] = NoBuf] /\ UNCHANGED rpc
  /\ UNCHANGED <<pool, content, ring, sender, cursor, left, aux>>

\* Slip: never giving the chunk back.
RecycleForgets(r) ==
  /\ rpc[r] = "release"
  /\ rpc' = [rpc EXCEPT ![r] = "idle"]
  /\ buf' = [buf EXCEPT ![r] = NoBuf]
  /\ UNCHANGED <<pool, chunk, ring, sender, cursor, left, aux>>

\* The last one gives the chunk back.
Recycle(r) ==
  /\ rpc[r] = "release"
  /\ GiveBack(buf[r].id)
  /\ rpc' = [rpc EXCEPT ![r] = "idle"]
  /\ buf' = [buf EXCEPT ![r] = NoBuf]
  /\ UNCHANGED <<chunk, ring, sender, cursor, left, aux>>

Receiving(r) == Connect(r) \/ Disconnect(r) \/ RecvChunk(r) \/ RecvOther(r) \/ SubRc(r) \/ Recycle(r)

LargeNext == (\E s \in Senders : Sending(s)) \/ (\E r \in Readers : Receiving(r))

LargeSpec == LargeInit /\ [][LargeNext]_largeVars

-----------------------------------------------------------------------------
(* Properties. *)

\* The ids on the free list, as far as it goes.
Free == LET reach[k \in 0 .. Chunks] ==
              IF k = 0 THEN {first}
              ELSE reach[k - 1] \cup {next[i] : i \in reach[k - 1] \ {None}}
        IN  reach[Chunks] \ {None}

\* The chunks that somebody still has to read or is reading or writing.
Used ==
  ({sid[s] : s \in Senders} \cup {buf[r].id : r \in Readers}
    \cup UNION {{elem[SlotOf(k)].id : k \in Unread(r)} : r \in Readers}) \ {None}

\* "got an unique id" and gives it back.  A chunk that is being written, is on its way to a
\* connected receiver or is in a receiver's buffer is not on the free list,
\* so acquire_storage does not hand it out again.  True until a receiver
\* connects in the middle of a send or leaves with a buffer in its hands, or
\* send turns to force_push.  And every chunk comes back: with nothing on its
\* way the pool is whole, unless a try_send gave up, a receiver sent or left
\* with messages to come, or one of the above.
NoLeak == calm =>
  /\ Free \cap Used = {}
  /\ whole /\ Used = {} => Cardinality(Free) = Chunks

\* Until then, what recv returned does not change under its owner's hands,
\* and is what the sender sent.
BufferStable == \A r \in Readers :
  calm /\ buf[r] # NoBuf /\ rpc[r] = "idle" => content[buf[r].id] = buf[r].msg
=============================================================================
