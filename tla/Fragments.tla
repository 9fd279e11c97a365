----------------------------- MODULE Fragments -----------------------------
(***************************************************************************)
(* Messages in fragments.  When no chunk is left, send cuts a message into *)
(* pieces of data_length bytes and pushes them one by one; each piece      *)
(* carries the message's id and how many bytes remain after it.  recv puts *)
(* the pieces together in recv_cache, a thread_local map from message ids  *)
(* to the buffers that are still being filled.                             *)
(*                                                                         *)
(* One receiving thread, which reads from Channels in turn, each over a    *)
(* connection of its own.  A channel's ring is the queue of the elements   *)
(* that this receiver has not popped.  Every other receiver keeps up.      *)
(***************************************************************************)
EXTENDS Integers, Sequences, FiniteSets

CONSTANTS
  Channels, Senders,
  DataLength,      \* ipc::data_length
  Sizes,           \* the sizes of messages, in bytes
  Capacity,        \* elements of the ring
  MaxMsg,          \* bound on the messages sent on a channel
  MaxLeave,        \* bound on the disconnections
  CacheSize, CacheAge  \* the 1024 and the 8192 of recv's gc

ASSUME FragmentsAssumption ==
  /\ DataLength \in Nat \ {0} /\ Sizes \subseteq Nat \ {0} /\ Capacity \in Nat \ {0}
  /\ {MaxMsg, MaxLeave, CacheSize, CacheAge} \subseteq Nat /\ "none" \notin Channels

VARIABLES
  acc,        \* the message counter of each channel (AC_CONN__)
  queue,      \* per channel, the elements this receiver has to pop
  joined,  \* the channels this receiver is joined to
  out,        \* per sender, the rest of the message it is sending
  rc,         \* recv_cache()
  size,       \* of every message sent, its size
  ret,        \* the buffers recv has returned, oldest first
  left,       \* number of times the receiver was disconnected
  missed      \* auxiliary: the messages it did not see all pieces of

fragVars == <<acc, queue, joined, out, rc, size, ret, left, missed>>

MsgId == 0 .. MaxMsg - 1
Junk == <<>>                      \* a byte of fresh memory
Idle == [chan |-> "none", id |-> 0, offset |-> 0]

\* Byte i of message m, and the message.
Byte(m, i) == <<m, i>>
Whole(m) == [i \in 1 .. size[m] |-> Byte(m, i)]

FragInit ==
  /\ acc = [c \in Channels |-> 0]
  /\ queue = [c \in Channels |-> <<>>]
  /\ joined = Channels
  /\ out = [s \in Senders |-> Idle]
  /\ rc = <<>>
  /\ size = [m \in Channels \X MsgId |-> 0]
  /\ ret = <<>>
  /\ left = 0 /\ missed = {}

-----------------------------------------------------------------------------
(* A sender: send and the pieces it pushes. *)

\* Slip: two messages with one id.
SendSameId(s, c, n) ==
  /\ out[s] = Idle
  /\ acc[c] < MaxMsg
  /\ size' = [size EXCEPT ![<<c, acc[c]>>] = n]
  /\ out' = [out EXCEPT ![s] = [chan |-> c, id |-> acc[c], offset |-> 0]]
  /\ UNCHANGED <<acc, queue, joined, rc, ret, left, missed>>

\* send takes a message id of the channel's counter.
FragSend(s, c, n) ==
  /\ out[s] = Idle
  /\ acc[c] < MaxMsg
  /\ acc' = [acc EXCEPT ![c] = @ + 1]
  /\ size' = [size EXCEPT ![<<c, acc[c]>>] = n]
  /\ out' = [out EXCEPT ![s] = [chan |-> c, id |-> acc[c], offset |-> 0]]
  /\ UNCHANGED <<queue, joined, rc, ret, left, missed>>

\* The piece at the sender's offset: a full one, or what is left of the message.
Piece(s) ==
  LET o == out[s]
      n == size[<<o.chan, o.id>>]
      k == IF n - o.offset < DataLength THEN n - o.offset ELSE DataLength
  IN  [id |-> o.id, remain |-> n - o.offset - DataLength,
       data |-> [i \in 1 .. k |-> Byte(<<o.chan, o.id>>, o.offset + i)]]

\* Slip: send stops before the last piece.
AdvanceShort(s) ==
  out' = [out EXCEPT ![s] =
            IF @.offset + 2 * DataLength >= size[<<@.chan, @.id>>]
              THEN Idle ELSE [@ EXCEPT !.offset = out[s].offset + DataLength]]

\* On to the next piece, if any.
Advance(s) ==
  out' = [out EXCEPT ![s] =
            IF @.offset + DataLength >= size[<<@.chan, @.id>>]
              THEN Idle ELSE [@ EXCEPT !.offset = out[s].offset + DataLength]]

\* The message a sender is sending, and the ones in a channel's queue.
Sending(s) == <<out[s].chan, out[s].id>>
Queued(c) == {<<c, queue[c][k].id>> : k \in DOMAIN queue[c]}

\* try_push of the next piece, once push finds an element that is free.
Push(s) ==
  LET c == out[s].chan IN
  /\ out[s] # Idle
  /\ Len(queue[c]) < Capacity
  /\ IF c \in joined
       THEN queue' = [queue EXCEPT ![c] = Append(@, Piece(s))] /\ UNCHANGED missed
       ELSE missed' = missed \cup {Sending(s)} /\ UNCHANGED queue
  /\ Advance(s)
  /\ UNCHANGED <<acc, joined, rc, size, ret, left>>

\* try_send times out on a piece: the rest is never sent.
GiveUp(s) ==
  LET c == out[s].chan IN
  /\ out[s] # Idle /\ Len(queue[c]) = Capacity
  /\ out' = [out EXCEPT ![s] = Idle]
  /\ missed' = missed \cup {Sending(s)}
  /\ UNCHANGED <<acc, queue, joined, rc, size, ret, left>>

\* force_push throws this receiver out and goes on for the others.
ForcePush(s) ==
  LET c == out[s].chan IN
  /\ out[s] # Idle /\ Len(queue[c]) = Capacity
  /\ left < MaxLeave /\ left' = left + 1
  /\ joined' = joined \ {c}
  /\ queue' = [queue EXCEPT ![c] = <<>>]
  /\ missed' = missed \cup Queued(c) \cup {Sending(s)}
  /\ Advance(s)
  /\ UNCHANGED <<acc, rc, size, ret>>

-----------------------------------------------------------------------------
(* The receiver. *)

\* connect, and the reconnect in recv after force_push.
FragConnect(c) ==
  /\ c \notin joined
  /\ joined' = joined \cup {c}
  /\ UNCHANGED <<acc, queue, out, rc, size, ret, left, missed>>

\* disconnect_receiver clears the cache, for all channels.
FragDisconnect(c) ==
  /\ c \in joined
  /\ left < MaxLeave /\ left' = left + 1
  /\ joined' = joined \ {c}
  /\ queue' = [queue EXCEPT ![c] = <<>>]
  /\ rc' = <<>>
  /\ missed' = missed \cup Queued(c) \cup {<<c, i>> : i \in DOMAIN rc}
  /\ UNCHANGED <<acc, out, size, ret>>

\* make_cache: a buffer of n bytes that starts with data.
MakeCache(data, n) ==
  [i \in 1 .. n |-> IF i <= Len(data) THEN data[i] ELSE Junk]

\* Slip: every piece goes to the start.
AppendAtStart(cache, data, n) ==
  LET fill == IF cache.fill + n < Len(cache.buff) THEN cache.fill + n ELSE Len(cache.buff)
  IN  [fill |-> fill,
       buff |-> [i \in 1 .. Len(cache.buff) |->
                   IF i <= n /\ i <= Len(data) THEN data[i] ELSE cache.buff[i]]]

\* cache_t::append, with what it does when the buffer is full.
AppendTo(cache, data, n) ==
  LET size_ == Len(cache.buff)
      fill  == IF cache.fill + n < size_ THEN cache.fill + n ELSE size_
  IN  IF cache.fill >= size_ THEN cache
      ELSE [fill |-> fill,
            buff |-> [i \in 1 .. size_ |->
                        IF i \in cache.fill + 1 .. fill /\ i - cache.fill <= Len(data)
                          THEN data[i - cache.fill] ELSE cache.buff[i]]]

Distance(i, j) == IF i < j THEN j - i ELSE i - j

\* Slip: the gc never finds anything.
GcNothing(id) == DOMAIN rc

\* What the gc leaves: with too many entries, those not too far from id.
Gc(id) ==
  IF Cardinality(DOMAIN rc) > CacheSize
    THEN {i \in DOMAIN rc : Distance(i, id) <= CacheAge}
    ELSE DOMAIN rc

Return(c, id, buff) == ret' = Append(ret, [chan |-> c, id |-> id, buff |-> buff])

\* The cache with the entries of ids, and one for id.
CacheWith(ids, id, entry) ==
  [i \in ids \cup {id} |-> IF i = id THEN entry ELSE rc[i]]

\* A message of one piece.
RecvShort(c, m) ==
  /\ m.id \notin DOMAIN rc /\ m.remain <= 0
  /\ Return(c, m.id, MakeCache(m.data, DataLength + m.remain))
  /\ UNCHANGED <<rc, missed>>

\* "cache the first message fragment"
RecvFirst(c, m) ==
  /\ m.id \notin DOMAIN rc /\ m.remain > 0
  /\ rc' = CacheWith(Gc(m.id), m.id,
             [fill |-> DataLength, buff |-> MakeCache(m.data, DataLength + m.remain)])
  /\ missed' = missed \cup {<<c, i>> : i \in DOMAIN rc \ Gc(m.id)}
  /\ UNCHANGED ret

\* A piece from the middle.
RecvMiddle(c, m) ==
  /\ m.id \in DOMAIN rc /\ m.remain > 0
  /\ rc' = [rc EXCEPT ![m.id] = AppendTo(@, m.data, DataLength)]
  /\ UNCHANGED <<ret, missed>>

\* "this is the last message fragment"
RecvLast(c, m) ==
  /\ m.id \in DOMAIN rc /\ m.remain <= 0
  /\ Return(c, m.id, AppendTo(rc[m.id], m.data, DataLength + m.remain).buff)
  /\ rc' = [i \in DOMAIN rc \ {m.id} |-> rc[i]]
  /\ UNCHANGED missed

\* One turn of recv's loop; between two turns recv may time out and be called
\* for another channel.
FragRecv(c) ==
  /\ c \in joined /\ queue[c] # <<>>
  /\ queue' = [queue EXCEPT ![c] = Tail(@)]
  /\ LET m == Head(queue[c]) IN
       \/ RecvShort(c, m)
       \/ RecvFirst(c, m)
       \/ RecvMiddle(c, m)
       \/ RecvLast(c, m)
  /\ UNCHANGED <<acc, joined, out, size, left>>

-----------------------------------------------------------------------------
FragWriting(s) ==
  \/ \E c \in Channels, n \in Sizes : FragSend(s, c, n)
  \/ Push(s) \/ GiveUp(s) \/ ForcePush(s)

FragNext ==
  \/ \E s \in Senders : FragWriting(s)
  \/ \E c \in Channels : FragConnect(c) \/ FragDisconnect(c) \/ FragRecv(c)

FragSpec == FragInit /\ [][FragNext]_fragVars

\* A sender that has begun goes on, and the receiver keeps receiving.
FragFairness ==
  /\ \A s \in Senders : WF_fragVars(Push(s))
  /\ \A c \in Channels : WF_fragVars(FragRecv(c))

-----------------------------------------------------------------------------
(* Properties. *)

\* What recv returns is a message that was sent on the channel: all of it,
\* from its first byte to its last, and nothing else; unless the receiver
\* missed a piece, by being disconnected or by a gc that came too early.
\* And no message is returned twice.
Reassembled ==
  /\ \A k \in DOMAIN ret : LET m == <<ret[k].chan, ret[k].id>> IN
       m \notin missed => ret[k].buff = Whole(m)
  /\ \A j, k \in DOMAIN ret :
       ret[j].chan = ret[k].chan /\ ret[j].id = ret[k].id => j = k

\* With every sender done and every piece popped, no half-filled buffer stays
\* but those of messages that were given up or missed.  And of these the gc keeps
\* few: at most CacheSize + 1 entries are more than CacheAge away from another,
\* so that there are never more than CacheSize + CacheAge + 2.
CacheDrains ==
  /\ (\A s \in Senders : out[s] = Idle) /\ (\A c \in Channels : queue[c] = <<>>)
       => \A i \in DOMAIN rc : \E c \in Channels : <<c, i>> \in missed
  /\ Cardinality({i \in DOMAIN rc : \E j \in DOMAIN rc : Distance(i, j) > CacheAge}) <= CacheSize + 1

\* Every message that is sent is returned, unless a piece of it was missed:
\* again and again, at the latest when the senders pause, nothing is pending.
Arrives == \A c \in Channels : []<>(\A i \in 0 .. acc[c] - 1 :
  <<c, i>> \in missed \/ \E k \in DOMAIN ret : ret[k].chan = c /\ ret[k].id = i)
=============================================================================
