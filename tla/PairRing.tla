------------------------------ MODULE PairRing ------------------------------
(***************************************************************************)
(* The ring of chan<single, single, unicast>: one writer, one reader, two  *)
(* indices, no reader bits.  A full ring keeps one slot empty.             *)
(*                                                                         *)
(* conn_head_base::cc_ only counts here, and that there is one reader at a *)
(* time is left to an atomic_flag next to it, receiver_checker::flag_.  So *)
(* Readers may have several members: handles that would receive.           *)
(*                                                                         *)
(* wt_ and rd_ are unbounded here and 32 bits wide in the code, which only *)
(* uses their low bits.  The payload of a message is its write index.      *)
(***************************************************************************)
EXTENDS Integers, FiniteSets

CONSTANTS
  N,        \* number of slots (256 in the code)
  Readers,  \* the handles that receive
  CountMod, \* number of values of cc_ (2^32 in the code)
  MaxPush,  \* bound on the messages pushed
  MaxForce, \* bound on the calls of force_push
  MaxPop    \* bound on rd_, which two handles may drive past wt_

ASSUME PairAssumption == N \in Nat \ {0} /\ CountMod \in Nat /\ CountMod > 1
\* Fewer handles than cc_ can count.
ASSUME PairHandles == IsFiniteSet(Readers) /\ Cardinality(Readers) < CountMod
ASSUME PairBounds == MaxPush \in Nat /\ MaxForce \in Nat /\ MaxPop \in Nat

Slots == 0 .. N - 1
NoMsg == -1

VARIABLES
  cc,        \* cc_, the number of connections
  flag,      \* receiver_checker::flag_
  wt, rd,    \* wt_ and rd_
  data,      \* elem_t::data_ of each slot
  wpc,       \* where the writer is
  forced,    \* number of calls of force_push so far
  rpc,       \* where each reader is
  connected, \* connected_ of each reader
  cur,       \* each reader's local cur_rd in pop
  item,      \* the message each reader's pop has copied out
  met        \* auxiliary: two handles have been in pop at the same time

ring   == <<wt, rd, data>>
conns  == <<cc, flag>>
writer == <<wpc, forced>>
reader == <<rpc, connected, cur, item, met>>
pairVars   == <<cc, flag, wt, rd, data, wpc, forced, rpc, connected, cur, item, met>>

SlotOf(k) == k % N

\* conn_head<P, false>::connected: any non-zero id will do.
Live(r) == cc # 0 /\ connected[r] # 0

PairInit ==
  /\ cc = 0 /\ flag = FALSE
  /\ wt = 0 /\ rd = 0
  /\ data = [s \in Slots |-> NoMsg]
  /\ wpc = "idle" /\ forced = 0
  /\ rpc = [r \in Readers |-> "idle"]
  /\ connected = [r \in Readers |-> 0]
  /\ cur = [r \in Readers |-> 0]
  /\ item = [r \in Readers |-> NoMsg]
  /\ met = FALSE

-----------------------------------------------------------------------------
(* The writer. *)

Send ==
  /\ wpc = "idle" /\ wt < MaxPush
  /\ cc # 0
  /\ wpc' = "push"
  /\ UNCHANGED <<conns, ring, forced, reader>>

\* Slip: using the last slot too.
FullAtN == wt - rd = N

\* The slot of wt_ is the one before that of rd_.
Full == SlotOf(wt + 1) = SlotOf(rd)

PushFull ==
  /\ wpc = "push"
  /\ Full
  /\ wpc' = "failed"
  /\ UNCHANGED <<conns, ring, forced, reader>>

PushCheck ==
  /\ wpc = "push"
  /\ ~Full
  /\ wpc' = "fill"
  /\ UNCHANGED <<conns, ring, forced, reader>>

\* Slip: the index moves on before the message is there.
FillLate ==
  /\ wpc = "fill"
  /\ wt' = wt + 1
  /\ wpc' = "publish"
  /\ UNCHANGED <<conns, rd, data, forced, reader>>

Fill ==
  /\ wpc = "fill"
  /\ data' = [data EXCEPT ![SlotOf(wt)] = wt]
  /\ wpc' = "publish"
  /\ UNCHANGED <<conns, wt, rd, forced, reader>>

Publish ==
  /\ wpc = "publish"
  /\ wt' = wt + 1
  /\ wpc' = "idle"
  /\ UNCHANGED <<conns, rd, data, forced, reader>>

\* wait_for tries again, try_send gives up, send turns to force_push.
AfterFailure ==
  /\ wpc = "failed"
  /\ \/ wpc' \in {"push", "idle"} /\ UNCHANGED forced
     \/ wpc' = "kick" /\ forced < MaxForce /\ forced' = forced + 1
  /\ UNCHANGED <<conns, ring, reader>>

\* force_push disconnects whoever is there and returns false.
KickFlag ==
  /\ wpc = "kick"
  /\ flag' = FALSE
  /\ wpc' = "kickall"
  /\ UNCHANGED <<cc, ring, forced, reader>>

KickAll ==
  /\ wpc = "kickall"
  /\ cc' = 0
  /\ wpc' = "idle"
  /\ UNCHANGED <<flag, ring, forced, reader>>

Writing == PushFull \/ PushCheck \/ Fill \/ Publish \/ AfterFailure \/ KickFlag \/ KickAll

-----------------------------------------------------------------------------
(* The readers. *)

Goto(r, pc) == rpc' = [rpc EXCEPT ![r] = pc]

\* Slip: taking the flag without looking at it.
ConnectAnyway(r) ==
  /\ rpc[r] \in {"idle", "reconnect"}
  /\ ~Live(r)
  /\ flag' = TRUE
  /\ Goto(r, IF rpc[r] = "idle" THEN "count" ELSE "recount")
  /\ UNCHANGED <<cc, ring, writer, connected, cur, item, met>>

\* connect, from reconnect and from recv: the flag first.
Connect(r) ==
  /\ rpc[r] \in {"idle", "reconnect"}
  /\ ~Live(r)
  /\ ~flag
  /\ flag' = TRUE
  /\ Goto(r, IF rpc[r] = "idle" THEN "count" ELSE "recount")
  /\ UNCHANGED <<cc, ring, writer, connected, cur, item, met>>

\* Somebody else has the flag: no connection, and recv goes on to pop.
ConnectTaken(r) ==
  /\ rpc[r] \in {"idle", "reconnect"}
  /\ ~Live(r)
  /\ flag
  /\ connected' = [connected EXCEPT ![r] = 0]
  /\ Goto(r, IF rpc[r] = "idle" THEN "idle" ELSE "pop")
  /\ UNCHANGED <<conns, ring, writer, cur, item, met>>

ConnectTwice(r) ==
  /\ rpc[r] = "reconnect"
  /\ Live(r)
  /\ Goto(r, "pop")
  /\ UNCHANGED <<conns, ring, writer, connected, cur, item, met>>

\* Then the count; the new count is the id.
Count(r) ==
  /\ rpc[r] \in {"count", "recount"}
  /\ cc' = (cc + 1) % CountMod
  /\ connected' = [connected EXCEPT ![r] = cc']
  /\ Goto(r, IF rpc[r] = "count" THEN "idle" ELSE "pop")
  /\ UNCHANGED <<flag, ring, writer, cur, item, met>>

\* Slip: the flag, but not the count.
DisconnectUncounted(r) ==
  /\ rpc[r] = "idle"
  /\ Live(r)
  /\ connected' = [connected EXCEPT ![r] = 0]
  /\ flag' = FALSE
  /\ UNCHANGED <<cc, ring, writer, rpc, cur, item, met>>

\* disconnect of a reader that is connected: the flag first, then the count.
Disconnect(r) ==
  /\ rpc[r] = "idle"
  /\ Live(r)
  /\ connected' = [connected EXCEPT ![r] = 0]
  /\ flag' = FALSE
  /\ Goto(r, "uncount")
  /\ UNCHANGED <<cc, ring, writer, cur, item, met>>

\* fetch_sub(1), modulo the width of cc_.
Uncount(r) ==
  /\ rpc[r] = "uncount"
  /\ cc' = (cc + CountMod - 1) % CountMod
  /\ Goto(r, "idle")
  /\ UNCHANGED <<flag, ring, writer, connected, cur, item, met>>

Recv(r) ==
  /\ rpc[r] = "idle"
  /\ Live(r)
  /\ Goto(r, "recv")
  /\ UNCHANGED <<conns, ring, writer, connected, cur, item, met>>

RecvCheck(r) ==
  /\ rpc[r] = "recv"
  /\ Goto(r, IF Live(r) THEN "pop" ELSE "reconnect")
  /\ UNCHANGED <<conns, ring, writer, connected, cur, item, met>>

PopEmpty(r) ==
  /\ rpc[r] = "pop"
  /\ SlotOf(rd) = SlotOf(wt)
  /\ \E next \in {"recv", "idle"} : Goto(r, next)
  /\ UNCHANGED <<conns, ring, writer, connected, cur, item, met>>

\* The handle has taken an element and not yet given its slot back.
InPop(r) == rpc[r] \in {"copy", "release"}

\* pop takes the element at rd_.  Nothing but the flag keeps two handles from
\* doing so at the same time.
Pop(r) ==
  /\ rpc[r] = "pop"
  /\ SlotOf(rd) # SlotOf(wt) /\ rd < MaxPop
  /\ cur' = [cur EXCEPT ![r] = rd]
  /\ met' = (met \/ \E q \in Readers \ {r} : InPop(q))
  /\ Goto(r, "copy")
  /\ UNCHANGED <<conns, ring, writer, connected, item>>

\* Slip: giving the slot back before the message is out of it.
CopyReleases(r) ==
  /\ rpc[r] = "copy"
  /\ item' = [item EXCEPT ![r] = data[SlotOf(cur[r])]]
  /\ rd' = rd + 1
  /\ Goto(r, "release")
  /\ UNCHANGED <<conns, wt, data, writer, connected, cur, met>>

\* The message is moved out of the slot.
Copy(r) ==
  /\ rpc[r] = "copy"
  /\ item' = [item EXCEPT ![r] = data[SlotOf(cur[r])]]
  /\ Goto(r, "release")
  /\ UNCHANGED <<conns, ring, writer, connected, cur, met>>

\* rd_.fetch_add: the slot is the writer's again; recv returns or goes on.
Release(r) ==
  /\ rpc[r] = "release"
  /\ rd' = rd + 1
  /\ item' = [item EXCEPT ![r] = NoMsg]
  /\ \E next \in {"recv", "idle"} : Goto(r, next)
  /\ UNCHANGED <<conns, wt, data, writer, connected, cur, met>>

Reading(r) ==
  \/ Recv(r) \/ RecvCheck(r) \/ ConnectTwice(r) \/ PopEmpty(r)
  \/ Pop(r) \/ Copy(r) \/ Release(r)
Connecting(r) == Connect(r) \/ ConnectTaken(r) \/ Count(r)

-----------------------------------------------------------------------------
PairNext ==
  \/ Send \/ Writing
  \/ \E r \in Readers : Connecting(r) \/ Disconnect(r) \/ Uncount(r) \/ Reading(r)

PairSpec == PairInit /\ [][PairNext]_pairVars

\* The writer finishes what it constructs; readers keep calling recv and end
\* what they have begun.
PairFairness ==
  /\ WF_pairVars(Fill) /\ WF_pairVars(Publish)
  /\ \A r \in Readers :
       WF_pairVars(Reading(r) \/ Uncount(r) \/ (rpc[r] # "idle" /\ Connecting(r)))

-----------------------------------------------------------------------------
(* Properties. *)

\* Types: the connection count keeps to its width.
PairTypeOK ==
  /\ cc \in 0 .. CountMod - 1 /\ flag \in BOOLEAN
  /\ wt \in Nat /\ rd \in Nat
  /\ data \in [Slots -> Nat \cup {NoMsg}]
  /\ wpc \in {"idle", "push", "fill", "publish", "failed", "kick", "kickall"}
  /\ forced \in Nat
  /\ rpc \in [Readers -> {"idle", "count", "recount", "reconnect", "uncount",
                          "recv", "pop", "copy", "release"}]
  /\ connected \in [Readers -> 0 .. CountMod - 1]
  /\ cur \in [Readers -> Nat]
  /\ item \in [Readers -> Nat \cup {NoMsg}]
  /\ met \in BOOLEAN

\* receiver_checker does its work: as long as no reader was thrown out, two
\* handles are never in pop at the same time, whoever connects and leaves; and
\* with nobody connected or about to be, the count is 0, so that send fails
\* for want of a receiver.
OneReader == forced = 0 =>
  /\ \A r, q \in Readers : InPop(r) /\ InPop(q) => r = q
  /\ (\A r \in Readers : rpc[r] = "idle" /\ connected[r] = 0) => cc = 0

\* As long as two handles do not meet in pop, it hands out every message
\* exactly once and in the order of push, disconnections, reconnections and
\* changes of the reader in between included.
InOrder == ~met => \A r \in Readers : rpc[r] = "release" => item[r] = rd

\* push never constructs a message in the slot pop is moving one out of.
NoDataRace == ~met => \A r \in Readers :
  rpc[r] = "copy" /\ wpc = "fill" => SlotOf(cur[r]) # SlotOf(wt)

\* Whatever is between the indices is there, and one slot stays empty.
UnreadKept == ~met =>
  /\ wt - rd \in 0 .. N - 1
  /\ \A k \in rd .. wt - 1 : data[SlotOf(k)] = k

\* The inductive invariant behind the three.
PairInv ==
  /\ PairTypeOK /\ UnreadKept /\ InOrder
  /\ ~met =>
       /\ wpc \in {"fill", "publish"} => wt - rd < N - 1
       /\ wpc = "publish" => data[SlotOf(wt)] = wt
       /\ \A r \in Readers : InPop(r) => cur[r] = rd /\ rd < wt
       /\ \A r, q \in Readers : InPop(r) /\ InPop(q) => r = q

\* Published messages are read.  While the writer pauses, as it does at its
\* bound, a handle that stays connected and keeps calling recv has everything
\* read in the end, whatever the other handles do.
Delivered == \A r \in Readers : (rd < wt /\ Live(r)) ~> (rd >= wt \/ ~Live(r))
=============================================================================
