----------------------------- MODULE ChannelRing -----------------------------
(***************************************************************************)
(* The ring of ipc::channel, prod_cons_impl<wr<multi, multi, broadcast>>:  *)
(* many producers, many readers, every message for every reader.           *)
(*                                                                         *)
(* A producer claims the slot of the commit index ct_ with a               *)
(* compare-exchange on the slot's word rc_ (reader bits, epoch and a       *)
(* counter against ABA), moves ct_ on, fills the slot and sets its commit  *)
(* flag f_ct_; the last reader of the slot sets the flag for the next      *)
(* round.  Every load, store and exchange of push, force_push and pop is a *)
(* step of its own.                                                        *)
(*                                                                         *)
(* Indices are taken modulo Wrap (2^32 in the code), flags are not: they   *)
(* are 64 bits wide.  ~c is -c-1.  The payload of a message is its         *)
(* position.                                                               *)
(***************************************************************************)
EXTENDS Integers, Functions

CONSTANTS
  N,          \* number of slots (256 in the code)
  Wrap,       \* number of values of an index
  Producers, Readers,
  MaxConn,    \* number of connection bits (32 in the code)
  MaxPush,    \* bound on the messages sent, all producers together
  MaxEpoch,   \* bound on the epochs started by force_push
  Spurious,   \* whether a weak compare-exchange may fail for no reason
  Churn       \* whether readers come and go

ASSUME RingAssumption ==
  N \in Nat \ {0} /\ Wrap \in Nat \ {0} /\ Wrap % N = 0
ASSUME ChannelBounds ==
  /\ MaxConn \in Nat /\ MaxPush \in Nat /\ MaxEpoch \in Nat
  /\ Spurious \in BOOLEAN /\ Churn \in BOOLEAN

Slots == 0 .. N - 1
Ids   == 0 .. MaxConn - 1
NoId  == -1
NoMsg == -1

\* The value of rc_: bits of the readers to come, epoch, counter.
Word(bits, e, i) == [cc |-> bits, ep |-> e, ic |-> i]
NoWord == Word({}, 0, 0)

VARIABLES
  cc,       \* cc_, the connected ids
  ct,       \* ct_, the commit index
  epoch,    \* epoch_
  data,     \* elem_t::data_ of each slot
  rc,       \* elem_t::rc_
  fl,       \* elem_t::f_ct_, the commit flag
  ppc,      \* where each producer is
  inForce,  \* whether its push was called by force_push
  pep, pcc, pct, prc, \* its locals epoch, cc, cur_ct and cur_rc
  sent,     \* messages each producer has sent or given up
  rpc,      \* where each reader is
  connected, cursor, item,  \* as in queue_base
  rrc       \* each reader's local cur_rc

ring     == <<cc, ct, epoch, data, rc, fl>>
producer == <<ppc, inForce, pep, pcc, pct, prc, sent>>
reader   == <<rpc, connected, cursor, item, rrc>>
vars     == <<ring, producer, reader>>

SlotOf(k)  == k % N
Succ(k)    == (k + 1) % Wrap
Commit(k)  == -k - 1               \* ~static_cast<flag_t>(k)
Live(r)    == connected[r] \in cc

\* Without churn, all readers connected before the first message.
Init ==
  /\ \E ids \in IF Churn THEN {[r \in Readers |-> NoId]}
                ELSE {f \in [Readers -> Ids] : \A r, q \in Readers : f[r] = f[q] => r = q} :
       connected = ids /\ cc = {ids[r] : r \in Readers} \ {NoId}
  /\ ct = 0 /\ epoch = 0
  /\ data = [s \in Slots |-> NoMsg]
  /\ rc = [s \in Slots |-> NoWord]
  /\ fl = [s \in Slots |-> 0]
  /\ ppc = [p \in Producers |-> "idle"]
  /\ inForce = [p \in Producers |-> FALSE]
  /\ pep = [p \in Producers |-> 0] /\ pcc = [p \in Producers |-> {}]
  /\ pct = [p \in Producers |-> 0] /\ prc = [p \in Producers |-> NoWord]
  /\ sent = [p \in Producers |-> 0]
  /\ rpc = [r \in Readers |-> "idle"]
  /\ cursor = [r \in Readers |-> 0]
  /\ item = [r \in Readers |-> NoMsg]
  /\ rrc = [r \in Readers |-> NoWord]

-----------------------------------------------------------------------------
(* A producer: push. *)

Goto(p, pc) == ppc' = [ppc EXCEPT ![p] = pc]

\* The locals of push and force_push go out of scope.
Return(p, pc) ==
  /\ Goto(p, pc)
  /\ inForce' = [inForce EXCEPT ![p] = FALSE]
  /\ pep' = [pep EXCEPT ![p] = 0] /\ pcc' = [pcc EXCEPT ![p] = {}]
  /\ pct' = [pct EXCEPT ![p] = 0] /\ prc' = [prc EXCEPT ![p] = NoWord]

\* push returns false: to wait_for, or to the force_push that called it.
PushFails(p) == IF inForce[p] THEN Return(p, "force") ELSE Return(p, "failed")

\* send goes on only if somebody is connected.
Send(p) ==
  /\ ppc[p] = "idle" /\ SumFunction(sent) < MaxPush
  /\ cc # {}
  /\ sent' = [sent EXCEPT ![p] = @ + 1]
  /\ Goto(p, "push")
  /\ UNCHANGED <<ring, inForce, pep, pcc, pct, prc, reader>>

LoadEpoch(p) ==
  /\ ppc[p] = "push"
  /\ pep' = [pep EXCEPT ![p] = epoch]
  /\ Goto(p, "conns")
  /\ UNCHANGED <<ring, inForce, pcc, pct, prc, sent, reader>>

\* No reader: push fails, force_push (and send) returns false.
LoadConns(p) ==
  /\ ppc[p] \in {"conns", "fconns"}
  /\ IF cc # {}
       THEN /\ pcc' = [pcc EXCEPT ![p] = cc]
            /\ Goto(p, IF ppc[p] = "conns" THEN "index" ELSE "findex")
            /\ UNCHANGED <<inForce, pep, pct, prc>>
       ELSE IF ppc[p] = "conns" THEN PushFails(p) ELSE Return(p, "idle")
  /\ UNCHANGED <<ring, sent, reader>>

LoadIndex(p) ==
  /\ ppc[p] \in {"index", "findex"}
  /\ pct' = [pct EXCEPT ![p] = ct]
  /\ Goto(p, IF ppc[p] = "index" THEN "rc" ELSE "frc")
  /\ UNCHANGED <<ring, inForce, pep, pcc, prc, sent, reader>>

\* Slip: waiting only while nobody has finished yet.
UnfinishedIfAll(p) == LET w == rc[SlotOf(pct[p])] IN pcc[p] \subseteq w.cc /\ w.ep = pep[p]

\* Readers of the connections just loaded have not finished with the slot.
Unfinished(p) == LET w == rc[SlotOf(pct[p])] IN pcc[p] \cap w.cc # {} /\ w.ep = pep[p]

LoadRcFails(p) ==
  /\ ppc[p] = "rc"
  /\ Unfinished(p)
  /\ PushFails(p)
  /\ UNCHANGED <<ring, sent, reader>>

LoadRc(p) ==
  LET w == rc[SlotOf(pct[p])] IN
  /\ ppc[p] = "rc"
  /\ ~Unfinished(p)
  /\ prc' = [prc EXCEPT ![p] = w]
  /\ Goto(p, IF w.cc = {} THEN "flag" ELSE "cas")
  /\ UNCHANGED <<ring, inForce, pep, pcc, pct, sent, reader>>

\* The slot is free when its flag names this very position, or is new.
LoadFlag(p) ==
  LET f == fl[SlotOf(pct[p])] IN
  /\ ppc[p] = "flag"
  /\ IF f # pct[p] /\ f # 0
       THEN PushFails(p)
       ELSE Goto(p, "cas") /\ UNCHANGED <<inForce, pep, pcc, pct, prc>>
  /\ UNCHANGED <<ring, sent, reader>>

\* Slips: a store in place of the exchange; a counter that runs over into
\* the epoch.
ClaimByStore(p) ==
  LET s == SlotOf(pct[p]) IN
  /\ ppc[p] \in {"cas", "fcas"}
  /\ rc' = [rc EXCEPT ![s] = Word(pcc[p], pep[p], @.ic + 1)]
  /\ Goto(p, IF ppc[p] = "cas" THEN "epoch" ELSE "fepoch")
  /\ UNCHANGED <<cc, ct, epoch, data, fl, inForce, pep, pcc, pct, prc, sent, reader>>

ClaimCarries(p) ==
  LET s == SlotOf(pct[p]) IN
  /\ ppc[p] \in {"cas", "fcas"}
  /\ rc[s] = prc[p]
  /\ rc' = [rc EXCEPT ![s] = Word(pcc[p], pep[p] + 1, @.ic + 1)]
  /\ Goto(p, IF ppc[p] = "cas" THEN "epoch" ELSE "fepoch")
  /\ UNCHANGED <<cc, ct, epoch, data, fl, inForce, pep, pcc, pct, prc, sent, reader>>

\* The compare-exchange on rc_: new epoch, new readers, counter plus one.
Claim(p) ==
  LET s == SlotOf(pct[p]) IN
  /\ ppc[p] \in {"cas", "fcas"}
  /\ rc[s] = prc[p]
  /\ rc' = [rc EXCEPT ![s] = Word(pcc[p], pep[p], @.ic + 1)]
  /\ Goto(p, IF ppc[p] = "cas" THEN "epoch" ELSE "fepoch")
  /\ UNCHANGED <<cc, ct, epoch, data, fl, inForce, pep, pcc, pct, prc, sent, reader>>

ClaimFails(p) ==
  /\ ppc[p] \in {"cas", "fcas"}
  /\ rc[SlotOf(pct[p])] # prc[p] \/ Spurious
  /\ Goto(p, IF ppc[p] = "cas" THEN "conns" ELSE "fconns")
  /\ UNCHANGED <<ring, inForce, pep, pcc, pct, prc, sent, reader>>

\* push checks with a second compare-exchange that no force_push came between.
SameEpoch(p) ==
  /\ ppc[p] \in {"epoch", "fepoch"}
  /\ epoch = pep[p]
  /\ Goto(p, "store")
  /\ UNCHANGED <<ring, inForce, pep, pcc, pct, prc, sent, reader>>

\* If one did, push starts over with the new epoch.
OtherEpoch(p) ==
  /\ ppc[p] = "epoch"
  /\ epoch # pep[p] \/ Spurious
  /\ pep' = [pep EXCEPT ![p] = epoch]
  /\ Goto(p, "conns")
  /\ UNCHANGED <<ring, inForce, pcc, pct, prc, sent, reader>>

\* The index moves on before the message is there.
StoreIndex(p) ==
  /\ ppc[p] = "store"
  /\ ct' = Succ(pct[p])
  /\ Goto(p, "fill")
  /\ UNCHANGED <<cc, epoch, data, rc, fl, inForce, pep, pcc, pct, prc, sent, reader>>

Fill(p) ==
  /\ ppc[p] = "fill"
  /\ data' = [data EXCEPT ![SlotOf(pct[p])] = pct[p]]
  /\ Goto(p, "commit")
  /\ UNCHANGED <<cc, ct, epoch, rc, fl, inForce, pep, pcc, pct, prc, sent, reader>>

\* The message is visible and push returns true.
StoreFlag(p) ==
  /\ ppc[p] = "commit"
  /\ fl' = [fl EXCEPT ![SlotOf(pct[p])] = Commit(pct[p])]
  /\ Return(p, "idle")
  /\ UNCHANGED <<cc, ct, epoch, data, rc, sent, reader>>

\* wait_for tries again, try_send gives up, send turns to force_push.
AfterFailure(p) ==
  /\ ppc[p] = "failed"
  /\ \E next \in {"push", "idle"} \cup (IF epoch < MaxEpoch THEN {"force"} ELSE {}) :
       Goto(p, next)
  /\ UNCHANGED <<ring, inForce, pep, pcc, pct, prc, sent, reader>>

-----------------------------------------------------------------------------
(* A producer: force_push. *)

ForceBegin(p) ==
  /\ ppc[p] = "force" /\ epoch < MaxEpoch
  /\ epoch' = epoch + 1
  /\ pep' = [pep EXCEPT ![p] = epoch + 1]
  /\ Goto(p, "fconns")
  /\ UNCHANGED <<cc, ct, data, rc, fl, inForce, pcc, pct, prc, sent, reader>>

ForceLoadRc(p) ==
  LET w == rc[SlotOf(pct[p])] IN
  /\ ppc[p] = "frc"
  /\ prc' = [prc EXCEPT ![p] = w]
  /\ Goto(p, IF pcc[p] \cap w.cc # {} THEN "kick" ELSE "fcas")
  /\ UNCHANGED <<ring, inForce, pep, pcc, pct, sent, reader>>

\* Disconnect everybody who has not finished with the slot.
Kick(p) ==
  /\ ppc[p] = "kick"
  /\ cc' = cc \ prc[p].cc
  /\ IF cc' # {}
       THEN /\ pcc' = [pcc EXCEPT ![p] = cc'] /\ Goto(p, "fcas")
            /\ UNCHANGED <<inForce, pep, pct, prc>>
       ELSE Return(p, "idle")
  /\ UNCHANGED <<ct, epoch, data, rc, fl, sent, reader>>

\* Another force_push came between: fall back on push.
ForceAgain(p) ==
  /\ ppc[p] = "fepoch"
  /\ epoch # pep[p]
  /\ inForce' = [inForce EXCEPT ![p] = TRUE]
  /\ Goto(p, "push")
  /\ UNCHANGED <<ring, pep, pcc, pct, prc, sent, reader>>

Pushing(p) ==
  \/ LoadEpoch(p) \/ LoadConns(p) \/ LoadIndex(p) \/ LoadRcFails(p) \/ LoadRc(p)
  \/ LoadFlag(p) \/ Claim(p) \/ ClaimFails(p) \/ SameEpoch(p) \/ OtherEpoch(p)
  \/ StoreIndex(p) \/ Fill(p) \/ StoreFlag(p)
Forcing(p) == ForceBegin(p) \/ ForceLoadRc(p) \/ Kick(p) \/ ForceAgain(p)

-----------------------------------------------------------------------------
(* The readers. *)

Resume(r, pc) == rpc' = [rpc EXCEPT ![r] = pc]

FirstFree(i) == i \notin cc /\ 0 .. i - 1 \subseteq cc

\* queue_conn::connect up to the CAS on cc_, from reconnect and from recv;
\* with every bit taken the reader is left without an id.
Connect(r) ==
  /\ rpc[r] = "reconnect" \/ (rpc[r] = "idle" /\ Churn)
  /\ ~Live(r)
  /\ \/ \E i \in Ids : /\ FirstFree(i)
                       /\ connected' = [connected EXCEPT ![r] = i]
                       /\ cc' = cc \cup {i}
     \/ /\ Ids \subseteq cc
        /\ connected' = [connected EXCEPT ![r] = NoId]
        /\ UNCHANGED cc
  /\ Resume(r, IF rpc[r] = "idle" THEN "join" ELSE "rejoin")
  /\ UNCHANGED <<ct, epoch, data, rc, fl, producer, cursor, item, rrc>>

\* In recv, connect may find the reader connected after all.
ConnectTwice(r) ==
  /\ rpc[r] = "reconnect" /\ Live(r)
  /\ Resume(r, "pop")
  /\ UNCHANGED <<ring, producer, connected, cursor, item, rrc>>

\* queue_base::connect then reads ct_ into the cursor.
Join(r) ==
  /\ rpc[r] \in {"join", "rejoin"}
  /\ cursor' = [cursor EXCEPT ![r] = IF Live(r) THEN ct ELSE @]
  /\ Resume(r, IF rpc[r] = "join" THEN "idle" ELSE "pop")
  /\ UNCHANGED <<ring, producer, connected, item, rrc>>

Disconnect(r) ==
  /\ Churn
  /\ rpc[r] = "idle" /\ Live(r)
  /\ cc' = cc \ {connected[r]}
  /\ connected' = [connected EXCEPT ![r] = NoId]
  /\ UNCHANGED <<ct, epoch, data, rc, fl, producer, rpc, cursor, item, rrc>>

\* recv returns at once unless the reader is connected.
Recv(r) ==
  /\ rpc[r] = "idle" /\ Live(r)
  /\ Resume(r, "recv")
  /\ UNCHANGED <<ring, producer, connected, cursor, item, rrc>>

\* Before each pop, recv looks whether it has been disconnected meanwhile.
RecvCheck(r) ==
  /\ rpc[r] = "recv"
  /\ Resume(r, IF Live(r) THEN "pop" ELSE "reconnect")
  /\ UNCHANGED <<ring, producer, connected, cursor, item, rrc>>

\* pop: empty unless the flag says the message at the cursor is committed.
PopEmpty(r) ==
  /\ rpc[r] = "pop"
  /\ fl[SlotOf(cursor[r])] # Commit(cursor[r])
  /\ \E next \in {"recv", "idle"} : Resume(r, next)
  /\ UNCHANGED <<ring, producer, connected, cursor, item, rrc>>

\* Slip: taking any committed message.
PopAny(r) ==
  /\ rpc[r] = "pop"
  /\ fl[SlotOf(cursor[r])] < 0
  /\ Resume(r, "copy")
  /\ UNCHANGED <<ring, producer, connected, cursor, item, rrc>>

Pop(r) ==
  /\ rpc[r] = "pop"
  /\ fl[SlotOf(cursor[r])] = Commit(cursor[r])
  /\ Resume(r, "copy")
  /\ UNCHANGED <<ring, producer, connected, cursor, item, rrc>>

\* ++cur and the copy; the slot is that of the old cursor throughout.
Copy(r) ==
  /\ rpc[r] = "copy"
  /\ item' = [item EXCEPT ![r] = data[SlotOf(cursor[r])]]
  /\ Resume(r, "ack")
  /\ UNCHANGED <<ring, producer, connected, cursor, rrc>>

\* The flag the last reader leaves: the position of the next round, computed
\* in 64 bits from the 32-bit cursor already advanced.
NextRound(r) == Succ(cursor[r]) + N - 1

\* pop returns; recv returns too, or goes on with the next fragment.
PopDone(r) ==
  /\ \E next \in {"recv", "idle"} : Resume(r, next)
  /\ cursor' = [cursor EXCEPT ![r] = Succ(@)]
  /\ item' = [item EXCEPT ![r] = NoMsg]
  /\ rrc' = [rrc EXCEPT ![r] = NoWord]

\* Slip: freeing the slot for every reader.
AckLoadEager(r) ==
  LET w == rc[SlotOf(cursor[r])] IN
  /\ rpc[r] = "ack"
  /\ rrc' = [rrc EXCEPT ![r] = w]
  /\ Resume(r, IF w.cc = {} THEN "free" ELSE "last")
  /\ UNCHANGED <<ring, producer, connected, cursor, item>>

\* pop reads rc_: nobody left, this reader the last one, or others to come.
AckLoad(r) ==
  LET w == rc[SlotOf(cursor[r])] IN
  /\ rpc[r] = "ack"
  /\ rrc' = [rrc EXCEPT ![r] = w]
  /\ Resume(r, IF w.cc = {} THEN "free" ELSE IF w.cc \subseteq {connected[r]} THEN "last" ELSE "ackcas")
  /\ UNCHANGED <<ring, producer, connected, cursor, item>>

\* Nobody is left in rc_.
AckFree(r) ==
  /\ rpc[r] = "free"
  /\ fl' = [fl EXCEPT ![SlotOf(cursor[r])] = NextRound(r)]
  /\ PopDone(r)
  /\ UNCHANGED <<cc, ct, epoch, data, rc, producer, connected>>

\* This reader is the last one: the flag is set before its bit is cleared.
AckLast(r) ==
  /\ rpc[r] = "last"
  /\ fl' = [fl EXCEPT ![SlotOf(cursor[r])] = NextRound(r)]
  /\ Resume(r, "ackcas")
  /\ UNCHANGED <<cc, ct, epoch, data, rc, producer, connected, cursor, item, rrc>>

Ack(r) ==
  LET s == SlotOf(cursor[r]) IN
  /\ rpc[r] = "ackcas"
  /\ rc[s] = rrc[r]
  /\ rc' = [rc EXCEPT ![s] = Word(@.cc \ {connected[r]}, @.ep, @.ic + 1)]
  /\ PopDone(r)
  /\ UNCHANGED <<cc, ct, epoch, data, fl, producer, connected>>

AckFails(r) ==
  /\ rpc[r] = "ackcas"
  /\ rc[SlotOf(cursor[r])] # rrc[r] \/ Spurious
  /\ Resume(r, "ack")
  /\ UNCHANGED <<ring, producer, connected, cursor, item, rrc>>

Reading(r) ==
  \/ Recv(r) \/ RecvCheck(r) \/ ConnectTwice(r) \/ PopEmpty(r) \/ Pop(r) \/ Copy(r) \/ AckLoad(r)
  \/ AckFree(r) \/ AckLast(r) \/ Ack(r) \/ AckFails(r)

-----------------------------------------------------------------------------
Next ==
  \/ \E p \in Producers : Send(p) \/ Pushing(p) \/ AfterFailure(p) \/ Forcing(p)
  \/ \E r \in Readers : Connect(r) \/ Join(r) \/ Disconnect(r) \/ Reading(r)

Spec == Init /\ [][Next]_vars

-----------------------------------------------------------------------------
(* Properties. *)

Owns(p) == ppc[p] \in {"store", "fill", "commit"}
Acking  == {"ack", "free", "last", "ackcas"}

\* "only one thread/process would touch here at one time": two producers never
\* own the same position.
OneOwner == \A p, q \in Producers :
  Owns(p) /\ Owns(q) /\ pct[p] = pct[q] => p = q

\* pop hands every reader the message at its cursor: nothing is skipped,
\* repeated or overwritten, however the producers and the other readers'
\* acknowledgements interleave.
InOrder == \A r \in Readers : rpc[r] \in Acking => item[r] = cursor[r]

\* Every message a reader has still to read is in the ring and, unless its
\* producer is still at it, visible: neither a later push nor the flag that
\* the last reader of an earlier round leaves behind takes it away.  Nor does
\* a producer fill the slot a reader is copying, nor the counter in a word run
\* over into the epoch: no word carries one that force_push has not started.
UnreadKept ==
  /\ \A s \in Slots : rc[s].ep <= epoch
  /\ \A r \in Readers :
       LET next == IF rpc[r] \in Acking THEN cursor[r] + 1 ELSE cursor[r] IN
       /\ ct - cursor[r] \in 0 .. N
       /\ \A k \in next .. ct - 1 :
            \/ \E p \in Producers : Owns(p) /\ pct[p] = k
            \/ fl[SlotOf(k)] = Commit(k) /\ data[SlotOf(k)] = k
       /\ \A p \in Producers :
            ppc[p] = "fill" /\ rpc[r] = "copy" => SlotOf(pct[p]) # SlotOf(cursor[r])

\* Nobody but one producer has sent on this channel.
Alone == \E p \in Producers : \A q \in Producers \ {p} : sent[q] = 0

\* With a single producer no reader is handed a message older than its
\* cursor, not even one that was overrun or disconnected by force_push.
NeverStale == Alone => \A r \in Readers : rpc[r] \in Acking => item[r] >= cursor[r]
=============================================================================
