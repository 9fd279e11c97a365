------------------------------ MODULE ConnInit ------------------------------
(***************************************************************************)
(* What happens before a handle can send or receive: conn_info_t takes an  *)
(* identity from the prefix's accumulator, maps the ring and lets          *)
(* conn_head_base::init construct the ring's head, which must happen once; *)
(* and, on the way to a large message, chunk_storage_info finds or makes   *)
(* the process's table entry for the message's size.                       *)
(*                                                                         *)
(* init constructs the whole head in place: the connections and the spin   *)
(* lock it holds itself are among what it resets, member by member and in  *)
(* an order that is the compiler's.                                        *)
(***************************************************************************)
EXTENDS Integers, FiniteSets, FiniteSetsExt

CONSTANTS
  Openers,              \* handles, of threads or processes
  IdWrap,               \* 2^32, where identities start over
  MaxBorn,              \* bound on the handles made
  Slots,                \* 32, the bits of cc_
  Callers,              \* threads of one process that need a chunk
  Sizes,                \* sizes of large messages
  Prefixes,
  ChunkAlign, MaxAlignOf, ConnSize  \* large_msg_align, max_align_t, cc_t

ASSUME ConnAssumption ==
  /\ {IdWrap, Slots, ChunkAlign, MaxAlignOf, ConnSize} \subseteq Nat \ {0}
  /\ MaxBorn \in Nat /\ Sizes \subseteq Nat \ {0}

VARIABLES
  accum,    \* the shared accumulator of the prefix
  ident,    \* conn_info_head::cc_id_ of each handle
  born,     \* how many identities were given before it
  births,   \* identities given so far
  users,    \* the handles that map the ring
  ring,     \* lc_, constructed_ and cc_, the bits as a set
  opener,   \* where each handle is
  wiping,   \* the members its constructor has still to reset
  bit,      \* queue_conn::connected_, Slots for none
  calm,     \* auxiliary: no two handles were the first to open the ring
  storages, \* chunk_storages: the handle table of each chunk size
  tables,   \* tables made so far
  segments, \* what each table has mapped, by prefix
  caller    \* where each thread is, what it asked for and what it found

ringVars  == <<accum, ident, born, births, users, ring, opener, wiping, bit, calm>>
chunkVars == <<storages, tables, segments, caller>>
connVars  == <<ringVars, chunkVars>>

Fresh == [lc |-> FALSE, constructed |-> FALSE, cc |-> {}]

-----------------------------------------------------------------------------
(* The head of the ring. *)

To(h, from, to) == opener[h] = from /\ opener' = [opener EXCEPT ![h] = to]

\* Slip: the identity that cannot be 0 made up instead of asked for.
SlipIdentify(h) ==
  LET id == (accum + 1) % IdWrap IN
  /\ To(h, "none", "open")
  /\ births < MaxBorn
  /\ accum' = id
  /\ ident' = [ident EXCEPT ![h] = IF id = 0 THEN 1 ELSE id]
  /\ births' = births + 1 /\ born' = [born EXCEPT ![h] = births]
  /\ UNCHANGED <<users, ring, wiping, bit, calm>>

\* conn_info_head::init: an identity from the accumulator ...
identify(h) ==
  LET id == (accum + 1) % IdWrap IN
  /\ To(h, "none", IF id = 0 THEN "again" ELSE "open")
  /\ births < MaxBorn
  /\ accum' = id
  /\ ident' = [ident EXCEPT ![h] = id]
  /\ births' = births + 1 /\ born' = [born EXCEPT ![h] = births]
  /\ UNCHANGED <<users, ring, wiping, bit, calm>>

\* ... and another, if that was 0.
identify_again(h) ==
  /\ To(h, "again", "open")
  /\ accum' = (accum + 1) % IdWrap
  /\ ident' = [ident EXCEPT ![h] = accum']
  /\ births' = births + 1 /\ born' = [born EXCEPT ![h] = births]
  /\ UNCHANGED <<users, ring, wiping, bit, calm>>

Starting == {"check", "lock", "recheck", "wipe", "store", "unlock"}

\* queue_conn::open maps the ring, new and zero if nobody has it.
open(h) ==
  /\ To(h, "open", "check")
  /\ users' = users \cup {h}
  /\ ring' = IF users = {} THEN Fresh ELSE ring
  /\ calm' = (calm /\ \A g \in users : opener[g] \notin Starting)
  /\ UNCHANGED <<accum, ident, born, births, wiping, bit>>

\* The ring cannot be mapped: elems_ stays null, and the handle is no use
\* until init is called again.
open_fails(h) ==
  /\ opener[h] = "open"
  /\ opener' = [opener EXCEPT ![h] = "invalid"]
  /\ UNCHANGED <<accum, ident, born, births, users, ring, wiping, bit, calm>>

reopen(h) ==
  /\ To(h, "invalid", "open")
  /\ UNCHANGED <<accum, ident, born, births, users, ring, wiping, bit, calm>>

\* init, the first look at constructed_, ...
init_check(h) ==
  /\ To(h, "check", IF ring.constructed THEN "ready" ELSE "lock")
  /\ UNCHANGED <<accum, ident, born, births, users, ring, wiping, bit, calm>>

init_lock(h) ==
  /\ To(h, "lock", "recheck")
  /\ ~ring.lc
  /\ ring' = [ring EXCEPT !.lc = TRUE]
  /\ UNCHANGED <<accum, ident, born, births, users, wiping, bit, calm>>

\* ... the second, ...
init_recheck(h) ==
  /\ To(h, "recheck", IF ring.constructed THEN "unlock" ELSE "wipe")
  /\ wiping' = [wiping EXCEPT ![h] = IF ring.constructed THEN {} ELSE DOMAIN ring]
  /\ UNCHANGED <<accum, ident, born, births, users, ring, bit, calm>>

\* ... the constructor, a member at a time, ...
construct(h) ==
  /\ opener[h] = "wipe"
  /\ \E m \in wiping[h] :
       /\ ring' = [ring EXCEPT ![m] = Fresh[m]]
       /\ wiping' = [wiping EXCEPT ![h] = @ \ {m}]
       /\ opener' = [opener EXCEPT ![h] = IF wiping[h] = {m} THEN "store" ELSE "wipe"]
  /\ UNCHANGED <<accum, ident, born, births, users, bit, calm>>

\* Slip: constructed_ left as the constructor sets it.
SlipStore(h) ==
  /\ To(h, "store", "unlock")
  /\ UNCHANGED <<accum, ident, born, births, users, ring, wiping, bit, calm>>

\* ... and the word that it is done.
init_store(h) ==
  /\ To(h, "store", "unlock")
  /\ ring' = [ring EXCEPT !.constructed = TRUE]
  /\ UNCHANGED <<accum, ident, born, births, users, wiping, bit, calm>>

init_unlock(h) ==
  /\ To(h, "unlock", "ready")
  /\ ring' = [ring EXCEPT !.lc = FALSE]
  /\ UNCHANGED <<accum, ident, born, births, users, wiping, bit, calm>>

\* queue_conn::connect with conn_head::connect: the first bit that is 0, if
\* there is one; a handle that is connected stays so.
connect(h) ==
  LET free == (0 .. Slots - 1) \ ring.cc IN
  /\ opener[h] = "ready" /\ bit[h] \notin ring.cc
  /\ bit' = [bit EXCEPT ![h] = IF free = {} THEN Slots ELSE Min(free)]
  /\ ring' = [ring EXCEPT !.cc = IF free = {} THEN @ ELSE @ \cup {Min(free)}]
  /\ UNCHANGED <<accum, ident, born, births, users, opener, wiping, calm>>

disconnect(h) ==
  /\ opener[h] = "ready" /\ bit[h] \in ring.cc
  /\ ring' = [ring EXCEPT !.cc = @ \ {bit[h]}]
  /\ bit' = [bit EXCEPT ![h] = Slots]
  /\ UNCHANGED <<accum, ident, born, births, users, opener, wiping, calm>>

\* destroy, which disconnects before it unmaps, or release, which does not.
close(h) ==
  /\ To(h, "ready", "none")
  /\ \E cc \in {ring.cc, ring.cc \ {bit[h]}} : ring' = [ring EXCEPT !.cc = cc]
  /\ users' = users \ {h}
  /\ bit' = [bit EXCEPT ![h] = Slots]
  /\ ident' = [ident EXCEPT ![h] = 0]
  /\ UNCHANGED <<accum, born, births, wiping, calm>>

RingNext == \E h \in Openers :
  \/ identify(h) \/ identify_again(h) \/ open(h) \/ open_fails(h) \/ reopen(h)
  \/ init_check(h) \/ init_lock(h) \/ init_recheck(h) \/ construct(h)
  \/ init_store(h) \/ init_unlock(h) \/ connect(h) \/ disconnect(h) \/ close(h)

RingInit ==
  /\ accum = 0 /\ births = 0 /\ users = {} /\ ring = Fresh /\ calm = TRUE
  /\ ident = [h \in Openers |-> 0] /\ born = [h \in Openers |-> 0]
  /\ opener = [h \in Openers |-> "none"]
  /\ wiping = [h \in Openers |-> {}] /\ bit = [h \in Openers |-> Slots]

-----------------------------------------------------------------------------
(* The tables of chunks. *)

NoTable == 0
NoCall == [at |-> "idle", pref |-> NoTable, size |-> 0, table |-> NoTable]

make_align(align, size) == ((size + align - 1) \div align) * align
ChunkHead == make_align(MaxAlignOf, ConnSize)
calc_chunk_size(size) ==
  make_align(MaxAlignOf, (((ChunkHead + size - 1) \div ChunkAlign) + 1) * ChunkAlign)

\* chunk_storage_info looks under the shared lock, ...
find(t, p, size) ==
  LET table == storages[calc_chunk_size(size)] IN
  /\ caller[t].at = "idle"
  /\ caller' = [caller EXCEPT ![t] =
       [at |-> IF table = NoTable THEN "emplace" ELSE "get", pref |-> p, size |-> size, table |-> table]]
  /\ UNCHANGED <<storages, tables, segments>>

\* Slip: the new table always takes the place.
SlipEmplace(t) ==
  LET chunk == calc_chunk_size(caller[t].size) IN
  /\ caller[t].at = "emplace"
  /\ tables' = tables + 1
  /\ storages' = [storages EXCEPT ![chunk] = tables']
  /\ caller' = [caller EXCEPT ![t].at = "get", ![t].table = storages'[chunk]]
  /\ UNCHANGED segments

\* ... and, after it has let go of that, emplaces under the exclusive one: a
\* table that somebody else has put there in between stays.
emplace(t) ==
  LET chunk == calc_chunk_size(caller[t].size) IN
  /\ caller[t].at = "emplace"
  /\ tables' = tables + 1
  /\ storages' = [storages EXCEPT ![chunk] = IF @ = NoTable THEN tables' ELSE @]
  /\ caller' = [caller EXCEPT ![t].at = "get", ![t].table = storages'[chunk]]
  /\ UNCHANGED segments

\* get_info maps the segment of this prefix, once and under the table's lock.
get_info(t) ==
  /\ caller[t].at = "get"
  /\ segments' = segments \cup {[table |-> caller[t].table, pref |-> caller[t].pref]}
  /\ caller' = [caller EXCEPT ![t].at = "got"]
  /\ UNCHANGED <<storages, tables>>

\* The segment cannot be mapped: nothing is left behind, the next call tries.
get_fails(t) ==
  /\ caller[t].at = "get"
  /\ [table |-> caller[t].table, pref |-> caller[t].pref] \notin segments
  /\ caller' = [caller EXCEPT ![t] = NoCall]
  /\ UNCHANGED <<storages, tables, segments>>

\* The thread is done with the chunk.
done(t) ==
  /\ caller[t].at = "got"
  /\ caller' = [caller EXCEPT ![t] = NoCall]
  /\ UNCHANGED <<storages, tables, segments>>

ChunkNext == \E t \in Callers :
  \/ \E p \in Prefixes, size \in Sizes : find(t, p, size)
  \/ emplace(t) \/ get_info(t) \/ get_fails(t) \/ done(t)

ChunkInit ==
  /\ storages = [c \in {calc_chunk_size(s) : s \in Sizes} |-> NoTable]
  /\ tables = 0 /\ segments = {} /\ caller = [t \in Callers |-> NoCall]

ConnNext == (RingNext /\ UNCHANGED chunkVars) \/ (ChunkNext /\ UNCHANGED ringVars)
ConnSpec == RingInit /\ ChunkInit /\ [][ConnNext]_connVars

-----------------------------------------------------------------------------
(* Properties. *)

\* What a connected handle relies on: its bit is set and is its own.
BitKept == \A h \in Openers : bit[h] # Slots =>
  bit[h] \in ring.cc /\ \A g \in Openers : bit[g] = bit[h] => g = h

\* Handles are told apart.  "The identity cannot be 0", and those that exist at
\* the same time have different ones, by which recv tells its own messages:
\* also across the accumulator's end, unless all of the identities were given
\* out in between.  And a ring that one handle constructs before the next one
\* opens it keeps their bits: no connection is lost to a second construction.
ToldApart ==
  /\ \A h \in Openers : opener[h] \notin {"none", "again"} => ident[h] # 0
  /\ \A h, g \in Openers :
       /\ h # g /\ ident[h] # 0 /\ ident[h] = ident[g]
       => ~(born[g] - born[h] \in 0 .. IdWrap - 2) /\ ~(born[h] - born[g] \in 0 .. IdWrap - 2)
  /\ calm => BitKept

\* "DCLP": init constructs the ring once, and so at no time a connection is
\* lost to it.
ConstructedOnce == BitKept

\* Threads that ask for chunks of one size and prefix get them out of one
\* table and one segment, which hold chunks large enough, and no table that a
\* thread has in hand is replaced.
OneTable == \A t \in Callers : caller[t].at \in {"get", "got"} =>
  LET chunk == calc_chunk_size(caller[t].size) IN
  /\ storages[chunk] = caller[t].table
  /\ chunk >= ChunkHead + caller[t].size /\ chunk % MaxAlignOf = 0
=============================================================================
