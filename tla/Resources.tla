----------------------------- MODULE Resources -----------------------------
(***************************************************************************)
(* Memory: monotonic_buffer_resource, which hands out pieces of a buffer   *)
(* and of ever larger chunks from upstream and takes them back all at once *)
(* (res), and the choice of a pool by size in $new, $delete and            *)
(* container_allocator (objs).  Addresses are numbers, Null is nullptr.    *)
(* central_cache_allocator is a monotonic resource under a mutex, so that  *)
(* an allocation is one step.                                              *)
(***************************************************************************)
EXTENDS Integers, FiniteSets, FiniteSetsExt

CONSTANTS
  MaxAlign,    \* what upstream aligns to: alignof(std::max_align_t)
  NodeSize,    \* sizeof(monotonic_buffer_resource::node)
  Alignments, Requests,  \* the arguments of allocate
  Buffers,     \* the initial buffers, as records of begin and size
  HeadSize,    \* regular_head_size
  Objects,     \* the sizes given to $new and to a container's allocator
  MaxLive      \* bound on the allocations outstanding

Null == 0
Heap == 32     \* the first address upstream gives out; buffers are below

\* Alignments are powers of two, and so is MaxAlign: one divides the other.
\* A node is two words.
ASSUME ResourcesAssumption ==
  /\ MaxAlign \in Nat \ {0} /\ NodeSize \in 1 .. MaxAlign
  /\ Alignments \subseteq Nat \ {0}
  /\ \A a \in Alignments : a % MaxAlign = 0 \/ MaxAlign % a = 0
  /\ Requests \subseteq Nat /\ Objects \subseteq Nat /\ HeadSize \in Nat
  /\ \A b \in Buffers : /\ b.begin \in Nat /\ b.size \in Nat /\ (b.begin = Null => b.size = 0)
                        /\ b.begin + b.size <= Heap

VARIABLES
  res,       \* head_, tail_, next_size_, initial_buffer_, initial_size_, free_list_
  upstream,  \* the chunks upstream has given out, as address and size
  brk,       \* the first address upstream has never given out
  live,      \* the pieces handed out
  ran,       \* a chunk was made and the piece did not fit into it
  objs       \* the objects of $new: size asked for, pool, size in the head

resVars == <<res, upstream, brk, live, ran>>

-----------------------------------------------------------------------------
(* Helpers. *)

round_up(v, a) == ((v + a - 1) \div a) * a

verify_args(bytes, alignment) == bytes > 0 /\ \E i \in 0 .. 6 : alignment = 2 ^ i

next_buffer_size(size) == (size * 3) \div 2

\* std::align: the first aligned address in the s bytes from p with bytes
\* bytes after it, or Null.
align(alignment, bytes, p, s) ==
  LET a == round_up(p, alignment) IN IF a - p + bytes <= s THEN a ELSE Null

\* The resource as constructed, and as release leaves it.
Reset(buffer, size) ==
  [head |-> buffer, tail |-> IF buffer = Null THEN Null ELSE buffer + size,
   next_size |-> IF buffer = Null THEN size ELSE next_buffer_size(size),
   initial_buffer |-> buffer, initial_size |-> size, free_list |-> {}]

ResInit ==
  /\ \/ \E b \in Buffers : res = Reset(b.begin, b.size)
     \/ \E s \in Requests \cup {0} : res = Reset(Null, s)
  /\ upstream = {} /\ brk = Heap /\ live = {} /\ ran = FALSE

-----------------------------------------------------------------------------
(* monotonic_buffer_resource over new_delete_resource *)

\* Slip: no room for the padding.
SlipNode(size, alignment) == NodeSize + size

\* make_node: room for the node, padded, and for size bytes.
make_node(size, alignment) == round_up(NodeSize, alignment) + size

\* The end of what is left in a chunk after the padding before p.
tail_after(p, left, chunk) == p + left - (p - (chunk.addr + NodeSize))

\* new_delete_resource::allocate: fresh memory aligned to max_align_t.
Fresh(size) ==
  {[addr |-> round_up(brk, MaxAlign) + i * MaxAlign, size |-> size] : i \in 0 .. 1}

\* The piece fits into what is left.
allocate_here(bytes, alignment) ==
  LET p == align(alignment, bytes, res.head, res.tail - res.head) IN
  /\ verify_args(bytes, alignment) /\ Cardinality(live) < MaxLive
  /\ p # Null
  /\ res' = [res EXCEPT !.head = p + bytes]
  /\ live' = live \cup {[p |-> p, bytes |-> bytes, alignment |-> alignment]}
  /\ UNCHANGED <<upstream, brk, ran>>

\* It does not: a chunk of the next size, or of the piece's if that is larger.
allocate_chunk(bytes, alignment) ==
  LET size == Max({res.next_size, bytes}) IN
  /\ verify_args(bytes, alignment) /\ Cardinality(live) < MaxLive
  /\ align(alignment, bytes, res.head, res.tail - res.head) = Null
  /\ \E chunk \in Fresh(make_node(size, alignment)) :
       LET left == chunk.size - NodeSize
           p    == align(alignment, bytes, chunk.addr + NodeSize, left)
           more == [res EXCEPT !.next_size = next_buffer_size(size),
                               !.free_list = @ \cup {chunk}]
       IN /\ upstream' = upstream \cup {chunk}
          /\ brk' = chunk.addr + chunk.size
          /\ IF p = Null
               THEN ran' = TRUE /\ res' = more /\ UNCHANGED live
               ELSE /\ res' = [more EXCEPT !.tail = tail_after(p, left, chunk),
                                           !.head = p + bytes]
                    /\ live' = live \cup {[p |-> p, bytes |-> bytes, alignment |-> alignment]}
                    /\ UNCHANGED ran

\* Upstream has no memory: only next_size_ has changed.
allocate_fails(bytes, alignment) ==
  /\ verify_args(bytes, alignment)
  /\ align(alignment, bytes, res.head, res.tail - res.head) = Null
  /\ res' = [res EXCEPT !.next_size = Max({res.next_size, bytes})]
  /\ UNCHANGED <<upstream, brk, live, ran>>

\* Every chunk goes back upstream, and with them all the pieces.
release_all ==
  /\ upstream' = upstream \ res.free_list
  /\ res' = Reset(res.initial_buffer, res.initial_size)
  /\ live' = {}
  /\ brk' = Heap
  /\ UNCHANGED ran

-----------------------------------------------------------------------------
(* The pools by size *)

regular_level(s) ==
  IF s <= 128 THEN 0 ELSE IF s <= 1024 THEN 1 ELSE IF s <= 8192 THEN 2
  ELSE IF s <= 65536 THEN 3 ELSE 4

\* Slip: the steps of the level below.
SlipPool(s) ==
  LET step == <<16, 16, 128, 1024>> IN
  IF s = 0 \/ regular_level(s) = 4 THEN 0 ELSE round_up(s, step[regular_level(s) + 1])

\* The block size of the pool for s bytes; 0 is the pool of new and delete.
get_regular_resource(s) ==
  LET step == <<16, 128, 1024, 8192>> IN
  IF s = 0 \/ regular_level(s) = 4 THEN 0 ELSE round_up(s, step[regular_level(s) + 1])

\* $new, for a type and for bytes: the size asked for and the head, from the
\* pool for both; the head remembers how to give it back.
new_object(bytes) ==
  /\ bytes # 0 /\ Cardinality(objs) < 2
  /\ objs' = objs \cup {[by |-> "new", bytes |-> bytes, free |-> HeadSize + bytes,
                         pool |-> get_regular_resource(HeadSize + bytes)]}

\* container_allocator has no head: the container says the count again.
container_allocate(bytes) ==
  /\ bytes # 0 /\ Cardinality(objs) < 2
  /\ objs' = objs \cup {[by |-> "container", bytes |-> bytes, free |-> bytes,
                         pool |-> get_regular_resource(bytes)]}

\* $delete and deallocate.
delete_object(o) == objs' = objs \ {o}

ResNext ==
  \/ \E b \in Requests, a \in Alignments :
       allocate_here(b, a) \/ allocate_chunk(b, a) \/ allocate_fails(b, a)
  \/ release_all

ObjNext ==
  \/ \E b \in Objects : new_object(b) \/ container_allocate(b)
  \/ \E o \in objs : delete_object(o)

ResSpec == /\ ResInit /\ objs = {}
           /\ [][(ResNext /\ UNCHANGED objs) \/ (ObjNext /\ UNCHANGED resVars)]_<<resVars, objs>>

-----------------------------------------------------------------------------
(* Properties. *)

\* The bytes of a piece, and the places where pieces may be: the initial
\* buffer and each chunk without its node.
Span(p, bytes) == p .. p + bytes - 1
Places == {Span(b, res.initial_size) : b \in {res.initial_buffer} \ {Null}} \cup
          {Span(c.addr + NodeSize, c.size - NodeSize) : c \in upstream}

\* A monotonic resource hands out aligned pieces that lie in its buffer or in
\* one of its chunks, off the chunk's node, and do not overlap; what is left
\* lies there as well; a chunk made for a piece always has room for it, for
\* alignments beyond max_align_t too; and every chunk is on the list release
\* walks along.
PiecesApart ==
  /\ ~ran /\ upstream = res.free_list
  /\ \A x \in live :
       /\ x.p % x.alignment = 0
       /\ \E place \in Places : Span(x.p, x.bytes) \subseteq place
       /\ \A y \in live : x # y => Span(x.p, x.bytes) \cap Span(y.p, y.bytes) = {}
       /\ Span(x.p, x.bytes) \cap Span(res.head, res.tail - res.head) = {}
  /\ res.head # res.tail => \E place \in Places : Span(res.head, res.tail - res.head) \subseteq place

\* The pool of an object has blocks large enough for the object and its head,
\* none of the smaller ones has, and what is remembered for $delete leads to
\* the same pool.
PoolFits == \A o \in objs :
  LET sizes == {16 * i : i \in 1 .. 8} \cup {128 * i : i \in 2 .. 8}
               \cup {1024 * i : i \in 2 .. 8} \cup {8192 * i : i \in 2 .. 8}
      need  == o.bytes + (IF o.by = "new" THEN HeadSize ELSE 0)
      large == {z \in sizes : z >= need}
  IN /\ o.pool = (IF large = {} THEN 0 ELSE Min(large))
     /\ get_regular_resource(o.free) = o.pool

\* What a resource hands out is where it says and large enough: a monotonic
\* resource's pieces apart from each other, a pool's blocks for the object.
MemoryFits == PiecesApart /\ PoolFits
=============================================================================
