------------------------------ MODULE MemPool ------------------------------
(***************************************************************************)
(* The block pools behind $new and $delete, for one block size.  Each      *)
(* thread has a list of free blocks, cursor_, and allocates and frees      *)
(* without synchronisation.  The lists move between threads through        *)
(* central_cache_pool: a thread that ends leaves its list there, one that  *)
(* starts or has run out takes one.  A list is carried by a node; cached_  *)
(* holds the nodes with a list and aqueired_ the spare ones, both stacks   *)
(* with a compare-exchange on top_.                                        *)
(*                                                                         *)
(* central = "sized" is block_pool<BlockSize, Expansion>, "general" is     *)
(* block_pool<0, 0>, which only takes blocks back.  push loads top_ and    *)
(* stores it in the node in one step: the node is not on a stack.          *)
(***************************************************************************)
EXTENDS Integers, FiniteSets, FiniteSetsExt

CONSTANTS
  PoolThreads,
  Expansion,  \* blocks of a chunk (64 to 512 in the code)
  MaxChunks,  \* chunks that central_cache_allocator has memory for at most
  MaxNodes,   \* nodes it has memory for at most
  Overlap     \* may an aqueire overlap a release?

ASSUME PoolAssumption == Overlap \in BOOLEAN /\ Expansion \in Nat \ {0} /\ MaxChunks \in Nat \ {0} /\ MaxNodes \in Nat

Nil    == 0
Blocks == 1 .. Expansion * MaxChunks
Nodes  == 1 .. MaxNodes

VARIABLES
  central,  \* "sized" or "general", fixed in Init
  chain,    \* block -> block::next
  blocks,   \* number of blocks made so far
  node,     \* node -> value and next
  nodes,    \* number of nodes made so far
  top,      \* top_ of cached_ and of aqueired_
  thr,      \* thread -> where it is, cursor_, its node, old_top and its next
  held,     \* the blocks in the hands of users
  lost      \* auxiliary: the blocks release had no node for

poolVars == <<central, chain, blocks, node, nodes, top, thr, held, lost>>

NoThread == [pc |-> "none", cursor |-> Nil, n |-> Nil, old |-> Nil, nx |-> Nil, get |-> FALSE]

PoolInit ==
  /\ central \in {"sized", "general"}
  /\ chain = [b \in Blocks |-> Nil]
  /\ blocks = IF central = "sized" THEN 0 ELSE Expansion
  /\ held = 1 .. blocks /\ lost = {}
  /\ node = [n \in Nodes |-> [value |-> Nil, next |-> Nil]] /\ nodes = 0
  /\ top = [s \in {"cached", "aqueired"} |-> Nil]
  /\ thr = [t \in PoolThreads |-> NoThread]

Aqueiring(t) == thr[t].pc \in {"a_pop", "a_next", "a_cas", "a_push", "a_pcas", "a_value"}
Releasing(t) == thr[t].pc \in {"r_pop", "r_next", "r_cas", "r_node", "r_value", "r_push", "r_pcas"}
Step(t, r)   == thr' = [thr EXCEPT ![t] = r]
Apart(Other(_)) == Overlap \/ \A u \in PoolThreads : ~Other(u)

\* What is linked to x, x included, in at most k steps.
Linked(link, x, k) ==
  LET reach[i \in 0 .. k] ==
        IF i = 0 THEN {x} \ {Nil} ELSE reach[i - 1] \cup ({link[y] : y \in reach[i - 1]} \ {Nil})
  IN reach[k]

\* The blocks of the list that begins with b.
Chain(b) == Linked(chain, b, blocks)

-----------------------------------------------------------------------------
(* intrusive_stack *)

\* Slip: taking the node off without a comparison.
SlipPop(t, s, load, next, cas, empty, got) ==
  LET me == thr[t] IN
  /\ \/ me.pc = load /\ Step(t, [me EXCEPT !.old = top[s], !.n = Nil,
                                           !.pc = IF top[s] = Nil THEN empty ELSE next])
                     /\ UNCHANGED top
     \/ me.pc = next /\ Step(t, [me EXCEPT !.nx = node[me.old].next, !.pc = cas])
                     /\ UNCHANGED top
     \/ /\ me.pc = cas
        /\ top' = [top EXCEPT ![s] = me.nx]
        /\ Step(t, [me EXCEPT !.n = me.old, !.old = Nil, !.nx = Nil, !.pc = got])
  /\ UNCHANGED <<central, chain, blocks, node, nodes, held, lost>>

\* pop, one step per access: top_, the next of the node found, the
\* compare-exchange.  An empty stack leads to empty, a node to got.
stack_pop(t, s, load, next, cas, empty, got) ==
  LET me == thr[t] IN
  /\ \/ me.pc = load /\ Step(t, [me EXCEPT !.old = top[s], !.n = Nil,
                                           !.pc = IF top[s] = Nil THEN empty ELSE next])
                     /\ UNCHANGED top
     \/ me.pc = next /\ Step(t, [me EXCEPT !.nx = node[me.old].next, !.pc = cas])
                     /\ UNCHANGED top
     \/ /\ me.pc = cas /\ top[s] = me.old
        /\ top' = [top EXCEPT ![s] = me.nx]
        /\ Step(t, [me EXCEPT !.n = me.old, !.old = Nil, !.nx = Nil, !.pc = got])
     \/ /\ me.pc = cas /\ top[s] # me.old
        /\ Step(t, [me EXCEPT !.nx = Nil, !.pc = load])
        /\ UNCHANGED top
  /\ UNCHANGED <<central, chain, blocks, node, nodes, held, lost>>

stack_push(t, s, load, cas, done) ==
  LET me == thr[t] IN
  /\ \/ /\ me.pc = load
        /\ node' = [node EXCEPT ![me.n].next = top[s]]
        /\ Step(t, [me EXCEPT !.old = top[s], !.pc = cas])
        /\ UNCHANGED top
     \/ /\ me.pc = cas /\ top[s] = me.old
        /\ top' = [top EXCEPT ![s] = me.n]
        /\ Step(t, [me EXCEPT !.old = Nil, !.pc = done])
        /\ UNCHANGED node
     \/ /\ me.pc = cas /\ top[s] # me.old
        /\ Step(t, [me EXCEPT !.pc = load])
        /\ UNCHANGED <<node, top>>
  /\ UNCHANGED <<central, chain, blocks, nodes, held, lost>>

-----------------------------------------------------------------------------
(* central_cache_pool *)

\* aqueire: a node from cached_, which becomes a spare one.
aqueire(t) ==
  \/ stack_pop(t, "cached", "a_pop", "a_next", "a_cas", "a_none", "a_push")
  \/ stack_push(t, "aqueired", "a_push", "a_pcas", "a_value")

\* The cursor is there: the constructor is done, or allocate goes on.
\* allocate returns nullptr if there is no list.
Got(t, b) ==
  [NoThread EXCEPT !.pc = IF thr[t].get /\ b # Nil THEN "get" ELSE "live", !.cursor = b]

\* The list is read from the node after the node has become a spare one.
aqueire_value(t) ==
  /\ thr[t].pc = "a_value"
  /\ Step(t, Got(t, node[thr[t].n].value))
  /\ UNCHANGED <<central, chain, blocks, node, nodes, top, held, lost>>

\* No list: a new chunk, linked up, unless the pool is the general one.
aqueire_chunk(t) ==
  /\ thr[t].pc = "a_none" /\ central = "sized"
  /\ blocks + Expansion <= Cardinality(Blocks)
  /\ blocks' = blocks + Expansion
  /\ chain' = [b \in Blocks |->
       IF b \in blocks + 1 .. blocks + Expansion - 1 THEN b + 1 ELSE chain[b]]
  /\ Step(t, Got(t, blocks + 1))
  /\ UNCHANGED <<central, node, nodes, top, held, lost>>

\* The general pool allocates nothing, and the allocator may have no memory.
aqueire_none(t) ==
  /\ thr[t].pc = "a_none"
  /\ Step(t, Got(t, Nil))
  /\ UNCHANGED <<central, chain, blocks, node, nodes, top, held, lost>>

\* release: a spare node, or a new one, ...
release_node(t) ==
  /\ thr[t].pc = "r_node"
  /\ nodes < MaxNodes /\ nodes' = nodes + 1
  /\ Step(t, [thr[t] EXCEPT !.n = nodes', !.pc = "r_value"])
  /\ UNCHANGED <<central, chain, blocks, node, top, held, lost>>

\* ... or none, and the list is lost (once: a bound).
release_fails(t) ==
  /\ thr[t].pc = "r_node" /\ lost = {}
  /\ lost' = lost \cup Chain(thr[t].cursor)
  /\ Step(t, NoThread)
  /\ UNCHANGED <<central, chain, blocks, node, nodes, top, held>>

\* The node takes the list ...
release_value(t) ==
  /\ thr[t].pc = "r_value"
  /\ node' = [node EXCEPT ![thr[t].n].value = thr[t].cursor]
  /\ Step(t, [thr[t] EXCEPT !.cursor = Nil, !.pc = "r_push"])
  /\ UNCHANGED <<central, chain, blocks, nodes, top, held, lost>>

\* ... and goes to cached_.
pool_release(t) ==
  \/ stack_pop(t, "aqueired", "r_pop", "r_next", "r_cas", "r_node", "r_value")
  \/ stack_push(t, "cached", "r_push", "r_pcas", "none")

-----------------------------------------------------------------------------
(* block_pool *)

\* The constructor, at a thread's first use of the pool.
pool_start(t) ==
  /\ thr[t].pc = "none"
  /\ Step(t, [NoThread EXCEPT !.pc = "a_pop"])
  /\ Apart(Releasing)
  /\ UNCHANGED <<central, chain, blocks, node, nodes, top, held, lost>>

\* The destructor, at the end of the thread.
pool_end(t) ==
  /\ thr[t].pc = "live"
  /\ IF thr[t].cursor = Nil THEN Step(t, NoThread)
     ELSE Step(t, [thr[t] EXCEPT !.pc = "r_pop"]) /\ Apart(Aqueiring)
  /\ UNCHANGED <<central, chain, blocks, node, nodes, top, held, lost>>

\* allocate: a block of the thread's list; first another list if it is empty.
\* The user's data takes the place of next.
pool_allocate(t) ==
  LET b == thr[t].cursor IN
  /\ central = "sized"
  /\ \/ /\ thr[t].pc = "live" /\ b = Nil
        /\ Step(t, [NoThread EXCEPT !.pc = "a_pop", !.get = TRUE])
        /\ Apart(Releasing)
        /\ UNCHANGED held
     \/ /\ thr[t].pc \in {"live", "get"} /\ b # Nil
        /\ Step(t, [NoThread EXCEPT !.pc = "live", !.cursor = chain[b]])
        /\ held' = held \cup {b}
  /\ chain' = IF held' = held THEN chain ELSE [chain EXCEPT ![b] = Nil]
  /\ UNCHANGED <<central, blocks, node, nodes, top, lost>>

\* deallocate, by any thread.
pool_deallocate(t, b) ==
  /\ thr[t].pc = "live" /\ b \in held
  /\ chain' = [chain EXCEPT ![b] = thr[t].cursor]
  /\ Step(t, [thr[t] EXCEPT !.cursor = b])
  /\ held' = held \ {b}
  /\ UNCHANGED <<central, blocks, node, nodes, top, lost>>

\* A pool of a size takes over the list of a general one, and hands it out.
pool_adopt(t) ==
  /\ central = "general" /\ thr[t].pc = "live" /\ thr[t].cursor # Nil
  /\ held' = held \cup Chain(thr[t].cursor)
  /\ Step(t, [thr[t] EXCEPT !.cursor = Nil])
  /\ UNCHANGED <<central, chain, blocks, node, nodes, top, lost>>

PoolNext == \E t \in PoolThreads :
  \/ pool_start(t) \/ pool_end(t) \/ pool_allocate(t) \/ pool_adopt(t)
  \/ \E b \in Blocks : pool_deallocate(t, b)
  \/ aqueire(t) \/ aqueire_value(t) \/ aqueire_chunk(t) \/ aqueire_none(t)
  \/ pool_release(t) \/ release_node(t) \/ release_fails(t) \/ release_value(t)

PoolSpec == PoolInit /\ [][PoolNext]_poolVars

-----------------------------------------------------------------------------
(* Properties. *)

\* The nodes on cached_.
Cached == Linked([n \in Nodes |-> node[n].next], top["cached"], MaxNodes)

\* The nodes whose list is nobody else's: those on cached_ and those a thread
\* has in its hands with a list to be read or to be put there.
Carrying == Cached \cup
  {thr[t].n : t \in {u \in PoolThreads :
     thr[u].pc \in {"a_push", "a_pcas", "a_value", "r_push", "r_pcas"}}}

\* What each owner has: the users, every thread and every node.
Owned == {<<"users", Nil, held>>}
           \cup {<<"thread", t, Chain(thr[t].cursor)>> : t \in PoolThreads}
           \cup {<<"node", n, Chain(node[n].value)>> : n \in Carrying}

\* "This function is thread-safe" ($new and $delete): a block is in the hands
\* of a user, in the list of one thread or in one list of the central cache.
OneOwnerEach == LET own == Owned IN \A x, y \in own : x # y => x[3] \cap y[3] = {}

\* As long as no aqueire overlaps a release, that holds, and no block is lost
\* but for want of memory: threads may start, run out and allocate at the same
\* time, and end at the same time.
PoolOwned == OneOwnerEach /\ UNION {x[3] : x \in Owned} = (1 .. blocks) \ lost
=============================================================================
