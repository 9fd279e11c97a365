---------------------------- MODULE UnicastRing ----------------------------
(***************************************************************************)
(* The rings of chan<single, multi, unicast> ("sm") and chan<multi, multi, *)
(* unicast> ("mm"): every message goes to one of the readers.  A reader    *)
(* copies the element at rd_ first and takes it afterwards, with a         *)
(* compare-exchange of rd_.  Several writers claim positions with ct_; a   *)
(* written element carries a flag, and wt_ follows the flags, moved by     *)
(* whichever writer or reader finds the next one set.                      *)
(*                                                                         *)
(* Indices are unbounded here and 32 bits wide in the code, the flag ~ct   *)
(* is the position itself, 0 is NoFlag, the payload of a message is its    *)
(* position.  A write takes two steps and leaves Torn in between.          *)
(***************************************************************************)
EXTENDS Integers

CONSTANTS
  RingSize,  \* number of slots (256 in the code)
  UniProducers,
  UniConsumers,
  Connects,  \* number of values of cc_ (2^32 in the code)
  MaxClaim,  \* bound on the messages pushed
  MaxKick    \* bound on the calls of force_push

ASSUME UnicastAssumption ==
  RingSize \in Nat \ {0} /\ Connects \in Nat \ {0, 1} /\ MaxClaim \in Nat /\ MaxKick \in Nat

NoFlag == -1
Torn   == -2

VARIABLES
  policy,         \* "sm" or "mm", fixed in Init
  ucc,            \* cc_
  uwt, urd, uct,  \* wt_, rd_, ct_
  elems,          \* data_ and f_ct_ of each slot
  prod,           \* each producer: where it is, its cur_ct and cac_ct
  cons,           \* each consumer: where it is, its cur_rd, cur_wt and buff
  joined,         \* each consumer: connected_ is not 0
  kicks           \* calls of force_push so far

uniVars == <<policy, ucc, uwt, urd, uct, elems, prod, cons, joined, kicks>>

IndexOf(i) == i % RingSize

NoProd == [pc |-> "idle", ct |-> 0, flag |-> NoFlag]
NoCons == [pc |-> "idle", rd |-> 0, wt |-> 0, buff |-> Torn]

UniInit ==
  /\ policy \in {"sm", "mm"}
  /\ ucc = 0 /\ uwt = 0 /\ urd = 0 /\ uct = 0 /\ kicks = 0
  /\ elems = [s \in 0 .. RingSize - 1 |-> [data |-> Torn, flag |-> NoFlag]]
  /\ prod = [p \in UniProducers |-> NoProd]
  /\ cons = [r \in UniConsumers |-> NoCons]
  /\ joined = [r \in UniConsumers |-> FALSE]

\* A step from one place to another; the locals end with the call.
Prod(p, from, to) ==
  /\ prod[p].pc = from
  /\ prod' = [prod EXCEPT ![p] = IF to = "idle" THEN NoProd ELSE [@ EXCEPT !.pc = to]]
Cons(r, from, to) ==
  /\ cons[r].pc = from
  /\ cons' = [cons EXCEPT ![r] = IF to \in {"idle", "pop"} THEN [NoCons EXCEPT !.pc = to]
                                                         ELSE [@ EXCEPT !.pc = to]]
Data(i, v)        == elems' = [elems EXCEPT ![IndexOf(i)].data = v]

Joined(r) == ucc # 0 /\ joined[r]

-----------------------------------------------------------------------------
(* A producer; a policy with a single producer has one at most in send.    *)

send(p) ==
  /\ Prod(p, "idle", "push")
  /\ ucc # 0
  /\ IF policy = "mm" THEN uct < MaxClaim
     ELSE uwt < MaxClaim /\ \A q \in UniProducers : prod[q].pc = "idle"
  /\ UNCHANGED <<policy, ucc, uwt, urd, uct, elems, cons, joined, kicks>>

\* push with a single producer.
push_single(p) ==
  /\ policy = "sm"
  /\ \/ /\ prod[p].pc = "push"
        /\ prod' = IF IndexOf(uwt + 1) = IndexOf(urd)
                     THEN [prod EXCEPT ![p].pc = "full"]
                     ELSE [prod EXCEPT ![p].pc = "fill", ![p].ct = uwt]
        /\ UNCHANGED uwt
     \/ Prod(p, "flag", "idle") /\ uwt' = uwt + 1
  /\ UNCHANGED <<policy, ucc, urd, uct, elems, cons, joined, kicks>>

push_load(p) ==
  /\ policy = "mm" /\ prod[p].pc = "push"
  /\ prod' = [prod EXCEPT ![p].pc = "room", ![p].ct = uct]
  /\ UNCHANGED <<policy, ucc, uwt, urd, uct, elems, cons, joined, kicks>>

\* Slip: using the last slot too.
SlipLastSlot(p) ==
  /\ \/ Prod(p, "room", "full") /\ prod[p].ct = urd + RingSize
     \/ Prod(p, "room", "claim") /\ prod[p].ct # urd + RingSize
  /\ UNCHANGED <<policy, ucc, uwt, urd, uct, elems, cons, joined, kicks>>

push_room(p) ==
  /\ \/ Prod(p, "room", "full") /\ IndexOf(prod[p].ct + 1) = IndexOf(urd)
     \/ Prod(p, "room", "claim") /\ IndexOf(prod[p].ct + 1) # IndexOf(urd)
  /\ UNCHANGED <<policy, ucc, uwt, urd, uct, elems, cons, joined, kicks>>

\* The compare-exchange of ct_.  The weak form may fail for no reason.
push_claim(p) ==
  /\ \/ Prod(p, "claim", "fill") /\ uct = prod[p].ct /\ uct' = uct + 1
     \/ Prod(p, "claim", "push") /\ UNCHANGED uct
  /\ UNCHANGED <<policy, ucc, uwt, urd, elems, cons, joined, kicks>>

push_fill(p) ==
  /\ \/ Prod(p, "fill", "filling") /\ Data(prod[p].ct, Torn)
     \/ Prod(p, "filling", "flag") /\ Data(prod[p].ct, prod[p].ct)
  /\ UNCHANGED <<policy, ucc, uwt, urd, uct, cons, joined, kicks>>

\* Slip: the flag only where wt_ is.
SlipFlagNext(p) ==
  /\ policy = "mm"
  /\ Prod(p, "flag", "next")
  /\ elems' = IF prod[p].ct # uwt THEN elems
              ELSE [elems EXCEPT ![IndexOf(prod[p].ct)].flag = prod[p].ct]
  /\ UNCHANGED <<policy, ucc, uwt, urd, uct, cons, joined, kicks>>

push_flag(p) ==
  /\ policy = "mm"
  /\ Prod(p, "flag", "next")
  /\ elems' = [elems EXCEPT ![IndexOf(prod[p].ct)].flag = prod[p].ct]
  /\ UNCHANGED <<policy, ucc, uwt, urd, uct, cons, joined, kicks>>

\* The loop that moves wt_: the flag of the element first, then wt_, a relaxed
\* load that may find an older value.
push_next(p) ==
  LET at == prod[p] IN
  /\ \/ /\ at.pc = "next"
        /\ prod' = [prod EXCEPT ![p].pc = "isnext", ![p].flag = elems[IndexOf(at.ct)].flag]
     \/ \E seen \in 0 .. uwt :
          IF at.ct = seen /\ at.flag = at.ct THEN Prod(p, "isnext", "unflag")
                                             ELSE Prod(p, "isnext", "idle")
  /\ UNCHANGED <<policy, ucc, uwt, urd, uct, elems, cons, joined, kicks>>

push_unflag(p) ==
  LET s == IndexOf(prod[p].ct) IN
  /\ \/ /\ Prod(p, "unflag", "move")
        /\ elems[s].flag = prod[p].flag
        /\ elems' = [elems EXCEPT ![s].flag = NoFlag]
     \/ Prod(p, "unflag", "idle") /\ elems[s].flag # prod[p].flag /\ UNCHANGED elems
  /\ UNCHANGED <<policy, ucc, uwt, urd, uct, cons, joined, kicks>>

push_move(p) ==
  /\ prod[p].pc = "move"
  /\ uwt' = prod[p].ct + 1
  /\ prod' = [prod EXCEPT ![p].pc = "next", ![p].ct = @ + 1]
  /\ UNCHANGED <<policy, ucc, urd, uct, elems, cons, joined, kicks>>

\* send tries again, gives up, or calls force_push: disconnect_receiver(1).
push_full(p) ==
  /\ \/ (Prod(p, "full", "push") \/ Prod(p, "full", "idle")) /\ UNCHANGED <<ucc, kicks>>
     \/ /\ Prod(p, "full", "idle")
        /\ kicks < MaxKick /\ kicks' = kicks + 1
        /\ ucc' = (ucc - 1) % Connects
  /\ UNCHANGED <<policy, uwt, urd, uct, elems, cons, joined>>

UniPushing(p) == push_single(p) \/ push_fill(p) \/ push_flag(p)
              \/ push_next(p) \/ push_unflag(p) \/ push_move(p)
Producing(p) == send(p) \/ push_load(p) \/ push_room(p) \/ push_claim(p) \/ push_full(p)

-----------------------------------------------------------------------------
(* A consumer. *)

\* connect counts, and the count is the id.
join(r) ==
  /\ cons[r].pc = "idle" /\ ~Joined(r)
  /\ ucc' = (ucc + 1) % Connects
  /\ joined' = [joined EXCEPT ![r] = ucc' # 0]
  /\ UNCHANGED <<policy, uwt, urd, uct, elems, prod, cons, kicks>>

leave(r) ==
  /\ cons[r].pc = "idle" /\ Joined(r)
  /\ ucc' = (ucc - 1) % Connects
  /\ joined' = [joined EXCEPT ![r] = FALSE]
  /\ UNCHANGED <<policy, uwt, urd, uct, elems, prod, cons, kicks>>

\* pop loads rd_, then wt_.
pop_load(r) ==
  /\ \/ cons[r].pc = "idle" /\ Joined(r)
     \/ cons[r].pc = "pop"
  /\ cons' = [cons EXCEPT ![r].pc = "loaded", ![r].rd = urd]
  /\ UNCHANGED <<policy, ucc, uwt, urd, uct, elems, prod, joined, kicks>>

pop_test(r) ==
  /\ IF IndexOf(cons[r].rd) # IndexOf(uwt) THEN Cons(r, "loaded", "copy")
     ELSE IF policy = "sm" THEN Cons(r, "loaded", "idle")
     ELSE /\ cons[r].pc = "loaded"
          /\ cons' = [cons EXCEPT ![r].pc = "help", ![r].wt = uwt]
  /\ UNCHANGED <<policy, ucc, uwt, urd, uct, elems, prod, joined, kicks>>

\* With nothing between the indices pop looks for a flag at wt_ ...
pop_help(r) ==
  LET set == elems[IndexOf(cons[r].wt)].flag = cons[r].wt IN
  /\ \/ Cons(r, "help", "idle") /\ ~set
     \/ Cons(r, "help", "unflag") /\ set
  /\ UNCHANGED <<policy, ucc, uwt, urd, uct, elems, prod, joined, kicks>>

\* ... and takes it down, unless somebody else has, ...
pop_unflag(r) ==
  LET s == IndexOf(cons[r].wt) IN
  /\ \/ /\ Cons(r, "unflag", "move")
        /\ elems[s].flag = cons[r].wt
        /\ elems' = [elems EXCEPT ![s].flag = NoFlag]
     \/ Cons(r, "unflag", "pop") /\ elems[s].flag # cons[r].wt /\ UNCHANGED elems
  /\ UNCHANGED <<policy, ucc, uwt, urd, uct, prod, joined, kicks>>

\* ... and moves wt_.
pop_move(r) ==
  /\ Cons(r, "move", "pop")
  /\ uwt' = cons[r].wt + 1
  /\ UNCHANGED <<policy, ucc, urd, uct, elems, prod, joined, kicks>>

pop_copy(r) ==
  /\ cons[r].pc = "copy"
  /\ cons' = [cons EXCEPT ![r].pc = "take", ![r].buff = elems[IndexOf(cons[r].rd)].data]
  /\ UNCHANGED <<policy, ucc, uwt, urd, uct, elems, prod, joined, kicks>>

\* Slip: taking whatever is next.
SlipTake(r) ==
  /\ Cons(r, "take", "taken") /\ urd' = urd + 1
  /\ UNCHANGED <<policy, ucc, uwt, uct, elems, prod, joined, kicks>>

\* The compare-exchange of rd_: the copy is good if rd_ is still the same.
pop_take(r) ==
  /\ \/ Cons(r, "take", "taken") /\ urd = cons[r].rd /\ urd' = urd + 1
     \/ Cons(r, "take", "pop") /\ urd # cons[r].rd /\ UNCHANGED urd
  /\ UNCHANGED <<policy, ucc, uwt, uct, elems, prod, joined, kicks>>

pop_return(r) ==
  /\ Cons(r, "taken", "idle")
  /\ UNCHANGED <<policy, ucc, uwt, urd, uct, elems, prod, joined, kicks>>

Popping(r) ==
  \/ pop_load(r) \/ pop_test(r) \/ pop_help(r) \/ pop_unflag(r) \/ pop_move(r)
  \/ pop_copy(r) \/ pop_take(r) \/ pop_return(r)

-----------------------------------------------------------------------------
UniNext ==
  \/ \E p \in UniProducers : Producing(p) \/ UniPushing(p)
  \/ \E r \in UniConsumers : join(r) \/ leave(r) \/ Popping(r)

UniSpec == UniInit /\ [][UniNext]_uniVars

-----------------------------------------------------------------------------
(* Properties. *)

\* A pop returns the message at the position it has taken, whole, although it
\* copies before it takes and writers may be writing where it copies; and no
\* two pops return the same one.
TakenOnce == \A r, q \in UniConsumers :
  cons[r].pc = "taken" =>
    /\ cons[r].buff = cons[r].rd
    /\ cons[q].pc = "taken" /\ q # r => cons[q].buff # cons[r].buff

\* Every message between the indices is in its slot, whoever moves wt_; with
\* several producers wt_ never passes an element that was claimed and not yet
\* written, nor does a claim reach round to what has not been read.  And no
\* message is stranded: with nobody in push or pop, the oldest one that was
\* claimed and not read is before wt_ or carries the flag pop looks for, also
\* where two writers have each left it to the other to move wt_.
UnreadStays ==
  /\ uwt - urd \in 0 .. RingSize - 1
  /\ \A i \in urd .. uwt - 1 : elems[IndexOf(i)].data = i
  /\ policy = "mm" => uct - uwt \in 0 .. RingSize - 1 - (uwt - urd)
  /\ (\A p \in UniProducers : prod[p].pc = "idle") /\ (\A r \in UniConsumers : cons[r].pc = "idle")
       => (uct > uwt => elems[IndexOf(uwt)].flag = uwt)
=============================================================================
